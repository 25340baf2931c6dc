---------------------------- MODULE MCEventPages -----------------------------
(* Model values for EventPages. *)
EXTENDS EventPages

CONSTANTS t1, t2, d1, d2, r1
=============================================================================
