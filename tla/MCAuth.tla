------------------------------- MODULE MCAuth --------------------------------
(* Model values and symmetry for AuthPages. *)
EXTENDS AuthPages, TLC

CONSTANTS k1, k2, k3, r1, s1, s2, t1, t2

Symmetry == Permutations({k1, k2, k3})
            \cup Permutations({s1, s2}) \cup Permutations({t1, t2})
=============================================================================
