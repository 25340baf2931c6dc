-------------------------- MODULE MCVerifyAccount --------------------------
(***************************************************************************)
(* A small instance of VerifyAccountPages for TLC.                         *)
(***************************************************************************)
EXTENDS VerifyAccountPages, TLC

CONSTANTS d1, m1, s1, s2, p1, t1, r1, a1, l1

Symmetry == Permutations(Sessions)
=============================================================================
