----------------------------- MODULE MCDeposits -----------------------------
(***************************************************************************)
(* Small instances of Deposits for TLC.                                    *)
(***************************************************************************)
EXTENDS Deposits, TLC

CONSTANTS t1, a1, p1, p2, c1, c2, c3, r1, r2, j1, j2

Symmetry == Permutations(Ids) \cup Permutations(References)
            \cup Permutations(Requests) \cup Permutations(Jobs)
=============================================================================
