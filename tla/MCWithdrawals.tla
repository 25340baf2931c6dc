--------------------------- MODULE MCWithdrawals ---------------------------
(***************************************************************************)
(* Small instances of Withdrawals for TLC.                                 *)
(***************************************************************************)
EXTENDS Withdrawals, TLC

CONSTANTS w1, w2, w3, e1, e2, r1, r2, k1

\* One event, or an old and a new one.
OneEvent == <<e1>>
TwoEvents == <<e1, e2>>
RaisedTwo == [e \in Events |-> 2]
RaisedThree == [e \in Events |-> 3]

\* The rail each withdrawal takes.
AllMomo == [w \in WithdrawalIds |-> "momo"]
AllPawapay == [w \in WithdrawalIds |-> "pawapay"]
OneByBank == [w \in WithdrawalIds |-> IF w = w1 THEN "bank" ELSE "pawapay"]

\* Requests are interchangeable: nothing compares them.
RequestSymmetry == Permutations(Requests)
Symmetry == Permutations(Requests) \cup Permutations(WithdrawalIds)
=============================================================================
