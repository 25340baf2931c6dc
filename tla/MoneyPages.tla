----------------------------- MODULE MoneyPages -----------------------------
(***************************************************************************)
(* The pages that move money or show where it went: withdrawing, the       *)
(* account, the contribution form and the treasurer's list.  They share    *)
(* the session and the tables and none of their own state: a behaviour     *)
(* stays on one of them, and what the users of the others do is in the     *)
(* rows that are posted anyway.                                            *)
(***************************************************************************)
EXTENDS WithdrawPages, AccountPages, ContributePages

VARIABLE visited  \* "withdraw", "account", "form" or "desk"

moneyVars == <<withdrawVars, accountVars, contributeVars, visited>>

\* Of a page that is not visited one initial state is enough.  The form starts
\* with no payment, the treasurer with one that is to be recorded.
Init ==
  /\ visited \in {"withdraw", "account", "form", "desk"}
  /\ WithdrawInit
  /\ AccountInit
  /\ ContributeInit
  /\ visited # "withdraw" => page = LoadedPage(None)
  /\ {p \in References : payment[p].state = "success"} =
       IF visited = "desk" THEN {CHOOSE p \in References : TRUE} ELSE {}
  /\ visited # "form" => form.momo
  /\ visited # "desk" => desk.open

Next ==
  \/ visited = "withdraw" /\ WithdrawNext /\ UNCHANGED <<accountVars, contributeVars, visited>>
  \/ visited = "account" /\ AccountNext /\ UNCHANGED <<withdrawVars, contributeVars, visited>>
  \/ visited = "form" /\ FormNext /\ UNCHANGED <<withdrawVars, accountVars, visited>>
  \/ visited = "desk" /\ DeskNext /\ UNCHANGED <<withdrawVars, accountVars, visited>>

Spec == Init /\ [][Next]_moneyVars /\ WithdrawFairness

-----------------------------------------------------------------------------
(* What the pages say is so: a withdrawal's result (ResultIsTrue), thanks  *)
(* for a contribution (ThanksIsTrue), what is hidden (VisibilityIsAsAsked).*)
SaidIsTrue == ResultIsTrue /\ ThanksIsTrue /\ VisibilityIsAsAsked
=============================================================================
