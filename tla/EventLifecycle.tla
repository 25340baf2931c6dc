--------------------------- MODULE EventLifecycle ---------------------------
(***************************************************************************)
(* Pausing, resuming, stopping and suspending one event.  The treasurer    *)
(* does it over HTTP (events/events.service.ts), an administrator with a   *)
(* command line tool (events/event-admin.ts).                              *)
(*                                                                         *)
(* Each operation reads the event's row, decides, and then updates the row *)
(* in another statement, whatever the row says by then.                    *)
(***************************************************************************)
EXTENDS Naturals

CONSTANTS
  Treasurers,  \* treasurer requests that can be in flight at the same time
  Admins,      \* runs of the administrator's tool
  None,
  OneAtATime   \* does an operation start only when none is in flight?

Actors == Treasurers \cup Admins

ASSUME ActorAssumption ==
  /\ None \notin Actors
  /\ OneAtATime \in BOOLEAN

VARIABLES
  status,      \* events.status
  preSuspend,  \* events.pre_suspend_status
  op           \* what each actor has decided to do, from what it read

eventRow == <<status, preSuspend>>
lifecycleVars == <<status, preSuspend, op>>

LifecycleStatuses == {"active", "paused", "stopped", "suspended"}
TreasurerOps == {"pause", "resume", "stop"}
AdminOps == {"suspend", "unsuspend"}
NoOp == [kind |-> "none", saw |-> "active", pre |-> "none"]

AcceptsContributions == status = "active"

CanTreasurer(seen, kind) ==
  CASE kind = "pause"  -> seen = "active"
    [] kind = "resume" -> seen = "paused"
    [] kind = "stop"   -> seen \in {"active", "paused"}

\* Mutant: a suspended event can be suspended again.
CanAdminTwice(seen, kind) == kind = "suspend" \/ seen = "suspended"

CanAdmin(seen, kind) ==
  CASE kind = "suspend"   -> seen # "suspended"
    [] kind = "unsuspend" -> seen = "suspended"

LifecycleInit ==
  /\ status = "active"
  /\ preSuspend = "none"
  /\ op = [a \in Actors |-> NoOp]

Decide(a, kind) ==
  /\ op[a] = NoOp
  /\ OneAtATime => \A b \in Actors : op[b] = NoOp
  /\ op' = [op EXCEPT ![a] = [kind |-> kind, saw |-> status, pre |-> preSuspend]]
  /\ UNCHANGED eventRow

TreasurerReads(a) ==
  /\ a \in Treasurers
  /\ \E kind \in TreasurerOps : CanTreasurer(status, kind) /\ Decide(a, kind)

AdminReads(a) ==
  /\ a \in Admins
  /\ \E kind \in AdminOps : CanAdmin(status, kind) /\ Decide(a, kind)

Write(a, kind, newStatus, newPre) ==
  /\ op[a].kind = kind
  /\ status' = newStatus
  /\ preSuspend' = newPre
  /\ op' = [op EXCEPT ![a] = NoOp]

Pause(a) == Write(a, "pause", "paused", preSuspend)
Resume(a) == Write(a, "resume", "active", preSuspend)
Stop(a) == Write(a, "stop", "stopped", preSuspend)
Suspend(a) == Write(a, "suspend", "suspended", op[a].saw)

Unsuspend(a) ==
  Write(a, "unsuspend", IF op[a].pre = "none" THEN "active" ELSE op[a].pre, "none")

\* The request or the tool stops before its update.
GivesUp(a) ==
  /\ op[a] # NoOp
  /\ op' = [op EXCEPT ![a] = NoOp]
  /\ UNCHANGED eventRow

LifecycleReads(a) == TreasurerReads(a) \/ AdminReads(a) \/ GivesUp(a)
LifecycleWrites(a) == Pause(a) \/ Resume(a) \/ Stop(a) \/ Suspend(a) \/ Unsuspend(a)

LifecycleNext == \E a \in Actors : LifecycleReads(a) \/ LifecycleWrites(a)

LifecycleSpec == LifecycleInit /\ [][LifecycleNext]_lifecycleVars
----------------------------------------------------------------------------
Restorable == LifecycleStatuses \ {"suspended"}

LifecycleType ==
  /\ status \in LifecycleStatuses
  /\ preSuspend \in Restorable \cup {"none"}
  /\ op \in [Actors -> [kind : TreasurerOps \cup AdminOps \cup {"none"},
                        saw : LifecycleStatuses, pre : Restorable \cup {"none"}]]

\* However the treasurer's requests and the administrator's tool overlap, a
\* suspended event remembers a status to go back to, and never suspension
\* itself: pre_suspend_status is written in the same update as the status.
SuspensionRemembersStatus == status = "suspended" => preSuspend \in Restorable
=============================================================================
