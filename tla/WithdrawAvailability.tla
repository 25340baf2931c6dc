------------------------ MODULE WithdrawAvailability ------------------------
(***************************************************************************)
(* How much of an event's money may still be withdrawn:                    *)
(* apps/api/src/wallet/withdraw-event-availability.ts.                     *)
(*                                                                         *)
(* Withdrawals made before withdrawals were linked to events (the legacy   *)
(* pool) are charged to events in creation order, up to what each event    *)
(* raised, skipping every event that already has a linked withdrawal.      *)
(***************************************************************************)
EXTENDS Integers, Sequences, Functions

\* Statuses a withdrawals row takes, and those that hold money back.
WithdrawalStatuses == {"pending_otp", "processing", "completed", "failed"}
PendingWithdrawalStatuses == {"pending_otp", "processing"}

ComputeAvailableToWithdraw(raised, withdrawn, pending, legacy) ==
  LET rest == raised - withdrawn - pending - legacy
  IN  IF rest > 0 THEN rest ELSE 0

(***************************************************************************)
(* rows is a function from the ids of an event's linked withdrawals to     *)
(* records with a status and a gross amount.                               *)
(***************************************************************************)
SumGross(rows, statuses) ==
  SumFunctionOnSet([i \in DOMAIN rows |-> rows[i].gross],
                   {i \in DOMAIN rows : rows[i].status \in statuses})

AggregateWithdrawalAmounts(rows) ==
  [withdrawn |-> SumGross(rows, {"completed"}),
   pending   |-> SumGross(rows, PendingWithdrawalStatuses)]

(***************************************************************************)
(* The loop of allocateLegacyWithdrawalsFifo: left[i] is `remaining` after *)
(* i events of the creation order.                                         *)
(***************************************************************************)
Attributed(raised, tracked, e, remaining) ==
  IF e \in tracked THEN 0
  ELSE IF raised[e] < remaining THEN raised[e] ELSE remaining

AllocateLegacyFifo(legacyPool, order, raised, tracked) ==
  LET left[i \in 0..Len(order)] ==
        IF i = 0 THEN legacyPool
        ELSE left[i-1] - Attributed(raised, tracked, order[i], left[i-1])
  IN  [e \in Range(order) |->
         LET i == CHOOSE j \in 1..Len(order) : order[j] = e
         IN  Attributed(raised, tracked, e, left[i-1])]

(***************************************************************************)
(* computeEventWithdrawAvailability, from the values its reads returned.   *)
(***************************************************************************)
EventAvailability(e, legacyPool, order, raised, tracked, rows) ==
  LET amounts == AggregateWithdrawalAmounts(rows)
      legacy  == AllocateLegacyFifo(legacyPool, order, raised, tracked)
  IN  ComputeAvailableToWithdraw(raised[e], amounts.withdrawn,
                                 amounts.pending, legacy[e])
=============================================================================
