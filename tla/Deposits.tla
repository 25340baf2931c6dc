------------------------------ MODULE Deposits ------------------------------
(***************************************************************************)
(* Money coming in for one event: the mobile money payments and polls of   *)
(* payments/payments.service.ts, the reconciliation job of                 *)
(* payments/reconciliation.service.ts, contributions recorded by hand and  *)
(* hidden again (events/events.service.ts), the total kept in              *)
(* events.raised_amount (events/event-raised-amount.ts), and the payment   *)
(* provider, while EventLifecycle opens and closes the event.              *)
(*                                                                         *)
(* A handler is a request with a program counter, one step per await; a    *)
(* transaction is a step that takes its snapshot and a step that commits.  *)
(***************************************************************************)
EXTENDS EventLifecycle, FiniteSets, Functions

CONSTANTS
  References,  \* payments that can be asked for
  Kinds,       \* their kinds: "contribution" and "subscription"
  Amounts,     \* amounts of a contribution
  Ids,         \* ids of contributions rows
  Requests,    \* HTTP handlers that can be in flight at the same time
  Jobs,        \* reconciliation runs: the server's schedule, or its CLI
  SnapshotIsolation,  \* does the database refuse to update a row changed
                      \* since the transaction's snapshot?
  RepairRuns,  \* is the raised-amount repair tool run while the API serves?
  HandlersMayFail,    \* can a handler stop between two awaits?
  MaxManual    \* bound on contributions recorded by hand

Handlers == Requests \cup Jobs

ASSUME DepositAssumption ==
  /\ Kinds \subseteq {"contribution", "subscription"}
  /\ Amounts \subseteq Nat \ {0}
  /\ None \notin References /\ None \notin Ids
  /\ IsFiniteSet(Ids)
  /\ SnapshotIsolation \in BOOLEAN
  /\ RepairRuns \in BOOLEAN
  /\ HandlersMayFail \in BOOLEAN
  /\ MaxManual \in Nat

VARIABLES
  intents,        \* payment_intents
  deposit,        \* what the provider knows of each payment
  contributions,  \* the event's contributions rows
  raisedAmount,   \* events.raised_amount
  reconciled,     \* reconciled_payment_intents.outcome
  req             \* the handlers in flight

tables == <<intents, contributions, raisedAmount, reconciled>>
depositVars == <<intents, deposit, contributions, raisedAmount, reconciled>>
vars == <<lifecycleVars, depositVars, req>>

NoIntent == [state |-> "none", kind |-> "none", amount |-> 0,
             fulfilled |-> FALSE, aged |-> FALSE]
NoContribution == [ref |-> None, amount |-> 0, paid |-> FALSE, visible |-> FALSE]
Idle == [pc |-> "idle", ref |-> None, id |-> None, amount |-> 0, kind |-> "none",
         visible |-> FALSE, outcome |-> "none", snap |-> 0, stale |-> FALSE,
         job |-> FALSE, todo |-> {}]

\* Inside a transaction that has taken its snapshot.
InTransaction == {"finalTx", "addTx", "visibleTx"}
Pcs == {"idle", "iniInsert", "iniSend", "iniDelete", "pollRead", "fetch", "fulfil",
        "final", "afterNull", "record", "jobNext", "add", "visible",
        "repairWrite"} \cup InTransaction

Used == {c \in Ids : contributions[c].amount > 0}

\* The sum syncEventRaisedAmount asks the database for.
Raised(rows) == SumFunctionOnSet([c \in Ids |-> rows[c].amount],
                                 {c \in Ids : rows[c].paid /\ rows[c].visible})

Init ==
  /\ LifecycleInit
  /\ intents = [p \in References |-> NoIntent]
  /\ deposit = [p \in References |-> "absent"]
  /\ contributions = [c \in Ids |-> NoContribution]
  /\ raisedAmount = 0
  /\ reconciled = [p \in References |-> "none"]
  /\ req = [h \in Handlers |-> Idle]
----------------------------------------------------------------------------
(***************************************************************************)
(* Moving a handler along.  A step of the reconciliation job that is done  *)
(* with one payment goes on to the next.                                   *)
(***************************************************************************)
Become(h, state) == req' = [req EXCEPT ![h] = state]
Go(h, pc) == Become(h, [req[h] EXCEPT !.pc = pc])
At(h, pc) == [Idle EXCEPT !.pc = pc, !.ref = req[h].ref,
                          !.job = req[h].job, !.todo = req[h].todo]
Ended(h) == IF req[h].job
            THEN [Idle EXCEPT !.pc = "jobNext", !.job = TRUE, !.todo = req[h].todo]
            ELSE Idle
Done(h) == Become(h, Ended(h))

(***************************************************************************)
(* Every transaction here ends by updating the event's row.  One whose     *)
(* snapshot is older than the row is rolled back under snapshot isolation. *)
(* A transaction can be rolled back for other reasons: contributions made  *)
(* in one millisecond have the same id, and the wallet row may conflict.   *)
(***************************************************************************)
Overtaken(x) ==
  IF x.pc \in InTransaction THEN [x EXCEPT !.stale = SnapshotIsolation] ELSE x
EventRowChanged == req' = [x \in Handlers |-> Overtaken(req[x])]

\* Writing the total that is already there leaves the event's row unchanged.
\* Two finalizations also meet on the rows of the wallet and the intent.
CommitThen(h, state) ==
  req' = [x \in Handlers |->
            IF x = h THEN state
            ELSE IF \/ raisedAmount' # raisedAmount
                    \/ req[h].pc = "finalTx" /\ req[x].pc = "finalTx"
                 THEN Overtaken(req[x])
            ELSE req[x]]

MayCommit(h) == ~(SnapshotIsolation /\ req[h].stale)

RollBack(h) ==
  /\ req[h].pc \in InTransaction
  /\ Done(h)
  /\ UNCHANGED <<depositVars, lifecycleVars>>
----------------------------------------------------------------------------
(***************************************************************************)
(* initiateContribution, initiateSubscription                              *)
(***************************************************************************)
Unknown(p) == intents[p].state = "none" /\ \A h \in Handlers : req[h].ref # p

StartInitiate(h) ==
  /\ req[h].pc = "idle" /\ h \in Requests
  /\ \E p \in References, kind \in Kinds, n \in Amounts :
       /\ Unknown(p)
       /\ kind = "contribution" => AcceptsContributions
       /\ Become(h, [Idle EXCEPT !.pc = "iniInsert", !.ref = p, !.kind = kind, !.amount = n])
  /\ UNCHANGED <<depositVars, lifecycleVars>>

InsertIntent(h) ==
  /\ req[h].pc = "iniInsert"
  /\ intents' = [intents EXCEPT ![req[h].ref] =
                   [state |-> "live", kind |-> req[h].kind, amount |-> req[h].amount,
                    fulfilled |-> FALSE, aged |-> FALSE]]
  /\ Become(h, At(h, "iniSend"))
  /\ UNCHANGED <<deposit, contributions, raisedAmount, reconciled, lifecycleVars>>

\* The provider may take the payment and the answer still be an error.
RequestToPay(h) ==
  /\ req[h].pc = "iniSend"
  /\ \/ /\ deposit' = [deposit EXCEPT ![req[h].ref] = "pending"]
        /\ Done(h) \/ Become(h, At(h, "iniDelete"))
     \/ UNCHANGED deposit /\ Become(h, At(h, "iniDelete"))
  /\ UNCHANGED <<tables, lifecycleVars>>

DeleteIntent(h) ==
  /\ req[h].pc = "iniDelete"
  /\ intents' = [intents EXCEPT ![req[h].ref] = [NoIntent EXCEPT !.state = "deleted"]]
  /\ Done(h)
  /\ UNCHANGED <<deposit, contributions, raisedAmount, reconciled, lifecycleVars>>
----------------------------------------------------------------------------
(***************************************************************************)
(* pollContribution and pollSubscription; reconcilePaymentIntent takes the *)
(* same steps for the job.                                                 *)
(***************************************************************************)
Initiating(p) == \E h \in Handlers : req[h].ref = p /\ req[h].pc \in {"iniSend", "iniDelete"}

\* Only a client that was answered knows the reference.
StartPoll(h) ==
  /\ req[h].pc = "idle" /\ h \in Requests
  /\ \E p \in References :
       /\ intents[p].state = "live" /\ ~Initiating(p)
       /\ Become(h, [Idle EXCEPT !.pc = "pollRead", !.ref = p])
  /\ UNCHANGED <<depositVars, lifecycleVars>>

ReadIntent(h) ==
  /\ req[h].pc = "pollRead"
  /\ IF intents[req[h].ref].state = "live" /\ ~intents[req[h].ref].fulfilled
     THEN Go(h, "fetch") ELSE Done(h)
  /\ UNCHANGED <<depositVars, lifecycleVars>>

\* The outcome of a payment is told to the client; the job records it.
Answer(h, outcome) ==
  IF req[h].job THEN Become(h, [At(h, "record") EXCEPT !.outcome = outcome])
  ELSE Done(h)

\* Mutant: a payment the provider has accepted counts as paid.
FetchStatusHasty(h) ==
  /\ req[h].pc = "fetch"
  /\ IF deposit[req[h].ref] \in {"pending", "success"}
     THEN Go(h, IF intents[req[h].ref].kind = "contribution" THEN "final" ELSE "fulfil")
     ELSE Done(h)
  /\ UNCHANGED <<depositVars, lifecycleVars>>

FetchStatus(h) ==
  /\ req[h].pc = "fetch"
  /\ LET p == req[h].ref
     IN  \/ /\ deposit[p] = "success"
            /\ Go(h, IF intents[p].kind = "contribution" THEN "final" ELSE "fulfil")
         \/ /\ deposit[p] = "failed"
            /\ Answer(h, "failed")
         \/ /\ deposit[p] \in {"absent", "pending"}
            /\ Done(h)
  /\ UNCHANGED <<depositVars, lifecycleVars>>

FetchError(h) ==
  /\ req[h].pc = "fetch"
  /\ Done(h)
  /\ UNCHANGED <<depositVars, lifecycleVars>>

\* A subscription is fulfilled by a statement of its own.
FulfilSubscription(h) ==
  /\ req[h].pc = "fulfil"
  /\ intents' = [intents EXCEPT ![req[h].ref].fulfilled = TRUE]
  /\ Answer(h, "completed")
  /\ UNCHANGED <<deposit, contributions, raisedAmount, reconciled, lifecycleVars>>

(***************************************************************************)
(* finalizeContribution: the intent, the event and the total are read in   *)
(* the snapshot; contribution, total and fulfilled are written together.   *)
(***************************************************************************)
\* Mutants: the event's status is not looked at; the intent's is not.
FinalizeBeginOpen(h) ==
  /\ req[h].pc = "final"
  /\ IF ~intents[req[h].ref].fulfilled
     THEN Become(h, [req[h] EXCEPT !.pc = "finalTx", !.snap = Raised(contributions)])
     ELSE Go(h, "afterNull")
  /\ UNCHANGED <<depositVars, lifecycleVars>>

FinalizeBeginAgain(h) ==
  /\ req[h].pc = "final"
  /\ IF AcceptsContributions
     THEN Become(h, [req[h] EXCEPT !.pc = "finalTx", !.snap = Raised(contributions)])
     ELSE Go(h, "afterNull")
  /\ UNCHANGED <<depositVars, lifecycleVars>>

FinalizeBegin(h) ==
  /\ req[h].pc = "final"
  /\ IF ~intents[req[h].ref].fulfilled /\ AcceptsContributions
     THEN Become(h, [req[h] EXCEPT !.pc = "finalTx", !.snap = Raised(contributions)])
     ELSE Go(h, "afterNull")
  /\ UNCHANGED <<depositVars, lifecycleVars>>

FinalizeCommit(h) ==
  /\ req[h].pc = "finalTx" /\ MayCommit(h)
  /\ LET p == req[h].ref
         n == intents[p].amount
     IN  /\ \E c \in Ids \ Used :
              contributions' = [contributions EXCEPT ![c] =
                [ref |-> p, amount |-> n, paid |-> TRUE, visible |-> TRUE]]
         /\ raisedAmount' = req[h].snap + n
         /\ intents' = [intents EXCEPT ![p].fulfilled = TRUE]
  /\ CommitThen(h, IF req[h].job THEN [At(h, "record") EXCEPT !.outcome = "completed"]
                   ELSE Idle)
  /\ UNCHANGED <<deposit, reconciled, lifecycleVars>>

\* Nothing was written.  The event is read again: closed, the payment failed;
\* open, it is left for another poll.
AfterNull(h) ==
  /\ req[h].pc = "afterNull"
  /\ IF AcceptsContributions THEN Done(h) ELSE Answer(h, "failed")
  /\ UNCHANGED <<depositVars, lifecycleVars>>
----------------------------------------------------------------------------
(***************************************************************************)
(* The reconciliation job: the list is read once, then payment by payment. *)
(***************************************************************************)
\* Mutant: only payments for contributions are looked at.
StaleContributions == {p \in References : /\ intents[p].kind = "contribution"
                                          /\ ~intents[p].fulfilled /\ intents[p].aged
                                          /\ reconciled[p] = "none"}

StaleIntents == {p \in References : /\ intents[p].state = "live"
                                    /\ ~intents[p].fulfilled /\ intents[p].aged
                                    /\ reconciled[p] = "none"}

StartJob(h) ==
  /\ req[h].pc = "idle" /\ h \in Jobs
  /\ StaleIntents # {}
  /\ Become(h, [Idle EXCEPT !.pc = "jobNext", !.job = TRUE, !.todo = StaleIntents])
  /\ UNCHANGED <<depositVars, lifecycleVars>>

JobNext(h) ==
  /\ req[h].pc = "jobNext"
  /\ \/ /\ req[h].todo = {}
        /\ Become(h, Idle)
     \/ \E p \in req[h].todo :
          Become(h, [req[h] EXCEPT !.pc = "pollRead", !.ref = p, !.todo = @ \ {p}])
  /\ UNCHANGED <<depositVars, lifecycleVars>>

\* Mutants: every outcome is completed; the provider's word is stored.
RecordCompleted(h) ==
  /\ req[h].pc = "record"
  /\ reconciled' = IF reconciled[req[h].ref] = "none"
                   THEN [reconciled EXCEPT ![req[h].ref] = "completed"]
                   ELSE reconciled
  /\ Done(h)
  /\ UNCHANGED <<intents, deposit, contributions, raisedAmount, lifecycleVars>>

\* The primary key refuses a second outcome.
Record(h) ==
  /\ req[h].pc = "record"
  /\ reconciled' = IF reconciled[req[h].ref] = "none"
                   THEN [reconciled EXCEPT ![req[h].ref] = req[h].outcome]
                   ELSE reconciled
  /\ Done(h)
  /\ UNCHANGED <<intents, deposit, contributions, raisedAmount, lifecycleVars>>
----------------------------------------------------------------------------
(***************************************************************************)
(* addContribution, by hand: the event is read before the transaction; the *)
(* total is recomputed in it for a paid one.                               *)
(***************************************************************************)
Manual == {c \in Used : contributions[c].ref = None}
Adding == {h \in Handlers : req[h].pc \in {"add", "addTx"}}

StartAdd(h) ==
  /\ req[h].pc = "idle" /\ h \in Requests
  /\ AcceptsContributions
  /\ Cardinality(Manual) + Cardinality(Adding) < MaxManual
  /\ \E n \in Amounts : Become(h, [Idle EXCEPT !.pc = "add", !.amount = n])
  /\ UNCHANGED <<depositVars, lifecycleVars>>

Insert(n, paid) ==
  \E c \in Ids \ Used :
    contributions' = [contributions EXCEPT ![c] =
      [ref |-> None, amount |-> n, paid |-> paid, visible |-> TRUE]]

AddPledge(h) ==
  /\ req[h].pc = "add"
  /\ Insert(req[h].amount, FALSE)
  /\ Done(h)
  /\ UNCHANGED <<intents, deposit, raisedAmount, reconciled, lifecycleVars>>

AddBegin(h) ==
  /\ req[h].pc = "add"
  /\ Become(h, [req[h] EXCEPT !.pc = "addTx", !.snap = Raised(contributions)])
  /\ UNCHANGED <<depositVars, lifecycleVars>>

AddCommit(h) ==
  /\ req[h].pc = "addTx" /\ MayCommit(h)
  /\ Insert(req[h].amount, TRUE)
  /\ raisedAmount' = req[h].snap + req[h].amount
  /\ CommitThen(h, Idle)
  /\ UNCHANGED <<intents, deposit, reconciled, lifecycleVars>>

(***************************************************************************)
(* setContributionVisibility: the wish is compared with what was read      *)
(* before the transaction; the row is locked until the commit.             *)
(***************************************************************************)
WithVisible(c, visible) == [contributions EXCEPT ![c].visible = visible]

StartSetVisibility(h) ==
  /\ req[h].pc = "idle" /\ h \in Requests
  /\ \E c \in Used :
       Become(h, [Idle EXCEPT !.pc = "visible", !.id = c,
                              !.visible = ~contributions[c].visible])
  /\ UNCHANGED <<depositVars, lifecycleVars>>

SetVisibilityBegin(h) ==
  /\ req[h].pc = "visible"
  /\ \A x \in Handlers : ~(req[x].pc = "visibleTx" /\ req[x].id = req[h].id)
  /\ Become(h, [req[h] EXCEPT !.pc = "visibleTx",
                              !.snap = Raised(WithVisible(req[h].id, req[h].visible))])
  /\ UNCHANGED <<depositVars, lifecycleVars>>

\* Mutant: the total is left as it was.
SetVisibilityOnly(h) ==
  /\ req[h].pc = "visibleTx" /\ MayCommit(h)
  /\ contributions' = WithVisible(req[h].id, req[h].visible)
  /\ UNCHANGED <<intents, deposit, raisedAmount, reconciled, lifecycleVars>>
  /\ CommitThen(h, Idle)

SetVisibilityCommit(h) ==
  /\ req[h].pc = "visibleTx" /\ MayCommit(h)
  /\ contributions' = WithVisible(req[h].id, req[h].visible)
  /\ raisedAmount' = req[h].snap
  /\ CommitThen(h, Idle)
  /\ UNCHANGED <<intents, deposit, reconciled, lifecycleVars>>

(***************************************************************************)
(* reconcileAllEventRaisedAmounts, without a transaction.                  *)
(***************************************************************************)
RepairRead(h) ==
  /\ RepairRuns /\ req[h].pc = "idle" /\ h \in Jobs
  /\ Become(h, [Idle EXCEPT !.pc = "repairWrite", !.snap = Raised(contributions)])
  /\ UNCHANGED <<depositVars, lifecycleVars>>

RepairWrite(h) ==
  /\ req[h].pc = "repairWrite"
  /\ raisedAmount' = req[h].snap
  /\ CommitThen(h, Idle)
  /\ UNCHANGED <<intents, deposit, contributions, reconciled, lifecycleVars>>
----------------------------------------------------------------------------
(***************************************************************************)
(* Time, the provider, crashes, and the event's life.                      *)
(***************************************************************************)
Age(p) ==
  /\ intents[p].state = "live" /\ ~intents[p].aged /\ ~Initiating(p)
  /\ intents' = [intents EXCEPT ![p].aged = TRUE]
  /\ UNCHANGED <<deposit, contributions, raisedAmount, reconciled, req, lifecycleVars>>

SettleDeposit(p) ==
  /\ deposit[p] = "pending"
  /\ \E s \in {"success", "failed"} : deposit' = [deposit EXCEPT ![p] = s]
  /\ UNCHANGED <<tables, req, lifecycleVars>>

HandlerFails(h) ==
  /\ HandlersMayFail /\ req[h].pc # "idle"
  /\ Become(h, Idle)
  /\ UNCHANGED <<depositVars, lifecycleVars>>

EventChanges ==
  \E a \in Actors :
    \/ LifecycleReads(a) /\ UNCHANGED <<depositVars, req>>
    \/ LifecycleWrites(a) /\ EventRowChanged /\ UNCHANGED depositVars

Start(h) ==
  \/ StartInitiate(h) \/ StartPoll(h) \/ StartJob(h) \/ StartAdd(h)
  \/ StartSetVisibility(h) \/ RepairRead(h)

Continue(h) ==
  \/ InsertIntent(h) \/ RequestToPay(h) \/ DeleteIntent(h)
  \/ ReadIntent(h) \/ FetchStatus(h) \/ FetchError(h) \/ FulfilSubscription(h)
  \/ FinalizeBegin(h) \/ FinalizeCommit(h) \/ AfterNull(h) \/ RollBack(h)
  \/ JobNext(h) \/ Record(h)
  \/ AddPledge(h) \/ AddBegin(h) \/ AddCommit(h)
  \/ SetVisibilityBegin(h) \/ SetVisibilityCommit(h) \/ RepairWrite(h)

Next ==
  \/ \E h \in Handlers : Start(h) \/ Continue(h) \/ HandlerFails(h)
  \/ \E p \in References : Age(p) \/ SettleDeposit(p)
  \/ EventChanges

Spec == Init /\ [][Next]_vars

(***************************************************************************)
(* Fairness: a handler that has started goes on, payments grow old, the    *)
(* schedule starts the job again and again.  Of the job's attempts at one  *)
(* payment not all meet an error, a rollback, or a treasurer who reopens   *)
(* the event between two reads.  Clients need not poll.                    *)
(***************************************************************************)
FairSpec ==
  /\ Spec
  /\ \A p \in References : WF_vars(Age(p))
  /\ \A h \in Handlers : WF_vars(Continue(h))
  /\ \A j \in Jobs :
       /\ WF_vars(StartJob(j))
       /\ SF_vars(FetchStatus(j)) /\ SF_vars(FinalizeCommit(j))
       /\ SF_vars(AfterNull(j) /\ ~AcceptsContributions)
----------------------------------------------------------------------------
IntentType == [state : {"none", "live", "deleted"}, kind : Kinds \cup {"none"},
               amount : Nat, fulfilled : BOOLEAN, aged : BOOLEAN]
ContributionType == [ref : References \cup {None}, amount : Nat,
                     paid : BOOLEAN, visible : BOOLEAN]
Outcomes == {"none", "completed", "failed"}
HandlerType ==
  [pc : Pcs, ref : References \cup {None}, id : Ids \cup {None}, amount : Nat,
   kind : Kinds \cup {"none"}, visible : BOOLEAN, outcome : Outcomes, snap : Int,
   stale : BOOLEAN, job : BOOLEAN, todo : SUBSET References]

\* The rows have the types of schema.ts, the handlers' locals those of what
\* they were read from.
TypeOK ==
  /\ LifecycleType
  /\ intents \in [References -> IntentType]
  /\ deposit \in [References -> {"absent", "pending", "success", "failed"}]
  /\ contributions \in [Ids -> ContributionType]
  /\ raisedAmount \in Int
  /\ reconciled \in [References -> Outcomes]
  /\ req \in [Handlers -> HandlerType]

\* A payment that polls and the job finalize at the same time is credited once:
\* there is one contribution of it when it is fulfilled, none before.
Credits(p) == {c \in Ids : contributions[c].ref = p}
CreditedOnce ==
  SnapshotIsolation =>
    \A p \in References :
      Cardinality(Credits(p)) =
        IF intents[p].fulfilled /\ intents[p].kind = "contribution" THEN 1 ELSE 0

\* Only what the provider reported paid is credited or taken for a
\* subscription, and neither is ever done for an intent that was deleted.
FulfilledWasPaid ==
  \A p \in References :
    intents[p].fulfilled \/ Credits(p) # {} =>
      deposit[p] = "success" /\ intents[p].state = "live"

\* events.raised_amount is the sum of the visible, paid contributions after
\* every payment, manual entry and change of visibility, however they overlap.
RaisedMatches == SnapshotIsolation => raisedAmount = Raised(contributions)

\* No payment becomes a contribution while the event is closed, even when it is
\* closed in the middle of finalizeContribution.
NoCreditWhileClosed ==
  [][SnapshotIsolation =>
       \A p \in References : Credits(p) # Credits(p)' => AcceptsContributions]_vars

\* What the job records as completed was fulfilled, by it or by a poll.
CompletedWasFulfilled ==
  \A p \in References : reconciled[p] = "completed" => intents[p].fulfilled

\* Without anyone polling, a payment that succeeded is in the end fulfilled, or
\* recorded as failed because the event was closed.
PaidIsSettled ==
  \A p \in References :
    (deposit[p] = "success" /\ intents[p].state = "live")
      ~> (intents[p].fulfilled \/ reconciled[p] = "failed" \/ intents[p].state = "deleted")
----------------------------------------------------------------------------
(***************************************************************************)
(* Refinement.  Of the handlers, the provider and the tables remains the   *)
(* state of a payment; an intent that was fulfilled is no more than that,  *)
(* whatever is asked of the provider later.                                *)
(***************************************************************************)
BookState(p) ==
  IF intents[p].state # "live" THEN intents[p].state
  ELSE IF intents[p].fulfilled THEN "fulfilled"
  ELSE IF deposit[p] = "absent" THEN "none" ELSE deposit[p]

BookAmount(p) ==
  IF BookState(p) \in {"pending", "success"} /\ intents[p].kind = "contribution"
  THEN intents[p].amount ELSE 0

Book == INSTANCE PaymentBook WITH
  payment <- [p \in References |-> [state |-> BookState(p), amt |-> BookAmount(p)]],
  booked  <- [p \in References |->
                SumFunctionOnSet([c \in Ids |-> contributions[c].amount], Credits(p))]

\* However polls, jobs, crashes and rollbacks overlap, each payment goes the
\* way PaymentBook allows: asked, taken, entered once with what was asked for.
ImplementsBook == Book!BookSpec
=============================================================================
