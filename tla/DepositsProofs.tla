--------------------------- MODULE DepositsProofs ---------------------------
(***************************************************************************)
(* Proofs about Deposits and EventLifecycle, for any payments, handlers,   *)
(* jobs and contributions.                                                 *)
(*                                                                         *)
(* That a payment is credited once needs no sums: the first invariant      *)
(* leaves them out.  The total is an invariant of its own, on top of it.   *)
(***************************************************************************)
EXTENDS Deposits, FiniteSetFacts, TLAPS

----------------------------------------------------------------------------
(***************************************************************************)
(* The event's life.                                                       *)
(***************************************************************************)
\* An operation under way was decided on a row it is allowed for.
DecidedRightly ==
  \A a \in Actors :
    /\ op[a].kind = "suspend" => op[a].saw \in Restorable
    /\ op[a].kind = "unsuspend" => op[a].pre \in Restorable
LifecycleInv == LifecycleType /\ DecidedRightly /\ SuspensionRemembersStatus

LEMMA LifecycleStep ==
  ASSUME LifecycleInv, [LifecycleNext]_lifecycleVars
  PROVE  LifecycleInv'
<1>. USE DEF LifecycleInv, LifecycleType, DecidedRightly, SuspensionRemembersStatus,
             Restorable, LifecycleStatuses, TreasurerOps, AdminOps
<1>1. CASE UNCHANGED lifecycleVars
  BY <1>1 DEF lifecycleVars
<1>2. ASSUME NEW a \in Actors, TreasurerReads(a) PROVE LifecycleInv'
  <2>1. PICK kind \in TreasurerOps : Decide(a, kind)
    BY <1>2 DEF TreasurerReads
  <2>2. /\ UNCHANGED eventRow
        /\ op' = [op EXCEPT ![a] = [kind |-> kind, saw |-> status, pre |-> preSuspend]]
    BY <2>1 DEF Decide
  <2>. QED BY <2>2 DEF eventRow
<1>3. ASSUME NEW a \in Actors, AdminReads(a) PROVE LifecycleInv'
  <2>1. PICK kind \in AdminOps : CanAdmin(status, kind) /\ Decide(a, kind)
    BY <1>3 DEF AdminReads
  <2>2. /\ UNCHANGED eventRow
        /\ op' = [op EXCEPT ![a] = [kind |-> kind, saw |-> status, pre |-> preSuspend]]
    BY <2>1 DEF Decide
  <2>3. CASE kind = "suspend"
    <3>1. status # "suspended"
      BY <2>1, <2>3 DEF CanAdmin
    <3>. QED BY <2>2, <2>3, <3>1 DEF eventRow
  <2>4. CASE kind = "unsuspend"
    <3>1. status = "suspended"
      BY <2>1, <2>4 DEF CanAdmin
    <3>. QED BY <2>2, <2>4, <3>1 DEF eventRow
  <2>. QED BY <2>3, <2>4
<1>4. ASSUME NEW a \in Actors, GivesUp(a) PROVE LifecycleInv'
  BY <1>4 DEF GivesUp, NoOp, eventRow
<1>5. ASSUME NEW a \in Actors, LifecycleWrites(a) PROVE LifecycleInv'
  <2>1. op' = [op EXCEPT ![a] = NoOp]
    BY <1>5 DEF LifecycleWrites, Write, Pause, Resume, Stop, Suspend, Unsuspend
  <2>2. /\ op' \in [Actors -> [kind : TreasurerOps \cup AdminOps \cup {"none"},
                              saw : LifecycleStatuses, pre : Restorable \cup {"none"}]]
        /\ DecidedRightly'
    BY <2>1 DEF NoOp
  <2>3. CASE Pause(a) \/ Resume(a) \/ Stop(a)
    BY <2>2, <2>3 DEF Write, Pause, Resume, Stop
  <2>4. CASE Suspend(a)
    BY <2>2, <2>4 DEF Write, Suspend
  <2>5. CASE Unsuspend(a)
    BY <2>2, <2>5 DEF Write, Unsuspend
  <2>. QED BY <1>5, <2>3, <2>4, <2>5 DEF LifecycleWrites
<1>. QED
  BY <1>1, <1>2, <1>3, <1>4, <1>5 DEF LifecycleNext, LifecycleReads

\* A suspended event remembers what to go back to, however many treasurers and
\* administrators work on it at once.
THEOREM SuspensionSafe == LifecycleSpec => []SuspensionRemembersStatus
<1>1. LifecycleInit => LifecycleInv
  BY DEF LifecycleInit, LifecycleInv, LifecycleType, DecidedRightly, NoOp,
         SuspensionRemembersStatus, Restorable, LifecycleStatuses, TreasurerOps, AdminOps
<1>2. LifecycleInv /\ [LifecycleNext]_lifecycleVars => LifecycleInv'
  BY LifecycleStep
<1>3. LifecycleInv => SuspensionRemembersStatus
  BY DEF LifecycleInv
<1>. QED BY <1>1, <1>2, <1>3, PTL DEF LifecycleSpec

\* Payments only watch the event's life.
LEMMA LifecycleWatched == [Next]_vars => [LifecycleNext]_lifecycleVars
<1>. SUFFICES ASSUME [Next]_vars PROVE [LifecycleNext]_lifecycleVars
  OBVIOUS
<1>1. CASE UNCHANGED vars
  BY <1>1 DEF vars
<1>2. ASSUME NEW h \in Handlers, Start(h) PROVE UNCHANGED lifecycleVars
  BY <1>2 DEF Start, StartInitiate, StartPoll, StartJob, StartAdd,
              StartSetVisibility, RepairRead
<1>3. ASSUME NEW h \in Handlers, Continue(h) PROVE UNCHANGED lifecycleVars
  BY <1>3 DEF Continue, InsertIntent, RequestToPay, DeleteIntent, ReadIntent,
       FetchStatus, FetchError, FulfilSubscription, FinalizeBegin, FinalizeCommit,
       AfterNull, RollBack, JobNext, Record, AddPledge, AddBegin, AddCommit,
       SetVisibilityBegin, SetVisibilityCommit, RepairWrite
<1>4. ASSUME NEW h \in Handlers, HandlerFails(h) PROVE UNCHANGED lifecycleVars
  BY <1>4 DEF HandlerFails
<1>5. ASSUME NEW p \in References, Age(p) \/ SettleDeposit(p)
      PROVE  UNCHANGED lifecycleVars
  BY <1>5 DEF Age, SettleDeposit
<1>6. CASE EventChanges
  BY <1>6 DEF EventChanges, LifecycleNext
<1>. QED BY <1>1, <1>2, <1>3, <1>4, <1>5, <1>6 DEF Next

\* With payments going on the event's life is still one that EventLifecycle
\* allows.
THEOREM DepositsKeepLifecycle == Spec => LifecycleSpec
<1>1. Init => LifecycleInit
  BY DEF Init
<1>2. [Next]_vars => [LifecycleNext]_lifecycleVars
  BY LifecycleWatched
<1>. QED BY <1>1, <1>2, PTL DEF Spec, LifecycleSpec
----------------------------------------------------------------------------
(***************************************************************************)
(* The payments.                                                           *)
(***************************************************************************)
\* HandlerType without the type of the sum a handler holds.
Shaped(q) ==
  q \in [pc : Pcs, ref : References \cup {None}, id : Ids \cup {None}, amount : Nat,
         kind : Kinds \cup {"none"}, visible : BOOLEAN, outcome : Outcomes,
         snap : {q.snap}, stale : BOOLEAN, job : BOOLEAN, todo : SUBSET References]

TablesShaped ==
  /\ intents \in [References -> IntentType]
  /\ deposit \in [References -> {"absent", "pending", "success", "failed"}]
  /\ contributions \in [Ids -> ContributionType]
  /\ reconciled \in [References -> Outcomes]

Initiators == {"iniInsert", "iniSend", "iniDelete"}
Finalizers == {"final", "finalTx", "afterNull"}
Working == {"pollRead", "fetch", "fulfil", "record"} \cup Finalizers

\* An initiation owns an intent nobody else has seen.
InitiatesNew(q) ==
  q.pc \in Initiators =>
    /\ q.ref \in References /\ ~q.job
    /\ ~intents[q.ref].aged
    /\ Credits(q.ref) = {}
    /\ q.pc = "iniInsert" => /\ intents[q.ref].state = "none"
                             /\ q.amount \in Amounts /\ q.kind \in Kinds
    /\ q.pc # "iniInsert" => /\ intents[q.ref].state = "live"
                             /\ ~intents[q.ref].fulfilled
    /\ q.pc = "iniSend" => deposit[q.ref] = "absent"

\* Whoever works on a payment goes by what the provider said of it.
WorksOnPaid(q) ==
  /\ q.pc \in Working => q.ref \in References /\ intents[q.ref].state = "live"
  /\ q.pc \in Finalizers => /\ intents[q.ref].kind = "contribution"
                            /\ deposit[q.ref] = "success"
  /\ q.pc = "fulfil" => /\ intents[q.ref].kind # "contribution"
                        /\ deposit[q.ref] = "success"
  /\ q.pc = "record" /\ q.outcome = "completed" => intents[q.ref].fulfilled
  /\ \A p \in q.todo : intents[p].state = "live" /\ intents[p].aged

\* A finalization the database will let commit still sees the truth.
FreshSnapshot(q) ==
  SnapshotIsolation /\ q.pc = "finalTx" /\ ~q.stale =>
    ~intents[q.ref].fulfilled /\ AcceptsContributions

Alone(h, q) ==
  \A x \in Handlers \ {h} :
    q.pc \in Initiators \/ req[x].pc \in Initiators => req[x].ref # q.ref

RowSound(p) ==
  /\ intents[p].state = "live" => intents[p].amount > 0
  /\ intents[p].state = "none" => deposit[p] = "absent" /\ ~intents[p].aged
  /\ intents[p].fulfilled \/ Credits(p) # {} =>
       deposit[p] = "success" /\ intents[p].state = "live"
  /\ reconciled[p] = "completed" => intents[p].fulfilled

Credited(p) ==
  SnapshotIsolation =>
    IF intents[p].fulfilled /\ intents[p].kind = "contribution"
    THEN \E c \in Ids : Credits(p) = {c}
    ELSE Credits(p) = {}

FreeIds == \A c \in Ids : contributions[c].amount = 0 => contributions[c].ref = None

TablesSound == /\ TablesShaped /\ FreeIds
               /\ \A p \in References : RowSound(p) /\ Credited(p)
HandlerSound(h) == /\ Shaped(req[h]) /\ InitiatesNew(req[h])
                   /\ WorksOnPaid(req[h]) /\ FreshSnapshot(req[h])

Inv ==
  /\ TablesSound
  /\ DOMAIN req = Handlers
  /\ \A h \in Handlers : HandlerSound(h) /\ Alone(h, req[h])

(***************************************************************************)
(* What one handler does to the rows, seen by another: the payments it     *)
(* knows of only move forward, and an initiation's own is left alone.      *)
(***************************************************************************)
Advances(p) ==
  /\ intents[p].state = "live" =>
       /\ intents'[p].state = "live" /\ intents'[p].kind = intents[p].kind
       /\ intents[p].aged => intents'[p].aged
       /\ intents[p].fulfilled => intents'[p].fulfilled
  /\ deposit[p] = "success" => deposit'[p] = "success"

Knows(x) == req[x].todo \cup (IF req[x].ref = None THEN {} ELSE {req[x].ref})

Undisturbed(x) ==
  /\ req'[x] \in {req[x], Overtaken(req[x])}
  /\ \A p \in Knows(x) : Advances(p)
  /\ \A p \in References :
       req[x].pc \in Initiators /\ req[x].ref = p =>
         /\ intents'[p] = intents[p] /\ Credits(p)' = Credits(p)
         /\ req[x].pc = "iniSend" => deposit'[p] = deposit[p]

LEMMA OtherHandlerSound ==
  ASSUME Inv, NEW x \in Handlers, Undisturbed(x), FreshSnapshot(req[x])'
  PROVE  /\ HandlerSound(x)'
         /\ req'[x].pc = req[x].pc /\ req'[x].ref = req[x].ref
<1>. USE DEF Inv, HandlerSound
<1>0. Shaped(req[x]) /\ None \notin References
  BY DepositAssumption
<1>1. \/ req'[x] = req[x]
      \/ req'[x] = [req[x] EXCEPT !.stale = SnapshotIsolation]
  BY DEF Undisturbed, Overtaken
<1>2. /\ Shaped(req[x])'
      /\ req'[x].pc = req[x].pc /\ req'[x].ref = req[x].ref
      /\ req'[x].todo = req[x].todo /\ req'[x].outcome = req[x].outcome
      /\ req'[x].job = req[x].job /\ req'[x].kind = req[x].kind
      /\ req'[x].amount = req[x].amount
  BY <1>0, <1>1, DepositAssumption DEF Shaped
<1>3. WorksOnPaid(req[x])'
  <2>1. WorksOnPaid(req[x]) /\ \A p \in Knows(x) : Advances(p)
    BY DEF Undisturbed
  <2>2. req[x].todo \subseteq Knows(x)
    BY DEF Knows
  <2>3. req[x].ref \in References => req[x].ref \in Knows(x)
    BY <1>0 DEF Knows
  <2>. QED BY <1>2, <2>1, <2>2, <2>3 DEF WorksOnPaid, Advances, Working, Finalizers
<1>4. InitiatesNew(req[x])'
  BY <1>2 DEF Undisturbed, InitiatesNew, Initiators
<1>. QED BY <1>2, <1>3, <1>4

\* A step of one handler keeps the invariant if its own state and the tables
\* are sound after it and the others are not disturbed.
LEMMA HandlerStep ==
  ASSUME Inv, NEW h \in Handlers, DOMAIN req' = Handlers,
         TablesSound', HandlerSound(h)',
         \A x \in Handlers \ {h} : Undisturbed(x) /\ FreshSnapshot(req[x])',
         Alone(h, req'[h])
  PROVE  Inv'
<1>1. \A x \in Handlers \ {h} : /\ HandlerSound(x)'
                                /\ req'[x].pc = req[x].pc /\ req'[x].ref = req[x].ref
  BY OtherHandlerSound
<1>2. ASSUME NEW x \in Handlers PROVE Alone(x, req[x])'
  BY <1>1 DEF Inv, Alone
<1>. QED BY <1>1, <1>2 DEF Inv

Same == UNCHANGED <<intents, deposit, contributions, reconciled, status>>

LEMMA QuietStep ==
  ASSUME Inv, Same, NEW h \in Handlers, DOMAIN req' = Handlers,
         \A x \in Handlers \ {h} : req'[x] = req[x],
         HandlerSound(h)', Alone(h, req'[h])
  PROVE  Inv'
<1>1. TablesSound'
  BY DEF Inv, TablesSound, TablesShaped, FreeIds, RowSound, Credited, Credits, Same
<1>2. \A x \in Handlers \ {h} : Undisturbed(x)
  BY DEF Undisturbed, Advances, Credits, Same
<1>3. \A x \in Handlers \ {h} : FreshSnapshot(req[x])'
  BY DEF Inv, HandlerSound, FreshSnapshot, AcceptsContributions, Same
<1>. QED BY <1>1, <1>2, <1>3, HandlerStep

\* Going on with the payment a handler has, or leaving it, disturbs nobody.
LEMMA AloneKept ==
  ASSUME Inv, NEW h \in Handlers, NEW q,
         \/ q.ref = req[h].ref /\ (q.pc \in Initiators => req[h].pc \in Initiators)
         \/ q.ref = None /\ q.pc \notin Initiators
  PROVE  Alone(h, q)
<1>1. Alone(h, req[h])
  BY DEF Inv
<1>2. \A x \in Handlers : req[x].pc \in Initiators => req[x].ref # None
  BY DepositAssumption DEF Inv, HandlerSound, InitiatesNew
<1>. QED BY <1>1, <1>2 DEF Alone

LEMMA EndedSound ==
  ASSUME Inv, NEW h \in Handlers, req'[h] \in {Ended(h), Idle},
         \A p \in req[h].todo : Advances(p)
  PROVE  HandlerSound(h)' /\ Alone(h, req'[h])
<1>. USE DEF Inv, HandlerSound
<1>1. Shaped(req[h]) /\ WorksOnPaid(req[h])
  OBVIOUS
<1>2. /\ Shaped(req[h])'
      /\ req'[h].pc \in {"idle", "jobNext"} /\ req'[h].ref = None
      /\ req'[h].todo \subseteq req[h].todo
  <2>1. req[h].todo \subseteq References
    BY <1>1 DEF Shaped
  <2>2. \/ req'[h] = Idle
        \/ req'[h] = [Idle EXCEPT !.pc = "jobNext", !.job = TRUE, !.todo = req[h].todo]
    BY DEF Ended
  <2>3. CASE req'[h] = Idle
    BY <2>3 DEF Shaped, Idle, Pcs, Outcomes
  <2>4. CASE req'[h] = [Idle EXCEPT !.pc = "jobNext", !.job = TRUE, !.todo = req[h].todo]
    <3>1. req'[h] = [pc |-> "jobNext", ref |-> None, id |-> None, amount |-> 0,
                     kind |-> "none", visible |-> FALSE, outcome |-> "none", snap |-> 0,
                     stale |-> FALSE, job |-> TRUE, todo |-> req[h].todo]
      BY <2>4 DEF Idle
    <3>. QED BY <2>1, <3>1 DEF Shaped, Pcs, Outcomes
  <2>. QED BY <2>2, <2>3, <2>4
<1>3. WorksOnPaid(req[h])'
  BY <1>1, <1>2 DEF WorksOnPaid, Working, Finalizers, Advances
<1>4. InitiatesNew(req[h])' /\ FreshSnapshot(req[h])'
  BY <1>2 DEF InitiatesNew, FreshSnapshot, Initiators
<1>5. Alone(h, req'[h])
  BY <1>2, AloneKept DEF Initiators
<1>. QED BY <1>2, <1>3, <1>4, <1>5

LEMMA DoneStep ==
  ASSUME Inv, NEW h \in Handlers, Done(h) \/ Become(h, Idle), Same
  PROVE  Inv'
<1>1. /\ DOMAIN req' = Handlers
      /\ req'[h] \in {Ended(h), Idle}
      /\ \A x \in Handlers \ {h} : req'[x] = req[x]
  BY DEF Inv, Done, Become
<1>2. \A p \in req[h].todo : Advances(p)
  BY DEF Same, Advances
<1>. QED BY <1>1, <1>2, EndedSound, QuietStep

(***************************************************************************)
(* What a handler becomes.                                                 *)
(***************************************************************************)
LEMMA AtShape ==
  ASSUME NEW h \in Handlers, Shaped(req[h]), NEW pc \in Pcs, NEW o \in Outcomes, NEW r,
         r = At(h, pc) \/ r = [At(h, pc) EXCEPT !.outcome = o]
  PROVE  /\ Shaped(r) /\ r.pc = pc /\ r.ref = req[h].ref
         /\ r.todo = req[h].todo /\ r.job = req[h].job
         /\ r = [At(h, pc) EXCEPT !.outcome = o] => r.outcome = o
<1>1. Shaped(Idle)
  BY DEF Shaped, Idle, Pcs, Outcomes
<1>2. /\ req[h].ref \in References \cup {None} /\ req[h].job \in BOOLEAN
      /\ req[h].todo \in SUBSET References
  BY DEF Shaped
<1>3. CASE r = At(h, pc)
  BY <1>1, <1>2, <1>3 DEF At, Shaped
<1>4. CASE r = [At(h, pc) EXCEPT !.outcome = o]
  BY <1>1, <1>2, <1>4 DEF At, Shaped
<1>. QED BY <1>3, <1>4

(***************************************************************************)
(* initiateContribution, initiateSubscription                              *)
(***************************************************************************)
LEMMA AmountsPositive == \A n \in Amounts : n \in Nat /\ n > 0
BY DepositAssumption

LEMMA StartInitiateStep ==
  ASSUME Inv, NEW h \in Handlers, StartInitiate(h)
  PROVE  Inv'
<1>. USE DEF Inv, HandlerSound
<1>1. PICK p \in References, kind \in Kinds, n \in Amounts :
        /\ Unknown(p)
        /\ Become(h, [Idle EXCEPT !.pc = "iniInsert", !.ref = p, !.kind = kind, !.amount = n])
  BY DEF StartInitiate
<1>2. Same
  BY DEF StartInitiate, depositVars, lifecycleVars, Same
<1>3. req'[h] = [pc |-> "iniInsert", ref |-> p, id |-> None, amount |-> n,
                 kind |-> kind, visible |-> FALSE, outcome |-> "none", snap |-> 0,
                 stale |-> FALSE, job |-> FALSE, todo |-> {}]
  BY <1>1 DEF Become, Idle
<1>4. /\ Shaped(req[h])'
      /\ req'[h].pc = "iniInsert" /\ req'[h].ref = p /\ req'[h].job = FALSE
      /\ req'[h].amount \in Amounts /\ req'[h].kind \in Kinds /\ req'[h].todo = {}
  BY <1>3, DepositAssumption DEF Shaped, Pcs, Outcomes
<1>5. /\ intents[p].state = "none" /\ ~intents[p].aged /\ Credits(p) = {}
      /\ \A x \in Handlers : req[x].ref # p
  BY <1>1 DEF Unknown, TablesSound, RowSound
<1>6. InitiatesNew(req[h])'
  BY <1>2, <1>4, <1>5 DEF InitiatesNew, Same, Credits
<1>7. WorksOnPaid(req[h])' /\ FreshSnapshot(req[h])'
  BY <1>4 DEF WorksOnPaid, FreshSnapshot, Working, Finalizers
<1>8. Alone(h, req'[h])
  BY <1>4, <1>5 DEF Alone
<1>. QED BY <1>1, <1>2, <1>4, <1>6, <1>7, <1>8, QuietStep DEF Become

LEMMA InsertIntentStep ==
  ASSUME Inv, NEW h \in Handlers, InsertIntent(h)
  PROVE  Inv'
<1>0. PICK p : p = req[h].ref
  OBVIOUS
<1>1. /\ req[h].pc = "iniInsert" /\ p \in References /\ ~req[h].job
      /\ intents[p].state = "none" /\ ~intents[p].aged /\ Credits(p) = {}
      /\ req[h].amount \in Amounts /\ req[h].kind \in Kinds
  BY <1>0 DEF Inv, HandlerSound, InsertIntent, InitiatesNew, Initiators
<1>2. /\ intents' = [intents EXCEPT ![p] =
                       [state |-> "live", kind |-> req[h].kind, amount |-> req[h].amount,
                        fulfilled |-> FALSE, aged |-> FALSE]]
      /\ UNCHANGED <<deposit, contributions, reconciled, status>>
      /\ req' = [req EXCEPT ![h] = At(h, "iniSend")]
  BY <1>0 DEF InsertIntent, Become, lifecycleVars
<1>3. \A r \in References : Credits(r)' = Credits(r)
  BY <1>2 DEF Credits
<1>4. /\ TablesShaped /\ RowSound(p)
      /\ deposit[p] = "absent" /\ reconciled[p] # "completed"
  BY <1>1 DEF Inv, TablesSound, RowSound
<1>5. /\ intents'[p] = [state |-> "live", kind |-> req[h].kind, amount |-> req[h].amount,
                        fulfilled |-> FALSE, aged |-> FALSE]
      /\ req[h].amount \in Nat /\ req[h].amount > 0
  <2>1. DOMAIN intents = References /\ p \in References
    BY <1>1, <1>4 DEF TablesShaped
  <2>2. req[h].amount \in Nat /\ req[h].amount > 0
    BY <1>1, AmountsPositive
  <2>. QED BY <1>2, <2>1, <2>2
<1>6. intents'[p] \in IntentType
  BY <1>1, <1>5 DEF IntentType
<1>7. TablesSound'
  <2>1. TablesShaped' /\ FreeIds'
    BY <1>2, <1>4, <1>6 DEF Inv, TablesShaped, TablesSound, FreeIds
  <2>2. Credited(p)'
    BY <1>1, <1>3, <1>5 DEF Credited
  <2>4. RowSound(p)'
    BY <1>1, <1>2, <1>3, <1>4, <1>5 DEF RowSound
  <2>3. ASSUME NEW r \in References, r # p PROVE RowSound(r)' /\ Credited(r)'
    BY <1>2, <1>3, <1>4, <2>3 DEF Inv, RowSound, Credited, TablesShaped, TablesSound
  <2>. QED BY <2>1, <2>2, <2>3, <2>4 DEF TablesSound
<1>8. \A r \in References : Advances(r)
  BY <1>1, <1>2, <1>4 DEF Advances, TablesShaped, RowSound
<1>9. ASSUME NEW x \in Handlers \ {h} PROVE Undisturbed(x) /\ FreshSnapshot(req[x])'
  <2>1. req'[x] = req[x] /\ req[x].ref # p /\ Shaped(req[x])
    BY <1>0, <1>1, <1>2 DEF Inv, HandlerSound, Alone, Initiators
  <2>2. Knows(x) \subseteq References
    BY <2>1 DEF Knows, Shaped
  <2>3. Undisturbed(x)
    BY <1>2, <1>3, <1>8, <2>1, <2>2 DEF Inv, HandlerSound, Undisturbed, InitiatesNew
  <2>4. FreshSnapshot(req[x])'
    BY <1>2, <2>1 DEF Inv, HandlerSound, FreshSnapshot, AcceptsContributions,
                      WorksOnPaid, Working, Finalizers
  <2>. QED BY <2>3, <2>4
<1>10. /\ req'[h].pc = "iniSend" /\ req'[h].ref = p /\ Shaped(req'[h])
       /\ req'[h].todo = req[h].todo /\ req'[h].job = req[h].job
  BY <1>0, <1>1, <1>2, AtShape DEF Pcs, Outcomes, Inv, HandlerSound
<1>11. HandlerSound(h)'
  <2>1. InitiatesNew(req[h])'
    BY <1>1, <1>2, <1>3, <1>4, <1>5, <1>10 DEF InitiatesNew
  <2>2. WorksOnPaid(req[h])'
    BY <1>0, <1>1, <1>8, <1>10
    DEF Inv, HandlerSound, WorksOnPaid, Working, Finalizers, Advances, Shaped
  <2>3. FreshSnapshot(req[h])' /\ Shaped(req[h])'
    BY <1>10 DEF FreshSnapshot, Shaped
  <2>. QED BY <2>1, <2>2, <2>3 DEF HandlerSound
<1>12. Alone(h, req'[h])
  BY <1>0, <1>1, <1>10, AloneKept DEF Initiators
<1>. QED BY <1>2, <1>7, <1>9, <1>11, <1>12, HandlerStep DEF Inv

(***************************************************************************)
(* Steps that leave every table as it is.                                  *)
(***************************************************************************)
OnlyMoves(h) == /\ Same /\ DOMAIN req' = Handlers
                /\ \A x \in Handlers \ {h} : req'[x] = req[x]

LEMMA CarriesOn ==
  ASSUME Inv, NEW h \in Handlers, OnlyMoves(h), Shaped(req'[h]),
         req'[h].pc \notin Initiators \cup {"finalTx"},
         req'[h].ref \in {req[h].ref, None}, WorksOnPaid(req[h])'
  PROVE  Inv'
<1>1. Alone(h, req'[h])
  BY AloneKept
<1>2. HandlerSound(h)'
  BY DEF HandlerSound, InitiatesNew, FreshSnapshot, Shaped
<1>. QED BY <1>1, <1>2, QuietStep DEF OnlyMoves

LEMMA IdleShape == Shaped(Idle) /\ Idle.ref = None /\ Idle.todo = {}
BY DEF Shaped, Idle, Pcs, Outcomes

LEMMA StartPollStep ==
  ASSUME Inv, NEW h \in Handlers, StartPoll(h)
  PROVE  Inv'
<1>1. PICK p \in References :
        /\ intents[p].state = "live" /\ ~Initiating(p)
        /\ Become(h, [Idle EXCEPT !.pc = "pollRead", !.ref = p])
  BY DEF StartPoll
<1>2. OnlyMoves(h)
  BY <1>1 DEF Inv, StartPoll, Become, OnlyMoves, Same, depositVars, lifecycleVars
<1>3. /\ Shaped(req'[h]) /\ req'[h].pc = "pollRead" /\ req'[h].ref = p
      /\ req'[h].todo = {}
  <2>1. req'[h] = [Idle EXCEPT !.pc = "pollRead", !.ref = p]
    BY <1>1 DEF Become, Inv
  <2>. QED BY <2>1, IdleShape DEF Shaped, Pcs
<1>4. WorksOnPaid(req[h])'
  BY <1>1, <1>2, <1>3 DEF WorksOnPaid, Working, Finalizers, OnlyMoves, Same
<1>5. HandlerSound(h)'
  BY <1>3, <1>4 DEF HandlerSound, InitiatesNew, FreshSnapshot, Initiators, Shaped
<1>6. \A x \in Handlers : req[x].pc \in Initiators => req[x].ref # p
  BY <1>1 DEF Inv, HandlerSound, InitiatesNew, Initiators, Initiating
<1>7. Alone(h, req'[h])
  BY <1>3, <1>6 DEF Alone, Initiators
<1>. QED BY <1>2, <1>5, <1>7, QuietStep DEF OnlyMoves

LEMMA StartJobStep ==
  ASSUME Inv, NEW h \in Handlers, StartJob(h)
  PROVE  Inv'
<1>1. OnlyMoves(h)
  BY DEF Inv, StartJob, Become, OnlyMoves, Same, depositVars, lifecycleVars
<1>2. /\ Shaped(req'[h]) /\ req'[h].pc = "jobNext" /\ req'[h].ref = None
      /\ req'[h].todo = StaleIntents
  <2>1. req'[h] = [Idle EXCEPT !.pc = "jobNext", !.job = TRUE, !.todo = StaleIntents]
    BY DEF StartJob, Become, Inv
  <2>2. StaleIntents \subseteq References
    BY DEF StaleIntents
  <2>. QED BY <2>1, <2>2, IdleShape DEF Shaped, Pcs
<1>3. WorksOnPaid(req[h])'
  BY <1>1, <1>2 DEF WorksOnPaid, Working, Finalizers, OnlyMoves, Same, StaleIntents
<1>. QED BY <1>1, <1>2, <1>3, CarriesOn DEF Initiators

\* What is recorded by hand, hidden or repaired works on no payment.
LEMMA ManualStarts ==
  ASSUME Inv, NEW h \in Handlers, StartAdd(h) \/ StartSetVisibility(h) \/ RepairRead(h)
  PROVE  Inv'
<1>1. OnlyMoves(h)
  BY DEF Inv, StartAdd, StartSetVisibility, RepairRead, Become, OnlyMoves, Same,
         depositVars, lifecycleVars
<1>2. /\ Shaped(req'[h]) /\ req'[h].pc \in {"add", "visible", "repairWrite"}
      /\ req'[h].ref = None /\ req'[h].todo = {}
  <2>1. CASE StartAdd(h)
    <3>1. PICK n \in Amounts : req'[h] = [Idle EXCEPT !.pc = "add", !.amount = n]
      BY <2>1 DEF StartAdd, Become, Inv
    <3>. QED BY <3>1, IdleShape, AmountsPositive DEF Shaped, Pcs
  <2>2. CASE StartSetVisibility(h)
    <3>1. PICK c \in Used :
            req'[h] = [Idle EXCEPT !.pc = "visible", !.id = c,
                                   !.visible = ~contributions[c].visible]
      BY <2>2 DEF StartSetVisibility, Become, Inv
    <3>2. c \in Ids
      BY DEF Used
    <3>3. (~contributions[c].visible) \in BOOLEAN
      OBVIOUS
    <3>. QED BY <3>1, <3>2, <3>3, IdleShape DEF Shaped, Pcs
  <2>3. CASE RepairRead(h)
    <3>1. req'[h] = [Idle EXCEPT !.pc = "repairWrite", !.snap = Raised(contributions)]
      BY <2>3 DEF RepairRead, Become, Inv
    <3>. QED BY <3>1, IdleShape DEF Shaped, Pcs
  <2>. QED BY <2>1, <2>2, <2>3
<1>3. WorksOnPaid(req[h])'
  BY <1>2 DEF WorksOnPaid, Working, Finalizers
<1>. QED BY <1>1, <1>2, <1>3, CarriesOn DEF Initiators

\* A handler goes on with the payment it has, knowing no more than before.
LEMMA GoStep ==
  ASSUME Inv, NEW h \in Handlers, Same, NEW pc \in Pcs \ (Initiators \cup {"finalTx"}),
         NEW n,
         \/ Become(h, [req[h] EXCEPT !.pc = pc])
         \/ Become(h, [req[h] EXCEPT !.pc = pc, !.snap = n]),
         \A q : /\ q.pc = pc /\ q.ref = req[h].ref /\ q.todo = req[h].todo
                /\ q.outcome = req[h].outcome
                => WorksOnPaid(q)
  PROVE  Inv'
<1>1. OnlyMoves(h)
  BY DEF Inv, Become, OnlyMoves
<1>2. /\ Shaped(req'[h]) /\ req'[h].pc = pc /\ req'[h].ref = req[h].ref
      /\ req'[h].todo = req[h].todo /\ req'[h].outcome = req[h].outcome
  <2>1. \/ req'[h] = [req[h] EXCEPT !.pc = pc]
        \/ req'[h] = [req[h] EXCEPT !.pc = pc, !.snap = n]
    BY DEF Become, Inv
  <2>2. Shaped(req[h])
    BY DEF Inv, HandlerSound
  <2>3. CASE req'[h] = [req[h] EXCEPT !.pc = pc]
    BY <2>2, <2>3 DEF Shaped
  <2>4. CASE req'[h] = [req[h] EXCEPT !.pc = pc, !.snap = n]
    BY <2>2, <2>4 DEF Shaped
  <2>. QED BY <2>1, <2>3, <2>4
<1>3. WorksOnPaid(req[h])'
  BY <1>2 DEF WorksOnPaid, Same
<1>. QED BY <1>1, <1>2, <1>3, CarriesOn

LEMMA AnswerStep ==
  ASSUME Inv, NEW h \in Handlers, Same, req[h].pc \in Working, Answer(h, "failed")
  PROVE  Inv'
<1>1. CASE req[h].job
  <2>1. OnlyMoves(h)
    BY <1>1 DEF Inv, Answer, Become, OnlyMoves
  <2>2. req'[h] = [At(h, "record") EXCEPT !.outcome = "failed"]
    BY <1>1 DEF Inv, Answer, Become
  <2>3. /\ Shaped(req'[h]) /\ req'[h].pc = "record" /\ req'[h].ref = req[h].ref
        /\ req'[h].todo = req[h].todo /\ req'[h].outcome = "failed"
    BY <2>2, AtShape DEF Inv, HandlerSound, Pcs, Outcomes
  <2>4. WorksOnPaid(req[h])'
    BY <2>3 DEF Inv, HandlerSound, WorksOnPaid, Working, Finalizers, Same
  <2>. QED BY <2>1, <2>3, <2>4, CarriesOn DEF Initiators
<1>2. CASE ~req[h].job
  BY <1>2, DoneStep DEF Answer
<1>. QED BY <1>1, <1>2

LEMMA ReadIntentStep ==
  ASSUME Inv, NEW h \in Handlers, ReadIntent(h)
  PROVE  Inv'
<1>1. Same
  BY DEF ReadIntent, depositVars, lifecycleVars, Same
<1>2. CASE Done(h)
  BY <1>1, <1>2, DoneStep
<1>3. CASE Go(h, "fetch")
  <2>1. \A q : /\ q.pc = "fetch" /\ q.ref = req[h].ref /\ q.todo = req[h].todo
               => WorksOnPaid(q)
    BY DEF ReadIntent, Inv, HandlerSound, WorksOnPaid, Working, Finalizers
  <2>. QED BY <1>1, <1>3, <2>1, GoStep DEF Go, Pcs, Initiators
<1>. QED BY <1>2, <1>3 DEF ReadIntent

LEMMA FetchStep ==
  ASSUME Inv, NEW h \in Handlers, FetchStatus(h) \/ FetchError(h)
  PROVE  Inv'
<1>1. Same /\ req[h].pc = "fetch"
  BY DEF FetchStatus, FetchError, depositVars, lifecycleVars, Same
<1>2. CASE Done(h)
  BY <1>1, <1>2, DoneStep
<1>3. CASE Answer(h, "failed")
  BY <1>1, <1>3, AnswerStep DEF Working
<1>4. ASSUME deposit[req[h].ref] = "success", NEW pc \in {"final", "fulfil"},
             Go(h, pc), pc = "final" <=> intents[req[h].ref].kind = "contribution"
      PROVE  Inv'
  <2>1. \A q : /\ q.pc = pc /\ q.ref = req[h].ref /\ q.todo = req[h].todo
               => WorksOnPaid(q)
    BY <1>1, <1>4 DEF Inv, HandlerSound, WorksOnPaid, Working, Finalizers
  <2>. QED BY <1>1, <1>4, <2>1, GoStep DEF Go, Pcs, Initiators
<1>5. CASE /\ deposit[req[h].ref] = "success"
           /\ Go(h, IF intents[req[h].ref].kind = "contribution" THEN "final" ELSE "fulfil")
  BY <1>4, <1>5
<1>. QED BY <1>2, <1>3, <1>5 DEF FetchStatus, FetchError

LEMMA FinalizeBeginStep ==
  ASSUME Inv, NEW h \in Handlers, FinalizeBegin(h)
  PROVE  Inv'
<1>1. Same /\ req[h].pc = "final"
  BY DEF FinalizeBegin, depositVars, lifecycleVars, Same
<1>2. CASE Go(h, "afterNull")
  <2>1. \A q : /\ q.pc = "afterNull" /\ q.ref = req[h].ref /\ q.todo = req[h].todo
               => WorksOnPaid(q)
    BY <1>1 DEF Inv, HandlerSound, WorksOnPaid, Working, Finalizers
  <2>. QED BY <1>1, <1>2, <2>1, GoStep DEF Go, Pcs, Initiators
<1>3. CASE /\ ~intents[req[h].ref].fulfilled /\ AcceptsContributions
           /\ Become(h, [req[h] EXCEPT !.pc = "finalTx", !.snap = Raised(contributions)])
  <2>1. OnlyMoves(h)
    BY <1>1, <1>3 DEF Inv, Become, OnlyMoves
  <2>2. /\ Shaped(req'[h]) /\ req'[h].pc = "finalTx" /\ req'[h].ref = req[h].ref
        /\ req'[h].todo = req[h].todo
    <3>1. req'[h] = [req[h] EXCEPT !.pc = "finalTx", !.snap = Raised(contributions)]
      BY <1>3 DEF Become, Inv
    <3>2. Shaped(req[h])
      BY DEF Inv, HandlerSound
    <3>. QED BY <3>1, <3>2 DEF Shaped, Pcs, InTransaction
  <2>3. WorksOnPaid(req[h])'
    BY <1>1, <2>2 DEF Inv, HandlerSound, WorksOnPaid, Working, Finalizers, Same
  <2>4. FreshSnapshot(req[h])'
    BY <1>1, <1>3, <2>2 DEF FreshSnapshot, Same, AcceptsContributions
  <2>5. HandlerSound(h)'
    BY <2>2, <2>3, <2>4 DEF HandlerSound, InitiatesNew, Initiators, Shaped
  <2>6. Alone(h, req'[h])
    BY <2>2, AloneKept DEF Initiators
  <2>. QED BY <2>1, <2>5, <2>6, QuietStep DEF OnlyMoves
<1>. QED BY <1>2, <1>3 DEF FinalizeBegin

LEMMA AfterNullStep ==
  ASSUME Inv, NEW h \in Handlers, AfterNull(h)
  PROVE  Inv'
<1>1. Same /\ req[h].pc \in Working
  BY DEF AfterNull, depositVars, lifecycleVars, Same, Working, Finalizers
<1>. QED BY <1>1, DoneStep, AnswerStep DEF AfterNull

LEMMA JobNextStep ==
  ASSUME Inv, NEW h \in Handlers, JobNext(h)
  PROVE  Inv'
<1>1. Same
  BY DEF JobNext, depositVars, lifecycleVars, Same
<1>2. CASE Become(h, Idle)
  BY <1>1, <1>2, DoneStep
<1>3. ASSUME NEW p \in req[h].todo,
             Become(h, [req[h] EXCEPT !.pc = "pollRead", !.ref = p, !.todo = @ \ {p}])
      PROVE  Inv'
  <2>1. OnlyMoves(h)
    BY <1>1, <1>3 DEF Inv, Become, OnlyMoves
  <2>2. req[h].todo \subseteq References /\ Shaped(req[h])
    BY DEF Inv, HandlerSound, Shaped
  <2>3. /\ Shaped(req'[h]) /\ req'[h].pc = "pollRead" /\ req'[h].ref = p
        /\ req'[h].todo \subseteq req[h].todo
    <3>1. req'[h] = [req[h] EXCEPT !.pc = "pollRead", !.ref = p, !.todo = @ \ {p}]
      BY <1>3 DEF Become, Inv
    <3>. QED BY <2>2, <3>1 DEF Shaped, Pcs
  <2>4. intents[p].state = "live" /\ intents[p].aged
    BY DEF Inv, HandlerSound, WorksOnPaid
  <2>5. HandlerSound(h)'
    BY <1>1, <2>2, <2>3, <2>4
    DEF HandlerSound, InitiatesNew, WorksOnPaid, FreshSnapshot, Initiators, Working,
        Finalizers, Shaped, Same, Inv
  <2>6. \A x \in Handlers : req[x].pc \in Initiators => req[x].ref # p
    BY <2>4 DEF Inv, HandlerSound, InitiatesNew
  <2>7. Alone(h, req'[h])
    BY <2>3, <2>6 DEF Alone, Initiators
  <2>. QED BY <2>1, <2>5, <2>7, QuietStep DEF OnlyMoves
<1>. QED BY <1>2, <1>3 DEF JobNext

LEMMA TransactionBegins ==
  ASSUME Inv, NEW h \in Handlers, AddBegin(h) \/ SetVisibilityBegin(h)
  PROVE  Inv'
<1>1. Same
  BY DEF AddBegin, SetVisibilityBegin, depositVars, lifecycleVars, Same
<1>2. PICK pc \in {"addTx", "visibleTx"} :
        \E n : Become(h, [req[h] EXCEPT !.pc = pc, !.snap = n])
  BY DEF AddBegin, SetVisibilityBegin
<1>3. \A q : q.pc = pc /\ q.todo = req[h].todo => WorksOnPaid(q)
  BY DEF Inv, HandlerSound, WorksOnPaid, Working, Finalizers
<1>. QED BY <1>1, <1>2, <1>3, GoStep DEF Pcs, InTransaction, Initiators

(***************************************************************************)
(* Steps that write a table.                                               *)
(***************************************************************************)
OnlyTouches(p) ==
  \A r \in References \ {p} :
    /\ intents'[r] = intents[r] /\ deposit'[r] = deposit[r]
    /\ Credits(r)' = Credits(r)

LEMMA OthersUndisturbed ==
  ASSUME Inv, NEW x \in Handlers, NEW p, OnlyTouches(p),
         req'[x] \in {req[x], Overtaken(req[x])},
         p \in Knows(x) => Advances(p),
         req[x].pc \in Initiators => req[x].ref # p
  PROVE  Undisturbed(x)
<1>1. Knows(x) \subseteq References
  BY DEF Inv, HandlerSound, Knows, Shaped
<1>2. \A r \in Knows(x) : Advances(r)
  BY <1>1 DEF OnlyTouches, Advances
<1>3. req[x].pc \in Initiators => req[x].ref \in References \ {p}
  BY DEF Inv, HandlerSound, InitiatesNew
<1>. QED BY <1>2, <1>3 DEF Undisturbed, OnlyTouches

\* Nobody but its initiation knows of a payment that is being initiated.
LEMMA InitiationPrivate ==
  ASSUME Inv, NEW h \in Handlers, req[h].pc \in Initiators, NEW x \in Handlers \ {h}
  PROVE  req[h].ref \notin Knows(x) /\ req[x].ref # req[h].ref
<1>1. req[x].ref # req[h].ref
  BY DEF Inv, Alone
<1>2. req[h].ref \notin req[x].todo
  BY DEF Inv, HandlerSound, InitiatesNew, WorksOnPaid
<1>. QED BY <1>1, <1>2 DEF Knows

LEMMA RequestToPayStep ==
  ASSUME Inv, NEW h \in Handlers, RequestToPay(h)
  PROVE  Inv'
<1>0. PICK p : p = req[h].ref
  OBVIOUS
<1>1. /\ req[h].pc = "iniSend" /\ p \in References /\ ~req[h].job
      /\ intents[p].state = "live" /\ ~intents[p].aged /\ ~intents[p].fulfilled
      /\ Credits(p) = {} /\ deposit[p] = "absent"
  BY <1>0 DEF Inv, HandlerSound, RequestToPay, InitiatesNew, Initiators
<1>2. /\ UNCHANGED <<intents, contributions, reconciled, status>>
      /\ DOMAIN req' = Handlers
      /\ \A x \in Handlers \ {h} : req'[x] = req[x]
      /\ req'[h] \in {Ended(h), At(h, "iniDelete")}
      /\ deposit' \in {deposit, [deposit EXCEPT ![p] = "pending"]}
  BY <1>0 DEF Inv, RequestToPay, Done, Become, lifecycleVars, tables
<1>3. OnlyTouches(p) /\ \A r \in References : Credits(r)' = Credits(r) /\ Advances(r)
  BY <1>1, <1>2 DEF OnlyTouches, Credits, Advances, Inv, TablesSound, TablesShaped
<1>4. TablesSound'
  <2>1. TablesShaped' /\ FreeIds'
    BY <1>2 DEF Inv, TablesShaped, TablesSound, FreeIds
  <2>2. RowSound(p)'
    BY <1>1, <1>2, <1>3 DEF Inv, TablesSound, RowSound
  <2>3. ASSUME NEW r \in References, r # p PROVE RowSound(r)'
    BY <1>2, <1>3, <2>3 DEF Inv, RowSound, TablesSound, OnlyTouches
  <2>4. \A r \in References : Credited(r)'
    BY <1>2, <1>3 DEF Inv, Credited, TablesSound
  <2>. QED BY <2>1, <2>2, <2>3, <2>4 DEF TablesSound
<1>5. ASSUME NEW x \in Handlers \ {h} PROVE Undisturbed(x) /\ FreshSnapshot(req[x])'
  <2>1. p \notin Knows(x) /\ req[x].ref # p
    BY <1>0, <1>1, InitiationPrivate DEF Initiators
  <2>2. FreshSnapshot(req[x])'
    BY <1>2 DEF Inv, HandlerSound, FreshSnapshot, AcceptsContributions
  <2>. QED BY <1>2, <1>3, <2>1, <2>2, OthersUndisturbed
<1>6. CASE req'[h] = Ended(h)
  BY <1>2, <1>3, <1>4, <1>5, <1>6, EndedSound, HandlerStep
  DEF Inv, HandlerSound, Shaped
<1>7. CASE req'[h] = At(h, "iniDelete")
  <2>1. /\ req'[h].pc = "iniDelete" /\ req'[h].ref = p /\ Shaped(req'[h])
        /\ req'[h].todo = req[h].todo /\ req'[h].job = req[h].job
    BY <1>0, <1>7, AtShape DEF Pcs, Outcomes, Inv, HandlerSound
  <2>2. InitiatesNew(req[h])'
    BY <1>1, <1>2, <1>3, <2>1 DEF InitiatesNew
  <2>3. WorksOnPaid(req[h])' /\ FreshSnapshot(req[h])' /\ Shaped(req[h])'
    BY <1>2, <2>1
    DEF Inv, HandlerSound, WorksOnPaid, Working, Finalizers, FreshSnapshot, Shaped
  <2>4. Alone(h, req'[h])
    BY <1>0, <1>1, <2>1, AloneKept DEF Initiators
  <2>. QED BY <1>2, <1>4, <1>5, <2>2, <2>3, <2>4, HandlerStep DEF HandlerSound
<1>. QED BY <1>2, <1>6, <1>7

LEMMA DeleteIntentStep ==
  ASSUME Inv, NEW h \in Handlers, DeleteIntent(h)
  PROVE  Inv'
<1>0. PICK p : p = req[h].ref
  OBVIOUS
<1>1. /\ req[h].pc = "iniDelete" /\ p \in References /\ ~req[h].job
      /\ ~intents[p].aged /\ ~intents[p].fulfilled /\ Credits(p) = {}
      /\ RowSound(p)
  BY <1>0 DEF Inv, TablesSound, HandlerSound, DeleteIntent, InitiatesNew, Initiators
<1>2. /\ intents' = [intents EXCEPT ![p] = [NoIntent EXCEPT !.state = "deleted"]]
      /\ UNCHANGED <<deposit, contributions, reconciled, status>>
      /\ DOMAIN req' = Handlers
      /\ \A x \in Handlers \ {h} : req'[x] = req[x]
      /\ req'[h] = Ended(h)
  BY <1>0 DEF Inv, DeleteIntent, Done, Become, lifecycleVars
<1>3. intents'[p] = [state |-> "deleted", kind |-> "none", amount |-> 0,
                     fulfilled |-> FALSE, aged |-> FALSE]
  <2>1. DOMAIN intents = References
    BY DEF Inv, TablesSound, TablesShaped
  <2>. QED BY <1>1, <1>2, <2>1 DEF NoIntent
<1>4. OnlyTouches(p) /\ \A r \in References : Credits(r)' = Credits(r)
  BY <1>2 DEF OnlyTouches, Credits, Inv, TablesSound, TablesShaped
<1>5. TablesSound'
  <2>1. intents'[p] \in IntentType
    BY <1>3 DEF IntentType
  <2>2. TablesShaped' /\ FreeIds'
    BY <1>2, <2>1 DEF Inv, TablesShaped, TablesSound, FreeIds
  <2>3. RowSound(p)' /\ Credited(p)'
    BY <1>1, <1>2, <1>3, <1>4 DEF RowSound, Credited
  <2>4. ASSUME NEW r \in References, r # p PROVE RowSound(r)' /\ Credited(r)'
    BY <1>2, <1>4, <2>4 DEF Inv, RowSound, Credited, TablesSound, OnlyTouches
  <2>. QED BY <2>2, <2>3, <2>4 DEF TablesSound
<1>6. ASSUME NEW x \in Handlers \ {h} PROVE Undisturbed(x) /\ FreshSnapshot(req[x])'
  <2>1. p \notin Knows(x) /\ req[x].ref # p
    BY <1>0, <1>1, InitiationPrivate DEF Initiators
  <2>2. req[x].pc = "finalTx" => req[x].ref \in References
    BY DEF Inv, HandlerSound, WorksOnPaid, Working, Finalizers
  <2>3. FreshSnapshot(req[x])'
    BY <1>2, <1>4, <2>1, <2>2
    DEF Inv, HandlerSound, FreshSnapshot, AcceptsContributions, OnlyTouches
  <2>. QED BY <1>2, <1>4, <2>1, <2>3, OthersUndisturbed
<1>7. \A r \in req[h].todo : Advances(r)
  <2>1. p \notin req[h].todo /\ req[h].todo \subseteq References
    BY <1>1 DEF Inv, HandlerSound, WorksOnPaid, Shaped
  <2>. QED BY <1>4, <2>1 DEF OnlyTouches, Advances
<1>. QED BY <1>2, <1>5, <1>6, <1>7, EndedSound, HandlerStep

LEMMA CompletedSound ==
  ASSUME Inv, NEW h \in Handlers, NEW p \in References, p = req[h].ref,
         intents'[p].state = "live", intents'[p].fulfilled,
         \A r \in req[h].todo : Advances(r),
         \/ req'[h] \in {Ended(h), Idle}
         \/ req'[h] = [At(h, "record") EXCEPT !.outcome = "completed"]
  PROVE  HandlerSound(h)' /\ Alone(h, req'[h])
<1>1. CASE req'[h] \in {Ended(h), Idle}
  BY <1>1, EndedSound
<1>2. CASE req'[h] = [At(h, "record") EXCEPT !.outcome = "completed"]
  <2>1. /\ Shaped(req'[h]) /\ req'[h].pc = "record" /\ req'[h].ref = p
        /\ req'[h].todo = req[h].todo
    BY <1>2, AtShape DEF Inv, HandlerSound, Pcs, Outcomes
  <2>2. WorksOnPaid(req[h])'
    BY <2>1 DEF Inv, HandlerSound, WorksOnPaid, Working, Finalizers, Advances
  <2>3. HandlerSound(h)'
    BY <2>1, <2>2 DEF HandlerSound, InitiatesNew, FreshSnapshot, Initiators, Shaped
  <2>. QED BY <2>1, <2>3, AloneKept DEF Initiators
<1>. QED BY <1>1, <1>2

LEMMA NotInitiated ==
  ASSUME Inv, NEW h \in Handlers, NEW x \in Handlers \ {h}, req[x].pc \in Initiators
  PROVE  req[x].ref # req[h].ref
BY DEF Inv, Alone

LEMMA FulfilSubscriptionStep ==
  ASSUME Inv, NEW h \in Handlers, FulfilSubscription(h)
  PROVE  Inv'
<1>0. PICK p : p = req[h].ref
  OBVIOUS
<1>1. /\ p \in References /\ intents[p].state = "live"
      /\ intents[p].kind # "contribution" /\ deposit[p] = "success"
      /\ intents[p] \in IntentType /\ RowSound(p) /\ Credited(p)
  BY <1>0 DEF FulfilSubscription, Inv, TablesSound, TablesShaped, HandlerSound,
              WorksOnPaid, Working
<1>2. /\ intents' = [intents EXCEPT ![p].fulfilled = TRUE]
      /\ UNCHANGED <<deposit, contributions, reconciled, status>>
      /\ DOMAIN req' = Handlers
      /\ \A x \in Handlers \ {h} : req'[x] = req[x]
      /\ \/ req'[h] = Ended(h)
         \/ req'[h] = [At(h, "record") EXCEPT !.outcome = "completed"]
  BY <1>0 DEF Inv, FulfilSubscription, Answer, Done, Become, lifecycleVars
<1>3. /\ intents'[p] \in IntentType
      /\ intents'[p].state = "live" /\ intents'[p].fulfilled
      /\ intents'[p].kind = intents[p].kind /\ intents'[p].aged = intents[p].aged
      /\ intents'[p].amount = intents[p].amount
  <2>1. DOMAIN intents = References
    BY DEF Inv, TablesSound, TablesShaped
  <2>. QED BY <1>1, <1>2, <2>1 DEF IntentType
<1>4. OnlyTouches(p) /\ \A r \in References : Credits(r)' = Credits(r)
  BY <1>2 DEF OnlyTouches, Credits, Inv, TablesSound, TablesShaped
<1>5. \A r \in References : Advances(r)
  BY <1>1, <1>2, <1>3, <1>4 DEF Advances, OnlyTouches
<1>6. TablesSound'
  <2>1. TablesShaped' /\ FreeIds'
    BY <1>2, <1>3 DEF Inv, TablesShaped, TablesSound, FreeIds
  <2>2. RowSound(p)' /\ Credited(p)'
    BY <1>1, <1>2, <1>3, <1>4 DEF RowSound, Credited
  <2>3. ASSUME NEW r \in References, r # p PROVE RowSound(r)' /\ Credited(r)'
    BY <1>2, <1>4, <2>3 DEF Inv, RowSound, Credited, TablesSound, OnlyTouches
  <2>. QED BY <2>1, <2>2, <2>3 DEF TablesSound
<1>7. ASSUME NEW x \in Handlers \ {h} PROVE Undisturbed(x) /\ FreshSnapshot(req[x])'
  <2>1. Undisturbed(x)
    BY <1>0, <1>1, <1>2, <1>4, <1>5, NotInitiated, OthersUndisturbed
  <2>2. req[x].pc = "finalTx" => req[x].ref \in References \ {p}
    BY <1>1 DEF Inv, HandlerSound, WorksOnPaid, Working, Finalizers
  <2>3. FreshSnapshot(req[x])'
    BY <1>2, <1>4, <2>2
    DEF Inv, HandlerSound, FreshSnapshot, AcceptsContributions, OnlyTouches
  <2>. QED BY <2>1, <2>3
<1>8. HandlerSound(h)' /\ Alone(h, req'[h])
  <2>1. req[h].todo \subseteq References
    BY DEF Inv, HandlerSound, Shaped
  <2>. QED BY <1>0, <1>1, <1>2, <1>3, <1>5, <2>1, CompletedSound
<1>. QED BY <1>2, <1>6, <1>7, <1>8, HandlerStep

LEMMA FinalizeCommitStep ==
  ASSUME Inv, NEW h \in Handlers, FinalizeCommit(h)
  PROVE  Inv'
<1>0. PICK p : p = req[h].ref
  OBVIOUS
<1>1. /\ req[h].pc = "finalTx" /\ p \in References /\ intents[p].state = "live"
      /\ intents[p].kind = "contribution" /\ deposit[p] = "success"
      /\ intents[p] \in IntentType /\ RowSound(p) /\ Credited(p)
      /\ SnapshotIsolation => ~intents[p].fulfilled
      /\ req[h].todo \subseteq References
  BY <1>0 DEF FinalizeCommit, MayCommit, Inv, TablesSound, TablesShaped, HandlerSound,
              WorksOnPaid, FreshSnapshot, Working, Finalizers, Shaped
<1>2. PICK c \in Ids \ Used :
        contributions' = [contributions EXCEPT ![c] =
          [ref |-> p, amount |-> intents[p].amount, paid |-> TRUE, visible |-> TRUE]]
  BY <1>0 DEF FinalizeCommit
<1>3. /\ intents' = [intents EXCEPT ![p].fulfilled = TRUE]
      /\ UNCHANGED <<deposit, reconciled, status>>
      /\ DOMAIN req' = Handlers
      /\ \A x \in Handlers \ {h} :
           \/ req'[x] = Overtaken(req[x])
           \/ req'[x] = req[x] /\ req[x].pc # "finalTx"
      /\ req'[h] = IF req[h].job THEN [At(h, "record") EXCEPT !.outcome = "completed"]
                   ELSE Idle
  BY <1>0, <1>1 DEF FinalizeCommit, CommitThen, lifecycleVars
<1>4. /\ intents'[p] \in IntentType
      /\ intents'[p].state = "live" /\ intents'[p].fulfilled
      /\ intents'[p].kind = intents[p].kind /\ intents'[p].aged = intents[p].aged
      /\ intents'[p].amount = intents[p].amount
  <2>1. DOMAIN intents = References
    BY DEF Inv, TablesSound, TablesShaped
  <2>. QED BY <1>1, <1>3, <2>1 DEF IntentType
<1>5. /\ contributions'[c] = [ref |-> p, amount |-> intents[p].amount,
                              paid |-> TRUE, visible |-> TRUE]
      /\ \A d \in Ids \ {c} : contributions'[d] = contributions[d]
  BY <1>2 DEF Inv, TablesSound, TablesShaped
<1>6. contributions[c].ref = None
  <2>1. contributions[c].amount = 0
    BY DEF Used, Inv, TablesSound, TablesShaped, ContributionType
  <2>. QED BY <2>1 DEF Inv, TablesSound, FreeIds
<1>7. /\ Credits(p)' = Credits(p) \cup {c}
      /\ \A r \in References \ {p} : Credits(r)' = Credits(r)
  BY <1>1, <1>5, <1>6, DepositAssumption DEF Credits
<1>8. OnlyTouches(p) /\ \A r \in References : Advances(r)
  BY <1>1, <1>3, <1>4, <1>7 DEF OnlyTouches, Advances, Inv, TablesSound, TablesShaped
<1>9. TablesSound'
  <2>1. /\ intents[p].amount \in Nat /\ intents[p].amount > 0
    BY <1>1 DEF IntentType, RowSound
  <2>2. contributions'[c] \in ContributionType
    BY <1>1, <1>5, <2>1 DEF ContributionType
  <2>3. TablesShaped'
    BY <1>2, <1>3, <1>4, <2>2 DEF Inv, TablesSound, TablesShaped
  <2>4. FreeIds'
    BY <1>5, <2>1 DEF Inv, TablesSound, FreeIds
  <2>5. RowSound(p)'
    BY <1>1, <1>3, <1>4 DEF RowSound
  <2>6. Credited(p)'
    BY <1>1, <1>4, <1>7 DEF Credited
  <2>7. ASSUME NEW r \in References, r # p PROVE RowSound(r)' /\ Credited(r)'
    BY <1>3, <1>8, <2>7 DEF Inv, RowSound, Credited, TablesSound, OnlyTouches
  <2>. QED BY <2>3, <2>4, <2>5, <2>6, <2>7 DEF TablesSound
<1>10. ASSUME NEW x \in Handlers \ {h} PROVE Undisturbed(x) /\ FreshSnapshot(req[x])'
  <2>1. Undisturbed(x)
    BY <1>0, <1>1, <1>3, <1>8, NotInitiated, OthersUndisturbed
  <2>2. CASE req[x].pc = "finalTx"
    <3>1. req'[x] = [req[x] EXCEPT !.stale = SnapshotIsolation]
      BY <1>3, <2>2 DEF Overtaken, InTransaction
    <3>2. req'[x].stale = SnapshotIsolation
      BY <3>1 DEF Inv, HandlerSound, Shaped
    <3>. QED BY <2>1, <3>2 DEF FreshSnapshot
  <2>3. CASE req[x].pc # "finalTx"
    <3>1. req'[x].pc = req[x].pc
      BY <1>3 DEF Overtaken, Inv, HandlerSound, Shaped
    <3>. QED BY <2>1, <2>3, <3>1 DEF FreshSnapshot
  <2>. QED BY <2>2, <2>3
<1>11. HandlerSound(h)' /\ Alone(h, req'[h])
  BY <1>0, <1>1, <1>3, <1>4, <1>8, CompletedSound
<1>. QED BY <1>3, <1>9, <1>10, <1>11, HandlerStep

\* A step that touches no payment disturbs nobody.
LEMMA OthersUntouched ==
  ASSUME Inv, NEW x \in Handlers, req'[x] \in {req[x], Overtaken(req[x])},
         UNCHANGED <<intents, deposit, status>>,
         \A r \in References : Credits(r)' = Credits(r)
  PROVE  Undisturbed(x) /\ FreshSnapshot(req[x])'
<1>1. Undisturbed(x)
  BY DEF Undisturbed, Advances
<1>2. /\ Shaped(req[x]) /\ FreshSnapshot(req[x])
      /\ req[x].pc = "finalTx" => req[x].ref \in References
  BY DEF Inv, HandlerSound, WorksOnPaid, Working, Finalizers
<1>3. ASSUME req'[x] = req[x] PROVE FreshSnapshot(req[x])'
  BY <1>2, <1>3 DEF FreshSnapshot, AcceptsContributions
<1>4. ASSUME req'[x] = [req[x] EXCEPT !.stale = SnapshotIsolation]
      PROVE  FreshSnapshot(req[x])'
  <2>1. req'[x].stale = SnapshotIsolation
    BY <1>2, <1>4 DEF Shaped
  <2>. QED BY <2>1 DEF FreshSnapshot
<1>. QED BY <1>1, <1>3, <1>4 DEF Overtaken

LEMMA RecordStep ==
  ASSUME Inv, NEW h \in Handlers, Record(h)
  PROVE  Inv'
<1>0. PICK p : p = req[h].ref
  OBVIOUS
<1>1. /\ p \in References /\ req[h].outcome \in Outcomes
      /\ req[h].outcome = "completed" => intents[p].fulfilled
  BY <1>0 DEF Record, Inv, HandlerSound, WorksOnPaid, Working, Shaped
<1>2. /\ reconciled' \in {reconciled, [reconciled EXCEPT ![p] = req[h].outcome]}
      /\ UNCHANGED <<intents, deposit, contributions, status>>
      /\ DOMAIN req' = Handlers
      /\ \A x \in Handlers \ {h} : req'[x] = req[x]
      /\ req'[h] = Ended(h)
  BY <1>0 DEF Inv, Record, Done, Become, lifecycleVars
<1>3. \A r \in References : Credits(r)' = Credits(r) /\ Advances(r)
  BY <1>2 DEF Credits, Advances
<1>4. TablesSound'
  BY <1>1, <1>2, <1>3
  DEF Inv, TablesSound, TablesShaped, FreeIds, RowSound, Credited
<1>5. \A x \in Handlers \ {h} : Undisturbed(x) /\ FreshSnapshot(req[x])'
  BY <1>2, <1>3, OthersUntouched
<1>6. HandlerSound(h)' /\ Alone(h, req'[h])
  BY <1>2, <1>3, EndedSound DEF Inv, HandlerSound, Shaped
<1>. QED BY <1>2, <1>4, <1>5, <1>6, HandlerStep

Manually(h) == AddPledge(h) \/ AddCommit(h) \/ SetVisibilityCommit(h) \/ RepairWrite(h)

\* Contributions recorded by hand, hidden or summed again are no payments.
LEMMA ManualRows ==
  ASSUME Inv, NEW h \in Handlers, Manually(h)
  PROVE  /\ contributions' \in [Ids -> ContributionType]
         /\ \A c \in Ids :
              \/ contributions'[c].ref = None /\ contributions[c].ref = None
              \/ /\ contributions'[c].ref = contributions[c].ref
                 /\ contributions'[c].amount = contributions[c].amount
<1>1. contributions \in [Ids -> ContributionType] /\ Shaped(req[h])
  BY DEF Inv, TablesSound, TablesShaped, HandlerSound
<1>2. CASE AddPledge(h) \/ AddCommit(h)
  <2>1. PICK paid \in BOOLEAN, c \in Ids \ Used :
          contributions' = [contributions EXCEPT ![c] =
            [ref |-> None, amount |-> req[h].amount, paid |-> paid, visible |-> TRUE]]
    BY <1>2 DEF AddPledge, AddCommit, Insert
  <2>2. contributions[c].ref = None
    BY <1>1 DEF Used, ContributionType, Inv, TablesSound, FreeIds
  <2>3. [ref |-> None, amount |-> req[h].amount, paid |-> paid, visible |-> TRUE]
           \in ContributionType
    BY <1>1 DEF ContributionType, Shaped
  <2>4. contributions' \in [Ids -> ContributionType]
    BY <1>1, <2>1, <2>3
  <2>5. /\ contributions'[c].ref = None
        /\ \A d \in Ids \ {c} : contributions'[d] = contributions[d]
    BY <1>1, <2>1
  <2>. QED BY <2>2, <2>4, <2>5
<1>3. CASE SetVisibilityCommit(h)
  <2>1. contributions' = [contributions EXCEPT ![req[h].id].visible = req[h].visible]
    BY <1>3 DEF SetVisibilityCommit, WithVisible
  <2>2. req[h].visible \in BOOLEAN
    BY <1>1 DEF Shaped
  <2>3. contributions' \in [Ids -> ContributionType]
    BY <1>1, <2>1, <2>2 DEF ContributionType
  <2>4. \A c \in Ids : /\ contributions'[c].ref = contributions[c].ref
                       /\ contributions'[c].amount = contributions[c].amount
    BY <1>1, <2>1 DEF ContributionType
  <2>. QED BY <2>3, <2>4
<1>4. CASE RepairWrite(h)
  BY <1>1, <1>4 DEF RepairWrite
<1>. QED BY <1>2, <1>3, <1>4 DEF Manually

LEMMA ManualCredits ==
  ASSUME Inv, NEW h \in Handlers, Manually(h), NEW r \in References
  PROVE  Credits(r)' = Credits(r)
BY ManualRows, DepositAssumption DEF Credits

LEMMA ManualStep ==
  ASSUME Inv, NEW h \in Handlers, Manually(h)
  PROVE  Inv'
<1>1. /\ UNCHANGED <<intents, deposit, reconciled, status>>
      /\ DOMAIN req' = Handlers
      /\ req'[h] \in {Ended(h), Idle}
      /\ \A x \in Handlers \ {h} : req'[x] \in {req[x], Overtaken(req[x])}
  BY DEF Manually, AddPledge, AddCommit, SetVisibilityCommit, RepairWrite, CommitThen,
         Done, Become, Inv, lifecycleVars
<1>2. \A r \in References : Credits(r)' = Credits(r) /\ Advances(r)
  BY <1>1, ManualCredits DEF Advances
<1>3. TablesSound'
  BY <1>1, <1>2, ManualRows
  DEF Inv, TablesSound, TablesShaped, FreeIds, RowSound, Credited
<1>4. \A x \in Handlers \ {h} : Undisturbed(x) /\ FreshSnapshot(req[x])'
  BY <1>1, <1>2, OthersUntouched
<1>5. HandlerSound(h)' /\ Alone(h, req'[h])
  BY <1>1, <1>2, EndedSound DEF Inv, HandlerSound, Shaped
<1>. QED BY <1>1, <1>3, <1>4, <1>5, HandlerStep

(***************************************************************************)
(* Time, the provider and the event.                                       *)
(***************************************************************************)
\* A step of nobody's keeps the invariant if no handler is disturbed.
LEMMA OutsideStep ==
  ASSUME Inv, TablesSound', DOMAIN req' = Handlers,
         \A x \in Handlers : Undisturbed(x) /\ FreshSnapshot(req[x])'
  PROVE  Inv'
<1>1. \A x \in Handlers : /\ HandlerSound(x)'
                          /\ req'[x].pc = req[x].pc /\ req'[x].ref = req[x].ref
  BY OtherHandlerSound
<1>2. \A x \in Handlers : Alone(x, req[x])'
  BY <1>1 DEF Inv, Alone
<1>. QED BY <1>1, <1>2 DEF Inv

LEMMA AgeStep ==
  ASSUME Inv, NEW p \in References, Age(p)
  PROVE  Inv'
<1>1. /\ intents' = [intents EXCEPT ![p].aged = TRUE]
      /\ intents[p].state = "live"
      /\ UNCHANGED <<deposit, contributions, reconciled, status, req>>
      /\ intents \in [References -> IntentType]
  BY DEF Age, lifecycleVars, Inv, TablesSound, TablesShaped
<1>2. /\ intents'[p] \in IntentType /\ intents'[p].aged
      /\ intents'[p].state = "live" /\ intents'[p].kind = intents[p].kind
      /\ intents'[p].amount = intents[p].amount
      /\ intents'[p].fulfilled = intents[p].fulfilled
  BY <1>1 DEF IntentType
<1>3. /\ OnlyTouches(p) /\ Advances(p)
      /\ \A r \in References : Credits(r)' = Credits(r)
  BY <1>1, <1>2 DEF OnlyTouches, Advances, Credits
<1>4. TablesSound'
  <2>1. TablesShaped' /\ FreeIds'
    BY <1>1, <1>2 DEF Inv, TablesSound, TablesShaped, FreeIds
  <2>2. RowSound(p)' /\ Credited(p)'
    BY <1>1, <1>2, <1>3 DEF Inv, TablesSound, RowSound, Credited
  <2>3. ASSUME NEW r \in References, r # p PROVE RowSound(r)' /\ Credited(r)'
    BY <1>1, <1>3, <2>3 DEF Inv, RowSound, Credited, TablesSound, OnlyTouches
  <2>. QED BY <2>1, <2>2, <2>3 DEF TablesSound
<1>5. ASSUME NEW x \in Handlers PROVE Undisturbed(x) /\ FreshSnapshot(req[x])'
  <2>1. req[x].pc \in Initiators => req[x].ref # p
    BY <1>1 DEF Age, Initiating, Initiators, Inv, HandlerSound, InitiatesNew
  <2>2. Undisturbed(x)
    BY <1>1, <1>3, <2>1, OthersUndisturbed
  <2>3. req[x].pc = "finalTx" =>
          /\ req[x].ref \in References
          /\ intents'[req[x].ref].fulfilled = intents[req[x].ref].fulfilled
    BY <1>1, <1>2 DEF Inv, HandlerSound, WorksOnPaid, Working, Finalizers
  <2>4. FreshSnapshot(req[x])'
    BY <1>1, <2>3 DEF Inv, HandlerSound, FreshSnapshot, AcceptsContributions
  <2>. QED BY <2>2, <2>4
<1>. QED BY <1>1, <1>4, <1>5, OutsideStep DEF Inv

LEMMA SettleDepositStep ==
  ASSUME Inv, NEW p \in References, SettleDeposit(p)
  PROVE  Inv'
<1>1. /\ deposit[p] = "pending"
      /\ UNCHANGED <<intents, contributions, reconciled, status, req>>
      /\ deposit \in [References -> {"absent", "pending", "success", "failed"}]
  BY DEF SettleDeposit, lifecycleVars, tables, Inv, TablesSound, TablesShaped
<1>2. PICK s \in {"success", "failed"} : deposit' = [deposit EXCEPT ![p] = s]
  BY DEF SettleDeposit
<1>3. \A r \in References : Credits(r)' = Credits(r) /\ Advances(r)
  BY <1>1, <1>2 DEF Credits, Advances
<1>4. TablesSound'
  <2>1. TablesShaped' /\ FreeIds' /\ \A r \in References : Credited(r)'
    BY <1>1, <1>2, <1>3 DEF Inv, TablesSound, TablesShaped, FreeIds, Credited
  <2>2. \A r \in References : RowSound(r)'
    BY <1>1, <1>2, <1>3 DEF Inv, TablesSound, RowSound
  <2>. QED BY <2>1, <2>2 DEF TablesSound
<1>5. ASSUME NEW x \in Handlers PROVE Undisturbed(x) /\ FreshSnapshot(req[x])'
  <2>1. Knows(x) \subseteq References
    BY DEF Inv, HandlerSound, Knows, Shaped
  <2>2. req[x].pc = "iniSend" => req[x].ref \in References \ {p}
    BY <1>1 DEF Inv, HandlerSound, InitiatesNew, Initiators
  <2>3. Undisturbed(x)
    BY <1>1, <1>2, <1>3, <2>1, <2>2 DEF Undisturbed
  <2>4. FreshSnapshot(req[x])'
    BY <1>1 DEF Inv, HandlerSound, FreshSnapshot, AcceptsContributions
  <2>. QED BY <2>3, <2>4
<1>. QED BY <1>1, <1>4, <1>5, OutsideStep DEF Inv

\* A change of the event's row overtakes every finalization under way.
LEMMA EventChangesStep ==
  ASSUME Inv, EventChanges
  PROVE  Inv'
<1>1. UNCHANGED <<intents, deposit, contributions, reconciled>>
  BY DEF EventChanges, depositVars
<1>2. \/ UNCHANGED <<req, status>>
      \/ req' = [x \in Handlers |-> Overtaken(req[x])]
  BY DEF EventChanges, EventRowChanged, LifecycleReads, TreasurerReads, AdminReads,
         GivesUp, Decide, eventRow
<1>3. TablesSound'
  BY <1>1 DEF Inv, TablesSound, TablesShaped, FreeIds, RowSound, Credited, Credits
<1>4. ASSUME NEW x \in Handlers PROVE Undisturbed(x) /\ FreshSnapshot(req[x])'
  <2>1. Undisturbed(x)
    BY <1>1, <1>2 DEF Undisturbed, Advances, Credits
  <2>2. CASE UNCHANGED <<req, status>>
    BY <1>1, <2>1, <2>2 DEF Inv, HandlerSound, FreshSnapshot, AcceptsContributions
  <2>3. CASE req'[x] = Overtaken(req[x])
    <3>1. Shaped(req[x])
      BY DEF Inv, HandlerSound
    <3>2. req[x].pc = "finalTx" => req'[x].stale = SnapshotIsolation
      BY <2>3, <3>1 DEF Overtaken, InTransaction, Shaped
    <3>3. req'[x].pc = req[x].pc
      BY <2>3, <3>1 DEF Overtaken, Shaped
    <3>. QED BY <2>1, <3>2, <3>3 DEF FreshSnapshot
  <2>. QED BY <1>2, <2>2, <2>3
<1>5. DOMAIN req' = Handlers
  BY <1>2 DEF Inv
<1>. QED BY <1>3, <1>4, <1>5, OutsideStep

(***************************************************************************)
(* The invariant, and what follows from it.                                *)
(***************************************************************************)
LEMMA InvInit == Init => Inv
<1>. SUFFICES ASSUME Init PROVE Inv
  OBVIOUS
<1>1. /\ \A p \in References : intents[p] = NoIntent /\ deposit[p] = "absent"
                               /\ reconciled[p] = "none"
      /\ \A c \in Ids : contributions[c] = NoContribution
      /\ \A h \in Handlers : req[h] = Idle
  BY DEF Init
<1>2. TablesShaped
  <2>1. NoIntent \in IntentType /\ NoContribution \in ContributionType
    BY DEF NoIntent, IntentType, NoContribution, ContributionType
  <2>. QED BY <2>1 DEF Init, TablesShaped, Outcomes
<1>3. \A p \in References : Credits(p) = {}
  BY <1>1, DepositAssumption DEF Credits, NoContribution
<1>4. TablesSound
  BY <1>1, <1>2, <1>3
  DEF TablesSound, FreeIds, RowSound, Credited, NoIntent, NoContribution
<1>5. /\ Shaped(Idle) /\ Idle.pc = "idle" /\ Idle.todo = {}
  BY IdleShape DEF Idle
<1>6. \A h \in Handlers : HandlerSound(h) /\ Alone(h, req[h])
  BY <1>1, <1>5
  DEF HandlerSound, InitiatesNew, WorksOnPaid, FreshSnapshot, Alone, Initiators,
      Working, Finalizers
<1>. QED BY <1>4, <1>6 DEF Inv, Init

LEMMA InvNext == Inv /\ [Next]_vars => Inv'
<1>. SUFFICES ASSUME Inv, [Next]_vars PROVE Inv'
  OBVIOUS
<1>1. CASE UNCHANGED vars
  BY <1>1
  DEF vars, depositVars, lifecycleVars, Inv, TablesSound, TablesShaped, FreeIds, RowSound,
      Credited, Credits, HandlerSound, Shaped, InitiatesNew, WorksOnPaid, FreshSnapshot,
      Alone, AcceptsContributions
<1>2. ASSUME NEW h \in Handlers, Start(h) PROVE Inv'
  BY <1>2, StartInitiateStep, StartPollStep, StartJobStep, ManualStarts DEF Start
<1>3. ASSUME NEW h \in Handlers, RollBack(h) \/ HandlerFails(h) PROVE Inv'
  <2>1. Same /\ (Done(h) \/ Become(h, Idle))
    BY <1>3 DEF RollBack, HandlerFails, Same, depositVars, lifecycleVars
  <2>. QED BY <2>1, DoneStep
<1>4. ASSUME NEW h \in Handlers, Continue(h) PROVE Inv'
  BY <1>3, <1>4, InsertIntentStep, RequestToPayStep, DeleteIntentStep, ReadIntentStep,
     FetchStep, FulfilSubscriptionStep, FinalizeBeginStep, FinalizeCommitStep,
     AfterNullStep, JobNextStep, RecordStep, TransactionBegins, ManualStep
  DEF Continue, Manually
<1>5. ASSUME NEW p \in References, Age(p) \/ SettleDeposit(p) PROVE Inv'
  BY <1>5, AgeStep, SettleDepositStep
<1>6. CASE EventChanges
  BY <1>6, EventChangesStep
<1>. QED BY <1>1, <1>2, <1>3, <1>4, <1>5, <1>6 DEF Next

LEMMA InvAlways == Spec => []Inv
BY InvInit, InvNext, PTL DEF Spec

\* A payment that several handlers finalize is credited once.
THEOREM CreditedOnceAlways == Spec => []CreditedOnce
<1>1. Inv => CreditedOnce
  <2>. SUFFICES ASSUME Inv, SnapshotIsolation, NEW p \in References
                PROVE  Cardinality(Credits(p)) =
                         IF intents[p].fulfilled /\ intents[p].kind = "contribution"
                         THEN 1 ELSE 0
    BY DEF CreditedOnce
  <2>1. Credited(p)
    BY DEF Inv, TablesSound
  <2>. QED BY <2>1, FS_EmptySet, FS_Singleton DEF Credited
<1>. QED BY <1>1, InvAlways, PTL

\* Only what the provider reported paid is credited or fulfilled.
THEOREM FulfilledWasPaidAlways == Spec => []FulfilledWasPaid
<1>1. Inv => FulfilledWasPaid
  BY DEF Inv, TablesSound, RowSound, FulfilledWasPaid
<1>. QED BY <1>1, InvAlways, PTL

\* What the job records as completed is fulfilled.
THEOREM CompletedWasFulfilledAlways == Spec => []CompletedWasFulfilled
<1>1. Inv => CompletedWasFulfilled
  BY DEF Inv, TablesSound, RowSound, CompletedWasFulfilled
<1>. QED BY <1>1, InvAlways, PTL

\* No payment is credited while the event is closed.
THEOREM ClosedTakesNoCredit == Spec => NoCreditWhileClosed
<1>1. ASSUME Inv, [Next]_vars, SnapshotIsolation, NEW p \in References,
             Credits(p) # Credits(p)'
      PROVE  AcceptsContributions
  <2>1. contributions' # contributions
    BY <1>1 DEF Credits
  <2>2. PICK h \in Handlers : FinalizeCommit(h) \/ Manually(h)
    <3>1. PICK h \in Handlers : Continue(h)
      BY <1>1, <2>1
      DEF Next, vars, depositVars, tables, Start, StartInitiate, StartPoll, StartJob,
          StartAdd, StartSetVisibility, RepairRead, HandlerFails, Age, SettleDeposit,
          EventChanges
    <3>. QED BY <2>1, <3>1
      DEF Continue, Manually, depositVars, tables, InsertIntent, RequestToPay,
          DeleteIntent, ReadIntent, FetchStatus, FetchError, FulfilSubscription,
          FinalizeBegin, AfterNull, RollBack, JobNext, Record, AddBegin, SetVisibilityBegin
  <2>3. FinalizeCommit(h)
    BY <1>1, <2>2, ManualCredits
  <2>4. req[h].pc = "finalTx" /\ ~req[h].stale
    BY <1>1, <2>3 DEF FinalizeCommit, MayCommit
  <2>. QED BY <1>1, <2>4 DEF Inv, HandlerSound, FreshSnapshot
<1>2. Inv /\ [Next]_vars =>
        [SnapshotIsolation =>
           \A p \in References : Credits(p) # Credits(p)' => AcceptsContributions]_vars
  BY <1>1
<1>. QED BY <1>2, InvAlways, PTL DEF Spec, NoCreditWhileClosed

\* With payments going on too, a suspended event remembers what to go back to.
THEOREM DepositsSuspensionSafe == Spec => []SuspensionRemembersStatus
BY DepositsKeepLifecycle, SuspensionSafe, PTL
----------------------------------------------------------------------------
(***************************************************************************)
(* The total.  The sums are now part of the invariant.                     *)
(***************************************************************************)
\* What a row adds to the total.
Worth(r) == IF r.paid /\ r.visible THEN r.amount ELSE 0

LEMMA RaisedType ==
  ASSUME NEW rows \in [Ids -> ContributionType]
  PROVE  Raised(rows) \in Nat
<1> DEFINE f == [c \in Ids |-> rows[c].amount]
           S == {c \in Ids : rows[c].paid /\ rows[c].visible}
<1>1. IsFiniteSet(S)
  BY DepositAssumption, FS_Subset
<1>2. \A c \in S : f[c] \in Nat
  BY DEF ContributionType
<1>. HIDE DEF f, S
<1>3. SumFunctionOnSet(f, S) \in Nat
  BY <1>1, <1>2, SumNat
<1>. QED BY <1>3 DEF Raised, f, S

\* A row that is written changes the total by what it was and is worth.
LEMMA RaisedOfOne ==
  ASSUME NEW rows \in [Ids -> ContributionType], NEW c \in Ids, NEW r \in ContributionType
  PROVE  Raised([rows EXCEPT ![c] = r]) = Raised(rows) - Worth(rows[c]) + Worth(r)
<1> DEFINE new == [rows EXCEPT ![c] = r]
           f == [d \in Ids |-> rows[d].amount]
           S == {d \in Ids : rows[d].paid /\ rows[d].visible}
           g == [d \in Ids |-> new[d].amount]
           T == {d \in Ids : new[d].paid /\ new[d].visible}
<1>1. new \in [Ids -> ContributionType] /\ new[c] = r /\ \A d \in Ids \ {c} : new[d] = rows[d]
  OBVIOUS
<1>2. IsFiniteSet(S) /\ IsFiniteSet(T)
  BY DepositAssumption, FS_Subset
<1>3. (\A d \in S : f[d] \in Int) /\ (\A d \in T : g[d] \in Int)
  BY <1>1 DEF ContributionType
<1>4. S \ {c} = T \ {c} /\ \A d \in S \ {c} : f[d] = g[d]
  BY <1>1
<1>5. (IF c \in S THEN f[c] ELSE 0) = Worth(rows[c])
  BY DEF Worth, ContributionType
<1>6. (IF c \in T THEN g[c] ELSE 0) = Worth(r)
  BY <1>1 DEF Worth, ContributionType
<1>. HIDE DEF f, S, g, T
<1>7. SumFunctionOnSet(g, T) =
        SumFunctionOnSet(f, S) - (IF c \in S THEN f[c] ELSE 0)
                               + (IF c \in T THEN g[c] ELSE 0)
  BY <1>2, <1>3, <1>4, SumOneChange
<1>8. SumFunctionOnSet(g, T) = SumFunctionOnSet(f, S) - Worth(rows[c]) + Worth(r)
  BY <1>5, <1>6, <1>7
<1>. QED BY <1>8 DEF Raised, f, S, g, T

\* The rows with one of them shown or hidden.
Shown(rows, d, v) == [rows EXCEPT ![d].visible = v]

\* So what changing a row's visibility makes of the total depends on the total
\* and on that row alone.
LEMMA RaisedWithVisible ==
  ASSUME NEW rows \in [Ids -> ContributionType], NEW new \in [Ids -> ContributionType],
         Raised(new) = Raised(rows), NEW d \in Ids, new[d] = rows[d], NEW v \in BOOLEAN
  PROVE  Raised(Shown(new, d, v)) = Raised(Shown(rows, d, v))
<1> DEFINE r == [rows[d] EXCEPT !.visible = v]
<1>1. r \in ContributionType
  BY DEF ContributionType
<1>. HIDE DEF r
<1>2. /\ Raised([rows EXCEPT ![d] = r]) = Raised(rows) - Worth(rows[d]) + Worth(r)
      /\ Raised([new EXCEPT ![d] = r]) = Raised(new) - Worth(new[d]) + Worth(r)
  BY <1>1, RaisedOfOne
<1>3. Raised([new EXCEPT ![d] = r]) = Raised([rows EXCEPT ![d] = r])
  BY <1>2
<1>4. [rows EXCEPT ![d] = r] = Shown(rows, d, v)
  BY DEF r, Shown
<1>5. [new EXCEPT ![d] = r] = Shown(new, d, v)
  BY DEF r, Shown
<1>. QED BY <1>3, <1>4, <1>5

(***************************************************************************)
(* What a handler holds of the total.                                      *)
(***************************************************************************)
\* The program counters at which something about the total is known.
TotalPcs == {"add", "visible", "repairWrite"} \cup InTransaction

\* What a handler read of the total is what it would read now, unless the
\* database will refuse its commit.
SnapTrue(q) ==
  /\ q.pc # "repairWrite"
  /\ q.pc \in {"add", "addTx"} => q.amount \in Amounts
  /\ q.pc \in {"visible", "visibleTx"} => q.id \in Used
  /\ q.pc \in {"finalTx", "addTx"} /\ ~q.stale => q.snap = Raised(contributions)
  /\ q.pc = "visibleTx" /\ ~q.stale => q.snap = Raised(WithVisible(q.id, q.visible))

\* Two transactions never change the visibility of one row: it is locked.
OneVisibility ==
  \A h, x \in Handlers :
    h # x /\ req[h].pc = "visibleTx" /\ req[x].pc = "visibleTx" => req[h].id # req[x].id

TotalInv ==
  /\ SnapshotIsolation /\ ~RepairRuns
  /\ raisedAmount = Raised(contributions)
  /\ \A h \in Handlers : SnapTrue(req[h])
  /\ OneVisibility

\* The steps that leave the total alone and know nothing of it.
Quiet(h) ==
  \/ StartInitiate(h) \/ StartPoll(h) \/ StartJob(h)
  \/ InsertIntent(h) \/ RequestToPay(h) \/ DeleteIntent(h)
  \/ ReadIntent(h) \/ FetchStatus(h) \/ FetchError(h) \/ FulfilSubscription(h)
  \/ AfterNull(h) \/ RollBack(h) \/ JobNext(h) \/ Record(h) \/ HandlerFails(h)

Turns(h, q) == Become(h, q) /\ q.pc \notin TotalPcs /\ q.snap \in {0, req[h].snap}

LEMMA QuietTurns ==
  ASSUME Inv, NEW h \in Handlers, Quiet(h)
  PROVE  /\ UNCHANGED <<contributions, raisedAmount>>
         /\ \E q : Turns(h, q)
<1>. USE DEF TotalPcs, InTransaction
<1>0. Shaped(req[h])
  BY DEF Inv, HandlerSound
<1>1. ASSUME Done(h) PROVE \E q : Turns(h, q)
  <2>1. Ended(h).pc \notin TotalPcs /\ Ended(h).snap = 0
    BY DEF Ended, Idle
  <2>. QED BY <1>1, <2>1 DEF Done, Turns
<1>2. ASSUME NEW pc \in Pcs \ TotalPcs, Become(h, At(h, pc)) PROVE \E q : Turns(h, q)
  <2>1. At(h, pc).pc = pc /\ At(h, pc).snap = 0
    BY DEF At, Idle
  <2>. QED BY <1>2, <2>1 DEF Turns
<1>3. ASSUME NEW pc \in Pcs \ TotalPcs, Go(h, pc) PROVE \E q : Turns(h, q)
  <2>1. [req[h] EXCEPT !.pc = pc].pc = pc /\ [req[h] EXCEPT !.pc = pc].snap = req[h].snap
    BY <1>0 DEF Shaped
  <2>. QED BY <1>3, <2>1 DEF Go, Turns
<1>4. ASSUME NEW o, Answer(h, o) PROVE \E q : Turns(h, q)
  <2>1. /\ [At(h, "record") EXCEPT !.outcome = o].pc = "record"
        /\ [At(h, "record") EXCEPT !.outcome = o].snap = 0
    BY DEF At, Idle
  <2>2. CASE Become(h, [At(h, "record") EXCEPT !.outcome = o])
    BY <2>1, <2>2 DEF Turns
  <2>. QED BY <1>1, <1>4, <2>2 DEF Answer
<1>5. ASSUME Become(h, Idle) PROVE \E q : Turns(h, q)
  <2>1. Idle.pc = "idle" /\ Idle.snap = 0
    BY DEF Idle
  <2>. QED BY <1>5, <2>1 DEF Turns
<1>6. CASE StartInitiate(h)
  <2>1. PICK p \in References, kind \in Kinds, n \in Amounts :
          Become(h, [Idle EXCEPT !.pc = "iniInsert", !.ref = p, !.kind = kind, !.amount = n])
    BY <1>6 DEF StartInitiate
  <2>. DEFINE q == [Idle EXCEPT !.pc = "iniInsert", !.ref = p, !.kind = kind, !.amount = n]
  <2>2. q.pc = "iniInsert" /\ q.snap = 0
    BY DEF Idle
  <2>. HIDE DEF q
  <2>3. Turns(h, q)
    BY <2>1, <2>2 DEF Turns, q
  <2>. QED BY <1>6, <2>3 DEF StartInitiate, depositVars
<1>7. CASE StartPoll(h)
  <2>1. PICK p \in References : Become(h, [Idle EXCEPT !.pc = "pollRead", !.ref = p])
    BY <1>7 DEF StartPoll
  <2>. DEFINE q == [Idle EXCEPT !.pc = "pollRead", !.ref = p]
  <2>2. q.pc = "pollRead" /\ q.snap = 0
    BY DEF Idle
  <2>. HIDE DEF q
  <2>3. Turns(h, q)
    BY <2>1, <2>2 DEF Turns, q
  <2>. QED BY <1>7, <2>3 DEF StartPoll, depositVars
<1>16. CASE StartJob(h)
  <2>. DEFINE q == [Idle EXCEPT !.pc = "jobNext", !.job = TRUE, !.todo = StaleIntents]
  <2>2. q.pc = "jobNext" /\ q.snap = 0
    BY DEF Idle
  <2>. HIDE DEF q
  <2>3. Turns(h, q)
    BY <1>16, <2>2 DEF StartJob, Turns, q
  <2>. QED BY <1>16, <2>3 DEF StartJob, depositVars
<1>8. CASE InsertIntent(h)
  BY <1>8, <1>2 DEF InsertIntent, Pcs
<1>9. CASE RequestToPay(h)
  BY <1>9, <1>1, <1>2 DEF RequestToPay, tables, Pcs
<1>10. CASE DeleteIntent(h) \/ Record(h) \/ FetchError(h)
  BY <1>10, <1>1 DEF DeleteIntent, Record, FetchError, depositVars
<1>11. CASE ReadIntent(h)
  BY <1>11, <1>1, <1>3 DEF ReadIntent, depositVars, Pcs
<1>12. CASE FetchStatus(h)
  <2>1. Go(h, "final") \/ Go(h, "fulfil") \/ Answer(h, "failed") \/ Done(h)
    BY <1>12 DEF FetchStatus
  <2>. QED BY <1>12, <2>1, <1>1, <1>3, <1>4 DEF FetchStatus, depositVars, Pcs
<1>13. CASE FulfilSubscription(h) \/ AfterNull(h)
  BY <1>13, <1>1, <1>4 DEF FulfilSubscription, AfterNull, depositVars
<1>14. CASE RollBack(h) \/ HandlerFails(h)
  BY <1>14, <1>1, <1>5 DEF RollBack, HandlerFails, depositVars
<1>15. CASE JobNext(h)
  <2>1. \/ Become(h, Idle)
        \/ \E p \in req[h].todo :
             Become(h, [req[h] EXCEPT !.pc = "pollRead", !.ref = p, !.todo = @ \ {p}])
    BY <1>15 DEF JobNext
  <2>2. ASSUME NEW p \in req[h].todo,
               Become(h, [req[h] EXCEPT !.pc = "pollRead", !.ref = p, !.todo = @ \ {p}])
        PROVE  \E q : Turns(h, q)
    <3>. DEFINE q == [req[h] EXCEPT !.pc = "pollRead", !.ref = p, !.todo = @ \ {p}]
    <3>1. q.pc = "pollRead" /\ q.snap = req[h].snap
      BY <1>0 DEF Shaped
    <3>. HIDE DEF q
    <3>2. Turns(h, q)
      BY <2>2, <3>1 DEF Turns, q
    <3>. QED BY <3>2
  <2>. QED BY <1>15, <2>1, <2>2, <1>5 DEF JobNext, depositVars
<1>. QED BY <1>6, <1>7, <1>8, <1>9, <1>10, <1>11, <1>12, <1>13, <1>14, <1>15, <1>16 DEF Quiet

(***************************************************************************)
(* What a step leaves another handler.                                     *)
(***************************************************************************)
LEMMA SnapKept ==
  ASSUME Inv, TotalInv, NEW x \in Handlers, SnapTrue(req[x]),
         contributions' \in [Ids -> ContributionType], Used \subseteq Used',
         req'[x] \in {req[x], Overtaken(req[x])},
         Raised(contributions') = Raised(contributions),
         req[x].pc = "visibleTx" => contributions'[req[x].id] = contributions[req[x].id]
  PROVE  SnapTrue(req[x])'
<1>1. Shaped(req[x]) /\ contributions \in [Ids -> ContributionType]
  BY DEF Inv, HandlerSound, TablesSound, TablesShaped
<1>2. /\ req'[x].pc = req[x].pc /\ req'[x].amount = req[x].amount
      /\ req'[x].id = req[x].id /\ req'[x].visible = req[x].visible
      /\ req'[x].snap = req[x].snap
      /\ ~req'[x].stale => ~req[x].stale
  <2>1. CASE req'[x] = req[x]
    BY <2>1
  <2>2. CASE req'[x] = Overtaken(req[x])
    BY <1>1, <2>2 DEF Overtaken, Shaped, TotalInv
  <2>. QED BY <2>1, <2>2
<1>3. req[x].pc = "visibleTx" =>
        Raised(WithVisible(req[x].id, req[x].visible))' = Raised(WithVisible(req[x].id, req[x].visible))
  <2>1. SUFFICES ASSUME req[x].pc = "visibleTx"
        PROVE  Raised(Shown(contributions', req[x].id, req[x].visible)) =
                 Raised(Shown(contributions, req[x].id, req[x].visible))
    BY <1>2 DEF WithVisible, Shown
  <2>2. PICK d \in Ids, v \in BOOLEAN : d = req[x].id /\ v = req[x].visible
    BY <2>1, <1>1 DEF SnapTrue, Used, Shaped
  <2>3. PICK new \in [Ids -> ContributionType], old \in [Ids -> ContributionType] :
          new = contributions' /\ old = contributions
    BY <1>1
  <2>4. Raised(new) = Raised(old) /\ new[d] = old[d]
    BY <2>1, <2>2, <2>3
  <2>5. Raised(Shown(new, d, v)) = Raised(Shown(old, d, v))
    BY <2>4, RaisedWithVisible
  <2>. QED BY <2>2, <2>3, <2>5
<1>4. Raised(contributions)' = Raised(contributions)
  OBVIOUS
<1>. QED BY <1>2, <1>3, <1>4 DEF SnapTrue

LEMMA SnapOvertaken ==
  ASSUME Inv, TotalInv, NEW x \in Handlers, SnapTrue(req[x]), Used \subseteq Used',
         req'[x] = Overtaken(req[x])
  PROVE  SnapTrue(req[x])'
<1>1. Shaped(req[x]) /\ SnapshotIsolation
  BY DEF Inv, HandlerSound, TotalInv
<1>2. /\ req'[x].pc = req[x].pc /\ req'[x].amount = req[x].amount
      /\ req'[x].id = req[x].id
      /\ req[x].pc \in InTransaction => req'[x].stale
  BY <1>1 DEF Overtaken, Shaped
<1>. QED BY <1>2 DEF SnapTrue, InTransaction

LEMMA VisibilityKept ==
  ASSUME Inv, TotalInv, NEW h \in Handlers, DOMAIN req' = Handlers,
         \A x \in Handlers \ {h} : req'[x] \in {req[x], Overtaken(req[x])},
         req'[h].pc = "visibleTx" =>
           \A x \in Handlers \ {h} : req[x].pc = "visibleTx" => req[x].id # req'[h].id
  PROVE  OneVisibility'
<1>1. \A x \in Handlers \ {h} : req'[x].pc = req[x].pc /\ req'[x].id = req[x].id
  BY DEF Inv, HandlerSound, Overtaken, Shaped
<1>. QED BY <1>1 DEF TotalInv, OneVisibility

(***************************************************************************)
(* The steps.                                                              *)
(***************************************************************************)
\* A handler that changes its own state and neither the rows nor the total.
LEMMA OwnTotalStep ==
  ASSUME Inv, TotalInv, NEW h \in Handlers, NEW q, Become(h, q),
         UNCHANGED <<contributions, raisedAmount>>, SnapTrue(q),
         q.pc = "visibleTx" =>
           \A x \in Handlers \ {h} : req[x].pc = "visibleTx" => req[x].id # q.id
  PROVE  TotalInv'
<1>1. /\ DOMAIN req' = Handlers /\ req'[h] = q
      /\ \A x \in Handlers \ {h} : req'[x] = req[x]
  BY DEF Inv, Become
<1>2. OneVisibility'
  BY <1>1, VisibilityKept
<1>3. ASSUME NEW x \in Handlers PROVE SnapTrue(req[x])'
  <2>1. Used' = Used /\ Raised(contributions)' = Raised(contributions)
    BY DEF Used
  <2>2. PICK y : y = req'[x]
    OBVIOUS
  <2>3. SnapTrue(y)
    BY <1>1, <2>2 DEF TotalInv
  <2>4. Raised(WithVisible(y.id, y.visible))' = Raised(WithVisible(y.id, y.visible))
    BY DEF WithVisible
  <2>. QED BY <2>1, <2>2, <2>3, <2>4 DEF SnapTrue
<1>. QED BY <1>2, <1>3 DEF TotalInv

LEMMA QuietTotal ==
  ASSUME Inv, TotalInv, NEW h \in Handlers, Quiet(h)
  PROVE  TotalInv'
<1>1. UNCHANGED <<contributions, raisedAmount>>
  BY QuietTurns
<1>2. PICK q : Turns(h, q)
  BY QuietTurns
<1>3. SnapTrue(q) /\ q.pc # "visibleTx"
  BY <1>2 DEF Turns, TotalPcs, InTransaction, SnapTrue
<1>. QED BY <1>1, <1>2, <1>3, OwnTotalStep DEF Turns

\* A change by hand starts, or takes its snapshot.
LEMMA ManualTotal ==
  ASSUME Inv, TotalInv, NEW h \in Handlers,
         StartAdd(h) \/ StartSetVisibility(h) \/ AddBegin(h)
  PROVE  TotalInv'
<1>1. UNCHANGED <<contributions, raisedAmount>>
  BY DEF StartAdd, StartSetVisibility, AddBegin, depositVars
<1>2. CASE StartAdd(h)
  <2>1. PICK n \in Amounts : Become(h, [Idle EXCEPT !.pc = "add", !.amount = n])
    BY <1>2 DEF StartAdd
  <2>2. PICK q : q = [Idle EXCEPT !.pc = "add", !.amount = n]
    OBVIOUS
  <2>3. SnapTrue(q) /\ q.pc # "visibleTx"
    BY <2>2 DEF SnapTrue, Idle
  <2>. QED BY <1>1, <2>1, <2>2, <2>3, OwnTotalStep
<1>3. CASE StartSetVisibility(h)
  <2>1. PICK c \in Used : Become(h, [Idle EXCEPT !.pc = "visible", !.id = c,
                                                 !.visible = ~contributions[c].visible])
    BY <1>3 DEF StartSetVisibility
  <2>2. PICK q : q = [Idle EXCEPT !.pc = "visible", !.id = c,
                                  !.visible = ~contributions[c].visible]
    OBVIOUS
  <2>3. SnapTrue(q) /\ q.pc # "visibleTx"
    BY <2>2 DEF SnapTrue, Idle
  <2>. QED BY <1>1, <2>1, <2>2, <2>3, OwnTotalStep
<1>4. CASE AddBegin(h)
  <2>1. PICK q : q = [req[h] EXCEPT !.pc = "addTx", !.snap = Raised(contributions)]
    OBVIOUS
  <2>2. q.pc = "addTx" /\ q.snap = Raised(contributions) /\ q.amount = req[h].amount
    BY <2>1 DEF Inv, HandlerSound, Shaped
  <2>3. SnapTrue(q)
    BY <1>4, <2>2 DEF TotalInv, SnapTrue, AddBegin
  <2>. QED BY <1>1, <1>4, <2>1, <2>2, <2>3, OwnTotalStep DEF AddBegin
<1>. QED BY <1>2, <1>3, <1>4

LEMMA FinalizeBeginTotal ==
  ASSUME Inv, TotalInv, NEW h \in Handlers, FinalizeBegin(h)
  PROVE  TotalInv'
<1>1. UNCHANGED <<contributions, raisedAmount>>
  BY DEF FinalizeBegin, depositVars
<1>2. PICK q : /\ Become(h, q)
               /\ \/ q = [req[h] EXCEPT !.pc = "finalTx", !.snap = Raised(contributions)]
                  \/ q = [req[h] EXCEPT !.pc = "afterNull"]
  BY DEF FinalizeBegin, Go
<1>3. \/ q.pc = "finalTx" /\ q.snap = Raised(contributions)
      \/ q.pc = "afterNull"
  BY <1>2 DEF Inv, HandlerSound, Shaped
<1>4. SnapTrue(q)
  BY <1>3 DEF SnapTrue
<1>. QED BY <1>1, <1>2, <1>3, <1>4, OwnTotalStep

LEMMA SetVisibilityBeginTotal ==
  ASSUME Inv, TotalInv, NEW h \in Handlers, SetVisibilityBegin(h)
  PROVE  TotalInv'
<1>1. UNCHANGED <<contributions, raisedAmount>>
  BY DEF SetVisibilityBegin, depositVars
<1>2. PICK q : q = [req[h] EXCEPT !.pc = "visibleTx",
                                  !.snap = Raised(WithVisible(req[h].id, req[h].visible))]
  OBVIOUS
<1>3. /\ q.pc = "visibleTx" /\ q.id = req[h].id /\ q.visible = req[h].visible
      /\ q.snap = Raised(WithVisible(req[h].id, req[h].visible))
  BY <1>2 DEF Inv, HandlerSound, Shaped
<1>4. req[h].pc = "visible" /\ req[h].id \in Used
  BY DEF SetVisibilityBegin, TotalInv, SnapTrue
<1>5. SnapTrue(q)
  BY <1>3, <1>4 DEF SnapTrue
<1>6. \A x \in Handlers \ {h} : req[x].pc = "visibleTx" => req[x].id # q.id
  BY <1>3 DEF SetVisibilityBegin
<1>. QED BY <1>1, <1>2, <1>5, <1>6, OwnTotalStep DEF SetVisibilityBegin

\* A row is added to the rows.
LEMMA NewRow ==
  ASSUME Inv, NEW c \in Ids \ Used, NEW r \in ContributionType, r.amount > 0,
         contributions' = [contributions EXCEPT ![c] = r]
  PROVE  /\ contributions' \in [Ids -> ContributionType] /\ Used \subseteq Used'
         /\ Raised(contributions') = Raised(contributions) + Worth(r)
         /\ \A d \in Used : contributions'[d] = contributions[d]
<1>1. contributions \in [Ids -> ContributionType]
  BY DEF Inv, TablesSound, TablesShaped
<1>2. /\ contributions' \in [Ids -> ContributionType] /\ contributions'[c] = r
      /\ \A d \in Ids \ {c} : contributions'[d] = contributions[d]
  BY <1>1
<1>3. Worth(contributions[c]) = 0
  BY <1>1 DEF Used, Worth, ContributionType
<1>4. Raised(contributions') = Raised(contributions) - Worth(contributions[c]) + Worth(r)
  BY <1>1, RaisedOfOne
<1>5. Raised(contributions) \in Nat
  BY <1>1, RaisedType
<1>6. Raised(contributions') = Raised(contributions) + Worth(r)
  BY <1>3, <1>4, <1>5 DEF Worth, ContributionType
<1>7. Used \subseteq Used' /\ \A d \in Used : contributions'[d] = contributions[d]
  BY <1>2 DEF Used
<1>. QED BY <1>2, <1>6, <1>7

\* A transaction that adds a paid row overtakes every other.
LEMMA CreditTotal ==
  ASSUME Inv, TotalInv, NEW h \in Handlers, NEW q, CommitThen(h, q),
         q.pc \notin TotalPcs, NEW n \in Nat, n > 0,
         req[h].snap = Raised(contributions), raisedAmount' = req[h].snap + n,
         NEW c \in Ids \ Used, NEW r \in ContributionType,
         r.amount = n, r.paid = TRUE, r.visible = TRUE,
         contributions' = [contributions EXCEPT ![c] = r]
  PROVE  TotalInv'
<1>1. Worth(r) = n
  BY DEF Worth
<1>2. /\ contributions' \in [Ids -> ContributionType] /\ Used \subseteq Used'
      /\ Raised(contributions') = Raised(contributions) + n
  BY <1>1, NewRow
<1>3. Raised(contributions) \in Nat
  BY RaisedType DEF Inv, TablesSound, TablesShaped
<1>4. raisedAmount' # raisedAmount /\ raisedAmount' = Raised(contributions')
  BY <1>2, <1>3 DEF TotalInv
<1>5. /\ DOMAIN req' = Handlers /\ req'[h] = q
      /\ \A x \in Handlers \ {h} : req'[x] = Overtaken(req[x])
  BY <1>4 DEF CommitThen
<1>6. \A x \in Handlers \ {h} : SnapTrue(req[x])'
  BY <1>2, <1>5, SnapOvertaken DEF TotalInv
<1>7. SnapTrue(req[h])'
  BY <1>5 DEF SnapTrue, TotalPcs, InTransaction
<1>8. OneVisibility'
  BY <1>5, VisibilityKept DEF TotalPcs, InTransaction
<1>. QED BY <1>4, <1>6, <1>7, <1>8 DEF TotalInv

LEMMA FinalizeCommitTotal ==
  ASSUME Inv, TotalInv, NEW h \in Handlers, FinalizeCommit(h)
  PROVE  TotalInv'
<1>1. PICK p : p = req[h].ref
  OBVIOUS
<1>2. /\ req[h].pc = "finalTx" /\ ~req[h].stale
      /\ p \in References /\ intents[p].state = "live" /\ intents[p] \in IntentType
  BY <1>1 DEF FinalizeCommit, MayCommit, TotalInv, Inv, HandlerSound, WorksOnPaid,
              Working, Finalizers, TablesSound, TablesShaped
<1>3. PICK n \in Nat : n = intents[p].amount /\ n > 0
  BY <1>2 DEF IntentType, Inv, TablesSound, RowSound
<1>4. PICK r : r = [ref |-> p, amount |-> n, paid |-> TRUE, visible |-> TRUE]
  OBVIOUS
<1>5. r \in ContributionType
  BY <1>2, <1>4 DEF ContributionType
<1>6. PICK c \in Ids \ Used : contributions' = [contributions EXCEPT ![c] = r]
  BY <1>1, <1>3, <1>4 DEF FinalizeCommit
<1>7. req[h].snap = Raised(contributions) /\ raisedAmount' = req[h].snap + n
  BY <1>1, <1>2, <1>3 DEF FinalizeCommit, TotalInv, SnapTrue
<1>8. PICK q : CommitThen(h, q) /\ q.pc \notin TotalPcs
  <2>1. /\ Idle.pc \notin TotalPcs
        /\ [At(h, "record") EXCEPT !.outcome = "completed"].pc \notin TotalPcs
    BY DEF Idle, At, TotalPcs, InTransaction
  <2>. QED BY <2>1 DEF FinalizeCommit
<1>. QED BY <1>3, <1>4, <1>5, <1>6, <1>7, <1>8, CreditTotal

LEMMA AddCommitTotal ==
  ASSUME Inv, TotalInv, NEW h \in Handlers, AddCommit(h)
  PROVE  TotalInv'
<1>1. req[h].pc = "addTx" /\ ~req[h].stale /\ SnapTrue(req[h])
  BY DEF AddCommit, MayCommit, TotalInv
<1>2. PICK n \in Nat : n = req[h].amount /\ n > 0
  BY <1>1, AmountsPositive DEF SnapTrue
<1>3. PICK r : r = [ref |-> None, amount |-> n, paid |-> TRUE, visible |-> TRUE]
  OBVIOUS
<1>4. r \in ContributionType
  BY <1>3 DEF ContributionType
<1>5. PICK c \in Ids \ Used : contributions' = [contributions EXCEPT ![c] = r]
  BY <1>2, <1>3 DEF AddCommit, Insert
<1>6. req[h].snap = Raised(contributions) /\ raisedAmount' = req[h].snap + n
  BY <1>1, <1>2 DEF AddCommit, SnapTrue
<1>7. CommitThen(h, Idle) /\ Idle.pc \notin TotalPcs
  BY DEF AddCommit, Idle, TotalPcs, InTransaction
<1>. QED BY <1>2, <1>3, <1>4, <1>5, <1>6, <1>7, CreditTotal

\* A pledge adds nothing.
LEMMA AddPledgeTotal ==
  ASSUME Inv, TotalInv, NEW h \in Handlers, AddPledge(h)
  PROVE  TotalInv'
<1>1. req[h].pc = "add" /\ SnapTrue(req[h])
  BY DEF AddPledge, TotalInv
<1>2. PICK n \in Nat : n = req[h].amount /\ n > 0
  BY <1>1, AmountsPositive DEF SnapTrue
<1>3. PICK r : r = [ref |-> None, amount |-> n, paid |-> FALSE, visible |-> TRUE]
  OBVIOUS
<1>4. r \in ContributionType /\ Worth(r) = 0
  BY <1>3 DEF ContributionType, Worth
<1>5. PICK c \in Ids \ Used : contributions' = [contributions EXCEPT ![c] = r]
  BY <1>2, <1>3 DEF AddPledge, Insert
<1>6. /\ contributions' \in [Ids -> ContributionType] /\ Used \subseteq Used'
      /\ Raised(contributions') = Raised(contributions) + Worth(r)
      /\ \A d \in Used : contributions'[d] = contributions[d]
  BY <1>2, <1>3, <1>4, <1>5, NewRow
<1>7. Raised(contributions') = Raised(contributions)
  BY <1>4, <1>6, RaisedType DEF Inv, TablesSound, TablesShaped
<1>8. /\ DOMAIN req' = Handlers /\ req'[h] = Ended(h)
      /\ \A x \in Handlers \ {h} : req'[x] = req[x]
  BY DEF AddPledge, Done, Become, Inv
<1>9. \A x \in Handlers \ {h} : SnapTrue(req[x])'
  BY <1>6, <1>7, <1>8, SnapKept DEF TotalInv, SnapTrue
<1>10. Ended(h).pc \notin TotalPcs
  BY DEF Ended, Idle, TotalPcs, InTransaction
<1>11. SnapTrue(req[h])'
  BY <1>8, <1>10 DEF SnapTrue, TotalPcs, InTransaction
<1>12. OneVisibility'
  BY <1>8, <1>10, VisibilityKept DEF TotalPcs, InTransaction
<1>13. raisedAmount' = Raised(contributions')
  BY <1>7 DEF AddPledge, TotalInv
<1>. QED BY <1>9, <1>11, <1>12, <1>13 DEF TotalInv

\* The rows are as the snapshot foretold; who is not overtaken read a total
\* that is still right.
LEMMA SetVisibilityTotal ==
  ASSUME Inv, TotalInv, NEW h \in Handlers, SetVisibilityCommit(h)
  PROVE  TotalInv'
<1>1. /\ req[h].pc = "visibleTx" /\ ~req[h].stale /\ SnapTrue(req[h])
      /\ Shaped(req[h]) /\ contributions \in [Ids -> ContributionType]
  BY DEF SetVisibilityCommit, MayCommit, TotalInv, Inv, HandlerSound, TablesSound, TablesShaped
<1>2. PICK c \in Ids, v \in BOOLEAN : c = req[h].id /\ v = req[h].visible /\ c \in Used
  BY <1>1 DEF SnapTrue, Shaped, Used
<1>3. contributions' = [contributions EXCEPT ![c].visible = v]
  BY <1>2 DEF SetVisibilityCommit, WithVisible
<1>4. /\ contributions' \in [Ids -> ContributionType]
      /\ \A d \in Ids \ {c} : contributions'[d] = contributions[d]
      /\ contributions'[c].amount = contributions[c].amount
  BY <1>1, <1>3 DEF ContributionType
<1>5. Used \subseteq Used'
  BY <1>4 DEF Used
<1>6. raisedAmount' = Raised(contributions')
  BY <1>1 DEF SetVisibilityCommit, SnapTrue
<1>7. /\ DOMAIN req' = Handlers /\ req'[h] = Idle
      /\ \A x \in Handlers \ {h} : req'[x] \in {req[x], Overtaken(req[x])}
      /\ raisedAmount' # raisedAmount =>
           \A x \in Handlers \ {h} : req'[x] = Overtaken(req[x])
  BY DEF SetVisibilityCommit, CommitThen
<1>8. ASSUME NEW x \in Handlers \ {h} PROVE SnapTrue(req[x])'
  <2>1. SnapTrue(req[x])
    BY DEF TotalInv
  <2>2. CASE raisedAmount' # raisedAmount
    BY <1>5, <1>7, <2>1, <2>2, SnapOvertaken
  <2>3. CASE raisedAmount' = raisedAmount
    <3>1. Raised(contributions') = Raised(contributions)
      BY <1>6, <2>3 DEF TotalInv
    <3>2. req[x].pc = "visibleTx" => req[x].id \in Ids \ {c}
      BY <1>1, <1>2, <2>1 DEF SnapTrue, Used, TotalInv, OneVisibility
    <3>. QED BY <1>4, <1>5, <1>7, <2>1, <3>1, <3>2, SnapKept
  <2>. QED BY <2>2, <2>3
<1>9. Idle.pc = "idle"
  BY DEF Idle
<1>10. SnapTrue(req[h])'
  BY <1>7, <1>9 DEF SnapTrue
<1>11. OneVisibility'
  BY <1>7, <1>9, VisibilityKept
<1>. QED BY <1>6, <1>8, <1>10, <1>11 DEF TotalInv

\* Time, the provider and the event's life leave rows and total alone.
LEMMA OutsideTotal ==
  ASSUME Inv, TotalInv,
         \/ UNCHANGED vars \/ EventChanges
         \/ \E p \in References : Age(p) \/ SettleDeposit(p)
  PROVE  TotalInv'
<1>1. /\ UNCHANGED <<contributions, raisedAmount>> /\ DOMAIN req' = Handlers
      /\ \A x \in Handlers : req'[x] \in {req[x], Overtaken(req[x])}
  BY DEF vars, depositVars, EventChanges, EventRowChanged, Age, SettleDeposit, tables, Inv
<1>2. contributions' \in [Ids -> ContributionType] /\ Used' = Used
  BY <1>1 DEF Inv, TablesSound, TablesShaped, Used
<1>3. ASSUME NEW x \in Handlers PROVE SnapTrue(req[x])'
  <2>1. Raised(contributions') = Raised(contributions)
    BY <1>1
  <2>. QED BY <1>1, <1>2, <2>1, SnapKept DEF TotalInv
<1>4. \A x \in Handlers : req'[x].pc = req[x].pc /\ req'[x].id = req[x].id
  BY <1>1 DEF Inv, HandlerSound, Overtaken, Shaped
<1>5. OneVisibility'
  BY <1>4 DEF TotalInv, OneVisibility
<1>6. raisedAmount' = Raised(contributions)'
  BY <1>1 DEF TotalInv
<1>. QED BY <1>3, <1>5, <1>6 DEF TotalInv

LEMMA TotalNext ==
  ASSUME Inv, TotalInv, [Next]_vars
  PROVE  TotalInv'
<1>1. ASSUME NEW h \in Handlers, RepairRead(h) \/ RepairWrite(h) PROVE FALSE
  BY <1>1 DEF RepairRead, RepairWrite, TotalInv, SnapTrue
<1>2. ASSUME NEW h \in Handlers, Start(h) \/ Continue(h) \/ HandlerFails(h)
      PROVE  TotalInv'
  BY <1>1, <1>2, QuietTotal, ManualTotal, FinalizeBeginTotal, SetVisibilityBeginTotal,
     FinalizeCommitTotal, AddCommitTotal, AddPledgeTotal, SetVisibilityTotal
  DEF Start, Continue, Quiet
<1>. QED BY <1>2, OutsideTotal DEF Next

\* However payments, manual entries and changes of visibility overlap, break
\* off or are rolled back, events.raised_amount is the sum of the visible, paid
\* contributions, while the repair tool, which writes what it read without a
\* transaction, is not run beside them.
THEOREM RaisedMatchesAlways == Spec /\ ~RepairRuns => []RaisedMatches
<1>. DEFINE I == Inv /\ ~RepairRuns /\ (SnapshotIsolation => TotalInv)
<1>1. Init /\ ~RepairRuns => I
  <2>. SUFFICES ASSUME Init, ~RepairRuns, SnapshotIsolation PROVE TotalInv
    BY InvInit
  <2>1. \A h \in Handlers : req[h] = Idle
    BY DEF Init
  <2>2. Idle.pc = "idle"
    BY DEF Idle
  <2>3. {c \in Ids : contributions[c].paid /\ contributions[c].visible} = {}
    BY DEF Init, NoContribution
  <2>4. Raised(contributions) = 0
    BY <2>3, SumEmpty DEF Raised
  <2>. QED BY <2>1, <2>2, <2>4 DEF TotalInv, SnapTrue, OneVisibility, Init
<1>2. I /\ [Next]_vars => I'
  BY InvNext, TotalNext
<1>3. I => RaisedMatches
  BY DEF RaisedMatches, TotalInv
<1>. QED BY <1>1, <1>2, <1>3, PTL DEF Spec

(***************************************************************************)
(* The types, sums included.                                               *)
(***************************************************************************)
NumbersAreInt ==
  /\ raisedAmount \in Int
  /\ req = [h \in Handlers |-> req[h]] /\ \A h \in Handlers : req[h].snap \in Int

LEMMA NumbersNext ==
  ASSUME Inv, NumbersAreInt, [Next]_vars
  PROVE  NumbersAreInt'
<1>. USE DEF NumbersAreInt
<1>1. contributions \in [Ids -> ContributionType] /\ \A h \in Handlers : Shaped(req[h])
  BY DEF Inv, TablesSound, TablesShaped, HandlerSound
<1>2. \A x \in Handlers : Overtaken(req[x]).snap = req[x].snap
  BY <1>1 DEF Overtaken, Shaped
<1>3. ASSUME NEW h \in Handlers, NEW q, Become(h, q), q.snap \in Int, UNCHANGED raisedAmount
      PROVE  NumbersAreInt'
  BY <1>3 DEF Become, Inv
<1>4. ASSUME NEW h \in Handlers, NEW q, CommitThen(h, q), q.snap \in Int, raisedAmount' \in Int
      PROVE  NumbersAreInt'
  BY <1>2, <1>4 DEF CommitThen
<1>5. ASSUME NEW h \in Handlers, Quiet(h) PROVE NumbersAreInt'
  BY <1>3, <1>5, QuietTurns DEF Turns
<1>6. Raised(contributions) \in Int
  BY <1>1, RaisedType
<1>7. Idle.snap \in Int
  BY DEF Idle
<1>8. ASSUME NEW h \in Handlers, StartAdd(h) \/ StartSetVisibility(h) PROVE NumbersAreInt'
  <2>1. UNCHANGED raisedAmount
    BY <1>8 DEF StartAdd, StartSetVisibility, depositVars
  <2>2. ASSUME NEW n, Become(h, [Idle EXCEPT !.pc = "add", !.amount = n])
        PROVE  NumbersAreInt'
    <3>1. PICK q : q = [Idle EXCEPT !.pc = "add", !.amount = n]
      OBVIOUS
    <3>2. q.snap = 0
      BY <3>1 DEF Idle
    <3>3. Become(h, q) /\ q.snap \in Int
      BY <2>2, <3>1, <3>2
    <3>. QED BY <2>1, <3>3, <1>3
  <2>3. ASSUME NEW c, NEW v, Become(h, [Idle EXCEPT !.pc = "visible", !.id = c, !.visible = v])
        PROVE  NumbersAreInt'
    <3>1. PICK q : q = [Idle EXCEPT !.pc = "visible", !.id = c, !.visible = v]
      OBVIOUS
    <3>2. q.snap = 0
      BY <3>1 DEF Idle
    <3>3. Become(h, q) /\ q.snap \in Int
      BY <2>3, <3>1, <3>2
    <3>. QED BY <2>1, <3>3, <1>3
  <2>. QED BY <1>8, <2>2, <2>3 DEF StartAdd, StartSetVisibility
<1>9. ASSUME NEW h \in Handlers, NEW pc, NEW n \in Int,
             Become(h, [req[h] EXCEPT !.pc = pc, !.snap = n]), UNCHANGED raisedAmount
      PROVE  NumbersAreInt'
  <2>1. [req[h] EXCEPT !.pc = pc, !.snap = n].snap = n
    BY <1>1 DEF Shaped
  <2>. QED BY <1>9, <2>1, <1>3
<1>10. ASSUME NEW h \in Handlers, FinalizeBegin(h) PROVE NumbersAreInt'
  <2>1. UNCHANGED raisedAmount
    BY <1>10 DEF FinalizeBegin, depositVars
  <2>2. CASE Become(h, [req[h] EXCEPT !.pc = "finalTx", !.snap = Raised(contributions)])
    BY <2>1, <2>2, <1>6, <1>9
  <2>3. CASE Go(h, "afterNull")
    <3>1. [req[h] EXCEPT !.pc = "afterNull"].snap = req[h].snap
      BY <1>1 DEF Shaped
    <3>. QED BY <2>1, <2>3, <3>1, <1>3 DEF Go
  <2>. QED BY <1>10, <2>2, <2>3 DEF FinalizeBegin
<1>11. ASSUME NEW h \in Handlers, AddBegin(h) PROVE NumbersAreInt'
  BY <1>6, <1>9, <1>11 DEF AddBegin, depositVars
<1>12. ASSUME NEW h \in Handlers PROVE Raised(WithVisible(req[h].id, req[h].visible)) \in Int
  <2>1. WithVisible(req[h].id, req[h].visible) \in [Ids -> ContributionType]
    <3>1. req[h].visible \in BOOLEAN
      BY <1>1 DEF Shaped
    <3>. QED BY <1>1, <3>1 DEF WithVisible, ContributionType
  <2>. QED BY <2>1, RaisedType
<1>13. ASSUME NEW h \in Handlers, SetVisibilityBegin(h) PROVE NumbersAreInt'
  BY <1>9, <1>12, <1>13 DEF SetVisibilityBegin, depositVars
<1>14. ASSUME NEW h \in Handlers, AddPledge(h) PROVE NumbersAreInt'
  <2>1. Ended(h).snap = 0
    BY DEF Ended, Idle
  <2>. QED BY <1>3, <1>14, <2>1 DEF AddPledge, Done
<1>15. ASSUME NEW h \in Handlers, FinalizeCommit(h) \/ AddCommit(h) PROVE NumbersAreInt'
  <2>1. PICK q : CommitThen(h, q) /\ q.snap = 0
    <3>1. Idle.snap = 0 /\ [At(h, "record") EXCEPT !.outcome = "completed"].snap = 0
      BY DEF Idle, At
    <3>. QED BY <1>15, <3>1 DEF FinalizeCommit, AddCommit
  <2>2. CASE FinalizeCommit(h)
    <3>1. req[h].ref \in References
      BY <2>2 DEF FinalizeCommit, Inv, HandlerSound, WorksOnPaid, Working, Finalizers
    <3>2. intents[req[h].ref].amount \in Nat
      BY <3>1 DEF Inv, TablesSound, TablesShaped, IntentType
    <3>3. raisedAmount' = req[h].snap + intents[req[h].ref].amount
      BY <2>2 DEF FinalizeCommit
    <3>. QED BY <2>1, <3>2, <3>3, <1>4
  <2>3. CASE AddCommit(h)
    <3>1. req[h].amount \in Nat /\ raisedAmount' = req[h].snap + req[h].amount
      BY <1>1, <2>3 DEF AddCommit, Shaped
    <3>. QED BY <2>1, <3>1, <1>4
  <2>. QED BY <1>15, <2>2, <2>3
<1>16. ASSUME NEW h \in Handlers, SetVisibilityCommit(h) \/ RepairWrite(h) PROVE NumbersAreInt'
  BY <1>4, <1>7, <1>16 DEF SetVisibilityCommit, RepairWrite
<1>17. ASSUME NEW h \in Handlers, RepairRead(h) PROVE NumbersAreInt'
  <2>1. PICK q : q = [Idle EXCEPT !.pc = "repairWrite", !.snap = Raised(contributions)]
    OBVIOUS
  <2>2. q.snap \in Int
    BY <1>6, <2>1 DEF Idle
  <2>. QED BY <1>3, <1>17, <2>1, <2>2 DEF RepairRead, depositVars
<1>18. CASE \/ UNCHANGED vars \/ EventChanges
            \/ \E p \in References : Age(p) \/ SettleDeposit(p)
  <2>1. UNCHANGED raisedAmount /\ (UNCHANGED req \/ EventRowChanged)
    BY <1>18 DEF vars, depositVars, EventChanges, Age, SettleDeposit, tables
  <2>2. CASE UNCHANGED req
    BY <2>1, <2>2
  <2>3. CASE EventRowChanged
    BY <1>2, <2>1, <2>3 DEF EventRowChanged
  <2>. QED BY <2>1, <2>2, <2>3
<1>. QED
  BY <1>5, <1>8, <1>10, <1>11, <1>13, <1>14, <1>15, <1>16, <1>17, <1>18
  DEF Next, Start, Continue, Quiet

\* Every row and every handler's locals have the types of schema.ts and of what
\* they were read from, the sums among them.
THEOREM DepositsTyped == Spec => []TypeOK
<1>. DEFINE I == Inv /\ LifecycleInv /\ NumbersAreInt
<1>1. Init => I
  <2>. SUFFICES ASSUME Init PROVE LifecycleInv /\ NumbersAreInt
    BY InvInit
  <2>1. LifecycleInv
    BY DEF Init, LifecycleInit, LifecycleInv, LifecycleType, DecidedRightly, NoOp,
           SuspensionRemembersStatus, Restorable, LifecycleStatuses, TreasurerOps, AdminOps
  <2>2. NumbersAreInt
    BY DEF Init, NumbersAreInt, Idle
  <2>. QED BY <2>1, <2>2
<1>2. I /\ [Next]_vars => I'
  BY InvNext, NumbersNext, LifecycleWatched, LifecycleStep
<1>3. I => TypeOK
  <2>. SUFFICES ASSUME I PROVE req \in [Handlers -> HandlerType]
    BY DEF Inv, TablesSound, TablesShaped, LifecycleInv, NumbersAreInt, TypeOK
  <2>1. ASSUME NEW h \in Handlers PROVE req[h] \in HandlerType
    BY DEF Inv, HandlerSound, Shaped, NumbersAreInt, HandlerType
  <2>. QED BY <2>1 DEF NumbersAreInt
<1>. QED BY <1>1, <1>2, <1>3, PTL DEF Spec
----------------------------------------------------------------------------
(***************************************************************************)
(* The book.  What the mapping says of one payment depends on its intent   *)
(* and deposit, and on the rows that name it.                              *)
(***************************************************************************)
Stage(i, d) ==
  IF i.state # "live" THEN i.state
  ELSE IF i.fulfilled THEN "fulfilled"
  ELSE IF d = "absent" THEN "none" ELSE d

Entry(i, d) ==
  [state |-> Stage(i, d),
   amt |-> IF Stage(i, d) \in {"pending", "success"} /\ i.kind = "contribution"
           THEN i.amount ELSE 0]

BookedOf(rows, p) ==
  SumFunctionOnSet([c \in Ids |-> rows[c].amount], {c \in Ids : rows[c].ref = p})

Payments == [p \in References |-> [state |-> BookState(p), amt |-> BookAmount(p)]]
Bookings == [p \in References |->
               SumFunctionOnSet([c \in Ids |-> contributions[c].amount], Credits(p))]

LEMMA MappedPayments ==
  /\ Payments = [p \in References |-> Entry(intents[p], deposit[p])]
  /\ Payments' = [p \in References |-> Entry(intents'[p], deposit'[p])]
BY DEF Payments, BookState, BookAmount, Entry, Stage

LEMMA MappedBookings ==
  /\ Bookings = [p \in References |-> BookedOf(contributions, p)]
  /\ Bookings' = [p \in References |-> BookedOf(contributions', p)]
BY DEF Bookings, BookedOf, Credits

\* What a payment is asked for is an amount that may be asked for.
AskedRight == \A p \in References : intents[p].state = "live" => intents[p].amount \in Amounts

EntryStays(p) == Entry(intents'[p], deposit'[p]) = Entry(intents[p], deposit[p])
RowsStay(p) == BookedOf(contributions', p) = BookedOf(contributions, p)

LEMMA BookStays ==
  ASSUME \A p \in References : EntryStays(p) /\ RowsStay(p)
  PROVE  [Book!BookNext]_(Book!bookVars)
<1>1. Payments' = Payments
  BY MappedPayments DEF EntryStays
<1>2. Bookings' = Bookings
  BY MappedBookings DEF RowsStay
<1> QED BY <1>1, <1>2 DEF Book!bookVars, Payments, Bookings

LEMMA BookTurns ==
  ASSUME NEW p \in References, \A r \in References \ {p} : EntryStays(r),
         NEW from, NEW to, NEW amt, Stage(intents[p], deposit[p]) \in from,
         Entry(intents'[p], deposit'[p]) = [state |-> to, amt |-> amt]
  PROVE  Book!Turns(p, from, to, amt)
<1>1. Payments[p].state \in from
  BY MappedPayments DEF Entry
<1>2. Payments' = [Payments EXCEPT ![p] = [state |-> to, amt |-> amt]]
  BY MappedPayments DEF EntryStays
<1> QED BY <1>1, <1>2 DEF Book!Turns, Book!Payment, Payments

LEMMA BookingsStay ==
  ASSUME \A p \in References : RowsStay(p)
  PROVE  Bookings' = Bookings
BY MappedBookings DEF RowsStay

LEMMA SameRows == UNCHANGED contributions => \A p \in References : RowsStay(p)
BY DEF RowsStay

LEMMA SamePayments == UNCHANGED <<intents, deposit>> => \A p \in References : EntryStays(p)
BY DEF EntryStays

(***************************************************************************)
(* The steps that move a payment on in the book.                           *)
(***************************************************************************)
LEMMA InsertStays ==
  ASSUME Inv, NEW h \in Handlers, InsertIntent(h)
  PROVE  \A p \in References : EntryStays(p) /\ RowsStay(p)
<1>1. PICK p : p = req[h].ref
  OBVIOUS
<1>2. /\ p \in References /\ intents[p].state = "none" /\ deposit[p] = "absent"
  BY <1>1 DEF Inv, TablesSound, HandlerSound, InsertIntent, InitiatesNew, Initiators, RowSound
<1>3. /\ \A r \in References \ {p} : intents'[r] = intents[r]
      /\ intents'[p].state = "live" /\ ~intents'[p].fulfilled
      /\ UNCHANGED <<deposit, contributions>>
  <2>1. DOMAIN intents = References
    BY DEF Inv, TablesSound, TablesShaped
  <2> QED BY <1>1, <1>2, <2>1 DEF InsertIntent
<1>4. Entry(intents[p], deposit[p]) = [state |-> "none", amt |-> 0]
  BY <1>2 DEF Entry, Stage
<1>5. Entry(intents'[p], deposit'[p]) = [state |-> "none", amt |-> 0]
  BY <1>2, <1>3 DEF Entry, Stage
<1>6. \A r \in References : EntryStays(r)
  BY <1>3, <1>4, <1>5 DEF EntryStays
<1> QED BY <1>3, <1>6, SameRows

LEMMA RequestAsks ==
  ASSUME Inv, AskedRight, NEW h \in Handlers, RequestToPay(h)
  PROVE  [Book!BookNext]_(Book!bookVars)
<1>1. PICK p : p = req[h].ref
  OBVIOUS
<1>2. /\ p \in References /\ intents[p].state = "live" /\ ~intents[p].fulfilled
      /\ deposit[p] = "absent" /\ intents[p].amount \in Amounts
  BY <1>1 DEF Inv, HandlerSound, RequestToPay, InitiatesNew, Initiators, AskedRight
<1>3. UNCHANGED <<intents, contributions>>
  BY DEF RequestToPay, tables
<1>4. CASE UNCHANGED deposit
  BY <1>3, <1>4, SameRows, SamePayments, BookStays
<1>5. CASE deposit' = [deposit EXCEPT ![p] = "pending"]
  <2>1. /\ deposit'[p] = "pending" /\ \A r \in References \ {p} : deposit'[r] = deposit[r]
    BY <1>2, <1>5 DEF Inv, TablesSound, TablesShaped
  <2>2. PICK amt \in Amounts \cup {0} :
          amt = IF intents[p].kind = "contribution" THEN intents[p].amount ELSE 0
    BY <1>2
  <2>3. Entry(intents'[p], deposit'[p]) = [state |-> "pending", amt |-> amt]
    BY <1>2, <1>3, <2>1, <2>2 DEF Entry, Stage
  <2>4. Stage(intents[p], deposit[p]) \in {"none"}
    BY <1>2 DEF Stage
  <2>5. \A r \in References \ {p} : EntryStays(r)
    BY <1>3, <2>1 DEF EntryStays
  <2>6. Book!Turns(p, {"none"}, "pending", amt)
    BY <1>2, <2>3, <2>4, <2>5, BookTurns
  <2>7. Bookings' = Bookings
    BY <1>3, SameRows, BookingsStay
  <2>8. Book!Ask(p)
    BY <2>6, <2>7 DEF Book!Ask, Bookings
  <2> QED BY <1>2, <2>8 DEF Book!BookNext
<1> QED BY <1>1, <1>4, <1>5 DEF RequestToPay

LEMMA DeleteDrops ==
  ASSUME Inv, NEW h \in Handlers, DeleteIntent(h)
  PROVE  [Book!BookNext]_(Book!bookVars)
<1>1. PICK p : p = req[h].ref
  OBVIOUS
<1>2. /\ p \in References /\ intents[p].state = "live" /\ ~intents[p].fulfilled
  BY <1>1 DEF Inv, HandlerSound, DeleteIntent, InitiatesNew, Initiators
<1>3. /\ intents'[p].state = "deleted"
      /\ \A r \in References \ {p} : intents'[r] = intents[r]
      /\ UNCHANGED <<deposit, contributions>>
  <2>1. DOMAIN intents = References
    BY DEF Inv, TablesSound, TablesShaped
  <2> QED BY <1>1, <1>2, <2>1 DEF DeleteIntent, NoIntent
<1>4. Entry(intents'[p], deposit'[p]) = [state |-> "deleted", amt |-> 0]
  BY <1>3 DEF Entry, Stage
<1>5. Stage(intents[p], deposit[p]) \in {"none", "pending", "success", "failed"}
  BY <1>2 DEF Stage, Inv, TablesSound, TablesShaped
<1>6. \A r \in References \ {p} : EntryStays(r)
  BY <1>3 DEF EntryStays
<1>7. Book!Turns(p, {"none", "pending", "success", "failed"}, "deleted", 0)
  BY <1>2, <1>4, <1>5, <1>6, BookTurns
<1>8. Bookings' = Bookings
  BY <1>3, SameRows, BookingsStay
<1>9. Book!Drop(p)
  BY <1>7, <1>8 DEF Book!Drop, Bookings
<1> QED BY <1>2, <1>9 DEF Book!BookNext

LEMMA DepositTurns ==
  ASSUME Inv, NEW p \in References, SettleDeposit(p)
  PROVE  [Book!BookNext]_(Book!bookVars)
<1>1. /\ deposit[p] = "pending" /\ deposit'[p] \in {"success", "failed"}
      /\ \A r \in References \ {p} : deposit'[r] = deposit[r]
      /\ UNCHANGED <<intents, contributions>>
  BY DEF SettleDeposit, tables, Inv, TablesSound, TablesShaped
<1>2. \A r \in References \ {p} : EntryStays(r)
  BY <1>1 DEF EntryStays
<1>3. ~intents[p].fulfilled
  BY <1>1 DEF Inv, TablesSound, RowSound
<1>4. Bookings' = Bookings
  BY <1>1, SameRows, BookingsStay
<1>5. CASE intents[p].state # "live"
  <2>1. EntryStays(p)
    BY <1>1, <1>5 DEF EntryStays, Entry, Stage, Inv, TablesSound, TablesShaped, IntentType
  <2> QED BY <1>1, <1>2, <2>1, SameRows, BookStays
<1>6. CASE intents[p].state = "live"
  <2>1. Stage(intents[p], deposit[p]) = "pending"
    BY <1>1, <1>3, <1>6 DEF Stage
  <2>2. CASE deposit'[p] = "failed"
    <3>1. Entry(intents'[p], deposit'[p]) = [state |-> "failed", amt |-> 0]
      BY <1>1, <1>3, <1>6, <2>2 DEF Entry, Stage
    <3>2. Book!Turns(p, {"pending"}, "failed", 0)
      BY <1>2, <2>1, <3>1, BookTurns
    <3>3. Book!Fail(p)
      BY <1>4, <3>2 DEF Book!Fail, Bookings
    <3> QED BY <3>3 DEF Book!BookNext
  <2>3. CASE deposit'[p] = "success"
    <3>1. PICK amt : amt = Payments[p].amt
      OBVIOUS
    <3>2. amt = Entry(intents[p], deposit[p]).amt
      BY <3>1, MappedPayments
    <3>3. amt = IF intents[p].kind = "contribution" THEN intents[p].amount ELSE 0
      BY <2>1, <3>2 DEF Entry
    <3>4. Entry(intents'[p], deposit'[p]) = [state |-> "success", amt |-> amt]
      BY <1>1, <1>3, <1>6, <2>3, <3>3 DEF Entry, Stage
    <3>5. Book!Turns(p, {"pending"}, "success", amt)
      BY <1>2, <2>1, <3>4, BookTurns
    <3>6. Book!Take(p)
      BY <1>4, <3>1, <3>5 DEF Book!Take, Bookings, Payments
    <3> QED BY <3>6 DEF Book!BookNext
  <2> QED BY <1>1, <2>2, <2>3
<1> QED BY <1>5, <1>6

\* An entry is made with the amount the payment has.
LEMMA BookEnters ==
  ASSUME Inv, NEW p \in References, intents[p].state = "live", ~intents[p].fulfilled,
         deposit[p] = "success", intents'[p].state = "live", intents'[p].fulfilled,
         \A r \in References \ {p} : EntryStays(r) /\ RowsStay(r),
         BookedOf(contributions', p) = Entry(intents[p], deposit[p]).amt
  PROVE  [Book!BookNext]_(Book!bookVars)
<1>1. Stage(intents[p], deposit[p]) \in {"success"}
  BY DEF Stage
<1>2. Entry(intents'[p], deposit'[p]) = [state |-> "fulfilled", amt |-> 0]
  BY DEF Entry, Stage
<1>3. Book!Turns(p, {"success"}, "fulfilled", 0)
  BY <1>1, <1>2, BookTurns
<1>4. Bookings' = [Bookings EXCEPT ![p] = Payments[p].amt]
  BY MappedPayments, MappedBookings DEF RowsStay
<1>5. Book!Enter(p)
  BY <1>3, <1>4 DEF Book!Enter, Bookings, Payments
<1> QED BY <1>5 DEF Book!BookNext

LEMMA FulfilEnters ==
  ASSUME Inv, SnapshotIsolation, NEW h \in Handlers, FulfilSubscription(h)
  PROVE  [Book!BookNext]_(Book!bookVars)
<1>1. PICK p : p = req[h].ref
  OBVIOUS
<1>2. /\ p \in References /\ intents[p].state = "live"
      /\ intents[p].kind # "contribution" /\ deposit[p] = "success"
      /\ intents[p] \in IntentType /\ Credited(p)
  BY <1>1 DEF FulfilSubscription, Inv, TablesSound, TablesShaped, HandlerSound,
              WorksOnPaid, Working
<1>3. /\ intents'[p].state = "live" /\ intents'[p].fulfilled
      /\ \A r \in References \ {p} : intents'[r] = intents[r]
      /\ UNCHANGED <<deposit, contributions>>
  <2>1. DOMAIN intents = References
    BY DEF Inv, TablesSound, TablesShaped
  <2> QED BY <1>1, <1>2, <2>1 DEF FulfilSubscription, IntentType
<1>4. \A r \in References \ {p} : EntryStays(r)
  BY <1>3 DEF EntryStays
<1>5. \A r \in References : RowsStay(r)
  BY <1>3, SameRows
<1>6. CASE intents[p].fulfilled
  <2>1. EntryStays(p)
    BY <1>2, <1>3, <1>6 DEF EntryStays, Entry, Stage
  <2> QED BY <1>4, <1>5, <2>1, BookStays
<1>7. CASE ~intents[p].fulfilled
  <2>1. Credits(p) = {}
    BY <1>2 DEF Credited
  <2>2. BookedOf(contributions, p) = 0
    BY <2>1, SumEmpty DEF BookedOf, Credits
  <2>3. Entry(intents[p], deposit[p]).amt = 0
    BY <1>2 DEF Entry
  <2> QED BY <1>2, <1>3, <1>4, <1>5, <1>7, <2>2, <2>3, BookEnters DEF RowsStay
<1> QED BY <1>6, <1>7

LEMMA CommitEnters ==
  ASSUME Inv, SnapshotIsolation, NEW h \in Handlers, FinalizeCommit(h)
  PROVE  [Book!BookNext]_(Book!bookVars)
<1>1. PICK p : p = req[h].ref
  OBVIOUS
<1>2. /\ p \in References /\ intents[p].state = "live"
      /\ intents[p].kind = "contribution" /\ deposit[p] = "success"
      /\ intents[p] \in IntentType /\ Credited(p) /\ ~intents[p].fulfilled
      /\ contributions \in [Ids -> ContributionType] /\ FreeIds
  BY <1>1 DEF FinalizeCommit, MayCommit, Inv, TablesSound, TablesShaped, HandlerSound,
              WorksOnPaid, FreshSnapshot, Working, Finalizers
<1>3. PICK c \in Ids \ Used :
        contributions' = [contributions EXCEPT ![c] =
          [ref |-> p, amount |-> intents[p].amount, paid |-> TRUE, visible |-> TRUE]]
  BY <1>1 DEF FinalizeCommit
<1>4. /\ intents'[p].state = "live" /\ intents'[p].fulfilled
      /\ \A r \in References \ {p} : intents'[r] = intents[r]
      /\ UNCHANGED deposit
  <2>1. DOMAIN intents = References
    BY DEF Inv, TablesSound, TablesShaped
  <2> QED BY <1>1, <1>2, <2>1 DEF FinalizeCommit, IntentType
<1>5. \A r \in References \ {p} : EntryStays(r)
  BY <1>4 DEF EntryStays
<1>6. /\ contributions'[c].ref = p /\ contributions'[c].amount = intents[p].amount
      /\ \A d \in Ids \ {c} : contributions'[d] = contributions[d]
  BY <1>2, <1>3
<1>7. contributions[c].ref = None
  <2>1. contributions[c].amount = 0
    BY <1>2 DEF Used, ContributionType
  <2> QED BY <1>2, <2>1 DEF FreeIds
<1>8. ASSUME NEW r \in References \ {p} PROVE RowsStay(r)
  <2>1. PICK S : S = {d \in Ids : contributions[d].ref = r}
    OBVIOUS
  <2>2. {d \in Ids : contributions'[d].ref = r} = S
    BY <1>6, <1>7, <2>1, DepositAssumption
  <2>3. IsFiniteSet(S) /\ S \subseteq Ids
    BY <2>1, FS_Subset, DepositAssumption
  <2>4. PICK f, g : /\ f = [d \in Ids |-> contributions[d].amount]
                    /\ g = [d \in Ids |-> contributions'[d].amount]
    OBVIOUS
  <2>5. \A d \in S : f[d] \in Int /\ f[d] = g[d]
    BY <1>2, <1>6, <1>7, <2>1, <2>4, DepositAssumption DEF ContributionType
  <2>6. SumFunctionOnSet(f, S) = SumFunctionOnSet(g, S)
    BY <2>3, <2>5, SumEqual
  <2> QED BY <2>1, <2>2, <2>4, <2>6 DEF RowsStay, BookedOf
<1>9. BookedOf(contributions', p) = intents[p].amount
  <2>1. {d \in Ids : contributions[d].ref = p} = {}
    BY <1>2 DEF Credited, Credits
  <2>2. {d \in Ids : contributions'[d].ref = p} = {c}
    BY <1>6, <2>1
  <2>3. PICK g : g = [d \in Ids |-> contributions'[d].amount]
    OBVIOUS
  <2>4. g[c] = intents[p].amount /\ g[c] \in Int
    BY <1>2, <1>6, <2>3 DEF IntentType
  <2> QED BY <2>2, <2>3, <2>4, SumOfOne DEF BookedOf
<1>10. Entry(intents[p], deposit[p]).amt = intents[p].amount
  BY <1>2 DEF Entry, Stage
<1> QED BY <1>2, <1>4, <1>5, <1>8, <1>9, <1>10, BookEnters

\* Rows by hand are no payments, and a row keeps its amount.
LEMMA ManualStays ==
  ASSUME Inv, NEW h \in Handlers, Manually(h)
  PROVE  \A p \in References : EntryStays(p) /\ RowsStay(p)
<1>1. UNCHANGED <<intents, deposit>>
  BY DEF Manually, AddPledge, AddCommit, SetVisibilityCommit, RepairWrite
<1>2. ASSUME NEW p \in References PROVE RowsStay(p)
  <2>1. PICK S : S = {d \in Ids : contributions[d].ref = p}
    OBVIOUS
  <2>2. {d \in Ids : contributions'[d].ref = p} = S
    BY <2>1, ManualRows, DepositAssumption
  <2>3. IsFiniteSet(S) /\ S \subseteq Ids
    BY <2>1, FS_Subset, DepositAssumption
  <2>4. PICK f, g : /\ f = [d \in Ids |-> contributions[d].amount]
                    /\ g = [d \in Ids |-> contributions'[d].amount]
    OBVIOUS
  <2>5. \A d \in S : f[d] \in Int /\ f[d] = g[d]
    BY <2>1, <2>4, ManualRows, DepositAssumption
    DEF Inv, TablesSound, TablesShaped, ContributionType
  <2>6. SumFunctionOnSet(f, S) = SumFunctionOnSet(g, S)
    BY <2>3, <2>5, SumEqual
  <2> QED BY <2>1, <2>2, <2>4, <2>6 DEF RowsStay, BookedOf
<1> QED BY <1>1, <1>2, SamePayments

LEMMA AgeStays ==
  ASSUME Inv, NEW p \in References, Age(p)
  PROVE  \A r \in References : EntryStays(r) /\ RowsStay(r)
<1>1. UNCHANGED <<deposit, contributions>> /\ intents' = [intents EXCEPT ![p].aged = TRUE]
  BY DEF Age
<1>2. /\ intents'[p].state = intents[p].state /\ intents'[p].kind = intents[p].kind
      /\ intents'[p].amount = intents[p].amount /\ intents'[p].fulfilled = intents[p].fulfilled
      /\ \A r \in References \ {p} : intents'[r] = intents[r]
  BY <1>1 DEF Inv, TablesSound, TablesShaped, IntentType
<1>3. \A r \in References : EntryStays(r)
  BY <1>1, <1>2 DEF EntryStays, Entry, Stage
<1> QED BY <1>1, <1>3, SameRows

\* Steps that write neither an intent nor a row, and are not the provider's.
LEMMA SameTables ==
  ASSUME NEW h \in Handlers,
         Start(h) \/ Continue(h) \/ HandlerFails(h),
         ~InsertIntent(h), ~RequestToPay(h), ~DeleteIntent(h), ~FulfilSubscription(h),
         ~FinalizeCommit(h), ~Manually(h)
  PROVE  UNCHANGED <<intents, deposit, contributions>>
<1>1. CASE Start(h)
  BY <1>1 DEF Start, StartInitiate, StartPoll, StartJob, StartAdd,
              StartSetVisibility, RepairRead, depositVars
<1>2. CASE HandlerFails(h)
  BY <1>2 DEF HandlerFails, depositVars
<1>3. CASE Continue(h)
  BY <1>3 DEF Continue, Manually, ReadIntent, FetchStatus, FetchError, FinalizeBegin,
       AfterNull, RollBack, JobNext, Record, AddBegin, SetVisibilityBegin, depositVars
<1> QED BY <1>1, <1>2, <1>3

LEMMA AskedNext ==
  ASSUME Inv, AskedRight, [Next]_vars
  PROVE  AskedRight'
<1>1. CASE UNCHANGED intents
  BY <1>1 DEF AskedRight
<1>2. ASSUME NEW h \in Handlers, InsertIntent(h) PROVE AskedRight'
  <2>1. PICK p : p = req[h].ref
    OBVIOUS
  <2>2. p \in References /\ req[h].amount \in Amounts
    BY <1>2, <2>1 DEF Inv, HandlerSound, InsertIntent, InitiatesNew, Initiators
  <2>3. /\ intents'[p].amount = req[h].amount
        /\ \A r \in References \ {p} : intents'[r] = intents[r]
    BY <1>2, <2>1, <2>2 DEF InsertIntent, Inv, TablesSound, TablesShaped
  <2> QED BY <2>2, <2>3 DEF AskedRight
<1>3. ASSUME NEW h \in Handlers, DeleteIntent(h) PROVE AskedRight'
  <2>1. PICK p : p = req[h].ref
    OBVIOUS
  <2>2. p \in References
    BY <1>3, <2>1 DEF Inv, HandlerSound, DeleteIntent, InitiatesNew, Initiators
  <2>3. /\ intents'[p].state = "deleted"
        /\ \A r \in References \ {p} : intents'[r] = intents[r]
    BY <1>3, <2>1, <2>2 DEF DeleteIntent, NoIntent, Inv, TablesSound, TablesShaped
  <2> QED BY <2>3 DEF AskedRight
<1>4. ASSUME NEW h \in Handlers, FulfilSubscription(h) \/ FinalizeCommit(h) PROVE AskedRight'
  <2>1. PICK p : p = req[h].ref
    OBVIOUS
  <2>2. intents' = [intents EXCEPT ![p].fulfilled = TRUE]
    BY <1>4, <2>1 DEF FulfilSubscription, FinalizeCommit
  <2>3. \A r \in References : /\ intents'[r].state = intents[r].state
                              /\ intents'[r].amount = intents[r].amount
    BY <2>2 DEF Inv, TablesSound, TablesShaped, IntentType
  <2> QED BY <2>3 DEF AskedRight
<1>5. ASSUME NEW p \in References, Age(p) PROVE AskedRight'
  <2>1. \A r \in References : /\ intents'[r].state = intents[r].state
                              /\ intents'[r].amount = intents[r].amount
    BY <1>5 DEF Age, Inv, TablesSound, TablesShaped, IntentType
  <2> QED BY <2>1 DEF AskedRight
<1>6. ASSUME NEW h \in Handlers, RequestToPay(h) \/ Manually(h) PROVE UNCHANGED intents
  BY <1>6 DEF RequestToPay, Manually, AddPledge, AddCommit, SetVisibilityCommit,
              RepairWrite, tables
<1>7. CASE UNCHANGED vars \/ EventChanges \/ \E p \in References : SettleDeposit(p)
  <2>1. UNCHANGED intents
    BY <1>7 DEF vars, depositVars, EventChanges, SettleDeposit, tables
  <2> QED BY <1>1, <2>1
<1>8. ASSUME NEW h \in Handlers, Start(h) \/ Continue(h) \/ HandlerFails(h) PROVE AskedRight'
  BY <1>1, <1>2, <1>3, <1>4, <1>6, <1>8, SameTables
<1> QED BY <1>5, <1>7, <1>8 DEF Next

LEMMA BookStep ==
  ASSUME Inv, AskedRight, SnapshotIsolation, [Next]_vars
  PROVE  [Book!BookNext]_(Book!bookVars)
<1>1. ASSUME UNCHANGED <<intents, deposit, contributions>>
      PROVE  [Book!BookNext]_(Book!bookVars)
  BY <1>1, SameRows, SamePayments, BookStays
<1>2. ASSUME NEW h \in Handlers, Start(h) \/ Continue(h) \/ HandlerFails(h)
      PROVE  [Book!BookNext]_(Book!bookVars)
  <2>1. CASE InsertIntent(h)
    BY <2>1, InsertStays, BookStays
  <2>2. CASE Manually(h)
    BY <2>2, ManualStays, BookStays
  <2>3. CASE RequestToPay(h)
    BY <2>3, RequestAsks
  <2>4. CASE DeleteIntent(h)
    BY <2>4, DeleteDrops
  <2>5. CASE FulfilSubscription(h)
    BY <2>5, FulfilEnters
  <2>6. CASE FinalizeCommit(h)
    BY <2>6, CommitEnters
  <2>7. CASE ~(\/ InsertIntent(h) \/ Manually(h) \/ RequestToPay(h) \/ DeleteIntent(h)
               \/ FulfilSubscription(h) \/ FinalizeCommit(h))
    <3>1. UNCHANGED <<intents, deposit, contributions>>
      BY <1>2, <2>7, SameTables
    <3> QED BY <1>1, <3>1
  <2> QED BY <2>1, <2>2, <2>3, <2>4, <2>5, <2>6, <2>7
<1>3. ASSUME NEW p \in References, Age(p) PROVE [Book!BookNext]_(Book!bookVars)
  BY <1>3, AgeStays, BookStays
<1>4. ASSUME NEW p \in References, SettleDeposit(p) PROVE [Book!BookNext]_(Book!bookVars)
  BY <1>4, DepositTurns
<1>5. CASE UNCHANGED vars \/ EventChanges
  <2>1. UNCHANGED <<intents, deposit, contributions>>
    BY <1>5 DEF vars, depositVars, EventChanges
  <2> QED BY <1>1, <2>1
<1> QED BY <1>2, <1>3, <1>4, <1>5 DEF Next

LEMMA BookStarts == Init => Book!BookInit
<1> SUFFICES ASSUME Init PROVE Book!BookInit
  OBVIOUS
<1>1. \A p \in References : Entry(intents[p], deposit[p]) = [state |-> "none", amt |-> 0]
  BY DEF Init, NoIntent, Entry, Stage
<1>2. Payments = [p \in References |-> [state |-> "none", amt |-> 0]]
  BY <1>1, MappedPayments
<1>3. \A p \in References : BookedOf(contributions, p) = 0
  <2> SUFFICES ASSUME NEW p \in References PROVE BookedOf(contributions, p) = 0
    OBVIOUS
  <2>1. {c \in Ids : contributions[c].ref = p} = {}
    BY DepositAssumption DEF Init, NoContribution
  <2> QED BY <2>1, SumEmpty DEF BookedOf
<1>4. Bookings = [p \in References |-> 0]
  BY <1>3, MappedBookings
<1> QED BY <1>2, <1>4 DEF Book!BookInit, Book!Payment, Payments, Bookings

\* Under snapshot isolation every step of the handlers, the provider and the job
\* is a step of the book or none it sees, for any payments of both kinds: a payment
\* is asked for, taken or failed, and entered once with what was asked for, or
\* given up and never entered.
THEOREM BookImplemented == Spec /\ SnapshotIsolation => ImplementsBook
<1> DEFINE I == Inv /\ AskedRight /\ SnapshotIsolation
<1>1. Init /\ SnapshotIsolation => I
  BY InvInit DEF Init, NoIntent, AskedRight
<1>2. I /\ [Next]_vars => I'
  BY InvNext, AskedNext
<1>3. I /\ [Next]_vars => [Book!BookNext]_(Book!bookVars)
  BY BookStep
<1> QED BY <1>1, <1>2, <1>3, BookStarts, PTL DEF Spec, ImplementsBook, Book!BookSpec
=============================================================================
