---------------------------- MODULE EventRecords ----------------------------
(***************************************************************************)
(* What the API keeps of the events an owner writes: their rows, the photos*)
(* in storage, and the payments that activate events.  A call is a handler *)
(* between two awaits (events.service.ts).                                 *)
(*                                                                         *)
(* Texts, dates, amounts and the budget row that repeats the target are    *)
(* left out, and so is the preview image made of the first photo.  A photo *)
(* is its slot, for an event has one key per slot.  The owner's events     *)
(* share one title, so a slug is the suffix that tells it from the others. *)
(***************************************************************************)
EXTENDS Integers, Sequences, FiniteSets, SequencesExt

CONSTANTS
  Tabs,                \* the tabs of the owner; each has one call at a time
  Drafts,              \* the ids that opening the create form makes up
  Refs,                \* references of subscription payments
  None,
  MaxImages,           \* MAX_EVENT_IMAGES
  SlugAttempts         \* tries at a free slug (8 in the code)

ASSUME EventRecordsAssumption ==
  /\ MaxImages \in Nat /\ SlugAttempts \in Nat \ {0}
  /\ None \notin Drafts \cup Refs /\ Drafts # {}

VARIABLES
  event,      \* rows of events
  stored,     \* the keys with an object in storage
  intent,     \* subscription payments
  activated,  \* history: the events created with a payment
  call,       \* the handler each tab has called
  removal,    \* deletions of photos that no tab waits for
  scope       \* "paid" or "edited": the deployment, and what a behaviour is about

recordVars == <<event, stored, intent, activated, call, removal>>
Rows == <<event, stored, intent, activated>>

\* app.featureSubscriptionPayment, with a provider.
SubscriptionFeature == scope = "paid"

Slots == 0 .. MaxImages - 1
Keys == Drafts \X Slots

NoEvent == [exists |-> FALSE, slug |-> 0, paid |-> FALSE, images |-> {},
            status |-> "active"]
NoCall == [op |-> "none", pc |-> "idle", event |-> None, ref |-> None, keys |-> {}, todo |-> {}, old |-> {}, attempt |-> 0, slot |-> 0, left |-> FALSE]

RecordsInit ==
  /\ event = [d \in Drafts |-> NoEvent]
  /\ stored = {}
  /\ intent = [r \in Refs |-> "none"]
  /\ activated = [r \in Refs |-> {}]
  /\ call = [t \in Tabs |-> NoCall]
  /\ removal = {}

Ended == {"ok", "error"}
At(t, pc) == call[t].pc = pc
In(t, op, pc) == call[t].op = op /\ call[t].pc = pc
Goto(t, pc) == call' = [call EXCEPT ![t].pc = pc]
\* The answer: what the call was about is no longer needed.
Answer(t, pc) ==
  call' = [call EXCEPT ![t] = [NoCall EXCEPT !.op = call[t].op, !.pc = pc, !.event = call[t].event,
                                             !.slot = call[t].slot, !.left = call[t].left]]
Refuse(t) == Answer(t, "error") /\ UNCHANGED Rows
SlugTaken(slug) == \E d \in Drafts : event[d].exists /\ event[d].slug = slug

-----------------------------------------------------------------------------
(* Creating an event                                                       *)

\* assertSubscriptionIntentForUser, for those who say they paid.
AssertSubscription(t) ==
  /\ In(t, "create", "assert")
  /\ IF SubscriptionFeature /\ call[t].ref # None /\ intent[call[t].ref] # "paid"
     THEN Refuse(t)
     ELSE Goto(t, IF call[t].keys = {} THEN "write" ELSE "head") /\ UNCHANGED Rows

\* headObject, one key after the other, for a create or an update.
HeadImage(t) ==
  LET c == call[t]
      slot == CHOOSE s \in c.todo : \A other \in c.todo : s <= other
  IN  /\ At(t, "head")
      /\ IF <<c.event, slot>> \in stored
         THEN call' = [call EXCEPT ![t].todo = @ \ {slot},
                                   ![t].pc = IF c.todo = {slot} THEN "write" ELSE @]
         ELSE Answer(t, "error")
      /\ UNCHANGED Rows

\* One attempt: the id is the primary key and the slug is unique, and the
\* loop does not ask which of the two was a duplicate.
InsertEvent(t) ==
  LET c == call[t]
      duplicate == event[c.event].exists \/ SlugTaken(c.attempt)
  IN  /\ In(t, "create", "write")
      /\ IF duplicate
         THEN /\ IF c.attempt + 1 < SlugAttempts
                 THEN call' = [call EXCEPT ![t].attempt = @ + 1]
                 ELSE Answer(t, "error")
              /\ UNCHANGED <<event, activated>>
         ELSE /\ event' = [event EXCEPT ![c.event] =
                   [NoEvent EXCEPT !.exists = TRUE, !.slug = c.attempt, !.paid = c.ref # None,
                                   !.images = c.keys]]
              /\ activated' = IF c.ref = None THEN activated
                              ELSE [activated EXCEPT ![c.ref] = @ \cup {c.event}]
              /\ Answer(t, "ok")
      /\ UNCHANGED <<stored, intent>>

-----------------------------------------------------------------------------
(* Updating it                                                             *)

UpdateRead(t) ==
  /\ In(t, "update", "read")
  /\ call' = [call EXCEPT ![t].old = event[call[t].event].images,
                          ![t].pc = IF call[t].keys = {} THEN "write" ELSE "head"]
  /\ UNCHANGED Rows

\* The transaction: the row, then its budget rows deleted and put back.
UpdateWrite(t) ==
  LET c == call[t]
  IN  /\ In(t, "update", "write")
      /\ event' = [event EXCEPT ![c.event].images = c.keys]
      /\ call' = [call EXCEPT ![t].pc = "drop", ![t].todo = c.old \ c.keys]
      /\ UNCHANGED <<stored, intent, activated>>

\* The photos the row listed when it was read.
UpdateDrop(t) ==
  LET c == call[t]
  IN  /\ In(t, "update", "drop")
      /\ IF c.todo # {}
         THEN \E slot \in c.todo :
                /\ stored' = stored \ {<<c.event, slot>>}
                /\ call' = [call EXCEPT ![t].todo = @ \ {slot}]
         ELSE Answer(t, "ok") /\ UNCHANGED stored
      /\ UNCHANGED <<event, intent, activated>>

-----------------------------------------------------------------------------
(* Photos                                                                  *)

\* saveDraftEventImage.
UploadImage(t) ==
  /\ In(t, "upload", "put")
  /\ stored' = stored \cup {<<call[t].event, call[t].slot>>}
  /\ Answer(t, "ok")
  /\ UNCHANGED <<event, intent, activated>>

\* deleteDraftEventImage, for a tab that does not wait; it may fail.
RemoveImage(key) ==
  /\ stored' = stored \ {key} \/ UNCHANGED stored
  /\ removal' = removal \ {key}
  /\ UNCHANGED <<event, intent, activated, call>>

-----------------------------------------------------------------------------
(* Paying for an event                                                     *)

InitiateSubscription(t) ==
  /\ In(t, "pay", "request")
  /\ \E r \in Refs :
       /\ intent[r] = "none"
       /\ intent' = [intent EXCEPT ![r] = "pending"]
       /\ call' = [call EXCEPT ![t].ref = r, ![t].pc = "ok"]
  /\ UNCHANGED <<event, stored, activated>>

\* What the module Deposits makes of the payment, in the end.
SettleSubscription(r) ==
  /\ intent[r] = "pending"
  /\ \E outcome \in {"paid", "failed"} : intent' = [intent EXCEPT ![r] = outcome]
  /\ UNCHANGED <<event, stored, activated, call, removal>>

-----------------------------------------------------------------------------
(* Pausing, resuming, stopping: EventLifecycle has the handler's steps.    *)

Lifecycle == {"pause", "resume", "stop"}
CanRun(op, status) ==
  CASE op = "pause" -> status = "active"
    [] op = "resume" -> status = "paused"
    [] op = "stop" -> status \in {"active", "paused"}
After(op) == CASE op = "pause" -> "paused" [] op = "resume" -> "active" [] op = "stop" -> "stopped"

ChangeStatus(t) ==
  LET c == call[t]
  IN  /\ c.op \in Lifecycle /\ c.pc = "change"
      /\ IF CanRun(c.op, event[c.event].status)
         THEN /\ event' = [event EXCEPT ![c.event].status = After(c.op)]
              /\ Answer(t, "ok")
              /\ UNCHANGED <<stored, intent, activated>>
         ELSE Refuse(t)

-----------------------------------------------------------------------------
\* The database, the storage or the API is away, or the answer is lost; what
\* was done stays done.
CallFails(t) ==
  /\ call[t].op # "none" /\ ~At(t, "error")
  /\ Refuse(t)

RecordStep(t) ==
  /\ \/ AssertSubscription(t) \/ HeadImage(t) \/ InsertEvent(t)
     \/ UpdateRead(t) \/ UpdateWrite(t) \/ UpdateDrop(t)
     \/ UploadImage(t) \/ InitiateSubscription(t)
     \/ ChangeStatus(t) \/ CallFails(t)
  /\ UNCHANGED removal
=============================================================================
