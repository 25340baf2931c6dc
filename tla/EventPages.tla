----------------------------- MODULE EventPages -----------------------------
(***************************************************************************)
(* The owner's pages of an event: the create form (CreateEventForm.tsx),   *)
(* the edit form (EditEventForm.tsx), and the event's page with its        *)
(* lifecycle controls and its progress report.                             *)
(*                                                                         *)
(* The browser sends one server action of a tab after the other, so a      *)
(* poll's answer comes before that of a later request.                     *)
(***************************************************************************)
EXTENDS ProgressReports, Sorting

CONSTANTS
  MaxPolls   \* MOMO_MAX_POLLS and MAX_POLLS (48 in the code)

ASSUME EventPagesAssumption == MaxPolls \in Nat \ {0}

VARIABLES tab  \* what each tab shows

vars == <<recordVars, reportVars, tab, scope>>

\* Where events are paid for: creating them, and their pages.  Where they are
\* not: creating and editing one with photos.
Visited(page) == page = "create" \/ page = (IF scope = "paid" THEN "event" ELSE "edit")

\* The steps for the type, the details and the photos are one here: the first
\* two only collect fields.  A form is stuck when its action threw before it
\* could clear "loading".
NewTab == [page |-> "closed", event |-> None, step |-> "form", photos |-> <<>>,
           stuck |-> FALSE, wait |-> None, polls |-> 0, asked |-> FALSE, ref |-> None,
           status |-> "active", report |-> "none", loaded |-> FALSE, polling |-> FALSE,
           tooLong |-> FALSE]

Init ==
  /\ RecordsInit /\ ReportsInit
  /\ scope \in {"paid", "edited"}
  /\ tab = [t \in Tabs |-> NewTab]

Shows(t, page, step) == tab[t].page = page /\ tab[t].step = step
Idle(t) == At(t, "idle") /\ ~tab[t].stuck
Others == <<recordVars, reportVars>>
OnTab(t, shown) == tab' = [tab EXCEPT ![t] = shown] /\ UNCHANGED Others
Send(t, fields) ==
  /\ Idle(t)
  /\ call' = [call EXCEPT ![t] = fields]
  /\ UNCHANGED <<Rows, removal, reportVars, tab>>

-----------------------------------------------------------------------------
(* Opening and leaving pages                                               *)

\* crypto.randomUUID: an id nothing knows of.
Fresh(d) ==
  /\ ~event[d].exists
  /\ \A t \in Tabs : tab[t].event # d /\ call[t].event # d
  /\ \A key \in stored \cup removal : key[1] # d
  /\ \A r \in Refs : d \notin activated[r]

\* Photos have their event's key: one event, on one tab, has their races (a bound).
EditingTab == CHOOSE t \in Tabs : TRUE
EditedDraft == CHOOSE d \in Drafts : TRUE
Opens(t, page) ==
  /\ Visited(page)
  /\ scope = "edited" => t = EditingTab

OpenCreate(t) ==
  /\ Opens(t, "create") /\ tab[t].page = "closed" /\ At(t, "idle")
  /\ \E d \in (IF scope = "edited" THEN {EditedDraft} ELSE Drafts) :
       Fresh(d) /\ OnTab(t, [NewTab EXCEPT !.page = "create", !.event = d])

\* buildInitialPhotos: the photos the row lists, by slot.
BySlot(images) == Ascending(images)

OpenEdit(t) ==
  /\ Opens(t, "edit") /\ tab[t].page \in {"closed", "event"} /\ At(t, "idle")
  /\ \E d \in Drafts :
       /\ event[d].exists
       /\ OnTab(t, [NewTab EXCEPT !.page = "edit", !.event = d,
                      !.photos = BySlot(event[d].images)])

ShowEvent(d) == [NewTab EXCEPT !.page = "event", !.event = d, !.status = event[d].status]

OpenEvent(t) ==
  /\ Opens(t, "event") /\ tab[t].page \in {"closed", "edit"} /\ At(t, "idle")
  /\ \E d \in Drafts : event[d].exists /\ OnTab(t, ShowEvent(d))

\* The handler the tab has called goes on without it.
Leave(t) ==
  /\ tab[t].page # "closed"
  /\ tab' = [tab EXCEPT ![t] = NewTab]
  /\ call' = [call EXCEPT ![t].left = ~At(t, "idle")]
  /\ UNCHANGED <<Rows, removal, reportVars>>

-----------------------------------------------------------------------------
(* The create and edit forms                                               *)

\* Continue, Back and the "Change" summaries.
GoToStep(t) ==
  /\ tab[t].page = "create" /\ (Idle(t) \/ tab[t].step = "pay")
  /\ SubscriptionFeature
  /\ OnTab(t, [tab[t] EXCEPT !.step = IF @ = "form" THEN "pay" ELSE "form"])

PhotoSlots(photos) == {photos[i] : i \in DOMAIN photos}
NextFreeSlot(photos) ==
  IF PhotoSlots(photos) = Slots THEN MaxImages - 1
  ELSE CHOOSE s \in Slots \ PhotoSlots(photos) : \A other \in Slots \ PhotoSlots(photos) : s <= other

\* One of the files picked, dropped or tapped: the rest follow as further ones.
AddPhoto(t) ==
  /\ tab[t].page \in {"create", "edit"} /\ tab[t].step = "form"
  /\ scope = "edited" /\ Len(tab[t].photos) < MaxImages
  /\ Send(t, [NoCall EXCEPT !.op = "upload", !.pc = "put", !.event = tab[t].event,
                            !.slot = NextFreeSlot(tab[t].photos)])

\* Mutant of Uploaded: the photo is listed before its upload is answered.
UploadedTwice(t) ==
  /\ tab[t].page \in {"create", "edit"}
  /\ call[t].op = "upload" /\ call[t].pc \in {"ok", "put"}
  /\ tab' = [tab EXCEPT ![t].photos = IF Len(@) < MaxImages THEN Append(@, call[t].slot) ELSE @]
  /\ call' = IF At(t, "ok") THEN [call EXCEPT ![t] = NoCall] ELSE call
  /\ UNCHANGED <<Rows, removal, reportVars>>

Uploaded(t) ==
  /\ In(t, "upload", "ok") /\ ~call[t].left
  /\ tab' = [tab EXCEPT ![t].photos = IF Len(@) < MaxImages THEN Append(@, call[t].slot) ELSE @]
  /\ call' = [call EXCEPT ![t] = NoCall]
  /\ UNCHANGED <<Rows, removal, reportVars>>

\* The deletion is not waited for.  One is under way per photo (a bound).
RemovePhoto(t) ==
  /\ tab[t].page \in {"create", "edit"} /\ tab[t].step = "form"
  /\ \E i \in DOMAIN tab[t].photos :
       LET key == <<tab[t].event, tab[t].photos[i]>>
       IN  /\ key \notin removal
           /\ removal' = removal \cup {key}
           /\ tab' = [tab EXCEPT ![t].photos = RemoveAt(@, i)]
  /\ UNCHANGED <<Rows, call, reportVars>>

LastStep == IF SubscriptionFeature THEN "pay" ELSE "form"
Payload(t) ==
  [NoCall EXCEPT !.event = tab[t].event, !.ref = tab[t].ref,
                 !.keys = PhotoSlots(tab[t].photos), !.todo = PhotoSlots(tab[t].photos)]

\* Mutant of Activate: every submission makes up a new id.
ActivateAnew(t) ==
  /\ Shows(t, "create", LastStep)
  /\ SubscriptionFeature => tab[t].ref # None
  /\ \E d \in Drafts :
       /\ d = tab[t].event \/ Fresh(d)
       /\ Send(t, [Payload(t) EXCEPT !.op = "create", !.pc = "assert", !.event = d])

\* handleActivate; the button waits for the payment.
Activate(t) ==
  /\ Shows(t, "create", LastStep)
  /\ SubscriptionFeature => tab[t].ref # None
  /\ Send(t, [Payload(t) EXCEPT !.op = "create", !.pc = "assert"])

Save(t) ==
  /\ Shows(t, "edit", "form")
  /\ Send(t, [Payload(t) EXCEPT !.op = "update", !.pc = "read"])

\* Created: to /app/events/<slug>.  Saved: a full load of the event's page.
Written(t) ==
  /\ call[t].op \in {"create", "update"} /\ At(t, "ok") /\ ~call[t].left
  /\ tab' = [tab EXCEPT ![t] = IF Visited("event") THEN ShowEvent(call[t].event) ELSE NewTab]
  /\ call' = [call EXCEPT ![t] = NoCall]
  /\ UNCHANGED <<Rows, removal, reportVars>>

\* An alert; the form stays as it is.  CreateEventForm does not catch what its
\* actions throw when the browser loses the connection.
Failed(t) ==
  /\ call[t].op # "none" /\ At(t, "error") /\ ~call[t].left
  /\ \/ UNCHANGED tab
     \/ /\ tab[t].page = "create" /\ call[t].op \in {"create", "pay"}
        /\ tab' = [tab EXCEPT ![t].stuck = TRUE]
  /\ call' = [call EXCEPT ![t] = NoCall]
  /\ UNCHANGED <<Rows, removal, reportVars>>

AfterLeft(t) ==
  /\ call[t].left /\ call[t].pc \in Ended
  /\ call' = [call EXCEPT ![t] = NoCall]
  /\ UNCHANGED <<Rows, removal, reportVars, tab>>

-----------------------------------------------------------------------------
(* Paying for the event                                                    *)

StartSubMomoPay(t) ==
  /\ Shows(t, "create", "pay") /\ tab[t].wait = None /\ tab[t].ref = None
  /\ Cardinality({c \in Tabs : In(c, "pay", "request")}) < Cardinality({r \in Refs : intent[r] = "none"})
  /\ Send(t, [NoCall EXCEPT !.op = "pay", !.pc = "request"])

PayStarted(t) ==
  /\ In(t, "pay", "ok") /\ ~call[t].left
  /\ tab' = [tab EXCEPT ![t].wait = call[t].ref, ![t].polls = 0]
  /\ call' = [call EXCEPT ![t] = NoCall]
  /\ UNCHANGED <<Rows, removal, reportVars>>

\* The wait ends; what a poll under way answers is ignored.
EndWait(shown) == [shown EXCEPT !.wait = None, !.polls = 0, !.asked = FALSE]

\* The timer counts its ticks, answered or not.
SubscriptionTick(t) ==
  /\ tab[t].page = "create" /\ tab[t].wait # None
  /\ OnTab(t, IF tab[t].polls = MaxPolls THEN EndWait(tab[t])
              ELSE [tab[t] EXCEPT !.polls = @ + 1, !.asked = TRUE])

\* Mutant of SubscriptionAnswer: whatever is not FAILED counts as paid.
SubscriptionAnswerHasty(t) ==
  /\ tab[t].page = "create" /\ tab[t].asked
  /\ OnTab(t, IF intent[tab[t].wait] # "failed" THEN [EndWait(tab[t]) EXCEPT !.ref = tab[t].wait]
              ELSE EndWait(tab[t]))

\* Pending, or the poll did not get through; rejected (401, 403), which counts
\* as a failed payment.
SubscriptionAnswer(t) ==
  /\ tab[t].page = "create" /\ tab[t].asked
  /\ \/ OnTab(t, [tab[t] EXCEPT !.asked = FALSE])
     \/ OnTab(t, EndWait(tab[t]))
     \/ intent[tab[t].wait] = "paid" /\ OnTab(t, [EndWait(tab[t]) EXCEPT !.ref = tab[t].wait])

CancelWait(t) ==
  /\ Shows(t, "create", "pay") /\ tab[t].wait # None
  /\ OnTab(t, EndWait(tab[t]))

-----------------------------------------------------------------------------
(* The event's page: lifecycle controls and progress report                *)

\* Buttons by the status the page was loaded with.
LifecycleButton(t) ==
  /\ tab[t].page = "event"
  /\ \E op \in Lifecycle :
       /\ CanRun(op, tab[t].status)
       /\ Send(t, [NoCall EXCEPT !.op = op, !.pc = "change", !.event = tab[t].event])

LifecycleDone(t) ==
  /\ call[t].op \in Lifecycle /\ At(t, "ok") /\ ~call[t].left
  /\ tab' = [tab EXCEPT ![t].status = event[tab[t].event].status]
  /\ call' = [call EXCEPT ![t] = NoCall]
  /\ UNCHANGED <<Rows, removal, reportVars>>

Panel(t) == tab[t].page = "event" /\ tab[t].status = "stopped"

\* The poll starts whenever the report shown becomes a pending one.
WithReport(shown, status) ==
  [shown EXCEPT !.report = status, !.loaded = TRUE,
                !.polling = status = "pending" /\ (@ \/ shown.report # "pending"),
                !.polls = IF status = "pending" /\ shown.report = "pending" THEN @ ELSE 0]

\* getProgressReportStatus answers null when it fails.
LoadReport(t) ==
  /\ Panel(t) /\ ~tab[t].loaded
  /\ \/ OnTab(t, WithReport(tab[t], LatestStatus(tab[t].event)))
     \/ OnTab(t, [tab[t] EXCEPT !.loaded = TRUE])

OffersReport(t) == Panel(t) /\ tab[t].loaded /\ tab[t].report \in {"none", "failed", "ready"}

ReportButton(t) ==
  /\ OffersReport(t)
  /\ Cardinality({c \in Tabs : In(c, "report", "request")}) + Len(report) < MaxReports
  /\ Send(t, [NoCall EXCEPT !.op = "report", !.pc = "request", !.event = tab[t].event])

ReportRequested(t) ==
  /\ In(t, "report", "ok") /\ ~call[t].left
  /\ tab' = [tab EXCEPT ![t] = [WithReport(tab[t], "pending") EXCEPT !.tooLong = FALSE]]
  /\ call' = [call EXCEPT ![t] = NoCall]
  /\ UNCHANGED <<Rows, removal, reportVars>>

\* The interval; a tick that finds a poll unanswered is answered with it.
ReportTick(t) ==
  /\ tab[t].polling
  /\ OnTab(t, [tab[t] EXCEPT !.polls = IF @ < MaxPolls THEN @ + 1 ELSE @, !.asked = TRUE])

\* Mutant of ReportAnswer: only the report's end stops the poll.
ReportAnswerPatient(t) ==
  /\ tab[t].page = "event" /\ tab[t].asked
  /\ OnTab(t, [WithReport(tab[t], LatestStatus(tab[t].event)) EXCEPT !.asked = FALSE])

\* The poll stops when it failed, when the report is there or has failed, or
\* when it has been asked for often enough.
ReportAnswer(t) ==
  LET status == LatestStatus(tab[t].event)
      asked == [WithReport(tab[t], status) EXCEPT !.asked = FALSE]
      enough == tab[t].polls >= MaxPolls /\ status = "pending"
  IN  /\ tab[t].page = "event" /\ tab[t].asked
      /\ \/ OnTab(t, IF enough THEN [asked EXCEPT !.polling = FALSE, !.tooLong = TRUE] ELSE asked)
         \/ OnTab(t, [tab[t] EXCEPT !.asked = FALSE, !.polling = FALSE])

-----------------------------------------------------------------------------
Page(t) ==
  \/ OpenCreate(t) \/ OpenEdit(t) \/ OpenEvent(t) \/ Leave(t)
  \/ GoToStep(t) \/ AddPhoto(t) \/ RemovePhoto(t) \/ Activate(t) \/ Save(t)
  \/ Uploaded(t) \/ Written(t) \/ Failed(t) \/ AfterLeft(t)

Paying(t) ==
  StartSubMomoPay(t) \/ PayStarted(t) \/ SubscriptionTick(t) \/ SubscriptionAnswer(t) \/ CancelWait(t)

Owned(t) ==
  \/ LifecycleButton(t) \/ LifecycleDone(t) \/ LoadReport(t)
  \/ ReportButton(t) \/ ReportRequested(t) \/ ReportTick(t) \/ ReportAnswer(t)

NextStep ==
  \/ \E t \in Tabs : Page(t) \/ Paying(t) \/ Owned(t)
  \/ \E t \in Tabs : RecordStep(t) /\ UNCHANGED <<reportVars, tab>>
  \/ \E t \in Tabs : RequestReport(t) /\ UNCHANGED tab
  \/ \E key \in removal : RemoveImage(key) /\ UNCHANGED <<reportVars, tab>>
  \/ \E r \in Refs : SettleSubscription(r) /\ UNCHANGED <<reportVars, tab>>
  \/ \E i \in DOMAIN report : GenerateReport(i) /\ UNCHANGED tab

Next == NextStep /\ UNCHANGED scope

Spec == Init /\ [][Next]_vars

\* The timers of an open tab run, and the status of a report is answered.
Timer(step) == step /\ UNCHANGED scope
Timers ==
  \A t \in Tabs :
    WF_vars(Timer(SubscriptionTick(t))) /\ WF_vars(Timer(ReportTick(t))) /\ WF_vars(Timer(ReportAnswer(t)))
FairSpec == Spec /\ Timers

-----------------------------------------------------------------------------
(* Properties                                                              *)

\* A payment activates at most one event, though the answer to "Activate" may
\* be lost and the form submitted again: the form keeps its id, and a second
\* insert of it meets the primary key (events.service.ts addEvent).
OneEventPerPayment == \A r \in Refs : Cardinality(activated[r]) <= 1

\* "Payment received" is shown, and an event is marked as paid for, only when
\* the provider took the money, whenever the wait is cancelled, times out or
\* goes on behind another step while the poll's answer is on its way.
ActivatedWasPaid ==
  /\ \A t \in Tabs : tab[t].ref # None => intent[tab[t].ref] = "paid"
  /\ \A d \in Drafts : event[d].paid => \E r \in Refs : d \in activated[r] /\ intent[r] = "paid"

\* A form never lists two photos of one slot, in whatever order photos are
\* added and removed while uploads run: they would overwrite each other.
OnePhotoPerSlot == \A t \in Tabs : Cardinality(PhotoSlots(tab[t].photos)) = Len(tab[t].photos)

\* Whenever the panel offers "Download PDF" the download finds a PDF, also
\* while another tab has a new report made.
ReadyCanBeDownloaded == \A t \in Tabs : tab[t].report = "ready" => CanDownload(tab[t].event)

\* What a page waits for comes to an end: the wait for a subscription payment,
\* even if no poll is ever answered, and the panel's poll, though a report may
\* stay pending for ever.
WaitsEnd ==
  \A t \in Tabs :
    /\ tab[t].wait # None ~> tab[t].wait = None
    /\ tab[t].polling ~> ~tab[t].polling
=============================================================================
