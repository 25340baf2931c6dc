-------------------------- MODULE EventPagesProofs --------------------------
(***************************************************************************)
(* Theorems about the owner's pages of an event, for any number of tabs,   *)
(* events and payments: the create form's payment, then the photos of the  *)
(* forms and the report of the event's page.                               *)
(***************************************************************************)
EXTENDS EventPages, FiniteSetFacts, SequenceTheorems, TLAPS

USE EventRecordsAssumption
----------------------------------------------------------------------------
(***************************************************************************)
(* The invariant.  A reference of a payment is held by one tab at a time:  *)
(* by its call that initiated the payment, then by its wait, then by the   *)
(* form that may activate an event with it, and by the calls that do.  As  *)
(* long as it is held, the only event it can have activated is the one the *)
(* form, or the call, is about; so a second submission of the form, after  *)
(* an answer that was lost, can only meet the event that is there.         *)
(***************************************************************************)
\* The records keep their fields.
Shape ==
  /\ tab = [t \in Tabs |-> tab[t]] /\ \A t \in Tabs : DOMAIN tab[t] = DOMAIN NewTab
  /\ call = [t \in Tabs |-> call[t]] /\ \A t \in Tabs : DOMAIN call[t] = DOMAIN NoCall
  /\ event = [d \in Drafts |-> event[d]]
  /\ \A d \in Drafts : DOMAIN event[d] = DOMAIN NoEvent
  /\ intent \in [Refs -> {"none", "pending", "paid", "failed"}]
  /\ activated \in [Refs -> SUBSET Drafts]

Holds(t, r) == tab[t].ref = r \/ tab[t].wait = r \/ call[t].ref = r

\* What a tab that shows s, and its call c, are about, and what is known of
\* the payments they hold.
Agree(s, c) ==
  /\ {s.ref, s.wait, c.ref} \subseteq Refs \cup {None}
  /\ c.pc = "idle" => c.op = "none"
  /\ c.op \notin {"create", "pay"} => c.ref = None
  /\ c.op = "pay" /\ c.pc = "ok" => c.ref # None
  /\ c.op = "pay" => c.pc \in {"request", "ok", "error"}
  /\ c.op = "create" =>
       c.event \in Drafts /\ ((s.ref = None /\ s.wait = None) \/ s.event = c.event)
  /\ c.op = "report" => c.left = TRUE \/ s.page = "event"
  /\ s.page = "create" =>
       s.event \in Drafts /\ s.polling = FALSE /\ (s.asked = FALSE \/ s.wait # None)
  /\ s.page # "create" => s.ref = None
  /\ \A r \in Refs :
       /\ s.ref = r \/ s.wait = r => activated[r] \subseteq {s.event}
       /\ c.ref = r =>
            activated[r] \subseteq (IF c.op = "create" THEN {c.event} ELSE {})
       /\ s.ref = r \/ (c.op = "create" /\ c.ref = r) => intent[r] = "paid"

PaymentsInv ==
  /\ Shape
  /\ \A t \in Tabs : Agree(tab[t], call[t])
  /\ \A t, u \in Tabs, r \in Refs : Holds(t, r) /\ Holds(u, r) => t = u
  /\ \A r \in Refs : intent[r] = "none" =>
       activated[r] = {} /\ \A t \in Tabs : ~Holds(t, r)
  /\ \A r \in Refs : \A d, e \in activated[r] : d = e
  /\ \A d \in Drafts : event[d].paid = TRUE =>
       \E r \in Refs : d \in activated[r] /\ intent[r] = "paid"

LEMMA PaymentsInit == Init => PaymentsInv
<1>. SUFFICES ASSUME Init PROVE PaymentsInv
  OBVIOUS
<1>1. Shape
  BY DEF Init, RecordsInit, Shape
<1>2. \A t \in Tabs : Agree(tab[t], call[t]) /\ \A r \in Refs : ~Holds(t, r)
  BY DEF Init, RecordsInit, Agree, Holds, NewTab, NoCall
<1>3. \A r \in Refs : activated[r] = {}
  BY DEF Init, RecordsInit
<1>4. \A d \in Drafts : event[d].paid = FALSE
  BY DEF Init, RecordsInit, NoEvent
<1>. QED BY <1>1, <1>2, <1>3, <1>4 DEF PaymentsInv

\* A step of one tab, or of its call, that creates no event and changes no
\* payment.
LEMMA QuietStep ==
  ASSUME PaymentsInv, Shape', NEW t \in Tabs,
         \A u \in Tabs \ {t} : tab'[u] = tab[u] /\ call'[u] = call[u],
         intent' = intent, activated' = activated,
         \A d \in Drafts : event'[d].paid = event[d].paid,
         Agree(tab[t], call[t])',
         {tab'[t].ref, tab'[t].wait, call'[t].ref} \subseteq
           {None, tab[t].ref, tab[t].wait, call[t].ref}
  PROVE  PaymentsInv'
<1>1. \A u \in Tabs \ {t} : Agree(tab[u], call[u])'
  BY DEF PaymentsInv, Agree
<1>2. \A u \in Tabs, r \in Refs : Holds(u, r)' => Holds(u, r)
  BY DEF Holds
<1>. QED BY <1>1, <1>2 DEF PaymentsInv

\* A step of the page alone.
LEMMA ShownStep ==
  ASSUME PaymentsInv, NEW t \in Tabs, NEW s, OnTab(t, s), DOMAIN s = DOMAIN NewTab,
         Agree(s, call[t]), {s.ref, s.wait} \subseteq {None, tab[t].ref, tab[t].wait}
  PROVE  PaymentsInv'
<1>1. Shape /\ UNCHANGED <<call, event, intent, activated>>
  BY DEF PaymentsInv, OnTab, Others, recordVars
<1>2. tab' = [tab EXCEPT ![t] = s]
  BY DEF OnTab
<1>3. Shape' /\ tab'[t] = s /\ \A u \in Tabs \ {t} : tab'[u] = tab[u]
  BY <1>1, <1>2 DEF Shape
<1>4. Agree(tab[t], call[t])'
  BY <1>1, <1>3 DEF Agree
<1>. QED BY <1>1, <1>3, <1>4, QuietStep

\* A call is sent.
LEMMA SentStep ==
  ASSUME PaymentsInv, NEW t \in Tabs, NEW c, Send(t, c), DOMAIN c = DOMAIN NoCall,
         Agree(tab[t], c), c.ref \in {None, tab[t].ref, tab[t].wait}
  PROVE  PaymentsInv'
<1>1. Shape /\ UNCHANGED <<tab, event, intent, activated>>
  BY DEF PaymentsInv, Send, Rows
<1>2. call' = [call EXCEPT ![t] = c]
  BY DEF Send
<1>3. Shape' /\ call'[t] = c /\ \A u \in Tabs \ {t} : call'[u] = call[u]
  BY <1>1, <1>2 DEF Shape
<1>4. Agree(tab[t], call[t])'
  BY <1>1, <1>3 DEF Agree
<1>. QED BY <1>1, <1>3, <1>4, QuietStep
----------------------------------------------------------------------------
(***************************************************************************)
(* The pages.                                                              *)
(***************************************************************************)
\* What is known of a tab and its call before the step.
LEMMA Before ==
  ASSUME PaymentsInv, NEW t \in Tabs
  PROVE  /\ Shape /\ Agree(tab[t], call[t])
         /\ DOMAIN tab[t] = DOMAIN NewTab /\ DOMAIN call[t] = DOMAIN NoCall
  BY DEF PaymentsInv, Shape

\* A page that is opened holds no payment.
LEMMA OpenCreateKeeps ==
  ASSUME PaymentsInv, NEW t \in Tabs, OpenCreate(t)
  PROVE  PaymentsInv'
<1>1. PICK d \in Drafts : OnTab(t, [NewTab EXCEPT !.page = "create", !.event = d])
  <2>1. EditedDraft \in Drafts
    BY DEF EditedDraft
  <2>. QED BY <2>1 DEF OpenCreate, Fresh
<1>. DEFINE s == [NewTab EXCEPT !.page = "create", !.event = d]
<1>2. DOMAIN s = DOMAIN NewTab /\ s.ref = None /\ s.wait = None
  BY DEF NewTab
<1>3. Agree(s, call[t])
  BY Before DEF OpenCreate, At, Agree, NewTab
<1>. QED BY <1>1, <1>2, <1>3, ShownStep

LEMMA OpenEditKeeps ==
  ASSUME PaymentsInv, NEW t \in Tabs, OpenEdit(t)
  PROVE  PaymentsInv'
<1>1. PICK d, photos :
        OnTab(t, [NewTab EXCEPT !.page = "edit", !.event = d, !.photos = photos])
  BY Zenon DEF OpenEdit
<1>. DEFINE s == [NewTab EXCEPT !.page = "edit", !.event = d, !.photos = photos]
<1>2. DOMAIN s = DOMAIN NewTab /\ s.ref = None /\ s.wait = None
  BY DEF NewTab
<1>3. At(t, "idle")
  BY Zenon DEF OpenEdit
<1>4. Agree(s, call[t])
  BY <1>3, Before DEF At, Agree, NewTab
<1>. QED BY <1>1, <1>2, <1>4, ShownStep

LEMMA OpenEventKeeps ==
  ASSUME PaymentsInv, NEW t \in Tabs, OpenEvent(t)
  PROVE  PaymentsInv'
<1>1. PICK d : OnTab(t, ShowEvent(d))
  BY DEF OpenEvent
<1>2. DOMAIN ShowEvent(d) = DOMAIN NewTab /\ ShowEvent(d).ref = None /\ ShowEvent(d).wait = None
  BY DEF ShowEvent, NewTab
<1>3. Agree(ShowEvent(d), call[t])
  BY Before DEF OpenEvent, At, Agree, ShowEvent, NewTab
<1>. QED BY <1>1, <1>2, <1>3, ShownStep

LEMMA GoToStepKeeps ==
  ASSUME PaymentsInv, NEW t \in Tabs, GoToStep(t)
  PROVE  PaymentsInv'
<1>. DEFINE s == [tab[t] EXCEPT !.step = IF @ = "form" THEN "pay" ELSE "form"]
<1>1. OnTab(t, s)
  BY DEF GoToStep
<1>2. DOMAIN s = DOMAIN NewTab /\ s.ref = tab[t].ref /\ s.wait = tab[t].wait
  BY Before DEF NewTab
<1>3. Agree(s, call[t])
  BY Before DEF Agree, NewTab
<1>. QED BY <1>1, <1>2, <1>3, ShownStep

LEMMA WaitEnds ==
  ASSUME PaymentsInv, NEW t \in Tabs
  PROVE  LET s == EndWait(tab[t])
         IN  /\ DOMAIN s = DOMAIN NewTab /\ s.ref = tab[t].ref /\ s.wait = None
             /\ Agree(s, call[t])
  BY Before, ZenonT(60) DEF EndWait, Agree, NewTab

LEMMA SubscriptionTickKeeps ==
  ASSUME PaymentsInv, NEW t \in Tabs, SubscriptionTick(t)
  PROVE  PaymentsInv'
<1>. DEFINE s == [tab[t] EXCEPT !.polls = @ + 1, !.asked = TRUE]
<1>1. OnTab(t, s) \/ OnTab(t, EndWait(tab[t]))
  BY DEF SubscriptionTick
<1>2. DOMAIN s = DOMAIN NewTab /\ s.ref = tab[t].ref /\ s.wait = tab[t].wait
  BY Before DEF NewTab
<1>3. Agree(s, call[t])
  BY Before DEF SubscriptionTick, Agree, NewTab
<1>. HIDE DEF s
<1>. QED BY <1>1, <1>2, <1>3, WaitEnds, ShownStep

LEMMA SubscriptionAnswerKeeps ==
  ASSUME PaymentsInv, NEW t \in Tabs, SubscriptionAnswer(t)
  PROVE  PaymentsInv'
<1>. DEFINE s == [tab[t] EXCEPT !.asked = FALSE]
            p == [EndWait(tab[t]) EXCEPT !.ref = tab[t].wait]
<1>1. \/ OnTab(t, s)
      \/ OnTab(t, EndWait(tab[t]))
      \/ intent[tab[t].wait] = "paid" /\ OnTab(t, p)
  BY DEF SubscriptionAnswer
<1>2. DOMAIN s = DOMAIN NewTab /\ s.ref = tab[t].ref /\ s.wait = tab[t].wait
  BY Before DEF NewTab
<1>3. Agree(s, call[t])
  BY Before DEF Agree, NewTab
<1>4. DOMAIN p = DOMAIN NewTab /\ p.ref = tab[t].wait /\ p.wait = None
  BY Before DEF EndWait, NewTab
<1>5. intent[tab[t].wait] = "paid" => Agree(p, call[t])
  <2>1. p.page = tab[t].page /\ p.event = tab[t].event /\ p.asked = FALSE
        /\ p.polling = tab[t].polling /\ tab[t].page = "create"
    BY Before DEF EndWait, NewTab, SubscriptionAnswer
  <2>. HIDE DEF p
  <2>. QED BY <1>4, <2>1, Before, ZenonT(60) DEF Agree
<1>. HIDE DEF s, p
<1>. QED BY <1>1, <1>2, <1>3, <1>4, <1>5, WaitEnds, ShownStep

LEMMA CancelWaitKeeps ==
  ASSUME PaymentsInv, NEW t \in Tabs, CancelWait(t)
  PROVE  PaymentsInv'
  BY WaitEnds, ShownStep DEF CancelWait

\* Showing the status of a report changes nothing about payments.
LEMMA ReportShown ==
  ASSUME PaymentsInv, NEW t \in Tabs, tab[t].page # "create", NEW s,
         DOMAIN s = DOMAIN NewTab, OnTab(t, s),
         s.page = tab[t].page, s.event = tab[t].event, s.ref = tab[t].ref,
         s.wait = tab[t].wait
  PROVE  PaymentsInv'
<1>1. Agree(tab[t], call[t])
  BY Before
<1>2. Agree(s, call[t])
  BY <1>1, SMTT(30) DEF Agree
<1>. QED BY <1>2, ShownStep

LEMMA WithReportFields ==
  ASSUME NEW s, DOMAIN s = DOMAIN NewTab, NEW status
  PROVE  LET q == WithReport(s, status)
         IN  /\ DOMAIN q = DOMAIN NewTab /\ q.page = s.page /\ q.event = s.event
             /\ q.ref = s.ref /\ q.wait = s.wait
  BY DEF WithReport, NewTab

LEMMA LoadReportKeeps ==
  ASSUME PaymentsInv, NEW t \in Tabs, LoadReport(t)
  PROVE  PaymentsInv'
<1>. DEFINE q == WithReport(tab[t], LatestStatus(tab[t].event))
            s == [tab[t] EXCEPT !.loaded = TRUE]
<1>1. tab[t].page # "create" /\ (OnTab(t, q) \/ OnTab(t, s))
  BY DEF LoadReport, Panel
<1>2. /\ DOMAIN s = DOMAIN NewTab /\ s.page = tab[t].page /\ s.event = tab[t].event
      /\ s.ref = tab[t].ref /\ s.wait = tab[t].wait
  BY Before DEF NewTab
<1>. HIDE DEF s
<1>. QED BY <1>1, <1>2, Before, WithReportFields, ReportShown

LEMMA ReportTickKeeps ==
  ASSUME PaymentsInv, NEW t \in Tabs, ReportTick(t)
  PROVE  PaymentsInv'
<1>. DEFINE s == [tab[t] EXCEPT !.polls = IF @ < MaxPolls THEN @ + 1 ELSE @, !.asked = TRUE]
<1>1. tab[t].page # "create" /\ OnTab(t, s)
  BY Before DEF ReportTick, Agree
<1>2. /\ DOMAIN s = DOMAIN NewTab /\ s.page = tab[t].page /\ s.event = tab[t].event
      /\ s.ref = tab[t].ref /\ s.wait = tab[t].wait
  BY Before DEF NewTab
<1>. HIDE DEF s
<1>. QED BY <1>1, <1>2, ReportShown

LEMMA ReportAnswerKeeps ==
  ASSUME PaymentsInv, NEW t \in Tabs, ReportAnswer(t)
  PROVE  PaymentsInv'
<1>. DEFINE q == WithReport(tab[t], LatestStatus(tab[t].event))
            a == [q EXCEPT !.asked = FALSE]
            b == [a EXCEPT !.polling = FALSE, !.tooLong = TRUE]
            f == [tab[t] EXCEPT !.asked = FALSE, !.polling = FALSE]
<1>1. tab[t].page # "create" /\ (OnTab(t, a) \/ OnTab(t, b) \/ OnTab(t, f))
  BY DEF ReportAnswer
<1>2. /\ DOMAIN q = DOMAIN NewTab /\ q.page = tab[t].page /\ q.event = tab[t].event
      /\ q.ref = tab[t].ref /\ q.wait = tab[t].wait
  BY Before, WithReportFields
<1>. HIDE DEF q
<1>3. \A s \in {a, b, f} :
        /\ DOMAIN s = DOMAIN NewTab /\ s.page = tab[t].page /\ s.event = tab[t].event
        /\ s.ref = tab[t].ref /\ s.wait = tab[t].wait
  BY <1>2, Before DEF NewTab
<1>. HIDE DEF a, b, f
<1>. QED BY <1>1, <1>3, ReportShown

\* A call other than one that creates an event takes no payment with it.
LEMMA SentKeeps ==
  ASSUME PaymentsInv, NEW t \in Tabs,
         \/ AddPhoto(t) \/ Save(t) \/ StartSubMomoPay(t) \/ LifecycleButton(t)
         \/ ReportButton(t)
  PROVE  PaymentsInv'
<1>1. PICK c : /\ Send(t, c) /\ DOMAIN c = DOMAIN NoCall /\ c.ref = None
               /\ c.pc \notin {"idle", "ok"} /\ c.op # "create"
               /\ c.op = "report" => tab[t].page = "event"
               /\ c.op = "pay" => c.pc = "request"
  <2>1. CASE AddPhoto(t)
    <3>. DEFINE c == [NoCall EXCEPT !.op = "upload", !.pc = "put", !.event = tab[t].event,
                                    !.slot = NextFreeSlot(tab[t].photos)]
    <3>1. Send(t, c)
      BY <2>1 DEF AddPhoto
    <3>2. DOMAIN c = DOMAIN NoCall /\ c.ref = None /\ c.pc = "put" /\ c.op = "upload"
      BY DEF NoCall
    <3>. HIDE DEF c
    <3>. QED BY <3>1, <3>2
  <2>2. CASE Save(t)
    <3>. DEFINE c == [Payload(t) EXCEPT !.op = "update", !.pc = "read"]
    <3>1. Send(t, c)
      BY <2>2 DEF Save
    <3>2. tab[t].ref = None
      BY <2>2, Before DEF Save, Shows, Agree
    <3>3. DOMAIN c = DOMAIN NoCall /\ c.ref = None /\ c.pc = "read" /\ c.op = "update"
      BY <3>2 DEF Payload, NoCall
    <3>. HIDE DEF c
    <3>. QED BY <3>1, <3>3
  <2>3. CASE StartSubMomoPay(t)
    <3>. DEFINE c == [NoCall EXCEPT !.op = "pay", !.pc = "request"]
    <3>1. Send(t, c)
      BY <2>3 DEF StartSubMomoPay
    <3>2. DOMAIN c = DOMAIN NoCall /\ c.ref = None /\ c.pc = "request" /\ c.op = "pay"
      BY DEF NoCall
    <3>. HIDE DEF c
    <3>. QED BY <3>1, <3>2
  <2>4. CASE LifecycleButton(t)
    <3>1. PICK op \in Lifecycle :
            Send(t, [NoCall EXCEPT !.op = op, !.pc = "change", !.event = tab[t].event])
      BY <2>4 DEF LifecycleButton
    <3>. DEFINE c == [NoCall EXCEPT !.op = op, !.pc = "change", !.event = tab[t].event]
    <3>2. DOMAIN c = DOMAIN NoCall /\ c.ref = None /\ c.pc = "change"
          /\ c.op # "create" /\ c.op # "report" /\ c.op # "pay"
      BY DEF NoCall, Lifecycle
    <3>3. Send(t, c)
      BY <3>1
    <3>. HIDE DEF c
    <3>. QED BY <3>2, <3>3
  <2>5. CASE ReportButton(t)
    <3>. DEFINE c == [NoCall EXCEPT !.op = "report", !.pc = "request",
                                    !.event = tab[t].event]
    <3>1. Send(t, c) /\ tab[t].page = "event"
      BY <2>5 DEF ReportButton, OffersReport, Panel
    <3>2. DOMAIN c = DOMAIN NoCall /\ c.ref = None /\ c.pc = "request" /\ c.op = "report"
      BY DEF NoCall
    <3>. HIDE DEF c
    <3>. QED BY <3>1, <3>2
  <2>. QED BY <2>1, <2>2, <2>3, <2>4, <2>5
<1>2. Agree(tab[t], c)
  BY <1>1, Before DEF Agree
<1>. QED BY <1>1, <1>2, SentStep

LEMMA ActivateKeeps ==
  ASSUME PaymentsInv, NEW t \in Tabs, Activate(t)
  PROVE  PaymentsInv'
<1>. DEFINE c == [Payload(t) EXCEPT !.op = "create", !.pc = "assert"]
<1>1. Send(t, c) /\ tab[t].page = "create"
  BY DEF Activate, Shows
<1>2. /\ DOMAIN c = DOMAIN NoCall /\ c.ref = tab[t].ref /\ c.pc = "assert"
      /\ c.op = "create" /\ c.event = tab[t].event
  BY DEF Payload, NoCall
<1>. HIDE DEF c
<1>3. Agree(tab[t], c)
  BY <1>1, <1>2, Before, ZenonT(60) DEF Agree
<1>. QED BY <1>1, <1>2, <1>3, SentStep

\* The answer of a call is taken, or dropped, or the tab is left to it.
LEMMA AnswerKeeps ==
  ASSUME PaymentsInv, NEW t \in Tabs, NEW s, NEW c,
         UNCHANGED <<event, intent, activated>>,
         tab' = [tab EXCEPT ![t] = s] \/ (tab' = tab /\ s = tab[t]),
         call' = [call EXCEPT ![t] = c] \/ (call' = call /\ c = call[t]),
         DOMAIN s = DOMAIN NewTab, DOMAIN c = DOMAIN NoCall,
         {s.ref, s.wait, c.ref} \subseteq {None, tab[t].ref, tab[t].wait, call[t].ref},
         Agree(s, c)
  PROVE  PaymentsInv'
<1>1. Shape
  BY Before
<1>2. /\ Shape' /\ tab'[t] = s /\ call'[t] = c
      /\ \A u \in Tabs \ {t} : tab'[u] = tab[u] /\ call'[u] = call[u]
  BY <1>1 DEF Shape
<1>3. Agree(tab[t], call[t])'
  BY <1>2 DEF Agree
<1>. QED BY <1>2, <1>3, QuietStep

LEMMA EmptyFields ==
  /\ NoCall.pc = "idle" /\ NoCall.op = "none" /\ NoCall.ref = None
  /\ NewTab.page = "closed" /\ NewTab.ref = None /\ NewTab.wait = None
  BY DEF NoCall, NewTab

\* A call that is over holds nothing.
LEMMA NoCallAgrees ==
  ASSUME NEW s, NEW c, Agree(s, c)
  PROVE  Agree(s, NoCall) /\ NoCall.ref = None
  BY DEF Agree, NoCall

LEMMA LeaveKeeps ==
  ASSUME PaymentsInv, NEW t \in Tabs, Leave(t)
  PROVE  PaymentsInv'
<1>. DEFINE c == [call[t] EXCEPT !.left = ~At(t, "idle")]
<1>1. /\ tab' = [tab EXCEPT ![t] = NewTab] /\ call' = [call EXCEPT ![t] = c]
      /\ UNCHANGED <<event, intent, activated>>
  <2>1. call' = [call EXCEPT ![t].left = ~At(t, "idle")]
    BY DEF Leave
  <2>. QED BY <2>1 DEF Leave, Rows
<1>2. /\ DOMAIN c = DOMAIN NoCall /\ c.op = call[t].op /\ c.pc = call[t].pc
      /\ c.ref = call[t].ref /\ c.event = call[t].event
      /\ call[t].pc # "idle" => c.left = TRUE
  BY Before DEF NoCall, At
<1>. HIDE DEF c
<1>3. At(t, "idle") <=> call[t].pc = "idle"
  BY DEF At
<1>4. Agree(tab[t], call[t])
  BY Before
<1>5. Agree(NewTab, c)
  BY <1>2, <1>4, EmptyFields DEF Agree
<1>. QED BY <1>1, <1>2, <1>5, EmptyFields, AnswerKeeps

LEMMA AfterLeftKeeps ==
  ASSUME PaymentsInv, NEW t \in Tabs, AfterLeft(t)
  PROVE  PaymentsInv'
  BY Before, NoCallAgrees, AnswerKeeps DEF AfterLeft, Rows

\* Photos come and go beside the payment.
LEMMA PhotosKeep ==
  ASSUME PaymentsInv, NEW t \in Tabs, Uploaded(t) \/ RemovePhoto(t)
  PROVE  PaymentsInv'
<1>1. PICK photos : tab' = [tab EXCEPT ![t].photos = photos]
  BY DEF Uploaded, RemovePhoto
<1>. DEFINE s == [tab[t] EXCEPT !.photos = photos]
<1>2. /\ DOMAIN s = DOMAIN NewTab /\ s.ref = tab[t].ref /\ s.wait = tab[t].wait
      /\ Agree(s, call[t])
  BY Before DEF Agree, NewTab
<1>3. tab' = [tab EXCEPT ![t] = s]
  BY <1>1
<1>. HIDE DEF s
<1>4. CASE Uploaded(t)
  BY <1>2, <1>3, <1>4, Before, NoCallAgrees, AnswerKeeps DEF Uploaded, Rows
<1>5. CASE RemovePhoto(t)
  BY <1>2, <1>3, <1>5, Before, AnswerKeeps DEF RemovePhoto, Rows
<1>. QED BY <1>4, <1>5

LEMMA WrittenKeeps ==
  ASSUME PaymentsInv, NEW t \in Tabs, Written(t)
  PROVE  PaymentsInv'
<1>1. PICK s : /\ tab' = [tab EXCEPT ![t] = s]
               /\ s = ShowEvent(call[t].event) \/ s = NewTab
  BY DEF Written
<1>2. DOMAIN s = DOMAIN NewTab /\ s.ref = None /\ s.wait = None /\ s.page # "create"
  <2>1. LET e == ShowEvent(call[t].event)
        IN  DOMAIN e = DOMAIN NewTab /\ e.ref = None /\ e.wait = None /\ e.page = "event"
    BY DEF ShowEvent, NewTab
  <2>. QED BY <1>1, <2>1, EmptyFields
<1>3. Agree(s, NoCall)
  BY <1>2, EmptyFields DEF Agree
<1>. QED BY <1>1, <1>2, <1>3, EmptyFields, AnswerKeeps DEF Written, Rows

LEMMA FailedKeeps ==
  ASSUME PaymentsInv, NEW t \in Tabs, Failed(t)
  PROVE  PaymentsInv'
<1>. DEFINE s == [tab[t] EXCEPT !.stuck = TRUE]
<1>1. tab' = tab \/ tab' = [tab EXCEPT ![t] = s]
  BY DEF Failed
<1>2. /\ DOMAIN s = DOMAIN NewTab /\ s.ref = tab[t].ref /\ s.wait = tab[t].wait
      /\ Agree(s, call[t])
  BY Before DEF Agree, NewTab
<1>. HIDE DEF s
<1>3. CASE tab' = tab
  BY <1>3, Before, NoCallAgrees, AnswerKeeps DEF Failed, Rows
<1>4. CASE tab' = [tab EXCEPT ![t] = s]
  BY <1>2, <1>4, NoCallAgrees, AnswerKeeps DEF Failed, Rows
<1>. QED BY <1>1, <1>3, <1>4

\* The wait takes over the payment from the call that initiated it.
LEMMA PayStartedKeeps ==
  ASSUME PaymentsInv, NEW t \in Tabs, PayStarted(t)
  PROVE  PaymentsInv'
<1>. DEFINE s == [tab[t] EXCEPT !.wait = call[t].ref, !.polls = 0]
<1>1. /\ tab' = [tab EXCEPT ![t] = s] /\ call' = [call EXCEPT ![t] = NoCall]
      /\ UNCHANGED <<event, intent, activated>>
      /\ call[t].op = "pay" /\ call[t].pc = "ok"
  BY DEF PayStarted, Rows, In
<1>2. /\ DOMAIN s = DOMAIN NewTab /\ s.ref = tab[t].ref /\ s.wait = call[t].ref
      /\ s.page = tab[t].page /\ s.event = tab[t].event
      /\ s.polling = tab[t].polling /\ s.asked = tab[t].asked
  BY Before DEF NewTab
<1>. HIDE DEF s
<1>3. Agree(tab[t], call[t])
  BY Before
<1>4. Agree(s, NoCall)
  BY <1>1, <1>2, <1>3, EmptyFields DEF Agree
<1>. QED BY <1>1, <1>2, <1>4, EmptyFields, AnswerKeeps

LEMMA LifecycleDoneKeeps ==
  ASSUME PaymentsInv, NEW t \in Tabs, LifecycleDone(t)
  PROVE  PaymentsInv'
<1>. DEFINE s == [tab[t] EXCEPT !.status = event[tab[t].event].status]
<1>1. tab' = [tab EXCEPT ![t] = s]
  BY DEF LifecycleDone
<1>2. /\ DOMAIN s = DOMAIN NewTab /\ s.ref = tab[t].ref /\ s.wait = tab[t].wait
      /\ Agree(s, call[t])
  BY Before DEF Agree, NewTab
<1>. HIDE DEF s
<1>. QED BY <1>1, <1>2, NoCallAgrees, AnswerKeeps DEF LifecycleDone, Rows

LEMMA ReportRequestedKeeps ==
  ASSUME PaymentsInv, NEW t \in Tabs, ReportRequested(t)
  PROVE  PaymentsInv'
<1>. DEFINE q == WithReport(tab[t], "pending")
            s == [q EXCEPT !.tooLong = FALSE]
<1>1. tab' = [tab EXCEPT ![t] = s] /\ tab[t].page # "create"
  BY Before DEF ReportRequested, In, Agree
<1>2. /\ DOMAIN q = DOMAIN NewTab /\ q.page = tab[t].page /\ q.event = tab[t].event
      /\ q.ref = tab[t].ref /\ q.wait = tab[t].wait
  BY Before, WithReportFields
<1>. HIDE DEF q
<1>3. /\ DOMAIN s = DOMAIN NewTab /\ s.page = tab[t].page /\ s.event = tab[t].event
      /\ s.ref = tab[t].ref /\ s.wait = tab[t].wait
  BY <1>2 DEF NewTab
<1>. HIDE DEF s
<1>4. Agree(tab[t], call[t])
  BY Before
<1>5. Agree(s, call[t])
  BY <1>1, <1>3, <1>4, SMTT(30) DEF Agree
<1>. QED BY <1>1, <1>3, <1>5, NoCallAgrees, AnswerKeeps DEF ReportRequested, Rows

LEMMA PageKeeps ==
  ASSUME PaymentsInv, NEW t \in Tabs, Page(t) \/ Paying(t) \/ Owned(t)
  PROVE  PaymentsInv'
<1>1. CASE Page(t)
  BY <1>1, OpenCreateKeeps, OpenEditKeeps, OpenEventKeeps, LeaveKeeps, GoToStepKeeps,
     SentKeeps, ActivateKeeps, PhotosKeep, WrittenKeeps, FailedKeeps, AfterLeftKeeps
     DEF Page
<1>2. CASE Paying(t)
  BY <1>2, SentKeeps, PayStartedKeeps, SubscriptionTickKeeps, SubscriptionAnswerKeeps,
     CancelWaitKeeps DEF Paying
<1>3. CASE Owned(t)
  BY <1>3, SentKeeps, LifecycleDoneKeeps, LoadReportKeeps, ReportRequestedKeeps,
     ReportTickKeeps, ReportAnswerKeeps DEF Owned
<1>. QED BY <1>1, <1>2, <1>3
----------------------------------------------------------------------------
(***************************************************************************)
(* The handlers.                                                           *)
(***************************************************************************)
\* What a handler does to its own call, when it creates no event and changes
\* no payment.
LEMMA HandlerStep ==
  ASSUME PaymentsInv, NEW t \in Tabs, UNCHANGED <<tab, intent, activated>>, NEW c,
         call' = [call EXCEPT ![t] = c], DOMAIN c = DOMAIN NoCall,
         c.ref \in {None, call[t].ref}, Agree(tab[t], c),
         event' = [d \in Drafts |-> event'[d]],
         \A d \in Drafts : DOMAIN event'[d] = DOMAIN NoEvent /\ event'[d].paid = event[d].paid
  PROVE  PaymentsInv'
<1>1. Shape
  BY Before
<1>2. Shape' /\ call'[t] = c /\ \A u \in Tabs \ {t} : call'[u] = call[u]
  BY <1>1 DEF Shape
<1>3. Agree(tab[t], call[t])'
  BY <1>2 DEF Agree
<1>. QED BY <1>2, <1>3, QuietStep

\* The same, of a handler that leaves the events alone.
LEMMA HandlerOnlyStep ==
  ASSUME PaymentsInv, NEW t \in Tabs, UNCHANGED <<tab, event, intent, activated>>, NEW c,
         call' = [call EXCEPT ![t] = c], DOMAIN c = DOMAIN NoCall,
         c.ref \in {None, call[t].ref}, Agree(tab[t], c)
  PROVE  PaymentsInv'
  BY Before, HandlerStep DEF Shape

\* An answer holds nothing any more.
LEMMA AnswerFields ==
  ASSUME PaymentsInv, NEW t \in Tabs, NEW pc \in Ended, Answer(t, pc),
         call[t].op # "pay" \/ pc = "error", call[t].pc # "idle"
  PROVE  \E c : /\ call' = [call EXCEPT ![t] = c] /\ DOMAIN c = DOMAIN NoCall
                /\ c.ref = None /\ Agree(tab[t], c)
<1>. DEFINE c == [NoCall EXCEPT !.op = call[t].op, !.pc = pc, !.event = call[t].event,
                                !.slot = call[t].slot, !.left = call[t].left]
<1>1. call' = [call EXCEPT ![t] = c]
  BY DEF Answer
<1>2. /\ DOMAIN c = DOMAIN NoCall /\ c.ref = None /\ c.op = call[t].op /\ c.pc = pc
      /\ c.event = call[t].event /\ c.left = call[t].left
  BY DEF NoCall
<1>. HIDE DEF c
<1>3. Agree(tab[t], c)
  BY <1>2, Before, ZenonT(60) DEF Agree, Ended
<1>. QED BY <1>1, <1>2, <1>3

LEMMA AnsweredKeeps ==
  ASSUME PaymentsInv, NEW t \in Tabs, NEW pc \in Ended, Answer(t, pc),
         call[t].op # "pay" \/ pc = "error", call[t].pc # "idle",
         UNCHANGED <<tab, event, intent, activated>>
  PROVE  PaymentsInv'
  BY AnswerFields, HandlerOnlyStep

\* The handler goes on.
LEMMA GoesOn ==
  ASSUME PaymentsInv, NEW t \in Tabs, NEW c, DOMAIN c = DOMAIN NoCall,
         c.op = call[t].op, c.event = call[t].event, c.ref = call[t].ref,
         c.left = call[t].left, c.op # "pay", c.pc # "idle"
  PROVE  Agree(tab[t], c)
<1>1. Agree(tab[t], call[t])
  BY Before
<1>. QED BY <1>1, SMTT(30) DEF Agree

LEMMA AssertKeeps ==
  ASSUME PaymentsInv, NEW t \in Tabs, AssertSubscription(t), UNCHANGED tab
  PROVE  PaymentsInv'
<1>1. CASE Refuse(t)
  BY <1>1, AnsweredKeeps DEF Refuse, Rows, Ended, AssertSubscription, In
<1>2. CASE ~Refuse(t)
  <2>1. PICK pc \in {"write", "head"} : Goto(t, pc) /\ UNCHANGED Rows
    BY <1>2 DEF AssertSubscription
  <2>. DEFINE c == [call[t] EXCEPT !.pc = pc]
  <2>2. call' = [call EXCEPT ![t] = c] /\ UNCHANGED <<event, intent, activated>>
    BY <2>1 DEF Goto, Rows
  <2>3. /\ DOMAIN c = DOMAIN NoCall /\ c.op = call[t].op /\ c.event = call[t].event
        /\ c.ref = call[t].ref /\ c.left = call[t].left /\ c.pc = pc
    BY Before DEF NoCall
  <2>. HIDE DEF c
  <2>4. c.op # "pay" /\ c.pc # "idle"
    BY <2>3 DEF AssertSubscription, In
  <2>. QED BY <2>2, <2>3, <2>4, GoesOn, HandlerOnlyStep
<1>. QED BY <1>1, <1>2

LEMMA HeadKeeps ==
  ASSUME PaymentsInv, NEW t \in Tabs, HeadImage(t), UNCHANGED tab
  PROVE  PaymentsInv'
<1>1. /\ UNCHANGED <<event, intent, activated>>
      /\ call[t].pc = "head" /\ call[t].op # "pay"
  BY Before DEF HeadImage, Rows, At, Agree
<1>2. CASE Answer(t, "error")
  BY <1>1, <1>2, AnsweredKeeps DEF Ended
<1>3. CASE ~Answer(t, "error")
  <2>1. PICK todo, pc :
          call' = [call EXCEPT ![t].todo = todo, ![t].pc = pc] /\ pc \in {"write", "head"}
    BY <1>1, <1>3 DEF HeadImage
  <2>. DEFINE c == [call[t] EXCEPT !.todo = todo, !.pc = pc]
  <2>2. call' = [call EXCEPT ![t] = c]
    BY <2>1
  <2>3. /\ DOMAIN c = DOMAIN NoCall /\ c.op = call[t].op /\ c.event = call[t].event
        /\ c.ref = call[t].ref /\ c.left = call[t].left /\ c.pc = pc
    BY Before DEF NoCall
  <2>. HIDE DEF c
  <2>. QED BY <1>1, <2>1, <2>2, <2>3, GoesOn, HandlerOnlyStep
<1>. QED BY <1>2, <1>3

LEMMA UpdateReadKeeps ==
  ASSUME PaymentsInv, NEW t \in Tabs, UpdateRead(t), UNCHANGED tab
  PROVE  PaymentsInv'
<1>1. PICK old, pc :
        call' = [call EXCEPT ![t].old = old, ![t].pc = pc] /\ pc \in {"write", "head"}
  BY DEF UpdateRead
<1>. DEFINE c == [call[t] EXCEPT !.old = old, !.pc = pc]
<1>2. call' = [call EXCEPT ![t] = c]
  BY <1>1
<1>3. /\ DOMAIN c = DOMAIN NoCall /\ c.op = call[t].op /\ c.event = call[t].event
      /\ c.ref = call[t].ref /\ c.left = call[t].left /\ c.pc = pc
  BY Before DEF NoCall
<1>. HIDE DEF c
<1>4. c.op # "pay" /\ UNCHANGED <<event, intent, activated>>
  BY <1>3 DEF UpdateRead, In, Rows
<1>. QED BY <1>1, <1>2, <1>3, <1>4, GoesOn, HandlerOnlyStep

\* An event keeps "paid" when its photos or its status are written.
LEMMA UpdateWriteKeeps ==
  ASSUME PaymentsInv, NEW t \in Tabs, UpdateWrite(t), UNCHANGED tab
  PROVE  PaymentsInv'
<1>. DEFINE c == [call[t] EXCEPT !.pc = "drop", !.todo = call[t].old \ call[t].keys]
<1>1. call' = [call EXCEPT ![t] = c]
  BY DEF UpdateWrite
<1>2. /\ DOMAIN c = DOMAIN NoCall /\ c.op = call[t].op /\ c.event = call[t].event
      /\ c.ref = call[t].ref /\ c.left = call[t].left /\ c.pc = "drop"
  BY Before DEF NoCall
<1>. HIDE DEF c
<1>3. c.op # "pay" /\ UNCHANGED <<intent, activated>>
  BY <1>2 DEF UpdateWrite, In
<1>4. event' = [event EXCEPT ![call[t].event].images = call[t].keys]
  BY DEF UpdateWrite
<1>5. /\ event' = [d \in Drafts |-> event'[d]]
      /\ \A d \in Drafts : DOMAIN event'[d] = DOMAIN NoEvent /\ event'[d].paid = event[d].paid
  BY <1>4, Before DEF Shape, NoEvent
<1>. QED BY <1>1, <1>2, <1>3, <1>5, GoesOn, HandlerStep

LEMMA ChangeStatusKeeps ==
  ASSUME PaymentsInv, NEW t \in Tabs, ChangeStatus(t), UNCHANGED tab
  PROVE  PaymentsInv'
<1>1. call[t].op # "pay" /\ call[t].pc # "idle"
  BY DEF ChangeStatus, Lifecycle
<1>2. CASE Refuse(t)
  BY <1>1, <1>2, AnsweredKeeps DEF Refuse, Rows, Ended
<1>3. CASE ~Refuse(t)
  <2>1. PICK status : event' = [event EXCEPT ![call[t].event].status = status]
    BY <1>3 DEF ChangeStatus
  <2>2. /\ event' = [d \in Drafts |-> event'[d]]
        /\ \A d \in Drafts : DOMAIN event'[d] = DOMAIN NoEvent /\ event'[d].paid = event[d].paid
    BY <2>1, Before DEF Shape, NoEvent
  <2>3. Answer(t, "ok") /\ UNCHANGED <<intent, activated>>
    BY <1>3 DEF ChangeStatus
  <2>. QED BY <1>1, <2>2, <2>3, AnswerFields, HandlerStep DEF Ended
<1>. QED BY <1>2, <1>3

LEMMA UpdateDropKeeps ==
  ASSUME PaymentsInv, NEW t \in Tabs, UpdateDrop(t), UNCHANGED tab
  PROVE  PaymentsInv'
<1>1. call[t].op = "update" /\ call[t].pc = "drop" /\ UNCHANGED <<event, intent, activated>>
  BY DEF UpdateDrop, In
<1>2. CASE Answer(t, "ok")
  BY <1>1, <1>2, AnsweredKeeps DEF Ended
<1>3. CASE ~Answer(t, "ok")
  <2>1. PICK todo : call' = [call EXCEPT ![t].todo = todo]
    BY <1>3 DEF UpdateDrop
  <2>. DEFINE c == [call[t] EXCEPT !.todo = todo]
  <2>2. call' = [call EXCEPT ![t] = c]
    BY <2>1
  <2>3. /\ DOMAIN c = DOMAIN NoCall /\ c.op = call[t].op /\ c.event = call[t].event
        /\ c.ref = call[t].ref /\ c.left = call[t].left /\ c.pc = call[t].pc
    BY Before DEF NoCall
  <2>. HIDE DEF c
  <2>4. c.op # "pay" /\ c.pc # "idle"
    BY <1>1, <2>3
  <2>. QED BY <1>1, <2>2, <2>3, <2>4, GoesOn, HandlerOnlyStep
<1>. QED BY <1>2, <1>3

LEMMA UploadKeeps ==
  ASSUME PaymentsInv, NEW t \in Tabs, UploadImage(t), UNCHANGED tab
  PROVE  PaymentsInv'
  BY AnsweredKeeps DEF UploadImage, In, Ended

LEMMA CallFailsKeeps ==
  ASSUME PaymentsInv, NEW t \in Tabs, CallFails(t), UNCHANGED tab
  PROVE  PaymentsInv'
  BY Before, AnsweredKeeps DEF CallFails, Refuse, Rows, Ended, Agree

LEMMA RequestReportKeeps ==
  ASSUME PaymentsInv, NEW t \in Tabs, RequestReport(t), UNCHANGED tab
  PROVE  PaymentsInv'
<1>1. PICK pc \in Ended : Goto(t, pc)
  BY DEF RequestReport, Ended
<1>. DEFINE c == [call[t] EXCEPT !.pc = pc]
<1>2. call' = [call EXCEPT ![t] = c]
  BY <1>1 DEF Goto
<1>3. /\ DOMAIN c = DOMAIN NoCall /\ c.op = call[t].op /\ c.event = call[t].event
      /\ c.ref = call[t].ref /\ c.left = call[t].left /\ c.pc = pc
  BY Before DEF NoCall
<1>. HIDE DEF c
<1>4. c.op # "pay" /\ c.pc # "idle" /\ UNCHANGED <<event, intent, activated>>
  BY <1>3 DEF RequestReport, In, Rows, Ended
<1>. QED BY <1>2, <1>3, <1>4, GoesOn, HandlerOnlyStep

\* The call takes a reference that nothing knows of.
LEMMA InitiateKeeps ==
  ASSUME PaymentsInv, NEW t \in Tabs, InitiateSubscription(t), UNCHANGED tab
  PROVE  PaymentsInv'
<1>1. PICK r \in Refs :
        /\ intent[r] = "none" /\ intent' = [intent EXCEPT ![r] = "pending"]
        /\ call' = [call EXCEPT ![t].ref = r, ![t].pc = "ok"]
  BY DEF InitiateSubscription
<1>. DEFINE c == [call[t] EXCEPT !.ref = r, !.pc = "ok"]
<1>2. call' = [call EXCEPT ![t] = c]
  BY <1>1
<1>3. DOMAIN c = DOMAIN NoCall /\ c.op = "pay" /\ c.ref = r /\ c.pc = "ok"
  BY Before DEF NoCall, InitiateSubscription, In
<1>. HIDE DEF c
<1>4. /\ Shape' /\ UNCHANGED <<event, activated>> /\ call'[t] = c
      /\ \A u \in Tabs \ {t} : call'[u] = call[u]
  BY <1>1, <1>2, <1>3, Before DEF Shape, InitiateSubscription
<1>5. activated[r] = {} /\ \A u \in Tabs : ~Holds(u, r)
  BY <1>1 DEF PaymentsInv
<1>6. \A u \in Tabs, q \in Refs : Holds(u, q)' => Holds(u, q) \/ (u = t /\ q = r)
  BY <1>3, <1>4 DEF Holds
<1>7. \A u \in Tabs : Agree(tab[u], call[u])'
  <2>. SUFFICES ASSUME NEW u \in Tabs PROVE Agree(tab[u], call[u])'
    OBVIOUS
  <2>1. Agree(tab[u], call[u]) /\ tab[u].ref # r /\ call[u].ref # r
    BY <1>5, Before DEF Holds
  <2>2. \A q \in Refs : intent[q] = "paid" => intent'[q] = "paid"
    BY <1>1, Before DEF Shape
  <2>3. CASE u = t
    BY <1>3, <1>4, <1>5, <2>1, <2>2, <2>3, SMTT(30) DEF Agree
  <2>4. CASE u # t
    BY <1>4, <2>1, <2>2, <2>4 DEF Agree
  <2>. QED BY <2>3, <2>4
<1>8. \A q \in Refs : intent'[q] = "none" => intent[q] = "none" /\ q # r
  BY <1>1, Before DEF Shape
<1>9. \A q \in Refs : intent[q] = "paid" => intent'[q] = "paid"
  BY <1>1, Before DEF Shape
<1>. QED BY <1>4, <1>5, <1>6, <1>7, <1>8, <1>9 DEF PaymentsInv

\* A payment that is pending has activated nothing that says it is paid.
LEMMA SettleKeeps ==
  ASSUME PaymentsInv, NEW r \in Refs, SettleSubscription(r), UNCHANGED tab
  PROVE  PaymentsInv'
<1>1. PICK outcome \in {"paid", "failed"} : intent' = [intent EXCEPT ![r] = outcome]
  BY DEF SettleSubscription
<1>2. /\ Shape' /\ UNCHANGED <<event, activated, call>> /\ intent[r] = "pending"
  BY <1>1 DEF PaymentsInv, Shape, SettleSubscription
<1>3. \A q \in Refs : /\ intent'[q] = "none" => intent[q] = "none"
                      /\ intent[q] = "paid" => intent'[q] = "paid"
  BY <1>1, <1>2, Before DEF PaymentsInv, Shape
<1>4. \A u \in Tabs : Agree(tab[u], call[u])'
  <2>. SUFFICES ASSUME NEW u \in Tabs PROVE Agree(tab[u], call[u])'
    OBVIOUS
  <2>1. Agree(tab[u], call[u])
    BY Before
  <2>. QED BY <1>2, <1>3, <2>1 DEF Agree
<1>5. \A u \in Tabs, q \in Refs : Holds(u, q)' <=> Holds(u, q)
  BY <1>2 DEF Holds
<1>. QED BY <1>2, <1>3, <1>4, <1>5 DEF PaymentsInv

\* The event is the only one of its payment: nothing else holds the reference,
\* and what the payment activated before can only be this very event.
LEMMA InsertKeeps ==
  ASSUME PaymentsInv, NEW t \in Tabs, InsertEvent(t), UNCHANGED tab
  PROVE  PaymentsInv'
<1>. DEFINE d == call[t].event
            p == call[t].ref
            duplicate == event[d].exists \/ SlugTaken(call[t].attempt)
<1>1. /\ call[t].op = "create" /\ call[t].pc = "write" /\ UNCHANGED intent
      /\ Agree(tab[t], call[t]) /\ Shape
  BY Before DEF InsertEvent, In
<1>2. CASE duplicate /\ call' = [call EXCEPT ![t].attempt = @ + 1]
  <2>. DEFINE c == [call[t] EXCEPT !.attempt = @ + 1]
  <2>1. call' = [call EXCEPT ![t] = c] /\ UNCHANGED <<event, activated>>
    BY <1>2 DEF InsertEvent
  <2>2. /\ DOMAIN c = DOMAIN NoCall /\ c.op = call[t].op /\ c.event = call[t].event
        /\ c.ref = call[t].ref /\ c.left = call[t].left /\ c.pc = call[t].pc
    BY Before DEF NoCall
  <2>. HIDE DEF c
  <2>3. c.op # "pay" /\ c.pc # "idle"
    BY <1>1, <2>2
  <2>. QED BY <1>1, <2>1, <2>2, <2>3, GoesOn, HandlerOnlyStep
<1>3. CASE duplicate /\ ~(call' = [call EXCEPT ![t].attempt = @ + 1])
  BY <1>1, <1>3, AnsweredKeeps DEF InsertEvent, Ended
<1>4. CASE ~duplicate
  <2>1. /\ Answer(t, "ok")
        /\ event' = [event EXCEPT ![d] =
             [NoEvent EXCEPT !.exists = TRUE, !.slug = call[t].attempt,
                             !.paid = p # None, !.images = call[t].keys]]
        /\ activated' = IF p = None THEN activated ELSE [activated EXCEPT ![p] = @ \cup {d}]
    BY <1>4 DEF InsertEvent
  <2>2. PICK c : /\ call' = [call EXCEPT ![t] = c] /\ DOMAIN c = DOMAIN NoCall
                 /\ c.ref = None /\ Agree(tab[t], c)
    BY <1>1, <2>1, AnswerFields DEF Ended
  <2>3. d \in Drafts /\ p \in Refs \cup {None} /\ None \notin Refs
    BY <1>1 DEF Agree
  <2>4. \A e \in Drafts : /\ DOMAIN event'[e] = DOMAIN NoEvent
                          /\ e # d => event'[e] = event[e]
                          /\ event'[d].paid = (p # None)
    BY <1>1, <2>1, <2>3 DEF Shape, NoEvent
  <2>5. /\ \A r \in Refs \ {p} : activated'[r] = activated[r]
        /\ p # None => activated'[p] = activated[p] \cup {d}
    BY <1>1, <2>1, <2>3 DEF Shape
  <2>6. Shape' /\ call'[t] = c /\ \A u \in Tabs \ {t} : call'[u] = call[u]
    BY <1>1, <2>1, <2>2, <2>3, <2>4 DEF Shape
  <2>7. p # None => activated'[p] = {d} /\ intent[p] = "paid"
    BY <1>1, <2>3, <2>5 DEF Agree
  <2>. HIDE DEF d, p, duplicate
  <2>8. \A u \in Tabs, r \in Refs : Holds(u, r)' => Holds(u, r)
    BY <2>2, <2>3, <2>6 DEF Holds
  <2>9. \A u \in Tabs : Agree(tab[u], call[u])'
    <3>. SUFFICES ASSUME NEW u \in Tabs PROVE Agree(tab[u], call[u])'
      OBVIOUS
    <3>1. CASE u # t
      <4>1. Agree(tab[u], call[u]) /\ call'[u] = call[u]
        BY <2>6, <3>1, Before
      <4>2. p # None => tab[u].ref # p /\ tab[u].wait # p /\ call[u].ref # p
        BY <2>3, <3>1 DEF PaymentsInv, Holds, p
      <4>. QED BY <1>1, <2>5, <4>1, <4>2, SMTT(30) DEF Agree
    <3>2. CASE u = t
      <4>1. tab[t].ref = p \/ tab[t].wait = p => p = None \/ tab[t].event = d
        BY <1>1 DEF Agree, d
      <4>. QED BY <1>1, <2>2, <2>3, <2>5, <2>6, <2>7, <3>2, <4>1, SMTT(30) DEF Agree
    <3>. QED BY <3>1, <3>2
  <2>10. \A r \in Refs : intent[r] = "none" => r # p
    BY <2>7, <2>3
  <2>11. \A e \in Drafts : event'[e].paid = TRUE =>
           \E r \in Refs : e \in activated'[r] /\ intent[r] = "paid"
    <3>. SUFFICES ASSUME NEW e \in Drafts, event'[e].paid = TRUE
                  PROVE  \E r \in Refs : e \in activated'[r] /\ intent[r] = "paid"
      OBVIOUS
    <3>1. CASE e = d
      BY <2>3, <2>4, <2>7, <3>1
    <3>2. CASE e # d
      <4>1. PICK r \in Refs : e \in activated[r] /\ intent[r] = "paid"
        BY <2>4, <3>2 DEF PaymentsInv
      <4>. QED BY <2>3, <2>5, <4>1
    <3>. QED BY <3>1, <3>2
  <2>12. \A r \in Refs : \A e, f \in activated'[r] : e = f
    BY <2>3, <2>5, <2>7 DEF PaymentsInv
  <2>. QED BY <1>1, <2>5, <2>6, <2>8, <2>9, <2>10, <2>11, <2>12 DEF PaymentsInv
<1>. QED BY <1>2, <1>3, <1>4
----------------------------------------------------------------------------
LEMMA StepKeeps == PaymentsInv /\ [Next]_vars => PaymentsInv'
<1>. SUFFICES ASSUME PaymentsInv, [Next]_vars PROVE PaymentsInv'
  OBVIOUS
<1>1. ASSUME NEW t \in Tabs, Page(t) \/ Paying(t) \/ Owned(t) PROVE PaymentsInv'
  BY <1>1, PageKeeps
<1>2. ASSUME NEW t \in Tabs, RecordStep(t), UNCHANGED tab PROVE PaymentsInv'
  BY <1>2, AssertKeeps, HeadKeeps, InsertKeeps, UpdateReadKeeps, UpdateWriteKeeps,
     UpdateDropKeeps, UploadKeeps, InitiateKeeps, ChangeStatusKeeps, CallFailsKeeps
     DEF RecordStep
<1>3. ASSUME UNCHANGED <<tab, call, event, intent, activated>> PROVE PaymentsInv'
  <2>1. /\ UNCHANGED <<tab, call, event, intent, activated>>
        /\ PaymentsInv
    BY <1>3
  <2>. QED BY <2>1 DEF PaymentsInv, Shape, Agree, Holds
<1>4. CASE UNCHANGED vars
  BY <1>3, <1>4 DEF vars, recordVars
<1>5. CASE NextStep
  <2>1. ASSUME NEW key \in removal, RemoveImage(key), UNCHANGED tab PROVE PaymentsInv'
    BY <1>3, <2>1 DEF RemoveImage
  <2>2. ASSUME NEW i \in DOMAIN report, GenerateReport(i), UNCHANGED tab PROVE PaymentsInv'
    BY <1>3, <2>2 DEF GenerateReport, recordVars
  <2>. QED BY <1>1, <1>2, <1>5, <2>1, <2>2, RequestReportKeeps, SettleKeeps DEF NextStep
<1>. QED BY <1>4, <1>5 DEF Next

THEOREM PaymentsAlways == Spec => []PaymentsInv
BY PaymentsInit, StepKeeps, PTL DEF Spec

\* However often a form is submitted, and whatever answers are lost, "Payment
\* received" is shown and an event is marked as paid for only when the provider
\* took the money (CreateEventForm.tsx, events.service.ts addEvent).
THEOREM ActivatedAlwaysPaid == Spec => []ActivatedWasPaid
<1>1. PaymentsInv => ActivatedWasPaid
  <2>. SUFFICES ASSUME PaymentsInv PROVE ActivatedWasPaid
    OBVIOUS
  <2>1. \A t \in Tabs : tab[t].ref # None => intent[tab[t].ref] = "paid"
    BY Before DEF Agree
  <2>2. \A d \in Drafts : event[d].paid => event[d].paid = TRUE
    OBVIOUS
  <2>. QED BY <2>1, <2>2 DEF ActivatedWasPaid, PaymentsInv
<1>. QED BY <1>1, PaymentsAlways, PTL

\* A payment activates one event at most, for any number of tabs, submissions
\* and lost answers.
THEOREM PaymentActivatesOnce == Spec => []OneEventPerPayment
<1>1. PaymentsInv => OneEventPerPayment
  <2>. SUFFICES ASSUME PaymentsInv, NEW r \in Refs PROVE Cardinality(activated[r]) <= 1
    BY DEF OneEventPerPayment
  <2>1. \A d, e \in activated[r] : d = e
    BY DEF PaymentsInv
  <2>2. CASE activated[r] = {}
    BY <2>2, FS_EmptySet
  <2>3. ASSUME NEW d \in activated[r] PROVE Cardinality(activated[r]) <= 1
    <3>1. activated[r] = {d}
      BY <2>1, <2>3
    <3>. QED BY <3>1, FS_Singleton
  <2>. QED BY <2>2, <2>3
<1>. QED BY <1>1, PaymentsAlways, PTL
----------------------------------------------------------------------------
(***************************************************************************)
(* The photos and the report.                                              *)
(*                                                                         *)
(* A form lists photos of different slots, and while an upload runs the    *)
(* form goes on not to list its slot: photos are only taken away then.     *)
(* A panel says "ready" only of an event with a report that was finished; *)
(* a finished report has its PDF and is never written again, and of the    *)
(* finished ones the latest is downloaded.                                 *)
(***************************************************************************)
\* A set of numbers that is not empty has a smallest one.
LEMMA SmallestNumber ==
  ASSUME NEW S, S \subseteq Nat, S # {}
  PROVE  \E s \in S : \A other \in S : s <= other
<1>1. PICK s \in S : \A other \in S : <<other, s>> \notin OpToRel(<, Nat)
  BY NatLessThanWellFounded, WFMin
<1>2. ASSUME NEW other \in S, other < s
      PROVE  FALSE
  <2>1. <<other, s>> \in Nat \X Nat
    OBVIOUS
  <2>2. <<other, s>> \in OpToRel(<, Nat)
    BY <1>2, <2>1 DEF OpToRel
  <2>. QED BY <1>1, <2>2
<1>3. \A other \in S : s <= other
  BY <1>2
<1>. QED BY <1>3

\* A set of the numbers up to n that is not empty has a largest one.
LEMMA LargestNumber ==
  ASSUME NEW n \in Nat, NEW S, S \subseteq 0 .. n, S # {}
  PROVE  \E i \in S : \A j \in S : j <= i
<1>. DEFINE T == {n - i : i \in S}
<1>1. \A i \in S : n - i \in T /\ n - i \in Nat
  OBVIOUS
<1>2. T \subseteq Nat /\ T # {}
  BY <1>1
<1>3. \A x \in T : \E i \in S : x = n - i
  OBVIOUS
<1>. HIDE DEF T
<1>4. PICK x \in T : \A y \in T : x <= y
  BY <1>2, SmallestNumber
<1>5. PICK i \in S : x = n - i
  BY <1>3
<1>6. \A j \in S : n - i <= n - j
  BY <1>1, <1>4, <1>5
<1>. QED BY <1>6
----------------------------------------------------------------------------
(* Lists of photos.                                                        *)

OneEach(photos) == \A i, j \in DOMAIN photos : photos[i] = photos[j] => i = j
Listing(photos) == photos \in Seq(Slots) /\ OneEach(photos)

LEMMA SlotsAreNumbers == Slots \subseteq Nat /\ Slots \subseteq Int /\ Slots \subseteq 0 .. MaxImages
BY DEF Slots

LEMMA SlotsFinite ==
  /\ IsFiniteSet(Slots) /\ Cardinality(Slots) = MaxImages
  /\ \A S : S \subseteq Slots => IsFiniteSet(S) /\ Cardinality(S) \in Nat
<1>1. IsFiniteSet(Slots) /\ Cardinality(Slots) = MaxImages
  BY FS_Interval DEF Slots
<1>. QED BY <1>1, FS_Subset, FS_CardinalityType

LEMMA ListedSlots ==
  ASSUME NEW photos, Listing(photos)
  PROVE  PhotoSlots(photos) \subseteq Slots
BY DEF Listing, PhotoSlots

\* A list without repetitions is as long as the set of what it lists is large.
LEMMA ListedOnce ==
  ASSUME NEW photos, Listing(photos)
  PROVE  Cardinality(PhotoSlots(photos)) = Len(photos)
<1>. DEFINE n == Len(photos)
            P == PhotoSlots(photos)
<1>1. n \in Nat /\ DOMAIN photos = 1 .. n /\ photos \in [1 .. n -> Slots]
  BY DEF Listing
<1>2. P = {photos[i] : i \in 1 .. n}
  BY <1>1 DEF PhotoSlots
<1>3. IsFiniteSet(1 .. n) /\ Cardinality(1 .. n) = n
  BY <1>1, FS_Interval
<1>4. photos \in Bijection(1 .. n, P)
  BY <1>1, <1>2 DEF Listing, OneEach, Bijection, Injection, Surjection, IsInjective
<1>5. ExistsBijection(1 .. n, P)
  BY <1>4 DEF ExistsBijection
<1>. HIDE DEF n, P
<1>6. Cardinality(P) = n
  BY <1>3, <1>5, FS_Bijection
<1>. QED BY <1>6 DEF n, P

\* While there is room for a photo there is a slot for it.
LEMMA SlotIsFree ==
  ASSUME NEW photos, Listing(photos), Len(photos) < MaxImages
  PROVE  NextFreeSlot(photos) \in Slots \ PhotoSlots(photos)
<1>1. PhotoSlots(photos) \subseteq Slots /\ PhotoSlots(photos) # Slots
  <2>1. PhotoSlots(photos) \subseteq Slots
    BY DEF PhotoSlots, Listing
  <2>2. Cardinality(PhotoSlots(photos)) # Cardinality(Slots)
    BY ListedOnce, SlotsFinite DEF Listing
  <2>. QED BY <2>1, <2>2
<1>. DEFINE free == Slots \ PhotoSlots(photos)
<1>2. free # {} /\ free \subseteq Nat
  BY <1>1, SlotsAreNumbers
<1>3. \E s \in free : \A other \in free : s <= other
  BY <1>2, SmallestNumber
<1>4. NextFreeSlot(photos) = CHOOSE s \in free : \A other \in free : s <= other
  BY <1>1 DEF NextFreeSlot
<1>. QED BY <1>3, <1>4

LEMMA PhotoAdded ==
  ASSUME NEW photos, Listing(photos), NEW slot \in Slots \ PhotoSlots(photos)
  PROVE  Listing(Append(photos, slot))
  BY DEF Listing, OneEach, PhotoSlots

LEMMA PhotoRemoved ==
  ASSUME NEW photos, Listing(photos), NEW i \in DOMAIN photos
  PROVE  /\ Listing(RemoveAt(photos, i))
         /\ PhotoSlots(RemoveAt(photos, i)) \subseteq PhotoSlots(photos)
<1>. DEFINE r == RemoveAt(photos, i)
            n == Len(photos)
<1>1. n \in Nat /\ photos \in [1 .. n -> Slots] /\ photos \in Seq(Slots) /\ i \in 1 .. n
  BY DEF Listing
<1>. DEFINE a == SubSeq(photos, 1, i - 1)
            b == SubSeq(photos, i + 1, n)
<1>2. r = a \o b
  BY DEF RemoveAt
<1>3. a \in Seq(Slots) /\ Len(a) = i - 1 /\ \A j \in 1 .. i - 1 : a[j] = photos[j]
  BY <1>1, SubSeqProperties
<1>4. b \in Seq(Slots) /\ Len(b) = n - i /\ \A j \in 1 .. n - i : b[j] = photos[i + j]
  <2>1. \A j \in i + 1 .. n : photos[j] \in Slots
    BY <1>1
  <2>2. i + 1 \in Int /\ n \in Int
    BY <1>1
  <2>. HIDE DEF n
  <2>3. /\ b \in Seq(Slots)
        /\ Len(b) = IF i + 1 <= n THEN n - (i + 1) + 1 ELSE 0
        /\ \A j \in 1 .. n - (i + 1) + 1 : b[j] = photos[i + 1 + j - 1]
    BY <2>1, <2>2, SubSeqProperties
  <2>4. /\ n - (i + 1) + 1 = n - i
        /\ \A j \in 1 .. n - i : i + 1 + j - 1 = i + j
        /\ Len(b) = n - i
    BY <1>1, <2>3
  <2>. HIDE DEF b
  <2>. QED BY <2>3, <2>4
<1>. HIDE DEF r, a, b, n
<1>5. /\ r \in Seq(Slots) /\ Len(r) = n - 1
      /\ \A j \in 1 .. n - 1 : r[j] = IF j <= i - 1 THEN a[j] ELSE b[j - (i - 1)]
  BY <1>1, <1>2, <1>3, <1>4, ConcatProperties
<1>6. \A j \in 1 .. n - 1 : r[j] = IF j < i THEN photos[j] ELSE photos[j + 1]
  <2>. SUFFICES ASSUME NEW j \in 1 .. n - 1
                PROVE  r[j] = IF j < i THEN photos[j] ELSE photos[j + 1]
    OBVIOUS
  <2>1. CASE j < i
    BY <1>1, <1>3, <1>5, <2>1
  <2>2. CASE ~(j < i)
    <3>. DEFINE k == j - (i - 1)
    <3>1. k \in 1 .. n - i /\ i + k = j + 1 /\ ~(j <= i - 1)
      BY <1>1, <2>2
    <3>2. r[j] = b[k]
      BY <1>5, <3>1
    <3>. HIDE DEF k
    <3>3. b[k] = photos[i + k]
      BY <1>4, <3>1
    <3>. QED BY <2>2, <3>1, <3>2, <3>3
  <2>. QED BY <2>1, <2>2
<1>7. DOMAIN r = 1 .. n - 1
  BY <1>1, <1>5
<1>8. OneEach(r)
  BY <1>1, <1>6, <1>7 DEF Listing, OneEach, n
<1>9. PhotoSlots(r) \subseteq PhotoSlots(photos)
  BY <1>1, <1>6, <1>7 DEF PhotoSlots, n
<1>. QED BY <1>5, <1>8, <1>9 DEF Listing, r
----------------------------------------------------------------------------
\* Sets of slots can be sorted.
LEMMA SlotsSort ==
  ASSUME NEW S, S \subseteq Slots
  PROVE  \E f \in [1 .. Cardinality(S) -> S] : \A i, j \in DOMAIN f : i < j => f[i] < f[j]
<1>. DEFINE R == {z \in S \X S : z[1] < z[2]}
<1>1. IsFiniteSet(S) /\ S \subseteq Int
  BY SlotsFinite, SlotsAreNumbers
<1>2. \A x, y \in S : <<x, y>> \in R <=> x < y
  OBVIOUS
<1>. HIDE DEF R
<1>3. StrictlyOrdered(R, S)
  BY <1>1, <1>2 DEF StrictlyOrdered
<1>4. PICK f \in [1 .. Cardinality(S) -> S] : InOrder(R, f)
  BY <1>1, <1>3, SortExists DEF Sortable
<1>5. \A i, j \in DOMAIN f : i < j => f[i] < f[j]
  BY <1>2, <1>4 DEF InOrder
<1>. QED BY <1>5

\* The edit form lists the photos of the row, each once.
LEMMA RowListed ==
  ASSUME NEW images, images \subseteq Slots
  PROVE  Listing(BySlot(images))
<1>. DEFINE n == Cardinality(images)
            f == BySlot(images)
<1>1. f \in [1 .. n -> images] /\ \A i, j \in DOMAIN f : i < j => f[i] < f[j]
  BY SlotsSort DEF BySlot, Ascending
<1>2. n \in Nat /\ images \subseteq Int
  BY SlotsFinite, SlotsAreNumbers
<1>. HIDE DEF f, n
<1>3. f \in Seq(Slots)
  <2>1. f \in [1 .. n -> Slots]
    BY <1>1
  <2>. QED BY <1>2, <2>1
<1>4. OneEach(f)
  <2>. SUFFICES ASSUME NEW i \in 1 .. n, NEW j \in 1 .. n, f[i] = f[j] PROVE i = j
    BY <1>1 DEF OneEach
  <2>1. f[i] \in Int /\ f[j] \in Int /\ DOMAIN f = 1 .. n
    BY <1>1, <1>2
  <2>. QED BY <1>1, <1>2, <2>1
<1>. QED BY <1>3, <1>4 DEF Listing, f
----------------------------------------------------------------------------
ReportRow == [event : Drafts, status : {"pending", "ready", "failed"}, pdf : BOOLEAN,
              job : {"assemble", "put", "ready", "fail", "none"}]

\* A report of the event has been finished.
Finished(d) == \E i \in DOMAIN report : report[i].event = d /\ report[i].status = "ready"

\* What a tab that shows s, and its call c, say of photos and of reports.
Fits(s, c) ==
  /\ s.page # "closed" => s.event \in Drafts
  /\ s.report = "ready" => Finished(s.event)
  /\ Listing(s.photos)
  /\ c.op \in {"create", "update", "report"} => c.event \in Drafts
  /\ c.keys \subseteq Slots
  /\ c.op = "upload" => c.left = TRUE \/ c.slot \in Slots \ PhotoSlots(s.photos)

PagesInv ==
  /\ report \in Seq(ReportRow)
  /\ \A i \in DOMAIN report :
       /\ report[i].status = "ready" => report[i].pdf = TRUE /\ report[i].job = "none"
       /\ report[i].job = "ready" => report[i].pdf = TRUE
  /\ \A d \in Drafts : event[d].images \subseteq Slots
  /\ \A t \in Tabs : Fits(tab[t], call[t])

LEMMA EmptyFits ==
  /\ NewTab.page = "closed" /\ NewTab.report = "none" /\ Listing(NewTab.photos)
  /\ NoCall.op = "none" /\ NoCall.keys = {}
<1>1. NewTab.photos = << >>
  BY DEF NewTab
<1>2. Listing(<< >>)
  BY DEF Listing, OneEach
<1>. QED BY <1>1, <1>2 DEF NewTab, NoCall

LEMMA PagesInit == Init => PagesInv
<1>. SUFFICES ASSUME Init PROVE PagesInv
  OBVIOUS
<1>1. report = << >> /\ \A d \in Drafts : event[d].images = {}
  BY DEF Init, ReportsInit, RecordsInit, NoEvent
<1>2. \A t \in Tabs : tab[t] = NewTab /\ call[t] = NoCall
  BY DEF Init, RecordsInit
<1>3. \A t \in Tabs : Fits(tab[t], call[t])
  BY <1>2, EmptyFits DEF Fits
<1>. QED BY <1>1, <1>3 DEF PagesInv

\* A step of one tab, or of its call, beside the events and the reports.
LEMMA FitStep ==
  ASSUME PagesInv, Shape, NEW t \in Tabs, NEW s, NEW c,
         tab' = [tab EXCEPT ![t] = s] \/ (tab' = tab /\ s = tab[t]),
         call' = [call EXCEPT ![t] = c] \/ (call' = call /\ c = call[t]),
         UNCHANGED <<event, report>>, Fits(s, c)
  PROVE  PagesInv'
<1>1. tab'[t] = s /\ call'[t] = c /\ \A u \in Tabs \ {t} : tab'[u] = tab[u] /\ call'[u] = call[u]
  BY DEF Shape
<1>2. \A u \in Tabs : Fits(tab[u], call[u])'
  <2>. SUFFICES ASSUME NEW u \in Tabs PROVE Fits(tab[u], call[u])'
    OBVIOUS
  <2>1. CASE u = t
    BY <1>1, <2>1 DEF Fits, Finished
  <2>2. CASE u # t
    <3>1. Fits(tab[u], call[u])
      BY DEF PagesInv
    <3>. QED BY <1>1, <2>2, <3>1 DEF Fits, Finished
  <2>. QED BY <2>1, <2>2
<1>. QED BY <1>2 DEF PagesInv

\* What is known of a tab and its call before the step.
LEMMA Fit ==
  ASSUME PagesInv, NEW t \in Tabs
  PROVE  Fits(tab[t], call[t])
BY DEF PagesInv

\* The page shows the same event, photos and report as before.
LEMMA SameShown ==
  ASSUME PagesInv, Shape, NEW t \in Tabs, NEW s, OnTab(t, s),
         s.page = tab[t].page, s.event = tab[t].event, s.photos = tab[t].photos,
         s.report = tab[t].report
  PROVE  PagesInv'
<1>1. Fits(s, call[t])
  BY Fit DEF Fits
<1>. QED BY <1>1, FitStep DEF OnTab, Others, recordVars, reportVars

\* A call is sent.
LEMMA FitSent ==
  ASSUME PagesInv, Shape, NEW t \in Tabs, NEW c, Send(t, c), Fits(tab[t], c)
  PROVE  PagesInv'
BY FitStep DEF Send, Rows, reportVars

\* An answer is taken.
LEMMA FitAnswer ==
  ASSUME PagesInv, Shape, NEW t \in Tabs, NEW s, tab' = [tab EXCEPT ![t] = s],
         call' = [call EXCEPT ![t] = NoCall], UNCHANGED <<event, report>>,
         s.page # "closed" => s.event \in Drafts,
         s.report = "ready" => Finished(s.event), Listing(s.photos)
  PROVE  PagesInv'
<1>1. Fits(s, NoCall)
  BY EmptyFits DEF Fits
<1>. QED BY <1>1, FitStep
----------------------------------------------------------------------------
LEMMA OpeningFits ==
  ASSUME PagesInv, Shape, NEW t \in Tabs, Agree(tab[t], call[t]),
         OpenCreate(t) \/ OpenEdit(t) \/ OpenEvent(t)
  PROVE  PagesInv'
<1>1. PICK s : /\ OnTab(t, s) /\ s.event \in Drafts /\ s.report = "none" /\ Listing(s.photos)
               /\ At(t, "idle")
  <2>1. CASE OpenCreate(t)
    <3>1. PICK d \in Drafts : OnTab(t, [NewTab EXCEPT !.page = "create", !.event = d])
      <4>1. EditedDraft \in Drafts
        BY DEF EditedDraft
      <4>. QED BY <2>1, <4>1 DEF OpenCreate, Fresh
    <3>. DEFINE s == [NewTab EXCEPT !.page = "create", !.event = d]
    <3>2. s.event = d /\ s.report = "none" /\ s.photos = NewTab.photos
      BY DEF NewTab
    <3>. HIDE DEF s
    <3>. QED BY <2>1, <3>1, <3>2, EmptyFits DEF OpenCreate, s
  <2>2. CASE OpenEdit(t)
    <3>1. PICK d \in Drafts :
            OnTab(t, [NewTab EXCEPT !.page = "edit", !.event = d, !.photos = BySlot(event[d].images)])
      BY <2>2, Zenon DEF OpenEdit
    <3>. DEFINE s == [NewTab EXCEPT !.page = "edit", !.event = d, !.photos = BySlot(event[d].images)]
    <3>2. s.event = d /\ s.report = "none" /\ s.photos = BySlot(event[d].images)
      BY DEF NewTab
    <3>3. Listing(BySlot(event[d].images))
      BY RowListed DEF PagesInv
    <3>4. At(t, "idle") /\ OnTab(t, s)
      BY <2>2, <3>1, Zenon DEF OpenEdit
    <3>. HIDE DEF s
    <3>. QED BY <3>2, <3>3, <3>4
  <2>3. CASE OpenEvent(t)
    <3>1. PICK d \in Drafts : OnTab(t, ShowEvent(d))
      BY <2>3 DEF OpenEvent
    <3>2. /\ ShowEvent(d).event = d /\ ShowEvent(d).report = "none"
          /\ ShowEvent(d).photos = NewTab.photos
      BY DEF ShowEvent, NewTab
    <3>. QED BY <2>3, <3>1, <3>2, EmptyFits DEF OpenEvent
  <2>. QED BY <2>1, <2>2, <2>3
<1>2. call[t].op = "none"
  BY <1>1 DEF Agree, At
<1>3. Fits(s, call[t])
  BY <1>1, <1>2, Fit DEF Fits
<1>. QED BY <1>1, <1>3, FitStep DEF OnTab, Others, recordVars, reportVars

LEMMA LeavingFits ==
  ASSUME PagesInv, Shape, NEW t \in Tabs, Agree(tab[t], call[t]), Leave(t) \/ AfterLeft(t)
  PROVE  PagesInv'
<1>1. CASE Leave(t)
  <2>. DEFINE c == [call[t] EXCEPT !.left = ~At(t, "idle")]
  <2>1. /\ tab' = [tab EXCEPT ![t] = NewTab] /\ call' = [call EXCEPT ![t] = c]
        /\ UNCHANGED <<event, report>>
    BY <1>1 DEF Leave, Rows, reportVars
  <2>2. /\ c.op = call[t].op /\ c.event = call[t].event /\ c.keys = call[t].keys
        /\ call[t].pc # "idle" => c.left = TRUE
    BY DEF Shape, NoCall, At
  <2>. HIDE DEF c
  <2>3. Fits(NewTab, c)
    BY <2>2, Fit, EmptyFits DEF Fits, Agree
  <2>. QED BY <2>1, <2>3, FitStep
<1>2. CASE AfterLeft(t)
  <2>1. Fits(tab[t], NoCall)
    BY Fit, EmptyFits DEF Fits
  <2>. QED BY <1>2, <2>1, FitStep DEF AfterLeft, Rows, reportVars
<1>. QED BY <1>1, <1>2
----------------------------------------------------------------------------
\* The wait for a payment shows no photo and no report.
LEMMA WaitingFits ==
  ASSUME PagesInv, Shape, NEW t \in Tabs,
         \/ GoToStep(t) \/ SubscriptionTick(t) \/ SubscriptionAnswer(t) \/ CancelWait(t)
         \/ ReportTick(t)
  PROVE  PagesInv'
<1>1. PICK s : /\ OnTab(t, s) /\ s.page = tab[t].page /\ s.event = tab[t].event
               /\ s.photos = tab[t].photos /\ s.report = tab[t].report
  <2>. DEFINE ended == EndWait(tab[t])
  <2>1. /\ ended.page = tab[t].page /\ ended.event = tab[t].event
        /\ ended.photos = tab[t].photos /\ ended.report = tab[t].report
    BY DEF EndWait, Shape, NewTab
  <2>2. CASE GoToStep(t)
    <3>. DEFINE s == [tab[t] EXCEPT !.step = IF @ = "form" THEN "pay" ELSE "form"]
    <3>1. OnTab(t, s)
      BY <2>2 DEF GoToStep
    <3>2. /\ s.page = tab[t].page /\ s.event = tab[t].event
          /\ s.photos = tab[t].photos /\ s.report = tab[t].report
      BY DEF Shape, NewTab
    <3>. HIDE DEF s
    <3>. QED BY <3>1, <3>2
  <2>3. CASE SubscriptionTick(t)
    <3>. DEFINE s == [tab[t] EXCEPT !.polls = @ + 1, !.asked = TRUE]
    <3>1. OnTab(t, s) \/ OnTab(t, ended)
      BY <2>3 DEF SubscriptionTick
    <3>2. /\ s.page = tab[t].page /\ s.event = tab[t].event
          /\ s.photos = tab[t].photos /\ s.report = tab[t].report
      BY DEF Shape, NewTab
    <3>. HIDE DEF s, ended
    <3>. QED BY <2>1, <3>1, <3>2
  <2>4. CASE SubscriptionAnswer(t)
    <3>. DEFINE s == [tab[t] EXCEPT !.asked = FALSE]
                p == [ended EXCEPT !.ref = tab[t].wait]
    <3>1. OnTab(t, s) \/ OnTab(t, ended) \/ OnTab(t, p)
      BY <2>4 DEF SubscriptionAnswer
    <3>2. /\ s.page = tab[t].page /\ s.event = tab[t].event
          /\ s.photos = tab[t].photos /\ s.report = tab[t].report
      BY DEF Shape, NewTab
    <3>3. /\ p.page = tab[t].page /\ p.event = tab[t].event
          /\ p.photos = tab[t].photos /\ p.report = tab[t].report
      BY DEF EndWait, Shape, NewTab
    <3>. HIDE DEF s, p, ended
    <3>. QED BY <2>1, <3>1, <3>2, <3>3
  <2>5. CASE CancelWait(t)
    <3>1. OnTab(t, ended)
      BY <2>5 DEF CancelWait
    <3>. HIDE DEF ended
    <3>. QED BY <2>1, <3>1
  <2>6. CASE ReportTick(t)
    <3>. DEFINE s == [tab[t] EXCEPT !.polls = IF @ < MaxPolls THEN @ + 1 ELSE @, !.asked = TRUE]
    <3>1. OnTab(t, s)
      BY <2>6 DEF ReportTick
    <3>2. /\ s.page = tab[t].page /\ s.event = tab[t].event
          /\ s.photos = tab[t].photos /\ s.report = tab[t].report
      BY DEF Shape, NewTab
    <3>. HIDE DEF s
    <3>. QED BY <3>1, <3>2
  <2>. QED BY <2>2, <2>3, <2>4, <2>5, <2>6
<1>. QED BY <1>1, SameShown

\* A photo is sent for a slot that the form does not list, or the form's
\* payload, which lists its photos.
LEMMA FormSendsFit ==
  ASSUME PagesInv, Shape, NEW t \in Tabs, Agree(tab[t], call[t]),
         AddPhoto(t) \/ Activate(t) \/ Save(t)
  PROVE  PagesInv'
<1>0. Fits(tab[t], call[t]) /\ PhotoSlots(tab[t].photos) \subseteq Slots
  BY Fit, ListedSlots DEF Fits
<1>1. PICK c : Send(t, c) /\ Fits(tab[t], c)
  <2>1. CASE AddPhoto(t)
    <3>. DEFINE c == [NoCall EXCEPT !.op = "upload", !.pc = "put", !.event = tab[t].event,
                                    !.slot = NextFreeSlot(tab[t].photos)]
    <3>1. Send(t, c) /\ Len(tab[t].photos) < MaxImages
      BY <2>1 DEF AddPhoto
    <3>2. c.op = "upload" /\ c.keys = {} /\ c.slot = NextFreeSlot(tab[t].photos)
      BY DEF NoCall
    <3>. HIDE DEF c
    <3>3. c.slot \in Slots \ PhotoSlots(tab[t].photos)
      BY <1>0, <3>1, <3>2, SlotIsFree DEF Fits
    <3>. QED BY <1>0, <3>1, <3>2, <3>3 DEF Fits
  <2>2. CASE Activate(t)
    <3>. DEFINE c == [Payload(t) EXCEPT !.op = "create", !.pc = "assert"]
    <3>1. Send(t, c) /\ tab[t].page = "create"
      BY <2>2 DEF Activate, Shows
    <3>2. c.op = "create" /\ c.keys = PhotoSlots(tab[t].photos) /\ c.event = tab[t].event
      BY DEF Payload, NoCall
    <3>. HIDE DEF c
    <3>. QED BY <1>0, <3>1, <3>2 DEF Fits
  <2>3. CASE Save(t)
    <3>. DEFINE c == [Payload(t) EXCEPT !.op = "update", !.pc = "read"]
    <3>1. Send(t, c) /\ tab[t].page = "edit"
      BY <2>3 DEF Save, Shows
    <3>2. c.op = "update" /\ c.keys = PhotoSlots(tab[t].photos) /\ c.event = tab[t].event
      BY DEF Payload, NoCall
    <3>. HIDE DEF c
    <3>. QED BY <1>0, <3>1, <3>2 DEF Fits
  <2>. QED BY <2>1, <2>2, <2>3
<1>. QED BY <1>1, FitSent

LEMMA ButtonsFit ==
  ASSUME PagesInv, Shape, NEW t \in Tabs,
         StartSubMomoPay(t) \/ LifecycleButton(t) \/ ReportButton(t)
  PROVE  PagesInv'
<1>1. PICK c : /\ Send(t, c) /\ c.keys = {} /\ c.op \notin {"create", "update", "upload"}
               /\ c.op = "report" => tab[t].page = "event" /\ c.event = tab[t].event
  <2>1. CASE StartSubMomoPay(t)
    <3>. DEFINE c == [NoCall EXCEPT !.op = "pay", !.pc = "request"]
    <3>1. Send(t, c)
      BY <2>1 DEF StartSubMomoPay
    <3>2. c.op = "pay" /\ c.keys = {}
      BY DEF NoCall
    <3>. HIDE DEF c
    <3>. QED BY <3>1, <3>2
  <2>2. CASE LifecycleButton(t)
    <3>1. PICK op \in Lifecycle :
            Send(t, [NoCall EXCEPT !.op = op, !.pc = "change", !.event = tab[t].event])
      BY <2>2 DEF LifecycleButton
    <3>. DEFINE c == [NoCall EXCEPT !.op = op, !.pc = "change", !.event = tab[t].event]
    <3>2. c.op \in {"pause", "resume", "stop"} /\ c.keys = {} /\ Send(t, c)
      BY <3>1 DEF NoCall, Lifecycle
    <3>. HIDE DEF c
    <3>. QED BY <3>2
  <2>3. CASE ReportButton(t)
    <3>. DEFINE c == [NoCall EXCEPT !.op = "report", !.pc = "request", !.event = tab[t].event]
    <3>1. Send(t, c) /\ tab[t].page = "event"
      BY <2>3 DEF ReportButton, OffersReport, Panel
    <3>2. c.op = "report" /\ c.keys = {} /\ c.event = tab[t].event
      BY DEF NoCall
    <3>. HIDE DEF c
    <3>. QED BY <3>1, <3>2
  <2>. QED BY <2>1, <2>2, <2>3
<1>2. Fits(tab[t], c)
  BY <1>1, Fit DEF Fits
<1>. QED BY <1>1, <1>2, FitSent
----------------------------------------------------------------------------
\* An answer that leaves photos and the report as they are.
LEMMA SameAnswer ==
  ASSUME PagesInv, Shape, NEW t \in Tabs,
         PayStarted(t) \/ LifecycleDone(t) \/ Failed(t)
  PROVE  PagesInv'
<1>1. PICK s : /\ tab' = [tab EXCEPT ![t] = s] /\ s.page = tab[t].page
               /\ s.event = tab[t].event /\ s.photos = tab[t].photos
               /\ s.report = tab[t].report
  <2>1. \/ \E wait : tab' = [tab EXCEPT ![t] = [tab[t] EXCEPT !.wait = wait, !.polls = 0]]
        \/ \E status : tab' = [tab EXCEPT ![t] = [tab[t] EXCEPT !.status = status]]
        \/ tab' = [tab EXCEPT ![t] = [tab[t] EXCEPT !.stuck = TRUE]]
        \/ tab' = [tab EXCEPT ![t] = tab[t]]
    <3>1. CASE PayStarted(t)
      BY <3>1 DEF PayStarted
    <3>2. CASE LifecycleDone(t)
      BY <3>2 DEF LifecycleDone
    <3>3. CASE Failed(t)
      BY <3>3 DEF Failed, Shape
    <3>. QED BY <3>1, <3>2, <3>3
  <2>2. \A s : \/ \E wait : s = [tab[t] EXCEPT !.wait = wait, !.polls = 0]
               \/ \E status : s = [tab[t] EXCEPT !.status = status]
               \/ s = [tab[t] EXCEPT !.stuck = TRUE]
               \/ s = tab[t]
               => /\ s.page = tab[t].page /\ s.event = tab[t].event
                  /\ s.photos = tab[t].photos /\ s.report = tab[t].report
    BY DEF Shape, NewTab
  <2>. QED BY <2>1, <2>2
<1>2. /\ call' = [call EXCEPT ![t] = NoCall] /\ UNCHANGED <<event, report>>
  BY DEF PayStarted, LifecycleDone, Failed, Rows, reportVars
<1>. QED BY <1>1, <1>2, Fit, FitAnswer DEF Fits

LEMMA PhotosFit ==
  ASSUME PagesInv, Shape, NEW t \in Tabs, Uploaded(t) \/ RemovePhoto(t)
  PROVE  PagesInv'
<1>0. Fits(tab[t], call[t])
  BY Fit
<1>1. CASE Uploaded(t)
  <2>. DEFINE photos == IF Len(tab[t].photos) < MaxImages
                        THEN Append(tab[t].photos, call[t].slot) ELSE tab[t].photos
              s == [tab[t] EXCEPT !.photos = photos]
  <2>1. /\ tab' = [tab EXCEPT ![t] = s] /\ call' = [call EXCEPT ![t] = NoCall]
        /\ UNCHANGED <<event, report>>
        /\ call[t].op = "upload" /\ call[t].left # TRUE
    BY <1>1 DEF Uploaded, In, Rows, reportVars
  <2>2. Listing(photos)
    BY <1>0, <2>1, PhotoAdded DEF Fits
  <2>. HIDE DEF photos
  <2>3. /\ s.page = tab[t].page /\ s.event = tab[t].event /\ s.report = tab[t].report
        /\ s.photos = photos
    BY DEF Shape, NewTab
  <2>. HIDE DEF s
  <2>. QED BY <1>0, <2>1, <2>2, <2>3, FitAnswer DEF Fits
<1>2. CASE RemovePhoto(t)
  <2>1. PICK i \in DOMAIN tab[t].photos :
          tab' = [tab EXCEPT ![t].photos = RemoveAt(tab[t].photos, i)]
    BY <1>2 DEF RemovePhoto
  <2>. DEFINE photos == RemoveAt(tab[t].photos, i)
              s == [tab[t] EXCEPT !.photos = photos]
  <2>2. Listing(photos) /\ PhotoSlots(photos) \subseteq PhotoSlots(tab[t].photos)
    BY <1>0, PhotoRemoved DEF Fits
  <2>3. tab' = [tab EXCEPT ![t] = s]
    BY <2>1
  <2>. HIDE DEF photos
  <2>4. /\ s.page = tab[t].page /\ s.event = tab[t].event /\ s.report = tab[t].report
        /\ s.photos = photos
    BY DEF Shape, NewTab
  <2>. HIDE DEF s
  <2>5. Fits(s, call[t])
    BY <1>0, <2>2, <2>4 DEF Fits
  <2>. QED BY <1>2, <2>3, <2>5, FitStep DEF RemovePhoto, Rows, reportVars
<1>. QED BY <1>1, <1>2

LEMMA WrittenFits ==
  ASSUME PagesInv, Shape, NEW t \in Tabs, Written(t)
  PROVE  PagesInv'
<1>. DEFINE e == ShowEvent(call[t].event)
<1>1. /\ tab' = [tab EXCEPT ![t] = e] \/ tab' = [tab EXCEPT ![t] = NewTab]
      /\ call' = [call EXCEPT ![t] = NoCall] /\ UNCHANGED <<event, report>>
      /\ call[t].op \in {"create", "update"}
  BY DEF Written, Rows, reportVars
<1>2. e.event = call[t].event /\ e.report = "none" /\ e.photos = NewTab.photos
  BY DEF ShowEvent, NewTab
<1>. HIDE DEF e
<1>3. CASE tab' = [tab EXCEPT ![t] = e]
  BY <1>1, <1>2, <1>3, Fit, EmptyFits, FitAnswer DEF Fits
<1>4. CASE tab' = [tab EXCEPT ![t] = NewTab]
  BY <1>1, <1>4, EmptyFits, FitAnswer
<1>. QED BY <1>1, <1>3, <1>4
----------------------------------------------------------------------------
LEMMA LatestFinished ==
  ASSUME PagesInv, NEW d, LatestStatus(d) = "ready"
  PROVE  Finished(d)
<1>. DEFINE mine == {i \in DOMAIN report : report[i].event = d}
<1>1. mine \subseteq 0 .. Len(report) /\ Len(report) \in Nat
  BY DEF PagesInv
<1>2. mine # {}
  <2>. SUFFICES ASSUME mine = {} PROVE FALSE
    OBVIOUS
  <2>1. Latest(d, report) = None
    BY DEF Latest
  <2>. QED BY <2>1 DEF LatestStatus
<1>3. \E i \in mine : \A j \in mine : j <= i
  <2>. HIDE DEF mine
  <2>. QED BY <1>1, <1>2, LargestNumber
<1>4. Latest(d, report) \in mine
  BY <1>2, <1>3 DEF Latest
<1>5. report[Latest(d, report)].status = "ready"
  BY DEF LatestStatus
<1>. QED BY <1>4, <1>5 DEF Finished

\* A report that was finished can be downloaded, or a later one.
LEMMA FinishedDownloads ==
  ASSUME PagesInv, NEW d, Finished(d)
  PROVE  CanDownload(d)
<1>. DEFINE ready == {i \in DOMAIN report : report[i].event = d /\ report[i].status = "ready"}
<1>1. ready \subseteq 0 .. Len(report) /\ Len(report) \in Nat /\ ready # {}
  BY DEF PagesInv, Finished
<1>2. PICK i \in ready : \A j \in ready : j <= i
  <2>. HIDE DEF ready
  <2>. QED BY <1>1, LargestNumber
<1>3. report[i].pdf = TRUE
  BY DEF PagesInv
<1>4. \A j \in i + 1 .. Len(report) : ~(report[j].event = d /\ report[j].status = "ready")
  BY <1>1, <1>2 DEF PagesInv
<1>. QED BY <1>3, <1>4 DEF CanDownload

LEMMA ReportShownFits ==
  ASSUME PagesInv, Shape, NEW t \in Tabs,
         LoadReport(t) \/ ReportRequested(t) \/ ReportAnswer(t)
  PROVE  PagesInv'
<1>0. Fits(tab[t], call[t]) /\ DOMAIN tab[t] = DOMAIN NewTab
  BY Fit DEF Shape
<1>1. \A status : LET q == WithReport(tab[t], status)
                  IN  /\ DOMAIN q = DOMAIN NewTab
                      /\ q.page = tab[t].page /\ q.event = tab[t].event
                      /\ q.photos = tab[t].photos /\ q.report = status
  BY <1>0 DEF WithReport, NewTab
<1>. DEFINE q == WithReport(tab[t], LatestStatus(tab[t].event))
            Same(s) == s.page = tab[t].page /\ s.event = tab[t].event /\ s.photos = tab[t].photos
<1>2. q.report = "ready" => Finished(tab[t].event)
  BY <1>1, LatestFinished
<1>3. ASSUME NEW s, OnTab(t, s), Same(s), s.report \in {tab[t].report, q.report} PROVE PagesInv'
  <2>1. Fits(s, call[t])
    BY <1>0, <1>2, <1>3 DEF Fits
  <2>. QED BY <1>3, <2>1, FitStep DEF OnTab, Others, recordVars, reportVars
<1>4. CASE LoadReport(t)
  <2>. DEFINE s == [tab[t] EXCEPT !.loaded = TRUE]
  <2>1. OnTab(t, q) \/ OnTab(t, s)
    BY <1>4 DEF LoadReport
  <2>2. Same(s) /\ s.report = tab[t].report
    BY <1>0 DEF NewTab
  <2>3. Same(q)
    BY <1>1
  <2>. HIDE DEF s, q, Same
  <2>. QED BY <1>3, <2>1, <2>2, <2>3
<1>5. CASE ReportAnswer(t)
  <2>. DEFINE a == [q EXCEPT !.asked = FALSE]
              b == [a EXCEPT !.polling = FALSE, !.tooLong = TRUE]
              f == [tab[t] EXCEPT !.asked = FALSE, !.polling = FALSE]
  <2>1. OnTab(t, a) \/ OnTab(t, b) \/ OnTab(t, f)
    BY <1>5 DEF ReportAnswer
  <2>2. Same(f) /\ f.report = tab[t].report
    BY <1>0 DEF NewTab
  <2>3. DOMAIN q = DOMAIN NewTab /\ Same(q)
    BY <1>1
  <2>4. Same(a) /\ a.report = q.report /\ Same(b) /\ b.report = q.report
    <3>. HIDE DEF q
    <3>. QED BY <2>3 DEF NewTab
  <2>. HIDE DEF a, b, f, q, Same
  <2>. QED BY <1>3, <2>1, <2>2, <2>4
<1>6. CASE ReportRequested(t)
  <2>. DEFINE p == WithReport(tab[t], "pending")
              s == [p EXCEPT !.tooLong = FALSE]
  <2>1. /\ tab' = [tab EXCEPT ![t] = s] /\ call' = [call EXCEPT ![t] = NoCall]
        /\ UNCHANGED <<event, report>>
    BY <1>6 DEF ReportRequested, Rows, reportVars
  <2>2. DOMAIN p = DOMAIN NewTab /\ Same(p) /\ p.report = "pending"
    BY <1>1
  <2>. HIDE DEF p
  <2>3. Same(s) /\ s.report = "pending"
    BY <2>2 DEF NewTab
  <2>. HIDE DEF s
  <2>. QED BY <1>0, <2>1, <2>3, FitAnswer DEF Fits
<1>. QED BY <1>4, <1>5, <1>6

LEMMA PageFits ==
  ASSUME PagesInv, PaymentsInv, NEW t \in Tabs, Page(t) \/ Paying(t) \/ Owned(t)
  PROVE  PagesInv'
<1>1. Shape /\ Agree(tab[t], call[t])
  BY Before
<1>2. CASE Page(t)
  BY <1>1, <1>2, OpeningFits, LeavingFits, WaitingFits, FormSendsFit, PhotosFit, WrittenFits,
     SameAnswer DEF Page
<1>3. CASE Paying(t)
  BY <1>1, <1>3, ButtonsFit, SameAnswer, WaitingFits DEF Paying
<1>4. CASE Owned(t)
  BY <1>1, <1>4, ButtonsFit, SameAnswer, WaitingFits, ReportShownFits DEF Owned
<1>. QED BY <1>2, <1>3, <1>4
----------------------------------------------------------------------------
(* The handlers.                                                           *)

\* A call stays about what it was, though its handler moves on or answers.
Kept(t) ==
  /\ call'[t].op = call[t].op /\ call'[t].event = call[t].event
  /\ call'[t].slot = call[t].slot /\ call'[t].left = call[t].left
  /\ call'[t].keys \in {{}, call[t].keys}
Continues(t) == Kept(t) /\ \A u \in Tabs \ {t} : call'[u] = call[u]

\* It may write the photos it was sent with.
LEMMA HandlerFits ==
  ASSUME PagesInv, NEW t \in Tabs, UNCHANGED <<tab, report>>, Continues(t),
         \A d \in Drafts : event'[d].images \in {event[d].images, call[t].keys}
  PROVE  PagesInv'
<1>1. Fits(tab[t], call[t])
  BY Fit
<1>2. \A u \in Tabs : Fits(tab[u], call[u])'
  <2>. SUFFICES ASSUME NEW u \in Tabs PROVE Fits(tab[u], call[u])'
    OBVIOUS
  <2>1. CASE u = t
    BY <1>1, <2>1 DEF Fits, Finished, Continues, Kept
  <2>2. CASE u # t
    <3>1. Fits(tab[u], call[u])
      BY Fit
    <3>. QED BY <2>2, <3>1 DEF Fits, Finished, Continues, Kept
  <2>. QED BY <2>1, <2>2
<1>3. \A d \in Drafts : event'[d].images \subseteq Slots
  BY <1>1 DEF PagesInv, Fits
<1>. QED BY <1>2, <1>3 DEF PagesInv

LEMMA AnswerContinues ==
  ASSUME Shape, NEW t \in Tabs, NEW pc, Answer(t, pc)
  PROVE  Continues(t)
BY DEF Shape, Answer, NoCall, Continues, Kept

LEMMA GotoContinues ==
  ASSUME Shape, NEW t \in Tabs, NEW pc, Goto(t, pc)
  PROVE  Continues(t)
BY DEF Shape, Goto, NoCall, Continues, Kept

LEMMA RecordFits ==
  ASSUME PagesInv, PaymentsInv, NEW t \in Tabs, RecordStep(t), UNCHANGED <<tab, report>>
  PROVE  PagesInv'
<1>0. Shape /\ DOMAIN call[t] = DOMAIN NoCall
  BY Before
<1>1. Continues(t)
  <2>1. CASE \E pc : Answer(t, pc) \/ Goto(t, pc)
    BY <1>0, <2>1, AnswerContinues, GotoContinues
  <2>2. CASE ~ \E pc : Answer(t, pc) \/ Goto(t, pc)
    <3>1. \/ HeadImage(t) \/ InsertEvent(t) \/ UpdateRead(t) \/ UpdateWrite(t) \/ UpdateDrop(t)
          \/ InitiateSubscription(t)
      BY <2>2 DEF RecordStep, AssertSubscription, UploadImage, ChangeStatus, CallFails, Refuse
    <3>2. CASE HeadImage(t)
      <4>1. \E todo, pc : call' = [call EXCEPT ![t].todo = todo, ![t].pc = pc]
        BY <2>2, <3>2 DEF HeadImage
      <4>. QED BY <1>0, <4>1 DEF Shape, NoCall, Continues, Kept
    <3>3. CASE InsertEvent(t)
      <4>1. call' = [call EXCEPT ![t].attempt = @ + 1]
        BY <2>2, <3>3 DEF InsertEvent
      <4>. QED BY <1>0, <4>1 DEF Shape, NoCall, Continues, Kept
    <3>4. CASE UpdateRead(t)
      <4>1. \E old, pc : call' = [call EXCEPT ![t].old = old, ![t].pc = pc]
        BY <3>4 DEF UpdateRead
      <4>. QED BY <1>0, <4>1 DEF Shape, NoCall, Continues, Kept
    <3>5. CASE UpdateWrite(t)
      <4>1. \E todo : call' = [call EXCEPT ![t].pc = "drop", ![t].todo = todo]
        BY <3>5 DEF UpdateWrite
      <4>. QED BY <1>0, <4>1 DEF Shape, NoCall, Continues, Kept
    <3>6. CASE UpdateDrop(t)
      <4>1. \E todo : call' = [call EXCEPT ![t].todo = todo]
        BY <2>2, <3>6 DEF UpdateDrop
      <4>. QED BY <1>0, <4>1 DEF Shape, NoCall, Continues, Kept
    <3>7. CASE InitiateSubscription(t)
      <4>1. \E r : call' = [call EXCEPT ![t].ref = r, ![t].pc = "ok"]
        BY <3>7 DEF InitiateSubscription
      <4>. QED BY <1>0, <4>1 DEF Shape, NoCall, Continues, Kept
    <3>. QED BY <3>1, <3>2, <3>3, <3>4, <3>5, <3>6, <3>7
  <2>. QED BY <2>1, <2>2
<1>2. \A d \in Drafts : event'[d].images \in {event[d].images, call[t].keys}
  <2>1. CASE UNCHANGED event
    BY <2>1
  <2>2. CASE InsertEvent(t) /\ event' # event
    <3>1. event' = [event EXCEPT ![call[t].event] =
             [NoEvent EXCEPT !.exists = TRUE, !.slug = call[t].attempt,
                             !.paid = call[t].ref # None, !.images = call[t].keys]]
      BY <2>2 DEF InsertEvent
    <3>2. [NoEvent EXCEPT !.exists = TRUE, !.slug = call[t].attempt,
             !.paid = call[t].ref # None, !.images = call[t].keys].images = call[t].keys
      BY DEF NoEvent
    <3>. QED BY <1>0, <3>1, <3>2 DEF Shape
  <2>3. CASE UpdateWrite(t)
    BY <1>0, <2>3 DEF UpdateWrite, Shape, NoEvent
  <2>4. CASE ChangeStatus(t) /\ event' # event
    <3>1. \E status : event' = [event EXCEPT ![call[t].event].status = status]
      BY <2>4 DEF ChangeStatus, Refuse, Rows
    <3>. QED BY <1>0, <3>1 DEF Shape, NoEvent
  <2>. QED BY <2>1, <2>2, <2>3, <2>4 DEF RecordStep, AssertSubscription, HeadImage, UpdateRead,
          UpdateDrop, UploadImage, InitiateSubscription, CallFails, Refuse, Rows
<1>. QED BY <1>1, <1>2, HandlerFits

\* The rows of the reports.
LEMMA ReportsChange ==
  ASSUME PagesInv, UNCHANGED <<tab, event>>, report' \in Seq(ReportRow),
         \A t \in Tabs : Kept(t),
         \A i \in DOMAIN report' :
           /\ report'[i].status = "ready" => report'[i].pdf = TRUE /\ report'[i].job = "none"
           /\ report'[i].job = "ready" => report'[i].pdf = TRUE,
         \A i \in DOMAIN report : /\ i \in DOMAIN report' /\ report'[i].event = report[i].event
                                  /\ report[i].status = "ready" => report'[i].status = "ready"
  PROVE  PagesInv'
<1>1. \A d : Finished(d) => Finished(d)'
  BY DEF Finished
<1>2. \A u \in Tabs : Fits(tab[u], call[u])'
  <2>. SUFFICES ASSUME NEW u \in Tabs PROVE Fits(tab[u], call[u])'
    OBVIOUS
  <2>1. Fits(tab[u], call[u]) /\ Kept(u)
    BY Fit
  <2>. QED BY <1>1, <2>1 DEF Fits, Kept
<1>. QED BY <1>2 DEF PagesInv

LEMMA RequestFits ==
  ASSUME PagesInv, PaymentsInv, NEW t \in Tabs, RequestReport(t), UNCHANGED tab
  PROVE  PagesInv'
<1>0. Shape /\ call[t].op = "report" /\ call[t].event \in Drafts
  BY Before, Fit DEF RequestReport, In, Fits
<1>1. (\A u \in Tabs : Kept(u)) /\ UNCHANGED event
  BY <1>0, GotoContinues DEF RequestReport, Rows, Continues, Kept
<1>2. CASE report' = report
  BY <1>1, <1>2, ReportsChange DEF PagesInv
<1>3. CASE report' = Append(report, [event |-> call[t].event, status |-> "pending",
                                     pdf |-> FALSE, job |-> "assemble"])
  <2>. DEFINE x == [event |-> call[t].event, status |-> "pending", pdf |-> FALSE,
                    job |-> "assemble"]
  <2>1. x \in ReportRow /\ x.status = "pending" /\ x.job = "assemble"
    BY <1>0 DEF ReportRow
  <2>. HIDE DEF x
  <2>2. report' = Append(report, x) /\ report \in Seq(ReportRow)
    BY <1>3 DEF x, PagesInv
  <2>3. /\ report' \in Seq(ReportRow) /\ DOMAIN report' = DOMAIN report \cup {Len(report) + 1}
        /\ \A i \in DOMAIN report : report'[i] = report[i]
        /\ report'[Len(report) + 1] = x
    BY <2>1, <2>2
  <2>. QED BY <1>1, <2>1, <2>3, ReportsChange DEF PagesInv
<1>. QED BY <1>2, <1>3 DEF RequestReport

LEMMA GenerateFits ==
  ASSUME PagesInv, NEW i \in DOMAIN report, GenerateReport(i), UNCHANGED tab
  PROVE  PagesInv'
<1>1. /\ report \in Seq(ReportRow) /\ report[i] \in ReportRow
      /\ report[i].status = "ready" => report[i].pdf = TRUE /\ report[i].job = "none"
      /\ report[i].job = "ready" => report[i].pdf = TRUE
  BY DEF PagesInv
<1>. DEFINE Follows(x) ==
              /\ x \in ReportRow /\ report' = [report EXCEPT ![i] = x]
              /\ x.event = report[i].event
              /\ x.status = "ready" => x.pdf = TRUE /\ x.job = "none"
              /\ x.job = "ready" => x.pdf = TRUE
              /\ report[i].status = "ready" => x.status = "ready"
<1>2. \E x : Follows(x)
  <2>1. \A job : Move(i, job) => report' = [report EXCEPT ![i] = [report[i] EXCEPT !.job = job]]
    BY <1>1 DEF Move
  <2>2. ASSUME NEW job \in {"put", "fail", "none"}, Move(i, job),
               report[i].status = "ready" => job = "none"
        PROVE  \E x : Follows(x)
    <3>. DEFINE x == [report[i] EXCEPT !.job = job]
    <3>1. /\ x \in ReportRow /\ x.event = report[i].event /\ x.status = report[i].status
          /\ x.pdf = report[i].pdf /\ x.job = job
      BY <1>1, <2>2 DEF ReportRow
    <3>2. report' = [report EXCEPT ![i] = x]
      BY <2>1, <2>2
    <3>. HIDE DEF x
    <3>3. Follows(x)
      BY <1>1, <2>2, <3>1, <3>2
    <3>. QED BY <3>3
  <2>3. ASSUME NEW status \in {"ready", "failed"}, report[i].job # "none",
               status = "ready" => report[i].pdf = TRUE,
               report' = [report EXCEPT ![i].status = status, ![i].job = "none"]
        PROVE  \E x : Follows(x)
    <3>. DEFINE x == [report[i] EXCEPT !.status = status, !.job = "none"]
    <3>1. /\ x \in ReportRow /\ x.event = report[i].event /\ x.status = status
          /\ x.pdf = report[i].pdf /\ x.job = "none"
      BY <1>1, <2>3 DEF ReportRow
    <3>2. report' = [report EXCEPT ![i] = x]
      BY <1>1, <2>3
    <3>. HIDE DEF x
    <3>3. Follows(x)
      BY <1>1, <2>3, <3>1, <3>2
    <3>. QED BY <3>3
  <2>4. CASE report[i].job = "put" /\ report' = [report EXCEPT ![i].pdf = TRUE, ![i].job = "ready"]
    <3>. DEFINE x == [report[i] EXCEPT !.pdf = TRUE, !.job = "ready"]
    <3>1. /\ x \in ReportRow /\ x.event = report[i].event /\ x.status = report[i].status
          /\ x.pdf = TRUE /\ x.job = "ready"
      BY <1>1 DEF ReportRow
    <3>2. report' = [report EXCEPT ![i] = x]
      BY <1>1, <2>4
    <3>. HIDE DEF x
    <3>3. Follows(x)
      BY <1>1, <2>4, <3>1, <3>2
    <3>. QED BY <3>3
  <2>. HIDE DEF Follows
  <2>5. CASE AssembleReport(i)
    BY <1>1, <2>2, <2>5 DEF AssembleReport
  <2>6. CASE StorePdf(i)
    BY <1>1, <2>2, <2>4, <2>6 DEF StorePdf
  <2>7. CASE MarkReady(i)
    BY <1>1, <2>2, <2>3, <2>7 DEF MarkReady
  <2>8. CASE MarkFailed(i)
    BY <1>1, <2>2, <2>3, <2>8 DEF MarkFailed
  <2>9. CASE GenerationDies(i)
    BY <1>1, <2>2, <2>9 DEF GenerationDies
  <2>. QED BY <2>5, <2>6, <2>7, <2>8, <2>9 DEF GenerateReport
<1>3. PICK x : Follows(x)
  BY <1>2
<1>4. /\ report' \in Seq(ReportRow) /\ DOMAIN report' = DOMAIN report /\ report'[i] = x
      /\ \A j \in DOMAIN report : j # i => report'[j] = report[j]
  BY <1>1, <1>3
<1>5. UNCHANGED event /\ \A t \in Tabs : Kept(t)
  BY DEF GenerateReport, recordVars, Kept
<1>. QED BY <1>3, <1>4, <1>5, ReportsChange DEF PagesInv
----------------------------------------------------------------------------
LEMMA StepFits == PaymentsInv /\ PagesInv /\ [Next]_vars => PagesInv'
<1>. SUFFICES ASSUME PaymentsInv, PagesInv, [Next]_vars PROVE PagesInv'
  OBVIOUS
<1>1. ASSUME UNCHANGED <<tab, call, event, report>> PROVE PagesInv'
  <2>1. UNCHANGED <<tab, call, event, report>> /\ PagesInv
    BY <1>1
  <2>. QED BY <2>1 DEF PagesInv, Fits, Finished
<1>2. CASE UNCHANGED vars
  BY <1>1, <1>2 DEF vars, recordVars, reportVars
<1>3. CASE NextStep
  <2>1. ASSUME NEW t \in Tabs, RecordStep(t), UNCHANGED <<reportVars, tab>> PROVE PagesInv'
    BY <2>1, RecordFits DEF reportVars
  <2>2. ASSUME NEW key \in removal, RemoveImage(key), UNCHANGED <<reportVars, tab>>
        PROVE  PagesInv'
    BY <1>1, <2>2 DEF RemoveImage, reportVars
  <2>3. ASSUME NEW r \in Refs, SettleSubscription(r), UNCHANGED <<reportVars, tab>>
        PROVE  PagesInv'
    BY <1>1, <2>3 DEF SettleSubscription, reportVars
  <2>. QED BY <1>3, <2>1, <2>2, <2>3, PageFits, RequestFits, GenerateFits DEF NextStep
<1>. QED BY <1>2, <1>3 DEF Next

THEOREM PagesAlways == Spec => []PagesInv
BY PagesInit, StepFits, PaymentsAlways, PTL DEF Spec

\* A form of the create or edit page never lists two photos of one slot,
\* in whatever order photos are added and removed while an upload runs
\* (CreateEventForm.tsx and EditEventForm.tsx, nextFreeSlot).
THEOREM PhotosHaveTheirSlots == Spec => []OnePhotoPerSlot
<1>1. PagesInv => OnePhotoPerSlot
  BY ListedOnce DEF PagesInv, Fits, OnePhotoPerSlot
<1>. QED BY <1>1, PagesAlways, PTL

\* A panel that offers "Download PDF" offers one that is stored, whatever
\* reports other tabs have made since and wherever their generation died
\* (event-progress-report.service.ts).
THEOREM OfferedReportsDownload == Spec => []ReadyCanBeDownloaded
<1>1. PagesInv => ReadyCanBeDownloaded
  BY Fit, FinishedDownloads DEF Fits, ReadyCanBeDownloaded
<1>. QED BY <1>1, PagesAlways, PTL
=============================================================================
