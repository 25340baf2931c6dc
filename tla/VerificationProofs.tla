-------------------------- MODULE VerificationProofs --------------------------
(***************************************************************************)
(* Theorems about the verification of an account, for any number of tabs,  *)
(* phones, capture sessions, submissions and e-mail links.                 *)
(***************************************************************************)
EXTENDS VerifyAccountPages, TLAPS

USE PayoutAssumption, VerificationAssumption
----------------------------------------------------------------------------
(***************************************************************************)
(* The wizard.  The screens it has for a step depend on how the photos are *)
(* taken; what keeps them together is where each button can lead, and what *)
(* a tab waits for is what the request it has sent is about.               *)
(***************************************************************************)
CapturePcs == {"capture", "closeOthers", "insertSession"}
WritePcs == {"resolve", "store", "write"}
SubmitPcs == WritePcs \cup {"submit", "consume"}

\* A tab that shows s.
Fits(t, s) ==
  /\ DOMAIN s = DOMAIN NewTab("none")
  /\ s.photos \in [Slots -> {None, t}]
  /\ s.session \in Sessions \cup {None}
  /\ s.step \in 1 .. 6
  /\ s.step = 1 => s.mode = "none"
  /\ s.step = 2 => s.mode = "none" /\ t \in Desktops
  /\ s.step \in 3 .. 5 => s.mode = "device" \/ (s.mode = "phone" /\ s.step = 3)
  /\ s.step # 1 => s.details # None
  /\ s.mode # "phone" => s.panelState = "none"
  /\ s.panelState = "asking" => s.step = 3
  /\ s.panelState = "shown" => s.panel \in Sessions
  /\ s.loading = FALSE \/ (s.loading = TRUE /\ s.step = 6)

\* A tab that shows s and the request q.
Waits(s, q) ==
  \/ q.pc \in CapturePcs /\ s.panelState = "asking"
  \/ q.pc \in SubmitPcs /\ s.loading = TRUE
  \/ q.pc = "done" /\ s.loading = TRUE
  \/ /\ q.pc = "done" /\ s.panelState = "asking"
     /\ q.outcome = "ok" => q.session \in Sessions

PagesInv ==
  /\ tab = [t \in Tabs |-> tab[t]] /\ req = [r \in Requests |-> req[r]]
  /\ \A t \in Tabs : Fits(t, tab[t])
  /\ \A r \in Requests :
       /\ DOMAIN req[r] = DOMAIN NoRequest
       /\ req[r].tab \in Tabs \cup {None}
       /\ req[r].tab # None => Waits(tab[req[r].tab], req[r])
       /\ \A p \in Requests : req[r].tab # None /\ req[p].tab = req[r].tab => p = r

LEMMA PagesInit == Init => PagesInv
<1>. SUFFICES ASSUME Init PROVE PagesInv
  OBVIOUS
<1>1. \A t \in Tabs : Fits(t, tab[t])
  BY DEF Init, Fits, NewTab, NoPhotos
<1>2. \A r \in Requests : DOMAIN req[r] = DOMAIN NoRequest /\ req[r].tab = None
  BY DEF Init, ServerInit, NoRequest
<1>3. tab = [t \in Tabs |-> tab[t]] /\ req = [r \in Requests |-> req[r]]
  BY DEF Init, ServerInit
<1>. QED BY <1>1, <1>2, <1>3 DEF PagesInv

\* A step of a tab that sends nothing and is waiting for nothing.
LEMMA FreeTabStep ==
  ASSUME PagesInv, NEW t \in Tabs, NEW s, tab' = [tab EXCEPT ![t] = s], req' = req,
         Fits(t, s),
         s.loading = tab[t].loading,
         s.panelState = tab[t].panelState \/ tab[t].panelState = "shown"
  PROVE  PagesInv'
<1>1. tab' = [u \in Tabs |-> tab'[u]] /\ tab'[t] = s /\ \A u \in Tabs \ {t} : tab'[u] = tab[u]
  BY DEF PagesInv
<1>2. \A u \in Tabs : Fits(u, tab[u])'
  BY <1>1 DEF PagesInv, Fits
<1>3. \A r \in Requests : req[r].tab = t => Waits(s, req[r])
  BY DEF PagesInv, Waits
<1>. QED BY <1>1, <1>2, <1>3 DEF PagesInv, Waits

\* A free tab sends a request.
LEMMA SendStep ==
  ASSUME PagesInv, NEW t \in Tabs, NEW s, NEW pc, Send(t, pc),
         tab' = [tab EXCEPT ![t] = s], Fits(t, s),
         tab[t].loading = FALSE, tab[t].panelState # "asking",
         \/ pc = "capture" /\ s.panelState = "asking"
         \/ pc = "submit" /\ s.loading = TRUE
  PROVE  PagesInv'
<1>0. PICK r \in Requests :
        req' = [req EXCEPT ![r] = [NoRequest EXCEPT
                  !.pc = pc, !.tab = t, !.details = tab[t].details,
                  !.session = IF pc = "submit" THEN tab[t].session ELSE None,
                  !.photos = tab[t].photos]]
  BY DEF Send
<1>1. PICK q : req' = [req EXCEPT ![r] = q] /\ DOMAIN q = DOMAIN NoRequest /\ q.pc = pc /\ q.tab = t
  <2>1. PICK q : q = [NoRequest EXCEPT
                        !.pc = pc, !.tab = t, !.details = tab[t].details,
                        !.session = IF pc = "submit" THEN tab[t].session ELSE None,
                        !.photos = tab[t].photos]
    OBVIOUS
  <2>2. DOMAIN q = DOMAIN NoRequest /\ q.pc = pc /\ q.tab = t
    BY <2>1 DEF NoRequest
  <2>. QED BY <1>0, <2>1, <2>2
<1>2. /\ tab' = [u \in Tabs |-> tab'[u]] /\ tab'[t] = s
      /\ \A u \in Tabs \ {t} : tab'[u] = tab[u]
      /\ req' = [p \in Requests |-> req'[p]] /\ req'[r] = q
      /\ \A p \in Requests \ {r} : req'[p] = req[p]
  BY <1>1 DEF PagesInv
<1>3. \A u \in Tabs : Fits(u, tab[u])'
  BY <1>2 DEF PagesInv, Fits
<1>4. \A p \in Requests : req[p].tab # t
  BY DEF PagesInv, Waits
<1>5. Waits(s, q)
  BY <1>1 DEF Waits, CapturePcs, SubmitPcs
<1>. QED BY <1>1, <1>2, <1>3, <1>4, <1>5 DEF PagesInv, Waits

\* The answer to a request is taken by the tab that waits for it.
LEMMA AnsweredStep ==
  ASSUME PagesInv, NEW t \in Tabs, NEW r \in Requests, NEW s,
         tab' = [tab EXCEPT ![t] = s], req' = [req EXCEPT ![r] = NoRequest],
         req[r].tab = t, Fits(t, s)
  PROVE  PagesInv'
<1>1. /\ req' = [p \in Requests |-> req'[p]] /\ req'[r] = NoRequest
      /\ \A p \in Requests \ {r} : req'[p] = req[p]
  BY DEF PagesInv
<1>2. DOMAIN NoRequest = DOMAIN req'[r] /\ req'[r].tab = None
  BY <1>1 DEF NoRequest
<1>3. /\ tab' = [u \in Tabs |-> tab'[u]] /\ tab'[t] = s
      /\ \A u \in Tabs \ {t} : tab'[u] = tab[u]
  BY DEF PagesInv
<1>4. \A u \in Tabs : Fits(u, tab[u])'
  BY <1>3 DEF PagesInv, Fits
<1>5. \A p \in Requests \ {r} : req[p].tab # t
  BY DEF PagesInv
<1>. QED BY <1>1, <1>2, <1>3, <1>4, <1>5 DEF PagesInv, Waits

\* A step of the handler of a request.
LEMMA ServedStep ==
  ASSUME PagesInv, NEW r \in Requests, NEW q, req' = [req EXCEPT ![r] = q],
         tab' = tab, DOMAIN q = DOMAIN NoRequest, q.tab = req[r].tab,
         \A t \in Tabs : Waits(tab[t], req[r]) => Waits(tab[t], q)
  PROVE  PagesInv'
<1>1. /\ req' = [p \in Requests |-> req'[p]] /\ req'[r] = q
      /\ \A p \in Requests \ {r} : req'[p] = req[p]
  BY DEF PagesInv
<1>. QED BY <1>1 DEF PagesInv, Waits, Fits

\* Each button, and each answer, leads to a screen that the wizard has.
LEMMA TabKeepsPages ==
  ASSUME PagesInv, NEW t \in Tabs, TabStep(t)
  PROVE  PagesInv'
<1>. Fits(t, tab[t]) /\ tab = [u \in Tabs |-> tab[u]] /\ t # None
  BY DEF PagesInv
<1>1. ASSUME Load(t) PROVE PagesInv'
  <2>. DEFINE s == NewTab(record.status)
  <2>1. Fits(t, s)
    BY DEF Fits, NewTab, NoPhotos
  <2>2. tab' = [u \in Tabs |-> tab'[u]] /\ tab'[t] = s /\ \A u \in Tabs \ {t} : tab'[u] = tab[u]
    BY <1>1 DEF Load, Update
  <2>3. /\ req' = [r \in Requests |-> req'[r]]
        /\ \A r \in Requests : req'[r] = IF req[r].tab = t THEN [req[r] EXCEPT !.tab = None] ELSE req[r]
    BY <1>1 DEF Load
  <2>4. \A r \in Requests : DOMAIN req'[r] = DOMAIN NoRequest
    BY <2>3 DEF PagesInv
  <2>5. \A r \in Requests : req'[r].tab = IF req[r].tab = t THEN None ELSE req[r].tab
    BY <2>3 DEF PagesInv, NoRequest
  <2>6. \A u \in Tabs : Fits(u, tab[u])'
    BY <2>1, <2>2 DEF PagesInv, Fits
  <2>. QED BY <2>2, <2>3, <2>4, <2>5, <2>6 DEF PagesInv, Waits
<1>2. ASSUME SubmitAgain(t) PROVE PagesInv'
  <2>. DEFINE s == [tab[t] EXCEPT !.resubmitting = TRUE]
  <2>1. Fits(t, s) /\ s.loading = tab[t].loading /\ s.panelState = tab[t].panelState
    BY DEF Fits, NewTab
  <2>. QED BY <1>2, <2>1, FreeTabStep DEF SubmitAgain, Update, serverVars
<1>3. ASSUME ContinueFromDetailsStep(t) PROVE PagesInv'
  <2>1. PICK d \in Details \cup {None} :
          Update(t, IF d = None THEN [tab[t] EXCEPT !.details = None]
                    ELSE IF t \in Desktops THEN [tab[t] EXCEPT !.details = d, !.step = 2]
                    ELSE [tab[t] EXCEPT !.details = d, !.step = 3, !.mode = "device"])
    BY <1>3 DEF ContinueFromDetailsStep
  <2>. DEFINE s == IF d = None THEN [tab[t] EXCEPT !.details = None]
                   ELSE IF t \in Desktops THEN [tab[t] EXCEPT !.details = d, !.step = 2]
                   ELSE [tab[t] EXCEPT !.details = d, !.step = 3, !.mode = "device"]
  <2>2. Fits(t, s) /\ s.loading = tab[t].loading /\ s.panelState = tab[t].panelState
    BY <1>3 DEF ContinueFromDetailsStep, ShowsDetails, Fits, NewTab
  <2>. QED BY <1>3, <2>1, <2>2, FreeTabStep DEF ContinueFromDetailsStep, Update, serverVars
<1>4. ASSUME ChooseCapture(t) PROVE PagesInv'
  <2>1. PICK mode \in {"device", "phone"} : Update(t, [tab[t] EXCEPT !.mode = mode, !.step = 3])
    BY <1>4 DEF ChooseCapture
  <2>. DEFINE s == [tab[t] EXCEPT !.mode = mode, !.step = 3]
  <2>2. Fits(t, s) /\ s.loading = tab[t].loading /\ s.panelState = tab[t].panelState
    BY <1>4 DEF ChooseCapture, ShowsDesktopChoice, Fits, NewTab
  <2>. QED BY <1>4, <2>1, <2>2, FreeTabStep DEF ChooseCapture, Update, serverVars
<1>5. ASSUME TakePhoto(t) PROVE PagesInv'
  <2>. DEFINE s == [tab[t] EXCEPT !.photos[SlotOrder[tab[t].step - 2]] = t, !.step = @ + 1]
  <2>1. s.photos \in [Slots -> {None, t}] /\ s.step = tab[t].step + 1
    BY DEF Fits, NewTab
  <2>2. tab[t].step \in 3 .. 5 /\ tab[t].mode = "device"
    BY <1>5 DEF TakePhoto, OnDevice
  <2>3. /\ DOMAIN s = DOMAIN NewTab("none") /\ s.session = tab[t].session /\ s.mode = tab[t].mode
        /\ s.details = tab[t].details /\ s.panelState = tab[t].panelState
        /\ s.panel = tab[t].panel /\ s.loading = tab[t].loading
    BY DEF Fits, NewTab
  <2>4. Fits(t, s)
    BY <2>1, <2>2, <2>3 DEF Fits
  <2>. QED BY <1>5, <2>3, <2>4, FreeTabStep DEF TakePhoto, Update, serverVars
<1>6. ASSUME SwitchToPhoneCapture(t) PROVE PagesInv'
  <2>. DEFINE s == [tab[t] EXCEPT !.mode = "phone", !.photos = NoPhotos, !.step = 3]
  <2>1. Fits(t, s) /\ s.loading = tab[t].loading /\ s.panelState = tab[t].panelState
    BY <1>6 DEF SwitchToPhoneCapture, OnDevice, Fits, NewTab, NoPhotos
  <2>. QED BY <1>6, <2>1, FreeTabStep DEF SwitchToPhoneCapture, Update, serverVars
<1>7. ASSUME PollSession(t) PROVE PagesInv'
  <2>. DEFINE s == [tab[t] EXCEPT !.session = tab[t].panel, !.step = 6, !.panelState = "gone"]
  <2>1. /\ Fits(t, s) /\ s.loading = tab[t].loading /\ tab[t].panelState = "shown"
    BY <1>7 DEF PollSession, ShowsPanel, Fits, NewTab
  <2>. QED BY <1>7, <2>1, FreeTabStep DEF PollSession, Update, serverVars
<1>8. ASSUME MountPanel(t) PROVE PagesInv'
  <2>. DEFINE s == [tab[t] EXCEPT !.panelState = "asking"]
  <2>1. Fits(t, s) /\ s.panelState = "asking"
    BY <1>8 DEF MountPanel, ShowsPanel, Fits, NewTab
  <2>2. tab[t].panelState = "none" /\ tab[t].loading = FALSE
    BY <1>8 DEF MountPanel, ShowsPanel, Fits
  <2>. QED BY <1>8, <2>1, <2>2, SendStep DEF MountPanel, Update
<1>9. ASSUME HandleSubmit(t) PROVE PagesInv'
  <2>. DEFINE s == [tab[t] EXCEPT !.loading = TRUE]
  <2>1. tab[t].step = 6 /\ tab[t].loading = FALSE /\ tab[t].details # None
    BY <1>9 DEF HandleSubmit, ShowsReview, Fits
  <2>2. Fits(t, s) /\ s.loading = TRUE /\ tab[t].panelState # "asking"
    BY <2>1 DEF Fits, NewTab
  <2>. QED BY <1>9, <2>1, <2>2, SendStep DEF HandleSubmit, Update
<1>10. ASSUME NEW r \in Requests, PanelAnswer(t, r) PROVE PagesInv'
  <2>. DEFINE s == IF req[r].outcome = "ok"
                   THEN [tab[t] EXCEPT !.panelState = "shown", !.panel = req[r].session]
                   ELSE [tab[t] EXCEPT !.panelState = "failed"]
  <2>1. req[r].tab = t /\ req[r].pc = "done" /\ tab[t].panelState = "asking"
    BY <1>10 DEF PanelAnswer, At
  <2>2. req[r].outcome = "ok" => req[r].session \in Sessions
    BY <2>1 DEF PagesInv, Waits, Fits, CapturePcs, SubmitPcs, WritePcs
  <2>3. Fits(t, s)
    BY <2>1, <2>2 DEF Fits, NewTab
  <2>4. tab' = [tab EXCEPT ![t] = s] /\ req' = [req EXCEPT ![r] = NoRequest]
    BY <1>10 DEF PanelAnswer, Update
  <2>. QED BY <2>1, <2>3, <2>4, AnsweredStep
<1>11. ASSUME NEW r \in Requests, SubmitAnswer(t, r) PROVE PagesInv'
  <2>. DEFINE s == [tab[t] EXCEPT !.loading = FALSE,
                                  !.view = IF req[r].outcome = "ok" THEN "pending_review" ELSE @]
  <2>1. req[r].tab = t /\ tab' = [tab EXCEPT ![t] = s] /\ req' = [req EXCEPT ![r] = NoRequest]
    BY <1>11 DEF SubmitAnswer, Update
  <2>2. Fits(t, s)
    BY DEF Fits, NewTab
  <2>. QED BY <2>1, <2>2, AnsweredStep
<1>. QED
  BY <1>1, <1>2, <1>3, <1>4, <1>5, <1>6, <1>7, <1>8, <1>9, <1>10, <1>11 DEF TabStep

\* A handler goes on with the request that it has, and answers it once.
LEMMA HandlerKeepsPages ==
  ASSUME PagesInv, NEW r \in Requests, RequestStep(r) \/ RequestFails(r), tab' = tab
  PROVE  PagesInv'
<1>. USE DEF At, CapturePcs, WritePcs, SubmitPcs
<1>1. DOMAIN req[r] = DOMAIN NoRequest
  BY DEF PagesInv
<1>2. ASSUME NEW pc, Go(r, pc), {req[r].pc, pc} \subseteq CapturePcs \/ {req[r].pc, pc} \subseteq SubmitPcs
      PROVE  PagesInv'
  <2>. DEFINE q == [req[r] EXCEPT !.pc = pc]
  <2>1. DOMAIN q = DOMAIN NoRequest /\ q.tab = req[r].tab /\ q.pc = pc
    BY <1>1 DEF NoRequest
  <2>. HIDE DEF q
  <2>2. \A t \in Tabs : Waits(tab[t], req[r]) => Waits(tab[t], q)
    BY <1>2, <2>1 DEF Waits
  <2>3. req' = [req EXCEPT ![r] = q]
    BY <1>2 DEF Go, q
  <2>. QED BY <2>1, <2>2, <2>3, ServedStep
<1>3. ASSUME NEW outcome, Answer(r, outcome),
             outcome = "error" \/ req[r].pc \in SubmitPcs
      PROVE  PagesInv'
  <2>. DEFINE q == [req[r] EXCEPT !.pc = "done", !.outcome = outcome]
  <2>1. /\ DOMAIN q = DOMAIN NoRequest /\ q.tab = req[r].tab /\ q.pc = "done"
        /\ q.outcome = outcome
    BY <1>1 DEF NoRequest
  <2>. HIDE DEF q
  <2>2. \A t \in Tabs : Waits(tab[t], req[r]) => Waits(tab[t], q)
    BY <1>3, <2>1 DEF Waits
  <2>3. req' = [req EXCEPT ![r] = q]
    BY <1>3 DEF Answer, q
  <2>. QED BY <2>1, <2>2, <2>3, ServedStep
<1>4. ASSUME InsertSession(r) PROVE PagesInv'
  <2>1. PICK s \in Sessions :
          req' = [req EXCEPT ![r].pc = "done", ![r].outcome = "ok", ![r].session = s]
    BY <1>4 DEF InsertSession
  <2>. DEFINE q == [req[r] EXCEPT !.pc = "done", !.outcome = "ok", !.session = s]
  <2>2. /\ DOMAIN q = DOMAIN NoRequest /\ q.tab = req[r].tab /\ q.pc = "done"
        /\ q.session = s
    BY <1>1 DEF NoRequest
  <2>. HIDE DEF q
  <2>3. \A t \in Tabs : Waits(tab[t], req[r]) => Waits(tab[t], q)
    BY <1>4, <2>2 DEF Waits, InsertSession
  <2>4. req' = [req EXCEPT ![r] = q]
    BY <2>1 DEF q
  <2>. QED BY <2>2, <2>3, <2>4, ServedStep
<1>5. ASSUME NEW n, NEW i, NEW pc, req[r].pc \in SubmitPcs, pc \in SubmitPcs,
             req' = [req EXCEPT ![r].pc = pc, ![r].n = n, ![r].i = i]
      PROVE  PagesInv'
  <2>. DEFINE q == [req[r] EXCEPT !.pc = pc, !.n = n, !.i = i]
  <2>1. DOMAIN q = DOMAIN NoRequest /\ q.tab = req[r].tab /\ q.pc = pc
    BY <1>1 DEF NoRequest
  <2>. HIDE DEF q
  <2>2. \A t \in Tabs : Waits(tab[t], req[r]) => Waits(tab[t], q)
    BY <1>5, <2>1 DEF Waits
  <2>3. req' = [req EXCEPT ![r] = q]
    BY <1>5 DEF q
  <2>. QED BY <2>1, <2>2, <2>3, ServedStep
<1>6. ASSUME StoreImage(r) PROVE PagesInv'
  <2>. DEFINE pc == IF req[r].i = Len(SlotOrder) THEN "write" ELSE req[r].pc
              q == [req[r] EXCEPT !.i = @ + 1, !.pc = pc]
  <2>1. DOMAIN q = DOMAIN NoRequest /\ q.tab = req[r].tab /\ q.pc = pc /\ req[r].pc = "store"
    BY <1>1, <1>6 DEF NoRequest, StoreImage
  <2>2. req' = [req EXCEPT ![r] = q]
    BY <1>6 DEF StoreImage
  <2>. HIDE DEF q
  <2>3. \A t \in Tabs : Waits(tab[t], req[r]) => Waits(tab[t], q)
    BY <2>1 DEF Waits
  <2>. QED BY <2>1, <2>2, <2>3, ServedStep
<1>7. CASE CheckCapture(r) \/ CloseOthers(r) \/ CheckSubmit(r) \/ WriteSubmission(r)
           \/ ConsumeSession(r)
  BY <1>2, <1>3, <1>7 DEF CheckCapture, CloseOthers, CheckSubmit, WriteSubmission, ConsumeSession
<1>8. CASE ResolveSession(r)
  <2>1. CASE Answer(r, "error")
    BY <1>3, <2>1
  <2>2. CASE req' = [req EXCEPT ![r].pc = "store", ![r].n = submissions + 1, ![r].i = 1]
    BY <1>5, <1>8, <2>2 DEF ResolveSession
  <2>. QED BY <1>8, <2>1, <2>2 DEF ResolveSession
<1>9. CASE RequestFails(r)
  BY <1>3, <1>9 DEF RequestFails
<1>. QED BY <1>4, <1>6, <1>7, <1>8, <1>9 DEF RequestStep

LEMMA PagesNext == PagesInv /\ [Next]_vars => PagesInv'
<1>. SUFFICES ASSUME PagesInv, [Next]_vars PROVE PagesInv'
  OBVIOUS
<1>1. CASE UNCHANGED <<tab, req>>
  BY <1>1 DEF PagesInv
<1>2. ASSUME NEW r \in Requests, RequestStep(r) \/ RequestFails(r), UNCHANGED pageVars
      PROVE  PagesInv'
  BY <1>2, HandlerKeepsPages DEF pageVars
<1>3. ASSUME NEW a \in Actors, ActorStep(a) \/ OpFails(a), UNCHANGED pageVars
      PROVE  UNCHANGED <<tab, req>>
  BY <1>3 DEF pageVars, ActorStep, OpFails, StartEnroll, WriteEnrolled, Show, StartDecision,
     WriteVerified, SetAccountVerified, DeleteMethods, ProvisionMethod, WriteRejected,
     ClearAccountVerified
<1>4. ASSUME NEW s \in Sessions, ExpireSession(s), UNCHANGED pageVars
      PROVE  UNCHANGED <<tab, req>>
  BY <1>4 DEF pageVars, ExpireSession
<1>5. ASSUME NEW m \in Phones, PhoneStep(m) PROVE UNCHANGED <<tab, req>>
  BY <1>5 DEF PhoneStep, OpenLink, SendPhoto, PutPhoto, SetColumn, UploadFails, serverVars
<1>6. ASSUME NEW r \in Requests, Discard(r) PROVE PagesInv'
  <2>1. /\ tab' = tab /\ req' = [p \in Requests |-> req'[p]] /\ req'[r] = NoRequest
        /\ \A p \in Requests \ {r} : req'[p] = req[p]
    BY <1>6 DEF Discard, PagesInv, pageVars
  <2>2. DOMAIN NoRequest = DOMAIN req'[r] /\ req'[r].tab = None
    BY <2>1 DEF NoRequest
  <2>. QED BY <2>1, <2>2 DEF PagesInv
<1>. QED
  BY <1>1, <1>2, <1>3, <1>4, <1>5, <1>6, TabKeepsPages DEF Next, ServerNext, vars, serverVars, pageVars

\* Whatever the order of back and forth, a tab has something on its screen
\* (VerifyAccountWizard.tsx): for any number of tabs and requests, and
\* whoever decides meanwhile.
THEOREM WizardIsNeverBlank == Spec => []WizardNeverBlank
<1>1. PagesInv => WizardNeverBlank
  BY DEF PagesInv, WizardNeverBlank, Fits, ShowsDetails, ShowsReview, ShowsDesktopChoice,
     OnDevice, ShowsPanel
<1>. QED
  BY <1>1, PagesInit, PagesNext, PTL DEF Spec

----------------------------------------------------------------------------
(***************************************************************************)
(* Submissions.  A request that has passed the check of submit finds the   *)
(* record open to submissions until it has written it, as long as there    *)
(* is no second one.                                                       *)
(***************************************************************************)
\* The requests that a step of a page leaves are on their way, or new.
LEMMA TabLeavesRequests ==
  ASSUME PagesInv, NEW t \in Tabs, TabStep(t), NEW p \in Requests, req'[p].pc \in WritePcs
  PROVE  req'[p].pc = req[p].pc
<1>. req = [r \in Requests |-> req[r]] /\ DOMAIN req[p] = DOMAIN NoRequest
  BY DEF PagesInv
<1>1. CASE Load(t)
  <2>1. req'[p] = req[p] \/ req'[p] = [req[p] EXCEPT !.tab = None]
    BY <1>1 DEF Load
  <2>. QED BY <2>1 DEF NoRequest
<1>2. ASSUME NEW pc \in {"capture", "submit"}, Send(t, pc)
      PROVE  req'[p].pc = req[p].pc
  <2>1. PICK r \in Requests :
          req' = [req EXCEPT ![r] = [NoRequest EXCEPT
                    !.pc = pc, !.tab = t, !.details = tab[t].details,
                    !.session = IF pc = "submit" THEN tab[t].session ELSE None,
                    !.photos = tab[t].photos]]
    BY <1>2 DEF Send
  <2>2. p = r => req'[p].pc = pc
    BY <2>1 DEF NoRequest
  <2>3. p # r => req'[p] = req[p]
    BY <2>1
  <2>. QED BY <1>2, <2>2, <2>3 DEF WritePcs
<1>3. ASSUME NEW r \in Requests, PanelAnswer(t, r) \/ SubmitAnswer(t, r)
      PROVE  req'[p].pc = req[p].pc
  <2>1. req' = [req EXCEPT ![r] = NoRequest]
    BY <1>3 DEF PanelAnswer, SubmitAnswer
  <2>. QED BY <2>1 DEF NoRequest, WritePcs
<1>4. CASE MountPanel(t) \/ HandleSubmit(t)
  BY <1>2, <1>4 DEF MountPanel, HandleSubmit
<1>5. CASE req' = req
  BY <1>5
<1>. QED
  BY <1>1, <1>3, <1>4, <1>5 DEF TabStep, SubmitAgain, ContinueFromDetailsStep, ChooseCapture,
     TakePhoto, SwitchToPhoneCapture, PollSession, serverVars
----------------------------------------------------------------------------
(***************************************************************************)
(* Decisions.  One submission and one run of the tool at a time: the tool  *)
(* is run, and a link that verifies the address is clicked, when no other  *)
(* run or click is under way.                                              *)
(***************************************************************************)
OneAtATime ==
  /\ OneDecisionAtATime = TRUE
  /\ \A a, b \in Reviewers : a = b
  /\ \A r, p \in Requests : r = p

Resting == {"idle", "used", "stopped"}
Approving == {"approveUser", "deleteMethods", "provision"}

\* What an actor with state o knows.
Knows(o) ==
  /\ DOMAIN o = DOMAIN NoOp
  /\ o.pc \in {"enroll", "rejectUser"} => record.status # "verified"
  /\ o.pc \in {"approve", "reject"} => o.shown.status = "pending_review"
  /\ o.pc \in {"idle", "approve", "reject"} /\ o.shown.status = "pending_review" =>
       record = o.shown /\ images[record.images] = o.photos
  /\ o.pc = "approve" => o.seen = record
  /\ o.pc \in Approving => record.status = "verified" /\ o.seen.details = record.details
  /\ o.pc \in {"deleteMethods", "provision"} => accountVerified = TRUE

\* A verified account is whole, or its approval goes on or has broken off.
Settled ==
  record.status = "verified" =>
    \/ \E a \in Actors : op[a].pc \in Approving \cup {"stopped"}
    \/ accountVerified = TRUE /\ \E m \in Present : methods[m].details = record.details

DecisionInv ==
  /\ OneAtATime
  /\ accountVerified \in BOOLEAN /\ (accountVerified = TRUE => record.status = "verified")
  /\ DOMAIN record = DOMAIN NoRecord
  /\ op = [a \in Actors |-> op[a]] /\ methods = [m \in MethodIds |-> methods[m]]
  /\ \A a \in Actors :
       /\ Knows(op[a])
       /\ op[a].shown.status = "pending_review" => a \in Reviewers
       /\ \A b \in Actors : op[a].pc \notin Resting /\ op[b].pc \notin Resting => a = b
       /\ \A b \in Actors : op[a].pc = "enroll" /\ op[b].pc = "idle" =>
            op[b].shown.status # "pending_review"
  /\ \A r \in Requests : req[r].pc \in WritePcs => CanSubmit(record.status)
  /\ Settled

LEMMA DecisionInit == OneAtATime /\ Init => DecisionInv
<1>. SUFFICES ASSUME OneAtATime, Init PROVE DecisionInv
  OBVIOUS
<1>1. /\ record = NoRecord /\ accountVerified = FALSE
      /\ op = [a \in Actors |-> NoOp] /\ methods = [m \in MethodIds |-> NoMethod]
      /\ req = [r \in Requests |-> NoRequest]
  BY DEF Init, ServerInit
<1>2. \A a \in Actors : /\ DOMAIN op[a] = DOMAIN NoOp /\ op[a].pc = "idle"
                        /\ op[a].shown.status = "none"
  BY <1>1 DEF NoOp, NoRecord
<1>3. \A r \in Requests : req[r].pc = "idle"
  BY <1>1 DEF NoRequest
<1>4. record.status = "none"
  BY <1>1 DEF NoRecord
<1>5. \A a \in Actors : Knows(op[a])
  BY <1>2 DEF Knows, Approving
<1>. QED
  BY <1>1, <1>2, <1>3, <1>4, <1>5 DEF DecisionInv, Settled, WritePcs, Resting

\* A step of a request, or of a page, that leaves the record alone.
LEMMA QuietKeepsDecisions ==
  ASSUME DecisionInv, UNCHANGED <<record, accountVerified, op, methods>>,
         images' = images \/ CanSubmit(record.status),
         \A r \in Requests : req'[r].pc \in WritePcs => CanSubmit(record.status)
  PROVE  DecisionInv'
<1>1. \A a \in Actors : Knows(op[a])'
  BY DEF DecisionInv, Knows, CanSubmit
<1>. QED BY <1>1 DEF DecisionInv, Settled, Present

\* A step of an actor, while the others rest.
LEMMA ActorKeepsDecisions ==
  ASSUME DecisionInv, NEW a \in Actors, NEW o, op' = [op EXCEPT ![a] = o],
         UNCHANGED <<req, images>>,
         \A b \in Actors \ {a} : op[b].pc \in Resting,
         Knows(o)', o.shown.status = "pending_review" => a \in Reviewers,
         accountVerified' \in BOOLEAN,
         accountVerified' = TRUE => record'.status = "verified",
         DOMAIN record' = DOMAIN NoRecord,
         methods' = [m \in MethodIds |-> methods'[m]],
         record' = record \/ CanSubmit(record'.status)
           \/ \A r \in Requests : req[r].pc \notin WritePcs,
         o.pc = "enroll" \/ record' # record =>
           \A b \in Actors \ {a} : op[b].pc = "idle" => op[b].shown.status # "pending_review",
         \/ /\ UNCHANGED <<record, accountVerified, methods>>
            /\ op[a].pc \notin Approving \cup {"stopped"}
         \/ o.pc \in Approving \cup {"stopped"}
         \/ record'.status # "verified"
         \/ accountVerified' = TRUE /\ \E m \in Present' : methods'[m].details = record'.details
  PROVE  DecisionInv'
<1>1. op' = [b \in Actors |-> op'[b]] /\ op'[a] = o /\ \A b \in Actors \ {a} : op'[b] = op[b]
  BY DEF DecisionInv
<1>2. \A b \in Actors \ {a} : Knows(op[b])'
  <2>. SUFFICES ASSUME NEW b \in Actors \ {a} PROVE Knows(op[b])'
    OBVIOUS
  <2>1. op'[b] = op[b] /\ op[b].pc \in Resting /\ Knows(op[b])
    BY <1>1 DEF DecisionInv
  <2>2. CASE op[b].pc = "idle" /\ op[b].shown.status = "pending_review"
    BY <2>1, <2>2 DEF Knows, Approving
  <2>3. CASE ~(op[b].pc = "idle" /\ op[b].shown.status = "pending_review")
    BY <2>1, <2>3 DEF Knows, Approving, Resting
  <2>. QED BY <2>2, <2>3
<1>3. \A b \in Actors : Knows(op[b])'
  BY <1>1, <1>2
<1>4. Settled'
  <2>1. CASE UNCHANGED <<record, accountVerified, methods>> /\ op[a].pc \notin Approving \cup {"stopped"}
    BY <1>1, <2>1 DEF DecisionInv, Settled, Present
  <2>2. CASE o.pc \in Approving \cup {"stopped"}
    BY <1>1, <2>2 DEF Settled
  <2>3. CASE \/ record'.status # "verified"
             \/ accountVerified' = TRUE /\ \E m \in Present' : methods'[m].details = record'.details
    BY <2>3 DEF Settled
  <2>. QED BY <2>1, <2>2, <2>3
<1>5. \A b \in Actors :
        /\ op'[b].shown.status = "pending_review" => b \in Reviewers
        /\ \A c \in Actors : op'[b].pc \notin Resting /\ op'[c].pc \notin Resting => b = c
        /\ \A c \in Actors : op'[b].pc = "enroll" /\ op'[c].pc = "idle" =>
             op'[c].shown.status # "pending_review"
  BY <1>1 DEF DecisionInv, Resting
<1>6. \A r \in Requests : req'[r].pc \in WritePcs => CanSubmit(record'.status)
  BY DEF DecisionInv
<1>. QED
  BY <1>1, <1>3, <1>4, <1>5, <1>6 DEF DecisionInv

\* An actor starts when all rest, and goes on alone.
LEMMA OthersRest ==
  ASSUME DecisionInv, NEW a \in Actors, ActorStep(a) \/ OpFails(a)
  PROVE  \A b \in Actors \ {a} : op[b].pc \in Resting
<1>1. CASE MayRun(a)
  BY <1>1 DEF DecisionInv, OneAtATime, MayRun, Resting
<1>2. CASE op[a].pc \notin Resting
  BY <1>2 DEF DecisionInv
<1>. QED
  BY <1>1, <1>2 DEF ActorStep, OpFails, StartEnroll, WriteEnrolled, Show, StartDecision,
     WriteVerified, SetAccountVerified, DeleteMethods, ProvisionMethod, WriteRejected,
     ClearAccountVerified, Doing, Resting

\* Whoever has a submission on the screen is the reviewer: nobody else has.
LEMMA OneShown ==
  ASSUME DecisionInv, NEW a \in Actors, op[a].shown.status = "pending_review"
  PROVE  \A b \in Actors \ {a} : op[b].shown.status # "pending_review"
  BY DEF DecisionInv, OneAtATime

LEMMA NoOpKnows ==
  ASSUME NEW o, o \in {NoOp, [NoOp EXCEPT !.pc = "used"], [NoOp EXCEPT !.pc = "stopped"]}
  PROVE  /\ Knows(o)' /\ o.shown.status # "pending_review"
         /\ o.pc \in Resting
<1>1. DOMAIN o = DOMAIN NoOp /\ o.pc \in Resting /\ o.shown.status = "none"
  BY DEF NoOp, NoRecord, Resting
<1>. QED BY <1>1 DEF Knows, Resting, Approving

LEMMA ActorNext ==
  ASSUME DecisionInv, NEW a \in Actors, ActorStep(a) \/ OpFails(a)
  PROVE  DecisionInv'
<1>1. \A b \in Actors \ {a} : op[b].pc \in Resting
  BY OthersRest
<1>2. /\ op = [b \in Actors |-> op[b]] /\ DOMAIN op[a] = DOMAIN NoOp /\ Knows(op[a])
      /\ DOMAIN record = DOMAIN NoRecord
      /\ methods = [m \in MethodIds |-> methods[m]] /\ accountVerified \in BOOLEAN
      /\ accountVerified = TRUE => record.status = "verified"
      /\ op[a].shown.status = "pending_review" => a \in Reviewers
  BY DEF DecisionInv, Knows
<1>3. ASSUME OpDone(a) PROVE \E o : op' = [op EXCEPT ![a] = o] /\ o \in {NoOp, [NoOp EXCEPT !.pc = "used"]}
  BY <1>3 DEF OpDone
<1>4. ASSUME UNCHANGED <<record, accountVerified, methods, req, images>>,
             op[a].pc \notin Approving \cup {"stopped"},
             OpDone(a)
      PROVE  DecisionInv'
  <2>1. PICK o : op' = [op EXCEPT ![a] = o] /\ o \in {NoOp, [NoOp EXCEPT !.pc = "used"]}
    BY <1>3, <1>4
  <2>2. Knows(o)' /\ o.shown.status # "pending_review" /\ o.pc # "enroll"
    BY <2>1, NoOpKnows DEF Resting
  <2>. QED BY <1>1, <1>2, <1>4, <2>1, <2>2, ActorKeepsDecisions
<1>5. CASE StartEnroll(a)
  <2>0. /\ UNCHANGED <<record, accountVerified, methods, req, images>>
        /\ op[a].pc = "idle" /\ op[a].pc \notin Approving \cup {"stopped"}
    BY <1>5 DEF StartEnroll, MayRun, Doing, Approving
  <2>1. CASE OpDone(a)
    BY <1>4, <2>0, <2>1
  <2>2. CASE record.status \in {"none", "rejected"} /\ Proceed(a, "enroll")
    <3>0. PICK o : o = [op[a] EXCEPT !.pc = "enroll"]
      OBVIOUS
    <3>1. op' = [op EXCEPT ![a] = o] /\ DOMAIN o = DOMAIN NoOp /\ o.pc = "enroll"
          /\ o.shown = op[a].shown
      BY <3>0, <1>2, <2>2 DEF Proceed, NoOp
    <3>2. \A b \in Actors : op[b].pc = "idle" => op[b].shown.status # "pending_review"
      BY <2>2 DEF DecisionInv, Knows
    <3>3. Knows(o)'
      BY <2>0, <2>2, <3>1 DEF Knows, Approving
    <3>. QED BY <1>1, <1>2, <2>0, <3>1, <3>2, <3>3, ActorKeepsDecisions
  <2>. QED BY <1>5, <2>1, <2>2 DEF StartEnroll
<1>6. CASE WriteEnrolled(a)
  <2>1. /\ op[a].pc = "enroll" /\ OpDone(a) /\ record' = [NoRecord EXCEPT !.status = "enrolled"]
        /\ UNCHANGED <<accountVerified, methods, req, images>>
    BY <1>6 DEF WriteEnrolled, Doing
  <2>2. record'.status = "enrolled" /\ DOMAIN record' = DOMAIN NoRecord
    BY <2>1 DEF NoRecord
  <2>3. PICK o : op' = [op EXCEPT ![a] = o] /\ o \in {NoOp, [NoOp EXCEPT !.pc = "used"]}
    BY <1>3, <2>1
  <2>4. Knows(o)' /\ o.shown.status # "pending_review"
    BY <2>3, NoOpKnows
  <2>5. record.status # "verified" /\ accountVerified # TRUE
    BY <1>2, <2>1 DEF Knows
  <2>6. \A b \in Actors : op[b].pc = "idle" => op[b].shown.status # "pending_review"
    BY <2>1 DEF DecisionInv
  <2>. QED BY <1>1, <1>2, <2>1, <2>2, <2>3, <2>4, <2>5, <2>6, ActorKeepsDecisions DEF CanSubmit
<1>7. CASE Show(a)
  <2>0. PICK o : o = [op[a] EXCEPT !.shown = record, !.photos = images[record.images]]
    OBVIOUS
  <2>1. /\ op[a].pc = "idle" /\ a \in Reviewers /\ op' = [op EXCEPT ![a] = o]
        /\ UNCHANGED <<record, accountVerified, methods, req, images>>
    BY <2>0, <1>7 DEF Show, MayRun, Doing
  <2>2. /\ DOMAIN o = DOMAIN NoOp /\ o.pc = "idle" /\ o.shown = record
        /\ o.photos = images[record.images]
    BY <2>0, <1>2, <2>1 DEF NoOp
  <2>3. Knows(o)'
    BY <2>1, <2>2 DEF Knows, Approving
  <2>4. op[a].pc \notin Approving \cup {"stopped"}
    BY <2>1 DEF Approving
  <2>. QED BY <1>1, <1>2, <2>1, <2>2, <2>3, <2>4, ActorKeepsDecisions
<1>8. CASE StartDecision(a)
  <2>0. /\ UNCHANGED <<record, accountVerified, methods, req, images>>
        /\ op[a].pc = "idle" /\ op[a].shown.status = "pending_review"
        /\ op[a].pc \notin Approving \cup {"stopped"}
    BY <1>8 DEF StartDecision, MayRun, Doing, Approving
  <2>1. CASE OpDone(a)
    BY <1>4, <2>0, <2>1
  <2>2. ASSUME NEW o, op' = [op EXCEPT ![a] = o], DOMAIN o = DOMAIN NoOp,
               o.pc \in {"approve", "reject"}, o.pc = "approve" => o.seen = record,
               o.shown = op[a].shown, o.photos = op[a].photos, record.status = "pending_review"
        PROVE  DecisionInv'
    <3>1. Knows(o)'
      BY <1>2, <2>0, <2>2 DEF Knows, Approving
    <3>. QED BY <1>1, <1>2, <2>0, <2>2, <3>1, ActorKeepsDecisions
  <2>3. CASE record.status = "pending_review" /\ op' = [op EXCEPT ![a].pc = "approve", ![a].seen = record]
    <3>0. PICK o : o = [op[a] EXCEPT !.pc = "approve", !.seen = record]
      OBVIOUS
    <3>1. /\ op' = [op EXCEPT ![a] = o] /\ DOMAIN o = DOMAIN NoOp /\ o.pc = "approve"
          /\ o.seen = record /\ o.shown = op[a].shown /\ o.photos = op[a].photos
      BY <3>0, <1>2, <2>3 DEF NoOp
    <3>. QED BY <2>2, <2>3, <3>1
  <2>4. CASE record.status = "pending_review" /\ Proceed(a, "reject")
    <3>0. PICK o : o = [op[a] EXCEPT !.pc = "reject"]
      OBVIOUS
    <3>1. /\ op' = [op EXCEPT ![a] = o] /\ DOMAIN o = DOMAIN NoOp /\ o.pc = "reject"
          /\ o.shown = op[a].shown /\ o.photos = op[a].photos
      BY <3>0, <1>2, <2>4 DEF NoOp, Proceed
    <3>. QED BY <2>2, <2>4, <3>1
  <2>. QED BY <1>8, <2>1, <2>3, <2>4 DEF StartDecision
<1>9. CASE WriteVerified(a)
  <2>0. PICK o : o = [op[a] EXCEPT !.pc = "approveUser"]
    OBVIOUS
  <2>1. /\ op[a].pc = "approve" /\ op' = [op EXCEPT ![a] = o]
        /\ record' = [record EXCEPT !.status = "verified"]
        /\ UNCHANGED <<accountVerified, methods, req, images>>
    BY <2>0, <1>9 DEF WriteVerified, Doing, Proceed
  <2>2. /\ DOMAIN o = DOMAIN NoOp /\ o.pc = "approveUser" /\ o.seen = op[a].seen
        /\ o.shown = op[a].shown
    BY <2>0, <1>2, <2>1 DEF NoOp
  <2>3. /\ record.status = "pending_review" /\ op[a].seen = record
        /\ op[a].shown.status = "pending_review"
    BY <1>2, <2>1 DEF Knows
  <2>4. /\ record'.status = "verified" /\ record'.details = record.details
        /\ DOMAIN record' = DOMAIN NoRecord
    BY <1>2, <2>1 DEF NoRecord
  <2>5. Knows(o)'
    BY <2>2, <2>3, <2>4 DEF Knows, Approving
  <2>6. \A r \in Requests : req[r].pc \notin WritePcs
    BY <2>3 DEF DecisionInv, CanSubmit
  <2>. QED
    BY <1>1, <1>2, <2>1, <2>2, <2>3, <2>4, <2>5, <2>6, OneShown, ActorKeepsDecisions DEF Approving
<1>10. CASE SetAccountVerified(a)
  <2>0. PICK o : o = [op[a] EXCEPT !.pc = "deleteMethods"]
    OBVIOUS
  <2>1. /\ op[a].pc = "approveUser" /\ op' = [op EXCEPT ![a] = o] /\ accountVerified' = TRUE
        /\ UNCHANGED <<record, methods, req, images>>
    BY <2>0, <1>10 DEF SetAccountVerified, Doing, Proceed
  <2>2. /\ DOMAIN o = DOMAIN NoOp /\ o.pc = "deleteMethods" /\ o.seen = op[a].seen
        /\ o.shown = op[a].shown
    BY <2>0, <1>2, <2>1 DEF NoOp
  <2>3. record.status = "verified" /\ op[a].seen.details = record.details
    BY <1>2, <2>1 DEF Knows, Approving
  <2>4. Knows(o)'
    BY <2>1, <2>2, <2>3 DEF Knows, Approving
  <2>. QED BY <1>1, <1>2, <2>1, <2>2, <2>3, <2>4, ActorKeepsDecisions DEF Approving
<1>11. CASE DeleteMethods(a)
  <2>0. PICK o : o = [op[a] EXCEPT !.pc = "provision"]
    OBVIOUS
  <2>1. /\ op[a].pc = "deleteMethods" /\ op' = [op EXCEPT ![a] = o]
        /\ methods' = [m \in MethodIds |-> NoMethod]
        /\ UNCHANGED <<record, accountVerified, req, images>>
    BY <2>0, <1>11 DEF DeleteMethods, Doing, Proceed
  <2>2. /\ DOMAIN o = DOMAIN NoOp /\ o.pc = "provision" /\ o.seen = op[a].seen
        /\ o.shown = op[a].shown
    BY <2>0, <1>2, <2>1 DEF NoOp
  <2>3. Knows(o)'
    BY <1>2, <2>1, <2>2 DEF Knows, Approving
  <2>4. methods' = [m \in MethodIds |-> methods'[m]]
    BY <2>1
  <2>. QED BY <1>1, <1>2, <2>1, <2>2, <2>3, <2>4, ActorKeepsDecisions DEF Approving
<1>12. CASE ProvisionMethod(a)
  <2>1. /\ op[a].pc = "provision" /\ OpDone(a)
        /\ UNCHANGED <<record, accountVerified, req, images>>
    BY <1>12 DEF ProvisionMethod, Doing
  <2>2. PICK m \in MethodIds : methods' = [methods EXCEPT ![m] = [details |-> op[a].seen.details, isDefault |-> TRUE]]
    BY <1>12 DEF ProvisionMethod, Insert
  <2>3. PICK o : op' = [op EXCEPT ![a] = o] /\ o \in {NoOp, [NoOp EXCEPT !.pc = "used"]}
    BY <1>3, <2>1
  <2>4. Knows(o)' /\ o.shown.status # "pending_review" /\ o.pc # "enroll"
    BY <2>3, NoOpKnows DEF Resting
  <2>5. op[a].seen.details = record.details /\ accountVerified = TRUE
    BY <1>2, <2>1 DEF Knows, Approving
  <2>6. /\ methods' = [n \in MethodIds |-> methods'[n]]
        /\ methods'[m] = [details |-> record.details, isDefault |-> TRUE]
    BY <1>2, <2>2, <2>5
  <2>7. m \in Present' /\ methods'[m].details = record'.details
    BY <2>1, <2>6 DEF Present, NoMethod
  <2>. QED BY <1>1, <1>2, <2>1, <2>3, <2>4, <2>5, <2>6, <2>7, ActorKeepsDecisions
<1>13. CASE WriteRejected(a)
  <2>0. PICK o : o = [op[a] EXCEPT !.pc = "rejectUser"]
    OBVIOUS
  <2>1. /\ op[a].pc = "reject" /\ op' = [op EXCEPT ![a] = o]
        /\ record' = [record EXCEPT !.status = "rejected"]
        /\ UNCHANGED <<accountVerified, methods, req, images>>
    BY <2>0, <1>13 DEF WriteRejected, Doing, Proceed
  <2>2. /\ DOMAIN o = DOMAIN NoOp /\ o.pc = "rejectUser" /\ o.shown = op[a].shown
    BY <2>0, <1>2, <2>1 DEF NoOp
  <2>3. record.status = "pending_review" /\ op[a].shown.status = "pending_review"
    BY <1>2, <2>1 DEF Knows
  <2>4. record'.status = "rejected" /\ DOMAIN record' = DOMAIN NoRecord
    BY <1>2, <2>1 DEF NoRecord
  <2>5. Knows(o)'
    BY <2>2, <2>4 DEF Knows, Approving
  <2>. QED
    BY <1>1, <1>2, <2>1, <2>2, <2>3, <2>4, <2>5, OneShown, ActorKeepsDecisions DEF CanSubmit
<1>14. CASE ClearAccountVerified(a)
  <2>1. /\ op[a].pc = "rejectUser" /\ OpDone(a) /\ accountVerified' = FALSE
        /\ UNCHANGED <<record, methods, req, images>>
    BY <1>14 DEF ClearAccountVerified, Doing
  <2>2. PICK o : op' = [op EXCEPT ![a] = o] /\ o \in {NoOp, [NoOp EXCEPT !.pc = "used"]}
    BY <1>3, <2>1
  <2>3. Knows(o)' /\ o.shown.status # "pending_review" /\ o.pc # "enroll"
    BY <2>2, NoOpKnows DEF Resting
  <2>4. record.status # "verified"
    BY <1>2, <2>1 DEF Knows
  <2>. QED BY <1>1, <1>2, <2>1, <2>2, <2>3, <2>4, ActorKeepsDecisions
<1>15. CASE OpFails(a)
  <2>0. PICK o : o = [NoOp EXCEPT !.pc = "stopped"]
    OBVIOUS
  <2>1. /\ op' = [op EXCEPT ![a] = o]
        /\ UNCHANGED <<record, accountVerified, methods, req, images>>
    BY <2>0, <1>15 DEF OpFails
  <2>2. Knows(o)' /\ o.shown.status # "pending_review"
    BY <2>0, NoOpKnows
  <2>3. o.pc = "stopped"
    BY <2>0 DEF NoOp
  <2>. QED BY <1>1, <1>2, <2>1, <2>2, <2>3, ActorKeepsDecisions
<1>. QED
  BY <1>5, <1>6, <1>7, <1>8, <1>9, <1>10, <1>11, <1>12, <1>13, <1>14, <1>15 DEF ActorStep

LEMMA DecisionNext == PagesInv /\ DecisionInv /\ [Next]_vars => DecisionInv'
<1>. SUFFICES ASSUME PagesInv, DecisionInv, [Next]_vars PROVE DecisionInv'
  OBVIOUS
<1>1. req = [r \in Requests |-> req[r]] /\ \A r \in Requests : DOMAIN req[r] = DOMAIN NoRequest
  BY DEF PagesInv
<1>2. ASSUME UNCHANGED <<record, accountVerified, op, methods, images, req>> PROVE DecisionInv'
  BY <1>2, QuietKeepsDecisions DEF DecisionInv
<1>3. ASSUME NEW r \in Requests, RequestStep(r) \/ RequestFails(r) PROVE DecisionInv'
  <2>1. ASSUME NEW pc, Go(r, pc), UNCHANGED <<record, accountVerified, op, methods, images>>,
               pc \in WritePcs => CanSubmit(record.status)
        PROVE  DecisionInv'
    <3>1. \A p \in Requests : req'[p].pc = IF p = r THEN pc ELSE req[p].pc
      BY <1>1, <2>1 DEF Go, NoRequest
    <3>. QED BY <2>1, <3>1, QuietKeepsDecisions DEF DecisionInv
  <2>2. ASSUME NEW outcome, Answer(r, outcome), UNCHANGED <<record, accountVerified, op, methods, images>>
        PROVE  DecisionInv'
    <3>1. \A p \in Requests : req'[p].pc = IF p = r THEN "done" ELSE req[p].pc
      BY <1>1, <2>2 DEF Answer, NoRequest
    <3>. QED BY <2>2, <3>1, QuietKeepsDecisions DEF DecisionInv, WritePcs
  <2>3. CASE CheckCapture(r) \/ CloseOthers(r) \/ CheckSubmit(r) \/ ConsumeSession(r) \/ RequestFails(r)
    BY <2>1, <2>2, <2>3 DEF CheckCapture, CloseOthers, CheckSubmit, ConsumeSession, RequestFails, WritePcs
  <2>4. CASE InsertSession(r)
    <3>1. PICK s \in Sessions :
            req' = [req EXCEPT ![r].pc = "done", ![r].outcome = "ok", ![r].session = s]
      BY <2>4 DEF InsertSession
    <3>2. \A p \in Requests : req'[p].pc = IF p = r THEN "done" ELSE req[p].pc
      BY <1>1, <3>1 DEF NoRequest
    <3>. QED BY <2>4, <3>2, QuietKeepsDecisions DEF InsertSession, DecisionInv, WritePcs
  <2>5. CASE ResolveSession(r)
    <3>1. CASE Answer(r, "error")
      BY <2>2, <2>5, <3>1 DEF ResolveSession
    <3>2. CASE req' = [req EXCEPT ![r].pc = "store", ![r].n = submissions + 1, ![r].i = 1]
      <4>1. \A p \in Requests : req'[p].pc = IF p = r THEN "store" ELSE req[p].pc
        BY <1>1, <3>2 DEF NoRequest
      <4>2. CanSubmit(record.status)
        BY <2>5 DEF ResolveSession, At, DecisionInv, WritePcs
      <4>. QED BY <2>5, <4>1, <4>2, QuietKeepsDecisions DEF ResolveSession
    <3>. QED BY <2>5, <3>1, <3>2 DEF ResolveSession
  <2>6. CASE StoreImage(r)
    <3>1. CanSubmit(record.status)
      BY <2>6 DEF StoreImage, At, DecisionInv, WritePcs
    <3>. QED BY <2>6, <3>1, QuietKeepsDecisions DEF StoreImage
  <2>7. CASE WriteSubmission(r)
    <3>1. /\ record'.status = "pending_review" /\ DOMAIN record' = DOMAIN NoRecord
          /\ UNCHANGED <<accountVerified, op, methods, images>>
      BY <2>7 DEF WriteSubmission, NoRecord
    <3>2. CanSubmit(record.status) /\ record.status \in {"enrolled", "rejected"}
      BY <2>7 DEF WriteSubmission, At, DecisionInv, WritePcs, CanSubmit
    <3>3. \A a \in Actors : Knows(op[a])'
      BY <3>1, <3>2 DEF DecisionInv, Knows, Approving
    <3>4. \A p \in Requests : req'[p].pc \notin WritePcs
      <4>1. \A p \in Requests : p = r
        BY DEF DecisionInv, OneAtATime
      <4>2. req'[r].pc \in {"done", "consume"}
        BY <1>1, <2>7 DEF WriteSubmission, Answer, Go, NoRequest
      <4>. QED BY <4>1, <4>2 DEF WritePcs
    <3>. QED BY <3>1, <3>2, <3>3, <3>4 DEF DecisionInv, Settled
  <2>. QED BY <1>3, <2>3, <2>4, <2>5, <2>6, <2>7 DEF RequestStep
<1>4. ASSUME NEW a \in Actors, ActorStep(a) \/ OpFails(a) PROVE DecisionInv'
  BY <1>4, ActorNext
<1>5. ASSUME NEW t \in Tabs, TabStep(t) PROVE DecisionInv'
  <2>1. UNCHANGED <<record, accountVerified, op, methods, images>>
    BY <1>5 DEF TabStep, Load, SubmitAgain, ContinueFromDetailsStep, ChooseCapture, TakePhoto,
       SwitchToPhoneCapture, MountPanel, PollSession, HandleSubmit, PanelAnswer, SubmitAnswer, serverVars
  <2>. QED BY <1>5, <2>1, TabLeavesRequests, QuietKeepsDecisions DEF DecisionInv
<1>6. ASSUME NEW r \in Requests, Discard(r) PROVE DecisionInv'
  <2>1. \A p \in Requests : req'[p] = IF p = r THEN NoRequest ELSE req[p]
    BY <1>1, <1>6 DEF Discard
  <2>2. \A p \in Requests : req'[p].pc \in WritePcs => req[p].pc \in WritePcs
    BY <2>1 DEF NoRequest, WritePcs
  <2>. QED BY <1>6, <2>2, QuietKeepsDecisions DEF Discard, DecisionInv
<1>7. ASSUME \/ \E m \in Phones : PhoneStep(m)
             \/ \E s \in Sessions : ExpireSession(s)
             \/ UNCHANGED vars
      PROVE  UNCHANGED <<record, accountVerified, op, methods, images, req>>
  BY <1>7 DEF PhoneStep, OpenLink, SendPhoto, PutPhoto, SetColumn, UploadFails, ExpireSession,
     vars, serverVars
<1>. QED
  BY <1>2, <1>3, <1>4, <1>5, <1>6, <1>7 DEF Next, ServerNext

LEMMA DecisionsKept == OneAtATime /\ Spec => [](PagesInv /\ DecisionInv)
  BY PagesInit, PagesNext, DecisionInit, DecisionNext, PTL DEF Spec

\* A decision of the tool (verification-admin.ts) is about the submission the
\* reviewer was shown, with the photos that were shown: for any number of
\* submissions, phones and links, if there is one reviewer and what changes the
\* status is done one at a time.
THEOREM DecisionsAreAsShown == OneAtATime /\ Spec => []DecidedAsShown
<1>1. DecisionInv => DecidedAsShown
  BY DEF DecisionInv, Knows, DecidedAsShown
<1>. QED
  BY <1>1, DecisionsKept, PTL

\* approveUserVerification writes row, account and payout methods one after the
\* other: what is verified in one is verified in all, unless an approval broke
\* off half way.
THEOREM VerifiedIsAlwaysWhole == OneAtATime /\ Spec => []VerifiedIsWhole
<1>1. DecisionInv => VerifiedIsWhole
  BY DEF DecisionInv, Settled, Undecided, Approving, VerifiedIsWhole
<1>. QED
  BY <1>1, DecisionsKept, PTL

\* No submission that was under way, no enrolment and no decision changes an
\* account that has been verified, or its payout methods.
THEOREM VerifiedStaysFinal == OneAtATime /\ Spec => VerifiedIsFinal
<1>. DEFINE Final ==
       /\ record.status = "verified" => record' = record
       /\ record.status = "verified" /\ accountVerified /\ Undecided =>
            \A m \in Present : methods'[m].details = methods[m].details
<1>1. PagesInv /\ DecisionInv /\ [Next]_vars => [Final]_vars
  <2>. SUFFICES ASSUME PagesInv, DecisionInv, [Next]_vars, record.status = "verified"
                PROVE  record' = record /\ (Undecided => methods' = methods)
    OBVIOUS
  <2>1. ASSUME NEW r \in Requests, RequestStep(r) \/ RequestFails(r)
        PROVE  UNCHANGED <<record, methods>>
    <3>1. ~WriteSubmission(r)
      BY DEF WriteSubmission, At, WritePcs, DecisionInv, CanSubmit
    <3>. QED
      BY <2>1, <3>1 DEF RequestStep, RequestFails, CheckCapture, CloseOthers, InsertSession,
         CheckSubmit, ResolveSession, StoreImage, ConsumeSession
  <2>2. ASSUME NEW a \in Actors, ActorStep(a) \/ OpFails(a)
        PROVE  record' = record /\ (Undecided => methods' = methods)
    <3>1. op[a].pc \notin {"enroll", "approve", "reject"}
      BY DEF DecisionInv, Knows
    <3>2. Undecided => op[a].pc \in {"idle", "used"}
      BY DEF Undecided
    <3>. QED
      BY <2>2, <3>1, <3>2 DEF ActorStep, OpFails, StartEnroll, WriteEnrolled, Show, StartDecision,
         WriteVerified, SetAccountVerified, DeleteMethods, ProvisionMethod, WriteRejected,
         ClearAccountVerified, Doing
  <2>3. ASSUME \/ \E t \in Tabs : TabStep(t)
               \/ \E r \in Requests : Discard(r)
               \/ \E m \in Phones : PhoneStep(m)
               \/ \E s \in Sessions : ExpireSession(s)
               \/ UNCHANGED vars
        PROVE  UNCHANGED <<record, methods>>
    BY <2>3 DEF TabStep, Load, SubmitAgain, ContinueFromDetailsStep, ChooseCapture, TakePhoto,
       SwitchToPhoneCapture, MountPanel, PollSession, HandleSubmit, PanelAnswer, SubmitAnswer,
       Discard, PhoneStep, OpenLink, SendPhoto, PutPhoto, SetColumn, UploadFails, ExpireSession,
       vars, serverVars
  <2>. QED BY <2>1, <2>2, <2>3 DEF Next, ServerNext
<1>. QED
  BY <1>1, DecisionsKept, PTL DEF Spec, VerifiedIsFinal

----------------------------------------------------------------------------
(***************************************************************************)
(* Photos.  What a request has copied stays what it was, though phones go  *)
(* on uploading to the session it copies from, and nobody writes the       *)
(* photos of a row that is under review.                                   *)
(***************************************************************************)
\* The photos a request is about, and those it has stored.
Carries(q) ==
  /\ q.pc \in SubmitPcs =>
       \/ q.session = None /\ \E t \in Tabs : q.photos = [slot \in Slots |-> t]
       \/ q.session \in Sessions
  /\ q.pc \in {"store", "write"} =>
       /\ q.n \in 1 .. MaxSubmissions
       /\ q.session # None => session[q.session].columns = Slots
       /\ q.i \in 1 .. 4
       /\ \A j \in 1 .. 3 : j < q.i =>
            IF q.session = None THEN images[q.n][SlotOrder[j]] = q.photos[SlotOrder[j]]
            ELSE images[q.n][SlotOrder[j]] \in Phones
  /\ q.pc = "store" => q.i \in 1 .. 3
  /\ q.pc = "write" => q.i = 4

SessionFits(s) ==
  /\ DOMAIN session[s] = DOMAIN NoSession
  /\ session[s].columns \subseteq Slots /\ DOMAIN session[s].object = Slots
  /\ \A slot \in session[s].columns : session[s].object[slot] \in Phones

PhoneFits(m) ==
  /\ DOMAIN phone[m] = DOMAIN NoPage
  /\ phone[m].pc # "closed" => phone[m].session \in Sessions
  /\ phone[m].pc \in {"put", "column"} => phone[m].step \in Slots
  /\ phone[m].pc = "column" => session[phone[m].session].object[phone[m].step] \in Phones

\* All taken in one tab, or all sent by phones.
OneOrigin(p) ==
  \/ \A slot \in Slots : p[slot] \in Phones
  \/ \E t \in Tabs : \A slot \in Slots : p[slot] = t

PhotosInv ==
  /\ submissions \in 0 .. MaxSubmissions
  /\ images = [n \in 1 .. MaxSubmissions |-> images[n]]
  /\ \A n \in 1 .. MaxSubmissions : DOMAIN images[n] = Slots
  /\ session = [s \in Sessions |-> session[s]] /\ \A s \in Sessions : SessionFits(s)
  /\ phone = [m \in Phones |-> phone[m]] /\ \A m \in Phones : PhoneFits(m)
  /\ \A r \in Requests : Carries(req[r])
  /\ record.status \in {"pending_review", "verified"} => OneOrigin(images[record.images])

LEMMA PhotosInit == Init => PhotosInv
<1>. SUFFICES ASSUME Init PROVE PhotosInv
  OBVIOUS
<1>. USE DEF Init, ServerInit
<1>1. \A r \in Requests : Carries(req[r])
  BY DEF Carries, NoRequest, SubmitPcs, WritePcs
<1>2. \A s \in Sessions : SessionFits(s)
  BY DEF SessionFits, NoSession, NoPhotos
<1>3. \A m \in Phones : PhoneFits(m)
  BY DEF PhoneFits, NoPage
<1>4. record.status = "none"
  BY DEF NoRecord
<1>5. \A n \in 1 .. MaxSubmissions : DOMAIN images[n] = Slots
  BY DEF NoPhotos
<1>. QED BY <1>1, <1>2, <1>3, <1>4, <1>5 DEF PhotosInv

\* The slots are those that submit stores, in its order.
LEMMA EverySlot ==
  /\ \A slot \in Slots : \E j \in 1 .. 3 : slot = SlotOrder[j]
  /\ \A j \in 1 .. 3 : SlotOrder[j] \in Slots
  /\ \A j, k \in 1 .. 3 : SlotOrder[j] = SlotOrder[k] => j = k
  /\ Len(SlotOrder) = 3
  BY DEF Slots, SlotOrder

\* A step that changes neither sessions nor stored images nor phones.
LEMMA QuietKeepsPhotos ==
  ASSUME PhotosInv, UNCHANGED <<images, session, phone>>,
         submissions' \in 0 .. MaxSubmissions,
         \A r \in Requests : Carries(req'[r]),
         \/ record' = record
         \/ record'.status \notin {"pending_review", "verified"}
         \/ record.status = "pending_review" /\ record'.images = record.images
  PROVE  PhotosInv'
<1>1. \A r \in Requests : Carries(req[r])'
  BY DEF Carries
<1>2. record'.status \in {"pending_review", "verified"} => OneOrigin(images[record.images])'
  BY DEF PhotosInv, OneOrigin
<1>3. (\A s \in Sessions : SessionFits(s))' /\ (\A m \in Phones : PhoneFits(m))'
  BY DEF PhotosInv, SessionFits, PhoneFits
<1>. QED BY <1>1, <1>2, <1>3 DEF PhotosInv

\* A step of the sessions, in which no request gets further than it was.
LEMMA SessionsKeepPhotos ==
  ASSUME PhotosInv, UNCHANGED <<images, record, submissions>>,
         session' = [s \in Sessions |-> session'[s]],
         \A s \in Sessions :
           SessionFits(s)' /\ (session[s].columns = Slots => session'[s].columns = Slots),
         phone' = [m \in Phones |-> phone'[m]], \A m \in Phones : PhoneFits(m)',
         \A r \in Requests :
           req'[r] = req[r] \/ (req'[r].pc \notin SubmitPcs)
  PROVE  PhotosInv'
<1>1. \A r \in Requests : Carries(req[r])'
  <2>. SUFFICES ASSUME NEW r \in Requests, req'[r] = req[r] PROVE Carries(req[r])'
    BY DEF Carries, SubmitPcs, WritePcs
  <2>1. Carries(req[r])
    BY DEF PhotosInv
  <2>2. req'[r].pc \in {"store", "write"} /\ req'[r].session # None =>
          session'[req'[r].session].columns = Slots
    BY <2>1 DEF Carries, SubmitPcs, WritePcs
  <2>. QED BY <2>1, <2>2 DEF Carries
<1>. QED BY <1>1 DEF PhotosInv, OneOrigin

\* A session that changes its state only.
LEMMA StateKeepsPhotos ==
  ASSUME PhotosInv, UNCHANGED <<images, record, submissions, phone>>,
         session' = [s \in Sessions |-> session'[s]],
         \A s \in Sessions :
           session'[s] = session[s] \/ \E state : session'[s] = [session[s] EXCEPT !.state = state],
         \A r \in Requests : req'[r] = req[r] \/ (req'[r].pc \notin SubmitPcs)
  PROVE  PhotosInv'
<1>1. \A s \in Sessions : /\ session'[s].columns = session[s].columns
                          /\ session'[s].object = session[s].object
                          /\ DOMAIN session'[s] = DOMAIN NoSession
  BY DEF PhotosInv, SessionFits, NoSession
<1>2. \A s \in Sessions : SessionFits(s)'
  BY <1>1 DEF PhotosInv, SessionFits
<1>3. \A m \in Phones : PhoneFits(m)'
  BY <1>1 DEF PhotosInv, PhoneFits
<1>. QED BY <1>1, <1>2, <1>3, SessionsKeepPhotos DEF PhotosInv

\* The endpoints the phone calls: an object first, its column after it.
LEMMA PhoneKeepsPhotos ==
  ASSUME PagesInv, PhotosInv, NEW m \in Phones, PhoneStep(m)
  PROVE  PhotosInv'
<1>1. /\ session = [s \in Sessions |-> session[s]] /\ phone = [n \in Phones |-> phone[n]]
      /\ PhoneFits(m) /\ \A s \in Sessions : SessionFits(s)
  BY DEF PhotosInv
<1>2. ASSUME NEW p, phone' = [phone EXCEPT ![m] = p], DOMAIN p = DOMAIN NoPage,
             p.pc # "closed" => p.session \in Sessions,
             p.pc \in {"put", "column"} => p.step \in Slots,
             p.pc # "column", UNCHANGED <<images, record, submissions, session, req>>
      PROVE  PhotosInv'
  <2>1. phone' = [n \in Phones |-> phone'[n]] /\ phone'[m] = p /\ \A n \in Phones \ {m} : phone'[n] = phone[n]
    BY <1>1, <1>2
  <2>2. \A n \in Phones : PhoneFits(n)'
    BY <1>2, <2>1 DEF PhotosInv, PhoneFits
  <2>3. \A s \in Sessions : SessionFits(s)'
    BY <1>1, <1>2 DEF SessionFits
  <2>. QED BY <1>1, <1>2, <2>1, <2>2, <2>3, SessionsKeepPhotos
<1>3. CASE OpenLink(m)
  <2>1. PICK t \in Tabs :
          /\ tab[t].panelState = "shown"
          /\ Turn(m, [session |-> tab[t].panel, pc |-> "ready",
                      step |-> NextSlot(session[tab[t].panel].columns)])
    BY <1>3 DEF OpenLink
  <2>2. PICK p : p = [session |-> tab[t].panel, pc |-> "ready",
                      step |-> NextSlot(session[tab[t].panel].columns)]
    OBVIOUS
  <2>3. p.session \in Sessions /\ p.pc = "ready" /\ DOMAIN p = DOMAIN NoPage
    BY <2>1, <2>2 DEF PagesInv, Fits, NoPage
  <2>. QED BY <1>2, <1>3, <2>1, <2>2, <2>3 DEF OpenLink, Turn, serverVars
<1>4. CASE SendPhoto(m)
  <2>1. PICK pc \in {"put", "ready"} : phone' = [phone EXCEPT ![m] = [phone[m] EXCEPT !.pc = pc]]
    BY <1>4 DEF SendPhoto, Turn
  <2>2. PICK p : p = [phone[m] EXCEPT !.pc = pc]
    OBVIOUS
  <2>3. p.pc = pc /\ DOMAIN p = DOMAIN NoPage /\ p.session = phone[m].session /\ p.step = phone[m].step
    BY <1>1, <2>2 DEF PhoneFits, NoPage
  <2>4. phone[m].session \in Sessions /\ phone[m].step \in Slots
    BY <1>1, <1>4 DEF PhoneFits, SendPhoto
  <2>. QED BY <1>2, <1>4, <2>1, <2>2, <2>3, <2>4 DEF SendPhoto, serverVars
<1>5. CASE UploadFails(m)
  <2>1. PICK p : p = [phone[m] EXCEPT !.pc = "ready"]
    OBVIOUS
  <2>2. p.pc = "ready" /\ DOMAIN p = DOMAIN NoPage /\ p.session = phone[m].session
    BY <1>1, <2>1 DEF PhoneFits, NoPage
  <2>3. phone[m].session \in Sessions
    BY <1>1, <1>5 DEF PhoneFits, UploadFails
  <2>. QED BY <1>2, <1>5, <2>1, <2>2, <2>3 DEF UploadFails, Turn, serverVars
<1>6. CASE PutPhoto(m)
  <2>. DEFINE s == phone[m].session
              slot == phone[m].step
  <2>1. s \in Sessions /\ slot \in Slots
    BY <1>1, <1>6 DEF PhoneFits, PutPhoto
  <2>2. /\ session' = [session EXCEPT ![s].object[slot] = m]
        /\ phone' = [phone EXCEPT ![m] = [phone[m] EXCEPT !.pc = "column"]]
        /\ UNCHANGED <<images, record, submissions, req>>
    BY <1>6 DEF PutPhoto, Turn
  <2>3. /\ session' = [u \in Sessions |-> session'[u]]
        /\ \A u \in Sessions :
             /\ session'[u].columns = session[u].columns
             /\ DOMAIN session'[u] = DOMAIN NoSession /\ DOMAIN session'[u].object = Slots
             /\ \A x \in Slots : session'[u].object[x] =
                  IF u = s /\ x = slot THEN m ELSE session[u].object[x]
    BY <1>1, <2>1, <2>2 DEF SessionFits, NoSession
  <2>4. \A u \in Sessions : SessionFits(u)'
    BY <1>1, <2>3 DEF SessionFits
  <2>5. /\ phone' = [n \in Phones |-> phone'[n]] /\ \A n \in Phones \ {m} : phone'[n] = phone[n]
        /\ phone'[m].session = phone[m].session /\ phone'[m].step = phone[m].step
        /\ DOMAIN phone'[m] = DOMAIN NoPage
    BY <1>1, <2>2 DEF PhoneFits, NoPage
  <2>6. \A n \in Phones : PhoneFits(n)'
    <3>1. PhoneFits(m)'
      BY <2>1, <2>3, <2>5 DEF PhoneFits
    <3>2. ASSUME NEW n \in Phones \ {m} PROVE PhoneFits(n)'
      <4>1. PhoneFits(n) /\ phone'[n] = phone[n]
        BY <2>5 DEF PhotosInv
      <4>2. \A u \in Sessions, x \in Slots :
              session[u].object[x] \in Phones => session'[u].object[x] \in Phones
        BY <2>3
      <4>. QED BY <4>1, <4>2 DEF PhoneFits
    <3>. QED BY <3>1, <3>2
  <2>. QED BY <2>2, <2>3, <2>4, <2>5, <2>6, SessionsKeepPhotos
<1>7. CASE SetColumn(m)
  <2>. DEFINE s == phone[m].session
              slot == phone[m].step
  <2>1. s \in Sessions /\ slot \in Slots /\ session[s].object[slot] \in Phones
    BY <1>1, <1>7 DEF PhoneFits, SetColumn
  <2>2. PICK step : phone' = [phone EXCEPT ![m] = [phone[m] EXCEPT !.pc = "ready", !.step = step]]
    BY <1>7 DEF SetColumn, Turn
  <2>3. /\ session' = [session EXCEPT ![s].columns = @ \cup {slot}]
        /\ UNCHANGED <<images, record, submissions, req>>
    BY <1>7 DEF SetColumn
  <2>4. /\ session' = [u \in Sessions |-> session'[u]]
        /\ \A u \in Sessions :
             /\ session'[u].columns = session[u].columns \/
                  (u = s /\ session'[u].columns = session[u].columns \cup {slot})
             /\ session'[u].object = session[u].object
             /\ DOMAIN session'[u] = DOMAIN NoSession
    BY <1>1, <2>1, <2>3 DEF SessionFits, NoSession
  <2>5. \A u \in Sessions :
          SessionFits(u)' /\ (session[u].columns = Slots => session'[u].columns = Slots)
    <3>. SUFFICES ASSUME NEW u \in Sessions
                  PROVE  SessionFits(u)' /\ (session[u].columns = Slots => session'[u].columns = Slots)
      OBVIOUS
    <3>1. SessionFits(u) /\ DOMAIN session'[u] = DOMAIN NoSession /\ session'[u].object = session[u].object
      BY <1>1, <2>4
    <3>2. CASE session'[u].columns = session[u].columns
      BY <3>1, <3>2 DEF SessionFits
    <3>3. CASE u = s /\ session'[u].columns = session[u].columns \cup {slot}
      <4>1. session'[u].columns \subseteq Slots
        BY <2>1, <3>1, <3>3 DEF SessionFits
      <4>2. session[u].columns = Slots => session'[u].columns = Slots
        BY <2>1, <3>3
      <4>3. \A x \in session'[u].columns : session'[u].object[x] \in Phones
        BY <2>1, <3>1, <3>3 DEF SessionFits
      <4>. QED BY <3>1, <4>1, <4>2, <4>3 DEF SessionFits
    <3>. QED BY <2>4, <3>2, <3>3
  <2>6. /\ phone' = [n \in Phones |-> phone'[n]] /\ \A n \in Phones \ {m} : phone'[n] = phone[n]
        /\ phone'[m].session = phone[m].session /\ phone'[m].pc = "ready"
        /\ DOMAIN phone'[m] = DOMAIN NoPage
    BY <1>1, <2>2 DEF PhoneFits, NoPage
  <2>7. \A n \in Phones : PhoneFits(n)'
    BY <2>1, <2>4, <2>6 DEF PhotosInv, PhoneFits
  <2>. QED BY <2>3, <2>4, <2>5, <2>6, <2>7, SessionsKeepPhotos
<1>. QED
  BY <1>3, <1>4, <1>5, <1>6, <1>7 DEF PhoneStep

\* The handler of a submission stores each photo before the row names them.
LEMMA HandlerKeepsPhotos ==
  ASSUME PagesInv, DecisionInv, PhotosInv, NEW r \in Requests,
         RequestStep(r) \/ RequestFails(r), phone' = phone
  PROVE  PhotosInv'
<1>. USE DEF At, Go, Answer, SubmitPcs, WritePcs
<1>1. /\ req = [p \in Requests |-> req[p]] /\ DOMAIN req[r] = DOMAIN NoRequest /\ Carries(req[r])
      /\ submissions \in 0 .. MaxSubmissions
  BY DEF PagesInv, PhotosInv
<1>2. ASSUME NEW q, req' = [req EXCEPT ![r] = q], Carries(q)
      PROVE  \A p \in Requests : Carries(req'[p])
  BY <1>1, <1>2 DEF PhotosInv
<1>3. ASSUME NEW q, req' = [req EXCEPT ![r] = q], q.pc \notin SubmitPcs
      PROVE  /\ \A p \in Requests : Carries(req'[p])
             /\ \A p \in Requests : req'[p] = req[p] \/ req'[p].pc \notin SubmitPcs
  <2>1. Carries(q)
    BY <1>3 DEF Carries
  <2>. QED BY <1>1, <1>2, <1>3, <2>1
<1>4. ASSUME NEW outcome, Answer(r, outcome)
      PROVE  /\ \A p \in Requests : Carries(req'[p])
             /\ \A p \in Requests : req'[p] = req[p] \/ req'[p].pc \notin SubmitPcs
  <2>1. PICK q : q = [req[r] EXCEPT !.pc = "done", !.outcome = outcome]
    OBVIOUS
  <2>2. q.pc = "done" /\ req' = [req EXCEPT ![r] = q]
    BY <1>1, <1>4, <2>1 DEF NoRequest
  <2>. QED BY <1>3, <2>2
<1>5. ASSUME NEW pc \in {"closeOthers", "insertSession"}, Go(r, pc)
      PROVE  /\ \A p \in Requests : Carries(req'[p])
             /\ \A p \in Requests : req'[p] = req[p] \/ req'[p].pc \notin SubmitPcs
  <2>1. PICK q : q = [req[r] EXCEPT !.pc = pc]
    OBVIOUS
  <2>2. q.pc = pc /\ req' = [req EXCEPT ![r] = q]
    BY <1>1, <1>5, <2>1 DEF NoRequest
  <2>. QED BY <1>3, <2>2
<1>6. ASSUME NEW pc \in {"resolve", "consume"}, Go(r, pc), req[r].pc \in SubmitPcs
      PROVE  \A p \in Requests : Carries(req'[p])
  <2>1. PICK q : q = [req[r] EXCEPT !.pc = pc]
    OBVIOUS
  <2>2. /\ q.pc = pc /\ req' = [req EXCEPT ![r] = q]
        /\ q.session = req[r].session /\ q.photos = req[r].photos
    BY <1>1, <1>6, <2>1 DEF NoRequest
  <2>3. Carries(q)
    BY <1>1, <1>6, <2>2 DEF Carries
  <2>. QED BY <1>2, <2>2, <2>3
<1>7. CASE CheckCapture(r) \/ CheckSubmit(r) \/ RequestFails(r)
  BY <1>1, <1>4, <1>5, <1>6, <1>7, QuietKeepsPhotos DEF CheckCapture, CheckSubmit, RequestFails
<1>8. CASE CloseOthers(r)
  <2>1. \A s \in Sessions : \E state : session'[s] = [session[s] EXCEPT !.state = state]
    BY <1>8 DEF CloseOthers
  <2>2. session' = [s \in Sessions |-> session'[s]]
    BY <1>8 DEF CloseOthers
  <2>. QED BY <1>5, <1>8, <2>1, <2>2, StateKeepsPhotos DEF CloseOthers
<1>9. CASE InsertSession(r)
  <2>1. PICK s \in Sessions :
          /\ session' = [session EXCEPT ![s].state = "live"]
          /\ req' = [req EXCEPT ![r].pc = "done", ![r].outcome = "ok", ![r].session = s]
    BY <1>9 DEF InsertSession
  <2>2. PICK q : q = [req[r] EXCEPT !.pc = "done", !.outcome = "ok", !.session = s]
    OBVIOUS
  <2>3. q.pc = "done" /\ req' = [req EXCEPT ![r] = q]
    BY <1>1, <2>1, <2>2 DEF NoRequest
  <2>4. \A u \in Sessions :
          session'[u] = session[u] \/ \E state : session'[u] = [session[u] EXCEPT !.state = state]
    BY <2>1 DEF PhotosInv
  <2>5. session' = [u \in Sessions |-> session'[u]]
    BY <2>1 DEF PhotosInv
  <2>. QED BY <1>3, <1>9, <2>3, <2>4, <2>5, StateKeepsPhotos DEF InsertSession
<1>10. CASE ConsumeSession(r)
  <2>1. \A u \in Sessions :
          session'[u] = session[u] \/ \E state : session'[u] = [session[u] EXCEPT !.state = state]
    BY <1>10 DEF ConsumeSession, PhotosInv
  <2>2. session' = [u \in Sessions |-> session'[u]]
    BY <1>10 DEF ConsumeSession, PhotosInv
  <2>. QED BY <1>4, <1>10, <2>1, <2>2, StateKeepsPhotos DEF ConsumeSession
<1>11. CASE ResolveSession(r)
  <2>1. CASE Answer(r, "error") /\ UNCHANGED submissions
    BY <1>1, <1>4, <1>11, <2>1, QuietKeepsPhotos DEF ResolveSession
  <2>2. CASE /\ req[r].session = None \/ Usable(req[r].session)
             /\ submissions < MaxSubmissions /\ submissions' = submissions + 1
             /\ req' = [req EXCEPT ![r].pc = "store", ![r].n = submissions + 1, ![r].i = 1]
    <3>1. PICK q : q = [req[r] EXCEPT !.pc = "store", !.n = submissions + 1, !.i = 1]
      OBVIOUS
    <3>2. /\ q.pc = "store" /\ q.n = submissions + 1 /\ q.i = 1
          /\ req' = [req EXCEPT ![r] = q]
          /\ q.session = req[r].session /\ q.photos = req[r].photos
      BY <1>1, <2>2, <3>1 DEF NoRequest
    <3>3. Carries(q)
      BY <1>1, <1>11, <2>2, <3>2 DEF Carries, Usable, Complete, ResolveSession
    <3>. QED BY <1>1, <1>2, <1>11, <2>2, <3>2, <3>3, QuietKeepsPhotos DEF ResolveSession
  <2>. QED BY <1>11, <2>1, <2>2 DEF ResolveSession
<1>12. CASE StoreImage(r)
  <2>. DEFINE n == req[r].n
              i == req[r].i
              u == req[r].session
  <2>1. /\ req[r].pc = "store" /\ i \in 1 .. 3 /\ n \in 1 .. MaxSubmissions
        /\ CanSubmit(record.status) /\ record.status \notin {"pending_review", "verified"}
    BY <1>1, <1>12 DEF StoreImage, Carries, DecisionInv, CanSubmit
  <2>2. PICK photo :
          /\ photo = IF u = None THEN req[r].photos[SlotOrder[i]] ELSE session[u].object[SlotOrder[i]]
          /\ images' = [images EXCEPT ![n][SlotOrder[i]] = photo]
          /\ UNCHANGED <<record, session, submissions>>
    BY <1>12 DEF StoreImage
  <2>3. u # None => photo \in Phones
    BY <1>1, <2>1, <2>2, EverySlot DEF Carries, PhotosInv, SessionFits
  <2>4. /\ images' = [k \in 1 .. MaxSubmissions |-> images'[k]]
        /\ \A k \in 1 .. MaxSubmissions : DOMAIN images'[k] = Slots
        /\ \A slot \in Slots :
             images'[n][slot] = IF slot = SlotOrder[i] THEN photo ELSE images[n][slot]
    BY <2>1, <2>2, EverySlot DEF PhotosInv
  <2>5. PICK q : q = [req[r] EXCEPT !.i = i + 1, !.pc = IF i = Len(SlotOrder) THEN "write" ELSE "store"]
    OBVIOUS
  <2>6. /\ req' = [req EXCEPT ![r] = q]
        /\ q.i = i + 1 /\ q.pc = (IF i = 3 THEN "write" ELSE "store")
        /\ q.n = n /\ q.session = u /\ q.photos = req[r].photos
    BY <1>1, <1>12, <2>1, <2>5, EverySlot DEF StoreImage, NoRequest
  <2>7. \A j \in 1 .. 3 : j < q.i =>
          IF u = None THEN images'[n][SlotOrder[j]] = req[r].photos[SlotOrder[j]]
          ELSE images'[n][SlotOrder[j]] \in Phones
    <3>. SUFFICES ASSUME NEW j \in 1 .. 3, j < q.i
                  PROVE  IF u = None THEN images'[n][SlotOrder[j]] = req[r].photos[SlotOrder[j]]
                         ELSE images'[n][SlotOrder[j]] \in Phones
      OBVIOUS
    <3>1. CASE j = i
      <4>1. images'[n][SlotOrder[j]] = photo
        BY <2>1, <2>4, <3>1, EverySlot
      <4>. QED BY <2>2, <2>3, <3>1, <4>1
    <3>2. CASE j < i
      <4>1. images'[n][SlotOrder[j]] = images[n][SlotOrder[j]]
        BY <2>1, <2>4, <3>2, EverySlot
      <4>. QED BY <1>1, <2>1, <3>2, <4>1 DEF Carries
    <3>. QED BY <2>1, <2>6, <3>1, <3>2
  <2>8. Carries(q)'
    <3>1. \/ q.session = None /\ \E t \in Tabs : q.photos = [slot \in Slots |-> t]
          \/ q.session \in Sessions
      BY <1>1, <2>1, <2>6 DEF Carries
    <3>2. q.session # None => session'[q.session].columns = Slots
      BY <1>1, <2>1, <2>2, <2>6 DEF Carries
    <3>3. /\ q.n \in 1 .. MaxSubmissions /\ q.i \in 1 .. 4 /\ q.pc \in {"store", "write"}
          /\ q.pc = "store" => q.i \in 1 .. 3
          /\ q.pc = "write" => q.i = 4
      BY <2>1, <2>6
    <3>4. \A j \in 1 .. 3 : j < q.i =>
            IF q.session = None THEN images'[q.n][SlotOrder[j]] = q.photos[SlotOrder[j]]
            ELSE images'[q.n][SlotOrder[j]] \in Phones
      BY <2>6, <2>7
    <3>. QED BY <3>1, <3>2, <3>3, <3>4 DEF Carries
  <2>9. \A p \in Requests : p = r
    BY DEF DecisionInv, OneAtATime
  <2>10. req'[r] = q
    BY <1>1, <2>6
  <2>11. (\A s \in Sessions : SessionFits(s))' /\ (\A m \in Phones : PhoneFits(m))'
    BY <2>2 DEF PhotosInv, SessionFits, PhoneFits
  <2>. QED BY <2>1, <2>2, <2>4, <2>8, <2>9, <2>10, <2>11 DEF PhotosInv
<1>13. CASE WriteSubmission(r)
  <2>1. /\ req[r].pc = "write" /\ record'.status = "pending_review" /\ record'.images = req[r].n
        /\ UNCHANGED <<images, session, submissions>>
    BY <1>13 DEF WriteSubmission
  <2>2. \A slot \in Slots :
          IF req[r].session = None THEN images[req[r].n][slot] = req[r].photos[slot]
          ELSE images[req[r].n][slot] \in Phones
    <3>1. req[r].i = 4
      BY <1>1, <2>1 DEF Carries
    <3>2. \A j \in 1 .. 3 :
            IF req[r].session = None
            THEN images[req[r].n][SlotOrder[j]] = req[r].photos[SlotOrder[j]]
            ELSE images[req[r].n][SlotOrder[j]] \in Phones
      BY <1>1, <2>1, <3>1 DEF Carries
    <3>. QED BY <3>2, EverySlot
  <2>3. OneOrigin(images[req[r].n])
    <3>1. CASE req[r].session = None
      <4>1. PICK t \in Tabs : req[r].photos = [slot \in Slots |-> t]
        BY <1>1, <2>1, <3>1 DEF Carries
      <4>2. \A slot \in Slots : images[req[r].n][slot] = t
        BY <2>2, <3>1, <4>1
      <4>. QED BY <4>2 DEF OneOrigin
    <3>2. CASE req[r].session # None
      BY <2>2, <3>2 DEF OneOrigin
    <3>. QED BY <3>1, <3>2
  <2>4. \A p \in Requests : Carries(req'[p])
    BY <1>4, <1>6, <1>13, <2>1 DEF WriteSubmission
  <2>5. (\A p \in Requests : Carries(req[p]))'
    BY <2>1, <2>4 DEF Carries
  <2>6. (\A s \in Sessions : SessionFits(s))' /\ (\A m \in Phones : PhoneFits(m))'
    BY <2>1 DEF PhotosInv, SessionFits, PhoneFits
  <2>. QED BY <2>1, <2>3, <2>5, <2>6 DEF PhotosInv
<1>. QED
  BY <1>7, <1>8, <1>9, <1>10, <1>11, <1>12, <1>13 DEF RequestStep

\* The wizard sends photos that were all taken in the tab, or the id of the
\* session the phones have filled.
LEMMA TabKeepsPhotos ==
  ASSUME PagesInv, PhotosInv, NEW t \in Tabs, TabStep(t)
  PROVE  PhotosInv'
<1>1. /\ req = [p \in Requests |-> req[p]] /\ \A p \in Requests : DOMAIN req[p] = DOMAIN NoRequest
      /\ \A p \in Requests : Carries(req[p])
      /\ submissions \in 0 .. MaxSubmissions
  BY DEF PagesInv, PhotosInv
<1>2. UNCHANGED <<record, images, session, phone, submissions>>
  BY DEF TabStep, Load, SubmitAgain, ContinueFromDetailsStep, ChooseCapture, TakePhoto,
     SwitchToPhoneCapture, MountPanel, PollSession, HandleSubmit, PanelAnswer, SubmitAnswer, serverVars
<1>3. CASE Load(t)
  <2>1. \A p \in Requests : req'[p] = req[p] \/ req'[p] = [req[p] EXCEPT !.tab = None]
    BY <1>3 DEF Load
  <2>2. \A p \in Requests :
          /\ req'[p].pc = req[p].pc /\ req'[p].session = req[p].session /\ req'[p].n = req[p].n
          /\ req'[p].photos = req[p].photos /\ req'[p].i = req[p].i
    BY <1>1, <2>1 DEF NoRequest
  <2>3. \A p \in Requests : Carries(req'[p])
    BY <1>1, <2>2 DEF Carries
  <2>. QED BY <1>1, <1>2, <2>3, QuietKeepsPhotos
<1>4. ASSUME NEW pc \in {"capture", "submit"}, Send(t, pc),
             pc = "submit" => tab[t].session # None \/ \A slot \in Slots : tab[t].photos[slot] # None
      PROVE  PhotosInv'
  <2>1. PICK r \in Requests :
          req' = [req EXCEPT ![r] = [NoRequest EXCEPT
                    !.pc = pc, !.tab = t, !.details = tab[t].details,
                    !.session = IF pc = "submit" THEN tab[t].session ELSE None,
                    !.photos = tab[t].photos]]
    BY <1>4 DEF Send
  <2>2. PICK q : q = [NoRequest EXCEPT
                        !.pc = pc, !.tab = t, !.details = tab[t].details,
                        !.session = IF pc = "submit" THEN tab[t].session ELSE None,
                        !.photos = tab[t].photos]
    OBVIOUS
  <2>3. /\ req' = [req EXCEPT ![r] = q] /\ q.pc = pc /\ q.photos = tab[t].photos
        /\ q.session = IF pc = "submit" THEN tab[t].session ELSE None
    BY <2>1, <2>2 DEF NoRequest
  <2>4. tab[t].photos \in [Slots -> {None, t}] /\ tab[t].session \in Sessions \cup {None}
    BY DEF PagesInv, Fits
  <2>5. pc = "submit" /\ tab[t].session = None => tab[t].photos = [slot \in Slots |-> t]
    BY <1>4, <2>4
  <2>6. Carries(q)
    BY <1>4, <2>3, <2>4, <2>5 DEF Carries, SubmitPcs, WritePcs
  <2>7. \A p \in Requests : Carries(req'[p])
    BY <1>1, <2>3, <2>6
  <2>. QED BY <1>1, <1>2, <2>7, QuietKeepsPhotos
<1>5. CASE MountPanel(t)
  BY <1>4, <1>5 DEF MountPanel
<1>6. CASE HandleSubmit(t)
  <2>1. CASE Send(t, "submit")
    BY <1>4, <1>6, <2>1 DEF HandleSubmit, ShowsReview, PagesInv, Fits
  <2>2. CASE UNCHANGED req
    BY <1>1, <1>2, <2>2, QuietKeepsPhotos
  <2>. QED BY <1>6, <2>1, <2>2 DEF HandleSubmit
<1>7. ASSUME NEW r \in Requests, PanelAnswer(t, r) \/ SubmitAnswer(t, r) PROVE PhotosInv'
  <2>1. \A p \in Requests : req'[p] = req[p] \/ req'[p] = NoRequest
    BY <1>1, <1>7 DEF PanelAnswer, SubmitAnswer
  <2>2. Carries(NoRequest)
    BY DEF Carries, NoRequest, SubmitPcs, WritePcs
  <2>. QED BY <1>1, <1>2, <2>1, <2>2, QuietKeepsPhotos
<1>8. CASE UNCHANGED req
  BY <1>1, <1>2, <1>8, QuietKeepsPhotos
<1>. QED
  BY <1>3, <1>5, <1>6, <1>7, <1>8 DEF TabStep, SubmitAgain, ContinueFromDetailsStep, ChooseCapture,
     TakePhoto, SwitchToPhoneCapture, PollSession, serverVars

LEMMA PhotosNext == PagesInv /\ DecisionInv /\ PhotosInv /\ [Next]_vars => PhotosInv'
<1>. SUFFICES ASSUME PagesInv, DecisionInv, PhotosInv, [Next]_vars PROVE PhotosInv'
  OBVIOUS
<1>0. submissions \in 0 .. MaxSubmissions /\ \A r \in Requests : Carries(req[r])
  BY DEF PhotosInv
<1>1. ASSUME NEW a \in Actors, ActorStep(a) \/ OpFails(a), UNCHANGED pageVars PROVE PhotosInv'
  <2>1. UNCHANGED <<images, session, phone, submissions, req>>
    BY <1>1 DEF pageVars, ActorStep, OpFails, StartEnroll, WriteEnrolled, Show, StartDecision,
       WriteVerified, SetAccountVerified, DeleteMethods, ProvisionMethod, WriteRejected,
       ClearAccountVerified
  <2>2. \/ record' = record
        \/ record'.status \notin {"pending_review", "verified"}
        \/ record.status = "pending_review" /\ record'.images = record.images
    <3>1. op[a].pc \in {"approve", "reject"} => record.status = "pending_review"
      BY DEF DecisionInv, Knows
    <3>2. DOMAIN record = DOMAIN NoRecord
      BY DEF DecisionInv
    <3>3. WriteVerified(a) => record.status = "pending_review" /\ record'.images = record.images
      BY <3>1, <3>2 DEF WriteVerified, Doing, NoRecord
    <3>4. WriteRejected(a) => record'.status = "rejected"
      BY <3>2 DEF WriteRejected, NoRecord
    <3>5. WriteEnrolled(a) => record'.status = "enrolled"
      BY DEF WriteEnrolled, NoRecord
    <3>. QED
      BY <1>1, <3>3, <3>4, <3>5 DEF ActorStep, OpFails, StartEnroll, Show, StartDecision,
         SetAccountVerified, DeleteMethods, ProvisionMethod, ClearAccountVerified
  <2>. QED BY <1>0, <2>1, <2>2, QuietKeepsPhotos
<1>2. ASSUME NEW s \in Sessions, ExpireSession(s), UNCHANGED pageVars PROVE PhotosInv'
  <2>1. \A u \in Sessions :
          session'[u] = session[u] \/ \E state : session'[u] = [session[u] EXCEPT !.state = state]
    BY <1>2 DEF ExpireSession, PhotosInv
  <2>2. session' = [u \in Sessions |-> session'[u]]
    BY <1>2 DEF ExpireSession, PhotosInv
  <2>. QED BY <1>2, <2>1, <2>2, StateKeepsPhotos DEF ExpireSession, pageVars
<1>3. ASSUME NEW r \in Requests, Discard(r) PROVE PhotosInv'
  <2>1. \A p \in Requests : req'[p] = req[p] \/ req'[p] = NoRequest
    BY <1>3 DEF Discard, PagesInv
  <2>2. Carries(NoRequest)
    BY DEF Carries, NoRequest, SubmitPcs, WritePcs
  <2>. QED BY <1>0, <1>3, <2>1, <2>2, QuietKeepsPhotos DEF Discard, pageVars
<1>4. ASSUME UNCHANGED vars PROVE PhotosInv'
  BY <1>0, <1>4, QuietKeepsPhotos DEF vars, serverVars, pageVars
<1>5. ASSUME NEW r \in Requests, RequestStep(r) \/ RequestFails(r), UNCHANGED pageVars PROVE PhotosInv'
  BY <1>5, HandlerKeepsPhotos DEF pageVars
<1>. QED
  BY <1>1, <1>2, <1>3, <1>4, <1>5, TabKeepsPhotos, PhoneKeepsPhotos DEF Next, ServerNext

\* A row under review, or verified, names three stored photos of one origin
\* (verification.service.ts): for any number of tabs, phones and capture
\* sessions, whichever handlers break off half way.
THEOREM SubmissionIsAlwaysComplete == OneAtATime /\ Spec => []SubmissionIsComplete
<1>1. PhotosInv => SubmissionIsComplete
  <2>. SUFFICES ASSUME PhotosInv, record.status \in {"pending_review", "verified"}
                PROVE  LET photos == {images[record.images][slot] : slot \in Slots}
                       IN  photos \subseteq Phones \/ \E t \in Tabs : photos = {t}
    BY DEF SubmissionIsComplete
  <2>1. OneOrigin(images[record.images])
    BY DEF PhotosInv
  <2>2. "selfie" \in Slots
    BY DEF Slots
  <2>. QED BY <2>1, <2>2 DEF OneOrigin
<1>. QED
  BY <1>1, DecisionsKept, PhotosInit, PhotosNext, PTL DEF Spec
=============================================================================
