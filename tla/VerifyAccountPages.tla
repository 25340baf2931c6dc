------------------------- MODULE VerifyAccountPages -------------------------
(***************************************************************************)
(* The verification wizard in a browser tab (VerifyAccountWizard.tsx with  *)
(* QrCapturePanel.tsx and CameraCapture.tsx), the page a phone opens from  *)
(* its QR code (MobileCaptureWizard.tsx), and the server behind both.      *)
(*                                                                         *)
(* A tab can be reloaded at any time: its state is lost, a request it has  *)
(* sent is not.                                                            *)
(***************************************************************************)
EXTENDS Verification

CONSTANTS Desktops  \* the tabs whose viewport is a desktop's

VARIABLES
  tab,   \* the wizard in each tab
  phone  \* the capture page on each phone

pageVars == <<tab, phone>>
vars == <<serverVars, pageVars>>

NewTab(status) ==
  [view |-> status, resubmitting |-> FALSE, step |-> 1, mode |-> "none",
   details |-> None, photos |-> NoPhotos, session |-> None,
   panel |-> None, panelState |-> "none", loading |-> FALSE]
NoPage == [session |-> None, step |-> "none", pc |-> "closed"]

Init ==
  /\ ServerInit
  /\ tab = [t \in Tabs |-> NewTab("none")]
  /\ phone = [m \in Phones |-> NoPage]

ShowsStatusCard(t) ==
  \/ tab[t].view \in {"none", "pending_review", "verified"}
  \/ tab[t].view = "rejected" /\ ~tab[t].resubmitting
InWizard(t) == ~ShowsStatusCard(t)
ShowsDetails(t) == InWizard(t) /\ tab[t].step = 1
ShowsReview(t) == InWizard(t) /\ tab[t].step = 6

Update(t, state) == tab' = [tab EXCEPT ![t] = state]
\* A handler that is free takes the tab's request.
Send(t, pc) ==
  \E r \in Requests :
    /\ At(r, "idle")
    /\ req' = [req EXCEPT ![r] = [NoRequest EXCEPT
                 !.pc = pc, !.tab = t, !.details = tab[t].details,
                 !.session = IF pc = "submit" THEN tab[t].session ELSE None,
                 !.photos = tab[t].photos]]

Load(t) ==
  /\ Update(t, NewTab(record.status))
  /\ req' = [r \in Requests |-> IF req[r].tab = t THEN [req[r] EXCEPT !.tab = None] ELSE req[r]]
  /\ UNCHANGED <<record, accountVerified, session, images, submissions, op, methods, phone>>

Discard(r) ==
  /\ At(r, "done") /\ req[r].tab = None
  /\ req' = [req EXCEPT ![r] = NoRequest]
  /\ UNCHANGED <<record, accountVerified, session, images, submissions, op, methods, pageVars>>

SubmitAgain(t) ==
  /\ tab[t].view = "rejected" /\ ~tab[t].resubmitting
  /\ Update(t, [tab[t] EXCEPT !.resubmitting = TRUE])
  /\ UNCHANGED <<serverVars, phone>>

ContinueUnvalidated(t) ==
  /\ ShowsDetails(t)
  /\ \E d \in Details \cup {None} :
       Update(t, IF t \in Desktops THEN [tab[t] EXCEPT !.details = d, !.step = 2]
                 ELSE [tab[t] EXCEPT !.details = d, !.step = 3, !.mode = "device"])
  /\ UNCHANGED <<serverVars, phone>>

\* What is typed may be invalid (None).
ContinueFromDetailsStep(t) ==
  /\ ShowsDetails(t)
  /\ \E d \in Details \cup {None} :
       Update(t, IF d = None THEN [tab[t] EXCEPT !.details = None]
                 ELSE IF t \in Desktops THEN [tab[t] EXCEPT !.details = d, !.step = 2]
                 ELSE [tab[t] EXCEPT !.details = d, !.step = 3, !.mode = "device"])
  /\ UNCHANGED <<serverVars, phone>>

ShowsDesktopChoice(t) == InWizard(t) /\ tab[t].step = 2 /\ t \in Desktops /\ tab[t].mode = "none"

ChooseCapture(t) ==
  /\ ShowsDesktopChoice(t)
  /\ \E mode \in {"device", "phone"} :
       Update(t, [tab[t] EXCEPT !.mode = mode, !.step = 3])
  /\ UNCHANGED <<serverVars, phone>>

OnDevice(t) == InWizard(t) /\ tab[t].mode = "device" /\ tab[t].step \in 3 .. 5

TakePhoto(t) ==
  /\ OnDevice(t)
  /\ Update(t, [tab[t] EXCEPT !.photos[SlotOrder[tab[t].step - 2]] = t, !.step = @ + 1])
  /\ UNCHANGED <<serverVars, phone>>

SwitchToPhoneCapture(t) ==
  /\ OnDevice(t)
  /\ Update(t, [tab[t] EXCEPT !.mode = "phone", !.photos = NoPhotos, !.step = 3])
  /\ UNCHANGED <<serverVars, phone>>

ShowsPanel(t) == InWizard(t) /\ tab[t].mode = "phone" /\ tab[t].step = 3

MountPanel(t) ==
  /\ ShowsPanel(t) /\ tab[t].panelState = "none"
  /\ Send(t, "capture")
  /\ Update(t, [tab[t] EXCEPT !.panelState = "asking"])
  /\ UNCHANGED <<record, accountVerified, session, images, submissions, op, methods, phone>>

PanelAnswer(t, r) ==
  /\ At(r, "done") /\ req[r].tab = t /\ tab[t].panelState = "asking"
  /\ Update(t, IF req[r].outcome = "ok"
               THEN [tab[t] EXCEPT !.panelState = "shown", !.panel = req[r].session]
               ELSE [tab[t] EXCEPT !.panelState = "failed"])
  /\ req' = [req EXCEPT ![r] = NoRequest]
  /\ UNCHANGED <<record, accountVerified, session, images, submissions, op, methods, phone>>

PollSession(t) ==
  /\ ShowsPanel(t) /\ tab[t].panelState = "shown" /\ Complete(tab[t].panel)
  /\ Update(t, [tab[t] EXCEPT !.session = tab[t].panel, !.step = 6, !.panelState = "gone"])
  /\ UNCHANGED <<serverVars, phone>>

HandleSubmit(t) ==
  /\ ShowsReview(t) /\ ~tab[t].loading
  /\ IF tab[t].details = None
     THEN Update(t, [tab[t] EXCEPT !.step = 1]) /\ UNCHANGED req
     ELSE /\ tab[t].session # None \/ \A slot \in Slots : tab[t].photos[slot] # None
          /\ Update(t, [tab[t] EXCEPT !.loading = TRUE])
          /\ Send(t, "submit")
  /\ UNCHANGED <<record, accountVerified, session, images, submissions, op, methods, phone>>

SubmitAnswer(t, r) ==
  /\ At(r, "done") /\ req[r].tab = t /\ tab[t].loading
  /\ Update(t, [tab[t] EXCEPT !.loading = FALSE,
                              !.view = IF req[r].outcome = "ok" THEN "pending_review" ELSE @])
  /\ req' = [req EXCEPT ![r] = NoRequest]
  /\ UNCHANGED <<record, accountVerified, session, images, submissions, op, methods, phone>>

TabStep(t) ==
  \/ Load(t) \/ SubmitAgain(t) \/ ContinueFromDetailsStep(t) \/ ChooseCapture(t)
  \/ TakePhoto(t) \/ SwitchToPhoneCapture(t) \/ MountPanel(t) \/ PollSession(t)
  \/ HandleSubmit(t)
  \/ \E r \in Requests : PanelAnswer(t, r) \/ SubmitAnswer(t, r)
----------------------------------------------------------------------------
(***************************************************************************)
(* The phone, and the public endpoints it calls.                           *)
(***************************************************************************)
Turn(m, state) == phone' = [phone EXCEPT ![m] = state]
LinkValid(s) == session[s].state = "live" /\ CanSubmit(record.status)

\* The page goes on after the last photo that the session has.
NextSlot(taken) ==
  CASE "id-back" \in taken -> "done"
    [] "id-back" \notin taken /\ "id-front" \in taken -> "id-back"
    [] taken = {"selfie"} -> "id-front"
    [] OTHER -> "selfie"

OpenLink(m) ==
  /\ phone[m].pc = "closed"
  /\ \E t \in Tabs :
       /\ ShowsPanel(t) /\ tab[t].panelState = "shown" /\ LinkValid(tab[t].panel)
       /\ Turn(m, [session |-> tab[t].panel, pc |-> "ready",
                   step |-> NextSlot(session[tab[t].panel].columns)])
  /\ UNCHANGED <<serverVars, tab>>

SendPhoto(m) ==
  /\ phone[m].pc = "ready" /\ phone[m].step \in Slots
  /\ Turn(m, [phone[m] EXCEPT !.pc = IF LinkValid(phone[m].session) THEN "put" ELSE "ready"])
  /\ UNCHANGED <<serverVars, tab>>

PutPhoto(m) ==
  /\ phone[m].pc = "put"
  /\ session' = [session EXCEPT ![phone[m].session].object[phone[m].step] = m]
  /\ Turn(m, [phone[m] EXCEPT !.pc = "column"])
  /\ UNCHANGED <<record, accountVerified, images, submissions, req, op, methods, tab>>

SetColumn(m) ==
  LET s == phone[m].session
      slot == phone[m].step
  IN /\ phone[m].pc = "column"
     /\ session' = [session EXCEPT ![s].columns = @ \cup {slot}]
     /\ Turn(m, [phone[m] EXCEPT !.pc = "ready",
                   !.step = CASE slot = "selfie" -> "id-front"
                              [] slot = "id-front" -> "id-back"
                              [] OTHER -> "done"])
     /\ UNCHANGED <<record, accountVerified, images, submissions, req, op, methods, tab>>

UploadFails(m) ==
  /\ HandlersMayFail /\ phone[m].pc \in {"put", "column"}
  /\ Turn(m, [phone[m] EXCEPT !.pc = "ready"])
  /\ UNCHANGED <<serverVars, tab>>

PhoneStep(m) == OpenLink(m) \/ SendPhoto(m) \/ PutPhoto(m) \/ SetColumn(m) \/ UploadFails(m)

Next ==
  \/ ServerNext /\ UNCHANGED pageVars
  \/ \E t \in Tabs : TabStep(t)
  \/ \E m \in Phones : PhoneStep(m)
  \/ \E r \in Requests : Discard(r)

Spec == Init /\ [][Next]_vars
----------------------------------------------------------------------------
(***************************************************************************)
(* Properties.  All but the last need that the user sends one request at a *)
(* time, that one reviewer works, and that runs of the tool and clicks on  *)
(* links do not overlap; nothing in the code sees to any of these.         *)
(***************************************************************************)
Undecided == \A a \in Actors : op[a].pc \in {"idle", "used"}

\* What withdrawals ask for (users.account_verified_at) is what the user is
\* shown (account_verifications.status), and whoever has been verified has the
\* verified number as a payout method: approveUserVerification writes the three
\* tables one after the other, and other handlers run in between.
VerifiedIsWhole ==
  /\ accountVerified => record.status = "verified"
  /\ record.status = "verified" /\ Undecided =>
       accountVerified /\ \E m \in Present : methods[m].details = record.details

\* A decision is about the submission the reviewer was shown, with the photos
\* the reviewer saw: approve and reject name the user, not the submission, and
\* phones go on uploading to the session the photos were copied from.
DecidedAsShown ==
  \A a \in Actors : op[a].pc \in {"approve", "reject"} =>
    /\ record = op[a].shown
    /\ images[record.images] = op[a].photos

\* A row under review names three stored photos, all taken in one tab or all
\* sent by phones, though each is stored by an await of its own.
SubmissionIsComplete ==
  record.status \in {"pending_review", "verified"} =>
    LET photos == {images[record.images][slot] : slot \in Slots}
    IN photos \subseteq Phones \/ \E t \in Tabs : photos = {t}

\* "Verified withdraw methods cannot be edited" or removed: once an account has
\* been verified no late submission, enrolment or decision touches it.
VerifiedIsFinal ==
  [][/\ record.status = "verified" => record' = record
     /\ record.status = "verified" /\ accountVerified /\ Undecided =>
          \A m \in Present : methods'[m].details = methods[m].details]_vars

\* Whatever the order of back and forth between tab, phone and server, the
\* wizard has something on the screen.
WizardNeverBlank ==
  \A t \in Tabs : InWizard(t) =>
    \/ ShowsDetails(t) \/ ShowsReview(t)
    \/ ShowsDesktopChoice(t) \/ OnDevice(t) \/ ShowsPanel(t)
=============================================================================
