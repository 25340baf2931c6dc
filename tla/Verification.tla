---------------------------- MODULE Verification ----------------------------
(***************************************************************************)
(* The server's part of account verification for one user: submissions and *)
(* capture sessions (verification/verification.service.ts), the reviewer's *)
(* command line tool (verification-admin.ts, verify-account-cli.ts) and    *)
(* the enrolment that follows a clicked e-mail link.                       *)
(*                                                                         *)
(* No operation uses a transaction: each awaits its reads and its writes   *)
(* one by one, and approving writes three tables.                          *)
(***************************************************************************)
EXTENDS PayoutMethods, FiniteSets, Sequences

CONSTANTS
  Sessions,        \* ids of verification_capture_sessions
  Phones,          \* browsers on which a capture link is open
  Tabs,            \* browser tabs with the verification wizard
  Requests,        \* submit and capture-session requests in flight
  Reviewers,       \* runs of the verify-account tool
  Links,           \* clicks on the link that verifies the e-mail address
  OneDecisionAtATime,  \* is the tool run, or a link clicked, only when
                       \* no other run or click is under way?
  HandlersMayFail, \* can a handler stop between two awaits?
  MaxSubmissions   \* bound on submissions that start to store their images

ASSUME VerificationAssumption ==
  /\ None \notin Sessions /\ None \notin Tabs \cup Phones
  /\ OneDecisionAtATime \in BOOLEAN /\ HandlersMayFail \in BOOLEAN
  /\ MaxSubmissions \in Nat

Actors == Reviewers \cup Links
Slots == {"selfie", "id-front", "id-back"}
SlotOrder == <<"selfie", "id-front", "id-back">>
Statuses == {"none", "enrolled", "pending_review", "verified", "rejected"}

VARIABLES
  record,           \* the account_verifications row
  accountVerified,  \* users.account_verified_at is set
  session,          \* verification_capture_sessions and the objects they name
  images,           \* the stored images of each submission
  submissions,      \* how many submissions have begun to store theirs
  req,              \* requests in flight
  op                \* what each reviewer, or e-mail link, is doing

serverVars == <<record, accountVerified, session, images, submissions, req, op, methods>>

NoPhotos == [i \in Slots |-> None]
NoRecord == [status |-> "none", details |-> None, images |-> 0]
NoSession == [state |-> "none", columns |-> {}, object |-> NoPhotos]
NoRequest == [pc |-> "idle", tab |-> None, details |-> None, session |-> None,
              photos |-> NoPhotos, n |-> 0, i |-> 0, outcome |-> None]
NoOp == [pc |-> "idle", seen |-> NoRecord, shown |-> NoRecord, photos |-> NoPhotos]

ServerInit ==
  /\ methods = [m \in MethodIds |-> NoMethod]
  /\ record = NoRecord
  /\ accountVerified = FALSE
  /\ session = [s \in Sessions |-> NoSession]
  /\ images = [n \in 1 .. MaxSubmissions |-> NoPhotos]
  /\ submissions = 0
  /\ req = [r \in Requests |-> NoRequest]
  /\ op = [a \in Actors |-> NoOp]

CanSubmitLate(status) == status \in {"enrolled", "pending_review", "rejected"}
CanSubmit(status) == status \in {"enrolled", "rejected"}

At(r, pc) == req[r].pc = pc
Go(r, pc) == req' = [req EXCEPT ![r].pc = pc]
\* The answer waits for the tab that asked.
Answer(r, outcome) == req' = [req EXCEPT ![r].pc = "done", ![r].outcome = outcome]

RequestFails(r) ==
  /\ HandlersMayFail /\ req[r].pc \notin {"idle", "done"}
  /\ Answer(r, "error")
  /\ UNCHANGED <<record, accountVerified, session, images, submissions, op, methods>>
----------------------------------------------------------------------------
(***************************************************************************)
(* createCaptureSession                                                    *)
(***************************************************************************)
CheckCapture(r) ==
  /\ At(r, "capture")
  /\ IF CanSubmit(record.status) THEN Go(r, "closeOthers") ELSE Answer(r, "error")
  /\ UNCHANGED <<record, accountVerified, session, images, submissions, op, methods>>

CloseOthers(r) ==
  /\ At(r, "closeOthers")
  /\ session' = [s \in Sessions |-> [session[s] EXCEPT
                   !.state = IF @ = "live" THEN "closed" ELSE @]]
  /\ Go(r, "insertSession")
  /\ UNCHANGED <<record, accountVerified, images, submissions, op, methods>>

InsertSession(r) ==
  /\ At(r, "insertSession")
  /\ \E s \in Sessions :
       /\ session[s].state = "none"
       /\ session' = [session EXCEPT ![s].state = "live"]
       /\ req' = [req EXCEPT ![r].pc = "done", ![r].outcome = "ok", ![r].session = s]
  /\ UNCHANGED <<record, accountVerified, images, submissions, op, methods>>

ExpireSession(s) ==
  /\ session[s].state = "live"
  /\ session' = [session EXCEPT ![s].state = "closed"]
  /\ UNCHANGED <<record, accountVerified, images, submissions, req, op, methods>>

Complete(s) == session[s].columns = Slots
----------------------------------------------------------------------------
(***************************************************************************)
(* submit: photos taken in the tab are stored, photos of a capture session *)
(* are copied, one by one and under new keys, before the row names them.   *)
(***************************************************************************)
Usable(s) == session[s].state = "live" /\ Complete(s)

CheckSubmit(r) ==
  /\ At(r, "submit")
  /\ IF CanSubmit(record.status) THEN Go(r, "resolve") ELSE Answer(r, "error")
  /\ UNCHANGED <<record, accountVerified, session, images, submissions, op, methods>>

ResolveSession(r) ==
  /\ At(r, "resolve")
  /\ IF req[r].session = None \/ Usable(req[r].session)
     THEN /\ submissions < MaxSubmissions
          /\ submissions' = submissions + 1
          /\ req' = [req EXCEPT ![r].pc = "store", ![r].n = submissions + 1, ![r].i = 1]
     ELSE Answer(r, "error") /\ UNCHANGED submissions
  /\ UNCHANGED <<record, accountVerified, session, images, op, methods>>

StoreImageShort(r) ==
  LET slot == SlotOrder[req[r].i]
      s == req[r].session
  IN /\ At(r, "store")
     /\ images' = [images EXCEPT ![req[r].n][slot] =
                     IF s = None THEN req[r].photos[slot] ELSE session[s].object[slot]]
     /\ req' = [req EXCEPT ![r].i = @ + 1,
                           ![r].pc = IF req[r].i + 1 = Len(SlotOrder) THEN "write" ELSE @]
     /\ UNCHANGED <<record, accountVerified, session, submissions, op, methods>>

StoreImage(r) ==
  LET slot == SlotOrder[req[r].i]
      s == req[r].session
  IN /\ At(r, "store")
     /\ images' = [images EXCEPT ![req[r].n][slot] =
                     IF s = None THEN req[r].photos[slot] ELSE session[s].object[slot]]
     /\ req' = [req EXCEPT ![r].i = @ + 1,
                           ![r].pc = IF req[r].i = Len(SlotOrder) THEN "write" ELSE @]
     /\ UNCHANGED <<record, accountVerified, session, submissions, op, methods>>

WriteSubmission(r) ==
  /\ At(r, "write")
  /\ record' = [status |-> "pending_review", details |-> req[r].details, images |-> req[r].n]
  /\ IF req[r].session = None THEN Answer(r, "ok") ELSE Go(r, "consume")
  /\ UNCHANGED <<accountVerified, session, images, submissions, op, methods>>

ConsumeSession(r) ==
  /\ At(r, "consume")
  /\ session' = [session EXCEPT ![req[r].session].state = "closed"]
  /\ Answer(r, "ok")
  /\ UNCHANGED <<record, accountVerified, images, submissions, op, methods>>

RequestStep(r) ==
  \/ CheckCapture(r) \/ CloseOthers(r) \/ InsertSession(r)
  \/ CheckSubmit(r) \/ ResolveSession(r) \/ StoreImage(r)
  \/ WriteSubmission(r) \/ ConsumeSession(r)
----------------------------------------------------------------------------
(***************************************************************************)
(* The reviewer's tool, and the enrolment after a click on an e-mail link. *)
(***************************************************************************)
Doing(a, pc) == op[a].pc = pc
Proceed(a, pc) == op' = [op EXCEPT ![a].pc = pc]
\* An e-mail link works once.
OpDone(a) == op' = [op EXCEPT ![a] = IF a \in Links THEN [NoOp EXCEPT !.pc = "used"] ELSE NoOp]

MayRun(a) ==
  /\ Doing(a, "idle")
  /\ OneDecisionAtATime => \A b \in Actors : op[b].pc \in {"idle", "used", "stopped"}

StartEnrollAny(a) ==
  /\ MayRun(a)
  /\ Proceed(a, "enroll")
  /\ UNCHANGED <<record, accountVerified, session, images, submissions, req, methods>>

StartEnroll(a) ==
  /\ MayRun(a)
  /\ IF record.status \in {"none", "rejected"} THEN Proceed(a, "enroll") ELSE OpDone(a)
  /\ UNCHANGED <<record, accountVerified, session, images, submissions, req, methods>>

WriteEnrolled(a) ==
  /\ Doing(a, "enroll")
  /\ record' = [NoRecord EXCEPT !.status = "enrolled"]
  /\ OpDone(a)
  /\ UNCHANGED <<accountVerified, session, images, submissions, req, methods>>

Show(a) ==
  /\ MayRun(a) /\ a \in Reviewers /\ record.images # 0
  /\ op' = [op EXCEPT ![a].shown = record, ![a].photos = images[record.images]]
  /\ UNCHANGED <<record, accountVerified, session, images, submissions, req, methods>>

\* A reviewer decides on what the tool has shown, by the user's id.
StartDecision(a) ==
  /\ MayRun(a) /\ a \in Reviewers
  /\ op[a].shown.status = "pending_review"
  /\ IF record.status = "pending_review"
     THEN \/ op' = [op EXCEPT ![a].pc = "approve", ![a].seen = record]
          \/ Proceed(a, "reject")
     ELSE OpDone(a)
  /\ UNCHANGED <<record, accountVerified, session, images, submissions, req, methods>>

WriteVerifiedOnly(a) ==
  /\ Doing(a, "approve")
  /\ record' = [record EXCEPT !.status = "verified"]
  /\ Proceed(a, "deleteMethods")
  /\ UNCHANGED <<accountVerified, session, images, submissions, req, methods>>

WriteVerified(a) ==
  /\ Doing(a, "approve")
  /\ record' = [record EXCEPT !.status = "verified"]
  /\ Proceed(a, "approveUser")
  /\ UNCHANGED <<accountVerified, session, images, submissions, req, methods>>

SetAccountVerified(a) ==
  /\ Doing(a, "approveUser")
  /\ accountVerified' = TRUE
  /\ Proceed(a, "deleteMethods")
  /\ UNCHANGED <<record, session, images, submissions, req, methods>>

DeleteMethods(a) ==
  /\ Doing(a, "deleteMethods")
  /\ methods' = [m \in MethodIds |-> NoMethod]
  /\ Proceed(a, "provision")
  /\ UNCHANGED <<record, accountVerified, session, images, submissions, req>>

ProvisionMethod(a) ==
  /\ Doing(a, "provision")
  /\ \E m \in MethodIds \ Present : Insert(m, op[a].seen.details, TRUE)
  /\ OpDone(a)
  /\ UNCHANGED <<record, accountVerified, session, images, submissions, req>>

WriteRejected(a) ==
  /\ Doing(a, "reject")
  /\ record' = [record EXCEPT !.status = "rejected"]
  /\ Proceed(a, "rejectUser")
  /\ UNCHANGED <<accountVerified, session, images, submissions, req, methods>>

ClearAccountVerified(a) ==
  /\ Doing(a, "rejectUser")
  /\ accountVerified' = FALSE
  /\ OpDone(a)
  /\ UNCHANGED <<record, session, images, submissions, req, methods>>

OpFails(a) ==
  /\ HandlersMayFail /\ op[a].pc \notin {"idle", "used", "stopped"}
  /\ op' = [op EXCEPT ![a] = [NoOp EXCEPT !.pc = "stopped"]]
  /\ UNCHANGED <<record, accountVerified, session, images, submissions, req, methods>>

ActorStep(a) ==
  \/ StartEnroll(a) \/ WriteEnrolled(a) \/ Show(a) \/ StartDecision(a)
  \/ WriteVerified(a) \/ SetAccountVerified(a) \/ DeleteMethods(a) \/ ProvisionMethod(a)
  \/ WriteRejected(a) \/ ClearAccountVerified(a)

ServerNext ==
  \/ \E r \in Requests : RequestStep(r) \/ RequestFails(r)
  \/ \E a \in Actors : ActorStep(a) \/ OpFails(a)
  \/ \E s \in Sessions : ExpireSession(s)
=============================================================================
