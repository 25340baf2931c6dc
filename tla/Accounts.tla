------------------------------ MODULE Accounts ------------------------------
(***************************************************************************)
(* Accounts, sessions and the links sent by e-mail: auth.service.ts and    *)
(* session.service.ts behind auth.controller.ts.                           *)
(*                                                                         *)
(* There is one address.  A handler runs one database statement or one     *)
(* await at a time, so two calls interleave.  Typing errors the service    *)
(* refuses before it reads anything are left out; whether a password typed *)
(* is the right one is a choice made where the service compares it.        *)
(***************************************************************************)
EXTENDS Naturals, FiniteSets

CONSTANTS
  EmailTokens,   \* the verification links that can be issued
  ResetTokens,   \* the reset links that can be issued
  Sessions,      \* the sessions that can be opened
  Callers,       \* each has at most one call under way
  None,
  Failing        \* the steps that may fail: the mail or the database is away

VARIABLES
  user,        \* the row of table users, and whether it is enrolled
  emailToken,  \* the rows of email_verification_tokens
  resetToken,  \* the rows of password_reset_tokens
  session,     \* the rows of sessions
  inbox,       \* the links the owner has received
  call         \* the call of each caller

accountVars == <<user, emailToken, resetToken, session, inbox, call>>

NoUser == [exists |-> FALSE, verified |-> FALSE, enrolled |-> FALSE]
NoCall == [op |-> "none", pc |-> "idle", token |-> None,
           session |-> None, left |-> FALSE]

AccountsInit ==
  /\ user = NoUser
  /\ emailToken = [k \in EmailTokens |-> "unused"]
  /\ resetToken = [k \in ResetTokens |-> "unused"]
  /\ session = [s \in Sessions |-> "unused"]
  /\ inbox = {}
  /\ call = [c \in Callers |-> NoCall]

At(c, pc) == call[c].pc = pc
Goto(c, pc) == call' = [call EXCEPT ![c].pc = pc]
Ended == {"ok", "failed", "unverified"}

-----------------------------------------------------------------------------
(* register and resend: a link replaces the links issued before it         *)

RegisterRead(c) ==
  /\ At(c, "register")
  /\ Goto(c, IF user.exists THEN "failed" ELSE "insertUser")
  /\ UNCHANGED <<user, emailToken, resetToken, session, inbox>>

\* The address is unique: the second of two inserts throws.
RegisterInsert(c) ==
  /\ At(c, "insertUser")
  /\ user' = IF user.exists THEN user
             ELSE [NoUser EXCEPT !.exists = TRUE]
  /\ Goto(c, IF user.exists THEN "failed" ELSE "dropLinks")
  /\ UNCHANGED <<emailToken, resetToken, session, inbox>>

Resend(c) ==
  /\ At(c, "resend")
  /\ Goto(c, IF user.exists /\ ~user.verified THEN "dropLinks" ELSE "ok")
  /\ UNCHANGED <<user, emailToken, resetToken, session, inbox>>

WithoutLinks == [k \in EmailTokens |-> IF emailToken[k] = "unused" THEN "unused" ELSE "gone"]

IssueDrop(c) ==
  /\ At(c, "dropLinks")
  /\ emailToken' = WithoutLinks
  /\ Goto(c, "addLink")
  /\ UNCHANGED <<user, resetToken, session, inbox>>

IssueAdd(c) ==
  /\ At(c, "addLink")
  /\ \E k \in EmailTokens :
       /\ emailToken[k] = "unused"
       /\ emailToken' = [emailToken EXCEPT ![k] = "live"]
       /\ call' = [call EXCEPT ![c].pc = "mail", ![c].token = k]
  /\ UNCHANGED <<user, resetToken, session, inbox>>

\* Mutant of Mail: the older links are deleted last.
MailThenDrop(c) ==
  /\ At(c, "mail") \/ At(c, "mailReset")
  /\ inbox' = inbox \cup {call[c].token}
  /\ emailToken' = WithoutLinks
  /\ Goto(c, "ok")
  /\ UNCHANGED <<user, resetToken, session>>

Mail(c) ==
  /\ At(c, "mail") \/ At(c, "mailReset")
  /\ inbox' = inbox \cup {call[c].token}
  /\ Goto(c, "ok")
  /\ UNCHANGED <<user, emailToken, resetToken, session>>

-----------------------------------------------------------------------------
(* verifyEmail                                                             *)

VerifyToken(c) ==
  /\ At(c, "verify")
  /\ Goto(c, IF emailToken[call[c].token] = "live" THEN "verifyUser" ELSE "failed")
  /\ UNCHANGED <<user, emailToken, resetToken, session, inbox>>

VerifyRead(c) ==
  /\ At(c, "verifyUser")
  /\ Goto(c, IF user.verified THEN "useLinks" ELSE "setVerified")
  /\ UNCHANGED <<user, emailToken, resetToken, session, inbox>>

VerifySet(c) ==
  /\ At(c, "setVerified")
  /\ user' = [user EXCEPT !.verified = TRUE]
  /\ Goto(c, "useLinks")
  /\ UNCHANGED <<emailToken, resetToken, session, inbox>>

\* Mutant of VerifyDrop: the enrolment is forgotten.
VerifyDropOnly(c) ==
  /\ At(c, "useLinks")
  /\ emailToken' = WithoutLinks
  /\ Goto(c, "ok")
  /\ UNCHANGED <<user, resetToken, session, inbox>>

VerifyDrop(c) ==
  /\ At(c, "useLinks")
  /\ emailToken' = WithoutLinks
  /\ Goto(c, "enrol")
  /\ UNCHANGED <<user, resetToken, session, inbox>>

EnrolRead(c) ==
  /\ At(c, "enrol")
  /\ Goto(c, IF user.enrolled THEN "ok" ELSE "insertEnrolled")
  /\ UNCHANGED <<user, emailToken, resetToken, session, inbox>>

\* The row's key is the user: the second of two inserts throws.
EnrolInsert(c) ==
  /\ At(c, "insertEnrolled")
  /\ user' = [user EXCEPT !.enrolled = TRUE]
  /\ Goto(c, IF user.enrolled THEN "failed" ELSE "ok")
  /\ UNCHANGED <<emailToken, resetToken, session, inbox>>

-----------------------------------------------------------------------------
(* login and logout                                                        *)

\* Mutant of Login: anyone with the password comes in.
LoginUnverified(c) ==
  /\ At(c, "login")
  /\ \/ Goto(c, "failed")
     \/ user.exists /\ Goto(c, "openSession")
  /\ UNCHANGED <<user, emailToken, resetToken, session, inbox>>

Login(c) ==
  /\ At(c, "login")
  /\ \/ Goto(c, "failed")
     \/ user.exists /\ Goto(c, IF user.verified THEN "openSession" ELSE "unverified")
  /\ UNCHANGED <<user, emailToken, resetToken, session, inbox>>

OpenSession(c) ==
  /\ At(c, "openSession")
  /\ \E s \in Sessions :
       /\ session[s] = "unused"
       /\ session' = [session EXCEPT ![s] = "live"]
       /\ call' = [call EXCEPT ![c].pc = "ok", ![c].session = s]
  /\ UNCHANGED <<user, emailToken, resetToken, inbox>>

Logout(c) ==
  /\ At(c, "logout")
  /\ session' = IF call[c].session = None THEN session
                ELSE [session EXCEPT ![call[c].session] = "gone"]
  /\ Goto(c, "ok")
  /\ UNCHANGED <<user, emailToken, resetToken, inbox>>

-----------------------------------------------------------------------------
(* the passwords                                                           *)

SignedIn(s) == s # None /\ session[s] = "live"

Guarded(c) == SignedIn(call[c].session)

\* The passwords themselves are not modelled, so comparing and writing are one step.
ChangePassword(c) ==
  /\ At(c, "change")
  /\ \/ Goto(c, "failed")
     \/ Guarded(c) /\ Goto(c, "ok")
  /\ UNCHANGED <<user, emailToken, resetToken, session, inbox>>

RequestReset(c) ==
  /\ At(c, "requestReset")
  /\ Goto(c, IF user.exists THEN "addReset" ELSE "ok")
  /\ UNCHANGED <<user, emailToken, resetToken, session, inbox>>

ResetAdd(c) ==
  /\ At(c, "addReset")
  /\ \E k \in ResetTokens :
       /\ resetToken[k] = "unused"
       /\ resetToken' = [resetToken EXCEPT ![k] = "live"]
       /\ call' = [call EXCEPT ![c].pc = "mailReset", ![c].token = k]
  /\ UNCHANGED <<user, emailToken, session, inbox>>

ResetToken(c) ==
  /\ At(c, "reset")
  /\ Goto(c, IF resetToken[call[c].token] = "live" THEN "useReset" ELSE "failed")
  /\ UNCHANGED <<user, emailToken, resetToken, session, inbox>>

\* The password is written, then the link deleted.
ResetDrop(c) ==
  /\ At(c, "useReset")
  /\ resetToken' = [resetToken EXCEPT ![call[c].token] = "gone"]
  /\ Goto(c, "ok")
  /\ UNCHANGED <<user, emailToken, session, inbox>>

-----------------------------------------------------------------------------
(* Failures and time.  An expired session or reset link is refused as one  *)
(* that is deleted.                                                        *)

StepFails(c) ==
  /\ call[c].pc \in Failing
  /\ Goto(c, "failed")
  /\ UNCHANGED <<user, emailToken, resetToken, session, inbox>>

Live(rows) == {k \in DOMAIN rows : rows[k] = "live"}

Time ==
  \/ \E k \in Live(emailToken) :
       /\ emailToken' = [emailToken EXCEPT ![k] = "expired"]
       /\ UNCHANGED <<resetToken, session>>
  \/ \E k \in Live(resetToken) :
       /\ resetToken' = [resetToken EXCEPT ![k] = "gone"]
       /\ UNCHANGED <<emailToken, session>>
  \/ \E s \in Live(session) :
       /\ session' = [session EXCEPT ![s] = "gone"]
       /\ UNCHANGED <<emailToken, resetToken>>

HandlerStep(c) ==
  \/ RegisterRead(c) \/ RegisterInsert(c) \/ Resend(c)
  \/ IssueDrop(c) \/ IssueAdd(c) \/ Mail(c)
  \/ VerifyToken(c) \/ VerifyRead(c) \/ VerifySet(c) \/ VerifyDrop(c)
  \/ EnrolRead(c) \/ EnrolInsert(c)
  \/ Login(c) \/ OpenSession(c) \/ Logout(c)
  \/ ChangePassword(c)
  \/ RequestReset(c) \/ ResetAdd(c) \/ ResetToken(c) \/ ResetDrop(c)
  \/ StepFails(c)
=============================================================================
