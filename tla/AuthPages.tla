----------------------------- MODULE AuthPages ------------------------------
(***************************************************************************)
(* The pages a person signs up, signs in and recovers an account with, the *)
(* server actions behind their forms (actions/auth.ts), and the redirects  *)
(* of middleware.ts and of the pages under /app.  The tabs are those of    *)
(* one browser, which has one session cookie.                              *)
(***************************************************************************)
EXTENDS Accounts

CONSTANTS Visited  \* the pages a person opens by a link or an address

VARIABLES
  cookie,  \* the session the browser's cookie names
  tab      \* what each tab shows

pageVars == <<cookie, tab>>
vars == <<accountVars, pageVars>>

Tabs == Callers

GuestPages == {"landing", "login", "loginReset", "loginVerified", "register",
               "checkEmail", "verifyEmail", "forgot", "forgotSent",
               "resetPassword"}
AppPages == {"app", "onboarding", "profile", "account", "verifyAccount", "withdraw"}
Pages == GuestPages \cup AppPages

\* These three are reached through a link of an e-mail or a redirect alone.
ASSUME AuthPagesAssumption ==
  Visited \subseteq Pages \ {"loginVerified", "verifyEmail", "resetPassword"}

NewTab == [page |-> "landing", token |-> None, resend |-> FALSE]

Init ==
  /\ AccountsInit
  /\ cookie = None
  /\ tab = [t \in Tabs |-> NewTab]

-----------------------------------------------------------------------------
(* Where a request for a page ends up                                      *)

Middleware(page) ==
  IF cookie # None /\ page \in GuestPages THEN "app"
  ELSE IF cookie = None /\ page \in AppPages THEN "landing"
  ELSE page

\* getCurrentUser, for whatever the cookie names.
HasUser == SignedIn(cookie)

\* Mutant of PageRedirect: the home page sends those without a user away.
HomeRedirect(page, hasEvents, accountVerified) ==
  LET noUser == ~HasUser
  IN  IF page = "app" /\ ~noUser /\ ~hasEvents THEN "onboarding"
      ELSE IF page = "withdraw" /\ ~noUser /\ ~accountVerified THEN "verifyAccount"
      ELSE IF page \in AppPages \ {"onboarding"} /\ noUser THEN "landing"
      ELSE page

\* Without a user the list of events is empty.
PageRedirect(page, hasEvents, accountVerified) ==
  LET noUser == ~HasUser
  IN  IF page = "app" /\ (noUser \/ ~hasEvents) THEN "onboarding"
      ELSE IF page \in {"profile", "account", "verifyAccount", "withdraw"} /\ noUser THEN "landing"
      ELSE IF page = "withdraw" /\ ~noUser /\ ~accountVerified THEN "verifyAccount"
      ELSE page

Hop(page, hasEvents, accountVerified) ==
  LET served == Middleware(page)
  IN  IF served # page THEN served ELSE PageRedirect(page, hasEvents, accountVerified)

\* The longest chain: /withdraw, /, /app, /app/onboarding.
Land(page, hasEvents, accountVerified) ==
  LET Follow(p) == Hop(p, hasEvents, accountVerified)
  IN  Follow(Follow(Follow(page)))

Arrive(t, page, token) ==
  \E e, v \in BOOLEAN :
    LET landed == Land(page, e, v)
    IN  tab' = [tab EXCEPT ![t] = [NewTab EXCEPT !.page = landed,
                                                 !.token = IF landed = page THEN token ELSE None]]

Show(t, page) == Arrive(t, page, None)

\* A link of a page, an address typed, a link of an e-mail.
Visit(t) ==
  /\ At(t, "idle")
  /\ \/ \E page \in Visited : Show(t, page)
     \/ \E k \in inbox \cap EmailTokens : Arrive(t, "verifyEmail", k)
     \/ \E k \in inbox \cap ResetTokens : Arrive(t, "resetPassword", k)
  /\ UNCHANGED <<user, emailToken, resetToken, session, inbox, call, cookie>>

\* The tab goes elsewhere while its call is under way; the server goes on.
Leave(t) ==
  /\ ~At(t, "idle") /\ ~call[t].left
  /\ call' = [call EXCEPT ![t].left = TRUE]
  /\ tab' = [tab EXCEPT ![t] = NewTab]
  /\ UNCHANGED <<user, emailToken, resetToken, session, inbox, cookie>>

-----------------------------------------------------------------------------
(* The forms                                                               *)

Unused(rows) == {k \in DOMAIN rows : rows[k] = "unused"}
\* The pools are bounds of the model: a call is made while one is left for it.
Room(ops, rows) ==
  Cardinality({c \in Callers : call[c].op \in ops /\ call[c].pc \notin Ended}) < Cardinality(Unused(rows))
HasRoom(op) ==
  CASE op \in {"register", "resend"} -> Room({"register", "resend"}, emailToken)
    [] op = "requestReset" -> Room({op}, resetToken)
    [] op = "login" -> Room({op}, session)
    [] OTHER -> TRUE

Send(t, fields) ==
  /\ At(t, "idle") /\ HasRoom(fields.op)
  /\ call' = [call EXCEPT ![t] = fields]
  /\ UNCHANGED <<user, emailToken, resetToken, session, inbox, pageVars>>

Fields(op) == [NoCall EXCEPT !.op = op, !.pc = op]

RegisterForm(t) ==
  /\ tab[t].page = "register"
  /\ Send(t, Fields("register"))

LoginForm(t) ==
  /\ tab[t].page \in {"login", "loginReset", "loginVerified"}
  /\ Send(t, Fields("login"))

\* The login form offers it to those who have just been refused for it.
ResendButton(t) ==
  /\ tab[t].page = "checkEmail" \/ tab[t].resend
  /\ Send(t, Fields("resend"))

VerifyEmailForm(t) ==
  /\ tab[t].page = "verifyEmail"
  /\ Send(t, [Fields("verify") EXCEPT !.token = tab[t].token])

ForgotPasswordForm(t) ==
  /\ tab[t].page = "forgot"
  /\ Send(t, Fields("requestReset"))

ResetPasswordForm(t) ==
  /\ tab[t].page = "resetPassword"
  /\ Send(t, [Fields("reset") EXCEPT !.token = tab[t].token])

ChangePasswordForm(t) ==
  /\ tab[t].page = "profile"
  /\ Send(t, [Fields("change") EXCEPT !.session = cookie])

LogoutButton(t) ==
  /\ tab[t].page \in AppPages
  /\ Send(t, [Fields("logout") EXCEPT !.session = cookie])

Submit(t) ==
  \/ RegisterForm(t) \/ LoginForm(t) \/ ResendButton(t) \/ VerifyEmailForm(t)
  \/ ForgotPasswordForm(t) \/ ResetPasswordForm(t) \/ ChangePasswordForm(t)
  \/ LogoutButton(t)

-----------------------------------------------------------------------------
(* The answers.  The cookie is set or cleared whether or not the tab still *)
(* waits; the redirects that follow see the new cookie.                    *)

Answer(t, op) == call[t].op = op /\ call[t].pc \in Ended /\ ~call[t].left
Release(t) == call' = [call EXCEPT ![t] = NoCall]
Rows == <<user, emailToken, resetToken, session, inbox>>

Registered(t) ==
  /\ Answer(t, "register")
  /\ IF At(t, "ok") THEN Show(t, "checkEmail") ELSE UNCHANGED tab
  /\ Release(t) /\ UNCHANGED <<Rows, cookie>>

Verified(t) ==
  /\ Answer(t, "verify")
  /\ IF At(t, "ok") THEN Show(t, "loginVerified") ELSE UNCHANGED tab
  /\ Release(t) /\ UNCHANGED <<Rows, cookie>>

\* refresh and push are requests of their own, made once the cookie is set.
LoggedIn(t) ==
  /\ Answer(t, "login")
  /\ IF At(t, "ok")
     THEN /\ cookie' = call[t].session
          /\ \E page \in {"app", "onboarding"} :
               tab' = [tab EXCEPT ![t] = [NewTab EXCEPT !.page = page]]
     ELSE /\ tab' = [tab EXCEPT ![t].resend = At(t, "unverified")]
          /\ UNCHANGED cookie
  /\ Release(t) /\ UNCHANGED Rows

\* requestPasswordReset and resetPassword do not look at the status of the
\* answer.  The form gives way to a text without one.
ResetSent(t) ==
  /\ Answer(t, "requestReset")
  /\ tab' = [tab EXCEPT ![t].page = "forgotSent"]
  /\ Release(t) /\ UNCHANGED <<Rows, cookie>>

ResetDone(t) ==
  /\ Answer(t, "reset")
  /\ Show(t, "loginReset")
  /\ Release(t) /\ UNCHANGED <<Rows, cookie>>

Told(t) ==
  /\ Answer(t, "resend") \/ Answer(t, "change")
  /\ Release(t) /\ UNCHANGED <<Rows, pageVars>>

LoggedOut(t) ==
  /\ Answer(t, "logout")
  /\ cookie' = None
  /\ \E page \in {"landing", "login"} : tab' = [tab EXCEPT ![t] = [NewTab EXCEPT !.page = page]]
  /\ Release(t) /\ UNCHANGED Rows

\* The tab has gone elsewhere: only the cookie of the answer remains.
LeftBefore(t) ==
  /\ call[t].left /\ call[t].pc \in Ended
  /\ cookie' = IF call[t].op = "logout" THEN None
               ELSE IF call[t].op = "login" /\ At(t, "ok") THEN call[t].session
               ELSE cookie
  /\ Release(t) /\ UNCHANGED <<Rows, tab>>

Answered(t) ==
  \/ Registered(t) \/ Verified(t) \/ LoggedIn(t) \/ ResetSent(t) \/ ResetDone(t)
  \/ Told(t) \/ LoggedOut(t) \/ LeftBefore(t)

-----------------------------------------------------------------------------
Next ==
  \/ \E t \in Tabs : HandlerStep(t) /\ UNCHANGED pageVars
  \/ \E t \in Tabs : Answered(t) \/ Submit(t) \/ Visit(t) \/ Leave(t)
  \/ Time /\ UNCHANGED <<user, inbox, call, pageVars>>

Spec == Init /\ [][Next]_vars

-----------------------------------------------------------------------------
(* Properties                                                              *)

\* No cookie, live, dead or absent, sends a browser round in circles: from any
\* page the redirects of middleware.ts and of the pages come to rest, also for
\* a session that ended on the server while its cookie stays.
NoRedirectLoop ==
  \A page \in Pages, e, v \in BOOLEAN :
    LET landed == Land(page, e, v) IN Hop(landed, e, v) = landed

\* "Email verified. You can sign in now." is shown (LoginForm.tsx) only when
\* the address is verified, and whoever is signed in has verified it.
VerifiedPageIsTrue ==
  /\ \A t \in Tabs : tab[t].page = "loginVerified" => user.verified
  /\ \A s \in Sessions : session[s] = "live" => user.verified

\* A person whose address is not verified and for whom nothing is under way
\* holds a link that works, unless it has expired: no interleaving of
\* registration and resends leaves only links that a later one has replaced.
SomeLinkWorks ==
  user.exists /\ ~user.verified /\ (\A t \in Tabs : At(t, "idle")) =>
    \E k \in inbox \cap EmailTokens : emailToken[k] \in {"live", "expired"}

\* A verified address is enrolled for account verification, unless a call is
\* just about to do so: verifyEmail deletes the link before it enrols, so a
\* call that finds nothing to do must not be the last one.
VerifiedIsEnrolled ==
  user.verified /\ ~user.enrolled =>
    \E t \in Tabs : call[t].pc \in {"useLinks", "enrol", "insertEnrolled"}
=============================================================================
