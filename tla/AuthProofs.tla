----------------------------- MODULE AuthProofs -----------------------------
(***************************************************************************)
(* Theorems about AuthPages, for any number of tabs, sessions and links.   *)
(***************************************************************************)
EXTENDS AuthPages, TLAPS

-----------------------------------------------------------------------------
(***************************************************************************)
(* The redirects.                                                          *)
(***************************************************************************)

\* One redirect leads to the page itself or to one of these.
Goals == {"app", "landing", "onboarding", "verifyAccount"}

LEMMA HopGoals ==
  ASSUME NEW page, NEW e \in BOOLEAN, NEW v \in BOOLEAN
  PROVE  Hop(page, e, v) \in {page} \cup Goals
  BY DEF Hop, Middleware, PageRedirect, Goals

\* So does a chain of redirects.
LEMMA LandGoals ==
  ASSUME NEW page, NEW e \in BOOLEAN, NEW v \in BOOLEAN
  PROVE  Land(page, e, v) \in {page} \cup Goals
<1>. DEFINE first == Hop(page, e, v)
            second == Hop(first, e, v)
<1>1. first \in {page} \cup Goals
  BY HopGoals
<1>2. second \in {first} \cup Goals
  BY HopGoals
<1>3. Hop(second, e, v) \in {second} \cup Goals
  BY HopGoals
<1>. QED
  BY <1>1, <1>2, <1>3 DEF Land

\* The redirects come to rest whatever the cookie names and whatever the
\* sessions are (middleware.ts against getCurrentUser of the pages).
LEMMA RedirectsRest ==
  ASSUME NEW page \in Pages, NEW e \in BOOLEAN, NEW v \in BOOLEAN
  PROVE  Hop(Land(page, e, v), e, v) = Land(page, e, v)
<1>. DEFINE Pass(p) == Hop(p, e, v)
<1>1. CASE cookie = None
  <2>1. ~SignedIn(cookie)
    BY <1>1 DEF SignedIn
  <2>2. Pass(page) \in GuestPages
    BY <1>1, <2>1 DEF Pages, GuestPages, AppPages, Hop, Middleware, PageRedirect, HasUser
  <2>3. \A p \in GuestPages : Pass(p) = p
    BY <1>1, <2>1 DEF GuestPages, AppPages, Hop, Middleware, PageRedirect, HasUser
  <2>. QED
    BY <2>2, <2>3 DEF Land
<1>2. CASE cookie # None
  <2>1. \A p \in GuestPages : Pass(p) = "app"
    BY <1>2 DEF GuestPages, Hop, Middleware
  <2>2. Pass("onboarding") = "onboarding"
    BY <1>2 DEF GuestPages, Hop, Middleware, PageRedirect
  <2>3. CASE HasUser
    <3>1. Pass("app") \in {"app", "onboarding"} /\ Pass(Pass("app")) = Pass("app")
      BY <1>2, <2>3 DEF GuestPages, Hop, Middleware, PageRedirect
    <3>2. \A p \in {"profile", "account", "verifyAccount"} : Pass(p) = p
      BY <1>2, <2>3 DEF GuestPages, Hop, Middleware, PageRedirect
    <3>3. Pass("withdraw") \in {"withdraw", "verifyAccount"} /\ Pass(Pass("withdraw")) = Pass("withdraw")
      BY <1>2, <2>3 DEF GuestPages, Hop, Middleware, PageRedirect
    <3>4. Pass(Pass(Pass(page))) = Pass(Pass(page))
      BY <2>1, <2>2, <3>1, <3>2, <3>3 DEF Pages, AppPages
    <3>. QED
      BY <3>4 DEF Land
  <2>4. CASE ~HasUser
    <3>1. Pass("app") = "onboarding"
      BY <1>2, <2>4 DEF GuestPages, Hop, Middleware, PageRedirect
    <3>2. \A p \in {"profile", "account", "verifyAccount", "withdraw"} : Pass(p) = "landing"
      BY <1>2, <2>4 DEF GuestPages, Hop, Middleware, PageRedirect
    <3>3. Pass("landing") = "app"
      BY <2>1 DEF GuestPages
    <3>4. Pass(Pass(Pass(page))) = "onboarding"
      BY <2>1, <2>2, <3>1, <3>2, <3>3 DEF Pages, AppPages
    <3>. QED
      BY <2>2, <3>4 DEF Land
  <2>. QED
    BY <2>3, <2>4
<1>. QED
  BY <1>1, <1>2

-----------------------------------------------------------------------------
(***************************************************************************)
(* Types.                                                                  *)
(***************************************************************************)
Tokens == EmailTokens \cup ResetTokens \cup {None}
SessionIds == Sessions \cup {None}

Ops == {"none", "register", "login", "resend", "verify", "requestReset", "reset", "change", "logout"}
Pcs == (Ops \ {"none"}) \cup Ended \cup
       {"idle", "insertUser", "dropLinks", "addLink", "mail", "verifyUser", "setVerified", "useLinks",
        "enrol", "insertEnrolled", "openSession", "addReset", "mailReset", "useReset"}
UserType == [exists : BOOLEAN, verified : BOOLEAN, enrolled : BOOLEAN]
CallType == [op : Ops, pc : Pcs, token : Tokens, session : SessionIds, left : BOOLEAN]
TabType == [page : Pages, token : Tokens, resend : BOOLEAN]
RowStates == {"unused", "live", "gone", "expired"}

RowsType ==
  /\ user \in UserType
  /\ emailToken \in [EmailTokens -> RowStates]
  /\ resetToken \in [ResetTokens -> RowStates]
  /\ session \in [Sessions -> RowStates]
  /\ inbox \subseteq Tokens

AuthType ==
  /\ RowsType
  /\ call \in [Callers -> CallType]
  /\ cookie \in SessionIds
  /\ tab \in [Tabs -> TabType]

\* What Goto does to a call, and to the others.
LEMMA GotoFacts ==
  ASSUME call \in [Callers -> CallType], NEW c \in Callers, NEW pc \in Pcs, Goto(c, pc)
  PROVE  /\ call' \in [Callers -> CallType]
         /\ call'[c] = [call[c] EXCEPT !.pc = pc]
         /\ \A d \in Callers \ {c} : call'[d] = call[d]
<1>1. [call[c] EXCEPT !.pc = pc] \in CallType
  BY DEF CallType
<1>. QED
  BY <1>1 DEF Goto

LEMMA NoCallType == NoCall \in CallType
  BY DEF NoCall, CallType, Tokens, SessionIds, Ops, Pcs

LEMMA NewTabType == NewTab \in TabType
  BY DEF NewTab, TabType, Tokens, Pages, GuestPages

LEMMA HandlerType ==
  ASSUME AuthType, NEW c \in Callers, HandlerStep(c), UNCHANGED pageVars
  PROVE  AuthType'
<1>. USE DEF AuthType, RowsType, At, pageVars
<1>1. CASE RegisterRead(c) \/ Resend(c) \/ VerifyToken(c) \/ VerifyRead(c) \/ EnrolRead(c)
           \/ Login(c) \/ ChangePassword(c) \/ RequestReset(c) \/ ResetToken(c) \/ StepFails(c)
  <2>1. UNCHANGED <<user, emailToken, resetToken, session, inbox>>
    BY <1>1 DEF RegisterRead, Resend, VerifyToken, VerifyRead, EnrolRead, Login,
                ChangePassword, RequestReset, ResetToken, StepFails
  <2>2. \E pc \in Pcs : Goto(c, pc)
    BY <1>1 DEF RegisterRead, Resend, VerifyToken, VerifyRead, EnrolRead, Login,
                ChangePassword, RequestReset, ResetToken, StepFails, Pcs, Ops, Ended
  <2>. QED
    BY <2>1, <2>2, GotoFacts
<1>2. CASE RegisterInsert(c) \/ VerifySet(c) \/ EnrolInsert(c)
  <2>1. \E pc \in Pcs : Goto(c, pc)
    BY <1>2 DEF RegisterInsert, VerifySet, EnrolInsert, Pcs, Ended
  <2>2. user' \in UserType
    BY <1>2 DEF RegisterInsert, VerifySet, EnrolInsert, UserType, NoUser
  <2>. QED
    BY <1>2, <2>1, <2>2, GotoFacts DEF RegisterInsert, VerifySet, EnrolInsert
<1>3. CASE IssueDrop(c) \/ VerifyDrop(c)
  <2>1. emailToken' \in [EmailTokens -> RowStates]
    BY <1>3 DEF IssueDrop, VerifyDrop, WithoutLinks, RowStates
  <2>2. \E pc \in Pcs : Goto(c, pc)
    BY <1>3 DEF IssueDrop, VerifyDrop, Pcs
  <2>. QED
    BY <1>3, <2>1, <2>2, GotoFacts DEF IssueDrop, VerifyDrop
<1>4. CASE IssueAdd(c)
  <2>1. PICK k \in EmailTokens :
          /\ emailToken' = [emailToken EXCEPT ![k] = "live"]
          /\ call' = [call EXCEPT ![c] = [call[c] EXCEPT !.pc = "mail", !.token = k]]
    BY <1>4 DEF IssueAdd
  <2>2. [call[c] EXCEPT !.pc = "mail", !.token = k] \in CallType
    BY DEF CallType, Tokens, Pcs
  <2>. QED
    BY <1>4, <2>1, <2>2 DEF IssueAdd, RowStates
<1>5. CASE Mail(c)
  <2>1. call[c].token \in Tokens
    BY DEF CallType
  <2>. QED
    BY <1>5, <2>1, GotoFacts DEF Mail, Pcs, Ended
<1>6. CASE OpenSession(c)
  <2>1. PICK s \in Sessions :
          /\ session' = [session EXCEPT ![s] = "live"]
          /\ call' = [call EXCEPT ![c] = [call[c] EXCEPT !.pc = "ok", !.session = s]]
    BY <1>6 DEF OpenSession
  <2>2. [call[c] EXCEPT !.pc = "ok", !.session = s] \in CallType
    BY DEF CallType, SessionIds, Pcs, Ended
  <2>. QED
    BY <1>6, <2>1, <2>2 DEF OpenSession, RowStates
<1>7. CASE Logout(c)
  <2>1. session' \in [Sessions -> RowStates]
    BY <1>7 DEF Logout, RowStates
  <2>. QED
    BY <1>7, <2>1, GotoFacts DEF Logout, Pcs, Ended
<1>8. CASE ResetAdd(c)
  <2>1. PICK k \in ResetTokens :
          /\ resetToken' = [resetToken EXCEPT ![k] = "live"]
          /\ call' = [call EXCEPT ![c] = [call[c] EXCEPT !.pc = "mailReset", !.token = k]]
    BY <1>8 DEF ResetAdd
  <2>2. [call[c] EXCEPT !.pc = "mailReset", !.token = k] \in CallType
    BY DEF CallType, Tokens, Pcs
  <2>. QED
    BY <1>8, <2>1, <2>2 DEF ResetAdd, RowStates
<1>9. CASE ResetDrop(c)
  BY <1>9, GotoFacts DEF ResetDrop, Pcs, Ended, RowStates
<1>. QED
  BY <1>1, <1>2, <1>3, <1>4, <1>5, <1>6, <1>7, <1>8, <1>9 DEF HandlerStep

LEMMA TimeType ==
  ASSUME AuthType, Time, UNCHANGED <<user, inbox, call, pageVars>>
  PROVE  AuthType'
  BY DEF AuthType, RowsType, RowStates, Time, Live, pageVars

\* A page that is arrived at, and what is known of its token.
LEMMA ArriveFacts ==
  ASSUME tab \in [Tabs -> TabType], NEW t \in Tabs, NEW page \in Pages, NEW token \in Tokens,
         Arrive(t, page, token)
  PROVE  /\ tab' \in [Tabs -> TabType]
         /\ tab'[t].page \in {page} \cup Goals
         /\ tab'[t].page = page => tab'[t].token = token
         /\ \A u \in Tabs \ {t} : tab'[u] = tab[u]
<1>1. PICK e \in BOOLEAN, v \in BOOLEAN :
        LET landed == Land(page, e, v)
        IN  tab' = [tab EXCEPT ![t] = [NewTab EXCEPT !.page = landed,
                                                     !.token = IF landed = page THEN token ELSE None]]
  BY DEF Arrive
<1>. DEFINE landed == Land(page, e, v)
            shown == [NewTab EXCEPT !.page = landed, !.token = IF landed = page THEN token ELSE None]
<1>2. landed \in {page} \cup Goals
  BY LandGoals
<1>. HIDE DEF landed
<1>3. /\ shown \in TabType /\ shown.page = landed
      /\ shown.token = IF landed = page THEN token ELSE None
  BY <1>2 DEF NewTab, TabType, Tokens, Goals, Pages, GuestPages, AppPages
<1>4. tab' = [tab EXCEPT ![t] = shown]
  BY <1>1 DEF landed
<1>. QED
  BY <1>2, <1>3, <1>4

\* The tab a call was made from, or any other, shows a page.
LEMMA ShowFacts ==
  ASSUME tab \in [Tabs -> TabType], NEW t \in Tabs, NEW page \in Pages, Show(t, page)
  PROVE  /\ tab' \in [Tabs -> TabType]
         /\ tab'[t].page \in {page} \cup Goals
         /\ \A u \in Tabs \ {t} : tab'[u] = tab[u]
  BY ArriveFacts DEF Show, Tokens

LEMMA FieldsType ==
  ASSUME NEW op \in Ops \ {"none"}
  PROVE  /\ Fields(op) \in CallType
         /\ Fields(op).op = op /\ Fields(op).pc = op
  BY DEF Fields, NoCall, CallType, Tokens, SessionIds, Ops, Pcs

\* What each form sends.
LEMMA SubmitFacts ==
  ASSUME AuthType, NEW t \in Tabs, Submit(t)
  PROVE  \E fields \in CallType :
           /\ Send(t, fields)
           /\ fields.pc = fields.op /\ fields.op \in Ops \ {"none"}
           /\ fields.op = "verify" => tab[t].page = "verifyEmail" /\ fields.token = tab[t].token
<1>. DEFINE Goal == \E fields \in CallType :
           /\ Send(t, fields)
           /\ fields.pc = fields.op /\ fields.op \in Ops \ {"none"}
           /\ fields.op = "verify" => tab[t].page = "verifyEmail" /\ fields.token = tab[t].token
<1>1. ASSUME NEW op \in Ops \ {"none", "verify"}, Send(t, Fields(op))
      PROVE  Goal
  BY <1>1, FieldsType
<1>2. ASSUME NEW op \in Ops \ {"none", "verify"}, NEW token \in Tokens,
             Send(t, [Fields(op) EXCEPT !.token = token])
      PROVE  Goal
  <2>1. /\ [Fields(op) EXCEPT !.token = token] \in CallType
        /\ [Fields(op) EXCEPT !.token = token].op = op
        /\ [Fields(op) EXCEPT !.token = token].pc = op
    BY FieldsType DEF CallType
  <2>. QED
    BY <1>2, <2>1
<1>3. ASSUME NEW op \in Ops \ {"none", "verify"}, Send(t, [Fields(op) EXCEPT !.session = cookie])
      PROVE  Goal
  <2>1. /\ [Fields(op) EXCEPT !.session = cookie] \in CallType
        /\ [Fields(op) EXCEPT !.session = cookie].op = op
        /\ [Fields(op) EXCEPT !.session = cookie].pc = op
    BY FieldsType DEF CallType, AuthType
  <2>. QED
    BY <1>3, <2>1
<1>4. CASE VerifyEmailForm(t)
  <2>. DEFINE fields == [Fields("verify") EXCEPT !.token = tab[t].token]
  <2>1. tab[t].token \in Tokens
    BY DEF AuthType, TabType
  <2>2. fields \in CallType /\ fields.op = "verify" /\ fields.pc = "verify" /\ fields.token = tab[t].token
    BY <2>1, FieldsType DEF CallType, Ops
  <2>. QED
    BY <1>4, <2>2 DEF VerifyEmailForm, Ops
<1>5. CASE RegisterForm(t) \/ LoginForm(t) \/ ResendButton(t) \/ ForgotPasswordForm(t)
  BY <1>1, <1>5 DEF RegisterForm, LoginForm, ResendButton, ForgotPasswordForm, Ops
<1>6. CASE ResetPasswordForm(t)
  BY <1>2, <1>6 DEF ResetPasswordForm, Ops, AuthType, TabType
<1>7. CASE ChangePasswordForm(t) \/ LogoutButton(t)
  BY <1>3, <1>7 DEF ChangePasswordForm, LogoutButton, Ops
<1>. QED
  BY <1>4, <1>5, <1>6, <1>7 DEF Submit

\* What a page that is opened shows.
LEMMA VisitFacts ==
  ASSUME AuthType, NEW t \in Tabs, Visit(t)
  PROVE  /\ tab' \in [Tabs -> TabType]
         /\ \A u \in Tabs \ {t} : tab'[u] = tab[u]
         /\ tab'[t].page # "loginVerified"
         /\ tab'[t].page = "verifyEmail" => tab'[t].token \in EmailTokens
<1>. USE DEF AuthType
<1>1. CASE \E page \in Visited : Show(t, page)
  <2>1. PICK page \in Visited : Show(t, page)
    BY <1>1
  <2>2. page \in Pages \ {"loginVerified", "verifyEmail"}
    BY AuthPagesAssumption
  <2>. QED
    BY <2>1, <2>2, ShowFacts DEF Goals
<1>2. CASE \E k \in inbox \cap EmailTokens : Arrive(t, "verifyEmail", k)
  BY <1>2, ArriveFacts DEF Goals, Pages, GuestPages, Tokens
<1>3. CASE \E k \in inbox \cap ResetTokens : Arrive(t, "resetPassword", k)
  BY <1>3, ArriveFacts DEF Goals, Pages, GuestPages, Tokens
<1>. QED
  BY <1>1, <1>2, <1>3 DEF Visit

\* What an answer does to its tab and its call.
LEMMA AnsweredFacts ==
  ASSUME AuthType, NEW t \in Tabs, Answered(t)
  PROVE  /\ call' = [call EXCEPT ![t] = NoCall]
         /\ call[t].pc \in Ended
         /\ UNCHANGED <<user, emailToken, resetToken, session, inbox>>
         /\ cookie' \in SessionIds
         /\ tab' \in [Tabs -> TabType]
         /\ \A u \in Tabs \ {t} : tab'[u] = tab[u]
         /\ tab'[t].page = "loginVerified" =>
              tab[t].page = "loginVerified" \/ (call[t].op = "verify" /\ call[t].pc = "ok")
         /\ tab'[t].page = "verifyEmail" => tab[t].page = "verifyEmail" /\ tab'[t].token = tab[t].token
<1>. USE DEF Release, Rows, Answer, pageVars, At, AuthType
<1>1. CASE Registered(t)
  BY <1>1, ShowFacts DEF Registered, Goals, Pages, GuestPages
<1>2. CASE Verified(t)
  BY <1>2, ShowFacts DEF Verified, Goals, Pages, GuestPages
<1>3. CASE LoggedIn(t) /\ call[t].pc = "ok"
  <2>1. PICK page \in {"app", "onboarding"} : tab' = [tab EXCEPT ![t] = [NewTab EXCEPT !.page = page]]
    BY <1>3 DEF LoggedIn
  <2>2. [NewTab EXCEPT !.page = page] \in TabType /\ [NewTab EXCEPT !.page = page].page = page
    BY NewTabType DEF TabType, Pages, AppPages, NewTab
  <2>. QED
    BY <1>3, <2>1, <2>2 DEF LoggedIn, CallType, Tabs
<1>4. CASE LoggedIn(t) /\ call[t].pc # "ok"
  <2>1. [tab[t] EXCEPT !.resend = call[t].pc = "unverified"] \in TabType
    BY DEF TabType
  <2>. QED
    BY <1>4, <2>1 DEF LoggedIn, TabType
<1>5. CASE ResetSent(t)
  <2>1. [tab[t] EXCEPT !.page = "forgotSent"] \in TabType
    BY DEF TabType, Pages, GuestPages
  <2>. QED
    BY <1>5, <2>1 DEF ResetSent, TabType
<1>6. CASE ResetDone(t)
  BY <1>6, ShowFacts DEF ResetDone, Goals, Pages, GuestPages
<1>7. CASE Told(t)
  BY <1>7 DEF Told
<1>8. CASE LoggedOut(t)
  <2>1. PICK page \in {"landing", "login"} : tab' = [tab EXCEPT ![t] = [NewTab EXCEPT !.page = page]]
    BY <1>8 DEF LoggedOut
  <2>2. [NewTab EXCEPT !.page = page] \in TabType /\ [NewTab EXCEPT !.page = page].page = page
    BY NewTabType DEF TabType, Pages, GuestPages, NewTab
  <2>. QED
    BY <1>8, <2>1, <2>2 DEF LoggedOut, SessionIds
<1>9. CASE LeftBefore(t)
  <2>1. call[t].session \in SessionIds /\ None \in SessionIds
    BY DEF CallType, SessionIds, Tabs
  <2>2. cookie' \in SessionIds
    BY <1>9, <2>1 DEF LeftBefore
  <2>. QED
    BY <1>9, <2>2 DEF LeftBefore
<1>. QED
  BY <1>1, <1>2, <1>3, <1>4, <1>5, <1>6, <1>7, <1>8, <1>9 DEF Answered

LEMMA NextType == AuthType /\ [Next]_vars => AuthType'
<1>. SUFFICES ASSUME AuthType, [Next]_vars PROVE AuthType'
  OBVIOUS
<1>1. CASE \E t \in Tabs : HandlerStep(t) /\ UNCHANGED pageVars
  BY <1>1, HandlerType DEF Tabs
<1>2. ASSUME NEW t \in Tabs, Answered(t) PROVE AuthType'
  BY <1>2, AnsweredFacts, NoCallType DEF AuthType, RowsType, Tabs
<1>3. ASSUME NEW t \in Tabs, Submit(t) PROVE AuthType'
  BY <1>3, SubmitFacts DEF AuthType, RowsType, Send, pageVars, Tabs
<1>4. ASSUME NEW t \in Tabs, Visit(t) PROVE AuthType'
  BY <1>4, VisitFacts DEF AuthType, RowsType, Visit
<1>5. ASSUME NEW t \in Tabs, Leave(t) PROVE AuthType'
  <2>1. [call[t] EXCEPT !.left = TRUE] \in CallType
    BY DEF AuthType, CallType, Tabs
  <2>. QED
    BY <1>5, <2>1, NewTabType DEF AuthType, RowsType, Leave, Tabs
<1>6. CASE Time /\ UNCHANGED <<user, inbox, call, pageVars>>
  BY <1>6, TimeType
<1>7. CASE UNCHANGED vars
  BY <1>7 DEF AuthType, RowsType, vars, accountVars, pageVars
<1>. QED
  BY <1>1, <1>2, <1>3, <1>4, <1>5, <1>6, <1>7 DEF Next

LEMMA InitType == Init => AuthType
  BY NoCallType, NewTabType
  DEF Init, AccountsInit, AuthType, RowsType, UserType, NoUser, RowStates, SessionIds, Tabs

\* No state of the rows and of the cookie sends a browser round in circles.
THEOREM RedirectsAlwaysRest == Spec => []NoRedirectLoop
<1>1. NoRedirectLoop
  BY RedirectsRest DEF NoRedirectLoop
<1>. QED
  BY <1>1, PTL

-----------------------------------------------------------------------------
(***************************************************************************)
(* What a call knows on its way from one await to the next.                *)
(***************************************************************************)
VerifyPcs == {"verify", "verifyUser", "setVerified", "useLinks", "enrol", "insertEnrolled",
              "ok", "failed"}

CallKnows(k) ==
  /\ k.pc \in {"dropLinks", "addLink", "verifyUser", "setVerified"} => user.exists
  /\ k.pc \in {"useLinks", "enrol", "insertEnrolled", "openSession"} => user.verified
  /\ k.op = "verify" => k.pc \in VerifyPcs
  /\ k.op = "verify" /\ k.pc = "ok" => user.verified
  /\ k.pc = "verify" => k.token \in EmailTokens

\* A link is live, a session open and a tab says so only of a row that is there
\* and verified; no call takes that back while another relies on it.
RowsKnow ==
  /\ user.verified => user.exists
  /\ \A k \in EmailTokens : emailToken[k] = "live" => user.exists
  /\ \A s \in Sessions : session[s] = "live" => user.verified

TabsKnow ==
  \A t \in Tabs : /\ tab[t].page = "loginVerified" => user.verified
                  /\ tab[t].page = "verifyEmail" => tab[t].token \in EmailTokens

CallsKnow == \A c \in Callers : CallKnows(call[c])

AuthInv == AuthType /\ RowsKnow /\ TabsKnow /\ CallsKnow

\* Rows and calls after a step of c that took nothing back.
LEMMA StepKnows ==
  ASSUME AuthInv, NEW c \in Callers, UNCHANGED pageVars,
         user.exists => user'.exists, user.verified => user'.verified,
         RowsKnow', CallKnows(call[c])',
         \A d \in Callers \ {c} : call'[d] = call[d]
  PROVE  RowsKnow' /\ TabsKnow' /\ CallsKnow'
  BY DEF AuthInv, RowsKnow, TabsKnow, CallsKnow, CallKnows, pageVars

\* The same for a step that moves c on to pc.
GoesTo(c, pc) ==
  /\ Goto(c, pc)
  /\ pc # "verify"
  /\ pc \in {"dropLinks", "addLink", "verifyUser", "setVerified"} => user'.exists
  /\ pc \in {"useLinks", "enrol", "insertEnrolled", "openSession"} => user'.verified
  /\ call[c].pc \in VerifyPcs => pc \in VerifyPcs
  /\ call[c].pc \in VerifyPcs /\ pc = "ok" => user'.verified

LEMMA GotoKnows ==
  ASSUME AuthInv, NEW c \in Callers, UNCHANGED pageVars,
         user.exists => user'.exists, user.verified => user'.verified,
         RowsKnow', \E pc \in Pcs : GoesTo(c, pc)
  PROVE  RowsKnow' /\ TabsKnow' /\ CallsKnow'
<1>1. PICK pc \in Pcs : GoesTo(c, pc)
  OBVIOUS
<1>2. call \in [Callers -> CallType]
  BY DEF AuthInv, AuthType
<1>3. /\ call'[c] = [call[c] EXCEPT !.pc = pc]
      /\ \A d \in Callers \ {c} : call'[d] = call[d]
  BY <1>1, <1>2, GotoFacts DEF GoesTo
<1>4. /\ call'[c].pc = pc
      /\ call'[c].op = call[c].op
      /\ call'[c].token = call[c].token
  BY <1>2, <1>3 DEF CallType
<1>5. CallKnows(call[c])
  BY DEF AuthInv, CallsKnow
<1>6. CallKnows(call[c])'
  BY <1>1, <1>4, <1>5 DEF CallKnows, GoesTo
<1>. QED
  BY <1>3, <1>6, StepKnows

LEMMA HandlerKnows ==
  ASSUME AuthInv, NEW c \in Callers, HandlerStep(c), UNCHANGED pageVars
  PROVE  RowsKnow' /\ TabsKnow' /\ CallsKnow'
<1>. USE DEF At
<1>0. /\ call \in [Callers -> CallType] /\ user \in UserType
      /\ emailToken \in [EmailTokens -> RowStates] /\ session \in [Sessions -> RowStates]
      /\ call[c] \in CallType /\ CallKnows(call[c]) /\ RowsKnow
  BY DEF AuthInv, AuthType, RowsType, CallsKnow
<1>1. CASE RegisterRead(c) \/ Resend(c) \/ VerifyRead(c) \/ EnrolRead(c) \/ Login(c)
           \/ ChangePassword(c) \/ RequestReset(c) \/ ResetToken(c) \/ StepFails(c) \/ ResetDrop(c)
           \/ Logout(c) \/ VerifyToken(c)
  <2>1. UNCHANGED <<user, emailToken>> /\ \A s \in Sessions : session'[s] = "live" => session[s] = "live"
    BY <1>0, <1>1 DEF RegisterRead, Resend, VerifyRead, EnrolRead, Login, ChangePassword, RequestReset,
                  ResetToken, StepFails, ResetDrop, Logout, VerifyToken, CallType
  <2>2. \E pc \in Pcs : GoesTo(c, pc)
    BY <1>0, <1>1, <2>1
    DEF RegisterRead, Resend, VerifyRead, EnrolRead, Login, ChangePassword, RequestReset, ResetToken,
        StepFails, ResetDrop, Logout, VerifyToken, GoesTo, VerifyPcs, Pcs, Ended, Ops, CallKnows, RowsKnow
  <2>3. RowsKnow'
    BY <1>0, <2>1 DEF RowsKnow
  <2>. QED
    BY <2>1, <2>2, <2>3, GotoKnows
<1>2. CASE RegisterInsert(c) \/ VerifySet(c) \/ EnrolInsert(c)
  <2>1. /\ user.exists => user'.exists
        /\ user.verified => user'.verified
        /\ user'.verified => user'.exists
    BY <1>0, <1>2 DEF RegisterInsert, VerifySet, EnrolInsert, NoUser, UserType, CallKnows, RowsKnow
  <2>2. UNCHANGED <<emailToken, session>>
    BY <1>2 DEF RegisterInsert, VerifySet, EnrolInsert
  <2>3. RowsKnow'
    BY <1>0, <2>1, <2>2 DEF RowsKnow
  <2>4. \E pc \in Pcs : GoesTo(c, pc)
    BY <1>0, <1>2 DEF RegisterInsert, VerifySet, EnrolInsert, NoUser, UserType, GoesTo, VerifyPcs,
                      Pcs, Ended, CallKnows
  <2>. QED
    BY <2>1, <2>3, <2>4, GotoKnows
<1>3. CASE IssueDrop(c) \/ VerifyDrop(c) \/ Mail(c)
  <2>1. /\ UNCHANGED <<user, session>>
        /\ \A k \in EmailTokens : emailToken'[k] = "live" => emailToken[k] = "live"
    BY <1>3 DEF IssueDrop, VerifyDrop, Mail, WithoutLinks
  <2>2. RowsKnow'
    BY <1>0, <2>1 DEF RowsKnow
  <2>3. \E pc \in Pcs : GoesTo(c, pc)
    BY <1>0, <1>3, <2>1 DEF IssueDrop, VerifyDrop, Mail, GoesTo, VerifyPcs, Pcs, Ended, CallKnows
  <2>. QED
    BY <2>1, <2>2, <2>3, GotoKnows
<1>4. CASE IssueAdd(c)
  <2>1. PICK k \in EmailTokens :
          /\ emailToken' = [emailToken EXCEPT ![k] = "live"]
          /\ call' = [call EXCEPT ![c] = [call[c] EXCEPT !.pc = "mail", !.token = k]]
    BY <1>4 DEF IssueAdd
  <2>2. UNCHANGED <<user, session>> /\ call[c].pc = "addLink"
    BY <1>4 DEF IssueAdd
  <2>3. RowsKnow'
    BY <1>0, <2>1, <2>2 DEF RowsKnow, CallKnows
  <2>4. /\ call'[c].pc = "mail" /\ call'[c].op = call[c].op
        /\ \A d \in Callers \ {c} : call'[d] = call[d]
    BY <1>0, <2>1 DEF CallType
  <2>5. CallKnows(call[c])'
    BY <1>0, <2>2, <2>4 DEF CallKnows, VerifyPcs
  <2>. QED
    BY <2>2, <2>3, <2>4, <2>5, StepKnows
<1>5. CASE OpenSession(c)
  <2>1. PICK s \in Sessions :
          /\ session' = [session EXCEPT ![s] = "live"]
          /\ call' = [call EXCEPT ![c] = [call[c] EXCEPT !.pc = "ok", !.session = s]]
    BY <1>5 DEF OpenSession
  <2>2. UNCHANGED <<user, emailToken>> /\ call[c].pc = "openSession"
    BY <1>5 DEF OpenSession
  <2>3. RowsKnow'
    BY <1>0, <2>1, <2>2 DEF RowsKnow, CallKnows
  <2>4. /\ call'[c].pc = "ok" /\ call'[c].op = call[c].op
        /\ \A d \in Callers \ {c} : call'[d] = call[d]
    BY <1>0, <2>1 DEF CallType
  <2>5. CallKnows(call[c])'
    BY <1>0, <2>2, <2>4 DEF CallKnows, VerifyPcs
  <2>. QED
    BY <2>2, <2>3, <2>4, <2>5, StepKnows
<1>6. CASE ResetAdd(c)
  <2>1. PICK k \in ResetTokens :
          call' = [call EXCEPT ![c] = [call[c] EXCEPT !.pc = "mailReset", !.token = k]]
    BY <1>6 DEF ResetAdd
  <2>2. UNCHANGED <<user, emailToken, session>> /\ call[c].pc = "addReset"
    BY <1>6 DEF ResetAdd
  <2>3. RowsKnow'
    BY <1>0, <2>2 DEF RowsKnow
  <2>4. /\ call'[c].pc = "mailReset" /\ call'[c].op = call[c].op
        /\ \A d \in Callers \ {c} : call'[d] = call[d]
    BY <1>0, <2>1 DEF CallType
  <2>5. CallKnows(call[c])'
    BY <1>0, <2>2, <2>4 DEF CallKnows, VerifyPcs
  <2>. QED
    BY <2>2, <2>3, <2>4, <2>5, StepKnows
<1>. QED
  BY <1>1, <1>2, <1>3, <1>4, <1>5, <1>6 DEF HandlerStep

LEMMA AnsweredKnows ==
  ASSUME AuthInv, NEW t \in Tabs, Answered(t)
  PROVE  RowsKnow' /\ TabsKnow' /\ CallsKnow'
<1>1. AuthType /\ call[t] \in CallType /\ CallKnows(call[t])
  BY DEF AuthInv, AuthType, CallsKnow, Tabs
<1>2. RowsKnow'
  BY <1>1, AnsweredFacts DEF AuthInv, RowsKnow
<1>3. TabsKnow'
  BY <1>1, AnsweredFacts DEF AuthInv, TabsKnow, CallKnows
<1>4. CallKnows(NoCall)
  BY DEF CallKnows, NoCall
<1>5. CallsKnow'
  BY <1>1, <1>4, AnsweredFacts DEF AuthInv, AuthType, CallsKnow, CallKnows, Tabs
<1>. QED
  BY <1>2, <1>3, <1>5

LEMMA NextKnows == AuthInv /\ [Next]_vars => AuthInv'
<1>. SUFFICES ASSUME AuthInv, [Next]_vars PROVE RowsKnow' /\ TabsKnow' /\ CallsKnow'
  BY NextType DEF AuthInv
<1>1. CASE \E t \in Tabs : HandlerStep(t) /\ UNCHANGED pageVars
  BY <1>1, HandlerKnows DEF Tabs
<1>2. CASE \E t \in Tabs : Answered(t)
  BY <1>2, AnsweredKnows
<1>3. ASSUME NEW t \in Tabs, Submit(t) PROVE RowsKnow' /\ TabsKnow' /\ CallsKnow'
  <2>1. PICK fields \in CallType :
          /\ Send(t, fields)
          /\ fields.pc = fields.op /\ fields.op \in Ops \ {"none"}
          /\ fields.op = "verify" => tab[t].page = "verifyEmail" /\ fields.token = tab[t].token
    BY <1>3, SubmitFacts DEF AuthInv
  <2>2. CallKnows(fields)
    BY <2>1 DEF CallKnows, Ops, VerifyPcs, AuthInv, TabsKnow
  <2>3. CallKnows(call[t])'
    BY <2>1, <2>2 DEF CallKnows, Send, AuthInv, AuthType, Tabs
  <2>4. RowsKnow'
    BY <2>1 DEF RowsKnow, Send, AuthInv
  <2>. QED
    BY <2>1, <2>3, <2>4, StepKnows DEF Send, AuthInv, AuthType, Tabs
<1>4. ASSUME NEW t \in Tabs, Visit(t) PROVE RowsKnow' /\ TabsKnow' /\ CallsKnow'
  BY <1>4, VisitFacts DEF AuthInv, RowsKnow, TabsKnow, CallsKnow, CallKnows, Visit
<1>5. ASSUME NEW t \in Tabs, Leave(t) PROVE RowsKnow' /\ TabsKnow' /\ CallsKnow'
  <2>1. /\ call' = [call EXCEPT ![t] = [call[t] EXCEPT !.left = TRUE]]
        /\ tab' = [tab EXCEPT ![t] = NewTab]
        /\ UNCHANGED <<user, emailToken, session>>
    BY <1>5 DEF Leave
  <2>2. call[t] \in CallType /\ CallKnows(call[t])
    BY DEF AuthInv, AuthType, CallsKnow, Tabs
  <2>3. /\ call'[t].pc = call[t].pc /\ call'[t].op = call[t].op /\ call'[t].token = call[t].token
        /\ \A d \in Callers \ {t} : call'[d] = call[d]
    BY <2>1, <2>2 DEF AuthInv, AuthType, CallType, Tabs
  <2>4. CallsKnow'
    BY <2>1, <2>2, <2>3 DEF AuthInv, CallsKnow, CallKnows
  <2>5. TabsKnow'
    BY <2>1 DEF AuthInv, AuthType, TabsKnow, NewTab
  <2>. QED
    BY <2>1, <2>4, <2>5 DEF AuthInv, RowsKnow
<1>6. CASE Time /\ UNCHANGED <<user, inbox, call, pageVars>>
  <2>1. /\ UNCHANGED <<user, call, tab>>
        /\ \A k \in EmailTokens : emailToken'[k] = "live" => emailToken[k] = "live"
        /\ \A s \in Sessions : session'[s] = "live" => session[s] = "live"
    BY <1>6 DEF Time, Live, AuthInv, AuthType, RowsType, pageVars
  <2>. QED
    BY <2>1 DEF AuthInv, RowsKnow, TabsKnow, CallsKnow, CallKnows
<1>7. CASE UNCHANGED vars
  BY <1>7 DEF AuthInv, RowsKnow, TabsKnow, CallsKnow, CallKnows, vars, accountVars, pageVars
<1>. QED
  BY <1>1, <1>2, <1>3, <1>4, <1>5, <1>6, <1>7 DEF Next

LEMMA InitKnows == Init => AuthInv
  BY InitType
  DEF Init, AccountsInit, AuthInv, RowsKnow, TabsKnow, CallsKnow, CallKnows, NoUser, NoCall, NewTab, Tabs

\* "Email verified" is shown, and a session open, only when the address is
\* verified (verifyEmail, login), whatever fails and however calls overlap.
THEOREM VerifiedPageAlwaysTrue == Spec => []VerifiedPageIsTrue
<1>1. AuthInv => VerifiedPageIsTrue
  BY DEF AuthInv, RowsKnow, TabsKnow, VerifiedPageIsTrue
<1>. QED
  BY <1>1, InitKnows, NextKnows, PTL DEF Spec

-----------------------------------------------------------------------------
(***************************************************************************)
(* Enrolment and links.  What a call leaves undone when it breaks off      *)
(* nobody takes up, so these two are about calls that do not break off     *)
(* there.                                                                  *)
(***************************************************************************)
EnrolPcs == {"useLinks", "enrol", "insertEnrolled"}
IssuePcs == {"dropLinks", "addLink", "mail"}

LEMMA HandlerEnrols ==
  ASSUME Failing \cap EnrolPcs = {}, AuthInv, VerifiedIsEnrolled,
         NEW c \in Callers, HandlerStep(c)
  PROVE  VerifiedIsEnrolled'
<1>. USE DEF At
<1>1. /\ call \in [Callers -> CallType] /\ user \in UserType /\ call[c] \in CallType
  BY DEF AuthInv, AuthType, RowsType
<1>2. \A d \in Callers \ {c} : call'[d] = call[d]
  BY <1>1 DEF HandlerStep, Goto, RegisterRead, RegisterInsert, Resend, IssueDrop, IssueAdd, Mail,
              VerifyToken, VerifyRead, VerifySet, VerifyDrop, EnrolRead, EnrolInsert, Login, OpenSession,
              Logout, ChangePassword, RequestReset, ResetAdd, ResetToken, ResetDrop, StepFails
<1>3. user'.verified /\ ~user'.enrolled =>
         \/ user.verified /\ ~user.enrolled /\ call[c].pc \notin EnrolPcs
         \/ call'[c].pc \in EnrolPcs
  BY <1>1 DEF HandlerStep, Goto, RegisterRead, RegisterInsert, Resend, IssueDrop, IssueAdd, Mail,
              VerifyToken, VerifyRead, VerifySet, VerifyDrop, EnrolRead, EnrolInsert, Login, OpenSession,
              Logout, ChangePassword, RequestReset, ResetAdd, ResetToken, ResetDrop, StepFails,
              UserType, NoUser, EnrolPcs, CallType
<1>. QED
  BY <1>2, <1>3 DEF VerifiedIsEnrolled, EnrolPcs, Tabs

LEMMA NextEnrols ==
  Failing \cap EnrolPcs = {} /\ AuthInv /\ VerifiedIsEnrolled /\ [Next]_vars => VerifiedIsEnrolled'
<1>. SUFFICES ASSUME Failing \cap EnrolPcs = {}, AuthInv, VerifiedIsEnrolled, [Next]_vars
              PROVE  VerifiedIsEnrolled'
  OBVIOUS
<1>1. CASE \E t \in Tabs : HandlerStep(t)
  BY <1>1, HandlerEnrols DEF Tabs
<1>2. ASSUME UNCHANGED user,
             \A u \in Tabs : call[u].pc \in EnrolPcs => call'[u].pc = call[u].pc
      PROVE  VerifiedIsEnrolled'
  BY <1>2 DEF VerifiedIsEnrolled, EnrolPcs
<1>3. ASSUME NEW t \in Tabs, Answered(t) PROVE VerifiedIsEnrolled'
  BY <1>2, <1>3, AnsweredFacts DEF EnrolPcs, Ended, AuthInv, AuthType, Tabs
<1>4. ASSUME NEW t \in Tabs, Submit(t) PROVE VerifiedIsEnrolled'
  BY <1>2, <1>4, SubmitFacts DEF EnrolPcs, Send, At, AuthInv, AuthType, Tabs
<1>5. ASSUME NEW t \in Tabs, Visit(t) PROVE VerifiedIsEnrolled'
  BY <1>2, <1>5 DEF Visit
<1>6. ASSUME NEW t \in Tabs, Leave(t) PROVE VerifiedIsEnrolled'
  <2>1. call[t] \in CallType
    BY DEF AuthInv, AuthType, Tabs
  <2>. QED
    BY <1>2, <1>6, <2>1 DEF Leave, AuthInv, AuthType, CallType, Tabs
<1>7. CASE Time /\ UNCHANGED <<user, inbox, call, pageVars>>
  BY <1>2, <1>7
<1>8. CASE UNCHANGED vars
  BY <1>2, <1>8 DEF vars, accountVars
<1>. QED
  BY <1>1, <1>3, <1>4, <1>5, <1>6, <1>7, <1>8 DEF Next

\* verifyEmail deletes the links before it enrols: as long as its last three
\* statements do not fail, no interleaving of calls leaves a verified address
\* that is not enrolled and that nobody is about to enrol.
THEOREM VerifiedAlwaysEnrolled ==
  ASSUME Failing \cap EnrolPcs = {}
  PROVE  Spec => []VerifiedIsEnrolled
<1>1. Init => VerifiedIsEnrolled
  BY DEF Init, AccountsInit, NoUser, VerifiedIsEnrolled
<1>2. AuthInv /\ VerifiedIsEnrolled /\ [Next]_vars => VerifiedIsEnrolled'
  BY NextEnrols
<1>. QED
  BY <1>1, <1>2, InitKnows, NextKnows, PTL DEF Spec

\* A link works, or is about to be issued or mailed.
Works(k) == k \in EmailTokens /\ emailToken[k] \in {"live", "expired"}

LinkComes ==
  user.exists /\ ~user.verified =>
    \/ \E c \in Callers : call[c].pc \in {"dropLinks", "addLink"}
    \/ \E c \in Callers : call[c].pc = "mail" /\ Works(call[c].token)
    \/ \E k \in inbox : Works(k)

LEMMA HandlerMails ==
  ASSUME Failing \cap IssuePcs = {}, AuthInv, LinkComes, NEW c \in Callers, HandlerStep(c)
  PROVE  LinkComes'
<1>. USE DEF At
<1>0. /\ call \in [Callers -> CallType] /\ user \in UserType /\ call[c] \in CallType
      /\ emailToken \in [EmailTokens -> RowStates]
      /\ CallKnows(call[c])
  BY DEF AuthInv, AuthType, RowsType, CallsKnow
<1>1. SUFFICES ASSUME user'.exists, ~user'.verified PROVE LinkComes'
  BY DEF LinkComes
<1>2. CASE RegisterInsert(c)
  BY <1>0, <1>1, <1>2 DEF RegisterInsert, Goto, UserType, NoUser, CallType, LinkComes, Works
<1>3. CASE IssueDrop(c)
  <2>1. call'[c].pc = "addLink"
    BY <1>0, <1>3 DEF IssueDrop, Goto, CallType
  <2>. QED
    BY <2>1 DEF LinkComes
<1>4. CASE IssueAdd(c)
  <2>1. call'[c].pc = "mail" /\ Works(call[c].token)'
    BY <1>0, <1>4 DEF IssueAdd, CallType, Works
  <2>. QED
    BY <2>1 DEF LinkComes
<1>5. CASE Mail(c)
  <2>1. /\ inbox' = inbox \cup {call[c].token} /\ UNCHANGED <<user, emailToken>>
        /\ \A d \in Callers \ {c} : call'[d] = call[d]
        /\ call[c].pc \notin {"dropLinks", "addLink"}
    BY <1>0, <1>5 DEF Mail, Goto
  <2>. QED
    BY <1>1, <2>1 DEF LinkComes, Works
<1>6. CASE VerifyDrop(c)
  BY <1>0, <1>1, <1>6 DEF VerifyDrop, CallKnows
<1>7. CASE VerifySet(c)
  BY <1>0, <1>1, <1>7 DEF VerifySet, UserType
<1>8. ASSUME UNCHANGED <<user, emailToken, inbox>>, call[c].pc \notin IssuePcs,
             \A d \in Callers \ {c} : call'[d] = call[d]
      PROVE  LinkComes'
  BY <1>1, <1>8 DEF LinkComes, Works, IssuePcs
<1>9. CASE RegisterRead(c) \/ Resend(c) \/ VerifyToken(c) \/ VerifyRead(c) \/ EnrolRead(c) \/ Login(c)
           \/ OpenSession(c) \/ Logout(c) \/ ChangePassword(c) \/ RequestReset(c) \/ ResetAdd(c)
           \/ ResetToken(c) \/ ResetDrop(c) \/ StepFails(c)
  BY <1>0, <1>8, <1>9
  DEF RegisterRead, Resend, VerifyToken, VerifyRead, EnrolRead, Login, OpenSession, Logout, ChangePassword,
      RequestReset, ResetAdd, ResetToken, ResetDrop, StepFails, Goto, IssuePcs
<1>10. CASE EnrolInsert(c)
  BY <1>0, <1>1, <1>10 DEF EnrolInsert, CallKnows, UserType
<1>. QED
  BY <1>2, <1>3, <1>4, <1>5, <1>6, <1>7, <1>9, <1>10 DEF HandlerStep

LEMMA NextMails ==
  Failing \cap IssuePcs = {} /\ AuthInv /\ LinkComes /\ [Next]_vars => LinkComes'
<1>. SUFFICES ASSUME Failing \cap IssuePcs = {}, AuthInv, LinkComes, [Next]_vars
              PROVE  LinkComes'
  OBVIOUS
<1>1. CASE \E t \in Tabs : HandlerStep(t)
  BY <1>1, HandlerMails DEF Tabs
<1>2. ASSUME UNCHANGED <<user, inbox>>,
             \A k \in EmailTokens : Works(k) => Works(k)',
             \A u \in Callers : call[u].pc \in IssuePcs =>
                call'[u].pc = call[u].pc /\ call'[u].token = call[u].token
      PROVE  LinkComes'
  BY <1>2 DEF LinkComes, IssuePcs, Works
<1>3. ASSUME NEW t \in Tabs, Answered(t) PROVE LinkComes'
  BY <1>2, <1>3, AnsweredFacts DEF IssuePcs, Ended, AuthInv, AuthType, Tabs, Works
<1>4. ASSUME NEW t \in Tabs, Submit(t) PROVE LinkComes'
  BY <1>2, <1>4, SubmitFacts DEF IssuePcs, Send, At, AuthInv, AuthType, Tabs, Works
<1>5. ASSUME NEW t \in Tabs, Visit(t) PROVE LinkComes'
  BY <1>2, <1>5 DEF Visit, Works
<1>6. ASSUME NEW t \in Tabs, Leave(t) PROVE LinkComes'
  <2>1. call[t] \in CallType
    BY DEF AuthInv, AuthType, Tabs
  <2>. QED
    BY <1>2, <1>6, <2>1 DEF Leave, AuthInv, AuthType, CallType, Tabs, Works
<1>7. CASE Time /\ UNCHANGED <<user, inbox, call, pageVars>>
  <2>1. \A k \in EmailTokens : Works(k) => Works(k)'
    BY <1>7 DEF Time, Live, AuthInv, AuthType, RowsType, Works
  <2>. QED
    BY <1>2, <1>7, <2>1
<1>8. CASE UNCHANGED vars
  BY <1>2, <1>8 DEF vars, accountVars, Works
<1>. QED
  BY <1>1, <1>3, <1>4, <1>5, <1>6, <1>7, <1>8 DEF Next

\* As long as issuing a link does not break off, a person who is not verified
\* and for whom nothing is under way holds a link that works or has expired,
\* however registrations and resends delete each other's links.
THEOREM SomeLinkAlwaysWorks ==
  ASSUME Failing \cap IssuePcs = {}
  PROVE  Spec => []SomeLinkWorks
<1>1. Init => LinkComes
  BY DEF Init, AccountsInit, NoUser, LinkComes
<1>2. AuthInv /\ LinkComes /\ [Next]_vars => LinkComes'
  BY NextMails
<1>3. LinkComes => SomeLinkWorks
  BY DEF LinkComes, SomeLinkWorks, Works, At, Tabs
<1>. QED
  BY <1>1, <1>2, <1>3, InitKnows, NextKnows, PTL DEF Spec
=============================================================================
