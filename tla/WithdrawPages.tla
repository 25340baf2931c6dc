--------------------------- MODULE WithdrawPages ---------------------------
(***************************************************************************)
(* The withdraw page (WithdrawWizard.tsx) on top of what withdrawing       *)
(* promises (WithdrawalEscrow).  The page lists events, asks for an        *)
(* amount, confirms with a code and waits for the payout, which only its   *)
(* own polls settle.                                                       *)
(*                                                                         *)
(* The browser sends the server actions of the page one after the other.   *)
(* What a request does at the server and what the page does with its       *)
(* answer is one step: clicks and the server's rows do not see each other. *)
(* The user's only method was provisioned with the account, so that step   *)
(* chooses nothing; contributions do not arrive meanwhile.                 *)
(***************************************************************************)
EXTENDS WithdrawalEscrow, Sorting, Sequences

CONSTANTS
  MinWithdraw,    \* MIN_WITHDRAW
  DefaultAmount,  \* DEFAULT_WITHDRAW_AMOUNT
  MaxPolls,       \* MOMO_MAX_POLLS (48 in the code)
  MaxQueue        \* bound: server actions waiting for an earlier one

ASSUME WithdrawPagesAssumption ==
  /\ MinWithdraw \in Nat \ {0} /\ DefaultAmount \in Nat
  /\ MaxPolls \in Nat \ {0} /\ MaxQueue \in Nat \ {0}
  /\ IsFiniteSet(WithdrawalIds) /\ IsFiniteSet(Events) /\ None \notin WithdrawalIds \cup Events
  /\ Amounts \subseteq Nat /\ Contributions \subseteq Nat /\ OpeningRaised \in [Events -> Nat]

VARIABLES
  payout,    \* what the provider made of a payout: "none", "pending", "success" or "failed"
  page,      \* what the page shows
  queue,     \* its server actions, the first of them under way
  sleeping   \* per withdrawal, the poll loop between two polls: its next poll, and whether its page is gone

pageVars == <<payout, page, queue, sleeping>>
withdrawVars == <<evars, pageVars>>

Status == [none |-> "PENDING", open |-> "PENDING", held |-> "PENDING",
           paid |-> "SUCCESSFUL", closed |-> "FAILED"]
NoResult == [w |-> None, status |-> "none"]
NoRequest == [op |-> "none", w |-> None, ev |-> None, amt |-> 0, polls |-> 0,
              right |-> FALSE, gone |-> FALSE]
Awake == [polls |-> 0, gone |-> FALSE]

Least(a, b) == IF a < b THEN a ELSE b

\* availableToWithdraw: a withdrawal that waits for its code holds money back too.
Available(e) ==
  LET taken == SumFunctionOnSet(amount, {w \in WithdrawalIds : phase[w] \in {"open", "held", "paid"} /\ event[w] = e})
  IN  IF taken < raised[e] THEN raised[e] - taken ELSE 0

EventOptions == [e \in Events |-> Available(e)]
Balance == SumFunctionOnSet([e \in Events |-> raised[e] - Held(e)], Events)

\* The page as it loads, with the event its address names, if that one has
\* money.  The balance stays as it was then.
LoadedPage(preselected) ==
  [step |-> 1, options |-> EventOptions, balance |-> Balance,
   ev |-> IF preselected # None /\ EventOptions[preselected] >= MinWithdraw THEN preselected ELSE None,
   amt |-> Least(DefaultAmount, Balance), fees |-> FALSE, init |-> None,
   loading |-> FALSE, result |-> NoResult]

\* The effect on the amount asks for its fees.  As requests are answered in
\* turn, the answer is there before that of any later one: an error takes the
\* fees away, and step 4 shows nothing without them.
Priced(shown) ==
  IF shown.amt >= MinWithdraw THEN {[shown EXCEPT !.fees = fees] : fees \in BOOLEAN} ELSE {shown}

WithdrawInit ==
  /\ EscrowInit
  /\ payout = [w \in WithdrawalIds |-> "none"]
  /\ \E e \in Events \cup {None} : page \in Priced(LoadedPage(e))
  /\ queue = <<>>
  /\ sleeping = [w \in WithdrawalIds |-> Awake]

HasRoom == Len(queue) < MaxQueue
OnPage(shown, requests) ==
  /\ page' = shown
  /\ queue' = queue \o requests
  /\ UNCHANGED <<evars, payout, sleeping>>

-----------------------------------------------------------------------------
(* The steps before the amount                                             *)

SelectEvent ==
  /\ page.step = 1
  /\ \E e \in Events :
       page.options[e] >= MinWithdraw /\ OnPage([page EXCEPT !.ev = e], <<>>)

GoToStep2 ==
  /\ page.step = 1 /\ page.ev # None
  /\ page.options[page.ev] >= MinWithdraw
  /\ OnPage([page EXCEPT !.step = 2], <<>>)

\* Whenever step 3 is entered its effect fetches the events again.
OptionsOf(ev) == [NoRequest EXCEPT !.op = "options", !.ev = ev]

GoToStep3 ==
  /\ page.step = 2 /\ HasRoom
  /\ OnPage([page EXCEPT !.step = 3], <<OptionsOf(page.ev)>>)

\* Not disabled while something is under way.
BackButton ==
  /\ page.step \in 2..4 /\ HasRoom
  /\ OnPage([page EXCEPT !.step = @ - 1], IF page.step = 4 THEN <<OptionsOf(page.ev)>> ELSE <<>>)

-----------------------------------------------------------------------------
(* The amount                                                              *)

TypeAmount ==
  /\ page.step = 3
  /\ \E amt \in Amounts \ {page.amt} :
       \E shown \in Priced([page EXCEPT !.amt = amt]) : OnPage(shown, <<>>)

\* goToStep4, until its first await.  Loading is not set yet, so that a second
\* click goes the same way.
GoToStep4 ==
  /\ page.step = 3 /\ ~page.loading /\ HasRoom
  /\ page.amt >= MinWithdraw /\ page.amt <= page.balance
  /\ OnPage(page, <<[NoRequest EXCEPT !.op = "recheck", !.ev = page.ev, !.amt = page.amt]>>)

-----------------------------------------------------------------------------
(* The code and the result                                                 *)

OnCode == page.step = 4 /\ page.init # None /\ page.fees /\ ~page.loading /\ HasRoom

HandleResendOtp ==
  /\ OnCode
  /\ OnPage([page EXCEPT !.loading = TRUE], <<[NoRequest EXCEPT !.op = "resend", !.w = page.init]>>)

HandleVerifyOtp ==
  /\ OnCode
  /\ \E right \in BOOLEAN :
       OnPage([page EXCEPT !.loading = TRUE],
              <<[NoRequest EXCEPT !.op = "verify", !.w = page.init, !.right = right]>>)

\* The loop's timer.
PollTimer(w) ==
  /\ sleeping[w].polls > 0
  /\ queue' = Append(queue, [NoRequest EXCEPT !.op = "poll", !.w = w, !.polls = sleeping[w].polls,
                                              !.gone = sleeping[w].gone])
  /\ sleeping' = [sleeping EXCEPT ![w] = Awake]
  /\ UNCHANGED <<evars, payout, page>>

CheckStatus ==
  /\ page.step = 5 /\ page.result.status = "PENDING"
  /\ page.init # None /\ ~page.loading /\ HasRoom
  /\ OnPage([page EXCEPT !.loading = TRUE], <<[NoRequest EXCEPT !.op = "check", !.w = page.init]>>)

TryAgain ==
  /\ page.step = 5 /\ page.result.status = "FAILED"
  /\ OnPage([page EXCEPT !.step = 1, !.result = NoResult, !.init = None], <<>>)

\* To another page and back.  What was clicked goes on, the loops too, and
\* nothing shows what they bring.
LeavePage ==
  /\ page.step # 1
  /\ \E e \in Events \cup {None} : page' \in Priced(LoadedPage(e))
  /\ LET left == Without(queue, {"options", "resend"})
     IN  queue' = [k \in DOMAIN left |-> [left[k] EXCEPT !.gone = TRUE]]
  /\ sleeping' = [w \in WithdrawalIds |-> [sleeping[w] EXCEPT !.gone = sleeping[w].polls > 0]]
  /\ UNCHANGED <<evars, payout>>

-----------------------------------------------------------------------------
(* Answers                                                                 *)

Asked == Head(queue)
Serving(op) == queue # <<>> /\ Asked.op = op

\* A page that was left shows nothing.
Taken(shown, requests) ==
  /\ page' = IF Asked.gone THEN page ELSE shown
  /\ queue' = Tail(queue) \o requests

Stopped == [page EXCEPT !.loading = FALSE]
NothingDone == UNCHANGED <<evars, payout>>

\* The answer may be an error whatever was done.
Refused(op) ==
  /\ Serving(op)
  /\ Taken(IF op \in {"options", "recheck"} THEN page ELSE Stopped, <<>>)
  /\ NothingDone /\ UNCHANGED sleeping

MostOf(ev) == Least(page.balance, Available(ev))

\* It goes over an amount that was typed before it came.
OptionsAnswered ==
  /\ Serving("options")
  /\ LET shown == [page EXCEPT !.options = EventOptions, !.amt = Least(DefaultAmount, MostOf(Asked.ev))]
     IN  \E priced \in (IF shown.amt = page.amt THEN {shown} ELSE Priced(shown)) : Taken(priced, <<>>)
  /\ NothingDone /\ UNCHANGED sleeping

\* The rest of goToStep4, with the event and the amount of the click.
RecheckAnswered ==
  /\ Serving("recheck")
  /\ LET covered == Asked.amt <= MostOf(Asked.ev)
     IN  Taken([page EXCEPT !.options = EventOptions, !.loading = @ \/ covered],
               IF covered THEN <<[Asked EXCEPT !.op = "initiate"]>> ELSE <<>>)
  /\ NothingDone /\ UNCHANGED sleeping

\* Every click has an idempotency key of its own.  The page goes to step 4 from
\* wherever it is.
InitiateAnswered ==
  /\ Serving("initiate") /\ Asked.amt <= Available(Asked.ev)
  /\ \E w \in WithdrawalIds :
       /\ Open(w) /\ event'[w] = Asked.ev /\ amount'[w] = Asked.amt
       /\ \/ Taken([Stopped EXCEPT !.init = w, !.step = 4], <<>>)
          \/ Taken(Stopped, <<>>)
  /\ UNCHANGED <<payout, sleeping>>

ResendAnswered ==
  /\ Serving("resend")
  /\ Taken(Stopped, <<>>)
  /\ NothingDone /\ UNCHANGED sleeping

Result(w, status) == [Stopped EXCEPT !.step = 5, !.result = [w |-> w, status |-> status]]

PollNext(polls) == sleeping' = [sleeping EXCEPT ![Asked.w] = [polls |-> polls, gone |-> Asked.gone]]

\* A code that expired or was guessed too often, a wrong one, or the money is
\* gone; then "failed to start", after which the debit is given back.
VerifyRefused ==
  /\ Serving("verify")
  /\ \/ Cancel(Asked.w)
     \/ UNCHANGED evars
  /\ Taken(Stopped, <<>>)
  /\ UNCHANGED <<payout, sleeping>>

\* The payout is sent and polled once.  The answer may be lost.
VerifyAnswered ==
  /\ Serving("verify") /\ Asked.right
  /\ Hold(Asked.w)
  /\ payout' = [payout EXCEPT ![Asked.w] = "pending"]
  /\ \/ /\ Taken(page, <<>>)
        /\ PollNext(1)
     \/ Taken(Stopped, <<>>) /\ UNCHANGED sleeping

\* poll: what the provider decided is recorded, then answered.
Settled(w) ==
  CASE phase[w] = "held" /\ payout[w] = "success" -> "paid"
    [] phase[w] = "held" /\ payout[w] = "failed" -> "closed"
    [] OTHER -> phase[w]
PollRow(w) ==
  /\ IF Settled(w) = phase[w] THEN UNCHANGED evars ELSE Move(w, "held", Settled(w))
  /\ UNCHANGED payout

\* Mutant of PollAnswered: out of polls, the payout is taken to have failed.
PollAnsweredAsFailed ==
  /\ Serving("poll")
  /\ LET w == Asked.w
         pending == Status[Settled(w)] = "PENDING"
         again == pending /\ Asked.polls < MaxPolls
     IN  /\ PollRow(w)
         /\ Taken(IF again THEN page ELSE Result(w, IF pending THEN "FAILED" ELSE Status[Settled(w)]), <<>>)
         /\ IF again THEN PollNext(Asked.polls + 1) ELSE UNCHANGED sleeping

PollAnswered ==
  /\ Serving("poll")
  /\ LET w == Asked.w
         status == Status[Settled(w)]
         again == status = "PENDING" /\ Asked.polls < MaxPolls
     IN  /\ PollRow(w)
         /\ Taken(IF again THEN page ELSE Result(w, status), <<>>)
         /\ IF again THEN PollNext(Asked.polls + 1) ELSE UNCHANGED sleeping

\* Mutant of CheckAnswered: the status is read without asking the provider.
CheckAnsweredFromRow ==
  /\ Serving("check")
  /\ NothingDone
  /\ Taken([Stopped EXCEPT !.result = [w |-> Asked.w, status |-> Status[phase[Asked.w]]]], <<>>)
  /\ UNCHANGED sleeping

CheckAnswered ==
  /\ Serving("check")
  /\ PollRow(Asked.w)
  /\ Taken([Stopped EXCEPT !.result = [w |-> Asked.w, status |-> Status[Settled(Asked.w)]]], <<>>)
  /\ UNCHANGED sleeping

-----------------------------------------------------------------------------
ProviderDecides(w) ==
  /\ payout[w] = "pending"
  /\ \E decided \in {"success", "failed"} : payout' = [payout EXCEPT ![w] = decided]
  /\ UNCHANGED <<evars, page, queue, sleeping>>

Answered ==
  \/ OptionsAnswered \/ RecheckAnswered \/ InitiateAnswered \/ ResendAnswered
  \/ VerifyRefused \/ VerifyAnswered \/ PollAnswered \/ CheckAnswered
  \/ \E op \in {"options", "recheck", "initiate", "resend", "poll", "check"} : Refused(op)

WithdrawNext ==
  \/ SelectEvent \/ GoToStep2 \/ GoToStep3 \/ BackButton \/ TypeAmount \/ GoToStep4
  \/ HandleResendOtp \/ HandleVerifyOtp \/ CheckStatus \/ TryAgain \/ LeavePage
  \/ Answered
  \/ \E w \in WithdrawalIds : PollTimer(w) \/ ProviderDecides(w)

\* Requests are answered, timers fire, the provider decides, the user asks for
\* the status again while the page offers to, and of those answers one is not
\* an error.
WithdrawFairness ==
  /\ WF_withdrawVars(Answered)
  /\ \A w \in WithdrawalIds : WF_withdrawVars(PollTimer(w)) /\ WF_withdrawVars(ProviderDecides(w))
  /\ SF_withdrawVars(CheckStatus) /\ SF_withdrawVars(CheckAnswered)

-----------------------------------------------------------------------------
(* Properties                                                              *)

\* A result is final and is the row's, whatever polls, loops and other
\* withdrawals of the page were under way (handleVerifyOtp, "Check status").
ResultIsTrue ==
  page.step = 5 /\ page.result.status # "PENDING" =>
    page.result.w # None /\ page.result.status = Status[phase[page.result.w]]

\* A page that waits for a payout or shows it in progress comes to show what
\* became of it, though the loop gives up after its polls; unless an answer is
\* an error while it waits, or another withdrawal of the page takes its place.
ProgressIsShown ==
  \A w \in WithdrawalIds :
    /\ page.init = w /\ phase[w] = "held"
    /\ page.loading \/ (page.step = 5 /\ page.result.w = w)
    ~>
      \/ (page.step # 5 /\ ~page.loading)
      \/ page.init # w
      \/ (page.step = 5 /\ page.result.w # w)
      \/ (page.result = [w |-> w, status |-> Status[phase[w]]] /\ phase[w] \in {"paid", "closed"})
=============================================================================
