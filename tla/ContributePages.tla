-------------------------- MODULE ContributePages ---------------------------
(***************************************************************************)
(* The two pages that record contributions of an event: the form on the    *)
(* event's page (ContributeForm.tsx), which pays by mobile money or        *)
(* pledges, and the treasurer's list (ContributionsPageContent.tsx), which *)
(* records cash and hides rows.  Deposits has what the handlers do in      *)
(* detail; here a request and what its page does with the answer is one    *)
(* step, clicks and the tables do not see each other.                      *)
(*                                                                         *)
(* A page's server actions are sent one after the other.  An answer may be *)
(* an error although the request was carried out, or may never come.  The  *)
(* event may be paused and resumed at any time: whether it is open is a    *)
(* choice of each request, and of each page that loads.                    *)
(***************************************************************************)
EXTENDS Sorting, Sequences

CONSTANTS
  References,    \* mobile money payments that can be asked for
  Entries,       \* rows recorded through addContribution
  Prices,        \* amounts that can be typed
  Nothing,       \* no row, no payment
  MaxFormPolls,  \* MOMO_MAX_POLLS (48 in the code)
  MaxSent        \* bound: server actions waiting for an earlier one

ASSUME ContributePagesAssumption ==
  /\ Prices \subseteq Nat \ {0} /\ Prices # {}
  /\ Nothing \notin References \cup Entries /\ References \cap Entries = {}
  /\ MaxFormPolls \in Nat \ {0} /\ MaxSent \in Nat \ {0}

VARIABLES
  row,      \* contributions: a payment's row has the name of the payment
  payment,  \* payment_intents, and what the provider made of each of them
  form,     \* the form; its "done" and "retyped" are history
  sent,     \* the form's server actions, the first of them under way
  desk,     \* the treasurer's page; its "asked" is history
  deskSent  \* the treasurer's server actions

formVars == <<form, sent>>
deskVars == <<desk, deskSent>>
contributeVars == <<row, payment, form, sent, desk, deskSent>>

Rows == References \cup Entries
NoRow == [status |-> "none", amt |-> 0, visible |-> FALSE]
Recorded == {c \in Rows : row[c].status # "none"}
Visible == {c \in Recorded : row[c].visible}

\* Where no page shows the amount, one amount stands for all.
OfAnyAmount == CHOOSE amt \in Prices : TRUE

\* momo: is a processor configured?
EmptyForm(momo) ==
  [step |-> 1, amt |-> 0, pledging |-> FALSE, loading |-> FALSE,
   wait |-> Nothing, polls |-> 0, lastStatus |-> "paid", momo |-> momo,
   done |-> Nothing, retyped |-> FALSE]

LoadedDesk(open) ==
  [rows |-> Recorded, visible |-> Visible, open |-> open, modal |-> FALSE,
   saving |-> FALSE, toggling |-> Nothing, asked |-> [c \in Rows |-> "nothing"]]

ContributeInit ==
  /\ row = [c \in Rows |-> NoRow]
  /\ \E earlier \in SUBSET References :
       payment = [p \in References |-> [state |-> IF p \in earlier THEN "success" ELSE "none",
                                       amt |-> IF p \in earlier THEN OfAnyAmount ELSE 0]]
  /\ \E momo \in BOOLEAN : form = EmptyForm(momo)
  /\ \E open \in BOOLEAN : desk = LoadedDesk(open)
  /\ sent = <<>> /\ deskSent = <<>>

-----------------------------------------------------------------------------
(* The form.  What is typed wrong is refused before anything is sent.      *)

OnForm(shown, requests) ==
  /\ form' = shown
  /\ sent' = sent \o requests
  /\ UNCHANGED <<row, payment, deskVars>>

Shows(step) == form.step = step /\ form.wait = Nothing
Ready == Shows(2) /\ ~form.loading /\ Len(sent) < MaxSent
Request(op) == [op |-> op, p |-> Nothing, amt |-> form.amt, status |-> "paid", gone |-> FALSE]

\* Nothing keeps the amount from being typed again while a request is under way.
TypePrice ==
  /\ Shows(1)
  /\ \E amt \in Prices : OnForm([form EXCEPT !.amt = amt, !.retyped = @ \/ form.loading], <<>>)

Continue == Shows(1) /\ form.amt # 0 /\ OnForm([form EXCEPT !.step = 2], <<>>)

BackToAmount == Shows(2) /\ OnForm([form EXCEPT !.step = 1, !.pledging = FALSE], <<>>)

\* Ticking "anonymously" puts the pledge away, and is all it does to it: a
\* pledge is open only where it is not ticked.
TickAnonymous == Shows(2) /\ OnForm([form EXCEPT !.pledging = FALSE], <<>>)

ExpandPledge ==
  /\ Shows(2) /\ ~form.loading
  /\ OnForm([form EXCEPT !.pledging = TRUE], <<>>)

Started == [form EXCEPT !.loading = TRUE, !.retyped = FALSE]

StartMomoPay == Ready /\ form.momo /\ OnForm(Started, <<Request("initiate")>>)

RecordContribution ==
  /\ Ready
  /\ \/ ~form.momo /\ OnForm(Started, <<Request("add")>>)
     \/ form.pledging /\ OnForm(Started, <<[Request("add") EXCEPT !.status = "pledged"]>>)

EndWait == [form EXCEPT !.wait = Nothing, !.polls = 0, !.retyped = FALSE]

\* The interval goes on whether or not its polls are answered.
FormTick ==
  /\ form.wait # Nothing
  /\ IF form.polls = MaxFormPolls THEN OnForm(EndWait, <<>>)
     ELSE OnForm([form EXCEPT !.polls = @ + 1],
                 IF Len(sent) < MaxSent THEN <<[Request("poll") EXCEPT !.p = form.wait, !.amt = 0]>> ELSE <<>>)

CancelPayment == form.wait # Nothing /\ OnForm(EndWait, <<>>)

MakeAnother ==
  /\ Shows(3)
  /\ OnForm([EmptyForm(form.momo) EXCEPT !.lastStatus = form.lastStatus], <<>>)

\* To another page and back.  What a poll that goes on records, Reconcile
\* may record.
LeaveForm ==
  /\ form # EmptyForm(form.momo)
  /\ form' = EmptyForm(form.momo)
  /\ LET left == Without(sent, {"poll"})
     IN  sent' = [k \in DOMAIN left |-> [left[k] EXCEPT !.gone = TRUE]]
  /\ UNCHANGED <<row, payment, deskVars>>

-----------------------------------------------------------------------------
(* Answers to the form                                                     *)

Answering(op) == sent # <<>> /\ Head(sent).op = op

\* A form that was left shows nothing.
Answer(shown) ==
  /\ form' = IF Head(sent).gone THEN form ELSE shown
  /\ sent' = Tail(sent)
  /\ UNCHANGED deskVars

Refuse == [form EXCEPT !.loading = FALSE, !.retyped = FALSE]

\* Refused, or the request got no further than the browser: the form then stays
\* loading.
FormRefused ==
  /\ \E op \in {"initiate", "add"} : Answering(op)
  /\ Answer(Refuse) \/ Answer(form)
  /\ UNCHANGED <<row, payment>>

\* The provider may take the payment though it answers with an error: the
\* intent is deleted all the same.
InitiateServed ==
  /\ Answering("initiate")
  /\ \E p \in References :
       /\ payment[p].state = "none"
       /\ \/ /\ payment' = [payment EXCEPT ![p] = [state |-> "pending", amt |-> Head(sent).amt]]
             /\ Answer([form EXCEPT !.loading = FALSE, !.wait = p]) \/ Answer(Refuse) \/ Answer(form)
          \/ payment' = [payment EXCEPT ![p].state = "deleted"] /\ Answer(Refuse)
  /\ UNCHANGED row

Insert(c, status, amt) ==
  row' = [row EXCEPT ![c] = [status |-> status, amt |-> amt, visible |-> TRUE]]

Thanks(c, status) ==
  [form EXCEPT !.step = 3, !.loading = FALSE, !.wait = Nothing, !.polls = 0,
               !.lastStatus = status, !.done = c]

AddServed ==
  /\ Answering("add")
  /\ \E c \in Entries \ Recorded :
       /\ Insert(c, Head(sent).status, Head(sent).amt)
       /\ Answer(Thanks(c, Head(sent).status)) \/ Answer(Refuse) \/ Answer(form)
  /\ UNCHANGED payment

\* Polls and the reconciliation job record what was paid while the event is open.
RecordPayment(p) ==
  \/ /\ payment[p].state = "success"
     /\ Insert(p, "paid", payment[p].amt)
     /\ payment' = [payment EXCEPT ![p] = [state |-> "fulfilled", amt |-> 0]]
  \/ UNCHANGED <<row, payment>>

\* Of a wait that has ended an answer is not looked at.
Waiting(shown) == IF form.wait = Head(sent).p THEN shown ELSE form

\* Rejected, or the payment failed; that, or it did not get through.
PollRefused ==
  /\ Answering("poll")
  /\ Answer(Waiting(EndWait)) \/ Answer(form)
  /\ UNCHANGED <<row, payment>>

\* Mutant of PollServed: a payment that the provider took counts as received.
PollServedHasty ==
  /\ Answering("poll")
  /\ RecordPayment(Head(sent).p)
  /\ Answer(Waiting(IF payment[Head(sent).p].state = "success" THEN Thanks(form.wait, "paid") ELSE form))

PollServed ==
  /\ Answering("poll")
  /\ RecordPayment(Head(sent).p)
  /\ Answer(Waiting(IF row'[Head(sent).p].status = "paid" THEN Thanks(form.wait, "paid") ELSE form))

-----------------------------------------------------------------------------
(* The treasurer's page                                                    *)

OnDesk(shown, requests) ==
  /\ desk' = shown
  /\ deskSent' = requests
  /\ UNCHANGED <<row, payment, formVars>>

DeskRequest(op) == [op |-> op, c |-> Nothing, show |-> FALSE]
MaySend == Len(deskSent) < MaxSent

OpenModal == desk.open /\ OnDesk([desk EXCEPT !.modal = TRUE], deskSent)

\* The backdrop can be clicked while the entry is being saved.
CloseModal == desk.modal /\ OnDesk([desk EXCEPT !.modal = FALSE], deskSent)

HandleAddContribution ==
  /\ desk.modal /\ ~desk.saving /\ MaySend
  /\ OnDesk([desk EXCEPT !.saving = TRUE], Append(deskSent, DeskRequest("add")))

\* Only the row whose button was pressed last is disabled.  The request says
\* what the row is to become, as the page shows it.
ToggleVisibility(c) ==
  /\ c \in desk.rows /\ desk.toggling # c /\ MaySend
  /\ OnDesk([desk EXCEPT !.toggling = c],
            Append(deskSent, [DeskRequest("visibility") EXCEPT !.c = c, !.show = c \notin desk.visible]))

OpenDesk ==
  /\ deskSent = <<>>
  /\ \E open \in BOOLEAN : OnDesk(LoadedDesk(open), <<>>)

DeskServing(op) == deskSent # <<>> /\ Head(deskSent).op = op
Served(shown, next) ==
  /\ desk' = shown
  /\ deskSent' = Tail(deskSent) \o next
  /\ UNCHANGED <<payment, formVars>>

Refresh == <<DeskRequest("refresh")>>

AddedByHand ==
  /\ DeskServing("add")
  /\ \/ \E c \in Entries \ Recorded :
          /\ Insert(c, "paid", OfAnyAmount)
          /\ \/ Served([desk EXCEPT !.saving = FALSE, !.modal = FALSE], Refresh)
             \/ Served([desk EXCEPT !.saving = FALSE], <<>>)
     \/ UNCHANGED row /\ Served([desk EXCEPT !.saving = FALSE], <<>>)

\* Mutant of VisibilitySet: what the row is is turned round.
VisibilitySetTurned ==
  /\ DeskServing("visibility")
  /\ LET c == Head(deskSent).c
     IN  /\ row' = [row EXCEPT ![c].visible = ~@]
         /\ Served([desk EXCEPT !.toggling = Nothing,
                                !.asked[c] = IF Head(deskSent).show THEN "shown" ELSE "hidden"], Refresh)

VisibilitySet ==
  /\ DeskServing("visibility")
  /\ LET c == Head(deskSent).c
     IN  \/ /\ row' = [row EXCEPT ![c].visible = Head(deskSent).show]
            /\ Served([desk EXCEPT !.toggling = Nothing,
                                   !.asked[c] = IF Head(deskSent).show THEN "shown" ELSE "hidden"], Refresh)
         \/ /\ row' = row \/ row' = [row EXCEPT ![c].visible = Head(deskSent).show]
            /\ Served([desk EXCEPT !.toggling = Nothing, !.asked[c] = "nothing"], <<>>)

Refreshed ==
  /\ DeskServing("refresh")
  /\ \E open \in BOOLEAN :
       Served([desk EXCEPT !.rows = Recorded, !.visible = Visible, !.open = open], <<>>)
  /\ UNCHANGED row

-----------------------------------------------------------------------------
(* Provider and job                                                        *)

ProviderSettles(p) ==
  /\ payment[p].state = "pending"
  /\ \/ payment' = [payment EXCEPT ![p].state = "success"]
     \/ payment' = [payment EXCEPT ![p] = [state |-> "failed", amt |-> 0]]
  /\ UNCHANGED <<row, formVars, deskVars>>

Reconcile(p) == RecordPayment(p) /\ UNCHANGED <<formVars, deskVars>>

FormNext ==
  \/ TypePrice \/ Continue \/ BackToAmount \/ TickAnonymous \/ ExpandPledge
  \/ StartMomoPay \/ RecordContribution \/ FormTick \/ CancelPayment \/ MakeAnother \/ LeaveForm
  \/ FormRefused \/ InitiateServed \/ AddServed \/ PollRefused \/ PollServed
  \/ \E p \in References : ProviderSettles(p) \/ Reconcile(p)

DeskNext ==
  \/ OpenModal \/ CloseModal \/ HandleAddContribution \/ OpenDesk
  \/ AddedByHand \/ VisibilitySet \/ Refreshed
  \/ \E c \in Rows : ToggleVisibility(c)
  \/ \E p \in References : Reconcile(p)

-----------------------------------------------------------------------------
(* Properties                                                              *)

\* "Thank you" is said of a row that is there, paid or pledged as it says, and
\* of its amount, unless that was typed again while the request was under way;
\* whatever was cancelled, timed out, lost or left before.
ThanksIsTrue ==
  form.step = 3 =>
    /\ row[form.done].status = form.lastStatus
    /\ form.retyped \/ row[form.done].amt = form.amt

\* What the treasurer asked for last and was told is done is what the row is,
\* and once the page has refreshed what it shows, though two buttons are
\* pressed before the first is answered and before the page has refreshed.
VisibilityIsAsAsked ==
  \A c \in Rows :
    desk.asked[c] # "nothing" /\ (\A k \in DOMAIN deskSent : deskSent[k].op # "visibility") =>
      /\ row[c].visible <=> desk.asked[c] = "shown"
      /\ deskSent = <<>> => (c \in desk.visible <=> desk.asked[c] = "shown")

\* What the pages take from the handlers: a payment goes the way PaymentBook
\* allows, whatever forms and lists are left, cancelled or told.
Book == INSTANCE PaymentBook WITH
  Amounts <- Prices,
  booked  <- [p \in References |-> row[p].amt]
ImplementsBook == Book!BookSpec
=============================================================================
