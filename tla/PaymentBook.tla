----------------------------- MODULE PaymentBook -----------------------------
(***************************************************************************)
(* What mobile money promises to who pays and to the organiser of an       *)
(* event, without requests, pages, transactions or a job: a payment the    *)
(* provider took enters the event's book once, with the amount that was    *)
(* asked for, and one that was given up never does.                        *)
(***************************************************************************)
EXTENDS Integers

CONSTANTS
  References,  \* payments
  Amounts      \* what may be asked for as a contribution

VARIABLES
  payment,  \* its state, and the amount it will enter the book with: 0 for a
            \* subscription, and when it will not enter any more
  booked    \* what the book holds of each payment

bookVars == <<payment, booked>>

Payment(state, amt) == [state |-> state, amt |-> amt]

\* Some may have been paid for before and not entered yet.
BookInit ==
  /\ payment \in [References -> {Payment("none", 0)}
                                \cup {Payment("success", amt) : amt \in Amounts}]
  /\ booked = [p \in References |-> 0]

Turns(p, from, to, amt) ==
  /\ payment[p].state \in from
  /\ payment' = [payment EXCEPT ![p] = Payment(to, amt)]

Ask(p) ==
  /\ \E amt \in Amounts \cup {0} : Turns(p, {"none"}, "pending", amt)
  /\ UNCHANGED booked

Take(p) == Turns(p, {"pending"}, "success", payment[p].amt) /\ UNCHANGED booked
Fail(p) == Turns(p, {"pending"}, "failed", 0) /\ UNCHANGED booked

\* Given up by who asked, whatever the provider makes of it.
Drop(p) ==
  /\ Turns(p, {"none", "pending", "success", "failed"}, "deleted", 0)
  /\ UNCHANGED booked

Enter(p) ==
  /\ Turns(p, {"success"}, "fulfilled", 0)
  /\ booked' = [booked EXCEPT ![p] = payment[p].amt]

BookNext == \E p \in References : Ask(p) \/ Take(p) \/ Fail(p) \/ Drop(p) \/ Enter(p)

BookSpec == BookInit /\ [][BookNext]_bookVars
=============================================================================
