-------------------------- MODULE WithdrawalEscrow --------------------------
(***************************************************************************)
(* What withdrawing promises to the treasurer and to the contributors of   *)
(* an event, without requests, statements or a provider: money is taken    *)
(* for a withdrawal once, only while the event still covers it, and is     *)
(* then either paid or given back once.                                    *)
(***************************************************************************)
EXTENDS Integers, Functions

CONSTANTS
  WithdrawalIds, Events, None,
  Amounts,        \* what may be asked for
  Contributions,  \* what may come in
  OpeningRaised   \* what each event had raised at the start

VARIABLES
  phase,   \* "none", "open", "held", "paid" or "closed"
  amount,  \* the gross amount of a withdrawal, 0 before it is opened
  event,   \* the event it is taken from
  raised   \* what each event raised

evars == <<phase, amount, event, raised>>

Held(e) ==
  SumFunctionOnSet(amount, {w \in WithdrawalIds : phase[w] \in {"held", "paid"}
                                                   /\ event[w] = e})

EscrowInit ==
  /\ phase = [w \in WithdrawalIds |-> "none"]
  /\ amount = [w \in WithdrawalIds |-> 0]
  /\ event = [w \in WithdrawalIds |-> None]
  /\ raised = OpeningRaised

\* Opening holds nothing back yet.
Open(w) ==
  /\ phase[w] = "none"
  /\ phase' = [phase EXCEPT ![w] = "open"]
  /\ \E e \in Events, g \in Amounts :
       /\ amount' = [amount EXCEPT ![w] = g]
       /\ event' = [event EXCEPT ![w] = e]
  /\ UNCHANGED raised

Move(w, from, to) ==
  /\ phase[w] = from
  /\ phase' = [phase EXCEPT ![w] = to]
  /\ UNCHANGED <<amount, event, raised>>

Hold(w) ==
  /\ Move(w, "open", "held")
  /\ Held(event[w]) + amount[w] <= raised[event[w]]

Pay(w) == Move(w, "held", "paid")
GiveBack(w) == Move(w, "held", "closed")
Cancel(w) == Move(w, "open", "closed")

Credit(e) ==
  /\ \E c \in Contributions : raised' = [raised EXCEPT ![e] = @ + c]
  /\ UNCHANGED <<phase, amount, event>>

EscrowNext ==
  \/ \E w \in WithdrawalIds : Open(w) \/ Hold(w) \/ Pay(w) \/ GiveBack(w) \/ Cancel(w)
  \/ \E e \in Events : Credit(e)

EscrowSpec == EscrowInit /\ [][EscrowNext]_evars
=============================================================================
