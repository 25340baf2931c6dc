---------------------------- MODULE Withdrawals ----------------------------
(***************************************************************************)
(* Withdrawing one treasurer's money: the HTTP handlers of                 *)
(* wallet/withdrawals.service.ts (initiate, resendOtp, verifyOtp, poll and *)
(* the disbursements verifyOtp starts), the wallet row and ledger rows of  *)
(* wallet/wallet.service.ts, and the payment provider they call.           *)
(*                                                                         *)
(* Handlers run concurrently.  A handler is a request with a program       *)
(* counter, and each of its steps is what happens at one await: a          *)
(* statement on its own (autocommit), or the reads or the commit of a      *)
(* transaction, or a call of the provider.  Rows of different users never  *)
(* meet, so one user is enough.                                            *)
(***************************************************************************)
EXTENDS WithdrawAvailability, FiniteSets

CONSTANTS
  WithdrawalIds,   \* the ids withdrawals can be given
  Events,          \* the user's events
  Requests,        \* handlers that can be in flight at the same time
  Keys,            \* idempotency keys clients send
  None,            \* no withdrawal, no event, no key
  Amounts,         \* gross amounts asked for, all above MIN_WITHDRAW_GROSS
  Contributions,   \* amounts of contributions credited while we look
  Rail,            \* how each withdrawal is paid: "bank", "momo" or "pawapay"
  MaxOtpAttempts,  \* MAX_OTP_ATTEMPTS
  FifoOrder,       \* the events by creation time
  OpeningRaised,   \* what each event had raised at the start
  LegacyPool,      \* completed withdrawals that have no linked event
  OpeningBalance,  \* the wallet's balance at the start
  SnapshotIsolation,       \* does the database refuse to update a row changed
                           \* since the transaction's snapshot?
  OneRequestPerWithdrawal, \* do clients wait for an answer before they send
                           \* another request about the same withdrawal?
  RequestsArriveLate,      \* can a payout reach the provider after its request
                           \* was answered with an error?
  RequestsMayFail,         \* can a handler stop between two awaits (a crash, a
                           \* restart, an error thrown by the database)?
  MaxOtps, MaxDebits, MaxReversals, MaxRaised  \* bounds of the exploration

ASSUME AmountAssumption ==
  /\ Amounts \subseteq Nat \ {0}
  /\ Contributions \subseteq Nat \ {0}
ASSUME OpeningAssumption ==
  /\ OpeningRaised \in [Events -> Nat]
  /\ OpeningBalance \in Nat
  /\ LegacyPool \in Nat
ASSUME NoneAssumption ==
  /\ None \notin WithdrawalIds
  /\ None \notin Events
  /\ None \notin Keys
ASSUME BoundAssumption ==
  /\ MaxOtpAttempts \in Nat
  /\ MaxOtps \in Nat
  /\ MaxDebits \in Nat
  /\ MaxReversals \in Nat
  /\ MaxRaised \in Nat
ASSUME RequestAssumption == IsFiniteSet(Requests)
\* Ids are UUIDs, and FifoOrder lists all of the user's events.
ASSUME IdAssumption == IsFiniteSet(WithdrawalIds)
ASSUME OrderAssumption == Range(FifoOrder) = Events
ASSUME SwitchAssumption ==
  /\ Rail \in [WithdrawalIds -> {"bank", "momo", "pawapay"}]
  /\ SnapshotIsolation \in BOOLEAN
  /\ OneRequestPerWithdrawal \in BOOLEAN
  /\ RequestsArriveLate \in BOOLEAN
  /\ RequestsMayFail \in BOOLEAN

VARIABLES
  row,        \* withdrawals rows joined with withdrawal_events
  otp,        \* the newest withdrawal_otps row of each withdrawal
  wallet,     \* the user_wallets row
  raised,     \* per event, the in/contribution rows of wallet_transactions
  debits,     \* per withdrawal, its out/withdrawal rows
  reversals,  \* per withdrawal, its in/adjustment rows
  net,        \* the signed sum of the rows of wallet_transactions so far
  payouts,    \* what became of each payout id minted for a withdrawal
  req         \* the handlers in flight

db   == <<row, otp, wallet, raised, debits, reversals, net>>
vars == <<row, otp, wallet, raised, debits, reversals, net, payouts, req>>

NoRow == [status |-> "none", gross |-> 0, event |-> None, key |-> None, ref |-> 0]
NoWallet == [balance |-> 0, totalIn |-> 0, totalOut |-> 0]
Idle == [pc |-> "idle", w |-> None, event |-> None, gross |-> 0, key |-> None,
         tracked |-> {}, code |-> 0, n |-> 0, attempts |-> 0, ref |-> 0,
         snap |-> NoWallet, stale |-> FALSE, afterCheck |-> FALSE]

\* Program counters inside a transaction that has read the wallet row.
InTransaction == {"debitTx", "reverseTx", "creditTx"}
Pcs == {"idle", "initWallet", "initKey", "initTracked", "initAvail", "initInsert",
        "sendOtp", "resendRead", "verReadRow", "verReadOtp", "verCount",
        "verAvail", "debit", "disburse", "send", "check", "complete",
        "reverse", "failRow", "pollRead", "pollFetch"} \cup InTransaction

Init ==
  /\ row = [w \in WithdrawalIds |-> NoRow]
  /\ otp = [w \in WithdrawalIds |-> [n |-> 0, attempts |-> 0, expired |-> FALSE]]
  /\ wallet = [balance |-> OpeningBalance,
               totalIn |-> OpeningBalance + LegacyPool, totalOut |-> LegacyPool]
  /\ raised = OpeningRaised
  /\ debits = [w \in WithdrawalIds |-> 0]
  /\ reversals = [w \in WithdrawalIds |-> 0]
  /\ net = 0
  /\ payouts = [w \in WithdrawalIds |-> <<>>]
  /\ req = [r \in Requests |-> Idle]
----------------------------------------------------------------------------
(***************************************************************************)
(* Moving a request along.                                                 *)
(***************************************************************************)
At(pc, w) == [Idle EXCEPT !.pc = pc, !.w = w]
Become(r, state) == req' = [req EXCEPT ![r] = state]
Go(r, pc) == Become(r, [req[r] EXCEPT !.pc = pc])
Done(r) == Become(r, Idle)

Created == {w \in WithdrawalIds : row[w].status # "none"}
Busy(w) == \E r \in Requests : req[r].w = w
MayStart(w) == w \in Created /\ (OneRequestPerWithdrawal => ~Busy(w))
SetStatus(w, status) == row' = [row EXCEPT ![w].status = status]

(***************************************************************************)
(* A transaction reads the wallet in its snapshot and writes balance and   *)
(* totals back as absolute values when it commits.  Committing makes the   *)
(* snapshots of the transactions still open stale; with snapshot isolation *)
(* those cannot update the wallet row any more and are rolled back.        *)
(***************************************************************************)
Begin(r, state, pc) == Become(r, [state EXCEPT !.pc = pc, !.snap = wallet])
\* Mutant: a write over a stale snapshot is let through.
ConflictMissed(r) == FALSE
Conflict(r) == SnapshotIsolation /\ req[r].stale
CommitThen(r, state) ==
  req' = [x \in Requests |->
            IF x = r THEN state
            ELSE IF req[x].pc \in InTransaction
                 THEN [req[x] EXCEPT !.stale = SnapshotIsolation]
            ELSE req[x]]
----------------------------------------------------------------------------
(***************************************************************************)
(* initiate                                                                *)
(***************************************************************************)
StartInitiate(r) ==
  /\ req[r].pc = "idle"
  /\ \E w \in WithdrawalIds \ Created, e \in Events, g \in Amounts,
        k \in Keys \cup {None} :
       /\ ~Busy(w)
       /\ Become(r, [Idle EXCEPT !.pc = "initWallet", !.w = w, !.event = e,
                                 !.gross = g, !.key = k])
  /\ UNCHANGED <<db, payouts>>

InitWallet(r) ==
  /\ req[r].pc = "initWallet"
  /\ IF wallet.balance < req[r].gross THEN Done(r) ELSE Go(r, "initKey")
  /\ UNCHANGED <<db, payouts>>

KeyUsed(k) == k # None /\ \E w \in Created : row[w].key = k

\* An existing row with the key is answered again (or refused, when it is
\* linked to another event); neither writes anything.
InitKey(r) ==
  /\ req[r].pc = "initKey"
  /\ IF KeyUsed(req[r].key) THEN Done(r) ELSE Go(r, "initTracked")
  /\ UNCHANGED <<db, payouts>>

InitTracked(r) ==
  /\ req[r].pc = "initTracked"
  /\ Become(r, [req[r] EXCEPT !.pc = "initAvail",
                              !.tracked = {row[w].event : w \in Created}])
  /\ UNCHANGED <<db, payouts>>

LinkedRows(e, excluded) ==
  [w \in {x \in Created : row[x].event = e} \ excluded |-> row[w]]

InitAvail(r) ==
  /\ req[r].pc = "initAvail"
  /\ LET q == req[r]
         available == EventAvailability(q.event, LegacyPool, FifoOrder, raised,
                                        q.tracked, LinkedRows(q.event, {}))
     IN  IF q.gross > available THEN Done(r) ELSE Go(r, "initInsert")
  /\ UNCHANGED <<db, payouts>>

\* Mutant: no unique index on (user, key).
InitInsertTwice(r) ==
  /\ req[r].pc = "initInsert"
  /\ row' = [row EXCEPT ![req[r].w] =
               [status |-> "pending_otp", gross |-> req[r].gross,
                event |-> req[r].event, key |-> req[r].key, ref |-> 0]]
  /\ Become(r, At("sendOtp", req[r].w))
  /\ UNCHANGED <<otp, wallet, raised, debits, reversals, net, payouts>>

\* The row and its event link, in one transaction; the unique index on
\* (user, key) refuses the second of two rows with the same key.
InitInsert(r) ==
  /\ req[r].pc = "initInsert"
  /\ IF KeyUsed(req[r].key)
     THEN Done(r) /\ UNCHANGED row
     ELSE /\ row' = [row EXCEPT ![req[r].w] =
                       [status |-> "pending_otp", gross |-> req[r].gross,
                        event |-> req[r].event, key |-> req[r].key, ref |-> 0]]
          /\ Become(r, At("sendOtp", req[r].w))
  /\ UNCHANGED <<otp, wallet, raised, debits, reversals, net, payouts>>

\* A new code, with its own expiry and no attempts yet.
SendOtp(r) ==
  /\ req[r].pc = "sendOtp"
  /\ otp' = [otp EXCEPT ![req[r].w] =
               [n |-> @.n + 1, attempts |-> 0, expired |-> FALSE]]
  /\ Done(r)
  /\ UNCHANGED <<row, wallet, raised, debits, reversals, net, payouts>>
----------------------------------------------------------------------------
(***************************************************************************)
(* resendOtp                                                               *)
(***************************************************************************)
StartResend(r) ==
  /\ req[r].pc = "idle"
  /\ \E w \in WithdrawalIds :
       /\ MayStart(w) /\ otp[w].n < MaxOtps
       /\ Become(r, At("resendRead", w))
  /\ UNCHANGED <<db, payouts>>

\* Refused when the withdrawal waits for no code, or too soon after the
\* newest one.
ResendRead(r) ==
  /\ req[r].pc = "resendRead"
  /\ \/ row[req[r].w].status = "pending_otp" /\ Go(r, "sendOtp")
     \/ Done(r)
  /\ UNCHANGED <<db, payouts>>
----------------------------------------------------------------------------
(***************************************************************************)
(* verifyOtp, up to the debit.  A code is the number of the OTP it was     *)
(* sent with; 0 is a code that was never sent.                             *)
(***************************************************************************)
StartVerify(r) ==
  /\ req[r].pc = "idle"
  /\ \E w \in WithdrawalIds :
       /\ MayStart(w) /\ debits[w] < MaxDebits
       /\ \E code \in 0..otp[w].n :
            Become(r, [At("verReadRow", w) EXCEPT !.code = code])
  /\ UNCHANGED <<db, payouts>>

\* Mutant: any row may be verified, whatever its status.
VerReadAnyRow(r) ==
  /\ req[r].pc = "verReadRow"
  /\ Go(r, "verReadOtp")
  /\ UNCHANGED <<db, payouts>>

VerReadRow(r) ==
  /\ req[r].pc = "verReadRow"
  /\ IF row[req[r].w].status = "pending_otp" THEN Go(r, "verReadOtp") ELSE Done(r)
  /\ UNCHANGED <<db, payouts>>

VerReadOtp(r) ==
  /\ req[r].pc = "verReadOtp"
  /\ LET o == otp[req[r].w]
     IN  CASE o.n = 0 -> Done(r)
           [] o.n # 0 /\ (o.expired \/ o.attempts >= MaxOtpAttempts) ->
                Become(r, At("failRow", req[r].w))
           [] OTHER -> Become(r, [req[r] EXCEPT !.pc = "verCount", !.n = o.n,
                                                !.attempts = o.attempts])
  /\ UNCHANGED <<db, payouts>>

\* The count is written back as the value read plus one, to the OTP that was
\* read: once a newer one exists nobody reads it again.
VerCount(r) ==
  /\ req[r].pc = "verCount"
  /\ LET q == req[r]
     IN  /\ otp' = IF otp[q.w].n = q.n
                   THEN [otp EXCEPT ![q.w].attempts = q.attempts + 1]
                   ELSE otp
         /\ IF q.code = q.n THEN Become(r, At("verAvail", q.w)) ELSE Done(r)
  /\ UNCHANGED <<row, wallet, raised, debits, reversals, net, payouts>>

\* Mutant: the event's availability is not checked again.
VerAvailSkipped(r) ==
  /\ req[r].pc = "verAvail"
  /\ Go(r, "debit")
  /\ UNCHANGED <<db, payouts>>

\* The event is tracked, by this very withdrawal's link, so no legacy amount
\* is charged to it.
VerAvail(r) ==
  /\ req[r].pc = "verAvail"
  /\ LET w == req[r].w
         e == row[w].event
         available == EventAvailability(e, LegacyPool, FifoOrder, raised,
                                        {e}, LinkedRows(e, {w}))
     IN  IF row[w].gross > available THEN Done(r) ELSE Go(r, "debit")
  /\ UNCHANGED <<db, payouts>>

\* Mutant: the balance is not compared with the amount.
DebitUnchecked(r) ==
  /\ req[r].pc = "debit"
  /\ Begin(r, req[r], "debitTx")
  /\ UNCHANGED <<db, payouts>>

Debit(r) ==
  /\ req[r].pc = "debit"
  /\ IF wallet.balance < row[req[r].w].gross
     THEN Done(r) ELSE Begin(r, req[r], "debitTx")
  /\ UNCHANGED <<db, payouts>>

DebitCommit(r) ==
  /\ req[r].pc = "debitTx"
  /\ IF Conflict(r)
     THEN Done(r) /\ UNCHANGED <<wallet, debits, net>>
     ELSE LET w == req[r].w
              g == row[w].gross
              s == req[r].snap
          IN  /\ debits' = [debits EXCEPT ![w] = @ + 1]
              /\ net' = net - g
              /\ wallet' = [wallet EXCEPT !.balance = s.balance - g,
                                          !.totalOut = s.totalOut + g]
              /\ CommitThen(r, At("disburse", w))
  /\ UNCHANGED <<row, otp, raised, reversals, payouts>>
----------------------------------------------------------------------------
(***************************************************************************)
(* Disbursement.                                                           *)
(***************************************************************************)
DisburseByBank(r) ==
  /\ req[r].pc = "disburse" /\ Rail[req[r].w] = "bank"
  /\ Go(r, "complete")
  /\ UNCHANGED <<db, payouts>>

\* Disbursement is not configured, or the destination cannot be resolved.
DisburseUnavailable(r) ==
  /\ req[r].pc = "disburse" /\ Rail[req[r].w] # "bank"
  /\ Go(r, "reverse")
  /\ UNCHANGED <<db, payouts>>

\* The row becomes processing, under a new payout id, before the provider is
\* called.
SetProcessing(r) ==
  /\ req[r].pc = "disburse" /\ Rail[req[r].w] # "bank"
  /\ LET w == req[r].w
         ref == Len(payouts[w]) + 1
     IN  /\ payouts' = [payouts EXCEPT ![w] = Append(@, "absent")]
         /\ row' = [row EXCEPT ![w].status = "processing", ![w].ref = ref]
         /\ Become(r, [At("send", w) EXCEPT !.ref = ref])
  /\ UNCHANGED <<otp, wallet, raised, debits, reversals, net>>

\* Mutants: an error is answered with another payout; with a reversal whatever
\* the rail.
OnSendErrorRetried(r) == Go(r, "disburse")
OnSendErrorReversed(r) == Go(r, "reverse")

\* MTN MoMo: any error reverses the debit.  PawaPay: the payout is looked up.
OnSendError(r) == Go(r, IF Rail[req[r].w] = "momo" THEN "reverse" ELSE "check")

\* The provider may take the payout and the answer still be an error; it may
\* take it later.
SendPayout(r) ==
  /\ req[r].pc = "send"
  /\ \/ /\ payouts' = [payouts EXCEPT ![req[r].w][req[r].ref] = "pending"]
        /\ Go(r, "pollRead") \/ OnSendError(r)
     \/ /\ RequestsArriveLate
        /\ payouts' = [payouts EXCEPT ![req[r].w][req[r].ref] = "late"]
        /\ OnSendError(r)
     \/ UNCHANGED payouts /\ OnSendError(r)
  /\ UNCHANGED db

(***************************************************************************)
(* reconcilePawapayAfterInitError                                          *)
(***************************************************************************)
CheckPayout(r) ==
  /\ req[r].pc = "check"
  /\ LET p == payouts[req[r].w][req[r].ref]
     IN  \/ p = "success" /\ Go(r, "complete")
         \/ /\ p \in {"absent", "late", "failed"}
            /\ Become(r, [req[r] EXCEPT !.pc = "reverse", !.afterCheck = TRUE])
         \/ p = "pending" /\ Go(r, "pollRead")
  /\ UNCHANGED <<db, payouts>>

CheckError(r) ==
  /\ req[r].pc = "check"
  /\ Go(r, "pollRead")
  /\ UNCHANGED <<db, payouts>>

(***************************************************************************)
(* reverseDebitAndFail: one transaction gives the money back, a statement  *)
(* of its own then fails the row.  Neither looks at the row's status.      *)
(***************************************************************************)
Reverse(r) ==
  /\ req[r].pc = "reverse"
  /\ Begin(r, req[r], "reverseTx")
  /\ UNCHANGED <<db, payouts>>

\* A rolled back reversal throws: after a status check that is caught and the
\* row is polled, elsewhere the request ends.
ReverseCommit(r) ==
  /\ req[r].pc = "reverseTx"
  /\ LET w == req[r].w
         g == row[w].gross
         s == req[r].snap
     IN  IF Conflict(r)
         THEN /\ IF req[r].afterCheck THEN Become(r, At("pollRead", w)) ELSE Done(r)
              /\ UNCHANGED <<wallet, reversals, net>>
         ELSE /\ reversals' = [reversals EXCEPT ![w] = @ + 1]
              /\ net' = net + g
              /\ wallet' = [wallet EXCEPT
                              !.balance = s.balance + g,
                              !.totalOut = IF s.totalOut > g THEN s.totalOut - g ELSE 0]
              /\ CommitThen(r, At("failRow", w))
  /\ UNCHANGED <<row, otp, raised, debits, payouts>>

FailRow(r) ==
  /\ req[r].pc = "failRow"
  /\ SetStatus(req[r].w, "failed")
  /\ Done(r)
  /\ UNCHANGED <<otp, wallet, raised, debits, reversals, net, payouts>>

\* Mutant: the provider's word for the status is stored.
CompleteVerbatim(r) ==
  /\ req[r].pc = "complete"
  /\ SetStatus(req[r].w, "success")
  /\ Done(r)
  /\ UNCHANGED <<otp, wallet, raised, debits, reversals, net, payouts>>

Complete(r) ==
  /\ req[r].pc = "complete"
  /\ SetStatus(req[r].w, "completed")
  /\ Done(r)
  /\ UNCHANGED <<otp, wallet, raised, debits, reversals, net, payouts>>
----------------------------------------------------------------------------
(***************************************************************************)
(* poll                                                                    *)
(***************************************************************************)
StartPoll(r, w) ==
  /\ req[r].pc = "idle"
  /\ MayStart(w)
  /\ row[w].status = "processing" => reversals[w] < MaxReversals
  /\ Become(r, At("pollRead", w))
  /\ UNCHANGED <<db, payouts>>

PollRead(r) ==
  /\ req[r].pc = "pollRead"
  /\ LET w == req[r].w
     IN  IF row[w].status = "processing" /\ row[w].ref # 0 /\ Rail[w] # "bank"
         THEN Become(r, [At("pollFetch", w) EXCEPT !.ref = row[w].ref])
         ELSE Done(r)
  /\ UNCHANGED <<db, payouts>>

\* Mutant: only success counts as an answer.
PollFetchIgnoresFailure(r) ==
  /\ req[r].pc = "pollFetch"
  /\ IF payouts[req[r].w][req[r].ref] = "success" THEN Go(r, "complete") ELSE Done(r)
  /\ UNCHANGED <<db, payouts>>

PollFetch(r) ==
  /\ req[r].pc = "pollFetch"
  /\ LET p == payouts[req[r].w][req[r].ref]
     IN  \/ p = "success" /\ Go(r, "complete")
         \/ p = "failed" /\ Go(r, "reverse")
         \/ p \in {"absent", "late", "pending"} /\ Done(r)
  /\ UNCHANGED <<db, payouts>>

PollFetchError(r) ==
  /\ req[r].pc = "pollFetch"
  /\ Done(r)
  /\ UNCHANGED <<db, payouts>>
----------------------------------------------------------------------------
(***************************************************************************)
(* creditFromContribution, inside the transaction of a paid contribution.  *)
(***************************************************************************)
BeginCredit(r) ==
  /\ req[r].pc = "idle"
  /\ \E e \in Events, c \in Contributions :
       /\ raised[e] + c <= MaxRaised
       /\ Begin(r, [Idle EXCEPT !.event = e, !.gross = c], "creditTx")
  /\ UNCHANGED <<db, payouts>>

CreditCommit(r) ==
  /\ req[r].pc = "creditTx"
  /\ IF Conflict(r)
     THEN Done(r) /\ UNCHANGED <<wallet, raised, net>>
     ELSE LET c == req[r].gross
              s == req[r].snap
          IN  /\ raised' = [raised EXCEPT ![req[r].event] = @ + c]
              /\ net' = net + c
              /\ wallet' = [wallet EXCEPT !.balance = s.balance + c,
                                          !.totalIn = s.totalIn + c]
              /\ CommitThen(r, Idle)
  /\ UNCHANGED <<row, otp, debits, reversals, payouts>>
----------------------------------------------------------------------------
(***************************************************************************)
(* What the handlers do not control: a code expires, the provider settles  *)
(* a payout, a handler stops where it stands (an open transaction is       *)
(* rolled back, everything committed before stays).                        *)
(***************************************************************************)
ExpireOtp(w) ==
  /\ otp[w].n > 0 /\ ~otp[w].expired
  /\ otp' = [otp EXCEPT ![w].expired = TRUE]
  /\ UNCHANGED <<row, wallet, raised, debits, reversals, net, payouts, req>>

SettlePayout(w) ==
  /\ \E i \in DOMAIN payouts[w], s \in {"pending", "success", "failed"} :
       /\ payouts[w][i] = IF s = "pending" THEN "late" ELSE "pending"
       /\ payouts' = [payouts EXCEPT ![w][i] = s]
  /\ UNCHANGED <<db, req>>

RequestFails(r) ==
  /\ RequestsMayFail /\ req[r].pc # "idle"
  /\ Done(r)
  /\ UNCHANGED <<db, payouts>>

Start(r) ==
  \/ StartInitiate(r) \/ StartResend(r) \/ StartVerify(r) \/ BeginCredit(r)
  \/ \E w \in WithdrawalIds : StartPoll(r, w)

Continue(r) ==
  \/ InitWallet(r) \/ InitKey(r) \/ InitTracked(r) \/ InitAvail(r) \/ InitInsert(r)
  \/ SendOtp(r) \/ ResendRead(r)
  \/ VerReadRow(r) \/ VerReadOtp(r) \/ VerCount(r) \/ VerAvail(r)
  \/ Debit(r) \/ DebitCommit(r)
  \/ DisburseByBank(r) \/ DisburseUnavailable(r) \/ SetProcessing(r)
  \/ SendPayout(r) \/ CheckPayout(r) \/ CheckError(r)
  \/ Reverse(r) \/ ReverseCommit(r) \/ FailRow(r) \/ Complete(r)
  \/ PollRead(r) \/ PollFetch(r) \/ PollFetchError(r) \/ CreditCommit(r)

Next ==
  \/ \E r \in Requests : Start(r) \/ Continue(r) \/ RequestFails(r)
  \/ \E w \in WithdrawalIds : ExpireOtp(w) \/ SettlePayout(w)

Spec == Init /\ [][Next]_vars
----------------------------------------------------------------------------
(***************************************************************************)
(* Fairness: a handler that has started goes on, the provider settles what *)
(* it accepted, and of the answers to repeated status requests one is not  *)
(* an error.  ClientPolls says that the client asks for the status again   *)
(* and again, which the wizard does while its page is open: no job of the  *)
(* server's does it.                                                       *)
(***************************************************************************)
HandlersAdvance ==
  /\ \A r \in Requests : WF_vars(Continue(r)) /\ SF_vars(PollFetch(r))
  /\ \A w \in WithdrawalIds : WF_vars(SettlePayout(w))
ClientPolls ==
  \A w \in WithdrawalIds : SF_vars(\E r \in Requests : StartPoll(r, w))

FairSpec == Spec /\ HandlersAdvance /\ ClientPolls
----------------------------------------------------------------------------
(***************************************************************************)
(* Properties.                                                             *)
(***************************************************************************)
Statuses == {"none"} \cup WithdrawalStatuses
PayoutStates == {"absent", "late", "pending", "success", "failed"}

WalletType == [balance : Int, totalIn : Int, totalOut : Int]

RowType == [status : Statuses, gross : Nat, event : Events \cup {None},
            key : Keys \cup {None}, ref : Nat]
OtpType == [n : Nat, attempts : Nat, expired : BOOLEAN]
RequestFields ==
  [pc : Pcs, w : WithdrawalIds \cup {None}, event : Events \cup {None},
   gross : Nat, key : Keys \cup {None}, tracked : SUBSET (Events \cup {None}),
   code : Nat, n : Nat, attempts : Nat, ref : Nat,
   snap : WalletType, stale : BOOLEAN, afterCheck : BOOLEAN]
\* All but a credit are about a withdrawal.
RequestType ==
  {q \in RequestFields : /\ q.pc \in {"idle", "creditTx"} <=> q.w = None
                         /\ q.pc = "creditTx" => q.event \in Events}

\* The rows have the types of schema.ts, the handlers' locals those of what
\* they were read from.
TypeOK ==
  /\ row \in [WithdrawalIds -> RowType]
  /\ otp \in [WithdrawalIds -> OtpType]
  /\ wallet \in WalletType
  /\ raised \in [Events -> Nat]
  /\ debits \in [WithdrawalIds -> Nat]
  /\ reversals \in [WithdrawalIds -> Nat]
  /\ net \in Int
  /\ payouts \in [WithdrawalIds -> Seq(PayoutStates)]
  /\ req \in [Requests -> RequestType]

\* However debits, reversals and credits interleave, stop half way or are
\* rolled back, the balance written is never below zero: debitForWithdrawal
\* writes what its own check saw, less what it checked.
WalletNeverOverdrawn == wallet.balance >= 0

\* With snapshot isolation no wallet update is lost: the balance is the
\* opening balance plus every ledger row written since, whatever handlers
\* overlap and wherever they stop.
LedgerExplainsBalance == SnapshotIsolation => wallet.balance = OpeningBalance + net

\* Every payout id that disburse hands to the provider was minted by a handler
\* that had debited the wallet for it: no debit pays twice, even when verifyOtp
\* is called twice at once or is called again after a crash.
PayoutBackedByDebit == \A w \in WithdrawalIds : Len(payouts[w]) <= debits[w]

\* What is out of the wallet for an event never exceeds what the event raised.
\* Two withdrawals may both pass the check of initiate; verifyOtp checks again
\* after both rows are there, so the later check sees the other row.
HeldFor(e) ==
  SumFunctionOnSet([w \in WithdrawalIds |-> row[w].gross * (debits[w] - reversals[w])],
                   {w \in Created : row[w].event = e})
EventNotOverdrawn == \A e \in Events : HeldFor(e) <= raised[e]

\* Between requests a withdrawal's status tells what is in the ledger: waiting
\* for a code nothing was taken, processing or completed it was taken once and
\* kept, failed it was never taken or given back once.
RowAgreesWithLedger ==
  \A w \in WithdrawalIds : ~Busy(w) =>
    /\ row[w].status \in {"none", "pending_otp"} => debits[w] = 0 /\ reversals[w] = 0
    /\ row[w].status \in {"processing", "completed"} => debits[w] = 1 /\ reversals[w] = 0
    /\ row[w].status = "failed" => debits[w] = reversals[w] /\ debits[w] <= 1

\* A withdrawal that was given back is not paid, and cannot be paid later: the
\* purpose of looking a payout up before reversing its debit.  It takes for
\* granted that a payout the provider does not know yet never reaches it.
NeverPaidAndRefunded ==
  \A w \in WithdrawalIds : reversals[w] > 0 =>
    \A i \in DOMAIN payouts[w] : payouts[w][i] \in {"absent", "failed"}

\* A settled withdrawal stays as it is: no late poll, retried code or expiry
\* writes its status again.
SettledStaysSettled ==
  [][\A w \in WithdrawalIds : row[w].status \in {"completed", "failed"} =>
        row'[w].status = row[w].status]_vars

\* Concurrent retries of initiate with one key take the money once: at most one
\* withdrawal of a key is ever debited.
KeyPaysOnce ==
  \A w, v \in Created :
    row[w].key # None /\ row[w].key = row[v].key /\ debits[w] > 0 /\ debits[v] > 0
      => w = v

\* A withdrawal being processed is settled in the end.
ProcessingSettles ==
  \A w \in WithdrawalIds :
    row[w].status = "processing" ~> row[w].status \in {"completed", "failed"}
----------------------------------------------------------------------------
(***************************************************************************)
(* The escrow a withdrawal goes through, read off its row and its ledger   *)
(* rows.  A row waiting for a code has taken nothing; once debited it is   *)
(* held, until its row completes or the debit is reversed.                 *)
(***************************************************************************)
EscrowPhase(w) ==
  IF row[w].status = "none" THEN "none"
  ELSE IF reversals[w] > 0 \/ (debits[w] = 0 /\ row[w].status = "failed") THEN "closed"
  ELSE IF debits[w] = 0 THEN "open"
  ELSE IF row[w].status = "completed" THEN "paid" ELSE "held"

Escrow == INSTANCE WithdrawalEscrow WITH
  phase  <- [w \in WithdrawalIds |-> EscrowPhase(w)],
  amount <- [w \in WithdrawalIds |-> row[w].gross],
  event  <- [w \in WithdrawalIds |-> row[w].event]

\* As long as requests about one withdrawal do not overlap and none stops half
\* way, the handlers implement the escrow, whatever requests about other
\* withdrawals of the same event do meanwhile.
ImplementsEscrow == Escrow!EscrowSpec
=============================================================================
