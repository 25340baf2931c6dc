------------------------- MODULE WithdrawalsProofs -------------------------
(***************************************************************************)
(* Theorems about Withdrawals, for any number of withdrawals, events and   *)
(* overlapping requests, any amounts and every way of paying; then those   *)
(* about the rows: what a key buys, and, when the requests about one       *)
(* withdrawal do not overlap, how its status, its ledger rows and its      *)
(* payouts agree, that no event is overdrawn, and that the handlers        *)
(* implement the escrow.                                                   *)
(***************************************************************************)
EXTENDS Withdrawals, FiniteSetFacts, FiniteSetTheorems, SequenceTheorems, TLAPS

USE AmountAssumption, OpeningAssumption, NoneAssumption, BoundAssumption,
    SwitchAssumption, RequestAssumption
----------------------------------------------------------------------------
(***************************************************************************)
(* Type correctness.                                                       *)
(***************************************************************************)
\* The program counters of requests about a withdrawal.
WithdrawalPcs == Pcs \ {"idle", "creditTx"}

LEMMA IdleType == Idle \in RequestType
  BY DEF Idle, RequestType, RequestFields, Pcs, InTransaction, NoWallet, WalletType

LEMMA AtType ==
  ASSUME NEW pc \in WithdrawalPcs, NEW w \in WithdrawalIds
  PROVE  At(pc, w) \in RequestType
  BY IdleType DEF At, RequestType, RequestFields, WithdrawalPcs

\* A request takes a well-typed state, the others keep theirs.
LEMMA BecomeType ==
  ASSUME req \in [Requests -> RequestType], NEW r \in Requests,
         NEW state \in RequestType, Become(r, state)
  PROVE  req' \in [Requests -> RequestType]
  BY DEF Become

LEMMA GoType ==
  ASSUME req \in [Requests -> RequestType], NEW r \in Requests,
         req[r].pc \in WithdrawalPcs, NEW pc \in WithdrawalPcs, Go(r, pc)
  PROVE  req' \in [Requests -> RequestType]
<1>1. [req[r] EXCEPT !.pc = pc] \in RequestType
  BY DEF RequestType, RequestFields, WithdrawalPcs
<1>. QED BY <1>1, BecomeType DEF Go

LEMMA DoneType ==
  ASSUME req \in [Requests -> RequestType], NEW r \in Requests, Done(r)
  PROVE  req' \in [Requests -> RequestType]
  BY IdleType, BecomeType DEF Done

LEMMA BeginType ==
  ASSUME req \in [Requests -> RequestType], wallet \in WalletType,
         NEW r \in Requests, req[r].pc \in WithdrawalPcs,
         NEW pc \in WithdrawalPcs, Begin(r, req[r], pc)
  PROVE  req' \in [Requests -> RequestType]
<1>1. [req[r] EXCEPT !.pc = pc, !.snap = wallet] \in RequestType
  BY ZenonT(60) DEF RequestType, RequestFields, WithdrawalPcs
<1>. QED BY <1>1, BecomeType DEF Begin

LEMMA CommitType ==
  ASSUME req \in [Requests -> RequestType], NEW r \in Requests,
         NEW state \in RequestType, CommitThen(r, state)
  PROVE  req' \in [Requests -> RequestType]
<1>1. \A x \in Requests : [req[x] EXCEPT !.stale = SnapshotIsolation] \in RequestType
  BY DEF RequestType, RequestFields
<1>. QED BY <1>1 DEF CommitThen

\* A step that only moves its request along keeps the rows.
LEMMA ReadOnlyType ==
  ASSUME TypeOK, UNCHANGED <<db, payouts>>, req' \in [Requests -> RequestType]
  PROVE  TypeOK'
  BY DEF TypeOK, db

\* What TypeOK says of one request.
LEMMA RequestFacts ==
  ASSUME TypeOK, NEW r \in Requests
  PROVE  /\ req[r] \in RequestType
         /\ req[r].pc \in Pcs
         /\ req[r].pc \in WithdrawalPcs => req[r].w \in WithdrawalIds
         /\ req[r].snap \in WalletType
  BY DEF TypeOK, RequestType, RequestFields, WithdrawalPcs

LEMMA InitType == Init => TypeOK
<1>. SUFFICES ASSUME Init PROVE TypeOK
  OBVIOUS
<1>1. NoRow \in RowType
  BY DEF NoRow, RowType, Statuses
<1>2. req \in [Requests -> RequestType]
  BY IdleType DEF Init
<1>3. <<>> \in Seq(PayoutStates)
  OBVIOUS
<1>. QED
  BY <1>1, <1>2, <1>3 DEF Init, TypeOK, OtpType, WalletType

\* Requests that are started or moved along.
LEMMA StartType ==
  ASSUME TypeOK, NEW r \in Requests, Start(r)
  PROVE  TypeOK'
<1>1. CASE StartInitiate(r)
  <2>1. PICK w \in WithdrawalIds, e \in Events, g \in Amounts, k \in Keys \cup {None} :
          Become(r, [Idle EXCEPT !.pc = "initWallet", !.w = w, !.event = e,
                                 !.gross = g, !.key = k])
    BY <1>1 DEF StartInitiate
  <2>2. [Idle EXCEPT !.pc = "initWallet", !.w = w, !.event = e,
                     !.gross = g, !.key = k] \in RequestType
    BY IdleType DEF RequestType, RequestFields, Pcs
  <2>. QED
    BY <1>1, <2>1, <2>2, BecomeType, ReadOnlyType DEF TypeOK, StartInitiate
<1>2. CASE StartResend(r)
  <2>1. \A w \in WithdrawalIds : At("resendRead", w) \in RequestType
    BY AtType DEF WithdrawalPcs, Pcs
  <2>. QED
    BY <1>2, <2>1, BecomeType, ReadOnlyType DEF TypeOK, StartResend
<1>3. CASE StartVerify(r)
  <2>1. PICK w \in WithdrawalIds :
          \E code \in 0..otp[w].n :
             Become(r, [At("verReadRow", w) EXCEPT !.code = code])
    BY <1>3 DEF StartVerify
  <2>2. otp[w].n \in Nat /\ At("verReadRow", w) \in RequestType
    BY AtType DEF WithdrawalPcs, Pcs, TypeOK, OtpType
  <2>3. \A code \in Nat : [At("verReadRow", w) EXCEPT !.code = code] \in RequestType
    BY <2>2 DEF RequestType, RequestFields
  <2>4. req' \in [Requests -> RequestType]
    BY <2>1, <2>2, <2>3, BecomeType DEF TypeOK
  <2>. QED BY <1>3, <2>4, ReadOnlyType DEF StartVerify
<1>4. CASE BeginCredit(r)
  <2>1. PICK e \in Events, c \in Contributions :
          Begin(r, [Idle EXCEPT !.event = e, !.gross = c], "creditTx")
    BY <1>4 DEF BeginCredit
  <2>2. [[Idle EXCEPT !.event = e, !.gross = c]
           EXCEPT !.pc = "creditTx", !.snap = wallet] \in RequestType
    BY DEF TypeOK, RequestType, RequestFields, Idle, Pcs, InTransaction
  <2>. QED
    BY <1>4, <2>1, <2>2, BecomeType, ReadOnlyType DEF TypeOK, BeginCredit, Begin
<1>5. ASSUME NEW w \in WithdrawalIds, StartPoll(r, w) PROVE TypeOK'
  <2>1. At("pollRead", w) \in RequestType
    BY AtType DEF WithdrawalPcs, Pcs
  <2>. QED
    BY <1>5, <2>1, BecomeType, ReadOnlyType DEF TypeOK, StartPoll
<1>. QED BY <1>1, <1>2, <1>3, <1>4, <1>5 DEF Start

\* Steps that only read, and the statements of initiate and resendOtp.
LEMMA InitiateType ==
  ASSUME TypeOK, NEW r \in Requests,
         \/ InitWallet(r) \/ InitKey(r) \/ InitTracked(r) \/ InitAvail(r)
         \/ InitInsert(r) \/ SendOtp(r) \/ ResendRead(r)
  PROVE  TypeOK'
<1>. USE DEF WithdrawalPcs, Pcs
<1>0. /\ req \in [Requests -> RequestType] /\ req[r] \in RequestType
      /\ req[r].pc \in WithdrawalPcs => req[r].w \in WithdrawalIds
  BY RequestFacts DEF TypeOK
<1>1. CASE InitWallet(r)
  BY <1>0, <1>1, GoType, DoneType, ReadOnlyType DEF InitWallet
<1>2. CASE InitKey(r)
  BY <1>0, <1>2, GoType, DoneType, ReadOnlyType DEF InitKey
<1>3. CASE InitTracked(r)
  <2>1. {row[w].event : w \in Created} \in SUBSET (Events \cup {None})
    BY DEF TypeOK, RowType, Created
  <2>2. [req[r] EXCEPT !.pc = "initAvail",
                       !.tracked = {row[w].event : w \in Created}] \in RequestType
    BY <1>0, <1>3, <2>1 DEF RequestType, RequestFields, InitTracked
  <2>. QED BY <1>0, <1>3, <2>2, BecomeType, ReadOnlyType DEF InitTracked
<1>4. CASE InitAvail(r)
  BY <1>0, <1>4, GoType, DoneType, ReadOnlyType DEF InitAvail
<1>5. CASE InitInsert(r)
  <2>1. req[r].w \in WithdrawalIds
    BY <1>0, <1>5 DEF InitInsert
  <2>2. [status |-> "pending_otp", gross |-> req[r].gross, event |-> req[r].event,
         key |-> req[r].key, ref |-> 0] \in RowType
    BY <1>0 DEF RequestType, RequestFields, RowType, Statuses, WithdrawalStatuses
  <2>3. row' \in [WithdrawalIds -> RowType]
    BY <1>5, <2>1, <2>2 DEF InitInsert, TypeOK
  <2>4. req' \in [Requests -> RequestType]
    BY <1>0, <1>5, <2>1, AtType, BecomeType, DoneType DEF InitInsert
  <2>. QED BY <1>5, <2>3, <2>4 DEF InitInsert, TypeOK
<1>6. CASE SendOtp(r)
  <2>1. req[r].w \in WithdrawalIds /\ otp[req[r].w] \in OtpType
    BY <1>0, <1>6 DEF SendOtp, TypeOK
  <2>2. [n |-> otp[req[r].w].n + 1, attempts |-> 0, expired |-> FALSE] \in OtpType
    BY <2>1 DEF OtpType
  <2>3. otp' \in [WithdrawalIds -> OtpType]
    BY <1>6, <2>2 DEF SendOtp, TypeOK
  <2>. QED BY <1>0, <1>6, <2>3, DoneType DEF SendOtp, TypeOK
<1>7. CASE ResendRead(r)
  BY <1>0, <1>7, GoType, DoneType, ReadOnlyType DEF ResendRead
<1>. QED BY <1>1, <1>2, <1>3, <1>4, <1>5, <1>6, <1>7

LEMMA WalletWrite ==
  ASSUME NEW old \in WalletType, NEW balance \in Int, NEW total \in Int
  PROVE  /\ [old EXCEPT !.balance = balance, !.totalOut = total] \in WalletType
         /\ [old EXCEPT !.balance = balance, !.totalIn = total] \in WalletType
  BY DEF WalletType

LEMMA RowAdded ==
  ASSUME NEW S, NEW count \in [S -> Nat], NEW x \in S, NEW c \in Nat
  PROVE  [count EXCEPT ![x] = @ + c] \in [S -> Nat]
  OBVIOUS

\* verifyOtp up to the debit.
LEMMA VerifyType ==
  ASSUME TypeOK, NEW r \in Requests,
         \/ VerReadRow(r) \/ VerReadOtp(r) \/ VerCount(r) \/ VerAvail(r)
         \/ Debit(r) \/ DebitCommit(r)
  PROVE  TypeOK'
<1>. USE DEF WithdrawalPcs, Pcs, InTransaction
<1>0. /\ req \in [Requests -> RequestType] /\ req[r] \in RequestType
      /\ req[r].pc \in WithdrawalPcs => req[r].w \in WithdrawalIds
  BY RequestFacts DEF TypeOK
<1>1. CASE VerReadRow(r)
  BY <1>0, <1>1, GoType, DoneType, ReadOnlyType DEF VerReadRow
<1>2. CASE VerReadOtp(r)
  <2>1. req[r].w \in WithdrawalIds /\ otp[req[r].w] \in OtpType
    BY <1>0, <1>2 DEF VerReadOtp, TypeOK
  <2>2. At("failRow", req[r].w) \in RequestType
    BY <2>1, AtType
  <2>3. [req[r] EXCEPT !.pc = "verCount", !.n = otp[req[r].w].n,
                       !.attempts = otp[req[r].w].attempts] \in RequestType
    BY <1>0, <1>2, <2>1 DEF RequestType, RequestFields, OtpType, VerReadOtp
  <2>4. req' \in [Requests -> RequestType]
    BY <1>0, <1>2, <2>2, <2>3, BecomeType, DoneType DEF VerReadOtp
  <2>. QED BY <1>2, <2>4, ReadOnlyType DEF VerReadOtp
<1>3. CASE VerCount(r)
  <2>1. req[r].w \in WithdrawalIds /\ req[r].attempts + 1 \in Nat
    BY <1>0, <1>3 DEF VerCount, RequestType, RequestFields
  <2>a. \A o \in OtpType, k \in Nat : [o EXCEPT !.attempts = k] \in OtpType
    BY DEF OtpType
  <2>2. otp' \in [WithdrawalIds -> OtpType]
    BY <1>3, <2>1, <2>a DEF VerCount, TypeOK
  <2>3. req' \in [Requests -> RequestType]
    BY <1>0, <1>3, <2>1, AtType, BecomeType, DoneType DEF VerCount
  <2>. QED BY <1>3, <2>2, <2>3 DEF VerCount, TypeOK
<1>4. CASE VerAvail(r)
  BY <1>0, <1>4, GoType, DoneType, ReadOnlyType DEF VerAvail
<1>5. CASE Debit(r)
  <2>1. req' \in [Requests -> RequestType]
    BY <1>0, <1>5, BeginType, DoneType DEF Debit, TypeOK
  <2>. QED BY <1>5, <2>1, ReadOnlyType DEF Debit
<1>6. CASE DebitCommit(r)
  <2>1. req[r].w \in WithdrawalIds /\ row[req[r].w].gross \in Nat
    BY <1>0, <1>6 DEF DebitCommit, TypeOK, RowType
  <2>2. req[r].snap.balance \in Int /\ req[r].snap.totalOut \in Int
    BY <1>0 DEF RequestType, RequestFields, WalletType
  <2>3. req' \in [Requests -> RequestType]
    BY <1>0, <1>6, <2>1, AtType, CommitType, DoneType DEF DebitCommit
  <2>4. [wallet EXCEPT !.balance = req[r].snap.balance - row[req[r].w].gross,
                       !.totalOut = req[r].snap.totalOut + row[req[r].w].gross]
          \in WalletType
    <3>1. /\ req[r].snap.balance - row[req[r].w].gross \in Int
          /\ req[r].snap.totalOut + row[req[r].w].gross \in Int
      BY <2>1, <2>2
    <3>. QED BY <3>1, WalletWrite DEF TypeOK
  <2>5. net' \in Int
    BY <1>6, <2>1 DEF DebitCommit, TypeOK
  <2>6. debits' \in [WithdrawalIds -> Nat]
    <3>1. [debits EXCEPT ![req[r].w] = @ + 1] \in [WithdrawalIds -> Nat]
      BY <2>1, RowAdded DEF TypeOK
    <3>. QED BY <1>6, <3>1 DEF DebitCommit, TypeOK
  <2>7. wallet' \in WalletType
    BY <1>6, <2>4 DEF DebitCommit, TypeOK
  <2>. QED BY <1>6, <2>3, <2>5, <2>6, <2>7 DEF DebitCommit, TypeOK
<1>. QED BY <1>1, <1>2, <1>3, <1>4, <1>5, <1>6

\* Changing a row's status keeps the rows typed.
LEMMA StatusType ==
  ASSUME row \in [WithdrawalIds -> RowType], NEW w \in WithdrawalIds,
         NEW status \in Statuses, SetStatus(w, status)
  PROVE  row' \in [WithdrawalIds -> RowType]
  BY DEF SetStatus, RowType

\* A payout id that has been minted can be given any payout state.
LEMMA PayoutType ==
  ASSUME payouts \in [WithdrawalIds -> Seq(PayoutStates)], NEW w \in WithdrawalIds,
         NEW i, NEW s \in PayoutStates,
         payouts' = [payouts EXCEPT ![w][i] = s]
  PROVE  /\ payouts' \in [WithdrawalIds -> Seq(PayoutStates)]
         /\ \A v \in WithdrawalIds : Len(payouts'[v]) = Len(payouts[v])
<1>. DEFINE p == payouts[w]
<1>0. p \in Seq(PayoutStates) /\ p \in [1..Len(p) -> PayoutStates]
  BY LenProperties
<1>1. CASE i \in 1..Len(p)
  <2>1. [p EXCEPT ![i] = s] \in Seq(PayoutStates) /\ Len([p EXCEPT ![i] = s]) = Len(p)
    BY <1>0, <1>1, ExceptSeq
  <2>. QED BY <2>1
<1>2. CASE i \notin 1..Len(p)
  <2>1. [p EXCEPT ![i] = s] = p
    BY <1>0, <1>2
  <2>. QED BY <1>0, <2>1
<1>. QED BY <1>1, <1>2

\* Disbursement, reversal and settlement.
LEMMA DisburseType ==
  ASSUME TypeOK, NEW r \in Requests,
         \/ DisburseByBank(r) \/ DisburseUnavailable(r) \/ SetProcessing(r)
         \/ SendPayout(r) \/ CheckPayout(r) \/ CheckError(r)
         \/ Reverse(r) \/ ReverseCommit(r) \/ FailRow(r) \/ Complete(r)
  PROVE  TypeOK'
<1>. USE DEF WithdrawalPcs, Pcs, InTransaction
<1>0. /\ req \in [Requests -> RequestType] /\ req[r] \in RequestType
      /\ req[r].pc \in WithdrawalPcs => req[r].w \in WithdrawalIds
  BY RequestFacts DEF TypeOK
<1>1. CASE DisburseByBank(r)
  BY <1>0, <1>1, GoType, ReadOnlyType DEF DisburseByBank
<1>2. CASE DisburseUnavailable(r)
  BY <1>0, <1>2, GoType, ReadOnlyType DEF DisburseUnavailable
<1>3. CASE SetProcessing(r)
  <2>. DEFINE w == req[r].w
              ref == Len(payouts[w]) + 1
  <2>1. w \in WithdrawalIds /\ ref \in Nat
    BY <1>0, <1>3, LenProperties DEF SetProcessing, TypeOK
  <2>2. Append(payouts[w], "absent") \in Seq(PayoutStates)
    BY <2>1, AppendProperties DEF TypeOK, PayoutStates
  <2>3. payouts' \in [WithdrawalIds -> Seq(PayoutStates)]
    BY <1>3, <2>1, <2>2 DEF SetProcessing, TypeOK
  <2>4. \A q \in RowType : [q EXCEPT !.status = "processing", !.ref = ref] \in RowType
    BY <2>1 DEF RowType, Statuses, WithdrawalStatuses
  <2>5. row' \in [WithdrawalIds -> RowType]
    BY <1>3, <2>1, <2>4 DEF SetProcessing, TypeOK
  <2>6. \A q \in RequestType : [q EXCEPT !.ref = ref] \in RequestType
    BY <2>1, ZenonT(60) DEF RequestType, RequestFields
  <2>7. At("send", w) \in RequestType
    BY <2>1, AtType
  <2>8. req' \in [Requests -> RequestType]
    BY <1>0, <1>3, <2>6, <2>7, BecomeType DEF SetProcessing
  <2>. QED BY <1>3, <2>3, <2>5, <2>8 DEF SetProcessing, TypeOK
<1>4. CASE SendPayout(r)
  <2>1. req' \in [Requests -> RequestType]
    BY <1>0, <1>4, GoType DEF SendPayout, OnSendError
  <2>2. payouts' \in [WithdrawalIds -> Seq(PayoutStates)]
    BY <1>0, <1>4, PayoutType DEF SendPayout, TypeOK, PayoutStates
  <2>. QED BY <1>4, <2>1, <2>2 DEF SendPayout, TypeOK, db
<1>5. CASE CheckPayout(r)
  <2>1. req[r].pc = "check" =>
          [req[r] EXCEPT !.pc = "reverse", !.afterCheck = TRUE] \in RequestType
    BY <1>0 DEF RequestType, RequestFields
  <2>2. req' \in [Requests -> RequestType]
    BY <1>0, <1>5, <2>1, GoType, BecomeType DEF CheckPayout
  <2>. QED BY <1>5, <2>2, ReadOnlyType DEF CheckPayout
<1>6. CASE CheckError(r)
  BY <1>0, <1>6, GoType, ReadOnlyType DEF CheckError
<1>7. CASE Reverse(r)
  <2>1. req' \in [Requests -> RequestType]
    BY <1>0, <1>7, BeginType DEF Reverse, TypeOK
  <2>. QED BY <1>7, <2>1, ReadOnlyType DEF Reverse
<1>8. CASE ReverseCommit(r)
  <2>. DEFINE w == req[r].w
              g == row[w].gross
              s == req[r].snap
              total == IF s.totalOut > g THEN s.totalOut - g ELSE 0
  <2>1. w \in WithdrawalIds /\ g \in Nat
    BY <1>0, <1>8 DEF ReverseCommit, TypeOK, RowType
  <2>2. s.balance + g \in Int /\ total \in Int
    BY <1>0, <2>1 DEF RequestType, RequestFields, WalletType
  <2>3. At("pollRead", w) \in RequestType /\ At("failRow", w) \in RequestType
    BY <2>1, AtType
  <2>4. req' \in [Requests -> RequestType]
    BY <1>0, <1>8, <2>3, BecomeType, CommitType, DoneType DEF ReverseCommit
  <2>5. [wallet EXCEPT !.balance = s.balance + g, !.totalOut = total] \in WalletType
    BY <2>2, WalletWrite DEF TypeOK
  <2>6. [reversals EXCEPT ![w] = @ + 1] \in [WithdrawalIds -> Nat]
    BY <2>1, RowAdded DEF TypeOK
  <2>7. wallet' \in WalletType
    BY <1>8, <2>5 DEF ReverseCommit, TypeOK
  <2>8. reversals' \in [WithdrawalIds -> Nat]
    BY <1>8, <2>6 DEF ReverseCommit, TypeOK
  <2>9. net' \in Int
    BY <1>8, <2>1 DEF ReverseCommit, TypeOK
  <2>. QED BY <1>8, <2>4, <2>7, <2>8, <2>9 DEF ReverseCommit, TypeOK
<1>9. CASE FailRow(r)
  <2>1. row' \in [WithdrawalIds -> RowType]
    BY <1>0, <1>9, StatusType DEF FailRow, TypeOK, Statuses, WithdrawalStatuses
  <2>. QED BY <1>0, <1>9, <2>1, DoneType DEF FailRow, TypeOK
<1>10. CASE Complete(r)
  <2>1. row' \in [WithdrawalIds -> RowType]
    BY <1>0, <1>10, StatusType DEF Complete, TypeOK, Statuses, WithdrawalStatuses
  <2>. QED BY <1>0, <1>10, <2>1, DoneType DEF Complete, TypeOK
<1>. QED BY <1>1, <1>2, <1>3, <1>4, <1>5, <1>6, <1>7, <1>8, <1>9, <1>10

\* poll, credits, failures and the environment.
LEMMA OtherType ==
  ASSUME TypeOK,
         \/ \E r \in Requests : \/ PollRead(r) \/ PollFetch(r) \/ PollFetchError(r)
                                \/ CreditCommit(r) \/ RequestFails(r)
         \/ \E w \in WithdrawalIds : ExpireOtp(w) \/ SettlePayout(w)
  PROVE  TypeOK'
<1>. USE DEF WithdrawalPcs, Pcs, InTransaction
<1>0. /\ req \in [Requests -> RequestType]
      /\ \A r \in Requests : /\ req[r] \in RequestType
                             /\ req[r].pc \in WithdrawalPcs => req[r].w \in WithdrawalIds
  BY RequestFacts DEF TypeOK
<1>1. ASSUME NEW r \in Requests, PollRead(r) PROVE TypeOK'
  <2>1. req[r].w \in WithdrawalIds /\ row[req[r].w].ref \in Nat
    BY <1>0, <1>1 DEF PollRead, TypeOK, RowType
  <2>2. \A q \in RequestType : [q EXCEPT !.ref = row[req[r].w].ref] \in RequestType
    BY <2>1 DEF RequestType, RequestFields
  <2>3. At("pollFetch", req[r].w) \in RequestType
    BY <2>1, AtType
  <2>4. req' \in [Requests -> RequestType]
    BY <1>0, <1>1, <2>2, <2>3, BecomeType, DoneType DEF PollRead
  <2>. QED BY <1>1, <2>4, ReadOnlyType DEF PollRead
<1>2. ASSUME NEW r \in Requests, PollFetch(r) PROVE TypeOK'
  BY <1>0, <1>2, GoType, DoneType, ReadOnlyType DEF PollFetch
<1>3. ASSUME NEW r \in Requests, PollFetchError(r) PROVE TypeOK'
  BY <1>0, <1>3, DoneType, ReadOnlyType DEF PollFetchError
<1>4. ASSUME NEW r \in Requests, CreditCommit(r) PROVE TypeOK'
  <2>. DEFINE c == req[r].gross
              s == req[r].snap
  <2>1. req[r].event \in Events /\ c \in Nat
    BY <1>0, <1>4 DEF CreditCommit, RequestType, RequestFields
  <2>2. s.balance + c \in Int /\ s.totalIn + c \in Int
    BY <1>0, <2>1 DEF RequestType, RequestFields, WalletType
  <2>3. req' \in [Requests -> RequestType]
    BY <1>0, <1>4, IdleType, CommitType, DoneType DEF CreditCommit
  <2>4. [wallet EXCEPT !.balance = s.balance + c, !.totalIn = s.totalIn + c] \in WalletType
    BY <2>2, WalletWrite DEF TypeOK
  <2>5. [raised EXCEPT ![req[r].event] = @ + c] \in [Events -> Nat]
    BY <2>1, RowAdded DEF TypeOK
  <2>6. wallet' \in WalletType
    BY <1>4, <2>4 DEF CreditCommit, TypeOK
  <2>7. raised' \in [Events -> Nat]
    BY <1>4, <2>5 DEF CreditCommit, TypeOK
  <2>8. net' \in Int
    <3>1. net + c \in Int
      BY <2>1 DEF TypeOK
    <3>. QED BY <1>4, <3>1 DEF CreditCommit, TypeOK
  <2>. QED BY <1>4, <2>3, <2>6, <2>7, <2>8 DEF CreditCommit, TypeOK
<1>5. ASSUME NEW r \in Requests, RequestFails(r) PROVE TypeOK'
  BY <1>0, <1>5, DoneType, ReadOnlyType DEF RequestFails
<1>6. ASSUME NEW w \in WithdrawalIds, ExpireOtp(w) PROVE TypeOK'
  <2>1. \A o \in OtpType : [o EXCEPT !.expired = TRUE] \in OtpType
    BY DEF OtpType
  <2>2. otp' \in [WithdrawalIds -> OtpType]
    BY <1>6, <2>1 DEF ExpireOtp, TypeOK
  <2>. QED BY <1>6, <2>2 DEF ExpireOtp, TypeOK
<1>7. ASSUME NEW w \in WithdrawalIds, SettlePayout(w) PROVE TypeOK'
  <2>1. payouts' \in [WithdrawalIds -> Seq(PayoutStates)]
    BY <1>7, PayoutType DEF SettlePayout, TypeOK, PayoutStates
  <2>. QED BY <1>7, <2>1 DEF SettlePayout, TypeOK, db
<1>. QED BY <1>1, <1>2, <1>3, <1>4, <1>5, <1>6, <1>7

LEMMA NextType == TypeOK /\ [Next]_vars => TypeOK'
<1>. SUFFICES ASSUME TypeOK, [Next]_vars PROVE TypeOK'
  OBVIOUS
<1>1. CASE UNCHANGED vars
  BY <1>1 DEF TypeOK, vars
<1>2. CASE Next
  BY <1>2, StartType, InitiateType, VerifyType, DisburseType, OtherType
     DEF Next, Continue
<1>. QED BY <1>1, <1>2

\* The rows and the handlers stay well typed, and every handler past its start
\* is about a withdrawal that exists among the ids.
THEOREM TypeCorrect == Spec => []TypeOK
  BY InitType, NextType, PTL DEF Spec
----------------------------------------------------------------------------
(***************************************************************************)
(* How a step treats the requests that do not take it and the rows that    *)
(* are already there.                                                      *)
(***************************************************************************)
InitiatePcs == {"initWallet", "initKey", "initTracked", "initAvail", "initInsert"}

\* Until its row is inserted a withdrawal id belongs to one request; every
\* other request about a withdrawal is about one whose row is there.
Owned ==
  \A r \in Requests :
    /\ req[r].pc \in InitiatePcs =>
         /\ row[req[r].w].status = "none"
         /\ \A x \in Requests \ {r} : req[x].w # req[r].w
    /\ req[r].pc \in WithdrawalPcs \ InitiatePcs => row[req[r].w].status # "none"

Step(r) == Start(r) \/ Continue(r) \/ RequestFails(r)

\* Nobody's program counter, withdrawal, snapshot or question changes but r's.
OthersKeep(r) ==
  \A x \in Requests \ {r} : /\ req'[x].pc = req[x].pc
                            /\ req'[x].w = req[x].w
                            /\ req'[x].snap = req[x].snap
                            /\ req'[x].event = req[x].event
                            /\ req'[x].gross = req[x].gross

\* A row that is there stays, with its amount.
RowsKeep ==
  \A w \in WithdrawalIds : row[w].status # "none" =>
    row'[w].status # "none" /\ row'[w].gross = row[w].gross

LEMMA BecomeKeeps ==
  ASSUME req \in [Requests -> RequestType], NEW r \in Requests, NEW state,
         Become(r, state)
  PROVE  req'[r] = state /\ OthersKeep(r)
  BY DEF Become, OthersKeep

LEMMA GoKeeps ==
  ASSUME req \in [Requests -> RequestType], NEW r \in Requests, NEW pc,
         Go(r, pc)
  PROVE  req'[r].pc = pc /\ req'[r].w = req[r].w /\ OthersKeep(r)
  BY BecomeKeeps DEF Go, RequestType, RequestFields

LEMMA DoneKeeps ==
  ASSUME req \in [Requests -> RequestType], NEW r \in Requests, Done(r)
  PROVE  req'[r] = Idle /\ req'[r].pc = "idle" /\ req'[r].w = None /\ OthersKeep(r)
  BY BecomeKeeps DEF Done, Idle

LEMMA AtFields ==
  ASSUME NEW pc, NEW w
  PROVE  At(pc, w).pc = pc /\ At(pc, w).w = w
  BY DEF At, Idle

LEMMA CommitKeeps ==
  ASSUME req \in [Requests -> RequestType], NEW r \in Requests, NEW state,
         CommitThen(r, state)
  PROVE  /\ req'[r] = state /\ OthersKeep(r)
         /\ \A x \in Requests \ {r} : req[x].pc \in InTransaction =>
               req'[x].stale = SnapshotIsolation
<1>1. \A x \in Requests \ {r} : req'[x] = req[x] \/ req'[x] = [req[x] EXCEPT !.stale = SnapshotIsolation]
  BY DEF CommitThen
<1>2. \A q \in RequestType : LET p == [q EXCEPT !.stale = SnapshotIsolation]
                             IN  /\ p.pc = q.pc /\ p.w = q.w /\ p.snap = q.snap
                                 /\ p.event = q.event /\ p.gross = q.gross
                                 /\ p.stale = SnapshotIsolation
  BY DEF RequestType, RequestFields
<1>. QED BY <1>1, <1>2 DEF CommitThen, OthersKeep

\* Where a request stands outside initiate and transactions, before or after it
\* has been debited.
Later == WithdrawalPcs \ (InitiatePcs \cup InTransaction \cup {"disburse"})

\* What a step other than a commit does: r keeps to its withdrawal, leaves it,
\* or turns to a row that is there; it touches at most its own row; it enters a
\* transaction with the wallet as it is, a debit only when that covers the row.
Effects(r) ==
  /\ OthersKeep(r) /\ RowsKeep
  /\ wallet' = wallet /\ net' = net /\ debits' = debits
  /\ req'[r].pc # "disburse"
  /\ \A w \in WithdrawalIds \ {req[r].w} : row'[w] = row[w]
  /\ req[r].pc \notin WithdrawalPcs => row' = row
  /\ req'[r].pc \in WithdrawalPcs \ InitiatePcs => row'[req'[r].w].status # "none"
  /\ req'[r].pc \in InTransaction =>
       /\ req'[r].snap = wallet
       /\ req'[r].pc = "debitTx" => row'[req'[r].w].gross <= wallet.balance
  /\ \/ /\ req'[r].pc \in InitiatePcs /\ req[r].pc \in InitiatePcs
        /\ req'[r].w = req[r].w /\ row' = row
     \/ /\ req'[r].pc \in InitiatePcs /\ row' = row
        /\ req'[r].w \in WithdrawalIds /\ row[req'[r].w].status = "none"
        /\ \A x \in Requests : req[x].w # req'[r].w
     \/ /\ req'[r].pc \notin InitiatePcs
        /\ \/ req'[r].w = None
           \/ req'[r].w = req[r].w
           \/ row[req'[r].w].status # "none"

LEMMA Quiet ==
  ASSUME TypeOK, NEW r \in Requests, UNCHANGED <<db, payouts>>, OthersKeep(r),
         req'[r].pc \notin InTransaction \cup InitiatePcs \cup {"disburse"},
         req'[r].pc \in WithdrawalPcs => row[req'[r].w].status # "none",
         req'[r].w \in {None, req[r].w} \/ row[req'[r].w].status # "none"
  PROVE  Effects(r)
  BY DEF Effects, RowsKeep, db, InTransaction

LEMMA EndsQuietly ==
  ASSUME TypeOK, NEW r \in Requests, UNCHANGED <<db, payouts>>, Done(r)
  PROVE  Effects(r)
<1>1. req'[r].pc = "idle" /\ req'[r].w = None /\ OthersKeep(r)
  BY DoneKeeps DEF TypeOK
<1>. QED BY <1>1, Quiet DEF InTransaction, InitiatePcs, WithdrawalPcs

LEMMA InitiateGoes ==
  ASSUME TypeOK, NEW r \in Requests, UNCHANGED <<db, payouts>>,
         NEW pc \in InitiatePcs, Go(r, pc), req[r].pc \in InitiatePcs
  PROVE  Effects(r)
<1>1. req'[r].pc = pc /\ req'[r].w = req[r].w /\ OthersKeep(r)
  BY GoKeeps DEF TypeOK
<1>. QED BY <1>1 DEF Effects, RowsKeep, db, InTransaction, InitiatePcs, WithdrawalPcs

LEMMA GoesQuietly ==
  ASSUME TypeOK, Owned, NEW r \in Requests, UNCHANGED <<db, payouts>>,
         NEW pc \in Later, Go(r, pc),
         req[r].pc \in WithdrawalPcs \ InitiatePcs
  PROVE  Effects(r)
<1>1. req'[r].pc = pc /\ req'[r].w = req[r].w /\ OthersKeep(r)
  BY GoKeeps DEF TypeOK
<1>. QED BY <1>1, Quiet DEF Owned, Later

LEMMA BecomesQuietly ==
  ASSUME TypeOK, NEW r \in Requests, UNCHANGED <<db, payouts>>,
         NEW state, Become(r, state),
         state.pc \in Later,
         row[state.w].status # "none"
  PROVE  Effects(r)
<1>1. req'[r] = state /\ OthersKeep(r)
  BY BecomeKeeps DEF TypeOK
<1>. QED BY <1>1, Quiet DEF Later

LEMMA StartEffects ==
  ASSUME TypeOK, NEW r \in Requests, Start(r)
  PROVE  Effects(r)
<1>1. CASE StartInitiate(r)
  <2>1. PICK w \in WithdrawalIds \ Created, e \in Events, g \in Amounts,
             k \in Keys \cup {None} :
          /\ ~Busy(w)
          /\ Become(r, [Idle EXCEPT !.pc = "initWallet", !.w = w, !.event = e,
                                    !.gross = g, !.key = k])
    BY <1>1 DEF StartInitiate
  <2>. DEFINE q == [Idle EXCEPT !.pc = "initWallet", !.w = w, !.event = e,
                                !.gross = g, !.key = k]
  <2>a. q.pc = "initWallet" /\ q.w = w
    BY DEF Idle
  <2>2. req'[r].pc = "initWallet" /\ req'[r].w = w /\ OthersKeep(r)
    <3>. HIDE DEF q
    <3>1. Become(r, q)
      BY <2>1 DEF q
    <3>. QED BY <2>a, <3>1, BecomeKeeps DEF TypeOK
  <2>3. row[w].status = "none" /\ \A x \in Requests : req[x].w # w
    BY <2>1 DEF Created, Busy
  <2>. QED
    BY <1>1, <2>2, <2>3
       DEF StartInitiate, Effects, RowsKeep, db, InitiatePcs, InTransaction
<1>a. {"resendRead", "verReadRow", "pollRead"} \subseteq Later
  BY DEF Later, WithdrawalPcs, Pcs, InitiatePcs, InTransaction
<1>2. CASE StartResend(r)
  <2>1. PICK w \in WithdrawalIds : MayStart(w) /\ Become(r, At("resendRead", w))
    BY <1>2 DEF StartResend
  <2>. QED
    BY <1>2, <1>a, <2>1, AtFields, BecomesQuietly DEF StartResend, MayStart, Created
<1>3. CASE StartVerify(r)
  <2>1. PICK w \in WithdrawalIds : MayStart(w) /\ \E code \in 0..otp[w].n :
          Become(r, [At("verReadRow", w) EXCEPT !.code = code])
    BY <1>3 DEF StartVerify
  <2>2. PICK code : Become(r, [At("verReadRow", w) EXCEPT !.code = code])
    BY <2>1
  <2>3. LET q == [At("verReadRow", w) EXCEPT !.code = code]
        IN  q.pc = "verReadRow" /\ q.w = w
    BY DEF At, Idle
  <2>. QED
    BY <1>3, <1>a, <2>1, <2>2, <2>3, BecomesQuietly DEF StartVerify, MayStart, Created
<1>4. CASE BeginCredit(r)
  <2>1. PICK e \in Events, c \in Contributions :
          Begin(r, [Idle EXCEPT !.event = e, !.gross = c], "creditTx")
    BY <1>4 DEF BeginCredit
  <2>. DEFINE q == [[Idle EXCEPT !.event = e, !.gross = c]
                      EXCEPT !.pc = "creditTx", !.snap = wallet]
  <2>a. q.pc = "creditTx" /\ q.w = None /\ q.snap = wallet
    BY DEF Idle
  <2>2. req'[r].pc = "creditTx" /\ req'[r].w = None /\ req'[r].snap = wallet
        /\ OthersKeep(r)
    <3>. HIDE DEF q
    <3>1. Become(r, q)
      BY <2>1 DEF q, Begin
    <3>. QED BY <2>a, <3>1, BecomeKeeps DEF TypeOK
  <2>. QED
    BY <1>4, <2>2 DEF BeginCredit, Effects, RowsKeep, db, InitiatePcs, WithdrawalPcs
<1>5. ASSUME NEW w \in WithdrawalIds, StartPoll(r, w) PROVE Effects(r)
  BY <1>5, <1>a, AtFields, BecomesQuietly DEF StartPoll, MayStart, Created
<1>. QED BY <1>1, <1>2, <1>3, <1>4, <1>5 DEF Start

Commits(r) == DebitCommit(r) \/ ReverseCommit(r) \/ CreditCommit(r)

\* Steps that read, and those of initiate, resendOtp and verifyOtp that write.
LEMMA InitiateEffects ==
  ASSUME TypeOK, Owned, NEW r \in Requests,
         \/ InitWallet(r) \/ InitKey(r) \/ InitTracked(r) \/ InitAvail(r)
         \/ InitInsert(r) \/ SendOtp(r) \/ ResendRead(r)
  PROVE  Effects(r)
<1>0. /\ req \in [Requests -> RequestType] /\ req[r] \in RequestType
      /\ req[r].pc \in WithdrawalPcs => req[r].w \in WithdrawalIds
      /\ {"sendOtp", "resendRead"} \subseteq Later
      /\ InitiatePcs \subseteq WithdrawalPcs /\ InitiatePcs \cap InTransaction = {}
  BY RequestFacts DEF TypeOK, Later, WithdrawalPcs, Pcs, InitiatePcs, InTransaction
<1>1. CASE InitWallet(r)
  BY <1>1, EndsQuietly, InitiateGoes DEF InitWallet, InitiatePcs
<1>2. CASE InitKey(r)
  BY <1>2, EndsQuietly, InitiateGoes DEF InitKey, InitiatePcs
<1>3. CASE InitTracked(r)
  <2>. DEFINE q == [req[r] EXCEPT !.pc = "initAvail",
                                  !.tracked = {row[w].event : w \in Created}]
  <2>1. q.pc = "initAvail" /\ q.w = req[r].w
    BY <1>0 DEF RequestType, RequestFields
  <2>2. Become(r, q)
    BY <1>3 DEF InitTracked
  <2>3. req'[r].pc = "initAvail" /\ req'[r].w = req[r].w /\ OthersKeep(r)
    <3>. HIDE DEF q
    <3>. QED BY <1>0, <2>1, <2>2, BecomeKeeps
  <2>. QED
    BY <1>0, <1>3, <2>3 DEF InitTracked, Effects, RowsKeep, db, InitiatePcs
<1>4. CASE InitAvail(r)
  BY <1>4, EndsQuietly, InitiateGoes DEF InitAvail, InitiatePcs
<1>5. CASE InitInsert(r)
  <2>1. CASE KeyUsed(req[r].key)
    BY <1>5, <2>1, EndsQuietly DEF InitInsert, db
  <2>2. CASE ~KeyUsed(req[r].key)
    <3>1. req[r].w \in WithdrawalIds /\ row[req[r].w].status = "none"
      BY <1>0, <1>5 DEF InitInsert, Owned, InitiatePcs
    <3>2. req'[r].pc = "sendOtp" /\ req'[r].w = req[r].w /\ OthersKeep(r)
      BY <1>0, <1>5, <2>2, AtFields, BecomeKeeps DEF InitInsert
    <3>3. /\ row'[req[r].w].status = "pending_otp"
          /\ \A w \in WithdrawalIds \ {req[r].w} : row'[w] = row[w]
      BY <1>5, <2>2, <3>1 DEF InitInsert, TypeOK
    <3>4. RowsKeep
      BY <3>1, <3>3 DEF RowsKeep
    <3>. QED
      BY <1>0, <1>5, <3>1, <3>2, <3>3, <3>4 DEF InitInsert, Effects, InitiatePcs, Later
  <2>. QED BY <2>1, <2>2
<1>6. CASE SendOtp(r)
  <2>1. req'[r].pc = "idle" /\ req'[r].w = None /\ OthersKeep(r)
    BY <1>0, <1>6, DoneKeeps DEF SendOtp
  <2>. QED
    BY <1>6, <2>1 DEF SendOtp, Effects, RowsKeep, InitiatePcs, WithdrawalPcs, InTransaction
<1>7. CASE ResendRead(r)
  <2>1. "sendOtp" \in Later /\ req[r].pc \in WithdrawalPcs \ InitiatePcs
    BY <1>0, <1>7 DEF ResendRead, Later
  <2>. QED BY <1>7, <2>1, EndsQuietly, GoesQuietly DEF ResendRead
<1>. QED BY <1>1, <1>2, <1>3, <1>4, <1>5, <1>6, <1>7

LEMMA VerifyEffects ==
  ASSUME TypeOK, Owned, NEW r \in Requests,
         VerReadRow(r) \/ VerReadOtp(r) \/ VerCount(r) \/ VerAvail(r) \/ Debit(r)
  PROVE  Effects(r)
<1>0. /\ req \in [Requests -> RequestType] /\ req[r] \in RequestType
      /\ req[r].pc \in WithdrawalPcs => req[r].w \in WithdrawalIds
      /\ {"verReadRow", "verReadOtp", "verCount", "verAvail", "debit",
          "failRow"} \subseteq Later
  BY RequestFacts DEF TypeOK, Later, WithdrawalPcs, Pcs, InitiatePcs, InTransaction
<1>a. req[r].pc \in WithdrawalPcs \ InitiatePcs /\ req[r].w \in WithdrawalIds
      /\ row[req[r].w].status # "none"
  BY <1>0 DEF Owned, Later, VerReadRow, VerReadOtp, VerCount, VerAvail, Debit
<1>1. CASE VerReadRow(r)
  BY <1>0, <1>a, <1>1, EndsQuietly, GoesQuietly DEF VerReadRow
<1>2. CASE VerReadOtp(r)
  <2>. DEFINE q == [req[r] EXCEPT !.pc = "verCount", !.n = otp[req[r].w].n,
                                  !.attempts = otp[req[r].w].attempts]
  <2>1. q.pc = "verCount" /\ q.w = req[r].w
    BY <1>0 DEF RequestType, RequestFields
  <2>2. Done(r) \/ Become(r, At("failRow", req[r].w)) \/ Become(r, q)
    BY <1>2 DEF VerReadOtp
  <2>3. UNCHANGED <<db, payouts>>
    BY <1>2 DEF VerReadOtp
  <2>. HIDE DEF q
  <2>. QED BY <1>0, <1>a, <2>1, <2>2, <2>3, AtFields, EndsQuietly, BecomesQuietly
<1>3. CASE VerCount(r)
  <2>1. /\ OthersKeep(r)
        /\ \/ req'[r].pc = "idle" /\ req'[r].w = None
           \/ req'[r].pc = "verAvail" /\ req'[r].w = req[r].w
    BY <1>0, <1>3, AtFields, DoneKeeps, BecomeKeeps DEF VerCount
  <2>. QED
    BY <1>a, <1>3, <2>1
       DEF VerCount, Effects, RowsKeep, InitiatePcs, WithdrawalPcs, InTransaction, Later
<1>4. CASE VerAvail(r)
  BY <1>0, <1>a, <1>4, EndsQuietly, GoesQuietly DEF VerAvail
<1>5. CASE Debit(r)
  <2>1. CASE wallet.balance < row[req[r].w].gross
    BY <1>5, <2>1, EndsQuietly DEF Debit
  <2>2. CASE ~(wallet.balance < row[req[r].w].gross)
    <3>. DEFINE q == [req[r] EXCEPT !.pc = "debitTx", !.snap = wallet]
    <3>1. q.pc = "debitTx" /\ q.w = req[r].w /\ q.snap = wallet
      BY <1>0 DEF RequestType, RequestFields
    <3>2. Become(r, q) /\ UNCHANGED <<row, wallet, net, debits>>
      BY <1>5, <2>2 DEF Debit, Begin, db
    <3>. HIDE DEF q
    <3>3. req'[r] = q /\ OthersKeep(r)
      BY <1>0, <3>2, BecomeKeeps
    <3>4. row[req[r].w].gross <= wallet.balance
      BY <1>a, <2>2 DEF TypeOK, RowType, WalletType
    <3>. QED
      BY <1>a, <3>1, <3>2, <3>3, <3>4 DEF Effects, RowsKeep, InitiatePcs
  <2>. QED BY <2>1, <2>2
<1>. QED BY <1>1, <1>2, <1>3, <1>4, <1>5

\* A step of r that gives its own row, which is there, another status or
\* payout reference, and moves r along.
LEMMA RowStepEffects ==
  ASSUME TypeOK, NEW r \in Requests, OthersKeep(r), UNCHANGED <<wallet, net, debits>>,
         req[r].w \in WithdrawalIds, req[r].pc \in WithdrawalPcs,
         row[req[r].w].status # "none",
         req'[r].pc \notin InTransaction \cup InitiatePcs \cup {"disburse"},
         req'[r].w \in {None, req[r].w},
         req'[r].pc \in WithdrawalPcs => req'[r].w = req[r].w,
         row'[req[r].w].status # "none", row'[req[r].w].gross = row[req[r].w].gross,
         \A w \in WithdrawalIds \ {req[r].w} : row'[w] = row[w]
  PROVE  Effects(r)
  BY DEF Effects, RowsKeep

LEMMA DisburseEffects ==
  ASSUME TypeOK, Owned, NEW r \in Requests,
         \/ DisburseByBank(r) \/ DisburseUnavailable(r) \/ SetProcessing(r)
         \/ SendPayout(r) \/ CheckPayout(r) \/ CheckError(r)
         \/ Reverse(r) \/ FailRow(r) \/ Complete(r)
  PROVE  Effects(r)
<1>0. /\ req \in [Requests -> RequestType] /\ req[r] \in RequestType
      /\ req[r].pc \in WithdrawalPcs => req[r].w \in WithdrawalIds
      /\ {"send", "check", "complete", "reverse", "failRow",
          "pollRead"} \subseteq Later
  BY RequestFacts DEF TypeOK, Later, WithdrawalPcs, Pcs, InitiatePcs, InTransaction
<1>a. req[r].pc \in WithdrawalPcs \ InitiatePcs /\ req[r].w \in WithdrawalIds
      /\ row[req[r].w].status # "none" /\ row[req[r].w] \in RowType
  BY <1>0 DEF Owned, Later, WithdrawalPcs, Pcs, InitiatePcs, DisburseByBank, DisburseUnavailable, SetProcessing, SendPayout,
              CheckPayout, CheckError, Reverse, FailRow, Complete, TypeOK
<1>1. CASE DisburseByBank(r)
  BY <1>0, <1>a, <1>1, GoesQuietly DEF DisburseByBank
<1>2. CASE DisburseUnavailable(r)
  BY <1>0, <1>a, <1>2, GoesQuietly DEF DisburseUnavailable
<1>3. CASE SetProcessing(r)
  <2>. DEFINE w == req[r].w
              ref == Len(payouts[w]) + 1
              q == [At("send", w) EXCEPT !.ref = ref]
  <2>1. q.pc = "send" /\ q.w = w
    BY DEF At, Idle
  <2>2. Become(r, q)
    BY <1>3 DEF SetProcessing
  <2>3. req'[r] = q /\ OthersKeep(r)
    <3>. HIDE DEF q
    <3>. QED BY <1>0, <2>2, BecomeKeeps
  <2>4. /\ row'[w].status = "processing" /\ row'[w].gross = row[w].gross
        /\ \A v \in WithdrawalIds \ {w} : row'[v] = row[v]
    BY <1>3, <1>a DEF SetProcessing, TypeOK, RowType
  <2>. HIDE DEF q
  <2>. QED
    BY <1>0, <1>a, <1>3, <2>1, <2>3, <2>4, RowStepEffects DEF SetProcessing, Later
<1>4. CASE SendPayout(r)
  <2>1. PICK pc \in Later : Go(r, pc)
    BY <1>0, <1>4 DEF SendPayout, OnSendError
  <2>2. req'[r].pc = pc /\ req'[r].w = req[r].w /\ OthersKeep(r)
    BY <1>0, <2>1, GoKeeps
  <2>. QED BY <1>a, <1>4, <2>2, RowStepEffects DEF SendPayout, db, Later
<1>5. CASE CheckPayout(r)
  <2>. DEFINE q == [req[r] EXCEPT !.pc = "reverse", !.afterCheck = TRUE]
  <2>1. q.pc = "reverse" /\ q.w = req[r].w
    BY <1>0 DEF RequestType, RequestFields
  <2>2. Go(r, "complete") \/ Go(r, "pollRead") \/ Become(r, q)
    BY <1>5 DEF CheckPayout
  <2>3. UNCHANGED <<db, payouts>>
    BY <1>5 DEF CheckPayout
  <2>. HIDE DEF q
  <2>. QED BY <1>0, <1>a, <2>1, <2>2, <2>3, GoesQuietly, BecomesQuietly
<1>6. CASE CheckError(r)
  BY <1>0, <1>a, <1>6, GoesQuietly DEF CheckError
<1>7. CASE Reverse(r)
  <2>. DEFINE q == [req[r] EXCEPT !.pc = "reverseTx", !.snap = wallet]
  <2>1. q.pc = "reverseTx" /\ q.w = req[r].w /\ q.snap = wallet
    BY <1>0 DEF RequestType, RequestFields
  <2>2. Become(r, q) /\ UNCHANGED <<row, wallet, net, debits>>
    BY <1>7 DEF Reverse, Begin, db
  <2>. HIDE DEF q
  <2>3. req'[r] = q /\ OthersKeep(r)
    BY <1>0, <2>2, BecomeKeeps
  <2>. QED BY <1>a, <2>1, <2>2, <2>3 DEF Effects, RowsKeep, InitiatePcs
<1>8. CASE FailRow(r) \/ Complete(r)
  <2>1. req'[r].pc = "idle" /\ req'[r].w = None /\ OthersKeep(r)
    BY <1>0, <1>8, DoneKeeps DEF FailRow, Complete
  <2>2. /\ row'[req[r].w].status # "none" /\ row'[req[r].w].gross = row[req[r].w].gross
        /\ \A w \in WithdrawalIds \ {req[r].w} : row'[w] = row[w]
    <3>1. /\ row \in [WithdrawalIds -> RowType] /\ req[r].w \in WithdrawalIds
          /\ \E s \in {"failed", "completed"} : row' = [row EXCEPT ![req[r].w].status = s]
      BY <1>8, <1>a DEF FailRow, Complete, SetStatus, TypeOK
    <3>. QED BY <3>1 DEF RowType
  <2>3. "idle" \notin WithdrawalPcs \cup InTransaction \cup InitiatePcs
    BY DEF WithdrawalPcs, InTransaction, InitiatePcs
  <2>. QED BY <1>a, <1>8, <2>1, <2>2, <2>3, RowStepEffects DEF FailRow, Complete
<1>. QED BY <1>1, <1>2, <1>3, <1>4, <1>5, <1>6, <1>7, <1>8

LEMMA PollEffects ==
  ASSUME TypeOK, Owned, NEW r \in Requests,
         PollRead(r) \/ PollFetch(r) \/ PollFetchError(r) \/ RequestFails(r)
  PROVE  Effects(r)
<1>0. /\ req \in [Requests -> RequestType] /\ req[r] \in RequestType
      /\ {"pollRead", "pollFetch", "complete", "reverse"} \subseteq Later
  BY RequestFacts DEF TypeOK, Later, WithdrawalPcs, Pcs, InitiatePcs, InTransaction
<1>1. CASE PollRead(r)
  <2>. DEFINE ref == row[req[r].w].ref
              q == [At("pollFetch", req[r].w) EXCEPT !.ref = ref]
  <2>1. q.pc = "pollFetch" /\ q.w = req[r].w
    BY DEF At, Idle
  <2>2. Done(r) \/ Become(r, q)
    BY <1>1 DEF PollRead
  <2>3. row[req[r].w].status # "none" /\ UNCHANGED <<db, payouts>>
    BY <1>0, <1>1 DEF PollRead, Owned, Later
  <2>. HIDE DEF q
  <2>. QED BY <1>0, <2>1, <2>2, <2>3, EndsQuietly, BecomesQuietly
<1>2. CASE PollFetch(r)
  BY <1>0, <1>2, EndsQuietly, GoesQuietly DEF PollFetch, Later
<1>3. CASE PollFetchError(r)
  BY <1>3, EndsQuietly DEF PollFetchError
<1>4. CASE RequestFails(r)
  BY <1>4, EndsQuietly DEF RequestFails
<1>. QED BY <1>1, <1>2, <1>3, <1>4

LEMMA StepEffects ==
  ASSUME TypeOK, Owned, NEW r \in Requests, Step(r)
  PROVE  Effects(r) \/ Commits(r)
  BY StartEffects, InitiateEffects, VerifyEffects, DisburseEffects, PollEffects
     DEF Step, Continue, Commits

\* What the commit of a transaction does, or its rollback: the request goes to
\* a row that is there or ends, rows do not change, and the wallet is written
\* from the request's snapshot unless that is stale.
CommitEffects(r, amount) ==
  /\ OthersKeep(r) /\ row' = row
  /\ req[r].pc \in InTransaction
  /\ req'[r].pc \notin InTransaction \cup InitiatePcs
  /\ req'[r].w \in {None, req[r].w}
  /\ req'[r].pc \in WithdrawalPcs => row[req'[r].w].status # "none"
  /\ req'[r].pc = "disburse" =>
       req'[r].w = req[r].w /\ debits' = [debits EXCEPT ![req[r].w] = @ + 1]
  /\ req'[r].pc # "disburse" => debits' = debits
  /\ \/ wallet' = wallet /\ net' = net
     \/ /\ ~Conflict(r)
        /\ wallet'.balance = req[r].snap.balance + amount
        /\ net' = net + amount
        /\ \A x \in Requests \ {r} : req[x].pc \in InTransaction =>
              req'[x].stale = SnapshotIsolation

\* A debit takes the row's amount, a reversal gives it back, a credit adds the
\* contribution.
Written(r) ==
  CASE req[r].pc = "debitTx"   -> -row[req[r].w].gross
    [] req[r].pc = "reverseTx" -> row[req[r].w].gross
    [] req[r].pc = "creditTx"  -> req[r].gross

LEMMA WalletFields ==
  ASSUME NEW old \in WalletType, NEW balance, NEW total
  PROVE  /\ [old EXCEPT !.balance = balance, !.totalOut = total].balance = balance
         /\ [old EXCEPT !.balance = balance, !.totalIn = total].balance = balance
  BY DEF WalletType

LEMMA CommitsEffects ==
  ASSUME TypeOK, Owned, NEW r \in Requests, Commits(r)
  PROVE  CommitEffects(r, Written(r)) /\ Written(r) \in Int
<1>0. /\ req \in [Requests -> RequestType] /\ req[r] \in RequestType
      /\ wallet \in WalletType /\ net \in Int /\ req[r].snap \in WalletType
  BY RequestFacts DEF TypeOK
<1>a. \A pc \in {"disburse", "failRow", "pollRead", "idle"} :
         pc \notin InTransaction \cup InitiatePcs
  BY DEF InTransaction, InitiatePcs
<1>b. "idle" \notin WithdrawalPcs
  BY DEF WithdrawalPcs
<1>c. req[r].pc \in {"debitTx", "reverseTx"} =>
        /\ req[r].w \in WithdrawalIds /\ row[req[r].w].status # "none"
        /\ row[req[r].w].gross \in Nat
  BY RequestFacts DEF Owned, WithdrawalPcs, Pcs, InTransaction, InitiatePcs, TypeOK, RowType
<1>1. CASE DebitCommit(r)
  <2>1. Written(r) = -row[req[r].w].gross /\ req[r].pc = "debitTx" /\ row' = row
    BY <1>1 DEF DebitCommit, Written
  <2>2. CASE Conflict(r)
    <3>1. Done(r) /\ UNCHANGED <<wallet, net, debits>>
      BY <1>1, <2>2 DEF DebitCommit
    <3>. QED
      BY <1>0, <1>a, <1>b, <1>c, <2>1, <3>1, DoneKeeps DEF CommitEffects, InTransaction
  <2>3. CASE ~Conflict(r)
    <3>. DEFINE g == row[req[r].w].gross
                s == req[r].snap
    <3>1. /\ CommitThen(r, At("disburse", req[r].w))
          /\ wallet' = [wallet EXCEPT !.balance = s.balance - g,
                                      !.totalOut = s.totalOut + g]
          /\ net' = net - g
          /\ debits' = [debits EXCEPT ![req[r].w] = @ + 1]
      BY <1>1, <2>3 DEF DebitCommit
    <3>2. wallet'.balance = s.balance - g
      BY <1>0, <3>1, WalletFields
    <3>3. s.balance \in Int /\ g \in Nat
      BY <1>0, <1>c, <2>1 DEF WalletType
    <3>4. s.balance - g = s.balance + (-g) /\ net - g = net + (-g) /\ -g \in Int
      BY <1>0, <3>3
    <3>. QED
      BY <1>0, <1>a, <1>c, <2>1, <2>3, <3>1, <3>2, <3>4, CommitKeeps, AtFields
         DEF CommitEffects, InTransaction
  <2>. QED BY <2>2, <2>3
<1>2. CASE ReverseCommit(r)
  <2>1. Written(r) = row[req[r].w].gross /\ req[r].pc = "reverseTx" /\ row' = row
    BY <1>2 DEF ReverseCommit, Written
  <2>2. CASE Conflict(r)
    <3>1. /\ Become(r, At("pollRead", req[r].w)) \/ Done(r)
          /\ UNCHANGED <<wallet, net, debits>>
      BY <1>2, <2>2 DEF ReverseCommit
    <3>2. CASE Done(r)
      BY <1>0, <1>a, <1>b, <1>c, <2>1, <3>1, <3>2, DoneKeeps
         DEF CommitEffects, InTransaction
    <3>3. CASE Become(r, At("pollRead", req[r].w))
      BY <1>0, <1>a, <1>c, <2>1, <3>1, <3>3, BecomeKeeps, AtFields
         DEF CommitEffects, InTransaction
    <3>. QED BY <3>1, <3>2, <3>3
  <2>3. CASE ~Conflict(r)
    <3>. DEFINE g == row[req[r].w].gross
                s == req[r].snap
    <3>1. /\ CommitThen(r, At("failRow", req[r].w))
          /\ wallet' = [wallet EXCEPT !.balance = s.balance + g,
                          !.totalOut = IF s.totalOut > g THEN s.totalOut - g ELSE 0]
          /\ net' = net + g /\ debits' = debits
      BY <1>2, <2>3 DEF ReverseCommit
    <3>2. wallet'.balance = s.balance + g
      BY <1>0, <3>1, WalletFields
    <3>. QED
      BY <1>0, <1>a, <1>c, <2>1, <2>3, <3>1, <3>2, CommitKeeps, AtFields
         DEF CommitEffects, InTransaction
  <2>. QED BY <2>2, <2>3
<1>3. CASE CreditCommit(r)
  <2>1. Written(r) = req[r].gross /\ req[r].pc = "creditTx" /\ row' = row
    BY <1>3 DEF CreditCommit, Written
  <2>2. req[r].gross \in Nat
    BY <1>0 DEF RequestType, RequestFields
  <2>3. CASE Conflict(r)
    <3>1. Done(r) /\ UNCHANGED <<wallet, net, debits>>
      BY <1>3, <2>3 DEF CreditCommit
    <3>. QED
      BY <1>0, <1>a, <1>b, <2>1, <2>2, <3>1, DoneKeeps DEF CommitEffects, InTransaction
  <2>4. CASE ~Conflict(r)
    <3>1. /\ CommitThen(r, Idle)
          /\ wallet' = [wallet EXCEPT !.balance = req[r].snap.balance + req[r].gross,
                                      !.totalIn = req[r].snap.totalIn + req[r].gross]
          /\ net' = net + req[r].gross /\ debits' = debits
      BY <1>3, <2>4 DEF CreditCommit
    <3>2. wallet'.balance = req[r].snap.balance + req[r].gross
      BY <1>0, <3>1, WalletFields
    <3>3. Idle.pc = "idle" /\ Idle.w = None
      BY DEF Idle
    <3>. QED
      BY <1>0, <1>a, <1>b, <2>1, <2>2, <2>4, <3>1, <3>2, <3>3, CommitKeeps
         DEF CommitEffects, InTransaction
  <2>. QED BY <2>3, <2>4
<1>. QED BY <1>1, <1>2, <1>3 DEF Commits
----------------------------------------------------------------------------
(***************************************************************************)
(* A withdrawal id being initiated belongs to one request.                 *)
(***************************************************************************)
LEMMA OwnedInit == Init => Owned
  BY DEF Init, Owned, Idle, InitiatePcs, WithdrawalPcs

LEMMA OwnedStep ==
  ASSUME TypeOK, Owned, NEW r \in Requests, Step(r)
  PROVE  Owned'
<1>0. /\ \A x \in Requests : req[x].pc \in WithdrawalPcs => req[x].w \in WithdrawalIds
      /\ InitiatePcs \subseteq WithdrawalPcs
      /\ InTransaction \cap InitiatePcs = {}
      /\ \A x \in Requests : req[x].w # None => req[x].w \in WithdrawalIds
  BY RequestFacts DEF WithdrawalPcs, Pcs, InitiatePcs, InTransaction, TypeOK,
                      RequestType, RequestFields
<1>1. CASE Effects(r)
  <2>1. ASSUME NEW x \in Requests, req'[x].pc \in InitiatePcs
        PROVE  /\ row'[req'[x].w].status = "none"
               /\ \A y \in Requests \ {x} : req'[y].w # req'[x].w
    <3>1. CASE x = r
      BY <1>0, <1>1, <2>1, <3>1 DEF Effects, OthersKeep, Owned
    <3>2. CASE x # r
      <4>1. /\ req'[x].w = req[x].w /\ req[x].pc \in InitiatePcs
            /\ row[req[x].w].status = "none" /\ req[x].w \in WithdrawalIds
            /\ \A y \in Requests \ {x} : req[y].w # req[x].w
        BY <1>0, <1>1, <2>1, <3>2 DEF Effects, OthersKeep, Owned
      <4>2. row'[req[x].w] = row[req[x].w]
        BY <1>1, <3>2, <4>1 DEF Effects
      <4>3. req'[r].w # req[x].w
        BY <1>1, <3>2, <4>1 DEF Effects
      <4>. QED BY <1>1, <3>2, <4>1, <4>2, <4>3 DEF Effects, OthersKeep
    <3>. QED BY <3>1, <3>2
  <2>2. ASSUME NEW x \in Requests, req'[x].pc \in WithdrawalPcs \ InitiatePcs
        PROVE  row'[req'[x].w].status # "none"
    BY <1>0, <1>1, <2>2 DEF Effects, OthersKeep, RowsKeep, Owned
  <2>. QED BY <2>1, <2>2 DEF Owned
<1>2. CASE Commits(r)
  <2>1. CommitEffects(r, Written(r))
    BY <1>2, CommitsEffects
  <2>2. ASSUME NEW x \in Requests, req'[x].pc \in InitiatePcs
        PROVE  /\ row'[req'[x].w].status = "none"
               /\ \A y \in Requests \ {x} : req'[y].w # req'[x].w
    <3>1. /\ x # r /\ req'[x].w = req[x].w /\ req[x].pc \in InitiatePcs
          /\ req[x].w \in WithdrawalIds
      BY <1>0, <2>1, <2>2 DEF CommitEffects, OthersKeep
    <3>. QED BY <2>1, <3>1 DEF CommitEffects, OthersKeep, Owned
  <2>3. ASSUME NEW x \in Requests, req'[x].pc \in WithdrawalPcs \ InitiatePcs
        PROVE  row'[req'[x].w].status # "none"
    BY <2>1, <2>3 DEF CommitEffects, OthersKeep, Owned
  <2>. QED BY <2>2, <2>3 DEF Owned
<1>. QED BY <1>1, <1>2, StepEffects

\* The provider, the clock and stuttering touch neither rows nor requests.
Outside == UNCHANGED vars \/ \E w \in WithdrawalIds : ExpireOtp(w) \/ SettlePayout(w)

LEMMA OutsideKeeps == Outside => UNCHANGED <<row, wallet, debits, net, req>>
  BY DEF Outside, ExpireOtp, SettlePayout, vars, db

LEMMA NextSteps == [Next]_vars => Outside \/ \E r \in Requests : Step(r)
  BY DEF Next, Outside, Step

LEMMA OwnedNext == TypeOK /\ Owned /\ [Next]_vars => Owned'
<1>1. Owned /\ Outside => Owned'
  BY OutsideKeeps DEF Owned
<1>. QED BY <1>1, OwnedStep, NextSteps

----------------------------------------------------------------------------
(***************************************************************************)
(* The wallet is never overdrawn.  The balance alone is not inductive: a   *)
(* debit writes what its snapshot said, so snapshots must be covered too,  *)
(* and the row a debit is for must keep its amount until the commit.       *)
(***************************************************************************)
SafeBalance ==
  /\ WalletNeverOverdrawn
  /\ \A r \in Requests : req[r].pc \in InTransaction =>
       /\ req[r].snap.balance >= 0
       /\ req[r].pc = "debitTx" => row[req[r].w].gross <= req[r].snap.balance

LEMMA SafeBalanceStep ==
  ASSUME TypeOK, Owned, SafeBalance, NEW r \in Requests, Step(r)
  PROVE  SafeBalance'
<1>0. /\ \A w \in WithdrawalIds : row[w].gross \in Nat
      /\ wallet.balance \in Int
      /\ \A x \in Requests : /\ req[x].snap.balance \in Int
                             /\ req[x].gross \in Nat
                             /\ req[x].pc \in WithdrawalPcs => req[x].w \in WithdrawalIds
  BY RequestFacts DEF TypeOK, RowType, WalletType, RequestType, RequestFields
<1>a. \A x \in Requests : req[x].pc = "debitTx" =>
        /\ req[x].w \in WithdrawalIds /\ row[req[x].w].status # "none"
  BY <1>0 DEF Owned, WithdrawalPcs, Pcs, InTransaction, InitiatePcs
<1>1. CASE Effects(r)
  <2>1. WalletNeverOverdrawn'
    BY <1>1 DEF Effects, SafeBalance, WalletNeverOverdrawn
  <2>2. ASSUME NEW x \in Requests, req'[x].pc \in InTransaction
        PROVE  /\ req'[x].snap.balance >= 0
               /\ req'[x].pc = "debitTx" => row'[req'[x].w].gross <= req'[x].snap.balance
    <3>1. CASE x = r
      BY <1>1, <2>2, <3>1 DEF Effects, SafeBalance, WalletNeverOverdrawn
    <3>2. CASE x # r
      BY <1>1, <1>a, <2>2, <3>2 DEF Effects, OthersKeep, RowsKeep, SafeBalance
    <3>. QED BY <3>1, <3>2
  <2>. QED BY <2>1, <2>2 DEF SafeBalance
<1>2. CASE Commits(r)
  <2>1. CommitEffects(r, Written(r))
    BY <1>2, CommitsEffects
  <2>2. req[r].snap.balance + Written(r) >= 0
    <3>1. CASE req[r].pc = "debitTx"
      <4>1. row[req[r].w].gross <= req[r].snap.balance /\ row[req[r].w].gross \in Nat
        BY <1>0, <1>a, <3>1 DEF SafeBalance, InTransaction
      <4>2. Written(r) = -row[req[r].w].gross
        BY <3>1 DEF Written
      <4>. QED BY <1>0, <4>1, <4>2
    <3>2. CASE req[r].pc \in {"reverseTx", "creditTx"}
      <4>1. Written(r) \in Nat
        BY <1>0, <3>2 DEF Written, WithdrawalPcs, Pcs, InTransaction
      <4>2. req[r].snap.balance >= 0
        BY <3>2 DEF SafeBalance, InTransaction
      <4>. QED BY <1>0, <4>1, <4>2
    <3>. QED BY <2>1, <3>1, <3>2 DEF CommitEffects, InTransaction
  <2>3. WalletNeverOverdrawn'
    BY <2>1, <2>2 DEF CommitEffects, SafeBalance, WalletNeverOverdrawn
  <2>4. ASSUME NEW x \in Requests, req'[x].pc \in InTransaction
        PROVE  /\ req'[x].snap.balance >= 0
               /\ req'[x].pc = "debitTx" => row'[req'[x].w].gross <= req'[x].snap.balance
    BY <2>1, <2>4 DEF CommitEffects, OthersKeep, SafeBalance
  <2>. QED BY <2>3, <2>4 DEF SafeBalance
<1>. QED BY <1>1, <1>2, StepEffects

\* However many requests overlap, stop half way or are rolled back, the balance
\* that debitForWithdrawal writes is never below zero.
THEOREM WalletSafe == Spec => []WalletNeverOverdrawn
<1>1. Init => SafeBalance
  BY DEF Init, SafeBalance, WalletNeverOverdrawn, Idle, InTransaction
<1>2. TypeOK /\ Owned /\ SafeBalance /\ [Next]_vars => SafeBalance'
  <2>1. SafeBalance /\ Outside => SafeBalance'
    BY OutsideKeeps DEF SafeBalance, WalletNeverOverdrawn
  <2>. QED BY <2>1, SafeBalanceStep, NextSteps
<1>3. SafeBalance => WalletNeverOverdrawn
  BY DEF SafeBalance
<1>. QED BY <1>1, <1>2, <1>3, TypeCorrect, OwnedInit, OwnedNext, PTL DEF Spec

----------------------------------------------------------------------------
(***************************************************************************)
(* No wallet update is lost under snapshot isolation: a transaction that   *)
(* may still commit has the wallet as it is in its snapshot.               *)
(***************************************************************************)
FreshSnapshots ==
  SnapshotIsolation =>
    /\ wallet.balance = OpeningBalance + net
    /\ \A r \in Requests : req[r].pc \in InTransaction /\ ~req[r].stale =>
         req[r].snap.balance = wallet.balance

LEMMA OnlyCommitsMarkStale ==
  ASSUME TypeOK, NEW r \in Requests, Step(r), ~Commits(r)
  PROVE  \A x \in Requests \ {r} : req'[x] = req[x]
<1>1. \E state : Become(r, state)
  BY DEF Step, Start, Continue, Commits, RequestFails, StartInitiate, StartResend,
         StartVerify, BeginCredit, StartPoll, InitWallet, InitKey, InitTracked,
         InitAvail, InitInsert, SendOtp, ResendRead, VerReadRow, VerReadOtp,
         VerCount, VerAvail, Debit, DisburseByBank, DisburseUnavailable,
         SetProcessing, SendPayout, OnSendError, CheckPayout, CheckError, Reverse,
         FailRow, Complete, PollRead, PollFetch, PollFetchError, Go, Done, Begin
<1>. QED BY <1>1 DEF Become, TypeOK

LEMMA FreshSnapshotsStep ==
  ASSUME TypeOK, Owned, FreshSnapshots, NEW r \in Requests, Step(r)
  PROVE  FreshSnapshots'
<1>. SUFFICES ASSUME SnapshotIsolation
              PROVE  /\ wallet'.balance = OpeningBalance + net'
                     /\ \A x \in Requests : req'[x].pc \in InTransaction /\ ~req'[x].stale =>
                          req'[x].snap.balance = wallet'.balance
  BY DEF FreshSnapshots
<1>1. CASE ~Commits(r)
  <2>1. Effects(r)
    BY <1>1, StepEffects
  <2>2. wallet' = wallet /\ net' = net
    BY <2>1 DEF Effects
  <2>3. ASSUME NEW x \in Requests, req'[x].pc \in InTransaction, ~req'[x].stale
        PROVE  req'[x].snap.balance = wallet.balance
    <3>1. CASE x = r
      BY <2>1, <2>3, <3>1 DEF Effects
    <3>2. CASE x # r
      BY <1>1, <2>3, <3>2, OnlyCommitsMarkStale DEF FreshSnapshots
    <3>. QED BY <3>1, <3>2
  <2>. QED BY <2>2, <2>3 DEF FreshSnapshots
<1>2. CASE Commits(r)
  <2>1. CommitEffects(r, Written(r)) /\ Written(r) \in Int
    BY <1>2, CommitsEffects
  <2>2. CASE wallet' = wallet /\ net' = net
    <3>1. \A x \in Requests \ {r} :
            req'[x].pc \in InTransaction /\ ~req'[x].stale =>
              /\ req[x].pc \in InTransaction /\ ~req[x].stale
              /\ req'[x].snap = req[x].snap
      <4>1. \A x \in Requests \ {r} : req'[x] = req[x] \/ req'[x].stale \/ req[x].pc \notin InTransaction
        <5>1. (\E state : Become(r, state)) \/ \E state : CommitThen(r, state)
          BY <1>2 DEF Commits, DebitCommit, ReverseCommit, CreditCommit, Done
        <5>2. ASSUME NEW state, Become(r, state)
              PROVE  \A x \in Requests \ {r} : req'[x] = req[x]
          BY <5>2 DEF Become, TypeOK
        <5>3. ASSUME NEW state, CommitThen(r, state)
              PROVE  \A x \in Requests \ {r} : req[x].pc \in InTransaction => req'[x].stale
          BY <5>3, CommitKeeps DEF TypeOK
        <5>. QED BY <5>1, <5>2, <5>3
      <4>. QED BY <2>1, <4>1 DEF CommitEffects, OthersKeep
    <3>. QED BY <2>1, <2>2, <3>1 DEF CommitEffects, FreshSnapshots
  <2>3. CASE ~(wallet' = wallet /\ net' = net)
    <3>1. /\ ~req[r].stale
          /\ wallet'.balance = req[r].snap.balance + Written(r)
          /\ net' = net + Written(r)
          /\ \A x \in Requests \ {r} : req[x].pc \in InTransaction => req'[x].stale
      BY <2>1, <2>3 DEF CommitEffects, Conflict
    <3>2. req[r].snap.balance = OpeningBalance + net
      BY <2>1, <3>1 DEF CommitEffects, FreshSnapshots
    <3>3. wallet'.balance = OpeningBalance + net'
      <4>1. OpeningBalance \in Int /\ net \in Int
        BY DEF TypeOK
      <4>. QED BY <2>1, <3>1, <3>2, <4>1
    <3>. QED BY <2>1, <3>1, <3>3 DEF CommitEffects, OthersKeep
  <2>. QED BY <2>2, <2>3
<1>. QED BY <1>1, <1>2

\* With snapshot isolation the balance is the opening balance plus every ledger
\* row of a debit, a reversal or a credit, whatever overlaps and fails.
THEOREM LedgerSafe == Spec => []LedgerExplainsBalance
<1>1. Init => FreshSnapshots
  BY DEF Init, FreshSnapshots, Idle, InTransaction
<1>2. TypeOK /\ Owned /\ FreshSnapshots /\ [Next]_vars => FreshSnapshots'
  <2>1. FreshSnapshots /\ Outside => FreshSnapshots'
    BY OutsideKeeps DEF FreshSnapshots
  <2>. QED BY <2>1, FreshSnapshotsStep, NextSteps
<1>3. FreshSnapshots => LedgerExplainsBalance
  BY DEF FreshSnapshots, LedgerExplainsBalance
<1>. QED BY <1>1, <1>2, <1>3, TypeCorrect, OwnedInit, OwnedNext, PTL DEF Spec

----------------------------------------------------------------------------
(***************************************************************************)
(* No debit pays twice.  Counting payouts alone is not inductive: between  *)
(* its commit and SetProcessing a debit is spoken for by the request that  *)
(* made it.                                                                *)
(***************************************************************************)
Disbursing(w) == {r \in Requests : req[r].pc = "disburse" /\ req[r].w = w}

DebitsSpokenFor ==
  \A w \in WithdrawalIds :
    Len(payouts[w]) + Cardinality(Disbursing(w)) <= debits[w]

LEMMA DisbursingFinite ==
  ASSUME NEW w
  PROVE  /\ IsFiniteSet(Disbursing(w)) /\ Cardinality(Disbursing(w)) \in Nat
         /\ IsFiniteSet(Disbursing(w)') /\ Cardinality(Disbursing(w)') \in Nat
  BY FS_Subset, FS_CardinalityType DEF Disbursing

\* Only SetProcessing mints a payout id.
LEMMA PayoutsMinted ==
  ASSUME TypeOK, NEW r \in Requests, Step(r), ~SetProcessing(r), NEW w \in WithdrawalIds
  PROVE  Len(payouts'[w]) = Len(payouts[w])
<1>1. CASE SendPayout(r)
  <2>1. PICK s \in PayoutStates :
          payouts' = payouts \/ payouts' = [payouts EXCEPT ![req[r].w][req[r].ref] = s]
    BY <1>1 DEF SendPayout, PayoutStates
  <2>2. req[r].w \in WithdrawalIds
    BY <1>1, RequestFacts DEF SendPayout, WithdrawalPcs, Pcs
  <2>. QED BY <2>1, <2>2, PayoutType DEF TypeOK
<1>2. CASE ~SendPayout(r)
  BY <1>2 DEF Step, Start, Continue, RequestFails, StartInitiate, StartResend,
         StartVerify, BeginCredit, StartPoll, InitWallet, InitKey, InitTracked,
         InitAvail, InitInsert, SendOtp, ResendRead, VerReadRow, VerReadOtp,
         VerCount, VerAvail, Debit, DebitCommit, DisburseByBank, DisburseUnavailable,
         CheckPayout, CheckError, Reverse, ReverseCommit,
         FailRow, Complete, PollRead, PollFetch, PollFetchError, CreditCommit
<1>. QED BY <1>1, <1>2

LEMMA SpokenForStep ==
  ASSUME TypeOK, Owned, DebitsSpokenFor, NEW r \in Requests, Step(r),
         NEW w \in WithdrawalIds
  PROVE  Len(payouts'[w]) + Cardinality(Disbursing(w)') <= debits'[w]
<1>0. /\ Len(payouts[w]) \in Nat /\ debits[w] \in Nat
      /\ Cardinality(Disbursing(w)) \in Nat /\ IsFiniteSet(Disbursing(w))
      /\ Cardinality(Disbursing(w)') \in Nat /\ IsFiniteSet(Disbursing(w)')
      /\ Len(payouts[w]) + Cardinality(Disbursing(w)) <= debits[w]
  BY DisbursingFinite, LenProperties DEF TypeOK, DebitsSpokenFor
<1>1. CASE SetProcessing(r)
  <2>1. req'[r].pc # "disburse" /\ OthersKeep(r) /\ debits' = debits
    <3>1. ~Commits(r)
      BY <1>1 DEF SetProcessing, Commits, DebitCommit, ReverseCommit, CreditCommit
    <3>. QED BY <3>1, StepEffects DEF Effects
  <2>2. CASE w = req[r].w
    <3>1. r \in Disbursing(w) /\ Disbursing(w)' = Disbursing(w) \ {r}
      BY <1>1, <2>1, <2>2 DEF SetProcessing, Disbursing, OthersKeep
    <3>2. Cardinality(Disbursing(w)') = Cardinality(Disbursing(w)) - 1
      BY <1>0, <3>1, FS_RemoveElement
    <3>3. payouts[w] \in Seq(PayoutStates) /\ payouts'[w] = Append(payouts[w], "absent")
      BY <1>1, <2>2 DEF SetProcessing, TypeOK
    <3>4. Len(payouts'[w]) = Len(payouts[w]) + 1
      BY <3>3, AppendProperties DEF PayoutStates
    <3>. QED BY <1>0, <2>1, <3>2, <3>4
  <2>3. CASE w # req[r].w
    <3>1. Disbursing(w)' = Disbursing(w)
      BY <1>1, <2>1, <2>3 DEF Disbursing, OthersKeep
    <3>2. payouts'[w] = payouts[w]
      BY <1>1, <2>3 DEF SetProcessing, TypeOK
    <3>. QED BY <1>0, <2>1, <3>1, <3>2
  <2>. QED BY <2>2, <2>3
<1>2. CASE ~SetProcessing(r)
  <2>1. Len(payouts'[w]) = Len(payouts[w])
    BY <1>2, PayoutsMinted
  <2>2. OthersKeep(r)
    BY StepEffects, CommitsEffects DEF Effects, CommitEffects
  <2>3. CASE req'[r].pc # "disburse"
    <3>1. debits' = debits
      BY <2>3, StepEffects, CommitsEffects DEF Effects, CommitEffects
    <3>2. Disbursing(w)' \subseteq Disbursing(w)
      BY <2>2, <2>3 DEF Disbursing, OthersKeep
    <3>3. Cardinality(Disbursing(w)') <= Cardinality(Disbursing(w))
      BY <1>0, <3>2, FS_Subset
    <3>. QED BY <1>0, <2>1, <3>1, <3>3
  <2>4. CASE req'[r].pc = "disburse"
    <3>1. /\ req'[r].w = req[r].w
          /\ debits' = [debits EXCEPT ![req[r].w] = @ + 1]
          /\ req[r].pc # "disburse"
      BY <2>4, StepEffects, CommitsEffects DEF Effects, CommitEffects, InTransaction
    <3>2. CASE w = req[r].w
      <4>1. Disbursing(w)' = Disbursing(w) \cup {r} /\ r \notin Disbursing(w)
        BY <2>2, <2>4, <3>1, <3>2 DEF Disbursing, OthersKeep
      <4>2. Cardinality(Disbursing(w)') = Cardinality(Disbursing(w)) + 1
        BY <1>0, <4>1, FS_AddElement
      <4>3. debits'[w] = debits[w] + 1
        BY <3>1, <3>2 DEF TypeOK
      <4>. QED BY <1>0, <2>1, <4>2, <4>3
    <3>3. CASE w # req[r].w
      <4>1. Disbursing(w)' = Disbursing(w)
        BY <2>2, <2>4, <3>1, <3>3 DEF Disbursing, OthersKeep
      <4>2. debits'[w] = debits[w]
        BY <3>1, <3>3 DEF TypeOK
      <4>. QED BY <1>0, <2>1, <4>1, <4>2
    <3>. QED BY <3>2, <3>3
  <2>. QED BY <2>3, <2>4
<1>. QED BY <1>1, <1>2

\* Every payout id handed to the provider is backed by a debit of its own, even
\* when verifyOtp overlaps itself or is called again after it stopped half way.
THEOREM PayoutsBacked == Spec => []PayoutBackedByDebit
<1>1. Init => DebitsSpokenFor
  <2>. SUFFICES ASSUME Init, NEW w \in WithdrawalIds
                PROVE  Len(payouts[w]) + Cardinality(Disbursing(w)) <= debits[w]
    BY DEF DebitsSpokenFor
  <2>1. Disbursing(w) = {} /\ payouts[w] = <<>> /\ debits[w] = 0
    BY DEF Init, Disbursing, Idle
  <2>. QED BY <2>1, FS_EmptySet, EmptySeq
<1>2. TypeOK /\ Owned /\ DebitsSpokenFor /\ [Next]_vars => DebitsSpokenFor'
  <2>1. TypeOK /\ DebitsSpokenFor /\ Outside => DebitsSpokenFor'
    <3>. SUFFICES ASSUME TypeOK, DebitsSpokenFor, Outside, NEW w \in WithdrawalIds
                  PROVE  Len(payouts'[w]) + Cardinality(Disbursing(w)') <= debits'[w]
      BY DEF DebitsSpokenFor
    <3>1. Len(payouts'[w]) = Len(payouts[w])
      BY PayoutType DEF Outside, ExpireOtp, SettlePayout, vars, TypeOK, PayoutStates
    <3>2. Disbursing(w)' = Disbursing(w) /\ debits' = debits
      BY OutsideKeeps DEF Disbursing
    <3>. QED BY <3>1, <3>2 DEF DebitsSpokenFor
  <2>2. TypeOK /\ Owned /\ DebitsSpokenFor /\ (\E r \in Requests : Step(r)) => DebitsSpokenFor'
    BY SpokenForStep DEF DebitsSpokenFor
  <2>. QED BY <2>1, <2>2, NextSteps
<1>3. TypeOK /\ DebitsSpokenFor => PayoutBackedByDebit
  <2>. SUFFICES ASSUME TypeOK, DebitsSpokenFor, NEW w \in WithdrawalIds
                PROVE  Len(payouts[w]) <= debits[w]
    BY DEF PayoutBackedByDebit
  <2>1. Len(payouts[w]) \in Nat /\ debits[w] \in Nat /\ Cardinality(Disbursing(w)) \in Nat
    BY DisbursingFinite, LenProperties DEF TypeOK
  <2>. QED BY <2>1 DEF DebitsSpokenFor
<1>. QED BY <1>1, <1>2, <1>3, TypeCorrect, OwnedInit, OwnedNext, PTL DEF Spec

----------------------------------------------------------------------------
(***************************************************************************)
(* A key buys one withdrawal.  The invariant is the unique index itself:   *)
(* among the rows there are no two with one key, because InitInsert looks  *)
(* and writes in one step and no other step writes a key.                  *)
(***************************************************************************)
KeysAreUnique ==
  \A w, v \in WithdrawalIds :
    /\ row[w].status # "none" /\ row[v].status # "none"
    /\ row[w].key # None /\ row[w].key = row[v].key
    => w = v

\* The step adds no row and leaves every row its key.
RowsAlike ==
  \A w \in WithdrawalIds :
    /\ row'[w].key = row[w].key
    /\ row'[w].status # "none" => row[w].status # "none"

LEMMA KeysStay == KeysAreUnique /\ RowsAlike => KeysAreUnique'
  BY DEF KeysAreUnique, RowsAlike

LEMMA RowUnchanged ==
  ASSUME NEW r \in Requests, Step(r),
         ~InitInsert(r), ~SetProcessing(r), ~FailRow(r), ~Complete(r)
  PROVE  row' = row
  BY DEF Step, Start, Continue, RequestFails, StartInitiate, StartResend, StartVerify,
         BeginCredit, StartPoll, InitWallet, InitKey, InitTracked, InitAvail, SendOtp,
         ResendRead, VerReadRow, VerReadOtp, VerCount, VerAvail, Debit, DebitCommit,
         DisburseByBank, DisburseUnavailable, SendPayout, CheckPayout, CheckError,
         Reverse, ReverseCommit, PollRead, PollFetch, PollFetchError, CreditCommit, db

LEMMA KeysStep ==
  ASSUME TypeOK, Owned, KeysAreUnique, NEW r \in Requests, Step(r)
  PROVE  KeysAreUnique'
<1>. DEFINE w == req[r].w
<1>0. /\ row \in [WithdrawalIds -> RowType]
      /\ req[r].pc \in WithdrawalPcs => w \in WithdrawalIds
      /\ {"initInsert", "disburse", "failRow", "complete"} \subseteq WithdrawalPcs
  BY RequestFacts DEF TypeOK, WithdrawalPcs, Pcs
<1>1. CASE InitInsert(r)
  <2>1. CASE KeyUsed(req[r].key)
    BY <1>1, <2>1, KeysStay DEF InitInsert, RowsAlike
  <2>2. CASE ~KeyUsed(req[r].key)
    <3>1. /\ w \in WithdrawalIds
          /\ row' = [row EXCEPT ![w] =
                       [status |-> "pending_otp", gross |-> req[r].gross,
                        event |-> req[r].event, key |-> req[r].key, ref |-> 0]]
      BY <1>0, <1>1, <2>2 DEF InitInsert
    <3>2. /\ row'[w].key = req[r].key
          /\ \A v \in WithdrawalIds \ {w} : row'[v] = row[v]
      BY <1>0, <3>1
    <3>3. req[r].key # None =>
            \A v \in WithdrawalIds : row[v].status # "none" => row[v].key # req[r].key
      BY <2>2 DEF KeyUsed, Created
    <3>. QED BY <3>2, <3>3 DEF KeysAreUnique
  <2>. QED BY <2>1, <2>2
<1>2. CASE SetProcessing(r) \/ FailRow(r) \/ Complete(r)
  <2>1. w \in WithdrawalIds /\ row[w].status # "none"
    BY <1>0, <1>2 DEF SetProcessing, FailRow, Complete, Owned, InitiatePcs
  <2>2. \/ \E s \in {"failed", "completed"} : row' = [row EXCEPT ![w].status = s]
        \/ \E ref : row' = [row EXCEPT ![w].status = "processing", ![w].ref = ref]
    BY <1>2 DEF SetProcessing, FailRow, Complete, SetStatus
  <2>3. PICK q : row' = [row EXCEPT ![w] = q] /\ q.key = row[w].key
    <3>1. row[w] \in RowType
      BY <1>0, <2>1
    <3>2. CASE \E s \in {"failed", "completed"} : row' = [row EXCEPT ![w].status = s]
      <4>1. PICK s : row' = [row EXCEPT ![w].status = s]
        BY <3>2
      <4>2. [row[w] EXCEPT !.status = s].key = row[w].key
        BY <3>1 DEF RowType
      <4>. QED BY <4>1, <4>2
    <3>3. CASE \E ref : row' = [row EXCEPT ![w].status = "processing", ![w].ref = ref]
      <4>1. PICK ref : row' = [row EXCEPT ![w].status = "processing", ![w].ref = ref]
        BY <3>3
      <4>2. [row[w] EXCEPT !.status = "processing", !.ref = ref].key = row[w].key
        BY <3>1 DEF RowType
      <4>. QED BY <4>1, <4>2
    <3>. QED BY <2>2, <3>2, <3>3
  <2>4. row'[w].key = row[w].key /\ \A v \in WithdrawalIds \ {w} : row'[v] = row[v]
    BY <1>0, <2>1, <2>3
  <2>. QED BY <2>1, <2>4, KeysStay DEF RowsAlike
<1>3. CASE ~(InitInsert(r) \/ SetProcessing(r) \/ FailRow(r) \/ Complete(r))
  BY <1>3, RowUnchanged, KeysStay DEF RowsAlike
<1>. QED BY <1>1, <1>2, <1>3

\* However many retries of initiate with one key overlap, one withdrawal of the
\* key at most is ever debited, wherever handlers stop.
THEOREM KeyAlwaysPaysOnce == Spec => []KeyPaysOnce
<1>1. Init => Owned /\ KeysAreUnique
  BY OwnedInit DEF Init, KeysAreUnique, NoRow
<1>2. TypeOK /\ Owned /\ KeysAreUnique /\ [Next]_vars => (Owned /\ KeysAreUnique)'
  <2>1. KeysAreUnique /\ Outside => KeysAreUnique'
    BY OutsideKeeps DEF KeysAreUnique
  <2>. QED BY <2>1, OwnedNext, KeysStep, NextSteps
<1>3. KeysAreUnique => KeyPaysOnce
  BY DEF KeysAreUnique, KeyPaysOnce, Created
<1>. QED BY <1>1, <1>2, <1>3, TypeCorrect, PTL DEF Spec
----------------------------------------------------------------------------
(***************************************************************************)
(* One request per withdrawal.  From here on clients wait for an answer    *)
(* before they ask about the same withdrawal again, a handler that started *)
(* goes on to its end, and no transaction is rolled back.  Requests about  *)
(* other withdrawals and credits overlap as they like.                     *)
(*                                                                         *)
(* The inductive invariant says what a handler may take for granted at     *)
(* every await: RowAgreesWithLedger only speaks of withdrawals nobody is   *)
(* working on, so each handler has to carry the agreement through its own  *)
(* steps.                                                                  *)
(***************************************************************************)
Untouched(w) == debits[w] = 0 /\ reversals[w] = 0 /\ payouts[w] = <<>>
Taken(w) == debits[w] = 1 /\ reversals[w] = 0
Minted(w) == Taken(w) /\ Len(payouts[w]) = 1 /\ row[w].ref = 1
Returned(w) == debits[w] = reversals[w] /\ debits[w] <= 1

\* A withdrawal nobody is working on.
AtRest(w) ==
  /\ row[w].status \in {"none", "pending_otp"} => Untouched(w)
  /\ row[w].status = "processing" => Minted(w)
  /\ row[w].status = "completed" => Taken(w)
  /\ row[w].status = "failed" => Returned(w)

Waiting == {"sendOtp", "verReadOtp", "verCount", "verAvail", "debit", "debitTx"}
Paying == {"send", "check", "pollFetch"}
Settling == {"reverse", "reverseTx", "complete"}

\* What a handler that stands at pc knows of its withdrawal w.
Agrees(pc, w, ref) ==
  /\ pc \in InitiatePcs => Untouched(w)
  /\ pc \in {"resendRead", "verReadRow", "pollRead"} => AtRest(w)
  /\ pc \in Waiting => row[w].status = "pending_otp" /\ Untouched(w)
  /\ pc = "disburse" =>
       row[w].status = "pending_otp" /\ Taken(w) /\ payouts[w] = <<>>
  /\ pc \in Paying => row[w].status = "processing" /\ Minted(w) /\ ref = 1
  /\ pc \in Settling => row[w].status \in {"pending_otp", "processing"} /\ Taken(w)
  /\ pc = "failRow" => row[w].status \in {"pending_otp", "processing"} /\ Returned(w)
CallAgrees(r) == Agrees(req[r].pc, req[r].w, req[r].ref)

OneAtATime ==
  \A x, y \in Requests : req[x].w # None /\ req[x].w = req[y].w => x = y

SerialInv ==
  /\ OneAtATime
  /\ \A r \in Requests : CallAgrees(r)
  /\ \A w \in WithdrawalIds : ~Busy(w) => AtRest(w)

LEMMA SerialInit == Init => SerialInv
  BY DEF Init, SerialInv, OneAtATime, CallAgrees, Agrees, AtRest, Untouched, Idle, NoRow,
         InitiatePcs, Waiting, Paying, Settling

\* The step is about one withdrawal, the one its request is about or turns to,
\* and about no other request.
AboutOne(r, w) ==
  /\ req[r].w \in {None, w} /\ req'[r].w \in {None, w}
  /\ \A x \in Requests \ {r} :
       /\ req'[x].pc = req[x].pc /\ req'[x].w = req[x].w /\ req'[x].ref = req[x].ref
       /\ w # None => req[x].w # w
  /\ \A v \in WithdrawalIds \ {w} :
       /\ row'[v] = row[v] /\ payouts'[v] = payouts[v]
       /\ debits'[v] = debits[v] /\ reversals'[v] = reversals[v]

\* It is enough that such a step leaves its own withdrawal in agreement, with
\* the request where that goes on with it and at rest where it does not.
LEMMA SerialLocal ==
  ASSUME TypeOK, SerialInv, NEW r \in Requests, NEW w \in WithdrawalIds \cup {None},
         AboutOne(r, w), CallAgrees(r)',
         w # None /\ req'[r].w = None => AtRest(w)'
  PROVE  SerialInv'
<1>0. \A x \in Requests : /\ req[x].w \in WithdrawalIds \cup {None}
                          /\ req[x].w = None => req[x].pc \in {"idle", "creditTx"}
  BY DEF TypeOK, RequestType, RequestFields
<1>1. OneAtATime'
  BY DEF SerialInv, OneAtATime, AboutOne
<1>2. \A v \in WithdrawalIds \ {w} : AtRest(v) => AtRest(v)'
  BY DEF AboutOne, AtRest, Untouched, Taken, Minted, Returned
<1>3. ASSUME NEW x \in Requests \ {r} PROVE CallAgrees(x)'
  <2>1. CallAgrees(x)
    BY DEF SerialInv
  <2>2. CASE req[x].w = None
    BY <1>0, <2>2 DEF AboutOne, CallAgrees, Agrees, InitiatePcs, Waiting, Paying, Settling
  <2>3. CASE req[x].w \in WithdrawalIds
    <3>1. req[x].w \in WithdrawalIds \ {w} /\ req'[x].w = req[x].w
      BY <2>3 DEF AboutOne
    <3>2. /\ req'[x].pc = req[x].pc /\ req'[x].ref = req[x].ref
          /\ LET v == req[x].w
             IN  /\ row'[v] = row[v] /\ payouts'[v] = payouts[v]
                 /\ debits'[v] = debits[v] /\ reversals'[v] = reversals[v]
      BY <3>1 DEF AboutOne
    <3>. QED
      BY <1>2, <2>1, <3>1, <3>2 DEF CallAgrees, Agrees, Untouched, Taken, Minted, Returned
  <2>. QED BY <1>0, <2>2, <2>3
<1>4. ASSUME NEW v \in WithdrawalIds, ~Busy(v)' PROVE AtRest(v)'
  <2>1. CASE v = w
    BY <1>4, <2>1 DEF Busy, AboutOne
  <2>2. CASE v # w
    BY <1>2, <1>4, <2>2 DEF SerialInv, Busy, AboutOne
  <2>. QED BY <2>1, <2>2
<1>. QED BY <1>1, <1>3, <1>4 DEF SerialInv

\* The other requests stand where they stood.
OthersSame(r) ==
  \A x \in Requests \ {r} :
    req'[x].pc = req[x].pc /\ req'[x].w = req[x].w /\ req'[x].ref = req[x].ref

LEMMA BecomeSame ==
  ASSUME req \in [Requests -> RequestType], NEW r \in Requests, NEW state,
         Become(r, state)
  PROVE  req'[r] = state /\ OthersSame(r)
  BY DEF Become, OthersSame

LEMMA GoSame ==
  ASSUME req \in [Requests -> RequestType], NEW r \in Requests, NEW pc, Go(r, pc)
  PROVE  /\ req'[r].pc = pc /\ req'[r].w = req[r].w /\ req'[r].ref = req[r].ref
         /\ OthersSame(r)
  BY BecomeSame DEF Go, RequestType, RequestFields

LEMMA DoneSame ==
  ASSUME req \in [Requests -> RequestType], NEW r \in Requests, Done(r)
  PROVE  req'[r].pc = "idle" /\ req'[r].w = None /\ OthersSame(r)
  BY BecomeSame DEF Done, Idle

LEMMA CommitSame ==
  ASSUME req \in [Requests -> RequestType], NEW r \in Requests, NEW state,
         CommitThen(r, state)
  PROVE  req'[r] = state /\ OthersSame(r)
<1>1. \A x \in Requests \ {r} :
        req'[x] = req[x] \/ req'[x] = [req[x] EXCEPT !.stale = SnapshotIsolation]
  BY DEF CommitThen
<1>2. \A q \in RequestType : LET p == [q EXCEPT !.stale = SnapshotIsolation]
                             IN  p.pc = q.pc /\ p.w = q.w /\ p.ref = q.ref
  BY DEF RequestType, RequestFields
<1>. QED BY <1>1, <1>2 DEF CommitThen, OthersSame

\* A step of r that keeps to its own withdrawal.
LEMMA OwnStep ==
  ASSUME TypeOK, SerialInv, NEW r \in Requests, NEW w \in WithdrawalIds,
         req[r].w = w, OthersSame(r), req'[r].w \in {None, w},
         \A v \in WithdrawalIds \ {w} :
           /\ row'[v] = row[v] /\ payouts'[v] = payouts[v]
           /\ debits'[v] = debits[v] /\ reversals'[v] = reversals[v],
         CallAgrees(r)', req'[r].w = None => AtRest(w)'
  PROVE  SerialInv'
<1>1. \A x \in Requests \ {r} : req[x].w # w
  BY NoneAssumption DEF SerialInv, OneAtATime
<1>2. AboutOne(r, w)
  BY <1>1 DEF AboutOne, OthersSame
<1>. QED BY <1>2, SerialLocal

AgreeSame == UNCHANGED <<row, debits, reversals, payouts>>

LEMMA GoesOn ==
  ASSUME TypeOK, SerialInv, NEW r \in Requests, req[r].w \in WithdrawalIds,
         AgreeSame, NEW pc, Go(r, pc), Agrees(pc, req[r].w, req[r].ref)
  PROVE  SerialInv'
<1>1. /\ req'[r].pc = pc /\ req'[r].w = req[r].w /\ req'[r].ref = req[r].ref
      /\ OthersSame(r)
  BY GoSame DEF TypeOK
<1>2. CallAgrees(r)'
  BY <1>1 DEF CallAgrees, AgreeSame, Agrees, AtRest, Untouched, Taken, Minted, Returned
<1>. QED BY <1>1, <1>2, OwnStep, NoneAssumption DEF AgreeSame

LEMMA TurnsTo ==
  ASSUME TypeOK, SerialInv, NEW r \in Requests, req[r].w \in WithdrawalIds,
         AgreeSame, NEW q, Become(r, q), q.w = req[r].w, Agrees(q.pc, q.w, q.ref)
  PROVE  SerialInv'
<1>1. req'[r] = q /\ OthersSame(r)
  BY BecomeSame DEF TypeOK
<1>2. CallAgrees(r)'
  BY <1>1 DEF CallAgrees, AgreeSame, Agrees, AtRest, Untouched, Taken, Minted, Returned
<1>. QED BY <1>1, <1>2, OwnStep, NoneAssumption DEF AgreeSame

LEMMA Ends ==
  ASSUME TypeOK, SerialInv, NEW r \in Requests, NEW w \in WithdrawalIds,
         req[r].w = w, AgreeSame, Done(r), AtRest(w)
  PROVE  SerialInv'
<1>1. req'[r].pc = "idle" /\ req'[r].w = None /\ OthersSame(r)
  BY DoneSame DEF TypeOK
<1>2. CallAgrees(r)'
  BY <1>1 DEF CallAgrees, Agrees, InitiatePcs, Waiting, Paying, Settling
<1>3. AtRest(w)'
  BY DEF AgreeSame, AtRest, Untouched, Taken, Minted, Returned
<1>. QED BY <1>1, <1>2, <1>3, OwnStep DEF AgreeSame

LEMMA Starts ==
  ASSUME TypeOK, SerialInv, NEW r \in Requests, req[r].w = None,
         AgreeSame, NEW q, Become(r, q), q.w \in WithdrawalIds, ~Busy(q.w),
         Agrees(q.pc, q.w, q.ref)
  PROVE  SerialInv'
<1>1. req'[r] = q /\ OthersSame(r)
  BY BecomeSame DEF TypeOK
<1>2. CallAgrees(r)'
  BY <1>1 DEF CallAgrees, AgreeSame, Agrees, AtRest, Untouched, Taken, Minted, Returned
<1>3. AboutOne(r, q.w)
  BY <1>1 DEF AboutOne, OthersSame, AgreeSame, Busy
<1>. QED BY <1>1, <1>2, <1>3, SerialLocal, NoneAssumption
----------------------------------------------------------------------------
(***************************************************************************)
(* The steps, handler by handler.                                          *)
(***************************************************************************)
Serially == OneRequestPerWithdrawal /\ ~RequestsMayFail /\ ~SnapshotIsolation

LEMMA SerialStart ==
  ASSUME Serially, TypeOK, SerialInv, NEW r \in Requests, Start(r)
  PROVE  SerialInv'
<1>0. /\ req[r].pc = "idle" /\ UNCHANGED <<db, payouts>>
      /\ req[r].w = None /\ req \in [Requests -> RequestType]
      /\ AgreeSame
  BY DEF Start, StartInitiate, StartResend, StartVerify, BeginCredit, StartPoll,
         TypeOK, RequestType, AgreeSame, db
<1>a. \A w \in WithdrawalIds : MayStart(w) => ~Busy(w) /\ AtRest(w)
  BY DEF MayStart, Serially, SerialInv
<1>b. \A w : \A pc \in {"resendRead", "verReadRow", "pollRead"} :
        AtRest(w) => Agrees(pc, w, 0)
  BY DEF Agrees, InitiatePcs, Waiting, Paying, Settling
<1>1. CASE StartInitiate(r)
  <2>1. PICK w \in WithdrawalIds \ Created, e \in Events, g \in Amounts,
             k \in Keys \cup {None} :
          /\ ~Busy(w)
          /\ Become(r, [Idle EXCEPT !.pc = "initWallet", !.w = w, !.event = e,
                                    !.gross = g, !.key = k])
    BY <1>1 DEF StartInitiate
  <2>. DEFINE q == [Idle EXCEPT !.pc = "initWallet", !.w = w, !.event = e,
                                !.gross = g, !.key = k]
  <2>2. q.pc = "initWallet" /\ q.w = w
    BY DEF Idle
  <2>3. Agrees("initWallet", w, q.ref)
    BY <2>1 DEF SerialInv, AtRest, Created, Agrees, InitiatePcs, Waiting, Paying, Settling
  <2>4. Become(r, q)
    BY <2>1
  <2>. HIDE DEF q
  <2>. QED BY <1>0, <2>1, <2>2, <2>3, <2>4, Starts
<1>2. CASE StartResend(r)
  <2>1. PICK w \in WithdrawalIds : MayStart(w) /\ Become(r, At("resendRead", w))
    BY <1>2 DEF StartResend
  <2>2. LET q == At("resendRead", w) IN q.pc = "resendRead" /\ q.w = w /\ q.ref = 0
    BY DEF At, Idle
  <2>. QED BY <1>0, <1>a, <1>b, <2>1, <2>2, Starts
<1>3. CASE StartVerify(r)
  <2>1. PICK w \in WithdrawalIds : MayStart(w) /\ \E code \in 0..otp[w].n :
          Become(r, [At("verReadRow", w) EXCEPT !.code = code])
    BY <1>3 DEF StartVerify
  <2>2. PICK code : Become(r, [At("verReadRow", w) EXCEPT !.code = code])
    BY <2>1
  <2>3. LET q == [At("verReadRow", w) EXCEPT !.code = code]
        IN  q.pc = "verReadRow" /\ q.w = w /\ q.ref = 0
    BY DEF At, Idle
  <2>. QED BY <1>0, <1>a, <1>b, <2>1, <2>2, <2>3, Starts, ZenonT(60)
<1>4. CASE BeginCredit(r)
  <2>1. PICK e \in Events, c \in Contributions :
          Begin(r, [Idle EXCEPT !.event = e, !.gross = c], "creditTx")
    BY <1>4 DEF BeginCredit
  <2>. DEFINE q == [[Idle EXCEPT !.event = e, !.gross = c]
                      EXCEPT !.pc = "creditTx", !.snap = wallet]
  <2>2. q.pc = "creditTx" /\ q.w = None
    BY DEF Idle
  <2>3. Become(r, q)
    BY <2>1 DEF Begin
  <2>. HIDE DEF q
  <2>4. req'[r].pc = "creditTx" /\ req'[r].w = None /\ OthersSame(r)
    BY <1>0, <2>2, <2>3, BecomeSame
  <2>5. CallAgrees(r)'
    BY <2>4 DEF CallAgrees, Agrees, InitiatePcs, Waiting, Paying, Settling
  <2>6. AboutOne(r, None)
    BY <1>0, <2>4 DEF AboutOne, OthersSame, AgreeSame
  <2>. QED BY <2>5, <2>6, SerialLocal
<1>5. ASSUME NEW w \in WithdrawalIds, StartPoll(r, w) PROVE SerialInv'
  <2>1. LET q == At("pollRead", w) IN q.pc = "pollRead" /\ q.w = w /\ q.ref = 0
    BY DEF At, Idle
  <2>. QED BY <1>0, <1>5, <1>a, <1>b, <2>1, Starts DEF StartPoll
<1>. QED BY <1>1, <1>2, <1>3, <1>4, <1>5 DEF Start

\* What is known of the withdrawal r is about, and the sets that program
\* counters outside initiate are in.
LEMMA OwnFacts ==
  ASSUME TypeOK, SerialInv, NEW r \in Requests, req[r].pc \in WithdrawalPcs
  PROVE  /\ req[r].w \in WithdrawalIds /\ req[r] \in RequestType
         /\ row \in [WithdrawalIds -> RowType] /\ req \in [Requests -> RequestType]
         /\ debits \in [WithdrawalIds -> Nat] /\ reversals \in [WithdrawalIds -> Nat]
         /\ payouts \in [WithdrawalIds -> Seq(PayoutStates)]
         /\ Agrees(req[r].pc, req[r].w, req[r].ref)
  BY RequestFacts DEF TypeOK, SerialInv, CallAgrees

LEMMA SerialInitiate ==
  ASSUME TypeOK, Owned, SerialInv, NEW r \in Requests,
         \/ InitWallet(r) \/ InitKey(r) \/ InitTracked(r) \/ InitAvail(r)
         \/ InitInsert(r) \/ SendOtp(r) \/ ResendRead(r)
  PROVE  SerialInv'
<1>. DEFINE w == req[r].w
<1>0. /\ w \in WithdrawalIds /\ req[r] \in RequestType
      /\ row \in [WithdrawalIds -> RowType] /\ req \in [Requests -> RequestType]
      /\ Agrees(req[r].pc, w, req[r].ref)
  <2>1. req[r].pc \in WithdrawalPcs
    BY DEF InitWallet, InitKey, InitTracked, InitAvail, InitInsert, SendOtp, ResendRead,
           WithdrawalPcs, Pcs
  <2>. QED BY <2>1, OwnFacts
<1>a. ~InitInsert(r) => AgreeSame
  BY DEF InitWallet, InitKey, InitTracked, InitAvail, InitInsert, SendOtp, ResendRead,
         AgreeSame, db
<1>b. req[r].pc \in InitiatePcs => Untouched(w) /\ AtRest(w) /\ row[w].status = "none"
  BY <1>0 DEF Agrees, Owned, AtRest
<1>c. \A ref : \A pc \in InitiatePcs : Untouched(w) => Agrees(pc, w, ref)
  BY DEF Agrees, InitiatePcs, Waiting, Paying, Settling
<1>1. CASE InitWallet(r) \/ InitKey(r) \/ InitAvail(r)
  <2>1. \/ Done(r)
        \/ \E pc \in InitiatePcs : Go(r, pc)
    BY <1>1 DEF InitWallet, InitKey, InitAvail, InitiatePcs
  <2>2. req[r].pc \in InitiatePcs /\ AgreeSame
    BY <1>1, <1>a DEF InitWallet, InitKey, InitAvail, InitInsert, InitiatePcs
  <2>. QED BY <1>0, <1>b, <1>c, <2>1, <2>2, GoesOn, Ends
<1>2. CASE InitTracked(r)
  <2>. DEFINE q == [req[r] EXCEPT !.pc = "initAvail",
                                  !.tracked = {row[v].event : v \in Created}]
  <2>1. q.pc = "initAvail" /\ q.w = w
    BY <1>0 DEF RequestType, RequestFields
  <2>2. Become(r, q) /\ req[r].pc \in InitiatePcs /\ AgreeSame
    BY <1>2, <1>a DEF InitTracked, InitInsert, InitiatePcs
  <2>. HIDE DEF q
  <2>3. Agrees(q.pc, q.w, q.ref)
    BY <1>b, <1>c, <2>1, <2>2 DEF InitiatePcs
  <2>. QED BY <1>0, <2>1, <2>2, <2>3, TurnsTo
<1>3. CASE InitInsert(r)
  <2>0. req[r].pc \in InitiatePcs
    BY <1>3 DEF InitInsert, InitiatePcs
  <2>1. CASE KeyUsed(req[r].key)
    <3>1. Done(r) /\ AgreeSame
      BY <1>3, <2>1 DEF InitInsert, AgreeSame
    <3>. QED BY <1>0, <1>b, <2>0, <3>1, Ends
  <2>2. CASE ~KeyUsed(req[r].key)
    <3>1. /\ Become(r, At("sendOtp", w))
          /\ UNCHANGED <<debits, reversals, payouts>>
          /\ row'[w].status = "pending_otp"
          /\ \A v \in WithdrawalIds \ {w} : row'[v] = row[v]
      BY <1>0, <1>3, <2>2 DEF InitInsert
    <3>2. req'[r].pc = "sendOtp" /\ req'[r].w = w /\ OthersSame(r)
      BY <1>0, <3>1, BecomeSame, AtFields
    <3>3. CallAgrees(r)'
      BY <1>b, <2>0, <3>1, <3>2
         DEF CallAgrees, Agrees, Untouched, InitiatePcs, Waiting, Paying, Settling
    <3>. QED BY <1>0, <3>1, <3>2, <3>3, OwnStep, NoneAssumption
  <2>. QED BY <2>1, <2>2
<1>4. CASE SendOtp(r)
  <2>1. Done(r) /\ AtRest(w)
    BY <1>0, <1>4 DEF SendOtp, Agrees, Waiting, AtRest
  <2>2. AgreeSame
    BY <1>4, <1>a DEF SendOtp, InitInsert
  <2>. QED BY <1>0, <2>1, <2>2, Ends
<1>5. CASE ResendRead(r)
  <2>1. AtRest(w) /\ AgreeSame
    BY <1>0, <1>5, <1>a DEF ResendRead, InitInsert, Agrees
  <2>2. row[w].status = "pending_otp" => Agrees("sendOtp", w, req[r].ref)
    BY <2>1 DEF AtRest, Agrees, InitiatePcs, Waiting, Paying, Settling
  <2>. QED BY <1>0, <1>5, <2>1, <2>2, GoesOn, Ends DEF ResendRead
<1>. QED BY <1>1, <1>2, <1>3, <1>4, <1>5

LEMMA SerialVerify ==
  ASSUME TypeOK, SerialInv, NEW r \in Requests,
         VerReadRow(r) \/ VerReadOtp(r) \/ VerCount(r) \/ VerAvail(r) \/ Debit(r)
  PROVE  SerialInv'
<1>. DEFINE w == req[r].w
<1>0. /\ w \in WithdrawalIds /\ req[r] \in RequestType
      /\ Agrees(req[r].pc, w, req[r].ref)
  <2>1. req[r].pc \in WithdrawalPcs
    BY DEF VerReadRow, VerReadOtp, VerCount, VerAvail, Debit, WithdrawalPcs, Pcs
  <2>. QED BY <2>1, OwnFacts
<1>a. AgreeSame
  BY DEF VerReadRow, VerReadOtp, VerCount, VerAvail, Debit, AgreeSame, db
<1>b. AtRest(w) /\ (req[r].pc # "verReadRow" => row[w].status = "pending_otp")
  BY <1>0 DEF VerReadRow, VerReadOtp, VerCount, VerAvail, Debit, Agrees, Waiting, AtRest
<1>c. row[w].status = "pending_otp" =>
        \A ref : \A pc \in Waiting \cup {"failRow"} : Agrees(pc, w, ref)
  BY <1>b DEF AtRest, Untouched, Returned, Agrees, InitiatePcs, Waiting, Paying, Settling
<1>1. CASE VerReadRow(r) \/ VerAvail(r)
  <2>1. \/ Done(r)
        \/ row[w].status = "pending_otp" /\ \E pc \in Waiting : Go(r, pc)
    BY <1>1, <1>b DEF VerReadRow, VerAvail, Waiting
  <2>. QED BY <1>0, <1>a, <1>b, <1>c, <2>1, GoesOn, Ends
<1>2. CASE VerReadOtp(r)
  <2>. DEFINE q == [req[r] EXCEPT !.pc = "verCount", !.n = otp[w].n,
                                  !.attempts = otp[w].attempts]
  <2>1. q.pc = "verCount" /\ q.w = w
    BY <1>0 DEF RequestType, RequestFields
  <2>2. Done(r) \/ Become(r, At("failRow", w)) \/ Become(r, q)
    BY <1>2 DEF VerReadOtp
  <2>3. row[w].status = "pending_otp"
    BY <1>2, <1>b DEF VerReadOtp
  <2>. HIDE DEF q
  <2>4. Agrees(q.pc, q.w, q.ref) /\ Agrees("failRow", w, At("failRow", w).ref)
    BY <1>c, <2>1, <2>3 DEF Waiting
  <2>. QED BY <1>0, <1>a, <1>b, <2>1, <2>2, <2>4, AtFields, TurnsTo, Ends
<1>3. CASE VerCount(r)
  <2>1. Done(r) \/ Become(r, At("verAvail", w))
    BY <1>3 DEF VerCount
  <2>2. Agrees("verAvail", w, At("verAvail", w).ref)
    BY <1>3, <1>b, <1>c DEF VerCount, Waiting
  <2>. QED BY <1>0, <1>a, <1>b, <2>1, <2>2, AtFields, TurnsTo, Ends
<1>4. CASE Debit(r)
  <2>. DEFINE q == [req[r] EXCEPT !.pc = "debitTx", !.snap = wallet]
  <2>1. q.pc = "debitTx" /\ q.w = w
    BY <1>0 DEF RequestType, RequestFields
  <2>2. Done(r) \/ Become(r, q)
    BY <1>4 DEF Debit, Begin
  <2>. HIDE DEF q
  <2>3. Agrees(q.pc, q.w, q.ref)
    BY <1>4, <1>b, <1>c, <2>1 DEF Debit, Waiting
  <2>. QED BY <1>0, <1>a, <1>b, <2>1, <2>2, <2>3, TurnsTo, Ends
<1>. QED BY <1>1, <1>2, <1>3, <1>4

\* A debit and a reversal go to the ledger once each; a credit to no
\* withdrawal.
LEMMA SerialCommit ==
  ASSUME Serially, TypeOK, SerialInv, NEW r \in Requests, Commits(r)
  PROVE  SerialInv'
<1>0. req \in [Requests -> RequestType] /\ ~Conflict(r)
  BY DEF TypeOK, Conflict, Serially
<1>1. CASE DebitCommit(r)
  <2>. DEFINE w == req[r].w
  <2>1. /\ w \in WithdrawalIds /\ debits \in [WithdrawalIds -> Nat]
        /\ row[w].status = "pending_otp" /\ Untouched(w)
    <3>1. req[r].pc = "debitTx"
      BY <1>1 DEF DebitCommit
    <3>2. req[r].pc \in WithdrawalPcs /\ "debitTx" \in Waiting
      BY <3>1 DEF WithdrawalPcs, Pcs, InTransaction, Waiting
    <3>. QED BY <3>1, <3>2, OwnFacts DEF Agrees
  <2>2. /\ CommitThen(r, At("disburse", w))
        /\ debits' = [debits EXCEPT ![w] = @ + 1]
        /\ UNCHANGED <<row, reversals, payouts>>
    BY <1>0, <1>1 DEF DebitCommit
  <2>3. req'[r].pc = "disburse" /\ req'[r].w = w /\ OthersSame(r)
    BY <1>0, <2>2, CommitSame, AtFields
  <2>4. CallAgrees(r)'
    BY <2>1, <2>2, <2>3
       DEF CallAgrees, Agrees, Untouched, Taken, InitiatePcs, Waiting, Paying, Settling
  <2>. QED BY <2>1, <2>2, <2>3, <2>4, OwnStep, NoneAssumption
<1>2. CASE ReverseCommit(r)
  <2>. DEFINE w == req[r].w
  <2>1. /\ w \in WithdrawalIds /\ reversals \in [WithdrawalIds -> Nat]
        /\ row[w].status \in {"pending_otp", "processing"} /\ Taken(w)
    <3>1. req[r].pc = "reverseTx"
      BY <1>2 DEF ReverseCommit
    <3>2. req[r].pc \in WithdrawalPcs /\ "reverseTx" \in Settling
      BY <3>1 DEF WithdrawalPcs, Pcs, InTransaction, Settling
    <3>. QED BY <3>1, <3>2, OwnFacts DEF Agrees
  <2>2. /\ CommitThen(r, At("failRow", w))
        /\ reversals' = [reversals EXCEPT ![w] = @ + 1]
        /\ UNCHANGED <<row, debits, payouts>>
    BY <1>0, <1>2 DEF ReverseCommit
  <2>3. req'[r].pc = "failRow" /\ req'[r].w = w /\ OthersSame(r)
    BY <1>0, <2>2, CommitSame, AtFields
  <2>4. CallAgrees(r)'
    BY <2>1, <2>2, <2>3
       DEF CallAgrees, Agrees, Returned, Taken, InitiatePcs, Waiting, Paying, Settling
  <2>. QED BY <2>1, <2>2, <2>3, <2>4, OwnStep, NoneAssumption
<1>3. CASE CreditCommit(r)
  <2>1. /\ CommitThen(r, Idle) /\ UNCHANGED <<row, debits, reversals, payouts>>
        /\ req[r].w = None
    BY <1>0, <1>3 DEF CreditCommit, RequestType
  <2>2. req'[r].pc = "idle" /\ req'[r].w = None /\ OthersSame(r)
    BY <1>0, <2>1, CommitSame DEF Idle
  <2>3. CallAgrees(r)'
    BY <2>2 DEF CallAgrees, Agrees, InitiatePcs, Waiting, Paying, Settling
  <2>4. AboutOne(r, None)
    BY <2>1, <2>2 DEF AboutOne, OthersSame
  <2>. QED BY <2>3, <2>4, SerialLocal
<1>. QED BY <1>1, <1>2, <1>3 DEF Commits

\* The steps of a disbursement and of a status check that only look.
LEMMA SerialLooks ==
  ASSUME Serially, TypeOK, SerialInv, NEW r \in Requests,
         \/ DisburseByBank(r) \/ DisburseUnavailable(r) \/ CheckPayout(r)
         \/ CheckError(r) \/ Reverse(r) \/ PollRead(r) \/ PollFetch(r)
         \/ PollFetchError(r) \/ RequestFails(r)
  PROVE  SerialInv'
<1>. DEFINE w == req[r].w
<1>z. ~RequestFails(r)
  BY DEF RequestFails, Serially
<1>0. /\ w \in WithdrawalIds /\ req[r] \in RequestType
      /\ Agrees(req[r].pc, w, req[r].ref)
  <2>1. req[r].pc \in WithdrawalPcs
    BY <1>z DEF DisburseByBank, DisburseUnavailable, CheckPayout, CheckError, Reverse,
                PollRead, PollFetch, PollFetchError, WithdrawalPcs, Pcs
  <2>. QED BY <2>1, OwnFacts
<1>a. AgreeSame
  BY <1>z DEF DisburseByBank, DisburseUnavailable, CheckPayout, CheckError, Reverse,
              PollRead, PollFetch, PollFetchError, AgreeSame, db
<1>b. \A ref : \A pc \in Settling :
        row[w].status \in {"pending_otp", "processing"} /\ Taken(w) => Agrees(pc, w, ref)
  BY DEF Agrees, InitiatePcs, Waiting, Paying, Settling
<1>c. \A ref : AtRest(w) => Agrees("pollRead", w, ref)
  BY DEF Agrees, InitiatePcs, Waiting, Paying, Settling
<1>1. CASE DisburseByBank(r) \/ DisburseUnavailable(r)
  <2>1. \E pc \in Settling : Go(r, pc)
    BY <1>1 DEF DisburseByBank, DisburseUnavailable, Settling
  <2>2. row[w].status = "pending_otp" /\ Taken(w)
    BY <1>0, <1>1 DEF DisburseByBank, DisburseUnavailable, Agrees
  <2>. QED BY <1>0, <1>a, <1>b, <2>1, <2>2, GoesOn
<1>2. CASE CheckPayout(r) \/ CheckError(r)
  <2>. DEFINE q == [req[r] EXCEPT !.pc = "reverse", !.afterCheck = TRUE]
  <2>1. q.pc = "reverse" /\ q.w = w
    BY <1>0 DEF RequestType, RequestFields
  <2>2. Go(r, "complete") \/ Go(r, "pollRead") \/ Become(r, q)
    BY <1>2 DEF CheckPayout, CheckError
  <2>3. row[w].status = "processing" /\ Taken(w) /\ AtRest(w)
    BY <1>0, <1>2 DEF CheckPayout, CheckError, Agrees, Paying, AtRest, Minted
  <2>. HIDE DEF q
  <2>4. Agrees(q.pc, q.w, q.ref) /\ Agrees("complete", w, req[r].ref)
    BY <1>b, <2>1, <2>3 DEF Settling
  <2>. QED BY <1>0, <1>a, <1>c, <2>1, <2>2, <2>3, <2>4, GoesOn, TurnsTo
<1>3. CASE Reverse(r)
  <2>. DEFINE q == [req[r] EXCEPT !.pc = "reverseTx", !.snap = wallet]
  <2>1. q.pc = "reverseTx" /\ q.w = w
    BY <1>0 DEF RequestType, RequestFields
  <2>2. Become(r, q)
    BY <1>3 DEF Reverse, Begin
  <2>. HIDE DEF q
  <2>3. Agrees(q.pc, q.w, q.ref)
    BY <1>0, <1>3, <1>b, <2>1 DEF Reverse, Agrees, Settling
  <2>. QED BY <1>0, <1>a, <2>1, <2>2, <2>3, TurnsTo
<1>4. CASE PollRead(r)
  <2>. DEFINE q == [At("pollFetch", w) EXCEPT !.ref = row[w].ref]
  <2>0. AtRest(w)
    BY <1>0, <1>4 DEF PollRead, Agrees
  <2>1. q.pc = "pollFetch" /\ q.w = w /\ q.ref = row[w].ref
    BY DEF At, Idle
  <2>2. \/ Done(r)
        \/ row[w].status = "processing" /\ Become(r, q)
    BY <1>4 DEF PollRead
  <2>. HIDE DEF q
  <2>3. row[w].status = "processing" => Agrees(q.pc, q.w, q.ref)
    BY <2>0, <2>1
       DEF AtRest, Minted, Agrees, InitiatePcs, Waiting, Paying, Settling
  <2>. QED BY <1>0, <1>a, <2>0, <2>1, <2>2, <2>3, TurnsTo, Ends
<1>5. CASE PollFetch(r) \/ PollFetchError(r)
  <2>1. Done(r) \/ \E pc \in Settling : Go(r, pc)
    BY <1>5 DEF PollFetch, PollFetchError, Settling
  <2>2. row[w].status = "processing" /\ Taken(w) /\ AtRest(w)
    BY <1>0, <1>5 DEF PollFetch, PollFetchError, Agrees, Paying, AtRest, Minted
  <2>. QED BY <1>0, <1>a, <1>b, <2>1, <2>2, GoesOn, Ends
<1>. QED BY <1>z, <1>1, <1>2, <1>3, <1>4, <1>5

\* Those that write the row or hand a payout to the provider.
LEMMA SerialWrites ==
  ASSUME TypeOK, SerialInv, NEW r \in Requests,
         SetProcessing(r) \/ SendPayout(r) \/ FailRow(r) \/ Complete(r)
  PROVE  SerialInv'
<1>. DEFINE w == req[r].w
<1>0. /\ w \in WithdrawalIds /\ req[r] \in RequestType
      /\ row \in [WithdrawalIds -> RowType] /\ req \in [Requests -> RequestType]
      /\ payouts \in [WithdrawalIds -> Seq(PayoutStates)]
      /\ Agrees(req[r].pc, w, req[r].ref)
  <2>1. req[r].pc \in WithdrawalPcs
    BY DEF SetProcessing, SendPayout, FailRow, Complete, WithdrawalPcs, Pcs
  <2>. QED BY <2>1, OwnFacts
<1>1. CASE SetProcessing(r)
  <2>. DEFINE q == [At("send", w) EXCEPT !.ref = 1]
  <2>1. Taken(w) /\ payouts[w] = <<>>
    BY <1>0, <1>1 DEF SetProcessing, Agrees
  <2>2. Len(payouts[w]) + 1 = 1
    BY <2>1
  <2>3. /\ payouts' = [payouts EXCEPT ![w] = Append(@, "absent")]
        /\ row' = [row EXCEPT ![w].status = "processing", ![w].ref = 1]
        /\ UNCHANGED <<debits, reversals>>
        /\ Become(r, q)
    BY <1>1, <2>2 DEF SetProcessing
  <2>4. q.pc = "send" /\ q.w = w /\ q.ref = 1
    BY DEF At, Idle
  <2>. HIDE DEF q
  <2>5. req'[r] = q /\ OthersSame(r)
    BY <1>0, <2>3, BecomeSame
  <2>6. /\ row'[w].status = "processing" /\ row'[w].ref = 1
        /\ \A v \in WithdrawalIds \ {w} : row'[v] = row[v] /\ payouts'[v] = payouts[v]
    BY <1>0, <2>3 DEF RowType
  <2>7. Len(payouts'[w]) = 1
    <3>1. payouts[w] \in Seq(PayoutStates) /\ "absent" \in PayoutStates
      BY <1>0 DEF PayoutStates
    <3>2. Len(Append(payouts[w], "absent")) = 1
      BY <2>2, <3>1, AppendProperties
    <3>. QED BY <1>0, <2>3, <3>2
  <2>8. CallAgrees(r)'
    BY <2>1, <2>3, <2>4, <2>5, <2>6, <2>7
       DEF CallAgrees, Agrees, Taken, Minted, InitiatePcs, Waiting, Paying, Settling
  <2>. QED BY <1>0, <2>3, <2>4, <2>5, <2>6, <2>8, OwnStep, NoneAssumption
<1>2. CASE SendPayout(r)
  <2>1. row[w].status = "processing" /\ Minted(w) /\ req[r].ref = 1
    BY <1>0, <1>2 DEF SendPayout, Agrees, Paying
  <2>2. PICK pc \in {"pollRead", "reverse", "check"} : Go(r, pc)
    BY <1>2 DEF SendPayout, OnSendError
  <2>3. /\ req'[r].pc = pc /\ req'[r].w = w /\ req'[r].ref = 1 /\ OthersSame(r)
    BY <1>0, <2>1, <2>2, GoSame
  <2>4. UNCHANGED <<row, debits, reversals>>
    BY <1>2 DEF SendPayout, db
  <2>5. /\ \A v \in WithdrawalIds \ {w} : payouts'[v] = payouts[v]
        /\ Len(payouts'[w]) = Len(payouts[w])
    <3>1. \/ UNCHANGED payouts
          \/ \E s \in PayoutStates : payouts' = [payouts EXCEPT ![w][req[r].ref] = s]
      BY <1>2 DEF SendPayout, PayoutStates
    <3>2. CASE UNCHANGED payouts
      BY <3>2
    <3>3. ASSUME NEW s \in PayoutStates, payouts' = [payouts EXCEPT ![w][req[r].ref] = s]
          PROVE  <2>5!:
      <4>1. Len(payouts'[w]) = Len(payouts[w])
        BY <1>0, <3>3, PayoutType
      <4>. QED BY <1>0, <3>3, <4>1
    <3>. QED BY <3>1, <3>2, <3>3
  <2>6. CallAgrees(r)'
    BY <2>1, <2>3, <2>4, <2>5
       DEF CallAgrees, Agrees, AtRest, Untouched, Returned, Taken, Minted, InitiatePcs,
           Waiting, Paying, Settling
  <2>. QED BY <1>0, <2>3, <2>4, <2>5, <2>6, OwnStep, NoneAssumption
<1>3. CASE FailRow(r) \/ Complete(r)
  <2>1. Done(r) /\ UNCHANGED <<debits, reversals, payouts>>
    BY <1>3 DEF FailRow, Complete
  <2>2. \A v \in WithdrawalIds \ {w} : row'[v] = row[v]
    BY <1>0, <1>3 DEF FailRow, Complete, SetStatus
  <2>3. \/ row'[w].status = "failed" /\ Returned(w)
        \/ row'[w].status = "completed" /\ Taken(w)
    BY <1>0, <1>3 DEF FailRow, Complete, SetStatus, Agrees, Settling, RowType
  <2>4. \A v \in WithdrawalIds : v = w => AtRest(v)'
    BY <2>1, <2>3 DEF AtRest, Returned, Taken
  <2>5. req'[r].pc = "idle" /\ req'[r].w = None /\ OthersSame(r)
    BY <1>0, <2>1, DoneSame
  <2>6. CallAgrees(r)'
    BY <2>5 DEF CallAgrees, Agrees, InitiatePcs, Waiting, Paying, Settling
  <2>. QED BY <1>0, <2>1, <2>2, <2>4, <2>5, <2>6, OwnStep
<1>. QED BY <1>1, <1>2, <1>3

LEMMA SerialStep ==
  ASSUME Serially, TypeOK, Owned, SerialInv, NEW r \in Requests, Step(r)
  PROVE  SerialInv'
  BY SerialStart, SerialInitiate, SerialVerify, SerialCommit, SerialLooks, SerialWrites
     DEF Step, Continue, Commits

\* The provider settles a payout: how many there are stays.
LEMMA SerialOutside ==
  ASSUME TypeOK, SerialInv, Outside
  PROVE  SerialInv'
<1>1. row' = row /\ debits' = debits /\ reversals' = reversals /\ req' = req
  BY DEF Outside, ExpireOtp, SettlePayout, vars, db
<1>2. \A v \in WithdrawalIds : /\ Len(payouts'[v]) = Len(payouts[v])
                               /\ payouts[v] = <<>> => payouts'[v] = <<>>
  <2>1. payouts \in [WithdrawalIds -> Seq(PayoutStates)]
    BY DEF TypeOK
  <2>2. CASE UNCHANGED payouts
    BY <2>2
  <2>3. ASSUME NEW w \in WithdrawalIds, SettlePayout(w) PROVE <1>2!:
    <3>1. PICK i \in DOMAIN payouts[w], s \in PayoutStates :
            payouts' = [payouts EXCEPT ![w][i] = s]
      BY <2>3 DEF SettlePayout, PayoutStates
    <3>2. \A v \in WithdrawalIds : /\ payouts'[v] \in Seq(PayoutStates)
                                   /\ Len(payouts'[v]) = Len(payouts[v])
      BY <2>1, <3>1, PayoutType
    <3>. QED BY <2>1, <3>2, EmptySeq
  <2>. QED BY <2>2, <2>3 DEF Outside, ExpireOtp, vars
<1>3. ASSUME NEW v \in WithdrawalIds, AtRest(v) PROVE AtRest(v)'
  <2>1. /\ Len(payouts'[v]) = Len(payouts[v])
        /\ payouts[v] = <<>> => payouts'[v] = <<>>
    BY <1>2
  <2>2. row'[v] = row[v] /\ debits'[v] = debits[v] /\ reversals'[v] = reversals[v]
    BY <1>1
  <2>. QED BY <1>3, <2>1, <2>2 DEF AtRest, Untouched, Taken, Minted, Returned
<1>4. ASSUME NEW x \in Requests PROVE CallAgrees(x)'
  <2>0. /\ req[x].w \in WithdrawalIds \cup {None}
        /\ req[x].w = None => req[x].pc \in {"idle", "creditTx"}
        /\ CallAgrees(x) /\ req' = req
    BY <1>1 DEF SerialInv, TypeOK, RequestType, RequestFields
  <2>1. CASE req[x].w = None
    BY <2>0, <2>1 DEF CallAgrees, Agrees, InitiatePcs, Waiting, Paying, Settling
  <2>2. CASE req[x].w \in WithdrawalIds
    <3>. DEFINE v == req[x].w
    <3>0. row'[v] = row[v] /\ debits'[v] = debits[v] /\ reversals'[v] = reversals[v]
      BY <1>1
    <3>1. /\ Len(payouts'[v]) = Len(payouts[v])
          /\ payouts[v] = <<>> => payouts'[v] = <<>>
      BY <1>2, <2>2
    <3>2. AtRest(v) => AtRest(v)'
      BY <1>1, <1>3, <2>2
    <3>. QED BY <2>0, <3>0, <3>1, <3>2 DEF CallAgrees, Agrees, Untouched, Taken, Minted, Returned
  <2>. QED BY <2>0, <2>1, <2>2
<1>. QED BY <1>1, <1>3, <1>4 DEF SerialInv, OneAtATime, Busy

LEMMA SerialNext ==
  Serially /\ TypeOK /\ Owned /\ SerialInv /\ [Next]_vars => SerialInv'
  BY SerialStep, SerialOutside, NextSteps

LEMMA SerialAlways ==
  ASSUME Serially
  PROVE  Spec => [](TypeOK /\ Owned /\ SerialInv)
<1>1. TypeOK /\ Owned /\ SerialInv /\ [Next]_vars => (Owned /\ SerialInv)'
  BY OwnedNext, SerialNext
<1>. QED BY <1>1, OwnedInit, SerialInit, TypeCorrect, PTL DEF Spec

\* Whatever requests about other withdrawals and credits do meanwhile, the
\* status of a withdrawal nobody is working on tells what is in its ledger.
THEOREM RowsAlwaysAgree ==
  ASSUME Serially
  PROVE  Spec => []RowAgreesWithLedger
<1>1. SerialInv => RowAgreesWithLedger
  BY DEF SerialInv, RowAgreesWithLedger, AtRest, Untouched, Minted, Taken, Returned
<1>. QED BY <1>1, SerialAlways, PTL

\* No step writes the status of a settled withdrawal again: FailRow and
\* Complete only ever find a row that waits for a code or is being processed.
THEOREM SettledAlwaysStays ==
  ASSUME Serially
  PROVE  Spec => SettledStaysSettled
<1>1. TypeOK /\ Owned /\ SerialInv /\ [Next]_vars =>
        [\A w \in WithdrawalIds : row[w].status \in {"completed", "failed"} =>
            row'[w].status = row[w].status]_vars
  <2>1. SUFFICES ASSUME TypeOK, Owned, SerialInv, [Next]_vars, NEW w \in WithdrawalIds,
                        row[w].status \in {"completed", "failed"}
                 PROVE  row'[w] = row[w]
    OBVIOUS
  <2>2. CASE Outside
    BY <2>2, OutsideKeeps
  <2>3. ASSUME NEW r \in Requests, Step(r) PROVE row'[w] = row[w]
    <3>1. CASE ~(InitInsert(r) \/ SetProcessing(r) \/ FailRow(r) \/ Complete(r))
      BY <2>3, <3>1, RowUnchanged
    <3>2. CASE InitInsert(r) \/ SetProcessing(r) \/ FailRow(r) \/ Complete(r)
      <4>1. req[r].pc \in WithdrawalPcs
        BY <3>2 DEF InitInsert, SetProcessing, FailRow, Complete, WithdrawalPcs, Pcs
      <4>2. /\ req[r].w \in WithdrawalIds /\ row \in [WithdrawalIds -> RowType]
            /\ Agrees(req[r].pc, req[r].w, req[r].ref)
        BY <2>1, <4>1, OwnFacts
      <4>3. req[r].w # w
        BY <2>1, <3>2, <4>2
           DEF InitInsert, SetProcessing, FailRow, Complete, Agrees, Settling, Owned,
               InitiatePcs
      <4>. QED
        BY <3>2, <4>2, <4>3 DEF InitInsert, SetProcessing, FailRow, Complete, SetStatus
    <3>. QED BY <3>1, <3>2
  <2>. QED BY <2>1, <2>2, <2>3, NextSteps
<1>. QED BY <1>1, SerialAlways, PTL DEF SettledStaysSettled, Spec
----------------------------------------------------------------------------
(***************************************************************************)
(* What a step can turn its request to.                                    *)
(***************************************************************************)
\* Where starting a request leads.
LEMMA StartTurns ==
  ASSUME TypeOK, NEW r \in Requests, Start(r)
  PROVE  req'[r].pc \in {"initWallet", "resendRead", "verReadRow", "pollRead", "creditTx"}
<1>0. req \in [Requests -> RequestType]
  BY DEF TypeOK
<1>1. CASE StartInitiate(r)
  <2>1. PICK w, e, g, k :
          Become(r, [Idle EXCEPT !.pc = "initWallet", !.w = w, !.event = e,
                                 !.gross = g, !.key = k])
    BY <1>1 DEF StartInitiate
  <2>. DEFINE q == [Idle EXCEPT !.pc = "initWallet", !.w = w, !.event = e,
                                !.gross = g, !.key = k]
  <2>2. q.pc = "initWallet"
    BY DEF Idle
  <2>3. Become(r, q)
    BY <2>1
  <2>. HIDE DEF q
  <2>. QED BY <1>0, <2>2, <2>3, BecomeSame
<1>2. CASE StartVerify(r)
  <2>1. PICK w, code : Become(r, [At("verReadRow", w) EXCEPT !.code = code])
    BY <1>2 DEF StartVerify
  <2>2. [At("verReadRow", w) EXCEPT !.code = code].pc = "verReadRow"
    BY DEF At, Idle
  <2>. QED BY <1>0, <2>1, <2>2, BecomeSame
<1>3. CASE BeginCredit(r)
  <2>1. PICK e, c : Begin(r, [Idle EXCEPT !.event = e, !.gross = c], "creditTx")
    BY <1>3 DEF BeginCredit
  <2>. DEFINE q == [[Idle EXCEPT !.event = e, !.gross = c]
                      EXCEPT !.pc = "creditTx", !.snap = wallet]
  <2>2. q.pc = "creditTx"
    BY DEF Idle
  <2>3. Become(r, q)
    BY <2>1 DEF Begin
  <2>. HIDE DEF q
  <2>. QED BY <1>0, <2>2, <2>3, BecomeSame
<1>4. CASE StartResend(r)
  BY <1>0, <1>4, AtFields, BecomeSame DEF StartResend
<1>5. ASSUME NEW w \in WithdrawalIds, StartPoll(r, w) PROVE req'[r].pc = "pollRead"
  BY <1>0, <1>5, AtFields, BecomeSame DEF StartPoll
<1>. QED BY <1>1, <1>2, <1>3, <1>4, <1>5 DEF Start

\* A withdrawal whose debit has been allowed, and one that is being given back.
Passing == {"debit", "debitTx"}
Refunding == {"reverse", "reverseTx"}

\* The ways a handler comes to give money back.
TurnsToRefund(r) ==
  \/ DisburseUnavailable(r)
  \/ CheckPayout(r) /\ payouts[req[r].w][req[r].ref] \in {"absent", "late", "failed"}
  \/ Reverse(r)
  \/ PollFetch(r) /\ payouts[req[r].w][req[r].ref] = "failed"

\* The steps of initiate up to its insert.
Initiates(r) == InitWallet(r) \/ InitKey(r) \/ InitTracked(r) \/ InitAvail(r)

\* All other steps lead elsewhere, but for those of verifyOtp that allow the
\* debit and the error of a payout request.
LEMMA TurnsElsewhere ==
  ASSUME TypeOK, NEW r \in Requests, Step(r),
         req'[r].pc \in Refunding \cup Passing \cup InitiatePcs \cup {"creditTx"}
  PROVE  \/ Start(r) \/ Initiates(r) \/ VerAvail(r) \/ Debit(r)
         \/ SendPayout(r) \/ TurnsToRefund(r)
<1>. DEFINE There == Refunding \cup Passing \cup InitiatePcs \cup {"creditTx"}
<1>0. req \in [Requests -> RequestType] /\ req[r] \in RequestType
      /\ There = {"reverse", "reverseTx", "debit", "debitTx", "creditTx", "initWallet",
                  "initKey", "initTracked", "initAvail", "initInsert"}
  BY DEF TypeOK, Refunding, Passing, InitiatePcs
<1>. HIDE DEF There
<1>b. req'[r].pc \in There
  BY DEF There
<1>c. \A pc : Go(r, pc) => pc \in There
  BY <1>0, <1>b, GoSame
<1>d. \A state : Become(r, state) \/ CommitThen(r, state) => state.pc \in There
  BY <1>0, <1>b, BecomeSame, CommitSame
<1>e. ~Done(r)
  BY <1>0, <1>b, DoneSame
<1>1. ~(SendOtp(r) \/ ResendRead(r))
  BY <1>0, <1>c, <1>e DEF SendOtp, ResendRead
<1>3. ~InitInsert(r)
  <2>1. InitInsert(r) => Done(r) \/ Become(r, At("sendOtp", req[r].w))
    BY DEF InitInsert
  <2>. QED BY <1>0, <1>d, <1>e, <2>1, AtFields
<1>4. ~(VerReadRow(r) \/ PollFetchError(r) \/ RequestFails(r) \/ DisburseByBank(r)
        \/ CheckError(r) \/ FailRow(r) \/ Complete(r))
  BY <1>0, <1>c, <1>e
     DEF VerReadRow, PollFetchError, RequestFails, DisburseByBank, CheckError, FailRow,
         Complete
<1>5. ~VerReadOtp(r)
  <2>. DEFINE q == [req[r] EXCEPT !.pc = "verCount", !.n = otp[req[r].w].n,
                                  !.attempts = otp[req[r].w].attempts]
  <2>1. VerReadOtp(r) => Done(r) \/ Become(r, At("failRow", req[r].w)) \/ Become(r, q)
    BY DEF VerReadOtp
  <2>2. q.pc = "verCount"
    BY <1>0 DEF RequestType, RequestFields
  <2>. HIDE DEF q
  <2>. QED BY <1>0, <1>d, <1>e, <2>1, <2>2, AtFields
<1>6. ~VerCount(r)
  <2>1. VerCount(r) => Done(r) \/ Become(r, At("verAvail", req[r].w))
    BY DEF VerCount
  <2>. QED BY <1>0, <1>d, <1>e, <2>1, AtFields
<1>8. ~Commits(r)
  <2>1. Commits(r) => \/ Done(r) \/ CommitThen(r, Idle)
                      \/ Become(r, At("pollRead", req[r].w))
                      \/ \E pc \in {"disburse", "failRow"} : CommitThen(r, At(pc, req[r].w))
    BY DEF Commits, DebitCommit, ReverseCommit, CreditCommit
  <2>2. Idle.pc = "idle"
    BY DEF Idle
  <2>. QED BY <1>0, <1>d, <1>e, <2>1, <2>2, AtFields
<1>9. ~SetProcessing(r)
  <2>. DEFINE ref == Len(payouts[req[r].w]) + 1
              q == [At("send", req[r].w) EXCEPT !.ref = ref]
  <2>1. SetProcessing(r) => Become(r, q)
    BY DEF SetProcessing
  <2>2. q.pc = "send"
    BY DEF At, Idle
  <2>. HIDE DEF q
  <2>. QED BY <1>0, <1>d, <2>1, <2>2
<1>10. ~PollRead(r)
  <2>. DEFINE q == [At("pollFetch", req[r].w) EXCEPT !.ref = row[req[r].w].ref]
  <2>1. PollRead(r) => Done(r) \/ Become(r, q)
    BY DEF PollRead
  <2>2. q.pc = "pollFetch"
    BY DEF At, Idle
  <2>. HIDE DEF q
  <2>. QED BY <1>0, <1>d, <1>e, <2>1, <2>2
<1>12. CheckPayout(r) => TurnsToRefund(r)
  BY <1>0, <1>c DEF CheckPayout, TurnsToRefund
<1>13. PollFetch(r) => TurnsToRefund(r)
  BY <1>0, <1>c, <1>e DEF PollFetch, TurnsToRefund
<1>. QED
  BY <1>1, <1>3, <1>4, <1>5, <1>6, <1>8, <1>9, <1>10, <1>12, <1>13
     DEF Step, Continue, Commits, TurnsToRefund, Initiates

\* Starting a request and the steps of initiate lead to no debit and no refund.
LEMMA InitiatesElsewhere ==
  ASSUME TypeOK, NEW r \in Requests, Start(r) \/ Initiates(r)
  PROVE  req'[r].pc \notin Refunding \cup Passing
<1>0. req \in [Requests -> RequestType] /\ req[r] \in RequestType
      /\ Refunding \cup Passing = {"reverse", "reverseTx", "debit", "debitTx"}
  BY DEF TypeOK, Refunding, Passing
<1>1. CASE Start(r)
  BY <1>0, <1>1, StartTurns
<1>2. CASE InitWallet(r) \/ InitKey(r) \/ InitAvail(r)
  <2>1. Done(r) \/ Go(r, "initKey") \/ Go(r, "initTracked") \/ Go(r, "initInsert")
    BY <1>2 DEF InitWallet, InitKey, InitAvail
  <2>. QED BY <1>0, <2>1, GoSame, DoneSame
<1>3. CASE InitTracked(r)
  <2>. DEFINE q == [req[r] EXCEPT !.pc = "initAvail",
                                  !.tracked = {row[w].event : w \in Created}]
  <2>1. Become(r, q) /\ q.pc = "initAvail"
    BY <1>0, <1>3 DEF InitTracked, RequestType, RequestFields
  <2>. HIDE DEF q
  <2>. QED BY <1>0, <2>1, BecomeSame
<1>. QED BY <1>1, <1>2, <1>3 DEF Initiates

----------------------------------------------------------------------------
(***************************************************************************)
(* Given back and never paid.  Only a payout the provider does not know or *)
(* has failed is given up, and such a payout stays as it is: nothing       *)
(* arrives late, and the one request about the withdrawal has sent it      *)
(* already.  MTN MoMo's error path looks nothing up, so it is left out.    *)
(***************************************************************************)
Dead(w) == \A i \in DOMAIN payouts[w] : payouts[w][i] \in {"absent", "failed"}

RefundInv ==
  /\ \A w \in WithdrawalIds : \A i \in DOMAIN payouts[w] : payouts[w][i] # "late"
  /\ \A w \in WithdrawalIds : reversals[w] > 0 => Dead(w)
  /\ \A r \in Requests : req[r].pc \in Refunding => Dead(req[r].w)

LooksBeforeRefund ==
  Serially /\ ~RequestsArriveLate /\ \A w \in WithdrawalIds : Rail[w] # "momo"

LEMMA PayoutsUnchanged ==
  ASSUME NEW r \in Requests, Step(r), ~SetProcessing(r), ~SendPayout(r)
  PROVE  payouts' = payouts
  BY DEF Step, Start, Continue, RequestFails, StartInitiate, StartResend, StartVerify,
         BeginCredit, StartPoll, InitWallet, InitKey, InitTracked, InitAvail, InitInsert,
         SendOtp, ResendRead, VerReadRow, VerReadOtp, VerCount, VerAvail, Debit,
         DebitCommit, DisburseByBank, DisburseUnavailable, CheckPayout, CheckError,
         Reverse, ReverseCommit, FailRow, Complete, PollRead, PollFetch, PollFetchError,
         CreditCommit

LEMMA ReversalsUnchanged ==
  ASSUME NEW r \in Requests, Step(r), ~ReverseCommit(r)
  PROVE  reversals' = reversals
  BY DEF Step, Start, Continue, RequestFails, StartInitiate, StartResend, StartVerify,
         BeginCredit, StartPoll, InitWallet, InitKey, InitTracked, InitAvail, InitInsert,
         SendOtp, ResendRead, VerReadRow, VerReadOtp, VerCount, VerAvail, Debit,
         DebitCommit, DisburseByBank, DisburseUnavailable, SetProcessing, SendPayout,
         CheckPayout, CheckError, Reverse, FailRow, Complete, PollRead, PollFetch,
         PollFetchError, CreditCommit, db

LEMMA TurnsToRefundOnly ==
  ASSUME LooksBeforeRefund, TypeOK, NEW r \in Requests, Step(r),
         req'[r].pc \in Refunding
  PROVE  TurnsToRefund(r)
<1>0. req \in [Requests -> RequestType] /\ req[r] \in RequestType
      /\ Refunding = {"reverse", "reverseTx"}
  BY DEF TypeOK, Refunding
<1>c. \A pc : Go(r, pc) => pc \in Refunding
  BY <1>0, GoSame
<1>e. ~Done(r)
  BY <1>0, DoneSame
<1>1. ~VerAvail(r)
  BY <1>0, <1>c, <1>e DEF VerAvail
<1>2. ~Debit(r)
  <2>. DEFINE q == [req[r] EXCEPT !.pc = "debitTx", !.snap = wallet]
  <2>1. Debit(r) => Done(r) \/ Become(r, q)
    BY DEF Debit, Begin
  <2>2. q.pc = "debitTx"
    BY <1>0 DEF RequestType, RequestFields
  <2>. HIDE DEF q
  <2>. QED BY <1>0, <1>e, <2>1, <2>2, BecomeSame
<1>3. ~SendPayout(r)
  <2>1. SendPayout(r) => Go(r, "pollRead") \/ Go(r, "check")
    <3>1. req[r].pc = "send" => req[r].w \in WithdrawalIds
      BY RequestFacts DEF WithdrawalPcs, Pcs
    <3>. QED BY <3>1 DEF SendPayout, OnSendError, LooksBeforeRefund
  <2>. QED BY <1>0, <1>c, <2>1
<1>. QED BY <1>1, <1>2, <1>3, InitiatesElsewhere, TurnsElsewhere

LEMMA RefundTurn ==
  ASSUME LooksBeforeRefund, TypeOK, SerialInv, RefundInv, NEW r \in Requests,
         TurnsToRefund(r), req'[r].pc \in Refunding
  PROVE  /\ req[r].w \in WithdrawalIds /\ Dead(req[r].w)
         /\ req'[r].w = req[r].w
<1>. DEFINE w == req[r].w
<1>0. req[r].pc \in WithdrawalPcs
  BY DEF TurnsToRefund, DisburseUnavailable, CheckPayout, Reverse, PollFetch,
         WithdrawalPcs, Pcs
<1>1. /\ w \in WithdrawalIds /\ Agrees(req[r].pc, w, req[r].ref)
      /\ req[r] \in RequestType /\ req \in [Requests -> RequestType]
  BY <1>0, OwnFacts
<1>2. CASE DisburseUnavailable(r)
  BY <1>1, <1>2, GoSame DEF DisburseUnavailable, Agrees, Dead
<1>3. CASE Reverse(r)
  <2>. DEFINE q == [req[r] EXCEPT !.pc = "reverseTx", !.snap = wallet]
  <2>1. q.w = w /\ Become(r, q)
    BY <1>1, <1>3 DEF RequestType, RequestFields, Reverse, Begin
  <2>. HIDE DEF q
  <2>2. req'[r].w = w
    BY <1>1, <2>1, BecomeSame
  <2>. QED BY <1>1, <1>3, <2>2 DEF Reverse, RefundInv, Refunding
<1>4. CASE /\ CheckPayout(r) \/ PollFetch(r)
           /\ payouts[w][req[r].ref] \in {"absent", "late", "failed"}
  <2>1. Len(payouts[w]) = 1 /\ req[r].ref = 1
    BY <1>1, <1>4 DEF CheckPayout, PollFetch, Agrees, Paying, Minted
  <2>2. DOMAIN payouts[w] = {1}
    <3>1. payouts[w] \in Seq(PayoutStates)
      BY <1>1 DEF TypeOK
    <3>2. DOMAIN payouts[w] = 1..Len(payouts[w])
      BY <3>1
    <3>. QED BY <2>1, <3>2
  <2>3. payouts[w][1] \in {"absent", "failed"}
    BY <1>1, <1>4, <2>1, <2>2 DEF RefundInv
  <2>. DEFINE q == [req[r] EXCEPT !.pc = "reverse", !.afterCheck = TRUE]
  <2>4. Done(r) \/ (\E pc : Go(r, pc)) \/ Become(r, q)
    BY <1>4 DEF CheckPayout, PollFetch
  <2>5. q.w = w
    BY <1>1 DEF RequestType, RequestFields
  <2>6. ~Done(r)
    BY <1>1, DoneSame DEF Refunding
  <2>. HIDE DEF q
  <2>7. req'[r].w = w
    BY <1>1, <2>4, <2>5, <2>6, GoSame, BecomeSame
  <2>. QED BY <1>1, <2>2, <2>3, <2>7 DEF Dead
<1>. QED BY <1>2, <1>3, <1>4 DEF TurnsToRefund

\* Minting a payout id and sending it are for a withdrawal that is not given
\* back, and end with the request elsewhere than at giving it back.
LEMMA PayoutWritten ==
  ASSUME LooksBeforeRefund, TypeOK, SerialInv, NEW r \in Requests,
         NEW w \in WithdrawalIds, w = req[r].w, SetProcessing(r) \/ SendPayout(r), RefundInv
  PROVE  /\ reversals' = reversals /\ reversals[w] = 0
         /\ \A v \in WithdrawalIds \ {w} : payouts'[v] = payouts[v]
         /\ \A i \in DOMAIN payouts'[w] : payouts'[w][i] # "late"
         /\ req'[r].pc \notin Refunding
<1>0. req[r].pc \in WithdrawalPcs
  BY DEF SetProcessing, SendPayout, WithdrawalPcs, Pcs
<1>1. /\ Agrees(req[r].pc, w, req[r].ref)
      /\ req[r] \in RequestType /\ req \in [Requests -> RequestType]
      /\ payouts \in [WithdrawalIds -> Seq(PayoutStates)]
  BY <1>0, OwnFacts
<1>2. CASE SetProcessing(r)
  <2>1. /\ payouts' = [payouts EXCEPT ![w] = Append(@, "absent")]
        /\ reversals' = reversals
    BY <1>2 DEF SetProcessing
  <2>2. payouts[w] = <<>> /\ reversals[w] = 0
    BY <1>1, <1>2 DEF SetProcessing, Agrees, Taken
  <2>3. payouts'[w] = <<"absent">>
    BY <1>1, <2>1, <2>2
  <2>4. \A ref : [At("send", w) EXCEPT !.ref = ref].pc = "send"
    BY DEF At, Idle
  <2>5. \E ref : Become(r, [At("send", w) EXCEPT !.ref = ref])
    BY <1>2 DEF SetProcessing
  <2>6. req'[r].pc \notin Refunding
    BY <1>1, <2>4, <2>5, BecomeSame DEF Refunding
  <2>. QED BY <1>1, <2>1, <2>2, <2>3, <2>6
<1>3. CASE SendPayout(r)
  <2>1. /\ \/ payouts' = payouts
           \/ payouts' = [payouts EXCEPT ![w][req[r].ref] = "pending"]
        /\ reversals' = reversals
        /\ Go(r, "pollRead") \/ Go(r, "check")
    BY <1>3 DEF SendPayout, OnSendError, LooksBeforeRefund, db
  <2>2. reversals[w] = 0
    BY <1>1, <1>3 DEF SendPayout, Agrees, Paying, Minted, Taken
  <2>3. req'[r].pc \notin Refunding
    BY <1>1, <2>1, GoSame DEF Refunding
  <2>4. \A i \in DOMAIN payouts'[w] : payouts'[w][i] # "late"
    BY <1>1, <2>1 DEF RefundInv
  <2>. QED BY <1>1, <2>1, <2>2, <2>3, <2>4
<1>. QED BY <1>2, <1>3

LEMMA RefundStep ==
  ASSUME LooksBeforeRefund, TypeOK, Owned, SerialInv, RefundInv, NEW r \in Requests,
         Step(r)
  PROVE  RefundInv'
<1>0. /\ payouts \in [WithdrawalIds -> Seq(PayoutStates)]
      /\ reversals \in [WithdrawalIds -> Nat]
      /\ \A x \in Requests : req[x].pc \in Refunding => req[x].w \in WithdrawalIds
  BY RequestFacts DEF TypeOK, Refunding, WithdrawalPcs, Pcs, InTransaction
<1>a. OthersKeep(r)
  BY StepEffects, CommitsEffects DEF Effects, CommitEffects
<1>1. CASE SetProcessing(r) \/ SendPayout(r)
  <2>. DEFINE w == req[r].w
  <2>1. w \in WithdrawalIds
    BY <1>1, RequestFacts DEF SetProcessing, SendPayout, WithdrawalPcs, Pcs
  <2>2. /\ reversals' = reversals /\ reversals[w] = 0
        /\ \A v \in WithdrawalIds \ {w} : payouts'[v] = payouts[v]
        /\ \A i \in DOMAIN payouts'[w] : payouts'[w][i] # "late"
        /\ req'[r].pc \notin Refunding
    BY <1>1, <2>1, PayoutWritten
  <2>3. \A x \in Requests \ {r} : req[x].w # w
    BY <2>1, NoneAssumption DEF SerialInv, OneAtATime
  <2>4. ASSUME NEW v \in WithdrawalIds, reversals'[v] > 0 PROVE Dead(v)'
    BY <2>2, <2>4 DEF RefundInv, Dead
  <2>5. ASSUME NEW x \in Requests, req'[x].pc \in Refunding
        PROVE  \A i \in DOMAIN payouts'[req'[x].w] :
                 payouts'[req'[x].w][i] \in {"absent", "failed"}
    <3>1. /\ req'[x].w = req[x].w /\ req[x].pc \in Refunding
          /\ req[x].w \in WithdrawalIds \ {w}
      BY <1>0, <1>a, <2>2, <2>3, <2>5 DEF OthersKeep
    <3>. QED BY <2>2, <3>1 DEF RefundInv, Dead
  <2>6. \A v \in WithdrawalIds : \A i \in DOMAIN payouts'[v] : payouts'[v][i] # "late"
    BY <2>1, <2>2 DEF RefundInv
  <2>. QED BY <2>4, <2>5, <2>6 DEF RefundInv, Dead
<1>2. CASE ~(SetProcessing(r) \/ SendPayout(r))
  <2>1. payouts' = payouts
    BY <1>2, PayoutsUnchanged
  <2>2. ASSUME NEW v \in WithdrawalIds, reversals'[v] > 0 PROVE Dead(v)
    <3>1. CASE ReverseCommit(r) /\ v = req[r].w
      BY <3>1 DEF ReverseCommit, RefundInv, Refunding
    <3>2. CASE ~(ReverseCommit(r) /\ v = req[r].w)
      <4>1. reversals'[v] = reversals[v]
        BY <1>0, <3>2, ReversalsUnchanged DEF ReverseCommit
      <4>. QED BY <2>2, <4>1 DEF RefundInv
    <3>. QED BY <3>1, <3>2
  <2>3. ASSUME NEW x \in Requests, req'[x].pc \in Refunding
        PROVE  req'[x].w = req[x].w /\ Dead(req[x].w)
    <3>1. CASE x = r
      BY <2>3, <3>1, TurnsToRefundOnly, RefundTurn
    <3>2. CASE x # r
      BY <1>a, <2>3, <3>2 DEF OthersKeep, RefundInv
    <3>. QED BY <3>1, <3>2
  <2>. QED BY <2>1, <2>2, <2>3, SMTT(30) DEF RefundInv, Dead
<1>. QED BY <1>1, <1>2

\* The provider settles what it accepted: no payout that was given up.
LEMMA RefundOutside ==
  ASSUME TypeOK, RefundInv, Outside
  PROVE  RefundInv'
<1>1. reversals' = reversals /\ req' = req
  BY DEF Outside, ExpireOtp, SettlePayout, vars, db
<1>2. CASE payouts' = payouts
  BY <1>1, <1>2 DEF RefundInv, Dead
<1>3. ASSUME NEW w \in WithdrawalIds, SettlePayout(w) PROVE RefundInv'
  <2>1. PICK i \in DOMAIN payouts[w], s \in {"pending", "success", "failed"} :
          /\ payouts[w][i] = IF s = "pending" THEN "late" ELSE "pending"
          /\ payouts' = [payouts EXCEPT ![w][i] = s]
    BY <1>3 DEF SettlePayout
  <2>2. payouts \in [WithdrawalIds -> Seq(PayoutStates)] /\ ~Dead(w)
    BY <2>1 DEF TypeOK, Dead
  <2>3. /\ \A v \in WithdrawalIds \ {w} : payouts'[v] = payouts[v]
        /\ payouts'[w] = [payouts[w] EXCEPT ![i] = s]
    BY <2>1, <2>2
  <2>4. \A v \in WithdrawalIds : \A j \in DOMAIN payouts'[v] : payouts'[v][j] # "late"
    BY <2>1, <2>2, <2>3 DEF RefundInv
  <2>5. \A v \in WithdrawalIds : Dead(v) => Dead(v)'
    BY <2>2, <2>3 DEF Dead
  <2>6. \A x \in Requests : req[x].pc \in Refunding => req[x].w \in WithdrawalIds
    BY RequestFacts DEF Refunding, WithdrawalPcs, Pcs, InTransaction
  <2>. QED BY <1>1, <2>4, <2>5, <2>6 DEF RefundInv
<1>. QED BY <1>2, <1>3 DEF Outside, ExpireOtp, vars

\* A withdrawal that was given back was not paid and will not be, wherever the
\* provider is looked up before the money is returned.
THEOREM NeverBoth ==
  ASSUME LooksBeforeRefund
  PROVE  Spec => []NeverPaidAndRefunded
<1>1. Init => RefundInv
  BY DEF Init, RefundInv, Idle, Refunding
<1>2. TypeOK /\ Owned /\ SerialInv /\ RefundInv /\ [Next]_vars => RefundInv'
  BY RefundStep, RefundOutside, NextSteps
<1>3. RefundInv => NeverPaidAndRefunded
  BY DEF RefundInv, Dead, NeverPaidAndRefunded
<1>4. Serially
  BY DEF LooksBeforeRefund
<1>. QED BY <1>1, <1>2, <1>3, <1>4, SerialAlways, PTL DEF Spec
----------------------------------------------------------------------------
USE IdAssumption

(***************************************************************************)
(* No event is overdrawn.  A withdrawal has a claim on its event from the  *)
(* moment verifyOtp has found the event to cover it, before anything is    *)
(* debited, and keeps it until the debit is given back.  What the claims   *)
(* add up to is covered at every moment: the check of verifyOtp counts     *)
(* every other row of the event that has not failed, and the rows with a   *)
(* claim are among those.                                                  *)
(***************************************************************************)
Passed(w) == \E r \in Requests : req[r].w = w /\ req[r].pc \in Passing
Debited(w) == debits[w] > reversals[w]
Claims(w) == Debited(w) \/ Passed(w)
ClaimOf(e) == [w \in WithdrawalIds |->
                 IF row[w].event = e /\ Claims(w) THEN row[w].gross ELSE 0]
ClaimsCovered ==
  \A e \in Events : SumFunctionOnSet(ClaimOf(e), WithdrawalIds) <= raised[e]

\* A withdrawal with a claim has been debited once at most, and its row has not
\* failed.
LEMMA ClaimFacts ==
  ASSUME TypeOK, SerialInv, NEW w \in WithdrawalIds
  PROVE  /\ debits[w] = reversals[w] \/ (debits[w] = 1 /\ reversals[w] = 0)
         /\ Debited(w) => row[w].status \in {"pending_otp", "processing", "completed"}
         /\ Passed(w) => row[w].status = "pending_otp" /\ Untouched(w)
<1>0. row[w].status \in Statuses /\ debits[w] \in Nat /\ reversals[w] \in Nat
  BY DEF TypeOK, RowType
<1>1. Passed(w) => row[w].status = "pending_otp" /\ Untouched(w)
  BY DEF SerialInv, CallAgrees, Agrees, Passed, Passing, Waiting
<1>2. CASE ~Busy(w)
  <2>1. AtRest(w)
    BY <1>2 DEF SerialInv
  <2>. QED
    BY <1>0, <1>1, <2>1
       DEF AtRest, Untouched, Minted, Taken, Returned, Debited, Statuses, WithdrawalStatuses
<1>3. CASE Busy(w)
  <2>1. PICK r \in Requests : req[r].w = w
    BY <1>3 DEF Busy
  <2>2. req[r].pc \in WithdrawalPcs
    BY <2>1 DEF TypeOK, RequestType, RequestFields, WithdrawalPcs
  <2>3. Agrees(req[r].pc, w, req[r].ref)
    BY <2>1 DEF SerialInv, CallAgrees
  <2>4. \/ Untouched(w)
        \/ AtRest(w)
        \/ row[w].status \in {"pending_otp", "processing"} /\ (Taken(w) \/ Returned(w))
    BY <2>2, <2>3
       DEF Agrees, WithdrawalPcs, Pcs, InTransaction, InitiatePcs, Waiting, Paying,
           Settling, Minted
  <2>. QED
    BY <1>0, <1>1, <2>4
       DEF AtRest, Untouched, Minted, Taken, Returned, Debited, Statuses, WithdrawalStatuses
<1>. QED BY <1>2, <1>3

\* Only the check of verifyOtp gives a withdrawal a claim.
LEMMA PassingOnly ==
  ASSUME TypeOK, NEW r \in Requests, Step(r), req'[r].pc \in Passing
  PROVE  (VerAvail(r) \/ Debit(r)) /\ req'[r].w = req[r].w
<1>0. req \in [Requests -> RequestType] /\ req[r] \in RequestType
      /\ Passing = {"debit", "debitTx"}
  BY DEF TypeOK, Passing
<1>c. \A pc : Go(r, pc) => pc \in Passing
  BY <1>0, GoSame
<1>e. ~Done(r)
  BY <1>0, DoneSame
<1>1. VerAvail(r) => req'[r].w = req[r].w
  BY <1>0, <1>e, GoSame DEF VerAvail
<1>2. Debit(r) => req'[r].w = req[r].w
  <2>. DEFINE q == [req[r] EXCEPT !.pc = "debitTx", !.snap = wallet]
  <2>1. Debit(r) => Done(r) \/ Become(r, q)
    BY DEF Debit, Begin
  <2>2. q.w = req[r].w
    BY <1>0 DEF RequestType, RequestFields
  <2>. HIDE DEF q
  <2>. QED BY <1>0, <1>e, <2>1, <2>2, BecomeSame
<1>3. ~SendPayout(r)
  BY <1>0, <1>c DEF SendPayout, OnSendError
<1>4. ~(DisburseUnavailable(r) \/ CheckPayout(r) \/ PollFetch(r))
  <2>. DEFINE q == [req[r] EXCEPT !.pc = "reverse", !.afterCheck = TRUE]
  <2>1. CheckPayout(r) => Become(r, q) \/ Go(r, "complete") \/ Go(r, "pollRead")
    BY DEF CheckPayout
  <2>2. q.pc = "reverse"
    BY <1>0 DEF RequestType, RequestFields
  <2>. HIDE DEF q
  <2>3. ~CheckPayout(r)
    BY <1>0, <1>c, <2>1, <2>2, BecomeSame
  <2>. QED BY <1>0, <1>c, <1>e, <2>3 DEF DisburseUnavailable, PollFetch
<1>5. ~Reverse(r)
  <2>. DEFINE q == [req[r] EXCEPT !.pc = "reverseTx", !.snap = wallet]
  <2>1. Reverse(r) => Become(r, q)
    BY DEF Reverse, Begin
  <2>2. q.pc = "reverseTx"
    BY <1>0 DEF RequestType, RequestFields
  <2>. HIDE DEF q
  <2>. QED BY <1>0, <2>1, <2>2, BecomeSame
<1>. QED BY <1>1, <1>2, <1>3, <1>4, <1>5, InitiatesElsewhere, TurnsElsewhere DEF TurnsToRefund

\* What the claims on an event add up to.
LEMMA ClaimType ==
  ASSUME TypeOK, NEW e
  PROVE  /\ \A w \in WithdrawalIds : ClaimOf(e)[w] \in Nat
         /\ SumFunctionOnSet(ClaimOf(e), WithdrawalIds) \in Nat
<1>1. \A w \in WithdrawalIds : ClaimOf(e)[w] \in Nat
  BY DEF ClaimOf, TypeOK, RowType
<1>. QED BY <1>1, SumNat

\* Claims that go away, on an event that raised no less, stay covered.
LEMMA ClaimsGoAway ==
  ASSUME TypeOK, TypeOK', ClaimsCovered, NEW e \in Events, raised[e] <= raised'[e],
         \A w \in WithdrawalIds : Claims(w)' /\ row'[w].event = e =>
           Claims(w) /\ row[w].event = e /\ row'[w].gross = row[w].gross
  PROVE  SumFunctionOnSet(ClaimOf(e)', WithdrawalIds) <= raised'[e]
<1>. DEFINE c == ClaimOf(e)
            d == ClaimOf(e)'
<1>2. \A w \in WithdrawalIds : c[w] \in Nat /\ d[w] \in Nat /\ d[w] <= c[w]
  BY DEF ClaimOf, TypeOK, RowType
<1>3. SumFunctionOnSet(c, WithdrawalIds) <= raised[e]
  BY DEF ClaimsCovered
<1>4. raised[e] \in Nat /\ raised'[e] \in Nat
  BY DEF TypeOK
<1>. HIDE DEF c, d
<1>5. SumFunctionOnSet(d, WithdrawalIds) <= SumFunctionOnSet(c, WithdrawalIds)
  BY <1>2, SumMonotone
<1>6. /\ SumFunctionOnSet(c, WithdrawalIds) \in Nat
      /\ SumFunctionOnSet(d, WithdrawalIds) \in Nat
  BY <1>2, SumNat
<1>. QED BY <1>3, <1>4, <1>5, <1>6 DEF d

\* An event that is tracked is charged no legacy withdrawal.
LEMMA TrackedOwesNothing ==
  ASSUME NEW e \in Events
  PROVE  AllocateLegacyFifo(LegacyPool, FifoOrder, raised, {e})[e] = 0
  BY OrderAssumption DEF AllocateLegacyFifo, Attributed

\* The check of verifyOtp counts every claim but its own.
LEMMA CheckCovers ==
  ASSUME TypeOK, SerialInv, NEW w \in WithdrawalIds, NEW e \in Events, ~Claims(w),
         NEW g \in Nat,
         ~(g > EventAvailability(e, LegacyPool, FifoOrder, raised, {e}, LinkedRows(e, {w})))
  PROVE  g = 0 \/ SumFunctionOnSet(ClaimOf(e), WithdrawalIds) + g <= raised[e]
<1>. DEFINE D == {x \in Created : row[x].event = e} \ {w}
            rows == LinkedRows(e, {w})
            gross == [i \in DOMAIN rows |-> rows[i].gross]
            A == {i \in DOMAIN rows : rows[i].status \in {"completed"}}
            B == {i \in DOMAIN rows : rows[i].status \in PendingWithdrawalStatuses}
            c == ClaimOf(e)
<1>1. D \subseteq WithdrawalIds /\ IsFiniteSet(D)
  <2>1. D \subseteq WithdrawalIds
    BY DEF Created
  <2>. QED BY <2>1, FS_Subset
<1>2. DOMAIN rows = D /\ \A i \in D : rows[i] = row[i]
  BY DEF LinkedRows
<1>3. /\ A = {i \in D : row[i].status = "completed"}
      /\ B = {i \in D : row[i].status \in {"pending_otp", "processing"}}
      /\ gross = [i \in D |-> row[i].gross]
  BY <1>2 DEF PendingWithdrawalStatuses
<1>4. EventAvailability(e, LegacyPool, FifoOrder, raised, {e}, rows) =
        ComputeAvailableToWithdraw(raised[e], SumFunctionOnSet(gross, A),
                                   SumFunctionOnSet(gross, B), 0)
  BY TrackedOwesNothing DEF EventAvailability, AggregateWithdrawalAmounts, SumGross
<1>. HIDE DEF rows, gross, A, B
<1>5. /\ A \subseteq D /\ B \subseteq D /\ A \cap B = {}
      /\ IsFiniteSet(A) /\ IsFiniteSet(B)
  <2>1. A \subseteq D /\ B \subseteq D /\ A \cap B = {}
    BY <1>3
  <2>. HIDE DEF D
  <2>. QED BY <1>1, <2>1, FS_Subset
<1>6. \A i \in WithdrawalIds : c[i] \in Nat
  BY ClaimType
<1>7. \A i \in D : gross[i] \in Nat /\ c[i] <= gross[i]
  BY <1>1, <1>3 DEF ClaimOf, TypeOK, RowType
<1>8. \A i \in WithdrawalIds \ (A \cup B) : c[i] = 0
  <2>1. SUFFICES ASSUME NEW i \in WithdrawalIds, i \notin A, i \notin B,
                        Claims(i), row[i].event = e
                 PROVE  FALSE
    BY DEF ClaimOf
  <2>2. row[i].status \in {"pending_otp", "processing", "completed"}
    BY <2>1, ClaimFacts DEF Claims
  <2>3. i \in D
    BY <2>1, <2>2 DEF Created
  <2>. QED BY <1>3, <2>1, <2>2, <2>3
<1>. HIDE DEF D, c
<1>9. SumFunctionOnSet(c, WithdrawalIds) = SumFunctionOnSet(c, A) + SumFunctionOnSet(c, B)
  <2>. DEFINE U == A \cup B
  <2>1. U \subseteq WithdrawalIds /\ IsFiniteSet(U) /\ A \subseteq U /\ U \ A = B
    BY <1>1, <1>5, FS_Union
  <2>2. \A i \in WithdrawalIds : c[i] \in Int
    BY <1>6
  <2>3. \A i \in WithdrawalIds \ U : c[i] = 0
    BY <1>8
  <2>. HIDE DEF U
  <2>4. SumFunctionOnSet(c, WithdrawalIds) = SumFunctionOnSet(c, U)
    BY <2>1, <2>2, <2>3, SumOfSome
  <2>5. SumFunctionOnSet(c, U) = SumFunctionOnSet(c, A) + SumFunctionOnSet(c, U \ A)
    BY <2>1, <2>2, SumSplit
  <2>. QED BY <2>1, <2>4, <2>5
<1>10. /\ SumFunctionOnSet(c, A) <= SumFunctionOnSet(gross, A)
       /\ SumFunctionOnSet(c, B) <= SumFunctionOnSet(gross, B)
  <2>1. \A i \in D : gross[i] \in Int /\ c[i] \in Int
    BY <1>1, <1>6, <1>7
  <2>. QED BY <1>5, <1>7, <2>1, SumMonotone
<1>11. /\ SumFunctionOnSet(c, A) \in Int /\ SumFunctionOnSet(gross, A) \in Int
       /\ SumFunctionOnSet(c, B) \in Int /\ SumFunctionOnSet(gross, B) \in Int
  <2>1. \A i \in D : gross[i] \in Int /\ c[i] \in Int
    BY <1>1, <1>6, <1>7
  <2>. QED BY <1>5, <2>1, SumType
<1>12. ~(g > ComputeAvailableToWithdraw(raised[e], SumFunctionOnSet(gross, A),
                                        SumFunctionOnSet(gross, B), 0))
  BY <1>4 DEF rows
<1>13. raised[e] \in Nat
  BY DEF TypeOK
<1>. QED
  BY <1>9, <1>10, <1>11, <1>12, <1>13 DEF ComputeAvailableToWithdraw, c

\* Only a contribution changes what an event raised.
LEMMA RaisedUnchanged ==
  ASSUME NEW r \in Requests, Step(r), ~CreditCommit(r)
  PROVE  raised' = raised
  BY DEF Step, Start, Continue, RequestFails, StartInitiate, StartResend,
         StartVerify, BeginCredit, StartPoll, InitWallet, InitKey, InitTracked, InitAvail,
         InitInsert, SendOtp, ResendRead, VerReadRow, VerReadOtp, VerCount, VerAvail,
         Debit, DebitCommit, DisburseByBank, DisburseUnavailable, SetProcessing,
         SendPayout, CheckPayout, CheckError, Reverse, ReverseCommit, FailRow, Complete,
         PollRead, PollFetch, PollFetchError, db

LEMMA RaisedGrows ==
  ASSUME TypeOK, NEW r \in Requests, Step(r), NEW e \in Events
  PROVE  raised[e] <= raised'[e]
<1>1. raised \in [Events -> Nat] /\ req[r].gross \in Nat
  BY DEF TypeOK, RequestType, RequestFields
<1>2. CASE CreditCommit(r)
  <2>1. \/ raised' = raised
        \/ raised' = [raised EXCEPT ![req[r].event] = @ + req[r].gross]
    BY <1>2 DEF CreditCommit
  <2>. QED BY <1>1, <2>1
<1>3. CASE ~CreditCommit(r)
  BY <1>1, <1>3, RaisedUnchanged
<1>. QED BY <1>2, <1>3

LEMMA DebitsUnchanged ==
  ASSUME NEW r \in Requests, Step(r), ~DebitCommit(r)
  PROVE  debits' = debits
  BY DEF Step, Start, Continue, RequestFails, StartInitiate, StartResend, StartVerify,
         BeginCredit, StartPoll, InitWallet, InitKey, InitTracked, InitAvail, InitInsert,
         SendOtp, ResendRead, VerReadRow, VerReadOtp, VerCount, VerAvail, Debit,
         DisburseByBank, DisburseUnavailable, SetProcessing, SendPayout, CheckPayout,
         CheckError, Reverse, ReverseCommit, FailRow, Complete, PollRead, PollFetch,
         PollFetchError, CreditCommit, db

\* A row that is written again keeps what it is for.
LEMMA StatusWritten ==
  ASSUME TypeOK, NEW r \in Requests, SetProcessing(r) \/ FailRow(r) \/ Complete(r)
  PROVE  \A v \in WithdrawalIds : row'[v].event = row[v].event /\ row'[v].gross = row[v].gross
<1>0. row \in [WithdrawalIds -> RowType]
  BY DEF TypeOK
<1>1. \/ \E w, s : row' = [row EXCEPT ![w].status = s]
      \/ \E w, s, ref : row' = [row EXCEPT ![w].status = s, ![w].ref = ref]
  BY DEF SetProcessing, FailRow, Complete, SetStatus
<1>2. \A q \in RowType : \A s, ref :
        /\ [q EXCEPT !.status = s].event = q.event
        /\ [q EXCEPT !.status = s].gross = q.gross
        /\ [q EXCEPT !.status = s, !.ref = ref].event = q.event
        /\ [q EXCEPT !.status = s, !.ref = ref].gross = q.gross
  BY DEF RowType
<1>3. CASE \E w, s : row' = [row EXCEPT ![w].status = s]
  BY <1>0, <1>2, <1>3
<1>4. CASE \E w, s, ref : row' = [row EXCEPT ![w].status = s, ![w].ref = ref]
  BY <1>0, <1>2, <1>4
<1>. QED BY <1>1, <1>3, <1>4

\* No step but the check of verifyOtp gives a claim, and none changes what a
\* claim is for.
LEMMA ClaimsKept ==
  ASSUME Serially, TypeOK, Owned, SerialInv, NEW r \in Requests, Step(r),
         NEW v \in WithdrawalIds, Claims(v)', ~VerAvail(r) \/ v # req[r].w
  PROVE  Claims(v) /\ row'[v].event = row[v].event /\ row'[v].gross = row[v].gross
<1>0. /\ debits \in [WithdrawalIds -> Nat] /\ reversals \in [WithdrawalIds -> Nat]
      /\ row \in [WithdrawalIds -> RowType]
      /\ OthersKeep(r)
  BY StepEffects, CommitsEffects DEF Effects, CommitEffects, TypeOK
<1>1. Passed(v)' => Passed(v)
  <2>1. SUFFICES ASSUME NEW x \in Requests, req'[x].w = v, req'[x].pc \in Passing
                 PROVE  Passed(v)
    BY DEF Passed
  <2>2. CASE x = r
    BY <2>1, <2>2, PassingOnly DEF Passed, Passing, Debit
  <2>3. CASE x # r
    BY <1>0, <2>1, <2>3 DEF OthersKeep, Passed
  <2>. QED BY <2>2, <2>3
<1>2. Debited(v)' => Claims(v)
  <2>1. reversals'[v] \in Nat /\ reversals[v] <= reversals'[v]
    <3>1. CASE ReverseCommit(r)
      <4>1. \/ reversals' = reversals
            \/ reversals' = [reversals EXCEPT ![req[r].w] = @ + 1]
        BY <3>1 DEF ReverseCommit
      <4>. QED BY <1>0, <4>1
    <3>2. CASE ~ReverseCommit(r)
      BY <1>0, <3>2, ReversalsUnchanged
    <3>. QED BY <3>1, <3>2
  <2>2. CASE DebitCommit(r) /\ v = req[r].w
    BY <2>2 DEF DebitCommit, Claims, Passed, Passing
  <2>3. CASE ~(DebitCommit(r) /\ v = req[r].w)
    <3>1. debits'[v] = debits[v]
      BY <1>0, <2>3, DebitsUnchanged DEF DebitCommit
    <3>. QED BY <1>0, <2>1, <3>1 DEF Debited, Claims
  <2>. QED BY <2>2, <2>3
<1>3. Claims(v)
  BY <1>1, <1>2 DEF Claims
<1>4. CASE InitInsert(r)
  <2>1. v # req[r].w
    <3>1. req[r].pc \in InitiatePcs
      BY <1>4 DEF InitInsert, InitiatePcs
    <3>2. row[req[r].w].status = "none"
      BY <3>1 DEF Owned
    <3>. QED BY <1>3, <3>2, ClaimFacts DEF Claims
  <2>. QED BY <1>0, <1>3, <1>4, <2>1 DEF InitInsert
<1>5. CASE SetProcessing(r) \/ FailRow(r) \/ Complete(r)
  BY <1>3, <1>5, StatusWritten
<1>6. CASE ~(InitInsert(r) \/ SetProcessing(r) \/ FailRow(r) \/ Complete(r))
  BY <1>3, <1>6, RowUnchanged
<1>. QED BY <1>4, <1>5, <1>6

\* verifyOtp lets a debit go on.
LEMMA ClaimMade ==
  ASSUME Serially, TypeOK, TypeOK', Owned, SerialInv, ClaimsCovered, NEW r \in Requests,
         VerAvail(r), NEW e \in Events, row[req[r].w].event = e, ~Done(r)
  PROVE  SumFunctionOnSet(ClaimOf(e)', WithdrawalIds) <= raised'[e]
<1>. DEFINE w == req[r].w
            c == ClaimOf(e)
            d == ClaimOf(e)'
            g == row[w].gross
<1>1. /\ w \in WithdrawalIds /\ Untouched(w) /\ g \in Nat
      /\ row' = row /\ raised' = raised /\ raised[e] \in Nat
  <2>1. req[r].pc \in WithdrawalPcs /\ req[r].pc \in Waiting
    BY DEF VerAvail, WithdrawalPcs, Pcs, Waiting
  <2>2. w \in WithdrawalIds /\ Untouched(w)
    BY <2>1, OwnFacts DEF Agrees
  <2>. QED BY <2>2 DEF VerAvail, db, TypeOK, RowType
<1>2. ~Claims(w)
  <2>1. \A x \in Requests : req[x].w = w => x = r
    BY <1>1 DEF SerialInv, OneAtATime
  <2>. QED BY <1>1, <2>1 DEF VerAvail, Passing, Claims, Passed, Debited, Untouched
<1>3. ~(g > EventAvailability(e, LegacyPool, FifoOrder, raised, {e}, LinkedRows(e, {w})))
  BY DEF VerAvail
<1>4. g = 0 \/ SumFunctionOnSet(c, WithdrawalIds) + g <= raised[e]
  BY <1>1, <1>2, <1>3, CheckCovers
<1>5. /\ \A v \in WithdrawalIds \ {w} : d[v] <= c[v]
      /\ c[w] = 0 /\ d[w] <= g
  <2>1. \A v \in WithdrawalIds \ {w} : Claims(v)' => Claims(v)
    BY ClaimsKept DEF Step, Continue
  <2>2. \A v \in WithdrawalIds : row[v].gross \in Nat
    BY DEF TypeOK, RowType
  <2>. QED BY <1>1, <1>2, <2>1, <2>2 DEF ClaimOf
<1>6. /\ \A v \in WithdrawalIds : c[v] \in Nat /\ d[v] \in Nat
      /\ SumFunctionOnSet(c, WithdrawalIds) \in Nat
  <2>1. \A v \in WithdrawalIds : d[v] \in Nat
    BY DEF ClaimOf, TypeOK, RowType
  <2>. QED BY <2>1, ClaimType
<1>. HIDE DEF c, d, g
<1>7. /\ SumFunctionOnSet(c, WithdrawalIds) =
           c[w] + SumFunctionOnSet(c, WithdrawalIds \ {w})
      /\ SumFunctionOnSet(d, WithdrawalIds) =
           d[w] + SumFunctionOnSet(d, WithdrawalIds \ {w})
  BY <1>1, <1>6, SumTakeOut
<1>8. /\ SumFunctionOnSet(d, WithdrawalIds \ {w}) <= SumFunctionOnSet(c, WithdrawalIds \ {w})
      /\ SumFunctionOnSet(d, WithdrawalIds \ {w}) \in Nat
      /\ SumFunctionOnSet(c, WithdrawalIds \ {w}) \in Nat
  <2>. DEFINE R == WithdrawalIds \ {w}
  <2>1. IsFiniteSet(R) /\ \A v \in R : c[v] \in Nat /\ d[v] \in Nat /\ d[v] <= c[v]
    BY <1>5, <1>6, FS_RemoveElement
  <2>. HIDE DEF R
  <2>2. SumFunctionOnSet(d, R) <= SumFunctionOnSet(c, R)
    BY <2>1, SumMonotone
  <2>3. SumFunctionOnSet(d, R) \in Nat /\ SumFunctionOnSet(c, R) \in Nat
    BY <2>1, SumNat
  <2>. QED BY <2>2, <2>3 DEF R
<1>9. SumFunctionOnSet(c, WithdrawalIds) <= raised[e]
  BY DEF ClaimsCovered, c
<1>10. SumFunctionOnSet(d, WithdrawalIds) <= raised[e]
  BY <1>1, <1>4, <1>5, <1>6, <1>7, <1>8, <1>9
<1>. QED BY <1>1, <1>10 DEF d

LEMMA ClaimsStep ==
  ASSUME Serially, TypeOK, TypeOK', Owned, SerialInv, ClaimsCovered,
         NEW r \in Requests, Step(r)
  PROVE  ClaimsCovered'
<1>1. SUFFICES ASSUME NEW e \in Events
               PROVE  SumFunctionOnSet(ClaimOf(e)', WithdrawalIds) <= raised'[e]
  BY DEF ClaimsCovered
<1>2. CASE VerAvail(r) /\ row[req[r].w].event = e /\ ~Done(r)
  BY <1>2, ClaimMade
<1>3. CASE VerAvail(r) /\ row[req[r].w].event # e
  <2>1. row' = row
    BY <1>3 DEF VerAvail, db
  <2>2. \A w \in WithdrawalIds : Claims(w)' /\ row'[w].event = e =>
           Claims(w) /\ row[w].event = e /\ row'[w].gross = row[w].gross
    BY <1>3, <2>1, ClaimsKept
  <2>. QED BY <2>2, RaisedGrows, ClaimsGoAway
<1>4. CASE VerAvail(r) /\ Done(r)
  <2>1. row' = row /\ debits' = debits /\ reversals' = reversals
    BY <1>4 DEF VerAvail, db
  <2>2. req'[r].w = None /\ OthersSame(r)
    BY <1>4, DoneSame DEF TypeOK
  <2>3. \A w \in WithdrawalIds : Claims(w)' => Claims(w)
    BY <2>1, <2>2 DEF Claims, Debited, Passed, OthersSame
  <2>. QED BY <2>1, <2>3, RaisedGrows, ClaimsGoAway
<1>5. CASE ~VerAvail(r)
  <2>1. \A w \in WithdrawalIds : Claims(w)' /\ row'[w].event = e =>
           Claims(w) /\ row[w].event = e /\ row'[w].gross = row[w].gross
    BY <1>5, ClaimsKept
  <2>. QED BY <2>1, RaisedGrows, ClaimsGoAway
<1>. QED BY <1>2, <1>3, <1>4, <1>5

LEMMA ClaimsNext ==
  Serially /\ TypeOK /\ TypeOK' /\ Owned /\ SerialInv /\ ClaimsCovered /\ [Next]_vars
    => ClaimsCovered'
<1>1. ASSUME TypeOK, TypeOK', ClaimsCovered, Outside PROVE ClaimsCovered'
  <2>1. UNCHANGED <<row, debits, reversals, raised, req>>
    BY <1>1 DEF Outside, ExpireOtp, SettlePayout, vars, db
  <2>2. \A e : ClaimOf(e)' = ClaimOf(e)
    BY <2>1 DEF ClaimOf, Claims, Debited, Passed
  <2>. QED BY <1>1, <2>1, <2>2 DEF ClaimsCovered
<1>. QED BY <1>1, ClaimsStep, NextSteps

LEMMA ClaimsInit == Init => ClaimsCovered
<1>. SUFFICES ASSUME Init, NEW e \in Events
              PROVE  SumFunctionOnSet(ClaimOf(e), WithdrawalIds) <= raised[e]
  BY DEF ClaimsCovered
<1>. DEFINE c == ClaimOf(e)
<1>1. \A w \in WithdrawalIds : c[w] = 0
  BY DEF Init, ClaimOf, NoRow
<1>2. raised[e] \in Nat
  BY DEF Init
<1>. HIDE DEF c
<1>3. SumFunctionOnSet(c, WithdrawalIds) = 0
  BY <1>1, SumOfZeros
<1>. QED BY <1>2, <1>3 DEF c

LEMMA ClaimsAlways ==
  ASSUME Serially
  PROVE  Spec => [](TypeOK /\ Owned /\ SerialInv /\ ClaimsCovered)
  BY ClaimsInit, ClaimsNext, SerialAlways, PTL DEF Spec

\* What is out of the wallet for an event is part of what has a claim on it.
LEMMA HeldIsClaimed ==
  ASSUME TypeOK, SerialInv, ClaimsCovered
  PROVE  EventNotOverdrawn
<1>1. SUFFICES ASSUME NEW e \in Events PROVE HeldFor(e) <= raised[e]
  BY DEF EventNotOverdrawn
<1>. DEFINE h == [w \in WithdrawalIds |-> row[w].gross * (debits[w] - reversals[w])]
            S == {w \in Created : row[w].event = e}
            c == ClaimOf(e)
<1>2. S \subseteq WithdrawalIds /\ IsFiniteSet(S)
  <2>1. S \subseteq WithdrawalIds
    BY DEF Created
  <2>. HIDE DEF S
  <2>. QED BY <2>1, FS_Subset
<1>3. ASSUME NEW w \in S PROVE h[w] \in Int /\ c[w] \in Nat /\ h[w] <= c[w]
  <2>1. w \in WithdrawalIds /\ row[w].event = e
    BY <1>2
  <2>2. row[w].gross \in Nat /\ c[w] \in Nat
    BY <2>1, ClaimType DEF TypeOK, RowType
  <2>3. CASE debits[w] = reversals[w]
    <3>1. debits[w] - reversals[w] = 0
      BY <2>1, <2>3 DEF TypeOK
    <3>2. h[w] = row[w].gross * 0
      BY <2>1, <3>1
    <3>. QED BY <2>2, <3>2
  <2>4. CASE debits[w] = 1 /\ reversals[w] = 0
    <3>1. h[w] = row[w].gross * 1 /\ c[w] = row[w].gross
      BY <2>1, <2>4 DEF ClaimOf, Claims, Debited
    <3>. QED BY <2>2, <3>1
  <2>. QED BY <2>1, <2>3, <2>4, ClaimFacts
<1>4. \A w \in WithdrawalIds : c[w] \in Nat
  BY ClaimType
<1>5. SumFunctionOnSet(c, WithdrawalIds) <= raised[e] /\ raised[e] \in Nat
  BY DEF ClaimsCovered, TypeOK
<1>6. HeldFor(e) = SumFunctionOnSet(h, S)
  BY DEF HeldFor
<1>. HIDE DEF h, S, c
<1>7. SumFunctionOnSet(h, S) <= SumFunctionOnSet(c, S)
  BY <1>2, <1>3, SumMonotone
<1>8. SumFunctionOnSet(c, S) <= SumFunctionOnSet(c, WithdrawalIds)
  BY <1>2, <1>4, SumOfMore
<1>9. /\ SumFunctionOnSet(h, S) \in Int /\ SumFunctionOnSet(c, S) \in Int
      /\ SumFunctionOnSet(c, WithdrawalIds) \in Int
  BY <1>2, <1>3, <1>4, SumType
<1>. QED BY <1>5, <1>6, <1>7, <1>8, <1>9

\* When requests about one withdrawal do not overlap, what is out of the wallet
\* for an event never exceeds what the event raised, however requests about
\* other withdrawals and contributions come in between.
THEOREM EventNeverOverdrawn ==
  ASSUME Serially
  PROVE  Spec => []EventNotOverdrawn
  BY ClaimsAlways, HeldIsClaimed, PTL

----------------------------------------------------------------------------
(***************************************************************************)
(* The handlers implement the escrow.  A row is for one of the user's      *)
(* events and for an amount that may be asked for, because the request     *)
(* that inserts it is; a credit is of a contribution.                      *)
(***************************************************************************)
Asked ==
  /\ \A r \in Requests : req[r].pc \in InitiatePcs =>
       req[r].event \in Events /\ req[r].gross \in Amounts
  /\ \A r \in Requests : req[r].pc = "creditTx" => req[r].gross \in Contributions
  /\ \A w \in WithdrawalIds : row[w].status # "none" => row[w].event \in Events

LEMMA AskedStart ==
  ASSUME TypeOK, NEW r \in Requests, Start(r)
  PROVE  /\ req'[r].pc \in InitiatePcs =>
              req'[r].event \in Events /\ req'[r].gross \in Amounts
         /\ req'[r].pc = "creditTx" => req'[r].gross \in Contributions
<1>0. req \in [Requests -> RequestType] /\ "initWallet" \in InitiatePcs
      /\ {"resendRead", "verReadRow", "pollRead", "creditTx"} \cap InitiatePcs = {}
  BY DEF TypeOK, InitiatePcs
<1>1. CASE StartInitiate(r)
  <2>1. PICK w \in WithdrawalIds \ Created, e \in Events, g \in Amounts,
             k \in Keys \cup {None} :
          Become(r, [Idle EXCEPT !.pc = "initWallet", !.w = w, !.event = e,
                                 !.gross = g, !.key = k])
    BY <1>1 DEF StartInitiate
  <2>. DEFINE q == [Idle EXCEPT !.pc = "initWallet", !.w = w, !.event = e,
                                !.gross = g, !.key = k]
  <2>2. q.pc = "initWallet" /\ q.event = e /\ q.gross = g
    BY DEF Idle
  <2>3. Become(r, q)
    BY <2>1
  <2>. HIDE DEF q
  <2>. QED BY <1>0, <2>2, <2>3, BecomeSame
<1>2. CASE StartVerify(r)
  <2>1. PICK w, code : Become(r, [At("verReadRow", w) EXCEPT !.code = code])
    BY <1>2 DEF StartVerify
  <2>2. [At("verReadRow", w) EXCEPT !.code = code].pc = "verReadRow"
    BY DEF At, Idle
  <2>. QED BY <1>0, <2>1, <2>2, BecomeSame
<1>3. CASE BeginCredit(r)
  <2>1. PICK e \in Events, c \in Contributions :
          Begin(r, [Idle EXCEPT !.event = e, !.gross = c], "creditTx")
    BY <1>3 DEF BeginCredit
  <2>. DEFINE q == [[Idle EXCEPT !.event = e, !.gross = c]
                      EXCEPT !.pc = "creditTx", !.snap = wallet]
  <2>2. q.pc = "creditTx" /\ q.gross = c
    BY DEF Idle
  <2>3. Become(r, q)
    BY <2>1 DEF Begin
  <2>. HIDE DEF q
  <2>. QED BY <1>0, <2>2, <2>3, BecomeSame
<1>4. CASE StartResend(r)
  BY <1>0, <1>4, AtFields, BecomeSame DEF StartResend
<1>5. ASSUME NEW w \in WithdrawalIds, StartPoll(r, w) PROVE req'[r].pc = "pollRead"
  BY <1>0, <1>5, AtFields, BecomeSame DEF StartPoll
<1>. QED BY <1>0, <1>1, <1>2, <1>3, <1>4, <1>5 DEF Start

LEMMA AskedRequest ==
  ASSUME TypeOK, Asked, NEW r \in Requests, Step(r)
  PROVE  /\ req'[r].pc \in InitiatePcs =>
              req'[r].event \in Events /\ req'[r].gross \in Amounts
         /\ req'[r].pc = "creditTx" => req'[r].gross \in Contributions
<1>. DEFINE Q == InitiatePcs \cup {"creditTx"}
<1>0. /\ req \in [Requests -> RequestType] /\ req[r] \in RequestType
      /\ Q = {"initWallet", "initKey", "initTracked", "initAvail", "initInsert", "creditTx"}
      /\ \A pc : Go(r, pc) => req'[r].pc = pc
      /\ Done(r) => req'[r].pc = "idle"
  BY GoSame, DoneSame DEF TypeOK, InitiatePcs
<1>1. CASE Start(r)
  BY <1>1, AskedStart
<1>2. CASE InitWallet(r) \/ InitKey(r) \/ InitAvail(r)
  <2>1. Done(r) \/ \E pc \in InitiatePcs : Go(r, pc)
    BY <1>2 DEF InitWallet, InitKey, InitAvail, InitiatePcs
  <2>2. req[r].event \in Events /\ req[r].gross \in Amounts
    BY <1>2 DEF Asked, InitWallet, InitKey, InitAvail, InitiatePcs
  <2>3. CASE Done(r)
    BY <1>0, <2>3 DEF InitiatePcs
  <2>4. ASSUME NEW pc \in InitiatePcs, Go(r, pc)
        PROVE  /\ req'[r].pc = pc /\ req'[r].event = req[r].event
               /\ req'[r].gross = req[r].gross
    BY <1>0, <2>4, BecomeSame DEF Go, RequestType, RequestFields
  <2>5. "creditTx" \notin InitiatePcs
    BY DEF InitiatePcs
  <2>. QED BY <2>1, <2>2, <2>3, <2>4, <2>5
<1>3. CASE InitTracked(r)
  <2>. DEFINE q == [req[r] EXCEPT !.pc = "initAvail",
                                  !.tracked = {row[w].event : w \in Created}]
  <2>1. /\ Become(r, q) /\ q.pc = "initAvail"
        /\ q.event = req[r].event /\ q.gross = req[r].gross
    BY <1>0, <1>3 DEF InitTracked, RequestType, RequestFields
  <2>2. req[r].event \in Events /\ req[r].gross \in Amounts
    BY <1>3 DEF Asked, InitTracked, InitiatePcs
  <2>. HIDE DEF q
  <2>. QED BY <1>0, <2>1, <2>2, BecomeSame
<1>4. CASE VerAvail(r) \/ SendPayout(r) \/ DisburseUnavailable(r) \/ PollFetch(r)
  <2>1. Done(r) \/ \E pc : Go(r, pc) /\ pc \notin Q
    BY <1>0, <1>4 DEF VerAvail, SendPayout, OnSendError, DisburseUnavailable, PollFetch
  <2>. QED BY <1>0, <2>1
<1>5. CASE Debit(r) \/ Reverse(r)
  <2>. DEFINE d == [req[r] EXCEPT !.pc = "debitTx", !.snap = wallet]
              q == [req[r] EXCEPT !.pc = "reverseTx", !.snap = wallet]
  <2>1. Done(r) \/ Become(r, d) \/ Become(r, q)
    BY <1>5 DEF Debit, Reverse, Begin
  <2>2. d.pc = "debitTx" /\ q.pc = "reverseTx"
    BY <1>0 DEF RequestType, RequestFields
  <2>. HIDE DEF d, q
  <2>. QED BY <1>0, <2>1, <2>2, BecomeSame
<1>6. CASE CheckPayout(r)
  <2>. DEFINE q == [req[r] EXCEPT !.pc = "reverse", !.afterCheck = TRUE]
  <2>1. Go(r, "complete") \/ Go(r, "pollRead") \/ Become(r, q)
    BY <1>6 DEF CheckPayout
  <2>2. q.pc = "reverse"
    BY <1>0 DEF RequestType, RequestFields
  <2>. HIDE DEF q
  <2>. QED BY <1>0, <2>1, <2>2, BecomeSame
<1>. QED
  BY <1>0, <1>1, <1>2, <1>3, <1>4, <1>5, <1>6, TurnsElsewhere DEF Initiates, TurnsToRefund

LEMMA AskedStep ==
  ASSUME TypeOK, Owned, Asked, NEW r \in Requests, Step(r)
  PROVE  Asked'
<1>1. OthersKeep(r)
  BY StepEffects, CommitsEffects DEF Effects, CommitEffects
<1>2. ASSUME NEW x \in Requests
      PROVE  /\ req'[x].pc \in InitiatePcs =>
                  req'[x].event \in Events /\ req'[x].gross \in Amounts
             /\ req'[x].pc = "creditTx" => req'[x].gross \in Contributions
  <2>1. CASE x = r
    BY <2>1, AskedRequest
  <2>2. CASE x # r
    BY <1>1, <2>2 DEF OthersKeep, Asked
  <2>. QED BY <2>1, <2>2
<1>3. ASSUME NEW v \in WithdrawalIds, row'[v].status # "none"
      PROVE  row'[v].event \in Events
  <2>0. row \in [WithdrawalIds -> RowType]
    BY DEF TypeOK
  <2>1. CASE InitInsert(r)
    <3>1. req[r].event \in Events
      BY <2>1 DEF InitInsert, Asked, InitiatePcs
    <3>. QED BY <1>3, <2>0, <2>1, <3>1 DEF InitInsert, Asked
  <2>2. CASE SetProcessing(r) \/ FailRow(r) \/ Complete(r)
    <3>1. /\ req[r].w \in WithdrawalIds => row[req[r].w].status # "none"
          /\ \A w \in WithdrawalIds : w # req[r].w => row'[w] = row[w]
      <4>1. req[r].pc \in WithdrawalPcs \ InitiatePcs
        BY <2>2 DEF SetProcessing, FailRow, Complete, WithdrawalPcs, Pcs, InitiatePcs
      <4>. QED BY <2>0, <2>2, <4>1 DEF Owned, SetProcessing, FailRow, Complete, SetStatus
    <3>2. row[v].status # "none"
      BY <1>3, <3>1
    <3>. QED BY <2>2, <3>2, StatusWritten DEF Asked
  <2>3. CASE ~(InitInsert(r) \/ SetProcessing(r) \/ FailRow(r) \/ Complete(r))
    BY <1>3, <2>3, RowUnchanged DEF Asked
  <2>. QED BY <2>1, <2>2, <2>3
<1>. QED BY <1>2, <1>3 DEF Asked

LEMMA AskedAlways ==
  ASSUME Serially
  PROVE  Spec => [](TypeOK /\ Owned /\ SerialInv /\ ClaimsCovered /\ Asked)
<1>1. Init => Asked
  BY DEF Init, Asked, Idle, NoRow, InitiatePcs
<1>2. TypeOK /\ Owned /\ Asked /\ [Next]_vars => Asked'
  <2>1. Asked /\ Outside => Asked'
    BY DEF Asked, Outside, ExpireOtp, SettlePayout, vars, db
  <2>. QED BY <2>1, AskedStep, NextSteps
<1>. QED BY <1>1, <1>2, ClaimsAlways, PTL DEF Spec

Phases == [w \in WithdrawalIds |-> EscrowPhase(w)]
Grosses == [w \in WithdrawalIds |-> row[w].gross]
Links == [w \in WithdrawalIds |-> row[w].event]

\* The step leaves every row what it is for.
LinksKeep ==
  /\ \A v \in WithdrawalIds : row'[v].event = row[v].event /\ row'[v].gross = row[v].gross
  /\ raised' = raised

LEMMA EscrowMoves ==
  ASSUME NEW w \in WithdrawalIds, NEW from, NEW to, EscrowPhase(w) = from,
         EscrowPhase(w)' = to, LinksKeep,
         \A v \in WithdrawalIds \ {w} : EscrowPhase(v)' = EscrowPhase(v)
  PROVE  Escrow!Move(w, from, to)
<1>1. Phases[w] = from
  BY DEF Phases
<1>2. Phases' = [Phases EXCEPT ![w] = to]
  BY DEF Phases
<1>3. Grosses' = Grosses /\ Links' = Links /\ raised' = raised
  BY DEF Grosses, Links, LinksKeep
<1>. QED BY <1>1, <1>2, <1>3 DEF Escrow!Move, Phases, Grosses, Links

LEMMA EscrowStays ==
  ASSUME LinksKeep, \A v \in WithdrawalIds : EscrowPhase(v)' = EscrowPhase(v)
  PROVE  UNCHANGED Escrow!evars
<1>1. Phases' = Phases /\ Grosses' = Grosses /\ Links' = Links /\ raised' = raised
  BY DEF Phases, Grosses, Links, LinksKeep
<1>. QED BY <1>1 DEF Escrow!evars, Phases, Grosses, Links

\* The sums of the escrow are those of FiniteSetFacts.
LEMMA EscrowHeld ==
  ASSUME NEW e
  PROVE  Escrow!Held(e) =
           SumFunctionOnSet(Grosses, {w \in WithdrawalIds : /\ Phases[w] \in {"held", "paid"}
                                                            /\ Links[w] = e})
  BY DEF Escrow!Held, Grosses, Phases, Links, SumFunctionOnSet, FoldFunctionOnSet,
         MapThenFoldSet, Escrow!SumFunctionOnSet, Escrow!FoldFunctionOnSet,
         Escrow!MapThenFoldSet

\* initiate opens an escrow, for an event of the user's and an amount it may ask.
LEMMA InsertOpens ==
  ASSUME TypeOK, Owned, SerialInv, Asked, NEW r \in Requests, InitInsert(r)
  PROVE  [Escrow!EscrowNext]_(Escrow!evars)
<1>a. req[r].pc \in WithdrawalPcs /\ req[r].pc \in InitiatePcs
  BY DEF InitInsert, WithdrawalPcs, Pcs, InitiatePcs
<1>b. PICK w \in WithdrawalIds : w = req[r].w
  BY <1>a, OwnFacts
<1>0. /\ row \in [WithdrawalIds -> RowType]
      /\ Untouched(w) /\ row[w].status = "none"
      /\ req[r].event \in Events /\ req[r].gross \in Amounts
  BY <1>a, <1>b, OwnFacts DEF Agrees, Owned, Asked
<1>1. UNCHANGED <<debits, reversals, raised>>
  BY DEF InitInsert
<1>2. CASE row' = row
  <2>1. \A v \in WithdrawalIds : EscrowPhase(v)' = EscrowPhase(v)
    BY <1>1, <1>2 DEF EscrowPhase
  <2>. QED BY <1>1, <1>2, <2>1, EscrowStays DEF LinksKeep
<1>3. CASE row' # row
  <2>1. row' = [row EXCEPT ![w] =
                  [status |-> "pending_otp", gross |-> req[r].gross,
                   event |-> req[r].event, key |-> req[r].key, ref |-> 0]]
    BY <1>3, <1>b DEF InitInsert
  <2>2. /\ row'[w].status = "pending_otp" /\ row'[w].gross = req[r].gross
        /\ row'[w].event = req[r].event
        /\ \A v \in WithdrawalIds \ {w} : row'[v] = row[v]
    BY <1>0, <2>1
  <2>3. EscrowPhase(w) = "none" /\ EscrowPhase(w)' = "open"
    BY <1>0, <1>1, <2>2 DEF EscrowPhase, Untouched
  <2>4. \A v \in WithdrawalIds \ {w} : EscrowPhase(v)' = EscrowPhase(v)
    BY <1>1, <2>2 DEF EscrowPhase
  <2>5. /\ Phases[w] = "none" /\ Phases' = [Phases EXCEPT ![w] = "open"]
        /\ Grosses' = [Grosses EXCEPT ![w] = req[r].gross]
        /\ Links' = [Links EXCEPT ![w] = req[r].event]
    BY <1>0, <2>2, <2>3, <2>4 DEF Phases, Grosses, Links
  <2>6. Escrow!Open(w)
    BY <1>0, <1>1, <2>5 DEF Escrow!Open, Phases, Grosses, Links
  <2>. QED BY <1>0, <2>6 DEF Escrow!EscrowNext
<1>. QED BY <1>2, <1>3

\* The debit holds what the check of verifyOtp found the event to cover.
LEMMA DebitHolds ==
  ASSUME Serially, TypeOK, SerialInv, ClaimsCovered, Asked, NEW r \in Requests,
         DebitCommit(r)
  PROVE  \E w \in WithdrawalIds : Escrow!Hold(w)
<1>a. req[r].pc \in WithdrawalPcs /\ req[r].pc \in Waiting
  BY DEF DebitCommit, WithdrawalPcs, Pcs, InTransaction, Waiting
<1>b. PICK w \in WithdrawalIds : w = req[r].w
  BY <1>a, OwnFacts
<1>c. PICK e : e = row[w].event
  OBVIOUS
<1>. DEFINE c == ClaimOf(e)
<1>0. /\ row \in [WithdrawalIds -> RowType]
      /\ debits \in [WithdrawalIds -> Nat]
      /\ row[w].status = "pending_otp" /\ Untouched(w) /\ e \in Events
  BY <1>a, <1>b, <1>c, OwnFacts DEF Agrees, Asked
<1>1. /\ debits' = [debits EXCEPT ![w] = @ + 1]
      /\ UNCHANGED <<row, reversals, raised>>
  BY <1>b DEF DebitCommit, Conflict, Serially
<1>2. debits'[w] = 1 /\ \A v \in WithdrawalIds \ {w} : debits'[v] = debits[v]
  BY <1>0, <1>1 DEF Untouched
<1>3. EscrowPhase(w) = "open" /\ EscrowPhase(w)' = "held"
  BY <1>0, <1>1, <1>2 DEF EscrowPhase, Untouched
<1>4. Escrow!Move(w, "open", "held")
  BY <1>0, <1>1, <1>2, <1>3, EscrowMoves DEF EscrowPhase, LinksKeep
<1>. DEFINE H == {v \in WithdrawalIds : Phases[v] \in {"held", "paid"} /\ Links[v] = e}
            K == H \cup {w}
<1>5. /\ H \subseteq WithdrawalIds /\ K \subseteq WithdrawalIds
      /\ IsFiniteSet(H) /\ IsFiniteSet(K) /\ w \notin H
  <2>1. H \subseteq WithdrawalIds /\ K \subseteq WithdrawalIds
    BY <1>0
  <2>2. w \notin H
    BY <1>0, <1>3 DEF Phases
  <2>. HIDE DEF H, K
  <2>. QED BY <2>1, <2>2, FS_Subset
<1>6. \A v \in K : c[v] \in Nat /\ Grosses[v] = c[v]
  <2>1. \A v \in WithdrawalIds : c[v] \in Nat /\ Grosses[v] = row[v].gross
    BY ClaimType DEF Grosses
  <2>2. Claims(w)
    BY <1>b DEF DebitCommit, Claims, Passed, Passing
  <2>3. \A v \in H : Claims(v) /\ row[v].event = e
    <3>1. SUFFICES ASSUME NEW v \in H PROVE Claims(v) /\ row[v].event = e
      OBVIOUS
    <3>2. v \in WithdrawalIds /\ EscrowPhase(v) \in {"held", "paid"} /\ row[v].event = e
      BY DEF Phases, Links
    <3>3. debits[v] # 0 /\ ~(reversals[v] > 0)
      BY <3>2 DEF EscrowPhase
    <3>4. debits[v] \in Nat /\ reversals[v] \in Nat
      BY <3>2 DEF TypeOK
    <3>. QED BY <3>2, <3>3, <3>4 DEF Claims, Debited
  <2>. QED BY <1>0, <1>c, <1>5, <2>1, <2>2, <2>3 DEF ClaimOf
<1>7. \A v \in WithdrawalIds : c[v] \in Nat
  BY ClaimType
<1>8. SumFunctionOnSet(c, WithdrawalIds) <= raised[e] /\ raised[e] \in Nat
  BY <1>0 DEF ClaimsCovered, TypeOK
<1>9. Escrow!Held(e) = SumFunctionOnSet(Grosses, H)
  BY EscrowHeld
<1>. HIDE DEF H, c
<1>10. SumFunctionOnSet(Grosses, H) = SumFunctionOnSet(c, H)
  BY <1>5, <1>6, SumEqual
<1>11. SumFunctionOnSet(c, K) = c[w] + SumFunctionOnSet(c, H)
  <2>1. w \in K /\ K \ {w} = H
    BY <1>5
  <2>. HIDE DEF K
  <2>. QED BY <1>5, <1>6, <2>1, SumTakeOut
<1>. HIDE DEF K
<1>12. SumFunctionOnSet(c, K) <= SumFunctionOnSet(c, WithdrawalIds)
  BY <1>5, <1>7, SumOfMore
<1>13. /\ SumFunctionOnSet(c, H) \in Nat /\ SumFunctionOnSet(c, K) \in Nat
       /\ SumFunctionOnSet(c, WithdrawalIds) \in Nat /\ c[w] \in Nat
  BY <1>0, <1>5, <1>7, SumNat
<1>14. Grosses[w] = c[w] /\ Links[w] = e
  BY <1>0, <1>c, <1>6 DEF K, Links
<1>15. Escrow!Held(Links[w]) + Grosses[w] <= raised[Links[w]]
  BY <1>8, <1>9, <1>10, <1>11, <1>12, <1>13, <1>14
<1>16. Escrow!Hold(w)
  BY <1>4, <1>15 DEF Escrow!Hold, Grosses, Links
<1>. QED BY <1>0, <1>16

\* Giving the debit back closes the escrow.
LEMMA ReverseGivesBack ==
  ASSUME Serially, TypeOK, SerialInv, NEW r \in Requests, ReverseCommit(r)
  PROVE  \E w \in WithdrawalIds : Escrow!GiveBack(w)
<1>1. req[r].pc \in WithdrawalPcs /\ req[r].pc \in Settling
  BY DEF ReverseCommit, WithdrawalPcs, Pcs, InTransaction, Settling
<1>2. PICK w \in WithdrawalIds : w = req[r].w
  BY <1>1, OwnFacts
<1>3. /\ reversals \in [WithdrawalIds -> Nat]
      /\ row[w].status \in {"pending_otp", "processing"} /\ Taken(w)
  BY <1>1, <1>2, OwnFacts DEF Agrees
<1>4. /\ reversals' = [reversals EXCEPT ![w] = @ + 1]
      /\ UNCHANGED <<row, debits, raised>>
  BY <1>2 DEF ReverseCommit, Conflict, Serially
<1>5. reversals'[w] = 1 /\ \A v \in WithdrawalIds \ {w} : reversals'[v] = reversals[v]
  BY <1>3, <1>4 DEF Taken
<1>6. EscrowPhase(w) = "held" /\ EscrowPhase(w)' = "closed"
  BY <1>3, <1>4, <1>5 DEF EscrowPhase, Taken
<1>7. Escrow!Move(w, "held", "closed")
  BY <1>4, <1>5, <1>6, EscrowMoves DEF EscrowPhase, LinksKeep
<1>. QED BY <1>7 DEF Escrow!GiveBack

\* A contribution raises what the event covers.
LEMMA CreditCredits ==
  ASSUME Serially, TypeOK, Asked, NEW r \in Requests, CreditCommit(r)
  PROVE  \E e \in Events : Escrow!Credit(e)
<1>1. req[r].event \in Events /\ req[r].gross \in Contributions
  BY DEF CreditCommit, Asked, TypeOK, RequestType
<1>2. /\ raised' = [raised EXCEPT ![req[r].event] = @ + req[r].gross]
      /\ UNCHANGED <<row, debits, reversals>>
  BY DEF CreditCommit, Conflict, Serially
<1>3. Phases' = Phases /\ Grosses' = Grosses /\ Links' = Links
  BY <1>2 DEF Phases, Grosses, Links, EscrowPhase
<1>4. Escrow!Credit(req[r].event)
  BY <1>1, <1>2, <1>3 DEF Escrow!Credit, Phases, Grosses, Links
<1>. QED BY <1>1, <1>4

\* A row that is written again: paid, cancelled, or nothing the escrow sees.
LEMMA StatusSettles ==
  ASSUME TypeOK, SerialInv, NEW r \in Requests,
         SetProcessing(r) \/ FailRow(r) \/ Complete(r)
  PROVE  \/ UNCHANGED Escrow!evars
         \/ \E w \in WithdrawalIds : Escrow!Pay(w) \/ Escrow!Cancel(w)
<1>1. req[r].pc \in WithdrawalPcs
  BY DEF SetProcessing, FailRow, Complete, WithdrawalPcs, Pcs
<1>2. PICK w \in WithdrawalIds : w = req[r].w
  BY <1>1, OwnFacts
<1>3. /\ Agrees(req[r].pc, w, req[r].ref)
      /\ row \in [WithdrawalIds -> RowType]
      /\ debits \in [WithdrawalIds -> Nat] /\ reversals \in [WithdrawalIds -> Nat]
  BY <1>1, <1>2, OwnFacts
<1>4. UNCHANGED <<debits, reversals, raised>>
  BY DEF SetProcessing, FailRow, Complete
<1>5. LinksKeep
  BY <1>4, StatusWritten DEF LinksKeep
<1>6. \A v \in WithdrawalIds \ {w} : EscrowPhase(v)' = EscrowPhase(v)
  <2>1. \A v \in WithdrawalIds \ {w} : row'[v] = row[v]
    BY <1>2, <1>3 DEF SetProcessing, FailRow, Complete, SetStatus
  <2>. QED BY <1>4, <2>1 DEF EscrowPhase
<1>7. CASE SetProcessing(r)
  <2>1. row[w].status = "pending_otp" /\ Taken(w)
    BY <1>3, <1>7 DEF SetProcessing, Agrees
  <2>2. row'[w].status = "processing"
    BY <1>2, <1>3, <1>7 DEF SetProcessing, RowType
  <2>3. EscrowPhase(w)' = EscrowPhase(w)
    BY <1>4, <2>1, <2>2 DEF EscrowPhase, Taken
  <2>. QED BY <1>5, <1>6, <2>3, EscrowStays
<1>8. CASE FailRow(r)
  <2>1. row[w].status \in {"pending_otp", "processing"} /\ Returned(w)
    BY <1>3, <1>8 DEF FailRow, Agrees
  <2>2. row'[w].status = "failed"
    BY <1>2, <1>3, <1>8 DEF FailRow, SetStatus, RowType
  <2>3. CASE debits[w] = 0
    <3>1. EscrowPhase(w) = "open" /\ EscrowPhase(w)' = "closed"
      BY <1>4, <2>1, <2>2, <2>3 DEF EscrowPhase, Returned
    <3>. QED BY <1>5, <1>6, <3>1, EscrowMoves DEF Escrow!Cancel
  <2>4. CASE debits[w] # 0
    <3>1. reversals[w] > 0
      BY <1>3, <2>1, <2>4 DEF Returned
    <3>2. EscrowPhase(w)' = EscrowPhase(w)
      BY <1>4, <2>1, <2>2, <3>1 DEF EscrowPhase
    <3>. QED BY <1>5, <1>6, <3>2, EscrowStays
  <2>. QED BY <2>3, <2>4
<1>9. CASE Complete(r)
  <2>1. row[w].status \in {"pending_otp", "processing"} /\ Taken(w)
    BY <1>3, <1>9 DEF Complete, Agrees, Settling
  <2>2. row'[w].status = "completed"
    BY <1>2, <1>3, <1>9 DEF Complete, SetStatus, RowType
  <2>3. EscrowPhase(w) = "held" /\ EscrowPhase(w)' = "paid"
    BY <1>4, <2>1, <2>2 DEF EscrowPhase, Taken
  <2>. QED BY <1>5, <1>6, <2>3, EscrowMoves DEF Escrow!Pay
<1>. QED BY <1>7, <1>8, <1>9

LEMMA EscrowStep ==
  ASSUME Serially, TypeOK, Owned, SerialInv, ClaimsCovered, Asked, NEW r \in Requests,
         Step(r)
  PROVE  [Escrow!EscrowNext]_(Escrow!evars)
<1>1. CASE InitInsert(r)
  BY <1>1, InsertOpens
<1>2. CASE DebitCommit(r)
  BY <1>2, DebitHolds DEF Escrow!EscrowNext
<1>3. CASE ReverseCommit(r)
  BY <1>3, ReverseGivesBack DEF Escrow!EscrowNext
<1>4. CASE CreditCommit(r)
  BY <1>4, CreditCredits DEF Escrow!EscrowNext
<1>5. CASE SetProcessing(r) \/ FailRow(r) \/ Complete(r)
  BY <1>5, StatusSettles DEF Escrow!EscrowNext
<1>6. CASE ~(InitInsert(r) \/ Commits(r) \/ SetProcessing(r) \/ FailRow(r) \/ Complete(r))
  <2>1. UNCHANGED <<row, debits, reversals, raised>>
    BY <1>6, RowUnchanged, DebitsUnchanged, ReversalsUnchanged, RaisedUnchanged DEF Commits
  <2>2. LinksKeep /\ \A v \in WithdrawalIds : EscrowPhase(v)' = EscrowPhase(v)
    BY <2>1 DEF LinksKeep, EscrowPhase
  <2>. QED BY <2>2, EscrowStays
<1>. QED BY <1>1, <1>2, <1>3, <1>4, <1>5, <1>6 DEF Commits

LEMMA EscrowStarts == Init => Escrow!EscrowInit
<1>. SUFFICES ASSUME Init PROVE Escrow!EscrowInit
  OBVIOUS
<1>1. /\ Phases = [w \in WithdrawalIds |-> "none"]
      /\ Grosses = [w \in WithdrawalIds |-> 0]
      /\ Links = [w \in WithdrawalIds |-> None]
      /\ raised = OpeningRaised
  BY DEF Init, Phases, Grosses, Links, EscrowPhase, NoRow
<1>. QED BY <1>1 DEF Escrow!EscrowInit, Phases, Grosses, Links

\* While requests about one withdrawal do not overlap and none stops half way,
\* every step of the handlers is a step of the escrow or none it sees: money is
\* taken once and only while the event covers it, then paid or given back once.
THEOREM EscrowImplemented ==
  ASSUME Serially
  PROVE  Spec => ImplementsEscrow
<1>1. TypeOK /\ Owned /\ SerialInv /\ ClaimsCovered /\ Asked /\ [Next]_vars
        => [Escrow!EscrowNext]_(Escrow!evars)
  <2>1. ASSUME Outside PROVE [Escrow!EscrowNext]_(Escrow!evars)
    <3>1. UNCHANGED <<row, debits, reversals, raised>>
      BY <2>1 DEF Outside, ExpireOtp, SettlePayout, vars, db
    <3>2. LinksKeep /\ \A v \in WithdrawalIds : EscrowPhase(v)' = EscrowPhase(v)
      BY <3>1 DEF LinksKeep, EscrowPhase
    <3>. QED BY <3>2, EscrowStays
  <2>. QED BY <2>1, EscrowStep, NextSteps
<1>. QED
  BY <1>1, EscrowStarts, AskedAlways, PTL DEF Spec, ImplementsEscrow, Escrow!EscrowSpec
=============================================================================
