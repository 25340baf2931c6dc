-------------------------- MODULE MoneyPagesProofs --------------------------
(***************************************************************************)
(* Theorems about the pages that move money or show where it went: what    *)
(* they say is so, for any number of withdrawals, rows and payments, any   *)
(* amounts and bounds.                                                     *)
(***************************************************************************)
EXTENDS MoneyPages, FiniteSetFacts, SequenceTheorems, TLAPS

USE WithdrawPagesAssumption, AccountPagesAssumption, ContributePagesAssumption

-----------------------------------------------------------------------------
(***************************************************************************)
(* Lists of requests.                                                      *)
(***************************************************************************)
\* A finite set of naturals is listed in order.
LEMMA AscendingFits ==
  ASSUME NEW S, S \subseteq Nat, IsFiniteSet(S)
  PROVE  Ascending(S) \in [1 .. Cardinality(S) -> S]
<1> DEFINE R == {z \in S \X S : z[1] < z[2]}
<1>1. \A x, y \in S : <<x, y>> \in R <=> x < y
  OBVIOUS
<1> HIDE DEF R
<1>2. StrictlyOrdered(R, S)
  BY <1>1 DEF StrictlyOrdered
<1>3. PICK f \in [1 .. Cardinality(S) -> S] : InOrder(R, f)
  BY <1>2, SortExists DEF Sortable
<1>4. \A i, j \in DOMAIN f : i < j => f[i] < f[j]
  BY <1>1, <1>3 DEF InOrder
<1> QED BY <1>4 DEF Ascending

\* What is left of a queue is a queue, without the requests that were taken out.
LEMMA WithoutFits ==
  ASSUME NEW R, NEW requests \in Seq(R), NEW ops
  PROVE  /\ Without(requests, ops) \in Seq(R)
         /\ \A k \in DOMAIN Without(requests, ops) :
              /\ Without(requests, ops)[k].op \notin ops
              /\ \E j \in DOMAIN requests : Without(requests, ops)[k] = requests[j]
<1> DEFINE S == {k \in DOMAIN requests : requests[k].op \notin ops}
           kept == Ascending(S)
           left == [k \in DOMAIN kept |-> requests[kept[k]]]
<1>1. /\ DOMAIN requests = 1 .. Len(requests) /\ Len(requests) \in Nat
      /\ \A k \in DOMAIN requests : requests[k] \in R
  BY ElementOfSeq, LenProperties
<1>2. IsFiniteSet(S) /\ S \subseteq Nat
  <2>1. IsFiniteSet(1 .. Len(requests))
    BY <1>1, FS_Interval
  <2> QED BY <1>1, <2>1, FS_Subset
<1>3. kept \in [1 .. Cardinality(S) -> S] /\ Cardinality(S) \in Nat
  <2> HIDE DEF S
  <2> QED BY <1>2, AscendingFits, FS_CardinalityType
<1>4. \A k \in DOMAIN kept : kept[k] \in S
  BY <1>3
<1>5. \A k \in DOMAIN kept :
        kept[k] \in DOMAIN requests /\ requests[kept[k]] \in R /\ requests[kept[k]].op \notin ops
  <2> HIDE DEF kept
  <2> QED BY <1>1, <1>4
<1>6. DOMAIN kept = 1 .. Cardinality(S)
  BY <1>3
<1> HIDE DEF kept, S
<1>7. /\ left \in [1 .. Cardinality(S) -> R]
      /\ \A k \in DOMAIN left : left[k].op \notin ops /\ \E j \in DOMAIN requests : left[k] = requests[j]
  BY <1>5, <1>6
<1>8. left \in Seq(R)
  BY <1>3, <1>7
<1>9. Without(requests, ops) = left
  BY DEF Without, left, kept, S
<1> QED BY <1>7, <1>8, <1>9

\* The requests of a queue.
LEMMA QueueOf ==
  ASSUME NEW R, NEW s \in Seq(R)
  PROVE  \A k \in DOMAIN s : s[k] \in R
BY ElementOfSeq, LenProperties

\* A queue with one request more.
LEMMA QueueMore ==
  ASSUME NEW R, NEW s \in Seq(R), NEW o \in R
  PROVE  /\ s \o <<o>> \in Seq(R) /\ DOMAIN (s \o <<o>>) = DOMAIN s \cup {Len(s) + 1}
         /\ Len(s) + 1 \notin DOMAIN s /\ (s \o <<o>>)[Len(s) + 1] = o
         /\ \A k \in DOMAIN s : (s \o <<o>>)[k] = s[k]
<1>1. <<o>> \in Seq(R) /\ Len(<<o>>) = 1 /\ <<o>>[1] = o
  OBVIOUS
<1>2. /\ s \o <<o>> \in Seq(R) /\ Len(s \o <<o>>) = Len(s) + 1 /\ Len(s) \in Nat
      /\ DOMAIN s = 1 .. Len(s) /\ DOMAIN (s \o <<o>>) = 1 .. Len(s) + 1
      /\ \A k \in 1 .. Len(s) + 1 : (s \o <<o>>)[k] = IF k <= Len(s) THEN s[k] ELSE <<o>>[k - Len(s)]
  <2>1. /\ s \o <<o>> \in Seq(R) /\ Len(s \o <<o>>) = Len(s) + Len(<<o>>)
        /\ \A k \in 1 .. Len(s) + Len(<<o>>) :
             (s \o <<o>>)[k] = IF k <= Len(s) THEN s[k] ELSE <<o>>[k - Len(s)]
    BY <1>1, ConcatProperties
  <2> QED BY <1>1, <2>1, LenProperties
<1> QED BY <1>1, <1>2

\* A queue without its first request.
LEMMA QueueLess ==
  ASSUME NEW R, NEW s \in Seq(R), s # <<>>
  PROVE  /\ Tail(s) \in Seq(R) /\ 1 \in DOMAIN s /\ Head(s) = s[1] /\ Head(s) \in R
         /\ \A k \in DOMAIN Tail(s) : k + 1 \in DOMAIN s /\ k + 1 # 1 /\ Tail(s)[k] = s[k + 1] /\ k \in Nat
         /\ \A k \in DOMAIN s : k # 1 => k - 1 \in DOMAIN Tail(s) /\ Tail(s)[k - 1] = s[k]
<1>1. /\ Len(s) \in Nat /\ Len(s) # 0 /\ DOMAIN s = 1 .. Len(s)
      /\ Tail(s) \in Seq(R) /\ Len(Tail(s)) = Len(s) - 1 /\ DOMAIN Tail(s) = 1 .. Len(s) - 1
      /\ \A k \in 1 .. Len(Tail(s)) : Tail(s)[k] = s[k + 1]
      /\ Head(s) = s[1] /\ Head(s) \in R
  BY HeadTailProperties, LenProperties, EmptySeq, ElementOfSeq
<1> QED BY <1>1

-----------------------------------------------------------------------------
(***************************************************************************)
(* Rows and payments.  A mobile money row is there only once its payment   *)
(* is fulfilled, so that what is written for a payment that has not been   *)
(* goes over no row.                                                       *)
(***************************************************************************)
RowType == [status : {"none", "paid", "pledged"}, amt : Prices \cup {0}, visible : BOOLEAN]
PaymentType ==
  [state : {"none", "pending", "success", "failed", "deleted", "fulfilled"}, amt : Prices \cup {0}]

RowsFit ==
  /\ row \in [Rows -> RowType] /\ payment \in [References -> PaymentType]
  /\ \A p \in References : row[p].status # "none" => row[p].status = "paid" /\ payment[p].state = "fulfilled"

\* The step writes no row over another and changes no amount, no status: r and y
\* are the rows and the payments before it, s and z those after.
Keeps(r, y, s, z) ==
  /\ \A c \in Rows : r[c].status # "none" => s[c] = r[c]
  /\ \A p \in References :
       /\ z[p].state \in {"pending", "success"} /\ y[p].state # "none" =>
            y[p].state \in {"pending", "success"} /\ z[p].amt = y[p].amt
       /\ z[p].state = "none" => y[p].state = "none"
       /\ s[p].status # "none" /\ r[p].status = "none" =>
            y[p].state = "success" /\ s[p].amt = y[p].amt

LEMMA RecordKeeps ==
  ASSUME RowsFit, NEW p \in References, RecordPayment(p)
  PROVE  RowsFit' /\ Keeps(row, payment, row', payment')
<1>1. CASE UNCHANGED <<row, payment>>
  BY <1>1 DEF RowsFit, Keeps, Rows
<1>2. CASE /\ payment[p].state = "success"
           /\ Insert(p, "paid", payment[p].amt)
           /\ payment' = [payment EXCEPT ![p] = [state |-> "fulfilled", amt |-> 0]]
  <2>1. /\ row' = [row EXCEPT ![p] = [status |-> "paid", amt |-> payment[p].amt, visible |-> TRUE]]
        /\ p \in Rows /\ row[p].status = "none" /\ payment[p].amt \in Prices \cup {0}
    BY <1>2 DEF Insert, Rows, RowsFit, PaymentType
  <2>2. /\ [status |-> "paid", amt |-> payment[p].amt, visible |-> TRUE] \in RowType
        /\ [state |-> "fulfilled", amt |-> 0] \in PaymentType
    BY <2>1 DEF RowType, PaymentType
  <2>3. row' \in [Rows -> RowType] /\ payment' \in [References -> PaymentType]
    BY <1>2, <2>1, <2>2 DEF RowsFit
  <2>4. \A c \in Rows : c # p => row'[c] = row[c]
    BY <2>1 DEF RowsFit
  <2>5. row'[p].status = "paid" /\ row'[p].amt = payment[p].amt /\ payment'[p].state = "fulfilled"
    BY <1>2, <2>1 DEF RowsFit
  <2>6. \A q \in References : q # p => payment'[q] = payment[q]
    BY <1>2 DEF RowsFit
  <2>7. RowsFit'
    BY <2>3, <2>4, <2>5, <2>6 DEF RowsFit, Rows
  <2>8. Keeps(row, payment, row', payment')
    BY <1>2, <2>1, <2>4, <2>5, <2>6 DEF Keeps, Rows
  <2> QED BY <2>7, <2>8
<1> QED BY <1>1, <1>2 DEF RecordPayment

LEMMA InsertKeeps ==
  ASSUME RowsFit, NEW c \in Entries \ Recorded, NEW status \in {"paid", "pledged"},
         NEW amt \in Prices \cup {0}, Insert(c, status, amt), payment' = payment
  PROVE  /\ RowsFit' /\ Keeps(row, payment, row', payment')
         /\ row'[c] = [status |-> status, amt |-> amt, visible |-> TRUE]
<1>1. c \in Rows /\ c \notin References /\ row[c].status = "none"
  BY DEF Rows, Recorded
<1>2. row' = [row EXCEPT ![c] = [status |-> status, amt |-> amt, visible |-> TRUE]]
  BY DEF Insert
<1>3. [status |-> status, amt |-> amt, visible |-> TRUE] \in RowType
  BY DEF RowType
<1>4. row' \in [Rows -> RowType] /\ \A d \in Rows : d # c => row'[d] = row[d]
  BY <1>2, <1>3 DEF RowsFit
<1>5. row'[c] = [status |-> status, amt |-> amt, visible |-> TRUE]
  BY <1>1, <1>2 DEF RowsFit
<1>6. RowsFit'
  BY <1>1, <1>4 DEF RowsFit, Rows
<1>7. Keeps(row, payment, row', payment')
  BY <1>1, <1>4 DEF Keeps, Rows
<1> QED BY <1>5, <1>6, <1>7

\* Deciding and starting payments writes no rows.
LEMMA PaymentKeeps ==
  ASSUME RowsFit, NEW p \in References, NEW o \in PaymentType,
         payment' = [payment EXCEPT ![p] = o], row' = row,
         payment[p].state \in {"none", "pending"}, o.state \notin {"none", "fulfilled"},
         payment[p].state = "pending" /\ o.state \in {"pending", "success"} => o.amt = payment[p].amt
  PROVE  RowsFit' /\ Keeps(row, payment, row', payment') /\ payment'[p] = o
<1>1. payment' \in [References -> PaymentType] /\ \A q \in References : q # p => payment'[q] = payment[q]
  BY DEF RowsFit
<1>2. payment'[p] = o
  BY DEF RowsFit
<1>3. row[p].status = "none"
  BY DEF RowsFit
<1>4. RowsFit'
  BY <1>1, <1>3 DEF RowsFit
<1>5. Keeps(row, payment, row', payment')
  BY <1>1, <1>2 DEF Keeps, Rows
<1> QED BY <1>2, <1>4, <1>5

-----------------------------------------------------------------------------
(***************************************************************************)
(* The form: f is what it shows, s its requests, r and y are the rows and  *)
(* the payments.                                                           *)
(***************************************************************************)
FormType ==
  [step : {1, 2, 3}, amt : Prices \cup {0}, pledging : BOOLEAN, loading : BOOLEAN,
   wait : References \cup {Nothing}, polls : Nat, lastStatus : {"paid", "pledged"},
   momo : BOOLEAN, done : Rows \cup {Nothing}, retyped : BOOLEAN]
FormRequests ==
  [op : {"initiate", "add", "poll"}, p : References \cup {Nothing}, amt : Prices \cup {0},
   status : {"paid", "pledged"}, gone : BOOLEAN]

\* An amount the form tells as its own, unless that was typed again.
OfShown(f, amt) == f.retyped \/ amt = f.amt

\* What the form waits for, or says thanks for, is of its amount.
ShownFits(f, r, y) ==
  /\ f \in FormType
  /\ f.wait # Nothing =>
       /\ f.step # 3 /\ y[f.wait].state # "none"
       /\ y[f.wait].state \in {"pending", "success"} => OfShown(f, y[f.wait].amt)
       /\ r[f.wait].status # "none" => OfShown(f, r[f.wait].amt)
  /\ f.step = 3 =>
       /\ f.done \in Rows /\ r[f.done].status = f.lastStatus
       /\ OfShown(f, r[f.done].amt)

\* A request whose answer the form will show, and the form that waits for it.
Live(o) == o.op # "poll" /\ ~o.gone
Expects(f, amt) == f.loading /\ f.wait = Nothing /\ f.step # 3 /\ OfShown(f, amt)

SentFits(f, s) ==
  /\ s \in Seq(FormRequests)
  /\ \A k \in DOMAIN s : s[k].op = "poll" => s[k].p \in References
  /\ \A k \in DOMAIN s : Live(s[k]) => Expects(f, s[k].amt)
  /\ \A k, l \in DOMAIN s : Live(s[k]) /\ Live(s[l]) => k = l

FormFits == ShownFits(form, row, payment) /\ SentFits(form, sent)

\* What was expected is.
StillExpects(f, g) == \A amt \in Prices \cup {0} : Expects(f, amt) => Expects(g, amt)

LEMMA ShownStays ==
  ASSUME NEW f, NEW r, NEW y, NEW s, NEW z, ShownFits(f, r, y), Keeps(r, y, s, z)
  PROVE  ShownFits(f, s, z)
<1>1. References \subseteq Rows
  BY DEF Rows
<1>2. CASE f.wait = Nothing
  <2>1. f.step = 3 => s[f.done] = r[f.done]
    BY DEF ShownFits, Keeps, FormType
  <2> QED BY <1>2, <2>1 DEF ShownFits
<1>3. CASE f.wait # Nothing
  <2>1. f.wait \in References /\ f.step # 3
    BY <1>3 DEF ShownFits, FormType
  <2>2. z[f.wait].state # "none" /\ (z[f.wait].state \in {"pending", "success"} => OfShown(f, z[f.wait].amt))
    BY <1>3, <2>1 DEF ShownFits, Keeps
  <2>3. s[f.wait].status # "none" => OfShown(f, s[f.wait].amt)
    BY <1>1, <1>3, <2>1 DEF ShownFits, Keeps
  <2> QED BY <1>3, <2>1, <2>2, <2>3 DEF ShownFits
<1> QED BY <1>2, <1>3

LEMMA SentStays ==
  ASSUME NEW f, NEW g, NEW s, SentFits(f, s), StillExpects(f, g)
  PROVE  SentFits(g, s)
<1>1. \A k \in DOMAIN s : s[k].amt \in Prices \cup {0}
  <2>1. \A k \in DOMAIN s : s[k] \in FormRequests
    BY QueueOf DEF SentFits
  <2> QED BY <2>1 DEF FormRequests
<1> QED BY <1>1 DEF SentFits, StillExpects

LEMMA SentMore ==
  ASSUME NEW f, NEW g, NEW s, SentFits(f, s), NEW o \in FormRequests,
         o.op = "poll" => o.p \in References,
         IF Live(o) THEN ~f.loading /\ Expects(g, o.amt) ELSE StillExpects(f, g)
  PROVE  SentFits(g, s \o <<o>>)
<1> DEFINE t == s \o <<o>>
<1>1. s \in Seq(FormRequests)
  BY DEF SentFits
<1>2. /\ t \in Seq(FormRequests) /\ DOMAIN t = DOMAIN s \cup {Len(s) + 1}
      /\ t[Len(s) + 1] = o /\ \A k \in DOMAIN s : t[k] = s[k]
  BY <1>1, QueueMore
<1> HIDE DEF t
<1>3. \A k \in DOMAIN t : t[k].op = "poll" => t[k].p \in References
  BY <1>2 DEF SentFits
<1>4. CASE Live(o)
  <2>1. \A k \in DOMAIN s : ~Live(s[k])
    BY <1>4 DEF SentFits, Expects
  <2> QED BY <1>2, <1>3, <1>4, <2>1 DEF SentFits
<1>5. CASE ~Live(o)
  <2>1. SentFits(g, s)
    BY <1>5, SentStays
  <2> QED BY <1>2, <1>3, <1>5, <2>1 DEF SentFits
<1> QED BY <1>4, <1>5 DEF t

LEMMA SentLess ==
  ASSUME NEW f, NEW g, NEW s, SentFits(f, s), s # <<>>, Live(Head(s)) \/ StillExpects(f, g)
  PROVE  SentFits(g, Tail(s))
<1> DEFINE t == Tail(s)
<1>1. s \in Seq(FormRequests)
  BY DEF SentFits
<1>2. /\ t \in Seq(FormRequests) /\ 1 \in DOMAIN s /\ Head(s) = s[1]
      /\ \A k \in DOMAIN t : k + 1 \in DOMAIN s /\ k + 1 # 1 /\ t[k] = s[k + 1] /\ k \in Nat
  BY <1>1, QueueLess
<1> HIDE DEF t
<1>3. \A k \in DOMAIN t : t[k].op = "poll" => t[k].p \in References
  BY <1>2 DEF SentFits
<1>4. \A k, l \in DOMAIN t : Live(t[k]) /\ Live(t[l]) => k = l
  <2>1. \A k, l \in DOMAIN t : Live(t[k]) /\ Live(t[l]) => k + 1 = l + 1
    BY <1>2 DEF SentFits
  <2> QED BY <1>2, <2>1
<1>5. \A k \in DOMAIN t : Live(t[k]) => Expects(g, t[k].amt)
  <2>1. CASE Live(Head(s))
    BY <1>2, <2>1 DEF SentFits
  <2>2. CASE StillExpects(f, g)
    <3>1. SentFits(g, s)
      BY <2>2, SentStays
    <3> QED BY <1>2, <3>1 DEF SentFits
  <2> QED BY <2>1, <2>2
<1> QED BY <1>2, <1>3, <1>4, <1>5 DEF SentFits, t

\* A form that has just loaded fits, with the requests of the one that was left.
LEMMA EmptyFits ==
  ASSUME NEW momo \in BOOLEAN, NEW r, NEW y
  PROVE  ShownFits(EmptyForm(momo), r, y)
BY DEF ShownFits, EmptyForm, FormType

LEMMA LeftFits ==
  ASSUME NEW f, NEW g, NEW s, SentFits(f, s)
  PROVE  LET left == Without(s, {"poll"})
         IN  SentFits(g, [k \in DOMAIN left |-> [left[k] EXCEPT !.gone = TRUE]])
<1> DEFINE left == Without(s, {"poll"})
           gone == [k \in DOMAIN left |-> [left[k] EXCEPT !.gone = TRUE]]
<1>1. left \in Seq(FormRequests) /\ \A k \in DOMAIN left : left[k].op # "poll"
  BY WithoutFits DEF SentFits
<1> HIDE DEF left
<1>2. /\ DOMAIN left = 1 .. Len(left) /\ Len(left) \in Nat
      /\ \A k \in DOMAIN left : left[k] \in FormRequests
  BY <1>1, LenProperties, ElementOfSeq
<1>3. \A k \in DOMAIN left :
        /\ [left[k] EXCEPT !.gone = TRUE] \in FormRequests
        /\ [left[k] EXCEPT !.gone = TRUE].gone
        /\ [left[k] EXCEPT !.gone = TRUE].op = left[k].op
  BY <1>2 DEF FormRequests
<1>4. gone \in [1 .. Len(left) -> FormRequests]
  BY <1>2, <1>3
<1>5. gone \in Seq(FormRequests)
  BY <1>2, <1>4
<1>6. \A k \in DOMAIN gone : gone[k].gone /\ gone[k].op # "poll"
  BY <1>1, <1>3
<1> HIDE DEF gone
<1>7. SentFits(g, gone)
  BY <1>5, <1>6 DEF SentFits, Live
<1> QED BY <1>7 DEF gone, left

\* Clicks and ticks: what is shown changes, and a request may be sent.
Sends(f, g, requests) ==
  \/ requests = <<>> /\ StillExpects(f, g)
  \/ \E o \in FormRequests :
       /\ requests = <<o>> /\ (o.op = "poll" => o.p \in References)
       /\ IF Live(o) THEN ~f.loading /\ Expects(g, o.amt) ELSE StillExpects(f, g)

LEMMA OnFormFits ==
  ASSUME FormFits, NEW g, NEW requests, OnForm(g, requests),
         ShownFits(g, row, payment), Sends(form, g, requests)
  PROVE  FormFits'
<1>1. SentFits(g, sent \o requests)
  <2>1. CASE requests = <<>> /\ StillExpects(form, g)
    <3>1. sent \o requests = sent
      BY <2>1, ConcatEmptySeq DEF FormFits, SentFits
    <3> QED BY <2>1, <3>1, SentStays DEF FormFits
  <2>2. ASSUME NEW o \in FormRequests, requests = <<o>>, o.op = "poll" => o.p \in References,
               IF Live(o) THEN ~form.loading /\ Expects(g, o.amt) ELSE StillExpects(form, g)
        PROVE  SentFits(g, sent \o requests)
    BY <2>2, SentMore DEF FormFits
  <2> QED BY <2>1, <2>2 DEF Sends
<1> QED BY <1>1 DEF OnForm, FormFits

LEMMA RequestType ==
  ASSUME form \in FormType, NEW op \in {"initiate", "add", "poll"}
  PROVE  /\ Request(op) \in FormRequests
         /\ Request(op).op = op /\ Request(op).amt = form.amt /\ ~Request(op).gone
BY DEF Request, FormRequests, FormType

LEMMA FormClicks ==
  ASSUME FormFits,
         \/ TypePrice \/ Continue \/ BackToAmount \/ TickAnonymous \/ ExpandPledge
         \/ CancelPayment \/ MakeAnother
  PROVE  FormFits'
<1>0. form \in FormType /\ ShownFits(form, row, payment)
  BY DEF FormFits, ShownFits
<1>1. CASE TypePrice
  <2>1. PICK amt \in Prices : OnForm([form EXCEPT !.amt = amt, !.retyped = @ \/ form.loading], <<>>)
    BY <1>1 DEF TypePrice
  <2>2. PICK g : g = [form EXCEPT !.amt = amt, !.retyped = @ \/ form.loading]
    OBVIOUS
  <2>3. /\ g \in FormType /\ g.wait = Nothing /\ g.step = 1 /\ g.loading = form.loading
        /\ form.loading => g.retyped
    BY <1>0, <1>1, <2>2 DEF TypePrice, Shows, FormType
  <2>4. ShownFits(g, row, payment)
    BY <2>3 DEF ShownFits
  <2>5. Sends(form, g, <<>>)
    BY <2>3 DEF Sends, StillExpects, Expects, OfShown
  <2> QED BY <2>1, <2>2, <2>4, <2>5, OnFormFits
<1>2. ASSUME NEW g \in FormType, OnForm(g, <<>>),
             form.wait = Nothing, form.step # 3, g.wait = Nothing, g.step # 3,
             g.loading = form.loading, g.retyped = form.retyped, g.amt = form.amt
      PROVE  FormFits'
  <2>1. ShownFits(g, row, payment)
    BY <1>2 DEF ShownFits
  <2>2. Sends(form, g, <<>>)
    BY <1>2 DEF Sends, StillExpects, Expects, OfShown
  <2> QED BY <1>2, <2>1, <2>2, OnFormFits
<1>a. CASE Continue
  <2>1. PICK g : g = [form EXCEPT !.step = 2]
    OBVIOUS
  <2>2. /\ g \in FormType /\ g.wait = form.wait /\ g.step = 2
        /\ g.loading = form.loading /\ g.retyped = form.retyped /\ g.amt = form.amt
    BY <1>0, <2>1 DEF FormType
  <2>3. OnForm(g, <<>>) /\ form.wait = Nothing /\ form.step = 1
    BY <1>a, <2>1 DEF Continue, Shows
  <2> QED BY <1>2, <2>2, <2>3
<1>b. CASE BackToAmount
  <2>1. PICK g : g = [form EXCEPT !.step = 1, !.pledging = FALSE]
    OBVIOUS
  <2>2. /\ g \in FormType /\ g.wait = form.wait /\ g.step = 1
        /\ g.loading = form.loading /\ g.retyped = form.retyped /\ g.amt = form.amt
    BY <1>0, <2>1 DEF FormType
  <2>3. OnForm(g, <<>>) /\ form.wait = Nothing /\ form.step = 2
    BY <1>b, <2>1 DEF BackToAmount, Shows
  <2> QED BY <1>2, <2>2, <2>3
<1>c. CASE TickAnonymous \/ ExpandPledge
  <2>1. PICK pledging \in BOOLEAN : Shows(2) /\ OnForm([form EXCEPT !.pledging = pledging], <<>>)
    BY <1>c DEF TickAnonymous, ExpandPledge
  <2>2. PICK g : g = [form EXCEPT !.pledging = pledging]
    OBVIOUS
  <2>3. /\ g \in FormType /\ g.wait = form.wait /\ g.step = form.step
        /\ g.loading = form.loading /\ g.retyped = form.retyped /\ g.amt = form.amt
    BY <1>0, <2>2 DEF FormType
  <2>4. OnForm(g, <<>>) /\ form.wait = Nothing /\ form.step = 2
    BY <2>1, <2>2 DEF Shows
  <2> QED BY <1>2, <2>3, <2>4
<1>3. CASE CancelPayment
  <2>1. PICK g : g = EndWait
    OBVIOUS
  <2>2. g \in FormType /\ g.wait = Nothing /\ g.step = form.step
    BY <1>0, <2>1 DEF EndWait, FormType
  <2>3. form.wait # Nothing /\ form.step # 3
    BY <1>0, <1>3 DEF CancelPayment, ShownFits
  <2>4. ShownFits(g, row, payment)
    BY <2>2, <2>3 DEF ShownFits
  <2>5. Sends(form, g, <<>>)
    BY <2>3 DEF Sends, StillExpects, Expects
  <2> QED BY <1>3, <2>1, <2>4, <2>5, OnFormFits DEF CancelPayment
<1>4. CASE MakeAnother
  <2>1. PICK g : g = [EmptyForm(form.momo) EXCEPT !.lastStatus = form.lastStatus]
    OBVIOUS
  <2>2. g \in FormType /\ g.wait = Nothing /\ g.step = 1
    BY <1>0, <2>1 DEF EmptyForm, FormType
  <2>4. ShownFits(g, row, payment)
    BY <2>2 DEF ShownFits
  <2>5. Sends(form, g, <<>>)
    BY <1>4 DEF MakeAnother, Shows, Sends, StillExpects, Expects
  <2> QED BY <1>4, <2>1, <2>4, <2>5, OnFormFits DEF MakeAnother
<1> QED BY <1>1, <1>a, <1>b, <1>c, <1>3, <1>4

LEMMA FormSends ==
  ASSUME FormFits, StartMomoPay \/ RecordContribution \/ FormTick
  PROVE  FormFits'
<1>0. form \in FormType /\ ShownFits(form, row, payment)
  BY DEF FormFits, ShownFits
<1>1. CASE StartMomoPay \/ RecordContribution
  <2>1. PICK g : g = Started
    OBVIOUS
  <2>2. Ready
    BY <1>1 DEF StartMomoPay, RecordContribution
  <2>3. /\ g \in FormType /\ g.wait = Nothing /\ g.step = 2 /\ g.loading /\ g.amt = form.amt
        /\ ~form.loading
    BY <1>0, <2>1, <2>2 DEF Started, Ready, Shows, FormType
  <2>4. ShownFits(g, row, payment)
    BY <2>3 DEF ShownFits
  <2>5. PICK o \in FormRequests :
          /\ o.op # "poll" /\ ~o.gone /\ o.amt = form.amt
          /\ OnForm(g, <<o>>)
    <3>1. CASE StartMomoPay
      BY <1>0, <2>1, <3>1, RequestType DEF StartMomoPay
    <3>2. CASE OnForm(Started, <<Request("add")>>)
      BY <1>0, <2>1, <3>2, RequestType
    <3>3. CASE OnForm(Started, <<[Request("add") EXCEPT !.status = "pledged"]>>)
      <4>1. PICK o : o = [Request("add") EXCEPT !.status = "pledged"]
        OBVIOUS
      <4>2. o \in FormRequests /\ o.op = "add" /\ o.amt = form.amt /\ ~o.gone
        BY <1>0, <4>1, RequestType DEF FormRequests
      <4> QED BY <2>1, <3>3, <4>1, <4>2
    <3> QED BY <1>1, <3>1, <3>2, <3>3 DEF RecordContribution
  <2>6. Sends(form, g, <<o>>)
    BY <2>3, <2>5 DEF Sends, Live, Expects, OfShown
  <2> QED BY <2>4, <2>5, <2>6, OnFormFits
<1>2. CASE FormTick
  <2>1. form.wait # Nothing /\ form.step # 3 /\ form.wait \in References
    BY <1>0, <1>2 DEF FormTick, ShownFits, FormType
  <2>2. \A g : StillExpects(form, g)
    BY <2>1 DEF StillExpects, Expects
  <2>3. CASE form.polls = MaxFormPolls
    <3>1. PICK g : g = EndWait
      OBVIOUS
    <3>2. g \in FormType /\ g.wait = Nothing /\ g.step = form.step
      BY <1>0, <3>1 DEF EndWait, FormType
    <3>3. ShownFits(g, row, payment)
      BY <2>1, <3>2 DEF ShownFits
    <3>4. Sends(form, g, <<>>)
      BY <2>2 DEF Sends
    <3> QED BY <1>2, <2>3, <3>1, <3>3, <3>4, OnFormFits DEF FormTick
  <2>4. CASE form.polls # MaxFormPolls
    <3>1. PICK g : g = [form EXCEPT !.polls = @ + 1]
      OBVIOUS
    <3>2. /\ g \in FormType /\ g.wait = form.wait /\ g.step = form.step
          /\ g.retyped = form.retyped /\ g.amt = form.amt
      BY <1>0, <2>4, <3>1 DEF FormType
    <3>3. ShownFits(g, row, payment)
      BY <1>0, <2>1, <3>2 DEF ShownFits, OfShown
    <3>4. PICK o : o = [Request("poll") EXCEPT !.p = form.wait, !.amt = 0]
      OBVIOUS
    <3>5. o \in FormRequests /\ o.op = "poll" /\ o.p = form.wait
      BY <1>0, <2>1, <3>4, RequestType DEF FormRequests
    <3>6. Sends(form, g, <<>>) /\ Sends(form, g, <<o>>)
      BY <2>1, <2>2, <3>5 DEF Sends, Live
    <3>7. OnForm(g, <<o>>) \/ OnForm(g, <<>>)
      BY <1>2, <2>4, <3>1, <3>4 DEF FormTick
    <3> QED BY <3>3, <3>6, <3>7, OnFormFits
  <2> QED BY <2>3, <2>4
<1> QED BY <1>1, <1>2

LEMMA FormLeft ==
  ASSUME FormFits, LeaveForm
  PROVE  FormFits'
<1>1. PICK g : g = EmptyForm(form.momo)
  OBVIOUS
<1>2. ShownFits(g, row, payment)
  BY <1>1, EmptyFits DEF FormFits, ShownFits, FormType
<1>3. SentFits(g, sent')
  BY LeftFits DEF LeaveForm, FormFits
<1> QED BY <1>1, <1>2, <1>3 DEF LeaveForm, FormFits

\* Answers.
LEMMA RefuseType ==
  ASSUME form \in FormType
  PROVE  /\ Refuse \in FormType /\ Refuse.wait = form.wait /\ Refuse.step = form.step
         /\ EndWait \in FormType /\ EndWait.wait = Nothing /\ EndWait.step = form.step
BY DEF Refuse, EndWait, FormType

LEMMA ThanksType ==
  ASSUME form \in FormType, NEW c \in Rows, NEW status \in {"paid", "pledged"}
  PROVE  LET g == Thanks(c, status)
         IN  /\ g \in FormType /\ g.step = 3 /\ g.wait = Nothing /\ g.done = c
             /\ g.lastStatus = status /\ g.retyped = form.retyped /\ g.amt = form.amt
BY DEF Thanks, FormType

LEMMA HeadFits ==
  ASSUME FormFits, sent # <<>>
  PROVE  /\ Head(sent) \in FormRequests
         /\ Head(sent).op = "poll" => Head(sent).p \in References
         /\ Live(Head(sent)) => Expects(form, Head(sent).amt)
<1>1. 1 \in DOMAIN sent /\ Head(sent) = sent[1] /\ Head(sent) \in FormRequests
  BY QueueLess DEF FormFits, SentFits
<1> QED BY <1>1 DEF FormFits, SentFits

LEMMA AnswerFits ==
  ASSUME FormFits, Keeps(row, payment, row', payment'), sent # <<>>, NEW g, Answer(g),
         ~Head(sent).gone =>
           ShownFits(g, row', payment') /\ (Live(Head(sent)) \/ StillExpects(form, g))
  PROVE  FormFits'
<1>1. ShownFits(form, row', payment') /\ SentFits(form, sent)
  BY ShownStays DEF FormFits
<1>2. sent' = Tail(sent)
  BY DEF Answer
<1>3. CASE Head(sent).gone
  <2>1. form' = form /\ StillExpects(form, form)
    BY <1>3 DEF Answer, StillExpects
  <2> QED BY <1>1, <1>2, <2>1, SentLess DEF FormFits
<1>4. CASE ~Head(sent).gone
  <2>1. form' = g
    BY <1>4 DEF Answer
  <2>2. SentFits(g, Tail(sent))
    BY <1>1, <1>4, SentLess
  <2> QED BY <1>2, <1>4, <2>1, <2>2 DEF FormFits
<1> QED BY <1>3, <1>4

\* An answer that changes nothing of what is shown.
LEMMA AnswerSame ==
  ASSUME FormFits, Keeps(row, payment, row', payment'), sent # <<>>, Answer(form)
  PROVE  FormFits'
<1>1. ShownFits(form, row', payment') /\ StillExpects(form, form)
  BY ShownStays DEF FormFits, StillExpects
<1> QED BY <1>1, AnswerFits

\* An error.
LEMMA AnswerRefuse ==
  ASSUME FormFits, Keeps(row, payment, row', payment'), sent # <<>>, Head(sent).op # "poll", Answer(Refuse)
  PROVE  FormFits'
<1>0. form \in FormType
  BY DEF FormFits, ShownFits
<1>1. ASSUME ~Head(sent).gone
      PROVE  ShownFits(Refuse, row', payment') /\ Live(Head(sent))
  <2>1. Live(Head(sent)) /\ form.wait = Nothing /\ form.step # 3
    BY <1>1, HeadFits DEF Live, Expects
  <2>2. Refuse \in FormType /\ Refuse.wait = Nothing /\ Refuse.step # 3
    BY <1>0, <2>1, RefuseType
  <2> QED BY <2>1, <2>2 DEF ShownFits
<1> QED BY <1>1, AnswerFits

LEMMA SameKeeps == RowsFit /\ UNCHANGED <<row, payment>> => RowsFit' /\ Keeps(row, payment, row', payment')
BY DEF RowsFit, Keeps, Rows

LEMMA FormRefusedFits ==
  ASSUME RowsFit, FormFits, FormRefused
  PROVE  RowsFit' /\ FormFits'
<1>1. sent # <<>> /\ Head(sent).op # "poll" /\ UNCHANGED <<row, payment>>
  BY DEF FormRefused, Answering
<1>2. RowsFit' /\ Keeps(row, payment, row', payment')
  BY <1>1, SameKeeps
<1> QED BY <1>1, <1>2, AnswerSame, AnswerRefuse DEF FormRefused

LEMMA InitiateFits ==
  ASSUME RowsFit, FormFits, InitiateServed
  PROVE  RowsFit' /\ FormFits'
<1>0. form \in FormType
  BY DEF FormFits, ShownFits
<1>1. /\ sent # <<>> /\ Head(sent).op = "initiate" /\ row' = row
      /\ Head(sent).amt \in Prices \cup {0}
  BY HeadFits DEF InitiateServed, Answering, FormRequests
<1>2. PICK p \in References :
        /\ payment[p].state = "none"
        /\ \/ /\ payment' = [payment EXCEPT ![p] = [state |-> "pending", amt |-> Head(sent).amt]]
              /\ Answer([form EXCEPT !.loading = FALSE, !.wait = p]) \/ Answer(Refuse) \/ Answer(form)
           \/ payment' = [payment EXCEPT ![p].state = "deleted"] /\ Answer(Refuse)
  BY DEF InitiateServed
<1>3. CASE /\ payment' = [payment EXCEPT ![p] = [state |-> "pending", amt |-> Head(sent).amt]]
           /\ Answer([form EXCEPT !.loading = FALSE, !.wait = p]) \/ Answer(Refuse) \/ Answer(form)
  <2>1. PICK o \in PaymentType : o = [state |-> "pending", amt |-> Head(sent).amt]
    BY <1>1 DEF PaymentType
  <2>2. RowsFit' /\ Keeps(row, payment, row', payment') /\ payment'[p] = o
    BY <1>1, <1>2, <1>3, <2>1, PaymentKeeps
  <2>3. ASSUME NEW g, g = [form EXCEPT !.loading = FALSE, !.wait = p], Answer(g)
        PROVE  FormFits'
    <3>1. g \in FormType /\ g.wait = p /\ g.step = form.step /\ g.retyped = form.retyped /\ g.amt = form.amt
      BY <1>0, <2>3 DEF FormType
    <3>2. ASSUME ~Head(sent).gone
          PROVE  ShownFits(g, row', payment') /\ Live(Head(sent))
      <4>1. Live(Head(sent)) /\ form.step # 3 /\ OfShown(form, Head(sent).amt)
        BY <1>1, <3>2, HeadFits DEF Live, Expects
      <4>2. row'[p].status = "none"
        BY <1>1, <1>2 DEF RowsFit
      <4> QED BY <2>1, <2>2, <3>1, <4>1, <4>2 DEF ShownFits, OfShown
    <3> QED BY <1>1, <2>2, <2>3, <3>2, AnswerFits
  <2>4. RowsFit' /\ FormFits'
    BY <1>1, <1>3, <2>2, <2>3, AnswerSame, AnswerRefuse
  <2> QED BY <2>4
<1>4. CASE payment' = [payment EXCEPT ![p].state = "deleted"] /\ Answer(Refuse)
  <2>1. PICK o : o = [payment[p] EXCEPT !.state = "deleted"]
    OBVIOUS
  <2>2. o \in PaymentType /\ o.state = "deleted" /\ payment' = [payment EXCEPT ![p] = o]
    BY <1>4, <2>1 DEF RowsFit, PaymentType
  <2>3. RowsFit' /\ Keeps(row, payment, row', payment')
    BY <1>1, <1>2, <2>2, PaymentKeeps
  <2> QED BY <1>1, <1>4, <2>3, AnswerRefuse
<1> QED BY <1>2, <1>3, <1>4

LEMMA AddFits ==
  ASSUME RowsFit, FormFits, AddServed
  PROVE  RowsFit' /\ FormFits'
<1>0. form \in FormType
  BY DEF FormFits, ShownFits
<1>1. /\ sent # <<>> /\ Head(sent).op = "add" /\ payment' = payment
      /\ Head(sent).amt \in Prices \cup {0} /\ Head(sent).status \in {"paid", "pledged"}
  BY HeadFits DEF AddServed, Answering, FormRequests
<1>2. PICK c \in Entries \ Recorded :
        /\ Insert(c, Head(sent).status, Head(sent).amt)
        /\ Answer(Thanks(c, Head(sent).status)) \/ Answer(Refuse) \/ Answer(form)
  BY DEF AddServed
<1>3. /\ RowsFit' /\ Keeps(row, payment, row', payment')
      /\ row'[c] = [status |-> Head(sent).status, amt |-> Head(sent).amt, visible |-> TRUE]
  <2>1. PICK status \in {"paid", "pledged"}, amt \in Prices \cup {0} :
          status = Head(sent).status /\ amt = Head(sent).amt
    BY <1>1
  <2>2. Insert(c, status, amt) /\ payment' = payment
    BY <1>1, <1>2, <2>1
  <2>3. /\ RowsFit' /\ Keeps(row, payment, row', payment')
        /\ row'[c] = [status |-> status, amt |-> amt, visible |-> TRUE]
    BY <2>2, InsertKeeps
  <2> QED BY <2>1, <2>3
<1>4. ASSUME NEW g, g = Thanks(c, Head(sent).status), Answer(g)
      PROVE  FormFits'
  <2>1. /\ g \in FormType /\ g.step = 3 /\ g.wait = Nothing /\ g.done = c /\ c \in Rows
        /\ g.lastStatus = Head(sent).status /\ g.retyped = form.retyped /\ g.amt = form.amt
    <3>1. c \in Rows
      BY DEF Rows
    <3> QED BY <1>0, <1>1, <1>4, <3>1, ThanksType
  <2>2. ASSUME ~Head(sent).gone
        PROVE  ShownFits(g, row', payment') /\ Live(Head(sent))
    <3>1. Live(Head(sent)) /\ OfShown(form, Head(sent).amt)
      BY <1>1, <2>2, HeadFits DEF Live, Expects
    <3> QED BY <1>3, <2>1, <3>1 DEF ShownFits, OfShown
  <2> QED BY <1>1, <1>3, <1>4, <2>2, AnswerFits
<1> QED BY <1>1, <1>2, <1>3, <1>4, AnswerSame, AnswerRefuse

LEMMA PollFits ==
  ASSUME RowsFit, FormFits, PollRefused \/ PollServed
  PROVE  RowsFit' /\ FormFits'
<1>0. form \in FormType
  BY DEF FormFits, ShownFits
<1>1. sent # <<>> /\ Head(sent).op = "poll" /\ Head(sent).p \in References
  BY HeadFits DEF PollRefused, PollServed, Answering
<1>2. RowsFit' /\ Keeps(row, payment, row', payment')
  BY <1>1, SameKeeps, RecordKeeps DEF PollRefused, PollServed
<1>3. CASE Answer(form)
  BY <1>1, <1>2, <1>3, AnswerSame
<1>4. CASE form.wait # Head(sent).p
  <2>1. Answer(form)
    BY <1>4 DEF PollRefused, PollServed, Waiting
  <2> QED BY <2>1, <1>3
<1>5. CASE form.wait = Head(sent).p
  <2>1. form.wait # Nothing /\ form.step # 3 /\ form.wait \in Rows
    BY <1>1, <1>5 DEF FormFits, ShownFits, Rows
  <2>2. \A g : StillExpects(form, g)
    BY <2>1 DEF StillExpects, Expects
  <2>3. CASE Answer(EndWait)
    <3>1. ShownFits(EndWait, row', payment')
      BY <1>0, <2>1, RefuseType DEF ShownFits
    <3> QED BY <1>1, <1>2, <2>2, <2>3, <3>1, AnswerFits
  <2>4. CASE row'[form.wait].status = "paid" /\ Answer(Thanks(form.wait, "paid"))
    <3>1. PICK g : g = Thanks(form.wait, "paid")
      OBVIOUS
    <3>2. /\ g \in FormType /\ g.step = 3 /\ g.wait = Nothing /\ g.done = form.wait
          /\ g.lastStatus = "paid" /\ g.retyped = form.retyped /\ g.amt = form.amt
      BY <1>0, <2>1, <3>1, ThanksType
    <3>3. ShownFits(form, row', payment')
      BY <1>2, ShownStays DEF FormFits
    <3>4. ShownFits(g, row', payment')
      BY <2>1, <2>4, <3>2, <3>3 DEF ShownFits, OfShown
    <3> QED BY <1>1, <1>2, <2>2, <2>4, <3>1, <3>4, AnswerFits
  <2> QED BY <1>2, <1>3, <1>5, <2>3, <2>4 DEF PollRefused, PollServed, Waiting
<1> QED BY <1>2, <1>4, <1>5

\* The provider and the job.
LEMMA SettlesFits ==
  ASSUME RowsFit, NEW p \in References, ProviderSettles(p)
  PROVE  RowsFit' /\ Keeps(row, payment, row', payment')
<1>0. payment[p] \in PaymentType /\ payment[p].state = "pending" /\ row' = row
  BY DEF ProviderSettles, RowsFit
<1>1. CASE payment' = [payment EXCEPT ![p].state = "success"]
  <2>1. PICK o : o = [payment[p] EXCEPT !.state = "success"]
    OBVIOUS
  <2>2. o \in PaymentType /\ o.state = "success" /\ o.amt = payment[p].amt
    BY <1>0, <2>1 DEF PaymentType
  <2>3. payment' = [payment EXCEPT ![p] = o]
    BY <1>1, <2>1 DEF RowsFit
  <2> QED BY <1>0, <2>2, <2>3, PaymentKeeps
<1>2. CASE payment' = [payment EXCEPT ![p] = [state |-> "failed", amt |-> 0]]
  <2>1. [state |-> "failed", amt |-> 0] \in PaymentType
    BY DEF PaymentType
  <2> QED BY <1>0, <1>2, <2>1, PaymentKeeps
<1> QED BY <1>1, <1>2 DEF ProviderSettles

LEMMA FormStep ==
  ASSUME RowsFit, FormFits, FormNext
  PROVE  RowsFit' /\ FormFits'
<1>1. CASE \/ TypePrice \/ Continue \/ BackToAmount \/ TickAnonymous \/ ExpandPledge
           \/ StartMomoPay \/ RecordContribution \/ FormTick \/ CancelPayment \/ MakeAnother \/ LeaveForm
  <2>1. UNCHANGED <<row, payment>>
    BY <1>1 DEF TypePrice, Continue, BackToAmount, TickAnonymous, ExpandPledge, StartMomoPay,
                RecordContribution, FormTick, CancelPayment, MakeAnother, LeaveForm, OnForm
  <2> QED BY <1>1, <2>1, SameKeeps, FormClicks, FormSends, FormLeft
<1>2. CASE FormRefused \/ InitiateServed \/ AddServed \/ PollRefused \/ PollServed
  BY <1>2, FormRefusedFits, InitiateFits, AddFits, PollFits
<1>3. ASSUME NEW p \in References, ProviderSettles(p) \/ Reconcile(p)
      PROVE  RowsFit' /\ FormFits'
  <2>1. RowsFit' /\ Keeps(row, payment, row', payment') /\ UNCHANGED formVars
    BY <1>3, SettlesFits, RecordKeeps DEF ProviderSettles, Reconcile
  <2> QED BY <2>1, ShownStays DEF FormFits, formVars
<1> QED BY <1>1, <1>2, <1>3 DEF FormNext

-----------------------------------------------------------------------------
(***************************************************************************)
(* The treasurer's page.                                                   *)
(***************************************************************************)
DeskType ==
  [rows : SUBSET Rows, visible : SUBSET Rows, open : BOOLEAN, modal : BOOLEAN, saving : BOOLEAN,
   toggling : Rows \cup {Nothing}, asked : [Rows -> {"nothing", "shown", "hidden"}]]
DeskRequests == [op : {"add", "visibility", "refresh"}, c : Rows \cup {Nothing}, show : BOOLEAN]

WillRefresh(s) == \E k \in DOMAIN s : s[k].op = "refresh"

\* d is what the page shows, s its requests, r the rows.  What was asked for a
\* row is so, and is shown or will be once the page has refreshed.
AskedFits(d, s, r) ==
  \A c \in Rows : d.asked[c] # "nothing" =>
    /\ r[c].status # "none" /\ (r[c].visible <=> d.asked[c] = "shown")
    /\ (c \in d.visible <=> r[c].visible) \/ WillRefresh(s)

TogglesFit(s, r) ==
  /\ s \in Seq(DeskRequests)
  /\ \A k \in DOMAIN s : s[k].op = "visibility" => s[k].c \in Rows /\ r[s[k].c].status # "none"

DeskFits ==
  /\ desk \in DeskType /\ \A c \in desk.rows : row[c].status # "none"
  /\ TogglesFit(deskSent, row)
  /\ AskedFits(desk, deskSent, row)

\* No row is taken away.
Grows(r, s) == \A c \in Rows : r[c].status # "none" => s[c].status # "none"

LEMMA TogglesStay ==
  ASSUME NEW s, NEW r, NEW t, TogglesFit(s, r), Grows(r, t)
  PROVE  TogglesFit(s, t)
BY DEF TogglesFit, Grows

LEMMA TogglesMore ==
  ASSUME NEW s, NEW r, TogglesFit(s, r), NEW o \in DeskRequests,
         o.op = "visibility" => o.c \in Rows /\ r[o.c].status # "none"
  PROVE  /\ TogglesFit(s \o <<o>>, r) /\ (WillRefresh(s) => WillRefresh(s \o <<o>>))
         /\ o.op = "refresh" => WillRefresh(s \o <<o>>)
<1> DEFINE t == s \o <<o>>
<1>1. s \in Seq(DeskRequests)
  BY DEF TogglesFit
<1>2. /\ t \in Seq(DeskRequests) /\ DOMAIN t = DOMAIN s \cup {Len(s) + 1}
      /\ t[Len(s) + 1] = o /\ \A k \in DOMAIN s : t[k] = s[k]
  BY <1>1, QueueMore
<1> HIDE DEF t
<1>3. TogglesFit(t, r) /\ (WillRefresh(s) => WillRefresh(t)) /\ (o.op = "refresh" => WillRefresh(t))
  BY <1>2 DEF TogglesFit, WillRefresh
<1> QED BY <1>3 DEF t

LEMMA TogglesLess ==
  ASSUME NEW s, NEW r, TogglesFit(s, r), s # <<>>
  PROVE  /\ TogglesFit(Tail(s), r) /\ Head(s) \in DeskRequests
         /\ Head(s).op = "visibility" => Head(s).c \in Rows /\ r[Head(s).c].status # "none"
         /\ Head(s).op # "refresh" /\ WillRefresh(s) => WillRefresh(Tail(s))
<1> DEFINE t == Tail(s)
<1>1. s \in Seq(DeskRequests)
  BY DEF TogglesFit
<1>2. /\ t \in Seq(DeskRequests) /\ 1 \in DOMAIN s /\ Head(s) = s[1] /\ Head(s) \in DeskRequests
      /\ \A k \in DOMAIN t : k + 1 \in DOMAIN s /\ k + 1 # 1 /\ t[k] = s[k + 1] /\ k \in Nat
      /\ \A k \in DOMAIN s : k # 1 => k - 1 \in DOMAIN t /\ t[k - 1] = s[k]
  BY <1>1, QueueLess
<1> HIDE DEF t
<1>3. TogglesFit(t, r)
  BY <1>2 DEF TogglesFit
<1>4. Head(s).op # "refresh" /\ WillRefresh(s) => WillRefresh(t)
  BY <1>2 DEF WillRefresh
<1>5. Head(s).op = "visibility" => Head(s).c \in Rows /\ r[Head(s).c].status # "none"
  BY <1>2 DEF TogglesFit
<1> QED BY <1>2, <1>3, <1>4, <1>5 DEF t

\* A step that keeps what was asked and the rows asked about.
LEMMA AskedStays ==
  ASSUME NEW d, NEW s, NEW r, NEW e, NEW t, NEW q, AskedFits(d, s, r),
         \A c \in Rows : e.asked[c] # "nothing" => e.asked[c] = d.asked[c],
         \A c \in Rows : r[c].status # "none" => q[c] = r[c],
         e.visible = d.visible, WillRefresh(s) => WillRefresh(t)
  PROVE  AskedFits(e, t, q)
BY DEF AskedFits

\* A page that is loaded shows the rows, and nothing was asked for.
LEMMA LoadedFits ==
  ASSUME row \in [Rows -> RowType], NEW open \in BOOLEAN
  PROVE  LET d == LoadedDesk(open)
         IN  /\ d \in DeskType /\ \A c \in d.rows : row[c].status # "none"
             /\ \A c \in Rows : d.asked[c] = "nothing"
BY DEF LoadedDesk, DeskType, Recorded, Visible

\* A new page with the same marks on it, and one request more or the same ones.
LEMMA DeskSame ==
  ASSUME DeskFits, NEW e \in DeskType, NEW requests, OnDesk(e, requests),
         e.rows = desk.rows, e.visible = desk.visible, e.asked = desk.asked,
         \/ requests = deskSent
         \/ \E o \in DeskRequests :
              /\ requests = Append(deskSent, o)
              /\ o.op = "visibility" => o.c \in Rows /\ row[o.c].status # "none"
  PROVE  DeskFits'
<1>1. desk' = e /\ deskSent' = requests /\ row' = row
  BY DEF OnDesk
<1>2. TogglesFit(requests, row) /\ (WillRefresh(deskSent) => WillRefresh(requests))
  <2>1. ASSUME NEW o \in DeskRequests, requests = Append(deskSent, o),
               o.op = "visibility" => o.c \in Rows /\ row[o.c].status # "none"
        PROVE  TogglesFit(requests, row) /\ (WillRefresh(deskSent) => WillRefresh(requests))
    <3>1. requests = deskSent \o <<o>>
      BY <2>1, AppendIsConcat DEF DeskFits, TogglesFit
    <3>2. TogglesFit(deskSent, row)
      BY DEF DeskFits
    <3>3. /\ TogglesFit(deskSent \o <<o>>, row)
          /\ WillRefresh(deskSent) => WillRefresh(deskSent \o <<o>>)
      BY <2>1, <3>2, TogglesMore
    <3> QED BY <3>1, <3>3
  <2> QED BY <2>1 DEF DeskFits
<1>3. AskedFits(e, requests, row)
  BY <1>2, AskedStays DEF DeskFits
<1> QED BY <1>1, <1>2, <1>3 DEF DeskFits

LEMMA DeskClicks ==
  ASSUME DeskFits,
         OpenModal \/ CloseModal \/ HandleAddContribution \/ \E c \in Rows : ToggleVisibility(c)
  PROVE  DeskFits'
<1>0. desk \in DeskType
  BY DEF DeskFits
<1>1. CASE OpenModal \/ CloseModal
  <2>1. PICK modal \in BOOLEAN : OnDesk([desk EXCEPT !.modal = modal], deskSent)
    BY <1>1 DEF OpenModal, CloseModal
  <2>2. PICK e : e = [desk EXCEPT !.modal = modal]
    OBVIOUS
  <2>3. e \in DeskType /\ e.rows = desk.rows /\ e.visible = desk.visible /\ e.asked = desk.asked
    BY <1>0, <2>2 DEF DeskType
  <2> QED BY <2>1, <2>2, <2>3, DeskSame
<1>2. CASE HandleAddContribution
  <2>1. PICK e : e = [desk EXCEPT !.saving = TRUE]
    OBVIOUS
  <2>2. e \in DeskType /\ e.rows = desk.rows /\ e.visible = desk.visible /\ e.asked = desk.asked
    BY <1>0, <2>1 DEF DeskType
  <2>3. DeskRequest("add") \in DeskRequests /\ DeskRequest("add").op # "visibility"
    BY DEF DeskRequest, DeskRequests
  <2>4. OnDesk(e, Append(deskSent, DeskRequest("add")))
    BY <1>2, <2>1 DEF HandleAddContribution
  <2> QED BY <2>2, <2>3, <2>4, DeskSame
<1>3. ASSUME NEW c \in Rows, ToggleVisibility(c)
      PROVE  DeskFits'
  <2>1. PICK e : e = [desk EXCEPT !.toggling = c]
    OBVIOUS
  <2>2. e \in DeskType /\ e.rows = desk.rows /\ e.visible = desk.visible /\ e.asked = desk.asked
    BY <1>0, <2>1 DEF DeskType
  <2>3. PICK o : o = [DeskRequest("visibility") EXCEPT !.c = c, !.show = c \notin desk.visible]
    OBVIOUS
  <2>4. o \in DeskRequests /\ o.c = c
    BY <2>3 DEF DeskRequest, DeskRequests
  <2>5. row[c].status # "none"
    BY <1>3 DEF ToggleVisibility, DeskFits
  <2>6. OnDesk(e, Append(deskSent, o))
    BY <1>3, <2>1, <2>3 DEF ToggleVisibility
  <2> QED BY <2>2, <2>4, <2>5, <2>6, DeskSame
<1> QED BY <1>1, <1>2, <1>3

LEMMA OpenDeskFits ==
  ASSUME RowsFit, OpenDesk
  PROVE  DeskFits'
<1>1. PICK open \in BOOLEAN : OnDesk(LoadedDesk(open), <<>>)
  BY DEF OpenDesk
<1>2. PICK d : d = LoadedDesk(open)
  OBVIOUS
<1>3. d \in DeskType /\ (\A c \in d.rows : row[c].status # "none") /\ \A c \in Rows : d.asked[c] = "nothing"
  BY <1>2, LoadedFits DEF RowsFit
<1>4. desk' = d /\ deskSent' = <<>> /\ row' = row
  BY <1>1, <1>2 DEF OnDesk
<1>5. TogglesFit(<<>>, row)
  <2>1. <<>> \in Seq(DeskRequests) /\ DOMAIN <<>> = {}
    BY EmptySeq
  <2> QED BY <2>1 DEF TogglesFit
<1>6. AskedFits(d, <<>>, row)
  BY <1>3 DEF AskedFits
<1> QED BY <1>3, <1>4, <1>5, <1>6 DEF DeskFits

LEMMA RefreshType == DeskRequest("refresh") \in DeskRequests /\ DeskRequest("refresh").op = "refresh"
BY DEF DeskRequest, DeskRequests

\* The requests after an answer, with the refresh it may ask for.
LEMMA ServedSent ==
  ASSUME DeskFits, deskSent # <<>>, NEW e, NEW next \in {<<>>, Refresh}, Served(e, next)
  PROVE  /\ desk' = e /\ TogglesFit(deskSent', row) /\ (next = Refresh => WillRefresh(deskSent'))
         /\ Head(deskSent).op # "refresh" /\ WillRefresh(deskSent) => WillRefresh(deskSent')
<1>1. PICK s : s = Tail(deskSent)
  OBVIOUS
<1>2. /\ TogglesFit(s, row)
      /\ Head(deskSent).op # "refresh" /\ WillRefresh(deskSent) => WillRefresh(s)
  BY <1>1, TogglesLess DEF DeskFits
<1>3. s \in Seq(DeskRequests)
  BY <1>2 DEF TogglesFit
<1>4. s \o <<>> = s
  BY <1>3, ConcatEmptySeq
<1>5. /\ TogglesFit(s \o Refresh, row) /\ WillRefresh(s \o Refresh)
  <2>1. PICK o \in DeskRequests : o = DeskRequest("refresh") /\ o.op = "refresh"
    BY RefreshType
  <2>2. TogglesFit(s \o <<o>>, row) /\ WillRefresh(s \o <<o>>)
    <3>1. o.op # "visibility"
      BY <2>1
    <3> QED BY <1>2, <2>1, <3>1, TogglesMore
  <2> QED BY <2>1, <2>2 DEF Refresh
<1>6. desk' = e /\ deskSent' = s \o next
  BY <1>1 DEF Served
<1>7. Refresh # <<>>
  BY DEF Refresh
<1>8. CASE next = Refresh
  BY <1>5, <1>6, <1>8
<1>9. CASE next = <<>>
  BY <1>2, <1>4, <1>6, <1>7, <1>9
<1> QED BY <1>8, <1>9

\* An answer: the page keeps its rows and their marks, no row is taken away.
LEMMA AnswerDesk ==
  ASSUME DeskFits, deskSent # <<>>, NEW e \in DeskType, NEW next \in {<<>>, Refresh}, Served(e, next),
         e.rows = desk.rows, Grows(row, row'), AskedFits(e, deskSent', row')
  PROVE  DeskFits'
<1>1. desk' = e /\ TogglesFit(deskSent', row)
  BY ServedSent
<1>2. TogglesFit(deskSent', row')
  BY <1>1, TogglesStay
<1>3. \A c \in e.rows : row'[c].status # "none"
  BY DEF DeskFits, Grows, DeskType
<1> QED BY <1>1, <1>2, <1>3 DEF DeskFits

LEMMA AddedByHandFits ==
  ASSUME RowsFit, DeskFits, AddedByHand
  PROVE  RowsFit' /\ DeskFits'
<1>1. PICK e, next :
        /\ e \in {[desk EXCEPT !.saving = FALSE, !.modal = FALSE], [desk EXCEPT !.saving = FALSE]}
        /\ next \in {<<>>, Refresh} /\ Served(e, next)
  BY DEF AddedByHand
<1>2. /\ e \in DeskType /\ e.rows = desk.rows /\ e.visible = desk.visible /\ e.asked = desk.asked
  BY <1>1 DEF DeskFits, DeskType
<1>3. deskSent # <<>> /\ Head(deskSent).op = "add" /\ payment' = payment
  BY <1>1 DEF AddedByHand, DeskServing, Served
<1>4. RowsFit' /\ Keeps(row, payment, row', payment')
  <2>1. CASE UNCHANGED row
    BY <1>3, <2>1, SameKeeps
  <2>2. ASSUME NEW c \in Entries \ Recorded, Insert(c, "paid", OfAnyAmount)
        PROVE  RowsFit' /\ Keeps(row, payment, row', payment')
    <3>1. OfAnyAmount \in Prices
      BY DEF OfAnyAmount
    <3> QED BY <1>3, <2>2, <3>1, InsertKeeps
  <2> QED BY <2>1, <2>2 DEF AddedByHand
<1>5. \A c \in Rows : row[c].status # "none" => row'[c] = row[c]
  BY <1>4 DEF Keeps
<1>6. AskedFits(e, deskSent', row')
  <2>1. WillRefresh(deskSent) => WillRefresh(deskSent')
    BY <1>1, <1>3, ServedSent
  <2> QED BY <1>2, <1>5, <2>1, AskedStays DEF DeskFits
<1>7. Grows(row, row')
  BY <1>5 DEF Grows
<1> QED BY <1>1, <1>2, <1>3, <1>4, <1>6, <1>7, AnswerDesk

LEMMA VisibilityFits ==
  ASSUME RowsFit, DeskFits, VisibilitySet
  PROVE  RowsFit' /\ DeskFits'
<1>1. PICK c : c = Head(deskSent).c
  OBVIOUS
<1>2. PICK show : show = Head(deskSent).show
  OBVIOUS
<1>3. /\ deskSent # <<>> /\ Head(deskSent).op = "visibility"
      /\ c \in Rows /\ row[c].status # "none" /\ show \in BOOLEAN
  <2>1. deskSent # <<>> /\ Head(deskSent).op = "visibility"
    BY DEF VisibilitySet, DeskServing
  <2>2. Head(deskSent) \in DeskRequests /\ c \in Rows /\ row[c].status # "none"
    BY <1>1, <2>1, TogglesLess DEF DeskFits
  <2> QED BY <1>2, <2>1, <2>2 DEF DeskRequests
<1>4. /\ row' = row \/ row' = [row EXCEPT ![c].visible = show]
      /\ UNCHANGED payment
  BY <1>1, <1>2 DEF VisibilitySet, Served
<1>5. /\ row' \in [Rows -> RowType]
      /\ \A d \in Rows : row'[d].status = row[d].status /\ (d # c => row'[d] = row[d])
      /\ row' = [row EXCEPT ![c].visible = show] => row'[c].visible = show
  <2>1. row \in [Rows -> RowType]
    BY DEF RowsFit
  <2>2. PICK o : o = [row[c] EXCEPT !.visible = show]
    OBVIOUS
  <2>3. o \in RowType /\ o.status = row[c].status /\ o.visible = show
    BY <1>3, <2>1, <2>2 DEF RowType
  <2>4. CASE row' = [row EXCEPT ![c].visible = show]
    <3>1. row' = [row EXCEPT ![c] = o]
      BY <2>1, <2>2, <2>4
    <3>2. row'[c] = o /\ \A d \in Rows : d # c => row'[d] = row[d]
      BY <1>3, <2>1, <3>1
    <3> QED BY <1>3, <2>1, <2>3, <3>1, <3>2
  <2>5. CASE row' = row /\ row # [row EXCEPT ![c].visible = show]
    BY <2>1, <2>5
  <2> QED BY <1>4, <2>4, <2>5
<1>6. RowsFit' /\ Grows(row, row')
  BY <1>4, <1>5 DEF RowsFit, Grows, Rows
<1>0. desk \in DeskType
  BY DEF DeskFits
<1>7. ASSUME NEW v \in {"shown", "hidden", "nothing"}, NEW next \in {<<>>, Refresh},
             Served([desk EXCEPT !.toggling = Nothing, !.asked[c] = v], next),
             v = "nothing" \/ (next = Refresh /\ row'[c].visible = show /\ v = IF show THEN "shown" ELSE "hidden")
      PROVE  DeskFits'
  <2>1. PICK e : e = [desk EXCEPT !.toggling = Nothing, !.asked[c] = v]
    OBVIOUS
  <2>2. /\ e \in DeskType /\ e.rows = desk.rows /\ e.visible = desk.visible
        /\ \A d \in Rows : e.asked[d] = IF d = c THEN v ELSE desk.asked[d]
    BY <1>0, <1>3, <2>1 DEF DeskType
  <2>3. /\ WillRefresh(deskSent) => WillRefresh(deskSent')
        /\ next = Refresh => WillRefresh(deskSent')
    BY <1>3, <1>7, <2>1, ServedSent
  <2>4. AskedFits(e, deskSent', row')
    <3>1. ASSUME NEW d \in Rows, d # c, e.asked[d] # "nothing"
          PROVE  /\ row'[d].status # "none" /\ (row'[d].visible <=> e.asked[d] = "shown")
                 /\ (d \in e.visible <=> row'[d].visible) \/ WillRefresh(deskSent')
      BY <1>5, <2>2, <2>3, <3>1 DEF DeskFits, AskedFits
    <3>2. ASSUME e.asked[c] # "nothing"
          PROVE  /\ row'[c].status # "none" /\ (row'[c].visible <=> e.asked[c] = "shown")
                 /\ WillRefresh(deskSent')
      <4>1. v # "nothing"
        BY <1>3, <2>2, <3>2
      <4>2. row'[c].visible = show /\ v = (IF show THEN "shown" ELSE "hidden") /\ next = Refresh
        BY <1>7, <4>1
      <4>3. show <=> v = "shown"
        BY <4>2
      <4> QED BY <1>3, <1>5, <2>2, <2>3, <4>2, <4>3
    <3> QED BY <3>1, <3>2 DEF AskedFits
  <2>5. Served(e, next)
    BY <1>7, <2>1
  <2> QED BY <1>3, <1>6, <2>2, <2>4, <2>5, AnswerDesk
<1>8. CASE /\ row' = [row EXCEPT ![c].visible = show]
           /\ Served([desk EXCEPT !.toggling = Nothing, !.asked[c] = IF show THEN "shown" ELSE "hidden"], Refresh)
  BY <1>3, <1>5, <1>6, <1>7, <1>8
<1>9. CASE Served([desk EXCEPT !.toggling = Nothing, !.asked[c] = "nothing"], <<>>)
  BY <1>6, <1>7, <1>9
<1> QED BY <1>1, <1>2, <1>8, <1>9 DEF VisibilitySet

LEMMA RefreshedFits ==
  ASSUME RowsFit, DeskFits, Refreshed
  PROVE  RowsFit' /\ DeskFits'
<1>1. PICK open \in BOOLEAN : Served([desk EXCEPT !.rows = Recorded, !.visible = Visible, !.open = open], <<>>)
  BY DEF Refreshed
<1>2. PICK e : e = [desk EXCEPT !.rows = Recorded, !.visible = Visible, !.open = open]
  OBVIOUS
<1>3. /\ e \in DeskType /\ e.rows = Recorded /\ e.visible = Visible /\ e.asked = desk.asked
  BY <1>2 DEF DeskFits, DeskType, Recorded, Visible
<1>4. UNCHANGED <<row, payment>> /\ deskSent # <<>> /\ Served(e, <<>>)
  BY <1>1, <1>2 DEF Refreshed, DeskServing, Served
<1>5. desk' = e /\ TogglesFit(deskSent', row)
  BY <1>4, ServedSent
<1>6. AskedFits(e, deskSent', row)
  BY <1>3 DEF DeskFits, AskedFits, Visible, Recorded
<1>7. DeskFits'
  BY <1>3, <1>4, <1>5, <1>6 DEF DeskFits, Recorded
<1> QED BY <1>4, <1>7, SameKeeps

LEMMA DeskStep ==
  ASSUME RowsFit, DeskFits, DeskNext
  PROVE  RowsFit' /\ DeskFits'
<1>1. CASE OpenModal \/ CloseModal \/ HandleAddContribution \/ OpenDesk \/ \E c \in Rows : ToggleVisibility(c)
  <2>1. UNCHANGED <<row, payment>>
    BY <1>1 DEF OpenModal, CloseModal, HandleAddContribution, OpenDesk, ToggleVisibility, OnDesk
  <2> QED BY <1>1, <2>1, SameKeeps, DeskClicks, OpenDeskFits
<1>2. CASE AddedByHand \/ VisibilitySet \/ Refreshed
  BY <1>2, AddedByHandFits, VisibilityFits, RefreshedFits
<1>3. ASSUME NEW p \in References, Reconcile(p)
      PROVE  RowsFit' /\ DeskFits'
  <2>1. RowsFit' /\ Keeps(row, payment, row', payment') /\ UNCHANGED deskVars
    BY <1>3, RecordKeeps DEF Reconcile
  <2>2. \A c \in Rows : row[c].status # "none" => row'[c] = row[c]
    BY <2>1 DEF Keeps
  <2>3. Grows(row, row') /\ AskedFits(desk, deskSent, row')
    BY <2>2, AskedStays DEF Grows, DeskFits
  <2>4. TogglesFit(deskSent, row') /\ \A c \in desk.rows : row'[c].status # "none"
    BY <2>3, TogglesStay DEF DeskFits, Grows, DeskType
  <2> QED BY <2>1, <2>3, <2>4 DEF DeskFits, deskVars
<1> QED BY <1>1, <1>2, <1>3 DEF DeskNext

-----------------------------------------------------------------------------
(***************************************************************************)
(* The escrow: what is held for the withdrawals of an event never exceeds  *)
(* what it raised.                                                         *)
(***************************************************************************)
Phases == {"none", "open", "held", "paid", "closed"}

EscrowType ==
  /\ phase \in [WithdrawalIds -> Phases] /\ amount \in [WithdrawalIds -> Nat]
  /\ event \in [WithdrawalIds -> Events \cup {None}] /\ raised \in [Events -> Nat]
  /\ \A w \in WithdrawalIds : phase[w] # "none" => event[w] \in Events

\* The withdrawals of an event that are in one of some phases, and their amounts.
In(phases, e) == {w \in WithdrawalIds : phase[w] \in phases /\ event[w] = e}
SumIn(phases, e) == SumFunctionOnSet(amount, In(phases, e))

\* What is held, and what is held or may come to be.
Spent == {"held", "paid"}
Reserved == {"open", "held", "paid"}

Covered(phases) == \A e \in Events : SumIn(phases, e) <= raised[e]

LEMMA HeldIsSum == \A e : Held(e) = SumIn(Spent, e)
BY DEF Held, SumIn, In, Spent

LEMMA SumInType ==
  ASSUME EscrowType, NEW phases, NEW e
  PROVE  SumIn(phases, e) \in Nat
<1>1. IsFiniteSet(In(phases, e))
  BY FS_Subset DEF In
<1>2. \A w \in In(phases, e) : amount[w] \in Nat
  BY DEF In, EscrowType
<1> QED BY <1>1, <1>2, SumNat DEF SumIn

\* A step of one withdrawal.
Changes(w) ==
  \A v \in WithdrawalIds \ {w} : phase'[v] = phase[v] /\ amount'[v] = amount[v] /\ event'[v] = event[v]

LEMMA SumInChange ==
  ASSUME EscrowType, EscrowType', NEW w \in WithdrawalIds, Changes(w), NEW phases, NEW e
  PROVE  /\ SumIn(phases, e)' = SumIn(phases, e) - (IF w \in In(phases, e) THEN amount[w] ELSE 0)
                                  + (IF w \in In(phases, e)' THEN amount'[w] ELSE 0)
         /\ SumIn(phases, e) \in Nat
<1>1. PICK S : S = In(phases, e)
  OBVIOUS
<1>2. PICK T : T = In(phases, e)'
  OBVIOUS
<1>3. IsFiniteSet(S) /\ IsFiniteSet(T)
  BY <1>1, <1>2, FS_Subset DEF In
<1>4. (\A v \in S : amount[v] \in Int) /\ (\A v \in T : amount'[v] \in Int)
  BY <1>1, <1>2 DEF In, EscrowType
<1>5. S \ {w} = T \ {w} /\ \A v \in S \ {w} : amount[v] = amount'[v]
  BY <1>1, <1>2 DEF In, Changes
<1>6. SumFunctionOnSet(amount', T) =
        SumFunctionOnSet(amount, S) - (IF w \in S THEN amount[w] ELSE 0) + (IF w \in T THEN amount'[w] ELSE 0)
  BY <1>3, <1>4, <1>5, SumOneChange
<1> QED BY <1>1, <1>2, <1>6, SumInType DEF SumIn

\* The steps of a withdrawal: its phase before and after.
LEMMA MoveFits ==
  ASSUME EscrowType, NEW w \in WithdrawalIds, NEW from, NEW to \in Phases, from # "none", Move(w, from, to)
  PROVE  /\ EscrowType' /\ Changes(w) /\ UNCHANGED <<amount, event, raised>>
         /\ phase[w] = from /\ phase'[w] = to
BY DEF Move, EscrowType, Changes

LEMMA OpenFits ==
  ASSUME EscrowType, NEW w \in WithdrawalIds, Open(w)
  PROVE  /\ EscrowType' /\ Changes(w) /\ UNCHANGED raised
         /\ phase[w] = "none" /\ phase'[w] = "open"
<1>1. PICK e \in Events, g \in Amounts :
        amount' = [amount EXCEPT ![w] = g] /\ event' = [event EXCEPT ![w] = e]
  BY DEF Open
<1>2. phase[w] = "none" /\ phase' = [phase EXCEPT ![w] = "open"] /\ raised' = raised /\ g \in Nat
  BY DEF Open
<1> QED BY <1>1, <1>2 DEF EscrowType, Changes, Phases

\* Leaving the counted phases, or staying in or out of them, adds nothing.
LEMMA CoveredStays ==
  ASSUME EscrowType, EscrowType', NEW w \in WithdrawalIds, Changes(w), raised' = raised,
         NEW phases, Covered(phases),
         phase'[w] \in phases => phase[w] \in phases /\ UNCHANGED <<amount, event>>
  PROVE  Covered(phases)'
<1> SUFFICES ASSUME NEW e \in Events
             PROVE  SumIn(phases, e)' <= raised[e]
  BY DEF Covered
<1>1. /\ SumIn(phases, e)' = SumIn(phases, e) - (IF w \in In(phases, e) THEN amount[w] ELSE 0)
                               + (IF w \in In(phases, e)' THEN amount'[w] ELSE 0)
      /\ SumIn(phases, e) \in Nat /\ SumIn(phases, e) <= raised[e]
  BY SumInChange DEF Covered
<1>2. amount[w] \in Nat /\ amount'[w] \in Nat /\ raised[e] \in Nat
  BY DEF EscrowType
<1>3. w \in In(phases, e)' => w \in In(phases, e) /\ amount'[w] = amount[w]
  BY DEF In
<1> QED BY <1>1, <1>2, <1>3

\* One that comes to be counted was covered.
LEMMA CoveredGrows ==
  ASSUME EscrowType, EscrowType', NEW w \in WithdrawalIds, Changes(w), raised' = raised,
         NEW phases, Covered(phases), phase[w] \notin phases,
         SumIn(phases, event'[w]) + amount'[w] <= raised[event'[w]]
  PROVE  Covered(phases)'
<1> SUFFICES ASSUME NEW e \in Events
             PROVE  SumIn(phases, e)' <= raised[e]
  BY DEF Covered
<1>1. /\ SumIn(phases, e)' = SumIn(phases, e) - (IF w \in In(phases, e) THEN amount[w] ELSE 0)
                               + (IF w \in In(phases, e)' THEN amount'[w] ELSE 0)
      /\ SumIn(phases, e) \in Nat /\ SumIn(phases, e) <= raised[e]
  BY SumInChange DEF Covered
<1>2. amount[w] \in Nat /\ amount'[w] \in Nat /\ raised[e] \in Nat
  BY DEF EscrowType
<1>3. w \notin In(phases, e) /\ (w \in In(phases, e)' => event'[w] = e)
  BY DEF In
<1> QED BY <1>1, <1>2, <1>3

EscrowInv == EscrowType /\ Covered(Spent)

LEMMA EscrowStart == EscrowInit => EscrowInv /\ Covered(Reserved)
<1> SUFFICES ASSUME EscrowInit PROVE EscrowInv /\ Covered(Reserved)
  OBVIOUS
<1>1. EscrowType
  BY DEF EscrowInit, EscrowType, Phases
<1>2. \A phases \in {Spent, Reserved}, e \in Events : In(phases, e) = {}
  BY DEF EscrowInit, In, Spent, Reserved
<1>3. \A phases \in {Spent, Reserved}, e \in Events : SumIn(phases, e) = 0
  BY <1>2, SumEmpty DEF SumIn
<1> QED BY <1>1, <1>3 DEF EscrowInv, Covered, EscrowType

LEMMA EscrowStep == EscrowInv /\ [EscrowNext]_evars => EscrowInv'
<1> SUFFICES ASSUME EscrowInv, [EscrowNext]_evars PROVE EscrowInv'
  OBVIOUS
<1>0. EscrowType /\ Covered(Spent)
  BY DEF EscrowInv
<1>1. ASSUME NEW w \in WithdrawalIds, Open(w)
      PROVE  EscrowInv'
  <2>1. EscrowType' /\ Changes(w) /\ raised' = raised /\ phase'[w] = "open"
    BY <1>0, <1>1, OpenFits
  <2>2. phase'[w] \notin Spent
    BY <2>1 DEF Spent
  <2> QED BY <1>0, <2>1, <2>2, CoveredStays DEF EscrowInv
<1>2. ASSUME NEW w \in WithdrawalIds, Hold(w)
      PROVE  EscrowInv'
  <2>1. Move(w, "open", "held") /\ SumIn(Spent, event[w]) + amount[w] <= raised[event[w]]
    BY <1>2, HeldIsSum DEF Hold
  <2>2. EscrowType' /\ Changes(w) /\ UNCHANGED <<amount, event, raised>> /\ phase[w] = "open"
    BY <1>0, <2>1, MoveFits DEF Phases
  <2>3. phase[w] \notin Spent
    BY <2>2 DEF Spent
  <2> QED BY <1>0, <2>1, <2>2, <2>3, CoveredGrows DEF EscrowInv
<1>3. ASSUME NEW w \in WithdrawalIds, Pay(w) \/ GiveBack(w) \/ Cancel(w)
      PROVE  EscrowInv'
  <2>1. PICK from \in {"open", "held"}, to \in {"paid", "closed"} :
          Move(w, from, to) /\ (to = "paid" => from = "held")
    BY <1>3 DEF Pay, GiveBack, Cancel
  <2>2. EscrowType' /\ Changes(w) /\ UNCHANGED <<amount, event, raised>> /\ phase[w] = from /\ phase'[w] = to
    BY <1>0, <2>1, MoveFits DEF Phases
  <2>3. phase'[w] \in Spent => phase[w] \in Spent
    BY <2>1, <2>2 DEF Spent
  <2> QED BY <1>0, <2>2, <2>3, CoveredStays DEF EscrowInv
<1>4. ASSUME NEW e \in Events, Credit(e)
      PROVE  EscrowInv'
  <2>1. PICK c \in Contributions : raised' = [raised EXCEPT ![e] = @ + c]
    BY <1>4 DEF Credit
  <2>2. UNCHANGED <<phase, amount, event>> /\ c \in Nat
    BY <1>4 DEF Credit
  <2>3. raised' \in [Events -> Nat] /\ \A d \in Events : raised[d] <= raised'[d] /\ raised[d] \in Nat
    BY <1>0, <2>1, <2>2 DEF EscrowType
  <2>4. EscrowType'
    BY <1>0, <2>2, <2>3 DEF EscrowType
  <2>5. \A d : SumIn(Spent, d)' = SumIn(Spent, d)
    BY <2>2 DEF SumIn, In
  <2>6. \A d \in Events : SumIn(Spent, d)' <= raised'[d]
    <3> SUFFICES ASSUME NEW d \in Events PROVE SumIn(Spent, d)' <= raised'[d]
      OBVIOUS
    <3>1. SumIn(Spent, d) \in Nat /\ SumIn(Spent, d) <= raised[d]
      BY <1>0, SumInType DEF Covered
    <3>2. raised'[d] \in Nat
      BY <2>3
    <3> QED BY <2>3, <2>5, <3>1, <3>2
  <2> QED BY <2>4, <2>6 DEF EscrowInv, Covered
<1>5. CASE UNCHANGED evars
  BY <1>0, <1>5 DEF EscrowInv, EscrowType, Covered, SumIn, In, evars
<1> QED BY <1>1, <1>2, <1>3, <1>4, <1>5 DEF EscrowNext

-----------------------------------------------------------------------------
(***************************************************************************)
(* The withdraw page: g is what it shows, ph the phases of withdrawals.    *)
(***************************************************************************)
ResultType == [w : WithdrawalIds \cup {None}, status : {"none", "PENDING", "SUCCESSFUL", "FAILED"}]
PageType ==
  [step : {1, 2, 3, 4, 5}, options : [Events -> Nat], balance : Nat, ev : Events \cup {None}, amt : Nat,
   fees : BOOLEAN, init : WithdrawalIds \cup {None}, loading : BOOLEAN, result : ResultType]
Asks ==
  [op : {"options", "recheck", "initiate", "resend", "verify", "poll", "check"},
   w : WithdrawalIds \cup {None}, ev : Events \cup {None}, amt : Nat, polls : Nat,
   right : BOOLEAN, gone : BOOLEAN]

\* What is shown as the result is the row's, or is not final yet.
PageFits(g, ph) ==
  /\ g \in PageType
  /\ g.step # 1 => g.ev \in Events
  /\ g.step = 5 => g.result.w \in WithdrawalIds
  /\ g.result.w # None => g.result.status \in {"PENDING", Status[ph[g.result.w]]}

\* A request is about a withdrawal, or for an event; the event of the page is
\* chosen while one of its own is under way.
AskFits(ev, o) ==
  /\ o.op \in {"resend", "verify", "poll", "check"} => o.w \in WithdrawalIds
  /\ o.op \in {"options", "recheck", "initiate"} => o.ev \in Events
  /\ ~o.gone => ev \in Events

QueueFits(ev, s) == s \in Seq(Asks) /\ \A k \in DOMAIN s : AskFits(ev, s[k])

SleepFits(ev, sl) ==
  /\ sl \in [WithdrawalIds -> [polls : Nat, gone : BOOLEAN]]
  /\ \A w \in WithdrawalIds : sl[w].polls > 0 /\ ~sl[w].gone => ev \in Events

WithdrawFits ==
  /\ EscrowType /\ Covered(Reserved)
  /\ PageFits(page, phase) /\ QueueFits(page.ev, queue) /\ SleepFits(page.ev, sleeping)

LEMMA StatusOf ==
  ASSUME NEW x \in Phases
  PROVE  Status[x] = IF x = "paid" THEN "SUCCESSFUL" ELSE IF x = "closed" THEN "FAILED" ELSE "PENDING"
BY DEF Status, Phases

\* A final phase stays.
Onward(p, q) == \A w \in WithdrawalIds : q[w] = p[w] \/ Status[p[w]] = "PENDING"

LEMMA PageStays ==
  ASSUME NEW g, NEW p, NEW q, PageFits(g, p), Onward(p, q)
  PROVE  PageFits(g, q)
<1>1. g.result.w # None => g.result.w \in WithdrawalIds
  BY DEF PageFits, PageType, ResultType
<1>2. g.result.w # None => g.result.status \in {"PENDING", Status[q[g.result.w]]}
  BY <1>1 DEF PageFits, Onward
<1> QED BY <1>2 DEF PageFits

\* The event of the page may be chosen, and stays chosen.
LEMMA QueueStays ==
  ASSUME NEW e, NEW d, NEW s, QueueFits(e, s), e \in Events => d \in Events
  PROVE  QueueFits(d, s)
BY DEF QueueFits, AskFits

LEMMA QueueGrows ==
  ASSUME NEW e, NEW d, NEW s, QueueFits(e, s), e \in Events => d \in Events, NEW o \in Asks, AskFits(d, o)
  PROVE  QueueFits(d, s \o <<o>>)
<1> DEFINE t == s \o <<o>>
<1>1. s \in Seq(Asks)
  BY DEF QueueFits
<1>2. /\ t \in Seq(Asks) /\ DOMAIN t = DOMAIN s \cup {Len(s) + 1}
      /\ t[Len(s) + 1] = o /\ \A k \in DOMAIN s : t[k] = s[k]
  BY <1>1, QueueMore
<1>3. QueueFits(d, s)
  BY QueueStays
<1> HIDE DEF t
<1>4. QueueFits(d, t)
  BY <1>2, <1>3 DEF QueueFits
<1> QED BY <1>4 DEF t

LEMMA QueueShrinks ==
  ASSUME NEW e, NEW s, QueueFits(e, s), s # <<>>
  PROVE  QueueFits(e, Tail(s)) /\ Head(s) \in Asks /\ AskFits(e, Head(s))
<1> DEFINE t == Tail(s)
<1>1. s \in Seq(Asks)
  BY DEF QueueFits
<1>2. /\ t \in Seq(Asks) /\ 1 \in DOMAIN s /\ Head(s) = s[1] /\ Head(s) \in Asks
      /\ \A k \in DOMAIN t : k + 1 \in DOMAIN s /\ k + 1 # 1 /\ t[k] = s[k + 1] /\ k \in Nat
  BY <1>1, QueueLess
<1> HIDE DEF t
<1>3. QueueFits(e, t) /\ AskFits(e, Head(s))
  BY <1>2 DEF QueueFits
<1> QED BY <1>2, <1>3 DEF t

\* A queue with nothing or one request more.
LEMMA QueueWith ==
  ASSUME NEW e, NEW d, NEW s, QueueFits(e, s), e \in Events => d \in Events, NEW requests,
         requests = <<>> \/ \E o \in Asks : requests = <<o>> /\ AskFits(d, o)
  PROVE  QueueFits(d, s \o requests)
<1>1. CASE requests = <<>>
  <2>1. s \o requests = s
    BY <1>1, ConcatEmptySeq DEF QueueFits
  <2> QED BY <2>1, QueueStays
<1>2. ASSUME NEW o \in Asks, requests = <<o>>, AskFits(d, o)
      PROVE  QueueFits(d, s \o requests)
  BY <1>2, QueueGrows
<1> QED BY <1>1, <1>2

LEMMA SleepStays ==
  ASSUME NEW e, NEW d, NEW sl, SleepFits(e, sl), e \in Events => d \in Events
  PROVE  SleepFits(d, sl)
BY DEF SleepFits

-----------------------------------------------------------------------------
(* What the page reads.                                                    *)
LEMMA AvailableType ==
  ASSUME EscrowType, NEW e \in Events
  PROVE  /\ Available(e) \in Nat
         /\ Covered(Reserved) => Available(e) = raised[e] - SumIn(Reserved, e)
<1>1. PICK taken \in Nat : taken = SumIn(Reserved, e)
  BY SumInType
<1>2. Available(e) = IF taken < raised[e] THEN raised[e] - taken ELSE 0
  BY <1>1 DEF Available, SumIn, In, Reserved
<1>3. raised[e] \in Nat
  BY DEF EscrowType
<1>4. Covered(Reserved) => taken <= raised[e]
  BY <1>1 DEF Covered
<1> QED BY <1>1, <1>2, <1>3, <1>4

\* What is reserved covers what is spent.
LEMMA ReservedCovers ==
  ASSUME EscrowType, Covered(Reserved)
  PROVE  Covered(Spent)
<1> SUFFICES ASSUME NEW e \in Events PROVE SumIn(Spent, e) <= raised[e]
  BY DEF Covered
<1>1. PICK S : S = In(Reserved, e)
  OBVIOUS
<1>2. PICK T : T = In(Spent, e)
  OBVIOUS
<1>3. IsFiniteSet(S) /\ (\A w \in S : amount[w] \in Nat) /\ T \in SUBSET S
  <2>1. IsFiniteSet(S)
    BY <1>1, FS_Subset DEF In
  <2> QED BY <1>1, <1>2, <2>1 DEF In, Reserved, Spent, EscrowType
<1>4. SumFunctionOnSet(amount, T) <= SumFunctionOnSet(amount, S)
  BY <1>3, SumOfMore
<1>5. SumIn(Spent, e) <= SumIn(Reserved, e) /\ SumIn(Spent, e) \in Nat /\ SumIn(Reserved, e) \in Nat
  BY <1>1, <1>2, <1>4, SumInType DEF SumIn
<1>6. SumIn(Reserved, e) <= raised[e] /\ raised[e] \in Nat
  BY DEF Covered, EscrowType
<1> QED BY <1>5, <1>6

LEMMA BalanceType ==
  ASSUME EscrowType, Covered(Reserved)
  PROVE  Balance \in Nat /\ EventOptions \in [Events -> Nat]
<1>1. \A e \in Events : raised[e] - Held(e) \in Nat
  <2> SUFFICES ASSUME NEW e \in Events PROVE raised[e] - Held(e) \in Nat
    OBVIOUS
  <2>1. SumIn(Spent, e) \in Nat /\ SumIn(Spent, e) <= raised[e] /\ raised[e] \in Nat
    BY ReservedCovers, SumInType DEF Covered, EscrowType
  <2> QED BY <2>1, HeldIsSum
<1>2. PICK f : f = [e \in Events |-> raised[e] - Held(e)]
  OBVIOUS
<1>3. \A e \in Events : f[e] \in Nat
  BY <1>1, <1>2
<1>4. SumFunctionOnSet(f, Events) \in Nat
  BY <1>3, SumNat
<1>5. Balance \in Nat
  BY <1>2, <1>4 DEF Balance
<1>6. EventOptions \in [Events -> Nat]
  BY AvailableType DEF EventOptions
<1> QED BY <1>5, <1>6

LEMMA LeastType == \A x, y \in Nat : Least(x, y) \in Nat
BY DEF Least

LEMMA PricedFits ==
  ASSUME NEW x \in PageType, NEW g \in Priced(x)
  PROVE  /\ g \in PageType /\ g.step = x.step /\ g.ev = x.ev /\ g.result = x.result
         /\ g.amt = x.amt /\ g.balance = x.balance
<1>1. CASE g = x
  BY <1>1
<1>2. ASSUME NEW fees \in BOOLEAN, g = [x EXCEPT !.fees = fees]
      PROVE  /\ g \in PageType /\ g.step = x.step /\ g.ev = x.ev /\ g.result = x.result
             /\ g.amt = x.amt /\ g.balance = x.balance
  BY <1>2 DEF PageType
<1> QED BY <1>1, <1>2 DEF Priced

LEMMA PageLoads ==
  ASSUME EscrowType, Covered(Reserved), NEW e \in Events \cup {None}, NEW g \in Priced(LoadedPage(e)), NEW ph
  PROVE  PageFits(g, ph) /\ g.step = 1
<1>1. PICK x : x = LoadedPage(e)
  OBVIOUS
<1>2. PICK ev \in Events \cup {None} :
        ev = IF e # None /\ EventOptions[e] >= MinWithdraw THEN e ELSE None
  OBVIOUS
<1>3. PICK balance \in Nat : balance = Balance
  BY BalanceType
<1>4. PICK amt \in Nat : amt = Least(DefaultAmount, balance)
  BY LeastType
<1>5. PICK options \in [Events -> Nat] : options = EventOptions
  BY BalanceType
<1>6. x = [step |-> 1, options |-> options, balance |-> balance, ev |-> ev, amt |-> amt, fees |-> FALSE,
           init |-> None, loading |-> FALSE, result |-> NoResult]
  BY <1>1, <1>2, <1>3, <1>4, <1>5 DEF LoadedPage
<1>7. NoResult \in ResultType /\ NoResult.w = None
  BY DEF NoResult, ResultType
<1>8. x \in PageType /\ x.step = 1 /\ x.result.w = None
  BY <1>6, <1>7 DEF PageType
<1>9. g \in PageType /\ g.step = 1 /\ g.result.w = None
  BY <1>1, <1>8, PricedFits
<1> QED BY <1>9 DEF PageFits

-----------------------------------------------------------------------------
(* Clicks and timers.                                                      *)
LEMMA EscrowUnchanged ==
  ASSUME UNCHANGED evars, EscrowType, Covered(Reserved)
  PROVE  EscrowType' /\ Covered(Reserved)' /\ phase' = phase
BY DEF evars, EscrowType, Covered, SumIn, In

LEMMA OnPageFits ==
  ASSUME WithdrawFits, NEW g, NEW requests, OnPage(g, requests),
         PageFits(g, phase), page.ev \in Events => g.ev \in Events,
         requests = <<>> \/ \E o \in Asks : requests = <<o>> /\ AskFits(g.ev, o)
  PROVE  WithdrawFits'
<1>1. EscrowType' /\ Covered(Reserved)' /\ phase' = phase
  BY EscrowUnchanged DEF OnPage, WithdrawFits
<1>2. page' = g /\ queue' = queue \o requests /\ sleeping' = sleeping
  BY DEF OnPage
<1>3. QueueFits(g.ev, queue \o requests)
  BY QueueWith DEF WithdrawFits
<1>4. SleepFits(g.ev, sleeping)
  BY SleepStays DEF WithdrawFits
<1> QED BY <1>1, <1>2, <1>3, <1>4 DEF WithdrawFits

LEMMA ChooseClicks ==
  ASSUME WithdrawFits,
         SelectEvent \/ GoToStep2 \/ GoToStep3 \/ BackButton \/ TypeAmount \/ GoToStep4 \/ TryAgain
  PROVE  WithdrawFits'
<1>0. page \in PageType /\ PageFits(page, phase)
  BY DEF WithdrawFits, PageFits
<1>1. CASE SelectEvent
  <2>1. PICK e \in Events : OnPage([page EXCEPT !.ev = e], <<>>)
    BY <1>1 DEF SelectEvent
  <2>2. PICK g : g = [page EXCEPT !.ev = e]
    OBVIOUS
  <2>3. g \in PageType /\ g.ev = e /\ g.step = page.step /\ g.result = page.result
    BY <1>0, <2>2 DEF PageType
  <2>4. PageFits(g, phase)
    BY <1>0, <2>3 DEF PageFits
  <2>5. OnPage(g, <<>>) /\ g.ev \in Events
    BY <2>1, <2>2, <2>3
  <2> QED BY <2>4, <2>5, OnPageFits
<1>2. ASSUME NEW g \in PageType, NEW requests, OnPage(g, requests), page.ev \in Events \/ g.step = 1,
             g.ev = page.ev, g.step # 5 \/ g.step = page.step, g.result \in {page.result, NoResult},
             g.step = page.step => g.result = page.result,
             requests = <<>> \/ \E o \in Asks : requests = <<o>> /\ AskFits(page.ev, o)
      PROVE  WithdrawFits'
  <2>1. NoResult.w = None
    BY DEF NoResult
  <2>2. PageFits(g, phase)
    BY <1>0, <1>2, <2>1 DEF PageFits
  <2> QED BY <1>2, <2>2, OnPageFits
<1>3. CASE GoToStep2
  <2>1. PICK g : g = [page EXCEPT !.step = 2]
    OBVIOUS
  <2>2. g \in PageType /\ g.ev = page.ev /\ g.step = 2 /\ g.result = page.result
    BY <1>0, <2>1 DEF PageType
  <2>3. page.ev \in Events /\ page.step = 1 /\ OnPage(g, <<>>)
    BY <1>0, <1>3, <2>1 DEF GoToStep2, PageType
  <2> QED BY <1>2, <2>2, <2>3
<1>4. CASE GoToStep3
  <2>1. PICK g : g = [page EXCEPT !.step = 3]
    OBVIOUS
  <2>2. g \in PageType /\ g.ev = page.ev /\ g.step = 3 /\ g.result = page.result
    BY <1>0, <2>1 DEF PageType
  <2>3. PICK o : o = OptionsOf(page.ev)
    OBVIOUS
  <2>4. page.step = 2 /\ page.ev \in Events /\ OnPage(g, <<o>>)
    BY <1>0, <1>4, <2>1, <2>3 DEF GoToStep3, PageFits
  <2>5. o \in Asks /\ AskFits(page.ev, o)
    BY <2>3, <2>4 DEF OptionsOf, NoRequest, Asks, AskFits
  <2> QED BY <1>2, <2>2, <2>4, <2>5
<1>5. CASE BackButton
  <2>1. PICK g : g = [page EXCEPT !.step = @ - 1]
    OBVIOUS
  <2>2. page.step \in {2, 3, 4} /\ page.ev \in Events
    BY <1>0, <1>5 DEF BackButton, PageFits, PageType
  <2>3. page.step - 1 \in {1, 2, 3} /\ page.step - 1 # page.step
    BY <2>2
  <2>4. g \in PageType /\ g.ev = page.ev /\ g.step = page.step - 1 /\ g.result = page.result
    BY <1>0, <2>1, <2>3 DEF PageType
  <2>5. PICK o : o = OptionsOf(page.ev)
    OBVIOUS
  <2>6. o \in Asks /\ AskFits(page.ev, o)
    BY <2>2, <2>5 DEF OptionsOf, NoRequest, Asks, AskFits
  <2>7. OnPage(g, <<o>>) \/ OnPage(g, <<>>)
    BY <1>5, <2>1, <2>5 DEF BackButton
  <2>8. g.step # 5 /\ g.step # page.step
    BY <2>3, <2>4
  <2> QED BY <1>2, <2>2, <2>4, <2>6, <2>7, <2>8
<1>6. CASE TypeAmount
  <2>1. PICK amt \in Amounts : \E shown \in Priced([page EXCEPT !.amt = amt]) : OnPage(shown, <<>>)
    BY <1>6 DEF TypeAmount
  <2>2. PICK x : x = [page EXCEPT !.amt = amt]
    OBVIOUS
  <2>3. x \in PageType /\ x.ev = page.ev /\ x.step = page.step /\ x.result = page.result
    BY <1>0, <2>2 DEF PageType
  <2>4. PICK g \in Priced(x) : OnPage(g, <<>>)
    BY <2>1, <2>2
  <2>5. g \in PageType /\ g.ev = page.ev /\ g.step = page.step /\ g.result = page.result
    BY <2>3, PricedFits
  <2>6. page.step = 3 /\ page.ev \in Events
    BY <1>0, <1>6 DEF TypeAmount, PageFits
  <2> QED BY <1>2, <2>4, <2>5, <2>6
<1>7. CASE GoToStep4
  <2>1. PICK o : o = [NoRequest EXCEPT !.op = "recheck", !.ev = page.ev, !.amt = page.amt]
    OBVIOUS
  <2>2. page.ev \in Events /\ page.amt \in Nat /\ OnPage(page, <<o>>)
    BY <1>0, <1>7, <2>1 DEF GoToStep4, PageFits, PageType
  <2>3. o \in Asks /\ AskFits(page.ev, o)
    BY <2>1, <2>2 DEF NoRequest, Asks, AskFits
  <2> QED BY <1>0, <1>2, <2>2, <2>3
<1>8. CASE TryAgain
  <2>1. PICK g : g = [page EXCEPT !.step = 1, !.result = NoResult, !.init = None]
    OBVIOUS
  <2>2. g \in PageType /\ g.ev = page.ev /\ g.step = 1 /\ g.result = NoResult
    BY <1>0, <2>1 DEF PageType, NoResult, ResultType
  <2>3. page.step = 5 /\ page.ev \in Events /\ OnPage(g, <<>>)
    BY <1>0, <1>8, <2>1 DEF TryAgain, PageFits
  <2> QED BY <1>2, <2>2, <2>3
<1> QED BY <1>1, <1>3, <1>4, <1>5, <1>6, <1>7, <1>8

LEMMA CodeClicks ==
  ASSUME WithdrawFits, HandleResendOtp \/ HandleVerifyOtp \/ CheckStatus
  PROVE  WithdrawFits'
<1>0. page \in PageType /\ PageFits(page, phase)
  BY DEF WithdrawFits, PageFits
<1>1. page.step # 1 /\ page.ev \in Events /\ page.init \in WithdrawalIds
  <2>1. page.step \in {4, 5} /\ page.init # None
    BY DEF HandleResendOtp, HandleVerifyOtp, CheckStatus, OnCode
  <2> QED BY <1>0, <2>1 DEF PageFits, PageType
<1>2. PICK g : g = [page EXCEPT !.loading = TRUE]
  OBVIOUS
<1>3. g \in PageType /\ g.ev = page.ev /\ g.step = page.step /\ g.result = page.result
  BY <1>0, <1>2 DEF PageType
<1>4. PageFits(g, phase)
  BY <1>0, <1>3 DEF PageFits
<1>5. PICK o \in Asks : AskFits(page.ev, o) /\ OnPage(g, <<o>>)
  <2>1. CASE HandleResendOtp
    <3>1. PICK o : o = [NoRequest EXCEPT !.op = "resend", !.w = page.init]
      OBVIOUS
    <3>2. o \in Asks /\ AskFits(page.ev, o)
      BY <1>1, <3>1 DEF NoRequest, Asks, AskFits
    <3> QED BY <1>2, <2>1, <3>1, <3>2 DEF HandleResendOtp
  <2>2. CASE HandleVerifyOtp
    <3>1. PICK right \in BOOLEAN :
            OnPage([page EXCEPT !.loading = TRUE],
                   <<[NoRequest EXCEPT !.op = "verify", !.w = page.init, !.right = right]>>)
      BY <2>2 DEF HandleVerifyOtp
    <3>2. PICK o : o = [NoRequest EXCEPT !.op = "verify", !.w = page.init, !.right = right]
      OBVIOUS
    <3>3. o \in Asks /\ AskFits(page.ev, o)
      BY <1>1, <3>2 DEF NoRequest, Asks, AskFits
    <3> QED BY <1>2, <3>1, <3>2, <3>3
  <2>3. CASE CheckStatus
    <3>1. PICK o : o = [NoRequest EXCEPT !.op = "check", !.w = page.init]
      OBVIOUS
    <3>2. o \in Asks /\ AskFits(page.ev, o)
      BY <1>1, <3>1 DEF NoRequest, Asks, AskFits
    <3> QED BY <1>2, <2>3, <3>1, <3>2 DEF CheckStatus
  <2> QED BY <2>1, <2>2, <2>3
<1> QED BY <1>1, <1>3, <1>4, <1>5, OnPageFits

LEMMA TimerFits ==
  ASSUME WithdrawFits, NEW w \in WithdrawalIds, PollTimer(w)
  PROVE  WithdrawFits'
<1>0. EscrowType' /\ Covered(Reserved)' /\ phase' = phase /\ page' = page
  BY EscrowUnchanged DEF PollTimer, WithdrawFits
<1>1. PICK o : o = [NoRequest EXCEPT !.op = "poll", !.w = w, !.polls = sleeping[w].polls, !.gone = sleeping[w].gone]
  OBVIOUS
<1>2. /\ sleeping[w].polls \in Nat /\ sleeping[w].gone \in BOOLEAN
      /\ ~sleeping[w].gone => page.ev \in Events
  BY DEF PollTimer, WithdrawFits, SleepFits
<1>3. o \in Asks /\ AskFits(page.ev, o)
  BY <1>1, <1>2 DEF NoRequest, Asks, AskFits
<1>4. queue' = queue \o <<o>>
  <2>1. queue' = Append(queue, o)
    BY <1>1 DEF PollTimer
  <2> QED BY <1>3, <2>1, AppendIsConcat DEF WithdrawFits, QueueFits
<1>5. QueueFits(page.ev, queue')
  BY <1>3, <1>4, QueueGrows DEF WithdrawFits
<1>6. SleepFits(page.ev, sleeping')
  <2>1. Awake \in [polls : Nat, gone : BOOLEAN] /\ ~(Awake.polls > 0)
    BY DEF Awake
  <2>2. sleeping' = [sleeping EXCEPT ![w] = Awake]
    BY DEF PollTimer
  <2> QED BY <2>1, <2>2 DEF WithdrawFits, SleepFits
<1> QED BY <1>0, <1>5, <1>6 DEF WithdrawFits

\* What goes on after its page was left.
LEMMA LeftQueue ==
  ASSUME NEW left \in Seq(Asks), NEW e,
         \A k \in DOMAIN left :
           /\ left[k].op \in {"resend", "verify", "poll", "check"} => left[k].w \in WithdrawalIds
           /\ left[k].op \in {"options", "recheck", "initiate"} => left[k].ev \in Events
  PROVE  QueueFits(e, [k \in DOMAIN left |-> [left[k] EXCEPT !.gone = TRUE]])
<1> DEFINE gone == [k \in DOMAIN left |-> [left[k] EXCEPT !.gone = TRUE]]
<1>1. /\ DOMAIN left = 1 .. Len(left) /\ Len(left) \in Nat
      /\ \A k \in DOMAIN left : left[k] \in Asks
  BY LenProperties, ElementOfSeq
<1>2. \A k \in DOMAIN left :
        LET o == [left[k] EXCEPT !.gone = TRUE]
        IN  o \in Asks /\ o.gone /\ o.op = left[k].op /\ o.w = left[k].w /\ o.ev = left[k].ev
  BY <1>1 DEF Asks
<1>3. \A k \in DOMAIN left : gone[k] \in Asks /\ AskFits(e, gone[k])
  BY <1>2 DEF AskFits
<1>4. gone \in [1 .. Len(left) -> Asks]
  BY <1>1, <1>2
<1>5. gone \in Seq(Asks) /\ DOMAIN gone = DOMAIN left
  BY <1>1, <1>4
<1> HIDE DEF gone
<1>6. QueueFits(e, gone)
  BY <1>3, <1>5 DEF QueueFits
<1> QED BY <1>6 DEF gone

LEMMA LeftPage ==
  ASSUME WithdrawFits, LeavePage
  PROVE  WithdrawFits'
<1>0. EscrowType' /\ Covered(Reserved)' /\ phase' = phase
  BY EscrowUnchanged DEF LeavePage, WithdrawFits
<1>1. PageFits(page', phase')
  BY <1>0, PageLoads DEF LeavePage, WithdrawFits
<1>2. PICK left : left = Without(queue, {"options", "resend"})
  OBVIOUS
<1>3. left \in Seq(Asks)
  BY <1>2, WithoutFits DEF WithdrawFits, QueueFits
<1>4. queue' = [k \in DOMAIN left |-> [left[k] EXCEPT !.gone = TRUE]]
  BY <1>2 DEF LeavePage
<1>5. QueueFits(page'.ev, queue')
  <2>1. \A k \in DOMAIN left : \E j \in DOMAIN queue : left[k] = queue[j]
    BY <1>2, WithoutFits DEF WithdrawFits, QueueFits
  <2>2. \A k \in DOMAIN left : AskFits(page.ev, left[k])
    BY <2>1 DEF WithdrawFits, QueueFits
  <2> QED BY <1>3, <1>4, <2>2, LeftQueue DEF AskFits
<1>6. SleepFits(page'.ev, sleeping')
  <2>1. sleeping' = [w \in WithdrawalIds |-> [sleeping[w] EXCEPT !.gone = sleeping[w].polls > 0]]
    BY DEF LeavePage
  <2>2. \A w \in WithdrawalIds : sleeping[w] \in [polls : Nat, gone : BOOLEAN]
    BY DEF WithdrawFits, SleepFits
  <2>3. ASSUME NEW w \in WithdrawalIds
        PROVE  /\ [sleeping[w] EXCEPT !.gone = sleeping[w].polls > 0] \in [polls : Nat, gone : BOOLEAN]
               /\ [sleeping[w] EXCEPT !.gone = sleeping[w].polls > 0].gone = (sleeping[w].polls > 0)
               /\ [sleeping[w] EXCEPT !.gone = sleeping[w].polls > 0].polls = sleeping[w].polls
    <3>1. PICK b \in BOOLEAN : b = (sleeping[w].polls > 0)
      <4>1. (sleeping[w].polls > 0) = TRUE \/ (sleeping[w].polls > 0) = FALSE
        OBVIOUS
      <4> QED BY <4>1
    <3>2. PICK o \in [polls : Nat, gone : BOOLEAN] : o = sleeping[w]
      BY <2>2
    <3>3. /\ [o EXCEPT !.gone = b] \in [polls : Nat, gone : BOOLEAN]
          /\ [o EXCEPT !.gone = b].gone = b /\ [o EXCEPT !.gone = b].polls = o.polls
      OBVIOUS
    <3> QED BY <3>1, <3>2, <3>3
  <2> QED BY <2>1, <2>3 DEF SleepFits
<1> QED BY <1>0, <1>1, <1>5, <1>6 DEF WithdrawFits

-----------------------------------------------------------------------------
(* Answers.                                                                *)
LEMMA FirstAsks ==
  ASSUME WithdrawFits, queue # <<>>
  PROVE  Asked \in Asks /\ AskFits(page.ev, Asked)
BY QueueShrinks DEF WithdrawFits, Asked

LEMMA TakenFits ==
  ASSUME WithdrawFits, queue # <<>>, Onward(phase, phase'), NEW g, NEW requests, Taken(g, requests),
         ~Asked.gone => PageFits(g, phase') /\ g.ev = page.ev,
         requests = <<>> \/ \E o \in Asks : requests = <<o>> /\ AskFits(page.ev, o)
  PROVE  PageFits(page', phase') /\ QueueFits(page'.ev, queue') /\ page'.ev = page.ev
<1>1. page' = (IF Asked.gone THEN page ELSE g) /\ queue' = Tail(queue) \o requests
  BY DEF Taken
<1>2. PageFits(page, phase')
  BY PageStays DEF WithdrawFits
<1>3. PageFits(page', phase') /\ page'.ev = page.ev
  BY <1>1, <1>2
<1>4. QueueFits(page.ev, Tail(queue))
  BY QueueShrinks DEF WithdrawFits
<1>5. QueueFits(page.ev, Tail(queue) \o requests)
  BY <1>4, QueueWith
<1> QED BY <1>1, <1>3, <1>5

\* Nothing is done at the server but an answer.
LEMMA IdleOnward ==
  ASSUME WithdrawFits, UNCHANGED evars
  PROVE  EscrowType' /\ Covered(Reserved)' /\ phase' = phase /\ Onward(phase, phase')
BY EscrowUnchanged DEF WithdrawFits, Onward

\* A withdrawal goes on.
LEMMA MoveOnward ==
  ASSUME EscrowType, Covered(Reserved), NEW w \in WithdrawalIds, NEW from \in {"open", "held"},
         NEW to \in {"held", "paid", "closed"}, Move(w, from, to)
  PROVE  EscrowType' /\ Covered(Reserved)' /\ Onward(phase, phase') /\ phase'[w] = to
<1>1. /\ EscrowType' /\ Changes(w) /\ UNCHANGED <<amount, event, raised>>
      /\ phase[w] = from /\ phase'[w] = to
  BY MoveFits DEF Phases
<1>2. Covered(Reserved)'
  <2>1. phase[w] \in Reserved
    BY <1>1 DEF Reserved
  <2> QED BY <1>1, <2>1, CoveredStays
<1>3. Onward(phase, phase')
  <2>1. Status[phase[w]] = "PENDING"
    BY <1>1 DEF Status
  <2> QED BY <1>1, <2>1 DEF Onward, Changes
<1> QED BY <1>1, <1>2, <1>3

\* What the provider decided is recorded.
LEMMA PollRowOnward ==
  ASSUME EscrowType, Covered(Reserved), NEW w \in WithdrawalIds, PollRow(w)
  PROVE  /\ EscrowType' /\ Covered(Reserved)' /\ Onward(phase, phase')
         /\ phase'[w] = Settled(w) /\ Settled(w) \in Phases
<1>1. phase[w] \in Phases
  BY DEF EscrowType
<1>2. CASE Settled(w) = phase[w]
  <2>1. UNCHANGED evars
    BY <1>2 DEF PollRow
  <2> QED BY <1>1, <1>2, <2>1, EscrowUnchanged DEF Onward
<1>3. CASE Settled(w) # phase[w]
  <2>1. Settled(w) \in {"paid", "closed"}
    <3>1. CASE phase[w] = "held" /\ payout[w] = "success"
      BY <3>1 DEF Settled
    <3>2. CASE phase[w] = "held" /\ payout[w] = "failed"
      BY <3>2 DEF Settled
    <3>3. CASE ~(phase[w] = "held" /\ payout[w] = "success") /\ ~(phase[w] = "held" /\ payout[w] = "failed")
      BY <1>3, <3>3 DEF Settled
    <3> QED BY <3>1, <3>2, <3>3
  <2>2. Move(w, "held", Settled(w))
    BY <1>3 DEF PollRow
  <2> QED BY <2>1, <2>2, MoveOnward DEF Phases
<1> QED BY <1>2, <1>3

LEMMA StoppedFits ==
  ASSUME NEW ph, PageFits(page, ph)
  PROVE  /\ Stopped \in PageType /\ Stopped.ev = page.ev /\ Stopped.step = page.step
         /\ Stopped.result = page.result /\ PageFits(Stopped, ph)
<1>1. page \in PageType
  BY DEF PageFits
<1>2. /\ Stopped \in PageType /\ Stopped.ev = page.ev /\ Stopped.step = page.step
      /\ Stopped.result = page.result
  BY <1>1 DEF Stopped, PageType
<1> QED BY <1>2 DEF PageFits

\* A result that is the row's.
LEMMA ResultFits ==
  ASSUME PageFits(page, phase), NEW w \in WithdrawalIds, NEW ph, NEW status \in {"PENDING", "SUCCESSFUL", "FAILED"},
         status \in {"PENDING", Status[ph[w]]}, page.ev \in Events
  PROVE  /\ PageFits(Result(w, status), ph) /\ Result(w, status).ev = page.ev
         /\ PageFits([Stopped EXCEPT !.result = [w |-> w, status |-> status]], ph)
         /\ [Stopped EXCEPT !.result = [w |-> w, status |-> status]].ev = page.ev
<1>1. PICK r : r = [w |-> w, status |-> status]
  OBVIOUS
<1>2. r \in ResultType /\ r.w = w /\ r.status = status
  BY <1>1 DEF ResultType
<1>3. Stopped \in PageType /\ Stopped.ev = page.ev
  BY StoppedFits
<1>4. PICK g : g = [Stopped EXCEPT !.step = 5, !.result = r]
  OBVIOUS
<1>5. g \in PageType /\ g.step = 5 /\ g.ev = page.ev /\ g.result = r
  BY <1>2, <1>3, <1>4 DEF PageType
<1>6. PICK h : h = [Stopped EXCEPT !.result = r]
  OBVIOUS
<1>7. h \in PageType /\ h.ev = page.ev /\ h.result = r
  BY <1>2, <1>3, <1>6 DEF PageType
<1>8. PageFits(g, ph) /\ PageFits(h, ph)
  BY <1>2, <1>5, <1>7 DEF PageFits
<1>9. Result(w, status) = g /\ [Stopped EXCEPT !.result = [w |-> w, status |-> status]] = h
  BY <1>1, <1>4, <1>6 DEF Result
<1> QED BY <1>5, <1>7, <1>8, <1>9

\* The loop goes to sleep until its next poll.
LEMMA PollNextFits ==
  ASSUME WithdrawFits, Asked \in Asks, AskFits(page.ev, Asked), NEW polls \in Nat, PollNext(polls)
  PROVE  SleepFits(page.ev, sleeping')
<1>1. PICK o : o = [polls |-> polls, gone |-> Asked.gone]
  OBVIOUS
<1>2. o \in [polls : Nat, gone : BOOLEAN] /\ (~o.gone => page.ev \in Events)
  BY <1>1 DEF Asks, AskFits
<1>3. sleeping' = [sleeping EXCEPT ![Asked.w] = o]
  BY <1>1 DEF PollNext
<1> QED BY <1>2, <1>3 DEF WithdrawFits, SleepFits

\* Answers that only read.
LEMMA ReadAnswers ==
  ASSUME WithdrawFits,
         OptionsAnswered \/ ResendAnswered
         \/ \E op \in {"options", "recheck", "initiate", "resend", "poll", "check"} : Refused(op)
  PROVE  WithdrawFits'
<1>0. /\ EscrowType' /\ Covered(Reserved)' /\ phase' = phase /\ Onward(phase, phase')
      /\ sleeping' = sleeping
  BY IdleOnward DEF OptionsAnswered, ResendAnswered, Refused, NothingDone
<1>1. queue # <<>> /\ page \in PageType /\ PageFits(page, phase) /\ PageFits(page, phase')
  BY <1>0 DEF OptionsAnswered, ResendAnswered, Refused, Serving, WithdrawFits, PageFits
<1>2. Asked \in Asks /\ AskFits(page.ev, Asked)
  BY <1>1, FirstAsks
<1>3. ASSUME NEW g, Taken(g, <<>>), ~Asked.gone => PageFits(g, phase') /\ g.ev = page.ev
      PROVE  WithdrawFits'
  <2>1. PageFits(page', phase') /\ QueueFits(page'.ev, queue') /\ page'.ev = page.ev
    BY <1>0, <1>1, <1>3, TakenFits
  <2> QED BY <1>0, <2>1 DEF WithdrawFits
<1>4. CASE Taken(page, <<>>)
  BY <1>1, <1>3, <1>4
<1>5. CASE Taken(Stopped, <<>>)
  <2>1. PageFits(Stopped, phase') /\ Stopped.ev = page.ev
    BY <1>1, StoppedFits
  <2> QED BY <1>3, <1>5, <2>1
<1>6. CASE OptionsAnswered
  <2>1. Asked.ev \in Events
    BY <1>2, <1>6 DEF OptionsAnswered, Serving, AskFits
  <2>2. EventOptions \in [Events -> Nat] /\ Least(DefaultAmount, MostOf(Asked.ev)) \in Nat
    <3>1. MostOf(Asked.ev) \in Nat
      BY <1>1, <2>1, AvailableType, LeastType DEF MostOf, PageType, WithdrawFits
    <3> QED BY <3>1, BalanceType, LeastType DEF WithdrawFits
  <2>3. PICK x : x = [page EXCEPT !.options = EventOptions, !.amt = Least(DefaultAmount, MostOf(Asked.ev))]
    OBVIOUS
  <2>4. x \in PageType /\ x.ev = page.ev /\ x.step = page.step /\ x.result = page.result
    BY <1>1, <2>2, <2>3 DEF PageType
  <2>5. PICK g \in (IF x.amt = page.amt THEN {x} ELSE Priced(x)) : Taken(g, <<>>)
    BY <1>6, <2>3 DEF OptionsAnswered
  <2>6. g \in PageType /\ g.ev = page.ev /\ g.step = page.step /\ g.result = page.result
    <3>1. CASE g = x
      BY <2>4, <3>1
    <3>2. CASE g \in Priced(x)
      BY <2>4, <3>2, PricedFits
    <3> QED BY <2>5, <3>1, <3>2
  <2>7. PageFits(g, phase')
    BY <1>1, <2>6 DEF PageFits
  <2> QED BY <1>3, <2>5, <2>6, <2>7
<1>7. CASE ResendAnswered
  BY <1>5, <1>7 DEF ResendAnswered
<1>8. ASSUME NEW op, Refused(op)
      PROVE  WithdrawFits'
  BY <1>4, <1>5, <1>8 DEF Refused
<1> QED BY <1>6, <1>7, <1>8

LEMMA RecheckFits ==
  ASSUME WithdrawFits, RecheckAnswered
  PROVE  WithdrawFits'
<1>0. /\ EscrowType' /\ Covered(Reserved)' /\ phase' = phase /\ Onward(phase, phase')
      /\ sleeping' = sleeping
  BY IdleOnward DEF RecheckAnswered, NothingDone
<1>1. queue # <<>> /\ Asked.op = "recheck" /\ page \in PageType /\ PageFits(page, phase)
  BY DEF RecheckAnswered, Serving, WithdrawFits, PageFits
<1>2. Asked \in Asks /\ AskFits(page.ev, Asked)
  BY <1>1, FirstAsks
<1>3. PICK covered \in BOOLEAN : covered = (Asked.amt <= MostOf(Asked.ev))
  <2>1. (Asked.amt <= MostOf(Asked.ev)) = TRUE \/ (Asked.amt <= MostOf(Asked.ev)) = FALSE
    OBVIOUS
  <2> QED BY <2>1
<1>4. PICK loading \in BOOLEAN : loading = (page.loading \/ covered)
  <2>1. (page.loading \/ covered) = TRUE \/ (page.loading \/ covered) = FALSE
    OBVIOUS
  <2> QED BY <2>1
<1>5. PICK options \in [Events -> Nat] : options = EventOptions
  BY BalanceType DEF WithdrawFits
<1>6. PICK g : g = [page EXCEPT !.options = options, !.loading = loading]
  OBVIOUS
<1>7. g \in PageType /\ g.ev = page.ev /\ g.step = page.step /\ g.result = page.result
  BY <1>1, <1>6 DEF PageType
<1>8. PageFits(g, phase')
  BY <1>0, <1>1, <1>7 DEF PageFits
<1>9. PICK o : o = [Asked EXCEPT !.op = "initiate"]
  OBVIOUS
<1>10. o \in Asks /\ AskFits(page.ev, o)
  <2>1. o \in Asks /\ o.op = "initiate" /\ o.ev = Asked.ev /\ o.gone = Asked.gone
    BY <1>2, <1>9 DEF Asks
  <2> QED BY <1>1, <1>2, <2>1 DEF AskFits
<1>11. PICK requests \in {<<>>, <<o>>} : Taken(g, requests)
  <2>1. [page EXCEPT !.options = EventOptions, !.loading = @ \/ covered] = g
    BY <1>4, <1>5, <1>6
  <2> QED BY <1>3, <1>9, <2>1 DEF RecheckAnswered
<1>12. PageFits(page', phase') /\ QueueFits(page'.ev, queue') /\ page'.ev = page.ev
  BY <1>0, <1>1, <1>7, <1>8, <1>10, <1>11, TakenFits
<1> QED BY <1>0, <1>12 DEF WithdrawFits

LEMMA InitiateAnswers ==
  ASSUME WithdrawFits, InitiateAnswered
  PROVE  WithdrawFits'
<1>0. EscrowType /\ Covered(Reserved)
  BY DEF WithdrawFits
<1>1. queue # <<>> /\ Asked.op = "initiate" /\ page \in PageType /\ PageFits(page, phase) /\ sleeping' = sleeping
  BY DEF InitiateAnswered, Serving, WithdrawFits, PageFits
<1>2. Asked \in Asks /\ AskFits(page.ev, Asked)
  BY <1>1, FirstAsks
<1>3. PICK w \in WithdrawalIds :
        /\ Open(w) /\ event'[w] = Asked.ev /\ amount'[w] = Asked.amt
        /\ \/ Taken([Stopped EXCEPT !.init = w, !.step = 4], <<>>)
           \/ Taken(Stopped, <<>>)
  BY DEF InitiateAnswered
<1>4. EscrowType' /\ Changes(w) /\ raised' = raised /\ phase[w] = "none"
  BY <1>0, <1>3, OpenFits
<1>5. Covered(Reserved)'
  <2>1. Asked.ev \in Events /\ Asked.amt \in Nat /\ Asked.amt <= Available(Asked.ev)
    BY <1>1, <1>2 DEF AskFits, Asks, InitiateAnswered
  <2>2. /\ Asked.amt <= raised[Asked.ev] - SumIn(Reserved, Asked.ev)
        /\ SumIn(Reserved, Asked.ev) \in Nat /\ raised[Asked.ev] \in Nat
    BY <1>0, <2>1, AvailableType, SumInType DEF EscrowType
  <2>3. SumIn(Reserved, event'[w]) + amount'[w] <= raised[event'[w]]
    BY <1>3, <2>1, <2>2
  <2>4. phase[w] \notin Reserved
    BY <1>4 DEF Reserved
  <2> QED BY <1>0, <1>4, <2>3, <2>4, CoveredGrows
<1>6. Onward(phase, phase')
  <2>1. Status[phase[w]] = "PENDING"
    BY <1>4 DEF Status
  <2> QED BY <1>4, <2>1 DEF Onward, Changes
<1>7. PageFits(page, phase')
  BY <1>1, <1>6, PageStays
<1>8. ASSUME NEW g, Taken(g, <<>>), ~Asked.gone => PageFits(g, phase') /\ g.ev = page.ev
      PROVE  WithdrawFits'
  <2>1. PageFits(page', phase') /\ QueueFits(page'.ev, queue') /\ page'.ev = page.ev
    BY <1>1, <1>6, <1>8, TakenFits
  <2> QED BY <1>1, <1>4, <1>5, <2>1 DEF WithdrawFits
<1>9. /\ Stopped \in PageType /\ Stopped.ev = page.ev /\ Stopped.result = page.result
      /\ PageFits(Stopped, phase')
  BY <1>7, StoppedFits
<1>10. CASE Taken(Stopped, <<>>)
  BY <1>8, <1>9, <1>10
<1>11. CASE Taken([Stopped EXCEPT !.init = w, !.step = 4], <<>>)
  <2>1. PICK g : g = [Stopped EXCEPT !.init = w, !.step = 4]
    OBVIOUS
  <2>2. g \in PageType /\ g.ev = page.ev /\ g.result = page.result /\ g.step = 4
    BY <1>9, <2>1 DEF PageType
  <2>3. ~Asked.gone => PageFits(g, phase')
    BY <1>2, <1>7, <2>2 DEF PageFits, AskFits
  <2> QED BY <1>8, <1>11, <2>1, <2>2, <2>3
<1> QED BY <1>3, <1>10, <1>11

LEMMA VerifyAnswers ==
  ASSUME WithdrawFits, VerifyRefused \/ VerifyAnswered
  PROVE  WithdrawFits'
<1>0. EscrowType /\ Covered(Reserved)
  BY DEF WithdrawFits
<1>1. queue # <<>> /\ Asked.op = "verify" /\ PageFits(page, phase)
  BY DEF VerifyRefused, VerifyAnswered, Serving, WithdrawFits
<1>2. Asked \in Asks /\ AskFits(page.ev, Asked) /\ Asked.w \in WithdrawalIds
  BY <1>1, FirstAsks DEF AskFits
<1>3. EscrowType' /\ Covered(Reserved)' /\ Onward(phase, phase')
  <2>1. CASE UNCHANGED evars
    BY <2>1, IdleOnward
  <2>2. CASE Cancel(Asked.w)
    BY <1>0, <1>2, <2>2, MoveOnward DEF Cancel
  <2>3. CASE Hold(Asked.w)
    BY <1>0, <1>2, <2>3, MoveOnward DEF Hold
  <2> QED BY <2>1, <2>2, <2>3 DEF VerifyRefused, VerifyAnswered
<1>4. PageFits(page, phase')
  BY <1>1, <1>3, PageStays
<1>5. SleepFits(page.ev, sleeping')
  <2>1. CASE sleeping' = sleeping
    BY <2>1 DEF WithdrawFits
  <2>2. CASE PollNext(1)
    BY <1>2, <2>2, PollNextFits
  <2> QED BY <2>1, <2>2 DEF VerifyRefused, VerifyAnswered
<1>6. PICK g \in {page, Stopped} : Taken(g, <<>>)
  BY DEF VerifyRefused, VerifyAnswered
<1>7. PageFits(g, phase') /\ g.ev = page.ev
  BY <1>4, StoppedFits
<1>8. PageFits(page', phase') /\ QueueFits(page'.ev, queue') /\ page'.ev = page.ev
  BY <1>1, <1>3, <1>6, <1>7, TakenFits
<1> QED BY <1>3, <1>5, <1>8 DEF WithdrawFits

LEMMA PollAnswers ==
  ASSUME WithdrawFits, PollAnswered \/ CheckAnswered
  PROVE  WithdrawFits'
<1>0. EscrowType /\ Covered(Reserved) /\ PageFits(page, phase)
  BY DEF WithdrawFits
<1>1. queue # <<>> /\ Asked.op \in {"poll", "check"}
  BY DEF PollAnswered, CheckAnswered, Serving
<1>2. Asked \in Asks /\ AskFits(page.ev, Asked) /\ Asked.w \in WithdrawalIds
  BY <1>1, FirstAsks DEF AskFits
<1>3. PollRow(Asked.w)
  BY DEF PollAnswered, CheckAnswered
<1>4. /\ EscrowType' /\ Covered(Reserved)' /\ Onward(phase, phase')
      /\ phase'[Asked.w] = Settled(Asked.w) /\ Settled(Asked.w) \in Phases
  BY <1>0, <1>2, <1>3, PollRowOnward
<1>5. PageFits(page, phase')
  BY <1>0, <1>4, PageStays
<1>6. PICK status : status = Status[Settled(Asked.w)]
  OBVIOUS
<1>7. status \in {"PENDING", "SUCCESSFUL", "FAILED"} /\ status = Status[phase'[Asked.w]]
  BY <1>4, <1>6, StatusOf
<1>8. ~Asked.gone =>
        /\ PageFits(Result(Asked.w, status), phase') /\ Result(Asked.w, status).ev = page.ev
        /\ PageFits([Stopped EXCEPT !.result = [w |-> Asked.w, status |-> status]], phase')
        /\ [Stopped EXCEPT !.result = [w |-> Asked.w, status |-> status]].ev = page.ev
  BY <1>0, <1>2, <1>7, ResultFits DEF AskFits
<1>9. PICK g \in {page, Result(Asked.w, status), [Stopped EXCEPT !.result = [w |-> Asked.w, status |-> status]]} :
        Taken(g, <<>>)
  BY <1>6 DEF PollAnswered, CheckAnswered
<1>10. PageFits(page', phase') /\ QueueFits(page'.ev, queue') /\ page'.ev = page.ev
  BY <1>1, <1>4, <1>5, <1>8, <1>9, TakenFits
<1>11. SleepFits(page.ev, sleeping')
  <2>1. CASE sleeping' = sleeping
    BY <2>1 DEF WithdrawFits
  <2>2. CASE PollNext(Asked.polls + 1)
    <3>1. Asked.polls + 1 \in Nat
      BY <1>2 DEF Asks
    <3> QED BY <1>2, <2>2, <3>1, PollNextFits
  <2> QED BY <2>1, <2>2 DEF PollAnswered, CheckAnswered
<1> QED BY <1>4, <1>10, <1>11 DEF WithdrawFits

LEMMA WithdrawStep ==
  ASSUME WithdrawFits, WithdrawNext
  PROVE  WithdrawFits'
<1>1. ASSUME NEW w \in WithdrawalIds, ProviderDecides(w)
      PROVE  WithdrawFits'
  <2>1. EscrowType' /\ Covered(Reserved)' /\ phase' = phase
    BY <1>1, EscrowUnchanged DEF ProviderDecides, WithdrawFits
  <2> QED BY <1>1, <2>1 DEF ProviderDecides, WithdrawFits
<1>2. CASE Answered
  BY <1>2, ReadAnswers, RecheckFits, InitiateAnswers, VerifyAnswers, PollAnswers DEF Answered
<1> QED BY <1>1, <1>2, ChooseClicks, CodeClicks, TimerFits, LeftPage DEF WithdrawNext

\* Every step of the page is one of the escrow, or none.
LEMMA WithdrawImplements ==
  ASSUME WithdrawFits, WithdrawNext
  PROVE  [EscrowNext]_evars
<1>1. ASSUME NEW w \in WithdrawalIds, PollRow(w)
      PROVE  [EscrowNext]_evars
  <2>1. CASE Settled(w) = phase[w]
    BY <1>1, <2>1 DEF PollRow
  <2>2. CASE Settled(w) # phase[w]
    <3>1. Move(w, "held", Settled(w))
      BY <1>1, <2>2 DEF PollRow
    <3>2. Settled(w) = "paid" \/ Settled(w) = "closed"
      <4>1. CASE phase[w] = "held" /\ payout[w] = "success"
        BY <4>1 DEF Settled
      <4>2. CASE phase[w] = "held" /\ payout[w] = "failed"
        BY <4>2 DEF Settled
      <4>3. CASE ~(phase[w] = "held" /\ payout[w] = "success") /\ ~(phase[w] = "held" /\ payout[w] = "failed")
        BY <2>2, <4>3 DEF Settled
      <4> QED BY <4>1, <4>2, <4>3
    <3>3. Pay(w) \/ GiveBack(w)
      BY <3>1, <3>2 DEF Pay, GiveBack
    <3> QED BY <3>3 DEF EscrowNext
  <2> QED BY <2>1, <2>2
<1>2. CASE PollAnswered \/ CheckAnswered
  <2>1. queue # <<>> /\ Asked.op \in {"poll", "check"} /\ PollRow(Asked.w)
    BY <1>2 DEF PollAnswered, CheckAnswered, Serving
  <2>2. Asked.w \in WithdrawalIds
    BY <2>1, FirstAsks DEF AskFits
  <2> QED BY <1>1, <2>1, <2>2
<1>3. CASE VerifyRefused \/ VerifyAnswered
  <2>1. queue # <<>> /\ Asked.op = "verify" /\ (Cancel(Asked.w) \/ Hold(Asked.w) \/ UNCHANGED evars)
    BY <1>3 DEF VerifyRefused, VerifyAnswered, Serving
  <2>2. Asked.w \in WithdrawalIds
    BY <2>1, FirstAsks DEF AskFits
  <2> QED BY <2>1, <2>2 DEF EscrowNext
<1>4. CASE InitiateAnswered
  BY <1>4 DEF InitiateAnswered, EscrowNext
<1>5. CASE \/ OptionsAnswered \/ RecheckAnswered \/ ResendAnswered
           \/ \E op \in {"options", "recheck", "initiate", "resend", "poll", "check"} : Refused(op)
  BY <1>5 DEF OptionsAnswered, RecheckAnswered, ResendAnswered, Refused, NothingDone
<1>6. CASE \/ SelectEvent \/ GoToStep2 \/ GoToStep3 \/ BackButton \/ TypeAmount \/ GoToStep4
           \/ HandleResendOtp \/ HandleVerifyOtp \/ CheckStatus \/ TryAgain \/ LeavePage
  BY <1>6 DEF SelectEvent, GoToStep2, GoToStep3, BackButton, TypeAmount, GoToStep4,
              HandleResendOtp, HandleVerifyOtp, CheckStatus, TryAgain, LeavePage, OnPage
<1>7. ASSUME NEW w \in WithdrawalIds, PollTimer(w) \/ ProviderDecides(w)
      PROVE  [EscrowNext]_evars
  BY <1>7 DEF PollTimer, ProviderDecides
<1> QED BY <1>2, <1>3, <1>4, <1>5, <1>6, <1>7 DEF WithdrawNext, Answered

-----------------------------------------------------------------------------
(***************************************************************************)
(* The account page.                                                       *)
(***************************************************************************)
LedgerRows == [id : TransactionIds, at : Nat, event : FilterEvents \cup {AllEvents}]

LedgerFits ==
  /\ now \in Nat /\ IsFiniteSet(ledger) /\ ledger \subseteq LedgerRows
  /\ \A r, s \in ledger : r.id = s.id => r = s

\* Newest first is an order of rows with different ids.
NewerOf(S) == {z \in S \X S : Newer(z[1], z[2])}

LEMMA NewerOrders ==
  ASSUME NEW S, S \subseteq LedgerRows, \A r, s \in S : r.id = s.id => r = s
  PROVE  StrictlyOrdered(NewerOf(S), S)
<1>1. \A r, s \in S : <<r, s>> \in NewerOf(S) <=> Newer(r, s)
  BY DEF NewerOf
<1>2. \A r \in S : r.id \in Nat /\ r.at \in Nat
  BY DEF LedgerRows
<1>3. \A r \in S : ~Newer(r, r)
  BY <1>2 DEF Newer
<1>4. \A r, s \in S : r # s => Newer(r, s) \/ Newer(s, r)
  BY <1>2 DEF Newer
<1>5. \A r, s, t \in S : Newer(r, s) /\ Newer(s, t) => Newer(r, t)
  BY <1>2 DEF Newer
<1> QED BY <1>1, <1>3, <1>4, <1>5 DEF StrictlyOrdered

\* The list of a set of rows has them all, newest first.
LEMMA NewestFits ==
  ASSUME NEW S, IsFiniteSet(S), S \subseteq LedgerRows, \A r, s \in S : r.id = s.id => r = s
  PROVE  LET f == NewestFirst(S)
         IN  /\ f \in [1 .. Cardinality(S) -> S] /\ Cardinality(S) \in Nat
             /\ \A i, j \in 1 .. Cardinality(S) : i < j => Newer(f[i], f[j])
             /\ \A r \in S : \E i \in 1 .. Cardinality(S) : f[i] = r
<1>1. StrictlyOrdered(NewerOf(S), S)
  BY NewerOrders
<1>2. PICK g \in [1 .. Cardinality(S) -> S] : InOrder(NewerOf(S), g)
  BY <1>1, SortExists DEF Sortable
<1>3. \A i, j \in DOMAIN g : i < j => Newer(g[i], g[j])
  BY <1>2 DEF InOrder, NewerOf
<1>4. PICK f : f = NewestFirst(S)
  OBVIOUS
<1>5. f \in [1 .. Cardinality(S) -> S] /\ \A i, j \in DOMAIN f : i < j => Newer(f[i], f[j])
  BY <1>3, <1>4 DEF NewestFirst
<1>6. InOrder(NewerOf(S), f)
  BY <1>5 DEF InOrder, NewerOf
<1>7. f \in Surjection(1 .. Cardinality(S), S)
  <2>1. PICK R : R = NewerOf(S)
    OBVIOUS
  <2>2. StrictlyOrdered(R, S) /\ InOrder(R, f) /\ f \in [1 .. Cardinality(S) -> S]
    BY <1>1, <1>5, <1>6, <2>1
  <2> QED BY <2>2, SortHasAll
<1>8. \A r \in S : \E i \in 1 .. Cardinality(S) : f[i] = r
  BY <1>7 DEF Surjection
<1> QED BY <1>4, <1>5, <1>8, FS_CardinalityType

\* A set of rows of the ledger: finitely many, each with an id of its own.
RowSet(S) == IsFiniteSet(S) /\ S \subseteq LedgerRows /\ \A r, s \in S : r.id = s.id => r = s

LEMMA RowSubset ==
  ASSUME NEW L, RowSet(L), NEW S, S \subseteq L
  PROVE  RowSet(S)
BY FS_Subset DEF RowSet

LEMMA NewerIsOlder ==
  ASSUME NEW r \in LedgerRows, NEW s \in LedgerRows, NEW t \in LedgerRows
  PROVE  ~Newer(r, r) /\ (Newer(r, s) /\ Newer(s, t) => Newer(r, t)) /\ (Newer(r, s) => r # NoCursor)
<1>1. r.at \in Nat /\ s.at \in Nat /\ t.at \in Nat /\ r.id \in Nat /\ s.id \in Nat /\ t.id \in Nat
  BY AccountPagesAssumption DEF LedgerRows
<1>2. NoCursor.at = 0 /\ NoCursor.id = 0
  BY DEF NoCursor
<1> QED BY <1>1, <1>2 DEF Newer

\* What listTransactions answers of the rows B below a cursor.
RowsAnswered(B) ==
  LET sorted == NewestFirst(B)
      more == Len(sorted) > PageSize
      rows == IF more THEN SubSeq(sorted, 1, PageSize) ELSE sorted
  IN  [rows |-> rows, more |-> more, cursor |-> IF more THEN Last(rows) ELSE NoCursor]

InOrderOfTime(rows) == \A j, k \in DOMAIN rows : j < k => Newer(rows[j], rows[k])

IsAmong(r, rows) == \E k \in DOMAIN rows : rows[k] = r

\* The rows listed come down to the cursor.
DownTo(rows, cursor) == \A k \in DOMAIN rows : rows[k] = cursor \/ Newer(rows[k], cursor)

AnswerIsWhole(a, B) ==
  /\ a.rows \in Seq(B) /\ InOrderOfTime(a.rows) /\ a.more \in BOOLEAN
  /\ (a.more => a.cursor \in B /\ a.cursor # NoCursor /\ DownTo(a.rows, a.cursor))
  /\ \A r \in B : IsAmong(r, a.rows) \/ (a.more /\ Newer(a.cursor, r))
  /\ (~a.more => a.cursor = NoCursor)

LEMMA NewestLists ==
  ASSUME NEW S, RowSet(S), NEW f, f = NewestFirst(S)
  PROVE  f \in Seq(S) /\ InOrderOfTime(f) /\ \A r \in S : IsAmong(r, f)
<1>1. /\ f \in [1 .. Cardinality(S) -> S] /\ Cardinality(S) \in Nat
      /\ \A i, j \in 1 .. Cardinality(S) : i < j => Newer(f[i], f[j])
      /\ \A r \in S : \E i \in 1 .. Cardinality(S) : f[i] = r
  BY NewestFits DEF RowSet
<1>2. DOMAIN f = 1 .. Cardinality(S)
  BY <1>1
<1>3. f \in Seq(S)
  BY <1>1
<1> QED BY <1>1, <1>2, <1>3 DEF InOrderOfTime, IsAmong

LEMMA AnswerLists ==
  ASSUME NEW B, RowSet(B), NEW a, a = RowsAnswered(B), NEW f, f = NewestFirst(B)
  PROVE  AnswerIsWhole(a, B)
<1>1. f = NewestFirst(B)
  OBVIOUS
<1>2. f \in Seq(B) /\ InOrderOfTime(f) /\ \A r \in B : IsAmong(r, f)
  BY <1>1, NewestLists
<1>3. PageSize \in Nat \ {0} /\ Len(f) \in Nat /\ DOMAIN f = 1 .. Len(f)
  BY <1>2, AccountPagesAssumption
<1>4. CASE ~(Len(f) > PageSize)
  <2>1. PICK more \in BOOLEAN : more = (Len(f) > PageSize)
    <3>1. (Len(f) > PageSize) = TRUE \/ (Len(f) > PageSize) = FALSE
      OBVIOUS
    <3> QED BY <3>1
  <2>2. a = [rows |-> f, more |-> more, cursor |-> NoCursor]
    BY <1>1, <1>4, <2>1, Zenon DEF RowsAnswered
  <2>3. a.rows = f /\ a.more = more /\ a.cursor = NoCursor
    BY <2>2
  <2>4. ~a.more
    BY <1>4, <2>1, <2>3
  <2> QED BY <1>2, <2>1, <2>3, <2>4 DEF AnswerIsWhole
<1>5. CASE Len(f) > PageSize
  <2>1. PICK g : g = SubSeq(f, 1, PageSize)
    OBVIOUS
  <2>2. g \in Seq(B) /\ Len(g) = PageSize /\ DOMAIN g = 1 .. PageSize
        /\ \A k \in 1 .. PageSize : g[k] = f[k]
    BY <1>2, <1>3, <1>5, <2>1
  <2>3. a.rows = g /\ a.more = TRUE /\ a.cursor = g[PageSize]
    BY <1>1, <1>5, <2>1, <2>2 DEF RowsAnswered, Last
  <2>4. PICK c : c = f[PageSize]
    OBVIOUS
  <2>5. a.cursor = c /\ c \in B /\ PageSize \in DOMAIN f
    BY <1>2, <1>3, <1>5, <2>2, <2>3, <2>4
  <2>6. InOrderOfTime(g) /\ DownTo(g, c)
    <3>1. \A k \in 1 .. PageSize : k \in DOMAIN f
      BY <1>3, <1>5
    <3>2. \A k \in 1 .. PageSize : k = PageSize \/ k < PageSize
      BY <1>3
    <3>3. \A j, k \in 1 .. PageSize : j < k => Newer(f[j], f[k])
      BY <1>2, <3>1 DEF InOrderOfTime
    <3>4. \A k \in 1 .. PageSize : f[k] = c \/ Newer(f[k], c)
      BY <1>2, <2>4, <2>5, <3>1, <3>2 DEF InOrderOfTime
    <3> QED BY <2>2, <3>3, <3>4 DEF InOrderOfTime, DownTo
  <2>7. ASSUME NEW r \in B
        PROVE  IsAmong(r, g) \/ Newer(c, r)
    <3>1. PICK k \in DOMAIN f : f[k] = r
      BY <1>2 DEF IsAmong
    <3>2. CASE k \in 1 .. PageSize
      BY <2>2, <3>1, <3>2 DEF IsAmong
    <3>3. CASE k \notin 1 .. PageSize
      <4>1. PageSize < k
        BY <1>3, <3>3
      <4> QED BY <1>2, <2>4, <2>5, <3>1, <4>1 DEF InOrderOfTime
    <3> QED BY <3>2, <3>3
  <2>8. c # NoCursor
    <3>1. PageSize + 1 \in DOMAIN f /\ PageSize < PageSize + 1
      BY <1>3, <1>5
    <3>2. f[PageSize + 1] \in B /\ Newer(c, f[PageSize + 1])
      BY <1>2, <2>4, <2>5, <3>1 DEF InOrderOfTime
    <3> QED BY <2>5, <3>2, NewerIsOlder DEF RowSet
  <2> QED BY <2>2, <2>3, <2>5, <2>6, <2>7, <2>8 DEF AnswerIsWhole
<1> QED BY <1>4, <1>5

Filters == FilterEvents \cup {AllEvents}

ListType ==
  [filter : Filters, rows : Seq(LedgerRows), cursor : LedgerRows \cup {NoCursor}, more : BOOLEAN,
   loading : BOOLEAN, asked : Filters, filtering : BOOLEAN, whole : SUBSET LedgerRows, mixed : BOOLEAN]

\* What makes the list whole: it comes down to its cursor, and every row it was
\* read over is in it or below.
WholeList(l, L) ==
  /\ l.rows \in Seq(Of(L, l.filter)) /\ InOrderOfTime(l.rows)
  /\ l.whole \subseteq Of(L, l.filter)
  /\ (l.loading => l.more /\ l.asked = l.filter)
  /\ (l.more => l.cursor \in L /\ l.cursor # NoCursor /\ DownTo(l.rows, l.cursor))
  /\ \A r \in l.whole : IsAmong(r, l.rows) \/ (l.more /\ Newer(l.cursor, r))

ListFits(l, L) == l \in ListType /\ (~l.filtering /\ ~l.mixed => WholeList(l, L))

LEMMA SeqOfMore ==
  ASSUME NEW S, NEW T, S \subseteq T, NEW f \in Seq(S)
  PROVE  f \in Seq(T)
<1>1. Len(f) \in Nat /\ DOMAIN f = 1 .. Len(f) /\ \A k \in 1 .. Len(f) : f[k] \in T
  OBVIOUS
<1> QED BY <1>1

\* The rows of the ledger below a cursor.
Below(L, filter, cursor) == {r \in Of(L, filter) : cursor = NoCursor \/ Newer(cursor, r)}

LEMMA PageAnswers ==
  ASSUME NEW filter, NEW cursor
  PROVE  PageOf(filter, cursor) = RowsAnswered(Below(ledger, filter, cursor))
BY Zenon DEF PageOf, RowsAnswered, Below

LEMMA ListedFits ==
  ASSUME RowSet(ledger), NEW filter \in Filters, NEW g, g = Listed(filter)
  PROVE  ListFits(g, ledger)
<1>1. PICK B : B = Of(ledger, filter)
  OBVIOUS
<1>2. B \subseteq ledger /\ RowSet(B)
  BY <1>1, RowSubset DEF Of
<1>3. PICK a : a = FirstPage(filter)
  OBVIOUS
<1>4. a = RowsAnswered(B)
  <2>1. Below(ledger, filter, NoCursor) = B
    BY <1>1 DEF Below
  <2> QED BY <1>3, <2>1, PageAnswers DEF FirstPage
<1>5. AnswerIsWhole(a, B)
  <2>1. PICK f : f = NewestFirst(B)
    OBVIOUS
  <2> QED BY <1>2, <1>4, <2>1, AnswerLists
<1>6. g = [filter |-> filter, rows |-> a.rows, cursor |-> a.cursor, more |-> a.more, loading |-> FALSE,
           asked |-> AllEvents, filtering |-> FALSE, whole |-> B, mixed |-> FALSE]
  BY <1>1, <1>3, Zenon DEF Listed
<1>7. B \subseteq LedgerRows
  BY <1>2 DEF RowSet
<1>8. a.rows \in Seq(LedgerRows) /\ a.rows \in Seq(B)
  BY <1>5, <1>7, SeqOfMore DEF AnswerIsWhole
<1>9. a.cursor \in LedgerRows \cup {NoCursor} /\ a.more \in BOOLEAN
  BY <1>5, <1>7 DEF AnswerIsWhole
<1>10. g \in ListType
  BY <1>6, <1>7, <1>8, <1>9 DEF ListType, Filters
<1>11. /\ g.filter = filter /\ g.rows = a.rows /\ g.cursor = a.cursor /\ g.more = a.more
       /\ g.loading = FALSE /\ g.whole = B
  BY <1>6
<1>12. WholeList(g, ledger)
  <2>1. g.rows \in Seq(Of(ledger, g.filter)) /\ g.whole \subseteq Of(ledger, g.filter)
    BY <1>1, <1>8, <1>11
  <2>2. InOrderOfTime(g.rows)
    BY <1>5, <1>11 DEF AnswerIsWhole
  <2>3. g.more => g.cursor \in ledger /\ g.cursor # NoCursor /\ DownTo(g.rows, g.cursor)
    BY <1>2, <1>5, <1>11 DEF AnswerIsWhole
  <2>4. \A r \in g.whole : IsAmong(r, g.rows) \/ (g.more /\ Newer(g.cursor, r))
    BY <1>5, <1>11 DEF AnswerIsWhole
  <2> QED BY <1>11, <2>1, <2>2, <2>3, <2>4 DEF WholeList
<1> QED BY <1>10, <1>12 DEF ListFits

\* Rows that are posted leave what was shown whole.
LEMMA ListStays ==
  ASSUME NEW l, NEW L, NEW M, L \subseteq M, ListFits(l, L)
  PROVE  ListFits(l, M)
<1>1. Of(L, l.filter) \subseteq Of(M, l.filter)
  BY DEF Of
<1>2. ASSUME WholeList(l, L)
      PROVE  WholeList(l, M)
  <2>1. l.rows \in Seq(Of(M, l.filter))
    BY <1>1, <1>2, SeqOfMore DEF WholeList
  <2> QED BY <1>1, <1>2, <2>1 DEF WholeList
<1> QED BY <1>2 DEF ListFits

IsAbove(f, g) == \A i \in DOMAIN f, j \in DOMAIN g : Newer(f[i], g[j])

Joined(f, g, h) == InOrderOfTime(h) /\ (\A r : IsAmong(r, h) <=> IsAmong(r, f) \/ IsAmong(r, g))

\* Two lists in order, one above the other, are one.
LEMMA JoinedInOrder ==
  ASSUME NEW S, NEW f \in Seq(S), NEW g \in Seq(S), NEW h, h = f \o g,
         InOrderOfTime(f), InOrderOfTime(g), IsAbove(f, g)
  PROVE  h \in Seq(S) /\ Joined(f, g, h)
<1> USE DEF IsAbove, Joined
<1>1. /\ Len(f) \in Nat /\ Len(g) \in Nat /\ Len(h) = Len(f) + Len(g)
      /\ DOMAIN f = 1 .. Len(f) /\ DOMAIN g = 1 .. Len(g) /\ DOMAIN h = 1 .. Len(h) /\ h \in Seq(S)
  OBVIOUS
<1>2. \A i \in 1 .. Len(f) : i \in DOMAIN h /\ h[i] = f[i]
  BY <1>1
<1>3. \A j \in 1 .. Len(g) : Len(f) + j \in DOMAIN h /\ h[Len(f) + j] = g[j]
  BY <1>1
<1>4. \A i \in DOMAIN h : i \in 1 .. Len(f) \/ (i - Len(f) \in 1 .. Len(g) /\ h[i] = g[i - Len(f)])
  BY <1>1
<1>5. ASSUME NEW i \in DOMAIN h, NEW j \in DOMAIN h, i < j
      PROVE  Newer(h[i], h[j])
  <2>1. CASE i \in 1 .. Len(f) /\ j \in 1 .. Len(f)
    BY <1>1, <1>2, <1>5, <2>1 DEF InOrderOfTime
  <2>2. CASE i \in 1 .. Len(f) /\ j \notin 1 .. Len(f)
    BY <1>1, <1>2, <1>4, <2>2
  <2>3. CASE i \notin 1 .. Len(f)
    <3>1. j \notin 1 .. Len(f)
      BY <1>1, <1>5, <2>3
    <3>2. PICK m : m = i - Len(f)
      OBVIOUS
    <3>3. PICK n : n = j - Len(f)
      OBVIOUS
    <3>4. m \in DOMAIN g /\ n \in DOMAIN g /\ h[i] = g[m] /\ h[j] = g[n] /\ m < n
      BY <1>1, <1>4, <1>5, <2>3, <3>1, <3>2, <3>3
    <3> QED BY <3>4 DEF InOrderOfTime
  <2> QED BY <2>1, <2>2, <2>3
<1>6. ASSUME NEW r
      PROVE  IsAmong(r, h) <=> IsAmong(r, f) \/ IsAmong(r, g)
  <2>1. ASSUME IsAmong(r, h)
        PROVE  IsAmong(r, f) \/ IsAmong(r, g)
    <3>1. PICK i \in DOMAIN h : h[i] = r
      BY <2>1 DEF IsAmong
    <3> QED BY <1>1, <1>2, <1>4, <3>1 DEF IsAmong
  <2>2. ASSUME IsAmong(r, f)
        PROVE  IsAmong(r, h)
    BY <1>1, <1>2, <2>2 DEF IsAmong
  <2>3. ASSUME IsAmong(r, g)
        PROVE  IsAmong(r, h)
    <3>1. PICK j \in DOMAIN g : g[j] = r
      BY <2>3 DEF IsAmong
    <3>2. Len(f) + j \in DOMAIN h /\ h[Len(f) + j] = r
      BY <1>1, <1>3, <3>1
    <3> QED BY <3>2 DEF IsAmong
  <2> QED BY <2>1, <2>2, <2>3
<1>7. InOrderOfTime(h)
  BY <1>5 DEF InOrderOfTime
<1> QED BY <1>1, <1>6, <1>7

LEMMA ToSetHas ==
  ASSUME NEW S, NEW f \in Seq(S)
  PROVE  ToSet(f) \subseteq S /\ \A r : r \in ToSet(f) <=> IsAmong(r, f)
BY DEF ToSet, IsAmong

\* A page more of a whole list is of rows below it, and leaves it whole.
LEMMA MoreFits ==
  ASSUME RowSet(ledger), NEW l, ListFits(l, ledger), l.loading, ~l.filtering, ~l.mixed,
         NEW a, a = PageOf(l.asked, l.cursor), NEW S, S = ToSet(a.rows) \ ToSet(l.rows),
         NEW added, added = NewestFirst(S),
         NEW g, g \in ListType, g.filter = l.filter, g.whole = l.whole, g.loading = FALSE,
         g.rows = l.rows \o added, g.cursor = a.cursor, g.more = a.more
  PROVE  WholeList(g, ledger)
<1>1. WholeList(l, ledger) /\ l.more /\ l.asked = l.filter /\ l.cursor \in ledger /\ l.cursor # NoCursor
  BY DEF ListFits, WholeList
<1>2. PICK B : B = Below(ledger, l.filter, l.cursor)
  OBVIOUS
<1>3. B \subseteq Of(ledger, l.filter) /\ B \subseteq ledger /\ \A r \in B : Newer(l.cursor, r)
  BY <1>1, <1>2 DEF Below, Of
<1>4. RowSet(B)
  BY <1>3, RowSubset
<1>5. AnswerIsWhole(a, B)
  <2>1. PICK f : f = NewestFirst(B)
    OBVIOUS
  <2>2. a = RowsAnswered(B)
    BY <1>1, <1>2, PageAnswers
  <2> QED BY <1>4, <2>1, <2>2, AnswerLists
<1>6. \A r \in ledger : r \in LedgerRows
  BY DEF RowSet
<1>7. \A k \in DOMAIN l.rows : l.rows[k] \in ledger /\ (l.rows[k] = l.cursor \/ Newer(l.rows[k], l.cursor))
  <2>1. \A k \in DOMAIN l.rows : l.rows[k] \in Of(ledger, l.filter)
    BY <1>1 DEF WholeList
  <2> QED BY <1>1, <2>1 DEF WholeList, DownTo, Of
<1>8. \A k \in DOMAIN l.rows, r \in B : Newer(l.rows[k], r)
  BY <1>1, <1>3, <1>6, <1>7, NewerIsOlder
<1>9. S \subseteq B /\ \A r : r \in S <=> IsAmong(r, a.rows)
  <2>1. ToSet(a.rows) \subseteq B /\ \A r : r \in ToSet(a.rows) <=> IsAmong(r, a.rows)
    BY <1>5, ToSetHas DEF AnswerIsWhole
  <2>2. \A r : r \in ToSet(l.rows) <=> IsAmong(r, l.rows)
    <3>1. l.rows \in Seq(LedgerRows)
      BY DEF ListFits, ListType
    <3> QED BY <3>1, ToSetHas
  <2>3. \A r \in B : r \notin ToSet(l.rows)
    BY <1>3, <1>6, <1>8, <2>2, NewerIsOlder DEF IsAmong
  <2> QED BY <2>1, <2>3
<1>10. added \in Seq(S) /\ InOrderOfTime(added) /\ \A r \in S : IsAmong(r, added)
  BY <1>4, <1>9, RowSubset, NewestLists
<1>11. PICK T : T = Of(ledger, l.filter)
  OBVIOUS
<1>12. T \in SUBSET LedgerRows /\ l.rows \in Seq(T) /\ InOrderOfTime(l.rows) /\ S \subseteq T
  BY <1>1, <1>3, <1>6, <1>9, <1>11 DEF WholeList, Of
<1>13. added \in Seq(T)
  BY <1>10, <1>12, SeqOfMore
<1>14. \A i \in DOMAIN l.rows, j \in DOMAIN added : Newer(l.rows[i], added[j])
  BY <1>8, <1>9, <1>10
<1>15. /\ g.rows \in Seq(T) /\ InOrderOfTime(g.rows)
       /\ \A r : IsAmong(r, g.rows) <=> IsAmong(r, l.rows) \/ IsAmong(r, added)
  <2>1. PICK f : f = l.rows
    OBVIOUS
  <2>2. PICK h : h = g.rows
    OBVIOUS
  <2>3. f \in Seq(T) /\ InOrderOfTime(f) /\ h = f \o added
    BY <1>12, <2>1, <2>2
  <2>4. IsAbove(f, added)
    BY <1>14, <2>1 DEF IsAbove
  <2>5. h \in Seq(T) /\ Joined(f, added, h)
    BY <1>10, <1>13, <2>3, <2>4, JoinedInOrder
  <2> QED BY <2>1, <2>2, <2>5 DEF Joined
<1>16. ASSUME g.more
       PROVE  g.cursor \in ledger /\ g.cursor # NoCursor /\ DownTo(g.rows, g.cursor)
  <2>1. PICK c : c = a.cursor
    OBVIOUS
  <2>2. c \in B /\ c # NoCursor /\ DownTo(a.rows, c)
    BY <1>5, <1>16, <2>1 DEF AnswerIsWhole
  <2>3. ASSUME NEW r, IsAmong(r, g.rows)
        PROVE  r = c \/ Newer(r, c)
    <3>1. CASE IsAmong(r, l.rows)
      BY <1>8, <2>2, <3>1 DEF IsAmong
    <3>2. CASE IsAmong(r, added)
      <4>1. r \in S
        BY <1>10, <3>2 DEF IsAmong
      <4>2. IsAmong(r, a.rows)
        BY <1>9, <4>1
      <4> QED BY <2>2, <4>2 DEF IsAmong, DownTo
    <3> QED BY <1>15, <2>3, <3>1, <3>2
  <2>4. DownTo(g.rows, c)
    BY <2>3 DEF DownTo, IsAmong
  <2> QED BY <1>3, <2>1, <2>2, <2>4
<1>17. ASSUME NEW r \in g.whole
       PROVE  IsAmong(r, g.rows) \/ (g.more /\ Newer(g.cursor, r))
  <2>1. CASE IsAmong(r, l.rows)
    BY <1>15, <2>1
  <2>2. CASE ~IsAmong(r, l.rows)
    <3>1. r \in B
      BY <1>1, <1>2, <2>2 DEF WholeList, Below
    <3>2. CASE IsAmong(r, a.rows)
      BY <1>9, <1>10, <1>15, <3>2
    <3>3. CASE ~IsAmong(r, a.rows)
      BY <1>5, <3>1, <3>3 DEF AnswerIsWhole
    <3> QED BY <3>2, <3>3
  <2> QED BY <2>1, <2>2
<1>18. g.whole \subseteq Of(ledger, g.filter)
  BY <1>1 DEF WholeList
<1> QED BY <1>11, <1>15, <1>16, <1>17, <1>18 DEF WholeList

AccountFits == LedgerFits /\ ListFits(list, ledger)

LEMMA LedgerRowSet ==
  ASSUME LedgerFits
  PROVE  RowSet(ledger)
BY DEF LedgerFits, RowSet

LEMMA PostFits ==
  ASSUME AccountFits, Post
  PROVE  AccountFits'
<1>1. PICK id \in TransactionIds, ev \in FilterEvents \cup {AllEvents}, late \in 0 .. MaxLate :
        /\ late <= now /\ \A r \in ledger : r.id # id
        /\ ledger' = ledger \cup {[id |-> id, at |-> now - late, event |-> ev]}
  BY DEF Post
<1>2. PICK n : n = [id |-> id, at |-> now - late, event |-> ev]
  OBVIOUS
<1>3. n \in LedgerRows /\ n.id = id /\ ledger' = ledger \cup {n}
  <2>1. now - late \in Nat
    BY <1>1, AccountPagesAssumption DEF AccountFits, LedgerFits
  <2> QED BY <1>1, <1>2, <2>1 DEF LedgerRows
<1>4. IsFiniteSet(ledger')
  BY <1>3, FS_AddElement DEF AccountFits, LedgerFits
<1>5. LedgerFits'
  BY <1>1, <1>3, <1>4 DEF Post, AccountFits, LedgerFits
<1>6. ListFits(list, ledger')
  BY <1>3, ListStays DEF AccountFits
<1> QED BY <1>5, <1>6 DEF Post, AccountFits

LEMMA MoreAnswers ==
  ASSUME AccountFits, MoreAnswered
  PROVE  AccountFits'
<1>1. PICK a : a = PageOf(list.asked, list.cursor)
  OBVIOUS
<1>2. PICK S : S = ToSet(a.rows) \ ToSet(list.rows)
  OBVIOUS
<1>3. PICK added : added = NewestFirst(S)
  OBVIOUS
<1>4. PICK g : g = [list EXCEPT !.loading = FALSE, !.asked = AllEvents, !.rows = list.rows \o added,
                                !.cursor = a.cursor, !.more = a.more]
  OBVIOUS
<1>5. list' = g
  BY <1>1, <1>2, <1>3, <1>4, Zenon DEF MoreAnswered
<1>6. list \in ListType /\ list.loading
  BY DEF AccountFits, ListFits, MoreAnswered
<1>7. RowSet(ledger)
  BY LedgerRowSet DEF AccountFits
<1>8. a.more \in BOOLEAN /\ a.cursor \in LedgerRows \cup {NoCursor} /\ added \in Seq(LedgerRows)
  <2>1. PICK B : B = Below(ledger, list.asked, list.cursor)
    OBVIOUS
  <2>2. B \subseteq ledger /\ RowSet(B)
    BY <1>7, <2>1, RowSubset DEF Below, Of
  <2>3. AnswerIsWhole(a, B)
    <3>1. PICK f : f = NewestFirst(B)
      OBVIOUS
    <3>2. a = RowsAnswered(B)
      BY <1>1, <2>1, PageAnswers
    <3> QED BY <2>2, <3>1, <3>2, AnswerLists
  <2>4. S \subseteq B
    BY <1>2, <2>3, ToSetHas DEF AnswerIsWhole
  <2>5. RowSet(S) /\ S \subseteq LedgerRows
    BY <2>2, <2>4, RowSubset DEF RowSet
  <2>6. added \in Seq(LedgerRows)
    BY <1>3, <2>5, NewestLists, SeqOfMore
  <2> QED BY <2>2, <2>3, <2>6 DEF AnswerIsWhole, RowSet
<1>9. list.rows \o added \in Seq(LedgerRows)
  BY <1>6, <1>8 DEF ListType
<1>10. /\ g \in ListType /\ g.filter = list.filter /\ g.whole = list.whole /\ g.loading = FALSE
       /\ g.rows = list.rows \o added /\ g.cursor = a.cursor /\ g.more = a.more
       /\ g.filtering = list.filtering /\ g.mixed = list.mixed
  BY <1>4, <1>6, <1>8, <1>9 DEF ListType, Filters
<1>11. ASSUME ~list.filtering, ~list.mixed
       PROVE  WholeList(g, ledger)
  BY <1>1, <1>2, <1>3, <1>6, <1>7, <1>10, <1>11, MoreFits DEF AccountFits
<1>12. ListFits(g, ledger)
  BY <1>10, <1>11 DEF ListFits
<1>13. ledger' = ledger /\ now' = now
  BY DEF MoreAnswered
<1>14. ListFits(list', ledger')
  BY <1>5, <1>12, <1>13
<1> QED BY <1>13, <1>14 DEF AccountFits, LedgerFits

LEMMA AccountStep ==
  ASSUME AccountFits, AccountNext
  PROVE  AccountFits'
<1>1. RowSet(ledger) /\ list \in ListType
  BY LedgerRowSet DEF AccountFits, ListFits
<1>2. ASSUME UNCHANGED <<ledger, now>>, NEW g, list' = g, ListFits(g, ledger)
      PROVE  AccountFits'
  <2>1. ListFits(list', ledger')
    BY <1>2
  <2> QED BY <1>2, <2>1 DEF AccountFits, LedgerFits
<1>3. ASSUME UNCHANGED <<ledger, now>>, NEW choice \in Filters, list' = Listed(choice)
      PROVE  AccountFits'
  <2>1. PICK g : g = Listed(choice)
    OBVIOUS
  <2>2. ListFits(g, ledger)
    BY <1>1, <2>1, ListedFits
  <2> QED BY <1>2, <1>3, <2>1, <2>2
<1>4. ASSUME UNCHANGED <<ledger, now>>, NEW g, list' = g, g \in ListType,
             g.filtering \/ g.mixed
                \/ (/\ ~list.filtering /\ ~list.mixed /\ (g.loading => list.more /\ g.asked = list.filter)
                    /\ g.filter = list.filter /\ g.rows = list.rows /\ g.whole = list.whole
                    /\ g.more = list.more /\ g.cursor = list.cursor)
      PROVE  AccountFits'
  <2>1. ListFits(g, ledger)
    BY <1>4 DEF AccountFits, ListFits, WholeList
  <2> QED BY <1>2, <1>4, <2>1
<1>5. CASE Tick
  <2>1. now' \in Nat /\ ledger' = ledger /\ list' = list
    BY <1>5 DEF Tick, AccountFits, LedgerFits
  <2> QED BY <2>1 DEF AccountFits, LedgerFits
<1>6. CASE OpenAccount
  BY <1>3, <1>6 DEF OpenAccount, Filters
<1>7. CASE ApplyEventFilter
  <2>1. PICK filter \in Filters : list' = [list EXCEPT !.filter = filter, !.filtering = TRUE]
    BY <1>7 DEF ApplyEventFilter, Filters
  <2>2. PICK g : g = [list EXCEPT !.filter = filter, !.filtering = TRUE]
    OBVIOUS
  <2>3. g \in ListType /\ g.filtering
    BY <1>1, <2>2 DEF ListType
  <2> QED BY <1>4, <1>7, <2>1, <2>2, <2>3 DEF ApplyEventFilter
<1>8. CASE LoadMore
  <2>1. PICK g : g = [list EXCEPT !.loading = TRUE, !.asked = list.filter]
    OBVIOUS
  <2>2. /\ g \in ListType /\ g.asked = list.filter /\ g.filter = list.filter /\ g.rows = list.rows
        /\ g.whole = list.whole /\ g.more = list.more /\ g.cursor = list.cursor
        /\ g.filtering = list.filtering /\ g.mixed = list.mixed
    BY <1>1, <2>1 DEF ListType
  <2>3. list' = g /\ list.more /\ ~list.filtering /\ UNCHANGED <<ledger, now>>
    BY <1>8, <2>1 DEF LoadMore
  <2> QED BY <1>4, <2>2, <2>3
<1>9. CASE MoreFailed
  <2>1. PICK g : g = [list EXCEPT !.loading = FALSE, !.asked = AllEvents]
    OBVIOUS
  <2>2. /\ g \in ListType /\ g.loading = FALSE /\ g.filter = list.filter /\ g.rows = list.rows
        /\ g.whole = list.whole /\ g.more = list.more /\ g.cursor = list.cursor
        /\ g.filtering = list.filtering /\ g.mixed = list.mixed
    BY <1>1, <2>1 DEF ListType, Filters
  <2>3. list' = g /\ UNCHANGED <<ledger, now>>
    BY <1>9, <2>1 DEF MoreFailed
  <2> QED BY <1>4, <2>2, <2>3
<1>10. CASE FilterAnswered
  <2>1. list.filter \in Filters
    BY <1>1 DEF ListType
  <2> QED BY <1>3, <1>10, <2>1 DEF FilterAnswered
<1>11. CASE FilterFailed
  <2>1. PICK g : g = [list EXCEPT !.filtering = FALSE, !.mixed = TRUE]
    OBVIOUS
  <2>2. g \in ListType /\ g.mixed
    BY <1>1, <2>1 DEF ListType
  <2> QED BY <1>4, <1>11, <2>1, <2>2 DEF FilterFailed
<1> QED BY <1>5, <1>6, <1>7, <1>8, <1>9, <1>10, <1>11, PostFits, MoreAnswers DEF AccountNext

LEMMA AccountStart ==
  ASSUME AccountInit
  PROVE  AccountFits
<1>1. LedgerFits
  BY FS_EmptySet DEF AccountInit, LedgerFits
<1>2. PICK g : g = Listed(AllEvents)
  OBVIOUS
<1>3. ListFits(g, ledger)
  BY <1>1, <1>2, LedgerRowSet, ListedFits DEF Filters
<1> QED BY <1>1, <1>2, <1>3 DEF AccountInit, AccountFits

LEMMA WholeListIsWhole ==
  ASSUME AccountFits
  PROVE  ListIsWhole
<1>1. ASSUME ~list.filtering, ~list.mixed
      PROVE  /\ \A j, k \in DOMAIN list.rows : j < k => Newer(list.rows[j], list.rows[k])
             /\ ToSet(list.rows) \subseteq Of(ledger, list.filter)
             /\ \A r \in list.whole : r \in ToSet(list.rows) \/ (list.more /\ Newer(list.cursor, r))
  <2>1. WholeList(list, ledger)
    BY <1>1 DEF AccountFits, ListFits
  <2>2. /\ ToSet(list.rows) \subseteq Of(ledger, list.filter)
        /\ \A r : r \in ToSet(list.rows) <=> IsAmong(r, list.rows)
    BY <2>1, ToSetHas DEF WholeList
  <2> QED BY <2>1, <2>2 DEF WholeList, InOrderOfTime
<1> QED BY <1>1 DEF ListIsWhole

-----------------------------------------------------------------------------
(***************************************************************************)
(* The pages.  What is not looked at stays as it was.                      *)
(***************************************************************************)
FormIsEmpty == form.step = 1
DeskIsEmpty == \A c \in Rows : desk.asked[c] = "nothing"

PagesFit ==
  /\ visited \in {"withdraw", "account", "form", "desk"}
  /\ WithdrawFits
  /\ AccountFits
  /\ RowsFit
  /\ IF visited = "form" THEN FormFits ELSE FormIsEmpty
  /\ IF visited = "desk" THEN DeskFits ELSE DeskIsEmpty

LEMMA WithdrawStays ==
  ASSUME WithdrawFits, UNCHANGED withdrawVars
  PROVE  WithdrawFits'
<1>1. EscrowType' /\ Covered(Reserved)' /\ phase' = phase
  BY EscrowUnchanged DEF withdrawVars, WithdrawFits
<1> QED BY <1>1 DEF withdrawVars, pageVars, WithdrawFits

LEMMA AccountStays ==
  ASSUME AccountFits, UNCHANGED accountVars
  PROVE  AccountFits'
BY DEF accountVars, AccountFits, LedgerFits

LEMMA ContributeStays ==
  ASSUME UNCHANGED contributeVars
  PROVE  /\ RowsFit => RowsFit'
         /\ FormFits => FormFits'
         /\ DeskFits => DeskFits'
         /\ FormIsEmpty => FormIsEmpty'
         /\ DeskIsEmpty => DeskIsEmpty'
<1>1. /\ row' = row /\ payment' = payment /\ form' = form /\ sent' = sent
      /\ desk' = desk /\ deskSent' = deskSent
  BY DEF contributeVars
<1>2. RowsFit => RowsFit'
  BY <1>1 DEF RowsFit
<1>3. FormFits => FormFits'
  BY <1>1 DEF FormFits
<1>4. DeskFits => DeskFits'
  BY <1>1 DEF DeskFits
<1> QED BY <1>1, <1>2, <1>3, <1>4 DEF FormIsEmpty, DeskIsEmpty

LEMMA FormLeavesDesk ==
  ASSUME FormNext
  PROVE  UNCHANGED deskVars
<1>1. CASE \/ TypePrice \/ Continue \/ BackToAmount \/ TickAnonymous \/ ExpandPledge
           \/ StartMomoPay \/ RecordContribution \/ FormTick \/ CancelPayment \/ MakeAnother \/ LeaveForm
  BY <1>1 DEF TypePrice, Continue, BackToAmount, TickAnonymous, ExpandPledge, StartMomoPay,
              RecordContribution, FormTick, CancelPayment, MakeAnother, LeaveForm, OnForm
<1>2. CASE FormRefused \/ InitiateServed \/ AddServed \/ PollRefused \/ PollServed
  BY <1>2 DEF FormRefused, InitiateServed, AddServed, PollRefused, PollServed, Answer
<1>3. CASE \E p \in References : ProviderSettles(p) \/ Reconcile(p)
  BY <1>3 DEF ProviderSettles, Reconcile
<1> QED BY <1>1, <1>2, <1>3 DEF FormNext

LEMMA DeskLeavesForm ==
  ASSUME DeskNext
  PROVE  UNCHANGED formVars
<1>1. CASE OpenModal \/ CloseModal \/ HandleAddContribution \/ OpenDesk \/ \E c \in Rows : ToggleVisibility(c)
  BY <1>1 DEF OpenModal, CloseModal, HandleAddContribution, OpenDesk, ToggleVisibility, OnDesk
<1>2. CASE AddedByHand \/ VisibilitySet \/ Refreshed
  BY <1>2 DEF AddedByHand, VisibilitySet, Refreshed, Served
<1>3. CASE \E p \in References : Reconcile(p)
  BY <1>3 DEF Reconcile
<1> QED BY <1>1, <1>2, <1>3 DEF DeskNext

LEMMA RowsStart ==
  ASSUME ContributeInit
  PROVE  RowsFit
<1>1. PICK earlier \in SUBSET References :
        payment = [p \in References |-> [state |-> IF p \in earlier THEN "success" ELSE "none",
                                         amt |-> IF p \in earlier THEN OfAnyAmount ELSE 0]]
  BY DEF ContributeInit
<1>2. OfAnyAmount \in Prices
  BY DEF OfAnyAmount
<1>3. ASSUME NEW p \in References
      PROVE  [state |-> IF p \in earlier THEN "success" ELSE "none",
              amt |-> IF p \in earlier THEN OfAnyAmount ELSE 0] \in PaymentType
  BY <1>2 DEF PaymentType
<1>4. payment \in [References -> PaymentType]
  BY <1>1, <1>3
<1>5. NoRow \in RowType /\ NoRow.status = "none"
  BY DEF NoRow, RowType
<1>6. row \in [Rows -> RowType] /\ \A c \in Rows : row[c].status = "none"
  BY <1>5 DEF ContributeInit
<1>7. References \subseteq Rows
  BY DEF Rows
<1> QED BY <1>4, <1>6, <1>7 DEF RowsFit

LEMMA FormStart ==
  ASSUME ContributeInit
  PROVE  FormFits /\ FormIsEmpty
<1>1. PICK momo \in BOOLEAN : form = EmptyForm(momo)
  BY DEF ContributeInit
<1>2. ShownFits(form, row, payment) /\ form.step = 1
  BY <1>1, EmptyFits DEF EmptyForm
<1>3. SentFits(form, sent)
  <2>1. sent = <<>>
    BY DEF ContributeInit
  <2> QED BY <2>1 DEF SentFits
<1> QED BY <1>2, <1>3 DEF FormFits, FormIsEmpty

LEMMA DeskStart ==
  ASSUME ContributeInit
  PROVE  DeskFits /\ DeskIsEmpty
<1>1. PICK open \in BOOLEAN : desk = LoadedDesk(open)
  BY DEF ContributeInit
<1>2. row \in [Rows -> RowType]
  BY RowsStart DEF RowsFit
<1>3. /\ desk \in DeskType /\ \A c \in desk.rows : row[c].status # "none"
      /\ \A c \in Rows : desk.asked[c] = "nothing"
  BY <1>1, <1>2, LoadedFits
<1>4. TogglesFit(deskSent, row)
  <2>1. deskSent = <<>>
    BY DEF ContributeInit
  <2> QED BY <2>1 DEF TogglesFit
<1> QED BY <1>3, <1>4 DEF DeskFits, DeskIsEmpty, AskedFits

LEMMA WithdrawStart ==
  ASSUME WithdrawInit
  PROVE  WithdrawFits
<1>1. EscrowType /\ Covered(Reserved)
  BY EscrowStart DEF WithdrawInit, EscrowInv
<1>2. PageFits(page, phase)
  <2>1. PICK e \in Events \cup {None} : page \in Priced(LoadedPage(e))
    BY DEF WithdrawInit
  <2> QED BY <1>1, <2>1, PageLoads
<1>3. QueueFits(page.ev, queue)
  <2>1. queue = <<>>
    BY DEF WithdrawInit
  <2> QED BY <2>1 DEF QueueFits
<1>4. SleepFits(page.ev, sleeping)
  <2>1. sleeping = [w \in WithdrawalIds |-> Awake]
    BY DEF WithdrawInit
  <2>2. Awake \in [polls : Nat, gone : BOOLEAN] /\ Awake.polls = 0
    BY DEF Awake
  <2> QED BY <2>1, <2>2 DEF SleepFits
<1> QED BY <1>1, <1>2, <1>3, <1>4 DEF WithdrawFits

LEMMA PagesStart == Init => PagesFit
<1> SUFFICES ASSUME Init PROVE PagesFit
  OBVIOUS
<1>1. WithdrawFits /\ AccountFits /\ RowsFit
  BY WithdrawStart, AccountStart, RowsStart DEF Init
<1>2. FormFits /\ FormIsEmpty /\ DeskFits /\ DeskIsEmpty
  BY FormStart, DeskStart DEF Init
<1> QED BY <1>1, <1>2 DEF Init, PagesFit

LEMMA PagesStep == PagesFit /\ [Next]_moneyVars => PagesFit'
<1> SUFFICES ASSUME PagesFit, [Next]_moneyVars PROVE PagesFit'
  OBVIOUS
<1>0. WithdrawFits /\ AccountFits /\ RowsFit
  BY DEF PagesFit
<1>1. CASE visited = "withdraw" /\ WithdrawNext /\ UNCHANGED <<accountVars, contributeVars, visited>>
  <2>1. WithdrawFits' /\ AccountFits'
    BY <1>0, <1>1, WithdrawStep, AccountStays
  <2> QED BY <1>1, <2>1, ContributeStays DEF PagesFit
<1>2. CASE visited = "account" /\ AccountNext /\ UNCHANGED <<withdrawVars, contributeVars, visited>>
  <2>1. WithdrawFits' /\ AccountFits'
    BY <1>0, <1>2, AccountStep, WithdrawStays
  <2> QED BY <1>2, <2>1, ContributeStays DEF PagesFit
<1>3. CASE visited = "form" /\ FormNext /\ UNCHANGED <<withdrawVars, accountVars, visited>>
  <2>1. WithdrawFits' /\ AccountFits'
    BY <1>0, <1>3, WithdrawStays, AccountStays
  <2>2. RowsFit' /\ FormFits'
    BY <1>0, <1>3, FormStep DEF PagesFit
  <2>3. DeskIsEmpty'
    BY <1>3, FormLeavesDesk DEF PagesFit, DeskIsEmpty, deskVars
  <2> QED BY <1>3, <2>1, <2>2, <2>3 DEF PagesFit
<1>4. CASE visited = "desk" /\ DeskNext /\ UNCHANGED <<withdrawVars, accountVars, visited>>
  <2>1. WithdrawFits' /\ AccountFits'
    BY <1>0, <1>4, WithdrawStays, AccountStays
  <2>2. RowsFit' /\ DeskFits'
    BY <1>0, <1>4, DeskStep DEF PagesFit
  <2>3. FormIsEmpty'
    BY <1>4, DeskLeavesForm DEF PagesFit, FormIsEmpty, formVars
  <2> QED BY <1>4, <2>1, <2>2, <2>3 DEF PagesFit
<1>5. CASE UNCHANGED moneyVars
  <2>1. UNCHANGED withdrawVars /\ UNCHANGED accountVars /\ UNCHANGED contributeVars /\ visited' = visited
    BY <1>5 DEF moneyVars
  <2>2. WithdrawFits' /\ AccountFits'
    BY <1>0, <2>1, WithdrawStays, AccountStays
  <2> QED BY <2>1, <2>2, ContributeStays DEF PagesFit
<1> QED BY <1>1, <1>2, <1>3, <1>4, <1>5 DEF Next

LEMMA PagesInv == Spec => []PagesFit
BY PagesStart, PagesStep, PTL DEF Spec

\* What the pages say is so: a withdrawal's final result is its row's, thanks are
\* for a row of the amount shown, and what the treasurer was told is hidden or
\* shown is, whatever was cancelled, left, lost or pressed twice meanwhile.
THEOREM SaidTrue == Spec => []SaidIsTrue
<1>1. PagesFit => SaidIsTrue
  <2> SUFFICES ASSUME PagesFit PROVE SaidIsTrue
    OBVIOUS
  <2>1. ResultIsTrue
    <3>1. PageFits(page, phase)
      BY DEF PagesFit, WithdrawFits
    <3>2. ASSUME page.step = 5
          PROVE  page.result.w # None
      BY <3>1, <3>2 DEF PageFits
    <3> QED BY <3>1, <3>2 DEF PageFits, ResultIsTrue
  <2>2. ThanksIsTrue
    BY DEF PagesFit, FormFits, ShownFits, OfShown, FormIsEmpty, ThanksIsTrue
  <2>3. VisibilityIsAsAsked
    <3>1. CASE visited = "desk"
      BY <3>1 DEF PagesFit, DeskFits, AskedFits, WillRefresh, VisibilityIsAsAsked
    <3>2. CASE visited # "desk"
      BY <3>2 DEF PagesFit, DeskIsEmpty, VisibilityIsAsAsked
    <3> QED BY <3>1, <3>2
  <2> QED BY <2>1, <2>2, <2>3 DEF SaidIsTrue
<1> QED BY <1>1, PagesInv, PTL

\* The list of transactions is of the chosen event, newest first, no row twice, and
\* leaves out none of those it was read over, however many pages it is read in
\* and whatever is posted between them.
THEOREM ListWhole == Spec => []ListIsWhole
<1>1. PagesFit => ListIsWhole
  BY WholeListIsWhole DEF PagesFit
<1> QED BY <1>1, PagesInv, PTL

\* Of no event more is held and paid than it has raised: what the escrow says of
\* the money, for whatever implements it.
THEOREM HeldIsCovered == EscrowSpec => [](\A e \in Events : Held(e) <= raised[e])
<1>1. EscrowInv => \A e \in Events : Held(e) <= raised[e]
  BY HeldIsSum DEF EscrowInv, Covered
<1>2. EscrowInit => EscrowInv
  BY EscrowStart
<1> QED BY <1>1, <1>2, EscrowStep, PTL DEF EscrowSpec

\* The withdraw page, whatever is pressed, left or asked again and whenever its
\* requests are answered, takes, pays and gives back money as the escrow does.
THEOREM PageImplementsEscrow == Spec => EscrowSpec
<1>1. Init => EscrowInit
  BY DEF Init, WithdrawInit
<1>2. PagesFit /\ [Next]_moneyVars => [EscrowNext]_evars
  <2> SUFFICES ASSUME PagesFit, [Next]_moneyVars PROVE [EscrowNext]_evars
    OBVIOUS
  <2>1. CASE WithdrawNext
    BY <2>1, WithdrawImplements DEF PagesFit
  <2>2. CASE UNCHANGED withdrawVars
    BY <2>2 DEF withdrawVars
  <2> QED BY <2>1, <2>2 DEF Next, moneyVars
<1> QED BY <1>1, <1>2, PagesInv, PTL DEF Spec, EscrowSpec

\* What the page opens is covered together with all that is open, held and paid:
\* none of its withdrawals is refused for want of money when its code is entered.
THEOREM OpenIsCovered == Spec => []Covered(Reserved)
<1>1. PagesFit => Covered(Reserved)
  BY DEF PagesFit, WithdrawFits
<1> QED BY <1>1, PagesInv, PTL

-----------------------------------------------------------------------------
(***************************************************************************)
(* The book.                                                               *)
(***************************************************************************)
Booked == [p \in References |-> row[p].amt]

\* A payment that was not asked for has no amount.
NothingAsked == \A p \in References : payment[p].state = "none" => payment[p].amt = 0

AmountsStay == \A p \in References : row'[p].amt = row[p].amt

LEMMA BookRests ==
  ASSUME AmountsStay, payment' = payment
  PROVE  [Book!BookNext]_(Book!bookVars)
BY DEF AmountsStay, Book!bookVars

LEMMA BookedRests ==
  ASSUME AmountsStay
  PROVE  Booked' = Booked
BY DEF AmountsStay, Booked

\* The rows of others than payments.
LEMMA InsertRests ==
  ASSUME RowsFit, NEW c \in Entries \ Recorded, NEW status, NEW amt, Insert(c, status, amt)
  PROVE  AmountsStay
<1>1. \A p \in References : p # c /\ p \in Rows
  BY ContributePagesAssumption DEF Rows
<1> QED BY <1>1 DEF AmountsStay, Insert, RowsFit

LEMMA RecordEnters ==
  ASSUME RowsFit, NEW p \in References, RecordPayment(p)
  PROVE  [Book!BookNext]_(Book!bookVars)
<1>1. CASE UNCHANGED <<row, payment>>
  BY <1>1, BookRests DEF AmountsStay
<1>2. CASE /\ payment[p].state = "success"
           /\ Insert(p, "paid", payment[p].amt)
           /\ payment' = [payment EXCEPT ![p] = [state |-> "fulfilled", amt |-> 0]]
  <2>1. row' = [row EXCEPT ![p] = [status |-> "paid", amt |-> payment[p].amt, visible |-> TRUE]]
    BY <1>2 DEF Insert
  <2>2. \A q \in References : row'[q].amt = IF q = p THEN payment[p].amt ELSE row[q].amt
    BY <2>1 DEF RowsFit, Rows
  <2>3. Booked' = [Booked EXCEPT ![p] = payment[p].amt]
    BY <2>2 DEF Booked
  <2>4. Book!Turns(p, {"success"}, "fulfilled", 0)
    BY <1>2 DEF Book!Turns, Book!Payment
  <2>5. Book!Enter(p)
    BY <2>3, <2>4 DEF Book!Enter, Booked
  <2> QED BY <2>5 DEF Book!BookNext
<1> QED BY <1>1, <1>2 DEF RecordPayment

\* A record that changes its state keeps its amount.
LEMMA NewState ==
  ASSUME RowsFit, NEW p \in References, NEW state,
         payment' = [payment EXCEPT ![p].state = state]
  PROVE  payment' = [payment EXCEPT ![p] = [state |-> state, amt |-> payment[p].amt]]
<1>1. payment \in [References -> PaymentType]
  BY DEF RowsFit
<1>2. PICK o : o = [payment[p] EXCEPT !.state = state]
  OBVIOUS
<1>3. o = [state |-> state, amt |-> payment[p].amt]
  BY <1>1, <1>2 DEF PaymentType
<1>4. payment' = [payment EXCEPT ![p] = o]
  BY <1>1, <1>2
<1> QED BY <1>3, <1>4

LEMMA SettlesTurns ==
  ASSUME RowsFit, NEW p \in References, ProviderSettles(p)
  PROVE  [Book!BookNext]_(Book!bookVars)
<1>1. payment[p] \in PaymentType /\ payment[p].state = "pending" /\ row' = row
  BY DEF ProviderSettles, RowsFit
<1>2. Booked' = Booked
  BY <1>1, BookedRests DEF AmountsStay
<1>3. CASE payment' = [payment EXCEPT ![p].state = "success"]
  <2>1. payment' = [payment EXCEPT ![p] = [state |-> "success", amt |-> payment[p].amt]]
    BY <1>1, <1>3, NewState
  <2>2. Book!Take(p)
    BY <1>1, <1>2, <2>1 DEF Book!Take, Book!Turns, Book!Payment, Booked
  <2> QED BY <2>2 DEF Book!BookNext
<1>4. CASE payment' = [payment EXCEPT ![p] = [state |-> "failed", amt |-> 0]]
  <2>1. Book!Fail(p)
    BY <1>1, <1>2, <1>4 DEF Book!Fail, Book!Turns, Book!Payment, Booked
  <2> QED BY <2>1 DEF Book!BookNext
<1> QED BY <1>3, <1>4 DEF ProviderSettles

LEMMA InitiateAsks ==
  ASSUME RowsFit, NothingAsked, FormFits, InitiateServed
  PROVE  [Book!BookNext]_(Book!bookVars)
<1>1. sent # <<>> /\ row' = row /\ Head(sent).amt \in Prices \cup {0}
  BY HeadFits DEF InitiateServed, Answering, FormRequests
<1>2. Booked' = Booked
  BY <1>1, BookedRests DEF AmountsStay
<1>3. PICK p \in References :
        /\ payment[p].state = "none"
        /\ \/ payment' = [payment EXCEPT ![p] = [state |-> "pending", amt |-> Head(sent).amt]]
           \/ payment' = [payment EXCEPT ![p].state = "deleted"]
  BY DEF InitiateServed
<1>4. CASE payment' = [payment EXCEPT ![p] = [state |-> "pending", amt |-> Head(sent).amt]]
  <2>1. Book!Ask(p)
    BY <1>1, <1>2, <1>3, <1>4 DEF Book!Ask, Book!Turns, Book!Payment, Booked
  <2> QED BY <2>1 DEF Book!BookNext
<1>5. CASE payment' = [payment EXCEPT ![p].state = "deleted"]
  <2>1. payment[p] \in PaymentType /\ payment[p].amt = 0
    BY <1>3 DEF RowsFit, NothingAsked
  <2>2. payment' = [payment EXCEPT ![p] = [state |-> "deleted", amt |-> 0]]
    BY <1>5, <2>1, NewState
  <2>3. Book!Drop(p)
    BY <1>2, <1>3, <2>2 DEF Book!Drop, Book!Turns, Book!Payment, Booked
  <2> QED BY <2>3 DEF Book!BookNext
<1> QED BY <1>3, <1>4, <1>5

LEMMA VisibilityRests ==
  ASSUME RowsFit, DeskFits, VisibilitySet
  PROVE  AmountsStay /\ payment' = payment
<1>1. PICK c, show : c = Head(deskSent).c /\ show = Head(deskSent).show
  OBVIOUS
<1>2. /\ row' = row \/ row' = [row EXCEPT ![c].visible = show]
      /\ UNCHANGED payment
  BY <1>1 DEF VisibilitySet, Served
<1>3. \A d \in Rows : row'[d].amt = row[d].amt
  BY <1>2 DEF RowsFit, RowType
<1> QED BY <1>2, <1>3 DEF AmountsStay, Rows

LEMMA BookOfForm ==
  ASSUME RowsFit, NothingAsked, FormFits, FormNext
  PROVE  [Book!BookNext]_(Book!bookVars)
<1>1. CASE \/ TypePrice \/ Continue \/ BackToAmount \/ TickAnonymous \/ ExpandPledge
           \/ StartMomoPay \/ RecordContribution \/ FormTick \/ CancelPayment \/ MakeAnother \/ LeaveForm
           \/ FormRefused \/ PollRefused
  <2>1. UNCHANGED <<row, payment>>
    BY <1>1 DEF TypePrice, Continue, BackToAmount, TickAnonymous, ExpandPledge, StartMomoPay,
                RecordContribution, FormTick, CancelPayment, MakeAnother, LeaveForm, OnForm,
                FormRefused, PollRefused
  <2> QED BY <2>1, BookRests DEF AmountsStay
<1>2. CASE AddServed
  <2>1. AmountsStay /\ payment' = payment
    BY <1>2, InsertRests DEF AddServed
  <2> QED BY <2>1, BookRests
<1>3. CASE PollServed
  <2>1. Head(sent).p \in References /\ RecordPayment(Head(sent).p)
    BY <1>3, HeadFits DEF PollServed, Answering
  <2> QED BY <2>1, RecordEnters
<1>4. ASSUME NEW p \in References, Reconcile(p)
      PROVE  [Book!BookNext]_(Book!bookVars)
  BY <1>4, RecordEnters DEF Reconcile
<1> QED BY <1>1, <1>2, <1>3, <1>4, InitiateAsks, SettlesTurns DEF FormNext

LEMMA BookOfDesk ==
  ASSUME RowsFit, DeskFits, DeskNext
  PROVE  [Book!BookNext]_(Book!bookVars)
<1>1. CASE \/ OpenModal \/ CloseModal \/ HandleAddContribution \/ OpenDesk \/ Refreshed
           \/ \E c \in Rows : ToggleVisibility(c)
  <2>1. UNCHANGED <<row, payment>>
    BY <1>1 DEF OpenModal, CloseModal, HandleAddContribution, OpenDesk, ToggleVisibility, OnDesk,
                Refreshed, Served
  <2> QED BY <2>1, BookRests DEF AmountsStay
<1>2. CASE AddedByHand
  <2>1. payment' = payment
    BY <1>2 DEF AddedByHand, Served
  <2>2. AmountsStay
    <3>1. CASE UNCHANGED row
      BY <3>1 DEF AmountsStay
    <3>2. ASSUME NEW c \in Entries \ Recorded, Insert(c, "paid", OfAnyAmount) PROVE AmountsStay
      BY <3>2, InsertRests
    <3> QED BY <1>2, <3>1, <3>2 DEF AddedByHand
  <2> QED BY <2>1, <2>2, BookRests
<1>3. CASE VisibilitySet
  BY <1>3, VisibilityRests, BookRests
<1>4. ASSUME NEW p \in References, Reconcile(p)
      PROVE  [Book!BookNext]_(Book!bookVars)
  BY <1>4, RecordEnters DEF Reconcile
<1> QED BY <1>1, <1>2, <1>3, <1>4 DEF DeskNext

\* No step of the book makes a payment one that was not asked for.
LEMMA NothingAskedNext ==
  ASSUME RowsFit, NothingAsked, [Book!BookNext]_(Book!bookVars)
  PROVE  NothingAsked'
<1>1. CASE UNCHANGED payment
  BY <1>1 DEF NothingAsked
<1>2. ASSUME NEW p \in References, NEW from, NEW to, NEW amt, to # "none",
             Book!Turns(p, from, to, amt)
      PROVE  NothingAsked'
  BY <1>2 DEF Book!Turns, Book!Payment, NothingAsked, RowsFit
<1>3. ASSUME NEW p \in References, Book!Ask(p) \/ Book!Take(p) \/ Book!Fail(p) \/ Book!Drop(p) \/ Book!Enter(p)
      PROVE  NothingAsked'
  BY <1>2, <1>3 DEF Book!Ask, Book!Take, Book!Fail, Book!Drop, Book!Enter
<1> QED BY <1>1, <1>3 DEF Book!BookNext, Book!bookVars

LEMMA BookStep ==
  ASSUME PagesFit, NothingAsked, [Next]_moneyVars
  PROVE  [Book!BookNext]_(Book!bookVars)
<1>1. RowsFit
  BY DEF PagesFit
<1>2. CASE UNCHANGED contributeVars
  BY <1>2, BookRests DEF contributeVars, AmountsStay
<1>3. CASE visited = "form" /\ FormNext
  BY <1>1, <1>3, BookOfForm DEF PagesFit
<1>4. CASE visited = "desk" /\ DeskNext
  BY <1>1, <1>4, BookOfDesk DEF PagesFit
<1> QED BY <1>2, <1>3, <1>4 DEF Next, moneyVars

LEMMA BookStarts ==
  ASSUME ContributeInit
  PROVE  Book!BookInit /\ NothingAsked
<1>1. PICK earlier \in SUBSET References :
        payment = [p \in References |-> [state |-> IF p \in earlier THEN "success" ELSE "none",
                                         amt |-> IF p \in earlier THEN OfAnyAmount ELSE 0]]
  BY DEF ContributeInit
<1>2. OfAnyAmount \in Prices
  BY ContributePagesAssumption DEF OfAnyAmount
<1>3. payment \in [References -> {Book!Payment("none", 0)}
                                 \cup {Book!Payment("success", amt) : amt \in Prices}]
  BY <1>1, <1>2 DEF Book!Payment
<1>4. Booked = [p \in References |-> 0]
  BY DEF ContributeInit, NoRow, Rows, Booked
<1>5. NothingAsked
  BY <1>1 DEF NothingAsked
<1> QED BY <1>3, <1>4, <1>5 DEF Book!BookInit, Booked

\* Whatever is clicked, cancelled, left or typed again on the form and the
\* treasurer's page and whenever they are answered, a payment goes the way of the
\* book: entered once, with what was asked for, after the provider took it.
THEOREM PageImplementsBook == Spec => ImplementsBook
<1>1. Init => Book!BookInit /\ NothingAsked
  BY BookStarts DEF Init
<1>2. PagesFit /\ NothingAsked /\ [Next]_moneyVars => [Book!BookNext]_(Book!bookVars) /\ NothingAsked'
  <2> SUFFICES ASSUME PagesFit, NothingAsked, [Next]_moneyVars
        PROVE  [Book!BookNext]_(Book!bookVars) /\ NothingAsked'
    OBVIOUS
  <2> QED BY BookStep, NothingAskedNext DEF PagesFit
<1> QED BY <1>1, <1>2, PagesInv, PTL DEF Spec, ImplementsBook, Book!BookSpec
=============================================================================
