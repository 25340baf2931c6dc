---------------------------- MODULE AccountPages ----------------------------
(***************************************************************************)
(* The account page's list of wallet transactions                          *)
(* (AccountTransactionsList.tsx) over the ledger it pages through          *)
(* (listTransactions).  Rows are posted while the list is read.  A row has *)
(* the time it was made and a random id: rows of one time are in the order *)
(* of their ids, and a row can be committed after one with a later time.   *)
(*                                                                         *)
(* The browser sends the requests of the list one after the other.         *)
(***************************************************************************)
EXTENDS Naturals, FiniteSets, Sequences, SequencesExt

CONSTANTS
  TransactionIds,  \* ids a row can get
  FilterEvents,    \* the user's events
  AllEvents,       \* the filter's "All events"; also: a row of no event
  PageSize,        \* WALLET_TX_PAGE_SIZE (20 in the code)
  MaxTime,         \* bound: the last time
  MaxLate          \* bound: time between a row's time and its commit

ASSUME AccountPagesAssumption ==
  /\ TransactionIds \subseteq Nat /\ AllEvents \notin FilterEvents
  /\ PageSize \in Nat \ {0} /\ MaxTime \in Nat /\ MaxLate \in Nat

VARIABLES
  ledger,  \* wallet_transactions of the user
  now,
  list     \* what the page shows and waits for; "whole" and "mixed" are history

accountVars == <<ledger, now, list>>

NoCursor == [id |-> 0, at |-> 0, event |-> AllEvents]

-----------------------------------------------------------------------------
(* listTransactions                                                        *)

Newer(r, s) == r.at > s.at \/ (r.at = s.at /\ r.id > s.id)

Of(rows, filter) == {r \in rows : filter = AllEvents \/ r.event = filter}

\* orderBy createdAt, id, both descending
NewestFirst(rows) ==
  CHOOSE f \in [1 .. Cardinality(rows) -> rows] : \A i, j \in DOMAIN f : i < j => Newer(f[i], f[j])

\* Mutant of PageOf: the cursor goes by time alone.
PageOfByTime(filter, cursor) ==
  LET below == {r \in Of(ledger, filter) : cursor = NoCursor \/ cursor.at > r.at}
      sorted == NewestFirst(below)
      more == Len(sorted) > PageSize
      rows == IF more THEN SubSeq(sorted, 1, PageSize) ELSE sorted
  IN  [rows |-> rows, more |-> more, cursor |-> IF more THEN Last(rows) ELSE NoCursor]

\* One row more than a page tells whether there are more.
PageOf(filter, cursor) ==
  LET below == {r \in Of(ledger, filter) : cursor = NoCursor \/ Newer(cursor, r)}
      sorted == NewestFirst(below)
      more == Len(sorted) > PageSize
      rows == IF more THEN SubSeq(sorted, 1, PageSize) ELSE sorted
  IN  [rows |-> rows, more |-> more, cursor |-> IF more THEN Last(rows) ELSE NoCursor]

-----------------------------------------------------------------------------
FirstPage(filter) == PageOf(filter, NoCursor)

Listed(filter) ==
  [filter |-> filter, rows |-> FirstPage(filter).rows, cursor |-> FirstPage(filter).cursor,
   more |-> FirstPage(filter).more, loading |-> FALSE, asked |-> AllEvents, filtering |-> FALSE,
   whole |-> Of(ledger, filter), mixed |-> FALSE]

AccountInit ==
  /\ ledger = {}
  /\ now = 0
  /\ list = Listed(AllEvents)

\* A contribution, a withdrawal's debit or its reversal.
Post ==
  /\ \E id \in TransactionIds, event \in FilterEvents \cup {AllEvents}, late \in 0..MaxLate :
       /\ late <= now /\ \A r \in ledger : r.id # id
       /\ ledger' = ledger \cup {[id |-> id, at |-> now - late, event |-> event]}
  /\ UNCHANGED <<now, list>>

Tick == now < MaxTime /\ now' = now + 1 /\ UNCHANGED <<ledger, list>>

OpenAccount ==
  /\ list' = Listed(AllEvents)
  /\ UNCHANGED <<ledger, now>>

\* applyEventFilter.  The choice is shown at once; a page of the list that is
\* under way goes on.
ApplyEventFilter ==
  /\ ~list.filtering
  /\ \E filter \in (FilterEvents \cup {AllEvents}) \ {list.filter} :
       list' = [list EXCEPT !.filter = filter, !.filtering = TRUE]
  /\ UNCHANGED <<ledger, now>>

\* loadMore: the end of the list comes into view, or "Try again" after an error
\* of either request.
LoadMore ==
  /\ list.more /\ ~list.loading /\ ~list.filtering
  /\ list' = [list EXCEPT !.loading = TRUE, !.asked = list.filter]
  /\ UNCHANGED <<ledger, now>>

MoreAnswered ==
  /\ list.loading
  /\ LET answer == PageOf(list.asked, list.cursor)
         added == NewestFirst(ToSet(answer.rows) \ ToSet(list.rows))
     IN  list' = [list EXCEPT !.loading = FALSE, !.asked = AllEvents, !.rows = @ \o added,
                              !.cursor = answer.cursor, !.more = answer.more]
  /\ UNCHANGED <<ledger, now>>

MoreFailed ==
  /\ list.loading
  /\ list' = [list EXCEPT !.loading = FALSE, !.asked = AllEvents]
  /\ UNCHANGED <<ledger, now>>

FilterAnswered ==
  /\ list.filtering /\ ~list.loading
  /\ list' = Listed(list.filter)
  /\ UNCHANGED <<ledger, now>>

\* The list of the choice before stays, under the new one.
FilterFailed ==
  /\ list.filtering /\ ~list.loading
  /\ list' = [list EXCEPT !.filtering = FALSE, !.mixed = TRUE]
  /\ UNCHANGED <<ledger, now>>

AccountNext ==
  \/ Post \/ Tick \/ OpenAccount \/ ApplyEventFilter \/ LoadMore
  \/ MoreAnswered \/ MoreFailed \/ FilterAnswered \/ FilterFailed

-----------------------------------------------------------------------------
(* Properties                                                              *)

\* Unless a change of the filter failed: the list is of the chosen event, newest
\* first, no row twice, and a row that was there when the list was read from its
\* start is shown or still to come, whatever was posted between its pages
\* (the cursor of listTransactions, loadMore).
ListIsWhole ==
  ~list.filtering /\ ~list.mixed =>
    /\ \A j, k \in DOMAIN list.rows : j < k => Newer(list.rows[j], list.rows[k])
    /\ ToSet(list.rows) \subseteq Of(ledger, list.filter)
    /\ \A r \in list.whole : r \in ToSet(list.rows) \/ (list.more /\ Newer(list.cursor, r))
=============================================================================
