-------------------------- MODULE InvitationsProofs --------------------------
(***************************************************************************)
(* What is proved of InvitationPages: the counts on a card's row, the list *)
(* of guests, the text and the photo of the card's page, for all cards,    *)
(* guests, edits, queues and handlers.                                     *)
(*                                                                         *)
(* The rows and calls have their shape (RecordShape).  A handler that is   *)
(* alone knows what it has left to put right, and any other has marked the *)
(* counts (CountsInv).  A card's page, its queue and its call fit the rows *)
(* of the card (PagesInv).                                                 *)
(***************************************************************************)
EXTENDS InvitationPages, FiniteSetTheorems, SequenceTheorems, TLAPS

\* The stages of a handler, between its start and its answer.
Stages(op) ==
  IF op = "save" THEN {"check", "merge", "detail"}
  ELSE IF op = "add" THEN {"check", "insert", "count", "counted"}
  ELSE IF op = "remove" THEN {"check", "delete", "count", "counted", "tally", "tallied"}
  ELSE IF op = "publish" THEN {"check", "guests", "publish", "detail"}
  ELSE IF op = "upload" THEN {"check", "purge", "put", "merge"}
  ELSE IF op = "replace" THEN {"check", "purge", "merge", "detail"}
  ELSE IF op = "create" THEN {"create", "detail"}
  ELSE IF op = "duplicate" THEN {"check", "copy", "insert", "count", "counted", "detail"}
  ELSE IF op = "drop" THEN {"check", "unlist", "erase"}
  ELSE IF op = "detail" THEN {"check", "detail"}
  ELSE IF op = "open" THEN {"find", "seen", "unseen", "open", "tally", "tallied", "again"}
  ELSE IF op = "rsvp" THEN {"find", "allowed", "respond", "adjust", "adjusted"}
  ELSE {}

\* What the page does with the answer of which request.
SaveThens == {"auto", "flush-step", "flush-stay", "flush-publish", "step", "stay", "publish", "imported"}
Purpose(op, then) ==
  \/ then \in SaveThens /\ op = "save"
  \/ then \in {"add", "import"} /\ op = "add"
  \/ then = "remove" /\ op = "remove"
  \/ then = "published" /\ op = "publish"
  \/ then = "photo" /\ op \in {"upload", "replace"}
  \/ then = "made" /\ op \in {"create", "duplicate"}
  \/ then = "feed" /\ op = "drop"
  \/ then = "load" /\ op = "detail"

GuestOps == {"open", "rsvp"}

CallShaped(o) ==
  /\ DOMAIN o = DOMAIN NoCall /\ DOMAIN o.card = DOMAIN NoCard /\ DOMAIN o.old = DOMAIN NoCard
  /\ DOMAIN o.seen = DOMAIN NoCounts /\ o.alone \in BOOLEAN
  /\ IF o.op = "none" THEN o = NoCall ELSE o.pc \in Stages(o.op) \cup Ended
  /\ o.pc \in {"create", "find", "error"} \/ o.op = "none" \/ o.inv \in Invites
  /\ IF o.op \in GuestOps \cup {"none"} THEN o.then = "none" ELSE Purpose(o.op, o.then)

RowShaped(row) ==
  DOMAIN row = DOMAIN NoInvitation /\ DOMAIN row.card = DOMAIN NoCard /\ DOMAIN row.counts = DOMAIN NoCounts

RecordShape ==
  /\ invitation = [i \in Invites |-> invitation[i]]
  /\ recipient = [g \in Guests |-> recipient[g]]
  /\ call = [c \in Callers |-> call[c]]
  /\ \A i \in Invites : RowShaped(invitation[i]) /\ IsFiniteSet(Recipients(i))
  /\ \A g \in Guests : DOMAIN recipient[g] = DOMAIN NoRecipient /\ recipient[g].invite \in Invites \cup {None}
  /\ \A c \in Callers : CallShaped(call[c])
  /\ \A c \in Callers : call[c].op # "none" => (call[c].op \in GuestOps <=> c # Owner)

\* The fields of a call.
LEMMA CallFields ==
  ASSUME NEW o, CallShaped(o)
  PROVE  DOMAIN o = {"op", "pc", "then", "inv", "guest", "rsvp", "was", "card", "old", "seen", "todo", "list", "alone"}
<1>1. DOMAIN o = DOMAIN NoCall
  BY DEF CallShaped
<1>. QED
  BY <1>1 DEF NoCall

\* A step of a handler changes that handler's call, to one of the same purpose.
LEMMA CallStep ==
  ASSUME RecordShape, NEW c \in Callers, RecordStep(c, tab.list)
  PROVE  \E f : /\ call' = [call EXCEPT ![c] = f]
                /\ CallShaped(f) /\ f.then = call[c].then /\ f.op # "none" /\ call[c].op # "none"
                /\ f.op \in GuestOps <=> call[c].op \in GuestOps
                /\ f.pc \notin Ended => f.alone = call[c].alone
<1>. DEFINE o == call[c]
            Good(f) == /\ call' = [call EXCEPT ![c] = f]
                       /\ CallShaped(f) /\ f.then = o.then /\ f.op # "none" /\ o.op # "none"
                       /\ f.op \in GuestOps <=> o.op \in GuestOps
                       /\ f.pc \notin Ended => f.alone = o.alone
<1>0. CallShaped(o)
  BY DEF RecordShape
<1>. SUFFICES \E f : Good(f)
  OBVIOUS
<1>1. CASE Fail(c) /\ o.op # "none"
  <2>. DEFINE f == [NoCall EXCEPT !.pc = "error", !.op = o.op, !.then = o.then]
  <2>1. f.op = o.op /\ f.then = o.then /\ f.pc = "error" /\ f.card = NoCard /\ f.old = NoCard /\ f.seen = NoCounts /\ f.alone = TRUE
        /\ DOMAIN f = DOMAIN NoCall
    BY DEF NoCall
  <2>2. call' = [call EXCEPT ![c] = f]
    BY <1>1 DEF Fail, With
  <2>. HIDE DEF f
  <2>3. Good(f)
    BY <1>0, <1>1, <2>1, <2>2 DEF CallShaped, Ended
  <2>. QED
    BY <2>3
<1>2. CASE GetOwnedInvitation(c)
  <2>0. o.op # "none" /\ o.pc = "check"
    BY <1>0, <1>2 DEF GetOwnedInvitation, At, CallShaped, NoCall
  <2>1. CASE invitation[o.inv].exists
    <3>. DEFINE f == [o EXCEPT !.pc = First(o.op), !.old = invitation[o.inv].card]
    <3>1. call' = [call EXCEPT ![c] = f]
      BY <1>2, <2>1 DEF GetOwnedInvitation, With
    <3>2. DOMAIN f.old = DOMAIN NoCard
      BY <1>0, <2>0 DEF CallShaped, RecordShape, RowShaped, NoCall, Ended
    <3>3. First(o.op) \in Stages(o.op)
      BY <1>0, <2>0 DEF CallShaped, Stages, First, Purpose, Ended, GuestOps, SaveThens
    <3>4. Good(f)
      BY <1>0, <2>0, <3>1, <3>2, <3>3 DEF CallShaped, NoCall, Ended
    <3>. QED
      BY <3>4
  <2>. QED
    BY <1>1, <1>2, <2>0, <2>1 DEF GetOwnedInvitation
<1>3. CASE StoreCount(c)
  <2>. DEFINE f == [o EXCEPT !.pc = AfterCount(c), !.seen = NoCounts, !.todo = IF @ > 0 THEN @ - 1 ELSE 0]
  <2>1. call' = [call EXCEPT ![c] = f]
    BY <1>3 DEF StoreCount, With
  <2>2. o.op \in {"add", "remove", "duplicate"} /\ o.pc = "counted"
    BY <1>0, <1>3 DEF StoreCount, At, CallShaped, Stages, NoCall, Ended
  <2>3. AfterCount(c) \in Stages(o.op) \cup {"ok"} /\ AfterCount(c) \notin {"create", "find"}
    BY <2>2 DEF AfterCount, Stages
  <2>4. Good(f)
    BY <1>0, <2>1, <2>2, <2>3 DEF CallShaped, NoCall, Ended
  <2>. QED
    BY <2>4
<1>4. CASE GetDetail(c)
  <2>1. o.op \in {"save", "publish", "replace", "create", "duplicate", "detail"} /\ o.pc = "detail"
    BY <1>0, <1>4 DEF GetDetail, At, CallShaped, Stages, NoCall, Ended
  <2>2. CASE invitation[o.inv].exists
    <3>. DEFINE f == [o EXCEPT !.pc = "ok", !.old = invitation[o.inv].card, !.list = Recipients(o.inv)]
    <3>1. call' = [call EXCEPT ![c] = f]
      BY <1>4, <2>2 DEF GetDetail, With
    <3>2. Good(f)
      BY <1>0, <2>1, <2>2, <3>1 DEF CallShaped, Stages, GuestOps, NoCall, Ended, RecordShape, RowShaped
    <3>. QED
      BY <3>2
  <2>. QED
    BY <1>1, <1>4, <2>1, <2>2 DEF GetDetail
<1>5. CASE CreateDraft(c)
  <2>1. o.op = "create" /\ o.pc = "create"
    BY <1>0, <1>5 DEF CreateDraft, At, CallShaped, Stages, NoCall, Ended
  <2>2. PICK i \in Invites : call' = [call EXCEPT ![c] = [o EXCEPT !.inv = i, !.pc = "detail"]]
    BY <1>5 DEF CreateDraft, With
  <2>. DEFINE f == [o EXCEPT !.inv = i, !.pc = "detail"]
  <2>3. Good(f)
    BY <1>0, <2>1, <2>2 DEF CallShaped, Stages, GuestOps, NoCall, Ended, RecordShape
  <2>. QED
    BY <2>3
<1>6. CASE InsertRecipient(c, tab.list)
  <2>1. o.op \in {"add", "duplicate"} /\ o.pc = "insert"
    BY <1>0, <1>6 DEF InsertRecipient, At, CallShaped, Stages, NoCall, Ended
  <2>2. PICK g \in Guests : call' = [call EXCEPT ![c] = [o EXCEPT !.guest = g, !.pc = "count"]]
    BY <1>6 DEF InsertRecipient, With
  <2>. DEFINE f == [o EXCEPT !.guest = g, !.pc = "count"]
  <2>3. Good(f)
    BY <1>0, <2>1, <2>2 DEF CallShaped, Stages, GuestOps, NoCall, Ended, RecordShape
  <2>. QED
    BY <2>3
<1>7. CASE DeleteRecipient(c)
  <2>1. o.op = "remove" /\ o.pc = "delete"
    BY <1>0, <1>7 DEF DeleteRecipient, At, CallShaped, Stages, NoCall, Ended
  <2>. DEFINE f == [o EXCEPT !.pc = "count"]
  <2>2. call' = [call EXCEPT ![c] = f]
    BY <1>7 DEF DeleteRecipient, With, Goto
  <2>3. Good(f)
    BY <1>0, <2>1, <2>2 DEF CallShaped, Stages, GuestOps, NoCall, Ended, RecordShape
  <2>. QED
    BY <2>3
<1>8. CASE CountRecipients(c)
  <2>1. o.op \in {"add", "remove", "duplicate"} /\ o.pc = "count"
    BY <1>0, <1>8 DEF CountRecipients, At, CallShaped, Stages, NoCall, Ended
  <2>. DEFINE f == [o EXCEPT !.seen = Counted(o.inv), !.pc = "counted"]
  <2>2. call' = [call EXCEPT ![c] = f]
    BY <1>8 DEF CountRecipients, With
  <2>3. Good(f)
    BY <1>0, <2>1, <2>2 DEF CallShaped, Stages, GuestOps, NoCall, Ended, RecordShape, Counted, NoCounts
  <2>. QED
    BY <2>3
<1>9. CASE TallyStats(c)
  <2>1. o.op \in {"remove", "open"} /\ o.pc = "tally"
    BY <1>0, <1>9 DEF TallyStats, At, CallShaped, Stages, NoCall, Ended
  <2>. DEFINE f == [o EXCEPT !.seen = Counted(o.inv), !.pc = "tallied"]
  <2>2. call' = [call EXCEPT ![c] = f]
    BY <1>9 DEF TallyStats, With
  <2>3. Good(f)
    BY <1>0, <2>1, <2>2 DEF CallShaped, Stages, GuestOps, NoCall, Ended, RecordShape, Counted, NoCounts
  <2>. QED
    BY <2>3
<1>10. CASE StoreStats(c)
  <2>1. o.op \in {"remove", "open"} /\ o.pc = "tallied"
    BY <1>0, <1>10 DEF StoreStats, At, CallShaped, Stages, NoCall, Ended
  <2>. DEFINE f == [o EXCEPT !.pc = IF o.op = "remove" THEN "ok" ELSE "again", !.seen = NoCounts]
  <2>2. call' = [call EXCEPT ![c] = f]
    BY <1>10 DEF StoreStats, With
  <2>3. Good(f)
    BY <1>0, <2>1, <2>2 DEF CallShaped, Stages, GuestOps, NoCall, Ended, RecordShape
  <2>. QED
    BY <2>3
<1>11. CASE ReadGuests(c)
  <2>1. o.op = "publish" /\ o.pc = "guests"
    BY <1>0, <1>11 DEF ReadGuests, At, CallShaped, Stages, NoCall, Ended
  <2>2. CASE Recipients(o.inv) # {}
    <3>. DEFINE f == [o EXCEPT !.pc = "publish"]
    <3>1. call' = [call EXCEPT ![c] = f]
      BY <1>11, <2>2 DEF ReadGuests, With, Goto
    <3>2. Good(f)
      BY <1>0, <2>1, <2>2, <3>1 DEF CallShaped, Stages, GuestOps, NoCall, Ended, RecordShape
    <3>. QED
      BY <3>2
  <2>. QED
    BY <1>1, <1>11, <2>1, <2>2 DEF ReadGuests
<1>12. CASE Publish(c)
  <2>1. o.op = "publish" /\ o.pc = "publish"
    BY <1>0, <1>12 DEF Publish, At, CallShaped, Stages, NoCall, Ended
  <2>. DEFINE f == [o EXCEPT !.pc = "detail"]
  <2>2. call' = [call EXCEPT ![c] = f]
    BY <1>12 DEF Publish, With, Goto
  <2>3. Good(f)
    BY <1>0, <2>1, <2>2 DEF CallShaped, Stages, GuestOps, NoCall, Ended, RecordShape
  <2>. QED
    BY <2>3
<1>13. CASE InsertCopy(c)
  <2>1. o.op = "duplicate" /\ o.pc = "copy"
    BY <1>0, <1>13 DEF InsertCopy, At, CallShaped, Stages, NoCall, Ended
  <2>2. PICK i \in Invites : call' = [call EXCEPT ![c] = [o EXCEPT !.inv = i, !.todo = Cardinality(Recipients(o.inv)),
                                                                   !.pc = IF Cardinality(Recipients(o.inv)) = 0 THEN "detail" ELSE "insert"]]
    BY <1>13 DEF InsertCopy, With
  <2>. DEFINE f == [o EXCEPT !.inv = i, !.todo = Cardinality(Recipients(o.inv)),
                             !.pc = IF Cardinality(Recipients(o.inv)) = 0 THEN "detail" ELSE "insert"]
  <2>3. Good(f)
    BY <1>0, <2>1, <2>2 DEF CallShaped, Stages, GuestOps, NoCall, Ended, RecordShape
  <2>. QED
    BY <2>3
<1>14. CASE DeleteRecipients(c)
  <2>1. o.op = "drop" /\ o.pc = "unlist"
    BY <1>0, <1>14 DEF DeleteRecipients, At, CallShaped, Stages, NoCall, Ended
  <2>. DEFINE f == [o EXCEPT !.pc = "erase"]
  <2>2. call' = [call EXCEPT ![c] = f]
    BY <1>14 DEF DeleteRecipients, With, Goto
  <2>3. Good(f)
    BY <1>0, <2>1, <2>2 DEF CallShaped, Stages, GuestOps, NoCall, Ended, RecordShape
  <2>. QED
    BY <2>3
<1>15. CASE DeleteInvitation(c)
  <2>1. o.op = "drop" /\ o.pc = "erase"
    BY <1>0, <1>15 DEF DeleteInvitation, At, CallShaped, Stages, NoCall, Ended
  <2>. DEFINE f == [o EXCEPT !.pc = "ok"]
  <2>2. call' = [call EXCEPT ![c] = f]
    BY <1>15 DEF DeleteInvitation, With, Goto
  <2>3. Good(f)
    BY <1>0, <2>1, <2>2 DEF CallShaped, Stages, GuestOps, NoCall, Ended, RecordShape
  <2>. QED
    BY <2>3
<1>16. CASE FindRecipient(c)
  <2>1. o.op \in {"open", "rsvp"} /\ o.pc = "find"
    BY <1>0, <1>16 DEF FindRecipient, At, CallShaped, Stages, NoCall, Ended
  <2>2. CASE recipient[c].invite # None
    <3>. DEFINE f == [o EXCEPT !.inv = recipient[c].invite, !.was = recipient[c].rsvp,
                               !.pc = IF o.op = "rsvp" THEN "allowed" ELSE IF recipient[c].opened THEN "seen" ELSE "unseen"]
    <3>1. call' = [call EXCEPT ![c] = f]
      BY <1>16, <2>2 DEF FindRecipient, With
    <3>2. Good(f)
      BY <1>0, <2>1, <2>2, <3>1 DEF CallShaped, Stages, GuestOps, NoCall, Ended, RecordShape, Callers
    <3>. QED
      BY <3>2
  <2>. QED
    BY <1>1, <1>16, <2>1, <2>2 DEF FindRecipient
<1>17. CASE ReadCard(c)
  <2>1. o.op = "open" /\ o.pc \in {"seen", "unseen"}
    BY <1>0, <1>17 DEF ReadCard, At, CallShaped, Stages, NoCall, Ended
  <2>2. CASE Published(o.inv)
    <3>. DEFINE f == [o EXCEPT !.pc = IF o.pc = "seen" THEN "again" ELSE "open"]
    <3>1. call' = [call EXCEPT ![c] = f]
      BY <1>17, <2>2 DEF ReadCard, With, Goto, At
    <3>2. Good(f)
      BY <1>0, <2>1, <2>2, <3>1 DEF CallShaped, Stages, GuestOps, NoCall, Ended, RecordShape
    <3>. QED
      BY <3>2
  <2>. QED
    BY <1>1, <1>17, <2>1, <2>2 DEF ReadCard
<1>18. CASE SetOpened(c)
  <2>1. o.op = "open" /\ o.pc = "open"
    BY <1>0, <1>18 DEF SetOpened, At, CallShaped, Stages, NoCall, Ended
  <2>. DEFINE f == [o EXCEPT !.pc = "tally"]
  <2>2. call' = [call EXCEPT ![c] = f]
    BY <1>18 DEF SetOpened, With, Goto
  <2>3. Good(f)
    BY <1>0, <2>1, <2>2 DEF CallShaped, Stages, GuestOps, NoCall, Ended, RecordShape
  <2>. QED
    BY <2>3
<1>19. CASE ReadAgain(c)
  <2>1. o.op = "open" /\ o.pc = "again"
    BY <1>0, <1>19 DEF ReadAgain, At, CallShaped, Stages, NoCall, Ended
  <2>2. CASE recipient[c].invite # None
    <3>. DEFINE f == [o EXCEPT !.pc = "ok"]
    <3>1. call' = [call EXCEPT ![c] = f]
      BY <1>19, <2>2 DEF ReadAgain, With, Goto
    <3>2. Good(f)
      BY <1>0, <2>1, <2>2, <3>1 DEF CallShaped, Stages, GuestOps, NoCall, Ended, RecordShape
    <3>. QED
      BY <3>2
  <2>. QED
    BY <1>1, <1>19, <2>1, <2>2 DEF ReadAgain
<1>20. CASE RsvpAllowed(c)
  <2>1. o.op = "rsvp" /\ o.pc = "allowed"
    BY <1>0, <1>20 DEF RsvpAllowed, At, CallShaped, Stages, NoCall, Ended
  <2>2. CASE Goto(c, "respond")
    <3>. DEFINE f == [o EXCEPT !.pc = "respond"]
    <3>1. call' = [call EXCEPT ![c] = f]
      BY <1>20, <2>2 DEF RsvpAllowed, With, Goto
    <3>2. Good(f)
      BY <1>0, <2>1, <2>2, <3>1 DEF CallShaped, Stages, GuestOps, NoCall, Ended, RecordShape
    <3>. QED
      BY <3>2
  <2>. QED
    BY <1>1, <1>20, <2>1, <2>2 DEF RsvpAllowed
<1>21. CASE StoreRsvp(c)
  <2>1. o.op = "rsvp" /\ o.pc = "respond"
    BY <1>0, <1>21 DEF StoreRsvp, At, CallShaped, Stages, NoCall, Ended
  <2>. DEFINE f == [o EXCEPT !.pc = "adjust"]
  <2>2. call' = [call EXCEPT ![c] = f]
    BY <1>21 DEF StoreRsvp, With, Goto
  <2>3. Good(f)
    BY <1>0, <2>1, <2>2 DEF CallShaped, Stages, GuestOps, NoCall, Ended, RecordShape
  <2>. QED
    BY <2>3
<1>22. CASE StoreCounts(c)
  <2>1. o.op = "rsvp" /\ o.pc = "adjusted"
    BY <1>0, <1>22 DEF StoreCounts, At, CallShaped, Stages, NoCall, Ended
  <2>. DEFINE f == Reread(c)
  <2>2. call' = [call EXCEPT ![c] = f]
    BY <1>22 DEF StoreCounts, With
  <2>3. Good(f)
    BY <1>0, <2>1, <2>2 DEF CallShaped, Stages, GuestOps, NoCall, Ended, RecordShape, Reread
  <2>. QED
    BY <2>3
<1>23. CASE StoreCard(c)
  <2>1. o.op \in {"save", "upload", "replace"} /\ o.pc = "merge"
    BY <1>0, <1>23 DEF StoreCard, At, CallShaped, Stages, NoCall, Ended
  <2>. DEFINE f == [o EXCEPT !.pc = IF o.op = "upload" THEN "ok" ELSE "detail", !.card = NoCard, !.old = NoCard]
  <2>2. call' = [call EXCEPT ![c] = f]
    BY <1>23 DEF StoreCard, With
  <2>3. Good(f)
    BY <1>0, <2>1, <2>2 DEF CallShaped, Stages, GuestOps, NoCall, Ended, RecordShape
  <2>. QED
    BY <2>3
<1>24. CASE ReadCounts(c)
  <2>1. o.op = "rsvp" /\ o.pc = "adjust"
    BY <1>0, <1>24 DEF ReadCounts, At, CallShaped, Stages, NoCall, Ended
  <2>2. CASE invitation[o.inv].exists
    <3>. DEFINE f == [o EXCEPT !.pc = "adjusted", !.seen = invitation[o.inv].counts]
    <3>1. call' = [call EXCEPT ![c] = f]
      BY <1>24, <2>2 DEF ReadCounts, With
    <3>2. Good(f)
      BY <1>0, <2>1, <2>2, <3>1 DEF CallShaped, Stages, GuestOps, NoCall, Ended, RecordShape, RowShaped
    <3>. QED
      BY <3>2
  <2>3. CASE ~invitation[o.inv].exists
    <3>. DEFINE f == Reread(c)
    <3>1. call' = [call EXCEPT ![c] = f]
      BY <1>24, <2>3 DEF ReadCounts, With
    <3>2. Good(f)
      BY <1>0, <2>1, <3>1 DEF CallShaped, Stages, GuestOps, NoCall, Ended, Reread
    <3>. QED
      BY <3>2
  <2>. QED
    BY <2>2, <2>3
<1>25. CASE PhotoStep(c)
  <2>1. o.op \in {"upload", "replace"} /\ o.pc \in {"purge", "put"} /\ (o.pc = "put" => o.op = "upload")
    BY <1>0, <1>25 DEF PhotoStep, At, CallShaped, Stages, NoCall, Ended
  <2>. DEFINE f == [o EXCEPT !.pc = IF o.pc = "purge" /\ o.op = "upload" THEN "put" ELSE "merge"]
  <2>2. call' = [call EXCEPT ![c] = f]
    BY <1>25, <2>1 DEF PhotoStep, At, With, Goto
  <2>3. Good(f)
    BY <1>0, <2>1, <2>2 DEF CallShaped, Stages, GuestOps, NoCall, Ended
  <2>. QED
    BY <2>3
<1>26. CASE CallFails(c)
  BY <1>0, <1>1, <1>26 DEF CallFails, CallShaped, NoCall
<1>. QED
  BY <1>2, <1>3, <1>4, <1>5, <1>6, <1>7, <1>8, <1>9, <1>10, <1>11, <1>12, <1>13,
     <1>14, <1>15, <1>16, <1>17, <1>18, <1>19, <1>20, <1>21, <1>22, <1>23, <1>24, <1>25, <1>26
  DEF RecordStep

\* The parts of RecordShape, one for each table.
RowsShaped ==
  /\ invitation = [i \in Invites |-> invitation[i]]
  /\ \A i \in Invites : RowShaped(invitation[i])

GuestsShaped ==
  /\ recipient = [g \in Guests |-> recipient[g]]
  /\ \A g \in Guests : DOMAIN recipient[g] = DOMAIN NoRecipient /\ recipient[g].invite \in Invites \cup {None}

\* The rows of cards keep their shape.
LEMMA RowsStep ==
  ASSUME RecordShape, NEW c \in Callers, RecordStep(c, tab.list)
  PROVE  RowsShaped'
<1>. DEFINE o == call[c]
<1>0. RowsShaped /\ CallShaped(o)
  BY DEF RecordShape, RowsShaped
<1>1. ASSUME NEW i, NEW row, invitation' = [invitation EXCEPT ![i] = row] \/ invitation' = invitation, i \in Invites => RowShaped(row)
      PROVE RowsShaped'
  BY <1>0, <1>1 DEF RowsShaped
<1>2. CASE CreateDraft(c)
  <2>1. PICK i \in Invites : invitation' = [invitation EXCEPT ![i] = [NoInvitation EXCEPT !.exists = TRUE]]
    BY <1>2 DEF CreateDraft
  <2>2. RowShaped([NoInvitation EXCEPT !.exists = TRUE])
    BY DEF RowShaped, NoInvitation
  <2>. QED
    BY <1>1, <2>1, <2>2
<1>3. CASE StoreCount(c)
  <2>. DEFINE row == [invitation[o.inv] EXCEPT !.counts.guests = o.seen.guests]
  <2>1. o.inv \in Invites => RowShaped(row)
    BY <1>0 DEF RowsShaped, RowShaped, NoInvitation
  <2>2. invitation' = [invitation EXCEPT ![o.inv] = row] \/ invitation' = invitation
    BY <1>3 DEF StoreCount, Update
  <2>. QED
    BY <1>1, <2>1, <2>2
<1>4. CASE StoreStats(c)
  <2>. DEFINE row == [invitation[o.inv] EXCEPT !.counts = [o.seen EXCEPT !.guests = invitation[o.inv].counts.guests]]
  <2>1. o.inv \in Invites => RowShaped(row)
    BY <1>0 DEF RowsShaped, RowShaped, NoInvitation, CallShaped
  <2>2. invitation' = [invitation EXCEPT ![o.inv] = row] \/ invitation' = invitation
    BY <1>4 DEF StoreStats, Update
  <2>. QED
    BY <1>1, <2>1, <2>2
<1>5. CASE Publish(c)
  <2>. DEFINE row == [invitation[o.inv] EXCEPT !.status = "published"]
  <2>1. o.inv \in Invites => RowShaped(row)
    BY <1>0 DEF RowsShaped, RowShaped, NoInvitation
  <2>2. invitation' = [invitation EXCEPT ![o.inv] = row] \/ invitation' = invitation
    BY <1>5 DEF Publish, Update
  <2>. QED
    BY <1>1, <2>1, <2>2
<1>6. CASE InsertCopy(c)
  <2>. DEFINE row == [NoInvitation EXCEPT !.exists = TRUE, !.card = [o.old EXCEPT !.key = FALSE]]
  <2>1. PICK i \in Invites : invitation' = [invitation EXCEPT ![i] = row]
    BY <1>6 DEF InsertCopy
  <2>2. RowShaped(row)
    BY <1>0 DEF RowShaped, NoInvitation, CallShaped
  <2>. QED
    BY <1>1, <2>1, <2>2
<1>7. CASE DeleteInvitation(c)
  <2>1. RowShaped(NoInvitation)
    BY DEF RowShaped, NoInvitation
  <2>. QED
    BY <1>1, <1>7, <2>1 DEF DeleteInvitation
<1>8. CASE StoreCounts(c)
  <2>. DEFINE row == [invitation[o.inv] EXCEPT !.counts.responses = Adjusted(o.seen.responses, o.was, o.rsvp)]
  <2>1. o.inv \in Invites => RowShaped(row)
    BY <1>0 DEF RowsShaped, RowShaped, NoInvitation
  <2>2. invitation' = [invitation EXCEPT ![o.inv] = row] \/ invitation' = invitation
    BY <1>8 DEF StoreCounts, Update
  <2>. QED
    BY <1>1, <2>1, <2>2
<1>9. CASE StoreCard(c)
  <2>. DEFINE row == [invitation[o.inv] EXCEPT !.card = NewCard(c)]
  <2>0. DOMAIN NewCard(c) = DOMAIN NoCard
    BY <1>0 DEF NewCard, Merged, CallShaped
  <2>1. o.inv \in Invites => RowShaped(row)
    BY <1>0, <2>0 DEF RowsShaped, RowShaped, NoInvitation
  <2>2. invitation' = [invitation EXCEPT ![o.inv] = row] \/ invitation' = invitation
    BY <1>9 DEF StoreCard, Update
  <2>. QED
    BY <1>1, <2>1, <2>2
<1>10. CASE invitation' = invitation
  BY <1>0, <1>10 DEF RowsShaped
<1>. QED
  <2>1. \/ CreateDraft(c) \/ StoreCount(c) \/ StoreStats(c) \/ Publish(c) \/ InsertCopy(c)
        \/ DeleteInvitation(c) \/ StoreCounts(c) \/ StoreCard(c) \/ invitation' = invitation
    BY DEF RecordStep, Kept, GetOwnedInvitation, GetDetail, InsertRecipient, DeleteRecipient, CountRecipients,
           TallyStats, ReadGuests, DeleteRecipients, FindRecipient, ReadCard, SetOpened, ReadAgain, RsvpAllowed,
           StoreRsvp, ReadCounts, PhotoStep, CallFails
  <2>. QED
    BY <1>2, <1>3, <1>4, <1>5, <1>6, <1>7, <1>8, <1>9, <1>10, <2>1

\* How the guests of cards change: one comes, one goes, or all of a card go;
\* a guest's own handler changes no guest's card.
GuestsKept ==
  /\ recipient' = [g \in Guests |-> recipient'[g]]
  /\ \A g \in Guests : DOMAIN recipient'[g] = DOMAIN NoRecipient /\ recipient'[g].invite = recipient[g].invite

\* A step leaves every guest with its card, or brings one, or takes one, or
\* takes all of a card.
LEMMA GuestsStep ==
  ASSUME RecordShape, NEW c \in Callers, RecordStep(c, tab.list)
  PROVE  \/ GuestsKept
         \/ InsertRecipient(c, tab.list) \/ DeleteRecipient(c) \/ DeleteRecipients(c)
<1>0. GuestsShaped /\ CallShaped(call[c])
  BY DEF RecordShape, GuestsShaped
<1>1. ASSUME NEW g, NEW row, UpdateRecipient(g, row), g \in Guests => DOMAIN row = DOMAIN NoRecipient /\ row.invite = recipient[g].invite
      PROVE  GuestsKept
  BY <1>0, <1>1 DEF UpdateRecipient, GuestsShaped, GuestsKept
<1>2. CASE SetOpened(c)
  <2>. DEFINE row == [recipient[c] EXCEPT !.opened = TRUE]
  <2>1. c \in Guests => DOMAIN row = DOMAIN NoRecipient /\ row.invite = recipient[c].invite
    BY <1>0 DEF GuestsShaped, NoRecipient
  <2>2. UpdateRecipient(c, row)
    BY <1>2 DEF SetOpened
  <2>. QED
    BY <1>1, <2>1, <2>2
<1>3. CASE StoreRsvp(c)
  <2>. DEFINE row == [recipient[c] EXCEPT !.rsvp = call[c].rsvp]
  <2>1. c \in Guests => DOMAIN row = DOMAIN NoRecipient /\ row.invite = recipient[c].invite
    BY <1>0 DEF GuestsShaped, NoRecipient
  <2>2. UpdateRecipient(c, row)
    BY <1>3 DEF StoreRsvp
  <2>. QED
    BY <1>1, <2>1, <2>2
<1>4. CASE recipient' = recipient
  BY <1>0, <1>4 DEF GuestsShaped, GuestsKept
<1>. QED
  <2>1. \/ InsertRecipient(c, tab.list) \/ DeleteRecipient(c) \/ DeleteRecipients(c)
        \/ SetOpened(c) \/ StoreRsvp(c) \/ recipient' = recipient
    BY DEF RecordStep, Kept, GetOwnedInvitation, GetDetail, CreateDraft, CountRecipients, StoreCount, StoreStats,
           TallyStats, ReadGuests, Publish, InsertCopy, DeleteInvitation, FindRecipient, ReadCard, ReadAgain, RsvpAllowed,
           ReadCounts, StoreCounts, StoreCard, PhotoStep, CallFails
  <2>. QED
    BY <1>2, <1>3, <1>4, <2>1

\* Where no guest changes its card, a card keeps its guests.
LEMMA SameGuests ==
  ASSUME GuestsKept, NEW i
  PROVE  Recipients(i)' = Recipients(i)
  BY DEF GuestsKept, Recipients

\* InsertRecipient brings one guest, new to the card, and changes no other
\* card's guests.
LEMMA GuestInserted ==
  ASSUME RecordShape, NEW c \in Callers, InsertRecipient(c, tab.list)
  PROVE  \E g \in Guests :
           /\ call' = [call EXCEPT ![c] = [call[c] EXCEPT !.guest = g, !.pc = "count"]]
           /\ recipient[g].invite = None /\ g \notin tab.list
           /\ GuestsShaped'
           /\ \A i \in Invites :
                /\ Recipients(i)' = IF i = call[c].inv THEN Recipients(i) \cup {g} ELSE Recipients(i)
                /\ Counted(i)'.opens = Counted(i).opens /\ Counted(i)'.responses = Counted(i).responses
<1>. DEFINE o == call[c]
            row == [NoRecipient EXCEPT !.invite = o.inv]
<1>0. GuestsShaped /\ CallShaped(o) /\ o.op \in {"add", "duplicate"} /\ o.inv \in Invites
  BY DEF RecordShape, GuestsShaped, CallShaped, Stages, InsertRecipient, At, NoCall, Ended
<1>1. PICK g \in Guests : /\ call' = [call EXCEPT ![c] = [o EXCEPT !.guest = g, !.pc = "count"]]
                          /\ recipient[g].invite = None /\ g \notin tab.list
                          /\ recipient' = [recipient EXCEPT ![g] = row]
  BY DEF InsertRecipient, FreshGuest, With
<1>2. row.invite = o.inv /\ row.opened = FALSE /\ row.rsvp = "pending" /\ DOMAIN row = DOMAIN NoRecipient
  BY DEF NoRecipient
<1>. HIDE DEF row
<1>3. GuestsShaped'
  BY <1>0, <1>1, <1>2 DEF GuestsShaped
<1>4. /\ recipient'[g] = row
      /\ \A x \in Guests \ {g} : recipient'[x] = recipient[x]
  BY <1>0, <1>1 DEF GuestsShaped
<1>5. None \notin Invites /\ "pending" \notin Responses
  BY InvitationRecordsAssumption
<1>6. ASSUME NEW i \in Invites
      PROVE  /\ Recipients(i)' = IF i = o.inv THEN Recipients(i) \cup {g} ELSE Recipients(i)
             /\ Counted(i)'.opens = Counted(i).opens /\ Counted(i)'.responses = Counted(i).responses
  <2>1. Recipients(i)' = IF i = o.inv THEN Recipients(i) \cup {g} ELSE Recipients(i)
    BY <1>1, <1>2, <1>4, <1>5 DEF Recipients
  <2>2. g \notin Recipients(i)
    BY <1>1, <1>5 DEF Recipients
  <2>3. {x \in Recipients(i)' : recipient'[x].opened} = {x \in Recipients(i) : recipient[x].opened}
    BY <1>2, <1>4, <2>1, <2>2 DEF Recipients
  <2>4. ASSUME NEW r \in Responses
        PROVE  {x \in Recipients(i)' : recipient'[x].rsvp = r} = {x \in Recipients(i) : recipient[x].rsvp = r}
    BY <1>2, <1>4, <1>5, <2>1, <2>2 DEF Recipients
  <2>. QED
    BY <2>1, <2>3, <2>4 DEF Counted
<1>. QED
  BY <1>1, <1>3, <1>6

\* DeleteRecipient takes the guest of the call from the card of the call.
LEMMA GuestDeleted ==
  ASSUME RecordShape, NEW c \in Callers, DeleteRecipient(c)
  PROVE  /\ GuestsShaped'
         /\ \A i \in Invites :
              /\ Recipients(i)' = IF i = call[c].inv THEN Recipients(i) \ {call[c].guest} ELSE Recipients(i)
              /\ i # call[c].inv => Counted(i)' = Counted(i)
<1>. DEFINE o == call[c]  g == call[c].guest
<1>0. GuestsShaped /\ CallShaped(o) /\ o.op = "remove" /\ o.inv \in Invites
  BY DEF RecordShape, GuestsShaped, CallShaped, Stages, DeleteRecipient, At, NoCall, Ended
<1>1. recipient' = IF recipient[g].invite = o.inv THEN [recipient EXCEPT ![g] = NoRecipient] ELSE recipient
  BY DEF DeleteRecipient
<1>2. NoRecipient.invite = None /\ None \notin Invites
  BY InvitationRecordsAssumption DEF NoRecipient
<1>3. GuestsShaped'
  BY <1>0, <1>1, <1>2 DEF GuestsShaped
<1>4. \A x \in Guests \ {g} : recipient'[x] = recipient[x]
  BY <1>0, <1>1 DEF GuestsShaped
<1>5. g \in Guests => recipient'[g].invite # o.inv /\ (recipient[g].invite # o.inv => recipient'[g] = recipient[g])
  BY <1>0, <1>1, <1>2 DEF GuestsShaped
<1>6. ASSUME NEW i \in Invites
      PROVE  /\ Recipients(i)' = IF i = o.inv THEN Recipients(i) \ {g} ELSE Recipients(i)
             /\ i # o.inv => Counted(i)' = Counted(i)
  <2>1. CASE i = o.inv
    BY <1>4, <1>5, <2>1 DEF Recipients
  <2>2. CASE i # o.inv
    <3>1. \A x \in Guests : /\ recipient'[x].invite = i <=> recipient[x].invite = i
                            /\ recipient[x].invite = i => recipient'[x] = recipient[x]
      <4>1. ASSUME g \in Guests, recipient[g].invite = o.inv PROVE recipient'[g].invite # i /\ recipient[g].invite # i
        BY <1>0, <1>1, <1>2, <2>2, <4>1 DEF GuestsShaped
      <4>. QED
        BY <1>4, <1>5, <4>1
    <3>2. Recipients(i)' = Recipients(i)
      BY <3>1 DEF Recipients
    <3>3. \A x \in Recipients(i) : recipient'[x] = recipient[x]
      BY <3>1 DEF Recipients
    <3>. QED
      BY <2>2, <3>2, <3>3 DEF Counted
  <2>. QED
    BY <2>1, <2>2
<1>. QED
  BY <1>3, <1>6

\* DeleteRecipients leaves the card of the call without guests.
LEMMA GuestsDeleted ==
  ASSUME RecordShape, NEW c \in Callers, DeleteRecipients(c)
  PROVE  /\ GuestsShaped'
         /\ \A i \in Invites :
              /\ Recipients(i)' = IF i = call[c].inv THEN {} ELSE Recipients(i)
              /\ i # call[c].inv => Counted(i)' = Counted(i)
<1>. DEFINE o == call[c]
<1>0. GuestsShaped /\ CallShaped(o) /\ o.op = "drop" /\ o.inv \in Invites
  BY DEF RecordShape, GuestsShaped, CallShaped, Stages, DeleteRecipients, At, NoCall, Ended
<1>1. recipient' = [g \in Guests |-> IF recipient[g].invite = o.inv THEN NoRecipient ELSE recipient[g]]
  BY DEF DeleteRecipients
<1>2. NoRecipient.invite = None /\ None \notin Invites
  BY InvitationRecordsAssumption DEF NoRecipient
<1>3. GuestsShaped'
  BY <1>0, <1>1, <1>2 DEF GuestsShaped
<1>4. ASSUME NEW i \in Invites
      PROVE  /\ Recipients(i)' = IF i = o.inv THEN {} ELSE Recipients(i)
             /\ i # o.inv => Counted(i)' = Counted(i)
  <2>1. CASE i = o.inv
    BY <1>0, <1>1, <1>2, <2>1 DEF Recipients
  <2>2. CASE i # o.inv
    <3>1. \A x \in Guests : /\ recipient'[x].invite = i <=> recipient[x].invite = i
                            /\ recipient[x].invite = i => recipient'[x] = recipient[x]
      BY <1>0, <1>1, <1>2, <2>2
    <3>2. Recipients(i)' = Recipients(i)
      BY <3>1 DEF Recipients
    <3>3. \A x \in Recipients(i) : recipient'[x] = recipient[x]
      BY <3>1 DEF Recipients
    <3>. QED
      BY <2>2, <3>2, <3>3 DEF Counted
  <2>. QED
    BY <2>1, <2>2
<1>. QED
  BY <1>3, <1>4

\* What a step leaves of the shape of the rows and the calls.
LEMMA ShapeStep ==
  ASSUME RecordShape, NEW c \in Callers, RecordStep(c, tab.list)
  PROVE  RecordShape'
<1>1. PICK f : /\ call' = [call EXCEPT ![c] = f]
               /\ CallShaped(f) /\ f.op # "none" /\ call[c].op # "none"
               /\ f.op \in GuestOps <=> call[c].op \in GuestOps
  BY CallStep
<1>2. /\ call' = [x \in Callers |-> call'[x]]
      /\ \A x \in Callers : CallShaped(call'[x])
      /\ \A x \in Callers : call'[x].op # "none" => (call'[x].op \in GuestOps <=> x # Owner)
  BY <1>1 DEF RecordShape
<1>3. RowsShaped'
  BY RowsStep
<1>4. GuestsShaped' /\ \A i \in Invites : IsFiniteSet(Recipients(i)')
  <2>0. GuestsShaped /\ \A i \in Invites : IsFiniteSet(Recipients(i))
    BY DEF RecordShape, GuestsShaped
  <2>1. CASE GuestsKept
    <3>1. GuestsShaped'
      BY <2>0, <2>1 DEF GuestsShaped, GuestsKept
    <3>2. \A i \in Invites : Recipients(i)' = Recipients(i)
      BY <2>1, SameGuests
    <3>. QED
      BY <2>0, <3>1, <3>2
  <2>2. CASE InsertRecipient(c, tab.list)
    <3>1. PICK g \in Guests : /\ GuestsShaped'
                              /\ \A i \in Invites : Recipients(i)' = IF i = call[c].inv THEN Recipients(i) \cup {g} ELSE Recipients(i)
      BY <2>2, GuestInserted
    <3>2. \A i \in Invites : IsFiniteSet(Recipients(i) \cup {g})
      BY <2>0, FS_AddElement
    <3>. QED
      BY <2>0, <3>1, <3>2
  <2>3. CASE DeleteRecipient(c)
    <3>1. /\ GuestsShaped'
          /\ \A i \in Invites : Recipients(i)' = IF i = call[c].inv THEN Recipients(i) \ {call[c].guest} ELSE Recipients(i)
      BY <2>3, GuestDeleted
    <3>2. \A i \in Invites : IsFiniteSet(Recipients(i) \ {call[c].guest})
      BY <2>0, FS_RemoveElement
    <3>. QED
      BY <2>0, <3>1, <3>2
  <2>4. CASE DeleteRecipients(c)
    <3>1. /\ GuestsShaped'
          /\ \A i \in Invites : Recipients(i)' = IF i = call[c].inv THEN {} ELSE Recipients(i)
      BY <2>4, GuestsDeleted
    <3>. QED
      BY <2>0, <3>1, FS_EmptySet
  <2>. QED
    BY <2>1, <2>2, <2>3, <2>4, GuestsStep
<1>. QED
  BY <1>2, <1>3, <1>4 DEF RecordShape, RowsShaped, GuestsShaped

\* A call that starts has the shape of one, and changes that of no other.
LEMMA ShapeStart ==
  ASSUME RecordShape, NEW c \in Callers, NEW f, Start(c, f), UNCHANGED <<invitation, recipient>>,
         CallShaped(f), f.op # "none", f.op \in GuestOps <=> c # Owner
  PROVE  RecordShape'
<1>1. \A x \in Callers : \E b \in BOOLEAN : call'[x] = call[x] \/ call'[x] = [call[x] EXCEPT !.alone = b]
                                            \/ (x = c /\ call'[x] = [f EXCEPT !.alone = b])
  BY DEF Start
<1>2. ASSUME NEW o, NEW b \in BOOLEAN, CallShaped(o), o.op # "none"
      PROVE  CallShaped([o EXCEPT !.alone = b]) /\ [o EXCEPT !.alone = b].op = o.op
  BY <1>2 DEF CallShaped, NoCall
<1>3. \A x \in Callers : x \in Running => call[x].op # "none"
  BY DEF Running, RecordShape, CallShaped, NoCall
<1>4. \A x \in Callers : CallShaped(call'[x]) /\ (call'[x].op # "none" => (call'[x].op \in GuestOps <=> x # Owner))
  <2>. TAKE x \in Callers
  <2>1. CASE x = c
    <3>1. PICK b \in BOOLEAN : call'[x] = [f EXCEPT !.alone = b]
      BY <2>1 DEF Start
    <3>. QED
      BY <1>2, <2>1, <3>1
  <2>2. CASE x # c /\ x \in Running
    <3>1. call'[x] = [call[x] EXCEPT !.alone = FALSE]
      BY <2>2 DEF Start
    <3>. QED
      BY <1>2, <1>3, <2>2, <3>1 DEF RecordShape
  <2>3. CASE x # c /\ x \notin Running
    <3>1. call'[x] = call[x]
      BY <2>3 DEF Start
    <3>. QED
      BY <3>1 DEF RecordShape
  <2>. QED
    BY <2>1, <2>2, <2>3
<1>5. call' = [x \in Callers |-> call'[x]]
  BY DEF Start
<1>. QED
  BY <1>4, <1>5 DEF RecordShape, RowShaped, Recipients

\* A caller without a call waits for nothing.
LEMMA NoCallShaped == CallShaped(NoCall) /\ NoCall.op = "none" /\ NoCall.pc = "idle" /\ NoCall.then = "none"
  BY DEF CallShaped, NoCall, GuestOps

\* An answer that is taken leaves rows and calls in their shape.
LEMMA ShapeAnswered ==
  ASSUME RecordShape, NEW c \in Callers, With(c, NoCall), UNCHANGED <<invitation, recipient>>
  PROVE  RecordShape'
<1>1. \A x \in Callers : CallShaped(call'[x]) /\ (call'[x].op # "none" => (call'[x].op \in GuestOps <=> x # Owner))
  BY NoCallShaped DEF RecordShape, With
<1>2. call' = [x \in Callers |-> call'[x]]
  BY DEF RecordShape, With
<1>. QED
  BY <1>1, <1>2 DEF RecordShape, RowShaped, Recipients

-----------------------------------------------------------------------------
(***************************************************************************)
(* The counts.  A handler that began and ran alone knows at each of its    *)
(* stages which count it still has to put right; one that overlaps with    *)
(* another has marked the counts of every card when it began (drift).      *)
(***************************************************************************)
\* The handler o changed the guests, or their opens and answers, and has not
\* stored the counts yet.
GuestsOff(o) == (o.op \in {"add", "remove", "duplicate"} /\ o.pc \in {"count", "counted"}) \/ o.pc = "erase"
StatsOff(o) ==
  \/ o.op = "remove" /\ o.pc \in {"count", "counted", "tally", "tallied"}
  \/ o.op = "open" /\ o.pc \in {"tally", "tallied"}
  \/ o.op = "rsvp" /\ o.pc \in {"adjust", "adjusted"}
  \/ o.pc = "erase"

\* The counts of card i agree with its guests.
GuestsRight(i) == <<i, "guests">> \in drift \/ invitation[i].counts.guests = Counted(i).guests
StatsRight(i) ==
  <<i, "stats">> \in drift \/ (invitation[i].counts.opens = Counted(i).opens /\ invitation[i].counts.responses = Counted(i).responses)

\* An answer is in the row, and the counts with its change added will agree.
Adjusting(i, o) ==
  LET counts == IF o.pc = "adjusted" THEN o.seen ELSE invitation[i].counts
  IN  <<i, "stats">> \in drift \/ ( /\ invitation[i].counts.opens = Counted(i).opens
                                    /\ Adjusted(counts.responses, o.was, o.rsvp) = Counted(i).responses )

\* What the lone handler o of caller c knows: all counts are right but the one
\* it has open, and what it counted is still so.
LoneFit(c, o) ==
  /\ \A i \in Invites : invitation[i].exists =>
       /\ GuestsRight(i) \/ (GuestsOff(o) /\ o.inv = i)
       /\ StatsRight(i) \/ (StatsOff(o) /\ o.inv = i)
       /\ o.op = "rsvp" /\ o.pc \in {"adjust", "adjusted"} /\ o.inv = i => Adjusting(i, o)
  /\ o.pc = "counted" => o.seen.guests = Counted(o.inv).guests
  /\ o.pc = "tallied" => o.seen = Counted(o.inv)
  /\ o.op \in GuestOps /\ o.pc \notin {"find", "again"} => recipient[c].invite = o.inv
  /\ o.pc \in {"allowed", "respond"} => recipient[c].rsvp = o.was

\* The counts of every card are marked.
AllDrift == \A i \in Invites : invitation[i].exists => {i} \X {"guests", "stats"} \subseteq drift

CountsInv ==
  /\ CountsAreRight
  /\ \A c \in Running : call[c].alone => Running = {c} /\ LoneFit(c, call[c])
  /\ \A c \in Running : ~call[c].alone => AllDrift /\ (c = Owner => AllCounts \subseteq drift)

\* With changes the call of one caller.
LEMMA CallAfter ==
  ASSUME RecordShape, NEW c \in Callers, NEW f, With(c, f)
  PROVE  call'[c] = f /\ \A x \in Callers \ {c} : call'[x] = call[x]
<1>1. DOMAIN call = Callers
  BY DEF RecordShape
<1>. QED
  BY <1>1 DEF With

AllRight == \A i \in Invites : invitation[i].exists => GuestsRight(i) /\ StatsRight(i)

\* What a handler leaves that was alone.
LoneOut(c) ==
  IF call'[c].pc \in Ended THEN AllRight'
  ELSE call'[c].alone /\ LoneFit(c, call[c])'

\* A lone handler that has nothing open leaves all counts right.
LEMMA RightNow ==
  ASSUME NEW c, NEW o, LoneFit(c, o), ~GuestsOff(o), ~StatsOff(o)
  PROVE  AllRight
  BY DEF LoneFit, AllRight

\* A handler that has nothing half done.
LEMMA FitsCalm ==
  ASSUME NEW c \in Callers, AllRight', ~GuestsOff(call'[c]), ~StatsOff(call'[c]), call'[c].pc \notin {"counted", "tallied"},
         call'[c].op \in GuestOps /\ call'[c].pc \notin {"find", "again"} => recipient'[c].invite = call'[c].inv,
         call'[c].pc \in {"allowed", "respond"} => recipient'[c].rsvp = call'[c].was
  PROVE  LoneFit(c, call[c])'
  BY DEF LoneFit, AllRight, StatsOff

\* Counts stay right while neither rows of guests nor counts change.
LEMMA RightKept ==
  ASSUME AllRight, UNCHANGED recipient, drift \subseteq drift',
         \A i \in Invites : invitation'[i].exists = invitation[i].exists /\ invitation'[i].counts = invitation[i].counts
  PROVE  AllRight'
<1>1. \A i \in Invites : Counted(i)' = Counted(i)
  BY DEF Counted, Recipients
<1>. QED
  BY <1>1 DEF AllRight, GuestsRight, StatsRight

\* A lone handler that only reads leaves the counts as they were.
LEMMA LoneReads ==
  ASSUME RecordShape, NEW c \in Callers, call[c].alone, LoneFit(c, call[c]),
         \/ GetOwnedInvitation(c) \/ GetDetail(c) \/ ReadGuests(c) \/ FindRecipient(c)
         \/ ReadCard(c) \/ ReadAgain(c) \/ RsvpAllowed(c)
  PROVE  LoneOut(c)
<1>. DEFINE o == call[c]  f == call'[c]
<1>0. CallShaped(o) /\ o.pc \notin {"count", "counted", "tally", "tallied", "adjust", "adjusted", "erase"}
  BY DEF RecordShape, GetOwnedInvitation, GetDetail, ReadGuests, FindRecipient, ReadCard, ReadAgain, RsvpAllowed, At
<1>1. UNCHANGED Kept
  BY DEF GetOwnedInvitation, GetDetail, ReadGuests, FindRecipient, ReadCard, ReadAgain, RsvpAllowed
<1>2. AllRight
  BY <1>0, RightNow DEF GuestsOff, StatsOff
<1>3. AllRight'
  BY <1>1, <1>2, RightKept DEF Kept
<1>4. CASE Fail(c)
  <2>1. f.pc = "error"
    <3>1. f = [NoCall EXCEPT !.pc = "error", !.op = o.op, !.then = o.then]
      BY <1>4, CallAfter DEF Fail
    <3>. QED
      BY <3>1 DEF NoCall
  <2>. QED
    BY <1>3, <2>1 DEF LoneOut, Ended
<1>5. CASE GetOwnedInvitation(c) /\ ~Fail(c)
  <2>1. o.op \notin GuestOps /\ o.op # "none" /\ o.pc = "check"
    BY <1>0, <1>5 DEF GetOwnedInvitation, At, CallShaped, Stages, NoCall, Ended, GuestOps
  <2>2. f.op = o.op /\ f.alone = o.alone /\ f.pc \in {"insert", "delete", "guests", "copy", "unlist", "detail", "merge", "purge"}
    <3>1. f = [o EXCEPT !.pc = First(o.op), !.old = invitation[o.inv].card]
      BY <1>5, CallAfter DEF GetOwnedInvitation
    <3>2. First(o.op) \in {"insert", "delete", "guests", "copy", "unlist", "detail", "merge", "purge"}
      BY <1>0, <2>1 DEF CallShaped, First, Stages, Ended, GuestOps, Purpose, SaveThens
    <3>. QED
      BY <1>0, <3>1, <3>2, CallFields
  <2>. QED
    BY <1>3, <2>1, <2>2, FitsCalm DEF LoneOut, Ended, GuestsOff, StatsOff
<1>6. CASE GetDetail(c) /\ ~Fail(c)
  <2>1. f.pc = "ok"
    <3>1. f = [o EXCEPT !.pc = "ok", !.old = invitation[o.inv].card, !.list = Recipients(o.inv)]
      BY <1>6, CallAfter DEF GetDetail
    <3>. QED
      BY <1>0, <3>1, CallFields
  <2>. QED
    BY <1>3, <2>1 DEF LoneOut, Ended
<1>7. CASE ReadGuests(c) /\ ~Fail(c)
  <2>1. o.op \notin GuestOps /\ o.op # "none"
    BY <1>0, <1>7 DEF ReadGuests, At, CallShaped, Stages, NoCall, Ended, GuestOps
  <2>2. f.op = o.op /\ f.alone = o.alone /\ f.pc = "publish"
    <3>1. f = [o EXCEPT !.pc = "publish"]
      BY <1>7, CallAfter DEF ReadGuests, Goto
    <3>. QED
      BY <1>0, <3>1, CallFields
  <2>. QED
    BY <1>3, <2>1, <2>2, FitsCalm DEF LoneOut, Ended, GuestsOff, StatsOff
<1>8. CASE FindRecipient(c) /\ ~Fail(c)
  <2>1. f.op = o.op /\ f.alone = o.alone /\ f.pc \in {"allowed", "seen", "unseen"} /\ f.inv = recipient[c].invite /\ f.was = recipient[c].rsvp
    <3>1. f = [o EXCEPT !.inv = recipient[c].invite, !.was = recipient[c].rsvp, !.pc =
                 IF o.op = "rsvp" THEN "allowed" ELSE IF recipient[c].opened THEN "seen" ELSE "unseen"]
      BY <1>8, CallAfter DEF FindRecipient
    <3>2. PICK pc \in {"allowed", "seen", "unseen"} : f = [o EXCEPT !.inv = recipient[c].invite, !.was = recipient[c].rsvp, !.pc = pc]
      BY <3>1
    <3>. QED
      BY <1>0, <3>2, CallFields
  <2>. QED
    BY <1>1, <1>3, <2>1, FitsCalm DEF LoneOut, Ended, GuestsOff, StatsOff, Kept
<1>9. CASE ReadCard(c) /\ ~Fail(c)
  <2>1. o.op = "open" /\ o.pc \in {"seen", "unseen"}
    BY <1>0, <1>9 DEF ReadCard, CallShaped, Stages, NoCall, Ended
  <2>2. f.op = o.op /\ f.alone = o.alone /\ f.pc \in {"again", "open"} /\ f.inv = o.inv
    <3>1. f = [o EXCEPT !.pc = IF At(c, "seen") THEN "again" ELSE "open"]
      BY <1>9, CallAfter DEF ReadCard, Goto
    <3>. QED
      BY <1>0, <3>1, CallFields
  <2>3. recipient[c].invite = o.inv
    BY <2>1 DEF LoneFit, GuestOps
  <2>. QED
    BY <1>1, <1>3, <2>1, <2>2, <2>3, FitsCalm DEF LoneOut, Ended, GuestsOff, StatsOff, Kept
<1>10. CASE ReadAgain(c) /\ ~Fail(c)
  <2>1. f.pc = "ok"
    <3>1. f = [o EXCEPT !.pc = "ok"]
      BY <1>10, CallAfter DEF ReadAgain, Goto
    <3>. QED
      BY <1>0, <3>1, CallFields
  <2>. QED
    BY <1>3, <2>1 DEF LoneOut, Ended
<1>11. CASE RsvpAllowed(c) /\ ~Fail(c)
  <2>1. o.op = "rsvp" /\ o.pc = "allowed"
    BY <1>0, <1>11 DEF RsvpAllowed, At, CallShaped, Stages, NoCall, Ended
  <2>2. f.op = o.op /\ f.alone = o.alone /\ f.pc = "respond" /\ f.inv = o.inv /\ f.was = o.was
    <3>1. f = [o EXCEPT !.pc = "respond"]
      BY <1>11, CallAfter DEF RsvpAllowed, Goto
    <3>. QED
      BY <1>0, <3>1, CallFields
  <2>3. recipient[c].invite = o.inv /\ recipient[c].rsvp = o.was
    BY <2>1 DEF LoneFit, GuestOps
  <2>. QED
    BY <1>1, <1>3, <2>1, <2>2, <2>3, FitsCalm DEF LoneOut, Ended, GuestsOff, StatsOff, Kept
<1>. QED
  BY <1>4, <1>5, <1>6, <1>7, <1>8, <1>9, <1>10, <1>11

\* The steps on the card, its photo and its status.
LEMMA LoneCard ==
  ASSUME RecordShape, NEW c \in Callers, call[c].alone, LoneFit(c, call[c]),
         Publish(c) \/ StoreCard(c) \/ PhotoStep(c)
  PROVE  LoneOut(c)
<1>. DEFINE o == call[c]  f == call'[c]
<1>0. CallShaped(o) /\ o.pc \notin {"count", "counted", "tally", "tallied", "adjust", "adjusted", "erase"} /\ o.op \notin GuestOps
  BY DEF RecordShape, Publish, StoreCard, PhotoStep, At, CallShaped, Stages, GuestOps, Ended
<1>1. UNCHANGED <<recipient, drift>>
  BY DEF Publish, StoreCard, PhotoStep
<1>2. AllRight
  BY <1>0, RightNow DEF GuestsOff, StatsOff
<1>3. \A i \in Invites : invitation'[i].exists = invitation[i].exists /\ invitation'[i].counts = invitation[i].counts
  <2>1. invitation' = invitation \/ (\E row : /\ invitation' = [invitation EXCEPT ![o.inv] = row]
                                            /\ row.exists = invitation[o.inv].exists /\ row.counts = invitation[o.inv].counts)
    <3>1. o.inv \in Invites
      BY <1>0 DEF Publish, StoreCard, PhotoStep, At, CallShaped, Ended, NoCall, RecordShape
    <3>2. RowShaped(invitation[o.inv])
      BY <3>1 DEF RecordShape
    <3>3. CASE Publish(c)
      <4>. DEFINE row == [invitation[o.inv] EXCEPT !.status = "published"]
      <4>1. row.exists = invitation[o.inv].exists /\ row.counts = invitation[o.inv].counts
        BY <3>2 DEF RowShaped, NoInvitation
      <4>2. invitation' = invitation \/ invitation' = [invitation EXCEPT ![o.inv] = row]
        BY <3>3 DEF Publish, Update
      <4>. QED
        BY <4>1, <4>2
    <3>4. CASE StoreCard(c)
      <4>. DEFINE row == [invitation[o.inv] EXCEPT !.card = NewCard(c)]
      <4>1. row.exists = invitation[o.inv].exists /\ row.counts = invitation[o.inv].counts
        BY <3>2 DEF RowShaped, NoInvitation
      <4>2. invitation' = invitation \/ invitation' = [invitation EXCEPT ![o.inv] = row]
        BY <3>4 DEF StoreCard, Update
      <4>. QED
        BY <4>1, <4>2
    <3>. QED
      BY <3>3, <3>4 DEF PhotoStep
  <2>2. DOMAIN invitation = Invites
    BY DEF RecordShape
  <2>. QED
    BY <2>1, <2>2
<1>4. AllRight'
  BY <1>1, <1>2, <1>3, RightKept
<1>5. f.op = o.op /\ f.alone = o.alone /\ f.pc \in {"detail", "ok", "put", "merge"}
  <2>1. PICK pc \in {"detail", "ok", "put", "merge"} :
          f = [o EXCEPT !.pc = pc] \/ f = [o EXCEPT !.pc = pc, !.card = NoCard, !.old = NoCard]
    BY CallAfter DEF Publish, StoreCard, PhotoStep, Goto
  <2>2. CASE f = [o EXCEPT !.pc = pc]
    BY <1>0, <2>2, CallFields
  <2>3. CASE f = [o EXCEPT !.pc = pc, !.card = NoCard, !.old = NoCard]
    BY <1>0, <2>3, CallFields
  <2>. QED
    BY <2>1, <2>2, <2>3
<1>. QED
  BY <1>0, <1>4, <1>5, FitsCalm DEF LoneOut, Ended, GuestsOff, StatsOff

\* Whose stages these are.
LEMMA StageOps ==
  ASSUME NEW o, CallShaped(o)
  PROVE  /\ o.pc = "create" => o.op = "create"
         /\ o.pc = "copy" => o.op = "duplicate"
         /\ o.pc = "insert" => o.op \in {"add", "duplicate"}
         /\ o.pc = "delete" => o.op = "remove"
         /\ o.pc \in {"unlist", "erase"} => o.op = "drop"
         /\ o.pc \in {"count", "counted"} => o.op \in {"add", "remove", "duplicate"}
         /\ o.pc \in {"tally", "tallied"} => o.op \in {"remove", "open"}
         /\ o.pc \in {"guests", "publish"} => o.op = "publish"
         /\ o.pc \in {"find", "again", "seen", "unseen", "open", "allowed", "respond", "adjust", "adjusted"} => o.op \in GuestOps
         /\ o.pc \in {"seen", "unseen", "open", "again"} => o.op = "open"
         /\ o.pc \in {"allowed", "respond", "adjust", "adjusted"} => o.op = "rsvp"
         /\ o.pc \in {"purge", "put"} => o.op \in {"upload", "replace"}
         /\ o.pc = "put" => o.op = "upload"
         /\ o.pc = "merge" => o.op \in {"save", "upload", "replace"}
         /\ o.pc = "detail" => o.op \in {"save", "publish", "replace", "create", "duplicate", "detail"}
         /\ o.pc = "check" => o.op \in {"save", "add", "remove", "publish", "upload", "replace", "duplicate", "drop", "detail"}
         /\ o.pc = "idle" <=> o.op = "none"
<1>1. CASE o.op = "none"
  BY <1>1 DEF CallShaped, NoCall
<1>2. CASE o.op # "none"
  <2>1. o.pc \in Stages(o.op) \cup {"ok", "error"}
    BY <1>2 DEF CallShaped, Ended
  <2>. QED
    BY <1>2, <2>1 DEF Stages, GuestOps
<1>. QED
  BY <1>1, <1>2

\* A new card without guests has the right counts.
LEMMA RightNewRow ==
  ASSUME RecordShape, AllRight, NEW i \in Invites, NEW row, Recipients(i) = {}, row.exists, row.counts = NoCounts,
         invitation' = [invitation EXCEPT ![i] = row], UNCHANGED <<recipient, drift>>
  PROVE  AllRight'
<1>1. \A x \in Invites : Counted(x)' = Counted(x)
  BY DEF Counted, Recipients
<1>2. Counted(i).guests = 0 /\ Counted(i).opens = 0 /\ Counted(i).responses = [r \in Responses |-> 0]
  <2>1. {g \in Recipients(i) : recipient[g].opened} = {} /\ \A r : {g \in Recipients(i) : recipient[g].rsvp = r} = {}
    OBVIOUS
  <2>2. Cardinality({}) = 0
    BY FS_EmptySet
  <2>3. Counted(i) = [guests |-> 0, opens |-> 0, responses |-> [r \in Responses |-> 0]]
    BY <2>1, <2>2 DEF Counted
  <2>. QED
    BY <2>3
<1>3. invitation'[i] = row /\ \A x \in Invites \ {i} : invitation'[x] = invitation[x]
  BY DEF RecordShape
<1>. QED
  BY <1>1, <1>2, <1>3 DEF AllRight, GuestsRight, StatsRight, NoCounts

\* A lone handler that makes a card leaves the counts right.
LEMMA LoneCreates ==
  ASSUME RecordShape, NEW c \in Callers, call[c].alone, LoneFit(c, call[c]),
         CreateDraft(c) \/ InsertCopy(c)
  PROVE  LoneOut(c)
<1>. DEFINE o == call[c]  f == call'[c]
<1>0. CallShaped(o) /\ o.pc \in {"create", "copy"} /\ o.op \in {"create", "duplicate"}
  BY StageOps DEF RecordShape, CreateDraft, InsertCopy, At
<1>1. AllRight
  BY <1>0, RightNow DEF GuestsOff, StatsOff
<1>2. CASE CreateDraft(c)
  <2>. DEFINE row == [NoInvitation EXCEPT !.exists = TRUE]
  <2>1. PICK i \in Invites : FreshInvite(i) /\ invitation' = [invitation EXCEPT ![i] = row]
                             /\ With(c, [o EXCEPT !.inv = i, !.pc = "detail"])
    BY <1>2 DEF CreateDraft
  <2>2. row.exists /\ row.counts = NoCounts
    BY DEF NoInvitation
  <2>. HIDE DEF row
  <2>3. Recipients(i) = {}
    BY <2>1 DEF FreshInvite
  <2>4. AllRight'
    BY <1>1, <1>2, <2>1, <2>2, <2>3, RightNewRow DEF CreateDraft
  <2>5. f = [o EXCEPT !.inv = i, !.pc = "detail"]
    BY <2>1, CallAfter
  <2>6. f.op = o.op /\ f.alone = o.alone /\ f.pc = "detail"
    BY <1>0, <2>5, CallFields
  <2>. QED
    BY <1>0, <2>4, <2>6, FitsCalm DEF LoneOut, Ended, GuestsOff, StatsOff, GuestOps
<1>3. CASE InsertCopy(c)
  <2>. DEFINE row == [NoInvitation EXCEPT !.exists = TRUE, !.card = [o.old EXCEPT !.key = FALSE]]
              n == Cardinality(Recipients(o.inv))
              pc == IF n = 0 THEN "detail" ELSE "insert"
  <2>1. PICK i \in Invites : FreshInvite(i) /\ invitation' = [invitation EXCEPT ![i] = row]
                             /\ With(c, [o EXCEPT !.inv = i, !.todo = n, !.pc = pc])
    BY <1>3 DEF InsertCopy
  <2>2. row.exists /\ row.counts = NoCounts
    BY DEF NoInvitation
  <2>. HIDE DEF row
  <2>3. Recipients(i) = {}
    BY <2>1 DEF FreshInvite
  <2>4. AllRight'
    BY <1>1, <1>3, <2>1, <2>2, <2>3, RightNewRow DEF InsertCopy
  <2>5. f = [o EXCEPT !.inv = i, !.todo = n, !.pc = pc]
    BY <2>1, CallAfter
  <2>6. f.op = o.op /\ f.alone = o.alone /\ f.pc \in {"detail", "insert"}
    BY <1>0, <2>5, CallFields
  <2>. QED
    BY <1>0, <2>4, <2>6, FitsCalm DEF LoneOut, Ended, GuestsOff, StatsOff, GuestOps
<1>. QED
  BY <1>2, <1>3

\* The guests of one card change, whose counts are then counted again.
LEMMA LoneGuests ==
  ASSUME RecordShape, NEW c \in Callers, call[c].alone, LoneFit(c, call[c]),
         InsertRecipient(c, tab.list) \/ DeleteRecipient(c) \/ DeleteRecipients(c)
  PROVE  LoneOut(c)
<1>. DEFINE o == call[c]  f == call'[c]
<1>0. CallShaped(o) /\ o.pc \in {"insert", "delete", "unlist"} /\ o.op \in {"add", "duplicate", "remove", "drop"}
  BY StageOps DEF RecordShape, InsertRecipient, DeleteRecipient, DeleteRecipients, At
<1>1. AllRight
  BY <1>0, RightNow DEF GuestsOff, StatsOff
<1>2. UNCHANGED <<invitation, drift>>
  BY DEF InsertRecipient, DeleteRecipient, DeleteRecipients
<1>3. CASE InsertRecipient(c, tab.list)
  <2>1. PICK g \in Guests :
           /\ With(c, [o EXCEPT !.guest = g, !.pc = "count"])
           /\ \A i \in Invites :
                /\ Recipients(i)' = IF i = o.inv THEN Recipients(i) \cup {g} ELSE Recipients(i)
                /\ Counted(i)'.opens = Counted(i).opens /\ Counted(i)'.responses = Counted(i).responses
    BY <1>3, GuestInserted DEF With
  <2>2. f = [o EXCEPT !.guest = g, !.pc = "count"]
    BY <2>1, CallAfter
  <2>3. f.op = o.op /\ f.alone = o.alone /\ f.pc = "count" /\ f.inv = o.inv /\ o.op \in {"add", "duplicate"}
    BY <1>0, <1>3, <2>2 DEF CallShaped, NoCall, InsertRecipient, At, Stages, Ended
  <2>4. \A i \in Invites : i # o.inv => Counted(i)'.guests = Counted(i).guests
    BY <2>1 DEF Counted
  <2>5. LoneFit(c, call[c])'
    BY <1>1, <1>2, <2>1, <2>3, <2>4 DEF LoneFit, AllRight, GuestsRight, StatsRight, GuestsOff, StatsOff, GuestOps
  <2>. QED
    BY <2>3, <2>5 DEF LoneOut, Ended
<1>4. CASE DeleteRecipient(c)
  <2>1. f = [o EXCEPT !.pc = "count"]
    BY <1>4, CallAfter DEF DeleteRecipient, Goto
  <2>2. f.op = o.op /\ f.alone = o.alone /\ f.pc = "count" /\ f.inv = o.inv /\ o.op = "remove"
    BY <1>0, <1>4, <2>1 DEF CallShaped, NoCall, DeleteRecipient, At, Stages, Ended
  <2>3. \A i \in Invites : i # o.inv => Counted(i)' = Counted(i)
    BY <1>4, GuestDeleted
  <2>4. LoneFit(c, call[c])'
    BY <1>1, <1>2, <2>2, <2>3 DEF LoneFit, AllRight, GuestsRight, StatsRight, GuestsOff, StatsOff, GuestOps
  <2>. QED
    BY <2>2, <2>4 DEF LoneOut, Ended
<1>5. CASE DeleteRecipients(c)
  <2>1. f = [o EXCEPT !.pc = "erase"]
    BY <1>5, CallAfter DEF DeleteRecipients, Goto
  <2>2. f.op = o.op /\ f.alone = o.alone /\ f.pc = "erase" /\ f.inv = o.inv /\ o.op = "drop"
    BY <1>0, <1>5, <2>1 DEF CallShaped, NoCall, DeleteRecipients, At, Stages, Ended
  <2>3. \A i \in Invites : i # o.inv => Counted(i)' = Counted(i)
    BY <1>5, GuestsDeleted
  <2>4. LoneFit(c, call[c])'
    BY <1>1, <1>2, <2>2, <2>3 DEF LoneFit, AllRight, GuestsRight, StatsRight, GuestsOff, StatsOff, GuestOps
  <2>. QED
    BY <2>2, <2>4 DEF LoneOut, Ended
<1>. QED
  BY <1>3, <1>4, <1>5

\* A lone handler that deletes a card or its guests leaves the other cards'
\* counts right.
LEMMA LoneErases ==
  ASSUME RecordShape, NEW c \in Callers, call[c].alone, LoneFit(c, call[c]), DeleteInvitation(c)
  PROVE  LoneOut(c)
<1>. DEFINE o == call[c]  f == call'[c]
<1>0. CallShaped(o) /\ o.pc = "erase"
  BY DEF RecordShape, DeleteInvitation, At
<1>1. f.pc = "ok"
  <2>1. f = [o EXCEPT !.pc = "ok"]
    BY CallAfter DEF DeleteInvitation, Goto
  <2>. QED
    BY <1>0, <2>1, CallFields
<1>2. /\ ~invitation'[o.inv].exists \/ o.inv \notin Invites
      /\ \A i \in Invites \ {o.inv} : invitation'[i] = invitation[i]
  BY DEF DeleteInvitation, RecordShape, NoInvitation
<1>3. \A i \in Invites : Counted(i)' = Counted(i)
  BY DEF DeleteInvitation, Counted, Recipients
<1>4. \A i \in Invites \ {o.inv} : \A what : <<i, what>> \in drift <=> <<i, what>> \in drift'
  BY DEF DeleteInvitation
<1>5. AllRight'
  BY <1>0, <1>2, <1>3, <1>4 DEF AllRight, LoneFit, GuestsRight, StatsRight
<1>. QED
  BY <1>1, <1>5 DEF LoneOut, Ended

\* What a lone handler counts is what the rows say.
LEMMA LoneCounts ==
  ASSUME RecordShape, NEW c \in Callers, call[c].alone, LoneFit(c, call[c]),
         CountRecipients(c) \/ TallyStats(c)
  PROVE  LoneOut(c)
<1>. DEFINE o == call[c]  f == call'[c]
<1>0. CallShaped(o) /\ o.pc \in {"count", "tally"}
  BY DEF RecordShape, CountRecipients, TallyStats, At
<1>1. UNCHANGED Kept /\ \A i : Counted(i)' = Counted(i)
  BY DEF CountRecipients, TallyStats, Kept, Counted, Recipients
<1>2. CASE CountRecipients(c)
  <2>1. f = [o EXCEPT !.seen = Counted(o.inv), !.pc = "counted"]
    BY <1>2, CallAfter DEF CountRecipients
  <2>2. f.op = o.op /\ f.alone = o.alone /\ f.pc = "counted" /\ f.inv = o.inv /\ f.seen = Counted(o.inv)
    BY <1>0, <2>1, CallFields
  <2>3. o.op \in {"add", "remove", "duplicate"} /\ o.pc = "count"
    BY <1>0, <1>2, StageOps DEF CountRecipients, At
  <2>4. LoneFit(c, call[c])'
    BY <1>1, <2>2, <2>3 DEF LoneFit, GuestsRight, StatsRight, GuestsOff, StatsOff, GuestOps, Kept
  <2>. QED
    BY <2>2, <2>4 DEF LoneOut, Ended
<1>3. CASE TallyStats(c)
  <2>1. f = [o EXCEPT !.seen = Counted(o.inv), !.pc = "tallied"]
    BY <1>3, CallAfter DEF TallyStats
  <2>2. f.op = o.op /\ f.alone = o.alone /\ f.pc = "tallied" /\ f.inv = o.inv /\ f.seen = Counted(o.inv)
    BY <1>0, <2>1, CallFields
  <2>3. o.op \in {"remove", "open"} /\ o.pc = "tally"
    BY <1>0, <1>3, StageOps DEF TallyStats, At
  <2>4. LoneFit(c, call[c])'
    BY <1>1, <2>2, <2>3 DEF LoneFit, GuestsRight, StatsRight, GuestsOff, StatsOff, GuestOps, Kept
  <2>. QED
    BY <2>2, <2>4 DEF LoneOut, Ended
<1>. QED
  BY <1>2, <1>3

\* What a lone handler counted, and stores, puts the counts right.
LEMMA LoneStores ==
  ASSUME RecordShape, NEW c \in Callers, call[c].alone, LoneFit(c, call[c]),
         StoreCount(c) \/ StoreStats(c)
  PROVE  LoneOut(c)
<1>. DEFINE o == call[c]  f == call'[c]
<1>0. CallShaped(o) /\ o.pc \in {"counted", "tallied"} /\ o.inv \in Invites
  BY StageOps DEF RecordShape, StoreCount, StoreStats, At, CallShaped, Ended
<1>1. UNCHANGED recipient /\ \A i : Counted(i)' = Counted(i)
  BY DEF StoreCount, StoreStats, Counted, Recipients
<1>2. RowShaped(invitation[o.inv]) /\ DOMAIN invitation = Invites
  BY <1>0 DEF RecordShape
<1>3. CASE StoreCount(c)
  <2>. DEFINE row == [invitation[o.inv] EXCEPT !.counts.guests = o.seen.guests]
  <2>1. f = [o EXCEPT !.pc = AfterCount(c), !.seen = NoCounts, !.todo = IF @ > 0 THEN @ - 1 ELSE 0]
    BY <1>3, CallAfter DEF StoreCount
  <2>2. f.op = o.op /\ f.alone = o.alone /\ f.pc = AfterCount(c) /\ f.inv = o.inv
    BY <1>0, <2>1, CallFields
  <2>3. o.op \in {"add", "remove", "duplicate"} /\ o.pc = "counted"
    BY <1>0, <1>3, StageOps DEF StoreCount, At
  <2>4. drift' = drift \ {<<o.inv, "guests">>}
    BY <1>3 DEF StoreCount, Settled
  <2>5. row.exists = invitation[o.inv].exists /\ row.counts.guests = o.seen.guests
        /\ row.counts.opens = invitation[o.inv].counts.opens /\ row.counts.responses = invitation[o.inv].counts.responses
    BY <1>2 DEF RowShaped, NoInvitation, NoCounts
  <2>. HIDE DEF row
  <2>6. /\ \A i \in Invites \ {o.inv} : invitation'[i] = invitation[i]
        /\ invitation'[o.inv].exists = invitation[o.inv].exists
        /\ invitation[o.inv].exists => invitation'[o.inv] = row
    BY <1>0, <1>2, <1>3 DEF StoreCount, Update, row
  <2>7. o.seen.guests = Counted(o.inv).guests
    BY <2>3 DEF LoneFit
  <2>8. \A i \in Invites : invitation'[i].exists => GuestsRight(i)'
    <3>. TAKE i \in Invites
    <3>1. CASE i = o.inv
      BY <1>0, <1>1, <2>5, <2>6, <2>7, <3>1 DEF GuestsRight
    <3>2. CASE i # o.inv
      BY <1>1, <2>3, <2>4, <2>6, <3>2 DEF GuestsRight, LoneFit
    <3>. QED
      BY <3>1, <3>2
  <2>9. \A i \in Invites : invitation'[i].exists => StatsRight(i)' \/ (o.op = "remove" /\ o.inv = i)
    <3>. TAKE i \in Invites
    <3>1. CASE i = o.inv
      BY <1>0, <1>1, <2>3, <2>4, <2>5, <2>6, <3>1 DEF StatsRight, StatsOff, LoneFit
    <3>2. CASE i # o.inv
      BY <1>1, <2>3, <2>4, <2>6, <3>2 DEF StatsRight, StatsOff, LoneFit
    <3>. QED
      BY <3>1, <3>2
  <2>10. CASE o.op = "remove"
    <3>1. f.pc = "tally"
      BY <2>2, <2>10 DEF AfterCount
    <3>2. LoneFit(c, call[c])'
      BY <2>2, <2>8, <2>9, <2>10, <3>1 DEF LoneFit, StatsOff, GuestOps
    <3>. QED
      BY <2>2, <3>1, <3>2 DEF LoneOut, Ended
  <2>11. CASE o.op # "remove"
    <3>1. AllRight'
      BY <2>8, <2>9, <2>11 DEF AllRight
    <3>2. f.pc \in {"detail", "insert", "ok"}
      BY <2>2, <2>3, <2>11 DEF AfterCount
    <3>. QED
      BY <2>2, <2>3, <3>1, <3>2, FitsCalm DEF LoneOut, Ended, GuestsOff, StatsOff, GuestOps
  <2>. QED
    BY <2>10, <2>11
<1>4. CASE StoreStats(c)
  <2>. DEFINE row == [invitation[o.inv] EXCEPT !.counts = [o.seen EXCEPT !.guests = invitation[o.inv].counts.guests]]
              pc == IF o.op = "remove" THEN "ok" ELSE "again"
  <2>1. f = [o EXCEPT !.pc = pc, !.seen = NoCounts]
    BY <1>4, CallAfter DEF StoreStats
  <2>2. f.op = o.op /\ f.alone = o.alone /\ f.pc = pc /\ f.inv = o.inv
    <3>. HIDE DEF pc, row
    <3>. QED
      BY <1>0, <2>1, CallFields
  <2>3. o.op \in {"remove", "open"} /\ o.pc = "tallied"
    BY <1>0, <1>4, StageOps DEF StoreStats, At
  <2>4. drift' = drift \ {<<o.inv, "stats">>}
    BY <1>4 DEF StoreStats, Settled
  <2>5. row.exists = invitation[o.inv].exists /\ row.counts.guests = invitation[o.inv].counts.guests
        /\ row.counts.opens = o.seen.opens /\ row.counts.responses = o.seen.responses
    BY <1>0, <1>2 DEF RowShaped, NoInvitation, NoCounts, CallShaped
  <2>. HIDE DEF row
  <2>6. /\ \A i \in Invites \ {o.inv} : invitation'[i] = invitation[i]
        /\ invitation'[o.inv].exists = invitation[o.inv].exists
        /\ invitation[o.inv].exists => invitation'[o.inv] = row
    BY <1>0, <1>2, <1>4 DEF StoreStats, Update, row
  <2>7. o.seen = Counted(o.inv)
    BY <2>3 DEF LoneFit
  <2>8. \A i \in Invites : invitation'[i].exists => GuestsRight(i)'
    <3>. TAKE i \in Invites
    <3>1. CASE i = o.inv
      BY <1>0, <1>1, <2>3, <2>4, <2>5, <2>6, <3>1 DEF GuestsRight, GuestsOff, LoneFit
    <3>2. CASE i # o.inv
      BY <1>1, <2>3, <2>4, <2>6, <3>2 DEF GuestsRight, GuestsOff, LoneFit
    <3>. QED
      BY <3>1, <3>2
  <2>9. \A i \in Invites : invitation'[i].exists => StatsRight(i)'
    <3>. TAKE i \in Invites
    <3>1. CASE i = o.inv
      BY <1>0, <1>1, <2>5, <2>6, <2>7, <3>1 DEF StatsRight
    <3>2. CASE i # o.inv
      BY <1>1, <2>3, <2>4, <2>6, <3>2 DEF StatsRight, StatsOff, LoneFit
    <3>. QED
      BY <3>1, <3>2
  <2>10. AllRight'
    BY <2>8, <2>9 DEF AllRight
  <2>. QED
    BY <2>2, <2>3, <2>10, FitsCalm DEF LoneOut, Ended, GuestsOff, StatsOff, GuestOps
<1>. QED
  BY <1>3, <1>4

\* A lone opening makes the counts wrong until it has counted again.
LEMMA LoneOpens ==
  ASSUME RecordShape, NEW c \in Callers, call[c].alone, LoneFit(c, call[c]), SetOpened(c)
  PROVE  LoneOut(c)
<1>. DEFINE o == call[c]  f == call'[c]
            row == [recipient[c] EXCEPT !.opened = TRUE]
<1>0. CallShaped(o) /\ o.pc = "open" /\ o.op = "open" /\ o.inv \in Invites
  BY StageOps DEF RecordShape, SetOpened, At, CallShaped, Ended
<1>1. recipient[c].invite = o.inv
  BY <1>0 DEF LoneFit, GuestOps
<1>2. c \in Guests /\ DOMAIN recipient = Guests /\ DOMAIN recipient[c] = DOMAIN NoRecipient
  <2>1. c \in Guests
    BY <1>0 DEF RecordShape, Callers, GuestOps
  <2>. QED
    BY <2>1 DEF RecordShape
<1>3. f.op = o.op /\ f.alone = o.alone /\ f.pc = "tally" /\ f.inv = o.inv
  <2>1. f = [o EXCEPT !.pc = "tally"]
    BY CallAfter DEF SetOpened, Goto
  <2>. QED
    BY <1>0, <2>1, CallFields
<1>4. row.invite = recipient[c].invite /\ row.rsvp = recipient[c].rsvp
  BY <1>2 DEF NoRecipient
<1>5. /\ \A g \in Guests \ {c} : recipient'[g] = recipient[g]
      /\ recipient'[c].invite = recipient[c].invite
  BY <1>2, <1>4 DEF SetOpened, UpdateRecipient
<1>6. \A i : Recipients(i)' = Recipients(i)
  BY <1>5 DEF Recipients
<1>7. ASSUME NEW i, i # o.inv PROVE Counted(i)' = Counted(i)
  <2>1. \A g \in Recipients(i) : recipient'[g] = recipient[g]
    BY <1>1, <1>5, <1>7 DEF Recipients
  <2>. QED
    BY <1>6, <2>1 DEF Counted
<1>8. \A i : Counted(i)'.guests = Counted(i).guests
  BY <1>6 DEF Counted
<1>9. AllRight /\ UNCHANGED <<invitation, drift>>
  BY <1>0, RightNow DEF GuestsOff, StatsOff, SetOpened
<1>10. LoneFit(c, call[c])'
  BY <1>0, <1>1, <1>3, <1>5, <1>7, <1>8, <1>9 DEF LoneFit, AllRight, GuestsRight, StatsRight, GuestsOff, StatsOff, GuestOps
<1>. QED
  BY <1>3, <1>10 DEF LoneOut, Ended

\* A lone answer makes the counts wrong by one answer, until it is adjusted.
LEMMA LoneResponds ==
  ASSUME RecordShape, NEW c \in Callers, call[c].alone, LoneFit(c, call[c]), StoreRsvp(c)
  PROVE  LoneOut(c)
<1>. DEFINE o == call[c]  f == call'[c]
            row == [recipient[c] EXCEPT !.rsvp = o.rsvp]
<1>0. CallShaped(o) /\ o.pc = "respond" /\ o.op = "rsvp" /\ o.inv \in Invites
  BY StageOps DEF RecordShape, StoreRsvp, At, CallShaped, Ended
<1>1. recipient[c].invite = o.inv /\ recipient[c].rsvp = o.was
  BY <1>0 DEF LoneFit, GuestOps
<1>2. c \in Guests /\ DOMAIN recipient = Guests /\ DOMAIN recipient[c] = DOMAIN NoRecipient /\ recipient[c].invite # None
  <2>1. c \in Guests
    BY <1>0 DEF RecordShape, Callers, GuestOps
  <2>. QED
    BY <1>0, <1>1, <2>1, InvitationRecordsAssumption DEF RecordShape
<1>3. f.op = o.op /\ f.alone = o.alone /\ f.pc = "adjust" /\ f.inv = o.inv /\ f.was = o.was /\ f.rsvp = o.rsvp
  <2>1. f = [o EXCEPT !.pc = "adjust"]
    BY CallAfter DEF StoreRsvp, Goto
  <2>2. DOMAIN o = {"op", "pc", "then", "inv", "guest", "rsvp", "was", "card", "old", "seen", "todo", "list", "alone"}
    BY <1>0, CallFields
  <2>. HIDE DEF o, row
  <2>. QED
    BY <2>1, <2>2
<1>4. row.invite = recipient[c].invite /\ row.opened = recipient[c].opened /\ row.rsvp = o.rsvp
  BY <1>2 DEF NoRecipient
<1>5. /\ \A g \in Guests \ {c} : recipient'[g] = recipient[g]
      /\ recipient'[c] = row
  BY <1>2 DEF StoreRsvp, UpdateRecipient
<1>. HIDE DEF row
<1>6. \A i : Recipients(i)' = Recipients(i)
  BY <1>4, <1>5 DEF Recipients
<1>7. ASSUME NEW i, i # o.inv PROVE Counted(i)' = Counted(i)
  <2>1. \A g \in Recipients(i) : recipient'[g] = recipient[g]
    BY <1>1, <1>5, <1>7 DEF Recipients
  <2>. QED
    BY <1>6, <2>1 DEF Counted
<1>8. \A i : Counted(i)'.guests = Counted(i).guests /\ Counted(i)'.opens = Counted(i).opens
  <2>1. \A i : {g \in Recipients(i) : recipient'[g].opened} = {g \in Recipients(i) : recipient[g].opened}
    BY <1>4, <1>5 DEF Recipients
  <2>. QED
    BY <1>6, <2>1 DEF Counted
<1>9. AllRight /\ UNCHANGED <<invitation, drift>>
  BY <1>0, RightNow DEF GuestsOff, StatsOff, StoreRsvp
<1>10. ASSUME NEW i \in Invites, i = o.inv
       PROVE  Adjusted(Counted(i).responses, o.was, o.rsvp) = Counted(i)'.responses
  <2>1. ASSUME NEW r \in Responses
        PROVE  LET sum == Counted(i).responses[r] + (IF r = o.rsvp THEN 1 ELSE 0) - (IF r = o.was THEN 1 ELSE 0)
               IN  Counted(i)'.responses[r] = IF sum < 0 THEN 0 ELSE sum
    <3>. DEFINE A == {g \in Recipients(i) : recipient[g].rsvp = r}
                B == {g \in Recipients(i) : recipient'[g].rsvp = r}
    <3>1. Counted(i).responses[r] = Cardinality(A)
      BY DEF Counted
    <3>2. Counted(i)'.responses[r] = Cardinality(B)
      BY <1>6 DEF Counted
    <3>3. c \in Recipients(i)
      BY <1>1, <1>2, <1>10 DEF Recipients
    <3>4. B = IF r = o.rsvp THEN A \cup {c} ELSE A \ {c}
      BY <1>4, <1>5, <3>3 DEF Recipients
    <3>5. c \in A <=> r = o.was
      BY <1>1, <3>3
    <3>6. IsFiniteSet(A)
      BY FS_Subset DEF RecordShape
    <3>. HIDE DEF A, B
    <3>7. /\ Cardinality(A \cup {c}) = IF c \in A THEN Cardinality(A) ELSE Cardinality(A) + 1
          /\ Cardinality(A \ {c}) = IF c \in A THEN Cardinality(A) - 1 ELSE Cardinality(A)
      BY <3>6, FS_AddElement, FS_RemoveElement
    <3>8. Cardinality(A) \in Nat /\ Cardinality(A \ {c}) \in Nat
      BY <3>6, FS_RemoveElement, FS_CardinalityType
    <3>9. CASE r = o.rsvp
      BY <3>1, <3>2, <3>4, <3>5, <3>7, <3>8, <3>9
    <3>10. CASE r # o.rsvp
      BY <3>1, <3>2, <3>4, <3>5, <3>7, <3>8, <3>10
    <3>. QED
      BY <3>9, <3>10
  <2>2. Counted(i)'.responses = [r \in Responses |-> Counted(i)'.responses[r]]
    BY DEF Counted
  <2>. QED
    BY <2>1, <2>2 DEF Adjusted
<1>11. ASSUME NEW i \in Invites, invitation[i].exists
       PROVE  /\ GuestsRight(i)'
              /\ i # o.inv => StatsRight(i)'
              /\ i = o.inv => Adjusting(i, call[c])'
  <2>1. GuestsRight(i)'
    BY <1>8, <1>9, <1>11 DEF AllRight, GuestsRight
  <2>2. i # o.inv => StatsRight(i)'
    BY <1>7, <1>9, <1>11 DEF AllRight, StatsRight
  <2>3. i = o.inv => Adjusting(i, call[c])'
    BY <1>3, <1>8, <1>9, <1>10, <1>11 DEF AllRight, StatsRight, Adjusting
  <2>. QED
    BY <2>1, <2>2, <2>3
<1>12. LoneFit(c, call[c])'
  BY <1>1, <1>3, <1>0, <1>4, <1>5, <1>9, <1>11 DEF LoneFit, GuestsOff, StatsOff, GuestOps
<1>. QED
  BY <1>3, <1>12 DEF LoneOut, Ended

\* After an answer its handler goes on as one that opens the link.
LEMMA RereadFields ==
  ASSUME NEW c
  PROVE  Reread(c).op = "open" /\ Reread(c).pc = "find" /\ Reread(c).alone = call[c].alone
  BY DEF Reread, NoCall

\* adjustRsvpCounts by a lone handler: the counts it read, with the answer
\* before taken back and the new one added, are those of the rows.
LEMMA LoneAdjusts ==
  ASSUME RecordShape, NEW c \in Callers, call[c].alone, LoneFit(c, call[c]), ReadCounts(c) \/ StoreCounts(c)
  PROVE  LoneOut(c)
<1>. DEFINE o == call[c]  f == call'[c]
<1>0. CallShaped(o) /\ o.pc \in {"adjust", "adjusted"} /\ o.op = "rsvp" /\ o.inv \in Invites
  BY StageOps DEF RecordShape, ReadCounts, StoreCounts, At, CallShaped, Ended
<1>1. UNCHANGED <<recipient, drift>> /\ \A i : Counted(i)' = Counted(i)
  BY DEF ReadCounts, StoreCounts, Kept, Counted, Recipients
<1>2. RowShaped(invitation[o.inv]) /\ DOMAIN invitation = Invites
  BY <1>0 DEF RecordShape
<1>3. CASE ReadCounts(c) /\ invitation[o.inv].exists
  <2>1. f = [o EXCEPT !.pc = "adjusted", !.seen = invitation[o.inv].counts]
    BY <1>3, CallAfter DEF ReadCounts
  <2>2. f.op = o.op /\ f.alone = o.alone /\ f.pc = "adjusted" /\ f.inv = o.inv /\ f.was = o.was /\ f.rsvp = o.rsvp
        /\ f.seen = invitation[o.inv].counts
    <3>1. DOMAIN o = DOMAIN NoCall
      BY <1>0 DEF CallShaped
    <3>. QED
      BY <2>1, <3>1 DEF NoCall
  <2>3. invitation' = invitation /\ o.pc = "adjust"
    BY <1>3 DEF ReadCounts, Kept, At
  <2>4. LoneFit(c, call[c])'
    BY <1>0, <1>1, <2>2, <2>3 DEF LoneFit, GuestsRight, StatsRight, Adjusting, GuestsOff, StatsOff, GuestOps
  <2>. QED
    BY <2>2, <2>4 DEF LoneOut, Ended
<1>4. CASE ReadCounts(c) /\ ~invitation[o.inv].exists
  <2>1. f = Reread(c)
    BY <1>4, CallAfter DEF ReadCounts
  <2>2. invitation' = invitation /\ o.pc = "adjust"
    BY <1>4 DEF ReadCounts, Kept, At
  <2>3. AllRight'
    BY <1>0, <1>1, <1>4, <2>2 DEF LoneFit, AllRight, GuestsRight, StatsRight, GuestsOff, StatsOff
  <2>. QED
    BY <2>1, <2>3, RereadFields, FitsCalm DEF LoneOut, Ended, GuestsOff, StatsOff, GuestOps
<1>5. CASE StoreCounts(c)
  <2>. DEFINE row == [invitation[o.inv] EXCEPT !.counts.responses = Adjusted(o.seen.responses, o.was, o.rsvp)]
  <2>1. f = Reread(c)
    BY <1>5, CallAfter DEF StoreCounts
  <2>2. o.pc = "adjusted"
    BY <1>5 DEF StoreCounts, At
  <2>3. row.exists = invitation[o.inv].exists /\ row.counts.guests = invitation[o.inv].counts.guests
        /\ row.counts.opens = invitation[o.inv].counts.opens /\ row.counts.responses = Adjusted(o.seen.responses, o.was, o.rsvp)
    BY <1>2 DEF RowShaped, NoInvitation, NoCounts
  <2>. HIDE DEF row
  <2>4. /\ \A i \in Invites \ {o.inv} : invitation'[i] = invitation[i]
        /\ invitation'[o.inv].exists = invitation[o.inv].exists
        /\ invitation[o.inv].exists => invitation'[o.inv] = row
    BY <1>0, <1>2, <1>5, <2>3 DEF StoreCounts, Update, row
  <2>5. \A i \in Invites : invitation'[i].exists => GuestsRight(i)'
    BY <1>0, <1>1, <2>2, <2>3, <2>4 DEF LoneFit, GuestsRight, GuestsOff
  <2>6. \A i \in Invites : invitation'[i].exists => StatsRight(i)'
    <3>. TAKE i \in Invites
    <3>1. CASE i = o.inv
      BY <1>0, <1>1, <2>2, <2>3, <2>4, <3>1 DEF StatsRight, Adjusting, LoneFit
    <3>2. CASE i # o.inv
      BY <1>0, <1>1, <2>2, <2>4, <3>2 DEF StatsRight, StatsOff, LoneFit
    <3>. QED
      BY <3>1, <3>2
  <2>7. AllRight'
    BY <2>5, <2>6 DEF AllRight
  <2>. QED
    BY <2>1, <2>7, RereadFields, FitsCalm DEF LoneOut, Ended, GuestsOff, StatsOff, GuestOps
<1>. QED
  BY <1>3, <1>4, <1>5

\* A lone handler that breaks off marks the counts it may have left wrong.
LEMMA LoneFails ==
  ASSUME RecordShape, NEW c \in Callers, c \in Running, call[c].alone, LoneFit(c, call[c]), CallFails(c)
  PROVE  LoneOut(c)
<1>. DEFINE o == call[c]  f == call'[c]
<1>0. CallShaped(o) /\ o.pc \notin {"ok"}
  BY DEF RecordShape, Running, Ended
<1>1. f.pc = "error"
  <2>1. f = [NoCall EXCEPT !.pc = "error", !.op = o.op, !.then = o.then]
    BY CallAfter DEF CallFails, Fail
  <2>. QED
    BY <2>1 DEF NoCall
<1>2. AllRight'
  <2>1. CASE o.op \in Counting
    <3>1. drift' = AllCounts
      BY <1>0, <2>1 DEF CallFails, At
    <3>. QED
      BY <3>1 DEF AllRight, GuestsRight, StatsRight, AllCounts
  <2>2. CASE o.op \notin Counting
    <3>1. UNCHANGED <<recipient, invitation, drift>>
      BY <2>2 DEF CallFails
    <3>2. o.pc # "erase"
      BY <1>0, <2>2, StageOps DEF Counting
    <3>3. AllRight
      BY <2>2, <3>2, RightNow DEF GuestsOff, StatsOff, Counting
    <3>. QED
      BY <3>1, <3>3, RightKept
  <2>. QED
    BY <2>1, <2>2
<1>. QED
  BY <1>1, <1>2 DEF LoneOut, Ended

\* A handler that is alone leaves the counts right where it is not half done.
LEMMA LoneStep ==
  ASSUME RecordShape, NEW c \in Callers, c \in Running, call[c].alone, LoneFit(c, call[c]), RecordStep(c, tab.list)
  PROVE  LoneOut(c)
  BY LoneReads, LoneCard, LoneCreates, LoneGuests, LoneErases, LoneCounts, LoneStores, LoneOpens, LoneResponds,
     LoneAdjusts, LoneFails DEF RecordStep

\* Of a handler that overlaps another the counts of every card stay given up.
LEMMA CrowdStep ==
  ASSUME RecordShape, NEW c \in Callers, AllDrift, c = Owner => AllCounts \subseteq drift,
         ~call[c].alone, RecordStep(c, tab.list)
  PROVE  /\ AllDrift'
         /\ AllCounts \subseteq drift => AllCounts \subseteq drift' \/ (c = Owner /\ call'[c].pc = "ok")
<1>. DEFINE o == call[c]  f == call'[c]
<1>0. CallShaped(o) /\ (o.op # "none" => (o.op \in GuestOps <=> c # Owner))
  BY DEF RecordShape
<1>1. CASE DeleteInvitation(c)
  <2>1. f = [o EXCEPT !.pc = "ok"]
    BY <1>1, CallAfter DEF DeleteInvitation, Goto
  <2>2. f.pc = "ok"
    BY <1>0, <2>1, CallFields
  <2>3. /\ ~invitation'[o.inv].exists \/ o.inv \notin Invites
        /\ \A i \in Invites \ {o.inv} : invitation'[i] = invitation[i]
    BY <1>1 DEF DeleteInvitation, RecordShape, NoInvitation
  <2>4. AllDrift'
    BY <1>1, <2>3 DEF AllDrift, DeleteInvitation
  <2>5. c = Owner
    BY <1>0, <1>1, StageOps DEF DeleteInvitation, At, GuestOps
  <2>. QED
    BY <2>2, <2>4, <2>5
<1>2. CASE ~DeleteInvitation(c)
  <2>1. drift \subseteq drift' \/ drift' = AllCounts
    BY <1>2 DEF RecordStep, Kept, GetOwnedInvitation, GetDetail, CreateDraft, InsertRecipient, DeleteRecipient,
                CountRecipients, StoreCount, Settled, TallyStats, StoreStats, ReadGuests, Publish, InsertCopy,
                DeleteRecipients, FindRecipient, ReadCard, SetOpened, ReadAgain, RsvpAllowed, StoreRsvp, ReadCounts,
                StoreCounts, StoreCard, PhotoStep, CallFails
  <2>2. drift' = AllCounts => AllDrift'
    BY DEF AllDrift, AllCounts
  <2>3. CASE CreateDraft(c) \/ InsertCopy(c)
    <3>1. c = Owner
      BY <1>0, <2>3, StageOps DEF CreateDraft, InsertCopy, At, GuestOps
    <3>. QED
      BY <2>1, <2>2, <3>1 DEF AllDrift, AllCounts
  <2>4. CASE ~CreateDraft(c) /\ ~InsertCopy(c)
    <3>1. \A i \in Invites : invitation'[i].exists => invitation[i].exists
      <4>1. \/ invitation' = invitation
            \/ StoreCount(c) \/ StoreStats(c) \/ Publish(c) \/ StoreCounts(c) \/ StoreCard(c)
        BY <1>2, <2>4 DEF RecordStep, Kept, GetOwnedInvitation, GetDetail, InsertRecipient, DeleteRecipient, CountRecipients,
           TallyStats, ReadGuests, DeleteRecipients, FindRecipient, ReadCard, SetOpened, ReadAgain, RsvpAllowed,
           StoreRsvp, ReadCounts, PhotoStep, CallFails
      <4>2. \/ invitation' = invitation
            \/ invitation[o.inv].exists /\ \E row : invitation' = [invitation EXCEPT ![o.inv] = row]
        BY <4>1 DEF StoreCount, StoreStats, Publish, StoreCounts, StoreCard, Update
      <4>. QED
        BY <4>2 DEF RecordShape
    <3>2. drift' = AllCounts \/ AllDrift'
      BY <2>1, <3>1 DEF AllDrift
    <3>. QED
      BY <2>1, <2>2, <3>2
  <2>. QED
    BY <2>3, <2>4
<1>. QED
  BY <1>1, <1>2

\* A step ends at most the handler that takes it.
LEMMA RunningAfter ==
  ASSUME RecordShape, NEW c \in Callers, RecordStep(c, tab.list)
  PROVE  \A x \in Callers : x \in Running' <=> IF x = c THEN call'[c].pc \notin Ended ELSE x \in Running
<1>1. PICK f : call' = [call EXCEPT ![c] = f] /\ CallShaped(f) /\ f.op # "none"
  BY CallStep
<1>2. With(c, f)
  BY <1>1 DEF With
<1>3. call'[c] = f /\ \A x \in Callers \ {c} : call'[x] = call[x]
  BY <1>2, CallAfter
<1>4. f.pc # "idle"
  BY <1>1, StageOps
<1>. QED
  BY <1>3, <1>4 DEF Running, Ended

\* Every step of a handler keeps the invariant of the counts.
LEMMA CountsStep ==
  ASSUME RecordShape, CountsInv, NEW c \in Callers, RecordStep(c, tab.list)
  PROVE  CountsInv'
<1>1. \A x \in Callers \ {c} : call'[x] = call[x]
  <2>1. PICK f : call' = [call EXCEPT ![c] = f]
    BY CallStep
  <2>. QED
    BY <2>1, CallAfter DEF With
<1>2. \A x \in Callers : x \in Running' <=> IF x = c THEN call'[c].pc \notin Ended ELSE x \in Running
  BY RunningAfter
<1>3. Running \subseteq Callers /\ Running' \subseteq Callers
  BY DEF Running
<1>4. call[c].pc # "idle"
  <2>1. call[c].op # "none" /\ CallShaped(call[c])
    BY CallStep DEF RecordShape
  <2>. QED
    BY <2>1, StageOps
<1>5. CASE c \notin Running
  <2>1. call[c].pc \in Ended
    BY <1>4, <1>5 DEF Running
  <2>2. CallFails(c) /\ call[c].pc = "ok"
    BY <2>1 DEF RecordStep, Ended, At, GetOwnedInvitation, GetDetail, CreateDraft, InsertRecipient, DeleteRecipient, CountRecipients,
           StoreCount, StoreStats, Publish, InsertCopy, DeleteInvitation, StoreCounts, StoreCard,
           TallyStats, ReadGuests, DeleteRecipients, FindRecipient, ReadCard, SetOpened, ReadAgain, RsvpAllowed,
           StoreRsvp, ReadCounts, PhotoStep, CallFails
  <2>3. UNCHANGED <<invitation, recipient, drift>>
    BY <2>2 DEF CallFails, At
  <2>4. call'[c].pc = "error"
    <3>1. call'[c] = [NoCall EXCEPT !.pc = "error", !.op = call[c].op, !.then = call[c].then]
      BY <2>2, CallAfter DEF CallFails, Fail
    <3>. QED
      BY <3>1 DEF NoCall
  <2>5. Running' = Running
    BY <1>2, <1>3, <1>5, <2>4 DEF Ended
  <2>6. \A i : Counted(i)' = Counted(i)
    BY <2>3 DEF Counted, Recipients
  <2>7. \A x \in Running : call'[x] = call[x] /\ (LoneFit(x, call[x]) => LoneFit(x, call[x])')
    <3>. TAKE x \in Running
    <3>1. call'[x] = call[x]
      BY <1>1, <1>3, <1>5
    <3>. QED
      BY <2>3, <2>6, <3>1 DEF LoneFit, GuestsRight, StatsRight, Adjusting
  <2>8. CountsAreRight'
    BY <2>3, <2>5, <2>6 DEF CountsAreRight, CountsInv
  <2>. QED
    BY <2>3, <2>5, <2>7, <2>8 DEF CountsInv, AllDrift
<1>6. CASE c \in Running /\ call[c].alone
  <2>1. Running = {c} /\ LoneFit(c, call[c])
    BY <1>6 DEF CountsInv
  <2>2. LoneOut(c)
    BY <1>6, <2>1, LoneStep
  <2>3. CASE call'[c].pc \in Ended
    <3>1. Running' = {}
      BY <1>2, <1>3, <2>1, <2>3
    <3>2. AllRight'
      BY <2>2, <2>3 DEF LoneOut
    <3>. QED
      BY <3>1, <3>2 DEF CountsInv, CountsAreRight, AllRight, GuestsRight, StatsRight
  <2>4. CASE call'[c].pc \notin Ended
    <3>1. Running' = {c}
      BY <1>2, <1>3, <2>1, <2>4
    <3>2. call'[c].alone /\ LoneFit(c, call[c])'
      BY <2>2, <2>4 DEF LoneOut
    <3>. QED
      BY <3>1, <3>2 DEF CountsInv, CountsAreRight
  <2>. QED
    BY <2>3, <2>4
<1>7. CASE c \in Running /\ ~call[c].alone
  <2>1. AllDrift /\ (c = Owner => AllCounts \subseteq drift)
    BY <1>7 DEF CountsInv
  <2>2. /\ AllDrift'
        /\ AllCounts \subseteq drift => AllCounts \subseteq drift' \/ (c = Owner /\ call'[c].pc = "ok")
    BY <1>7, <2>1, CrowdStep
  <2>3. CountsAreRight'
    BY <2>2 DEF CountsAreRight, AllDrift
  <2>4. ASSUME NEW x \in Running' PROVE ~call'[x].alone /\ (x = Owner => AllCounts \subseteq drift')
    <3>1. CASE x = c
      <4>1. call'[c].alone = call[c].alone
        <5>1. PICK f : call' = [call EXCEPT ![c] = f] /\ (f.pc \notin Ended => f.alone = call[c].alone)
          BY CallStep
        <5>2. call'[c] = f
          BY <5>1, CallAfter DEF With
        <5>. QED
          BY <1>2, <3>1, <5>1, <5>2
      <4>2. call'[c].pc # "ok"
        BY <1>2, <3>1 DEF Ended
      <4>. QED
        BY <1>7, <2>1, <2>2, <3>1, <4>1, <4>2
    <3>2. CASE x # c
      <4>1. x \in Running /\ call'[x] = call[x]
        BY <1>1, <1>2, <1>3, <3>2
      <4>2. ~call[x].alone
        BY <1>7, <3>2, <4>1 DEF CountsInv
      <4>. QED
        BY <2>2, <3>2, <4>1, <4>2 DEF CountsInv
    <3>. QED
      BY <3>1, <3>2
  <2>. QED
    BY <2>2, <2>3, <2>4 DEF CountsInv
<1>. QED
  BY <1>5, <1>6, <1>7

\* A handler that starts keeps the invariant of the counts: alone, or with
\* every count marked.
LEMMA CountsStart ==
  ASSUME RecordShape, CountsInv, NEW c \in Callers, call[c].pc = "idle", NEW f, Start(c, f),
         UNCHANGED <<invitation, recipient>>, CallShaped(f), f.op # "none", f.pc \in {"check", "create", "find"}
  PROVE  CountsInv'
<1>1. c \notin Running /\ Running \subseteq Callers
  BY DEF Running
<1>2. \A b \in BOOLEAN : LET g == [f EXCEPT !.alone = b] IN g.alone = b /\ g.pc = f.pc /\ g.op = f.op /\ g.inv = f.inv
  BY DEF CallShaped, NoCall
<1>3. \A x \in Callers : x \in Running => [call[x] EXCEPT !.alone = FALSE].pc = call[x].pc /\ [call[x] EXCEPT !.alone = FALSE].alone = FALSE
  BY DEF RecordShape, CallShaped, NoCall
<1>4. CASE Running = {}
  <2>1. call'[c] = [f EXCEPT !.alone = TRUE] /\ drift' = drift /\ \A x \in Callers \ {c} : call'[x] = call[x]
    BY <1>4 DEF Start
  <2>2. call'[c].alone /\ call'[c].pc = f.pc /\ call'[c].op = f.op
    BY <1>2, <2>1
  <2>3. \A x \in Callers : x \in Running' <=> x = c
    BY <1>1, <1>4, <2>1, <2>2 DEF Running, Ended
  <2>4. Running' = {c}
    BY <2>3 DEF Running
  <2>5. AllRight
    BY <1>4 DEF CountsInv, CountsAreRight, AllRight, GuestsRight, StatsRight
  <2>6. AllRight'
    BY <2>1, <2>5, RightKept
  <2>7. LoneFit(c, call[c])'
    <3>1. f.op \in GuestOps => f.pc = "find"
      BY StageOps DEF GuestOps
    <3>. QED
      BY <2>2, <2>6, <3>1, FitsCalm DEF GuestsOff, StatsOff
  <2>. QED
    BY <2>2, <2>4, <2>7 DEF CountsInv, CountsAreRight
<1>5. CASE Running # {}
  <2>1. drift' = AllCounts /\ call'[c] = [f EXCEPT !.alone = FALSE]
        /\ \A x \in Callers \ {c} : call'[x] = IF x \in Running THEN [call[x] EXCEPT !.alone = FALSE] ELSE call[x]
    BY <1>1, <1>5 DEF Start
  <2>2. \A x \in Running' : ~call'[x].alone
    <3>. TAKE x \in Running'
    <3>0. x \in Callers
      BY DEF Running
    <3>1. CASE x = c
      BY <1>2, <2>1, <3>1
    <3>2. CASE x # c /\ x \in Running
      BY <1>3, <2>1, <3>0, <3>2
    <3>3. CASE x # c /\ x \notin Running
      BY <2>1, <3>0, <3>3 DEF Running
    <3>. QED
      BY <3>1, <3>2, <3>3
  <2>3. AllDrift'
    BY <2>1 DEF AllDrift, AllCounts
  <2>4. CountsAreRight'
    BY <2>3 DEF CountsAreRight, AllDrift
  <2>. QED
    BY <2>1, <2>2, <2>3, <2>4 DEF CountsInv
<1>. QED
  BY <1>4, <1>5

\* An answer that is taken, and steps of the page alone, leave the counts as they are.
LEMMA CountsKept ==
  ASSUME RecordShape, CountsInv, UNCHANGED <<invitation, recipient, drift>>, Running' = Running,
         \A c \in Running : call'[c] = call[c]
  PROVE  CountsInv'
<1>1. \A i : Counted(i)' = Counted(i)
  BY DEF Counted, Recipients
<1>2. \A x \in Running : LoneFit(x, call[x]) => LoneFit(x, call[x])'
  BY <1>1 DEF LoneFit, GuestsRight, StatsRight, Adjusting
<1>3. CountsAreRight'
  BY <1>1 DEF CountsAreRight, CountsInv
<1>. QED
  BY <1>2, <1>3 DEF CountsInv, AllDrift

\* An answer that is taken keeps the invariant of the counts.
LEMMA CountsAnswered ==
  ASSUME RecordShape, CountsInv, NEW c \in Callers, call[c].pc \in Ended, With(c, NoCall), UNCHANGED <<invitation, recipient, drift>>
  PROVE  CountsInv'
<1>1. call'[c] = NoCall /\ \A x \in Callers \ {c} : call'[x] = call[x]
  BY CallAfter
<1>2. \A x \in Callers : x \in Running' <=> x \in Running
  BY <1>1, NoCallShaped DEF Running, Ended
<1>3. Running' = Running /\ c \notin Running
  BY <1>2 DEF Running, Ended
<1>. QED
  BY <1>1, <1>3, CountsKept DEF Running

-----------------------------------------------------------------------------
(***************************************************************************)
(* The owner's pages: what the page shown, the requests it has queued and  *)
(* the call under way have to do with the rows of the card.                *)
(***************************************************************************)
IsSeq(q) == \E S : q \in Seq(S)
Positions(q) == 1..Len(q)

\* A request as the page sends it.
SentShaped(r) ==
  CallShaped(r) /\ r.op \notin GuestOps \cup {"none"} /\ r.pc = IF r.op = "create" THEN "create" ELSE "check"

TabShaped(t) ==
  /\ DOMAIN t = DOMAIN NewTab /\ DOMAIN t.ref = DOMAIN NoCard /\ DOMAIN t.shown = DOMAIN NoCard
  /\ t.patch # <<>> => t.timer /\ DOMAIN t.patch[1] = DOMAIN NoCard
  /\ IsSeq(t.queue)
  /\ \A k \in Positions(t.queue) : SentShaped(t.queue[k])

WizardOps == {"save", "add", "remove", "publish", "upload", "replace"}
FeedOps == {"create", "duplicate", "drop", "detail"}

\* On the list of invitations one request is sent at a time.
FeedFits(t, o) ==
  /\ ~t.loading => Len(t.queue) = 0 /\ o.pc = "idle"
  /\ IF o.pc = "idle" THEN Len(t.queue) <= 1 ELSE Len(t.queue) = 0 /\ o.op \in FeedOps
  /\ \A k \in Positions(t.queue) : t.queue[k].op \in FeedOps

\* What the page of a card is sent from was read with the card.
LoadFits ==
  LET o == call[Owner]
  IN  o.op = "detail" /\ o.pc = "ok" =>
        o.inv \in Invites /\ invitation[o.inv].exists /\ o.list = Recipients(o.inv) /\ o.old = invitation[o.inv].card

\* A card's page calls for that card.
OpsFit(t, o) ==
  /\ o.op \in WizardOps \cup {"none"}
  /\ o.pc \notin {"idle", "error"} => o.inv = t.inv
  /\ \A k \in Positions(t.queue) : t.queue[k].op \in WizardOps /\ t.queue[k].inv = t.inv

\* The guests of the rows, by the page's list and the request that changes it.
ListFits(t, o, rows) ==
  /\ t.doubt \/ (o.op \in {"add", "remove"} /\ o.pc = "error")
     \/ rows = IF o.op = "add" /\ o.pc \in {"count", "counted", "ok"} THEN t.list \cup {o.guest}
               ELSE IF o.op = "remove" /\ o.pc \in {"count", "counted", "tally", "tallied", "ok"} THEN t.list \ {o.guest}
               ELSE t.list
  /\ o.op \in {"save", "publish"} /\ o.pc = "ok" => o.list = rows

\* The card that a request read is still the card of the row.
OldFits(o, card) ==
  o.pc \in {"merge", "purge", "put"} \/ (o.op = "publish" /\ o.pc = "ok") => o.old = card

PhotoFits(t, o, card, stored) ==
  /\ t.uploaded /\ o.then # "photo" => card.key /\ stored
  /\ o.op = "upload" /\ o.pc = "merge" => stored
  /\ o.op = "upload" /\ o.pc = "ok" => card.key /\ stored

\* The requests on the way to the next step; those that publish.
Chain == {"flush-publish", "publish", "published"}
GuestThens == {"add", "remove", "import", "imported"}
Busy == Chain \cup GuestThens \cup {"flush-step", "flush-stay", "step", "stay"}

\* At most one of them is under way where the page then waits for it; no photo
\* is sent behind one, and nothing behind one that publishes.
ChainFits(t, o, sc) ==
  LET q == t.queue
  IN  /\ sc # "card" => ~t.timer /\ o.then # "photo" /\ \A k \in Positions(q) : q[k].then # "photo"
      /\ sc = "card" => o.then \notin GuestThens /\ \A k \in Positions(q) : q[k].then \notin GuestThens
      /\ sc = "list" => o.then \notin Chain /\ \A k \in Positions(q) : q[k].then \notin Chain
      /\ sc # "list" =>
           /\ o.then \in Busy => t.loading
           /\ \A k \in Positions(q) : q[k].then \in Busy =>
                t.loading /\ o.then \notin Busy /\ \A j \in Positions(q) : q[j].then \in Busy => j = k
      /\ ~t.published /\ t.step # "card" => o.then # "photo" /\ \A k \in Positions(q) : q[k].then # "photo"
      /\ o.then \in Busy => \A k \in Positions(q) : q[k].then # "photo"
      /\ \A j, k \in Positions(q) : j < k /\ q[j].then \in Busy => q[k].then # "photo"
      /\ o.then \in Chain => ~t.published /\ t.step = "publish" /\ ~t.timer /\ Len(q) = 0
      /\ \A k \in Positions(q) : q[k].then \in Chain => ~t.published /\ t.step = "publish" /\ ~t.timer /\ k = Len(q)

\* The last text displayed is on its way or stored.
LastSave(q, k) == q[k].op = "save" /\ \A j \in Positions(q) : j > k => q[j].op # "save"
TextFits(t, o, card) ==
  /\ t.ref.text = t.shown.text
  /\ t.patch # <<>> => t.patch[1].text = t.shown.text
  /\ ~t.timer =>
       /\ \A k \in Positions(t.queue) : LastSave(t.queue, k) => t.queue[k].card.text = t.shown.text
       /\ (\A k \in Positions(t.queue) : t.queue[k].op # "save") =>
            IF o.op # "save" THEN t.doubt \/ card.text = t.shown.text
            ELSE IF o.pc \in {"check", "merge"} THEN o.card.text = t.shown.text
            ELSE o.pc = "error" \/ card.text = t.shown.text

WizardFits(t, o, sc, card, rows, stored) ==
  /\ OpsFit(t, o) /\ ListFits(t, o, rows) /\ OldFits(o, card) /\ PhotoFits(t, o, card, stored)
  /\ ChainFits(t, o, sc) /\ TextFits(t, o, card)

PagesInv ==
  /\ TabShaped(tab) /\ tab.page \in {"feed", "wizard"}
  /\ LoadFits
  /\ tab.page = "feed" => FeedFits(tab, call[Owner])
  /\ tab.page = "wizard" =>
       /\ tab.inv \in Invites /\ invitation[tab.inv].exists
       /\ WizardFits(tab, call[Owner], scope, invitation[tab.inv].card, Recipients(tab.inv), tab.inv \in object)

\* A queue p that is q with r behind it; one that is q without its first.
Grew(p, q, r) ==
  /\ IsSeq(p) /\ Len(q) \in Nat /\ Len(p) = Len(q) + 1 /\ p[Len(p)] = r
  /\ \A k \in Positions(q) : p[k] = q[k]
Shrank(p, q) ==
  /\ IsSeq(p) /\ Len(p) \in Nat /\ Len(q) = Len(p) + 1
  /\ \A k \in Positions(p) : p[k] = q[k + 1]

\* Append puts one request behind the others.
LEMMA QueueGrows ==
  ASSUME NEW q, NEW r, IsSeq(q)
  PROVE  Grew(Append(q, r), q, r)
<1>1. PICK S : q \in Seq(S)
  BY DEF IsSeq
<1>. DEFINE T == S \cup {r}
<1>2. q \in Seq(T) /\ r \in T
  BY <1>1
<1>. HIDE DEF T
<1>3. Append(q, r) \in Seq(T) /\ Len(q) \in Nat /\ Len(Append(q, r)) = Len(q) + 1 /\ Append(q, r)[Len(q) + 1] = r
      /\ \A k \in 1..Len(q) : Append(q, r)[k] = q[k]
  BY <1>2
<1>. QED
  BY <1>3 DEF Grew, IsSeq, Positions

\* Tail moves every request one place ahead.
LEMMA QueueShrinks ==
  ASSUME NEW q, IsSeq(q), q # <<>>
  PROVE  Shrank(Tail(q), q) /\ Head(q) = q[1] /\ 1 \in Positions(q)
<1>1. PICK S : q \in Seq(S)
  BY DEF IsSeq
<1>2. Len(q) \in Nat /\ Len(q) # 0 /\ Tail(q) \in Seq(S) /\ Len(Tail(q)) = Len(q) - 1 /\ Head(q) = q[1]
      /\ \A k \in 1..Len(Tail(q)) : Tail(q)[k] = q[k + 1]
  BY <1>1
<1>. QED
  BY <1>2 DEF Shrank, IsSeq, Positions

-----------------------------------------------------------------------------
\* A request is sent behind the others (Enqueue).

\* A request for the card that is sent leaves all requests for that card.
LEMMA OpsSent ==
  ASSUME NEW s, NEW t, NEW o, NEW r, OpsFit(t, o), Grew(s.queue, t.queue, r), s.inv = t.inv, r.op \in WizardOps, r.inv = t.inv
  PROVE  OpsFit(s, o)
  BY DEF OpsFit, Grew, Positions

\* A request that the buttons allow keeps the order of the queue.
LEMMA ChainSent ==
  ASSUME NEW s, NEW t, NEW o, NEW r, NEW sc, ChainFits(t, o, sc), Grew(s.queue, t.queue, r),
         s.step = t.step, s.published = t.published, s.timer => t.timer, t.loading => s.loading,
         o.then \notin Chain, \A k \in Positions(t.queue) : t.queue[k].then \notin Chain,
         sc = "card" => r.then \notin GuestThens,
         r.then = "photo" => /\ sc = "card" /\ (t.published \/ t.step = "card")
                             /\ o.then \notin Busy /\ \A k \in Positions(t.queue) : t.queue[k].then \notin Busy,
         r.then \in Busy /\ sc # "list" => /\ s.loading /\ o.then \notin Busy
                                           /\ \A k \in Positions(t.queue) : t.queue[k].then \notin Busy,
         r.then \in Chain => sc # "list" /\ ~t.published /\ t.step = "publish" /\ ~s.timer
  PROVE  ChainFits(s, o, sc)
<1>. DEFINE q == t.queue  p == s.queue
<1>1. Len(q) \in Nat /\ Len(p) = Len(q) + 1 /\ p[Len(p)] = r /\ \A k \in Positions(q) : p[k] = q[k]
  BY DEF Grew
<1>2. \A k \in Positions(p) : k = Len(p) \/ (k \in Positions(q) /\ p[k] = q[k])
  BY <1>1 DEF Positions
<1>3. Len(p) \in Positions(p) /\ \A k \in Positions(q) : k < Len(p)
  BY <1>1 DEF Positions
<1>. HIDE DEF p, q
<1>4. "photo" \notin Busy /\ "photo" \notin Chain /\ Chain \subseteq Busy
  BY DEF Busy, Chain, GuestThens
<1>5. sc # "card" => ~s.timer /\ o.then # "photo" /\ \A k \in Positions(p) : p[k].then # "photo"
  BY <1>1, <1>2 DEF ChainFits, q
<1>6. sc = "card" => o.then \notin GuestThens /\ \A k \in Positions(p) : p[k].then \notin GuestThens
  BY <1>1, <1>2 DEF ChainFits, q
<1>7. sc = "list" => o.then \notin Chain /\ \A k \in Positions(p) : p[k].then \notin Chain
  BY <1>1, <1>2 DEF ChainFits, q
<1>8. sc # "list" =>
           /\ o.then \in Busy => s.loading
           /\ \A k \in Positions(p) : p[k].then \in Busy =>
                s.loading /\ o.then \notin Busy /\ \A j \in Positions(p) : p[j].then \in Busy => j = k
  BY <1>1, <1>2 DEF ChainFits, q
<1>9. ~s.published /\ s.step # "card" => o.then # "photo" /\ \A k \in Positions(p) : p[k].then # "photo"
  BY <1>1, <1>2 DEF ChainFits, q
<1>10. o.then \in Busy => \A k \in Positions(p) : p[k].then # "photo"
  BY <1>1, <1>2 DEF ChainFits, q
<1>11. \A j, k \in Positions(p) : j < k /\ p[j].then \in Busy => p[k].then # "photo"
  BY <1>1, <1>2, <1>3, <1>4 DEF ChainFits, q, Positions
<1>12. \A k \in Positions(p) : p[k].then \in Chain => ~s.published /\ s.step = "publish" /\ ~s.timer /\ k = Len(p)
  BY <1>1, <1>2 DEF q
<1>. QED
  BY <1>5, <1>6, <1>7, <1>8, <1>9, <1>10, <1>11, <1>12 DEF ChainFits, p

\* A save that is sent has the text displayed; another request leaves it to
\* the saves before.
LEMMA TextSent ==
  ASSUME NEW s, NEW t, NEW o, NEW r, NEW card, TextFits(t, o, card), Grew(s.queue, t.queue, r),
         s.ref.text = s.shown.text, s.patch # <<>> => s.patch[1].text = s.shown.text,
         IF r.op = "save" THEN r.card.text = s.shown.text
         ELSE s.timer = t.timer /\ s.shown.text = t.shown.text /\ s.doubt = t.doubt
  PROVE  TextFits(s, o, card)
<1>. DEFINE q == t.queue  p == s.queue
<1>1. Len(q) \in Nat /\ Len(p) = Len(q) + 1 /\ p[Len(p)] = r /\ \A k \in Positions(q) : p[k] = q[k]
  BY DEF Grew
<1>2. \A k \in Positions(p) : k = Len(p) \/ (k \in Positions(q) /\ p[k] = q[k])
  BY <1>1 DEF Positions
<1>3. Len(p) \in Positions(p) /\ (\A k \in Positions(q) : k < Len(p) /\ k \in Positions(p))
  BY <1>1 DEF Positions
<1>. HIDE DEF p, q
<1>4. CASE r.op = "save"
  <2>1. \A k \in Positions(p) : LastSave(p, k) => k = Len(p)
    BY <1>1, <1>2, <1>3, <1>4 DEF LastSave
  <2>. QED
    BY <1>1, <1>3, <1>4, <2>1 DEF TextFits, p
<1>5. CASE r.op # "save"
  <2>1. \A k \in Positions(p) : LastSave(p, k) => k \in Positions(q) /\ p[k] = q[k] /\ LastSave(q, k)
    BY <1>1, <1>2, <1>3, <1>5 DEF LastSave
  <2>2. (\A k \in Positions(p) : p[k].op # "save") => \A k \in Positions(q) : q[k].op # "save"
    BY <1>1, <1>3
  <2>. QED
    BY <1>5, <2>1, <2>2 DEF TextFits, p, q
<1>. QED
  BY <1>4, <1>5

-----------------------------------------------------------------------------
\* The first request of the queue is called (SendNext): f is the call, s the
\* page after it.

Called(f, r) == f.op = r.op /\ f.then = r.then /\ f.pc = r.pc /\ f.inv = r.inv /\ f.card = r.card

\* The request called is for the card too.
LEMMA OpsCalled ==
  ASSUME NEW s, NEW t, NEW o, NEW f, OpsFit(t, o), Shrank(s.queue, t.queue), Called(f, t.queue[1]), s.inv = t.inv
  PROVE  OpsFit(s, f)
  BY DEF OpsFit, Shrank, Positions, Called

\* The order of the queue holds for the request called and those behind it.
LEMMA ChainCalled ==
  ASSUME NEW s, NEW t, NEW o, NEW f, NEW sc, ChainFits(t, o, sc), Shrank(s.queue, t.queue), Called(f, t.queue[1]),
         s.step = t.step, s.published = t.published, s.timer = t.timer, s.loading = t.loading
  PROVE  ChainFits(s, f, sc)
<1>. DEFINE q == t.queue  p == s.queue
<1>1. Len(p) \in Nat /\ Len(q) = Len(p) + 1 /\ \A k \in Positions(p) : p[k] = q[k + 1] /\ k + 1 \in Positions(q)
  BY DEF Shrank, Positions
<1>2. 1 \in Positions(q) /\ f.then = q[1].then /\ \A k \in Positions(p) : 1 < k + 1 /\ k + 1 # 1
  BY <1>1 DEF Called, Positions
<1>. HIDE DEF p, q
<1>3. s.step = t.step /\ s.published = t.published /\ s.timer = t.timer /\ s.loading = t.loading
  OBVIOUS
<1>4. sc # "card" => ~s.timer /\ f.then # "photo" /\ \A k \in Positions(p) : p[k].then # "photo"
  BY <1>1, <1>2 DEF ChainFits, q
<1>5. sc = "card" => f.then \notin GuestThens /\ \A k \in Positions(p) : p[k].then \notin GuestThens
  BY <1>1, <1>2 DEF ChainFits, q
<1>6. sc = "list" => f.then \notin Chain /\ \A k \in Positions(p) : p[k].then \notin Chain
  BY <1>1, <1>2 DEF ChainFits, q
<1>7. sc # "list" =>
           /\ f.then \in Busy => s.loading
           /\ \A k \in Positions(p) : p[k].then \in Busy =>
                s.loading /\ f.then \notin Busy /\ \A j \in Positions(p) : p[j].then \in Busy => j = k
  <2>1. ASSUME NEW j \in Positions(p), NEW k \in Positions(p), j + 1 = k + 1 PROVE j = k
    BY <2>1 DEF Positions
  <2>. QED
    BY <1>1, <1>2, <1>3, <2>1 DEF ChainFits, q
<1>8. ~s.published /\ s.step # "card" => f.then # "photo" /\ \A k \in Positions(p) : p[k].then # "photo"
  BY <1>1, <1>2, <1>3 DEF ChainFits, q
<1>9. f.then \in Busy => \A k \in Positions(p) : p[k].then # "photo"
  BY <1>1, <1>2 DEF ChainFits, q
<1>10. \A j, k \in Positions(p) : j < k /\ p[j].then \in Busy => p[k].then # "photo"
  <2>1. ASSUME NEW j \in Positions(p), NEW k \in Positions(p), j < k PROVE j + 1 < k + 1
    BY <1>1, <2>1 DEF Positions
  <2>. QED
    BY <1>1, <2>1 DEF ChainFits, q
<1>11. f.then \in Chain => ~s.published /\ s.step = "publish" /\ ~s.timer /\ Len(p) = 0
  BY <1>1, <1>2, <1>3 DEF ChainFits, q
<1>12. \A k \in Positions(p) : p[k].then \in Chain => ~s.published /\ s.step = "publish" /\ ~s.timer /\ k = Len(p)
  <2>1. ASSUME NEW k \in Positions(p), k + 1 = Len(q) PROVE k = Len(p)
    BY <1>1, <2>1 DEF Positions
  <2>. QED
    BY <1>1, <1>3, <2>1 DEF ChainFits, q
<1>. QED
  BY <1>4, <1>5, <1>6, <1>7, <1>8, <1>9, <1>10, <1>11, <1>12 DEF ChainFits, p

\* The text displayed goes on in the request called, or in one behind it.
LEMMA TextCalled ==
  ASSUME NEW s, NEW t, NEW o, NEW f, NEW card, TextFits(t, o, card), Shrank(s.queue, t.queue), Called(f, t.queue[1]),
         o.op = "none", t.queue[1].op = "save" => t.queue[1].pc = "check",
         s.ref = t.ref, s.shown = t.shown, s.timer = t.timer, s.patch = t.patch, s.doubt = t.doubt
  PROVE  TextFits(s, f, card)
<1>. DEFINE q == t.queue  p == s.queue
<1>1. Len(p) \in Nat /\ Len(q) = Len(p) + 1 /\ \A k \in Positions(p) : p[k] = q[k + 1] /\ k + 1 \in Positions(q)
  BY DEF Shrank, Positions
<1>2. 1 \in Positions(q) /\ \A k \in Positions(q) : k = 1 \/ (k - 1 \in Positions(p) /\ q[k] = p[k - 1])
  <2>1. 1 \in Positions(q)
    BY <1>1 DEF Positions
  <2>2. ASSUME NEW k \in Positions(q), k # 1 PROVE k - 1 \in Positions(p) /\ k - 1 + 1 = k
    BY <1>1, <2>2 DEF Positions
  <2>. QED
    BY <1>1, <2>1, <2>2
<1>. HIDE DEF p, q
<1>3. \A k \in Positions(p) : LastSave(p, k) => LastSave(q, k + 1)
  <2>. SUFFICES ASSUME NEW k \in Positions(p), LastSave(p, k) PROVE LastSave(q, k + 1)
    OBVIOUS
  <2>1. q[k + 1].op = "save"
    BY <1>1 DEF LastSave
  <2>2. ASSUME NEW j \in Positions(q), j > k + 1 PROVE q[j].op # "save"
    <3>1. k \in Int /\ k >= 1 /\ j \in Int /\ j # 1 /\ j - 1 > k
      BY <1>1, <2>2 DEF Positions
    <3>. QED
      BY <1>2, <3>1 DEF LastSave
  <2>. QED
    BY <2>1, <2>2 DEF LastSave
<1>4. (\A k \in Positions(p) : p[k].op # "save") /\ q[1].op = "save" => LastSave(q, 1)
  BY <1>2 DEF LastSave
<1>5. (\A k \in Positions(p) : p[k].op # "save") /\ q[1].op # "save" => \A k \in Positions(q) : q[k].op # "save"
  BY <1>2
<1>6. f.op = q[1].op /\ f.pc = q[1].pc /\ f.card = q[1].card
  BY DEF Called, q
<1>7. ~s.timer => \A k \in Positions(p) : LastSave(p, k) => p[k].card.text = s.shown.text
  BY <1>1, <1>3 DEF TextFits, q
<1>8. ~s.timer /\ (\A k \in Positions(p) : p[k].op # "save") =>
         IF f.op # "save" THEN s.doubt \/ card.text = s.shown.text
         ELSE f.pc = "check" /\ f.card.text = s.shown.text
  BY <1>2, <1>4, <1>5, <1>6 DEF TextFits, q
<1>. QED
  BY <1>7, <1>8 DEF TextFits, p

\* Calling the first request keeps what holds of a card's page.
LEMMA WizardCalled ==
  ASSUME NEW s, NEW t, NEW o, NEW f, NEW sc, NEW card, NEW rows, NEW stored, WizardFits(t, o, sc, card, rows, stored),
         Shrank(s.queue, t.queue), Called(f, t.queue[1]), o.op = "none", o.then = "none", t.queue[1].pc = "check",
         s.inv = t.inv, s.step = t.step, s.published = t.published, s.timer = t.timer, s.loading = t.loading,
         s.ref = t.ref, s.shown = t.shown, s.patch = t.patch, s.doubt = t.doubt, s.list = t.list, s.uploaded = t.uploaded
  PROVE  WizardFits(s, f, sc, card, rows, stored)
<1>1. f.pc = "check"
  BY DEF Called
<1>2. OpsFit(s, f) /\ ChainFits(s, f, sc) /\ TextFits(s, f, card)
  BY OpsCalled, ChainCalled, TextCalled DEF WizardFits
<1>3. ListFits(s, f, rows)
  BY <1>1 DEF WizardFits, ListFits
<1>4. OldFits(f, card)
  BY <1>1 DEF OldFits
<1>5. PhotoFits(s, f, card, stored)
  BY <1>1 DEF WizardFits, PhotoFits
<1>. QED
  BY <1>2, <1>3, <1>4, <1>5 DEF WizardFits

-----------------------------------------------------------------------------
\* The answer of the call o is taken; s is the page after it.

\* An answer that is taken keeps the order of the queue.
LEMMA ChainAnswered ==
  ASSUME NEW s, NEW t, NEW o, NEW sc, ChainFits(t, o, sc), IsSeq(t.queue), s.queue = t.queue, s.step = t.step, s.published = t.published,
         s.timer = t.timer, s.loading = t.loading \/ o.then \in Busy
  PROVE  ChainFits(s, NoCall, sc)
<1>1. NoCall.then \notin Busy /\ NoCall.then \notin Chain /\ NoCall.then \notin GuestThens /\ NoCall.then # "photo"
  BY DEF NoCall, Busy, Chain, GuestThens
<1>. QED
  BY <1>1 DEF ChainFits

\* After the answer to a save the text displayed is stored, or the page is in
\* doubt.
LEMMA TextAnswered ==
  ASSUME NEW s, NEW t, NEW o, NEW card, TextFits(t, o, card), s.queue = t.queue,
         s.ref = t.ref, s.shown = t.shown, s.timer = t.timer, s.patch = t.patch,
         o.pc \in {"ok", "error"}, IF o.op = "save" /\ o.pc = "ok" THEN TRUE ELSE t.doubt => s.doubt,
         o.op = "save" /\ o.pc = "error" => s.doubt
  PROVE  TextFits(s, NoCall, card)
<1>1. NoCall.op = "none"
  BY DEF NoCall
<1>. QED
  BY <1>1 DEF TextFits

\* After an answer that brings or confirms guests the page's list is the one
\* of the rows, or the page is in doubt.
LEMMA ListAnswered ==
  ASSUME NEW s, NEW t, NEW o, NEW rows, ListFits(t, o, rows),
         \/ o.op \notin {"add", "remove"} /\ s.list = t.list /\ (t.doubt => s.doubt)
         \/ o.op \in {"save", "publish"} /\ o.pc = "ok" /\ s.list = o.list
         \/ s.doubt
         \/ o.op = "add" /\ o.pc = "ok" /\ s.list = t.list \cup {o.guest} /\ s.doubt = t.doubt
         \/ o.op = "remove" /\ o.pc = "ok" /\ s.list = t.list \ {o.guest} /\ s.doubt = t.doubt
  PROVE  ListFits(s, NoCall, rows)
<1>1. NoCall.op = "none"
  BY DEF NoCall
<1>. QED
  BY <1>1 DEF ListFits

\* After the answer to an upload the card refers to a photo in storage.
LEMMA PhotoTaken ==
  ASSUME NEW s, NEW t, NEW o, NEW card, NEW stored, PhotoFits(t, o, card, stored),
         IF o.then = "photo" THEN s.uploaded => o.op = "upload" /\ o.pc = "ok" ELSE s.uploaded = t.uploaded
  PROVE  PhotoFits(s, NoCall, card, stored)
<1>1. NoCall.op = "none" /\ NoCall.then # "photo"
  BY DEF NoCall
<1>. QED
  BY <1>1 DEF PhotoFits

\* Without a call the page waits for none.
LEMMA CallTaken ==
  ASSUME NEW s, NEW t, NEW o, NEW card, OpsFit(t, o), s.inv = t.inv, s.queue = t.queue
  PROVE  OpsFit(s, NoCall) /\ OldFits(NoCall, card)
  BY DEF OpsFit, OldFits, NoCall

-----------------------------------------------------------------------------
\* What the page of a card may send, and what may change with it.

NotPending(t, o, thens) == o.then \notin thens /\ \A k \in Positions(t.queue) : t.queue[k].then \notin thens

SendFits(s, t, o, r, sc) ==
  /\ r.op \in WizardOps /\ r.inv = t.inv
  /\ NotPending(t, o, Chain)
  /\ sc = "card" => r.then \notin GuestThens
  /\ r.then = "photo" => sc = "card" /\ (t.published \/ t.step = "card") /\ NotPending(t, o, Busy)
  /\ r.then \in Busy /\ sc # "list" => s.loading /\ NotPending(t, o, Busy)
  /\ r.then \in Chain => sc # "list" /\ ~t.published /\ t.step = "publish" /\ ~s.timer
  /\ s.ref.text = s.shown.text /\ (s.patch # <<>> => s.patch[1].text = s.shown.text)
  /\ IF r.op = "save" THEN r.card.text = s.shown.text ELSE s.timer = t.timer /\ s.shown.text = t.shown.text

SameButSent(s, t) ==
  /\ s.inv = t.inv /\ s.step = t.step /\ s.published = t.published /\ s.list = t.list /\ s.doubt = t.doubt
  /\ s.uploaded = t.uploaded /\ (s.timer => t.timer) /\ (t.loading => s.loading)

\* Sending a request that the page may send keeps what holds of a card's
\* page.
LEMMA WizardSent ==
  ASSUME NEW s, NEW t, NEW o, NEW r, NEW sc, NEW card, NEW rows, NEW stored, WizardFits(t, o, sc, card, rows, stored),
         Grew(s.queue, t.queue, r), SameButSent(s, t), SendFits(s, t, o, r, sc)
  PROVE  WizardFits(s, o, sc, card, rows, stored)
<1>1. OpsFit(s, o)
  BY OpsSent DEF WizardFits, SameButSent, SendFits
<1>2. ChainFits(s, o, sc)
  BY ChainSent DEF WizardFits, SameButSent, SendFits, NotPending
<1>3. TextFits(s, o, card)
  BY TextSent DEF WizardFits, SameButSent, SendFits
<1>4. ListFits(s, o, rows) /\ PhotoFits(s, o, card, stored) /\ OldFits(o, card)
  BY DEF WizardFits, ListFits, PhotoFits, SameButSent
<1>. QED
  BY <1>1, <1>2, <1>3, <1>4 DEF WizardFits

CardsShaped(s) ==
  /\ DOMAIN s = DOMAIN NewTab /\ DOMAIN s.ref = DOMAIN NoCard /\ DOMAIN s.shown = DOMAIN NoCard
  /\ s.patch # <<>> => s.timer /\ DOMAIN s.patch[1] = DOMAIN NoCard

\* Enqueue changes the queue alone.
LEMMA EnqueueFields ==
  ASSUME NEW t, NEW r, CardsShaped(t), IsSeq(t.queue), \A k \in Positions(t.queue) : SentShaped(t.queue[k]), SentShaped(r)
  PROVE  LET s == Enqueue(t, r)
         IN  /\ TabShaped(s) /\ Grew(s.queue, t.queue, r)
             /\ s.page = t.page /\ s.inv = t.inv /\ s.published = t.published /\ s.step = t.step /\ s.ref = t.ref
             /\ s.shown = t.shown /\ s.timer = t.timer /\ s.patch = t.patch /\ s.loading = t.loading /\ s.list = t.list
             /\ s.doubt = t.doubt /\ s.uploaded = t.uploaded
<1>. DEFINE s == [t EXCEPT !.queue = Append(@, r)]  p == Append(t.queue, r)
<1>1. s = Enqueue(t, r)
  BY DEF Enqueue
<1>2. /\ DOMAIN s = DOMAIN NewTab /\ s.queue = p
      /\ s.page = t.page /\ s.inv = t.inv /\ s.published = t.published /\ s.step = t.step /\ s.ref = t.ref
      /\ s.shown = t.shown /\ s.timer = t.timer /\ s.patch = t.patch /\ s.loading = t.loading /\ s.list = t.list
      /\ s.doubt = t.doubt /\ s.uploaded = t.uploaded
  BY DEF CardsShaped, NewTab
<1>3. Grew(p, t.queue, r)
  BY QueueGrows
<1>. HIDE DEF s, p
<1>4. \A k \in Positions(p) : SentShaped(p[k])
  <2>1. \A k \in Positions(p) : k = Len(p) \/ k \in Positions(t.queue)
    BY <1>3 DEF Grew, Positions
  <2>. QED
    BY <1>3, <2>1 DEF Grew
<1>5. TabShaped(s)
  BY <1>2, <1>3, <1>4 DEF TabShaped, CardsShaped, Grew
<1>. QED
  BY <1>1, <1>2, <1>3, <1>5

InWizard == /\ RecordShape /\ PagesInv /\ tab.page = "wizard"

\* The page of a card, with the call o of its owner.
PageFits(s, o) ==
  s.inv = tab.inv /\ WizardFits(s, o, scope, invitation[tab.inv].card, Recipients(tab.inv), tab.inv \in object)

\* What holds of a card's page, part by part.
LEMMA InWizardParts ==
  ASSUME InWizard
  PROVE  /\ PageFits(tab, call[Owner]) /\ TabShaped(tab) /\ CardsShaped(tab) /\ IsSeq(tab.queue)
         /\ \A k \in Positions(tab.queue) : SentShaped(tab.queue[k])
         /\ tab.inv \in Invites /\ invitation[tab.inv].exists /\ Owner \in Callers /\ CallShaped(call[Owner])
         /\ DOMAIN invitation[tab.inv].card = DOMAIN NoCard
         /\ tab.ref.text = tab.shown.text /\ (tab.patch # <<>> => tab.patch[1].text = tab.shown.text)
<1>1. tab.inv \in Invites /\ Owner \in Callers
  BY DEF InWizard, PagesInv, Callers
<1>2. PageFits(tab, call[Owner]) /\ TabShaped(tab) /\ invitation[tab.inv].exists
  BY DEF InWizard, PagesInv, PageFits
<1>3. CallShaped(call[Owner]) /\ DOMAIN invitation[tab.inv].card = DOMAIN NoCard
  BY <1>1 DEF InWizard, RecordShape, RowShaped
<1>4. CardsShaped(tab) /\ IsSeq(tab.queue) /\ \A k \in Positions(tab.queue) : SentShaped(tab.queue[k])
  BY <1>2 DEF TabShaped, CardsShaped
<1>5. tab.ref.text = tab.shown.text /\ (tab.patch # <<>> => tab.patch[1].text = tab.shown.text)
  BY <1>2 DEF PageFits, WizardFits, TextFits
<1>. QED
  BY <1>1, <1>2, <1>3, <1>4, <1>5

\* The page alone changes.
LEMMA PageStep ==
  ASSUME InWizard, NEW s, OnTab(s), TabShaped(s), s.page = "wizard", PageFits(s, call[Owner])
  PROVE  PagesInv'
<1>1. tab' = s /\ UNCHANGED <<invitation, recipient, object, call, scope>>
  BY DEF OnTab, Others, recordVars
<1>2. tab'.inv = tab.inv
  BY <1>1 DEF PageFits
<1>3. \A i : Recipients(i)' = Recipients(i)
  BY <1>1 DEF Recipients
<1>4. LoadFits'
  BY <1>1, <1>3 DEF InWizard, PagesInv, LoadFits
<1>5. WizardFits(tab', call'[Owner], scope', invitation'[tab'.inv].card, Recipients(tab.inv), tab'.inv \in object')
  BY <1>1 DEF PageFits
<1>6. Recipients(tab.inv)' = Recipients(tab.inv)
  <2>1. PICK i \in Invites : i = tab.inv
    BY DEF InWizard, PagesInv
  <2>2. Recipients(i)' = Recipients(i)
    BY <1>3
  <2>. QED
    BY <1>2, <2>1, <2>2 DEF Recipients
<1>7. tab'.inv \in Invites /\ invitation'[tab'.inv].exists
  BY <1>1, <1>2 DEF InWizard, PagesInv
<1>. QED
  BY <1>1, <1>4, <1>5, <1>6, <1>7 DEF PagesInv

\* The answer is taken and the page changes.
LEMMA PageTakes ==
  ASSUME InWizard, NEW s, Taken(s), TabShaped(s), s.page = "wizard", PageFits(s, NoCall)
  PROVE  PagesInv'
<1>1. tab' = s /\ UNCHANGED <<invitation, recipient, object, scope>> /\ With(Owner, NoCall)
  BY DEF Taken
<1>2. call'[Owner] = NoCall
  BY <1>1, CallAfter DEF InWizard, Callers
<1>3. Recipients(tab.inv)' = Recipients(tab.inv) /\ tab'.inv = tab.inv
  BY <1>1 DEF Recipients, PageFits
<1>4. LoadFits'
  BY <1>2, NoCallShaped DEF LoadFits
<1>5. tab'.inv \in Invites /\ invitation'[tab'.inv].exists
  BY <1>1, <1>3 DEF InWizard, PagesInv
<1>6. WizardFits(tab', call'[Owner], scope', invitation'[tab'.inv].card, Recipients(tab.inv), tab'.inv \in object')
  BY <1>1, <1>2 DEF PageFits
<1>. QED
  BY <1>1, <1>3, <1>4, <1>5, <1>6 DEF PagesInv

\* Nothing publishes the card while it is published, before its last step, or
\* with the timer set.
LEMMA NoChainPending ==
  ASSUME NEW t, NEW o, NEW sc, ChainFits(t, o, sc), t.published \/ t.step # "publish" \/ t.timer \/ ~t.loading
  PROVE  NotPending(t, o, Chain)
<1>1. Chain \subseteq Busy
  BY DEF Busy
<1>. QED
  BY <1>1 DEF ChainFits, NotPending

\* A page that does not wait has sent nothing it waits for.
LEMMA NoBusyPending ==
  ASSUME NEW t, NEW o, NEW sc, ChainFits(t, o, sc), sc # "list", ~t.loading
  PROVE  NotPending(t, o, Busy)
  BY DEF ChainFits, NotPending

\* The fields of a request.
LEMMA RequestFields ==
  ASSUME NEW op, NEW then
  PROVE  LET r == Request(op, then)
         IN  /\ r.op = op /\ r.pc = "check" /\ r.inv = tab.inv /\ r.then = then /\ r.card = NoCard /\ r.old = NoCard
             /\ r.seen = NoCounts /\ r.alone = TRUE /\ DOMAIN r = DOMAIN NoCall
  BY DEF Request, NoCall

\* The fields of a save: the card as the page has it.
LEMMA SaveFields ==
  ASSUME NEW t, NEW then
  PROVE  LET r == SaveRequest(t, then)
         IN  /\ r.op = "save" /\ r.pc = "check" /\ r.inv = tab.inv /\ r.then = then /\ r.card = t.ref /\ r.old = NoCard
             /\ r.seen = NoCounts /\ r.alone = TRUE /\ DOMAIN r = DOMAIN NoCall
  BY DEF SaveRequest, Request, NoCall

\* A request of a card's page has the shape of a call.
LEMMA RequestShaped ==
  ASSUME NEW r, r.op \in WizardOps, r.pc = "check", r.inv \in Invites, Purpose(r.op, r.then), DOMAIN r.card = DOMAIN NoCard,
         r.old = NoCard, r.seen = NoCounts, r.alone = TRUE, DOMAIN r = DOMAIN NoCall
  PROVE  SentShaped(r)
  BY DEF SentShaped, CallShaped, WizardOps, Stages, GuestOps, Ended

\* Something is edited: the timer is set again.
LEMMA WizardEdited ==
  ASSUME NEW s, NEW t, NEW o, NEW sc, NEW card, NEW rows, NEW stored, WizardFits(t, o, sc, card, rows, stored),
         s.queue = t.queue, s.inv = t.inv, s.step = t.step, s.published = t.published, s.list = t.list, s.doubt = t.doubt,
         s.uploaded = t.uploaded, s.loading = t.loading, sc = "card", NotPending(t, o, Chain),
         s.timer = TRUE, s.ref.text = s.shown.text, s.patch # <<>> => s.patch[1].text = s.shown.text
  PROVE  WizardFits(s, o, sc, card, rows, stored)
<1>1. OpsFit(s, o) /\ ListFits(s, o, rows) /\ OldFits(o, card) /\ PhotoFits(s, o, card, stored)
  BY DEF WizardFits, OpsFit, ListFits, PhotoFits
<1>2. ChainFits(s, o, sc)
  BY DEF WizardFits, ChainFits, NotPending
<1>3. TextFits(s, o, card)
  BY DEF TextFits
<1>. QED
  BY <1>1, <1>2, <1>3 DEF WizardFits

\* A change of a card's field is a card, with the text it had where that is
\* not the field.
LEMMA CardParts ==
  ASSUME NEW card, DOMAIN card = DOMAIN NoCard
  PROVE  /\ \A x : [card EXCEPT !.text = x].text = x /\ DOMAIN [card EXCEPT !.text = x] = DOMAIN NoCard
         /\ \A x : [card EXCEPT !.rsvp = x].text = card.text /\ DOMAIN [card EXCEPT !.rsvp = x] = DOMAIN NoCard
         /\ \A x : [card EXCEPT !.key = x].text = card.text /\ DOMAIN [card EXCEPT !.key = x] = DOMAIN NoCard
  BY DEF NoCard

\* Edited changes the card displayed alone.
LEMMA EditedParts ==
  ASSUME InWizard, NEW card, DOMAIN card = DOMAIN NoCard
  PROVE  LET s == Edited(card)
         IN  /\ s.ref = card /\ s.shown = card /\ CardsShaped(s)
             /\ s.queue = tab.queue /\ s.page = tab.page /\ s.inv = tab.inv /\ s.published = tab.published /\ s.step = tab.step
             /\ s.timer = tab.timer /\ s.patch = tab.patch /\ s.loading = tab.loading /\ s.list = tab.list
             /\ s.doubt = tab.doubt /\ s.uploaded = tab.uploaded
<1>1. CardsShaped(tab)
  BY InWizardParts
<1>. QED
  BY <1>1 DEF Edited, CardsShaped, NewTab

\* scheduleSave sets the timer and what it was set with.
LEMMA ScheduledParts ==
  ASSUME NEW t, CardsShaped(t), NEW patch, patch # <<>> => DOMAIN patch[1] = DOMAIN NoCard
  PROVE  LET s == Scheduled(t, patch)
         IN  /\ s.timer = TRUE /\ s.patch = patch /\ CardsShaped(s)
             /\ s.queue = t.queue /\ s.page = t.page /\ s.inv = t.inv /\ s.published = t.published /\ s.step = t.step
             /\ s.ref = t.ref /\ s.shown = t.shown /\ s.loading = t.loading /\ s.list = t.list
             /\ s.doubt = t.doubt /\ s.uploaded = t.uploaded
  BY DEF Scheduled, CardsShaped, NewTab

\* Editing the card and setting the timer keeps the invariant of the pages.
LEMMA Edits ==
  ASSUME InWizard, OnCard, NEW card, DOMAIN card = DOMAIN NoCard, NEW patch,
         patch # <<>> => DOMAIN patch[1] = DOMAIN NoCard /\ patch[1].text = card.text,
         OnTab(Scheduled(Edited(card), patch))
  PROVE  PagesInv'
<1>. DEFINE t == Edited(card)  s == Scheduled(t, patch)
<1>1. OnTab(s)
  OBVIOUS
<1>2. /\ t.ref = card /\ t.shown = card /\ CardsShaped(t)
      /\ t.queue = tab.queue /\ t.page = tab.page /\ t.inv = tab.inv /\ t.published = tab.published /\ t.step = tab.step
      /\ t.loading = tab.loading /\ t.list = tab.list /\ t.doubt = tab.doubt /\ t.uploaded = tab.uploaded
  BY EditedParts
<1>. HIDE DEF t
<1>3. /\ s.timer = TRUE /\ s.patch = patch /\ CardsShaped(s)
      /\ s.queue = t.queue /\ s.page = t.page /\ s.inv = t.inv /\ s.published = t.published /\ s.step = t.step
      /\ s.ref = t.ref /\ s.shown = t.shown /\ s.loading = t.loading /\ s.list = t.list
      /\ s.doubt = t.doubt /\ s.uploaded = t.uploaded
  BY <1>2, ScheduledParts
<1>. HIDE DEF s
<1>4. TabShaped(s)
  BY <1>2, <1>3, InWizardParts DEF TabShaped, CardsShaped
<1>5. scope = "card" /\ NotPending(tab, call[Owner], Chain)
  BY InWizardParts, NoChainPending DEF OnCard, PageFits, WizardFits
<1>6. PageFits(s, call[Owner])
  <2>1. PageFits(tab, call[Owner])
    BY InWizardParts
  <2>2. /\ s.queue = tab.queue /\ s.inv = tab.inv /\ s.step = tab.step /\ s.published = tab.published /\ s.list = tab.list
        /\ s.doubt = tab.doubt /\ s.uploaded = tab.uploaded /\ s.loading = tab.loading
        /\ s.timer = TRUE /\ s.ref.text = s.shown.text /\ (s.patch # <<>> => s.patch[1].text = s.shown.text)
    BY <1>2, <1>3
  <2>. QED
    BY <1>5, <2>1, <2>2, WizardEdited DEF PageFits
<1>7. s.page = "wizard"
  BY <1>2, <1>3 DEF InWizard
<1>. QED
  BY <1>1, <1>4, <1>6, <1>7, PageStep

\* Typing, and picking a theme, keep the invariant of the pages.
LEMMA TypesText ==
  ASSUME InWizard, TypeText \/ PickTheme
  PROVE  PagesInv'
<1>. DEFINE card == [tab.ref EXCEPT !.text = @ + 1]
<1>1. DOMAIN card = DOMAIN NoCard
  BY InWizardParts, CardParts DEF CardsShaped
<1>2. OnCard /\ (OnTab(Scheduled(Edited(card), <<>>)) \/ OnTab(Scheduled(Edited(card), <<card>>)))
  BY DEF TypeText, PickTheme
<1>3. <<card>>[1] = card
  OBVIOUS
<1>. HIDE DEF card
<1>4. CASE OnTab(Scheduled(Edited(card), <<>>))
  BY <1>1, <1>2, <1>4, Edits
<1>5. CASE OnTab(Scheduled(Edited(card), <<card>>))
  BY <1>1, <1>2, <1>3, <1>5, Edits
<1>. QED
  BY <1>2, <1>4, <1>5

\* A request is sent by the page u, changed to t.
LEMMA SentAfter ==
  ASSUME InWizard, NEW u, NEW t, NEW o, NEW r, PageFits(u, o), CardsShaped(t), u.queue = tab.queue, t.queue = tab.queue,
         t.page = "wizard", SameButSent(t, u), SentShaped(r), SendFits(t, u, o, r, scope)
  PROVE  LET s == Enqueue(t, r) IN TabShaped(s) /\ s.page = "wizard" /\ PageFits(s, o)
<1>. DEFINE s == Enqueue(t, r)
<1>1. IsSeq(t.queue) /\ \A k \in Positions(t.queue) : SentShaped(t.queue[k])
  BY InWizardParts
<1>2. /\ TabShaped(s) /\ Grew(s.queue, t.queue, r)
      /\ s.page = t.page /\ s.inv = t.inv /\ s.published = t.published /\ s.step = t.step /\ s.ref = t.ref
      /\ s.shown = t.shown /\ s.timer = t.timer /\ s.patch = t.patch /\ s.loading = t.loading /\ s.list = t.list
      /\ s.doubt = t.doubt /\ s.uploaded = t.uploaded
  BY <1>1, EnqueueFields
<1>. HIDE DEF s
<1>3. SameButSent(s, u) /\ SendFits(s, u, o, r, scope) /\ Grew(s.queue, u.queue, r)
  BY <1>2 DEF SameButSent, SendFits
<1>4. PageFits(s, o)
  <2>1. s.inv = tab.inv
    BY <1>2 DEF SameButSent, PageFits
  <2>. QED
    BY <1>3, <2>1, WizardSent DEF PageFits
<1>. QED
  BY <1>2, <1>4 DEF s

\* A request that the page may send keeps the invariant of the pages.
LEMMA WizardSends ==
  ASSUME InWizard, NEW t, NEW r, OnTab(Enqueue(t, r)), CardsShaped(t), t.queue = tab.queue, t.page = "wizard",
         SameButSent(t, tab), SentShaped(r), SendFits(t, tab, call[Owner], r, scope)
  PROVE  PagesInv'
<1>. DEFINE s == Enqueue(t, r)
<1>1. TabShaped(s) /\ s.page = "wizard" /\ PageFits(s, call[Owner])
  BY InWizardParts, SentAfter
<1>. HIDE DEF s
<1>2. OnTab(s)
  BY DEF s
<1>. QED
  BY <1>1, <1>2, PageStep

\* The timer that fires leaves the text displayed.
LEMMA FiredParts ==
  ASSUME NEW t, CardsShaped(t), t.ref.text = t.shown.text, t.patch # <<>> => t.patch[1].text = t.shown.text
  PROVE  LET s == Fired(t)
         IN  /\ s.timer = FALSE /\ s.patch = <<>> /\ CardsShaped(s) /\ s.ref.text = t.shown.text /\ s.shown = t.shown
             /\ s.queue = t.queue /\ s.page = t.page /\ s.inv = t.inv /\ s.published = t.published /\ s.step = t.step
             /\ s.loading = t.loading /\ s.list = t.list /\ s.doubt = t.doubt /\ s.uploaded = t.uploaded
  BY DEF Fired, CardsShaped, NewTab

\* A save of the page is a request for its card.
LEMMA PageSave ==
  ASSUME InWizard, NEW u, DOMAIN u.ref = DOMAIN NoCard, NEW then \in SaveThens
  PROVE  LET r == SaveRequest(u, then)
         IN  /\ SentShaped(r)
             /\ r.op = "save" /\ r.inv = tab.inv /\ r.then = then /\ r.card = u.ref
<1>. DEFINE r == SaveRequest(u, then)
<1>1. /\ r.op = "save" /\ r.pc = "check" /\ r.inv = tab.inv /\ r.then = then /\ r.card = u.ref /\ r.old = NoCard
      /\ r.seen = NoCounts /\ r.alone = TRUE /\ DOMAIN r = DOMAIN NoCall
  BY DEF SaveRequest, Request, NoCall
<1>. HIDE DEF r
<1>2. r.op \in WizardOps
  BY <1>1 DEF WizardOps
<1>3. Purpose(r.op, r.then)
  BY <1>1 DEF Purpose
<1>4. r.inv \in Invites /\ DOMAIN r.card = DOMAIN NoCard
  BY <1>1, InWizardParts
<1>5. SentShaped(r)
  BY <1>1, <1>2, <1>3, <1>4, RequestShaped
<1>. QED
  BY <1>1, <1>5 DEF r

\* A request of the page is one for its card.
LEMMA PageRequest ==
  ASSUME InWizard, NEW op \in WizardOps, NEW then, Purpose(op, then)
  PROVE  LET r == Request(op, then) IN SentShaped(r) /\ r.op = op /\ r.inv = tab.inv /\ r.then = then
<1>. DEFINE r == Request(op, then)
<1>1. /\ r.op = op /\ r.pc = "check" /\ r.inv = tab.inv /\ r.then = then /\ r.card = NoCard /\ r.old = NoCard
      /\ r.seen = NoCounts /\ r.alone = TRUE /\ DOMAIN r = DOMAIN NoCall
  BY RequestFields
<1>. HIDE DEF r
<1>2. r.inv \in Invites
  BY <1>1, InWizardParts
<1>3. SentShaped(r)
  BY <1>1, <1>2, RequestShaped
<1>. QED
  BY <1>1, <1>3 DEF r

\* The page, changed to t, sends a save of the page u.
LEMMA PageSaves ==
  ASSUME InWizard, NEW t, NEW u, NEW then \in SaveThens \ {"imported"}, OnTab(Enqueue(t, SaveRequest(u, then))),
         CardsShaped(t), t.queue = tab.queue, t.page = tab.page, SameButSent(t, tab),
         DOMAIN u.ref = DOMAIN NoCard, u.ref.text = t.shown.text,
         t.ref.text = t.shown.text, t.patch # <<>> => t.patch[1].text = t.shown.text,
         NotPending(tab, call[Owner], Chain),
         then \in Busy /\ scope # "list" => t.loading /\ NotPending(tab, call[Owner], Busy),
         then \in Chain => scope # "list" /\ ~tab.published /\ tab.step = "publish" /\ ~t.timer
  PROVE  PagesInv'
<1>. DEFINE r == SaveRequest(u, then)
<1>1. SentShaped(r) /\ r.op = "save" /\ r.inv = tab.inv /\ r.then = then /\ r.card = u.ref
  BY PageSave
<1>2. OnTab(Enqueue(t, r))
  OBVIOUS
<1>. HIDE DEF r
<1>3. t.inv = tab.inv
  BY DEF SameButSent
<1>4. r.then \notin GuestThens /\ r.then # "photo" /\ r.op \in WizardOps
  BY <1>1 DEF SaveThens, GuestThens, WizardOps
<1>5. SendFits(t, tab, call[Owner], r, scope)
  BY <1>1, <1>3, <1>4 DEF SendFits
<1>. QED
  BY <1>1, <1>2, <1>5, WizardSends DEF InWizard

\* The debounced save keeps the invariant of the pages.
LEMMA FiresTimer ==
  ASSUME InWizard, TimerFires
  PROVE  PagesInv'
<1>. DEFINE t == Fired(tab)
<1>1. /\ t.timer = FALSE /\ t.patch = <<>> /\ CardsShaped(t) /\ t.ref.text = tab.shown.text /\ t.shown = tab.shown
      /\ t.queue = tab.queue /\ t.page = tab.page /\ t.inv = tab.inv /\ t.published = tab.published /\ t.step = tab.step
      /\ t.loading = tab.loading /\ t.list = tab.list /\ t.doubt = tab.doubt /\ t.uploaded = tab.uploaded
  BY InWizardParts, FiredParts
<1>3. OnTab(Enqueue(t, SaveRequest(t, "auto"))) /\ tab.timer
  BY DEF TimerFires
<1>. HIDE DEF t
<1>5. NotPending(tab, call[Owner], Chain)
  BY <1>3, InWizardParts, NoChainPending DEF PageFits, WizardFits
<1>6. SameButSent(t, tab)
  BY <1>1 DEF SameButSent
<1>7. "auto" \in SaveThens \ {"imported"} /\ "auto" \notin Busy /\ "auto" \notin Chain
  BY DEF SaveThens, Busy, Chain, GuestThens
<1>8. DOMAIN t.ref = DOMAIN NoCard
  BY <1>1 DEF CardsShaped
<1>. QED
  BY <1>1, <1>3, <1>5, <1>6, <1>7, <1>8, PageSaves

\* A switch, saved at once or refused, keeps the invariant of the pages.
LEMMA SwitchesAtOnce ==
  ASSUME InWizard, SetSwitch
  PROVE  PagesInv'
<1>. DEFINE card == [tab.ref EXCEPT !.rsvp = ~@]  t == Edited(card)
<1>1. DOMAIN card = DOMAIN NoCard /\ card.text = tab.ref.text
  BY InWizardParts, CardParts DEF CardsShaped
<1>2. OnCard /\ (OnTab(Enqueue(t, SaveRequest(t, "auto"))) \/ (tab.published /\ OnTab(t)))
  BY DEF SetSwitch, SaveAtOnce
<1>. HIDE DEF card
<1>3. /\ t.ref = card /\ t.shown = card /\ CardsShaped(t)
      /\ t.queue = tab.queue /\ t.page = tab.page /\ t.inv = tab.inv /\ t.published = tab.published /\ t.step = tab.step
      /\ t.timer = tab.timer /\ t.patch = tab.patch /\ t.loading = tab.loading /\ t.list = tab.list
      /\ t.doubt = tab.doubt /\ t.uploaded = tab.uploaded
  BY <1>1, EditedParts
<1>4. t.shown.text = tab.shown.text /\ t.ref.text = tab.shown.text /\ (t.patch # <<>> => t.patch[1].text = t.shown.text)
  BY <1>1, <1>3, InWizardParts
<1>. HIDE DEF t
<1>5. CASE OnTab(Enqueue(t, SaveRequest(t, "auto")))
  <2>3. NotPending(tab, call[Owner], Chain)
    BY <1>2, InWizardParts, NoChainPending DEF PageFits, WizardFits, OnCard
  <2>4. SameButSent(t, tab)
    BY <1>3 DEF SameButSent
  <2>7. "auto" \in SaveThens \ {"imported"} /\ "auto" \notin Busy /\ "auto" \notin Chain
    BY DEF SaveThens, Busy, Chain, GuestThens
  <2>8. DOMAIN t.ref = DOMAIN NoCard
    BY <1>3 DEF CardsShaped
  <2>. QED
    BY <1>3, <1>4, <1>5, <2>3, <2>4, <2>7, <2>8, PageSaves
<1>6. CASE OnTab(t)
  <2>1. TabShaped(t)
    BY <1>3, InWizardParts DEF TabShaped, CardsShaped
  <2>2. PageFits(tab, call[Owner])
    BY InWizardParts
  <2>3. PageFits(t, call[Owner])
    BY <1>3, <1>4, <2>2 DEF PageFits, WizardFits, OpsFit, ListFits, PhotoFits, ChainFits, TextFits
  <2>. QED
    BY <1>3, <1>6, <2>1, <2>3, PageStep DEF InWizard
<1>. QED
  BY <1>2, <1>5, <1>6

\* A photo that is sent keeps the invariant of the pages.
LEMMA SendsPhoto ==
  ASSUME InWizard, PhotoButton
  PROVE  PagesInv'
<1>1. PICK op \in {"upload", "replace"} : OnTab(Enqueue(tab, Request(op, "photo")))
  BY DEF PhotoButton
<1>2. OnCard /\ ~tab.loading
  BY DEF PhotoButton
<1>. DEFINE r == Request(op, "photo")
<1>3. op \in WizardOps /\ Purpose(op, "photo")
  BY DEF WizardOps, Purpose
<1>4. SentShaped(r) /\ r.op = op /\ r.inv = tab.inv /\ r.then = "photo"
  BY <1>3, PageRequest
<1>5. OnTab(Enqueue(tab, r))
  BY <1>1
<1>. HIDE DEF r
<1>6. NotPending(tab, call[Owner], Chain) /\ NotPending(tab, call[Owner], Busy)
  BY <1>2, InWizardParts, NoChainPending, NoBusyPending DEF PageFits, WizardFits, OnCard
<1>7. SameButSent(tab, tab)
  BY DEF SameButSent
<1>8. r.then \notin Busy /\ r.then \notin Chain /\ r.then \notin GuestThens /\ r.op # "save" /\ r.op \in WizardOps
  BY <1>3, <1>4 DEF Busy, Chain, GuestThens
<1>9. SendFits(tab, tab, call[Owner], r, scope)
  BY <1>2, <1>4, <1>6, <1>8, InWizardParts DEF SendFits, OnCard
<1>. QED
  BY <1>4, <1>5, <1>7, <1>9, InWizardParts, WizardSends DEF InWizard

\* The page while it waits.
LEMMA LoadingParts ==
  ASSUME NEW t, CardsShaped(t)
  PROVE  LET s == [t EXCEPT !.loading = TRUE]
         IN  /\ s.loading = TRUE /\ s.timer = t.timer /\ s.patch = t.patch /\ CardsShaped(s)
             /\ s.queue = t.queue /\ s.page = t.page /\ s.inv = t.inv /\ s.published = t.published /\ s.step = t.step
             /\ s.ref = t.ref /\ s.shown = t.shown /\ s.list = t.list /\ s.doubt = t.doubt /\ s.uploaded = t.uploaded
  BY DEF CardsShaped, NewTab

\* Dropping what the timer was set with changes nothing else.
LEMMA UnpatchedParts ==
  ASSUME NEW t, CardsShaped(t)
  PROVE  LET s == [t EXCEPT !.patch = <<>>]
         IN  /\ s.loading = t.loading /\ s.timer = t.timer /\ s.patch = <<>> /\ CardsShaped(s)
             /\ s.queue = t.queue /\ s.page = t.page /\ s.inv = t.inv /\ s.published = t.published /\ s.step = t.step
             /\ s.ref = t.ref /\ s.shown = t.shown /\ s.list = t.list /\ s.doubt = t.doubt /\ s.uploaded = t.uploaded
  BY DEF CardsShaped, NewTab

\* flushPendingSave and the save of a step keep the invariant of the pages.
LEMMA Flushes ==
  ASSUME InWizard, NEW then \in {"step", "stay", "publish"}, FlushAndSave(tab, then), ~tab.published, ~tab.loading,
         IF then = "publish" THEN tab.step = "publish" /\ scope # "list" ELSE tab.step # "publish"
  PROVE  PagesInv'
<1>. DEFINE flush == FlushThen[then]
            w == [tab EXCEPT !.patch = <<>>]  f == Fired(w)
            t == [f EXCEPT !.loading = TRUE]  p == [tab EXCEPT !.loading = TRUE]
<1>1. \/ OnTab(Enqueue(t, SaveRequest(tab, flush)))
      \/ ~tab.timer /\ OnTab(Enqueue(p, SaveRequest(tab, then)))
  BY DEF FlushAndSave
<1>2. /\ flush \in SaveThens \ {"imported"} /\ then \in SaveThens \ {"imported"}
      /\ (flush \in Chain => then = "publish") /\ (then \in Chain => then = "publish")
  BY DEF FlushThen, SaveThens, Chain
<1>3. NotPending(tab, call[Owner], Chain) /\ (scope # "list" => NotPending(tab, call[Owner], Busy))
  BY InWizardParts, NoChainPending, NoBusyPending DEF PageFits, WizardFits
<1>4. CardsShaped(tab) /\ tab.ref.text = tab.shown.text /\ DOMAIN tab.ref = DOMAIN NoCard
      /\ (tab.patch # <<>> => tab.patch[1].text = tab.shown.text)
  BY InWizardParts DEF CardsShaped
<1>5. /\ w.loading = tab.loading /\ w.timer = tab.timer /\ w.patch = <<>> /\ CardsShaped(w)
      /\ w.queue = tab.queue /\ w.page = tab.page /\ w.inv = tab.inv /\ w.published = tab.published /\ w.step = tab.step
      /\ w.ref = tab.ref /\ w.shown = tab.shown /\ w.list = tab.list /\ w.doubt = tab.doubt /\ w.uploaded = tab.uploaded
  BY <1>4, UnpatchedParts
<1>. HIDE DEF w
<1>6. /\ f.timer = FALSE /\ f.patch = <<>> /\ CardsShaped(f) /\ f.ref.text = w.shown.text /\ f.shown = w.shown
      /\ f.queue = w.queue /\ f.page = w.page /\ f.inv = w.inv /\ f.published = w.published /\ f.step = w.step
      /\ f.loading = w.loading /\ f.list = w.list /\ f.doubt = w.doubt /\ f.uploaded = w.uploaded
  BY <1>4, <1>5, FiredParts
<1>. HIDE DEF f
<1>7. /\ t.loading = TRUE /\ t.timer = f.timer /\ t.patch = f.patch /\ CardsShaped(t)
      /\ t.queue = f.queue /\ t.page = f.page /\ t.inv = f.inv /\ t.published = f.published /\ t.step = f.step
      /\ t.ref = f.ref /\ t.shown = f.shown /\ t.list = f.list /\ t.doubt = f.doubt /\ t.uploaded = f.uploaded
  BY <1>6, LoadingParts
<1>8. /\ p.loading = TRUE /\ p.timer = tab.timer /\ p.patch = tab.patch /\ CardsShaped(p)
      /\ p.queue = tab.queue /\ p.page = tab.page /\ p.inv = tab.inv /\ p.published = tab.published /\ p.step = tab.step
      /\ p.ref = tab.ref /\ p.shown = tab.shown /\ p.list = tab.list /\ p.doubt = tab.doubt /\ p.uploaded = tab.uploaded
  BY <1>4, LoadingParts
<1>. HIDE DEF t, p, flush
<1>9. CASE OnTab(Enqueue(t, SaveRequest(tab, flush)))
  <2>1. SameButSent(t, tab)
    BY <1>5, <1>6, <1>7 DEF SameButSent
  <2>. QED
    BY <1>2, <1>3, <1>4, <1>5, <1>6, <1>7, <1>9, <2>1, PageSaves
<1>10. CASE ~tab.timer /\ OnTab(Enqueue(p, SaveRequest(tab, then)))
  <2>1. SameButSent(p, tab)
    BY <1>8 DEF SameButSent
  <2>. QED
    BY <1>2, <1>3, <1>4, <1>8, <1>10, <2>1, PageSaves
<1>. QED
  BY <1>1, <1>9, <1>10

\* The buttons for the next step and for publishing keep the invariant of the
\* pages.
LEMMA NextSteps ==
  ASSUME InWizard, NextStep \/ HandlePublish
  PROVE  PagesInv'
<1>1. CASE NextStep
  <2>1. PICK then \in {"step", "stay"} : FlushAndSave(tab, then)
    BY <1>1 DEF NextStep
  <2>. QED
    BY <1>1, <2>1, Flushes DEF NextStep
<1>2. CASE HandlePublish
  BY <1>2, Flushes DEF HandlePublish
<1>. QED
  BY <1>1, <1>2

\* The button back keeps the invariant of the pages.
LEMMA StepsBack ==
  ASSUME InWizard, BackStep
  PROVE  PagesInv'
<1>. DEFINE s == [tab EXCEPT !.step = "card"]
<1>1. CardsShaped(tab) /\ TabShaped(tab) /\ PageFits(tab, call[Owner])
  BY InWizardParts
<1>2. /\ s.step = "card" /\ DOMAIN s = DOMAIN NewTab /\ s.timer = tab.timer /\ s.patch = tab.patch /\ s.queue = tab.queue
      /\ s.page = tab.page /\ s.inv = tab.inv /\ s.published = tab.published /\ s.loading = tab.loading
      /\ s.ref = tab.ref /\ s.shown = tab.shown /\ s.list = tab.list /\ s.doubt = tab.doubt /\ s.uploaded = tab.uploaded
  BY <1>1 DEF CardsShaped, NewTab
<1>3. OnTab(s) /\ tab.step = "guests"
  BY DEF BackStep
<1>. HIDE DEF s
<1>4. TabShaped(s)
  BY <1>1, <1>2 DEF TabShaped
<1>5. ChainFits(s, call[Owner], scope)
  BY <1>1, <1>2, <1>3 DEF PageFits, WizardFits, ChainFits
<1>6. PageFits(s, call[Owner])
  BY <1>1, <1>2, <1>5 DEF PageFits, WizardFits, OpsFit, ListFits, PhotoFits, TextFits
<1>. QED
  BY <1>2, <1>3, <1>4, <1>6, PageStep DEF InWizard

\* A request about the guests of the card is sent.
LEMMA GuestsSent ==
  ASSUME InWizard, NEW r, OnTab(Enqueue([tab EXCEPT !.loading = TRUE], r)), OnGuests, scope = "list" \/ ~tab.loading,
         SentShaped(r), r.op \in WizardOps, r.op # "save", r.inv = tab.inv, r.then \in GuestThens
  PROVE  PagesInv'
<1>. DEFINE p == [tab EXCEPT !.loading = TRUE]
<1>1. /\ p.loading = TRUE /\ p.timer = tab.timer /\ p.patch = tab.patch /\ CardsShaped(p)
      /\ p.queue = tab.queue /\ p.page = tab.page /\ p.inv = tab.inv /\ p.published = tab.published /\ p.step = tab.step
      /\ p.ref = tab.ref /\ p.shown = tab.shown /\ p.list = tab.list /\ p.doubt = tab.doubt /\ p.uploaded = tab.uploaded
  BY InWizardParts, LoadingParts
<1>2. OnTab(Enqueue(p, r))
  OBVIOUS
<1>. HIDE DEF p
<1>3. NotPending(tab, call[Owner], Chain) /\ (scope # "list" => NotPending(tab, call[Owner], Busy))
  BY InWizardParts, NoChainPending, NoBusyPending DEF PageFits, WizardFits, OnGuests
<1>4. r.then \notin Chain /\ r.then # "photo" /\ r.then \in Busy /\ scope # "card"
  BY DEF Busy, Chain, GuestThens, OnGuests
<1>5. SameButSent(p, tab)
  BY <1>1 DEF SameButSent
<1>6. SendFits(p, tab, call[Owner], r, scope)
  BY <1>1, <1>3, <1>4, InWizardParts DEF SendFits
<1>. QED
  BY <1>1, <1>2, <1>5, <1>6, WizardSends DEF InWizard

\* Adding, removing and importing guests keep the invariant of the pages.
LEMMA ChangesGuests ==
  ASSUME InWizard, AddGuest \/ RemoveGuest \/ ImportContributors
  PROVE  PagesInv'
<1>0. "add" \in WizardOps /\ "remove" \in WizardOps /\ {"add", "remove", "import"} \subseteq GuestThens
  BY DEF WizardOps, GuestThens
<1>1. ASSUME NEW then \in {"add", "import"}, OnTab(Enqueue([tab EXCEPT !.loading = TRUE], Request("add", then))),
             OnGuests, scope = "list" \/ ~tab.loading
      PROVE  PagesInv'
  <2>. DEFINE r == Request("add", then)
  <2>1. Purpose("add", then)
    BY DEF Purpose
  <2>2. SentShaped(r) /\ r.op = "add" /\ r.inv = tab.inv /\ r.then = then
    BY <1>0, <2>1, PageRequest
  <2>3. OnTab(Enqueue([tab EXCEPT !.loading = TRUE], r))
    BY <1>1
  <2>. HIDE DEF r
  <2>. QED
    BY <1>0, <1>1, <2>2, <2>3, GuestsSent
<1>2. CASE AddGuest
  BY <1>1, <1>2 DEF AddGuest
<1>3. CASE ImportContributors
  BY <1>1, <1>3 DEF ImportContributors
<1>4. CASE RemoveGuest
  <2>1. PICK g \in tab.list : OnTab(Enqueue([tab EXCEPT !.loading = TRUE], [Request("remove", "remove") EXCEPT !.guest = g]))
    BY <1>4 DEF RemoveGuest
  <2>. DEFINE r == [Request("remove", "remove") EXCEPT !.guest = g]
  <2>2. OnTab(Enqueue([tab EXCEPT !.loading = TRUE], r))
    BY <2>1
  <2>3. /\ r.op = "remove" /\ r.pc = "check" /\ r.inv = tab.inv /\ r.then = "remove" /\ r.card = NoCard /\ r.old = NoCard
        /\ r.seen = NoCounts /\ r.alone = TRUE /\ DOMAIN r = DOMAIN NoCall
    BY DEF Request, NoCall
  <2>. HIDE DEF r
  <2>4. Purpose(r.op, r.then) /\ r.op \in WizardOps /\ r.inv \in Invites
    BY <1>0, <2>3, InWizardParts DEF Purpose
  <2>5. SentShaped(r)
    BY <2>3, <2>4, RequestShaped
  <2>6. OnGuests /\ (scope = "list" \/ ~tab.loading)
    BY <1>4 DEF RemoveGuest
  <2>. QED
    BY <1>0, <2>2, <2>3, <2>4, <2>5, <2>6, GuestsSent
<1>. QED
  BY <1>2, <1>3, <1>4

\* The page starts as an empty list.
LEMMA NewTabShaped == TabShaped(NewTab) /\ NewTab.page = "feed" /\ NewTab.queue = <<>> /\ ~NewTab.loading
<1>1. NewTab.queue = <<>> /\ NewTab.page = "feed" /\ ~NewTab.loading /\ NewTab.patch = <<>>
      /\ NewTab.ref = NoCard /\ NewTab.shown = NoCard
  BY DEF NewTab
<1>2. IsSeq(<<>>) /\ Positions(<<>>) = {}
  BY DEF IsSeq, Positions
<1>. QED
  BY <1>1, <1>2 DEF TabShaped

\* Leaving a card's page keeps the invariant of the pages.
LEMMA Leaves ==
  ASSUME InWizard, LeaveWizard
  PROVE  PagesInv'
<1>1. tab' = NewTab /\ UNCHANGED <<invitation, recipient, object, call, scope>> /\ call[Owner].pc = "idle"
  BY DEF LeaveWizard, OnTab, Others, recordVars, Quiet, At
<1>2. LoadFits'
  BY <1>1 DEF LoadFits
<1>3. FeedFits(NewTab, call[Owner])
  BY <1>1, NewTabShaped DEF FeedFits, Positions
<1>. QED
  BY <1>1, <1>2, <1>3, NewTabShaped DEF PagesInv

-----------------------------------------------------------------------------
\* What the answers of a request do to the page of a card.

SamePage(s, t) ==
  /\ s.queue = t.queue /\ s.page = t.page /\ s.inv = t.inv /\ s.published = t.published /\ s.step = t.step
  /\ s.ref = t.ref /\ s.shown = t.shown /\ s.timer = t.timer /\ s.patch = t.patch

\* The page after an answer fits the rows, by what the answer was to and what
\* it changed.
LEMMA AnswerFits ==
  ASSUME InWizard, NEW o, o = call[Owner], o.pc \in Ended, NEW s, CardsShaped(s), SamePage(s, tab),
         s.loading = tab.loading \/ o.then \in Busy,
         IF o.then = "photo" THEN s.uploaded => o.op = "upload" /\ o.pc = "ok" ELSE s.uploaded = tab.uploaded,
         \/ o.op \notin {"add", "remove"} /\ s.list = tab.list /\ (tab.doubt => s.doubt)
         \/ o.op = "save" /\ o.pc = "ok" /\ s.list = o.list
         \/ s.doubt
         \/ o.op = "add" /\ o.pc = "ok" /\ s.list = tab.list \cup {o.guest} /\ s.doubt = tab.doubt
         \/ o.op = "remove" /\ o.pc = "ok" /\ s.list = tab.list \ {o.guest} /\ s.doubt = tab.doubt,
         IF o.op = "save" THEN o.pc = "ok" \/ s.doubt ELSE tab.doubt => s.doubt
  PROVE  TabShaped(s) /\ PageFits(s, NoCall)
<1>. DEFINE card == invitation[tab.inv].card  rows == Recipients(tab.inv)  stored == tab.inv \in object
<1>1. WizardFits(tab, o, scope, card, rows, stored) /\ IsSeq(tab.queue)
  BY InWizardParts DEF PageFits
<1>2. TabShaped(s)
  BY InWizardParts DEF TabShaped, CardsShaped, SamePage
<1>. HIDE DEF card, rows, stored
<1>3. s.queue = tab.queue /\ s.inv = tab.inv /\ s.published = tab.published /\ s.step = tab.step
      /\ s.ref = tab.ref /\ s.shown = tab.shown /\ s.timer = tab.timer /\ s.patch = tab.patch
  BY DEF SamePage
<1>4. o.pc \in {"ok", "error"}
  BY DEF Ended
<1>5. OpsFit(s, NoCall) /\ OldFits(NoCall, card)
  BY <1>1, <1>3, CallTaken DEF WizardFits
<1>6. ChainFits(s, NoCall, scope)
  BY <1>1, <1>3, ChainAnswered DEF WizardFits
<1>7. ListFits(tab, o, rows) => ListFits(s, NoCall, rows)
  BY <1>4, ListAnswered
<1>8. PhotoFits(s, NoCall, card, stored)
  BY <1>1, PhotoTaken DEF WizardFits
<1>9. TextFits(tab, o, card) => TextFits(s, NoCall, card)
  BY <1>3, <1>4, TextAnswered
<1>10. WizardFits(s, NoCall, scope, card, rows, stored)
  BY <1>1, <1>5, <1>6, <1>7, <1>8, <1>9 DEF WizardFits
<1>. QED
  BY <1>2, <1>3, <1>10 DEF PageFits, card, rows, stored

\* The answer of a request on the way to the next step.
LEMMA BusyAnswered ==
  ASSUME NEW t, NEW o, NEW sc, ChainFits(t, o, sc), o.then \in Busy
  PROVE  /\ NotPending(t, NoCall, Chain) /\ (sc # "list" => t.loading /\ NotPending(t, NoCall, Busy))
         /\ \A k \in Positions(t.queue) : t.queue[k].then # "photo"
<1>1. NoCall.then \notin Busy /\ NoCall.then \notin Chain /\ Chain \subseteq Busy
  BY DEF NoCall, Busy, Chain, GuestThens
<1>. QED
  BY <1>1 DEF ChainFits, NotPending

\* An answer to a card's page is to a request of that page.
LEMMA AnsweredRequest ==
  ASSUME InWizard, NEW o, o = call[Owner], NEW then, Then(then), then # "none"
  PROVE  o.then = then /\ o.pc \in Ended /\ Purpose(o.op, then) /\ (Ok <=> o.pc = "ok") /\ ChainFits(tab, o, scope)
         /\ o.op \in WizardOps
<1>1. CallShaped(o) /\ o.then = then /\ o.pc \in Ended /\ PageFits(tab, o)
  BY InWizardParts DEF Then
<1>2. Purpose(o.op, then)
  BY <1>1 DEF CallShaped
<1>3. ChainFits(tab, o, scope) /\ o.op \in WizardOps \cup {"none"}
  BY <1>1 DEF PageFits, WizardFits, OpsFit
<1>4. o.op # "none"
  BY <1>2 DEF Purpose
<1>. QED
  BY <1>1, <1>2, <1>3, <1>4 DEF Ok, At

\* The answer to a save changes the list of guests and the doubt alone.
LEMMA SavedParts ==
  ASSUME NEW o, o = call[Owner], NEW t, CardsShaped(t)
  PROVE  LET s == Saved(t)
         IN  /\ CardsShaped(s) /\ SamePage(s, t) /\ s.loading = t.loading /\ s.uploaded = t.uploaded
             /\ IF Ok THEN s.list = o.list /\ s.doubt = FALSE ELSE s.list = t.list /\ s.doubt = TRUE
  BY DEF Saved, CardsShaped, SamePage, NewTab

\* The answer to a save keeps what holds of a card's page.
LEMMA SaveAnswered ==
  ASSUME InWizard, NEW o, o = call[Owner], NEW then \in SaveThens, Then(then)
  PROVE  LET s == Saved(tab)
         IN  TabShaped(s) /\ PageFits(s, NoCall) /\ CardsShaped(s) /\ SamePage(s, tab) /\ s.loading = tab.loading
<1>. DEFINE s == Saved(tab)
<1>1. /\ CardsShaped(s) /\ SamePage(s, tab) /\ s.loading = tab.loading /\ s.uploaded = tab.uploaded
      /\ IF Ok THEN s.list = o.list /\ s.doubt = FALSE ELSE s.list = tab.list /\ s.doubt = TRUE
  BY InWizardParts, SavedParts
<1>. HIDE DEF s
<1>2. then # "none" /\ then # "photo"
  BY DEF SaveThens
<1>3. o.then = then /\ o.pc \in Ended /\ Purpose(o.op, then) /\ (Ok <=> o.pc = "ok")
  BY <1>2, AnsweredRequest
<1>4. o.op = "save"
  BY <1>3 DEF Purpose, SaveThens
<1>5. TabShaped(s) /\ PageFits(s, NoCall)
  BY <1>1, <1>2, <1>3, <1>4, AnswerFits
<1>. QED
  BY <1>1, <1>5 DEF s

\* The page no longer waits.
LEMMA FreeParts ==
  ASSUME NEW t, CardsShaped(t)
  PROVE  LET s == [t EXCEPT !.loading = FALSE]
         IN  /\ CardsShaped(s) /\ SamePage(s, t) /\ s.loading = FALSE /\ s.list = t.list /\ s.doubt = t.doubt /\ s.uploaded = t.uploaded
  BY DEF CardsShaped, SamePage, NewTab

\* A page whose step was answered, and no longer waits, fits the rows.
LEMMA FreeFits ==
  ASSUME InWizard, NEW o, o = call[Owner], NEW u, PageFits(u, NoCall), CardsShaped(u), TabShaped(u), SamePage(u, tab),
         ChainFits(tab, o, scope), o.then \in Busy
  PROVE  LET s == [u EXCEPT !.loading = FALSE] IN TabShaped(s) /\ PageFits(s, NoCall) /\ CardsShaped(s) /\ SamePage(s, tab)
<1>. DEFINE s == [u EXCEPT !.loading = FALSE]
<1>1. CardsShaped(s) /\ SamePage(s, u) /\ s.loading = FALSE /\ s.list = u.list /\ s.doubt = u.doubt /\ s.uploaded = u.uploaded
  BY FreeParts
<1>. HIDE DEF s
<1>2. TabShaped(s)
  BY <1>1 DEF TabShaped, CardsShaped, SamePage
<1>3. scope # "list" => NotPending(u, NoCall, Busy)
  BY BusyAnswered DEF SamePage, NotPending
<1>4. PageFits(s, NoCall)
  BY <1>1, <1>3 DEF SamePage, PageFits, WizardFits, OpsFit, ListFits, PhotoFits, ChainFits, TextFits, NotPending
<1>. QED
  BY <1>1, <1>2, <1>4 DEF s, SamePage

\* The answer to a debounced save keeps the invariant of the pages.
LEMMA AutoAnswered ==
  ASSUME InWizard, AutoSaved
  PROVE  PagesInv'
<1>. DEFINE s == Saved(tab)
<1>1. "auto" \in SaveThens
  BY DEF SaveThens
<1>2. TabShaped(s) /\ PageFits(s, NoCall) /\ s.page = tab.page
  BY <1>1, SaveAnswered DEF AutoSaved, SamePage
<1>. HIDE DEF s
<1>. QED
  BY <1>2, PageTakes DEF AutoSaved, InWizard, s

\* The answer to a flush, with the save of the step sent next, keeps the
\* invariant of the pages.
LEMMA FlushAnswered ==
  ASSUME InWizard, Flushed
  PROVE  PagesInv'
<1>1. PICK then \in {"step", "stay", "publish"} : Then(FlushThen[then]) /\ Taken(Enqueue(Saved(tab), SaveRequest(tab, then)))
  BY DEF Flushed
<1>. DEFINE flush == FlushThen[then]  u == Saved(tab)  r == SaveRequest(tab, then)  s == Enqueue(u, r)
<1>2. PICK o : o = call[Owner]
  OBVIOUS
<1>3. flush \in SaveThens /\ flush # "none" /\ flush \in Busy /\ (then = "publish" <=> flush \in Chain)
  BY DEF FlushThen, SaveThens, Busy, Chain, GuestThens
<1>4. then \in SaveThens /\ then \in Busy /\ then \notin GuestThens /\ then # "photo" /\ (then = "publish" <=> then \in Chain)
  BY DEF SaveThens, Busy, Chain, GuestThens
<1>5. TabShaped(u) /\ PageFits(u, NoCall) /\ CardsShaped(u) /\ SamePage(u, tab) /\ u.loading = tab.loading
  BY <1>1, <1>2, <1>3, SaveAnswered
<1>6. o.then = flush /\ ChainFits(tab, o, scope)
  BY <1>1, <1>2, <1>3, AnsweredRequest
<1>7. SentShaped(r) /\ r.op = "save" /\ r.inv = tab.inv /\ r.then = then /\ r.card = tab.ref
  BY <1>4, InWizardParts, PageSave DEF CardsShaped
<1>. HIDE DEF flush, u, r
<1>8. NotPending(u, NoCall, Chain) /\ (scope # "list" => u.loading /\ NotPending(u, NoCall, Busy))
  BY <1>3, <1>5, <1>6, BusyAnswered DEF SamePage, NotPending
<1>9. then \in Chain => scope # "list" /\ ~u.published /\ u.step = "publish" /\ ~u.timer
  BY <1>3, <1>4, <1>5, <1>6 DEF ChainFits, SamePage
<1>10. SendFits(u, u, NoCall, r, scope)
  BY <1>4, <1>5, <1>7, <1>8, <1>9, InWizardParts DEF SendFits, SamePage, WizardOps
<1>11. SameButSent(u, u)
  BY DEF SameButSent
<1>12. TabShaped(s) /\ s.page = "wizard" /\ PageFits(s, NoCall)
  BY <1>5, <1>7, <1>10, <1>11, SentAfter DEF SamePage, InWizard
<1>. HIDE DEF s
<1>13. Taken(s)
  BY <1>1 DEF s, u, r
<1>. QED
  BY <1>12, <1>13, PageTakes

\* The answer to the save of a step keeps the invariant of the pages.
LEMMA StepAnswered ==
  ASSUME InWizard, Stepped
  PROVE  PagesInv'
<1>1. PICK then \in {"step", "stay"} :
        Then(then) /\ Taken([Saved(tab) EXCEPT !.loading = FALSE,
                                               !.step = IF ~Ok \/ then = "stay" THEN @ ELSE IF @ = "card" THEN "guests" ELSE "publish"])
  BY DEF Stepped
<1>. DEFINE u == Saved(tab)  v == [u EXCEPT !.loading = FALSE]
            step == IF ~Ok \/ then = "stay" THEN u.step ELSE IF u.step = "card" THEN "guests" ELSE "publish"
            s == [u EXCEPT !.loading = FALSE, !.step = step]
<1>2. PICK o : o = call[Owner]
  OBVIOUS
<1>3. then \in SaveThens /\ then # "none" /\ then \in Busy
  BY DEF SaveThens, Busy
<1>4. TabShaped(u) /\ PageFits(u, NoCall) /\ CardsShaped(u) /\ SamePage(u, tab)
  BY <1>1, <1>2, <1>3, SaveAnswered
<1>5. o.then = then /\ ChainFits(tab, o, scope)
  BY <1>1, <1>2, <1>3, AnsweredRequest
<1>6. Taken(s)
  BY <1>1, <1>4 DEF CardsShaped, NewTab
<1>. HIDE DEF u
<1>7. TabShaped(v) /\ PageFits(v, NoCall) /\ CardsShaped(v) /\ SamePage(v, tab)
  BY <1>2, <1>3, <1>4, <1>5, FreeFits
<1>. HIDE DEF step
<1>8. /\ DOMAIN s = DOMAIN NewTab /\ s.queue = v.queue /\ s.page = v.page /\ s.inv = v.inv /\ s.published = v.published
      /\ s.ref = v.ref /\ s.shown = v.shown /\ s.timer = v.timer /\ s.patch = v.patch
      /\ s.loading = v.loading /\ s.list = v.list /\ s.doubt = v.doubt /\ s.uploaded = v.uploaded
  BY <1>4 DEF CardsShaped, NewTab
<1>9. /\ NotPending(v, NoCall, Chain) /\ \A k \in Positions(v.queue) : v.queue[k].then # "photo"
  BY <1>3, <1>5, <1>7, BusyAnswered DEF SamePage, NotPending
<1>10. NoCall.then # "photo"
  BY DEF NoCall
<1>. HIDE DEF v, s
<1>11. TabShaped(s)
  BY <1>7, <1>8 DEF TabShaped
<1>12. ChainFits(v, NoCall, scope) => ChainFits(s, NoCall, scope)
  BY <1>8, <1>9, <1>10 DEF ChainFits, NotPending
<1>13. PageFits(s, NoCall)
  BY <1>7, <1>8, <1>12 DEF PageFits, WizardFits, OpsFit, ListFits, PhotoFits, TextFits
<1>. QED
  BY <1>6, <1>7, <1>8, <1>11, <1>13, PageTakes DEF SamePage, InWizard

\* The answer is taken, and the request r sent; u is the page but for it.
LEMMA AnswerSends ==
  ASSUME InWizard, NEW o, o = call[Owner], NEW u, NEW r, Taken(Enqueue(u, r)), PageFits(u, NoCall), CardsShaped(u),
         SamePage(u, tab), u.loading = tab.loading, ChainFits(tab, o, scope), o.then \in Busy, SentShaped(r), r.op \in WizardOps,
         r.inv = tab.inv, scope = "card" => r.then \notin GuestThens, r.then # "photo",
         r.then \in Chain => o.then \in Chain, r.op = "save" => r.card = tab.ref
  PROVE  PagesInv'
<1>. DEFINE s == Enqueue(u, r)
<1>1. Taken(s)
  OBVIOUS
<1>2. NotPending(u, NoCall, Chain) /\ (scope # "list" => u.loading /\ NotPending(u, NoCall, Busy))
  BY BusyAnswered DEF SamePage, NotPending
<1>3. r.then \in Chain => scope # "list" /\ ~u.published /\ u.step = "publish" /\ ~u.timer
  BY DEF ChainFits, SamePage
<1>4. SendFits(u, u, NoCall, r, scope)
  BY <1>2, <1>3, InWizardParts DEF SendFits, SamePage
<1>5. SameButSent(u, u)
  BY DEF SameButSent
<1>6. TabShaped(s) /\ s.page = "wizard" /\ PageFits(s, NoCall)
  BY <1>4, <1>5, SentAfter DEF SamePage, InWizard
<1>. HIDE DEF s
<1>. QED
  BY <1>1, <1>6, PageTakes

\* The answer to the save before publishing keeps the invariant of the pages.
LEMMA PublishSaveAnswered ==
  ASSUME InWizard, PublishSaved
  PROVE  PagesInv'
<1>. DEFINE u == Saved(tab)  v == [u EXCEPT !.loading = FALSE]  r == Request("publish", "published")
<1>1. Then("publish") /\ (Taken(Enqueue(u, r)) \/ Taken(v))
  BY DEF PublishSaved
<1>2. PICK o : o = call[Owner]
  OBVIOUS
<1>3. "publish" \in SaveThens /\ "publish" \in Busy /\ "publish" \in Chain /\ "published" \in Chain
      /\ "published" \notin GuestThens /\ "publish" \in WizardOps
  BY DEF SaveThens, Busy, Chain, GuestThens, WizardOps
<1>4. TabShaped(u) /\ PageFits(u, NoCall) /\ CardsShaped(u) /\ SamePage(u, tab) /\ u.loading = tab.loading
  BY <1>1, <1>2, <1>3, SaveAnswered
<1>5. o.then = "publish" /\ ChainFits(tab, o, scope)
  BY <1>1, <1>2, AnsweredRequest
<1>6. Purpose("publish", "published")
  BY DEF Purpose
<1>7. SentShaped(r) /\ r.op = "publish" /\ r.inv = tab.inv /\ r.then = "published"
  BY <1>3, <1>6, PageRequest
<1>. HIDE DEF u, r
<1>8. CASE Taken(Enqueue(u, r))
  BY <1>2, <1>3, <1>4, <1>5, <1>7, <1>8, AnswerSends
<1>9. CASE Taken(v)
  <2>1. TabShaped(v) /\ PageFits(v, NoCall) /\ SamePage(v, tab)
    BY <1>2, <1>3, <1>4, <1>5, FreeFits
  <2>. HIDE DEF v
  <2>. QED
    BY <1>9, <2>1, PageTakes DEF SamePage, InWizard
<1>. QED
  BY <1>1, <1>8, <1>9

\* The answer to publishing brings the card and the guests of the rows.
LEMMA PublishedAnswered ==
  ASSUME InWizard, PublishAnswered
  PROVE  PagesInv'
<1>1. PICK o : o = call[Owner]
  OBVIOUS
<1>. DEFINE u == [tab EXCEPT !.loading = FALSE]
            s == [tab EXCEPT !.loading = FALSE, !.published = TRUE, !.list = o.list, !.doubt = FALSE, !.ref = o.old, !.shown = o.old]
            card == invitation[tab.inv].card  rows == Recipients(tab.inv)  stored == tab.inv \in object
<1>2. Then("published") /\ IF Ok THEN Taken(s) ELSE Taken(u)
  BY <1>1 DEF PublishAnswered
<1>3. o.then = "published" /\ o.pc \in Ended /\ Purpose(o.op, "published") /\ (Ok <=> o.pc = "ok") /\ ChainFits(tab, o, scope)
  BY <1>1, <1>2, AnsweredRequest
<1>4. o.op = "publish" /\ o.then \in Busy /\ o.then \in Chain
  BY <1>3 DEF Purpose, SaveThens, Busy, Chain
<1>5. CardsShaped(tab) /\ TabShaped(tab) /\ WizardFits(tab, o, scope, card, rows, stored) /\ DOMAIN o.old = DOMAIN NoCard
      /\ IsSeq(tab.queue)
  BY <1>1, InWizardParts DEF PageFits, CallShaped
<1>6. CASE ~Ok
  <2>1. CardsShaped(u) /\ SamePage(u, tab) /\ u.loading = FALSE /\ u.list = tab.list /\ u.doubt = tab.doubt /\ u.uploaded = tab.uploaded
    BY <1>5, FreeParts
  <2>. HIDE DEF u
  <2>2. TabShaped(u) /\ PageFits(u, NoCall)
    BY <1>1, <1>3, <1>4, <2>1, AnswerFits
  <2>. QED
    BY <1>2, <1>6, <2>1, <2>2, PageTakes DEF SamePage, InWizard
<1>7. CASE Ok
  <2>1. /\ DOMAIN s = DOMAIN NewTab /\ s.published = TRUE /\ s.list = o.list /\ s.doubt = FALSE /\ s.ref = o.old /\ s.shown = o.old
        /\ s.queue = tab.queue /\ s.page = tab.page /\ s.inv = tab.inv /\ s.step = tab.step /\ s.timer = tab.timer
        /\ s.patch = tab.patch /\ s.uploaded = tab.uploaded
    BY <1>5 DEF CardsShaped, NewTab
  <2>. HIDE DEF s, card, rows, stored
  <2>2. ~tab.timer /\ Len(tab.queue) = 0 /\ Positions(tab.queue) = {}
    BY <1>3, <1>4 DEF ChainFits, Positions
  <2>3. tab.patch = <<>> /\ o.list = rows /\ o.old = card /\ o.pc = "ok"
    BY <1>3, <1>4, <1>5, <1>7, <2>2 DEF CardsShaped, WizardFits, ListFits, OldFits
  <2>4. TabShaped(s)
    BY <1>5, <2>1, <2>3 DEF TabShaped
  <2>5. NoCall.op = "none" /\ NoCall.pc = "idle" /\ NoCall.then = "none"
    BY DEF NoCall
  <2>6. OpsFit(s, NoCall) /\ ListFits(s, NoCall, rows) /\ OldFits(NoCall, card)
    BY <2>1, <2>2, <2>3, <2>5 DEF OpsFit, ListFits, OldFits, WizardOps
  <2>7. PhotoFits(s, NoCall, card, stored)
    BY <1>3, <1>5, <2>1, <2>5 DEF PhotoFits, WizardFits
  <2>8. ChainFits(s, NoCall, scope)
    BY <1>3, <2>1, <2>2, <2>5 DEF ChainFits, Chain, Busy, GuestThens
  <2>9. TextFits(s, NoCall, card)
    BY <2>1, <2>2, <2>3, <2>5 DEF TextFits
  <2>10. PageFits(s, NoCall)
    BY <2>1, <2>6, <2>7, <2>8, <2>9 DEF PageFits, WizardFits, card, rows, stored
  <2>. QED
    BY <1>2, <1>7, <2>1, <2>4, <2>10, PageTakes DEF InWizard
<1>. QED
  BY <1>6, <1>7

\* The answers to adding and removing a guest keep the invariant of the
\* pages.
LEMMA GuestAnswered ==
  ASSUME InWizard, GuestAdded \/ GuestRemoved
  PROVE  PagesInv'
<1>1. PICK o : o = call[Owner]
  OBVIOUS
<1>2. CardsShaped(tab)
  BY InWizardParts
<1>3. PICK then \in {"add", "remove"} :
        /\ Then(then)
        /\ IF ~Ok THEN Taken([tab EXCEPT !.loading = FALSE, !.doubt = TRUE])
           ELSE IF then = "add" THEN Taken([tab EXCEPT !.loading = FALSE, !.list = @ \cup {o.guest}])
           ELSE Taken([tab EXCEPT !.loading = FALSE, !.list = @ \ {o.guest}])
  BY <1>1 DEF GuestAdded, GuestRemoved
<1>4. o.then = then /\ o.pc \in Ended /\ Purpose(o.op, then) /\ (Ok <=> o.pc = "ok")
  BY <1>1, <1>3, AnsweredRequest
<1>5. o.op = then /\ then \in Busy /\ then # "photo"
  BY <1>4 DEF Purpose, SaveThens, Busy, GuestThens
<1>6. ASSUME NEW t, Taken(t), CardsShaped(t), SamePage(t, tab), t.uploaded = tab.uploaded,
             IF ~Ok THEN t.doubt
             ELSE IF then = "add" THEN t.list = tab.list \cup {o.guest} /\ t.doubt = tab.doubt
             ELSE t.list = tab.list \ {o.guest} /\ t.doubt = tab.doubt
      PROVE  PagesInv'
  <2>1. TabShaped(t) /\ PageFits(t, NoCall)
    BY <1>1, <1>4, <1>5, <1>6, AnswerFits
  <2>. QED
    BY <1>6, <2>1, PageTakes DEF SamePage, InWizard
<1>7. CASE ~Ok
  <2>. DEFINE t == [tab EXCEPT !.loading = FALSE, !.doubt = TRUE]
  <2>1. CardsShaped(t) /\ SamePage(t, tab) /\ t.doubt = TRUE /\ t.uploaded = tab.uploaded
    BY <1>2 DEF CardsShaped, SamePage, NewTab
  <2>2. Taken(t)
    BY <1>3, <1>7
  <2>. HIDE DEF t
  <2>. QED
    BY <1>6, <1>7, <2>1, <2>2
<1>8. CASE Ok /\ then = "add"
  <2>. DEFINE t == [tab EXCEPT !.loading = FALSE, !.list = @ \cup {o.guest}]
  <2>1. CardsShaped(t) /\ SamePage(t, tab) /\ t.list = tab.list \cup {o.guest} /\ t.doubt = tab.doubt /\ t.uploaded = tab.uploaded
    BY <1>2 DEF CardsShaped, SamePage, NewTab
  <2>2. Taken(t)
    BY <1>3, <1>8
  <2>. HIDE DEF t
  <2>. QED
    BY <1>6, <1>8, <2>1, <2>2
<1>9. CASE Ok /\ then = "remove"
  <2>. DEFINE t == [tab EXCEPT !.loading = FALSE, !.list = @ \ {o.guest}]
  <2>1. CardsShaped(t) /\ SamePage(t, tab) /\ t.list = tab.list \ {o.guest} /\ t.doubt = tab.doubt /\ t.uploaded = tab.uploaded
    BY <1>2 DEF CardsShaped, SamePage, NewTab
  <2>2. Taken(t)
    BY <1>3, <1>9
  <2>. HIDE DEF t
  <2>. QED
    BY <1>6, <1>9, <2>1, <2>2
<1>. QED
  BY <1>7, <1>8, <1>9

\* The answer for one name of an import keeps the invariant of the pages.
LEMMA ImportAnswered ==
  ASSUME InWizard, Imported
  PROVE  PagesInv'
<1>1. PICK o : o = call[Owner]
  OBVIOUS
<1>. DEFINE u == IF Ok THEN [tab EXCEPT !.list = @ \cup {o.guest}] ELSE [tab EXCEPT !.doubt = TRUE]
            r == Request("add", "import")  w == SaveRequest(u, "imported")
<1>2. Then("import") /\ (Taken(Enqueue(u, r)) \/ Taken(Enqueue(u, w)))
  BY <1>1 DEF Imported
<1>3. o.then = "import" /\ o.pc \in Ended /\ Purpose(o.op, "import") /\ (Ok <=> o.pc = "ok") /\ ChainFits(tab, o, scope)
  BY <1>1, <1>2, AnsweredRequest
<1>4. o.op = "add" /\ "import" \in Busy /\ "import" \in GuestThens /\ "imported" \in SaveThens /\ "imported" \notin Chain
      /\ "import" \notin Chain /\ "add" \in WizardOps /\ "save" \in WizardOps
  BY <1>3 DEF Purpose, SaveThens, Busy, GuestThens, Chain, WizardOps
<1>5. /\ CardsShaped(u) /\ SamePage(u, tab) /\ u.loading = tab.loading /\ u.uploaded = tab.uploaded
      /\ IF Ok THEN u.list = tab.list \cup {o.guest} /\ u.doubt = tab.doubt ELSE u.doubt = TRUE
  <2>1. CardsShaped(tab)
    BY InWizardParts
  <2>. QED
    BY <2>1 DEF CardsShaped, SamePage, NewTab
<1>. HIDE DEF u
<1>6. PageFits(u, NoCall)
  BY <1>1, <1>3, <1>4, <1>5, AnswerFits
<1>7. Purpose("add", "import")
  BY DEF Purpose
<1>8. SentShaped(r) /\ r.op = "add" /\ r.inv = tab.inv /\ r.then = "import"
  BY <1>4, <1>7, PageRequest
<1>9. SentShaped(w) /\ w.op = "save" /\ w.inv = tab.inv /\ w.then = "imported" /\ w.card = tab.ref
  BY <1>4, <1>5, PageSave DEF CardsShaped, SamePage
<1>10. scope # "card"
  BY <1>3, <1>4 DEF ChainFits
<1>. HIDE DEF r, w
<1>11. CASE Taken(Enqueue(u, r))
  BY <1>1, <1>3, <1>4, <1>5, <1>6, <1>8, <1>10, <1>11, AnswerSends
<1>12. CASE Taken(Enqueue(u, w))
  BY <1>1, <1>3, <1>4, <1>5, <1>6, <1>9, <1>10, <1>12, AnswerSends
<1>. QED
  BY <1>2, <1>11, <1>12

\* The answer to the save that ends an import keeps the invariant of the
\* pages.
LEMMA ImportSaveAnswered ==
  ASSUME InWizard, ImportSaved
  PROVE  PagesInv'
<1>. DEFINE u == Saved(tab)  v == [u EXCEPT !.loading = FALSE]
<1>1. Then("imported") /\ (Taken(u) \/ Taken(v))
  BY DEF ImportSaved
<1>2. PICK o : o = call[Owner]
  OBVIOUS
<1>3. "imported" \in SaveThens /\ "imported" \in Busy
  BY DEF SaveThens, Busy, GuestThens
<1>4. TabShaped(u) /\ PageFits(u, NoCall) /\ CardsShaped(u) /\ SamePage(u, tab)
  BY <1>1, <1>2, <1>3, SaveAnswered
<1>5. o.then = "imported" /\ ChainFits(tab, o, scope)
  BY <1>1, <1>2, AnsweredRequest
<1>. HIDE DEF u
<1>6. TabShaped(v) /\ PageFits(v, NoCall) /\ SamePage(v, tab)
  BY <1>2, <1>3, <1>4, <1>5, FreeFits
<1>. HIDE DEF v
<1>. QED
  BY <1>1, <1>4, <1>6, PageTakes DEF SamePage, InWizard

\* The photo was taken, replaced or removed: its card is edited.
LEMMA PhotoComes ==
  ASSUME InWizard, PhotoAnswered
  PROVE  PagesInv'
<1>1. PICK o : o = call[Owner]
  OBVIOUS
<1>. DEFINE upload == o.op = "upload"  card == [tab.ref EXCEPT !.key = upload]
            e == Edited(card)  d == Scheduled(e, <<card>>)  s == [d EXCEPT !.uploaded = upload]
            u == [tab EXCEPT !.uploaded = upload]  w == [tab EXCEPT !.uploaded = FALSE]
<1>2. Then("photo") /\ IF Ok THEN Taken(s) ELSE Taken(w)
  BY <1>1 DEF PhotoAnswered
<1>3. o.then = "photo" /\ o.pc \in Ended /\ Purpose(o.op, "photo") /\ (Ok <=> o.pc = "ok") /\ ChainFits(tab, o, scope)
  BY <1>1, <1>2, AnsweredRequest
<1>4. o.op \in {"upload", "replace"}
  BY <1>3 DEF Purpose, SaveThens
<1>5. CardsShaped(tab) /\ tab.ref.text = tab.shown.text
  BY InWizardParts
<1>6. CardsShaped(u) /\ SamePage(u, tab) /\ u.loading = tab.loading /\ u.list = tab.list /\ u.doubt = tab.doubt /\ u.uploaded = upload
  BY <1>5 DEF CardsShaped, SamePage, NewTab
<1>7. CardsShaped(w) /\ SamePage(w, tab) /\ w.loading = tab.loading /\ w.list = tab.list /\ w.doubt = tab.doubt /\ w.uploaded = FALSE
  BY <1>5 DEF CardsShaped, SamePage, NewTab
<1>8. CASE ~Ok
  <2>. HIDE DEF w
  <2>1. TabShaped(w) /\ PageFits(w, NoCall)
    BY <1>1, <1>3, <1>4, <1>7, AnswerFits
  <2>. QED
    BY <1>2, <1>7, <1>8, <2>1, PageTakes DEF SamePage, InWizard
<1>9. CASE Ok
  <2>1. DOMAIN card = DOMAIN NoCard /\ card.text = tab.ref.text
    BY <1>5, CardParts DEF CardsShaped
  <2>. HIDE DEF card, u
  <2>2. TabShaped(u) /\ PageFits(u, NoCall)
    BY <1>1, <1>3, <1>4, <1>6, <1>9, AnswerFits
  <2>3. /\ e.ref = card /\ e.shown = card /\ CardsShaped(e)
        /\ e.queue = tab.queue /\ e.page = tab.page /\ e.inv = tab.inv /\ e.published = tab.published /\ e.step = tab.step
        /\ e.loading = tab.loading /\ e.list = tab.list /\ e.doubt = tab.doubt
    BY <2>1, EditedParts
  <2>. HIDE DEF e
  <2>4. <<card>>[1] = card
    OBVIOUS
  <2>5. /\ d.timer = TRUE /\ d.patch = <<card>> /\ CardsShaped(d)
        /\ d.queue = e.queue /\ d.page = e.page /\ d.inv = e.inv /\ d.published = e.published /\ d.step = e.step
        /\ d.ref = e.ref /\ d.shown = e.shown /\ d.loading = e.loading /\ d.list = e.list /\ d.doubt = e.doubt
    <3>1. PICK p : p = <<card>>
      OBVIOUS
    <3>2. d = Scheduled(e, p) /\ DOMAIN p[1] = DOMAIN NoCard
      BY <2>1, <2>4, <3>1
    <3>. HIDE DEF d
    <3>. QED
      BY <2>3, <3>1, <3>2 DEF Scheduled, CardsShaped, NewTab
  <2>. HIDE DEF d
  <2>6. CardsShaped(s) /\ SamePage(s, d) /\ s.loading = d.loading /\ s.list = d.list /\ s.doubt = d.doubt /\ s.uploaded = upload
    BY <2>5 DEF CardsShaped, SamePage, NewTab
  <2>. HIDE DEF s, upload
  <2>7. scope = "card" /\ (tab.published \/ tab.step = "card")
    BY <1>3 DEF ChainFits
  <2>8. NotPending(u, NoCall, Chain)
    <3>1. ChainFits(u, NoCall, scope) /\ (u.published \/ u.step # "publish")
      BY <1>6, <2>2, <2>7 DEF PageFits, WizardFits, SamePage
    <3>. QED
      BY <3>1, NoChainPending
  <2>9. PageFits(s, NoCall)
    <3>1. /\ s.queue = u.queue /\ s.inv = u.inv /\ s.step = u.step /\ s.published = u.published /\ s.list = u.list
          /\ s.doubt = u.doubt /\ s.uploaded = u.uploaded /\ s.loading = u.loading
      BY <1>6, <2>3, <2>5, <2>6 DEF SamePage
    <3>2. s.timer = TRUE /\ s.ref.text = s.shown.text /\ (s.patch # <<>> => s.patch[1].text = s.shown.text)
      BY <2>3, <2>4, <2>5, <2>6 DEF SamePage
    <3>. QED
      BY <2>2, <2>7, <2>8, <3>1, <3>2, WizardEdited DEF PageFits
  <2>10. TabShaped(s)
    BY <2>3, <2>5, <2>6, InWizardParts DEF TabShaped, CardsShaped, SamePage
  <2>11. s.page = "wizard"
    BY <2>3, <2>5, <2>6 DEF SamePage, InWizard
  <2>. QED
    BY <1>2, <1>9, <2>9, <2>10, <2>11, PageTakes
<1>. QED
  BY <1>8, <1>9

\* What the list of invitations asked for is answered to the list.
LEMMA NoFeedAnswer ==
  ASSUME InWizard
  PROVE  ~(Made \/ Dropped \/ Loaded)
<1>. SUFFICES ASSUME Made \/ Dropped \/ Loaded PROVE FALSE
  OBVIOUS
<1>1. PICK o : o = call[Owner]
  OBVIOUS
<1>2. PICK then \in {"made", "feed", "load"} : Then(then)
  BY DEF Made, Dropped, Loaded
<1>3. Purpose(o.op, then) /\ o.op \in WizardOps
  BY <1>1, <1>2, AnsweredRequest
<1>. QED
  BY <1>3 DEF Purpose, SaveThens, WizardOps

\* Every answer to a card's page keeps the invariant of the pages.
LEMMA WizardAnswered ==
  ASSUME InWizard, OwnerAnswered
  PROVE  PagesInv'
  BY AutoAnswered, FlushAnswered, StepAnswered, PublishSaveAnswered, PublishedAnswered, GuestAnswered, ImportAnswered,
     ImportSaveAnswered, PhotoComes, NoFeedAnswer DEF OwnerAnswered

-----------------------------------------------------------------------------
\* The list of invitations.

InFeedPage == RecordShape /\ PagesInv /\ tab.page = "feed"

\* What holds of the list of invitations, part by part.
LEMMA InFeedParts ==
  ASSUME InFeedPage
  PROVE  /\ CardsShaped(tab) /\ IsSeq(tab.queue) /\ (\A k \in Positions(tab.queue) : SentShaped(tab.queue[k]))
         /\ FeedFits(tab, call[Owner]) /\ CallShaped(call[Owner]) /\ LoadFits
<1>1. Owner \in Callers
  BY DEF Callers
<1>2. TabShaped(tab) /\ FeedFits(tab, call[Owner]) /\ LoadFits /\ CallShaped(call[Owner])
  BY <1>1 DEF InFeedPage, PagesInv, RecordShape
<1>. QED
  BY <1>2 DEF TabShaped, CardsShaped

\* A request is sent; the page waits for its answer.
LEMMA FeedSends ==
  ASSUME InFeedPage, NEW r, ~tab.loading, OnTab(Enqueue([tab EXCEPT !.loading = TRUE], r)), SentShaped(r), r.op \in FeedOps
  PROVE  PagesInv'
<1>. DEFINE p == [tab EXCEPT !.loading = TRUE]  s == Enqueue(p, r)
<1>1. p.loading = TRUE /\ CardsShaped(p) /\ p.queue = tab.queue /\ p.page = tab.page
  BY InFeedParts, LoadingParts
<1>2. tab' = s /\ UNCHANGED <<invitation, recipient, object, call, scope>>
  BY DEF OnTab, Others, recordVars
<1>. HIDE DEF p
<1>3. TabShaped(s) /\ Grew(s.queue, p.queue, r) /\ s.page = p.page /\ s.loading = p.loading
  BY <1>1, InFeedParts, EnqueueFields
<1>. HIDE DEF s
<1>4. FeedFits(tab, call[Owner]) /\ LoadFits /\ IsSeq(tab.queue)
  BY InFeedParts
<1>5. FeedFits(s, call[Owner])
  BY <1>1, <1>3, <1>4 DEF FeedFits, Grew, Positions
<1>6. \A i : Recipients(i)' = Recipients(i)
  BY <1>2 DEF Recipients
<1>7. LoadFits'
  BY <1>2, <1>4, <1>6 DEF LoadFits
<1>8. tab'.page = "feed"
  BY <1>1, <1>2, <1>3 DEF InFeedPage
<1>. QED
  BY <1>2, <1>3, <1>5, <1>7, <1>8 DEF PagesInv

\* A request of the list has the shape of a call.
LEMMA FeedRequestShaped ==
  ASSUME NEW r, r.op \in FeedOps, Purpose(r.op, r.then), DOMAIN r.card = DOMAIN NoCard, r.old = NoCard, r.seen = NoCounts,
         r.alone = TRUE, DOMAIN r = DOMAIN NoCall,
         IF r.op = "create" THEN r.pc = "create" ELSE r.pc = "check" /\ r.inv \in Invites
  PROVE  SentShaped(r)
  BY DEF SentShaped, CallShaped, FeedOps, Stages, GuestOps, Ended

\* The fields of a request about a listed invitation.
LEMMA FeedRequestFields ==
  ASSUME NEW op, NEW then, NEW i
  PROVE  LET r == [Request(op, then) EXCEPT !.inv = i]
         IN  /\ r.op = op /\ r.pc = "check" /\ r.inv = i /\ r.then = then /\ r.card = NoCard /\ r.old = NoCard
             /\ r.seen = NoCounts /\ r.alone = TRUE /\ DOMAIN r = DOMAIN NoCall
  BY DEF Request, NoCall

\* The buttons of the list keep the invariant of the pages.
LEMMA FeedButtons ==
  ASSUME InFeedPage, CreateButton \/ DuplicateButton \/ DeleteButton \/ ManageLink
  PROVE  PagesInv'
<1>1. CASE CreateButton
  <2>. DEFINE r == [Request("create", "made") EXCEPT !.pc = "create"]
  <2>1. ~tab.loading /\ OnTab(Enqueue([tab EXCEPT !.loading = TRUE], r))
    BY <1>1 DEF CreateButton, InFeed
  <2>2. /\ r.op = "create" /\ r.pc = "create" /\ r.then = "made" /\ r.card = NoCard /\ r.old = NoCard
        /\ r.seen = NoCounts /\ r.alone = TRUE /\ DOMAIN r = DOMAIN NoCall
    BY DEF Request, NoCall
  <2>. HIDE DEF r
  <2>3. r.op \in FeedOps /\ Purpose(r.op, r.then)
    BY <2>2 DEF FeedOps, Purpose
  <2>4. SentShaped(r)
    BY <2>2, <2>3, FeedRequestShaped
  <2>. QED
    BY <2>1, <2>3, <2>4, FeedSends
<1>2. CASE DuplicateButton \/ DeleteButton \/ ManageLink
  <2>1. PICK op, then : Purpose(op, then) /\ op \in {"duplicate", "drop", "detail"} /\ FeedButton(op, then)
    <3>1. Purpose("duplicate", "made") /\ Purpose("drop", "feed") /\ Purpose("detail", "load")
      BY DEF Purpose
    <3>. QED
      BY <1>2, <3>1 DEF DuplicateButton, DeleteButton, ManageLink
  <2>2. PICK i \in Invites : OnTab(Enqueue([tab EXCEPT !.loading = TRUE], [Request(op, then) EXCEPT !.inv = i]))
    BY <2>1 DEF FeedButton
  <2>. DEFINE r == [Request(op, then) EXCEPT !.inv = i]
  <2>3. ~tab.loading /\ OnTab(Enqueue([tab EXCEPT !.loading = TRUE], r))
    BY <2>1, <2>2 DEF FeedButton, InFeed
  <2>4. /\ r.op = op /\ r.pc = "check" /\ r.inv = i /\ r.then = then /\ r.card = NoCard /\ r.old = NoCard
        /\ r.seen = NoCounts /\ r.alone = TRUE /\ DOMAIN r = DOMAIN NoCall
    BY FeedRequestFields
  <2>. HIDE DEF r
  <2>5. r.op \in FeedOps /\ r.op # "create"
    BY <2>1, <2>4 DEF FeedOps
  <2>6. SentShaped(r)
    BY <2>1, <2>4, <2>5, FeedRequestShaped
  <2>. QED
    BY <2>3, <2>5, <2>6, FeedSends
<1>. QED
  BY <1>1, <1>2

\* An answer is taken, and the list stays.
LEMMA FeedTakes ==
  ASSUME InFeedPage, NEW s, Taken(s), TabShaped(s), s.page = "feed", FeedFits(s, NoCall)
  PROVE  PagesInv'
<1>1. tab' = s /\ With(Owner, NoCall)
  BY DEF Taken
<1>2. call'[Owner] = NoCall
  BY <1>1, CallAfter DEF InFeedPage, Callers
<1>3. LoadFits'
  BY <1>2, NoCallShaped DEF LoadFits
<1>. QED
  BY <1>1, <1>2, <1>3 DEF PagesInv

\* An answer to the list is to the one request it sent.
LEMMA FeedAnsweredRequest ==
  ASSUME InFeedPage, NEW o, o = call[Owner], NEW then, Then(then), then # "none"
  PROVE  /\ o.then = then /\ Purpose(o.op, then) /\ (Ok <=> o.pc = "ok") /\ o.op \in FeedOps /\ Len(tab.queue) = 0
         /\ o.op # "none"
<1>1. CallShaped(o) /\ FeedFits(tab, o) /\ o.then = then /\ o.pc \in {"ok", "error"} /\ (Ok <=> o.pc = "ok")
  BY InFeedParts DEF Then, Ok, At, Ended
<1>2. Purpose(o.op, then) /\ o.op # "none"
  BY <1>1 DEF CallShaped
<1>3. o.op \in FeedOps /\ Len(tab.queue) = 0
  BY <1>1 DEF FeedFits
<1>. QED
  BY <1>1, <1>2, <1>3

\* A list that no longer waits keeps the invariant of the pages.
LEMMA FeedFrees ==
  ASSUME InFeedPage, Taken([tab EXCEPT !.loading = FALSE]), Len(tab.queue) = 0
  PROVE  PagesInv'
<1>. DEFINE s == [tab EXCEPT !.loading = FALSE]
<1>1. CardsShaped(s) /\ SamePage(s, tab) /\ s.loading = FALSE
  BY InFeedParts, FreeParts
<1>2. Taken(s)
  OBVIOUS
<1>. HIDE DEF s
<1>3. TabShaped(s) /\ s.page = "feed" /\ Len(s.queue) = 0
  BY <1>1, InFeedParts DEF SamePage, TabShaped, CardsShaped, InFeedPage
<1>4. FeedFits(s, NoCall)
  BY <1>3, NoCallShaped DEF FeedFits, Positions, NoCall
<1>. QED
  BY <1>2, <1>3, <1>4, FeedTakes

\* A card that was made or copied is asked for next.
LEMMA MakingAnswered ==
  ASSUME InFeedPage, Made
  PROVE  PagesInv'
<1>1. PICK o : o = call[Owner]
  OBVIOUS
<1>. DEFINE r == [Request("detail", "load") EXCEPT !.inv = o.inv]  s == Enqueue(tab, r)
<1>2. Then("made") /\ IF Ok THEN Taken(s) ELSE Taken([tab EXCEPT !.loading = FALSE])
  BY <1>1 DEF Made
<1>3. o.then = "made" /\ Len(tab.queue) = 0 /\ (Ok <=> o.pc = "ok") /\ o.op # "none" /\ o.op \in FeedOps
  BY <1>1, <1>2, FeedAnsweredRequest
<1>4. CASE Ok
  <2>1. o.inv \in Invites
    BY <1>1, <1>3, <1>4, InFeedParts DEF CallShaped
  <2>2. /\ r.op = "detail" /\ r.pc = "check" /\ r.inv = o.inv /\ r.then = "load" /\ r.card = NoCard /\ r.old = NoCard
        /\ r.seen = NoCounts /\ r.alone = TRUE /\ DOMAIN r = DOMAIN NoCall
    BY DEF Request, NoCall
  <2>. HIDE DEF r
  <2>3. r.op \in FeedOps /\ Purpose(r.op, r.then)
    BY <2>2 DEF FeedOps, Purpose
  <2>4. SentShaped(r)
    BY <2>1, <2>2, <2>3, FeedRequestShaped
  <2>5. TabShaped(s) /\ Grew(s.queue, tab.queue, r) /\ s.page = tab.page /\ s.loading = tab.loading
    BY <2>4, InFeedParts, EnqueueFields
  <2>. HIDE DEF s
  <2>6. tab.loading
    BY <1>1, <1>3, <1>4, InFeedParts DEF FeedFits
  <2>7. FeedFits(s, NoCall)
    BY <1>3, <2>3, <2>5, <2>6, NoCallShaped DEF FeedFits, Positions, NoCall, Grew
  <2>. QED
    BY <1>2, <1>4, <2>5, <2>7, FeedTakes DEF InFeedPage
<1>5. CASE ~Ok
  BY <1>2, <1>3, <1>5, FeedFrees
<1>. QED
  BY <1>4, <1>5

\* The answer to a deletion keeps the invariant of the pages.
LEMMA DropAnswered ==
  ASSUME InFeedPage, Dropped
  PROVE  PagesInv'
<1>1. Then("feed") /\ Taken([tab EXCEPT !.loading = FALSE])
  BY DEF Dropped
<1>2. PICK o : o = call[Owner]
  OBVIOUS
<1>3. Len(tab.queue) = 0
  BY <1>1, <1>2, FeedAnsweredRequest
<1>. QED
  BY <1>1, <1>3, FeedFrees

\* A card's page opens with the card and the guests of the rows.
LEMMA LoadAnswered ==
  ASSUME InFeedPage, Loaded
  PROVE  PagesInv'
<1>1. PICK o : o = call[Owner]
  OBVIOUS
<1>2. PICK published, step :
        /\ Then("load")
        /\ IF Ok THEN Taken([NewTab EXCEPT !.page = "wizard", !.inv = o.inv, !.ref = o.old, !.shown = o.old, !.list = o.list,
                                           !.published = published, !.step = step])
           ELSE Taken(NewTab)
  BY <1>1 DEF Loaded
<1>3. Purpose(o.op, "load") /\ (Ok <=> o.pc = "ok")
  BY <1>1, <1>2, FeedAnsweredRequest
<1>4. o.op = "detail"
  BY <1>3 DEF Purpose, SaveThens
<1>5. CASE Ok
  <2>. DEFINE s == [NewTab EXCEPT !.page = "wizard", !.inv = o.inv, !.ref = o.old, !.shown = o.old, !.list = o.list,
                                  !.published = published, !.step = step]
              card == invitation[o.inv].card  rows == Recipients(o.inv)  stored == o.inv \in object
  <2>1. /\ s.page = "wizard" /\ s.inv = o.inv /\ s.ref = o.old /\ s.shown = o.old /\ s.list = o.list /\ s.queue = <<>>
        /\ s.timer = FALSE /\ s.patch = <<>> /\ s.doubt = FALSE /\ s.uploaded = FALSE /\ DOMAIN s = DOMAIN NewTab
    BY DEF NewTab
  <2>2. Taken(s)
    BY <1>2, <1>5
  <2>. HIDE DEF s
  <2>3. o.inv \in Invites /\ invitation[o.inv].exists /\ o.list = rows /\ o.old = card
    BY <1>1, <1>3, <1>4, <1>5, InFeedParts DEF LoadFits
  <2>. HIDE DEF card, rows, stored
  <2>4. IsSeq(<<>>) /\ Positions(<<>>) = {}
    BY DEF IsSeq, Positions
  <2>5. TabShaped(s)
    BY <1>1, <2>1, <2>4, InFeedParts DEF TabShaped, CallShaped
  <2>6. NoCall.op = "none" /\ NoCall.pc = "idle" /\ NoCall.then = "none"
    BY DEF NoCall
  <2>7. OpsFit(s, NoCall) /\ ListFits(s, NoCall, rows) /\ OldFits(NoCall, card) /\ PhotoFits(s, NoCall, card, stored)
    BY <2>1, <2>3, <2>4, <2>6 DEF OpsFit, ListFits, OldFits, PhotoFits
  <2>8. ChainFits(s, NoCall, scope)
    BY <2>1, <2>4, <2>6 DEF ChainFits, Chain, Busy, GuestThens
  <2>9. TextFits(s, NoCall, card)
    BY <2>1, <2>3, <2>4, <2>6 DEF TextFits
  <2>10. tab' = s /\ UNCHANGED <<invitation, recipient, object, scope>> /\ With(Owner, NoCall)
    BY <2>2 DEF Taken
  <2>11. call'[Owner] = NoCall
    BY <2>10, CallAfter DEF InFeedPage, Callers
  <2>12. LoadFits'
    BY <2>6, <2>11 DEF LoadFits
  <2>13. PICK i \in Invites : i = o.inv
    BY <2>3
  <2>14. Recipients(i)' = rows /\ invitation'[i].card = card /\ invitation'[i].exists /\ (i \in object' <=> stored)
    BY <2>3, <2>10, <2>13 DEF Recipients, rows, card, stored
  <2>15. tab'.inv = i /\ tab'.page = "wizard"
    BY <2>1, <2>10, <2>13
  <2>16. Recipients(tab.inv)' = rows
    BY <2>14, <2>15 DEF Recipients
  <2>17. WizardFits(s, NoCall, scope, card, rows, stored)
    BY <2>7, <2>8, <2>9 DEF WizardFits
  <2>18. (i \in object') = stored
    BY <2>14, <2>13, <2>10 DEF stored
  <2>19. WizardFits(tab', call'[Owner], scope', invitation'[i].card, rows, i \in object')
    BY <2>10, <2>11, <2>14, <2>17, <2>18
  <2>. QED
    BY <2>5, <2>10, <2>12, <2>14, <2>15, <2>16, <2>19 DEF PagesInv
<1>6. CASE ~Ok
  <2>1. FeedFits(NewTab, NoCall)
    BY NewTabShaped DEF FeedFits, Positions, NoCall
  <2>. QED
    BY <1>2, <1>6, <2>1, NewTabShaped, FeedTakes
<1>. QED
  BY <1>5, <1>6

\* Every answer to the list keeps the invariant of the pages.
LEMMA FeedAnswered ==
  ASSUME InFeedPage, OwnerAnswered
  PROVE  PagesInv'
<1>1. CASE Made \/ Dropped \/ Loaded
  BY <1>1, MakingAnswered, DropAnswered, LoadAnswered
<1>2. CASE ~(Made \/ Dropped \/ Loaded)
  <2>1. PICK o : o = call[Owner]
    OBVIOUS
  <2>2. PICK then \in SaveThens \cup {"add", "remove", "import", "published", "photo"} : Then(then)
    <3>1. FlushThen.step = "flush-step" /\ FlushThen.stay = "flush-stay" /\ FlushThen.publish = "flush-publish"
      BY DEF FlushThen
    <3>. QED
      BY <1>2, <3>1 DEF OwnerAnswered, AutoSaved, Flushed, Stepped, PublishSaved, PublishAnswered, GuestAdded, GuestRemoved,
         Imported, ImportSaved, PhotoAnswered, SaveThens
  <2>3. Purpose(o.op, then) /\ o.op \in FeedOps
    BY <2>1, <2>2, FeedAnsweredRequest DEF SaveThens
  <2>. QED
    BY <2>2, <2>3 DEF Purpose, SaveThens, FeedOps
<1>. QED
  BY <1>1, <1>2

-----------------------------------------------------------------------------
\* The first request of the queue is called.

\* Start calls the request as it is, and changes no other call but that it is
\* alone.
LEMMA OwnerStarts ==
  ASSUME NEW c \in Callers, NEW f, DOMAIN f = DOMAIN NoCall, Start(c, f)
  PROVE  /\ LET o == call'[c] IN Called(o, f) /\ o.list = f.list
         /\ \A x \in Callers \ {c} : call'[x] = call[x] \/ call'[x] = [call[x] EXCEPT !.alone = FALSE]
  BY DEF Start, Called, NoCall

\* An idle owner has no call.
LEMMA Idles ==
  ASSUME RecordShape, call[Owner].pc = "idle"
  PROVE  call[Owner] = NoCall
<1>1. CallShaped(call[Owner])
  BY DEF RecordShape, Callers
<1>. QED
  BY <1>1 DEF CallShaped, Stages, Ended

\* The first request of the queue is one the page sent.
LEMMA HeadSent ==
  ASSUME RecordShape, PagesInv, SendNext
  PROVE  /\ Shrank(Tail(tab.queue), tab.queue) /\ Head(tab.queue) = tab.queue[1] /\ SentShaped(tab.queue[1])
         /\ 1 \in Positions(tab.queue)
<1>1. TabShaped(tab) /\ tab.queue # <<>>
  BY DEF PagesInv, SendNext
<1>2. Shrank(Tail(tab.queue), tab.queue) /\ Head(tab.queue) = tab.queue[1] /\ 1 \in Positions(tab.queue)
  BY <1>1, QueueShrinks DEF TabShaped
<1>. QED
  BY <1>1, <1>2 DEF TabShaped

\* Calling the first request keeps the invariant of the pages.
LEMMA PagesSend ==
  ASSUME RecordShape, PagesInv, SendNext
  PROVE  PagesInv'
<1>. DEFINE s == [tab EXCEPT !.queue = Tail(@)]
<1>1. PICK r : r = tab.queue[1]
  OBVIOUS
<1>2. Shrank(Tail(tab.queue), tab.queue) /\ Head(tab.queue) = r /\ SentShaped(r) /\ 1 \in Positions(tab.queue)
  BY <1>1, HeadSent
<1>3. tab' = s /\ UNCHANGED <<invitation, recipient, object, scope>> /\ Start(Owner, r)
  BY <1>2 DEF SendNext
<1>4. call[Owner] = NoCall
  BY Idles DEF SendNext, At
<1>5. PICK f : f = call'[Owner]
  OBVIOUS
<1>6. Called(f, r)
  <2>1. Owner \in Callers /\ DOMAIN r = DOMAIN NoCall
    BY <1>2 DEF Callers, SentShaped, CallShaped
  <2>. QED
    BY <1>3, <1>5, <2>1, OwnerStarts
<1>7. /\ s.queue = Tail(tab.queue) /\ DOMAIN s = DOMAIN tab
      /\ s.page = tab.page /\ s.inv = tab.inv /\ s.published = tab.published /\ s.step = tab.step /\ s.ref = tab.ref
      /\ s.shown = tab.shown /\ s.timer = tab.timer /\ s.patch = tab.patch /\ s.loading = tab.loading /\ s.list = tab.list
      /\ s.doubt = tab.doubt /\ s.uploaded = tab.uploaded
  <2>1. DOMAIN tab = DOMAIN NewTab
    BY DEF PagesInv, TabShaped
  <2>. QED
    BY <2>1 DEF NewTab
<1>. HIDE DEF s
<1>8. r.pc \in {"check", "create"}
  BY <1>2 DEF SentShaped
<1>9. LoadFits'
  BY <1>5, <1>6, <1>8 DEF LoadFits, Called
<1>10. TabShaped(s)
  <2>1. TabShaped(tab)
    BY DEF PagesInv
  <2>2. IsSeq(s.queue) /\ \A k \in Positions(s.queue) : SentShaped(s.queue[k])
    BY <1>2, <1>7, <2>1 DEF TabShaped, Shrank, Positions
  <2>. QED
    BY <1>7, <2>1, <2>2 DEF TabShaped
<1>11. CASE tab.page = "feed"
  <2>1. FeedFits(tab, NoCall)
    BY <1>4, <1>11 DEF PagesInv
  <2>2. Len(tab.queue) = 1 /\ Len(s.queue) = 0 /\ tab.loading /\ r.op \in FeedOps
    <3>1. Len(tab.queue) <= 1 /\ r.op \in FeedOps
      BY <1>1, <1>2, <2>1, NoCallShaped DEF FeedFits
    <3>2. Len(tab.queue) = 1 /\ Len(s.queue) = 0
      <4>1. PICK n : n = Len(s.queue)
        OBVIOUS
      <4>2. n \in Nat /\ Len(tab.queue) = n + 1
        BY <1>2, <1>7, <4>1 DEF Shrank
      <4>. QED
        BY <3>1, <4>1, <4>2
    <3>. QED
      BY <2>1, <3>1, <3>2 DEF FeedFits
  <2>3. FeedFits(s, f)
    BY <1>6, <1>7, <1>8, <2>2 DEF FeedFits, Called, Positions
  <2>. QED
    BY <1>3, <1>5, <1>7, <1>9, <1>10, <1>11, <2>3 DEF PagesInv
<1>12. CASE tab.page = "wizard"
  <2>1. tab.inv \in Invites /\ invitation[tab.inv].exists
        /\ WizardFits(tab, NoCall, scope, invitation[tab.inv].card, Recipients(tab.inv), tab.inv \in object)
    BY <1>4, <1>12 DEF PagesInv
  <2>2. r.pc = "check"
    BY <1>1, <1>2, <2>1 DEF WizardFits, OpsFit, WizardOps, SentShaped
  <2>3. WizardFits(s, f, scope, invitation[tab.inv].card, Recipients(tab.inv), tab.inv \in object)
    BY <1>1, <1>2, <1>6, <1>7, <2>1, <2>2, NoCallShaped, WizardCalled
  <2>4. Recipients(tab.inv)' = Recipients(tab.inv) /\ tab'.inv = tab.inv
    BY <1>3, <1>7 DEF Recipients
  <2>5. WizardFits(tab', call'[Owner], scope', invitation'[tab'.inv].card, Recipients(tab.inv), tab'.inv \in object')
    BY <1>3, <1>5, <2>3, <2>4
  <2>6. tab'.inv \in Invites /\ invitation'[tab'.inv].exists
    BY <1>3, <2>1, <2>4
  <2>. QED
    BY <1>3, <1>7, <1>9, <1>10, <1>12, <2>4, <2>5, <2>6 DEF PagesInv
<1>. QED
  BY <1>11, <1>12 DEF PagesInv

-----------------------------------------------------------------------------
\* The guests use their links: the owner's page and call are what they were.

SameCall(p, o) ==
  /\ p.op = o.op /\ p.pc = o.pc /\ p.then = o.then /\ p.inv = o.inv /\ p.guest = o.guest
  /\ p.card = o.card /\ p.old = o.old /\ p.list = o.list

\* What holds of a card's page does not depend on whether its call is alone.
LEMMA SameCallFits ==
  ASSUME NEW t, NEW o, NEW p, NEW sc, NEW card, NEW rows, NEW stored, SameCall(p, o), WizardFits(t, o, sc, card, rows, stored)
  PROVE  WizardFits(t, p, sc, card, rows, stored)
<1>1. /\ p.op = o.op /\ p.pc = o.pc /\ p.then = o.then /\ p.inv = o.inv /\ p.guest = o.guest
      /\ p.card = o.card /\ p.old = o.old /\ p.list = o.list
  BY DEF SameCall
<1>2. OpsFit(t, p) /\ ListFits(t, p, rows) /\ OldFits(p, card) /\ PhotoFits(t, p, card, stored)
  BY <1>1 DEF WizardFits, OpsFit, ListFits, OldFits, PhotoFits
<1>3. ChainFits(t, p, sc) /\ TextFits(t, p, card)
  BY <1>1 DEF WizardFits, ChainFits, TextFits
<1>. QED
  BY <1>2, <1>3 DEF WizardFits

\* While cards, guests' cards and photos stay, the invariant of the pages
\* does.
LEMMA PagesKept ==
  ASSUME PagesInv, UNCHANGED <<tab, scope, object>>, SameCall(call'[Owner], call[Owner]),
         \A i \in Invites : /\ invitation'[i].exists = invitation[i].exists /\ invitation'[i].card = invitation[i].card
                            /\ Recipients(i)' = Recipients(i)
  PROVE  PagesInv'
<1>1. PICK o, p : o = call[Owner] /\ p = call'[Owner]
  OBVIOUS
<1>2. SameCall(p, o)
  BY <1>1
<1>3. LoadFits'
  <2>. SUFFICES ASSUME p.op = "detail", p.pc = "ok"
                PROVE  p.inv \in Invites /\ invitation'[p.inv].exists /\ p.list = Recipients(p.inv)' /\ p.old = invitation'[p.inv].card
    BY <1>1 DEF LoadFits
  <2>1. p.inv = o.inv /\ o.inv \in Invites /\ invitation[o.inv].exists /\ p.list = Recipients(o.inv) /\ p.old = invitation[o.inv].card
    BY <1>1, <1>2 DEF PagesInv, LoadFits, SameCall
  <2>2. PICK i \in Invites : i = o.inv
    BY <2>1
  <2>3. Recipients(i)' = Recipients(i)
    OBVIOUS
  <2>4. Recipients(p.inv)' = Recipients(o.inv)
    BY <2>1, <2>2, <2>3 DEF Recipients
  <2>. QED
    BY <2>1, <2>4
<1>4. CASE tab.page = "feed"
  <2>1. FeedFits(tab, p)
    BY <1>1, <1>2, <1>4 DEF PagesInv, FeedFits, SameCall
  <2>. QED
    BY <1>1, <1>3, <1>4, <2>1 DEF PagesInv
<1>5. CASE tab.page = "wizard"
  <2>1. PICK i \in Invites : i = tab.inv
    BY <1>5 DEF PagesInv
  <2>2. WizardFits(tab, p, scope, invitation[i].card, Recipients(i), i \in object)
    BY <1>1, <1>2, <1>5, <2>1, SameCallFits DEF PagesInv
  <2>3. WizardFits(tab, p, scope, invitation'[i].card, Recipients(i), i \in object)
    BY <2>2
  <2>4. Recipients(tab.inv)' = Recipients(i)
    <3>1. Recipients(i)' = Recipients(i)
      OBVIOUS
    <3>. QED
      BY <2>1, <3>1 DEF Recipients
  <2>5. invitation'[tab.inv].exists
    BY <1>5, <2>1 DEF PagesInv
  <2>. QED
    BY <1>1, <1>3, <1>5, <2>1, <2>3, <2>4, <2>5 DEF PagesInv
<1>. QED
  BY <1>4, <1>5 DEF PagesInv

\* Which steps change a card or a photo in storage.
LEMMA CardsStep ==
  ASSUME RecordShape, NEW c \in Callers, RecordStep(c, tab.list)
  PROVE  /\ \/ \A i \in Invites : invitation'[i].exists = invitation[i].exists /\ invitation'[i].card = invitation[i].card
            \/ CreateDraft(c) \/ InsertCopy(c) \/ DeleteInvitation(c) \/ StoreCard(c)
         /\ object' = object \/ PhotoStep(c)
<1>1. DOMAIN invitation = Invites /\ \A i \in Invites : DOMAIN invitation[i] = DOMAIN NoInvitation
  BY DEF RecordShape, RowShaped
<1>2. ASSUME NEW i, NEW row, Update(i, row), i \in Invites => row.exists = invitation[i].exists /\ row.card = invitation[i].card
      PROVE  \A j \in Invites : invitation'[j].exists = invitation[j].exists /\ invitation'[j].card = invitation[j].card
  BY <1>1, <1>2 DEF Update
<1>3. PICK i : i = call[c].inv
  OBVIOUS
<1>4. ASSUME NEW x, i \in Invites
      PROVE  /\ [invitation[i] EXCEPT !.counts.guests = x].exists = invitation[i].exists
             /\ [invitation[i] EXCEPT !.counts.guests = x].card = invitation[i].card
             /\ [invitation[i] EXCEPT !.counts = x].exists = invitation[i].exists
             /\ [invitation[i] EXCEPT !.counts = x].card = invitation[i].card
             /\ [invitation[i] EXCEPT !.status = x].exists = invitation[i].exists
             /\ [invitation[i] EXCEPT !.status = x].card = invitation[i].card
             /\ [invitation[i] EXCEPT !.counts.responses = x].exists = invitation[i].exists
             /\ [invitation[i] EXCEPT !.counts.responses = x].card = invitation[i].card
  BY <1>1, <1>4 DEF NoInvitation
<1>5. CASE StoreCount(c) \/ StoreStats(c) \/ Publish(c) \/ StoreCounts(c)
  <2>. DEFINE Keeps(row) == Update(i, row) /\ (i \in Invites => row.exists = invitation[i].exists /\ row.card = invitation[i].card)
  <2>3. \E row : Keeps(row)
    <3>1. CASE StoreCount(c)
      <4>1. Keeps([invitation[i] EXCEPT !.counts.guests = call[c].seen.guests])
        BY <1>3, <1>4, <3>1 DEF StoreCount
      <4>. QED
        BY <4>1
    <3>2. CASE StoreStats(c)
      <4>1. Keeps([invitation[i] EXCEPT !.counts = [call[c].seen EXCEPT !.guests = invitation[i].counts.guests]])
        BY <1>3, <1>4, <3>2 DEF StoreStats
      <4>. QED
        BY <4>1
    <3>3. CASE Publish(c)
      <4>1. Keeps([invitation[i] EXCEPT !.status = "published"])
        BY <1>3, <1>4, <3>3 DEF Publish
      <4>. QED
        BY <4>1
    <3>4. CASE StoreCounts(c)
      <4>1. Keeps([invitation[i] EXCEPT !.counts.responses = Adjusted(call[c].seen.responses, call[c].was, call[c].rsvp)])
        BY <1>3, <1>4, <3>4 DEF StoreCounts
      <4>. QED
        BY <4>1
    <3>. QED
      BY <1>5, <3>1, <3>2, <3>3, <3>4
  <2>1. PICK row : Keeps(row)
    BY <2>3
  <2>2. object' = object
    BY <1>5 DEF StoreCount, StoreStats, Publish, StoreCounts
  <2>. QED
    BY <1>2, <2>1, <2>2
<1>6. CASE invitation' = invitation
  <2>1. object' = object \/ PhotoStep(c)
    BY DEF RecordStep, Kept, GetOwnedInvitation, GetDetail, CreateDraft, InsertRecipient, DeleteRecipient, CountRecipients,
         StoreCount, StoreStats, TallyStats, ReadGuests, Publish, InsertCopy, DeleteRecipients, DeleteInvitation, FindRecipient,
         ReadCard, SetOpened, ReadAgain, RsvpAllowed, StoreRsvp, ReadCounts, StoreCounts, StoreCard, CallFails
  <2>. QED
    BY <1>6, <2>1
<1>7. CASE CreateDraft(c) \/ InsertCopy(c) \/ DeleteInvitation(c) \/ StoreCard(c)
  BY <1>7 DEF CreateDraft, InsertCopy, DeleteInvitation, StoreCard
<1>. QED
  <2>1. invitation' = invitation \/ StoreCount(c) \/ StoreStats(c) \/ Publish(c) \/ StoreCounts(c)
        \/ CreateDraft(c) \/ InsertCopy(c) \/ DeleteInvitation(c) \/ StoreCard(c)
    BY DEF RecordStep, Kept, GetOwnedInvitation, GetDetail, InsertRecipient, DeleteRecipient, CountRecipients,
         TallyStats, ReadGuests, DeleteRecipients, FindRecipient,
         ReadCard, SetOpened, ReadAgain, RsvpAllowed, StoreRsvp, ReadCounts, PhotoStep, CallFails
  <2>. QED
    BY <1>5, <1>6, <1>7, <2>1

\* A guest's call that starts keeps the invariant of the pages.
LEMMA GuestPagesStart ==
  ASSUME RecordShape, PagesInv, NEW g \in Guests, g # Owner, OpenLink(g) \/ SubmitRsvp(g)
  PROVE  PagesInv'
<1>1. UNCHANGED <<invitation, recipient, object, scope, tab>>
  BY DEF OpenLink, SubmitRsvp
<1>2. PICK f : DOMAIN f = DOMAIN NoCall /\ Start(g, f)
  <2>1. CASE OpenLink(g)
    BY <2>1 DEF OpenLink, NoCall
  <2>2. CASE SubmitRsvp(g)
    BY <2>2 DEF SubmitRsvp, NoCall
  <2>. QED
    BY <2>1, <2>2
<1>3. Owner \in Callers \ {g} /\ g \in Callers
  BY DEF Callers
<1>4. call'[Owner] = call[Owner] \/ call'[Owner] = [call[Owner] EXCEPT !.alone = FALSE]
  BY <1>2, <1>3, OwnerStarts
<1>5. SameCall(call'[Owner], call[Owner])
  <2>1. DOMAIN call[Owner] = DOMAIN NoCall
    BY <1>3 DEF RecordShape, CallShaped
  <2>. QED
    BY <1>4, <2>1 DEF SameCall, NoCall
<1>6. \A i \in Invites : Recipients(i)' = Recipients(i)
  BY <1>1 DEF Recipients
<1>. QED
  BY <1>1, <1>5, <1>6, PagesKept

\* A guest's answer keeps the invariant of the pages.
LEMMA GuestPagesAnswered ==
  ASSUME RecordShape, PagesInv, NEW g \in Guests, g # Owner, LinkAnswered(g)
  PROVE  PagesInv'
<1>1. UNCHANGED <<invitation, recipient, object, scope, tab>> /\ With(g, NoCall)
  BY DEF LinkAnswered
<1>2. call'[Owner] = call[Owner]
  BY <1>1, CallAfter DEF Callers
<1>3. SameCall(call'[Owner], call[Owner])
  BY <1>2 DEF SameCall
<1>4. \A i \in Invites : Recipients(i)' = Recipients(i)
  BY <1>1 DEF Recipients
<1>. QED
  BY <1>1, <1>3, <1>4, PagesKept

\* A step of a guest's handler keeps the invariant of the pages.
LEMMA GuestPagesStep ==
  ASSUME RecordShape, PagesInv, NEW g \in Guests, g # Owner, RecordStep(g, tab.list), UNCHANGED <<scope, tab>>
  PROVE  PagesInv'
<1>0. g \in Callers /\ Owner \in Callers /\ CallShaped(call[g])
  BY DEF Callers, RecordShape
<1>1. PICK f : call' = [call EXCEPT ![g] = f] /\ call[g].op # "none"
  BY <1>0, CallStep
<1>2. call[g].op \in GuestOps /\ call'[Owner] = call[Owner]
  BY <1>0, <1>1, CallAfter DEF RecordShape, With
<1>3. call[g].pc \in Stages(call[g].op) \cup Ended
  BY <1>0, <1>1 DEF CallShaped
<1>4. call[g].pc \notin {"insert", "delete", "unlist", "create", "copy", "erase", "merge", "purge", "put"}
  BY <1>2, <1>3 DEF Stages, GuestOps, Ended
<1>5. GuestsKept
  BY <1>0, <1>4, GuestsStep DEF InsertRecipient, DeleteRecipient, DeleteRecipients, At
<1>6. \A i \in Invites : invitation'[i].exists = invitation[i].exists /\ invitation'[i].card = invitation[i].card
  BY <1>0, <1>4, CardsStep DEF CreateDraft, InsertCopy, DeleteInvitation, StoreCard, At
<1>7. object' = object
  BY <1>0, <1>4, CardsStep DEF PhotoStep, At
<1>8. \A i \in Invites : Recipients(i)' = Recipients(i)
  BY <1>5, SameGuests
<1>9. SameCall(call'[Owner], call[Owner])
  BY <1>2 DEF SameCall
<1>. QED
  BY <1>6, <1>7, <1>8, <1>9, PagesKept

-----------------------------------------------------------------------------
\* A step of the handler that the page of a card called: o before and f after
\* it, with the card, the guests and the photo of its row.

Moves(o, f, card, cd, rows, rs, stored, st) ==
  /\ f.op = o.op /\ f.then = o.then
  /\ f.pc # "error" => f.inv = o.inv
  /\ \/ f.pc = "error" /\ cd = card /\ rs = rows /\ st = stored
     \/ /\ o.pc = "check" /\ f.pc \in {"insert", "delete", "guests", "merge", "purge"} /\ (f.pc = "merge" <=> o.op = "save")
        /\ f.old = card /\ f.card = o.card /\ cd = card /\ rs = rows /\ st = stored
     \/ /\ o.pc = "detail" /\ f.pc = "ok" /\ o.op \in {"save", "publish", "replace"}
        /\ f.old = card /\ f.list = rows /\ cd = card /\ rs = rows /\ st = stored
     \/ /\ o.op = "add" /\ o.pc = "insert" /\ f.pc = "count" /\ cd = card /\ rs = rows \cup {f.guest} /\ st = stored
     \/ /\ o.op = "remove" /\ o.pc = "delete" /\ f.pc = "count" /\ f.guest = o.guest
        /\ cd = card /\ rs = rows \ {o.guest} /\ st = stored
     \/ /\ o.op \in {"add", "remove"} /\ {o.pc, f.pc} \subseteq {"count", "counted", "ok"} \cup (IF o.op = "add" THEN {} ELSE {"tally", "tallied"})
        /\ f.guest = o.guest /\ cd = card /\ rs = rows /\ st = stored
     \/ /\ o.op = "publish" /\ o.pc \in {"guests", "publish"} /\ f.pc \in {"publish", "detail"}
        /\ cd = card /\ rs = rows /\ st = stored
     \/ /\ o.op \in {"save", "upload", "replace"} /\ o.pc = "merge" /\ f.pc = IF o.op = "upload" THEN "ok" ELSE "detail"
        /\ cd.text = IF o.op = "save" THEN o.card.text ELSE card.text
        /\ o.op = "save" /\ card.key => cd.key
        /\ o.op = "upload" => cd.key
        /\ rs = rows /\ st = stored
     \/ /\ o.op \in {"upload", "replace"} /\ o.pc \in {"purge", "put"} /\ f.pc \in {"put", "merge"}
        /\ o.op = "upload" /\ f.pc = "merge" => st
        /\ f.old = o.old /\ cd = card /\ rs = rows

\* Such a step keeps what holds of a card's page.
LEMMA WizardMoved ==
  ASSUME NEW t, NEW o, NEW f, NEW sc, NEW card, NEW cd, NEW rows, NEW rs, NEW stored, NEW st,
         WizardFits(t, o, sc, card, rows, stored), Moves(o, f, card, cd, rows, rs, stored, st),
         o.op \in {"upload", "replace"} => o.then = "photo", o.pc \notin {"idle", "error"}
  PROVE  WizardFits(t, f, sc, cd, rs, st)
<1>1. f.op = o.op /\ f.then = o.then /\ (f.pc # "error" => f.inv = o.inv)
  BY DEF Moves
<1>2. OpsFit(t, f)
  BY <1>1 DEF WizardFits, OpsFit
<1>3. ChainFits(t, f, sc)
  BY <1>1 DEF WizardFits, ChainFits
<1>4. ListFits(t, f, rs)
  <2>1. ListFits(t, o, rows)
    BY DEF WizardFits
  <2>. QED
    BY <2>1 DEF ListFits, Moves
<1>5. OldFits(f, cd)
  <2>1. OldFits(o, card)
    BY DEF WizardFits
  <2>. QED
    BY <2>1 DEF OldFits, Moves
<1>6. PhotoFits(t, f, cd, st)
  <2>1. PhotoFits(t, o, card, stored)
    BY DEF WizardFits
  <2>. QED
    BY <1>1, <2>1 DEF PhotoFits, Moves
<1>7. TextFits(t, f, cd)
  <2>1. TextFits(t, o, card)
    BY DEF WizardFits
  <2>. QED
    <3>1. o.op # "save" => cd.text = card.text
      BY DEF Moves
    <3>2. o.op = "save" => \/ f.pc = "error"
                           \/ f.pc = "merge" /\ o.pc = "check" /\ f.card = o.card
                           \/ f.pc = "detail" /\ o.pc = "merge" /\ cd.text = o.card.text
                           \/ f.pc = "ok" /\ o.pc = "detail" /\ cd.text = card.text
      BY DEF Moves
    <3>3. o.pc # "error"
      OBVIOUS
    <3>. QED
      BY <1>1, <2>1, <3>1, <3>2, <3>3 DEF TextFits
<1>. QED
  BY <1>2, <1>3, <1>4, <1>5, <1>6, <1>7 DEF WizardFits

\* Every step of the handler of a card's page is such a step.
LEMMA OwnerMoves ==
  ASSUME InWizard, RecordStep(Owner, tab.list), NEW i \in Invites, i = tab.inv, NEW o, o = call[Owner], NEW f, f = call'[Owner]
  PROVE  /\ Moves(o, f, invitation[i].card, invitation'[i].card, Recipients(i), Recipients(i)', i \in object, i \in object')
         /\ invitation'[i].exists /\ o.pc \notin {"idle", "error"} /\ (o.op \in {"upload", "replace"} => o.then = "photo")
<1>0. RecordShape /\ Owner \in Callers /\ CallShaped(o) /\ invitation[i].exists /\ PageFits(tab, o) /\ tab.inv = i
  BY InWizardParts DEF InWizard
<1>1. o.op \in WizardOps /\ o.op # "none"
  <2>1. PICK h : call' = [call EXCEPT ![Owner] = h] /\ o.op # "none"
    BY <1>0, CallStep
  <2>. QED
    BY <1>0, <2>1 DEF PageFits, WizardFits, OpsFit
<1>2. Purpose(o.op, o.then) /\ DOMAIN o = DOMAIN NoCall
  BY <1>0, <1>1 DEF CallShaped, WizardOps, GuestOps
<1>3. (o.op \in {"upload", "replace"} => o.then = "photo")
  BY <1>2 DEF Purpose
<1>4. o.pc # "idle" /\ o.pc \in Stages(o.op) \cup Ended
  BY <1>0, <1>1 DEF CallShaped, Stages, Ended
<1>5. o.pc \notin {"idle", "error"} => o.inv = i
  BY <1>0 DEF PageFits, WizardFits, OpsFit
<1>6. /\ o.pc \in {"purge", "put", "merge"} => o.old = invitation[i].card
  BY <1>0 DEF PageFits, WizardFits, OldFits
<1>. DEFINE card == invitation[i].card  rows == Recipients(i)  Same == UNCHANGED <<invitation, recipient, object>>
            Goal == /\ Moves(o, f, card, invitation'[i].card, rows, Recipients(i)', i \in object, i \in object')
                    /\ invitation'[i].exists /\ o.pc # "error"
<1>. SUFFICES Goal
  BY <1>3, <1>4
<1>7. Same => /\ Recipients(i)' = rows /\ invitation'[i].card = card /\ invitation'[i].exists /\ (i \in object') = (i \in object)
  BY <1>0 DEF Recipients
<1>8. ASSUME NEW h, With(Owner, h) PROVE f = h
  BY <1>0, <1>8, CallAfter
<1>9. CASE Fail(Owner) /\ Same /\ o.pc # "error"
  <2>1. f = [NoCall EXCEPT !.pc = "error", !.op = o.op, !.then = o.then]
    BY <1>8, <1>9 DEF Fail
  <2>2. f.pc = "error" /\ f.op = o.op /\ f.then = o.then
    BY <2>1 DEF NoCall
  <2>. QED
    BY <1>7, <1>9, <2>2 DEF Moves
<1>10. ASSUME NEW pc, Goto(Owner, pc) PROVE f.pc = pc /\ f.op = o.op /\ f.then = o.then /\ f.inv = o.inv /\ f.guest = o.guest /\ f.old = o.old
  <2>1. f = [o EXCEPT !.pc = pc]
    BY <1>8, <1>10 DEF Goto
  <2>. QED
    BY <1>2, <2>1 DEF NoCall
<1>11. CASE GetOwnedInvitation(Owner)
  <2>1. o.pc = "check" /\ Same /\ o.inv = i
    BY <1>5, <1>11 DEF GetOwnedInvitation, At, Kept
  <2>2. With(Owner, [o EXCEPT !.pc = First(o.op), !.old = card])
    BY <1>0, <1>11, <2>1 DEF GetOwnedInvitation
  <2>3. f = [o EXCEPT !.pc = First(o.op), !.old = card]
    BY <1>8, <2>2
  <2>4. First(o.op) \in {"insert", "delete", "guests", "merge", "purge"} /\ (First(o.op) = "merge" <=> o.op = "save")
    BY <1>1 DEF First, WizardOps
  <2>5. f.pc = First(o.op) /\ f.old = card /\ f.card = o.card /\ f.op = o.op /\ f.then = o.then /\ f.inv = o.inv
    BY <1>2, <2>3 DEF NoCall
  <2>. QED
    BY <1>7, <2>1, <2>4, <2>5 DEF Moves
<1>12. CASE GetDetail(Owner)
  <2>1. o.pc = "detail" /\ Same /\ o.inv = i
    BY <1>5, <1>12 DEF GetDetail, At, Kept
  <2>2. With(Owner, [o EXCEPT !.pc = "ok", !.old = card, !.list = rows])
    BY <1>0, <1>12, <2>1 DEF GetDetail
  <2>3. f = [o EXCEPT !.pc = "ok", !.old = card, !.list = rows]
    BY <1>8, <2>2
  <2>4. f.pc = "ok" /\ f.old = card /\ f.list = rows /\ f.op = o.op /\ f.then = o.then /\ f.inv = o.inv
    BY <1>2, <2>3 DEF NoCall
  <2>5. o.op \in {"save", "publish", "replace"}
    BY <1>1, <1>4, <2>1 DEF WizardOps, Stages, Ended
  <2>. QED
    BY <1>7, <2>1, <2>4, <2>5 DEF Moves
<1>13. CASE InsertRecipient(Owner, tab.list)
  <2>1. o.pc = "insert" /\ UNCHANGED <<invitation, object>>
    BY <1>13 DEF InsertRecipient, At
  <2>2. o.inv = i /\ o.op = "add"
    BY <1>1, <1>4, <1>5, <2>1 DEF WizardOps, Stages, Ended
  <2>3. PICK g \in Guests : /\ call' = [call EXCEPT ![Owner] = [o EXCEPT !.guest = g, !.pc = "count"]]
                            /\ \A j \in Invites : Recipients(j)' = IF j = o.inv THEN Recipients(j) \cup {g} ELSE Recipients(j)
    <3>1. PICK g \in Guests : /\ call' = [call EXCEPT ![Owner] = [call[Owner] EXCEPT !.guest = g, !.pc = "count"]]
                              /\ \A j \in Invites : Recipients(j)' = IF j = call[Owner].inv THEN Recipients(j) \cup {g} ELSE Recipients(j)
      BY <1>0, <1>13, GuestInserted, ZenonT(40)
    <3>. QED
      BY <1>0, <3>1
  <2>4. f = [o EXCEPT !.guest = g, !.pc = "count"]
    BY <1>8, <2>3 DEF With
  <2>5. f.pc = "count" /\ f.guest = g /\ f.op = o.op /\ f.then = o.then /\ f.inv = o.inv
    BY <1>2, <2>4 DEF NoCall
  <2>6. Recipients(i)' = rows \cup {g}
    BY <2>2, <2>3
  <2>. QED
    BY <1>0, <2>1, <2>2, <2>5, <2>6 DEF Moves
<1>14. CASE DeleteRecipient(Owner)
  <2>1. o.pc = "delete" /\ UNCHANGED <<invitation, object>> /\ Goto(Owner, "count")
    BY <1>14 DEF DeleteRecipient, At
  <2>2. o.inv = i /\ o.op = "remove"
    BY <1>1, <1>4, <1>5, <2>1 DEF WizardOps, Stages, Ended
  <2>3. Recipients(i)' = rows \ {o.guest}
    BY <1>0, <1>14, <2>2, GuestDeleted
  <2>4. f.pc = "count" /\ f.guest = o.guest /\ f.op = o.op /\ f.then = o.then /\ f.inv = o.inv
    BY <1>10, <2>1
  <2>. QED
    BY <1>0, <2>1, <2>2, <2>3, <2>4 DEF Moves
<1>15. CASE CountRecipients(Owner) \/ TallyStats(Owner)
  <2>1. PICK seen, pc : With(Owner, [o EXCEPT !.seen = seen, !.pc = pc])
                        /\ (IF CountRecipients(Owner) THEN o.pc = "count" /\ pc = "counted" ELSE o.pc = "tally" /\ pc = "tallied")
    BY <1>15 DEF CountRecipients, TallyStats, At
  <2>2. Same
    BY <1>15 DEF CountRecipients, TallyStats, Kept
  <2>3. f = [o EXCEPT !.seen = seen, !.pc = pc]
    BY <1>8, <2>1
  <2>4. f.pc = pc /\ f.guest = o.guest /\ f.op = o.op /\ f.then = o.then /\ f.inv = o.inv
    BY <1>2, <2>3 DEF NoCall
  <2>5. o.op \in {"add", "remove"} /\ (o.op = "add" => o.pc # "tally")
    BY <1>1, <1>4, <2>1 DEF WizardOps, Stages, Ended
  <2>. QED
    BY <1>7, <2>1, <2>2, <2>4, <2>5 DEF Moves
<1>16. CASE StoreCount(Owner) \/ StoreStats(Owner)
  <2>1. PICK seen, todo, pc :
          /\ With(Owner, [o EXCEPT !.pc = pc, !.seen = seen, !.todo = todo])
          /\ IF StoreCount(Owner) THEN o.pc = "counted" /\ pc = AfterCount(Owner)
             ELSE o.pc = "tallied" /\ pc = IF o.op = "remove" THEN "ok" ELSE "again"
    <3>1. CASE StoreCount(Owner)
      BY <3>1 DEF StoreCount, At
    <3>2. CASE StoreStats(Owner) /\ ~StoreCount(Owner)
      <4>1. [o EXCEPT !.pc = IF o.op = "remove" THEN "ok" ELSE "again", !.seen = NoCounts]
             = [o EXCEPT !.pc = IF o.op = "remove" THEN "ok" ELSE "again", !.seen = NoCounts, !.todo = o.todo]
        BY <1>2 DEF NoCall
      <4>. QED
        BY <3>2, <4>1 DEF StoreStats, At
    <3>. QED
      BY <1>16, <3>1, <3>2
  <2>2. o.op \in {"add", "remove"} /\ (o.op = "add" => o.pc # "tallied")
    BY <1>1, <1>4, <2>1 DEF WizardOps, Stages, Ended
  <2>3. f = [o EXCEPT !.pc = pc, !.seen = seen, !.todo = todo]
    BY <1>8, <2>1
  <2>4. f.pc = pc /\ f.guest = o.guest /\ f.op = o.op /\ f.then = o.then /\ f.inv = o.inv
    BY <1>2, <2>3 DEF NoCall
  <2>5. pc \in {"ok"} \cup (IF o.op = "add" THEN {} ELSE {"tally"})
    BY <2>1, <2>2 DEF AfterCount
  <2>6. UNCHANGED <<recipient, object>> /\ o.inv = i
    BY <1>5, <1>16, <2>1 DEF StoreCount, StoreStats
  <2>7. Recipients(i)' = rows
    BY <2>6 DEF Recipients
  <2>8. invitation'[i].card = card /\ invitation'[i].exists
    BY <1>0, <2>1, CardsStep DEF CreateDraft, InsertCopy, DeleteInvitation, StoreCard, At
  <2>. QED
    BY <2>1, <2>2, <2>4, <2>5, <2>6, <2>7, <2>8 DEF Moves
<1>17. CASE ReadGuests(Owner)
  <2>1. o.pc = "guests" /\ Same
    BY <1>17 DEF ReadGuests, At, Kept
  <2>2. o.op = "publish" /\ o.inv = i
    BY <1>1, <1>4, <1>5, <2>1 DEF WizardOps, Stages, Ended
  <2>3. CASE Goto(Owner, "publish")
    <3>1. f.pc = "publish" /\ f.op = o.op /\ f.then = o.then /\ f.inv = o.inv
      BY <1>10, <2>3
    <3>. QED
      BY <1>7, <2>1, <2>2, <3>1 DEF Moves
  <2>. QED
    BY <1>9, <1>17, <2>1, <2>3 DEF ReadGuests
<1>18. CASE Publish(Owner)
  <2>1. o.pc = "publish" /\ Goto(Owner, "detail") /\ UNCHANGED <<recipient, object>>
    BY <1>18 DEF Publish, At
  <2>2. o.op = "publish"
    BY <1>1, <1>4, <2>1 DEF WizardOps, Stages, Ended
  <2>3. f.pc = "detail" /\ f.op = o.op /\ f.then = o.then /\ f.inv = o.inv
    BY <1>10, <2>1
  <2>4. Recipients(i)' = rows
    BY <2>1 DEF Recipients
  <2>5. invitation'[i].card = card /\ invitation'[i].exists
    BY <1>0, <2>1, CardsStep DEF CreateDraft, InsertCopy, DeleteInvitation, StoreCard, At
  <2>. QED
    BY <2>1, <2>2, <2>3, <2>4, <2>5 DEF Moves
<1>19. CASE StoreCard(Owner)
  <2>1. o.pc = "merge" /\ UNCHANGED <<recipient, object>>
    BY <1>19 DEF StoreCard, At
  <2>2. o.inv = i /\ o.old = card /\ o.op \in {"save", "upload", "replace"}
    BY <1>1, <1>4, <1>5, <1>6, <2>1 DEF WizardOps, Stages, Ended
  <2>3. PICK new : new = NewCard(Owner)
    OBVIOUS
  <2>4. invitation' = [invitation EXCEPT ![i] = [invitation[i] EXCEPT !.card = new]]
    BY <1>0, <1>19, <2>2, <2>3 DEF StoreCard, Update
  <2>5. DOMAIN invitation = Invites /\ DOMAIN invitation[i] = DOMAIN NoInvitation /\ DOMAIN card = DOMAIN NoCard /\ DOMAIN o.card = DOMAIN NoCard
    BY <1>0 DEF RecordShape, RowShaped, CallShaped
  <2>6. invitation'[i].card = new /\ invitation'[i].exists
    <3>1. invitation'[i] = [invitation[i] EXCEPT !.card = new]
      BY <2>4, <2>5
    <3>. QED
      BY <1>0, <2>5, <3>1 DEF NoInvitation
  <2>7. /\ new.text = IF o.op = "save" THEN o.card.text ELSE card.text
        /\ o.op = "save" /\ card.key => new.key
        /\ o.op = "upload" => new.key
    <3>1. CASE o.op = "save"
      <4>1. new = [o.card EXCEPT !.key = o.card.key \/ card.key]
        BY <2>2, <2>3, <3>1 DEF NewCard, Merged
      <4>2. new.text = o.card.text /\ new.key = (o.card.key \/ card.key)
        BY <2>5, <4>1 DEF NoCard
      <4>. QED
        BY <3>1, <4>2
    <3>2. CASE o.op # "save"
      <4>1. new = [card EXCEPT !.key = o.op = "upload"]
        BY <2>2, <2>3, <3>2 DEF NewCard
      <4>2. new.text = card.text /\ new.key = (o.op = "upload")
        BY <2>5, <4>1 DEF NoCard
      <4>. QED
        BY <3>2, <4>2
    <3>. QED
      BY <3>1, <3>2
  <2>8. With(Owner, [o EXCEPT !.pc = IF o.op = "upload" THEN "ok" ELSE "detail", !.card = NoCard, !.old = NoCard])
    BY <1>19 DEF StoreCard
  <2>9. f = [o EXCEPT !.pc = IF o.op = "upload" THEN "ok" ELSE "detail", !.card = NoCard, !.old = NoCard]
    BY <1>8, <2>8
  <2>10. f.pc = (IF o.op = "upload" THEN "ok" ELSE "detail") /\ f.op = o.op /\ f.then = o.then /\ f.inv = o.inv
    BY <1>2, <2>9 DEF NoCall
  <2>11. Recipients(i)' = rows
    BY <2>1 DEF Recipients
  <2>. HIDE DEF card, rows
  <2>. QED
    BY <2>1, <2>2, <2>6, <2>7, <2>10, <2>11 DEF Moves
<1>20. CASE PhotoStep(Owner)
  <2>1. PICK pc : Goto(Owner, pc) /\ UNCHANGED <<invitation, recipient>>
                  /\ IF o.pc = "purge" THEN pc = IF o.op = "upload" THEN "put" ELSE "merge"
                     ELSE o.pc = "put" /\ pc = "merge" /\ object' = object \cup {o.inv}
    BY <1>20 DEF PhotoStep, At
  <2>2. o.op \in {"upload", "replace"} /\ o.inv = i
    BY <1>1, <1>4, <1>5, <2>1 DEF WizardOps, Stages, Ended
  <2>3. f.pc = pc /\ f.op = o.op /\ f.then = o.then /\ f.inv = o.inv /\ f.old = o.old
    BY <1>10, <2>1
  <2>4. Recipients(i)' = rows /\ invitation'[i].card = card /\ invitation'[i].exists
    BY <1>0, <2>1 DEF Recipients
  <2>5. o.op = "upload" /\ f.pc = "merge" => i \in object'
    BY <2>1, <2>2, <2>3
  <2>6. f.pc \in {"put", "merge"} /\ o.pc \in {"purge", "put"}
    BY <2>1, <2>3
  <2>. QED
    BY <2>2, <2>3, <2>4, <2>5, <2>6 DEF Moves
<1>21. CASE CallFails(Owner)
  BY <1>9, <1>21 DEF CallFails
<1>22. o.pc \notin {"create", "copy", "unlist", "erase", "find", "seen", "unseen", "open", "again", "allowed", "respond", "adjust", "adjusted"}
  BY <1>1, <1>4 DEF WizardOps, Stages, Ended
<1>. QED
  BY <1>11, <1>12, <1>13, <1>14, <1>15, <1>16, <1>17, <1>18, <1>19, <1>20, <1>21, <1>22
     DEF RecordStep, At, CreateDraft, InsertCopy, DeleteRecipients, DeleteInvitation, FindRecipient, ReadCard, SetOpened,
         ReadAgain, RsvpAllowed, StoreRsvp, ReadCounts, StoreCounts

\* A step of the handler of a card's page keeps the invariant of the pages.
LEMMA WizardSteps ==
  ASSUME InWizard, RecordStep(Owner, tab.list), UNCHANGED <<scope, tab>>
  PROVE  PagesInv'
<1>1. PICK i \in Invites : i = tab.inv
  BY InWizardParts
<1>2. PICK o, f : o = call[Owner] /\ f = call'[Owner]
  OBVIOUS
<1>3. /\ Moves(o, f, invitation[i].card, invitation'[i].card, Recipients(i), Recipients(i)', i \in object, i \in object')
      /\ invitation'[i].exists /\ o.pc \notin {"idle", "error"} /\ (o.op \in {"upload", "replace"} => o.then = "photo")
  BY <1>1, <1>2, OwnerMoves
<1>4. WizardFits(tab, o, scope, invitation[i].card, Recipients(i), i \in object)
  BY <1>1, <1>2, InWizardParts DEF PageFits
<1>5. WizardFits(tab, f, scope, invitation'[i].card, Recipients(i)', i \in object')
  BY <1>3, <1>4, WizardMoved
<1>6. f.op = o.op /\ o.op \in WizardOps \cup {"none"}
  BY <1>3, <1>4 DEF Moves, WizardFits, OpsFit
<1>7. LoadFits'
  BY <1>2, <1>6 DEF LoadFits, WizardOps
<1>8. Recipients(tab.inv)' = Recipients(i)'
  BY <1>1 DEF Recipients
<1>9. TabShaped(tab) /\ tab.page = "wizard"
  BY InWizardParts DEF InWizard
<1>10. tab'.inv = i /\ WizardFits(tab', call'[Owner], scope', invitation'[i].card, Recipients(i)', i \in object')
  BY <1>1, <1>2, <1>5
<1>. QED
  BY <1>3, <1>7, <1>8, <1>9, <1>10 DEF PagesInv

\* The answer of getDetail is what was read last.
LEMMA DetailRead ==
  ASSUME RecordShape, RecordStep(Owner, tab.list), call'[Owner].op = "detail", call'[Owner].pc = "ok"
  PROVE  LoadFits'
<1>0. Owner \in Callers /\ CallShaped(call[Owner])
  BY DEF Callers, RecordShape
<1>1. PICK o, f : o = call[Owner] /\ f = call'[Owner]
  OBVIOUS
<1>2. CallShaped(o) /\ f.op = "detail" /\ f.pc = "ok" /\ CallShaped(f) /\ f.then = o.then /\ o.op # "none"
      /\ (f.op \in GuestOps <=> o.op \in GuestOps)
  <2>1. PICK h : /\ call' = [call EXCEPT ![Owner] = h] /\ CallShaped(h) /\ h.then = o.then /\ o.op # "none"
                 /\ h.op \in GuestOps <=> o.op \in GuestOps
    BY <1>0, <1>1, CallStep
  <2>2. h = f
    BY <1>0, <1>1, <2>1, CallAfter DEF With
  <2>. QED
    BY <1>0, <1>1, <2>1, <2>2
<1>3. o.op = "detail"
  <2>1. Purpose(f.op, f.then) /\ Purpose(o.op, o.then)
    BY <1>2 DEF CallShaped, GuestOps
  <2>. QED
    BY <1>2, <2>1 DEF Purpose, SaveThens
<1>4. o.pc \in {"check", "detail", "ok", "error"} /\ DOMAIN o = DOMAIN NoCall
  BY <1>2, <1>3 DEF CallShaped, Stages, Ended
<1>5. GetOwnedInvitation(Owner) \/ GetDetail(Owner) \/ CallFails(Owner)
  BY <1>1, <1>4 DEF RecordStep, At, CreateDraft, InsertRecipient, DeleteRecipient, CountRecipients, StoreCount, TallyStats,
     StoreStats, ReadGuests, Publish, InsertCopy, DeleteRecipients, DeleteInvitation, FindRecipient, ReadCard, SetOpened,
     ReadAgain, RsvpAllowed, StoreRsvp, ReadCounts, StoreCounts, StoreCard, PhotoStep
<1>6. ASSUME NEW h, With(Owner, h) PROVE f = h
  BY <1>0, <1>1, <1>6, CallAfter
<1>7. ~Fail(Owner)
  <2>. SUFFICES ASSUME Fail(Owner) PROVE FALSE
    OBVIOUS
  <2>1. f = [NoCall EXCEPT !.pc = "error", !.op = o.op, !.then = o.then]
    BY <1>1, <1>6 DEF Fail
  <2>. QED
    BY <1>2, <2>1 DEF NoCall
<1>8. ~GetOwnedInvitation(Owner)
  <2>. SUFFICES ASSUME GetOwnedInvitation(Owner) PROVE FALSE
    OBVIOUS
  <2>1. With(Owner, [o EXCEPT !.pc = First(o.op), !.old = invitation[o.inv].card])
    BY <1>1, <1>7 DEF GetOwnedInvitation
  <2>2. f = [o EXCEPT !.pc = First(o.op), !.old = invitation[o.inv].card]
    BY <1>6, <2>1
  <2>3. f.pc = First(o.op)
    BY <1>4, <2>2 DEF NoCall
  <2>4. First(o.op) = "detail"
    BY <1>3 DEF First
  <2>. QED
    BY <1>2, <2>3, <2>4
<1>9. GetDetail(Owner) /\ invitation[o.inv].exists
  BY <1>1, <1>5, <1>7, <1>8 DEF CallFails, GetDetail
<1>10. PICK i \in Invites : i = o.inv
  BY <1>1, <1>2, <1>3, <1>9 DEF GetDetail, At, CallShaped
<1>11. UNCHANGED <<invitation, recipient, object>>
  BY <1>9 DEF GetDetail, Kept
<1>12. With(Owner, [o EXCEPT !.pc = "ok", !.old = invitation[i].card, !.list = Recipients(i)])
  BY <1>1, <1>9, <1>10 DEF GetDetail
<1>13. f = [o EXCEPT !.pc = "ok", !.old = invitation[i].card, !.list = Recipients(i)]
  BY <1>6, <1>12
<1>14. f.old = invitation[i].card /\ f.list = Recipients(i) /\ f.inv = i
  BY <1>4, <1>10, <1>13 DEF NoCall
<1>15. Recipients(f.inv)' = Recipients(i)
  BY <1>1, <1>11, <1>14 DEF Recipients
<1>. QED
  BY <1>1, <1>9, <1>10, <1>11, <1>14, <1>15 DEF LoadFits

\* A step of the handler of the list keeps the invariant of the pages.
LEMMA FeedSteps ==
  ASSUME InFeedPage, RecordStep(Owner, tab.list), UNCHANGED <<scope, tab>>
  PROVE  PagesInv'
<1>0. Owner \in Callers /\ CallShaped(call[Owner])
  BY DEF Callers, InFeedPage, RecordShape
<1>1. PICK o, f : o = call[Owner] /\ f = call'[Owner]
  OBVIOUS
<1>2. CallShaped(o) /\ CallShaped(f) /\ f.then = o.then /\ o.op # "none" /\ f.op # "none" /\ (f.op \in GuestOps <=> o.op \in GuestOps)
  <2>1. PICK h : /\ call' = [call EXCEPT ![Owner] = h] /\ CallShaped(h) /\ h.then = o.then /\ o.op # "none" /\ h.op # "none"
                 /\ h.op \in GuestOps <=> o.op \in GuestOps
    BY <1>0, <1>1, CallStep DEF InFeedPage
  <2>2. h = f
    BY <1>0, <1>1, <2>1, CallAfter DEF With, InFeedPage
  <2>. QED
    BY <1>0, <1>1, <2>1, <2>2
<1>3. o.pc # "idle" /\ f.pc # "idle"
  BY <1>2 DEF CallShaped, Stages, Ended
<1>4. FeedFits(tab, o) /\ TabShaped(tab)
  BY <1>1 DEF InFeedPage, PagesInv
<1>5. o.op \in FeedOps
  BY <1>3, <1>4 DEF FeedFits
<1>6. f.op \in FeedOps
  <2>1. Purpose(f.op, f.then) /\ Purpose(o.op, o.then)
    BY <1>2, <1>5 DEF CallShaped, GuestOps, FeedOps
  <2>. QED
    BY <1>2, <1>5, <2>1 DEF Purpose, SaveThens, FeedOps
<1>7. FeedFits(tab, f)
  BY <1>3, <1>4, <1>6 DEF FeedFits
<1>8. LoadFits'
  <2>1. CASE f.op = "detail" /\ f.pc = "ok"
    BY <1>1, <2>1, DetailRead DEF InFeedPage
  <2>2. CASE ~(f.op = "detail" /\ f.pc = "ok")
    BY <1>1, <2>2 DEF LoadFits
  <2>. QED
    BY <2>1, <2>2
<1>. QED
  BY <1>1, <1>4, <1>7, <1>8 DEF PagesInv, InFeedPage

-----------------------------------------------------------------------------
(* All of it together                                                      *)

\* The inductive invariant.
Inv == RecordShape /\ CountsInv /\ PagesInv

\* While neither rows nor calls change, their invariants hold.
LEMMA RecordsStill ==
  ASSUME RecordShape, CountsInv, UNCHANGED <<invitation, recipient, call, drift>>
  PROVE  RecordShape' /\ CountsInv'
<1>1. Running' = Running
  BY DEF Running
<1>2. CountsInv'
  BY <1>1, CountsKept
<1>. QED
  BY <1>2 DEF RecordShape, RowShaped, Recipients

\* The owner's actions keep the invariant.
LEMMA OwnerActsKeep ==
  ASSUME Inv, OwnerActs
  PROVE  Inv'
<1>1. CASE SendNext
  <2>1. PICK r : r = tab.queue[1] /\ Head(tab.queue) = r /\ SentShaped(r)
    BY <1>1, HeadSent DEF Inv
  <2>2. Start(Owner, r) /\ UNCHANGED <<invitation, recipient>> /\ call[Owner].pc = "idle"
    BY <1>1, <2>1 DEF SendNext, At
  <2>3. CallShaped(r) /\ r.op # "none" /\ r.op \notin GuestOps /\ r.pc \in {"check", "create", "find"} /\ Owner \in Callers
    BY <2>1 DEF SentShaped, Callers
  <2>4. RecordShape'
    BY <2>2, <2>3, ShapeStart DEF Inv
  <2>5. CountsInv'
    BY <2>2, <2>3, CountsStart DEF Inv
  <2>. QED
    BY <1>1, <2>4, <2>5, PagesSend DEF Inv
<1>2. CASE OwnerActs /\ ~SendNext
  <2>1. UNCHANGED <<invitation, recipient, call, drift>>
    BY <1>2 DEF OwnerActs, CreateButton, DuplicateButton, DeleteButton, ManageLink, FeedButton, LeaveWizard,
       TypeText, PickTheme, TimerFires, SetSwitch, SaveAtOnce, PhotoButton, NextStep, BackStep, HandlePublish, FlushAndSave,
       AddGuest, RemoveGuest, ImportContributors, OnTab, Others, recordVars
  <2>2. RecordShape' /\ CountsInv'
    BY <2>1, RecordsStill DEF Inv
  <2>3. CASE CreateButton \/ DuplicateButton \/ DeleteButton \/ ManageLink
    <3>1. tab.page = "feed"
      BY <2>3 DEF CreateButton, DuplicateButton, DeleteButton, ManageLink, FeedButton, InFeed
    <3>. QED
      BY <2>2, <2>3, <3>1, FeedButtons DEF Inv, InFeedPage
  <2>4. CASE ~(CreateButton \/ DuplicateButton \/ DeleteButton \/ ManageLink)
    <3>1. tab.page = "wizard"
      BY <1>2, <2>4 DEF OwnerActs, LeaveWizard, TypeText, PickTheme, TimerFires, SetSwitch, PhotoButton, NextStep, BackStep,
         HandlePublish, AddGuest, RemoveGuest, ImportContributors, OnCard, OnGuests
    <3>2. InWizard
      BY <3>1 DEF Inv, InWizard
    <3>3. PagesInv'
      BY <1>2, <2>4, <3>2, Leaves, TypesText, FiresTimer, SwitchesAtOnce, SendsPhoto, NextSteps, StepsBack, ChangesGuests
         DEF OwnerActs
    <3>. QED
      BY <2>2, <3>3 DEF Inv
  <2>. QED
    BY <2>3, <2>4
<1>. QED
  BY <1>1, <1>2

\* The answers to the owner's page keep the invariant.
LEMMA OwnerAnsweredKeeps ==
  ASSUME Inv, OwnerAnswered
  PROVE  Inv'
<1>1. With(Owner, NoCall) /\ UNCHANGED <<invitation, recipient, drift>> /\ call[Owner].pc \in Ended
  BY DEF OwnerAnswered, AutoSaved, Flushed, Stepped, PublishSaved, PublishAnswered, GuestAdded, GuestRemoved, Imported,
     ImportSaved, PhotoAnswered, Made, Dropped, Loaded, Taken, Then
<1>2. Owner \in Callers
  BY DEF Callers
<1>3. RecordShape' /\ CountsInv'
  BY <1>1, <1>2, ShapeAnswered, CountsAnswered DEF Inv
<1>4. PagesInv'
  <2>1. tab.page \in {"feed", "wizard"}
    BY DEF Inv, PagesInv
  <2>. QED
    BY <2>1, WizardAnswered, FeedAnswered DEF Inv, InWizard, InFeedPage
<1>. QED
  BY <1>3, <1>4 DEF Inv

\* The guests' pages keep the invariant.
LEMMA GuestsKeep ==
  ASSUME Inv, NEW g \in Guests, OpenLink(g) \/ SubmitRsvp(g) \/ LinkAnswered(g)
  PROVE  Inv'
<1>0. g # Owner /\ g \in Callers
  BY InvitationRecordsAssumption DEF Callers
<1>1. CASE LinkAnswered(g)
  <2>1. With(g, NoCall) /\ UNCHANGED <<invitation, recipient, drift>> /\ call[g].pc \in Ended
    BY <1>1 DEF LinkAnswered
  <2>2. RecordShape' /\ CountsInv'
    BY <1>0, <2>1, ShapeAnswered, CountsAnswered DEF Inv
  <2>. QED
    BY <1>0, <1>1, <2>2, GuestPagesAnswered DEF Inv
<1>2. CASE OpenLink(g) \/ SubmitRsvp(g)
  <2>1. PICK f : /\ Start(g, f) /\ f.op \in GuestOps /\ f.pc = "find" /\ f.then = "none" /\ f.alone = TRUE
                 /\ DOMAIN f = DOMAIN NoCall /\ f.card = NoCard /\ f.old = NoCard /\ f.seen = NoCounts
    <3>. DEFINE Good(f) == /\ Start(g, f) /\ f.op \in GuestOps /\ f.pc = "find" /\ f.then = "none" /\ f.alone = TRUE
                           /\ DOMAIN f = DOMAIN NoCall /\ f.card = NoCard /\ f.old = NoCard /\ f.seen = NoCounts
    <3>1. CASE OpenLink(g)
      <4>1. Good([NoCall EXCEPT !.op = "open", !.pc = "find"])
        BY <3>1 DEF OpenLink, NoCall, GuestOps
      <4>. QED
        BY <4>1
    <3>2. CASE SubmitRsvp(g)
      <4>1. PICK r \in Responses : Start(g, [NoCall EXCEPT !.op = "rsvp", !.pc = "find", !.rsvp = r])
        BY <3>2 DEF SubmitRsvp
      <4>2. Good([NoCall EXCEPT !.op = "rsvp", !.pc = "find", !.rsvp = r])
        BY <4>1 DEF NoCall, GuestOps
      <4>. QED
        BY <4>2
    <3>. QED
      BY <1>2, <3>1, <3>2
  <2>2. CallShaped(f) /\ f.op # "none"
    BY <2>1 DEF CallShaped, GuestOps, Stages
  <2>3. UNCHANGED <<invitation, recipient>> /\ call[g].pc = "idle"
    BY <1>2 DEF OpenLink, SubmitRsvp, At
  <2>4. RecordShape'
    BY <1>0, <2>1, <2>2, <2>3, ShapeStart DEF Inv
  <2>5. CountsInv'
    BY <1>0, <2>1, <2>2, <2>3, CountsStart DEF Inv
  <2>. QED
    BY <1>0, <1>2, <2>4, <2>5, GuestPagesStart DEF Inv
<1>. QED
  BY <1>1, <1>2

\* The steps of the handlers keep the invariant.
LEMMA HandlersKeep ==
  ASSUME Inv, NEW c \in Callers, RecordStep(c, tab.list), UNCHANGED <<scope, tab>>
  PROVE  Inv'
<1>1. RecordShape' /\ CountsInv'
  BY ShapeStep, CountsStep DEF Inv
<1>2. CASE c = Owner
  <2>1. tab.page \in {"feed", "wizard"}
    BY DEF Inv, PagesInv
  <2>2. PagesInv'
    BY <1>2, <2>1, WizardSteps, FeedSteps DEF Inv, InWizard, InFeedPage
  <2>. QED
    BY <1>1, <2>2 DEF Inv
<1>3. CASE c # Owner
  <2>1. c \in Guests
    BY <1>3 DEF Callers
  <2>. QED
    BY <1>1, <1>3, <2>1, GuestPagesStep DEF Inv
<1>. QED
  BY <1>2, <1>3

\* The initial states satisfy the invariant.
LEMMA InvStart ==
  ASSUME Init
  PROVE  Inv
<1>. DEFINE made == scope # "list"
<1>1. PICK i \in Invites, g \in Guests, status \in {"draft", "published"} :
        /\ invitation = [x \in Invites |-> IF made /\ x = i THEN
                           [NoInvitation EXCEPT !.exists = TRUE, !.status = status, !.counts.guests = 1]
                         ELSE NoInvitation]
        /\ recipient = [x \in Guests |-> IF made /\ x = g THEN [NoRecipient EXCEPT !.invite = i] ELSE NoRecipient]
  BY DEF Init
<1>2. call = [c \in Callers |-> NoCall] /\ tab = NewTab
  BY DEF Init
<1>. DEFINE row == [NoInvitation EXCEPT !.exists = TRUE, !.status = status, !.counts.guests = 1]
            guest == [NoRecipient EXCEPT !.invite = i]
<1>3. /\ DOMAIN row = DOMAIN NoInvitation /\ row.card = NoCard /\ DOMAIN row.counts = DOMAIN NoCounts
      /\ row.counts.guests = 1 /\ row.counts.opens = 0 /\ row.counts.responses = [r \in Responses |-> 0]
  BY DEF NoInvitation, NoCounts
<1>4. /\ NoInvitation.exists = FALSE /\ NoInvitation.card = NoCard /\ DOMAIN NoInvitation.counts = DOMAIN NoCounts
  BY DEF NoInvitation, NoCounts
<1>5. /\ DOMAIN guest = DOMAIN NoRecipient /\ guest.invite = i /\ guest.opened = FALSE /\ guest.rsvp = "pending"
      /\ NoRecipient.invite = None
  BY DEF NoRecipient
<1>. HIDE DEF row, guest
<1>6. invitation = [x \in Invites |-> IF made /\ x = i THEN row ELSE NoInvitation]
      /\ recipient = [x \in Guests |-> IF made /\ x = g THEN guest ELSE NoRecipient]
  BY <1>1 DEF row, guest
<1>7. None \notin Invites
  BY InvitationRecordsAssumption
<1>8. \A x \in Invites : Recipients(x) = IF made /\ x = i THEN {g} ELSE {}
  BY <1>5, <1>6, <1>7 DEF Recipients
<1>9. \A x \in Invites : IsFiniteSet(Recipients(x))
  <2>1. IsFiniteSet({g}) /\ IsFiniteSet({})
    BY FS_EmptySet, FS_Singleton
  <2>. QED
    BY <1>8, <2>1
<1>10. RecordShape
  <2>1. \A x \in Invites : RowShaped(invitation[x])
    BY <1>3, <1>4, <1>6 DEF RowShaped
  <2>2. \A x \in Guests : DOMAIN recipient[x] = DOMAIN NoRecipient /\ recipient[x].invite \in Invites \cup {None}
    BY <1>5, <1>6
  <2>3. \A c \in Callers : CallShaped(call[c]) /\ call[c].op = "none"
    BY <1>2, NoCallShaped
  <2>. QED
    BY <1>2, <1>6, <1>9, <2>1, <2>2, <2>3 DEF RecordShape
<1>11. CountsAreRight
  <2>. SUFFICES ASSUME NEW x \in Invites, invitation[x].exists
                PROVE  /\ invitation[x].counts.guests = Counted(x).guests
                       /\ invitation[x].counts.opens = Counted(x).opens
                       /\ invitation[x].counts.responses = Counted(x).responses
    BY DEF CountsAreRight
  <2>1. made /\ x = i /\ invitation[x] = row /\ Recipients(x) = {g} /\ recipient[g] = guest
    BY <1>4, <1>6, <1>8
  <2>2. Cardinality({g}) = 1 /\ Cardinality({}) = 0
    BY FS_EmptySet, FS_Singleton
  <2>3. {h \in Recipients(x) : recipient[h].opened} = {}
    BY <1>5, <2>1
  <2>4. \A r \in Responses : {h \in Recipients(x) : recipient[h].rsvp = r} = {}
    BY <1>5, <2>1, InvitationRecordsAssumption
  <2>5. /\ Counted(x).guests = Cardinality(Recipients(x))
        /\ Counted(x).opens = Cardinality({h \in Recipients(x) : recipient[h].opened})
        /\ Counted(x).responses = [r \in Responses |-> Cardinality({h \in Recipients(x) : recipient[h].rsvp = r})]
    BY DEF Counted
  <2>6. Counted(x).guests = 1 /\ Counted(x).opens = 0
    BY <2>1, <2>2, <2>3, <2>5
  <2>7. Counted(x).responses = [r \in Responses |-> 0]
    BY <2>2, <2>4, <2>5
  <2>. QED
    BY <1>3, <2>1, <2>6, <2>7
<1>12. CountsInv
  <2>1. Running = {}
    BY <1>2, NoCallShaped DEF Running
  <2>. QED
    BY <1>11, <2>1 DEF CountsInv
<1>13. PagesInv
  <2>1. call[Owner] = NoCall
    BY <1>2 DEF Callers
  <2>2. LoadFits
    BY <2>1, NoCallShaped DEF LoadFits
  <2>3. FeedFits(tab, call[Owner])
    BY <1>2, <2>1, NewTabShaped, NoCallShaped DEF FeedFits, Positions
  <2>. QED
    BY <1>2, <2>2, <2>3, NewTabShaped DEF PagesInv
<1>. QED
  BY <1>10, <1>12, <1>13 DEF Inv

\* Every step keeps the invariant.
LEMMA InvStep ==
  ASSUME Inv, [Next]_vars
  PROVE  Inv'
<1>1. CASE OwnerActs \/ OwnerAnswered
  BY <1>1, OwnerActsKeep, OwnerAnsweredKeeps
<1>2. CASE \E g \in Guests : OpenLink(g) \/ SubmitRsvp(g) \/ LinkAnswered(g)
  BY <1>2, GuestsKeep
<1>3. CASE \E c \in Callers : RecordStep(c, tab.list) /\ UNCHANGED <<scope, tab>>
  BY <1>3, HandlersKeep
<1>4. CASE UNCHANGED vars
  <2>1. UNCHANGED <<invitation, recipient, object, call, drift, scope, tab>>
    BY <1>4 DEF vars, recordVars
  <2>2. RecordShape' /\ CountsInv'
    BY <2>1, RecordsStill DEF Inv
  <2>3. \A i \in Invites : Recipients(i)' = Recipients(i)
    BY <2>1 DEF Recipients
  <2>4. SameCall(call'[Owner], call[Owner])
    BY <2>1 DEF SameCall
  <2>5. PagesInv'
    BY <2>1, <2>3, <2>4, PagesKept DEF Inv
  <2>. QED
    BY <2>2, <2>5 DEF Inv
<1>. QED
  BY <1>1, <1>2, <1>3, <1>4 DEF Next

\* The inductive invariant of the rows, the counts and the pages of
\* invitations.
THEOREM InvitationsAlways == Spec => []Inv
<1>1. Init => Inv
  BY InvStart
<1>2. Inv /\ [Next]_vars => Inv'
  BY InvStep
<1>. QED
  BY <1>1, <1>2, PTL DEF Spec

\* The counts on a card's row are those of its guests' rows, whatever cards,
\* guests and handlers there are, unless handlers overlapped or broke off
\* (refreshRecipientCount, refreshStats, adjustRsvpCounts).
THEOREM CountsAlwaysRight == Spec => []CountsAreRight
<1>1. Inv => CountsAreRight
  BY DEF Inv, CountsInv
<1>. QED
  BY <1>1, InvitationsAlways, PTL

\* What holds of a card's page while nothing is under way.
LEMMA QuietFits ==
  ASSUME Inv, tab.page = "wizard", Quiet
  PROVE  /\ WizardFits(tab, NoCall, scope, invitation[tab.inv].card, Recipients(tab.inv), tab.inv \in object)
         /\ Positions(tab.queue) = {} /\ NoCall.op = "none" /\ NoCall.then = "none"
<1>1. call[Owner] = NoCall /\ tab.queue = <<>>
  BY Idles DEF Inv, Quiet, At
<1>2. WizardFits(tab, NoCall, scope, invitation[tab.inv].card, Recipients(tab.inv), tab.inv \in object)
  BY <1>1 DEF Inv, PagesInv
<1>3. Positions(tab.queue) = {}
  BY <1>1 DEF Positions
<1>. QED
  BY <1>2, <1>3, NoCallShaped

\* While nothing is under way and nothing failed, the list of guests
\* displayed is the list of the rows.
THEOREM GuestListAlwaysTrue == Spec => []GuestListIsTrue
<1>1. Inv => GuestListIsTrue
  <2>. SUFFICES ASSUME Inv, tab.page = "wizard", Quiet, ~tab.doubt PROVE tab.list = Recipients(tab.inv)
    BY DEF GuestListIsTrue
  <2>1. ListFits(tab, NoCall, Recipients(tab.inv)) /\ NoCall.op = "none"
    BY QuietFits DEF WizardFits
  <2>. QED
    BY <2>1 DEF ListFits
<1>. QED
  BY <1>1, InvitationsAlways, PTL

\* While nothing is under way, no timer is set and nothing failed, the text
\* displayed is the text stored.
THEOREM TextAlwaysSaved == Spec => []TextIsSaved
<1>1. Inv => TextIsSaved
  <2>. SUFFICES ASSUME Inv, tab.page = "wizard", Quiet, ~tab.timer, ~tab.doubt
                PROVE  invitation[tab.inv].card.text = tab.shown.text
    BY DEF TextIsSaved
  <2>1. TextFits(tab, NoCall, invitation[tab.inv].card) /\ NoCall.op = "none" /\ Positions(tab.queue) = {}
    BY QuietFits DEF WizardFits
  <2>. QED
    BY <2>1 DEF TextFits
<1>. QED
  BY <1>1, InvitationsAlways, PTL

\* After an upload that did not fail, and nothing under way, the card refers
\* to a photo that is in storage.
THEOREM PhotoAlwaysStored == Spec => []PhotoIsStored
<1>1. Inv => PhotoIsStored
  <2>. SUFFICES ASSUME Inv, tab.page = "wizard", Quiet, tab.uploaded
                PROVE  invitation[tab.inv].card.key /\ tab.inv \in object
    BY DEF PhotoIsStored
  <2>1. PhotoFits(tab, NoCall, invitation[tab.inv].card, tab.inv \in object) /\ NoCall.then = "none"
    BY QuietFits DEF WizardFits
  <2>. QED
    BY <2>1 DEF PhotoFits
<1>. QED
  BY <1>1, InvitationsAlways, PTL
=============================================================================
