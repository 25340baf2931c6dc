-------------------------- MODULE InvitationRecords --------------------------
(***************************************************************************)
(* What the API keeps of invitations: the cards, the guests with their     *)
(* links, and the counts on the card's row.  A step is a handler between   *)
(* two awaits (invitations.service.ts); none of them is in a transaction.  *)
(*                                                                         *)
(* The texts, the theme and the title of a card are one text, told apart   *)
(* by how often it was edited; font, colour and deadline go with the RSVP  *)
(* switch, which is saved the way they are.  Without a photo of its own a  *)
(* card shows the event's or none.                                         *)
(***************************************************************************)
EXTENDS Integers, Sequences, FiniteSets, SequencesExt

CONSTANTS
  Invites,        \* ids of invitations
  Guests,         \* ids of recipients, each with its own link
  Owner, None,
  Responses,      \* what a guest may answer
  MaxHandlers     \* bound: handlers that run at the same time

ASSUME InvitationRecordsAssumption ==
  /\ Owner \notin Guests /\ None \notin Invites \cup Guests
  /\ Responses \subseteq {"accepted", "declined", "maybe"}
  /\ MaxHandlers \in Nat \ {0}

VARIABLES
  invitation,  \* rows of invitations
  recipient,   \* rows of invitation_recipients
  object,      \* the invitations with an own photo in storage
  call,        \* the handler the owner's page and each guest's page has called
  drift        \* history: the counts that overlapping or broken-off handlers may have left wrong

recordVars == <<invitation, recipient, object, call, drift>>

Callers == Guests \cup {Owner}

NoCard == [text |-> 0, rsvp |-> TRUE, key |-> FALSE]
NoCounts == [guests |-> 0, opens |-> 0, responses |-> [r \in Responses |-> 0]]
NoInvitation == [exists |-> FALSE, status |-> "draft", card |-> NoCard, counts |-> NoCounts]
NoRecipient == [invite |-> None, opened |-> FALSE, rsvp |-> "pending"]
NoCall == [op |-> "none", pc |-> "idle", then |-> "none", inv |-> None, guest |-> None,
           rsvp |-> "pending", was |-> "pending", card |-> NoCard, old |-> NoCard,
           seen |-> NoCounts, todo |-> 0, list |-> {}, alone |-> TRUE]

Recipients(i) == {g \in Guests : recipient[g].invite = i}
Counted(i) ==
  [guests |-> Cardinality(Recipients(i)),
   opens |-> Cardinality({g \in Recipients(i) : recipient[g].opened}),
   responses |-> [r \in Responses |-> Cardinality({g \in Recipients(i) : recipient[g].rsvp = r})]]

At(c, pc) == call[c].pc = pc
Ended == {"ok", "error"}
Running == {c \in Callers : call[c].pc \notin {"idle"} \cup Ended}
With(c, fields) == call' = [call EXCEPT ![c] = fields]
Goto(c, pc) == With(c, [call[c] EXCEPT !.pc = pc])
Fail(c) == With(c, [NoCall EXCEPT !.pc = "error", !.op = call[c].op, !.then = call[c].then])
Kept == <<invitation, recipient, object, drift>>
AllCounts == Invites \X {"guests", "stats"}

\* A handler starts; those it overlaps no longer have the counts for themselves.
Start(c, fields) ==
  LET others == Running
  IN  /\ Cardinality(others) < MaxHandlers
      /\ call' = [x \in Callers |->
                    IF x = c THEN [fields EXCEPT !.alone = others = {}]
                    ELSE IF x \in others THEN [call[x] EXCEPT !.alone = FALSE] ELSE call[x]]
      /\ drift' = IF others = {} THEN drift ELSE AllCounts

\* A count is written by a handler that has it for itself.
Settled(c, what) == drift' = IF call[c].alone THEN drift \ {<<call[c].inv, what>>} ELSE drift

\* An update of a row that is gone changes nothing.
Update(i, row) == invitation' = IF invitation[i].exists THEN [invitation EXCEPT ![i] = row] ELSE invitation
UpdateRecipient(g, row) == recipient' = IF recipient[g].invite = None THEN recipient ELSE [recipient EXCEPT ![g] = row]

\* randomUUID: ids that no row, handler or page has.
FreshInvite(i) ==
  ~invitation[i].exists /\ i \notin object /\ Recipients(i) = {} /\ \A c \in Callers : call[c].inv # i
FreshGuest(g, shown) ==
  recipient[g].invite = None /\ g \notin shown /\ At(g, "idle") /\ call[Owner].guest # g

-----------------------------------------------------------------------------
(* The owner's requests: getOwnedInvitation first                          *)

First(op) ==
  CASE op = "add" -> "insert" [] op = "remove" -> "delete" [] op = "publish" -> "guests"
    [] op = "duplicate" -> "copy" [] op = "drop" -> "unlist" [] op = "detail" -> "detail"
    [] op = "save" -> "merge" [] op \in {"upload", "replace"} -> "purge"

GetOwnedInvitation(c) ==
  /\ At(c, "check")
  /\ IF invitation[call[c].inv].exists
     THEN With(c, [call[c] EXCEPT !.pc = First(call[c].op), !.old = invitation[call[c].inv].card])
     ELSE Fail(c)
  /\ UNCHANGED Kept

\* getDetail, for the answer.
GetDetail(c) ==
  /\ At(c, "detail")
  /\ IF invitation[call[c].inv].exists
     THEN With(c, [call[c] EXCEPT !.pc = "ok", !.old = invitation[call[c].inv].card,
                                  !.list = Recipients(call[c].inv)])
     ELSE Fail(c)
  /\ UNCHANGED Kept

CreateDraft(c) ==
  /\ At(c, "create")
  /\ \E i \in Invites :
       /\ FreshInvite(i)
       /\ invitation' = [invitation EXCEPT ![i] = [NoInvitation EXCEPT !.exists = TRUE]]
       /\ With(c, [call[c] EXCEPT !.inv = i, !.pc = "detail"])
  /\ UNCHANGED <<recipient, object, drift>>

-----------------------------------------------------------------------------
(* Guests and the counts of them                                           *)

InsertRecipient(c, shown) ==
  /\ At(c, "insert")
  /\ \E g \in Guests :
       /\ FreshGuest(g, shown)
       /\ recipient' = [recipient EXCEPT ![g] = [NoRecipient EXCEPT !.invite = call[c].inv]]
       /\ With(c, [call[c] EXCEPT !.guest = g, !.pc = "count"])
  /\ UNCHANGED <<invitation, object, drift>>

DeleteRecipient(c) ==
  /\ At(c, "delete")
  /\ recipient' = IF recipient[call[c].guest].invite = call[c].inv
                  THEN [recipient EXCEPT ![call[c].guest] = NoRecipient] ELSE recipient
  /\ Goto(c, "count")
  /\ UNCHANGED <<invitation, object, drift>>

\* refreshRecipientCount; a copy goes on with its next guest.
CountRecipients(c) ==
  /\ At(c, "count")
  /\ With(c, [call[c] EXCEPT !.seen = Counted(call[c].inv), !.pc = "counted"])
  /\ UNCHANGED Kept

AfterCount(c) ==
  CASE call[c].op = "remove" -> "tally"
    [] call[c].op = "duplicate" -> IF call[c].todo = 1 THEN "detail" ELSE "insert"
    [] OTHER -> "ok"

StoreCount(c) ==
  /\ At(c, "counted")
  /\ Update(call[c].inv, [invitation[call[c].inv] EXCEPT !.counts.guests = call[c].seen.guests])
  /\ With(c, [call[c] EXCEPT !.pc = AfterCount(c), !.seen = NoCounts, !.todo = IF @ > 0 THEN @ - 1 ELSE 0])
  /\ Settled(c, "guests")
  /\ UNCHANGED <<recipient, object>>

\* refreshStats
TallyStats(c) ==
  /\ At(c, "tally")
  /\ With(c, [call[c] EXCEPT !.seen = Counted(call[c].inv), !.pc = "tallied"])
  /\ UNCHANGED Kept

StoreStats(c) ==
  /\ At(c, "tallied")
  /\ Update(call[c].inv, [invitation[call[c].inv] EXCEPT !.counts = [call[c].seen EXCEPT !.guests = invitation[call[c].inv].counts.guests]])
  /\ With(c, [call[c] EXCEPT !.pc = IF call[c].op = "remove" THEN "ok" ELSE "again", !.seen = NoCounts])
  /\ Settled(c, "stats")
  /\ UNCHANGED <<recipient, object>>

ReadGuests(c) ==
  /\ At(c, "guests")
  /\ IF Recipients(call[c].inv) = {} THEN Fail(c) ELSE Goto(c, "publish")
  /\ UNCHANGED Kept

Publish(c) ==
  /\ At(c, "publish")
  /\ Update(call[c].inv, [invitation[call[c].inv] EXCEPT !.status = "published"])
  /\ Goto(c, "detail")
  /\ UNCHANGED <<recipient, object, drift>>

\* duplicate: the copy has no photo of its own, then gets the guests one by one.
InsertCopy(c) ==
  /\ At(c, "copy")
  /\ \E i \in Invites :
       /\ FreshInvite(i)
       /\ invitation' = [invitation EXCEPT ![i] =
            [NoInvitation EXCEPT !.exists = TRUE, !.card = [call[c].old EXCEPT !.key = FALSE]]]
       /\ LET guests == Cardinality(Recipients(call[c].inv))
          IN  With(c, [call[c] EXCEPT !.inv = i, !.todo = guests, !.pc = IF guests = 0 THEN "detail" ELSE "insert"])
  /\ UNCHANGED <<recipient, object, drift>>

DeleteRecipients(c) ==
  /\ At(c, "unlist")
  /\ recipient' = [g \in Guests |-> IF recipient[g].invite = call[c].inv THEN NoRecipient ELSE recipient[g]]
  /\ Goto(c, "erase")
  /\ UNCHANGED <<invitation, object, drift>>

DeleteInvitation(c) ==
  /\ At(c, "erase")
  /\ invitation' = [invitation EXCEPT ![call[c].inv] = NoInvitation]
  /\ drift' = drift \ ({call[c].inv} \X {"guests", "stats"})
  /\ Goto(c, "ok")
  /\ UNCHANGED <<recipient, object>>

-----------------------------------------------------------------------------
(* A guest's link                                                          *)

\* The recipient of the link, for getPublic and submitRsvp.
FindRecipient(c) ==
  /\ At(c, "find")
  /\ IF recipient[c].invite = None THEN Fail(c)
     ELSE With(c, [call[c] EXCEPT !.inv = recipient[c].invite, !.was = recipient[c].rsvp, !.pc =
                     IF call[c].op = "rsvp" THEN "allowed" ELSE IF recipient[c].opened THEN "seen" ELSE "unseen"])
  /\ UNCHANGED Kept

Published(i) == invitation[i].exists /\ invitation[i].status = "published"

\* The card of a link that was opened before ("seen") or not.
ReadCard(c) ==
  /\ call[c].pc \in {"seen", "unseen"}
  /\ IF Published(call[c].inv) THEN Goto(c, IF At(c, "seen") THEN "again" ELSE "open") ELSE Fail(c)
  /\ UNCHANGED Kept

SetOpened(c) ==
  /\ At(c, "open")
  /\ UpdateRecipient(c, [recipient[c] EXCEPT !.opened = TRUE])
  /\ Goto(c, "tally")
  /\ UNCHANGED <<invitation, object, drift>>

\* The answer reads the row of the guest again and takes it to be there.
ReadAgain(c) ==
  /\ At(c, "again")
  /\ IF recipient[c].invite = None THEN Fail(c) ELSE Goto(c, "ok")
  /\ UNCHANGED Kept

Allows(i) == Published(i) /\ invitation[i].card.rsvp

\* A deadline that the card has may have passed.
RsvpAllowed(c) ==
  /\ At(c, "allowed")
  /\ \/ Allows(call[c].inv) /\ Goto(c, "respond")
     \/ Fail(c)
  /\ UNCHANGED Kept

StoreRsvp(c) ==
  /\ At(c, "respond")
  /\ UpdateRecipient(c, [recipient[c] EXCEPT !.rsvp = call[c].rsvp])
  /\ Goto(c, "adjust")
  /\ UNCHANGED <<invitation, object, drift>>

\* adjustRsvpCounts: one answer less of the kind before, one more of the new.
Adjusted(counts, was, is) ==
  [r \in Responses |->
     LET sum == counts[r] + (IF r = is THEN 1 ELSE 0) - (IF r = was THEN 1 ELSE 0)
     IN  IF sum < 0 THEN 0 ELSE sum]

\* The answer is that of getPublic.
Reread(c) == [NoCall EXCEPT !.op = "open", !.pc = "find", !.alone = call[c].alone]

ReadCounts(c) ==
  /\ At(c, "adjust")
  /\ IF invitation[call[c].inv].exists
     THEN With(c, [call[c] EXCEPT !.pc = "adjusted", !.seen = invitation[call[c].inv].counts])
     ELSE With(c, Reread(c))
  /\ UNCHANGED Kept

\* Mutant of StoreCounts: the answer before is not taken back.
StoreCountsOnly(c) ==
  /\ At(c, "adjusted")
  /\ Update(call[c].inv, [invitation[call[c].inv] EXCEPT !.counts.responses =
                            Adjusted(call[c].seen.responses, "pending", call[c].rsvp)])
  /\ With(c, Reread(c))
  /\ UNCHANGED <<recipient, object, drift>>

StoreCounts(c) ==
  /\ At(c, "adjusted")
  /\ Update(call[c].inv, [invitation[call[c].inv] EXCEPT !.counts.responses =
                            Adjusted(call[c].seen.responses, call[c].was, call[c].rsvp)])
  /\ With(c, Reread(c))
  /\ UNCHANGED <<recipient, object, drift>>

-----------------------------------------------------------------------------
(* The card and its photo                                                  *)

\* The fields of the request over those of the row; undefined ones are not sent.
Merged(row, sent) ==
  [sent EXCEPT !.key = sent.key \/ row.key]

NewCard(c) ==
  IF call[c].op = "save" THEN Merged(call[c].old, call[c].card)
  ELSE [call[c].old EXCEPT !.key = call[c].op = "upload"]

StoreCard(c) ==
  /\ At(c, "merge")
  /\ Update(call[c].inv, [invitation[call[c].inv] EXCEPT !.card = NewCard(c)])
  /\ With(c, [call[c] EXCEPT !.pc = IF call[c].op = "upload" THEN "ok" ELSE "detail", !.card = NoCard, !.old = NoCard])
  /\ UNCHANGED <<recipient, object, drift>>

\* Mutant of PhotoStep: the new photo is stored, then the one before deleted.
PhotoStepSwapped(c) ==
  /\ UNCHANGED <<invitation, recipient, drift>>
  /\ \/ /\ At(c, "purge") /\ call[c].op = "replace"
        /\ object' = IF call[c].old.key THEN object \ {call[c].inv} ELSE object
        /\ Goto(c, "merge")
     \/ /\ At(c, "purge") /\ call[c].op = "upload"
        /\ object' = object \cup {call[c].inv}
        /\ Goto(c, "put")
     \/ /\ At(c, "put")
        /\ object' = IF call[c].old.key THEN object \ {call[c].inv} ELSE object
        /\ Goto(c, "merge")

\* saveInvitationPhoto, resetInvitationPhotoToEvent and clearInvitationPhoto:
\* the photo before, which has the same key, is deleted; then the new one is
\* stored.
PhotoStep(c) ==
  /\ UNCHANGED <<invitation, recipient, drift>>
  /\ \/ /\ At(c, "purge")
        /\ object' = IF call[c].old.key THEN object \ {call[c].inv} ELSE object
        /\ Goto(c, IF call[c].op = "upload" THEN "put" ELSE "merge")
     \/ /\ At(c, "put")
        /\ object' = object \cup {call[c].inv}
        /\ Goto(c, "merge")

-----------------------------------------------------------------------------
\* The database, the storage or the API is away, or the answer is lost; what
\* was done stays done.
\* A deletion that breaks off leaves a card without its guests.
Counting == {"add", "remove", "duplicate", "drop", "open", "rsvp"}

CallFails(c) ==
  /\ call[c].pc \notin {"idle", "error"}
  /\ Fail(c)
  /\ drift' = IF At(c, "ok") \/ call[c].op \notin Counting THEN drift ELSE AllCounts
  /\ UNCHANGED <<invitation, recipient, object>>

RecordStep(c, shown) ==
  \/ GetOwnedInvitation(c) \/ GetDetail(c) \/ CreateDraft(c)
  \/ InsertRecipient(c, shown) \/ DeleteRecipient(c) \/ CountRecipients(c) \/ StoreCount(c)
  \/ TallyStats(c) \/ StoreStats(c) \/ ReadGuests(c) \/ Publish(c) \/ InsertCopy(c)
  \/ DeleteRecipients(c) \/ DeleteInvitation(c)
  \/ FindRecipient(c) \/ ReadCard(c) \/ SetOpened(c) \/ ReadAgain(c)
  \/ RsvpAllowed(c) \/ StoreRsvp(c) \/ ReadCounts(c) \/ StoreCounts(c)
  \/ StoreCard(c) \/ PhotoStep(c) \/ CallFails(c)
=============================================================================
