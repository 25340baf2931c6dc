--------------------------- MODULE InvitationPages ---------------------------
(***************************************************************************)
(* The pages of invitations: the owner's list (InvitationsFeed.tsx) and    *)
(* editor (InvitationWizard.tsx, InvitePhotoEditor.tsx), and the page      *)
(* behind each guest's link (PublicInviteView.tsx).                        *)
(*                                                                         *)
(* The browser sends the server actions of the owner's page one after the  *)
(* other, with the arguments of the moment they were called in.            *)
(***************************************************************************)
EXTENDS InvitationRecords

CONSTANTS
  Scopes,    \* "card": the owner edits a card; "list": makes cards and their guest lists;
             \* "guests": guests use the links of a card while its owner changes its guests
  MaxEdits,  \* bound: edits of the text
  MaxQueue   \* bound: server actions waiting for an earlier one

ASSUME InvitationPagesAssumption ==
  Scopes \subseteq {"card", "list", "guests"} /\ MaxEdits \in Nat /\ MaxQueue \in Nat \ {0}

VARIABLES
  scope,
  tab    \* the owner's page

vars == <<recordVars, scope, tab>>

\* contentRef and the content that is displayed; the debounce timer with the
\* content it was set with, if any.  The themes, the texts and the design are
\* one step here, and what an event fills in is no edit.  The status "saving",
\* which disables some of them, is left out, for it ends two seconds after any
\* earlier save.  doubt and uploaded are histories: a request failed since the
\* last save that did not; the last photo request was an upload that did not
\* fail.
NewTab == [page |-> "feed", inv |-> None, published |-> FALSE, step |-> "card", ref |-> NoCard,
           shown |-> NoCard, timer |-> FALSE, patch |-> <<>>, queue |-> <<>>, loading |-> FALSE,
           list |-> {}, doubt |-> FALSE, uploaded |-> FALSE]

\* Except for the list there is an invitation with a guest already.
Init ==
  /\ scope \in Scopes
  /\ \E i \in Invites, g \in Guests, status \in {"draft", "published"} :
       LET made == scope # "list"
       IN  /\ scope = "guests" => status = "published"
           /\ invitation = [x \in Invites |-> IF made /\ x = i THEN
                              [NoInvitation EXCEPT !.exists = TRUE, !.status = status, !.counts.guests = 1]
                            ELSE NoInvitation]
           /\ recipient = [x \in Guests |-> IF made /\ x = g THEN [NoRecipient EXCEPT !.invite = i] ELSE NoRecipient]
  /\ object = {} /\ drift = {}
  /\ call = [c \in Callers |-> NoCall]
  /\ tab = NewTab

Others == <<recordVars, scope>>
OnTab(shown) == tab' = shown /\ UNCHANGED Others
HasRoom == Len(tab.queue) < MaxQueue
Enqueue(shown, request) == [shown EXCEPT !.queue = Append(@, request)]
Request(op, then) == [NoCall EXCEPT !.op = op, !.pc = "check", !.inv = tab.inv, !.then = then]
\* persistInvitation: all the fields, as they are now.
SaveRequest(shown, then) == [Request("save", then) EXCEPT !.card = shown.ref]
Quiet == tab.queue = <<>> /\ At(Owner, "idle")

SendNext ==
  /\ tab.queue # <<>> /\ At(Owner, "idle")
  /\ Start(Owner, Head(tab.queue))
  /\ tab' = [tab EXCEPT !.queue = Tail(@)]
  /\ UNCHANGED <<invitation, recipient, object, scope>>

-----------------------------------------------------------------------------
(* The list of invitations                                                 *)

InFeed == tab.page = "feed" /\ ~tab.loading /\ HasRoom

CreateButton ==
  /\ InFeed /\ (scope = "list" \/ \A i \in Invites : ~invitation[i].exists)
  /\ OnTab(Enqueue([tab EXCEPT !.loading = TRUE], [Request("create", "made") EXCEPT !.pc = "create"]))

\* Of an invitation that is listed: duplicate, delete, or open it.
FeedButton(op, then) ==
  /\ InFeed
  /\ \E i \in Invites :
       /\ invitation[i].exists
       /\ OnTab(Enqueue([tab EXCEPT !.loading = TRUE], [Request(op, then) EXCEPT !.inv = i]))

DuplicateButton == scope = "list" /\ FeedButton("duplicate", "made")
DeleteButton == scope # "card" /\ FeedButton("drop", "feed")
ManageLink == FeedButton("detail", "load")

\* To the list.  What waits for the debounce timer is lost.
LeaveWizard ==
  /\ tab.page = "wizard" /\ Quiet
  /\ OnTab(NewTab)

-----------------------------------------------------------------------------
(* Editing the card                                                        *)

OnCard == tab.page = "wizard" /\ scope = "card" /\ (tab.published \/ tab.step = "card")
Edited(card) == [tab EXCEPT !.ref = card, !.shown = card]

Scheduled(shown, patch) == [shown EXCEPT !.timer = TRUE, !.patch = patch]

\* applyContent and scheduleSave
TypeText ==
  /\ OnCard /\ tab.ref.text < MaxEdits
  /\ OnTab(Scheduled(Edited([tab.ref EXCEPT !.text = @ + 1]), <<>>))

PickTheme ==
  /\ OnCard /\ ~tab.loading /\ tab.ref.text < MaxEdits
  /\ LET card == [tab.ref EXCEPT !.text = @ + 1] IN OnTab(Scheduled(Edited(card), <<card>>))

\* What the timer was set with goes over what was edited since.
Fired(shown) ==
  [shown EXCEPT !.timer = FALSE, !.patch = <<>>, !.ref = IF shown.patch = <<>> THEN @ ELSE shown.patch[1]]

\* Mutant of TimerFires: the card is sent as it was last saved or sent at once.
TimerFiresEarlier ==
  /\ tab.page = "wizard" /\ tab.timer /\ HasRoom
  /\ OnTab(Enqueue(Fired(tab), [SaveRequest(tab, "auto") EXCEPT !.card.text = IF @ > 0 THEN @ - 1 ELSE 0]))

TimerFires ==
  /\ tab.page = "wizard" /\ tab.timer /\ HasRoom
  /\ OnTab(Enqueue(Fired(tab), SaveRequest(Fired(tab), "auto")))

\* patchContent at once: the RSVP switch (fonts, colours, the deadline).  Of
\* a published card the owner may refuse the save; the change stays displayed.
SaveAtOnce(card) ==
  \/ HasRoom /\ OnTab(Enqueue(Edited(card), SaveRequest(Edited(card), "auto")))
  \/ tab.published /\ OnTab(Edited(card))

SetSwitch == OnCard /\ SaveAtOnce([tab.ref EXCEPT !.rsvp = ~@])

\* One photo request at a time (busy).  Without a photo there is none to remove.
PhotoButton ==
  /\ OnCard /\ ~tab.loading /\ HasRoom
  /\ \A k \in DOMAIN tab.queue : tab.queue[k].then # "photo"
  /\ call[Owner].then # "photo"
  /\ \E op \in {"upload", "replace"} : OnTab(Enqueue(tab, Request(op, "photo")))

-----------------------------------------------------------------------------
(* The steps of a draft                                                    *)

FlushThen == [step |-> "flush-step", stay |-> "flush-stay", publish |-> "flush-publish"]

\* flushPendingSave, then the save of the step.  The handle of a timer that
\* fired is kept, so that there may be a flush without one.
FlushAndSave(shown, then) ==
  \/ OnTab(Enqueue([Fired([shown EXCEPT !.patch = <<>>]) EXCEPT !.loading = TRUE], SaveRequest(shown, FlushThen[then])))
  \/ ~shown.timer /\ OnTab(Enqueue([shown EXCEPT !.loading = TRUE], SaveRequest(shown, then)))

\* "Add at least one guest": of the list when the button was pressed.
NextStep ==
  /\ tab.page = "wizard" /\ ~tab.published /\ tab.step # "publish" /\ ~tab.loading /\ HasRoom
  /\ FlushAndSave(tab, IF tab.step = "guests" /\ tab.list = {} THEN "stay" ELSE "step")

BackStep ==
  /\ tab.page = "wizard" /\ ~tab.published /\ tab.step = "guests"
  /\ OnTab([tab EXCEPT !.step = "card"])

HandlePublish ==
  /\ scope # "list" /\ tab.page = "wizard" /\ ~tab.published /\ tab.step = "publish" /\ ~tab.loading /\ HasRoom
  /\ FlushAndSave(tab, "publish")

-----------------------------------------------------------------------------
(* Guests of the card                                                      *)

OnGuests == tab.page = "wizard" /\ scope # "card" /\ (tab.published \/ tab.step = "guests")

\* Enter adds a guest while another request is under way.
AddGuest ==
  /\ OnGuests /\ HasRoom /\ (scope = "list" \/ ~tab.loading)
  /\ OnTab(Enqueue([tab EXCEPT !.loading = TRUE], Request("add", "add")))

RemoveGuest ==
  /\ OnGuests /\ HasRoom /\ (scope = "list" \/ ~tab.loading)
  /\ \E g \in tab.list :
       OnTab(Enqueue([tab EXCEPT !.loading = TRUE], [Request("remove", "remove") EXCEPT !.guest = g]))

ImportContributors ==
  /\ OnGuests /\ ~tab.loading /\ HasRoom
  /\ OnTab(Enqueue([tab EXCEPT !.loading = TRUE], Request("add", "import")))

-----------------------------------------------------------------------------
(* Answers to the owner's page                                             *)

Then(then) == call[Owner].then = then /\ call[Owner].pc \in Ended
Ok == At(Owner, "ok")
Taken(shown) ==
  /\ tab' = shown
  /\ With(Owner, NoCall)
  /\ UNCHANGED <<invitation, recipient, object, drift, scope>>

Saved(shown) ==
  IF Ok THEN [shown EXCEPT !.list = call[Owner].list, !.doubt = FALSE]
  ELSE [shown EXCEPT !.doubt = TRUE]

AutoSaved == Then("auto") /\ Taken(Saved(tab))

\* A flush that fails is only shown.
Flushed == \E then \in {"step", "stay", "publish"} :
  Then(FlushThen[then]) /\ Taken(Enqueue(Saved(tab), SaveRequest(tab, then)))

Stepped == \E then \in {"step", "stay"} :
  /\ Then(then)
  /\ Taken([Saved(tab) EXCEPT !.loading = FALSE,
            !.step = IF ~Ok \/ then = "stay" THEN @ ELSE IF @ = "card" THEN "guests" ELSE "publish"])

\* The save before publishing, then the request to publish.
PublishSaved ==
  /\ Then("publish")
  /\ Taken(IF Ok THEN Enqueue(Saved(tab), Request("publish", "published")) ELSE [Saved(tab) EXCEPT !.loading = FALSE])

\* syncEditorFromDetail
PublishAnswered ==
  /\ Then("published")
  /\ Taken(IF Ok THEN [tab EXCEPT !.loading = FALSE, !.published = TRUE, !.list = call[Owner].list, !.doubt = FALSE,
                                  !.ref = call[Owner].old, !.shown = call[Owner].old]
           ELSE [tab EXCEPT !.loading = FALSE])

\* Mutant of GuestRemoved: the guest leaves the list whatever the answer.
GuestRemovedAnyway ==
  /\ Then("remove")
  /\ Taken([tab EXCEPT !.loading = FALSE, !.list = @ \ {call[Owner].guest}])

GuestAdded ==
  /\ Then("add")
  /\ Taken(IF Ok THEN [tab EXCEPT !.loading = FALSE, !.list = @ \cup {call[Owner].guest}]
           ELSE [tab EXCEPT !.loading = FALSE, !.doubt = TRUE])

GuestRemoved ==
  /\ Then("remove")
  /\ Taken(IF Ok THEN [tab EXCEPT !.loading = FALSE, !.list = @ \ {call[Owner].guest}]
           ELSE [tab EXCEPT !.loading = FALSE, !.doubt = TRUE])

\* The next name, or the save that ends the import; if that one throws the
\* page stays loading.
Imported ==
  /\ Then("import")
  /\ LET shown == IF Ok THEN [tab EXCEPT !.list = @ \cup {call[Owner].guest}] ELSE [tab EXCEPT !.doubt = TRUE]
     IN  \/ Taken(Enqueue(shown, Request("add", "import")))
         \/ Taken(Enqueue(shown, SaveRequest(shown, "imported")))

ImportSaved == Then("imported") /\ Taken(IF Ok THEN [Saved(tab) EXCEPT !.loading = FALSE] ELSE Saved(tab))

\* onContentChange, when the photo was taken, replaced or removed.
PhotoAnswered ==
  /\ Then("photo")
  /\ LET upload == call[Owner].op = "upload"
         card == [tab.ref EXCEPT !.key = upload]
     IN  Taken(IF Ok THEN [Scheduled(Edited(card), <<card>>) EXCEPT !.uploaded = upload]
               ELSE [tab EXCEPT !.uploaded = FALSE])

\* Created or copied: its page is opened.  Deleted: the list stays.
Made == Then("made") /\ Taken(IF Ok THEN Enqueue(tab, [Request("detail", "load") EXCEPT !.inv = call[Owner].inv])
                              ELSE [tab EXCEPT !.loading = FALSE])
Dropped == Then("feed") /\ Taken([tab EXCEPT !.loading = FALSE])
Loaded ==
  /\ Then("load")
  /\ LET c == call[Owner]
         published == invitation[c.inv].status = "published"
     IN  Taken(IF Ok THEN [NewTab EXCEPT !.page = "wizard", !.inv = c.inv, !.ref = c.old, !.shown = c.old, !.list = c.list,
                             !.published = published, !.step = IF published THEN "publish" ELSE "card"]
               ELSE NewTab)

-----------------------------------------------------------------------------
(* A guest's page                                                          *)

\* Links are given out of the list of guests.
OpenLink(g) ==
  /\ scope = "guests" /\ At(g, "idle") /\ recipient[g].invite # None
  /\ Start(g, [NoCall EXCEPT !.op = "open", !.pc = "find"])
  /\ UNCHANGED <<invitation, recipient, object, scope, tab>>

\* The page of a link that was opened stays open.
SubmitRsvp(g) ==
  /\ scope = "guests" /\ recipient[g].opened /\ At(g, "idle")
  /\ \E r \in Responses : Start(g, [NoCall EXCEPT !.op = "rsvp", !.pc = "find", !.rsvp = r])
  /\ UNCHANGED <<invitation, recipient, object, scope, tab>>

\* An error after the page has loaded is shown on it.
LinkAnswered(g) ==
  /\ call[g].pc \in Ended
  /\ With(g, NoCall)
  /\ UNCHANGED <<invitation, recipient, object, drift, scope, tab>>

-----------------------------------------------------------------------------
OwnerActs ==
  \/ SendNext \/ CreateButton \/ DuplicateButton \/ DeleteButton \/ ManageLink \/ LeaveWizard
  \/ TypeText \/ PickTheme \/ TimerFires \/ SetSwitch \/ PhotoButton
  \/ NextStep \/ BackStep \/ HandlePublish \/ AddGuest \/ RemoveGuest \/ ImportContributors

OwnerAnswered ==
  \/ AutoSaved \/ Flushed \/ Stepped \/ PublishSaved \/ PublishAnswered
  \/ GuestAdded \/ GuestRemoved \/ Imported \/ ImportSaved \/ PhotoAnswered \/ Made \/ Dropped \/ Loaded

Next ==
  \/ OwnerActs \/ OwnerAnswered
  \/ \E g \in Guests : OpenLink(g) \/ SubmitRsvp(g) \/ LinkAnswered(g)
  \/ \E c \in Callers : RecordStep(c, tab.list) /\ UNCHANGED <<scope, tab>>

Spec == Init /\ [][Next]_vars

-----------------------------------------------------------------------------
(* Properties                                                              *)

\* The counts on a card's row are two sums kept by three handlers: one counts
\* the guests again, one counts opens and answers again, and one adds a change
\* to what it read (refreshRecipientCount, refreshStats, adjustRsvpCounts).
\* They agree with the rows, except where handlers that overlapped or broke
\* off may have left them wrong; the next handler that counts again, with no
\* other beside it, puts them right.
CountsAreRight ==
  Running = {} => \A i \in Invites : invitation[i].exists =>
    LET counts == invitation[i].counts
        counted == Counted(i)
    IN  /\ <<i, "guests">> \in drift \/ counts.guests = counted.guests
        /\ <<i, "stats">> \in drift \/ (counts.opens = counted.opens /\ counts.responses = counted.responses)

\* The wizard keeps the list of guests itself, and replaces it with the one a
\* save's answer brings: whenever nothing is under way it is the list of the
\* rows, unless a guest was added or removed with an error since.
GuestListIsTrue ==
  tab.page = "wizard" /\ Quiet /\ ~tab.doubt => tab.list = Recipients(tab.inv)

\* However typing, themes, switches, photos and steps follow each other within
\* the debounce time, the text displayed is the text stored once nothing is
\* under way and the last save succeeded (InvitationWizard.tsx scheduleSave).
TextIsSaved ==
  tab.page = "wizard" /\ Quiet /\ ~tab.timer /\ ~tab.doubt =>
    invitation[tab.inv].card.text = tab.shown.text

\* "Custom photo uploaded." (InvitePhotoEditor.tsx): whatever was saved while
\* the upload waited or ran, the card refers to the photo and the photo is in
\* storage, though the one before had the same key and the request deletes it.
PhotoIsStored ==
  tab.page = "wizard" /\ Quiet /\ tab.uploaded => invitation[tab.inv].card.key /\ tab.inv \in object
=============================================================================
