----------------------------- MODULE InvoiceCard -----------------------------
(***************************************************************************)
(* The invoice card of the browser and the drafts of the server: a card    *)
(* saves itself 0.8 s after the last edit, through a queue that sends one  *)
(* save at a time, while the clerk edits on, posts, deletes or leaves, and *)
(* another card has the same draft open.                                   *)
(*                                                                         *)
(* An event of the page runs to its end, with the promise continuations it *)
(* triggers: one action here.  Each request of the server is a transaction *)
(* that locks the header first: one step.  Its answer may be lost, before  *)
(* or after the request is served; the card takes that for a refusal.      *)
(*                                                                         *)
(* Content is the number of edits it contains.  Sales and purchase cards   *)
(* run the same code but for what they do without a customer or vendor.    *)
(***************************************************************************)
EXTENDS Integers, Sequences, FiniteSets, FiniteSetsExt, SequencesExt

CONSTANTS
    Card,
    Starts,     \* what the cards may start as
    Acts,       \* Acts[c]: what the clerk at card c is seen to do
    MaxEdits,   \* bound: edits of any card
    Most,       \* bound: Most[c], edits of card c
    MaxQueue,   \* bound: saves a card has queued
    MaxRows,    \* bound: invoices on the server
    Lossy       \* the cards whose answers may be lost

Slot == 1 .. 2      \* bound: clicks on Post that are under way in a card
Row == 1 .. MaxRows
New == 0            \* the invoiceId of a card without an invoice

ASSUME InvoiceCardAssumption ==
    /\ Starts \subseteq [Card -> [kind : {"sales", "purchase"},
                                 opened : BOOLEAN, closed : BOOLEAN]]
    /\ Acts \in [Card -> SUBSET {"edit", "leave", "post", "delete"}]
    /\ Most \in [Card -> 0 .. MaxEdits]
    /\ MaxEdits \in Nat /\ MaxQueue \in Nat /\ MaxRows \in Nat \ {0}
    /\ Lossy \subseteq Card

VARIABLES
    card,       \* card[c]: the variables of the page
    requests,   \* requests sent and not answered
    rows,       \* the invoices of the server
    faulted     \* history: cards that lost an answer or failed to save first

vars == <<card, requests, rows, faulted>>

NoRow == [status |-> "none", content |-> {}, maker |-> {}, writers |-> {}]

\* A page without an invoice, and one that opened draft 1, which has lines.
\* party: a customer or vendor is chosen; lined: there is a line.
NewCard == [kind |-> "sales", id |-> New, party |-> FALSE, lined |-> FALSE,
            edits |-> 0, dirty |-> 0, saved |-> 0, timer |-> FALSE,
            queue |-> <<>>, clicks |-> [s \in Slot |-> -1],
            posting |-> FALSE, deleting |-> FALSE, closed |-> FALSE,
            said |-> "nothing"]
StartOf(page) == [NewCard EXCEPT !.kind = page.kind, !.closed = page.closed,
                                 !.party = page.opened, !.lined = page.opened,
                                 !.id = IF page.opened THEN 1 ELSE New]

Init ==
    /\ \E start \in Starts : card = [c \in Card |-> StartOf(start[c])]
    /\ requests = {}
    /\ rows = [r \in Row |-> IF r = 1 THEN [NoRow EXCEPT !.status = "Open"]
                                      ELSE NoRow]
    /\ faulted = {}

Clean(c) == card[c].dirty = card[c].saved
-----------------------------------------------------------------------------
(* What the page does at once.  A page is p, a value of card[c].           *)

\* What the server's first checks let through: a new draft needs its customer
\* or vendor, a new sales draft a line, and a post both.  What was there when
\* the request was queued or clicked may be gone when it is sent.
Acceptable(p, kind) ==
    \/ kind = "delete"
    \/ kind = "post" /\ p.party /\ p.lined
    \/ kind = "save" /\ p.kind = "sales" /\ p.party /\ (p.lined \/ p.id # New)
    \/ kind = "save" /\ p.kind = "purchase" /\ (p.party \/ p.id # New)

Request(c, p, kind, slot) ==
    [card |-> c, kind |-> kind, slot |-> slot, id |-> p.id, content |-> p.edits,
     dirty |-> p.dirty, acceptable |-> Acceptable(p, kind), answer |-> "none",
     awaited |-> TRUE]

Pending(r) == r.answer = "none"

\* The jobs of a page that may run now: the first queued save, and the clicks
\* on Post that have waited for the saves queued before them.
Due(p) == {s \in Slot : p.clicks[s] = 0}

\* Run the due jobs: their requests join those in flight, and a post raises
\* the flag.
Run(c, p, inFlight, startSave) ==
    /\ requests' = inFlight
         \cup (IF startSave THEN {Request(c, p, "save", 0)} ELSE {})
         \cup {Request(c, p, "post", s) : s \in Due(p)}
    /\ card' = [card EXCEPT ![c] =
         [p EXCEPT !.posting = @ \/ Due(p) # {},
                   !.clicks = [s \in Slot |-> IF s \in Due(p) THEN -1 ELSE @[s]]]]

\* A new sales card has nothing to save before its first line.
Lineless(c) == card[c].kind = "sales" /\ card[c].id = New /\ ~card[c].lined

\* No job is queued when the page has nothing to save, or cannot.
NothingToSave(c) ==
    \/ card[c].posting
    \/ Lineless(c)
    \/ ~card[c].party
    \/ Clean(c) /\ card[c].id # New

\* saveDraft's answer in those cases: only a sales card without a customer
\* says no.
TakenForSaved(c) ==
    \/ card[c].party
    \/ card[c].kind = "purchase"
    \/ card[c].posting
    \/ Lineless(c)

Queued(c, leave) == [card[c] EXCEPT !.timer = FALSE, !.queue = Append(@, leave)]

EnqueueUnchained(c, leave) ==   \* mutant: every save is sent at once
    /\ Len(card[c].queue) < MaxQueue
    /\ Run(c, Queued(c, leave), requests, TRUE)

\* `leave': whether the page goes away when the save succeeds.
Enqueue(c, leave) ==
    /\ Len(card[c].queue) < MaxQueue
    /\ Run(c, Queued(c, leave), requests, card[c].queue = <<>>)
-----------------------------------------------------------------------------
(* Events of the clerk and of the timer.                                   *)

Here(c) == ~card[c].closed

\* The page goes away: nothing of it runs any more, and what it sent goes on
\* unawaited.
Close(c, p, inFlight) ==
    /\ card' = [card EXCEPT ![c] = [NewCard EXCEPT
         !.id = p.id, !.dirty = p.dirty, !.saved = p.saved, !.closed = TRUE]]
    /\ requests' =
         {IF r.card = c THEN [r EXCEPT !.awaited = FALSE] ELSE r :
            r \in {q \in inFlight : q.card = c => Pending(q)}}

\* Lines, quantities, prices and fields; `lined': whether a line is left.
\* markDirty ignores what is edited while a post is under way.
Edit(c, lined) ==
    /\ Here(c)
    /\ card[c].edits < Most[c]
    /\ card' = [card EXCEPT
         ![c].lined = lined,
         ![c].edits = @ + 1,
         ![c].dirty = IF card[c].posting THEN @ ELSE card[c].edits + 1,
         ![c].timer = @ \/ ~card[c].posting,
         ![c].said = "nothing"]
    /\ UNCHANGED <<requests, rows, faulted>>

\* A customer or vendor is chosen, or none again.
ChooseParty(c) ==
    /\ Here(c)
    /\ card[c].edits < Most[c]
    /\ card' = [card EXCEPT
         ![c].party = ~@,
         ![c].edits = @ + 1,
         ![c].dirty = IF card[c].posting THEN @ ELSE card[c].edits + 1,
         ![c].timer = @ \/ ~card[c].posting]
    /\ UNCHANGED <<requests, rows, faulted>>

\* The purchase card's Save button, and what the timer runs.
saveDraft(c) ==
    /\ Here(c)
    /\ \/ /\ NothingToSave(c)
          /\ card' = [card EXCEPT ![c].timer = FALSE]
          /\ UNCHANGED requests
       \/ /\ ~NothingToSave(c)
          /\ Enqueue(c, FALSE)
    /\ UNCHANGED <<rows, faulted>>

\* saveTimer.
AutoSave(c) == card[c].timer /\ saveDraft(c)

\* Back or New: the page leaves once its save is done.
navigateWithSave(c) ==
    /\ Here(c)
    /\ \/ /\ NothingToSave(c) /\ TakenForSaved(c)
          /\ Close(c, card[c], requests)
       \/ /\ NothingToSave(c) /\ ~TakenForSaved(c)
          /\ card' = [card EXCEPT ![c].timer = FALSE]
          /\ UNCHANGED requests
       \/ /\ ~NothingToSave(c)
          /\ Enqueue(c, TRUE)
    /\ UNCHANGED <<rows, faulted>>

FreeSlot(c, s) ==
    /\ card[c].clicks[s] = -1
    /\ ~ \E r \in requests : r.card = c /\ r.kind = "post" /\ r.slot = s

ReadyAlways(c) == TRUE          \* mutant: posts although a post is under way

Ready(c) == ~card[c].posting

\* The click waits for the saves queued so far; nothing stops a second click
\* meanwhile.
postInvoice(c, s) ==
    /\ Here(c) /\ Ready(c)
    /\ card[c].party /\ card[c].lined
    /\ FreeSlot(c, s)
    /\ Run(c, [card[c] EXCEPT !.timer = FALSE,
                              !.clicks[s] = Len(card[c].queue)], requests, FALSE)
    /\ UNCHANGED <<rows, faulted>>

\* Without a vendor a purchase card asks saveDraft to save, and says it did.
postWithoutVendor(c) ==
    /\ Here(c)
    /\ card[c].kind = "purchase"
    /\ Ready(c)
    /\ card[c].lined /\ ~card[c].party
    /\ card' = [card EXCEPT ![c].timer = FALSE,
                            ![c].said = IF TakenForSaved(c) THEN "saved" ELSE "failed"]
    /\ UNCHANGED <<requests, rows, faulted>>

\* Neither a save nor a post under way stops it.
deleteInvoice(c) ==
    /\ Here(c)
    /\ card[c].id # New
    /\ ~card[c].deleting
    /\ card' = [card EXCEPT ![c].timer = FALSE, ![c].deleting = TRUE]
    /\ requests' = requests \cup {Request(c, card[c], "delete", 0)}
    /\ UNCHANGED <<rows, faulted>>
-----------------------------------------------------------------------------
(* The server.  The header is locked by the first statement on it, so the  *)
(* requests on one invoice run one after the other.                        *)

\* An answer nobody waits for is dropped.
Answer(r, answer, id) ==
    requests' = (requests \ {r})
                \cup (IF r.awaited THEN {[r EXCEPT !.answer = answer, !.id = id]}
                                   ELSE {})

StatusAfter == [save |-> "Open", post |-> "Posted", delete |-> "Deleted"]
Said(r) == {<<r.card, r.content>>}

OpenAny(i) == rows[i].status # "none"       \* mutant: the status is not checked

\* GetOpenInvoiceNoAsync and its like in posting and deleting.
Open(i) == rows[i].status = "Open"

Update(r) ==
    /\ Pending(r) /\ r.acceptable /\ r.id # New
    /\ Open(r.id)
    /\ rows' = [rows EXCEPT
         ![r.id].status = StatusAfter[r.kind],
         ![r.id].content = IF r.kind = "delete" THEN @ ELSE Said(r),
         ![r.id].writers = @ \cup {r.card}]
    /\ Answer(r, "ok", r.id)
    /\ UNCHANGED <<card, faulted>>

\* Neither request of a new invoice carries a client document id.
Insert(r) ==
    /\ Pending(r) /\ r.acceptable /\ r.id = New
    /\ \E i \in Row :
         /\ rows[i] = NoRow
         /\ \A j \in 1 .. i - 1 : rows[j] # NoRow
         /\ rows' = [rows EXCEPT ![i] =
              [status |-> StatusAfter[r.kind], content |-> Said(r),
               maker |-> {r.card}, writers |-> {r.card}]]
         /\ Answer(r, "ok", i)
    /\ UNCHANGED <<card, faulted>>

\* The request is not acceptable, the draft is gone, or a rule of another
\* component refuses.
Refuse(r) ==
    /\ Pending(r)
    /\ Answer(r, "error", r.id)
    /\ UNCHANGED <<card, rows, faulted>>
-----------------------------------------------------------------------------
(* Answers reach the card, or are lost on the way.                         *)

\* The card is told of a failure; a request not served yet may still be.
Lose(r) ==
    /\ r.card \in Lossy
    /\ r.awaited /\ r.answer # "error"
    /\ r.card \notin faulted              \* bound: one answer per card
    /\ requests' = (requests \ {r}) \cup {[r EXCEPT !.answer = "error"]}
         \cup (IF Pending(r) THEN {[r EXCEPT !.awaited = FALSE]} ELSE {})
    /\ faulted' = faulted \cup {r.card}
    /\ UNCHANGED <<card, rows>>

Arrives(r, kind, answer) ==
    r.awaited /\ r.kind = kind /\ r.answer = answer

ToldNothing(p) == p             \* mutant: the error is swallowed

Told(p) == [p EXCEPT !.said = "failed"]

SavedAnyway(r) ==               \* mutant: whatever was edited meanwhile
    card[r.card].dirty

SavedVersion(r) ==
    IF card[r.card].dirty = r.dirty THEN r.dirty ELSE card[r.card].saved

\* The first job is done: the next one starts, and the clicks that waited for
\* it post.
NextJob(r, p) ==
    Run(r.card,
        [p EXCEPT !.queue = Tail(@),
                  !.clicks = [s \in Slot |-> IF @[s] > 0 THEN @[s] - 1 ELSE @[s]]],
        requests \ {r}, Len(p.queue) > 1)

\* A page that leaves with newer edits asks the clerk first; here it leaves,
\* and the requests of waiting jobs go no further than the page.
SaveDone(r) ==
    LET c == r.card
        p == [card[c] EXCEPT !.id = r.id, !.saved = SavedVersion(r)]
    IN  /\ Arrives(r, "save", "ok")
        /\ IF Head(p.queue) THEN Close(c, p, requests \ {r}) ELSE NextJob(r, p)
        /\ UNCHANGED <<rows, faulted>>

SaveFailed(r) ==
    /\ Arrives(r, "save", "error")
    /\ NextJob(r, Told(card[r.card]))
    /\ faulted' = IF card[r.card].id = New THEN faulted \cup {r.card} ELSE faulted
    /\ UNCHANGED rows

\* The page moves on to the posted invoice, or to the list.
Finished(r) ==
    /\ Arrives(r, "post", "ok") \/ Arrives(r, "delete", "ok")
    /\ Close(r.card, [card[r.card] EXCEPT !.saved = card[r.card].dirty], requests \ {r})
    /\ UNCHANGED <<rows, faulted>>

PostFailed(r) ==
    /\ Arrives(r, "post", "error")
    /\ card' = [card EXCEPT ![r.card] = [Told(@) EXCEPT !.posting = FALSE]]
    /\ requests' = requests \ {r}
    /\ UNCHANGED <<rows, faulted>>

DeleteFailed(r) ==
    /\ Arrives(r, "delete", "error")
    /\ card' = [card EXCEPT ![r.card] = [Told(@) EXCEPT !.deleting = FALSE]]
    /\ requests' = requests \ {r}
    /\ UNCHANGED <<rows, faulted>>
-----------------------------------------------------------------------------
Clerk(c) ==
    \/ "edit" \in Acts[c] /\ (ChooseParty(c) \/ \E lined \in BOOLEAN : Edit(c, lined))
    \/ "edit" \in Acts[c] /\ card[c].kind = "purchase" /\ saveDraft(c)
    \/ "leave" \in Acts[c] /\ navigateWithSave(c)
    \/ "post" \in Acts[c] /\ (postWithoutVendor(c) \/ \E s \in Slot : postInvoice(c, s))
    \/ "delete" \in Acts[c] /\ deleteInvoice(c)

Serve(r) == Update(r) \/ Insert(r) \/ Refuse(r)

Deliver(r) ==
    SaveDone(r) \/ SaveFailed(r) \/ Finished(r) \/ PostFailed(r) \/ DeleteFailed(r)

Next ==
    \/ \E c \in Card : Clerk(c) \/ AutoSave(c)
    \/ \E r \in requests : Serve(r) \/ Lose(r) \/ Deliver(r)

Spec == Init /\ [][Next]_vars

\* The timer fires, and every request of a card is served and answered.
FairSpec ==
    /\ Spec
    /\ \A c \in Card :
         /\ WF_vars(AutoSave(c))
         /\ \A kind \in {"save", "post", "delete"} :
              WF_vars(\E r \in requests :
                  r.card = c /\ r.kind = kind /\ (Serve(r) \/ Deliver(r)))
-----------------------------------------------------------------------------
CardType == [kind : {"sales", "purchase"}, id : Row \cup {New}, party : BOOLEAN,
             lined : BOOLEAN, edits : 0 .. MaxEdits, dirty : 0 .. MaxEdits,
             saved : 0 .. MaxEdits, timer : BOOLEAN,
             queue : BoundedSeq(BOOLEAN, MaxQueue), clicks : [Slot -> -1 .. MaxQueue],
             posting : BOOLEAN, deleting : BOOLEAN, closed : BOOLEAN,
             said : {"nothing", "saved", "failed"}]
Contents == {{}} \cup {{<<c, n>>} : c \in Card, n \in 0 .. MaxEdits}

\* The state has its type; a page waits for the answer to at most one save.
TypeOK ==
    /\ card \in [Card -> CardType]
    /\ \A r \in requests : r.card \in Card /\ r.id \in Row \cup {New}
    /\ \A c \in Card : Cardinality({r \in requests :
         r.card = c /\ r.kind = "save" /\ r.awaited}) <= 1
    /\ \A i \in Row : rows[i].content \in Contents
    /\ faulted \subseteq Card

\* Whatever cards send, an invoice is saved while open and finished once.
Life == INSTANCE DraftLife WITH
    Id <- Row, Content <- Contents,
    invoice <- [i \in Row |-> [status |-> rows[i].status, content |-> rows[i].content]]
RefinesDraftLife == Life!Spec

\* A card that shows no unsaved edit, on an open draft that nobody else wrote,
\* has its last counted edit on the server: saves do not overtake each other,
\* and an answer never marks a newer edit as saved.
SavedIsStored ==
    \A c \in Card \ faulted :
        card[c].id # New /\ card[c].dirty > 0 /\ Clean(c) =>
            LET row == rows[card[c].id]
            IN  row.status = "Open" /\ row.writers = {c} =>
                    \E n \in card[c].dirty .. MaxEdits : row.content = {<<c, n>>}

\* However saves and clicks on Post interleave, one card makes one invoice,
\* unless an answer was lost or its very first save was refused.
OneInvoicePerCard ==
    \A c \in Card \ faulted : Cardinality({i \in Row : rows[i].maker = {c}}) <= 1

\* While a card has its customer or vendor, and a sales card a line, a counted
\* edit is saved in the end, or the page is left, or the card said that
\* something failed.  Of a sales card without a line nothing is promised: a new
\* one is never sent, and the removal of the last line is not sent by itself if
\* it is made and the timer fires while the first save is under way.
Sendable(c) == card[c].party /\ (card[c].lined \/ card[c].kind = "purchase")
EditsSettle ==
    \A c \in Card :
        Sendable(c) /\ ~Clean(c)
            ~> \/ Clean(c) \/ card[c].closed \/ card[c].said = "failed"
               \/ ~Sendable(c)

\* What the card says in postInvoice: without a vendor, the invoice has been
\* saved as an open draft.  It does not hold: saveDraft answers yes unsaved.
SavedWhenSaid ==
    \A c \in Card : card[c].said = "saved" => card[c].id # New /\ Clean(c)
=============================================================================
