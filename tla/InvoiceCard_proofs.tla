--------------------------- MODULE InvoiceCard_proofs ---------------------------
(***************************************************************************)
(* Proofs about InvoiceCard for any cards, clerks and bounds: whatever the *)
(* cards do, the server's invoices live as DraftLife says, one card makes  *)
(* one invoice, and what a card shows as saved is on the server.           *)
(***************************************************************************)
EXTENDS InvoiceCard, FiniteSetTheorems, TLAPS

Edits == 0 .. MaxEdits
UpTo(B, n) == {q \in Seq(B) : Len(q) <= n}
Queue == UpTo(BOOLEAN, MaxQueue)
PageType == [kind : {"sales", "purchase"}, id : Row \cup {New}, party : BOOLEAN,
             lined : BOOLEAN, edits : Edits, dirty : Edits, saved : Edits, timer : BOOLEAN,
             queue : Queue, clicks : [Slot -> -1 .. MaxQueue],
             posting : BOOLEAN, deleting : BOOLEAN, closed : BOOLEAN,
             said : {"nothing", "saved", "failed"}]
RequestType == [card : Card, kind : {"save", "post", "delete"}, slot : Slot \cup {0},
                id : Row \cup {New}, content : Edits, dirty : Edits, acceptable : BOOLEAN,
                answer : {"none", "ok", "error"}, awaited : BOOLEAN]
RowType == [status : {"none", "Open", "Posted", "Deleted"}, content : Contents,
            maker : SUBSET Card, writers : SUBSET Card]

SaveAwaited(c, r) == r.card = c /\ r.kind = "save" /\ r.awaited

\* A page that awaits the answer to a save has it at the head of its queue.
OneSave(c) ==
    /\ \A r1, r2 \in requests : SaveAwaited(c, r1) /\ SaveAwaited(c, r2) => r1 = r2
    /\ \A r \in requests : SaveAwaited(c, r) => card[c].queue # <<>>

IInv ==
    /\ card \in [Card -> PageType]
    /\ requests \subseteq RequestType
    /\ rows \in [Row -> RowType]
    /\ \A i \in Row : rows[i].status = "none" => rows[i] = NoRow
    /\ \A c \in Card : OneSave(c)
    /\ faulted \subseteq Card

-----------------------------------------------------------------------------
(* Queues and pages.                                                       *)

\* Queues of bounded length under the operations on them.
LEMMA Queues ==
    ASSUME NEW B, NEW n \in Nat
    PROVE  /\ <<>> \in UpTo(B, n)
           /\ \A q \in UpTo(B, n), b \in B :
                 Len(q) < n => Append(q, b) \in UpTo(B, n) /\ Append(q, b) # <<>>
           /\ \A q \in UpTo(B, n) : Len(q) \in 0 .. n
           /\ \A q \in UpTo(B, n) : q # <<>> => /\ Tail(q) \in UpTo(B, n)
                                                /\ Len(q) > 1 <=> Tail(q) # <<>>
<1>1. \A q \in Seq(B) : Len(q) \in Nat
  OBVIOUS
<1>2. \A q \in Seq(B), b \in B : Append(q, b) \in Seq(B) /\ Len(Append(q, b)) = Len(q) + 1
  OBVIOUS
<1>3. \A q \in Seq(B) : q # <<>> => Len(q) > 0 /\ Tail(q) \in Seq(B) /\ Len(Tail(q)) = Len(q) - 1
  OBVIOUS
<1>4. \A q \in Seq(B) : q = <<>> <=> Len(q) = 0
  OBVIOUS
<1>5. <<>> \in UpTo(B, n)
  BY DEF UpTo
<1>6. ASSUME NEW q \in UpTo(B, n), NEW b \in B, Len(q) < n
      PROVE  Append(q, b) \in UpTo(B, n) /\ Append(q, b) # <<>>
  BY <1>1, <1>2, <1>4, <1>6 DEF UpTo
<1>7. ASSUME NEW q \in UpTo(B, n) PROVE Len(q) \in 0 .. n
  BY <1>1, <1>7 DEF UpTo
<1>8. ASSUME NEW q \in UpTo(B, n), q # <<>>
      PROVE  Tail(q) \in UpTo(B, n) /\ (Len(q) > 1 <=> Tail(q) # <<>>)
  <2>1. q \in Seq(B) /\ Len(q) \in Nat /\ Len(q) <= n
    BY <1>1, <1>8 DEF UpTo
  <2>2. Len(q) > 0 /\ Tail(q) \in Seq(B) /\ Len(Tail(q)) = Len(q) - 1
    BY <1>3, <1>8, <2>1
  <2>3. Tail(q) = <<>> <=> Len(Tail(q)) = 0
    BY <1>4, <2>2
  <2> QED
    BY <2>1, <2>2, <2>3 DEF UpTo
<1> QED
  BY <1>5, <1>6, <1>7, <1>8

\* The two ways to say it.
LEMMA Bounded == \A B : \A n \in Nat : UpTo(B, n) \subseteq BoundedSeq(B, n)
<1> SUFFICES ASSUME NEW B, NEW n \in Nat, NEW q \in UpTo(B, n)
             PROVE  q \in BoundedSeq(B, n)
  OBVIOUS
<1>1. q \in [1 .. Len(q) -> B] /\ Len(q) \in 0 .. n
  BY DEF UpTo
<1> QED
  BY <1>1 DEF BoundedSeq, SeqOf

\* What a page asks the server for.
LEMMA Requests ==
    ASSUME NEW c \in Card, NEW p \in PageType, NEW kind \in {"save", "post", "delete"},
           NEW slot \in Slot \cup {0}
    PROVE  /\ Request(c, p, kind, slot) \in RequestType
           /\ Request(c, p, kind, slot).card = c
           /\ Request(c, p, kind, slot).kind = kind
<1>1. PICK acceptable \in BOOLEAN : acceptable = Acceptable(p, kind)
  BY DEF Acceptable
<1> QED
  BY <1>1 DEF Request, RequestType, PageType

\* Running the due jobs of a page keeps the types, and starts a save only if
\* the page awaits none.
LEMMA RunKeeps ==
    ASSUME IInv, NEW c \in Card, NEW p \in PageType, NEW inFlight, NEW startSave \in BOOLEAN,
           Run(c, p, inFlight, startSave),
           inFlight \subseteq RequestType,
           \A r \in inFlight : r.card # c => r \in requests,
           \A r1, r2 \in inFlight : SaveAwaited(c, r1) /\ SaveAwaited(c, r2) => r1 = r2,
           startSave => \A r \in inFlight : ~SaveAwaited(c, r),
           (startSave \/ \E r \in inFlight : SaveAwaited(c, r)) => p.queue # <<>>
    PROVE  /\ card' \in [Card -> PageType]
           /\ requests' \subseteq RequestType
           /\ \A d \in Card : OneSave(d)'
<1> DEFINE posting == p.posting \/ Due(p) # {}
           clicks == [s \in Slot |-> IF s \in Due(p) THEN -1 ELSE p.clicks[s]]
           page == [p EXCEPT !.posting = posting, !.clicks = clicks]
           save == IF startSave THEN {Request(c, p, "save", 0)} ELSE {}
           posts == {Request(c, p, "post", s) : s \in Due(p)}
<1>1. requests' = inFlight \cup save \cup posts /\ card' = [card EXCEPT ![c] = page]
  BY DEF Run
<1>2. /\ page \in PageType /\ page.queue = p.queue
  <2>1. posting \in BOOLEAN /\ clicks \in [Slot -> -1 .. MaxQueue]
    BY InvoiceCardAssumption DEF PageType
  <2> HIDE DEF posting, clicks
  <2> QED
    BY <2>1 DEF PageType
<1> HIDE DEF page
<1>3. card' \in [Card -> PageType] /\ card'[c].queue = p.queue
      /\ \A d \in Card : d # c => card'[d] = card[d]
  BY <1>1, <1>2 DEF IInv
<1>4. /\ save \subseteq RequestType
      /\ posts \subseteq RequestType
      /\ \A r \in save : r = Request(c, p, "save", 0) /\ r.card = c
      /\ \A r \in posts : r.card = c /\ r.kind = "post"
  BY Requests DEF Due
<1>5. ASSUME NEW d \in Card PROVE OneSave(d)'
  <2>1. CASE d # c
    <3>1. \A r \in requests' : SaveAwaited(d, r) => r \in requests
      BY <1>1, <1>4, <2>1 DEF SaveAwaited
    <3>2. OneSave(d) /\ card'[d] = card[d]
      BY <1>3, <2>1 DEF IInv
    <3> QED
      BY <3>1, <3>2 DEF OneSave, SaveAwaited
  <2>2. CASE d = c
    <3>1. \A r \in requests' : SaveAwaited(c, r) => r \in inFlight \/ (startSave /\ r \in save)
      BY <1>1, <1>4 DEF SaveAwaited
    <3>2. \A r1, r2 \in requests' : SaveAwaited(c, r1) /\ SaveAwaited(c, r2) => r1 = r2
      BY <1>4, <3>1
    <3>3. \A r \in requests' : SaveAwaited(c, r) => card'[c].queue # <<>>
      BY <1>3, <3>1
    <3> QED
      BY <2>2, <3>2, <3>3 DEF OneSave, SaveAwaited
  <2> QED
    BY <2>1, <2>2
<1> QED
  BY <1>1, <1>3, <1>4, <1>5

\* A page that was left waits for nothing.
LEMMA NewPage == NewCard \in PageType /\ NewCard.queue = <<>>
<1>1. <<>> \in Queue
  BY Queues, InvoiceCardAssumption DEF Queue
<1>2. [s \in Slot |-> -1] \in [Slot -> -1 .. MaxQueue]
  BY InvoiceCardAssumption
<1> QED
  BY <1>1, <1>2, InvoiceCardAssumption DEF NewCard, PageType, New, Edits

\* Nor does one that starts.
LEMMA StartPage ==
    ASSUME NEW kind \in {"sales", "purchase"}, NEW closed \in BOOLEAN, NEW party \in BOOLEAN,
           NEW lined \in BOOLEAN, NEW id \in Row \cup {New}
    PROVE  [NewCard EXCEPT !.kind = kind, !.closed = closed, !.party = party,
                           !.lined = lined, !.id = id] \in PageType
BY NewPage DEF PageType

\* A page as any choice of a start leaves it is a page.
LEMMA StartTyped ==
    ASSUME NEW s \in [kind : {"sales", "purchase"}, opened : BOOLEAN, closed : BOOLEAN]
    PROVE  StartOf(s) \in PageType
<1> USE InvoiceCardAssumption
<1>1. PICK kind \in {"sales", "purchase"}, opened \in BOOLEAN, closed \in BOOLEAN :
        s = [kind |-> kind, opened |-> opened, closed |-> closed]
  OBVIOUS
<1> DEFINE id == IF opened THEN 1 ELSE New
<1>2. id \in Row \cup {New}
  BY DEF Row
<1> HIDE DEF id
<1>3. [NewCard EXCEPT !.kind = kind, !.closed = closed, !.party = opened,
                     !.lined = opened, !.id = id]
        \in PageType
  BY <1>2, StartPage
<1>4. StartOf(s) = [NewCard EXCEPT !.kind = kind, !.closed = closed, !.party = opened,
                                   !.lined = opened, !.id = id]
  BY <1>1 DEF StartOf, id
<1> QED
  BY <1>3, <1>4

\* A page that goes away leaves its requests to themselves.
LEMMA CloseKeeps ==
    ASSUME IInv, NEW c \in Card, NEW p \in PageType, NEW inFlight, inFlight \subseteq requests,
           Close(c, p, inFlight)
    PROVE  /\ card' \in [Card -> PageType]
           /\ requests' \subseteq RequestType
           /\ \A d \in Card : OneSave(d)'
<1> DEFINE page == [NewCard EXCEPT !.id = p.id, !.dirty = p.dirty, !.saved = p.saved,
                                   !.closed = TRUE]
<1>1. page \in PageType /\ page.queue = <<>>
  <2>1. p.id \in Row \cup {New} /\ p.dirty \in Edits /\ p.saved \in Edits
    BY DEF PageType
  <2> QED
    BY <2>1, NewPage DEF PageType
<1> HIDE DEF page
<1>2. card' = [card EXCEPT ![c] = page]
  BY DEF Close, page
<1>3. card' \in [Card -> PageType] /\ \A d \in Card : d # c => card'[d] = card[d]
  BY <1>1, <1>2 DEF IInv
<1>4. \A r \in inFlight : r \in RequestType /\ [r EXCEPT !.awaited = FALSE] \in RequestType
                          /\ [r EXCEPT !.awaited = FALSE].card = r.card
                          /\ ~[r EXCEPT !.awaited = FALSE].awaited
  BY DEF IInv, RequestType
<1>5. ASSUME NEW r \in requests'
      PROVE  r \in RequestType /\ (r.awaited => r \in requests /\ r.card # c)
  BY <1>4 DEF Close
<1>6. ASSUME NEW d \in Card PROVE OneSave(d)'
  <2>1. OneSave(d)
    BY DEF IInv
  <2>2. CASE d = c
    BY <1>5, <2>2 DEF OneSave, SaveAwaited
  <2>3. CASE d # c
    BY <1>3, <1>5, <2>1, <2>3 DEF OneSave, SaveAwaited
  <2> QED
    BY <2>2, <2>3
<1> QED
  BY <1>3, <1>5, <1>6

\* A step of a page that sends nothing and leaves its queue alone.
LEMMA PageKeeps ==
    ASSUME IInv, NEW c \in Card, NEW p \in PageType, p.queue = card[c].queue,
           card' = [card EXCEPT ![c] = p], UNCHANGED <<requests, rows, faulted>>
    PROVE  IInv'
<1>1. card' \in [Card -> PageType] /\ \A d \in Card : card'[d].queue = card[d].queue
  BY DEF IInv
<1>2. ASSUME NEW d \in Card PROVE OneSave(d)'
  <2>1. OneSave(d)
    BY DEF IInv
  <2> QED
    BY <1>1, <2>1 DEF OneSave, SaveAwaited
<1> QED
  BY <1>1, <1>2 DEF IInv

\* A request is replaced by what becomes of it: nothing, or itself with
\* another answer, and perhaps a copy nobody waits for.
LEMMA ReplaceKeeps ==
    ASSUME IInv, NEW r \in requests, card' = card,
           requests' \subseteq RequestType,
           \A q \in requests' : q.awaited => \/ q \in requests \ {r}
                                             \/ r.awaited /\ q.card = r.card /\ q.kind = r.kind,
           \A q1, q2 \in requests' :
              q1.awaited /\ q2.awaited /\ q1 \notin requests \ {r} /\ q2 \notin requests \ {r}
                 => q1 = q2
    PROVE  \A c \in Card : OneSave(c)'
<1> SUFFICES ASSUME NEW c \in Card PROVE OneSave(c)'
  OBVIOUS
<1>1. OneSave(c)
  BY DEF IInv
<1>2. ASSUME NEW q \in requests', SaveAwaited(c, q)
      PROVE  card'[c].queue # <<>> /\ \/ q \in requests \ {r}
                                      \/ SaveAwaited(c, r) /\ q \notin requests \ {r}
  BY <1>1, <1>2 DEF OneSave, SaveAwaited
<1>3. ASSUME NEW q1 \in requests', NEW q2 \in requests', SaveAwaited(c, q1), SaveAwaited(c, q2)
      PROVE  q1 = q2
  BY <1>1, <1>2, <1>3 DEF OneSave, SaveAwaited
<1> QED
  BY <1>2, <1>3 DEF OneSave, SaveAwaited

\* The server answers a request.
LEMMA AnswerKeeps ==
    ASSUME IInv, NEW r \in requests, NEW answer \in {"ok", "error"}, NEW id \in Row \cup {New},
           Answer(r, answer, id), card' = card
    PROVE  requests' \subseteq RequestType /\ \A c \in Card : OneSave(c)'
<1> DEFINE told == [r EXCEPT !.answer = answer, !.id = id]
<1>1. r \in RequestType /\ told \in RequestType /\ told.awaited = r.awaited
      /\ told.card = r.card /\ told.kind = r.kind
  BY DEF IInv, RequestType
<1> HIDE DEF told
<1>2. requests' = (requests \ {r}) \cup (IF r.awaited THEN {told} ELSE {})
  BY DEF Answer, told
<1>3. requests' \subseteq RequestType
  BY <1>1, <1>2 DEF IInv
<1>4. \A q \in requests' : q \in requests \ {r} \/ (r.awaited /\ q = told)
  BY <1>2
<1> QED
  BY <1>1, <1>3, <1>4, ReplaceKeeps

-----------------------------------------------------------------------------
(* The steps of a page.                                                    *)

\* Edits of lines and fields, and the choice of a party.
LEMMA EditOK ==
    ASSUME IInv, NEW c \in Card, NEW lined \in BOOLEAN, Edit(c, lined) \/ ChooseParty(c)
    PROVE  IInv'
<1> USE InvoiceCardAssumption
<1> DEFINE p == card[c]
           n == p.edits + 1
           dirty == IF p.posting THEN p.dirty ELSE n
           timer == p.timer \/ ~p.posting
           party == ~p.party
<1>0. MaxEdits \in Nat /\ Most[c] \in 0 .. MaxEdits
  OBVIOUS
<1>1. p \in PageType /\ card \in [Card -> PageType] /\ UNCHANGED <<requests, rows, faulted>>
      /\ p.edits < Most[c]
  BY DEF IInv, Edit, ChooseParty
<1>2. n \in Edits /\ dirty \in Edits /\ timer \in BOOLEAN /\ party \in BOOLEAN
  BY <1>0, <1>1 DEF PageType, Edits
<1>3. CASE Edit(c, lined)
  <2> DEFINE page == [p EXCEPT !.lined = lined, !.edits = n, !.dirty = dirty,
                               !.timer = timer, !.said = "nothing"]
  <2>1. card' = [card EXCEPT ![c] = page]
    BY <1>3 DEF Edit
  <2> HIDE DEF n, dirty, timer, party
  <2>2. page \in PageType /\ page.queue = p.queue
    BY <1>1, <1>2 DEF PageType
  <2> HIDE DEF page
  <2> QED
    BY <1>1, <2>1, <2>2, PageKeeps
<1>4. CASE ChooseParty(c)
  <2> DEFINE page == [p EXCEPT !.party = party, !.edits = n, !.dirty = dirty, !.timer = timer]
  <2>1. card' = [card EXCEPT ![c] = page]
    BY <1>4 DEF ChooseParty
  <2> HIDE DEF n, dirty, timer, party
  <2>2. page \in PageType /\ page.queue = p.queue
    BY <1>1, <1>2 DEF PageType
  <2> HIDE DEF page
  <2> QED
    BY <1>1, <2>1, <2>2, PageKeeps
<1> QED
  BY <1>3, <1>4

\* A save is queued, and sent if the queue was empty.
LEMMA EnqueueOK ==
    ASSUME IInv, NEW c \in Card, NEW leave \in BOOLEAN, Enqueue(c, leave),
           UNCHANGED <<rows, faulted>>
    PROVE  IInv'
<1> DEFINE p == card[c]
           queue == Append(p.queue, leave)
           first == p.queue = <<>>
           page == [p EXCEPT !.timer = FALSE, !.queue = queue]
<1>1. p \in PageType /\ p.queue \in Queue /\ Len(p.queue) < MaxQueue
      /\ OneSave(c) /\ requests \subseteq RequestType /\ first \in BOOLEAN
  BY DEF IInv, PageType, Enqueue
<1>2. queue \in Queue /\ queue # <<>>
  BY <1>1, Queues, InvoiceCardAssumption DEF Queue
<1>3. Run(c, page, requests, first)
  BY DEF Enqueue, Queued
<1> HIDE DEF queue
<1>4. page \in PageType /\ page.queue = queue
  BY <1>1, <1>2 DEF PageType
<1>5. first => \A r \in requests : ~SaveAwaited(c, r)
  BY <1>1 DEF OneSave
<1> HIDE DEF page, first
<1>6. /\ card' \in [Card -> PageType] /\ requests' \subseteq RequestType
      /\ \A d \in Card : OneSave(d)'
  BY <1>1, <1>2, <1>3, <1>4, <1>5, RunKeeps DEF OneSave
<1> QED
  BY <1>6 DEF IInv

\* The timer and the Save button.
LEMMA saveDraftOK ==
    ASSUME IInv, NEW c \in Card, saveDraft(c)
    PROVE  IInv'
<1> DEFINE page == [card[c] EXCEPT !.timer = FALSE]
<1>1. page \in PageType /\ page.queue = card[c].queue
  BY DEF IInv, PageType
<1>2. CASE card' = [card EXCEPT ![c].timer = FALSE] /\ UNCHANGED requests
  BY <1>1, <1>2, PageKeeps DEF saveDraft
<1>3. CASE Enqueue(c, FALSE)
  BY <1>3, EnqueueOK DEF saveDraft
<1> QED
  BY <1>2, <1>3 DEF saveDraft

\* Leaving the page.
LEMMA navigateWithSaveOK ==
    ASSUME IInv, NEW c \in Card, navigateWithSave(c)
    PROVE  IInv'
<1> DEFINE page == [card[c] EXCEPT !.timer = FALSE]
<1>1. page \in PageType /\ page.queue = card[c].queue /\ card[c] \in PageType
  BY DEF IInv, PageType
<1>2. CASE Close(c, card[c], requests)
  <2>1. /\ card' \in [Card -> PageType] /\ requests' \subseteq RequestType
        /\ \A d \in Card : OneSave(d)'
    BY <1>1, <1>2, CloseKeeps
  <2> QED
    BY <2>1 DEF IInv, navigateWithSave
<1>3. CASE card' = [card EXCEPT ![c].timer = FALSE] /\ UNCHANGED requests
  BY <1>1, <1>3, PageKeeps DEF navigateWithSave
<1>4. CASE Enqueue(c, TRUE)
  BY <1>4, EnqueueOK DEF navigateWithSave
<1> QED
  BY <1>2, <1>3, <1>4 DEF navigateWithSave

\* A click on Post.
LEMMA postInvoiceOK ==
    ASSUME IInv, NEW c \in Card, NEW s \in Slot, postInvoice(c, s)
    PROVE  IInv'
<1> DEFINE p == card[c]
           wait == Len(p.queue)
           clicks == [p.clicks EXCEPT ![s] = wait]
           page == [p EXCEPT !.timer = FALSE, !.clicks[s] = wait]
<1>1. p \in PageType /\ p.queue \in Queue /\ p.clicks \in [Slot -> -1 .. MaxQueue]
      /\ OneSave(c) /\ requests \subseteq RequestType
  BY DEF IInv, PageType
<1>2. wait \in -1 .. MaxQueue
  <2>1. wait \in 0 .. MaxQueue
    BY <1>1, Queues, InvoiceCardAssumption DEF Queue
  <2> QED
    BY <2>1, InvoiceCardAssumption
<1>3. Run(c, page, requests, FALSE)
  BY DEF postInvoice
<1> HIDE DEF wait
<1>4. clicks \in [Slot -> -1 .. MaxQueue]
  BY <1>1, <1>2
<1>5. page \in PageType /\ page.queue = p.queue
  BY <1>1, <1>4 DEF PageType
<1> HIDE DEF page
<1>6. /\ card' \in [Card -> PageType] /\ requests' \subseteq RequestType
      /\ \A d \in Card : OneSave(d)'
  BY <1>1, <1>3, <1>5, RunKeeps DEF OneSave
<1> QED
  BY <1>6 DEF IInv, postInvoice

\* A click on Post without a vendor.
LEMMA postWithoutVendorOK ==
    ASSUME IInv, NEW c \in Card, postWithoutVendor(c)
    PROVE  IInv'
<1> DEFINE said == IF TakenForSaved(c) THEN "saved" ELSE "failed"
           page == [card[c] EXCEPT !.timer = FALSE, !.said = said]
<1>1. card' = [card EXCEPT ![c] = page] /\ UNCHANGED <<requests, rows, faulted>>
  BY DEF postWithoutVendor
<1>2. said \in {"saved", "failed"}
  OBVIOUS
<1> HIDE DEF said
<1>3. page \in PageType /\ page.queue = card[c].queue
  BY <1>2 DEF IInv, PageType
<1> HIDE DEF page
<1> QED
  BY <1>1, <1>3, PageKeeps

\* A click on Delete.
LEMMA deleteInvoiceOK ==
    ASSUME IInv, NEW c \in Card, deleteInvoice(c)
    PROVE  IInv'
<1> DEFINE page == [card[c] EXCEPT !.timer = FALSE, !.deleting = TRUE]
           r == Request(c, card[c], "delete", 0)
<1>1. card' = [card EXCEPT ![c] = page] /\ requests' = requests \cup {r}
      /\ UNCHANGED <<rows, faulted>>
  BY DEF deleteInvoice
<1>2. page \in PageType /\ page.queue = card[c].queue /\ card[c] \in PageType
  BY DEF IInv, PageType
<1>3. r \in RequestType /\ r.kind = "delete"
  BY <1>2, Requests
<1> HIDE DEF page, r
<1>4. card' \in [Card -> PageType] /\ \A d \in Card : card'[d].queue = card[d].queue
  BY <1>1, <1>2 DEF IInv
<1>5. requests' \subseteq RequestType
  BY <1>1, <1>3 DEF IInv
<1>6. ASSUME NEW d \in Card PROVE OneSave(d)'
  <2>1. OneSave(d)
    BY DEF IInv
  <2>2. \A q \in requests' : SaveAwaited(d, q) => q \in requests
    BY <1>1, <1>3 DEF SaveAwaited
  <2> QED
    BY <1>4, <2>1, <2>2 DEF OneSave, SaveAwaited
<1> QED
  BY <1>1, <1>4, <1>5, <1>6 DEF IInv

-----------------------------------------------------------------------------
(* The steps of the server, and of the answers.                            *)

\* What a request says is content.
LEMMA SaidContent ==
    ASSUME IInv, NEW r \in requests
    PROVE  /\ r \in RequestType /\ Said(r) \in Contents
           /\ StatusAfter[r.kind] \in {"Open", "Posted", "Deleted"}
<1>1. r \in RequestType
  BY DEF IInv
<1>2. Said(r) = {<<r.card, r.content>>} /\ r.card \in Card /\ r.content \in Edits
  BY <1>1 DEF Said, RequestType
<1>3. StatusAfter[r.kind] \in {"Open", "Posted", "Deleted"}
  BY <1>1 DEF StatusAfter, RequestType
<1> QED
  BY <1>1, <1>2, <1>3 DEF Contents, Edits

\* An update keeps the rest of the row.
LEMMA UpdateRow ==
    ASSUME IInv, NEW r \in requests, Update(r)
    PROVE  /\ r.id \in Row /\ rows[r.id].status = "Open"
           /\ rows' \in [Row -> RowType]
           /\ rows'[r.id].status = StatusAfter[r.kind]
           /\ \A i \in Row : i # r.id => rows'[i] = rows[i]
<1> DEFINE i == r.id
           status == StatusAfter[r.kind]
           content == IF r.kind = "delete" THEN rows[i].content ELSE Said(r)
           writers == rows[i].writers \cup {r.card}
           row == [rows[i] EXCEPT !.status = status, !.content = content, !.writers = writers]
<1>1. i \in Row /\ rows[i].status = "Open" /\ rows[i] \in RowType /\ rows \in [Row -> RowType]
  BY SaidContent DEF Update, Open, IInv, RequestType
<1>2. rows' = [rows EXCEPT ![i] = row]
  BY <1>1 DEF Update
<1>3. content \in Contents /\ writers \in SUBSET Card /\ status \in {"Open", "Posted", "Deleted"}
  BY <1>1, SaidContent DEF RowType, RequestType
<1> HIDE DEF status, content, writers
<1>4. row \in RowType /\ row.status = status
  BY <1>1, <1>3 DEF RowType
<1> HIDE DEF row
<1> QED
  BY <1>1, <1>2, <1>4 DEF status

\* The server saves, posts or deletes a draft.
LEMMA UpdateOK ==
    ASSUME IInv, NEW r \in requests, Update(r)
    PROVE  IInv'
<1>1. \A j \in Row : rows'[j].status = "none" => rows'[j] = NoRow
  BY UpdateRow, SaidContent DEF IInv
<1>2. requests' \subseteq RequestType /\ \A c \in Card : OneSave(c)'
  BY UpdateRow, AnswerKeeps DEF Update
<1> QED
  BY <1>1, <1>2, UpdateRow DEF IInv, Update

\* A new invoice takes a row that was never used.
LEMMA InsertRow ==
    ASSUME IInv, NEW r \in requests, Insert(r)
    PROVE  \E i \in Row :
             /\ rows[i] = NoRow /\ Answer(r, "ok", i)
             /\ rows' \in [Row -> RowType]
             /\ rows'[i].status = StatusAfter[r.kind]
             /\ \A j \in Row : j # i => rows'[j] = rows[j]
<1> DEFINE row == [status |-> StatusAfter[r.kind], content |-> Said(r),
                   maker |-> {r.card}, writers |-> {r.card}]
<1>1. PICK i \in Row : rows[i] = NoRow /\ rows' = [rows EXCEPT ![i] = row] /\ Answer(r, "ok", i)
  BY DEF Insert
<1>2. row \in RowType /\ row.status = StatusAfter[r.kind]
  BY SaidContent DEF RowType, RequestType
<1> HIDE DEF row
<1> QED
  BY <1>1, <1>2 DEF IInv

\* The server posts or saves a new invoice.
LEMMA InsertOK ==
    ASSUME IInv, NEW r \in requests, Insert(r)
    PROVE  IInv'
<1>1. PICK i \in Row : /\ rows[i] = NoRow /\ Answer(r, "ok", i)
                       /\ rows' \in [Row -> RowType]
                       /\ rows'[i].status = StatusAfter[r.kind]
                       /\ \A j \in Row : j # i => rows'[j] = rows[j]
  BY InsertRow
<1>2. \A j \in Row : rows'[j].status = "none" => rows'[j] = NoRow
  BY <1>1, SaidContent DEF IInv
<1>3. requests' \subseteq RequestType /\ \A c \in Card : OneSave(c)'
  BY <1>1, AnswerKeeps DEF Insert
<1> QED
  BY <1>1, <1>2, <1>3 DEF IInv, Insert

\* The server refuses.
LEMMA RefuseOK ==
    ASSUME IInv, NEW r \in requests, Refuse(r)
    PROVE  IInv'
<1>1. r.id \in Row \cup {New}
  BY DEF IInv, RequestType
<1>2. requests' \subseteq RequestType /\ \A c \in Card : OneSave(c)'
  BY <1>1, AnswerKeeps DEF Refuse
<1> QED
  BY <1>2 DEF IInv, Refuse

\* An answer is lost: the card takes the request for refused, and one not
\* served yet goes on without it.
LEMMA LoseOK ==
    ASSUME IInv, NEW r \in requests, Lose(r)
    PROVE  IInv'
<1> DEFINE told == [r EXCEPT !.answer = "error"]
           ghost == [r EXCEPT !.awaited = FALSE]
<1>1. /\ r \in RequestType /\ told \in RequestType /\ ghost \in RequestType
      /\ told.card = r.card /\ told.kind = r.kind /\ ~ghost.awaited
  BY DEF IInv, RequestType
<1> HIDE DEF told, ghost
<1>2. requests' = (requests \ {r}) \cup {told} \cup (IF Pending(r) THEN {ghost} ELSE {})
  BY DEF Lose, told, ghost
<1>3. requests' \subseteq RequestType
  BY <1>1, <1>2 DEF IInv
<1>4. \A q \in requests' : q.awaited => q \in requests \ {r} \/ q = told
  BY <1>1, <1>2
<1>5. r.awaited /\ card' = card
  BY DEF Lose
<1>6. \A c \in Card : OneSave(c)'
  BY <1>1, <1>3, <1>4, <1>5, ReplaceKeeps
<1> QED
  BY <1>1, <1>3, <1>6 DEF IInv, Lose, RequestType

\* The next job of the queue starts when the first is done.
LEMMA NextJobKeeps ==
    ASSUME IInv, NEW r \in requests, SaveAwaited(r.card, r),
           NEW p \in PageType, p.queue = card[r.card].queue, NextJob(r, p)
    PROVE  /\ card' \in [Card -> PageType]
           /\ requests' \subseteq RequestType
           /\ \A d \in Card : OneSave(d)'
<1> DEFINE c == r.card
           queue == Tail(p.queue)
           clicks == [s \in Slot |-> IF p.clicks[s] > 0 THEN p.clicks[s] - 1 ELSE p.clicks[s]]
           page == [p EXCEPT !.queue = queue, !.clicks = clicks]
           more == Len(p.queue) > 1
<1>1. c \in Card /\ OneSave(c) /\ p.queue # <<>> /\ p.queue \in Queue
      /\ requests \subseteq RequestType
  BY DEF IInv, RequestType, OneSave, PageType
<1>2. queue \in Queue /\ (more <=> queue # <<>>)
  BY <1>1, Queues, InvoiceCardAssumption DEF Queue
<1>3. clicks \in [Slot -> -1 .. MaxQueue]
  BY InvoiceCardAssumption DEF PageType
<1>4. Run(c, page, requests \ {r}, more)
  BY DEF NextJob
<1> HIDE DEF queue, clicks
<1>5. page \in PageType /\ page.queue = queue
  BY <1>2, <1>3 DEF PageType
<1>6. \A q \in requests \ {r} : ~SaveAwaited(c, q)
  BY <1>1 DEF OneSave
<1>7. more \in BOOLEAN /\ requests \ {r} \subseteq RequestType
  BY <1>1
<1> HIDE DEF page, more, c
<1> QED
  BY <1>1, <1>2, <1>4, <1>5, <1>6, <1>7, RunKeeps

\* A save was done: the page notes what it saved, and goes on or leaves.
LEMMA SaveDoneOK ==
    ASSUME IInv, NEW r \in requests, SaveDone(r)
    PROVE  IInv'
<1> DEFINE c == r.card
           version == SavedVersion(r)
           p == [card[c] EXCEPT !.id = r.id, !.saved = version]
<1>1. /\ r \in RequestType /\ c \in Card /\ card[c] \in PageType
      /\ r.id \in Row \cup {New} /\ r.dirty \in Edits /\ SaveAwaited(c, r)
      /\ UNCHANGED <<rows, faulted>>
  BY DEF IInv, RequestType, SaveDone, Arrives, SaveAwaited
<1>2. version \in Edits
  BY <1>1 DEF SavedVersion, PageType
<1>3. Close(c, p, requests \ {r}) \/ NextJob(r, p)
  BY DEF SaveDone
<1> HIDE DEF version
<1>4. p \in PageType /\ p.queue = card[c].queue
  BY <1>1, <1>2 DEF PageType
<1> HIDE DEF p
<1>5. /\ card' \in [Card -> PageType] /\ requests' \subseteq RequestType
      /\ \A d \in Card : OneSave(d)'
  <2>1. requests \ {r} \subseteq requests
    OBVIOUS
  <2> QED
    BY <1>1, <1>3, <1>4, <2>1, CloseKeeps, NextJobKeeps
<1> QED
  BY <1>1, <1>5 DEF IInv

\* A save failed: the page says so and its queue goes on.
LEMMA SaveFailedOK ==
    ASSUME IInv, NEW r \in requests, SaveFailed(r)
    PROVE  IInv'
<1> DEFINE c == r.card
           p == [card[c] EXCEPT !.said = "failed"]
<1>1. /\ r \in RequestType /\ c \in Card /\ card[c] \in PageType /\ SaveAwaited(c, r)
      /\ faulted' \subseteq Card /\ rows' = rows
  BY DEF IInv, RequestType, SaveFailed, Arrives, SaveAwaited
<1>2. NextJob(r, p)
  BY DEF SaveFailed, Told
<1>3. p \in PageType /\ p.queue = card[c].queue
  BY <1>1 DEF PageType
<1> HIDE DEF p
<1>4. /\ card' \in [Card -> PageType] /\ requests' \subseteq RequestType
      /\ \A d \in Card : OneSave(d)'
  BY <1>1, <1>2, <1>3, NextJobKeeps
<1> QED
  BY <1>1, <1>4 DEF IInv

\* A post or a delete was done: the page is left.
LEMMA FinishedOK ==
    ASSUME IInv, NEW r \in requests, Finished(r)
    PROVE  IInv'
<1> DEFINE c == r.card
           p == [card[c] EXCEPT !.saved = card[c].dirty]
<1>1. c \in Card /\ card[c] \in PageType /\ Close(c, p, requests \ {r})
      /\ UNCHANGED <<rows, faulted>>
  BY DEF IInv, RequestType, Finished
<1>2. p \in PageType
  BY <1>1 DEF PageType
<1> HIDE DEF p
<1>3. /\ card' \in [Card -> PageType] /\ requests' \subseteq RequestType
      /\ \A d \in Card : OneSave(d)'
  <2>1. requests \ {r} \subseteq requests
    OBVIOUS
  <2> QED
    BY <1>1, <1>2, <2>1, CloseKeeps
<1> QED
  BY <1>1, <1>3 DEF IInv

\* A post or a delete failed: the page may try again.
LEMMA FailedOK ==
    ASSUME IInv, NEW r \in requests, PostFailed(r) \/ DeleteFailed(r)
    PROVE  IInv'
<1> DEFINE c == r.card
           posting == [card[c] EXCEPT !.said = "failed", !.posting = FALSE]
           deleting == [card[c] EXCEPT !.said = "failed", !.deleting = FALSE]
<1>1. c \in Card /\ card[c] \in PageType /\ card \in [Card -> PageType]
      /\ requests' = requests \ {r} /\ UNCHANGED <<rows, faulted>>
  BY DEF IInv, RequestType, PostFailed, DeleteFailed
<1>2. /\ posting \in PageType /\ posting.queue = card[c].queue
      /\ deleting \in PageType /\ deleting.queue = card[c].queue
  BY <1>1 DEF PageType
<1>3. card' = [card EXCEPT ![c] = posting] \/ card' = [card EXCEPT ![c] = deleting]
  BY DEF PostFailed, DeleteFailed, Told
<1> HIDE DEF posting, deleting
<1>4. card' \in [Card -> PageType] /\ \A d \in Card : card'[d].queue = card[d].queue
  BY <1>1, <1>2, <1>3
<1>5. ASSUME NEW d \in Card PROVE OneSave(d)'
  <2>1. OneSave(d)
    BY DEF IInv
  <2> QED
    BY <1>1, <1>4, <2>1 DEF OneSave, SaveAwaited
<1> QED
  BY <1>1, <1>4, <1>5 DEF IInv

-----------------------------------------------------------------------------
(* The invariant, and what follows.                                        *)

\* Pages as they start, on no draft or on draft 1.
LEMMA InitIInv == Init => IInv
<1> SUFFICES ASSUME Init PROVE IInv
  OBVIOUS
<1> USE InvoiceCardAssumption
<1>1. PICK start \in Starts : card = [c \in Card |-> StartOf(start[c])]
  BY DEF Init
<1>2. ASSUME NEW c \in Card PROVE StartOf(start[c]) \in PageType
  BY StartTyped
<1>3. card \in [Card -> PageType]
  BY <1>1, <1>2
<1>4. rows \in [Row -> RowType] /\ \A i \in Row : rows[i].status = "none" => rows[i] = NoRow
  <2>1. NoRow \in RowType
    BY DEF NoRow, RowType, Contents
  <2>2. [NoRow EXCEPT !.status = "Open"] \in RowType
        /\ [NoRow EXCEPT !.status = "Open"].status = "Open"
    BY <2>1 DEF RowType
  <2> QED
    BY <2>1, <2>2 DEF Init
<1>5. requests = {} /\ faulted = {}
  BY DEF Init
<1> QED
  BY <1>3, <1>4, <1>5 DEF IInv, OneSave

\* Every step of the pages, the server and the network preserves it.
LEMMA StepIInv == IInv /\ [Next]_vars => IInv'
<1> SUFFICES ASSUME IInv, [Next]_vars PROVE IInv'
  OBVIOUS
<1>1. ASSUME NEW c \in Card, Clerk(c) \/ AutoSave(c) PROVE IInv'
  BY <1>1, EditOK, saveDraftOK, navigateWithSaveOK, postInvoiceOK, postWithoutVendorOK,
     deleteInvoiceOK DEF Clerk, AutoSave
<1>2. ASSUME NEW r \in requests, Serve(r) \/ Lose(r) PROVE IInv'
  BY <1>2, UpdateOK, InsertOK, RefuseOK, LoseOK DEF Serve
<1>3. ASSUME NEW r \in requests, Deliver(r) PROVE IInv'
  BY <1>3, SaveDoneOK, SaveFailedOK, FinishedOK, FailedOK DEF Deliver
<1>4. CASE UNCHANGED vars
  BY <1>4 DEF vars, IInv, OneSave, SaveAwaited
<1> QED
  BY <1>1, <1>2, <1>3, <1>4 DEF Next

\* The invariant holds throughout.
LEMMA Inductive == Spec => []IInv
BY InitIInv, StepIInv, PTL DEF Spec

\* The state keeps its types, and no page ever awaits two saves: the queue of
\* the page serialises them however edits, clicks and answers interleave.
THEOREM TypeCorrect == Spec => []TypeOK
<1>1. IInv => TypeOK
  <2> SUFFICES ASSUME IInv PROVE TypeOK
    OBVIOUS
  <2>1. card \in [Card -> CardType]
    <3>1. Queue \subseteq BoundedSeq(BOOLEAN, MaxQueue)
      BY Bounded, InvoiceCardAssumption DEF Queue
    <3>2. PageType \subseteq CardType
      BY <3>1 DEF PageType, CardType, Edits
    <3> QED
      BY <3>2 DEF IInv
  <2>2. \A r \in requests : r.card \in Card /\ r.id \in Row \cup {New}
    BY DEF IInv, RequestType
  <2>3. ASSUME NEW c \in Card
        PROVE  Cardinality({r \in requests : r.card = c /\ r.kind = "save" /\ r.awaited}) <= 1
    <3> DEFINE S == {r \in requests : r.card = c /\ r.kind = "save" /\ r.awaited}
    <3>1. \A r1, r2 \in S : r1 = r2
      BY DEF IInv, OneSave, SaveAwaited
    <3> HIDE DEF S
    <3>2. S = {} \/ \E r : S = {r}
      BY <3>1
    <3>3. Cardinality(S) = 0 \/ Cardinality(S) = 1
      BY <3>2, FS_EmptySet, FS_Singleton
    <3>4. Cardinality(S) <= 1
      BY <3>3
    <3> QED
      BY <3>4 DEF S
  <2>4. \A i \in Row : rows[i].content \in Contents
    BY DEF IInv, RowType
  <2> QED
    BY <2>1, <2>2, <2>3, <2>4 DEF TypeOK, IInv
<1> QED
  BY <1>1, Inductive, PTL

\* What the abstract specification sees of the rows.
Abstract == [i \in Row |-> [status |-> rows[i].status, content |-> rows[i].content]]

\* Rows with their types are invoices of the abstract specification.
LEMMA AbstractRow ==
    ASSUME NEW row \in RowType
    PROVE  /\ row.status = "Open" =>
                [status |-> row.status, content |-> row.content] \in Life!Draft
           /\ row.status \in {"Posted", "Deleted"} =>
                [status |-> row.status, content |-> row.content] \in Life!Final
BY DEF RowType, Life!Draft, Life!Final

\* One row changes, from unused or open.
LEMMA AbstractStep ==
    ASSUME NEW i \in Row, NEW s \in {"Open", "Posted", "Deleted"},
           rows \in [Row -> RowType], rows' \in [Row -> RowType],
           rows[i] = NoRow \/ rows[i].status = "Open",
           rows'[i].status = s, \A j \in Row : j # i => rows'[j] = rows[j]
    PROVE  Life!Next
<1> DEFINE new == [status |-> rows'[i].status, content |-> rows'[i].content]
<1>1. Abstract[i] \in {Life!None} \cup Life!Draft
  <2>1. CASE rows[i] = NoRow
    BY <2>1 DEF Abstract, NoRow, Life!None
  <2>2. CASE rows[i].status = "Open"
    BY <2>2, AbstractRow DEF Abstract
  <2> QED
    BY <2>1, <2>2
<1>2. Abstract' = [Abstract EXCEPT ![i] = new]
  BY DEF Abstract
<1>3. new \in Life!Draft \/ new \in Life!Final
  BY AbstractRow
<1>4. Life!Save(i) \/ Life!Finish(i)
  BY <1>1, <1>2, <1>3 DEF Life!Save, Life!Finish, Abstract
<1> QED
  BY <1>4 DEF Life!Next

\* Whatever the cards send, and whatever is lost on the way, an invoice is
\* saved while it is open, posted or deleted once, and never touched again.
THEOREM Refinement == Spec => RefinesDraftLife
<1>1. Init => Life!Init
  <2> SUFFICES ASSUME Init PROVE Life!Init
    OBVIOUS
  <2>1. ASSUME NEW i \in Row
        PROVE  [status |-> rows[i].status, content |-> rows[i].content]
                 \in {Life!None} \cup Life!Draft
    <3>1. IInv
      BY InitIInv
    <3>2. rows[i] = NoRow \/ (rows[i].status = "Open" /\ rows[i] \in RowType)
      BY <3>1 DEF Init, IInv, NoRow
    <3>3. CASE rows[i] = NoRow
      BY <3>3 DEF NoRow, Life!None
    <3> QED
      BY <3>2, <3>3, AbstractRow
  <2> QED
    BY <2>1 DEF Life!Init
<1>2. IInv /\ [Next]_vars => [Life!Next]_Abstract
  <2> SUFFICES ASSUME IInv, [Next]_vars PROVE Life!Next \/ rows' = rows
    BY DEF Abstract
  <2>1. ASSUME NEW r \in requests, Update(r) PROVE Life!Next
    BY <2>1, UpdateRow, SaidContent, AbstractStep DEF IInv
  <2>2. ASSUME NEW r \in requests, Insert(r) PROVE Life!Next
    <3>1. PICK i \in Row : /\ rows[i] = NoRow
                           /\ rows' \in [Row -> RowType]
                           /\ rows'[i].status = StatusAfter[r.kind]
                           /\ \A j \in Row : j # i => rows'[j] = rows[j]
      BY <2>2, InsertRow
    <3> QED
      BY <3>1, SaidContent, AbstractStep DEF IInv
  <2>3. ASSUME NEW c \in Card, Clerk(c) \/ AutoSave(c) PROVE rows' = rows
    BY <2>3 DEF Clerk, Edit, ChooseParty, navigateWithSave, postInvoice, postWithoutVendor,
               deleteInvoice, saveDraft, AutoSave
  <2>4. ASSUME NEW r \in requests, Refuse(r) \/ Lose(r) \/ Deliver(r) PROVE rows' = rows
    BY <2>4 DEF Refuse, Lose, Deliver, SaveDone, SaveFailed, Finished, PostFailed, DeleteFailed
  <2> QED
    BY <2>1, <2>2, <2>3, <2>4 DEF Next, Serve, vars
<1> QED
  BY <1>1, <1>2, Inductive, PTL DEF Spec, RefinesDraftLife, Life!Spec, Abstract

-----------------------------------------------------------------------------
(* One card makes one invoice.                                             *)

Mine(c) == {r \in requests : r.card = c}
Asks(c) == {r \in Mine(c) : Pending(r) /\ r.id = New}
MadeBy(c) == {i \in Row : rows[i].maker = {c}}

\* A page that has no invoice yet has one request out at the most.  A save is
\* at the head of its queue, a post has raised the flag on an empty queue, and
\* clicks wait only for saves.  If the server has made the invoice, the answer
\* is on its way.
Fresh(c) ==
    /\ \A r1, r2 \in Mine(c) : r1 = r2
    /\ \A r \in Mine(c) :
          /\ r.awaited
          /\ r.kind = "save" => card[c].queue # <<>>
          /\ r.kind = "post" => card[c].posting /\ card[c].queue = <<>>
          /\ r.kind # "delete"
    /\ MadeBy(c) # {} => \E r \in Mine(c) : r.answer = "ok"
    /\ \A s \in Slot : card[c].clicks[s] # -1 => card[c].clicks[s] > 0 /\ card[c].queue # <<>>

\* Of the requests of a card at most one may still make an invoice, and none
\* when one was made.
OneMade(c) ==
    /\ \A r1, r2 \in Asks(c) : r1 = r2
    /\ Asks(c) # {} => MadeBy(c) = {}
    /\ \A i, j \in MadeBy(c) : i = j
    /\ ~card[c].closed /\ card[c].id # New => Asks(c) = {}
    /\ ~card[c].closed /\ card[c].id = New => Fresh(c)

Named == \A r \in requests : r.answer = "ok" => r.id # New
MadeInv == Named /\ \A c \in Card \ faulted : OneMade(c)

\* A step that leaves a card, its requests and its invoices alone.
LEMMA SameMade ==
    ASSUME NEW d \in Card, OneMade(d), card'[d] = card[d], Mine(d)' = Mine(d),
           MadeBy(d)' = MadeBy(d)
    PROVE  OneMade(d)'
<1>1. Asks(d)' = Asks(d)
  BY DEF Asks, Pending, New
<1>2. Fresh(d) => Fresh(d)'
  BY DEF Fresh
<1> QED
  BY <1>1, <1>2 DEF OneMade, New

\* What a page sends waits for its answer.
LEMMA Asked ==
    ASSUME NEW c \in Card, NEW p \in PageType, NEW kind \in {"save", "post", "delete"},
           NEW slot \in Slot \cup {0}
    PROVE  /\ Request(c, p, kind, slot).card = c /\ Request(c, p, kind, slot).kind = kind
           /\ Request(c, p, kind, slot).id = p.id /\ Request(c, p, kind, slot).answer = "none"
           /\ Request(c, p, kind, slot).awaited
BY DEF Request

\* What is in flight after the due jobs of a page have run.
LEMMA RunSends ==
    ASSUME NEW c \in Card, NEW p \in PageType, NEW inFlight, NEW startSave \in BOOLEAN,
           Run(c, p, inFlight, startSave)
    PROVE  /\ inFlight \subseteq requests'
           /\ \A r \in requests' \ inFlight :
                 /\ r.card = c /\ r.id = p.id /\ r.answer = "none" /\ r.awaited
                 /\ \/ r = Request(c, p, "save", 0) /\ r.kind = "save" /\ startSave
                    \/ \E s \in Due(p) : r = Request(c, p, "post", s) /\ r.kind = "post"
<1> DEFINE save == IF startSave THEN {Request(c, p, "save", 0)} ELSE {}
           posts == {Request(c, p, "post", s) : s \in Due(p)}
<1>1. requests' = inFlight \cup save \cup posts
  BY DEF Run
<1>2. ASSUME NEW r \in save
      PROVE  /\ r.card = c /\ r.id = p.id /\ r.answer = "none" /\ r.awaited
             /\ r = Request(c, p, "save", 0) /\ r.kind = "save" /\ startSave
  BY <1>2, Asked
<1>3. ASSUME NEW r \in posts
      PROVE  /\ r.card = c /\ r.id = p.id /\ r.answer = "none" /\ r.awaited
             /\ \E s \in Due(p) : r = Request(c, p, "post", s) /\ r.kind = "post"
  <2>1. PICK s \in Due(p) : r = Request(c, p, "post", s)
    BY <1>3
  <2>2. s \in Slot \cup {0}
    BY <2>1 DEF Due
  <2> QED
    BY <2>1, <2>2, Asked
<1> HIDE DEF save, posts
<1> QED
  BY <1>1, <1>2, <1>3

\* The page as its due jobs leave it.
LEMMA RunPage ==
    ASSUME IInv, NEW c \in Card, NEW p \in PageType, NEW inFlight, NEW startSave \in BOOLEAN,
           Run(c, p, inFlight, startSave)
    PROVE  /\ card'[c].closed = p.closed /\ card'[c].id = p.id /\ card'[c].queue = p.queue
           /\ card'[c].posting = (p.posting \/ Due(p) # {})
           /\ \A s \in Slot : card'[c].clicks[s] = IF s \in Due(p) THEN -1 ELSE p.clicks[s]
           /\ \A d \in Card : d # c => card'[d] = card[d]
<1> DEFINE posting == p.posting \/ Due(p) # {}
           clicks == [s \in Slot |-> IF s \in Due(p) THEN -1 ELSE p.clicks[s]]
           page == [p EXCEPT !.posting = posting, !.clicks = clicks]
<1>1. card' = [card EXCEPT ![c] = page]
  BY DEF Run
<1>2. /\ page.closed = p.closed /\ page.id = p.id /\ page.queue = p.queue
      /\ page.posting = posting /\ page.clicks = clicks
  <2> HIDE DEF posting, clicks
  <2> QED
    BY DEF PageType
<1> HIDE DEF page
<1>3. card'[c] = page /\ \A d \in Card : d # c => card'[d] = card[d]
  BY <1>1 DEF IInv
<1> QED
  BY <1>2, <1>3

\* The other cards, and what has an id, while a page runs its due jobs.
LEMMA RunOthers ==
    ASSUME IInv, MadeInv, NEW c \in Card, NEW p \in PageType, NEW inFlight,
           NEW startSave \in BOOLEAN, Run(c, p, inFlight, startSave),
           inFlight \subseteq requests, \A r \in requests \ inFlight : r.card = c,
           UNCHANGED rows
    PROVE  Named' /\ \A d \in Card \ faulted : d # c => OneMade(d)'
<1>1. Named'
  BY RunSends DEF MadeInv, Named
<1>2. ASSUME NEW d \in Card \ faulted, d # c PROVE OneMade(d)'
  <2>1. Mine(d)' = Mine(d)
    BY <1>2, RunSends DEF Mine
  <2>2. MadeBy(d)' = MadeBy(d)
    BY DEF MadeBy
  <2>3. card'[d] = card[d]
    BY <1>2, RunPage
  <2> QED
    BY <2>1, <2>2, <2>3, SameMade DEF MadeInv
<1> QED
  BY <1>1, <1>2

\* A page that has its invoice sends nothing that makes another.
LEMMA RunNamed ==
    ASSUME IInv, NEW c \in Card, OneMade(c), NEW p \in PageType, NEW inFlight,
           NEW startSave \in BOOLEAN, Run(c, p, inFlight, startSave),
           inFlight \subseteq requests, p.id # New, p.closed = card[c].closed,
           ~p.closed => \A r \in inFlight : r \notin Asks(c),
           UNCHANGED rows
    PROVE  OneMade(c)'
<1>1. Asks(c)' \subseteq Asks(c) \cap inFlight
  BY RunSends DEF Asks, Mine, Pending, New
<1>2. MadeBy(c)' = MadeBy(c)
  BY DEF MadeBy
<1>3. card'[c].id # New /\ card'[c].closed = p.closed
  BY RunPage
<1> QED
  BY <1>1, <1>2, <1>3 DEF OneMade, New

\* A page that goes away sends nothing more.
LEMMA CloseMade ==
    ASSUME IInv, MadeInv, NEW c \in Card, NEW p \in PageType, NEW inFlight,
           inFlight \subseteq requests, \A r \in requests \ inFlight : r.card = c,
           Close(c, p, inFlight), UNCHANGED <<rows, faulted>>
    PROVE  MadeInv'
<1> DEFINE page == [NewCard EXCEPT !.id = p.id, !.dirty = p.dirty, !.saved = p.saved,
                                   !.closed = TRUE]
           left(r) == IF r.card = c THEN [r EXCEPT !.awaited = FALSE] ELSE r
           kept == {q \in inFlight : q.card = c => Pending(q)}
<1>1. card' = [card EXCEPT ![c] = page] /\ requests' = {left(r) : r \in kept}
  BY DEF Close
<1>2. page.closed
  BY DEF NewCard
<1> HIDE DEF page
<1>3. card'[c].closed /\ \A d \in Card : d # c => card'[d] = card[d]
  BY <1>1, <1>2 DEF IInv
<1>4. ASSUME NEW r \in requests
      PROVE  /\ left(r).card = r.card /\ left(r).answer = r.answer /\ left(r).id = r.id
             /\ r.card # c => left(r) = r
  BY <1>4 DEF IInv, RequestType
<1> HIDE DEF left
<1>5. \A q \in requests' : \E r \in requests :
         q = left(r) /\ (r.card = c => Pending(r))
  BY <1>1
<1>6. Named'
  BY <1>4, <1>5 DEF Named, MadeInv, New
<1>7. ASSUME NEW d \in Card \ faulted, d # c PROVE OneMade(d)'
  <2>1. Mine(d)' = Mine(d)
    <3>1. \A r \in Mine(d) : r \in kept /\ left(r) = r
      BY <1>4, <1>7 DEF Mine
    <3>2. Mine(d) \subseteq requests'
      BY <1>1, <3>1
    <3>3. \A q \in requests' : q.card = d => q \in requests
      BY <1>4, <1>5, <1>7
    <3> QED
      BY <3>2, <3>3 DEF Mine
  <2>2. MadeBy(d)' = MadeBy(d)
    BY DEF MadeBy
  <2> QED
    BY <1>3, <1>7, <2>1, <2>2, SameMade DEF MadeInv
<1>8. ASSUME c \notin faulted PROVE OneMade(c)'
  <2>1. OneMade(c)
    BY <1>8 DEF MadeInv
  <2>2. MadeBy(c)' = MadeBy(c)
    BY DEF MadeBy
  <2>3. ASSUME NEW q \in Asks(c)' PROVE \E r \in Asks(c) : q = left(r)
    BY <1>4, <1>5, <2>3 DEF Asks, Mine, Pending, New
  <2> QED
    BY <1>3, <2>1, <2>2, <2>3 DEF OneMade
<1> QED
  BY <1>6, <1>7, <1>8 DEF MadeInv

\* A step of a page that sends nothing and leaves alone what it works on.
LEMMA PageMade ==
    ASSUME IInv, MadeInv, NEW c \in Card, NEW p \in PageType,
           p.queue = card[c].queue, p.clicks = card[c].clicks, p.posting = card[c].posting,
           p.id = card[c].id, p.closed = card[c].closed,
           card' = [card EXCEPT ![c] = p], UNCHANGED <<requests, rows, faulted>>
    PROVE  MadeInv'
<1>1. ASSUME NEW d \in Card
      PROVE  /\ card'[d].queue = card[d].queue /\ card'[d].clicks = card[d].clicks
             /\ card'[d].posting = card[d].posting /\ card'[d].id = card[d].id
             /\ card'[d].closed = card[d].closed
  BY DEF IInv
<1>2. ASSUME NEW d \in Card, OneMade(d) PROVE OneMade(d)'
  <2>1. Mine(d)' = Mine(d) /\ Asks(d)' = Asks(d) /\ MadeBy(d)' = MadeBy(d)
    BY DEF Mine, Asks, Pending, New, MadeBy
  <2>2. Fresh(d) => Fresh(d)'
    BY <1>1, <2>1 DEF Fresh
  <2> QED
    BY <1>1, <1>2, <2>1, <2>2 DEF OneMade, New
<1> QED
  BY <1>2 DEF MadeInv, Named, New

\* A save is queued: the first of a page without an invoice is its only request.
LEMMA EnqueueMade ==
    ASSUME IInv, MadeInv, NEW c \in Card, NEW leave \in BOOLEAN, Enqueue(c, leave), Here(c),
           ~card[c].posting, UNCHANGED <<rows, faulted>>
    PROVE  MadeInv'
<1> DEFINE p == card[c]
           queue == Append(p.queue, leave)
           first == p.queue = <<>>
           page == [p EXCEPT !.timer = FALSE, !.queue = queue]
<1>1. p \in PageType /\ p.queue \in Queue /\ Len(p.queue) < MaxQueue /\ first \in BOOLEAN
  BY DEF IInv, PageType, Enqueue
<1>2. queue \in Queue /\ queue # <<>>
  BY <1>1, Queues, InvoiceCardAssumption DEF Queue
<1>3. Run(c, page, requests, first)
  BY DEF Enqueue, Queued
<1> HIDE DEF queue
<1>4. /\ page \in PageType /\ page.queue = queue /\ page.clicks = p.clicks
      /\ page.posting = p.posting /\ page.id = p.id /\ page.closed = p.closed
  BY <1>1, <1>2 DEF PageType
<1> HIDE DEF page, first
<1>5. Named' /\ \A d \in Card \ faulted : d # c => OneMade(d)'
  BY <1>1, <1>3, <1>4, RunOthers
<1>6. ASSUME c \notin faulted PROVE OneMade(c)'
  <2>1. OneMade(c) /\ ~p.closed
    BY <1>6 DEF MadeInv, Here
  <2>2. CASE p.id # New
    <3>1. \A r \in requests : r \notin Asks(c)
      BY <2>1, <2>2 DEF OneMade
    <3> QED
      BY <1>1, <1>3, <1>4, <2>1, <2>2, <3>1, RunNamed
  <2>3. CASE p.id = New
    <3>1. Fresh(c)
      BY <2>1, <2>3 DEF OneMade
    <3>2. Due(page) = {}
      BY <1>4, <3>1 DEF Due, Fresh
    <3>3. \A r \in Mine(c) : r.kind = "save" /\ r.awaited /\ p.queue # <<>>
      <4>1. \A r \in Mine(c) : r.kind \in {"save", "post", "delete"}
        BY DEF Mine, IInv, RequestType
      <4> QED
        BY <3>1, <4>1 DEF Fresh
    <3>4. /\ requests \subseteq requests'
          /\ \A r \in requests' \ requests :
                /\ r = Request(c, page, "save", 0) /\ r.kind = "save" /\ first
                /\ r.card = c /\ r.awaited
      <4>1. /\ requests \subseteq requests'
            /\ \A r \in requests' \ requests :
                  /\ r.card = c /\ r.id = page.id /\ r.answer = "none" /\ r.awaited
                  /\ \/ r = Request(c, page, "save", 0) /\ r.kind = "save" /\ first
                     \/ \E s \in Due(page) : r = Request(c, page, "post", s) /\ r.kind = "post"
        BY <1>1, <1>3, <1>4, RunSends
      <4> QED
        BY <3>2, <4>1
    <3>5. MadeBy(c)' = MadeBy(c)
      BY DEF MadeBy
    <3>6. /\ card'[c].closed = p.closed /\ card'[c].id = New /\ card'[c].queue = queue
          /\ \A s \in Slot : card'[c].clicks[s] = p.clicks[s]
      <4>1. /\ card'[c].closed = page.closed /\ card'[c].id = page.id
            /\ card'[c].queue = page.queue
            /\ \A s \in Slot : card'[c].clicks[s] = IF s \in Due(page) THEN -1
                                                                   ELSE page.clicks[s]
        BY <1>1, <1>3, <1>4, RunPage
      <4> QED
        BY <1>4, <2>3, <3>2, <4>1
    <3>7. \A r1, r2 \in Mine(c)' : r1 = r2
      BY <3>1, <3>3, <3>4 DEF Mine, Fresh, first
    <3>8. \A r \in Mine(c)' : r.kind = "save" /\ r.awaited
      BY <3>3, <3>4 DEF Mine
    <3>9. MadeBy(c)' # {} => \E r \in Mine(c)' : r.answer = "ok"
      BY <3>1, <3>4, <3>5 DEF Fresh, Mine
    <3>10. Fresh(c)'
      BY <1>2, <3>1, <3>6, <3>7, <3>8, <3>9 DEF Fresh
    <3>11. Asks(c)' # {} => MadeBy(c)' = {}
      <4> SUFFICES ASSUME NEW r \in Asks(c)', MadeBy(c)' # {} PROVE FALSE
        OBVIOUS
      <4>1. r \in Mine(c)' /\ r.answer = "none"
        BY DEF Asks, Pending
      <4> QED
        BY <3>7, <3>9, <4>1
    <3>12. \A r1, r2 \in Asks(c)' : r1 = r2
      BY <3>7 DEF Asks
    <3> QED
      BY <2>1, <3>5, <3>6, <3>10, <3>11, <3>12 DEF OneMade, New
  <2> QED
    BY <2>2, <2>3
<1> QED
  BY <1>5, <1>6 DEF MadeInv

\* A click on Post: on a page without an invoice it posts at once only if no
\* request is out.
LEMMA postInvoiceMade ==
    ASSUME IInv, MadeInv, NEW c \in Card, NEW s \in Slot, postInvoice(c, s)
    PROVE  MadeInv'
<1> DEFINE p == card[c]
           wait == Len(p.queue)
           clicks == [p.clicks EXCEPT ![s] = wait]
           page == [p EXCEPT !.timer = FALSE, !.clicks[s] = wait]
<1>1. p \in PageType /\ p.queue \in Queue /\ p.clicks \in [Slot -> -1 .. MaxQueue]
      /\ ~p.closed /\ ~p.posting /\ UNCHANGED <<rows, faulted>>
  BY DEF IInv, PageType, postInvoice, Here, Ready
<1>2. wait \in -1 .. MaxQueue /\ wait >= 0 /\ (wait = 0 <=> p.queue = <<>>)
  <2>1. wait \in 0 .. MaxQueue
    BY <1>1, Queues, InvoiceCardAssumption DEF Queue
  <2>2. p.queue \in Seq(BOOLEAN)
    BY <1>1 DEF Queue, UpTo
  <2>3. wait = 0 <=> p.queue = <<>>
    BY <2>2
  <2> HIDE DEF wait
  <2> QED
    BY <2>1, <2>3, InvoiceCardAssumption
<1>3. Run(c, page, requests, FALSE)
  BY DEF postInvoice
<1> HIDE DEF wait
<1>4. clicks \in [Slot -> -1 .. MaxQueue]
  BY <1>1, <1>2
<1>5. /\ page \in PageType /\ page.queue = p.queue /\ page.clicks = clicks
      /\ page.posting = p.posting /\ page.id = p.id /\ page.closed = p.closed
  BY <1>1, <1>4 DEF PageType
<1> HIDE DEF page
<1>6. Named' /\ \A d \in Card \ faulted : d # c => OneMade(d)'
  BY <1>1, <1>3, <1>5, RunOthers
<1>7. ASSUME c \notin faulted PROVE OneMade(c)'
  <2>1. OneMade(c)
    BY <1>7 DEF MadeInv
  <2>2. CASE p.id # New
    <3>1. \A r \in requests : r \notin Asks(c)
      BY <1>1, <2>1, <2>2 DEF OneMade
    <3> QED
      BY <1>1, <1>3, <1>5, <2>1, <2>2, <3>1, RunNamed
  <2>3. CASE p.id = New
    <3>1. Fresh(c)
      BY <1>1, <2>1, <2>3 DEF OneMade
    <3>2. MadeBy(c)' = MadeBy(c)
      BY <1>1 DEF MadeBy
    <3>3. \A r \in Mine(c) : r.kind = "save" /\ r.awaited /\ p.queue # <<>>
      <4>1. \A r \in Mine(c) : r.kind \in {"save", "post", "delete"}
        BY DEF Mine, IInv, RequestType
      <4> QED
        BY <1>1, <3>1, <4>1 DEF Fresh
    <3>4. Due(page) = IF p.queue = <<>> THEN {s} ELSE {}
      <4>1. \A q \in Slot : q # s => clicks[q] = p.clicks[q] /\ p.clicks[q] # 0
        BY <1>1, <3>1 DEF Fresh
      <4>2. clicks[s] = wait
        BY <1>1
      <4> QED
        BY <1>2, <1>5, <4>1, <4>2 DEF Due
    <3>5. /\ card'[c].closed = p.closed /\ card'[c].id = New /\ card'[c].queue = p.queue
          /\ card'[c].posting = (p.queue = <<>>)
          /\ \A q \in Slot : card'[c].clicks[q] = IF q \in Due(page) THEN -1 ELSE clicks[q]
      BY <1>1, <1>3, <1>5, <2>3, <3>4, RunPage
    <3>6. /\ requests \subseteq requests'
          /\ \A r \in requests' \ requests :
                /\ r = Request(c, page, "post", s) /\ r.kind = "post" /\ r.awaited
                /\ p.queue = <<>>
      <4>1. /\ requests \subseteq requests'
            /\ \A r \in requests' \ requests :
                  /\ r.card = c /\ r.id = page.id /\ r.answer = "none" /\ r.awaited
                  /\ \E q \in Due(page) : r = Request(c, page, "post", q) /\ r.kind = "post"
        <5> DEFINE more == FALSE
        <5>1. Run(c, page, requests, more) /\ more \in BOOLEAN /\ ~more
          BY <1>3
        <5> HIDE DEF more
        <5> QED
          BY <1>5, <5>1, RunSends
      <4> QED
        BY <3>4, <4>1
    <3>7. \A r1, r2 \in Mine(c)' : r1 = r2
      BY <3>1, <3>3, <3>6 DEF Mine, Fresh
    <3>8. \A r \in Mine(c)' : /\ r.awaited /\ r.kind # "delete"
                              /\ r.kind = "save" => p.queue # <<>>
                              /\ r.kind = "post" => p.queue = <<>>
      BY <3>3, <3>6 DEF Mine
    <3>9. MadeBy(c)' # {} => \E r \in Mine(c)' : r.answer = "ok"
      BY <3>1, <3>2, <3>6 DEF Fresh, Mine
    <3>10. \A q \in Slot : card'[c].clicks[q] # -1 =>
              card'[c].clicks[q] > 0 /\ card'[c].queue # <<>>
      <4> SUFFICES ASSUME NEW q \in Slot, card'[c].clicks[q] # -1
                   PROVE  card'[c].clicks[q] > 0 /\ p.queue # <<>>
        BY <3>5
      <4>1. q \notin Due(page) /\ card'[c].clicks[q] = clicks[q]
        BY <3>5
      <4>2. CASE q = s
        <5>1. clicks[q] = wait /\ p.queue # <<>>
          BY <1>1, <3>4, <4>1, <4>2
        <5> QED
          BY <1>2, <4>1, <5>1
      <4>3. CASE q # s
        <5>1. clicks[q] = p.clicks[q]
          BY <1>1, <4>3
        <5> QED
          BY <3>1, <4>1, <5>1 DEF Fresh
      <4> QED
        BY <4>2, <4>3
    <3>11. Fresh(c)'
      BY <3>5, <3>7, <3>8, <3>9, <3>10 DEF Fresh
    <3>12. Asks(c)' # {} => MadeBy(c)' = {}
      <4> SUFFICES ASSUME NEW r \in Asks(c)', MadeBy(c)' # {} PROVE FALSE
        OBVIOUS
      <4>1. r \in Mine(c)' /\ r.answer = "none"
        BY DEF Asks, Pending
      <4> QED
        BY <3>7, <3>9, <4>1
    <3>13. \A r1, r2 \in Asks(c)' : r1 = r2
      BY <3>7 DEF Asks
    <3> QED
      BY <1>1, <2>1, <3>2, <3>5, <3>11, <3>12, <3>13 DEF OneMade, New
  <2> QED
    BY <2>2, <2>3
<1> QED
  BY <1>1, <1>6, <1>7 DEF MadeInv

\* A click on Delete, on a page that has its invoice.
LEMMA deleteInvoiceMade ==
    ASSUME IInv, MadeInv, NEW c \in Card, deleteInvoice(c)
    PROVE  MadeInv'
<1> DEFINE page == [card[c] EXCEPT !.timer = FALSE, !.deleting = TRUE]
           r == Request(c, card[c], "delete", 0)
<1>1. card' = [card EXCEPT ![c] = page] /\ requests' = requests \cup {r}
      /\ UNCHANGED <<rows, faulted>> /\ card[c].id # New /\ card[c] \in PageType
  BY DEF deleteInvoice, IInv
<1>2. page.id = card[c].id /\ page.closed = card[c].closed
  BY <1>1 DEF PageType
<1>3. r.card = c /\ r.id = card[c].id /\ r.answer = "none"
  BY <1>1, Asked
<1> HIDE DEF page, r
<1>4. card'[c] = page /\ \A d \in Card : d # c => card'[d] = card[d]
  BY <1>1 DEF IInv
<1>5. Named'
  BY <1>1, <1>3 DEF Named, MadeInv, New
<1>6. ASSUME NEW d \in Card \ faulted PROVE OneMade(d)'
  <2>1. MadeBy(d)' = MadeBy(d) /\ OneMade(d)
    BY <1>1 DEF MadeBy, MadeInv
  <2>2. CASE d # c
    <3>1. Mine(d)' = Mine(d)
      BY <1>1, <1>3, <2>2 DEF Mine
    <3> QED
      BY <1>4, <2>1, <2>2, <3>1, SameMade
  <2>3. CASE d = c
    <3>1. Asks(c)' = Asks(c)
      BY <1>1, <1>3 DEF Asks, Mine, Pending, New
    <3> QED
      BY <1>1, <1>2, <1>4, <2>1, <2>3, <3>1 DEF OneMade, New
  <2> QED
    BY <2>2, <2>3
<1> QED
  BY <1>1, <1>5, <1>6 DEF MadeInv

\* The steps of clerks and of the timer.
LEMMA ClerkMade ==
    ASSUME IInv, MadeInv, NEW c \in Card, Clerk(c) \/ AutoSave(c)
    PROVE  MadeInv'
<1> DEFINE p == card[c]
<1>1. p \in PageType /\ card \in [Card -> PageType]
  BY DEF IInv
<1>2. CASE ChooseParty(c) \/ \E lined \in BOOLEAN : Edit(c, lined)
  <2>0. PICK lined \in BOOLEAN : Edit(c, lined) \/ ChooseParty(c)
    BY <1>2
  <2> DEFINE n == p.edits + 1
             dirty == IF p.posting THEN p.dirty ELSE n
             timer == p.timer \/ ~p.posting
             party == ~p.party
             edited == [p EXCEPT !.lined = lined, !.edits = n, !.dirty = dirty,
                                 !.timer = timer, !.said = "nothing"]
             chosen == [p EXCEPT !.party = party, !.edits = n, !.dirty = dirty, !.timer = timer]
  <2>1. n \in Edits /\ dirty \in Edits /\ timer \in BOOLEAN /\ party \in BOOLEAN
    BY <1>1, <2>0, InvoiceCardAssumption DEF PageType, Edits, Edit, ChooseParty
  <2>2. /\ card' = [card EXCEPT ![c] = edited] \/ card' = [card EXCEPT ![c] = chosen]
        /\ UNCHANGED <<requests, rows, faulted>>
    BY <2>0 DEF Edit, ChooseParty
  <2> HIDE DEF n, dirty, timer, party
  <2>3. /\ edited \in PageType /\ edited.queue = p.queue /\ edited.clicks = p.clicks
        /\ edited.posting = p.posting /\ edited.id = p.id /\ edited.closed = p.closed
    BY <1>1, <2>1 DEF PageType
  <2>4. /\ chosen \in PageType /\ chosen.queue = p.queue /\ chosen.clicks = p.clicks
        /\ chosen.posting = p.posting /\ chosen.id = p.id /\ chosen.closed = p.closed
    BY <1>1, <2>1 DEF PageType
  <2> HIDE DEF edited, chosen
  <2> QED
    BY <2>2, <2>3, <2>4, PageMade
<1>3. ASSUME card' = [card EXCEPT ![c].timer = FALSE], UNCHANGED <<requests, rows, faulted>>
      PROVE  MadeInv'
  <2> DEFINE page == [p EXCEPT !.timer = FALSE]
  <2>1. /\ page \in PageType /\ page.queue = p.queue /\ page.clicks = p.clicks
        /\ page.posting = p.posting /\ page.id = p.id /\ page.closed = p.closed
    BY <1>1 DEF PageType
  <2> QED
    BY <1>3, <2>1, PageMade
<1>4. CASE saveDraft(c)
  BY <1>3, <1>4, EnqueueMade DEF saveDraft, NothingToSave
<1>5. CASE navigateWithSave(c)
  <2>1. CASE Close(c, p, requests)
    BY <1>1, <1>5, <2>1, CloseMade DEF navigateWithSave
  <2>2. CASE ~Close(c, p, requests)
    BY <1>3, <1>5, <2>2, EnqueueMade DEF navigateWithSave, NothingToSave
  <2> QED
    BY <2>1, <2>2
<1>6. CASE postWithoutVendor(c)
  <2> DEFINE said == IF TakenForSaved(c) THEN "saved" ELSE "failed"
             page == [p EXCEPT !.timer = FALSE, !.said = said]
  <2>1. card' = [card EXCEPT ![c] = page] /\ UNCHANGED <<requests, rows, faulted>>
    BY <1>6 DEF postWithoutVendor
  <2>2. said \in {"saved", "failed"}
    OBVIOUS
  <2> HIDE DEF said
  <2>3. /\ page \in PageType /\ page.queue = p.queue /\ page.clicks = p.clicks
        /\ page.posting = p.posting /\ page.id = p.id /\ page.closed = p.closed
    BY <1>1, <2>2 DEF PageType
  <2> HIDE DEF page
  <2> QED
    BY <2>1, <2>3, PageMade
<1> QED
  BY <1>2, <1>4, <1>5, <1>6, postInvoiceMade, deleteInvoiceMade DEF Clerk, AutoSave

\* The server answers a request that has waited.  If it made the invoice of a
\* page, the answer says so.
LEMMA AnswerMade ==
    ASSUME IInv, MadeInv, NEW r \in requests, Pending(r), NEW answer \in {"ok", "error"},
           NEW id \in Row \cup {New}, answer = "ok" => id # New,
           Answer(r, answer, id), UNCHANGED <<card, faulted>>,
           \A d \in Card : d # r.card => MadeBy(d)' = MadeBy(d),
           \/ MadeBy(r.card)' = MadeBy(r.card)
           \/ /\ r.id = New /\ answer = "ok"
              /\ \E i \in Row : MadeBy(r.card)' \subseteq MadeBy(r.card) \cup {i}
    PROVE  MadeInv'
<1> DEFINE c == r.card
           told == [r EXCEPT !.answer = answer, !.id = id]
<1>1. /\ r \in RequestType /\ c \in Card /\ told.awaited = r.awaited /\ told.card = c
      /\ told.kind = r.kind /\ told.answer = answer /\ told.id = id /\ r.answer = "none"
  BY DEF IInv, RequestType, Pending
<1> HIDE DEF told
<1>2. requests' = (requests \ {r}) \cup (IF r.awaited THEN {told} ELSE {})
  BY DEF Answer, told
<1>3. Named'
  BY <1>1, <1>2 DEF Named, MadeInv, New
<1>4. ASSUME NEW d \in Card \ faulted, d # c PROVE OneMade(d)'
  <2>1. Mine(d)' = Mine(d)
    BY <1>1, <1>2, <1>4 DEF Mine
  <2> QED
    BY <1>4, <2>1, SameMade DEF MadeInv
<1>5. ASSUME c \notin faulted PROVE OneMade(c)'
  <2>1. OneMade(c)
    BY <1>1, <1>5 DEF MadeInv
  <2>2. Asks(c)' = Asks(c) \ {r}
    BY <1>1, <1>2 DEF Asks, Mine, Pending, New
  <2>3. \A i, j \in MadeBy(c)' : i = j
    <3>1. CASE MadeBy(c)' = MadeBy(c)
      BY <2>1, <3>1 DEF OneMade
    <3>2. CASE /\ r.id = New /\ answer = "ok"
               /\ \E i \in Row : MadeBy(c)' \subseteq MadeBy(c) \cup {i}
      <4>1. r \in Asks(c)
        BY <3>2 DEF Asks, Mine
      <4>2. MadeBy(c) = {}
        BY <2>1, <4>1 DEF OneMade
      <4> QED
        BY <3>2, <4>2
    <3> QED
      BY <3>1, <3>2
  <2>4. Asks(c)' # {} => MadeBy(c)' = {}
    <3>1. CASE MadeBy(c)' = MadeBy(c)
      BY <2>1, <2>2, <3>1 DEF OneMade
    <3>2. CASE r.id = New
      <4>1. r \in Asks(c)
        BY <3>2 DEF Asks, Mine
      <4>2. Asks(c)' = {}
        BY <2>1, <2>2, <4>1 DEF OneMade
      <4> QED
        BY <4>2
    <3> QED
      BY <3>1, <3>2
  <2>5. ASSUME Fresh(c) PROVE Fresh(c)'
    <3>1. Mine(c) = {r} /\ r.awaited
      BY <2>5 DEF Fresh, Mine
    <3>2. Mine(c)' = {told}
      BY <1>1, <1>2, <3>1 DEF Mine
    <3>3. MadeBy(c) = {}
      BY <1>1, <2>5, <3>1 DEF Fresh
    <3>4. MadeBy(c)' # {} => answer = "ok"
      BY <3>3
    <3> QED
      BY <1>1, <2>5, <3>1, <3>2, <3>4 DEF Fresh
  <2>6. \A r1, r2 \in Asks(c)' : r1 = r2
    BY <2>1, <2>2 DEF OneMade
  <2>7. ~card[c].closed /\ card[c].id # New => Asks(c)' = {}
    BY <2>1, <2>2 DEF OneMade
  <2> QED
    BY <2>1, <2>3, <2>4, <2>5, <2>6, <2>7 DEF OneMade, New
<1> QED
  BY <1>1, <1>3, <1>4, <1>5 DEF MadeInv

\* The steps of the server.
LEMMA ServeMade ==
    ASSUME IInv, MadeInv, NEW r \in requests, Serve(r)
    PROVE  MadeInv'
<1>1. r.id \in Row \cup {New} /\ r.card \in Card /\ rows \in [Row -> RowType]
  BY DEF IInv, RequestType
<1>2. CASE Update(r)
  <2>1. Pending(r) /\ r.id # New /\ Answer(r, "ok", r.id) /\ UNCHANGED <<card, faulted>>
    BY <1>2 DEF Update
  <2> DEFINE status == StatusAfter[r.kind]
             content == IF r.kind = "delete" THEN rows[r.id].content ELSE Said(r)
             writers == rows[r.id].writers \cup {r.card}
             row == [rows[r.id] EXCEPT !.status = status, !.content = content,
                                       !.writers = writers]
  <2>2. rows' = [rows EXCEPT ![r.id] = row] /\ r.id \in Row
    BY <1>1, <1>2 DEF Update
  <2> HIDE DEF status, content, writers
  <2>3. row.maker = rows[r.id].maker
    BY <1>1, <2>2 DEF RowType
  <2> HIDE DEF row
  <2>4. \A i \in Row : rows'[i].maker = rows[i].maker
    BY <1>1, <2>2, <2>3
  <2>5. \A d \in Card : MadeBy(d)' = MadeBy(d)
    BY <2>4 DEF MadeBy
  <2> QED
    BY <1>1, <2>1, <2>5, AnswerMade
<1>3. CASE Insert(r)
  <2> DEFINE row == [status |-> StatusAfter[r.kind], content |-> Said(r),
                     maker |-> {r.card}, writers |-> {r.card}]
  <2>1. PICK i \in Row : rows[i] = NoRow /\ rows' = [rows EXCEPT ![i] = row]
                         /\ Answer(r, "ok", i)
    BY <1>3 DEF Insert
  <2>2. row.maker = {r.card}
    OBVIOUS
  <2> HIDE DEF row
  <2>3. rows'[i].maker = {r.card} /\ \A j \in Row : j # i => rows'[j] = rows[j]
    BY <1>1, <2>1, <2>2
  <2>4. ASSUME NEW d \in Card, d # r.card PROVE MadeBy(d)' = MadeBy(d)
    <3>1. rows[i].maker # {d} /\ rows'[i].maker # {d}
      BY <2>1, <2>3, <2>4 DEF NoRow
    <3> QED
      BY <2>3, <3>1 DEF MadeBy
  <2>5. MadeBy(r.card)' \subseteq MadeBy(r.card) \cup {i}
    BY <2>3 DEF MadeBy
  <2>6. Pending(r) /\ r.id = New /\ UNCHANGED <<card, faulted>> /\ i # New
    BY <1>3 DEF Insert, Row, New
  <2> QED
    BY <2>1, <2>4, <2>5, <2>6, AnswerMade
<1>4. CASE Refuse(r)
  <2>1. Pending(r) /\ Answer(r, "error", r.id) /\ UNCHANGED <<card, rows, faulted>>
    BY <1>4 DEF Refuse
  <2>2. \A d \in Card : MadeBy(d)' = MadeBy(d)
    BY <2>1 DEF MadeBy
  <2> QED
    BY <1>1, <2>1, <2>2, AnswerMade
<1> QED
  BY <1>2, <1>3, <1>4 DEF Serve

\* A lost answer: its card is excused, the others do not notice.
LEMMA LoseMade ==
    ASSUME IInv, MadeInv, NEW r \in requests, Lose(r)
    PROVE  MadeInv'
<1> DEFINE told == [r EXCEPT !.answer = "error"]
           ghost == [r EXCEPT !.awaited = FALSE]
<1>1. /\ r \in RequestType /\ told.card = r.card /\ told.answer = "error"
      /\ ghost.card = r.card /\ ghost.answer = r.answer
  BY DEF IInv, RequestType
<1> HIDE DEF told, ghost
<1>2. /\ requests' = (requests \ {r}) \cup {told} \cup (IF Pending(r) THEN {ghost} ELSE {})
      /\ faulted' = faulted \cup {r.card} /\ UNCHANGED <<card, rows>>
  BY DEF Lose, told, ghost
<1>3. Named'
  BY <1>1, <1>2 DEF Named, MadeInv, New, Pending
<1>4. ASSUME NEW d \in Card \ faulted, d # r.card PROVE OneMade(d)'
  <2>1. Mine(d)' = Mine(d) /\ MadeBy(d)' = MadeBy(d)
    BY <1>1, <1>2, <1>4 DEF Mine, MadeBy
  <2> QED
    BY <1>2, <1>4, <2>1, SameMade DEF MadeInv
<1> QED
  BY <1>2, <1>3, <1>4 DEF MadeInv

\* The steps in which an answer arrives.
LEMMA DeliverMade ==
    ASSUME IInv, MadeInv, NEW r \in requests, Deliver(r)
    PROVE  MadeInv'
<1> DEFINE c == r.card
           p == card[c]
           inFlight == requests \ {r}
<1>1. /\ c \in Card /\ p \in PageType /\ r.id \in Row \cup {New} /\ r.dirty \in Edits
      /\ inFlight \subseteq requests /\ \A q \in requests \ inFlight : q.card = c
  BY DEF IInv, RequestType
\* After a save the page goes on as `page', with an invoice unless it is excused.
<1>2. ASSUME NEW page \in PageType, NextJob(r, page), rows' = rows,
             SaveAwaited(c, r), page.queue = p.queue, page.closed = p.closed,
             faulted \subseteq faulted',
             c \notin faulted' => page.id # New /\ (p.id = New => r.answer = "ok")
      PROVE  MadeInv'
  <2> DEFINE queue == Tail(page.queue)
             clicks == [s \in Slot |-> IF page.clicks[s] > 0 THEN page.clicks[s] - 1
                                                             ELSE page.clicks[s]]
             next == [page EXCEPT !.queue = queue, !.clicks = clicks]
             more == Len(page.queue) > 1
  <2>1. p.queue # <<>> /\ page.queue \in Queue
    BY <1>1, <1>2 DEF IInv, OneSave, PageType
  <2>2. queue \in Queue
    BY <1>2, <2>1, Queues, InvoiceCardAssumption DEF Queue
  <2>3. clicks \in [Slot -> -1 .. MaxQueue]
    BY InvoiceCardAssumption DEF PageType
  <2>4. Run(c, next, inFlight, more)
    BY <1>2 DEF NextJob
  <2> HIDE DEF queue, clicks
  <2>5. next \in PageType /\ next.id = page.id /\ next.closed = page.closed
    BY <2>2, <2>3 DEF PageType
  <2>6. more \in BOOLEAN
    OBVIOUS
  <2> HIDE DEF next, more, inFlight, c
  <2>7. Named' /\ \A d \in Card \ faulted : d # c => OneMade(d)'
    BY <1>1, <1>2, <2>4, <2>5, <2>6, RunOthers
  <2>8. ASSUME c \notin faulted' PROVE OneMade(c)'
    <3>1. OneMade(c) /\ next.id # New
      BY <1>1, <1>2, <2>5, <2>8 DEF MadeInv
    <3>2. ~p.closed => \A q \in inFlight : q \notin Asks(c)
      <4>1. CASE p.id # New
        BY <3>1, <4>1 DEF OneMade
      <4>2. CASE p.id = New
        <5>1. r.answer = "ok" /\ r \in Mine(c)
          BY <1>2, <2>8, <4>2 DEF Mine, c
        <5>2. ~p.closed => \A q \in Mine(c) : q = r
          BY <3>1, <4>2, <5>1 DEF OneMade, Fresh
        <5> QED
          BY <5>2 DEF Asks, inFlight
      <4> QED
        BY <4>1, <4>2
    <3> QED
      BY <1>1, <1>2, <2>4, <2>5, <2>6, <3>1, <3>2, RunNamed
  <2> QED
    BY <1>2, <2>7, <2>8 DEF MadeInv
<1>3. CASE SaveDone(r)
  <2> DEFINE version == SavedVersion(r)
             page == [p EXCEPT !.id = r.id, !.saved = version]
  <2>1. /\ SaveAwaited(c, r) /\ r.answer = "ok" /\ UNCHANGED <<rows, faulted>>
        /\ Close(c, page, inFlight) \/ NextJob(r, page)
    BY <1>3 DEF SaveDone, Arrives, SaveAwaited
  <2>2. version \in Edits
    BY <1>1 DEF SavedVersion, PageType
  <2> HIDE DEF version
  <2>3. page \in PageType /\ page.queue = p.queue /\ page.closed = p.closed /\ page.id = r.id
    BY <1>1, <2>2 DEF PageType
  <2>4. r.id # New
    BY <2>1 DEF MadeInv, Named
  <2> HIDE DEF page
  <2> QED
    BY <1>1, <1>2, <2>1, <2>3, <2>4, CloseMade
<1>4. CASE SaveFailed(r)
  <2> DEFINE page == [p EXCEPT !.said = "failed"]
  <2>1. /\ SaveAwaited(c, r) /\ rows' = rows /\ NextJob(r, page)
        /\ faulted' = IF p.id = New THEN faulted \cup {c} ELSE faulted
    BY <1>4 DEF SaveFailed, Arrives, SaveAwaited, Told
  <2>2. page \in PageType /\ page.queue = p.queue /\ page.closed = p.closed /\ page.id = p.id
    BY <1>1 DEF PageType
  <2> HIDE DEF page
  <2> QED
    BY <1>2, <2>1, <2>2
<1>5. CASE Finished(r)
  <2> DEFINE page == [p EXCEPT !.saved = p.dirty]
  <2>1. Close(c, page, inFlight) /\ UNCHANGED <<rows, faulted>>
    BY <1>5 DEF Finished
  <2>2. page \in PageType
    BY <1>1 DEF PageType
  <2> HIDE DEF page
  <2> QED
    BY <1>1, <2>1, <2>2, CloseMade
<1>6. CASE PostFailed(r) \/ DeleteFailed(r)
  <2> DEFINE posting == [p EXCEPT !.said = "failed", !.posting = FALSE]
             deleting == [p EXCEPT !.said = "failed", !.deleting = FALSE]
  <2>1. /\ requests' = requests \ {r} /\ UNCHANGED <<rows, faulted>> /\ r.answer = "error"
        /\ card' = [card EXCEPT ![c] = posting] \/ card' = [card EXCEPT ![c] = deleting]
    BY <1>6 DEF PostFailed, DeleteFailed, Told, Arrives
  <2>2. /\ posting.clicks = p.clicks /\ posting.closed = p.closed /\ posting.id = p.id
        /\ deleting.clicks = p.clicks /\ deleting.closed = p.closed /\ deleting.id = p.id
        /\ posting.queue = p.queue /\ deleting.queue = p.queue
    BY <1>1 DEF PageType
  <2> HIDE DEF posting, deleting
  <2>3. /\ card'[c].clicks = p.clicks /\ card'[c].closed = p.closed /\ card'[c].id = p.id
        /\ card'[c].queue = p.queue
        /\ \A d \in Card : d # c => card'[d] = card[d]
    BY <1>1, <2>1, <2>2 DEF IInv
  <2>4. Named'
    BY <2>1 DEF Named, MadeInv, New
  <2>5. ASSUME NEW d \in Card \ faulted PROVE OneMade(d)'
    <3>1. OneMade(d) /\ MadeBy(d)' = MadeBy(d) /\ Mine(d)' = Mine(d) \ {r}
      BY <2>1 DEF MadeInv, MadeBy, Mine
    <3>2. CASE d # c
      <4>1. Mine(d)' = Mine(d)
        BY <3>1, <3>2 DEF Mine
      <4> QED
        BY <2>3, <3>1, <3>2, <4>1, SameMade
    <3>3. CASE d = c
      <4>1. Asks(c)' = Asks(c) \ {r}
        BY <3>1, <3>3 DEF Asks, Pending, New
      <4>2. ASSUME Fresh(c) PROVE Fresh(c)'
        <5>1. Mine(c) = {r}
          BY <4>2 DEF Fresh, Mine
        <5>2. Mine(c)' = {} /\ MadeBy(c) = {}
          BY <2>1, <3>1, <3>3, <4>2, <5>1 DEF Fresh
        <5> QED
          BY <2>3, <3>1, <3>3, <4>2, <5>2 DEF Fresh
      <4> QED
        BY <2>3, <3>1, <3>3, <4>1, <4>2 DEF OneMade, New
    <3> QED
      BY <3>2, <3>3
  <2> QED
    BY <2>1, <2>4, <2>5 DEF MadeInv
<1> QED
  BY <1>3, <1>4, <1>5, <1>6 DEF Deliver

\* The invariant of what cards make holds throughout.
LEMMA MadeAlways == Spec => []MadeInv
<1>1. Init => MadeInv
  <2> SUFFICES ASSUME Init PROVE MadeInv
    OBVIOUS
  <2>1. requests = {} /\ \A i \in Row : rows[i].maker = {}
    BY DEF Init, NoRow
  <2>2. \A c \in Card : Mine(c) = {} /\ Asks(c) = {} /\ MadeBy(c) = {}
    BY <2>1 DEF Mine, Asks, MadeBy
  <2>3. PICK start \in Starts : card = [c \in Card |-> StartOf(start[c])]
    BY DEF Init
  <2>4. \A c \in Card, s \in Slot : card[c].clicks[s] = -1
    BY <2>3 DEF StartOf, NewCard
  <2> QED
    BY <2>1, <2>2, <2>4 DEF MadeInv, Named, OneMade, Fresh
<1>2. IInv /\ MadeInv /\ [Next]_vars => MadeInv'
  <2> SUFFICES ASSUME IInv, MadeInv, [Next]_vars PROVE MadeInv'
    OBVIOUS
  <2>1. CASE UNCHANGED vars
    <3>1. ASSUME NEW d \in Card \ faulted PROVE OneMade(d)'
      <4>1. Mine(d)' = Mine(d) /\ MadeBy(d)' = MadeBy(d) /\ card'[d] = card[d]
        BY <2>1 DEF vars, Mine, MadeBy
      <4> QED
        BY <4>1, SameMade DEF MadeInv
    <3> QED
      BY <2>1, <3>1 DEF vars, MadeInv, Named, New
  <2> QED
    BY <2>1, ClerkMade, ServeMade, LoseMade, DeliverMade DEF Next
<1> QED
  BY <1>1, <1>2, Inductive, PTL DEF Spec

\* However saves, clicks on Post, deletions and answers interleave, and
\* whatever other cards do, a card makes one invoice, unless an answer to it
\* was lost or its very first save was refused.
THEOREM OneInvoice == Spec => []OneInvoicePerCard
<1>1. MadeInv => OneInvoicePerCard
  <2> SUFFICES ASSUME MadeInv, NEW c \in Card \ faulted
               PROVE  Cardinality({i \in Row : rows[i].maker = {c}}) <= 1
    BY DEF OneInvoicePerCard
  <2>1. \A i, j \in MadeBy(c) : i = j
    BY DEF MadeInv, OneMade
  <2>2. MadeBy(c) = {} \/ \E i : MadeBy(c) = {i}
    BY <2>1
  <2>3. Cardinality(MadeBy(c)) = 0 \/ Cardinality(MadeBy(c)) = 1
    BY <2>2, FS_EmptySet, FS_Singleton
  <2>4. Cardinality(MadeBy(c)) <= 1
    BY <2>3
  <2> QED
    BY <2>4 DEF MadeBy
<1> QED
  BY <1>1, MadeAlways, PTL

-----------------------------------------------------------------------------
(* What a card shows as saved is stored.                                   *)

Final(i) == rows[i].status \in {"Posted", "Deleted"}

\* Row i, if it is an open draft that only card c wrote, holds edit k of c.
Good(c, i, k) ==
    rows[i].status = "Open" /\ rows[i].writers = {c} =>
        \E n \in k .. MaxEdits : rows[i].content = {<<c, n>>}

\* A page has counted no more edits than it has, and saved no more than it
\* counted; what it saved is on the server.
PageKept(c, p) ==
    /\ p.saved <= p.dirty /\ p.dirty <= p.edits
    /\ p.id = New => p.saved = 0
    /\ p.id # New /\ p.saved > 0 => Good(c, p.id, p.saved)

\* A save on its way has what is saved already, one that was done is on the
\* server, and whatever else was done finished its invoice.
RequestKept(c, p, r) ==
    /\ r.awaited
    /\ p.id # New => r.id = p.id
    /\ r.kind = "save" /\ r.answer = "none" => p.saved <= r.content /\ r.dirty <= r.content
    /\ r.kind = "save" /\ r.answer = "ok" => Good(c, r.id, r.dirty)
    /\ r.kind # "save" /\ r.answer = "ok" => Final(r.id)

\* The same of a page that was left, whose requests nobody waits for.
LeftKept(c, p) ==
    \/ p.id = New
    \/ Final(p.id)
    \/ /\ p.saved > 0 => Good(c, p.id, p.saved)
       /\ \A r \in Mine(c) : r.kind = "save" /\ r.answer = "none" => p.saved <= r.content

OpenStored(c) == PageKept(c, card[c]) /\ \A r \in Mine(c) : RequestKept(c, card[c], r)
LeftStored(c) == LeftKept(c, card[c]) /\ \A r \in Mine(c) : ~r.awaited
Stored(c) == IF card[c].closed THEN LeftStored(c) ELSE OpenStored(c)

StoredInv == \A c \in Card \ faulted : Stored(c)

\* A card does not notice what others write: a finished row stays, and a row
\* another card wrote is not its own.
LEMMA SameStored ==
    ASSUME IInv, Named, NEW d \in Card, Stored(d), card'[d] = card[d], Mine(d)' = Mine(d),
           \A i \in Row : rows'[i] = rows[i] \/ (~Final(i) /\ rows'[i].writers # {d})
    PROVE  Stored(d)'
<1>1. \A i \in Row : Final(i) => Final(i)'
  BY DEF Final
<1>2. \A k : \A i \in Row : Good(d, i, k) => Good(d, i, k)'
  BY DEF Good
<1>3. card[d].id \in Row \cup {New}
  BY DEF IInv, PageType
<1>4. \A r \in Mine(d) : r.answer = "ok" => r.id \in Row
  BY DEF IInv, RequestType, Mine, Named
<1>5. PageKept(d, card[d]) => PageKept(d, card[d])'
  BY <1>2, <1>3 DEF PageKept, New
<1>6. \A r \in Mine(d) : RequestKept(d, card[d], r) => RequestKept(d, card[d], r)'
  BY <1>1, <1>2, <1>4 DEF RequestKept, New
<1>7. OpenStored(d) => OpenStored(d)'
  BY <1>5, <1>6 DEF OpenStored
<1>8. LeftStored(d) => LeftStored(d)'
  BY <1>1, <1>2, <1>3 DEF LeftStored, LeftKept, New
<1> QED
  BY <1>7, <1>8 DEF Stored

\* What a page sends has all its edits.
LEMMA RunContents ==
    ASSUME NEW c \in Card, NEW p \in PageType, NEW inFlight, NEW startSave \in BOOLEAN,
           Run(c, p, inFlight, startSave)
    PROVE  \A r \in requests' \ inFlight : r.content = p.edits /\ r.dirty = p.dirty
<1>1. \A kind, slot : /\ Request(c, p, kind, slot).content = p.edits
                      /\ Request(c, p, kind, slot).dirty = p.dirty
  BY DEF Request
<1> QED
  BY <1>1, RunSends

\* The page as its due jobs leave it, again.
LEMMA RunCounts ==
    ASSUME IInv, NEW c \in Card, NEW p \in PageType, NEW inFlight, NEW startSave \in BOOLEAN,
           Run(c, p, inFlight, startSave)
    PROVE  /\ card'[c].saved = p.saved /\ card'[c].dirty = p.dirty /\ card'[c].edits = p.edits
<1> DEFINE posting == p.posting \/ Due(p) # {}
           clicks == [s \in Slot |-> IF s \in Due(p) THEN -1 ELSE p.clicks[s]]
           page == [p EXCEPT !.posting = posting, !.clicks = clicks]
<1>1. card' = [card EXCEPT ![c] = page]
  BY DEF Run
<1>2. page.saved = p.saved /\ page.dirty = p.dirty /\ page.edits = p.edits
  <2> HIDE DEF posting, clicks
  <2> QED
    BY DEF PageType
<1> HIDE DEF page
<1>3. card'[c] = page
  BY <1>1 DEF IInv
<1> QED
  BY <1>2, <1>3

\* The other cards while a page runs its due jobs.
LEMMA RunOtherStored ==
    ASSUME IInv, MadeInv, StoredInv, NEW c \in Card, NEW p \in PageType, NEW inFlight,
           NEW startSave \in BOOLEAN, Run(c, p, inFlight, startSave),
           inFlight \subseteq requests, \A r \in requests \ inFlight : r.card = c,
           rows' = rows
    PROVE  \A d \in Card \ faulted : d # c => Stored(d)'
<1> SUFFICES ASSUME NEW d \in Card \ faulted, d # c PROVE Stored(d)'
  OBVIOUS
<1>1. Mine(d)' = Mine(d)
  BY RunSends DEF Mine
<1>2. card'[d] = card[d]
  BY RunPage
<1> QED
  BY <1>1, <1>2, SameStored DEF StoredInv, MadeInv

\* A page that keeps what it saved still does after running its due jobs.
LEMMA RunStored ==
    ASSUME IInv, NEW c \in Card, NEW p \in PageType, NEW inFlight,
           NEW startSave \in BOOLEAN, Run(c, p, inFlight, startSave),
           inFlight \subseteq requests, rows' = rows,
           ~p.closed, PageKept(c, p),
           \A r \in inFlight : r.card = c => RequestKept(c, p, r)
    PROVE  Stored(c)'
<1>1. /\ card'[c].saved = p.saved /\ card'[c].dirty = p.dirty /\ card'[c].edits = p.edits
      /\ card'[c].closed = p.closed /\ card'[c].id = p.id
  BY RunPage, RunCounts
<1>2. p.saved \in Nat /\ p.dirty \in Nat /\ p.edits \in Nat
  BY InvoiceCardAssumption DEF PageType, Edits
<1>3. \A i, k : Good(c, i, k)' <=> Good(c, i, k)
  BY DEF Good
<1>4. \A i : Final(i)' <=> Final(i)
  BY DEF Final
<1>5. PageKept(c, card[c])'
  BY <1>1, <1>3 DEF PageKept, New
<1>6. ASSUME NEW r \in Mine(c)' PROVE RequestKept(c, card[c], r)'
  <2>1. r \in requests' /\ r.card = c
    BY <1>6 DEF Mine
  <2>2. CASE r \in inFlight
    BY <1>1, <1>3, <1>4, <2>1, <2>2 DEF RequestKept, New
  <2>3. CASE r \notin inFlight
    <3>1. r.awaited /\ r.id = p.id /\ r.answer = "none" /\ r.content = p.edits /\ r.dirty = p.dirty
      BY <2>1, <2>3, RunSends, RunContents
    <3>2. p.saved <= p.edits /\ p.dirty <= p.edits
      BY <1>2 DEF PageKept
    <3> QED
      BY <1>1, <3>1, <3>2 DEF RequestKept, New
  <2> QED
    BY <2>2, <2>3
<1> QED
  BY <1>1, <1>5, <1>6 DEF Stored, OpenStored

\* A page that goes away, and its requests with it.
LEMMA CloseStored ==
    ASSUME IInv, MadeInv, StoredInv, NEW c \in Card, NEW p \in PageType, NEW inFlight,
           inFlight \subseteq requests, \A r \in requests \ inFlight : r.card = c,
           Close(c, p, inFlight), UNCHANGED <<rows, faulted>>,
           c \notin faulted =>
             \/ p.id = New
             \/ Final(p.id)
             \/ /\ p.saved > 0 => Good(c, p.id, p.saved)
                /\ \A r \in inFlight : r.card = c /\ r.kind = "save" /\ r.answer = "none" =>
                      p.saved <= r.content
    PROVE  StoredInv'
<1> DEFINE page == [NewCard EXCEPT !.id = p.id, !.dirty = p.dirty, !.saved = p.saved,
                                   !.closed = TRUE]
           left(r) == IF r.card = c THEN [r EXCEPT !.awaited = FALSE] ELSE r
           kept == {q \in inFlight : q.card = c => Pending(q)}
<1>1. card' = [card EXCEPT ![c] = page] /\ requests' = {left(r) : r \in kept}
  BY DEF Close
<1>2. page.closed /\ page.id = p.id /\ page.saved = p.saved
  BY DEF NewCard
<1> HIDE DEF page
<1>3. card'[c] = page /\ \A d \in Card : d # c => card'[d] = card[d]
  BY <1>1 DEF IInv
<1>4. ASSUME NEW r \in requests
      PROVE  /\ left(r).card = r.card /\ left(r).answer = r.answer /\ left(r).kind = r.kind
             /\ left(r).content = r.content
             /\ r.card # c => left(r) = r
             /\ r.card = c => ~left(r).awaited
  BY <1>4 DEF IInv, RequestType
<1> HIDE DEF left
<1>5. \A q \in requests' : \E r \in inFlight : q = left(r)
  BY <1>1
<1>6. ASSUME NEW d \in Card \ faulted, d # c PROVE Stored(d)'
  <2>1. Mine(d)' = Mine(d)
    <3>1. \A r \in Mine(d) : r \in kept /\ left(r) = r
      BY <1>4, <1>6 DEF Mine
    <3>2. Mine(d) \subseteq requests'
      BY <1>1, <3>1
    <3>3. \A q \in requests' : q.card = d => q \in requests
      BY <1>4, <1>5, <1>6
    <3> QED
      BY <3>2, <3>3 DEF Mine
  <2> QED
    BY <1>3, <1>6, <2>1, SameStored DEF StoredInv, MadeInv
<1>7. ASSUME c \notin faulted PROVE Stored(c)'
  <2>1. ASSUME NEW q \in Mine(c)'
        PROVE  /\ ~q.awaited
               /\ \E r \in inFlight : /\ r.card = c /\ r.kind = q.kind /\ r.answer = q.answer
                                      /\ r.content = q.content
    BY <1>4, <1>5, <2>1 DEF Mine
  <2>2. \A i, k : Good(c, i, k)' <=> Good(c, i, k)
    BY DEF Good
  <2>3. \A i : Final(i)' <=> Final(i)
    BY DEF Final
  <2>4. LeftKept(c, card[c])'
    BY <1>2, <1>3, <1>7, <2>1, <2>2, <2>3 DEF LeftKept, New
  <2> QED
    BY <1>2, <1>3, <2>1, <2>4 DEF Stored, LeftStored
<1> QED
  BY <1>6, <1>7 DEF StoredInv

\* A step of a page that sends nothing.
LEMMA PageStored ==
    ASSUME IInv, MadeInv, StoredInv, NEW c \in Card, NEW p \in PageType, ~card[c].closed,
           p.id = card[c].id, p.closed = card[c].closed, p.saved = card[c].saved,
           c \notin faulted => p.saved <= p.dirty /\ p.dirty <= p.edits,
           card' = [card EXCEPT ![c] = p], UNCHANGED <<requests, rows, faulted>>
    PROVE  StoredInv'
<1>1. card'[c] = p /\ \A d \in Card : d # c => card'[d] = card[d]
  BY DEF IInv
<1>2. \A d \in Card : Mine(d)' = Mine(d)
  BY DEF Mine
<1>3. ASSUME NEW d \in Card \ faulted, d # c PROVE Stored(d)'
  BY <1>1, <1>2, <1>3, SameStored DEF StoredInv, MadeInv
<1>4. ASSUME c \notin faulted PROVE Stored(c)'
  <2>1. OpenStored(c)
    BY <1>4 DEF StoredInv, Stored
  <2>2. \A i, k : Good(c, i, k)' <=> Good(c, i, k)
    BY DEF Good
  <2>3. \A i : Final(i)' <=> Final(i)
    BY DEF Final
  <2>4. PageKept(c, card[c])'
    BY <1>1, <1>4, <2>1, <2>2 DEF OpenStored, PageKept, New
  <2>5. \A r \in Mine(c) : RequestKept(c, card[c], r)'
    BY <1>1, <2>1, <2>2, <2>3 DEF OpenStored, RequestKept, New
  <2> QED
    BY <1>1, <1>2, <2>4, <2>5 DEF Stored, OpenStored
<1> QED
  BY <1>3, <1>4 DEF StoredInv

\* A save is queued, and sent if the queue was empty.
LEMMA EnqueueStored ==
    ASSUME IInv, MadeInv, StoredInv, NEW c \in Card, NEW leave \in BOOLEAN, Enqueue(c, leave),
           Here(c), UNCHANGED <<rows, faulted>>
    PROVE  StoredInv'
<1> DEFINE p == card[c]
           queue == Append(p.queue, leave)
           first == p.queue = <<>>
           page == [p EXCEPT !.timer = FALSE, !.queue = queue]
<1>1. p \in PageType /\ p.queue \in Queue /\ Len(p.queue) < MaxQueue /\ first \in BOOLEAN
  BY DEF IInv, PageType, Enqueue
<1>2. queue \in Queue
  BY <1>1, Queues, InvoiceCardAssumption DEF Queue
<1>3. Run(c, page, requests, first)
  BY DEF Enqueue, Queued
<1> HIDE DEF queue
<1>4. /\ page \in PageType /\ page.id = p.id /\ page.closed = p.closed /\ page.saved = p.saved
      /\ page.dirty = p.dirty /\ page.edits = p.edits
  BY <1>1, <1>2 DEF PageType
<1> HIDE DEF page, first
<1>5. \A d \in Card \ faulted : d # c => Stored(d)'
  BY <1>1, <1>3, <1>4, RunOtherStored
<1>6. ASSUME c \notin faulted PROVE Stored(c)'
  <2>1. OpenStored(c) /\ ~p.closed
    BY <1>6 DEF StoredInv, Stored, Here
  <2>2. PageKept(c, page) /\ \A r \in requests : r.card = c => RequestKept(c, page, r)
    BY <1>4, <2>1 DEF OpenStored, PageKept, RequestKept, Mine
  <2> QED
    BY <1>1, <1>3, <1>4, <2>1, <2>2, RunStored
<1> QED
  BY <1>5, <1>6 DEF StoredInv

\* A click on Post.
LEMMA postInvoiceStored ==
    ASSUME IInv, MadeInv, StoredInv, NEW c \in Card, NEW s \in Slot, postInvoice(c, s)
    PROVE  StoredInv'
<1> DEFINE p == card[c]
           wait == Len(p.queue)
           clicks == [p.clicks EXCEPT ![s] = wait]
           page == [p EXCEPT !.timer = FALSE, !.clicks[s] = wait]
           none == FALSE
<1>1. p \in PageType /\ p.queue \in Queue /\ p.clicks \in [Slot -> -1 .. MaxQueue]
      /\ ~p.closed /\ UNCHANGED <<rows, faulted>>
  BY DEF IInv, PageType, postInvoice, Here
<1>2. wait \in -1 .. MaxQueue
  <2>1. wait \in 0 .. MaxQueue
    BY <1>1, Queues, InvoiceCardAssumption DEF Queue
  <2> QED
    BY <2>1, InvoiceCardAssumption
<1>3. Run(c, page, requests, none) /\ none \in BOOLEAN
  BY DEF postInvoice
<1> HIDE DEF wait
<1>4. clicks \in [Slot -> -1 .. MaxQueue]
  BY <1>1, <1>2
<1>5. /\ page \in PageType /\ page.id = p.id /\ page.closed = p.closed /\ page.saved = p.saved
      /\ page.dirty = p.dirty /\ page.edits = p.edits
  BY <1>1, <1>4 DEF PageType
<1> HIDE DEF page, none
<1>6. \A d \in Card \ faulted : d # c => Stored(d)'
  BY <1>1, <1>3, <1>5, RunOtherStored
<1>7. ASSUME c \notin faulted PROVE Stored(c)'
  <2>1. OpenStored(c)
    BY <1>1, <1>7 DEF StoredInv, Stored
  <2>2. PageKept(c, page) /\ \A r \in requests : r.card = c => RequestKept(c, page, r)
    BY <1>5, <2>1 DEF OpenStored, PageKept, RequestKept, Mine
  <2> QED
    BY <1>1, <1>3, <1>5, <2>2, RunStored
<1> QED
  BY <1>1, <1>6, <1>7 DEF StoredInv

\* A click on Delete.
LEMMA deleteInvoiceStored ==
    ASSUME IInv, MadeInv, StoredInv, NEW c \in Card, deleteInvoice(c)
    PROVE  StoredInv'
<1> DEFINE p == card[c]
           page == [p EXCEPT !.timer = FALSE, !.deleting = TRUE]
           r == Request(c, p, "delete", 0)
<1>1. card' = [card EXCEPT ![c] = page] /\ requests' = requests \cup {r}
      /\ UNCHANGED <<rows, faulted>> /\ ~p.closed /\ p \in PageType
  BY DEF deleteInvoice, Here, IInv
<1>2. page.id = p.id /\ page.closed = p.closed /\ page.saved = p.saved /\ page.dirty = p.dirty
      /\ page.edits = p.edits
  BY <1>1 DEF PageType
<1>3. r.card = c /\ r.id = p.id /\ r.answer = "none" /\ r.awaited /\ r.kind = "delete"
  BY <1>1, Asked
<1> HIDE DEF page, r
<1>4. card'[c] = page /\ \A d \in Card : d # c => card'[d] = card[d]
  BY <1>1 DEF IInv
<1>5. ASSUME NEW d \in Card \ faulted, d # c PROVE Stored(d)'
  <2>1. Mine(d)' = Mine(d)
    BY <1>1, <1>3, <1>5 DEF Mine
  <2> QED
    BY <1>1, <1>4, <1>5, <2>1, SameStored DEF StoredInv, MadeInv
<1>6. ASSUME c \notin faulted PROVE Stored(c)'
  <2>1. OpenStored(c)
    BY <1>1, <1>6 DEF StoredInv, Stored
  <2>2. \A i, k : Good(c, i, k)' <=> Good(c, i, k)
    BY <1>1 DEF Good
  <2>3. \A i : Final(i)' <=> Final(i)
    BY <1>1 DEF Final
  <2>4. PageKept(c, card[c])'
    BY <1>2, <1>4, <2>1, <2>2 DEF OpenStored, PageKept, New
  <2>5. ASSUME NEW q \in Mine(c)' PROVE RequestKept(c, card[c], q)'
    <3>1. q \in Mine(c) \/ q = r
      BY <1>1 DEF Mine
    <3> QED
      BY <1>2, <1>3, <1>4, <2>1, <2>2, <2>3, <3>1 DEF OpenStored, RequestKept, New
  <2> QED
    BY <1>1, <1>2, <1>4, <2>4, <2>5 DEF Stored, OpenStored
<1> QED
  BY <1>1, <1>5, <1>6 DEF StoredInv

\* The steps of clerks and of the timer.
LEMMA ClerkStored ==
    ASSUME IInv, MadeInv, StoredInv, NEW c \in Card, Clerk(c) \/ AutoSave(c)
    PROVE  StoredInv'
<1> DEFINE p == card[c]
<1>1. p \in PageType /\ card \in [Card -> PageType]
  BY DEF IInv
<1>2. ~p.closed
  BY DEF Clerk, AutoSave, saveDraft, Edit, ChooseParty, navigateWithSave, postWithoutVendor,
         postInvoice, deleteInvoice, Here
<1>3. c \notin faulted => OpenStored(c)
  BY <1>2 DEF StoredInv, Stored
<1>4. p.saved \in Nat /\ p.dirty \in Nat /\ p.edits \in Nat
  BY <1>1, InvoiceCardAssumption DEF PageType, Edits
<1>5. CASE ChooseParty(c) \/ \E lined \in BOOLEAN : Edit(c, lined)
  <2>0. PICK lined \in BOOLEAN : Edit(c, lined) \/ ChooseParty(c)
    BY <1>5
  <2> DEFINE n == p.edits + 1
             dirty == IF p.posting THEN p.dirty ELSE n
             timer == p.timer \/ ~p.posting
             party == ~p.party
             edited == [p EXCEPT !.lined = lined, !.edits = n, !.dirty = dirty,
                                 !.timer = timer, !.said = "nothing"]
             chosen == [p EXCEPT !.party = party, !.edits = n, !.dirty = dirty, !.timer = timer]
  <2>1. n \in Edits /\ dirty \in Edits /\ timer \in BOOLEAN /\ party \in BOOLEAN
    BY <1>1, <2>0, InvoiceCardAssumption DEF PageType, Edits, Edit, ChooseParty
  <2>2. c \notin faulted => p.saved <= dirty /\ dirty <= n
    BY <1>3, <1>4 DEF OpenStored, PageKept
  <2>3. /\ card' = [card EXCEPT ![c] = edited] \/ card' = [card EXCEPT ![c] = chosen]
        /\ UNCHANGED <<requests, rows, faulted>>
    BY <2>0 DEF Edit, ChooseParty
  <2> HIDE DEF n, dirty, timer, party
  <2>4. /\ edited \in PageType /\ edited.id = p.id /\ edited.closed = p.closed
        /\ edited.saved = p.saved /\ edited.dirty = dirty /\ edited.edits = n
    BY <1>1, <2>1 DEF PageType
  <2>5. /\ chosen \in PageType /\ chosen.id = p.id /\ chosen.closed = p.closed
        /\ chosen.saved = p.saved /\ chosen.dirty = dirty /\ chosen.edits = n
    BY <1>1, <2>1 DEF PageType
  <2> HIDE DEF edited, chosen
  <2> QED
    BY <1>2, <2>2, <2>3, <2>4, <2>5, PageStored
<1>6. ASSUME NEW page \in PageType, page.id = p.id, page.closed = p.closed,
             page.saved = p.saved, page.dirty = p.dirty, page.edits = p.edits,
             card' = [card EXCEPT ![c] = page], UNCHANGED <<requests, rows, faulted>>
      PROVE  StoredInv'
  BY <1>2, <1>3, <1>6, PageStored DEF OpenStored, PageKept
<1>7. ASSUME card' = [card EXCEPT ![c].timer = FALSE], UNCHANGED <<requests, rows, faulted>>
      PROVE  StoredInv'
  <2> DEFINE page == [p EXCEPT !.timer = FALSE]
  <2>1. /\ page \in PageType /\ page.id = p.id /\ page.closed = p.closed
        /\ page.saved = p.saved /\ page.dirty = p.dirty /\ page.edits = p.edits
    BY <1>1 DEF PageType
  <2> QED
    BY <1>6, <1>7, <2>1
<1>8. CASE saveDraft(c)
  BY <1>7, <1>8, EnqueueStored DEF saveDraft
<1>9. CASE navigateWithSave(c)
  <2>1. CASE Close(c, p, requests)
    <3>1. c \notin faulted =>
             \/ p.id = New
             \/ /\ p.saved > 0 => Good(c, p.id, p.saved)
                /\ \A r \in requests : r.card = c /\ r.kind = "save" /\ r.answer = "none" =>
                      p.saved <= r.content
      BY <1>3 DEF OpenStored, PageKept, RequestKept, Mine
    <3> QED
      BY <1>1, <1>9, <2>1, <3>1, CloseStored DEF navigateWithSave
  <2>2. CASE ~Close(c, p, requests)
    BY <1>7, <1>9, <2>2, EnqueueStored DEF navigateWithSave
  <2> QED
    BY <2>1, <2>2
<1>10. CASE postWithoutVendor(c)
  <2> DEFINE said == IF TakenForSaved(c) THEN "saved" ELSE "failed"
             page == [p EXCEPT !.timer = FALSE, !.said = said]
  <2>1. card' = [card EXCEPT ![c] = page] /\ UNCHANGED <<requests, rows, faulted>>
    BY <1>10 DEF postWithoutVendor
  <2>2. said \in {"saved", "failed"}
    OBVIOUS
  <2> HIDE DEF said
  <2>3. /\ page \in PageType /\ page.id = p.id /\ page.closed = p.closed
        /\ page.saved = p.saved /\ page.dirty = p.dirty /\ page.edits = p.edits
    BY <1>1, <2>2 DEF PageType
  <2> HIDE DEF page
  <2> QED
    BY <1>6, <2>1, <2>3
<1> QED
  BY <1>5, <1>8, <1>9, <1>10, postInvoiceStored, deleteInvoiceStored DEF Clerk, AutoSave

\* What an update leaves of the row.
LEMMA UpdateWrites ==
    ASSUME IInv, NEW r \in requests, Update(r)
    PROVE  /\ r.kind = "save" => rows'[r.id].content = {<<r.card, r.content>>}
           /\ r.card \in rows'[r.id].writers
<1> DEFINE i == r.id
           status == StatusAfter[r.kind]
           content == IF r.kind = "delete" THEN rows[i].content ELSE Said(r)
           writers == rows[i].writers \cup {r.card}
           row == [rows[i] EXCEPT !.status = status, !.content = content, !.writers = writers]
<1>1. i \in Row /\ rows[i] \in RowType /\ rows \in [Row -> RowType]
  BY UpdateRow DEF IInv
<1>2. rows' = [rows EXCEPT ![i] = row]
  BY DEF Update
<1>3. r.kind = "save" => content = {<<r.card, r.content>>}
  BY DEF Said
<1>4. r.card \in writers
  OBVIOUS
<1> HIDE DEF status, content, writers
<1>5. row.content = content /\ row.writers = writers
  BY <1>1 DEF RowType
<1> HIDE DEF row
<1> QED
  BY <1>1, <1>2, <1>3, <1>4, <1>5

\* The server changes the invoice of a request, or none, and answers it.
LEMMA ServeStored ==
    ASSUME IInv, MadeInv, StoredInv, NEW r \in requests, Serve(r)
    PROVE  StoredInv'
<1> DEFINE c == r.card
<1>1. /\ r \in RequestType /\ c \in Card /\ r.id \in Row \cup {New} /\ r.answer = "none"
      /\ r.content \in Edits /\ r.dirty \in Edits /\ UNCHANGED <<card, faulted>>
      /\ r.kind \in {"save", "post", "delete"}
  BY DEF IInv, RequestType, Serve, Update, Insert, Refuse, Pending
\* Row i is the one that changes; a refused request changes none.
<1>2. ASSUME NEW i \in Row \cup {New}, NEW answer \in {"ok", "error"},
             Answer(r, answer, i),
             \/ answer = "error" /\ rows' = rows /\ i = r.id
             \/ /\ answer = "ok" /\ i # New /\ ~Final(i)
                /\ c \in rows'[i].writers
                /\ \A j \in Row : j # i => rows'[j] = rows[j]
                /\ r.kind = "save" => rows'[i].content = {<<c, r.content>>}
                /\ r.kind # "save" => Final(i)',
             r.id # New => i = r.id
      PROVE  StoredInv'
  <2> DEFINE told == [r EXCEPT !.answer = answer, !.id = i]
  <2>1. /\ told.awaited = r.awaited /\ told.card = c /\ told.kind = r.kind
        /\ told.answer = answer /\ told.id = i /\ told.content = r.content
        /\ told.dirty = r.dirty
    BY <1>1 DEF RequestType
  <2> HIDE DEF told
  <2>2. requests' = (requests \ {r}) \cup (IF r.awaited THEN {told} ELSE {})
    BY <1>2 DEF Answer, told
  <2>3. ASSUME NEW d \in Card \ faulted, d # c PROVE Stored(d)'
    <3>1. Mine(d)' = Mine(d)
      BY <2>1, <2>2, <2>3 DEF Mine
    <3>2. \A j \in Row : rows'[j] = rows[j] \/ (~Final(j) /\ rows'[j].writers # {d})
      BY <1>2, <2>3
    <3> QED
      BY <1>1, <2>3, <3>1, <3>2, SameStored DEF StoredInv, MadeInv
  <2>4. ASSUME c \notin faulted PROVE Stored(c)'
    <3>1. Stored(c) /\ OneMade(c) /\ OneSave(c) /\ card[c] \in PageType /\ card'[c] = card[c]
      BY <1>1, <2>4 DEF StoredInv, MadeInv, IInv
    <3>2. \A j \in Row : j # i => rows'[j] = rows[j]
      BY <1>2
    <3>3. \A j \in Row : Final(j) => Final(j)'
      BY <1>2 DEF Final
    <3>4. \A k : \A j \in Row :
               j # i \/ answer = "error" => (Good(c, j, k) => Good(c, j, k)')
      BY <1>2, <3>2 DEF Good
    <3>5. ASSUME answer = "ok", r.kind # "save", NEW k PROVE Good(c, i, k)'
      BY <1>2, <3>5 DEF Good, Final
    <3>6. ASSUME answer = "ok", r.kind = "save", NEW k \in Nat, k <= r.content
          PROVE  Good(c, i, k)'
      <4>1. rows'[i].content = {<<c, r.content>>} /\ r.content \in k .. MaxEdits
        BY <1>1, <1>2, <3>6, InvoiceCardAssumption DEF Edits
      <4> QED
        BY <4>1 DEF Good
    <3>7. card[c].saved \in Nat /\ r.dirty \in Nat /\ card[c].id \in Row \cup {New}
      BY <1>1, <3>1, InvoiceCardAssumption DEF PageType, Edits
    <3>8. r \in Mine(c)
      BY DEF Mine
    <3>9. CASE card[c].closed
      <4>1. LeftStored(c) /\ ~r.awaited
        BY <3>1, <3>8, <3>9 DEF Stored, LeftStored
      <4>2. Mine(c)' = Mine(c) \ {r}
        BY <2>2, <4>1 DEF Mine
      <4>3. CASE card[c].id = New
        BY <3>1, <4>1, <4>2, <4>3, <3>9 DEF Stored, LeftStored, LeftKept, New
      <4>4. CASE card[c].id # New /\ Final(card[c].id)
        BY <3>1, <3>3, <3>7, <4>1, <4>2, <4>4, <3>9 DEF Stored, LeftStored, LeftKept, New
      <4>5. CASE card[c].id # New /\ ~Final(card[c].id)
        <5>1. /\ card[c].saved > 0 => Good(c, card[c].id, card[c].saved)
              /\ \A q \in Mine(c) : q.kind = "save" /\ q.answer = "none" =>
                    card[c].saved <= q.content
          BY <4>1, <4>5 DEF LeftStored, LeftKept
        <5>2. card[c].saved > 0 => Good(c, card[c].id, card[c].saved)'
          <6> SUFFICES ASSUME card[c].saved > 0 PROVE Good(c, card[c].id, card[c].saved)'
            OBVIOUS
          <6>1. CASE card[c].id # i \/ answer = "error"
            BY <3>1, <3>4, <3>7, <4>5, <5>1, <6>1
          <6>2. CASE card[c].id = i /\ answer = "ok" /\ r.kind = "save"
            BY <1>1, <3>6, <3>7, <3>8, <5>1, <6>2
          <6>3. CASE card[c].id = i /\ answer = "ok" /\ r.kind # "save"
            BY <3>1, <3>5, <6>3
          <6> QED
            BY <6>1, <6>2, <6>3
        <5>3. LeftKept(c, card[c])'
          BY <3>1, <4>2, <5>1, <5>2 DEF LeftKept
        <5> QED
          BY <3>1, <3>9, <4>1, <4>2, <5>3 DEF Stored, LeftStored
      <4> QED
        BY <4>3, <4>4, <4>5
    <3>10. CASE ~card[c].closed
      <4>1. /\ PageKept(c, card[c]) /\ RequestKept(c, card[c], r) /\ r.awaited
            /\ \A q \in Mine(c) : RequestKept(c, card[c], q)
        BY <3>1, <3>8, <3>10 DEF Stored, OpenStored, RequestKept
      <4>2. Mine(c)' = (Mine(c) \ {r}) \cup {told}
        BY <2>1, <2>2, <4>1 DEF Mine
      <4>3. card[c].id # New => r.id = card[c].id /\ i = r.id
        BY <1>2, <4>1 DEF RequestKept
      <4>4. PageKept(c, card[c])'
        <5> SUFFICES ASSUME card[c].id # New, card[c].saved > 0
                     PROVE  Good(c, card[c].id, card[c].saved)'
          BY <3>1, <4>1 DEF PageKept, New
        <5>1. CASE answer = "error"
          BY <3>1, <3>4, <3>7, <4>1, <5>1 DEF PageKept
        <5>2. CASE answer = "ok" /\ r.kind = "save"
          BY <1>1, <3>6, <3>7, <4>1, <4>3, <5>2 DEF RequestKept
        <5>3. CASE answer = "ok" /\ r.kind # "save"
          BY <3>1, <3>5, <4>3, <5>3
        <5> QED
          BY <5>1, <5>2, <5>3
      <4>5. RequestKept(c, card[c], told)'
        <5>1. answer = "ok" /\ r.kind = "save" => Good(c, i, r.dirty)'
          BY <1>1, <3>6, <3>7, <4>1 DEF RequestKept
        <5>2. answer = "ok" /\ r.kind # "save" => Final(i)'
          BY <1>2
        <5> QED
          BY <2>1, <3>1, <4>1, <4>3, <5>1, <5>2 DEF RequestKept, New
      <4>6. ASSUME NEW q \in Mine(c), q # r PROVE RequestKept(c, card[c], q)'
        <5>1. RequestKept(c, card[c], q)
          BY <4>1
        <5>2. q.answer = "ok" => q.id \in Row
          BY DEF Mine, IInv, RequestType, MadeInv, Named
        <5>3. q.kind = "save" => r.kind # "save"
          BY <3>1, <3>8, <4>1, <4>6, <5>1 DEF OneSave, SaveAwaited, Mine, RequestKept
        <5>4. q.kind = "save" /\ q.answer = "ok" => Good(c, q.id, q.dirty)'
          <6> SUFFICES ASSUME q.kind = "save", q.answer = "ok" PROVE Good(c, q.id, q.dirty)'
            OBVIOUS
          <6>1. CASE q.id # i \/ answer = "error"
            BY <3>4, <5>1, <5>2, <6>1 DEF RequestKept
          <6>2. CASE q.id = i /\ answer = "ok"
            BY <3>5, <5>3, <6>2
          <6> QED
            BY <6>1, <6>2
        <5>5. q.kind # "save" /\ q.answer = "ok" => Final(q.id)'
          BY <3>3, <5>1, <5>2 DEF RequestKept
        <5> QED
          BY <3>1, <5>1, <5>4, <5>5 DEF RequestKept, New
      <4> QED
        BY <3>1, <3>10, <4>2, <4>4, <4>5, <4>6 DEF Stored, OpenStored
    <3> QED
      BY <3>9, <3>10
  <2> QED
    BY <1>1, <2>3, <2>4 DEF StoredInv
<1>3. CASE Update(r)
  <2>1. /\ r.id \in Row /\ Answer(r, "ok", r.id) /\ ~Final(r.id)
        /\ \A j \in Row : j # r.id => rows'[j] = rows[j]
    BY <1>3, UpdateRow DEF Update, Final
  <2>2. r.kind # "save" => Final(r.id)'
    BY <1>1, <1>3, UpdateRow DEF StatusAfter, Final
  <2>3. r.id # New
    BY <1>3 DEF Update
  <2> QED
    BY <1>2, <1>3, <2>1, <2>2, <2>3, UpdateWrites
<1>4. CASE Insert(r)
  <2> DEFINE row == [status |-> StatusAfter[r.kind], content |-> Said(r),
                     maker |-> {c}, writers |-> {c}]
  <2>1. PICK i \in Row : rows[i] = NoRow /\ rows' = [rows EXCEPT ![i] = row]
                         /\ Answer(r, "ok", i)
    BY <1>4 DEF Insert
  <2>2. /\ row.writers = {c} /\ row.content = {<<c, r.content>>}
        /\ r.kind # "save" => row.status \in {"Posted", "Deleted"}
    BY <1>1 DEF Said, StatusAfter
  <2> HIDE DEF row
  <2>3. rows'[i] = row /\ (\A j \in Row : j # i => rows'[j] = rows[j]) /\ ~Final(i)
    BY <2>1 DEF IInv, Final, NoRow
  <2>4. i # New /\ r.id = New
    BY <1>4 DEF Insert, Row, New
  <2>5. r.kind # "save" => Final(i)'
    BY <2>2, <2>3 DEF Final
  <2> QED
    BY <1>2, <2>1, <2>2, <2>3, <2>4, <2>5
<1>5. CASE Refuse(r)
  BY <1>1, <1>2, <1>5 DEF Refuse
<1> QED
  BY <1>3, <1>4, <1>5 DEF Serve

\* A lost answer excuses its card.
LEMMA LoseStored ==
    ASSUME IInv, MadeInv, StoredInv, NEW r \in requests, Lose(r)
    PROVE  StoredInv'
<1> DEFINE told == [r EXCEPT !.answer = "error"]
           ghost == [r EXCEPT !.awaited = FALSE]
<1>1. r \in RequestType /\ told.card = r.card /\ ghost.card = r.card
  BY DEF IInv, RequestType
<1> HIDE DEF told, ghost
<1>2. /\ requests' = (requests \ {r}) \cup {told} \cup (IF Pending(r) THEN {ghost} ELSE {})
      /\ faulted' = faulted \cup {r.card} /\ UNCHANGED <<card, rows>>
  BY DEF Lose, told, ghost
<1>3. ASSUME NEW d \in Card \ faulted, d # r.card PROVE Stored(d)'
  <2>1. Mine(d)' = Mine(d)
    BY <1>1, <1>2, <1>3 DEF Mine
  <2> QED
    BY <1>2, <1>3, <2>1, SameStored DEF StoredInv, MadeInv
<1> QED
  BY <1>2, <1>3 DEF StoredInv

\* The steps in which an answer arrives.
LEMMA DeliverStored ==
    ASSUME IInv, MadeInv, StoredInv, NEW r \in requests, Deliver(r)
    PROVE  StoredInv'
<1> DEFINE c == r.card
           p == card[c]
           inFlight == requests \ {r}
<1>1. /\ c \in Card /\ p \in PageType /\ r.id \in Row \cup {New} /\ r.dirty \in Edits
      /\ inFlight \subseteq requests /\ \A q \in requests \ inFlight : q.card = c
      /\ r \in Mine(c) /\ r.awaited
      /\ p.saved \in Nat /\ p.dirty \in Nat /\ p.edits \in Nat /\ r.dirty \in Nat
  <2>1. r \in RequestType /\ c \in Card /\ p \in PageType
    BY DEF IInv, RequestType
  <2>2. /\ r.id \in Row \cup {New} /\ r.dirty \in Edits
        /\ p.saved \in Edits /\ p.dirty \in Edits /\ p.edits \in Edits
    BY <2>1 DEF RequestType, PageType
  <2>3. Edits \subseteq Nat
    BY InvoiceCardAssumption DEF Edits
  <2>4. inFlight \subseteq requests /\ \A q \in requests \ inFlight : q.card = c
    OBVIOUS
  <2>5. r \in Mine(c)
    BY DEF Mine
  <2>6. r.awaited
    BY DEF Deliver, SaveDone, SaveFailed, Finished, PostFailed, DeleteFailed, Arrives
  <2> QED
    BY <2>1, <2>2, <2>3, <2>4, <2>5, <2>6
<1>2. c \notin faulted => ~p.closed /\ PageKept(c, p) /\ \A q \in Mine(c) : RequestKept(c, p, q)
  BY <1>1 DEF StoredInv, Stored, LeftStored, OpenStored
\* No other save of the page is out.
<1>3. ASSUME c \notin faulted, r.kind = "save", NEW q \in inFlight, q.card = c
      PROVE  q.kind # "save"
  BY <1>1, <1>2, <1>3 DEF IInv, OneSave, SaveAwaited, Mine, RequestKept
\* After a save the page goes on as `page'.
<1>4. ASSUME NEW page \in PageType, NextJob(r, page), rows' = rows,
             SaveAwaited(c, r), page.queue = p.queue, page.closed = p.closed,
             faulted \subseteq faulted',
             c \notin faulted' => /\ PageKept(c, page)
                                  /\ \A q \in inFlight : q.card = c => RequestKept(c, page, q)
      PROVE  StoredInv'
  <2> DEFINE queue == Tail(page.queue)
             clicks == [s \in Slot |-> IF page.clicks[s] > 0 THEN page.clicks[s] - 1
                                                             ELSE page.clicks[s]]
             next == [page EXCEPT !.queue = queue, !.clicks = clicks]
             more == Len(page.queue) > 1
  <2>1. p.queue # <<>> /\ page.queue \in Queue
    BY <1>1, <1>4 DEF IInv, OneSave, PageType
  <2>2. queue \in Queue
    BY <1>4, <2>1, Queues, InvoiceCardAssumption DEF Queue
  <2>3. clicks \in [Slot -> -1 .. MaxQueue]
    BY InvoiceCardAssumption DEF PageType
  <2>4. Run(c, next, inFlight, more)
    BY <1>4 DEF NextJob
  <2> HIDE DEF queue, clicks
  <2>5. /\ next \in PageType /\ next.id = page.id /\ next.closed = page.closed
        /\ next.saved = page.saved /\ next.dirty = page.dirty /\ next.edits = page.edits
    BY <2>2, <2>3 DEF PageType
  <2>6. more \in BOOLEAN
    OBVIOUS
  <2> HIDE DEF next, more, inFlight, c
  <2>7. \A d \in Card \ faulted : d # c => Stored(d)'
    BY <1>1, <1>4, <2>4, <2>5, <2>6, RunOtherStored
  <2>8. ASSUME c \notin faulted' PROVE Stored(c)'
    <3>1. ~next.closed /\ PageKept(c, next)
          /\ \A q \in inFlight : q.card = c => RequestKept(c, next, q)
      BY <1>2, <1>4, <2>5, <2>8 DEF PageKept, RequestKept
    <3> QED
      BY <1>1, <1>4, <2>4, <2>5, <2>6, <3>1, RunStored
  <2> QED
    BY <1>4, <2>7, <2>8 DEF StoredInv
<1>5. CASE SaveDone(r)
  <2> DEFINE version == SavedVersion(r)
             page == [p EXCEPT !.id = r.id, !.saved = version]
  <2>1. /\ SaveAwaited(c, r) /\ r.answer = "ok" /\ r.kind = "save" /\ UNCHANGED <<rows, faulted>>
        /\ Close(c, page, inFlight) \/ NextJob(r, page)
    BY <1>5 DEF SaveDone, Arrives, SaveAwaited
  <2>2. (version = r.dirty /\ p.dirty = r.dirty) \/ version = p.saved
    BY DEF SavedVersion
  <2>3. version \in Edits
    BY <1>1, <2>2 DEF PageType
  <2> HIDE DEF version
  <2>4. /\ page \in PageType /\ page.queue = p.queue /\ page.closed = p.closed /\ page.id = r.id
        /\ page.saved = version /\ page.dirty = p.dirty /\ page.edits = p.edits
    BY <1>1, <2>3 DEF PageType
  <2>5. r.id # New
    BY <2>1 DEF MadeInv, Named
  <2> HIDE DEF page
  <2>6. ASSUME c \notin faulted
        PROVE  /\ PageKept(c, page)
               /\ \A q \in inFlight : q.card = c => RequestKept(c, page, q)
    <3>1. PageKept(c, p) /\ RequestKept(c, p, r) /\ Good(c, r.id, r.dirty) /\ ~p.closed
      BY <1>1, <1>2, <2>1, <2>6 DEF RequestKept
    <3>2. version <= p.dirty /\ p.dirty <= p.edits
      BY <1>1, <2>2, <3>1 DEF PageKept
    <3>3. version > 0 => Good(c, r.id, version)
      <4>1. CASE version = r.dirty
        BY <3>1, <4>1
      <4>2. CASE version = p.saved
        <5>1. p.id # New => r.id = p.id
          BY <3>1 DEF RequestKept
        <5> QED
          BY <3>1, <4>2, <5>1 DEF PageKept, New
      <4> QED
        BY <2>2, <4>1, <4>2
    <3>4. ASSUME NEW q \in inFlight, q.card = c PROVE RequestKept(c, page, q)
      <4>1. RequestKept(c, p, q) /\ q.kind # "save" /\ q \in Mine(c)
        BY <1>2, <1>3, <2>1, <2>6, <3>4 DEF Mine
      <4>2. p.id # New
        <5>1. p.id = New => Fresh(c)
          BY <1>1, <2>6, <3>1 DEF MadeInv, OneMade
        <5> QED
          BY <1>1, <3>4, <4>1, <5>1 DEF Fresh
      <4>3. q.id = r.id
        BY <3>1, <4>1, <4>2 DEF RequestKept
      <4> QED
        BY <2>4, <4>1, <4>3 DEF RequestKept
    <3> QED
      BY <2>4, <2>5, <3>2, <3>3, <3>4 DEF PageKept
  <2>7. CASE NextJob(r, page)
    BY <1>4, <2>1, <2>4, <2>6, <2>7
  <2>8. CASE Close(c, page, inFlight)
    <3>1. c \notin faulted =>
             /\ page.saved > 0 => Good(c, page.id, page.saved)
             /\ \A q \in inFlight : q.card = c /\ q.kind = "save" /\ q.answer = "none" =>
                   page.saved <= q.content
      BY <2>4, <2>5, <2>6 DEF PageKept, RequestKept
    <3> QED
      BY <1>1, <2>1, <2>4, <2>8, <3>1, CloseStored
  <2> QED
    BY <2>1, <2>7, <2>8
<1>6. CASE SaveFailed(r)
  <2> DEFINE page == [p EXCEPT !.said = "failed"]
  <2>1. /\ SaveAwaited(c, r) /\ rows' = rows /\ NextJob(r, page)
        /\ faulted' = IF p.id = New THEN faulted \cup {c} ELSE faulted
    BY <1>6 DEF SaveFailed, Arrives, SaveAwaited, Told
  <2>2. /\ page \in PageType /\ page.queue = p.queue /\ page.closed = p.closed /\ page.id = p.id
        /\ page.saved = p.saved /\ page.dirty = p.dirty /\ page.edits = p.edits
    BY <1>1 DEF PageType
  <2> HIDE DEF page
  <2>3. c \notin faulted =>
           PageKept(c, page) /\ \A q \in inFlight : q.card = c => RequestKept(c, page, q)
    BY <1>2, <2>2 DEF PageKept, RequestKept, Mine
  <2> QED
    BY <1>4, <2>1, <2>2, <2>3
<1>7. CASE Finished(r)
  <2> DEFINE page == [p EXCEPT !.saved = p.dirty]
  <2>1. Close(c, page, inFlight) /\ UNCHANGED <<rows, faulted>> /\ r.kind # "save"
        /\ r.answer = "ok"
    BY <1>7 DEF Finished, Arrives
  <2>2. page \in PageType /\ page.id = p.id
    BY <1>1 DEF PageType
  <2> HIDE DEF page
  <2>3. c \notin faulted => page.id = New \/ Final(page.id)
    BY <1>1, <1>2, <2>1, <2>2 DEF RequestKept
  <2> QED
    BY <1>1, <2>1, <2>2, <2>3, CloseStored
<1>8. CASE PostFailed(r) \/ DeleteFailed(r)
  <2> DEFINE posting == [p EXCEPT !.said = "failed", !.posting = FALSE]
             deleting == [p EXCEPT !.said = "failed", !.deleting = FALSE]
  <2>1. /\ requests' = requests \ {r} /\ UNCHANGED <<rows, faulted>>
        /\ card' = [card EXCEPT ![c] = posting] \/ card' = [card EXCEPT ![c] = deleting]
    BY <1>8 DEF PostFailed, DeleteFailed, Told
  <2>2. /\ posting.closed = p.closed /\ posting.id = p.id /\ posting.saved = p.saved
        /\ posting.dirty = p.dirty /\ posting.edits = p.edits
        /\ deleting.closed = p.closed /\ deleting.id = p.id /\ deleting.saved = p.saved
        /\ deleting.dirty = p.dirty /\ deleting.edits = p.edits
    BY <1>1 DEF PageType
  <2> HIDE DEF posting, deleting
  <2>3. /\ card'[c].closed = p.closed /\ card'[c].id = p.id /\ card'[c].saved = p.saved
        /\ card'[c].dirty = p.dirty /\ card'[c].edits = p.edits
        /\ \A d \in Card : d # c => card'[d] = card[d]
    BY <1>1, <2>1, <2>2 DEF IInv
  <2>4. ASSUME NEW d \in Card \ faulted, d # c PROVE Stored(d)'
    <3>1. Mine(d)' = Mine(d)
      BY <2>1, <2>4 DEF Mine
    <3> QED
      BY <2>1, <2>3, <2>4, <3>1, SameStored DEF StoredInv, MadeInv
  <2>5. ASSUME c \notin faulted PROVE Stored(c)'
    <3>1. Mine(c)' \subseteq Mine(c)
      BY <2>1 DEF Mine
    <3>2. \A i, k : Good(c, i, k)' <=> Good(c, i, k)
      BY <2>1 DEF Good
    <3>3. \A i : Final(i)' <=> Final(i)
      BY <2>1 DEF Final
    <3>4. PageKept(c, card[c])'
      BY <1>2, <2>3, <2>5, <3>2 DEF PageKept, New
    <3>5. \A q \in Mine(c)' : RequestKept(c, card[c], q)'
      BY <1>2, <2>3, <2>5, <3>1, <3>2, <3>3 DEF RequestKept, New
    <3> QED
      BY <1>2, <2>3, <2>5, <3>4, <3>5 DEF Stored, OpenStored
  <2> QED
    BY <2>1, <2>4, <2>5 DEF StoredInv
<1> QED
  BY <1>5, <1>6, <1>7, <1>8 DEF Deliver

\* What a card shows as saved is on the server, for any edits, queue and
\* cards: saves do not overtake each other, an answer marks no newer edit as
\* saved, and a page that leaves takes nothing back.
THEOREM ShownIsStored == Spec => []SavedIsStored
<1>1. Init => StoredInv
  <2> SUFFICES ASSUME Init PROVE StoredInv
    OBVIOUS
  <2>1. requests = {}
    BY DEF Init
  <2>2. PICK start \in Starts : card = [c \in Card |-> StartOf(start[c])]
    BY DEF Init
  <2>3. \A c \in Card : card[c].saved = 0 /\ card[c].dirty = 0 /\ card[c].edits = 0
    BY <2>2 DEF StartOf, NewCard
  <2> QED
    BY <2>1, <2>3 DEF StoredInv, Stored, OpenStored, LeftStored, PageKept, LeftKept, Mine
<1>2. IInv /\ MadeInv /\ StoredInv /\ [Next]_vars => StoredInv'
  <2> SUFFICES ASSUME IInv, MadeInv, StoredInv, [Next]_vars PROVE StoredInv'
    OBVIOUS
  <2>1. CASE UNCHANGED vars
    <3>1. ASSUME NEW d \in Card \ faulted PROVE Stored(d)'
      <4>1. Mine(d)' = Mine(d) /\ card'[d] = card[d] /\ rows' = rows
        BY <2>1 DEF vars, Mine
      <4> QED
        BY <3>1, <4>1, SameStored DEF StoredInv, MadeInv
    <3> QED
      BY <2>1, <3>1 DEF vars, StoredInv
  <2> QED
    BY <2>1, ClerkStored, ServeStored, LoseStored, DeliverStored DEF Next
<1>3. IInv /\ StoredInv => SavedIsStored
  <2> SUFFICES ASSUME IInv, StoredInv, NEW c \in Card \ faulted, card[c].id # New,
                      card[c].dirty > 0, Clean(c), rows[card[c].id].status = "Open",
                      rows[card[c].id].writers = {c}
               PROVE  \E n \in card[c].dirty .. MaxEdits : rows[card[c].id].content = {<<c, n>>}
    BY DEF SavedIsStored
  <2>1. card[c].saved = card[c].dirty /\ Stored(c)
    BY DEF Clean, StoredInv
  <2>2. Good(c, card[c].id, card[c].saved)
    BY <2>1 DEF Stored, OpenStored, LeftStored, PageKept, LeftKept, Final
  <2> QED
    BY <2>1, <2>2 DEF Good
<1> QED
  BY <1>1, <1>2, <1>3, Inductive, MadeAlways, PTL DEF Spec
=============================================================================
