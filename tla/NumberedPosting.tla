-------------------------- MODULE NumberedPosting ---------------------------
(***************************************************************************)
(* The transaction frame shared by every endpoint that posts a numbered    *)
(* document straight away: POST /api/pos/sales, /api/purchases,            *)
(* /api/sales-invoices/post, /api/customer-payments, /api/vendor-payments. *)
(* One instance of this module is one document table with its number       *)
(* series; the line references follow the POS sale.                        *)
(*                                                                         *)
(* A worker is one HTTP request on its own SQL connection.  Writes stay    *)
(* private to the transaction until it commits, because every row it wrote *)
(* is locked: they are applied by Commit and dropped by Rollback.  The     *)
(* same client document may be in flight on several workers at once: the   *)
(* terminal retries after a timeout or a lost reply.                       *)
(***************************************************************************)
EXTENDS Integers, FiniteSets

CONSTANTS
    Worker,     \* concurrent requests
    Nobody,     \* the owner of an unlocked NumberSeries row
    ClientId,   \* ExternalClientDocumentId values
    NoId,       \* NULL: a request without a client document id
    MaxCloud    \* bound: documents posted without a client document id

ASSUME NumberedPostingAssumption ==
    /\ Nobody \notin Worker
    /\ NoId \notin ClientId
    /\ IsFiniteSet(Worker)
    /\ MaxCloud \in Nat

VARIABLES
    lastNumber,   \* NumberSeries.LastNumber, committed
    seriesOwner,  \* holder of the UPDLOCK,HOLDLOCK on the NumberSeries row
    header,       \* committed header rows: [no, id]
    tx,           \* tx[w]: the request worker w is executing
    acked         \* acked[d]: numbers the terminal got in an OK reply for d

vars == <<lastNumber, seriesOwner, header, tx, acked>>

Id == ClientId \cup {NoId}
Idle == [pc |-> "idle", id |-> NoId, no |-> 0]

\* The rows of the filtered unique index on ExternalClientDocumentId.
RowsFor(d) == {h \in header : h.id = d}
\* The keys of the UNIQUE constraint on the document number.
Numbers == {h.no : h \in header}

InFlight(w) == tx[w].pc \notin {"idle", "respond"}
CloudDocs == {h \in header : h.id = NoId}
CloudWorkers == {w \in Worker : InFlight(w) /\ tx[w].id = NoId}
-----------------------------------------------------------------------------
Init ==
    /\ lastNumber = 0
    /\ seriesOwner = Nobody
    /\ header = {}
    /\ tx = [w \in Worker |-> Idle]
    /\ acked = [d \in ClientId |-> {}]

\* A request arrives, passes the permission and cart checks, and opens its
\* transaction.  A terminal may send the same client document id again.
Begin(w, id) ==
    /\ tx[w].pc = "idle"
    /\ id = NoId => Cardinality(CloudDocs) + Cardinality(CloudWorkers) < MaxCloud
    /\ tx' = [tx EXCEPT ![w] = [pc |-> IF id = NoId THEN "number" ELSE "find",
                                id |-> id, no |-> 0]]
    /\ UNCHANGED <<lastNumber, seriesOwner, header, acked>>

\* The idempotency lookup reads committed rows only, so it waits for a row that
\* another transaction has inserted and not committed; it keeps no lock.  A hit
\* answers with the document that is already there; a miss goes on, and may be
\* out of date by the next statement.
LookupWaits(w) ==
    \E v \in Worker \ {w} : tx[v].pc = "commit" /\ tx[v].id = tx[w].id

FindExistingSkipped(w) ==    \* mutant: no lookup, only the unique index
    /\ tx[w].pc = "find"
    /\ tx' = [tx EXCEPT ![w].pc = "number"]
    /\ UNCHANGED <<lastNumber, seriesOwner, header, acked>>

FindExistingAny(w) ==        \* mutant: the lookup forgets its WHERE clause
    /\ tx[w].pc = "find"
    /\ ~LookupWaits(w)
    /\ \/ \E h \in header :
             tx' = [tx EXCEPT ![w].pc = "respond", ![w].no = h.no]
       \/ /\ header = {}
          /\ tx' = [tx EXCEPT ![w].pc = "number"]
    /\ UNCHANGED <<lastNumber, seriesOwner, header, acked>>

FindExisting(w) ==
    /\ tx[w].pc = "find"
    /\ ~LookupWaits(w)
    /\ \/ \E h \in RowsFor(tx[w].id) :
             tx' = [tx EXCEPT ![w].pc = "respond", ![w].no = h.no]
       \/ /\ RowsFor(tx[w].id) = {}
          /\ tx' = [tx EXCEPT ![w].pc = "number"]
    /\ UNCHANGED <<lastNumber, seriesOwner, header, acked>>

NextNumberUnlocked(w) ==     \* mutant: SELECT without UPDLOCK,HOLDLOCK
    /\ tx[w].pc = "number"
    /\ tx' = [tx EXCEPT ![w].pc = "insert", ![w].no = lastNumber + 1]
    /\ UNCHANGED <<lastNumber, seriesOwner, header, acked>>

NextNumberAutocommit(w) ==   \* mutant: the UPDATE is outside the transaction
    /\ tx[w].pc = "number"
    /\ lastNumber' = lastNumber + 1
    /\ lastNumber < 5
    /\ tx' = [tx EXCEPT ![w].pc = "insert", ![w].no = lastNumber + 1]
    /\ UNCHANGED <<seriesOwner, header, acked>>

NextNumberStale(w) ==        \* mutant: LastNumber instead of LastNumber+1
    /\ tx[w].pc = "number"
    /\ seriesOwner = Nobody
    /\ seriesOwner' = w
    /\ tx' = [tx EXCEPT ![w].pc = "insert", ![w].no = lastNumber]
    /\ UNCHANGED <<lastNumber, header, acked>>

\* NextNumberAsync: the row lock is kept to the end of the transaction, so it
\* waits for whoever holds the series.
NextNumber(w) ==
    /\ tx[w].pc = "number"
    /\ seriesOwner = Nobody
    /\ seriesOwner' = w
    /\ tx' = [tx EXCEPT ![w].pc = "insert", ![w].no = lastNumber + 1]
    /\ UNCHANGED <<lastNumber, header, acked>>

\* The header INSERT is refused by either unique index.  It is the statement
\* that decides between two requests that both missed in FindExisting.
Duplicate(w) ==
    \/ tx[w].no \in Numbers
    \/ tx[w].id # NoId /\ RowsFor(tx[w].id) # {}

InsertHeaderUnindexed(w) ==  \* mutant: no unique index on the client id
    /\ tx[w].pc = "insert"
    /\ tx[w].no \notin Numbers
    /\ tx' = [tx EXCEPT ![w].pc = "commit"]
    /\ UNCHANGED <<lastNumber, seriesOwner, header, acked>>

InsertHeader(w) ==
    /\ tx[w].pc = "insert"
    /\ ~Duplicate(w)
    /\ tx' = [tx EXCEPT ![w].pc = "commit"]
    /\ UNCHANGED <<lastNumber, seriesOwner, header, acked>>

\* Lines, stock, payments, ledgers and G/L follow inside the same transaction;
\* the commit publishes all of it together with the new LastNumber.
Commit(w) ==
    /\ tx[w].pc = "commit"
    /\ header' = header \cup {[no |-> tx[w].no, id |-> tx[w].id]}
    /\ lastNumber' = tx[w].no
    /\ seriesOwner' = Nobody
    /\ tx' = [tx EXCEPT ![w].pc = "respond"]
    /\ UNCHANGED acked

\* The catch block: everything the transaction wrote is undone, the new
\* LastNumber with it, and the series is unlocked.
Undo(w) ==
    /\ seriesOwner' = IF seriesOwner = w THEN Nobody ELSE seriesOwner
    /\ tx' = [tx EXCEPT ![w] = Idle]
    /\ UNCHANGED <<lastNumber, header, acked>>

DuplicateKey(w) ==
    /\ tx[w].pc = "insert"
    /\ Duplicate(w)
    /\ Undo(w)

\* Any other failure before the commit: a business rule, a deadlock victim, a
\* command timeout, the process dying.  The terminal gets an error or nothing.
Rollback(w) ==
    /\ InFlight(w)
    /\ Undo(w)

\* The OK reply reaches the terminal ...
Respond(w) ==
    /\ tx[w].pc = "respond"
    /\ acked' = IF tx[w].id = NoId THEN acked
                ELSE [acked EXCEPT ![tx[w].id] = @ \cup {tx[w].no}]
    /\ tx' = [tx EXCEPT ![w] = Idle]
    /\ UNCHANGED <<lastNumber, seriesOwner, header>>

\* ... or the connection drops after the commit.
LoseReply(w) ==
    /\ tx[w].pc = "respond"
    /\ tx' = [tx EXCEPT ![w] = Idle]
    /\ UNCHANGED <<lastNumber, seriesOwner, header, acked>>

Next ==
    \E w \in Worker :
        \/ \E id \in Id : Begin(w, id)
        \/ FindExisting(w)
        \/ NextNumber(w)
        \/ InsertHeader(w)
        \/ DuplicateKey(w)
        \/ Commit(w)
        \/ Rollback(w)
        \/ Respond(w)
        \/ LoseReply(w)

Spec == Init /\ [][Next]_vars

\* Kestrel and SQL Server run every request to its end; lock waiters are served
\* in turn; the terminal's sync queue keeps sending each document it holds.
\* Nothing is assumed of Rollback and LoseReply.
Fairness ==
    /\ \A d \in ClientId : SF_vars(\E w \in Worker : Begin(w, d))
    /\ \A w \in Worker :
          /\ SF_vars(NextNumber(w))
          /\ WF_vars(\/ FindExisting(w) \/ InsertHeader(w) \/ DuplicateKey(w)
                     \/ Commit(w) \/ Respond(w))

FairSpec == Spec /\ Fairness
-----------------------------------------------------------------------------
\* The types; document numbers start at 1.
TypeOK ==
    /\ lastNumber \in Nat
    /\ seriesOwner \in Worker \cup {Nobody}
    /\ header \subseteq [no : Nat \ {0}, id : Id]
    /\ tx \in [Worker -> [pc : {"idle", "find", "number", "insert", "commit",
                                "respond"},
                          id : Id, no : Nat]]
    /\ \A w \in Worker : tx[w].pc \in {"insert", "commit", "respond"} => tx[w].no # 0
    /\ acked \in [ClientId -> SUBSET (Nat \ {0})]

\* However many copies of a request race past the unlocked lookup, a client
\* document id is posted at most once.
OneDocPerClientId ==
    \A h1, h2 \in header : h1.id = h2.id /\ h1.id # NoId => h1 = h2

\* Committed documents are numbered 1 to LastNumber: a transaction that drew a
\* number and rolled back leaves no gap, two that ran together share none.  (Of a
\* series that drafts draw from too, SALES_INVOICE and PURCHASE_INVOICE, this is
\* said of posting alone: a deleted draft leaves a gap.)
NumbersGapFree ==
    /\ Numbers = 1 .. lastNumber
    /\ \A h1, h2 \in header : h1.no = h2.no => h1 = h2

\* A number drawn by NextNumberAsync is taken by nobody else before the drawer
\* ends, so the UNIQUE constraint on the number never refuses a document.
FreshNumber ==
    \A w \in Worker : tx[w].pc \in {"insert", "commit"} =>
        /\ tx[w].no \notin Numbers
        /\ \A v \in Worker \ {w} :
              tx[v].pc \in {"insert", "commit"} => tx[v].no # tx[w].no

\* All the OK replies a terminal ever gets for one client document, retries
\* and duplicates included, name the same document number.
SameAnswer ==
    \A d \in ClientId : \A n1, n2 \in acked[d] : n1 = n2

\* Every posting request, with its races, locks and failures, looks to the
\* terminals like one step of the register of posted documents.
Register == INSTANCE PostedRegister
    WITH posted <- header, count <- lastNumber

RefinesRegister == Register!RegSpec

\* A step that can only be a failed request or a lost reply.
Fault ==
    \E w \in Worker : \/ LoseReply(w) /\ ~Respond(w)
                      \/ Rollback(w) /\ ~DuplicateKey(w)

\* If from some point on requests stop failing and replies stop getting lost,
\* every client document is posted and its terminal told so, even when an
\* earlier attempt was committed and only its reply was lost.
EventuallyAcked ==
    <>[][~Fault]_vars => \A d \in ClientId : <>(acked[d] # {})
=============================================================================
