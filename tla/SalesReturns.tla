----------------------------- MODULE SalesReturns -----------------------------
(***************************************************************************)
(* Goods that come back: POS returns against the lines of a sale, and      *)
(* sales return orders against the lines of a posted sales invoice.  Both  *)
(* read what was returned of a line before and take no more than the rest; *)
(* nothing in the database says so.  A POS return locks no sale line: it   *)
(* relies on the RETURN number series, which it locks before it reads.  A  *)
(* return order locks each invoice line as it reads it, in the order the   *)
(* request names them.                                                     *)
(*                                                                         *)
(* Reads see committed rows (READ COMMITTED).  The part of a handler after *)
(* its last line waits for no lock that this module shows: one step, with  *)
(* the commit.  Money is in cents.                                         *)
(***************************************************************************)
EXTENDS Integers, Sequences, FiniteSets

CONSTANTS
    Clerk,
    SaleLine,       \* the lines of POS sales
    InvoiceLine,    \* the lines of posted sales invoices
    Sold,           \* Sold[l]: the quantity a line sold
    LineTotal,      \* LineTotal[l]: what was paid for it
    ClientId,       \* ExternalClientDocumentId values
    NoId,           \* a request without one
    Requests,       \* Requests[c]: what a clerk or her application may send
    MaxRequests     \* bound: requests sent

Line == SaleLine \cup InvoiceLine

\* What transactions lock: lines of invoices and the RETURN number series.
Resource == InvoiceLine \cup {"RETURN"}
Nobody == "nobody"

\* What to return of which lines; requests without lines are refused.
Wants(lines) == Seq([line : lines, qty : Nat \ {0}]) \ {<<>>}

\* order is the SalesReturnOrderId of the request, 0 for a new one.
Request ==
    [kind : {"pos"}, wants : Wants(SaleLine), order : {0}, client : {NoId}]
    \cup [kind : {"draft", "post"}, wants : Wants(InvoiceLine), order : Nat,
          client : ClientId \cup {NoId}]
NoRequest == [kind |-> "none", wants |-> <<>>, order |-> 0, client |-> NoId]

ASSUME SalesReturnsAssumption ==
    /\ SaleLine \cap InvoiceLine = {} /\ "RETURN" \notin InvoiceLine
    /\ Nobody \notin Clerk
    /\ Sold \in [Line -> Nat \ {0}] /\ LineTotal \in [Line -> Nat]
    /\ NoId \notin ClientId
    /\ Requests \in [Clerk -> SUBSET Request]
    /\ MaxRequests \in Nat

VARIABLES
    posted,     \* posted[l]: what the rows of posted returns say of a line
    orders,     \* SalesReturnOrderHeader, in the order of its ids
    locker,     \* who locks a line of an invoice or the RETURN series
    tx,         \* tx[c]: the transaction of a clerk's request
    sent,       \* requests sent
    credits     \* history: returns posted for a client id

vars == <<posted, orders, locker, tx, sent, credits>>

\* Quantity and refund summed over the rows, and how many they are.
Sum == [qty : Nat, refund : Nat, rows : Nat]
Zero == [qty |-> 0, refund |-> 0, rows |-> 0]

NoTx == [st |-> "idle", req |-> NoRequest, next |-> 0, lines |-> [l \in Line |-> Zero]]

Init ==
    /\ posted = [l \in Line |-> Zero]
    /\ orders = <<>>
    /\ locker = [r \in Resource |-> Nobody]
    /\ tx = [c \in Clerk |-> NoTx]
    /\ sent = 0
    /\ credits = [d \in ClientId |-> 0]

Order == DOMAIN orders
Kind(c) == tx[c].req.kind
WantOf(c) == tx[c].req.wants[tx[c].next]
UsedBy(d) == {i \in Order : d # NoId /\ orders[i].client = d}
-----------------------------------------------------------------------------
\* The transaction ends, with an answer: its locks are released.
\* mutant: a refused request leaves its transaction open.
FreeKept(c) ==
    IF tx[c].st = "ending"
    THEN [r \in Resource |-> IF locker[r] = c THEN Nobody ELSE locker[r]]
    ELSE locker
Free(c) == [r \in Resource |-> IF locker[r] = c THEN Nobody ELSE locker[r]]
End(c) == tx' = [tx EXCEPT ![c] = NoTx] /\ locker' = Free(c)

Refuse(c) == End(c) /\ UNCHANGED <<posted, orders, credits>>

Send(c, r) ==
    /\ tx[c].st = "idle" /\ sent < MaxRequests
    /\ tx' = [tx EXCEPT ![c] = [NoTx EXCEPT !.st = "begun", !.req = r, !.next = 1]]
    /\ sent' = sent + 1
    /\ UNCHANGED <<posted, orders, locker, credits>>

\* A POS return takes its number, and with it the series, before all else.
\* mutant: the number is read without UPDLOCK.
TakeNumberUnlocked(c) ==
    /\ tx[c].st = "begun" /\ Kind(c) = "pos"
    /\ tx' = [tx EXCEPT ![c].st = "lines"]
    /\ UNCHANGED <<posted, orders, locker, sent, credits>>
TakeNumber(c) ==
    /\ tx[c].st = "begun" /\ Kind(c) = "pos" /\ locker["RETURN"] = Nobody
    /\ locker' = [locker EXCEPT !["RETURN"] = c]
    /\ tx' = [tx EXCEPT ![c].st = "lines"]
    /\ UNCHANGED <<posted, orders, sent, credits>>

\* A post whose client id is known is answered with the order that has it,
\* posted or not.
LookUp(c) ==
    /\ tx[c].st = "begun" /\ Kind(c) # "pos"
    /\ IF Kind(c) = "post" /\ UsedBy(tx[c].req.client) # {}
       THEN Refuse(c)
       ELSE /\ tx' = [tx EXCEPT ![c].st = "lines"]
            /\ UNCHANGED <<posted, orders, locker, credits>>
    /\ UNCHANGED sent

\* A nearest whole number of cents to n / d.  The code rounds halves to even,
\* after divisions whose last digit is lost: a half may go either way.
Nearest(n, d) == {x \in 0 .. n : 2 * (x * d - n) \in -d .. d}

\* mutant: the price of a piece is rounded before it is multiplied.
RefundByPiece(l, qty) == {qty * x : x \in Nearest(LineTotal[l], Sold[l])}
Refund(l, qty) == Nearest(LineTotal[l] * qty, Sold[l])

CanTake(c) ==
    /\ tx[c].st = "lines"
    /\ Kind(c) # "pos" => locker[WantOf(c).line] \in {Nobody, c}

\* What is left of a line: others' posted returns, and the rows this
\* transaction inserted for it before.
Left(c, l) == Sold[l] - posted[l].qty - tx[c].lines[l].qty

\* Lock the line if it is an invoice's, check the quantity, work out the money.
TakeLine(c) ==
    /\ CanTake(c)
    /\ LET l == WantOf(c).line  q == WantOf(c).qty IN
       IF q > Left(c, l)
       THEN Refuse(c)
       ELSE /\ \E money \in Refund(l, q) :
                  tx' = [tx EXCEPT ![c].lines[l] = [qty |-> @.qty + q,
                                                    refund |-> @.refund + money,
                                                    rows |-> @.rows + 1],
                                   ![c].next = @ + 1,
                                   ![c].st = IF tx[c].next = Len(tx[c].req.wants)
                                             THEN "ending" ELSE "lines"]
            /\ locker' = IF Kind(c) = "pos" THEN locker ELSE [locker EXCEPT ![l] = c]
            /\ UNCHANGED <<posted, orders, credits>>
    /\ UNCHANGED sent

\* The rows of the transaction become everybody's.
Posted(c) ==
    posted' = [l \in Line |-> [qty |-> posted[l].qty + tx[c].lines[l].qty,
                               refund |-> posted[l].refund + tx[c].lines[l].refund,
                               rows |-> posted[l].rows + tx[c].lines[l].rows]]

FinishPos(c) ==
    /\ tx[c].st = "ending" /\ Kind(c) = "pos"
    /\ IF \A l \in Line : tx[c].lines[l].refund = 0
       THEN Refuse(c)
       ELSE Posted(c) /\ End(c) /\ UNCHANGED <<orders, credits>>
    /\ UNCHANGED sent

\* mutant: an order is found by its id whatever its status.
MaySaveAnyStatus(c) ==
    IF tx[c].req.order > 0 THEN tx[c].req.order \in Order
    ELSE UsedBy(tx[c].req.client) = {}

\* mutant: nothing keeps two orders from having one client id.
MaySaveTwice(c) ==
    tx[c].req.order > 0 => /\ tx[c].req.order \in Order
                           /\ orders[tx[c].req.order].status = "Open"

\* An order that exists must be open; a new one must not repeat a client id:
\* the unique index of the table.
MaySave(c) ==
    IF tx[c].req.order > 0
    THEN tx[c].req.order \in Order /\ orders[tx[c].req.order].status = "Open"
    ELSE UsedBy(tx[c].req.client) = {}

\* The header as the UPDATE leaves it; the client id stays that of the INSERT.
Status(c) == IF Kind(c) = "post" THEN "Posted" ELSE "Open"
Saved(c) ==
    orders' = IF tx[c].req.order > 0
              THEN [orders EXCEPT ![tx[c].req.order].status = Status(c),
                                  ![tx[c].req.order].lines = tx[c].lines]
              ELSE Append(orders, [status |-> Status(c), lines |-> tx[c].lines,
                                   client |-> tx[c].req.client])

FinishOrder(c) ==
    /\ tx[c].st = "ending" /\ Kind(c) # "pos"
    /\ IF MaySave(c)
       THEN /\ Saved(c) /\ End(c)
            /\ IF Kind(c) = "post"
               THEN /\ Posted(c)
                    /\ credits' = [d \in ClientId |->
                                     IF d = tx[c].req.client THEN credits[d] + 1 ELSE credits[d]]
               ELSE UNCHANGED <<posted, credits>>
       ELSE Refuse(c)
    /\ UNCHANGED sent

\* A statement fails, or the posting setup or a G/L account is missing:
\* rolled back.
Fail(c) == tx[c].st \in {"lines", "ending"} /\ Refuse(c) /\ UNCHANGED sent

\* Transactions that wait for each other's lines: SQL Server ends one of them.
Awaited(c) == locker[WantOf(c).line]
Waits(c) == tx[c].st = "lines" /\ Kind(c) # "pos" /\ Awaited(c) \notin {Nobody, c}
Deadlocked(c) ==
    \E S \in SUBSET Clerk :
        c \in S /\ (\A d \in S : Waits(d)) /\ {Awaited(d) : d \in S} = S
Victim(c) == Deadlocked(c) /\ Refuse(c) /\ UNCHANGED sent

Serve(c) == LookUp(c) \/ FinishPos(c) \/ FinishOrder(c)

Next ==
    \E c \in Clerk :
        \/ \E r \in Requests[c] : Send(c, r)
        \/ Serve(c) \/ TakeNumber(c) \/ TakeLine(c)
        \/ Fail(c) \/ Victim(c)

Spec == Init /\ [][Next]_vars

\* A handler goes on when it can, SQL Server grants a lock to those that wait
\* for it in turn and ends deadlocks.
FairSpec ==
    /\ Spec
    /\ \A c \in Clerk : /\ WF_vars(Serve(c)) /\ WF_vars(\E d \in Clerk : Victim(d))
                        /\ SF_vars(TakeNumber(c)) /\ SF_vars(TakeLine(c))
-----------------------------------------------------------------------------
Transaction == [st : {"idle", "begun", "lines", "ending"}, req : Request \cup {NoRequest},
                next : Nat, lines : [Line -> Sum]]

\* The variables have their types; a transaction that has read lines holds what
\* it reads under: the series, or every invoice line it counts.
TypeOK ==
    /\ posted \in [Line -> Sum]
    /\ orders \in Seq([status : {"Open", "Posted"}, lines : [Line -> Sum],
                       client : ClientId \cup {NoId}])
    /\ locker \in [Resource -> Clerk \cup {Nobody}]
    /\ tx \in [Clerk -> Transaction]
    /\ sent \in 0 .. MaxRequests
    /\ credits \in [ClientId -> Nat]
    /\ \A c \in Clerk : tx[c].st \in {"lines", "ending"} =>
          /\ Kind(c) = "pos" => locker["RETURN"] = c
          /\ Kind(c) # "pos" => \A l \in InvoiceLine :
                tx[c].lines[l].qty > 0 => locker[l] = c

\* No more of a line is ever returned than it sold, however many clerks
\* return goods of one sale or invoice at a time, and however often a request
\* names the line.
NeverOverReturned == \A l \in Line : posted[l].qty <= Sold[l]

\* The money given back for a line is its share of the price, give or take
\* half a cent for every row: rounding does not add up to more.
RefundsAddUp ==
    \A l \in Line :
        2 * (posted[l].refund * Sold[l] - LineTotal[l] * posted[l].qty)
            \in -(posted[l].rows * Sold[l]) .. (posted[l].rows * Sold[l])

\* A return order that was posted is never saved, posted or changed again,
\* whatever the clerk who still has it open does.
PostedStays ==
    [][\A i \in Order : orders[i].status = "Posted" => orders'[i] = orders[i]]_vars

\* An application that sends a return order again, because the answer did not
\* come, has the customer credited once.
CreditedOnce == \A d \in ClientId : credits[d] <= 1

\* What CreditedOnce takes: a client id is always sent with the same order id, as
\* an application does that sends its request again.
OneOrderPerId ==
    \A c, d \in Clerk : \A r \in Requests[c], q \in Requests[d] :
        r.client # NoId /\ r.client = q.client => r.order = q.order

\* Every request is answered: the locks on lines, taken in the order of the
\* request, do not keep two return orders waiting for ever.
RequestsEnd == \A c \in Clerk : tx[c].st # "idle" ~> tx[c].st = "idle"
=============================================================================
