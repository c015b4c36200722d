---------------------------- MODULE StockPosting ----------------------------
(***************************************************************************)
(* Stock under concurrent postings: POS sales, sales invoices posted       *)
(* without a draft, purchases, store transfers and stock adjustments.      *)
(*                                                                         *)
(* Stock is kept three times: Products.StockOnHand for the company,        *)
(* StockByStore for the stores that have a row, and the movements in       *)
(* InventoryLedger (or StockTransferLines, for transfers).  Each handler   *)
(* is a script of SQL statements run in one READ COMMITTED transaction.    *)
(* Rows that are read WITH(UPDLOCK) or written stay locked to the end of   *)
(* the transaction; the stock check of a sale takes no lock that outlives  *)
(* the statement.  What a transaction writes is pending until it commits.  *)
(*                                                                         *)
(* Only the statements that lock or move stock are in the scripts: headers,*)
(* lines, payments and G/L rows are inserts nobody else waits for.         *)
(***************************************************************************)
EXTENDS Integers, Sequences, FiniteSets, Functions

CONSTANTS
    Worker,        \* concurrent requests
    Nobody,        \* the owner of an unlocked row
    Store, Product,
    Request,       \* requests the terminals may send: [kind, store, to, lines]
    NoRequest,     \* what an idle worker is executing
    OpeningStock,  \* Products.StockOnHand at the start
    OpeningRows,   \* the <<store, product>> pairs with a StockByStore row
    OpeningQty,    \* their Quantity (0 where there is no row)
    MaxRequests    \* bound: requests begun in a behaviour

Place == Store \X Product
Kind == {"pos", "invoice", "purchase", "transfer", "adjust"}
Line == [p : Product, q : Nat]

ASSUME StockPostingAssumption ==
    /\ Nobody \notin Worker
    /\ NoRequest \notin Request
    /\ IsFiniteSet(Store)
    /\ Request \subseteq [kind : Kind, store : Store, to : Store, lines : Seq(Line)]
    /\ \A r \in Request : r.lines # <<>> /\ (r.kind = "transfer" => r.to # r.store)
    /\ OpeningStock \in [Product -> Int]
    /\ OpeningRows \subseteq Place
    /\ OpeningQty \in [Place -> Int]
    /\ MaxRequests \in Nat

VARIABLES
    stock,    \* Products.StockOnHand, committed
    rowed,    \* places that have a StockByStore row, committed
    qty,      \* StockByStore.Quantity, committed
    ledger,   \* InventoryLedger: QuantityIn - QuantityOut by place, committed
    moved,    \* StockTransferLines: received - sent by place, committed
    owner,    \* row -> the request that holds it to the end of its transaction
    tx,       \* tx[w]: the request, the statements done, the pending writes
    begun     \* requests begun so far

vars == <<stock, rowed, qty, ledger, moved, owner, tx, begun>>
books == <<stock, rowed, qty, ledger, moved>>
-----------------------------------------------------------------------------
(* Rows and statements.                                                    *)

SeriesRow(kind) == <<"NumberSeries", kind>>
ProductRow(p) == <<"Products", p>>
StoreRow(s, p) == <<"StockByStore", s, p>>

Row == {SeriesRow(kind) : kind \in Kind}
       \cup {ProductRow(p) : p \in Product}
       \cup {StoreRow(s, p) : s \in Store, p \in Product}

\* A statement on the row of product p, or of p in store s, by quantity q.
Stmt(op, s, p, q) == [op |-> op, s |-> s, p |-> p, q |-> q]

Number(r) == <<Stmt("number", r.store, r.lines[1].p, 0)>>

\* GetProductForSaleAsync and the test on its result, once per line.
Checks(r) ==
    [i \in DOMAIN r.lines |-> Stmt("check", r.store, r.lines[i].p, r.lines[i].q)]

\* Per line: UPDATE Products, then op on StockByStore with its ledger row.
Movements(r, op, sign) ==
    [i \in 1 .. 2 * Len(r.lines) |->
        LET l == r.lines[(i + 1) \div 2]
        IN  Stmt(IF i % 2 = 1 THEN "product" ELSE op, r.store, l.p, sign * l.q)]

PosSaleUnnumbered(r) ==      \* mutant: the number is drawn after the checks
    Checks(r) \o Number(r) \o Movements(r, "update", -1)

PosSale(r) == Number(r) \o Checks(r) \o Movements(r, "update", -1)

\* The invoice endpoint checks the stock before it draws a number.
SalesInvoice(r) == Checks(r) \o Number(r) \o Movements(r, "update", -1)

Purchase(r) == Number(r) \o Movements(r, "merge", 1)

TransferOneSided(r) ==       \* mutant: nothing arrives at the destination
    LET l == r.lines[1]
    IN  Number(r) \o <<Stmt("reserve", r.store, l.p, l.q),
                       Stmt("move", r.store, l.p, -l.q)>>

Transfer(r) ==
    LET l == r.lines[1]
    IN  Number(r) \o <<Stmt("reserve", r.store, l.p, l.q),
                       Stmt("move", r.store, l.p, -l.q),
                       Stmt("move", r.to, l.p, l.q)>>

\* The quantity of an adjustment line is the counted quantity.
Adjust(r) ==
    LET l == r.lines[1]
    IN  Number(r) \o <<Stmt("count", r.store, l.p, l.q),
                       Stmt("set", r.store, l.p, l.q),
                       Stmt("correct", r.store, l.p, l.q)>>

Script(r) == CASE r.kind = "pos"      -> PosSale(r)
               [] r.kind = "invoice"  -> SalesInvoice(r)
               [] r.kind = "purchase" -> Purchase(r)
               [] r.kind = "transfer" -> Transfer(r)
               [] r.kind = "adjust"   -> Adjust(r)

InTx(w) == tx[w].req # NoRequest
\* The statement the request is about to run.
Current(w) == Script(tx[w].req)[tx[w].done + 1]
Runs(w, ops) ==
    /\ InTx(w)
    /\ tx[w].done < Len(Script(tx[w].req))
    /\ Current(w).op \in ops

RowOf(w) ==
    LET c == Current(w)
    IN  CASE c.op = "number" -> SeriesRow(tx[w].req.kind)
          [] c.op \in {"product", "correct"} -> ProductRow(c.p)
          [] OTHER -> StoreRow(c.s, c.p)

Spot(w) == <<Current(w).s, Current(w).p>>
-----------------------------------------------------------------------------
(* Locks.                                                                  *)

Free(w, row) == owner[row] \in {Nobody, w}

\* An update lock that has not been written under yet lets readers through.
OnlyReserved(v) ==
    /\ tx[v].done > 0
    /\ Script(tx[v].req)[tx[v].done].op \in {"reserve", "count"}

Readable(w, row) == Free(w, row) \/ OnlyReserved(owner[row])

\* The rows the current statement has to wait for.
Needs(w) ==
    LET c == Current(w)
    IN  IF c.op = "check" THEN {ProductRow(c.p), StoreRow(c.s, c.p)} ELSE {RowOf(w)}

Blocked(w) ==
    /\ InTx(w)
    /\ tx[w].done < Len(Script(tx[w].req))
    /\ \E row \in Needs(w) :
          IF Current(w).op = "check" THEN ~Readable(w, row) ELSE ~Free(w, row)

\* w waits for a row that v holds.
WaitsFor(w, v) == Blocked(w) /\ \E row \in Needs(w) : owner[row] = v /\ v # w

\* Requests that wait for each other in a circle.
Deadlocked(w) ==
    \E D \in SUBSET Worker :
        /\ w \in D
        /\ \A x \in D : (\E y \in D : WaitsFor(x, y)) /\ (\E y \in D : WaitsFor(y, x))
-----------------------------------------------------------------------------
Zero == [sp \in Place |-> 0]
Writes == [stock : [Product -> Int], rowed : SUBSET Place, qty : [Place -> Int],
           ledger : [Place -> Int], moved : [Place -> Int]]
NoWrites == [stock |-> [p \in Product |-> 0], rowed |-> {}, qty |-> Zero,
             ledger |-> Zero, moved |-> Zero]
Idle == [req |-> NoRequest, done |-> 0, seen |-> 0, pend |-> NoWrites]

Init ==
    /\ stock = OpeningStock
    /\ rowed = OpeningRows
    /\ qty = OpeningQty
    /\ ledger = Zero
    /\ moved = Zero
    /\ owner = [row \in Row |-> Nobody]
    /\ tx = [w \in Worker |-> Idle]
    /\ begun = 0

\* A request passes its permission and form checks and opens a transaction.
Begin(w, r) ==
    /\ ~InTx(w)
    /\ begun < MaxRequests
    /\ begun' = begun + 1
    /\ tx' = [tx EXCEPT ![w] = [Idle EXCEPT !.req = r]]
    /\ UNCHANGED <<books, owner>>

\* The request runs its current statement, takes the row and goes on.
Advance(w, pend) ==
    /\ Free(w, RowOf(w))
    /\ owner' = [owner EXCEPT ![RowOf(w)] = w]
    /\ tx' = [tx EXCEPT ![w].done = @ + 1, ![w].pend = pend]
    /\ UNCHANGED <<books, begun>>

\* NextNumberAsync takes the row of the document's series.
DrawNumber(w) ==
    /\ Runs(w, {"number"})
    /\ Advance(w, tx[w].pend)

\* What a store may sell: its own row or, without one, the company's stock.
Available(s, p) == IF <<s, p>> \in rowed THEN qty[<<s, p>>] ELSE stock[p]

CheckStock(w) ==
    /\ Runs(w, {"check"})
    /\ ~Blocked(w)
    /\ Available(Current(w).s, Current(w).p) >= Current(w).q
    /\ tx' = [tx EXCEPT ![w].done = @ + 1]
    /\ UNCHANGED <<books, owner, begun>>

ReserveUnlocked(w) ==        \* mutant: SELECT without UPDLOCK
    /\ Runs(w, {"reserve"})
    /\ ~Blocked(w)
    /\ Spot(w) \in rowed
    /\ qty[Spot(w)] >= Current(w).q
    /\ tx' = [tx EXCEPT ![w].done = @ + 1]
    /\ UNCHANGED <<books, owner, begun>>

\* A transfer locks its source row and checks it holds enough.
Reserve(w) ==
    /\ Runs(w, {"reserve"})
    /\ Spot(w) \in rowed
    /\ qty[Spot(w)] >= Current(w).q
    /\ Advance(w, tx[w].pend)

CountUnlocked(w) ==          \* mutant: SELECT without UPDLOCK
    /\ Runs(w, {"count"})
    /\ ~Blocked(w)
    /\ Spot(w) \in rowed
    /\ tx' = [tx EXCEPT ![w].done = @ + 1, ![w].seen = qty[Spot(w)]]
    /\ UNCHANGED <<books, owner, begun>>

\* An adjustment locks the row and remembers the system quantity.
Count(w) ==
    /\ Runs(w, {"count"})
    /\ Spot(w) \in rowed
    /\ Free(w, RowOf(w))
    /\ owner' = [owner EXCEPT ![RowOf(w)] = w]
    /\ tx' = [tx EXCEPT ![w].done = @ + 1, ![w].seen = qty[Spot(w)]]
    /\ UNCHANGED <<books, begun>>

\* The business rule fails: nothing to count or reserve, or too little stock.
Refuses(w) ==
    /\ Runs(w, {"check", "reserve", "count"})
    /\ ~Blocked(w)
    /\ LET c == Current(w)
       IN  \/ c.op = "check" /\ Available(c.s, c.p) < c.q
           \/ c.op # "check" /\ Spot(w) \notin rowed
           \/ c.op = "reserve" /\ qty[Spot(w)] < c.q
-----------------------------------------------------------------------------
\* UPDATE Products SET StockOnHand = StockOnHand + q.
WriteProduct(w) ==
    /\ Runs(w, {"product"})
    /\ Advance(w, [tx[w].pend EXCEPT !.stock[Current(w).p] = @ + Current(w).q])

\* An adjustment corrects the company stock by counted - system quantity.
CorrectProduct(w) ==
    /\ Runs(w, {"correct"})
    /\ Advance(w, [tx[w].pend EXCEPT
                     !.stock[Current(w).p] = @ + (Current(w).q - tx[w].seen)])

\* A sale's UPDATE StockByStore touches, and locks, only a row that exists; its
\* ledger row is inserted either way.
UpdateStore(w) ==
    /\ Runs(w, {"update"})
    /\ IF Spot(w) \in rowed
       THEN Advance(w, [tx[w].pend EXCEPT !.qty[Spot(w)] = @ + Current(w).q,
                                          !.ledger[Spot(w)] = @ + Current(w).q])
       ELSE /\ Free(w, RowOf(w))
            /\ tx' = [tx EXCEPT ![w].done = @ + 1,
                               ![w].pend.ledger[Spot(w)] = @ + Current(w).q]
            /\ UNCHANGED <<books, owner, begun>>

\* A purchase's MERGE inserts the row where there is none.
MergeStore(w) ==
    /\ Runs(w, {"merge"})
    /\ Advance(w, [tx[w].pend EXCEPT !.qty[Spot(w)] = @ + Current(w).q,
                                     !.ledger[Spot(w)] = @ + Current(w).q,
                                     !.rowed = @ \cup {Spot(w)}])

\* An adjustment overwrites the row with the counted quantity and books the
\* difference from what it had read.
SetStore(w) ==
    /\ Runs(w, {"set"})
    /\ Advance(w, [tx[w].pend EXCEPT
                     !.qty[Spot(w)] = Current(w).q - qty[Spot(w)],
                     !.ledger[Spot(w)] = @ + (Current(w).q - tx[w].seen)])

\* A transfer's UPDATE of its source, and MERGE into its destination, row.
MoveStore(w) ==
    /\ Runs(w, {"move"})
    /\ Advance(w, [tx[w].pend EXCEPT !.qty[Spot(w)] = @ + Current(w).q,
                                     !.moved[Spot(w)] = @ + Current(w).q,
                                     !.rowed = @ \cup {Spot(w)}])
-----------------------------------------------------------------------------
Unlocked(w) == [row \in Row |-> IF owner[row] = w THEN Nobody ELSE owner[row]]

Commit(w) ==
    /\ InTx(w)
    /\ tx[w].done = Len(Script(tx[w].req))
    /\ LET pend == tx[w].pend
       IN  /\ stock' = [p \in Product |-> stock[p] + pend.stock[p]]
           /\ rowed' = rowed \cup pend.rowed
           /\ qty' = [sp \in Place |-> qty[sp] + pend.qty[sp]]
           /\ ledger' = [sp \in Place |-> ledger[sp] + pend.ledger[sp]]
           /\ moved' = [sp \in Place |-> moved[sp] + pend.moved[sp]]
    /\ owner' = Unlocked(w)
    /\ tx' = [tx EXCEPT ![w] = Idle]
    /\ UNCHANGED begun

UndoKeepingRows(w) ==        \* mutant: the connection goes back to the pool
    /\ tx' = [tx EXCEPT ![w] = Idle]          \* with its transaction open
    /\ UNCHANGED <<books, owner, begun>>

UndoHalf(w) ==               \* mutant: the Products update was outside
    /\ stock' = [p \in Product |-> stock[p] + tx[w].pend.stock[p]]
    /\ owner' = Unlocked(w)
    /\ tx' = [tx EXCEPT ![w] = Idle]
    /\ UNCHANGED <<rowed, qty, ledger, moved, begun>>

\* The catch block rolls back: nothing pending is kept, every row is released.
Undo(w) ==
    /\ owner' = Unlocked(w)
    /\ tx' = [tx EXCEPT ![w] = Idle]
    /\ UNCHANGED <<books, begun>>

Refuse(w) == Refuses(w) /\ Undo(w)

\* SQL Server breaks a deadlock by rolling one of its requests back.
Victim(w) == Deadlocked(w) /\ Undo(w)

\* A timeout, a constraint, a G/L rule, a lost connection, the process dying.
Rollback(w) == InTx(w) /\ Undo(w)

Run(w) ==
    \/ DrawNumber(w) \/ CheckStock(w) \/ Reserve(w) \/ Count(w)
    \/ WriteProduct(w) \/ CorrectProduct(w) \/ UpdateStore(w) \/ MergeStore(w)
    \/ SetStore(w) \/ MoveStore(w) \/ Commit(w) \/ Refuse(w)

Next ==
    \E w \in Worker :
        \/ \E r \in Request : Begin(w, r)
        \/ Run(w)
        \/ Victim(w)
        \/ Rollback(w)

Spec == Init /\ [][Next]_vars

\* A request runs on unless it waits, and the deadlock monitor runs; requests
\* may also fail, but nothing says they will.
FairSpec ==
    Spec /\ \A w \in Worker : WF_vars(Run(w) \/ Victim(w))
-----------------------------------------------------------------------------
\* The types, and a lock is held by a request that is running.
TypeOK ==
    /\ stock \in [Product -> Int]
    /\ rowed \subseteq Place
    /\ qty \in [Place -> Int]
    /\ ledger \in [Place -> Int]
    /\ moved \in [Place -> Int]
    /\ owner \in [Row -> Worker \cup {Nobody}]
    /\ tx \in [Worker -> [req : Request \cup {NoRequest}, done : Nat, seen : Int,
                          pend : Writes]]
    /\ \A row \in Row : owner[row] # Nobody => InTx(owner[row])
    /\ begun \in Nat

\* The stock of a store that had a row from the start is what its inventory
\* ledger and its transfers say, whatever ran at the same time or rolled back.
StoreLedger ==
    \A sp \in OpeningRows : qty[sp] = OpeningQty[sp] + ledger[sp] + moved[sp]

\* The company's stock of a product is what the inventory ledgers of all its
\* stores say, also for stores that sell without a row of their own.
CompanyLedger ==
    \A p \in Product :
        stock[p] = OpeningStock[p]
                   + SumFunctionOnSet(ledger, {sp \in Place : sp[2] = p})

\* Transfers move stock between stores: what one sent another received.
TransfersBalance ==
    \A p \in Product : SumFunctionOnSet(moved, {sp \in Place : sp[2] = p}) = 0

\* What a transfer or an adjustment read under its update lock is still true at
\* its commit: a transfer never takes more than is there, an adjustment leaves
\* exactly the counted quantity and books the difference it made.
LockedReadHolds ==
    [][\A w \in Worker : Commit(w) =>
         LET r == tx[w].req
             sp == <<r.store, r.lines[1].p>>
         IN  /\ r.kind = "transfer" => qty'[sp] >= 0
             /\ r.kind = "adjust" => /\ qty'[sp] = r.lines[1].q
                                     /\ ledger'[sp] - ledger[sp] = qty'[sp] - qty[sp]
      ]_vars

\* Every request is answered: waiting ends, and a deadlock is broken.
EveryRequestEnds == \A w \in Worker : InTx(w) ~> ~InTx(w)

\* A store's stock never goes below zero.
NoNegativeStock == \A sp \in rowed : qty[sp] >= 0

\* What NoNegativeStock takes: nobody but tills and the purchase desk moves stock,
\* a sale names a product once and only products its store has a row for, and no
\* store opens with less than nothing.
TillsOnly ==
    /\ \A r \in Request : r.kind \in {"pos", "purchase"}
    /\ \A r \in Request : r.kind = "pos" =>
          \A i \in DOMAIN r.lines :
             /\ <<r.store, r.lines[i].p>> \in OpeningRows
             /\ \A j \in DOMAIN r.lines : r.lines[i].p = r.lines[j].p => i = j
    /\ \A sp \in Place : OpeningQty[sp] >= 0
=============================================================================
