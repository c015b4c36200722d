------------------------- MODULE StockPosting_proofs -------------------------
(***************************************************************************)
(* Proofs about StockPosting, for any stores, products, requests and       *)
(* numbers of them: the types, that the stock of a store and of the        *)
(* company is what the ledgers say, that transfers add up, that what a     *)
(* transfer or an adjustment read under its update lock holds to its       *)
(* commit, and when a store's stock cannot go below zero.                  *)
(*                                                                         *)
(* The argument is about what a running request has pending: it moves      *)
(* store stock only where it holds the row, what it moves is in a ledger   *)
(* too, and an adjustment's difference is the one from the quantity that   *)
(* is still there.  Of a product, what is pending for all stores together  *)
(* is what the script has yet to put on the product (Due), and what has    *)
(* left a store and not reached another is on its way (OnItsWay).          *)
(***************************************************************************)
EXTENDS StockPosting, SumTheorems, SequenceTheorems, TLAPS

First(r) == r.lines[1]
Source(r) == <<r.store, First(r).p>>

\* The kinds of statement of sales and purchases.
PlainOp == {"number", "check", "product", "update", "merge"}
PlainStmt == [op : PlainOp, s : Store, p : Product, q : Int]
AnyStmt == [op : PlainOp \cup {"reserve", "move", "count", "set", "correct"},
            s : Store, p : Product, q : Int]

\* The lines of a request are lines.
LEMMA LinesTyped ==
    ASSUME NEW r \in Request
    PROVE  /\ r.kind \in Kind /\ r.store \in Store /\ r.to \in Store
           /\ r.lines \in Seq(Line) /\ Len(r.lines) \in Nat \ {0}
           /\ \A i \in 1 .. Len(r.lines) : r.lines[i].p \in Product /\ r.lines[i].q \in Nat
           /\ First(r).p \in Product /\ First(r).q \in Nat
           /\ r.kind = "transfer" => r.to # r.store
<1>1. /\ r \in [kind : Kind, store : Store, to : Store, lines : Seq(Line)]
      /\ r.lines # <<>> /\ (r.kind = "transfer" => r.to # r.store)
  BY StockPostingAssumption
<1>2. r.lines \in Seq(Line) /\ Len(r.lines) \in Nat \ {0}
  BY <1>1, EmptySeq
<1>3. \A i \in 1 .. Len(r.lines) : r.lines[i] \in Line
  BY <1>2, ElementOfSeq
<1>4. 1 \in 1 .. Len(r.lines)
  BY <1>2
<1> QED
  BY <1>1, <1>2, <1>3, <1>4 DEF Line, First

\* The parts that the scripts of sales and purchases are put together from.
LEMMA NumberTyped ==
    ASSUME NEW r \in Request
    PROVE  Number(r) \in Seq(PlainStmt)
<1>1. Stmt("number", r.store, r.lines[1].p, 0) \in PlainStmt
  BY LinesTyped DEF First, Stmt, PlainStmt, PlainOp
<1> QED
  BY <1>1 DEF Number

\* Checks are plain statements.
LEMMA ChecksTyped ==
    ASSUME NEW r \in Request
    PROVE  Checks(r) \in Seq(PlainStmt)
<1>1. DOMAIN r.lines = 1 .. Len(r.lines) /\ Len(r.lines) \in Nat
  BY LinesTyped
<1>2. \A i \in 1 .. Len(r.lines) :
        Stmt("check", r.store, r.lines[i].p, r.lines[i].q) \in PlainStmt
  BY LinesTyped DEF Stmt, PlainStmt, PlainOp
<1> DEFINE e(i) == Stmt("check", r.store, r.lines[i].p, r.lines[i].q)
<1>3. \A i \in 1 .. Len(r.lines) : e(i) \in PlainStmt
  BY <1>2
<1> HIDE DEF e
<1>4. [i \in 1 .. Len(r.lines) |-> e(i)] \in Seq(PlainStmt)
  BY <1>1, <1>3, IsASeq
<1> QED
  BY <1>1, <1>4 DEF Checks, e

\* So are the movements of stock.
LEMMA MovementsTyped ==
    ASSUME NEW r \in Request, NEW op \in {"update", "merge"}, NEW sign \in {1, -1}
    PROVE  Movements(r, op, sign) \in Seq(PlainStmt)
<1>1. Len(r.lines) \in Nat /\ 2 * Len(r.lines) \in Nat
  BY LinesTyped
<1> DEFINE e(i) == LET l == r.lines[(i + 1) \div 2]
                   IN  Stmt(IF i % 2 = 1 THEN "product" ELSE op, r.store, l.p, sign * l.q)
<1>2. ASSUME NEW i \in 1 .. 2 * Len(r.lines) PROVE e(i) \in PlainStmt
  <2> DEFINE n == (i + 1) \div 2  o == IF i % 2 = 1 THEN "product" ELSE op
  <2>1. n \in 1 .. Len(r.lines)
    BY <1>1
  <2>2. r.lines[n].p \in Product /\ r.lines[n].q \in Nat /\ r.store \in Store
    BY <2>1, LinesTyped
  <2>3. sign * r.lines[n].q \in Int /\ o \in PlainOp
    BY <2>2 DEF PlainOp
  <2>4. e(i) = Stmt(o, r.store, r.lines[n].p, sign * r.lines[n].q)
    OBVIOUS
  <2> HIDE DEF n, o, e
  <2> QED
    BY <2>2, <2>3, <2>4 DEF Stmt, PlainStmt
<1> HIDE DEF e
<1>3. [i \in 1 .. 2 * Len(r.lines) |-> e(i)] \in Seq(PlainStmt)
  BY <1>1, <1>2, IsASeq
<1> QED
  BY <1>3 DEF Movements, e

\* Sales and purchases consist of plain statements.
LEMMA PlainScript ==
    ASSUME NEW r \in Request, r.kind \notin {"transfer", "adjust"}
    PROVE  Script(r) \in Seq(PlainStmt)
<1>1. /\ Number(r) \in Seq(PlainStmt) /\ Checks(r) \in Seq(PlainStmt)
      /\ Movements(r, "update", -1) \in Seq(PlainStmt)
      /\ Movements(r, "merge", 1) \in Seq(PlainStmt)
  BY NumberTyped, ChecksTyped, MovementsTyped
<1>2. /\ PosSale(r) \in Seq(PlainStmt) /\ SalesInvoice(r) \in Seq(PlainStmt)
      /\ Purchase(r) \in Seq(PlainStmt)
  BY <1>1, ConcatProperties DEF PosSale, SalesInvoice, Purchase
<1>3. r.kind \in {"pos", "invoice", "purchase"}
  BY LinesTyped DEF Kind
<1> QED
  BY <1>2, <1>3 DEF Script

\* What a transfer runs.
LEMMA TransferScript ==
    ASSUME NEW r \in Request, r.kind = "transfer"
    PROVE  /\ Len(Script(r)) = 4
           /\ Script(r)[1] = Stmt("number", r.store, First(r).p, 0)
           /\ Script(r)[2] = Stmt("reserve", r.store, First(r).p, First(r).q)
           /\ Script(r)[3] = Stmt("move", r.store, First(r).p, -First(r).q)
           /\ Script(r)[4] = Stmt("move", r.to, First(r).p, First(r).q)
<1>1. Script(r) = <<Stmt("number", r.store, First(r).p, 0)>>
                  \o <<Stmt("reserve", r.store, First(r).p, First(r).q),
                       Stmt("move", r.store, First(r).p, -First(r).q),
                       Stmt("move", r.to, First(r).p, First(r).q)>>
  BY DEF Script, Transfer, Number, First
<1> QED
  BY <1>1

\* What an adjustment runs.
LEMMA AdjustScript ==
    ASSUME NEW r \in Request, r.kind = "adjust"
    PROVE  /\ Len(Script(r)) = 4
           /\ Script(r)[1] = Stmt("number", r.store, First(r).p, 0)
           /\ Script(r)[2] = Stmt("count", r.store, First(r).p, First(r).q)
           /\ Script(r)[3] = Stmt("set", r.store, First(r).p, First(r).q)
           /\ Script(r)[4] = Stmt("correct", r.store, First(r).p, First(r).q)
<1>1. Script(r) = <<Stmt("number", r.store, First(r).p, 0)>>
                  \o <<Stmt("count", r.store, First(r).p, First(r).q),
                       Stmt("set", r.store, First(r).p, First(r).q),
                       Stmt("correct", r.store, First(r).p, First(r).q)>>
  BY DEF Script, Adjust, Number, First
<1> QED
  BY <1>1

-----------------------------------------------------------------------------
(* The statement a request is about to run.                                *)

Of(c) == <<c.s, c.p>>

\* A statement of a transfer, by how many went before it.
LEMMA TransferStmt ==
    ASSUME NEW r \in Request, r.kind = "transfer", NEW n \in Nat, n < Len(Script(r)),
           NEW c, c = Script(r)[n + 1]
    PROVE  /\ c \in AnyStmt
           /\ \/ n = 0 /\ c.op = "number"
              \/ n = 1 /\ c.op = "reserve" /\ Of(c) = Source(r) /\ c.q = First(r).q
              \/ n = 2 /\ c.op = "move" /\ Of(c) = Source(r) /\ c.q = -First(r).q
              \/ n = 3 /\ c.op = "move" /\ Of(c) # Source(r)
<1> DEFINE p == First(r).p  q == First(r).q
<1>1. /\ r.store \in Store /\ r.to \in Store /\ p \in Product /\ q \in Nat
      /\ r.to # r.store
  BY LinesTyped
<1>2. n = 0 \/ n = 1 \/ n = 2 \/ n = 3
  BY TransferScript
<1>3. /\ n = 0 => c = Stmt("number", r.store, p, 0)
      /\ n = 1 => c = Stmt("reserve", r.store, p, q)
      /\ n = 2 => c = Stmt("move", r.store, p, -q)
      /\ n = 3 => c = Stmt("move", r.to, p, q)
  BY TransferScript
<1>4. Source(r) = <<r.store, p>>
  BY DEF Source
<1>5. 0 \in Int /\ q \in Int /\ -q \in Int
  BY <1>1
<1> HIDE DEF p, q
<1>6. CASE n = 0
  BY <1>1, <1>3, <1>5, <1>6 DEF Stmt, AnyStmt, PlainOp
<1>7. CASE n = 1
  BY <1>1, <1>3, <1>4, <1>5, <1>7 DEF Stmt, AnyStmt, Of, q
<1>8. CASE n = 2
  BY <1>1, <1>3, <1>4, <1>5, <1>8 DEF Stmt, AnyStmt, Of, q
<1>9. CASE n = 3
  BY <1>1, <1>3, <1>4, <1>5, <1>9 DEF Stmt, AnyStmt, Of, q
<1> QED
  BY <1>2, <1>6, <1>7, <1>8, <1>9

\* A statement of an adjustment.
LEMMA AdjustStmt ==
    ASSUME NEW r \in Request, r.kind = "adjust", NEW n \in Nat, n < Len(Script(r)),
           NEW c, c = Script(r)[n + 1]
    PROVE  /\ c \in AnyStmt
           /\ \/ n = 0 /\ c.op = "number"
              \/ n = 1 /\ c.op = "count" /\ Of(c) = Source(r) /\ c.q = First(r).q
              \/ n = 2 /\ c.op = "set" /\ Of(c) = Source(r) /\ c.q = First(r).q
              \/ n = 3 /\ c.op = "correct"
<1> DEFINE p == First(r).p  q == First(r).q
<1>1. r.store \in Store /\ p \in Product /\ q \in Nat
  BY LinesTyped
<1>2. n = 0 \/ n = 1 \/ n = 2 \/ n = 3
  BY AdjustScript
<1>3. /\ n = 0 => c = Stmt("number", r.store, p, 0)
      /\ n = 1 => c = Stmt("count", r.store, p, q)
      /\ n = 2 => c = Stmt("set", r.store, p, q)
      /\ n = 3 => c = Stmt("correct", r.store, p, q)
  BY AdjustScript
<1>4. Source(r) = <<r.store, p>>
  BY DEF Source
<1>5. 0 \in Int /\ q \in Int
  BY <1>1
<1> HIDE DEF p, q
<1>6. CASE n = 0
  BY <1>1, <1>3, <1>5, <1>6 DEF Stmt, AnyStmt, PlainOp
<1>7. CASE n = 1
  BY <1>1, <1>3, <1>4, <1>5, <1>7 DEF Stmt, AnyStmt, Of, q
<1>8. CASE n = 2
  BY <1>1, <1>3, <1>4, <1>5, <1>8 DEF Stmt, AnyStmt, Of, q
<1>9. CASE n = 3
  BY <1>1, <1>3, <1>4, <1>5, <1>9 DEF Stmt, AnyStmt, Of, q
<1> QED
  BY <1>2, <1>6, <1>7, <1>8, <1>9

\* A statement of a sale or a purchase.
LEMMA PlainStatement ==
    ASSUME NEW r \in Request, r.kind \notin {"transfer", "adjust"},
           NEW n \in Nat, n < Len(Script(r)), NEW c, c = Script(r)[n + 1]
    PROVE  c \in AnyStmt /\ c.op \in PlainOp
<1>1. Script(r) \in Seq(PlainStmt)
  BY PlainScript
<1>2. n + 1 \in 1 .. Len(Script(r))
  BY <1>1
<1>3. c \in PlainStmt
  BY <1>1, <1>2, ElementOfSeq
<1> QED
  BY <1>3 DEF PlainStmt, AnyStmt

\* The request w has statements to run.
HasNext(w) ==
    tx[w].req \in Request /\ tx[w].done \in Nat /\ tx[w].done < Len(Script(tx[w].req))

\* The current statement is typed, and those of transfers and adjustments stand
\* where their scripts have them.
LEMMA CurrentTyped ==
    ASSUME NEW w \in Worker, HasNext(w)
    PROVE  /\ Current(w) \in AnyStmt /\ Spot(w) \in Place
           /\ tx[w].req.kind = "transfer" =>
                \/ tx[w].done = 0 /\ Current(w).op = "number"
                \/ /\ tx[w].done = 1 /\ Current(w).op = "reserve"
                   /\ Spot(w) = Source(tx[w].req) /\ Current(w).q = First(tx[w].req).q
                \/ /\ tx[w].done = 2 /\ Current(w).op = "move"
                   /\ Spot(w) = Source(tx[w].req) /\ Current(w).q = -First(tx[w].req).q
                \/ /\ tx[w].done = 3 /\ Current(w).op = "move"
                   /\ Spot(w) # Source(tx[w].req)
           /\ tx[w].req.kind = "adjust" =>
                \/ tx[w].done = 0 /\ Current(w).op = "number"
                \/ /\ tx[w].done = 1 /\ Current(w).op = "count"
                   /\ Spot(w) = Source(tx[w].req) /\ Current(w).q = First(tx[w].req).q
                \/ /\ tx[w].done = 2 /\ Current(w).op = "set"
                   /\ Spot(w) = Source(tx[w].req) /\ Current(w).q = First(tx[w].req).q
                \/ tx[w].done = 3 /\ Current(w).op = "correct"
           /\ tx[w].req.kind \notin {"transfer", "adjust"} => Current(w).op \in PlainOp
<1> DEFINE c == Current(w)  r == tx[w].req  n == tx[w].done
<1>1. r \in Request /\ n \in Nat /\ n < Len(Script(r)) /\ c = Script(r)[n + 1]
  BY DEF HasNext, Current
<1>2. Spot(w) = Of(c)
  BY DEF Spot, Of
<1> HIDE DEF c, r, n
<1>3. c \in AnyStmt
  BY <1>1, TransferStmt, AdjustStmt, PlainStatement
<1>4. Of(c) \in Place
  BY <1>3 DEF AnyStmt, Of, Place
<1>5. r.kind = "transfer" =>
        \/ n = 0 /\ c.op = "number"
        \/ n = 1 /\ c.op = "reserve" /\ Of(c) = Source(r) /\ c.q = First(r).q
        \/ n = 2 /\ c.op = "move" /\ Of(c) = Source(r) /\ c.q = -First(r).q
        \/ n = 3 /\ c.op = "move" /\ Of(c) # Source(r)
  BY <1>1, TransferStmt
<1>6. r.kind = "adjust" =>
        \/ n = 0 /\ c.op = "number"
        \/ n = 1 /\ c.op = "count" /\ Of(c) = Source(r) /\ c.q = First(r).q
        \/ n = 2 /\ c.op = "set" /\ Of(c) = Source(r) /\ c.q = First(r).q
        \/ n = 3 /\ c.op = "correct"
  BY <1>1, AdjustStmt
<1>7. r.kind \notin {"transfer", "adjust"} => c.op \in PlainOp
  BY <1>1, PlainStatement
<1> QED
  BY <1>2, <1>3, <1>4, <1>5, <1>6, <1>7 DEF c, r, n

-----------------------------------------------------------------------------
(* The invariant.                                                          *)

TxType == [req : Request \cup {NoRequest}, done : Nat, seen : Int, pend : Writes]
StoreRowOf(sp) == StoreRow(sp[1], sp[2])

\* A request moves store stock only in rows it holds.
HoldsWrites(w) ==
    \A sp \in Place : tx[w].pend.qty[sp] # 0 => owner[StoreRowOf(sp)] = w

\* What it moves there is in one of the ledgers.
Booked(w) ==
    \A sp \in OpeningRows :
        tx[w].pend.qty[sp] = tx[w].pend.ledger[sp] + tx[w].pend.moved[sp]

\* A transfer that has reserved its source holds enough there.
TransferOK(w) ==
    tx[w].req \in Request /\ tx[w].req.kind = "transfer" =>
        LET sp == Source(tx[w].req)
            q == First(tx[w].req).q
        IN  /\ tx[w].pend.qty[sp] = IF tx[w].done >= 3 THEN -q ELSE 0
            /\ tx[w].done >= 2 => owner[StoreRowOf(sp)] = w /\ qty[sp] >= q

\* An adjustment that has counted its row holds what it has seen.
AdjustOK(w) ==
    tx[w].req \in Request /\ tx[w].req.kind = "adjust" =>
        LET sp == Source(tx[w].req)
            q == First(tx[w].req).q
        IN  /\ tx[w].pend.qty[sp] = IF tx[w].done >= 3 THEN q - tx[w].seen ELSE 0
            /\ tx[w].pend.ledger[sp] = tx[w].pend.qty[sp]
            /\ tx[w].pend.moved[sp] = 0
            /\ tx[w].done >= 2 => owner[StoreRowOf(sp)] = w /\ qty[sp] = tx[w].seen

TxOK(w) == HoldsWrites(w) /\ Booked(w) /\ TransferOK(w) /\ AdjustOK(w)

IInv ==
    /\ TypeOK
    /\ OpeningRows \subseteq rowed
    /\ StoreLedger
    /\ \A w \in Worker : TxOK(w)

\* The rows of places are rows.
LEMMA RowsTyped ==
    /\ \A sp \in Place : StoreRowOf(sp) \in Row
    /\ \A r \in Request : Source(r) \in Place
<1>1. \A sp \in Place : sp[1] \in Store /\ sp[2] \in Product
  BY DEF Place
<1> QED
  BY <1>1, LinesTyped DEF Place, Row, StoreRow, StoreRowOf, Source

\* So is the row the current statement is on.
LEMMA RowTyped ==
    ASSUME NEW w \in Worker, HasNext(w)
    PROVE  RowOf(w) \in Row
<1>1. Current(w) \in AnyStmt /\ tx[w].req.kind \in Kind
  BY CurrentTyped, LinesTyped DEF HasNext
<1>2. Current(w).s \in Store /\ Current(w).p \in Product
  BY <1>1 DEF AnyStmt
<1> QED
  BY <1>1, <1>2 DEF RowOf, Row

\* A request that runs is one.
LEMMA Running ==
    ASSUME IInv, NEW w \in Worker, InTx(w)
    PROVE  tx[w].req \in Request /\ tx[w] \in TxType /\ tx[w].done \in Nat
  BY DEF IInv, TypeOK, InTx, TxType

\* Other requests keep what they hold, and what is there.
LEMMA OthersOK ==
    ASSUME NEW v \in Worker, TxOK(v), tx'[v] = tx[v],
           \A row \in Row : owner[row] = v => owner'[row] = v,
           \A sp \in Place : owner[StoreRowOf(sp)] = v => qty'[sp] = qty[sp]
    PROVE  TxOK(v)'
<1>1. HoldsWrites(v)'
  BY RowsTyped DEF TxOK, HoldsWrites
<1>2. Booked(v)'
  BY DEF TxOK, Booked
<1>3. TransferOK(v)'
  BY RowsTyped DEF TxOK, TransferOK
<1>4. AdjustOK(v)'
  BY RowsTyped DEF TxOK, AdjustOK
<1> QED
  BY <1>1, <1>2, <1>3, <1>4 DEF TxOK

\* A step inside a transaction changes nothing that others see.
LEMMA InsideOK ==
    ASSUME IInv, NEW w \in Worker, NEW t \in TxType, t.req = tx[w].req, InTx(w),
           tx' = [tx EXCEPT ![w] = t], UNCHANGED <<books, begun>>,
           owner' = owner
           \/ \E row \in Row : Free(w, row) /\ owner' = [owner EXCEPT ![row] = w],
           TxOK(w)'
    PROVE  IInv'
<1>1. /\ tx \in [Worker -> TxType] /\ owner \in [Row -> Worker \cup {Nobody}]
      /\ Nobody \notin Worker
      /\ \A row \in Row : owner[row] # Nobody => InTx(owner[row])
  BY StockPostingAssumption DEF IInv, TypeOK, TxType
<1>2. /\ tx' \in [Worker -> TxType] /\ tx'[w] = t
      /\ \A v \in Worker \ {w} : tx'[v] = tx[v]
  BY <1>1
<1>3. /\ owner' \in [Row -> Worker \cup {Nobody}]
      /\ \A row \in Row : owner'[row] \in {owner[row], w}
      /\ \A row \in Row : \A v \in Worker : owner[row] = v => owner'[row] = v
  BY <1>1 DEF Free
<1>4. (\A row \in Row : owner[row] # Nobody => InTx(owner[row]))'
  BY <1>1, <1>2, <1>3 DEF InTx
<1>5. TypeOK'
  BY <1>2, <1>3, <1>4 DEF IInv, TypeOK, TxType, books
<1>6. ASSUME NEW v \in Worker PROVE TxOK(v)'
  <2>1. CASE v = w
    BY <2>1
  <2>2. CASE v # w
    BY <1>2, <1>3, <2>2, OthersOK DEF IInv, books
  <2> QED
    BY <2>1, <2>2
<1>7. (OpeningRows \subseteq rowed)' /\ StoreLedger'
  BY DEF IInv, StoreLedger, books
<1> QED
  BY <1>5, <1>6, <1>7 DEF IInv

-----------------------------------------------------------------------------
(* Statements.                                                             *)

\* A transaction after one more statement, with pending writes P.
LEMMA NextTx ==
    ASSUME NEW u \in TxType, NEW P \in Writes
    PROVE  [u EXCEPT !.done = u.done + 1, !.pend = P]
             = [req |-> u.req, done |-> u.done + 1, seen |-> u.seen, pend |-> P]
<1> DEFINE d == u.done + 1
           v == [u EXCEPT !.done = d, !.pend = P]
<1>1. d \in Nat
  BY DEF TxType
<1> HIDE DEF d
<1>2. v \in TxType
  BY <1>1 DEF TxType
<1>3. PICK x : x = v
  OBVIOUS
<1>4. x = [req |-> u.req, done |-> d, seen |-> u.seen, pend |-> P]
  BY <1>1, <1>2, <1>3 DEF TxType
<1> QED
  BY <1>3, <1>4 DEF d

\* What running a statement with pending writes P does to the transaction.
LEMMA Advanced ==
    ASSUME IInv, NEW w \in Worker, InTx(w), HasNext(w), NEW P \in Writes, Advance(w, P)
    PROVE  /\ tx'[w] = [req |-> tx[w].req, done |-> tx[w].done + 1, seen |-> tx[w].seen,
                        pend |-> P]
           /\ tx'[w] \in TxType
           /\ owner'[RowOf(w)] = w
           /\ \A row \in Row : owner[row] = w => owner'[row] = w
           /\ UNCHANGED books
           /\ (TxOK(w)' => IInv')
<1> DEFINE t == [req |-> tx[w].req, done |-> tx[w].done + 1, seen |-> tx[w].seen, pend |-> P]
<1>1. /\ tx \in [Worker -> TxType] /\ tx[w] \in TxType
      /\ owner \in [Row -> Worker \cup {Nobody}]
  BY DEF IInv, TypeOK, TxType
<1>2. t \in TxType
  BY <1>1 DEF TxType
<1>3. tx' = [tx EXCEPT ![w] = t]
  <2>1. tx' = [tx EXCEPT ![w].done = @ + 1, ![w].pend = P]
    BY DEF Advance
  <2>2. [tx[w] EXCEPT !.done = tx[w].done + 1, !.pend = P] = t
    BY <1>1, NextTx
  <2> HIDE DEF t
  <2> QED
    BY <1>1, <2>1, <2>2
<1>4. /\ RowOf(w) \in Row /\ Free(w, RowOf(w))
      /\ owner' = [owner EXCEPT ![RowOf(w)] = w] /\ UNCHANGED <<books, begun>>
  BY RowTyped DEF Advance
<1>5. t.req = tx[w].req
  OBVIOUS
<1> HIDE DEF t
<1>6. TxOK(w)' => IInv'
  BY <1>2, <1>3, <1>4, <1>5, InsideOK
<1>7. tx'[w] = t
  BY <1>1, <1>3
<1> QED
  BY <1>1, <1>2, <1>4, <1>6, <1>7 DEF t

\* A statement on store stock is on the row of its place.
LEMMA OnSpot ==
    ASSUME NEW w \in Worker,
           Current(w).op \in {"update", "merge", "set", "move", "reserve", "count"}
    PROVE  RowOf(w) = StoreRowOf(Spot(w))
  BY DEF RowOf, StoreRowOf, Spot

\* A statement that moves no store stock keeps what is known of its transaction.
LEMMA QuietOK ==
    ASSUME IInv, NEW w \in Worker, HasNext(w), NEW P,
           Current(w).op \notin {"reserve", "count", "move", "set"},
           tx'[w] = [req |-> tx[w].req, done |-> tx[w].done + 1, seen |-> tx[w].seen,
                     pend |-> P],
           P.qty = tx[w].pend.qty, P.ledger = tx[w].pend.ledger, P.moved = tx[w].pend.moved,
           qty' = qty, \A row \in Row : owner[row] = w => owner'[row] = w
    PROVE  TxOK(w)'
<1>1. TxOK(w) /\ tx[w].req \in Request /\ tx[w].done \in Nat
  BY DEF IInv, HasNext
<1>2. /\ tx'[w].req = tx[w].req /\ tx'[w].done = tx[w].done + 1 /\ tx'[w].seen = tx[w].seen
      /\ tx'[w].pend = P
  OBVIOUS
<1>3. HoldsWrites(w)'
  BY <1>1, <1>2, RowsTyped DEF TxOK, HoldsWrites
<1>4. Booked(w)'
  BY <1>1, <1>2 DEF TxOK, Booked
<1>5. tx[w].req.kind = "transfer" => tx[w].done = 0
  BY CurrentTyped
<1>6. TransferOK(w)'
  BY <1>1, <1>2, <1>5 DEF TxOK, TransferOK
<1>7. tx[w].req.kind = "adjust" => tx[w].done = 0 \/ tx[w].done = 3
  BY CurrentTyped
<1>8. AdjustOK(w)'
  BY <1>1, <1>2, <1>7, RowsTyped DEF TxOK, AdjustOK
<1> QED
  BY <1>3, <1>4, <1>6, <1>8 DEF TxOK

\* A request that runs some of the statements has them to run.
LEMMA RunsNext ==
    ASSUME IInv, NEW w \in Worker, NEW ops, Runs(w, ops)
    PROVE  /\ InTx(w) /\ HasNext(w) /\ Current(w) \in AnyStmt /\ Current(w).op \in ops
           /\ Spot(w) \in Place /\ tx[w].pend \in Writes /\ tx[w] \in TxType
           /\ tx \in [Worker -> TxType] /\ qty \in [Place -> Int] /\ TxOK(w)
           /\ Current(w).s \in Store /\ Current(w).p \in Product /\ Current(w).q \in Int
<1>1. InTx(w) /\ HasNext(w) /\ Current(w).op \in ops
  BY Running DEF Runs, HasNext
<1>2. Current(w) \in AnyStmt /\ Spot(w) \in Place
  BY <1>1, CurrentTyped
<1>3. Current(w).s \in Store /\ Current(w).p \in Product /\ Current(w).q \in Int
  BY <1>2 DEF AnyStmt
<1>4. tx[w] \in TxType /\ tx \in [Worker -> TxType] /\ qty \in [Place -> Int] /\ TxOK(w)
  BY DEF IInv, TypeOK, TxType
<1> QED
  BY <1>1, <1>2, <1>3, <1>4 DEF TxType

\* A number is drawn.
LEMMA DrawNumberOK == ASSUME IInv, NEW w \in Worker, DrawNumber(w) PROVE IInv'
<1> DEFINE P == tx[w].pend
<1>1. /\ InTx(w) /\ HasNext(w) /\ Current(w).op = "number" /\ P \in Writes
      /\ Advance(w, P)
  BY RunsNext DEF DrawNumber
<1> HIDE DEF P
<1>2. /\ tx'[w] = [req |-> tx[w].req, done |-> tx[w].done + 1, seen |-> tx[w].seen,
                   pend |-> P]
      /\ \A row \in Row : owner[row] = w => owner'[row] = w
      /\ UNCHANGED books /\ (TxOK(w)' => IInv')
  BY <1>1, Advanced
<1>3. qty' = qty
  BY <1>2 DEF books
<1> QED
  BY <1>1, <1>2, <1>3, QuietOK DEF P

\* A sale has found the stock it needs.
LEMMA CheckStockOK == ASSUME IInv, NEW w \in Worker, CheckStock(w) PROVE IInv'
<1> DEFINE t == [req |-> tx[w].req, done |-> tx[w].done + 1, seen |-> tx[w].seen,
                 pend |-> tx[w].pend]
<1>1. /\ InTx(w) /\ HasNext(w) /\ Current(w).op = "check"
      /\ tx[w] \in TxType /\ tx \in [Worker -> TxType]
  BY RunsNext DEF CheckStock
<1>2. t \in TxType /\ t.req = tx[w].req
  BY <1>1 DEF TxType
<1>3. tx' = [tx EXCEPT ![w] = t] /\ UNCHANGED <<books, owner, begun>>
  <2>1. tx' = [tx EXCEPT ![w].done = @ + 1] /\ UNCHANGED <<books, owner, begun>>
    BY DEF CheckStock
  <2>2. [tx[w] EXCEPT !.done = tx[w].done + 1] = t
    BY <1>1 DEF TxType
  <2> HIDE DEF t
  <2> QED
    BY <1>1, <2>1, <2>2
<1>4. tx'[w] = t
  BY <1>1, <1>3
<1>5. TxOK(w)'
  BY <1>1, <1>3, <1>4, QuietOK DEF books
<1> HIDE DEF t
<1> QED
  BY <1>1, <1>2, <1>3, <1>5, InsideOK

\* Products.StockOnHand moves, and no store.
LEMMA ProductOK ==
    ASSUME IInv, NEW w \in Worker, WriteProduct(w) \/ CorrectProduct(w) PROVE IInv'
<1>1. /\ InTx(w) /\ HasNext(w) /\ Current(w).op \in {"product", "correct"}
      /\ tx[w].pend \in Writes /\ Current(w).p \in Product /\ Current(w).q \in Int
      /\ tx[w].seen \in Int
  BY RunsNext DEF WriteProduct, CorrectProduct, TxType
<1>2. PICK by \in Int :
        Advance(w, [tx[w].pend EXCEPT !.stock[Current(w).p] = @ + by])
  <2>1. Current(w).q \in Int /\ Current(w).q - tx[w].seen \in Int
    BY <1>1
  <2> QED
    BY <2>1 DEF WriteProduct, CorrectProduct
<1> DEFINE P == [tx[w].pend EXCEPT !.stock[Current(w).p] = @ + by]
<1>3. /\ P \in Writes /\ P.qty = tx[w].pend.qty /\ P.ledger = tx[w].pend.ledger
      /\ P.moved = tx[w].pend.moved
  BY <1>1 DEF Writes
<1>4. Advance(w, P)
  BY <1>2
<1> HIDE DEF P
<1>5. /\ tx'[w] = [req |-> tx[w].req, done |-> tx[w].done + 1, seen |-> tx[w].seen,
                   pend |-> P]
      /\ \A row \in Row : owner[row] = w => owner'[row] = w
      /\ UNCHANGED books /\ (TxOK(w)' => IInv')
  BY <1>1, <1>3, <1>4, Advanced
<1>6. qty' = qty
  BY <1>5 DEF books
<1>7. TxOK(w)'
  BY <1>1, <1>3, <1>5, <1>6, QuietOK
<1> QED
  BY <1>5, <1>7

\* Pending writes P are those of w but for place sp, where the stock moves as one
\* of the ledgers does.
MovesAt(w, sp, P) ==
    /\ \A at \in Place \ {sp} : /\ P.qty[at] = tx[w].pend.qty[at]
                                /\ P.ledger[at] = tx[w].pend.ledger[at]
                                /\ P.moved[at] = tx[w].pend.moved[at]
    /\ sp \in OpeningRows => P.qty[sp] = P.ledger[sp] + P.moved[sp]

\* A statement that does so in a row it takes keeps its transaction's writes
\* held and booked.
LEMMA MovedOK ==
    ASSUME IInv, NEW w \in Worker, NEW sp \in Place, NEW P, MovesAt(w, sp, P),
           tx'[w].pend = P,
           owner'[StoreRowOf(sp)] = w, \A row \in Row : owner[row] = w => owner'[row] = w
    PROVE  HoldsWrites(w)' /\ Booked(w)'
<1>1. HoldsWrites(w) /\ Booked(w)
  BY DEF IInv, TxOK
<1>2. HoldsWrites(w)'
  BY <1>1, RowsTyped DEF HoldsWrites, MovesAt
<1>3. Booked(w)'
  BY <1>1, StockPostingAssumption DEF Booked, MovesAt
<1> QED
  BY <1>2, <1>3

\* Sales and purchases have no read to keep.
LEMMA PlainOK ==
    ASSUME NEW w \in Worker, HasNext(w), tx'[w].req = tx[w].req,
           Current(w).op \in {"update", "merge"}
    PROVE  TransferOK(w)' /\ AdjustOK(w)'
<1>1. tx[w].req.kind \notin {"transfer", "adjust"}
  BY CurrentTyped
<1> QED
  BY <1>1 DEF TransferOK, AdjustOK

\* A sale or a purchase moves the stock of a store and books it.
LEMMA StoreMoveOK ==
    ASSUME IInv, NEW w \in Worker, Runs(w, {"update", "merge"}), NEW P \in Writes,
           Advance(w, P),
           P.qty = [tx[w].pend.qty EXCEPT ![Spot(w)] = @ + Current(w).q],
           P.ledger = [tx[w].pend.ledger EXCEPT ![Spot(w)] = @ + Current(w).q],
           P.moved = tx[w].pend.moved
    PROVE  IInv'
<1> DEFINE old == tx[w].pend  sp == Spot(w)  q == Current(w).q
<1>1. /\ InTx(w) /\ HasNext(w) /\ Current(w).op \in {"update", "merge"}
      /\ old \in Writes /\ sp \in Place /\ q \in Int
  BY RunsNext
<1>2. old.qty \in [Place -> Int] /\ old.ledger \in [Place -> Int] /\ old.moved \in [Place -> Int]
  BY <1>1 DEF Writes
<1>3. /\ tx'[w] = [req |-> tx[w].req, done |-> tx[w].done + 1, seen |-> tx[w].seen,
                   pend |-> P]
      /\ owner'[RowOf(w)] = w
      /\ \A row \in Row : owner[row] = w => owner'[row] = w
      /\ (TxOK(w)' => IInv')
  BY <1>1, Advanced
<1>4. tx'[w].pend = P /\ tx'[w].req = tx[w].req
  BY <1>3
<1>5. owner'[StoreRowOf(sp)] = w
  BY <1>1, <1>3, OnSpot
<1>6. \A at \in Place \ {sp} : /\ P.qty[at] = old.qty[at]
                               /\ P.ledger[at] = old.ledger[at]
                               /\ P.moved[at] = old.moved[at]
  BY <1>2
<1>7. sp \in OpeningRows => P.qty[sp] = P.ledger[sp] + P.moved[sp]
  <2>1. sp \in OpeningRows => old.qty[sp] = old.ledger[sp] + old.moved[sp]
    BY DEF IInv, TxOK, Booked
  <2>2. P.qty[sp] = old.qty[sp] + q /\ P.ledger[sp] = old.ledger[sp] + q
        /\ P.moved[sp] = old.moved[sp]
        /\ old.qty[sp] \in Int /\ old.ledger[sp] \in Int /\ old.moved[sp] \in Int
    BY <1>1, <1>2
  <2> QED
    BY <1>1, <2>1, <2>2
<1>8. MovesAt(w, sp, P)
  BY <1>6, <1>7 DEF MovesAt
<1> HIDE DEF sp
<1>9. HoldsWrites(w)' /\ Booked(w)'
  BY <1>1, <1>3, <1>4, <1>5, <1>8, MovedOK
<1>10. TransferOK(w)' /\ AdjustOK(w)'
  BY <1>1, <1>4, PlainOK
<1> QED
  BY <1>3, <1>9, <1>10 DEF TxOK

\* A purchase's MERGE.
LEMMA MergeStoreOK == ASSUME IInv, NEW w \in Worker, MergeStore(w) PROVE IInv'
<1> DEFINE P == [tx[w].pend EXCEPT !.qty[Spot(w)] = @ + Current(w).q,
                                   !.ledger[Spot(w)] = @ + Current(w).q,
                                   !.rowed = @ \cup {Spot(w)}]
<1>1. Runs(w, {"merge"}) /\ Advance(w, P)
  BY DEF MergeStore
<1>2. Spot(w) \in Place /\ Current(w).q \in Int /\ tx[w].pend \in Writes
  BY <1>1, RunsNext
<1>3. Runs(w, {"update", "merge"})
  BY <1>1 DEF Runs
<1>4. /\ P \in Writes
      /\ P.qty = [tx[w].pend.qty EXCEPT ![Spot(w)] = @ + Current(w).q]
      /\ P.ledger = [tx[w].pend.ledger EXCEPT ![Spot(w)] = @ + Current(w).q]
      /\ P.moved = tx[w].pend.moved
  <2> DEFINE sp == Spot(w)  q == Current(w).q  old == tx[w].pend
             nq == [old.qty EXCEPT ![sp] = @ + q]
             nl == [old.ledger EXCEPT ![sp] = @ + q]
             nr == old.rowed \cup {sp}
  <2>1. nq \in [Place -> Int] /\ nl \in [Place -> Int] /\ nr \in SUBSET Place
    BY <1>2 DEF Writes
  <2>2. P = [old EXCEPT !.qty = nq, !.ledger = nl, !.rowed = nr]
    OBVIOUS
  <2> HIDE DEF P, nq, nl, nr
  <2>3. P \in Writes /\ P.qty = nq /\ P.ledger = nl /\ P.moved = old.moved
    BY <1>2, <2>1, <2>2 DEF Writes
  <2> QED
    BY <2>3 DEF nq, nl
<1> HIDE DEF P
<1> QED
  BY <1>1, <1>3, <1>4, StoreMoveOK

\* A sale's UPDATE, with and without a row to touch.
LEMMA UpdateStoreOK == ASSUME IInv, NEW w \in Worker, UpdateStore(w) PROVE IInv'
<1> DEFINE old == tx[w].pend  sp == Spot(w)  q == Current(w).q
<1>1. /\ InTx(w) /\ HasNext(w) /\ Current(w).op = "update" /\ Runs(w, {"update", "merge"})
      /\ old \in Writes /\ tx[w] \in TxType /\ tx \in [Worker -> TxType]
      /\ sp \in Place /\ q \in Int /\ TxOK(w)
  BY RunsNext DEF UpdateStore, Runs
<1>2. CASE sp \in rowed
  <2> DEFINE P == [old EXCEPT !.qty[sp] = @ + q, !.ledger[sp] = @ + q]
  <2>1. Advance(w, P)
    BY <1>2 DEF UpdateStore
  <2>2. /\ P \in Writes
        /\ P.qty = [old.qty EXCEPT ![sp] = @ + q]
        /\ P.ledger = [old.ledger EXCEPT ![sp] = @ + q]
        /\ P.moved = old.moved
    <3> DEFINE nq == [old.qty EXCEPT ![sp] = @ + q]
               nl == [old.ledger EXCEPT ![sp] = @ + q]
    <3>1. nq \in [Place -> Int] /\ nl \in [Place -> Int]
      BY <1>1 DEF Writes
    <3>2. P = [old EXCEPT !.qty = nq, !.ledger = nl]
      OBVIOUS
    <3> HIDE DEF P, nq, nl
    <3>3. P \in Writes /\ P.qty = nq /\ P.ledger = nl /\ P.moved = old.moved
      BY <1>1, <3>1, <3>2 DEF Writes
    <3> QED
      BY <3>3 DEF nq, nl
  <2> HIDE DEF P
  <2> QED
    BY <1>1, <2>1, <2>2, StoreMoveOK
<1>3. CASE sp \notin rowed
  <2> DEFINE P == [old EXCEPT !.ledger[sp] = @ + q]
             t == [req |-> tx[w].req, done |-> tx[w].done + 1, seen |-> tx[w].seen,
                   pend |-> P]
  <2>1. /\ tx' = [tx EXCEPT ![w].done = @ + 1, ![w].pend.ledger[sp] = @ + q]
        /\ UNCHANGED <<books, owner, begun>>
    BY <1>3 DEF UpdateStore
  <2>2. /\ P \in Writes /\ P.qty = old.qty /\ P.moved = old.moved
        /\ \A at \in Place \ {sp} : P.ledger[at] = old.ledger[at]
    BY <1>1 DEF Writes
  <2>3. tx' = [tx EXCEPT ![w] = [tx[w] EXCEPT !.done = tx[w].done + 1, !.pend = P]]
    BY <2>1
  <2> HIDE DEF P
  <2>4. [tx[w] EXCEPT !.done = tx[w].done + 1, !.pend = P] = t
    BY <1>1, <2>2, NextTx
  <2>5. t \in TxType /\ t.req = tx[w].req
    BY <1>1, <2>2 DEF TxType
  <2>6. tx' = [tx EXCEPT ![w] = t]
    BY <2>3, <2>4
  <2>7. tx'[w].pend = P /\ tx'[w].req = tx[w].req
    BY <1>1, <2>6
  <2>8. sp \notin OpeningRows
    BY <1>3 DEF IInv
  <2>9. Booked(w)'
    BY <1>1, <2>2, <2>7, <2>8, StockPostingAssumption DEF TxOK, Booked
  <2>10. HoldsWrites(w)'
    BY <1>1, <2>1, <2>2, <2>7 DEF TxOK, HoldsWrites
  <2>11. TransferOK(w)' /\ AdjustOK(w)'
    BY <1>1, <2>7, PlainOK
  <2>12. TxOK(w)'
    BY <2>9, <2>10, <2>11 DEF TxOK
  <2> HIDE DEF t
  <2> QED
    BY <1>1, <2>1, <2>5, <2>6, <2>12, InsideOK
<1> QED
  BY <1>2, <1>3

\* One leg of a transfer: what leaves the source is what was reserved there.
LEMMA MoveStoreOK == ASSUME IInv, NEW w \in Worker, MoveStore(w) PROVE IInv'
<1> DEFINE old == tx[w].pend  sp == Spot(w)  c == Current(w)  r == tx[w].req
           nq == [old.qty EXCEPT ![sp] = @ + c.q]
           nm == [old.moved EXCEPT ![sp] = @ + c.q]
           nr == old.rowed \cup {sp}
           P == [old EXCEPT !.qty = nq, !.moved = nm, !.rowed = nr]
<1>1. /\ InTx(w) /\ HasNext(w) /\ c.op = "move" /\ old \in Writes /\ sp \in Place
      /\ c.q \in Int /\ TxOK(w) /\ tx[w].done \in Nat /\ r \in Request
  BY RunsNext DEF MoveStore, HasNext
<1>2. /\ old.qty \in [Place -> Int] /\ old.ledger \in [Place -> Int]
      /\ old.moved \in [Place -> Int] /\ old.rowed \in SUBSET Place
  BY <1>1 DEF Writes
<1>3. nq \in [Place -> Int] /\ nm \in [Place -> Int] /\ nr \in SUBSET Place
  BY <1>1, <1>2
<1>4. Advance(w, P)
  BY DEF MoveStore
<1> HIDE DEF P
<1>5. P \in Writes /\ P.qty = nq /\ P.moved = nm /\ P.ledger = old.ledger
  <2> HIDE DEF nq, nm, nr
  <2> QED
    BY <1>1, <1>3 DEF Writes, P
<1>6. /\ tx'[w] = [req |-> r, done |-> tx[w].done + 1, seen |-> tx[w].seen, pend |-> P]
      /\ owner'[RowOf(w)] = w
      /\ \A row \in Row : owner[row] = w => owner'[row] = w
      /\ UNCHANGED books /\ (TxOK(w)' => IInv')
  BY <1>1, <1>4, <1>5, Advanced
<1>7. /\ tx'[w].pend = P /\ tx'[w].req = r /\ tx'[w].done = tx[w].done + 1
      /\ owner'[StoreRowOf(sp)] = w /\ qty' = qty
  BY <1>1, <1>6, OnSpot DEF books
<1>8. MovesAt(w, sp, P)
  <2>1. sp \in OpeningRows => old.qty[sp] = old.ledger[sp] + old.moved[sp]
    BY <1>1 DEF TxOK, Booked
  <2> QED
    BY <1>1, <1>2, <1>5, <2>1 DEF MovesAt
<1>9. HoldsWrites(w)' /\ Booked(w)'
  <2> HIDE DEF sp
  <2> QED
    BY <1>1, <1>6, <1>7, <1>8, MovedOK
<1>10. /\ r.kind = "transfer"
       /\ \/ tx[w].done = 2 /\ sp = Source(r) /\ c.q = -First(r).q
          \/ tx[w].done = 3 /\ sp # Source(r)
  <2>1. r.kind # "adjust"
    BY <1>1, CurrentTyped
  <2>2. r.kind = "transfer"
    BY <1>1, <2>1, CurrentTyped DEF PlainOp
  <2>3. \/ tx[w].done = 0 /\ c.op = "number"
        \/ tx[w].done = 1 /\ c.op = "reserve"
        \/ tx[w].done = 2 /\ sp = Source(r) /\ c.q = -First(r).q
        \/ tx[w].done = 3 /\ sp # Source(r)
    BY <1>1, <2>2, CurrentTyped
  <2> HIDE DEF c, sp
  <2> QED
    BY <1>1, <2>2, <2>3
<1>11. First(r).q \in Nat /\ Source(r) \in Place
  BY <1>1, LinesTyped, RowsTyped
<1>12. /\ old.qty[Source(r)] = IF tx[w].done >= 3 THEN -First(r).q ELSE 0
       /\ tx[w].done >= 2 => owner[StoreRowOf(Source(r))] = w /\ qty[Source(r)] >= First(r).q
  BY <1>1, <1>10 DEF TxOK, TransferOK
<1>13. nq[Source(r)] = IF tx[w].done + 1 >= 3 THEN -First(r).q ELSE 0
  BY <1>1, <1>2, <1>10, <1>11, <1>12
<1> HIDE DEF nq, nm, nr, old, sp, c
<1>14. TransferOK(w)'
  BY <1>5, <1>6, <1>7, <1>10, <1>11, <1>12, <1>13, RowsTyped DEF TransferOK
<1>15. AdjustOK(w)'
  BY <1>7, <1>10 DEF AdjustOK
<1> QED
  BY <1>6, <1>9, <1>14, <1>15 DEF TxOK

\* An adjustment overwrites its row and books what it changes.
LEMMA SetStoreOK == ASSUME IInv, NEW w \in Worker, SetStore(w) PROVE IInv'
<1> DEFINE old == tx[w].pend  sp == Spot(w)  c == Current(w)  r == tx[w].req
           seen == tx[w].seen
           nq == [old.qty EXCEPT ![sp] = c.q - qty[sp]]
           nl == [old.ledger EXCEPT ![sp] = @ + (c.q - seen)]
           P == [old EXCEPT !.qty = nq, !.ledger = nl]
<1>1. /\ InTx(w) /\ HasNext(w) /\ c.op = "set" /\ old \in Writes /\ sp \in Place
      /\ c.q \in Int /\ TxOK(w) /\ tx[w].done \in Nat /\ r \in Request /\ seen \in Int
      /\ qty \in [Place -> Int]
  BY RunsNext DEF SetStore, HasNext, TxType
<1>2. /\ old.qty \in [Place -> Int] /\ old.ledger \in [Place -> Int]
      /\ old.moved \in [Place -> Int]
  BY <1>1 DEF Writes
<1>3. nq \in [Place -> Int] /\ nl \in [Place -> Int]
  BY <1>1, <1>2
<1>4. Advance(w, P)
  BY DEF SetStore
<1> HIDE DEF P
<1>5. P \in Writes /\ P.qty = nq /\ P.ledger = nl /\ P.moved = old.moved
  <2> HIDE DEF nq, nl
  <2> QED
    BY <1>1, <1>3 DEF Writes, P
<1>6. /\ tx'[w] = [req |-> r, done |-> tx[w].done + 1, seen |-> tx[w].seen, pend |-> P]
      /\ owner'[RowOf(w)] = w
      /\ \A row \in Row : owner[row] = w => owner'[row] = w
      /\ UNCHANGED books /\ (TxOK(w)' => IInv')
  BY <1>1, <1>4, <1>5, Advanced
<1>7. /\ tx'[w].pend = P /\ tx'[w].req = r /\ tx'[w].done = tx[w].done + 1
      /\ tx'[w].seen = seen /\ owner'[StoreRowOf(sp)] = w /\ qty' = qty
  BY <1>1, <1>6, OnSpot DEF books
<1>8. r.kind = "adjust" /\ tx[w].done = 2 /\ sp = Source(r) /\ c.q = First(r).q
  BY <1>1, CurrentTyped DEF PlainOp
<1>9. /\ old.qty[sp] = 0 /\ old.ledger[sp] = 0 /\ old.moved[sp] = 0 /\ qty[sp] = seen
  BY <1>1, <1>8 DEF TxOK, AdjustOK
<1>10. P.qty[sp] = c.q - seen /\ P.ledger[sp] = c.q - seen /\ P.moved[sp] = 0
  BY <1>1, <1>2, <1>5, <1>9
<1>11. MovesAt(w, sp, P)
  <2>1. \A at \in Place \ {sp} : P.qty[at] = old.qty[at] /\ P.ledger[at] = old.ledger[at]
    BY <1>1, <1>2, <1>5
  <2>2. c.q - seen \in Int
    BY <1>1
  <2> HIDE DEF sp, c, seen, nq, nl
  <2> QED
    BY <1>5, <1>10, <2>1, <2>2 DEF MovesAt
<1>12. HoldsWrites(w)' /\ Booked(w)'
  <2> HIDE DEF sp
  <2> QED
    BY <1>1, <1>6, <1>7, <1>11, MovedOK
<1> HIDE DEF nq, nl, old, sp, c, seen
<1>13. AdjustOK(w)'
  BY <1>1, <1>7, <1>8, <1>9, <1>10 DEF AdjustOK
<1>14. TransferOK(w)'
  BY <1>7, <1>8 DEF TransferOK
<1> QED
  BY <1>6, <1>12, <1>13, <1>14 DEF TxOK

\* A transfer reserves at its source.
LEMMA ReserveOK == ASSUME IInv, NEW w \in Worker, Reserve(w) PROVE IInv'
<1> DEFINE old == tx[w].pend  sp == Spot(w)  r == tx[w].req
<1>1. /\ InTx(w) /\ HasNext(w) /\ Current(w).op = "reserve" /\ old \in Writes
      /\ sp \in Place /\ TxOK(w) /\ tx[w].done \in Nat /\ r \in Request
      /\ Advance(w, old) /\ qty[sp] >= Current(w).q
  BY RunsNext DEF Reserve, HasNext
<1> HIDE DEF old
<1>2. /\ tx'[w] = [req |-> r, done |-> tx[w].done + 1, seen |-> tx[w].seen, pend |-> old]
      /\ owner'[RowOf(w)] = w
      /\ \A row \in Row : owner[row] = w => owner'[row] = w
      /\ UNCHANGED books /\ (TxOK(w)' => IInv')
  BY <1>1, Advanced
<1>3. /\ tx'[w].pend = old /\ tx'[w].req = r /\ tx'[w].done = tx[w].done + 1
      /\ owner'[StoreRowOf(sp)] = w /\ qty' = qty
  BY <1>1, <1>2, OnSpot DEF books
<1>4. r.kind = "transfer" /\ tx[w].done = 1 /\ sp = Source(r) /\ Current(w).q = First(r).q
  BY <1>1, CurrentTyped DEF PlainOp
<1>5. HoldsWrites(w)' /\ Booked(w)'
  BY <1>1, <1>2, <1>3, RowsTyped DEF TxOK, HoldsWrites, Booked, old
<1> HIDE DEF sp
<1>6. TransferOK(w)'
  BY <1>1, <1>3, <1>4 DEF TxOK, TransferOK, old
<1>7. AdjustOK(w)'
  BY <1>3, <1>4 DEF AdjustOK
<1> QED
  BY <1>2, <1>5, <1>6, <1>7 DEF TxOK

\* An adjustment counts its row.
LEMMA CountOK == ASSUME IInv, NEW w \in Worker, Count(w) PROVE IInv'
<1> DEFINE old == tx[w].pend  sp == Spot(w)  r == tx[w].req
           t == [req |-> r, done |-> tx[w].done + 1, seen |-> qty[sp], pend |-> old]
<1>1. /\ InTx(w) /\ HasNext(w) /\ Current(w).op = "count" /\ old \in Writes
      /\ sp \in Place /\ TxOK(w) /\ tx[w] \in TxType /\ tx \in [Worker -> TxType]
      /\ tx[w].done \in Nat /\ r \in Request /\ qty[sp] \in Int
  BY RunsNext DEF Count, HasNext
<1>2. t \in TxType /\ t.req = r
  BY <1>1 DEF TxType
<1>3. tx' = [tx EXCEPT ![w] = t]
  <2> DEFINE d == tx[w].done + 1  s == qty[sp]
             v == [tx[w] EXCEPT !.done = d, !.seen = s]
  <2>1. tx' = [tx EXCEPT ![w] = v]
    BY DEF Count
  <2>5. d \in Nat /\ s \in Int
    BY <1>1
  <2>2. v \in TxType
    <3> HIDE DEF d, s
    <3> QED
      BY <1>1, <2>5 DEF TxType
  <2>3. PICK x : x = v
    OBVIOUS
  <2>4. x = t
    BY <1>1, <2>2, <2>3 DEF TxType
  <2> HIDE DEF v, t
  <2> QED
    BY <2>1, <2>3, <2>4
<1>4. /\ RowOf(w) \in Row /\ Free(w, RowOf(w)) /\ owner' = [owner EXCEPT ![RowOf(w)] = w]
      /\ UNCHANGED <<books, begun>> /\ owner \in [Row -> Worker \cup {Nobody}]
  BY <1>1, RowTyped DEF Count, IInv, TypeOK
<1>5. /\ tx'[w].pend = old /\ tx'[w].req = r /\ tx'[w].done = tx[w].done + 1
      /\ tx'[w].seen = qty[sp] /\ qty' = qty
      /\ owner'[StoreRowOf(sp)] = w /\ \A row \in Row : owner[row] = w => owner'[row] = w
  BY <1>1, <1>3, <1>4, OnSpot DEF books
<1>6. r.kind = "adjust" /\ tx[w].done = 1 /\ sp = Source(r)
  BY <1>1, CurrentTyped DEF PlainOp
<1>7. HoldsWrites(w)' /\ Booked(w)'
  BY <1>1, <1>5, RowsTyped DEF TxOK, HoldsWrites, Booked
<1> HIDE DEF sp, t
<1>8. AdjustOK(w)'
  BY <1>1, <1>5, <1>6 DEF TxOK, AdjustOK
<1>9. TransferOK(w)'
  BY <1>5, <1>6 DEF TransferOK
<1>10. TxOK(w)'
  BY <1>7, <1>8, <1>9 DEF TxOK
<1> QED
  BY <1>1, <1>2, <1>3, <1>4, <1>10, InsideOK

-----------------------------------------------------------------------------
(* Beginnings and ends of transactions.                                    *)

\* Nothing is pending in an idle transaction.
LEMMA IdleTyped ==
    /\ NoWrites \in Writes /\ Idle \in TxType
    /\ \A sp \in Place : NoWrites.qty[sp] = 0 /\ NoWrites.ledger[sp] = 0
                         /\ NoWrites.moved[sp] = 0
<1>1. Zero \in [Place -> Int] /\ \A sp \in Place : Zero[sp] = 0
  BY DEF Zero
<1>2. NoWrites \in Writes /\ NoWrites.qty = Zero /\ NoWrites.ledger = Zero
      /\ NoWrites.moved = Zero
  BY <1>1 DEF NoWrites, Writes
<1>3. Idle \in TxType
  BY <1>2 DEF Idle, TxType
<1> QED
  BY <1>1, <1>2, <1>3

\* A transaction that has done nothing has nothing to keep.
LEMMA FreshOK ==
    ASSUME NEW w \in Worker, tx'[w].pend = NoWrites, tx'[w].done = 0
    PROVE  TxOK(w)'
<1>1. HoldsWrites(w)'
  BY IdleTyped DEF HoldsWrites
<1>2. Booked(w)'
  BY IdleTyped, StockPostingAssumption DEF Booked
<1>3. TransferOK(w)'
  BY IdleTyped, RowsTyped DEF TransferOK
<1>4. AdjustOK(w)'
  BY IdleTyped, RowsTyped DEF AdjustOK
<1> QED
  BY <1>1, <1>2, <1>3, <1>4 DEF TxOK

\* A request opens a transaction.
LEMMA BeginOK ==
    ASSUME IInv, NEW w \in Worker, NEW r \in Request, Begin(w, r) PROVE IInv'
<1> DEFINE t == [Idle EXCEPT !.req = r]
<1>1. /\ tx \in [Worker -> TxType] /\ begun \in Nat
      /\ tx' = [tx EXCEPT ![w] = t] /\ begun' = begun + 1 /\ UNCHANGED <<books, owner>>
  BY DEF IInv, TypeOK, TxType, Begin
<1>2. t \in TxType /\ t.pend = NoWrites /\ t.done = 0 /\ t.req = r
  BY IdleTyped DEF TxType, Idle
<1> HIDE DEF t
<1>3. /\ tx' \in [Worker -> TxType] /\ tx'[w] = t /\ begun' \in Nat
      /\ \A v \in Worker \ {w} : tx'[v] = tx[v]
  BY <1>1, <1>2
<1>4. (\A row \in Row : owner[row] # Nobody => InTx(owner[row]))'
  <2>1. /\ \A row \in Row : owner[row] # Nobody => InTx(owner[row])
        /\ owner \in [Row -> Worker \cup {Nobody}]
    BY DEF IInv, TypeOK
  <2> QED
    BY <1>1, <1>2, <1>3, <2>1, StockPostingAssumption DEF InTx
<1>5. TypeOK'
  BY <1>1, <1>3, <1>4 DEF IInv, TypeOK, TxType, books
<1>6. ASSUME NEW v \in Worker PROVE TxOK(v)'
  <2>1. CASE v = w
    BY <1>2, <1>3, <2>1, FreshOK
  <2>2. CASE v # w
    BY <1>1, <1>3, <2>2, OthersOK DEF IInv, books
  <2> QED
    BY <2>1, <2>2
<1>7. (OpeningRows \subseteq rowed)' /\ StoreLedger'
  BY <1>1 DEF IInv, StoreLedger, books
<1> QED
  BY <1>5, <1>6, <1>7 DEF IInv

\* A transaction that ends lets its rows go, and nobody else's.
LEMMA EndedOK ==
    ASSUME IInv, NEW w \in Worker, tx' = [tx EXCEPT ![w] = Idle], owner' = Unlocked(w)
    PROVE  /\ tx' \in [Worker -> TxType] /\ TxOK(w)'
           /\ owner' \in [Row -> Worker \cup {Nobody}]
           /\ (\A row \in Row : owner[row] # Nobody => InTx(owner[row]))'
           /\ \A v \in Worker \ {w} : /\ tx'[v] = tx[v]
                                      /\ \A row \in Row : owner[row] = v => owner'[row] = v
<1>1. /\ tx \in [Worker -> TxType] /\ owner \in [Row -> Worker \cup {Nobody}]
      /\ \A row \in Row : owner[row] # Nobody => InTx(owner[row])
  BY DEF IInv, TypeOK, TxType
<1>2. /\ tx' \in [Worker -> TxType] /\ tx'[w] = Idle
      /\ \A v \in Worker \ {w} : tx'[v] = tx[v]
  BY <1>1, IdleTyped
<1>3. owner' = [row \in Row |-> IF owner[row] = w THEN Nobody ELSE owner[row]]
  BY DEF Unlocked
<1>4. /\ owner' \in [Row -> Worker \cup {Nobody}]
      /\ \A row \in Row : owner'[row] = IF owner[row] = w THEN Nobody ELSE owner[row]
  BY <1>1, <1>3
<1>5. (\A row \in Row : owner[row] # Nobody => InTx(owner[row]))'
  BY <1>1, <1>2, <1>4, StockPostingAssumption DEF InTx
<1>6. TxOK(w)'
  BY <1>2, FreshOK DEF Idle
<1> QED
  BY <1>2, <1>4, <1>5, <1>6

\* A transaction is rolled back.
LEMMA UndoOK == ASSUME IInv, NEW w \in Worker, Undo(w) PROVE IInv'
<1>1. /\ tx' = [tx EXCEPT ![w] = Idle] /\ owner' = Unlocked(w)
      /\ UNCHANGED <<books, begun>>
  BY DEF Undo
<1>2. TypeOK'
  BY <1>1, EndedOK DEF IInv, TypeOK, TxType, books
<1>3. ASSUME NEW v \in Worker PROVE TxOK(v)'
  <2>1. CASE v = w
    BY <1>1, <2>1, EndedOK
  <2>2. CASE v # w
    BY <1>1, <2>2, EndedOK, OthersOK DEF IInv, books
  <2> QED
    BY <2>1, <2>2
<1>4. (OpeningRows \subseteq rowed)' /\ StoreLedger'
  BY <1>1 DEF IInv, StoreLedger, books
<1> QED
  BY <1>2, <1>3, <1>4 DEF IInv

\* What a commit does to the books.
LEMMA Committed ==
    ASSUME IInv, NEW w \in Worker, Commit(w)
    PROVE  /\ tx[w].req \in Request /\ tx[w].done = Len(Script(tx[w].req)) /\ TxOK(w)
           /\ \A sp \in Place :
                /\ qty[sp] \in Int /\ ledger[sp] \in Int /\ moved[sp] \in Int
                /\ tx[w].pend.qty[sp] \in Int /\ tx[w].pend.ledger[sp] \in Int
                /\ tx[w].pend.moved[sp] \in Int
                /\ qty'[sp] = qty[sp] + tx[w].pend.qty[sp]
                /\ ledger'[sp] = ledger[sp] + tx[w].pend.ledger[sp]
                /\ moved'[sp] = moved[sp] + tx[w].pend.moved[sp]
           /\ (/\ stock \in [Product -> Int] /\ rowed \subseteq Place
               /\ qty \in [Place -> Int] /\ ledger \in [Place -> Int]
               /\ moved \in [Place -> Int])'
           /\ rowed \subseteq rowed'
<1> DEFINE pend == tx[w].pend
<1>1. /\ InTx(w) /\ tx[w].done = Len(Script(tx[w].req))
      /\ stock' = [p \in Product |-> stock[p] + pend.stock[p]]
      /\ rowed' = rowed \cup pend.rowed
      /\ qty' = [sp \in Place |-> qty[sp] + pend.qty[sp]]
      /\ ledger' = [sp \in Place |-> ledger[sp] + pend.ledger[sp]]
      /\ moved' = [sp \in Place |-> moved[sp] + pend.moved[sp]]
  BY DEF Commit
<1>2. tx[w].req \in Request /\ TxOK(w) /\ tx[w] \in TxType
  BY <1>1, Running DEF IInv
<1>3. pend \in Writes
  BY <1>2 DEF TxType
<1> HIDE DEF pend
<1>4. /\ pend.stock \in [Product -> Int] /\ pend.rowed \subseteq Place
      /\ pend.qty \in [Place -> Int] /\ pend.ledger \in [Place -> Int]
      /\ pend.moved \in [Place -> Int]
  BY <1>3 DEF Writes
<1>5. /\ stock \in [Product -> Int] /\ rowed \subseteq Place /\ qty \in [Place -> Int]
      /\ ledger \in [Place -> Int] /\ moved \in [Place -> Int]
  BY DEF IInv, TypeOK
<1>6. /\ stock' \in [Product -> Int] /\ rowed' \subseteq Place /\ qty' \in [Place -> Int]
      /\ ledger' \in [Place -> Int] /\ moved' \in [Place -> Int] /\ rowed \subseteq rowed'
  BY <1>1, <1>4, <1>5
<1>7. \A sp \in Place :
        /\ qty[sp] \in Int /\ ledger[sp] \in Int /\ moved[sp] \in Int
        /\ pend.qty[sp] \in Int /\ pend.ledger[sp] \in Int /\ pend.moved[sp] \in Int
        /\ qty'[sp] = qty[sp] + pend.qty[sp]
        /\ ledger'[sp] = ledger[sp] + pend.ledger[sp]
        /\ moved'[sp] = moved[sp] + pend.moved[sp]
  BY <1>1, <1>4, <1>5
<1> QED
  BY <1>1, <1>2, <1>6, <1>7 DEF pend

\* A transaction commits: others hold nothing that it moved.
LEMMA CommitOK == ASSUME IInv, NEW w \in Worker, Commit(w) PROVE IInv'
<1>1. tx' = [tx EXCEPT ![w] = Idle] /\ owner' = Unlocked(w) /\ begun' = begun
  BY DEF Commit
<1>2. TypeOK'
  BY <1>1, EndedOK, Committed DEF IInv, TypeOK, TxType
<1>3. ASSUME NEW v \in Worker PROVE TxOK(v)'
  <2>1. CASE v = w
    BY <1>1, <2>1, EndedOK
  <2>2. CASE v # w
    <3>1. \A sp \in Place : owner[StoreRowOf(sp)] = v => tx[w].pend.qty[sp] = 0
      BY <2>2, Committed DEF TxOK, HoldsWrites
    <3>2. ASSUME NEW sp \in Place, owner[StoreRowOf(sp)] = v PROVE qty'[sp] = qty[sp]
      <4>1. /\ qty[sp] \in Int /\ tx[w].pend.qty[sp] \in Int
            /\ qty'[sp] = qty[sp] + tx[w].pend.qty[sp]
        BY Committed
      <4>2. tx[w].pend.qty[sp] = 0
        BY <3>1, <3>2
      <4> QED
        BY <4>1, <4>2
    <3>3. tx'[v] = tx[v] /\ \A row \in Row : owner[row] = v => owner'[row] = v
      BY <1>1, <2>2, EndedOK
    <3> QED
      BY <3>2, <3>3, OthersOK DEF IInv
  <2> QED
    BY <2>1, <2>2
<1>4. (OpeningRows \subseteq rowed)'
  BY Committed DEF IInv
<1>5. StoreLedger'
  <2> SUFFICES ASSUME NEW sp \in OpeningRows
               PROVE  qty'[sp] = OpeningQty[sp] + ledger'[sp] + moved'[sp]
    BY DEF StoreLedger
  <2>1. sp \in Place /\ OpeningQty[sp] \in Int
    BY StockPostingAssumption
  <2>2. qty[sp] = OpeningQty[sp] + ledger[sp] + moved[sp]
    BY DEF IInv, StoreLedger
  <2>3. tx[w].pend.qty[sp] = tx[w].pend.ledger[sp] + tx[w].pend.moved[sp]
    BY Committed DEF TxOK, Booked
  <2>4. /\ qty[sp] \in Int /\ ledger[sp] \in Int /\ moved[sp] \in Int
        /\ tx[w].pend.qty[sp] \in Int /\ tx[w].pend.ledger[sp] \in Int
        /\ tx[w].pend.moved[sp] \in Int
        /\ qty'[sp] = qty[sp] + tx[w].pend.qty[sp]
        /\ ledger'[sp] = ledger[sp] + tx[w].pend.ledger[sp]
        /\ moved'[sp] = moved[sp] + tx[w].pend.moved[sp]
    BY <2>1, Committed
  <2> QED
    BY <2>1, <2>2, <2>3, <2>4
<1> QED
  BY <1>2, <1>3, <1>4, <1>5 DEF IInv

-----------------------------------------------------------------------------
(* The invariant, and what follows.                                        *)

\* Opening stock, and no transactions.
LEMMA InitIInv == Init => IInv
<1> SUFFICES ASSUME Init PROVE IInv
  OBVIOUS
<1> USE StockPostingAssumption
<1>1. tx \in [Worker -> TxType] /\ \A w \in Worker : tx[w] = Idle
  BY IdleTyped DEF Init
<1>2. Zero \in [Place -> Int] /\ \A sp \in Place : Zero[sp] = 0
  BY DEF Zero
<1>3. TypeOK
  BY <1>1, <1>2 DEF Init, TypeOK, TxType
<1>4. StoreLedger
  BY <1>2 DEF Init, StoreLedger
<1>5. ASSUME NEW w \in Worker PROVE TxOK(w)
  <2>1. tx[w].pend = NoWrites /\ tx[w].req \notin Request
    BY <1>1 DEF Idle
  <2> QED
    BY <2>1, IdleTyped DEF TxOK, HoldsWrites, Booked, TransferOK, AdjustOK
<1> QED
  BY <1>3, <1>4, <1>5 DEF IInv, Init

\* Every step keeps the invariant.
LEMMA StepIInv == IInv /\ [Next]_vars => IInv'
<1> SUFFICES ASSUME IInv, [Next]_vars PROVE IInv'
  OBVIOUS
<1>1. CASE UNCHANGED vars
  <2>1. TypeOK' /\ (OpeningRows \subseteq rowed)' /\ StoreLedger'
    BY <1>1 DEF IInv, TypeOK, StoreLedger, InTx, vars
  <2>2. ASSUME NEW w \in Worker PROVE TxOK(w)'
    BY <1>1, OthersOK DEF IInv, vars
  <2> QED
    BY <2>1, <2>2 DEF IInv
<1>2. ASSUME NEW w \in Worker, NEW r \in Request, Begin(w, r) PROVE IInv'
  BY <1>2, BeginOK
<1>3. ASSUME NEW w \in Worker, Run(w) PROVE IInv'
  BY <1>3, DrawNumberOK, CheckStockOK, ReserveOK, CountOK, ProductOK, UpdateStoreOK,
     MergeStoreOK, SetStoreOK, MoveStoreOK, CommitOK, UndoOK DEF Run, Refuse
<1>4. ASSUME NEW w \in Worker, Victim(w) \/ Rollback(w) PROVE IInv'
  BY <1>4, UndoOK DEF Victim, Rollback
<1> QED
  BY <1>1, <1>2, <1>3, <1>4 DEF Next

\* The invariant holds throughout.
LEMMA IInvHolds == Spec => []IInv
  BY InitIInv, StepIInv, PTL DEF Spec

\* The state keeps its types, and a locked row belongs to a running request.
THEOREM TypeCorrect == Spec => []TypeOK
<1>1. IInv => TypeOK
  BY DEF IInv
<1> QED
  BY <1>1, IInvHolds, PTL

\* However sales, purchases, transfers and adjustments interleave, fail and are
\* rolled back, the stock of a store that had a row is what the inventory ledger
\* and the transfers say of it.
THEOREM StoreStockIsLedger == Spec => []StoreLedger
<1>1. IInv => StoreLedger
  BY DEF IInv
<1> QED
  BY <1>1, IInvHolds, PTL

\* A transfer commits only what its source still had, an adjustment leaves the
\* counted quantity and books exactly the change it made.
THEOREM LockedReadsHold == Spec => LockedReadHolds
<1>1. IInv /\ [Next]_vars =>
        [\A w \in Worker : Commit(w) =>
           LET r == tx[w].req
               sp == <<r.store, r.lines[1].p>>
           IN  /\ r.kind = "transfer" => qty'[sp] >= 0
               /\ r.kind = "adjust" => /\ qty'[sp] = r.lines[1].q
                                       /\ ledger'[sp] - ledger[sp] = qty'[sp] - qty[sp]]_vars
  <2> SUFFICES ASSUME IInv, NEW w \in Worker, Commit(w)
               PROVE  LET r == tx[w].req
                          sp == Source(r)
                      IN  /\ r.kind = "transfer" => qty'[sp] >= 0
                          /\ r.kind = "adjust" =>
                               /\ qty'[sp] = First(r).q
                               /\ ledger'[sp] - ledger[sp] = qty'[sp] - qty[sp]
    BY DEF Source, First
  <2> DEFINE r == tx[w].req  sp == Source(r)  q == First(r).q
  <2>1. /\ r \in Request /\ tx[w].done = Len(Script(r)) /\ TxOK(w) /\ sp \in Place
        /\ q \in Nat /\ tx[w].seen \in Int
    BY Committed, RowsTyped, LinesTyped DEF IInv, TypeOK
  <2>2. /\ qty[sp] \in Int /\ ledger[sp] \in Int
        /\ qty'[sp] = qty[sp] + tx[w].pend.qty[sp]
        /\ ledger'[sp] = ledger[sp] + tx[w].pend.ledger[sp]
    BY <2>1, Committed
  <2>3. CASE r.kind = "transfer"
    <3>1. tx[w].done = 4
      BY <2>1, <2>3, TransferScript
    <3>2. tx[w].pend.qty[sp] = -q /\ qty[sp] >= q
      BY <2>1, <2>3, <3>1 DEF TxOK, TransferOK
    <3> QED
      BY <2>1, <2>2, <2>3, <3>2
  <2>4. CASE r.kind = "adjust"
    <3>1. tx[w].done = 4
      BY <2>1, <2>4, AdjustScript
    <3>2. /\ tx[w].pend.qty[sp] = q - tx[w].seen /\ qty[sp] = tx[w].seen
          /\ tx[w].pend.ledger[sp] = q - tx[w].seen
      BY <2>1, <2>4, <3>1 DEF TxOK, AdjustOK
    <3> QED
      BY <2>1, <2>2, <2>4, <3>2
  <2> QED
    BY <2>3, <2>4
<1> QED
  BY <1>1, IInvHolds, PTL DEF Spec, LockedReadHolds
-----------------------------------------------------------------------------
(* Company stock and transfers, which are sums over the stores.             *)

\* The stores' places of a product.
At(p) == {sp \in Place : sp[2] = p}

\* Statement m follows statement c as the movement of a store follows that of
\* the company, or the correction of the company that of a store.
SameMovement(c, m) == m.p = c.p /\ m.q = c.q

\* Sales and purchases move the company's stock and then, by the same quantity
\* of the same product, a store's.
Paired(r) ==
    \A n \in 1 .. Len(Script(r)) :
        LET c == Script(r)[n] IN
        /\ c.op = "product" =>
              /\ n < Len(Script(r))
              /\ Script(r)[n + 1].op \in {"update", "merge"}
              /\ SameMovement(c, Script(r)[n + 1])
        /\ c.op \in {"update", "merge"} =>
              n > 1 /\ Script(r)[n - 1].op = "product" /\ SameMovement(Script(r)[n - 1], c)

\* Where a movement is among the movements.
LEMMA MovementAt ==
    ASSUME NEW r \in Request, NEW op \in {"update", "merge"}, NEW sign \in {1, -1},
           NEW i \in 1 .. 2 * Len(r.lines)
    PROVE  LET m == Movements(r, op, sign)
           IN  /\ Len(m) = 2 * Len(r.lines)
               /\ m[i] = Stmt(IF i % 2 = 1 THEN "product" ELSE op, r.store,
                              r.lines[(i + 1) \div 2].p, sign * r.lines[(i + 1) \div 2].q)
<1>1. 2 * Len(r.lines) \in Nat
  BY LinesTyped
<1> QED
  BY <1>1 DEF Movements

\* Numbers and checks come before the movements.
LEMMA Composed ==
    ASSUME NEW r \in Request, r.kind \notin {"transfer", "adjust"}
    PROVE  \E before \in Seq(PlainStmt), op \in {"update", "merge"}, sign \in {1, -1} :
              /\ Script(r) = before \o Movements(r, op, sign)
              /\ \A n \in 1 .. Len(before) : before[n].op \in {"number", "check"}
<1>1. /\ Number(r) \in Seq(PlainStmt) /\ Len(Number(r)) = 1 /\ Number(r)[1].op = "number"
  BY NumberTyped DEF Number, Stmt
<1>2. /\ Checks(r) \in Seq(PlainStmt)
      /\ \A n \in 1 .. Len(Checks(r)) : Checks(r)[n].op = "check"
  BY ChecksTyped, LinesTyped DEF Checks, Stmt
<1>3. r.kind \in {"pos", "invoice", "purchase"}
  BY LinesTyped DEF Kind
<1> DEFINE Quiet(s) == s \in Seq(PlainStmt)
                       /\ \A n \in 1 .. Len(s) : s[n].op \in {"number", "check"}
<1>4. Quiet(Number(r))
  BY <1>1
<1>5. Quiet(Checks(r))
  BY <1>2
<1>6. ASSUME NEW s, NEW t, Quiet(s), Quiet(t) PROVE Quiet(s \o t)
  <2>1. /\ s \o t \in Seq(PlainStmt) /\ Len(s \o t) = Len(s) + Len(t)
        /\ Len(s) \in Nat /\ Len(t) \in Nat
        /\ \A n \in 1 .. Len(s) + Len(t) :
              (s \o t)[n] = IF n <= Len(s) THEN s[n] ELSE t[n - Len(s)]
    BY <1>6, ConcatProperties
  <2> QED
    BY <1>6, <2>1
<1> HIDE DEF Quiet
<1>7. CASE r.kind = "pos"
  <2>1. Script(r) = (Number(r) \o Checks(r)) \o Movements(r, "update", -1)
    BY <1>7 DEF Script, PosSale
  <2>2. Quiet(Number(r) \o Checks(r))
    BY <1>4, <1>5, <1>6
  <2> QED
    BY <2>1, <2>2 DEF Quiet
<1>8. CASE r.kind = "invoice"
  <2>1. Script(r) = (Checks(r) \o Number(r)) \o Movements(r, "update", -1)
    BY <1>8 DEF Script, SalesInvoice
  <2>2. Quiet(Checks(r) \o Number(r))
    BY <1>4, <1>5, <1>6
  <2> QED
    BY <2>1, <2>2 DEF Quiet
<1>9. CASE r.kind = "purchase"
  <2>1. Script(r) = Number(r) \o Movements(r, "merge", 1)
    BY <1>9 DEF Script, Purchase
  <2> QED
    BY <1>4, <2>1 DEF Quiet
<1> QED
  BY <1>3, <1>7, <1>8, <1>9

\* So they pair them.
LEMMA Pairing ==
    ASSUME NEW r \in Request, r.kind \notin {"transfer", "adjust"}
    PROVE  Paired(r)
<1>1. PICK before \in Seq(PlainStmt), op \in {"update", "merge"}, sign \in {1, -1} :
         /\ Script(r) = before \o Movements(r, op, sign)
         /\ \A n \in 1 .. Len(before) : before[n].op \in {"number", "check"}
  BY Composed
<1> DEFINE m == Movements(r, op, sign)  a == Len(before)  k == Len(r.lines)
           e(i) == r.lines[(i + 1) \div 2]
<1>2. /\ a \in Nat /\ k \in Nat \ {0} /\ m \in Seq(PlainStmt)
  BY LinesTyped, MovementsTyped
<1>3. /\ Len(m) = 2 * k
      /\ \A i \in 1 .. 2 * k : /\ m[i].op = IF i % 2 = 1 THEN "product" ELSE op
                               /\ m[i].p = e(i).p /\ m[i].q = sign * e(i).q
  <2>1. 1 \in 1 .. 2 * k
    BY <1>2
  <2>2. Len(m) = 2 * k
    BY <2>1, MovementAt
  <2>3. ASSUME NEW i \in 1 .. 2 * k
        PROVE  /\ m[i].op = IF i % 2 = 1 THEN "product" ELSE op
               /\ m[i].p = e(i).p /\ m[i].q = sign * e(i).q
    <3>1. m[i] = Stmt(IF i % 2 = 1 THEN "product" ELSE op, r.store, e(i).p, sign * e(i).q)
      BY MovementAt
    <3> HIDE DEF m, e
    <3> QED
      BY <3>1 DEF Stmt
  <2> QED
    BY <2>2, <2>3
<1>4. \A i \in 1 .. 2 * k : i % 2 = 1 => i + 1 \in 1 .. 2 * k /\ (i + 1) % 2 # 1 /\ e(i + 1) = e(i)
  <2> SUFFICES ASSUME NEW i \in 1 .. 2 * k, i % 2 = 1
               PROVE  i + 1 \in 1 .. 2 * k /\ (i + 1) % 2 # 1 /\ e(i + 1) = e(i)
    OBVIOUS
  <2>1. i + 1 \in 1 .. 2 * k /\ (i + 1) % 2 # 1 /\ (i + 2) \div 2 = (i + 1) \div 2
    BY <1>2
  <2> QED
    BY <2>1
<1>5. \A i \in 1 .. 2 * k : i % 2 # 1 => i - 1 \in 1 .. 2 * k /\ (i - 1) % 2 = 1 /\ e(i - 1) = e(i)
  <2> SUFFICES ASSUME NEW i \in 1 .. 2 * k, i % 2 # 1
               PROVE  i - 1 \in 1 .. 2 * k /\ (i - 1) % 2 = 1 /\ e(i - 1) = e(i)
    OBVIOUS
  <2>1. i - 1 \in 1 .. 2 * k /\ (i - 1) % 2 = 1 /\ i \div 2 = (i + 1) \div 2
    BY <1>2
  <2> QED
    BY <2>1
<1> HIDE DEF e, m
<1>6. /\ Len(Script(r)) = a + 2 * k
      /\ \A n \in 1 .. a + 2 * k : Script(r)[n] = IF n <= a THEN before[n] ELSE m[n - a]
  <2>1. Script(r) = before \o m
    BY <1>1 DEF m
  <2>2. /\ Len(before \o m) = a + Len(m)
        /\ \A n \in 1 .. a + Len(m) : (before \o m)[n] = IF n <= a THEN before[n] ELSE m[n - a]
    BY <1>2, ConcatProperties
  <2> QED
    BY <1>3, <2>1, <2>2
<1> SUFFICES ASSUME NEW n \in 1 .. a + 2 * k, n > a
             PROVE  LET c == Script(r)[n] IN
                    /\ c.op = "product" =>
                          /\ n < Len(Script(r))
                          /\ Script(r)[n + 1].op \in {"update", "merge"}
                          /\ SameMovement(c, Script(r)[n + 1])
                    /\ c.op \in {"update", "merge"} =>
                          /\ n > 1 /\ Script(r)[n - 1].op = "product"
                          /\ SameMovement(Script(r)[n - 1], c)
  <2>1. \A n \in 1 .. a + 2 * k : ~(n > a) =>
           Script(r)[n].op \notin {"product", "update", "merge"}
    <3> SUFFICES ASSUME NEW n \in 1 .. a + 2 * k, ~(n > a)
                 PROVE  Script(r)[n].op \in {"number", "check"}
      OBVIOUS
    <3>1. n \in 1 .. a /\ n <= a
      BY <1>2
    <3> QED
      BY <1>1, <1>6, <3>1
  <2> QED
    BY <1>6, <2>1 DEF Paired
<1>7. n - a \in 1 .. 2 * k /\ Script(r)[n] = m[n - a]
  BY <1>2, <1>6
<1>8. CASE (n - a) % 2 = 1
  <2>1. /\ n - a + 1 \in 1 .. 2 * k /\ (n - a + 1) % 2 # 1 /\ e(n - a + 1) = e(n - a)
    BY <1>4, <1>7, <1>8
  <2>2. /\ n + 1 \in 1 .. a + 2 * k /\ n < a + 2 * k /\ (n + 1) - a = n - a + 1 /\ n + 1 > a
    BY <1>2, <2>1
  <2>3. Script(r)[n + 1] = m[n - a + 1]
    BY <1>2, <1>6, <2>2
  <2>4. m[n - a].op = "product" /\ m[n - a + 1].op = op
    BY <1>3, <1>7, <1>8, <2>1
  <2>5. SameMovement(m[n - a], m[n - a + 1])
    BY <1>3, <1>7, <2>1 DEF SameMovement
  <2> QED
    BY <1>6, <1>7, <2>2, <2>3, <2>4, <2>5
<1>9. CASE (n - a) % 2 # 1
  <2>1. /\ n - a - 1 \in 1 .. 2 * k /\ (n - a - 1) % 2 = 1 /\ e(n - a - 1) = e(n - a)
    BY <1>5, <1>7, <1>9
  <2>2. /\ n - 1 \in 1 .. a + 2 * k /\ n > 1 /\ (n - 1) - a = n - a - 1 /\ n - 1 > a
    BY <1>2, <2>1
  <2>3. Script(r)[n - 1] = m[n - a - 1]
    BY <1>2, <1>6, <2>2
  <2>4. m[n - a].op = op /\ m[n - a - 1].op = "product"
    BY <1>3, <1>7, <1>9, <2>1
  <2>5. SameMovement(m[n - a - 1], m[n - a])
    BY <1>3, <1>7, <2>1 DEF SameMovement
  <2> QED
    BY <1>6, <1>7, <2>2, <2>3, <2>4, <2>5
<1> QED
  BY <1>8, <1>9

\* The statement a request has run last.
Last(w) == Script(tx[w].req)[tx[w].done]

\* By how much the company's stock of p is ahead of the ledgers after it: a
\* store's movement, or the company's correction, is still to come.
DueAfter(c, seen, p) ==
    IF p # c.p THEN 0
    ELSE IF c.op = "product" THEN c.q
    ELSE IF c.op = "set" THEN seen - c.q
    ELSE 0
Due(w, p) ==
    IF tx[w].req \in Request /\ tx[w].done > 0 THEN DueAfter(Last(w), tx[w].seen, p) ELSE 0

\* What a running request will have added to the company's stock of p is what
\* it will have added to the ledgers of its stores.
CompanyOK(w) ==
    \A p \in Product :
        tx[w].pend.stock[p] = SumFunctionOnSet(tx[w].pend.ledger, At(p)) + Due(w, p)

\* What a transfer has taken from one store and not yet given to the other.
OnItsWay(w, p) ==
    IF /\ tx[w].req \in Request /\ tx[w].req.kind = "transfer"
       /\ tx[w].done = 3 /\ First(tx[w].req).p = p
    THEN First(tx[w].req).q ELSE 0
TransitOK(w) ==
    \A p \in Product : SumFunctionOnSet(tx[w].pend.moved, At(p)) + OnItsWay(w, p) = 0

SumsOK(w) == CompanyOK(w) /\ TransitOK(w)
SumsInv == CompanyLedger /\ TransfersBalance /\ \A w \in Worker : SumsOK(w)

\* A product has finitely many places.
LEMMA AtFinite ==
    ASSUME NEW p \in Product
    PROVE  /\ IsFiniteSet(At(p)) /\ At(p) \subseteq Place
           /\ \A s \in Store : <<s, p>> \in At(p)
           /\ \A x \in Product, s \in Store : <<s, x>> \in At(p) => x = p
<1>1. At(p) = Store \X {p}
  BY DEF At, Place
<1>2. IsFiniteSet(Store) /\ IsFiniteSet({p})
  BY StockPostingAssumption, FS_Singleton
<1>3. IsFiniteSet(At(p))
  BY <1>1, <1>2, FS_Product
<1> QED
  BY <1>1, <1>3 DEF At, Place

\* How the statement that comes and the one before it go together.
LEMMA Sequel ==
    ASSUME NEW w \in Worker, HasNext(w)
    PROVE  LET c == Current(w)  n == tx[w].done IN
           /\ c \in AnyStmt /\ n > 0 => Last(w) \in AnyStmt
           /\ c.op \in {"update", "merge"} =>
                n > 0 /\ Last(w).op = "product" /\ SameMovement(Last(w), c)
           /\ c.op = "correct" => n > 0 /\ Last(w).op = "set" /\ SameMovement(Last(w), c)
           /\ c.op \notin {"update", "merge"} /\ n > 0 => Last(w).op # "product"
           /\ c.op # "correct" /\ n > 0 => Last(w).op # "set"
<1> DEFINE c == Current(w)  r == tx[w].req  n == tx[w].done  l == Script(r)[n]
<1>1. r \in Request /\ n \in Nat /\ n < Len(Script(r)) /\ c = Script(r)[n + 1] /\ Last(w) = l
  BY DEF HasNext, Current, Last
<1>2. n > 0 => n - 1 \in Nat /\ n - 1 < Len(Script(r)) /\ l = Script(r)[(n - 1) + 1]
  <2>1. Len(Script(r)) \in Nat
    <3>1. r.kind \notin {"transfer", "adjust"} => Script(r) \in Seq(PlainStmt)
      BY <1>1, PlainScript
    <3> QED
      BY <1>1, <3>1, TransferScript, AdjustScript
  <2> QED
    BY <1>1, <2>1
<1> HIDE DEF c, r, n, l
<1>3. CASE r.kind = "transfer"
  <2>1. /\ c \in AnyStmt /\ c.op \in {"number", "reserve", "move"}
        /\ n > 0 => l \in AnyStmt /\ l.op \in {"number", "reserve", "move"}
    BY <1>1, <1>2, <1>3, TransferStmt
  <2> QED
    BY <1>1, <2>1 DEF c, n
<1>4. CASE r.kind = "adjust"
  <2>1. /\ Script(r)[1] = Stmt("number", r.store, First(r).p, 0)
        /\ Script(r)[2] = Stmt("count", r.store, First(r).p, First(r).q)
        /\ Script(r)[3] = Stmt("set", r.store, First(r).p, First(r).q)
        /\ Script(r)[4] = Stmt("correct", r.store, First(r).p, First(r).q)
        /\ n = 0 \/ n = 1 \/ n = 2 \/ n = 3
    BY <1>1, <1>4, AdjustScript
  <2>2. c \in AnyStmt /\ (n > 0 => l \in AnyStmt)
    BY <1>1, <1>2, <1>4, AdjustStmt
  <2>3. /\ n = 0 => c.op = "number"
        /\ n = 1 => c.op = "count" /\ l.op = "number"
        /\ n = 2 => c.op = "set" /\ l.op = "count"
        /\ n = 3 => c.op = "correct" /\ l.op = "set" /\ SameMovement(l, c)
    BY <1>1, <2>1 DEF Stmt, SameMovement, l
  <2> QED
    BY <1>1, <2>1, <2>2, <2>3 DEF c, n
<1>5. CASE r.kind \notin {"transfer", "adjust"}
  <2>1. /\ c \in AnyStmt /\ c.op \in PlainOp
        /\ n > 0 => l \in AnyStmt /\ l.op \in PlainOp
    BY <1>1, <1>2, <1>5, PlainStatement
  <2>2. Paired(r)
    BY <1>1, <1>5, Pairing
  <2>3. Len(Script(r)) \in Nat
    BY <1>1, <1>5, PlainScript
  <2>4. c.op \in {"update", "merge"} => n > 0 /\ l.op = "product" /\ SameMovement(l, c)
    <3>1. n + 1 \in 1 .. Len(Script(r)) /\ (n + 1) - 1 = n
      BY <1>1, <2>3
    <3> QED
      BY <1>1, <2>2, <3>1 DEF Paired, l
  <2>5. n > 0 /\ l.op = "product" => c.op \in {"update", "merge"}
    <3>1. n > 0 => n \in 1 .. Len(Script(r))
      BY <1>1, <2>3
    <3> QED
      BY <1>1, <2>2, <3>1 DEF Paired, l
  <2> QED
    BY <1>1, <2>1, <2>4, <2>5 DEF PlainOp, c, n
<1> QED
  BY <1>3, <1>4, <1>5

\* What is due before a statement is what it will settle.
LEMMA DueNow ==
    ASSUME NEW w \in Worker, HasNext(w), NEW p \in Product
    PROVE  Due(w, p) = IF p # Current(w).p THEN 0
                       ELSE IF Current(w).op \in {"update", "merge"} THEN Current(w).q
                       ELSE IF Current(w).op = "correct" THEN tx[w].seen - Current(w).q
                       ELSE 0
<1>1. tx[w].req \in Request /\ tx[w].done \in Nat
  BY DEF HasNext
<1> QED
  BY <1>1, Sequel DEF Due, DueAfter, SameMovement

\* And after it, what it leaves to the next one.
LEMMA DueNext ==
    ASSUME NEW w \in Worker, HasNext(w), NEW p \in Product,
           tx'[w].req = tx[w].req, tx'[w].done = tx[w].done + 1
    PROVE  Due(w, p)' = DueAfter(Current(w), tx'[w].seen, p)
<1>1. tx[w].req \in Request /\ tx[w].done \in Nat /\ tx[w].done + 1 > 0
  BY DEF HasNext
<1>2. Last(w)' = Current(w)
  BY DEF Last, Current
<1> QED
  BY <1>1, <1>2 DEF Due

\* A change at one place changes the sum of its product.
LEMMA SumAtPlace ==
    ASSUME NEW f \in [Place -> Int], NEW g \in [Place -> Int], NEW sp \in Place, NEW d \in Int,
           \A at \in Place : g[at] = f[at] + (IF at = sp THEN d ELSE 0), NEW p \in Product
    PROVE  /\ SumFunctionOnSet(f, At(p)) \in Int
           /\ SumFunctionOnSet(g, At(p))
                = SumFunctionOnSet(f, At(p)) + (IF p = sp[2] THEN d ELSE 0)
<1>1. /\ IsFiniteSet(At(p)) /\ At(p) \subseteq Place
      /\ \A x \in At(p) : f[x] \in Int /\ g[x] \in Int
  BY AtFinite
<1>2. SumFunctionOnSet(f, At(p)) \in Int
  BY <1>1, SumByChoice
<1>3. CASE p = sp[2]
  <2>1. sp \in At(p)
    BY <1>3 DEF At
  <2>2. \A x \in At(p) \ {sp} : g[x] = f[x]
    BY <1>1
  <2>3. SumFunctionOnSet(g, At(p)) = SumFunctionOnSet(f, At(p)) + (g[sp] - f[sp])
    BY <1>1, <2>1, <2>2, SumChange
  <2>4. g[sp] - f[sp] = d
    BY <1>1, <2>1
  <2> QED
    BY <1>2, <1>3, <2>3, <2>4
<1>4. CASE p # sp[2]
  <2>1. \A x \in At(p) : f[x] \in Int /\ f[x] = g[x]
    BY <1>1, <1>4 DEF At
  <2>2. SumFunctionOnSet(f, At(p)) = SumFunctionOnSet(g, At(p))
    BY <1>1, <2>1, SumAgrees
  <2> QED
    BY <1>2, <1>4, <2>2
<1> QED
  BY <1>2, <1>3, <1>4

\* What a statement adds to the company's stock, to a ledger, to the transfers.
ToStock(c, seen) ==
    IF c.op = "product" THEN c.q ELSE IF c.op = "correct" THEN c.q - seen ELSE 0
ToLedger(c, seen) ==
    IF c.op \in {"update", "merge"} THEN c.q ELSE IF c.op = "set" THEN c.q - seen ELSE 0
ToMoved(c) == IF c.op = "move" THEN c.q ELSE 0

\* The current statement of w is run.
Done(w) ==
    LET c == Current(w)  seen == tx[w].seen  old == tx[w].pend  new == tx'[w].pend IN
    /\ HasNext(w) /\ old \in Writes /\ new \in Writes
    /\ tx'[w].req = tx[w].req /\ tx'[w].done = tx[w].done + 1
    /\ c.op # "count" => tx'[w].seen = seen
    /\ \A p \in Product : new.stock[p] = old.stock[p] + (IF p = c.p THEN ToStock(c, seen) ELSE 0)
    /\ \A sp \in Place :
          /\ new.ledger[sp] = old.ledger[sp] + (IF sp = Of(c) THEN ToLedger(c, seen) ELSE 0)
          /\ new.moved[sp] = old.moved[sp] + (IF sp = Of(c) THEN ToMoved(c) ELSE 0)

\* What is on its way changes with the legs of a transfer.
LEMMA TransitNext ==
    ASSUME NEW w \in Worker, HasNext(w), NEW p \in Product,
           tx'[w].req = tx[w].req, tx'[w].done = tx[w].done + 1
    PROVE  /\ OnItsWay(w, p) \in Int
           /\ OnItsWay(w, p)'
                = OnItsWay(w, p) - (IF p = Current(w).p THEN ToMoved(Current(w)) ELSE 0)
<1> DEFINE c == Current(w)  r == tx[w].req  n == tx[w].done
<1>1. r \in Request /\ n \in Nat /\ n < Len(Script(r)) /\ c = Script(r)[n + 1]
  BY DEF HasNext, Current
<1>2. First(r).q \in Nat /\ r.kind \in Kind
  BY <1>1, LinesTyped
<1>3. CASE r.kind = "transfer"
  <2>1. /\ Script(r)[1] = Stmt("number", r.store, First(r).p, 0)
        /\ Script(r)[2] = Stmt("reserve", r.store, First(r).p, First(r).q)
        /\ Script(r)[3] = Stmt("move", r.store, First(r).p, -First(r).q)
        /\ Script(r)[4] = Stmt("move", r.to, First(r).p, First(r).q)
        /\ Len(Script(r)) = 4
    BY <1>1, <1>3, TransferScript
  <2> HIDE DEF c, n, r
  <2>5. n = 0 \/ n = 1 \/ n = 2 \/ n = 3
    BY <1>1, <2>1
  <2>2. /\ n = 0 \/ n = 1 => ToMoved(c) = 0
        /\ n = 2 => ToMoved(c) = -First(r).q /\ c.p = First(r).p
        /\ n = 3 => ToMoved(c) = First(r).q /\ c.p = First(r).p
    BY <1>1, <2>1 DEF Stmt, ToMoved
  <2> USE DEF n, r
  <2>3. OnItsWay(w, p) = IF n = 3 /\ First(r).p = p THEN First(r).q ELSE 0
    BY <1>1, <1>3 DEF OnItsWay
  <2>4. OnItsWay(w, p)' = IF n + 1 = 3 /\ First(r).p = p THEN First(r).q ELSE 0
    BY <1>1, <1>3 DEF OnItsWay
  <2> HIDE DEF n, r
  <2> QED
    BY <1>2, <2>2, <2>3, <2>4, <2>5 DEF c
<1>4. CASE r.kind # "transfer"
  <2>1. ToMoved(c) = 0
    BY <1>1, <1>4, CurrentTyped DEF ToMoved, PlainOp
  <2>2. OnItsWay(w, p) = 0 /\ OnItsWay(w, p)' = 0
    BY <1>4 DEF OnItsWay
  <2> QED
    BY <2>1, <2>2
<1> QED
  BY <1>3, <1>4

\* A statement keeps the sums of its transaction.
LEMMA DoneOK ==
    ASSUME NEW w \in Worker, Done(w), SumsOK(w), tx[w].seen \in Int PROVE SumsOK(w)'
<1> DEFINE c == Current(w)  seen == tx[w].seen  old == tx[w].pend  new == tx'[w].pend
<1>1. /\ HasNext(w) /\ c \in AnyStmt /\ Of(c) \in Place /\ Of(c)[2] = c.p
      /\ tx'[w].req = tx[w].req /\ tx'[w].done = tx[w].done + 1
  <2>1. HasNext(w) /\ c \in AnyStmt /\ tx'[w].req = tx[w].req /\ tx'[w].done = tx[w].done + 1
    BY CurrentTyped DEF Done
  <2> QED
    BY <2>1 DEF AnyStmt, Of, Place
<1>2. /\ c.p \in Product /\ c.q \in Int
      /\ c.op \in PlainOp \cup {"reserve", "move", "count", "set", "correct"}
  BY <1>1 DEF AnyStmt
<1>3. /\ old.stock \in [Product -> Int] /\ old.ledger \in [Place -> Int]
      /\ old.moved \in [Place -> Int] /\ new.stock \in [Product -> Int]
      /\ new.ledger \in [Place -> Int] /\ new.moved \in [Place -> Int]
  BY DEF Done, Writes
<1>4. ToStock(c, seen) \in Int /\ ToLedger(c, seen) \in Int /\ ToMoved(c) \in Int
  BY <1>2 DEF ToStock, ToLedger, ToMoved
<1> HIDE DEF c
<1>5. /\ \A p \in Product : new.stock[p] = old.stock[p] + (IF p = c.p THEN ToStock(c, seen) ELSE 0)
      /\ \A sp \in Place :
            new.ledger[sp] = old.ledger[sp] + (IF sp = Of(c) THEN ToLedger(c, seen) ELSE 0)
      /\ \A sp \in Place : new.moved[sp] = old.moved[sp] + (IF sp = Of(c) THEN ToMoved(c) ELSE 0)
      /\ c.op # "count" => tx'[w].seen = seen
  BY DEF Done, c
<1> HIDE DEF old, new, seen
<1>6. ASSUME NEW p \in Product PROVE new.stock[p] = SumFunctionOnSet(new.ledger, At(p)) + Due(w, p)'
  <2> DEFINE s == SumFunctionOnSet(old.ledger, At(p))
  <2>1. /\ s \in Int
        /\ SumFunctionOnSet(new.ledger, At(p)) = s + (IF p = c.p THEN ToLedger(c, seen) ELSE 0)
    <3> DEFINE d == ToLedger(c, seen)  sp == Of(c)  f == old.ledger  g == new.ledger
    <3>1. /\ f \in [Place -> Int] /\ g \in [Place -> Int] /\ sp \in Place /\ sp[2] = c.p
          /\ d \in Int /\ \A at \in Place : g[at] = f[at] + (IF at = sp THEN d ELSE 0)
      BY <1>1, <1>3, <1>4, <1>5
    <3> HIDE DEF d, sp, f, g
    <3>2. /\ SumFunctionOnSet(f, At(p)) \in Int
          /\ SumFunctionOnSet(g, At(p))
               = SumFunctionOnSet(f, At(p)) + (IF p = sp[2] THEN d ELSE 0)
      BY <3>1, SumAtPlace
    <3> QED
      BY <3>1, <3>2 DEF d, f, g
  <2>2. old.stock[p] = s + Due(w, p)
    BY DEF SumsOK, CompanyOK, old
  <2>3. Due(w, p) = IF p # c.p THEN 0
                    ELSE IF c.op \in {"update", "merge"} THEN c.q
                    ELSE IF c.op = "correct" THEN seen - c.q ELSE 0
    BY <1>1, DueNow DEF c, seen
  <2>4. Due(w, p)' = DueAfter(c, tx'[w].seen, p)
    BY <1>1, DueNext DEF c
  <2>5. seen \in Int
    BY DEF seen
  <2> HIDE DEF s
  <2>6. CASE p # c.p
    BY <1>5, <2>1, <2>2, <2>3, <2>4, <2>6, <1>3 DEF DueAfter
  <2>7. CASE p = c.p
    <3>1. Due(w, p) \in Int /\ Due(w, p)' = Due(w, p) + ToStock(c, seen) - ToLedger(c, seen)
      BY <1>2, <1>5, <2>3, <2>4, <2>5, <2>7 DEF DueAfter, ToStock, ToLedger
    <3> QED
      BY <1>3, <1>4, <1>5, <2>1, <2>2, <2>7, <3>1
  <2> QED
    BY <2>6, <2>7
<1>7. ASSUME NEW p \in Product PROVE SumFunctionOnSet(new.moved, At(p)) + OnItsWay(w, p)' = 0
  <2> DEFINE s == SumFunctionOnSet(old.moved, At(p))
  <2>1. /\ s \in Int
        /\ SumFunctionOnSet(new.moved, At(p)) = s + (IF p = c.p THEN ToMoved(c) ELSE 0)
    <3> DEFINE d == ToMoved(c)  sp == Of(c)  f == old.moved  g == new.moved
    <3>1. /\ f \in [Place -> Int] /\ g \in [Place -> Int] /\ sp \in Place /\ sp[2] = c.p
          /\ d \in Int /\ \A at \in Place : g[at] = f[at] + (IF at = sp THEN d ELSE 0)
      BY <1>1, <1>3, <1>4, <1>5
    <3> HIDE DEF d, sp, f, g
    <3>2. /\ SumFunctionOnSet(f, At(p)) \in Int
          /\ SumFunctionOnSet(g, At(p))
               = SumFunctionOnSet(f, At(p)) + (IF p = sp[2] THEN d ELSE 0)
      BY <3>1, SumAtPlace
    <3> QED
      BY <3>1, <3>2 DEF d, f, g
  <2>2. s + OnItsWay(w, p) = 0
    BY DEF SumsOK, TransitOK, old
  <2>3. /\ OnItsWay(w, p) \in Int
        /\ OnItsWay(w, p)' = OnItsWay(w, p) - (IF p = c.p THEN ToMoved(c) ELSE 0)
    BY <1>1, TransitNext DEF c
  <2> HIDE DEF s
  <2> QED
    BY <1>4, <2>1, <2>2, <2>3
<1> QED
  BY <1>6, <1>7 DEF SumsOK, CompanyOK, TransitOK, new

\* A statement that writes P, adding what it should to the sums' terms, is done.
LEMMA WrittenDone ==
    ASSUME IInv, NEW w \in Worker, NEW ops, Runs(w, ops), NEW P \in Writes, Advance(w, P),
           \A p \in Product :
              P.stock[p] = tx[w].pend.stock[p]
                + (IF p = Current(w).p THEN ToStock(Current(w), tx[w].seen) ELSE 0),
           \A sp \in Place :
              /\ P.ledger[sp] = tx[w].pend.ledger[sp]
                   + (IF sp = Spot(w) THEN ToLedger(Current(w), tx[w].seen) ELSE 0)
              /\ P.moved[sp] = tx[w].pend.moved[sp]
                   + (IF sp = Spot(w) THEN ToMoved(Current(w)) ELSE 0)
    PROVE  Done(w)
<1>1. InTx(w) /\ HasNext(w) /\ tx[w].pend \in Writes
  BY RunsNext
<1>2. tx'[w] = [req |-> tx[w].req, done |-> tx[w].done + 1, seen |-> tx[w].seen, pend |-> P]
  BY <1>1, Advanced
<1>3. /\ tx'[w].req = tx[w].req /\ tx'[w].done = tx[w].done + 1 /\ tx'[w].seen = tx[w].seen
      /\ tx'[w].pend = P
  BY <1>2
<1>4. Spot(w) = Of(Current(w))
  BY DEF Spot, Of
<1> QED
  BY <1>1, <1>3, <1>4 DEF Done

\* A statement that neither writes the company's stock, a ledger nor a transfer.
LEMMA QuietDone ==
    ASSUME IInv, NEW w \in Worker, NEW ops, Runs(w, ops),
           Current(w).op \in {"number", "check", "reserve", "count"},
           tx'[w].pend = tx[w].pend, tx'[w].req = tx[w].req,
           tx'[w].done = tx[w].done + 1,
           Current(w).op # "count" => tx'[w].seen = tx[w].seen
    PROVE  Done(w)
<1>1. HasNext(w) /\ tx[w].pend \in Writes
  BY RunsNext
<1>2. /\ \A p \in Product : tx[w].pend.stock[p] \in Int
      /\ \A sp \in Place : tx[w].pend.ledger[sp] \in Int /\ tx[w].pend.moved[sp] \in Int
  BY <1>1 DEF Writes
<1>3. /\ ToStock(Current(w), tx[w].seen) = 0 /\ ToLedger(Current(w), tx[w].seen) = 0
      /\ ToMoved(Current(w)) = 0
  BY DEF ToStock, ToLedger, ToMoved
<1> QED
  BY <1>1, <1>2, <1>3 DEF Done

\* What a statement inside a transaction leaves alone.
Inside(w) == UNCHANGED books /\ \A v \in Worker \ {w} : tx'[v] = tx[v]

\* So does a request that goes on to its next statement.
LEMMA AdvanceInside ==
    ASSUME IInv, NEW w \in Worker, NEW P, Advance(w, P) PROVE Inside(w)
<1>1. tx \in [Worker -> TxType]
  BY DEF IInv, TypeOK, TxType
<1> QED
  BY <1>1 DEF Advance, Inside

\* Drawing a number, a check, a reservation and a count add nothing.
LEMMA QuietRun ==
    ASSUME IInv, NEW w \in Worker,
           DrawNumber(w) \/ CheckStock(w) \/ Reserve(w) \/ Count(w)
    PROVE  Done(w) /\ Inside(w)
<1>1. CASE DrawNumber(w) \/ Reserve(w)
  <2>1. /\ Runs(w, {"number", "reserve"}) /\ Advance(w, tx[w].pend)
    BY <1>1 DEF DrawNumber, Reserve, Runs
  <2>2. InTx(w) /\ HasNext(w) /\ tx[w].pend \in Writes /\ Current(w).op \in {"number", "reserve"}
    BY <2>1, RunsNext
  <2>3. tx'[w] = [req |-> tx[w].req, done |-> tx[w].done + 1, seen |-> tx[w].seen,
                  pend |-> tx[w].pend]
    BY <2>1, <2>2, Advanced
  <2>4. /\ tx'[w].req = tx[w].req /\ tx'[w].done = tx[w].done + 1
        /\ tx'[w].seen = tx[w].seen /\ tx'[w].pend = tx[w].pend
    BY <2>3
  <2> QED
    BY <2>1, <2>2, <2>4, QuietDone, AdvanceInside
<1>2. CASE CheckStock(w) \/ Count(w)
  <2>1. Runs(w, {"check", "count"}) /\ UNCHANGED books
    BY <1>2 DEF CheckStock, Count, Runs
  <2>2. /\ tx \in [Worker -> TxType] /\ tx[w] \in TxType
        /\ Current(w).op \in {"check", "count"} /\ qty[Spot(w)] \in Int
    BY <2>1, RunsNext
  <2>3. PICK u \in {tx[w], [tx[w] EXCEPT !.seen = qty[Spot(w)]]} :
          /\ Current(w).op # "count" => u = tx[w]
          /\ tx' = [tx EXCEPT ![w] = [u EXCEPT !.done = @ + 1]]
    <3>1. CASE CheckStock(w)
      <4>1. tx' = [tx EXCEPT ![w] = [tx[w] EXCEPT !.done = @ + 1]]
        BY <3>1 DEF CheckStock
      <4> QED
        BY <4>1
    <3>2. CASE Count(w)
      <4>1. Current(w).op = "count"
        BY <3>2 DEF Count, Runs
      <4> DEFINE u == [tx[w] EXCEPT !.seen = qty[Spot(w)]]
      <4>2. tx' = [tx EXCEPT ![w] = [tx[w] EXCEPT !.done = @ + 1, !.seen = qty[Spot(w)]]]
        BY <3>2 DEF Count
      <4>3. [u EXCEPT !.done = @ + 1]
              = [tx[w] EXCEPT !.done = @ + 1, !.seen = qty[Spot(w)]]
        BY <2>2 DEF TxType
      <4> QED
        BY <4>1, <4>2, <4>3
    <3> QED
      BY <1>2, <3>1, <3>2
  <2>4. /\ u \in TxType /\ u.req = tx[w].req /\ u.pend = tx[w].pend /\ u.done = tx[w].done
    BY <2>2, <2>3 DEF TxType
  <2>5. /\ tx'[w].req = u.req /\ tx'[w].done = u.done + 1 /\ tx'[w].pend = u.pend
        /\ tx'[w].seen = u.seen /\ \A v \in Worker \ {w} : tx'[v] = tx[v]
    BY <2>2, <2>3, <2>4 DEF TxType
  <2>6. Done(w)
    BY <2>1, <2>2, <2>3, <2>4, <2>5, QuietDone
  <2> QED
    BY <2>1, <2>5, <2>6 DEF Inside
<1> QED
  BY <1>1, <1>2

\* The company's stock is written.
LEMMA ProductRun ==
    ASSUME IInv, NEW w \in Worker, WriteProduct(w) \/ CorrectProduct(w)
    PROVE  Done(w) /\ Inside(w)
<1> DEFINE old == tx[w].pend  c == Current(w)  by == ToStock(c, tx[w].seen)
           ns == [old.stock EXCEPT ![c.p] = @ + by]
           P == [old EXCEPT !.stock = ns]
<1>1. /\ Runs(w, {"product", "correct"}) /\ Advance(w, P)
      /\ c.op \in {"product", "correct"}
  BY DEF WriteProduct, CorrectProduct, Runs, ToStock
<1>2. /\ old \in Writes /\ c.p \in Product /\ c.q \in Int /\ tx[w].seen \in Int
  BY <1>1, RunsNext DEF TxType
<1>3. by \in Int
  BY <1>1, <1>2 DEF ToStock
<1>4. /\ old.stock \in [Product -> Int]
      /\ \A sp \in Place : old.ledger[sp] \in Int /\ old.moved[sp] \in Int
  BY <1>2 DEF Writes
<1> HIDE DEF by
<1>5. ns \in [Product -> Int]
  BY <1>2, <1>3, <1>4
<1>6. \A p \in Product : ns[p] = old.stock[p] + (IF p = c.p THEN by ELSE 0)
  BY <1>2, <1>3, <1>4
<1> HIDE DEF ns, P
<1>7. P \in Writes /\ P.stock = ns /\ P.ledger = old.ledger /\ P.moved = old.moved
  BY <1>2, <1>5 DEF P, Writes
<1>8. ToLedger(c, tx[w].seen) = 0 /\ ToMoved(c) = 0
  BY <1>1 DEF ToLedger, ToMoved
<1>9. Done(w)
  BY <1>1, <1>4, <1>6, <1>7, <1>8, WrittenDone DEF by
<1> QED
  BY <1>1, <1>9, AdvanceInside

\* A ledger is written, with or without a store's stock.
LEMMA LedgerDone ==
    ASSUME IInv, NEW w \in Worker, NEW ops, Runs(w, ops), NEW P,
           Current(w).op \in {"update", "merge", "set"},
           P.stock = tx[w].pend.stock, P.moved = tx[w].pend.moved,
           P.ledger = [tx[w].pend.ledger EXCEPT
                          ![Spot(w)] = @ + ToLedger(Current(w), tx[w].seen)]
    PROVE  /\ \A p \in Product :
                 P.stock[p] = tx[w].pend.stock[p]
                   + (IF p = Current(w).p THEN ToStock(Current(w), tx[w].seen) ELSE 0)
           /\ \A sp \in Place :
                 /\ P.ledger[sp] = tx[w].pend.ledger[sp]
                      + (IF sp = Spot(w) THEN ToLedger(Current(w), tx[w].seen) ELSE 0)
                 /\ P.moved[sp] = tx[w].pend.moved[sp]
                      + (IF sp = Spot(w) THEN ToMoved(Current(w)) ELSE 0)
<1> DEFINE old == tx[w].pend  c == Current(w)  by == ToLedger(c, tx[w].seen)
<1>1. /\ old \in Writes /\ c.q \in Int /\ tx[w].seen \in Int /\ Spot(w) \in Place
  BY RunsNext DEF TxType
<1>2. by \in Int
  BY <1>1 DEF ToLedger
<1>3. /\ old.ledger \in [Place -> Int] /\ \A p \in Product : old.stock[p] \in Int
      /\ \A sp \in Place : old.moved[sp] \in Int
  BY <1>1 DEF Writes
<1>4. ToStock(c, tx[w].seen) = 0 /\ ToMoved(c) = 0
  BY DEF ToStock, ToMoved
<1> HIDE DEF by
<1>5. \A sp \in Place : P.ledger[sp] = old.ledger[sp] + (IF sp = Spot(w) THEN by ELSE 0)
  BY <1>1, <1>2, <1>3 DEF by
<1> QED
  BY <1>3, <1>4, <1>5 DEF by

\* A purchase's MERGE, an adjustment's UPDATE, and a sale's where there is a row.
LEMMA LedgerRun ==
    ASSUME IInv, NEW w \in Worker,
           MergeStore(w) \/ SetStore(w) \/ (UpdateStore(w) /\ Spot(w) \in rowed)
    PROVE  Done(w) /\ Inside(w)
<1> DEFINE old == tx[w].pend  c == Current(w)  by == ToLedger(c, tx[w].seen)
           nl == [old.ledger EXCEPT ![Spot(w)] = @ + by]
<1>1. /\ Runs(w, {"update", "merge", "set"}) /\ c.op \in {"update", "merge", "set"}
  BY DEF MergeStore, SetStore, UpdateStore, Runs
<1>2. /\ old \in Writes /\ c.q \in Int /\ tx[w].seen \in Int /\ Spot(w) \in Place
      /\ qty \in [Place -> Int]
  BY <1>1, RunsNext DEF TxType
<1>3. /\ old.ledger \in [Place -> Int] /\ old.qty \in [Place -> Int]
      /\ old.rowed \in SUBSET Place
  BY <1>2 DEF Writes
<1>4. by \in Int
  BY <1>2 DEF ToLedger
<1>5. PICK nq \in [Place -> Int], nr \in SUBSET Place :
        Advance(w, [old EXCEPT !.qty = nq, !.ledger = nl, !.rowed = nr])
  <2>1. CASE MergeStore(w)
    <3> DEFINE nq == [old.qty EXCEPT ![Spot(w)] = @ + c.q]  nr == old.rowed \cup {Spot(w)}
    <3>1. nq \in [Place -> Int] /\ nr \in SUBSET Place
      BY <1>2, <1>3
    <3>2. by = c.q
      BY <2>1 DEF MergeStore, Runs, ToLedger
    <3>3. Advance(w, [old EXCEPT !.qty = nq, !.ledger = nl, !.rowed = nr])
      BY <2>1, <3>2 DEF MergeStore
    <3> QED
      BY <3>1, <3>3
  <2>2. CASE SetStore(w)
    <3> DEFINE nq == [old.qty EXCEPT ![Spot(w)] = c.q - qty[Spot(w)]]  nr == old.rowed
    <3>1. nq \in [Place -> Int] /\ nr \in SUBSET Place
      BY <1>2, <1>3
    <3>2. by = c.q - tx[w].seen
      BY <2>2 DEF SetStore, Runs, ToLedger
    <3>3. Advance(w, [old EXCEPT !.qty = nq, !.ledger = nl])
      BY <2>2, <3>2 DEF SetStore
    <3> HIDE DEF nq, nl
    <3>4. [old EXCEPT !.qty = nq, !.ledger = nl]
            = [old EXCEPT !.qty = nq, !.ledger = nl, !.rowed = nr]
      BY <1>2 DEF Writes
    <3> QED
      BY <3>1, <3>3, <3>4
  <2>3. CASE UpdateStore(w) /\ Spot(w) \in rowed
    <3> DEFINE nq == [old.qty EXCEPT ![Spot(w)] = @ + c.q]  nr == old.rowed
    <3>1. nq \in [Place -> Int] /\ nr \in SUBSET Place
      BY <1>2, <1>3
    <3>2. by = c.q
      BY <2>3 DEF UpdateStore, Runs, ToLedger
    <3>3. Advance(w, [old EXCEPT !.qty = nq, !.ledger = nl])
      BY <2>3, <3>2 DEF UpdateStore
    <3> HIDE DEF nq, nl
    <3>4. [old EXCEPT !.qty = nq, !.ledger = nl]
            = [old EXCEPT !.qty = nq, !.ledger = nl, !.rowed = nr]
      BY <1>2 DEF Writes
    <3> QED
      BY <3>1, <3>3, <3>4
  <2> QED
    BY <2>1, <2>2, <2>3
<1> DEFINE P == [old EXCEPT !.qty = nq, !.ledger = nl, !.rowed = nr]
<1>6. nl \in [Place -> Int]
  BY <1>2, <1>3, <1>4
<1> HIDE DEF nl
<1>7. P \in Writes /\ P.stock = old.stock /\ P.ledger = nl /\ P.moved = old.moved
  BY <1>2, <1>6 DEF Writes
<1> HIDE DEF P
<1>8. Advance(w, P)
  BY <1>5 DEF P
<1>9. Done(w)
  BY <1>1, <1>7, <1>8, LedgerDone, WrittenDone DEF nl
<1> QED
  BY <1>8, <1>9, AdvanceInside

\* A sale where the store has no row writes the ledger only.
LEMMA NoRowRun ==
    ASSUME IInv, NEW w \in Worker, UpdateStore(w), Spot(w) \notin rowed
    PROVE  Done(w) /\ Inside(w)
<1> DEFINE old == tx[w].pend  sp == Spot(w)  q == Current(w).q
           nl == [old.ledger EXCEPT ![sp] = @ + q]
           P == [old EXCEPT !.ledger = nl]
<1>1. /\ HasNext(w) /\ Current(w).op = "update" /\ Runs(w, {"update"})
      /\ old \in Writes /\ tx[w] \in TxType /\ tx \in [Worker -> TxType]
      /\ sp \in Place /\ q \in Int
  BY RunsNext DEF UpdateStore
<1>2. /\ tx' = [tx EXCEPT ![w].done = @ + 1, ![w].pend.ledger[sp] = @ + q]
      /\ UNCHANGED books
  BY DEF UpdateStore
<1>3. tx' = [tx EXCEPT ![w] = [tx[w] EXCEPT !.done = tx[w].done + 1, !.pend = P]]
  BY <1>2
<1>4. nl \in [Place -> Int]
  BY <1>1 DEF Writes
<1> HIDE DEF nl, P
<1>5. P \in Writes /\ P.stock = old.stock /\ P.ledger = nl /\ P.moved = old.moved
  BY <1>1, <1>4 DEF Writes, P
<1>6. [tx[w] EXCEPT !.done = tx[w].done + 1, !.pend = P]
        = [req |-> tx[w].req, done |-> tx[w].done + 1, seen |-> tx[w].seen, pend |-> P]
  BY <1>1, <1>5, NextTx
<1>7. /\ tx'[w].req = tx[w].req /\ tx'[w].done = tx[w].done + 1
      /\ tx'[w].seen = tx[w].seen /\ tx'[w].pend = P
      /\ \A v \in Worker \ {w} : tx'[v] = tx[v]
  BY <1>1, <1>3, <1>6
<1>8. ToLedger(Current(w), tx[w].seen) = q /\ Spot(w) = Of(Current(w))
  BY <1>1 DEF ToLedger, Spot, Of
<1>9. Done(w)
  BY <1>1, <1>5, <1>7, <1>8, LedgerDone DEF Done, nl
<1> QED
  BY <1>2, <1>7, <1>9 DEF Inside

\* A leg of a transfer.
LEMMA MoveRun ==
    ASSUME IInv, NEW w \in Worker, MoveStore(w) PROVE Done(w) /\ Inside(w)
<1> DEFINE old == tx[w].pend  sp == Spot(w)  q == Current(w).q
           nq == [old.qty EXCEPT ![sp] = @ + q]
           nm == [old.moved EXCEPT ![sp] = @ + q]
           nr == old.rowed \cup {sp}
           P == [old EXCEPT !.qty = nq, !.moved = nm, !.rowed = nr]
<1>1. /\ Current(w).op = "move" /\ Runs(w, {"move"}) /\ old \in Writes /\ sp \in Place
      /\ q \in Int /\ Advance(w, P)
  BY RunsNext DEF MoveStore
<1>2. /\ old.qty \in [Place -> Int] /\ old.moved \in [Place -> Int]
      /\ old.rowed \in SUBSET Place /\ \A at \in Place : old.ledger[at] \in Int
      /\ \A p \in Product : old.stock[p] \in Int
  BY <1>1 DEF Writes
<1>3. /\ nq \in [Place -> Int] /\ nm \in [Place -> Int] /\ nr \in SUBSET Place
  BY <1>1, <1>2
<1>4. \A at \in Place : nm[at] = old.moved[at] + (IF at = sp THEN q ELSE 0)
  BY <1>1, <1>2
<1> HIDE DEF nq, nm, nr, P
<1>5. P \in Writes /\ P.stock = old.stock /\ P.ledger = old.ledger /\ P.moved = nm
  BY <1>1, <1>3 DEF P, Writes
<1>6. /\ ToMoved(Current(w)) = q /\ ToStock(Current(w), tx[w].seen) = 0
      /\ ToLedger(Current(w), tx[w].seen) = 0
  BY <1>1 DEF ToMoved, ToStock, ToLedger
<1>7. Done(w)
  BY <1>1, <1>2, <1>4, <1>5, <1>6, WrittenDone
<1> QED
  BY <1>1, <1>7, AdvanceInside

\* At the end of a script nothing is due and nothing on its way.
LEMMA NothingDue ==
    ASSUME NEW w \in Worker, tx[w].req \in Request, tx[w].done = Len(Script(tx[w].req))
    PROVE  \A p \in Product : Due(w, p) = 0 /\ OnItsWay(w, p) = 0
<1> DEFINE r == tx[w].req  n == tx[w].done
<1>1. CASE r.kind = "transfer"
  <2>1. n = 4 /\ Last(w) = Stmt("move", r.to, First(r).p, First(r).q)
    BY <1>1, TransferScript DEF Last
  <2> QED
    BY <2>1 DEF Due, DueAfter, OnItsWay, Stmt
<1>2. CASE r.kind = "adjust"
  <2>1. n = 4 /\ Last(w) = Stmt("correct", r.store, First(r).p, First(r).q)
    BY <1>2, AdjustScript DEF Last
  <2> QED
    BY <1>2, <2>1 DEF Due, DueAfter, OnItsWay, Stmt
<1>3. CASE r.kind \notin {"transfer", "adjust"}
  <2>1. Script(r) \in Seq(PlainStmt) /\ Paired(r)
    BY <1>3, PlainScript, Pairing
  <2>2. n \in Nat /\ (n > 0 => n \in 1 .. Len(Script(r)) /\ ~(n < Len(Script(r))))
    BY <2>1
  <2>3. n > 0 => Last(w) \in PlainStmt
    BY <2>1, <2>2, ElementOfSeq DEF Last
  <2>4. n > 0 => Last(w).op # "set"
    BY <2>3 DEF PlainStmt, PlainOp
  <2>5. n > 0 => Last(w).op # "product"
    BY <2>1, <2>2 DEF Paired, Last
  <2> QED
    BY <1>3, <2>2, <2>4, <2>5 DEF Due, DueAfter, OnItsWay
<1> QED
  BY <1>1, <1>2, <1>3

\* A transaction that has run nothing adds nothing to the sums.
FreshOnes ==
    \A w \in Worker : tx[w].pend = NoWrites /\ tx[w].done = 0 => SumsOK(w)
\* It is so in every state.
LEMMA FreshSums == FreshOnes
<1> SUFFICES ASSUME NEW w \in Worker, tx[w].pend = NoWrites, tx[w].done = 0,
                    NEW p \in Product
             PROVE  /\ tx[w].pend.stock[p] = SumFunctionOnSet(tx[w].pend.ledger, At(p)) + Due(w, p)
                    /\ SumFunctionOnSet(tx[w].pend.moved, At(p)) + OnItsWay(w, p) = 0
  BY DEF FreshOnes, SumsOK, CompanyOK, TransitOK
<1>1. /\ NoWrites.ledger = Zero /\ NoWrites.moved = Zero /\ NoWrites.stock[p] = 0
  BY DEF NoWrites
<1>2. \A sp \in At(p) : Zero[sp] = 0
  BY AtFinite DEF Zero
<1>3. SumFunctionOnSet(Zero, At(p)) = 0
  BY <1>2, AtFinite, SumOfZeros
<1>4. Due(w, p) = 0 /\ OnItsWay(w, p) = 0
  BY DEF Due, OnItsWay
<1>5. /\ tx[w].pend.stock[p] = 0 /\ SumFunctionOnSet(tx[w].pend.ledger, At(p)) = 0
      /\ SumFunctionOnSet(tx[w].pend.moved, At(p)) = 0
  BY <1>1, <1>3
<1> QED
  BY <1>4, <1>5

\* What is known of a transaction depends on it alone.
LEMMA SameSums ==
    ASSUME NEW v \in Worker, SumsOK(v), tx'[v] = tx[v] PROVE SumsOK(v)'
<1>1. \A p \in Product : Due(v, p)' = Due(v, p) /\ OnItsWay(v, p)' = OnItsWay(v, p)
  BY DEF Due, OnItsWay, Last
<1> QED
  BY <1>1 DEF SumsOK, CompanyOK, TransitOK

\* A commit adds the pending sums to those of the books.
LEMMA CommitSums ==
    ASSUME IInv, SumsInv, NEW w \in Worker, Commit(w)
    PROVE  CompanyLedger' /\ TransfersBalance'
<1> DEFINE pend == tx[w].pend
<1>1. /\ InTx(w) /\ tx[w].done = Len(Script(tx[w].req))
      /\ stock' = [p \in Product |-> stock[p] + pend.stock[p]]
      /\ ledger' = [sp \in Place |-> ledger[sp] + pend.ledger[sp]]
      /\ moved' = [sp \in Place |-> moved[sp] + pend.moved[sp]]
  BY DEF Commit
<1>2. tx[w].req \in Request /\ tx[w] \in TxType
  BY <1>1, Running
<1>3. SumsOK(w)
  BY DEF SumsInv
<1>4. \A p \in Product : Due(w, p) = 0 /\ OnItsWay(w, p) = 0
  BY <1>1, <1>2, NothingDue
<1>5. /\ pend.stock \in [Product -> Int] /\ pend.ledger \in [Place -> Int]
      /\ pend.moved \in [Place -> Int] /\ stock \in [Product -> Int]
      /\ ledger \in [Place -> Int] /\ moved \in [Place -> Int]
      /\ OpeningStock \in [Product -> Int]
  BY <1>2, StockPostingAssumption DEF TxType, Writes, IInv, TypeOK
<1>6. /\ \A p \in Product : pend.stock[p] = SumFunctionOnSet(pend.ledger, At(p)) + Due(w, p)
      /\ \A p \in Product : SumFunctionOnSet(pend.moved, At(p)) + OnItsWay(w, p) = 0
  BY <1>3 DEF SumsOK, CompanyOK, TransitOK
<1> HIDE DEF pend
<1> SUFFICES ASSUME NEW p \in Product
             PROVE  /\ stock'[p] = OpeningStock[p] + SumFunctionOnSet(ledger', At(p))
                    /\ SumFunctionOnSet(moved', At(p)) = 0
  BY DEF CompanyLedger, TransfersBalance, At
<1>7. IsFiniteSet(At(p)) /\ At(p) \subseteq Place
  BY AtFinite
<1>8. /\ \A at \in At(p) : ledger[at] \in Int /\ pend.ledger[at] \in Int
      /\ \A at \in At(p) : ledger'[at] = ledger[at] + pend.ledger[at]
      /\ \A at \in At(p) : moved[at] \in Int /\ pend.moved[at] \in Int
      /\ \A at \in At(p) : moved'[at] = moved[at] + pend.moved[at]
  BY <1>1, <1>5, <1>7
<1>9. SumFunctionOnSet(ledger', At(p))
        = SumFunctionOnSet(ledger, At(p)) + SumFunctionOnSet(pend.ledger, At(p))
  BY <1>7, <1>8, SumOfSums
<1>10. SumFunctionOnSet(moved', At(p))
         = SumFunctionOnSet(moved, At(p)) + SumFunctionOnSet(pend.moved, At(p))
  BY <1>7, <1>8, SumOfSums
<1>11. /\ SumFunctionOnSet(ledger, At(p)) \in Int
       /\ SumFunctionOnSet(pend.ledger, At(p)) \in Int
       /\ SumFunctionOnSet(pend.moved, At(p)) \in Int
  BY <1>7, <1>8, SumByChoice
<1>12. /\ stock[p] = OpeningStock[p] + SumFunctionOnSet(ledger, At(p))
       /\ SumFunctionOnSet(moved, At(p)) = 0
  BY DEF SumsInv, CompanyLedger, TransfersBalance, At
<1>13. /\ pend.stock[p] = SumFunctionOnSet(pend.ledger, At(p)) + 0
       /\ SumFunctionOnSet(pend.moved, At(p)) + 0 = 0
  BY <1>4, <1>6
<1>14. stock'[p] = stock[p] + pend.stock[p] /\ stock[p] \in Int /\ OpeningStock[p] \in Int
  BY <1>1, <1>5
<1> QED
  BY <1>9, <1>10, <1>11, <1>12, <1>13, <1>14

\* Books that stay have the sums they had.
LEMMA SameBooks ==
    ASSUME CompanyLedger, TransfersBalance, UNCHANGED books
    PROVE  CompanyLedger' /\ TransfersBalance'
  BY DEF CompanyLedger, TransfersBalance, books

\* Nothing is in the ledgers at the start.
LEMMA InitSums == Init => SumsInv
<1> SUFFICES ASSUME Init PROVE SumsInv
  OBVIOUS
<1>1. /\ stock = OpeningStock /\ ledger = Zero /\ moved = Zero
      /\ \A w \in Worker : tx[w].pend = NoWrites /\ tx[w].done = 0
  BY DEF Init, Idle
<1>2. \A w \in Worker : SumsOK(w)
  BY <1>1, FreshSums DEF FreshOnes
<1>3. ASSUME NEW p \in Product PROVE SumFunctionOnSet(Zero, At(p)) = 0
  <2>1. \A sp \in At(p) : Zero[sp] = 0
    BY AtFinite DEF Zero
  <2> QED
    BY <2>1, AtFinite, SumOfZeros
<1>4. \A p \in Product : OpeningStock[p] \in Int
  BY StockPostingAssumption
<1>5. CompanyLedger /\ TransfersBalance
  BY <1>1, <1>3, <1>4 DEF CompanyLedger, TransfersBalance, At
<1> QED
  BY <1>2, <1>5 DEF SumsInv

\* Every step keeps the sums.
LEMMA StepSums == IInv /\ SumsInv /\ [Next]_vars => SumsInv'
<1> SUFFICES ASSUME IInv, SumsInv, [Next]_vars PROVE SumsInv'
  OBVIOUS
<1>1. /\ CompanyLedger /\ TransfersBalance /\ \A w \in Worker : SumsOK(w)
      /\ tx \in [Worker -> TxType]
  BY DEF SumsInv, IInv, TypeOK, TxType
<1>2. CASE UNCHANGED vars
  <2>1. UNCHANGED books /\ tx' = tx
    BY <1>2 DEF vars, books
  <2> QED
    BY <1>1, <2>1, SameBooks, SameSums DEF SumsInv
<1>3. ASSUME NEW w \in Worker, Done(w), Inside(w) PROVE SumsInv'
  <2>1. tx[w].seen \in Int
    BY <1>1 DEF TxType
  <2>2. SumsOK(w)'
    BY <1>1, <1>3, <2>1, DoneOK
  <2>3. CompanyLedger' /\ TransfersBalance' /\ \A v \in Worker \ {w} : SumsOK(v)'
    BY <1>1, <1>3, SameBooks, SameSums DEF Inside
  <2> QED
    BY <2>2, <2>3 DEF SumsInv
<1>4. ASSUME NEW w \in Worker, NEW t, t.pend = NoWrites, t.done = 0,
             tx' = [tx EXCEPT ![w] = t]
      PROVE  \A v \in Worker : SumsOK(v)'
  <2>1. (tx[w].pend = NoWrites)' /\ (tx[w].done = 0)' /\ \A v \in Worker \ {w} : tx'[v] = tx[v]
    BY <1>1, <1>4
  <2>4. FreshOnes'
    BY FreshSums, PTL
  <2>2. SumsOK(w)'
    BY <2>1, <2>4 DEF FreshOnes
  <2>3. \A v \in Worker \ {w} : SumsOK(v)'
    BY <1>1, <2>1, SameSums
  <2> QED
    BY <2>2, <2>3
<1>5. Idle.pend = NoWrites /\ Idle.done = 0
  BY DEF Idle
<1>6. ASSUME NEW w \in Worker, NEW r \in Request, Begin(w, r) PROVE SumsInv'
  <2> DEFINE t == [Idle EXCEPT !.req = r]
  <2>1. t.pend = NoWrites /\ t.done = 0
    BY DEF Idle
  <2>2. tx' = [tx EXCEPT ![w] = t] /\ UNCHANGED books
    BY <1>6 DEF Begin
  <2> HIDE DEF t
  <2> QED
    BY <1>1, <1>4, <2>1, <2>2, SameBooks DEF SumsInv
<1>7. ASSUME NEW w \in Worker, Undo(w) PROVE SumsInv'
  <2>1. tx' = [tx EXCEPT ![w] = Idle] /\ UNCHANGED books
    BY <1>7 DEF Undo
  <2> QED
    BY <1>1, <1>4, <1>5, <2>1, SameBooks DEF SumsInv
<1>8. ASSUME NEW w \in Worker, Commit(w) PROVE SumsInv'
  <2>1. tx' = [tx EXCEPT ![w] = Idle]
    BY <1>8 DEF Commit
  <2> QED
    BY <1>4, <1>5, <1>8, <2>1, CommitSums DEF SumsInv
<1>9. ASSUME NEW w \in Worker, Run(w) PROVE SumsInv'
  BY <1>3, <1>7, <1>8, <1>9, QuietRun, ProductRun, LedgerRun, NoRowRun, MoveRun
  DEF Run, Refuse
<1>10. ASSUME NEW w \in Worker, Victim(w) \/ Rollback(w) PROVE SumsInv'
  BY <1>7, <1>10 DEF Victim, Rollback
<1> QED
  BY <1>2, <1>6, <1>9, <1>10 DEF Next

\* The sums hold throughout.
LEMMA SumsHold == Spec => []SumsInv
  BY IInvHolds, InitSums, StepSums, PTL DEF Spec

\* Products.StockOnHand is what the inventory ledgers of all stores add up to,
\* whatever sales, purchases and adjustments ran at once or rolled back.
THEOREM CompanyStockIsLedger == Spec => []CompanyLedger
<1>1. SumsInv => CompanyLedger
  BY DEF SumsInv
<1> QED
  BY <1>1, SumsHold, PTL

\* No transfer, finished or rolled back half way, creates or loses stock.
THEOREM TransfersAddUp == Spec => []TransfersBalance
<1>1. SumsInv => TransfersBalance
  BY DEF SumsInv
<1> QED
  BY <1>1, SumsHold, PTL
-----------------------------------------------------------------------------
(* Stock never below zero, where only tills sell.                          *)

\* The place line i of a sale takes from.
Sold(r, i) == <<r.store, r.lines[i].p>>

\* A sale that has drawn its number holds the POS series; what it has checked
\* is there, and what it has updated is what it sells.
SaleOK(w) ==
    tx[w].req \in Request /\ tx[w].req.kind = "pos" =>
        LET r == tx[w].req
            n == Len(r.lines)
            d == tx[w].done
        IN  /\ d > 0 => owner[SeriesRow("pos")] = w
            /\ \A i \in 1 .. n :
                  /\ d > i => qty[Sold(r, i)] >= r.lines[i].q
                  /\ tx[w].pend.qty[Sold(r, i)] = IF d > n + 2 * i THEN -r.lines[i].q ELSE 0
            /\ \A sp \in Place :
                  (\A i \in 1 .. n : sp # Sold(r, i)) => tx[w].pend.qty[sp] = 0

\* A purchase takes from nowhere.
PurchaseOK(w) ==
    tx[w].req \in Request /\ tx[w].req.kind = "purchase" =>
        \A sp \in Place : tx[w].pend.qty[sp] >= 0

TillsInv ==
    /\ TillsOnly
    /\ \A sp \in Place : qty[sp] >= 0
    /\ \A w \in Worker : SaleOK(w) /\ PurchaseOK(w)

\* What a sale runs, statement by statement.
LEMMA SaleScript ==
    ASSUME NEW r \in Request, r.kind = "pos"
    PROVE  LET n == Len(r.lines) IN
           /\ Len(Script(r)) = 1 + n + 2 * n
           /\ \A k \in 1 .. 1 + n + 2 * n :
                Script(r)[k] = IF k = 1 THEN Stmt("number", r.store, First(r).p, 0)
                               ELSE IF k <= 1 + n
                               THEN Stmt("check", r.store, r.lines[k - 1].p, r.lines[k - 1].q)
                               ELSE Movements(r, "update", -1)[k - (1 + n)]
<1> DEFINE n == Len(r.lines)  m == Movements(r, "update", -1)  a == Number(r)  b == Checks(r)
<1>1. n \in Nat \ {0} /\ DOMAIN r.lines = 1 .. n
  BY LinesTyped
<1>2. Script(r) = (a \o b) \o m
  BY DEF Script, PosSale
<1>3. a \in Seq(PlainStmt) /\ b \in Seq(PlainStmt) /\ m \in Seq(PlainStmt)
  BY NumberTyped, ChecksTyped, MovementsTyped
<1>4. Len(a) = 1 /\ a[1] = Stmt("number", r.store, First(r).p, 0)
  BY DEF Number, First
<1>5. Len(b) = n /\ \A i \in 1 .. n : b[i] = Stmt("check", r.store, r.lines[i].p, r.lines[i].q)
  BY <1>1 DEF Checks
<1>6. Len(m) = 2 * n
  <2>1. 1 \in 1 .. 2 * n
    BY <1>1
  <2> QED
    BY <2>1, MovementAt
<1> HIDE DEF n, m, a, b
<1>7. /\ a \o b \in Seq(PlainStmt) /\ Len(a \o b) = 1 + n
      /\ \A k \in 1 .. 1 + n : (a \o b)[k] = IF k <= 1 THEN a[k] ELSE b[k - 1]
  <2>1. /\ a \o b \in Seq(PlainStmt) /\ Len(a \o b) = Len(a) + Len(b)
        /\ \A k \in 1 .. Len(a) + Len(b) :
             (a \o b)[k] = IF k <= Len(a) THEN a[k] ELSE b[k - Len(a)]
    BY <1>3, ConcatProperties
  <2> QED
    BY <1>4, <1>5, <2>1
<1>8. /\ Len((a \o b) \o m) = 1 + n + 2 * n
      /\ \A k \in 1 .. 1 + n + 2 * n :
           ((a \o b) \o m)[k] = IF k <= 1 + n THEN (a \o b)[k] ELSE m[k - (1 + n)]
  <2> DEFINE ab == a \o b
  <2>1. /\ Len(ab \o m) = Len(ab) + Len(m)
        /\ \A k \in 1 .. Len(ab) + Len(m) :
             (ab \o m)[k] = IF k <= Len(ab) THEN ab[k] ELSE m[k - Len(ab)]
    BY <1>3, <1>7, ConcatProperties
  <2> QED
    BY <1>6, <1>7, <2>1
<1>9. ASSUME NEW k \in 1 .. 1 + n + 2 * n
      PROVE  Script(r)[k] = IF k = 1 THEN Stmt("number", r.store, First(r).p, 0)
                            ELSE IF k <= 1 + n
                            THEN Stmt("check", r.store, r.lines[k - 1].p, r.lines[k - 1].q)
                            ELSE m[k - (1 + n)]
  <2>1. CASE k = 1
    <3>1. 1 \in 1 .. 1 + n /\ 1 <= 1 + n /\ 1 <= 1
      BY <1>1
    <3>2. Script(r)[1] = a[1]
      BY <1>2, <1>7, <1>8, <2>1, <3>1
    <3> QED
      BY <1>4, <2>1, <3>2
  <2>2. CASE k # 1 /\ k <= 1 + n
    <3>1. k - 1 \in 1 .. n /\ k \in 1 .. 1 + n /\ ~(k <= 1)
      BY <1>1, <2>2
    <3>2. Script(r)[k] = b[k - 1]
      BY <1>2, <1>7, <1>8, <2>2, <3>1
    <3> QED
      BY <1>5, <2>2, <3>1, <3>2
  <2>3. CASE ~(k <= 1 + n)
    <3>1. k # 1
      BY <1>1, <2>3
    <3> QED
      BY <1>2, <1>8, <2>3, <3>1
  <2> QED
    BY <2>1, <2>2, <2>3
<1> QED
  BY <1>2, <1>8, <1>9 DEF n, m

\* The current statement of a sale, by how many went before it.
LEMMA SaleStmt ==
    ASSUME NEW w \in Worker, HasNext(w), tx[w].req.kind = "pos"
    PROVE  LET r == tx[w].req  n == Len(r.lines)  d == tx[w].done  c == Current(w) IN
           \/ d = 0 /\ c.op = "number"
           \/ d \in 1 .. n /\ c.op = "check" /\ Of(c) = Sold(r, d) /\ c.q = r.lines[d].q
           \/ \E i \in 1 .. n : d = n + 2 * i - 1 /\ c.op = "product"
           \/ \E i \in 1 .. n : /\ d = n + 2 * i /\ c.op = "update"
                                /\ Of(c) = Sold(r, i) /\ c.q = -r.lines[i].q
<1> DEFINE r == tx[w].req  n == Len(r.lines)  d == tx[w].done  c == Current(w)
<1>1. r \in Request /\ d \in Nat /\ d < Len(Script(r)) /\ c = Script(r)[d + 1] /\ r.kind = "pos"
  BY DEF HasNext, Current
<1> HIDE DEF r, d, c
<1>2. n \in Nat \ {0} /\ \A i \in 1 .. n : r.lines[i].q \in Nat
  BY <1>1, LinesTyped
<1>3. /\ Len(Script(r)) = 1 + n + 2 * n
      /\ \A k \in 1 .. 1 + n + 2 * n :
           Script(r)[k] = IF k = 1 THEN Stmt("number", r.store, First(r).p, 0)
                          ELSE IF k <= 1 + n
                          THEN Stmt("check", r.store, r.lines[k - 1].p, r.lines[k - 1].q)
                          ELSE Movements(r, "update", -1)[k - (1 + n)]
  BY <1>1, SaleScript
<1> HIDE DEF n
<1>4. d + 1 \in 1 .. 1 + n + 2 * n
  BY <1>1, <1>2, <1>3
<1>5. CASE d = 0
  <2>1. d + 1 = 1
    BY <1>5
  <2>2. c = Stmt("number", r.store, First(r).p, 0)
    BY <1>1, <1>3, <1>4, <2>1
  <2>3. c.op = "number"
    BY <2>2 DEF Stmt
  <2> QED
    BY <1>5, <2>3 DEF d, c
<1>6. CASE d \in 1 .. n
  <2>1. d + 1 # 1 /\ d + 1 <= 1 + n /\ (d + 1) - 1 = d
    BY <1>2, <1>6
  <2>2. c = Stmt("check", r.store, r.lines[d].p, r.lines[d].q)
    BY <1>1, <1>3, <1>4, <2>1
  <2>3. c.op = "check" /\ Of(c) = Sold(r, d) /\ c.q = r.lines[d].q
    BY <2>2 DEF Stmt, Of, Sold
  <2> QED
    BY <1>6, <2>3 DEF r, n, d, c
<1>7. CASE d > n
  <2> DEFINE k == d - n  i == (k + 1) \div 2
  <2>1. /\ k \in 1 .. 2 * n /\ i \in 1 .. n /\ ~(d + 1 = 1) /\ ~(d + 1 <= 1 + n)
        /\ (d + 1) - (1 + n) = k
        /\ k % 2 = 1 => d = n + 2 * i - 1
        /\ k % 2 # 1 => d = n + 2 * i
    BY <1>1, <1>2, <1>4, <1>7
  <2>2. c = Movements(r, "update", -1)[k]
    BY <1>1, <1>3, <1>4, <2>1
  <2>3. Movements(r, "update", -1)[k]
          = Stmt(IF k % 2 = 1 THEN "product" ELSE "update", r.store, r.lines[i].p,
                 (-1) * r.lines[i].q)
    BY <1>1, <2>1, MovementAt DEF n
  <2>4. (-1) * r.lines[i].q = -r.lines[i].q
    BY <1>2, <2>1
  <2> HIDE DEF k, i
  <2>5. /\ c.op = IF k % 2 = 1 THEN "product" ELSE "update"
        /\ Of(c) = Sold(r, i) /\ c.q = -r.lines[i].q
    BY <2>2, <2>3, <2>4 DEF Stmt, Of, Sold
  <2> QED
    BY <2>1, <2>5 DEF r, n, d, c
<1>8. d = 0 \/ d \in 1 .. n \/ d > n
  BY <1>1, <1>2
<1> QED
  BY <1>5, <1>6, <1>7, <1>8

\* A purchase adds.
LEMMA PurchaseStmt ==
    ASSUME NEW w \in Worker, HasNext(w), tx[w].req.kind = "purchase"
    PROVE  /\ Current(w).op \in {"number", "product", "merge"}
           /\ Current(w).op = "merge" => Current(w).q \in Nat
<1> DEFINE r == tx[w].req  n == Len(r.lines)  d == tx[w].done  c == Current(w)
           a == Number(r)  m == Movements(r, "merge", 1)
<1>1. r \in Request /\ d \in Nat /\ d < Len(Script(r)) /\ c = Script(r)[d + 1]
  BY DEF HasNext, Current
<1>2. Script(r) = a \o m
  BY DEF Script, Purchase
<1> HIDE DEF r, d, c
<1>3. n \in Nat \ {0} /\ \A i \in 1 .. n : r.lines[i].q \in Nat
  BY <1>1, LinesTyped
<1>4. a \in Seq(PlainStmt) /\ m \in Seq(PlainStmt)
  BY <1>1, NumberTyped, MovementsTyped
<1>5. Len(a) = 1 /\ a[1].op = "number"
  BY DEF Number, Stmt
<1>6. Len(m) = 2 * n
  <2>1. 1 \in 1 .. 2 * n
    BY <1>3
  <2> QED
    BY <1>1, <2>1, MovementAt
<1>7. ASSUME NEW k \in 1 .. 2 * n
      PROVE  m[k].op \in {"product", "merge"} /\ m[k].q \in Nat
  <2> DEFINE i == (k + 1) \div 2
  <2>1. i \in 1 .. n
    BY <1>3, <1>7
  <2>2. m[k] = Stmt(IF k % 2 = 1 THEN "product" ELSE "merge", r.store, r.lines[i].p,
                    1 * r.lines[i].q)
    BY <1>1, <1>7, MovementAt
  <2>3. 1 * r.lines[i].q \in Nat
    BY <1>3, <2>1
  <2> HIDE DEF m, i
  <2> QED
    BY <2>2, <2>3 DEF Stmt
<1> HIDE DEF n, a, m
<1>8. /\ Len(a \o m) = 1 + 2 * n
      /\ \A k \in 1 .. 1 + 2 * n : (a \o m)[k] = IF k <= 1 THEN a[k] ELSE m[k - 1]
  <2>1. /\ Len(a \o m) = Len(a) + Len(m)
        /\ \A k \in 1 .. Len(a) + Len(m) :
             (a \o m)[k] = IF k <= Len(a) THEN a[k] ELSE m[k - Len(a)]
    BY <1>4, ConcatProperties
  <2> QED
    BY <1>5, <1>6, <2>1
<1>9. CASE d = 0
  <2>1. c = a[1]
    BY <1>1, <1>2, <1>3, <1>8, <1>9
  <2> QED
    BY <1>5, <2>1 DEF c
<1>10. CASE d > 0
  <2>1. d + 1 \in 1 .. 1 + 2 * n /\ d \in 1 .. 2 * n /\ ~(d + 1 <= 1) /\ (d + 1) - 1 = d
    BY <1>1, <1>2, <1>3, <1>8, <1>10
  <2>2. c = m[d]
    BY <1>1, <1>2, <1>8, <2>1
  <2> QED
    BY <1>7, <2>1, <2>2 DEF c
<1> QED
  BY <1>1, <1>9, <1>10

\* The current statement of w is run, under locks and on stock that are there.
Takes(w) ==
    LET c == Current(w)  old == tx[w].pend.qty  new == tx'[w].pend.qty IN
    /\ HasNext(w) /\ old \in [Place -> Int] /\ UNCHANGED qty
    /\ tx'[w].req = tx[w].req /\ tx'[w].done = tx[w].done + 1
    /\ c.op \in {"number", "check", "product"} => new = old
    /\ c.op \in {"update", "merge"} => new = [old EXCEPT ![Of(c)] = @ + c.q]
    /\ c.op = "number" => owner'[SeriesRow(tx[w].req.kind)] = w
    /\ c.op = "check" /\ Of(c) \in rowed => qty[Of(c)] >= c.q
    /\ \A v \in Worker \ {w} : tx'[v] = tx[v]
    /\ \A v \in Worker, row \in Row : owner[row] = v => owner'[row] = v

\* A statement that takes its row.
LEMMA AdvanceTakes ==
    ASSUME IInv, NEW w \in Worker, NEW ops, Runs(w, ops), NEW P \in Writes, Advance(w, P),
           Current(w).op \in {"number", "product", "update", "merge"},
           Current(w).op \in {"number", "product"} => P.qty = tx[w].pend.qty,
           Current(w).op \in {"update", "merge"} =>
              P.qty = [tx[w].pend.qty EXCEPT ![Spot(w)] = @ + Current(w).q]
    PROVE  Takes(w)
<1>1. /\ InTx(w) /\ HasNext(w) /\ tx[w].pend \in Writes /\ RowOf(w) \in Row
  BY RunsNext, RowTyped
<1>2. /\ tx'[w] = [req |-> tx[w].req, done |-> tx[w].done + 1, seen |-> tx[w].seen, pend |-> P]
      /\ owner'[RowOf(w)] = w /\ UNCHANGED books
  BY <1>1, Advanced
<1>3. /\ tx'[w].req = tx[w].req /\ tx'[w].done = tx[w].done + 1 /\ tx'[w].pend = P
      /\ qty' = qty
  BY <1>2 DEF books
<1>4. /\ tx \in [Worker -> TxType] /\ owner \in [Row -> Worker \cup {Nobody}]
      /\ Nobody \notin Worker /\ tx[w].pend.qty \in [Place -> Int]
  BY <1>1, StockPostingAssumption DEF IInv, TypeOK, TxType, Writes
<1>5. \A v \in Worker \ {w} : tx'[v] = tx[v]
  BY <1>4 DEF Advance
<1>6. \A v \in Worker, row \in Row : owner[row] = v => owner'[row] = v
  BY <1>1, <1>4 DEF Advance, Free
<1>7. Current(w).op = "number" => RowOf(w) = SeriesRow(tx[w].req.kind)
  BY DEF RowOf
<1>8. Spot(w) = Of(Current(w))
  BY DEF Spot, Of
<1> QED
  BY <1>1, <1>2, <1>3, <1>4, <1>5, <1>6, <1>7, <1>8 DEF Takes

\* Tills and the purchase desk run no other statements.
LEMMA TillOps ==
    ASSUME TillsOnly, NEW w \in Worker, HasNext(w)
    PROVE  /\ tx[w].req.kind \in {"pos", "purchase"}
           /\ Current(w).op \in PlainOp
<1>1. tx[w].req.kind \in {"pos", "purchase"}
  BY DEF HasNext, TillsOnly
<1> QED
  BY <1>1, CurrentTyped

\* And their rows are there.
LEMMA TillRows ==
    ASSUME TillsOnly, NEW r \in Request, r.kind = "pos", NEW i \in 1 .. Len(r.lines)
    PROVE  /\ Sold(r, i) \in OpeningRows /\ Sold(r, i) \in Place
           /\ \A j \in 1 .. Len(r.lines) : Sold(r, i) = Sold(r, j) => i = j
<1>1. DOMAIN r.lines = 1 .. Len(r.lines)
  BY LinesTyped
<1>2. Sold(r, i) \in OpeningRows
  BY <1>1 DEF TillsOnly, Sold
<1>3. \A j \in 1 .. Len(r.lines) : Sold(r, i) = Sold(r, j) => r.lines[i].p = r.lines[j].p
  BY DEF Sold
<1> QED
  BY <1>1, <1>2, <1>3, StockPostingAssumption DEF TillsOnly

\* So every statement of theirs is one that takes.
LEMMA TillTakes ==
    ASSUME IInv, TillsOnly, NEW w \in Worker, Run(w)
    PROVE  Takes(w) \/ Commit(w) \/ Undo(w)
<1> DEFINE old == tx[w].pend  c == Current(w)
<1>1. ASSUME NEW ops, Runs(w, ops)
      PROVE  /\ HasNext(w) /\ old \in Writes /\ c.op \in ops \cap PlainOp
             /\ Spot(w) \in Place /\ Spot(w) = Of(c) /\ c.q \in Int
             /\ tx[w] \in TxType /\ tx \in [Worker -> TxType]
             /\ old.qty \in [Place -> Int]
  BY <1>1, RunsNext, TillOps DEF Spot, Of, Writes
<1>2. CASE Reserve(w) \/ Count(w) \/ CorrectProduct(w) \/ SetStore(w) \/ MoveStore(w)
  <2>1. Runs(w, {"reserve", "count", "correct", "set", "move"})
    BY <1>2 DEF Reserve, Count, CorrectProduct, SetStore, MoveStore, Runs
  <2> QED
    BY <1>1, <2>1 DEF PlainOp
<1>3. CASE DrawNumber(w)
  <2>1. Runs(w, {"number"}) /\ Advance(w, old)
    BY <1>3 DEF DrawNumber
  <2>2. c.op = "number" /\ old \in Writes
    BY <1>1, <2>1
  <2>3. Takes(w)
    BY <2>1, <2>2, AdvanceTakes
  <2> QED
    BY <2>3
<1>4. CASE CheckStock(w)
  <2>1. /\ Runs(w, {"check"}) /\ Available(c.s, c.p) >= c.q
        /\ tx' = [tx EXCEPT ![w].done = @ + 1] /\ UNCHANGED <<books, owner, begun>>
    BY <1>4 DEF CheckStock
  <2>2. /\ HasNext(w) /\ c.op = "check" /\ tx \in [Worker -> TxType] /\ tx[w] \in TxType
        /\ old.qty \in [Place -> Int]
    BY <1>1, <2>1
  <2>3. /\ tx'[w].req = tx[w].req /\ tx'[w].done = tx[w].done + 1 /\ tx'[w].pend = old
        /\ \A v \in Worker \ {w} : tx'[v] = tx[v]
    BY <2>1, <2>2 DEF TxType
  <2>4. Of(c) \in rowed => qty[Of(c)] >= c.q
    BY <2>1 DEF Available, Of
  <2> QED
    BY <2>1, <2>2, <2>3, <2>4 DEF Takes, books
<1>5. CASE WriteProduct(w)
  <2> DEFINE ns == [old.stock EXCEPT ![c.p] = @ + c.q]
             P == [old EXCEPT !.stock = ns]
  <2>1. Runs(w, {"product"}) /\ Advance(w, P)
    BY <1>5 DEF WriteProduct
  <2>2. c.p \in Product /\ c.q \in Int /\ old \in Writes /\ c.op = "product"
    BY <2>1, RunsNext
  <2>3. ns \in [Product -> Int]
    BY <2>2 DEF Writes
  <2> HIDE DEF ns
  <2>4. P \in Writes /\ P.qty = old.qty
    BY <2>2, <2>3 DEF Writes
  <2> HIDE DEF P
  <2> QED
    BY <2>1, <2>2, <2>4, AdvanceTakes
<1>6. CASE UpdateStore(w) \/ MergeStore(w)
  <2> DEFINE nq == [old.qty EXCEPT ![Spot(w)] = @ + c.q]
             nl == [old.ledger EXCEPT ![Spot(w)] = @ + c.q]
  <2>1. Runs(w, {"update", "merge"})
    BY <1>6 DEF UpdateStore, MergeStore, Runs
  <2>2. /\ HasNext(w) /\ old \in Writes /\ c.q \in Int /\ Spot(w) \in Place /\ Spot(w) = Of(c)
        /\ c.op \in {"update", "merge"}
    BY <1>1, <2>1
  <2>3. nq \in [Place -> Int] /\ nl \in [Place -> Int]
    BY <2>2 DEF Writes
  <2>4. UpdateStore(w) => Spot(w) \in rowed
    <3>1. UpdateStore(w) => c.op = "update"
      BY DEF UpdateStore, Runs
    <3>2. c.op = "update" => tx[w].req.kind = "pos"
      BY <2>2, TillOps, PurchaseStmt
    <3>3. tx[w].req.kind = "pos" /\ c.op = "update" =>
             \E i \in 1 .. Len(tx[w].req.lines) : Of(c) = Sold(tx[w].req, i)
      BY <2>2, SaleStmt
    <3>4. tx[w].req.kind = "pos" /\ c.op = "update" => Of(c) \in OpeningRows
      BY <2>2, <3>3, TillRows DEF HasNext
    <3> QED
      BY <2>2, <3>1, <3>2, <3>4 DEF IInv
  <2>5. PICK nr \in SUBSET Place :
          Advance(w, [old EXCEPT !.qty = nq, !.ledger = nl, !.rowed = nr])
    <3>1. CASE MergeStore(w)
      <4>1. old.rowed \cup {Spot(w)} \in SUBSET Place
        BY <2>2 DEF Writes
      <4> QED
        BY <3>1, <4>1 DEF MergeStore
    <3>2. CASE UpdateStore(w)
      <4>1. Advance(w, [old EXCEPT !.qty = nq, !.ledger = nl])
        BY <2>4, <3>2 DEF UpdateStore
      <4> HIDE DEF nq, nl
      <4>2. /\ [old EXCEPT !.qty = nq, !.ledger = nl]
                 = [old EXCEPT !.qty = nq, !.ledger = nl, !.rowed = old.rowed]
            /\ old.rowed \in SUBSET Place
        BY <2>2 DEF Writes
      <4> QED
        BY <4>1, <4>2
    <3> QED
      BY <1>6, <3>1, <3>2
  <2> DEFINE P == [old EXCEPT !.qty = nq, !.ledger = nl, !.rowed = nr]
  <2> HIDE DEF nq, nl
  <2>6. P \in Writes /\ P.qty = nq
    BY <2>2, <2>3 DEF Writes
  <2> HIDE DEF P
  <2>7. Advance(w, P)
    BY <2>5 DEF P
  <2> QED
    BY <2>1, <2>2, <2>6, <2>7, AdvanceTakes DEF nq
<1> QED
  BY <1>2, <1>3, <1>4, <1>5, <1>6 DEF Run, Refuse

\* A statement of a sale keeps what is known of it.
LEMMA SaleTakes ==
    ASSUME TillsOnly, OpeningRows \subseteq rowed, NEW w \in Worker, SaleOK(w), Takes(w),
           tx[w].req.kind = "pos"
    PROVE  SaleOK(w)'
<1> DEFINE r == tx[w].req  n == Len(r.lines)  d == tx[w].done  c == Current(w)
           old == tx[w].pend.qty  new == tx'[w].pend.qty
<1>1. /\ HasNext(w) /\ r \in Request /\ d \in Nat /\ old \in [Place -> Int]
      /\ tx'[w].req = r /\ tx'[w].done = d + 1 /\ qty' = qty
      /\ c.op \in {"number", "check", "product"} => new = old
      /\ c.op = "update" => new = [old EXCEPT ![Of(c)] = @ + c.q]
      /\ c.op = "number" => owner'[SeriesRow("pos")] = w
      /\ c.op = "check" /\ Of(c) \in rowed => qty[Of(c)] >= c.q
  BY DEF Takes, HasNext
<1>2. SeriesRow("pos") \in Row /\ n \in Nat /\ \A i \in 1 .. n : r.lines[i].q \in Nat
  BY <1>1, LinesTyped DEF Row, Kind
<1>3. /\ d > 0 => owner[SeriesRow("pos")] = w
      /\ \A i \in 1 .. n : /\ d > i => qty[Sold(r, i)] >= r.lines[i].q
                           /\ old[Sold(r, i)] = IF d > n + 2 * i THEN -r.lines[i].q ELSE 0
      /\ \A sp \in Place : (\A i \in 1 .. n : sp # Sold(r, i)) => old[sp] = 0
  BY <1>1 DEF SaleOK
<1>4. \/ d = 0 /\ c.op = "number"
      \/ d \in 1 .. n /\ c.op = "check" /\ Of(c) = Sold(r, d) /\ c.q = r.lines[d].q
      \/ \E i \in 1 .. n : d = n + 2 * i - 1 /\ c.op = "product"
      \/ \E i \in 1 .. n : /\ d = n + 2 * i /\ c.op = "update"
                           /\ Of(c) = Sold(r, i) /\ c.q = -r.lines[i].q
  BY <1>1, SaleStmt
<1>5. \A i \in 1 .. n : /\ Sold(r, i) \in OpeningRows /\ Sold(r, i) \in Place
                        /\ \A j \in 1 .. n : Sold(r, i) = Sold(r, j) => i = j
  BY <1>1, TillRows
<1> HIDE DEF r, n, d, c, old, new
<1>6. owner'[SeriesRow("pos")] = w
  <2>1. d > 0 => owner'[SeriesRow("pos")] = w
    BY <1>2, <1>3 DEF Takes
  <2>2. d = 0 => c.op = "number"
    <3>1. \A i \in 1 .. n : n + 2 * i - 1 > 0 /\ n + 2 * i > 0
      BY <1>2
    <3> QED
      BY <1>2, <1>4, <3>1
  <2> QED
    BY <1>1, <2>1, <2>2
<1>7. ASSUME NEW i \in 1 .. n, d + 1 > i PROVE qty[Sold(r, i)] >= r.lines[i].q
  <2>1. CASE d > i
    BY <1>3, <1>7, <2>1
  <2>2. CASE d = i
    <3>1. c.op = "check" /\ Of(c) = Sold(r, i) /\ c.q = r.lines[i].q
      BY <1>1, <1>2, <1>4, <1>7, <2>2
    <3> QED
      BY <1>1, <1>5, <1>7, <3>1
  <2> QED
    BY <1>1, <1>7, <2>1, <2>2
<1>8. ASSUME NEW i \in 1 .. n
      PROVE  new[Sold(r, i)] = IF d + 1 > n + 2 * i THEN -r.lines[i].q ELSE 0
  <2>1. old[Sold(r, i)] = IF d > n + 2 * i THEN -r.lines[i].q ELSE 0
    BY <1>3
  <2>2. CASE c.op # "update"
    <3>1. new = old /\ d # n + 2 * i
      BY <1>1, <1>2, <1>4, <2>2
    <3>2. d > n + 2 * i <=> d + 1 > n + 2 * i
      BY <1>1, <1>2, <3>1
    <3> QED
      BY <2>1, <3>1, <3>2
  <2>3. CASE c.op = "update"
    <3>1. PICK j \in 1 .. n : d = n + 2 * j /\ Of(c) = Sold(r, j) /\ c.q = -r.lines[j].q
      BY <1>4, <2>3
    <3>2. CASE i = j
      <4>1. old[Sold(r, i)] = 0 /\ d + 1 > n + 2 * i
        BY <1>1, <1>2, <2>1, <3>1, <3>2
      <4>2. new[Sold(r, i)] = old[Sold(r, i)] + c.q
        BY <1>1, <1>5, <2>3, <3>1, <3>2
      <4>3. r.lines[i].q \in Nat
        BY <1>2
      <4> QED
        BY <3>1, <3>2, <4>1, <4>2, <4>3
    <3>3. CASE i # j
      <4>1. Sold(r, i) # Sold(r, j) /\ Sold(r, i) \in Place
        BY <1>5, <3>3
      <4>2. new[Sold(r, i)] = old[Sold(r, i)]
        BY <1>1, <2>3, <3>1, <4>1
      <4>3. d > n + 2 * i <=> d + 1 > n + 2 * i
        BY <1>1, <1>2, <3>1, <3>3
      <4> QED
        BY <2>1, <4>2, <4>3
    <3> QED
      BY <3>2, <3>3
  <2> QED
    BY <2>2, <2>3
<1>9. ASSUME NEW sp \in Place, \A i \in 1 .. n : sp # Sold(r, i) PROVE new[sp] = 0
  <2>1. old[sp] = 0
    BY <1>3, <1>9
  <2>2. CASE c.op # "update"
    BY <1>1, <1>4, <2>1, <2>2
  <2>3. CASE c.op = "update"
    BY <1>1, <1>4, <1>9, <2>1, <2>3
  <2> QED
    BY <2>2, <2>3
<1>10. /\ tx'[w].req = r /\ tx'[w].done = d + 1 /\ tx'[w].pend.qty = new /\ qty' = qty
       /\ Len(r.lines) = n
  BY <1>1 DEF new, n
<1> QED
  BY <1>6, <1>7, <1>8, <1>9, <1>10 DEF SaleOK

\* Nor does a statement of a purchase take anything.
LEMMA PurchaseTakes ==
    ASSUME NEW w \in Worker, PurchaseOK(w), Takes(w), tx[w].req.kind = "purchase"
    PROVE  PurchaseOK(w)'
<1> DEFINE c == Current(w)  old == tx[w].pend.qty  new == tx'[w].pend.qty
<1>1. /\ HasNext(w) /\ tx[w].req \in Request /\ old \in [Place -> Int]
      /\ tx'[w].req = tx[w].req /\ \A sp \in Place : old[sp] >= 0
      /\ c.op \in {"number", "product"} => new = old
      /\ c.op = "merge" => new = [old EXCEPT ![Of(c)] = @ + c.q]
  BY DEF Takes, HasNext, PurchaseOK
<1>2. c.op \in {"number", "product", "merge"} /\ (c.op = "merge" => c.q \in Nat)
  BY <1>1, PurchaseStmt
<1> HIDE DEF c, old, new
<1>3. ASSUME NEW sp \in Place PROVE new[sp] >= 0
  <2>1. old[sp] \in Int /\ old[sp] >= 0
    BY <1>1
  <2> QED
    BY <1>1, <1>2, <2>1
<1> QED
  BY <1>3 DEF PurchaseOK, new

\* Other requests keep what they checked, unless it is taken from them.
LEMMA OtherTills ==
    ASSUME NEW v \in Worker, SaleOK(v) /\ PurchaseOK(v), tx'[v] = tx[v],
           \A row \in Row : owner[row] = v => owner'[row] = v,
           \A sp \in Place : qty[sp] \in Int /\ qty'[sp] \in Int,
           owner[SeriesRow("pos")] = v => \A sp \in Place : qty'[sp] >= qty[sp],
           TillsOnly, tx[v].req \in Request => tx[v].done \in Nat
    PROVE  (SaleOK(v) /\ PurchaseOK(v))'
<1>1. PurchaseOK(v)'
  BY DEF PurchaseOK
<1>2. SaleOK(v)'
  <2> SUFFICES ASSUME tx[v].req \in Request, tx[v].req.kind = "pos" PROVE SaleOK(v)'
    BY DEF SaleOK
  <2> DEFINE r == tx[v].req  n == Len(r.lines)  d == tx[v].done
  <2>1. SeriesRow("pos") \in Row /\ n \in Nat /\ \A i \in 1 .. n : r.lines[i].q \in Nat
    BY LinesTyped DEF Row, Kind
  <2>2. /\ d > 0 => owner[SeriesRow("pos")] = v
        /\ \A i \in 1 .. n : /\ d > i => qty[Sold(r, i)] >= r.lines[i].q
                             /\ tx[v].pend.qty[Sold(r, i)]
                                  = IF d > n + 2 * i THEN -r.lines[i].q ELSE 0
        /\ \A sp \in Place : (\A i \in 1 .. n : sp # Sold(r, i)) => tx[v].pend.qty[sp] = 0
    BY DEF SaleOK
  <2>3. ASSUME NEW i \in 1 .. n, d > i PROVE qty'[Sold(r, i)] >= r.lines[i].q
    <3>1. d > 0 /\ Sold(r, i) \in Place
      BY <2>3, TillRows
    <3>2. qty'[Sold(r, i)] >= qty[Sold(r, i)] /\ qty[Sold(r, i)] >= r.lines[i].q
      BY <2>2, <2>3, <3>1
    <3> QED
      BY <2>1, <3>1, <3>2
  <2> QED
    BY <2>1, <2>2, <2>3 DEF SaleOK, Sold
<1> QED
  BY <1>1, <1>2

\* A transaction that has run nothing has taken nothing.
FreshTakes ==
    \A w \in Worker : tx[w].pend = NoWrites /\ tx[w].done = 0 => SaleOK(w) /\ PurchaseOK(w)
\* It is so in every state.
LEMMA FreshTills == TillsOnly => FreshTakes
<1> SUFFICES ASSUME TillsOnly, NEW w \in Worker, tx[w].pend = NoWrites, tx[w].done = 0
             PROVE  SaleOK(w) /\ PurchaseOK(w)
  BY DEF FreshTakes
<1>1. \A sp \in Place : tx[w].pend.qty[sp] = 0
  BY IdleTyped
<1>2. PurchaseOK(w)
  BY <1>1 DEF PurchaseOK
<1>3. SaleOK(w)
  <2> SUFFICES ASSUME tx[w].req \in Request, tx[w].req.kind = "pos" PROVE SaleOK(w)
    BY DEF SaleOK
  <2>1. Len(tx[w].req.lines) \in Nat
    BY LinesTyped
  <2>2. \A i \in 1 .. Len(tx[w].req.lines) : Sold(tx[w].req, i) \in Place
    BY TillRows
  <2> QED
    BY <1>1, <2>1, <2>2 DEF SaleOK
<1> QED
  BY <1>2, <1>3

\* What a request that commits takes is there, and nobody else has counted on it.
LEMMA CommitTills ==
    ASSUME IInv, TillsInv, NEW w \in Worker, Commit(w)
    PROVE  /\ \A sp \in Place : qty'[sp] \in Int /\ qty'[sp] >= 0
           /\ \A v \in Worker \ {w} :
                owner[SeriesRow("pos")] = v => \A sp \in Place : qty'[sp] >= qty[sp]
<1> DEFINE r == tx[w].req  pend == tx[w].pend.qty  n == Len(r.lines)  d == tx[w].done
<1>1. /\ r \in Request /\ d = Len(Script(r))
      /\ \A sp \in Place : /\ qty[sp] \in Int /\ pend[sp] \in Int
                           /\ qty'[sp] = qty[sp] + pend[sp]
  BY Committed
<1>2. TillsOnly /\ SaleOK(w) /\ PurchaseOK(w) /\ \A sp \in Place : qty[sp] >= 0
  BY DEF TillsInv
<1>3. r.kind \in {"pos", "purchase"}
  BY <1>1, <1>2 DEF TillsOnly
<1>4. CASE r.kind = "purchase"
  <2>1. \A sp \in Place : pend[sp] >= 0
    BY <1>1, <1>2, <1>4 DEF PurchaseOK
  <2>2. ASSUME NEW sp \in Place PROVE qty'[sp] \in Int /\ qty'[sp] >= 0 /\ qty'[sp] >= qty[sp]
    <3>1. /\ qty[sp] \in Int /\ pend[sp] \in Int /\ qty'[sp] = qty[sp] + pend[sp]
          /\ qty[sp] >= 0 /\ pend[sp] >= 0
      BY <1>1, <1>2, <2>1
    <3> HIDE DEF pend
    <3> QED
      BY <3>1
  <2> QED
    BY <2>2
<1>5. CASE r.kind = "pos"
  <2>1. d = 1 + n + 2 * n /\ n \in Nat
    BY <1>1, <1>5, SaleScript, LinesTyped
  <2>2. /\ d > 0 => owner[SeriesRow("pos")] = w
        /\ \A i \in 1 .. n : /\ d > i => qty[Sold(r, i)] >= r.lines[i].q
                             /\ pend[Sold(r, i)] = IF d > n + 2 * i THEN -r.lines[i].q ELSE 0
        /\ \A sp \in Place : (\A i \in 1 .. n : sp # Sold(r, i)) => pend[sp] = 0
    BY <1>1, <1>2, <1>5 DEF SaleOK
  <2>3. \A i \in 1 .. n : r.lines[i].q \in Nat
    BY <1>1, LinesTyped
  <2> HIDE DEF pend, n, d, r
  <2>4. owner[SeriesRow("pos")] = w
    BY <2>1, <2>2
  <2>5. ASSUME NEW sp \in Place PROVE qty'[sp] \in Int /\ qty'[sp] >= 0
    <3>1. CASE \A i \in 1 .. n : sp # Sold(r, i)
      BY <1>1, <1>2, <2>2, <3>1
    <3>2. ASSUME NEW i \in 1 .. n, sp = Sold(r, i) PROVE qty'[sp] \in Int /\ qty'[sp] >= 0
      <4>1. d > i /\ d > n + 2 * i
        BY <2>1
      <4>2. qty[sp] >= r.lines[i].q /\ pend[sp] = -r.lines[i].q
        BY <2>2, <3>2, <4>1
      <4> QED
        BY <1>1, <2>3, <4>2
    <3> QED
      BY <3>1, <3>2
  <2> QED
    BY <2>4, <2>5
<1> QED
  BY <1>3, <1>4, <1>5

\* At the start no store has less than nothing.
LEMMA InitTills == TillsOnly /\ Init => TillsInv
<1> SUFFICES ASSUME TillsOnly, Init PROVE TillsInv
  OBVIOUS
<1>1. \A w \in Worker : tx[w].pend = NoWrites /\ tx[w].done = 0
  BY DEF Init, Idle
<1>2. \A w \in Worker : SaleOK(w) /\ PurchaseOK(w)
  BY <1>1, FreshTills DEF FreshTakes
<1>3. \A sp \in Place : qty[sp] >= 0
  BY DEF Init, TillsOnly
<1> QED
  BY <1>2, <1>3 DEF TillsInv

\* Every step of tills and purchase desks keeps it so.
LEMMA StepTills == IInv /\ IInv' /\ TillsInv /\ [Next]_vars => TillsInv'
<1> SUFFICES ASSUME IInv, IInv', TillsInv, [Next]_vars PROVE TillsInv'
  OBVIOUS
<1>1. /\ TillsOnly /\ TillsOnly' /\ tx \in [Worker -> TxType] /\ OpeningRows \subseteq rowed
      /\ \A sp \in Place : qty[sp] \in Int /\ qty[sp] >= 0
      /\ \A v \in Worker : SaleOK(v) /\ PurchaseOK(v)
      /\ \A v \in Worker : tx[v].done \in Nat
  BY DEF TillsInv, TillsOnly, IInv, TypeOK, TxType
<1>2. ASSUME NEW v \in Worker, tx'[v] = tx[v], qty' = qty,
             \A row \in Row : owner[row] = v => owner'[row] = v
      PROVE  (SaleOK(v) /\ PurchaseOK(v))'
  BY <1>1, <1>2, OtherTills
<1>3. qty' = qty => \A sp \in Place : qty'[sp] >= 0
  BY <1>1
<1>4. CASE UNCHANGED vars
  BY <1>1, <1>2, <1>3, <1>4 DEF vars, TillsInv
<1>5. ASSUME NEW w \in Worker, Takes(w) PROVE TillsInv'
  <2>1. /\ qty' = qty /\ tx[w].req \in Request
        /\ \A v \in Worker \ {w} : tx'[v] = tx[v]
        /\ \A v \in Worker, row \in Row : owner[row] = v => owner'[row] = v
        /\ tx'[w].req = tx[w].req
    BY <1>5 DEF Takes, HasNext
  <2>2. \A v \in Worker \ {w} : (SaleOK(v) /\ PurchaseOK(v))'
    BY <1>2, <2>1
  <2>3. CASE tx[w].req.kind = "pos"
    <3>1. SaleOK(w)'
      BY <1>1, <1>5, <2>3, SaleTakes
    <3>2. PurchaseOK(w)'
      BY <2>1, <2>3 DEF PurchaseOK
    <3> QED
      BY <1>1, <1>3, <2>1, <2>2, <3>1, <3>2 DEF TillsInv
  <2>4. CASE tx[w].req.kind = "purchase"
    <3>1. PurchaseOK(w)'
      BY <1>1, <1>5, <2>4, PurchaseTakes
    <3>2. SaleOK(w)'
      BY <2>1, <2>4 DEF SaleOK
    <3> QED
      BY <1>1, <1>3, <2>1, <2>2, <3>1, <3>2 DEF TillsInv
  <2> QED
    BY <1>1, <2>1, <2>3, <2>4 DEF TillsOnly
<1>6. ASSUME NEW w \in Worker, NEW t, t.pend = NoWrites, t.done = 0, tx' = [tx EXCEPT ![w] = t]
      PROVE  (SaleOK(w) /\ PurchaseOK(w))'
  <2>1. (tx[w].pend = NoWrites)' /\ (tx[w].done = 0)'
    BY <1>1, <1>6
  <2>2. (TillsOnly => FreshTakes)'
    BY FreshTills, PTL
  <2> QED
    BY <1>1, <2>1, <2>2 DEF FreshTakes
<1>7. Idle.pend = NoWrites /\ Idle.done = 0
  BY DEF Idle
<1>8. ASSUME NEW w \in Worker, NEW r \in Request, Begin(w, r) PROVE TillsInv'
  <2> DEFINE t == [Idle EXCEPT !.req = r]
  <2>1. t.pend = NoWrites /\ t.done = 0
    BY DEF Idle
  <2>2. tx' = [tx EXCEPT ![w] = t] /\ UNCHANGED <<books, owner>>
    BY <1>8 DEF Begin
  <2> HIDE DEF t
  <2>3. (SaleOK(w) /\ PurchaseOK(w))'
    BY <1>6, <2>1, <2>2
  <2>4. \A v \in Worker \ {w} : (SaleOK(v) /\ PurchaseOK(v))'
    BY <1>1, <1>2, <2>2 DEF books
  <2> QED
    BY <1>1, <1>3, <2>2, <2>3, <2>4 DEF TillsInv, books
<1>9. ASSUME NEW w \in Worker, Undo(w) PROVE TillsInv'
  <2>1. tx' = [tx EXCEPT ![w] = Idle] /\ owner' = Unlocked(w) /\ qty' = qty
    BY <1>9 DEF Undo, books
  <2>2. (SaleOK(w) /\ PurchaseOK(w))'
    BY <1>6, <1>7, <2>1
  <2>3. \A v \in Worker \ {w} : (SaleOK(v) /\ PurchaseOK(v))'
    BY <1>2, <2>1, EndedOK
  <2> QED
    BY <1>1, <1>3, <2>1, <2>2, <2>3 DEF TillsInv
<1>10. ASSUME NEW w \in Worker, Commit(w) PROVE TillsInv'
  <2>1. tx' = [tx EXCEPT ![w] = Idle] /\ owner' = Unlocked(w)
    BY <1>10 DEF Commit
  <2>2. (SaleOK(w) /\ PurchaseOK(w))'
    BY <1>6, <1>7, <2>1
  <2>3. /\ \A sp \in Place : qty'[sp] \in Int /\ qty'[sp] >= 0
        /\ \A v \in Worker \ {w} :
             owner[SeriesRow("pos")] = v => \A sp \in Place : qty'[sp] >= qty[sp]
    BY <1>10, CommitTills
  <2>4. ASSUME NEW v \in Worker \ {w} PROVE (SaleOK(v) /\ PurchaseOK(v))'
    <3>1. tx'[v] = tx[v] /\ \A row \in Row : owner[row] = v => owner'[row] = v
      BY <2>1, EndedOK
    <3> QED
      BY <1>1, <2>3, <3>1, OtherTills
  <2> QED
    BY <1>1, <2>2, <2>3, <2>4 DEF TillsInv
<1>11. ASSUME NEW w \in Worker, Run(w) PROVE TillsInv'
  BY <1>1, <1>5, <1>9, <1>10, <1>11, TillTakes
<1>12. ASSUME NEW w \in Worker, Victim(w) \/ Rollback(w) PROVE TillsInv'
  BY <1>9, <1>12 DEF Victim, Rollback
<1> QED
  BY <1>4, <1>8, <1>11, <1>12 DEF Next

\* Where only tills and the purchase desk move stock, with a row for what they
\* sell and no product twice in a sale, no store's stock goes below zero: drawing
\* the number first keeps one till's checks true until it commits.
THEOREM TillsNeverOversell == TillsOnly /\ Spec => []NoNegativeStock
<1>1. IInv /\ TillsInv => NoNegativeStock
  BY DEF IInv, TypeOK, TillsInv, NoNegativeStock
<1> QED
  BY <1>1, IInvHolds, InitTills, StepTills, PTL DEF Spec
=============================================================================
