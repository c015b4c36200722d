------------------------- MODULE SalesReturns_proofs -------------------------
(***************************************************************************)
(* Proofs about SalesReturns for any clerks, lines, prices and requests.   *)
(* Why nothing is returned twice: two transactions that both count rows of *)
(* one line would both hold the lock that goes with it, the series for a   *)
(* sale's line and the line itself for an invoice's (Alone); so what a     *)
(* transaction has found room for is still free when it commits (Room).    *)
(* Why a return order that is sent again is credited once: a client id is  *)
(* sent for one order, and once it has its credit either that order is     *)
(* posted or a new order has the id, so it is refused (CreditOK).          *)
(***************************************************************************)
EXTENDS SalesReturns, TLAPS

\* A transaction at a line has a line to take, and has counted nothing
\* before its first.
TxOK ==
    \A c \in Clerk :
        /\ tx[c].st # "idle" => tx[c].req \in Request
        /\ tx[c].st = "begun" => tx[c].next = 1
        /\ tx[c].st = "lines" => tx[c].next \in 1 .. Len(tx[c].req.wants)
        /\ tx[c].st \in {"idle", "begun"} => tx[c].lines = [l \in Line |-> Zero]

\* POS returns count lines of sales, return orders lines of invoices.
OwnLines ==
    \A c \in Clerk :
        /\ Kind(c) = "pos" => \A l \in InvoiceLine : tx[c].lines[l].qty = 0
        /\ Kind(c) # "pos" => \A l \in SaleLine : tx[c].lines[l].qty = 0

Room == \A c \in Clerk : \A l \in Line : posted[l].qty + tx[c].lines[l].qty <= Sold[l]

\* The refund of a sum of rows is its share of the price, within half a cent a
\* row.
Priced(s, l) ==
    2 * (s.refund * Sold[l] - LineTotal[l] * s.qty) \in -(s.rows * Sold[l]) .. (s.rows * Sold[l])

PricedAll == \A l \in Line : Priced(posted[l], l) /\ \A c \in Clerk : Priced(tx[c].lines[l], l)

IInv == TypeOK /\ TxOK /\ OwnLines /\ Room /\ NeverOverReturned /\ PricedAll

\* Nothing costs nothing.
LEMMA ZeroPriced == \A l \in Line : Priced(Zero, l)
  BY SalesReturnsAssumption DEF Priced, Zero

\* What stands in a sequence.
LEMMA ElementOfSeq ==
    ASSUME NEW S, NEW s \in Seq(S), NEW i \in 1 .. Len(s)
    PROVE  s[i] \in S /\ Len(s) \in Nat
  OBVIOUS

\* Sums add up field by field.
LEMMA SumAdds ==
    ASSUME NEW a \in Sum, NEW b \in Sum
    PROVE  [qty |-> a.qty + b.qty, refund |-> a.refund + b.refund,
            rows |-> a.rows + b.rows] \in Sum
<1>1. /\ a.qty + b.qty \in Nat /\ a.refund + b.refund \in Nat /\ a.rows + b.rows \in Nat
  BY DEF Sum
<1> QED
  BY <1>1 DEF Sum

\* Sums of priced rows are priced.
LEMMA PricedAdds ==
    ASSUME NEW l \in Line, NEW a \in Sum, NEW b \in Sum, Priced(a, l), Priced(b, l)
    PROVE  Priced([qty |-> a.qty + b.qty, refund |-> a.refund + b.refund,
                   rows |-> a.rows + b.rows], l)
<1> DEFINE S == Sold[l]  T == LineTotal[l]
<1>1. S \in Nat /\ T \in Nat
  BY SalesReturnsAssumption
<1>2. /\ a.qty \in Nat /\ a.refund \in Nat /\ a.rows \in Nat
      /\ b.qty \in Nat /\ b.refund \in Nat /\ b.rows \in Nat
  BY DEF Sum
<1>3. /\ (a.refund + b.refund) * S = a.refund * S + b.refund * S
      /\ T * (a.qty + b.qty) = T * a.qty + T * b.qty
      /\ (a.rows + b.rows) * S = a.rows * S + b.rows * S
  BY <1>1, <1>2, Z3
<1>4. /\ a.refund * S \in Int /\ b.refund * S \in Int /\ T * a.qty \in Int /\ T * b.qty \in Int
      /\ a.rows * S \in Int /\ b.rows * S \in Int
  BY <1>1, <1>2, Z3
<1>5. /\ 2 * (a.refund * S - T * a.qty) \in -(a.rows * S) .. (a.rows * S)
      /\ 2 * (b.refund * S - T * b.qty) \in -(b.rows * S) .. (b.rows * S)
  BY DEF Priced
<1>6. 2 * ((a.refund + b.refund) * S - T * (a.qty + b.qty))
        \in -((a.rows + b.rows) * S) .. ((a.rows + b.rows) * S)
  BY <1>3, <1>4, <1>5
<1> QED
  BY <1>6 DEF Priced

\* One refund is priced.
LEMMA RefundPriced ==
    ASSUME NEW l \in Line, NEW q \in Nat, NEW money \in Refund(l, q)
    PROVE  Priced([qty |-> q, refund |-> money, rows |-> 1], l) /\ money \in Nat
<1>1. Sold[l] \in Nat \ {0} /\ LineTotal[l] \in Nat /\ LineTotal[l] * q \in Nat
  BY SalesReturnsAssumption
<1>2. money \in Nat /\ 2 * (money * Sold[l] - LineTotal[l] * q) \in -Sold[l] .. Sold[l]
  BY <1>1 DEF Refund, Nearest
<1>3. 1 * Sold[l] = Sold[l]
  BY <1>1
<1> QED
  BY <1>2, <1>3 DEF Priced

\* Two transactions never count rows of one line.
LEMMA Alone ==
    ASSUME TypeOK, TxOK, OwnLines, NEW c \in Clerk, NEW d \in Clerk, NEW l \in Line,
           tx[c].lines[l].qty > 0, tx[d].lines[l].qty > 0
    PROVE  c = d
<1>1. tx[c].st \in {"lines", "ending"} /\ tx[d].st \in {"lines", "ending"}
  <2>1. ASSUME NEW b \in Clerk, tx[b].st \in {"idle", "begun"} PROVE tx[b].lines[l].qty = 0
    BY <2>1 DEF TxOK, Zero
  <2>2. \A b \in Clerk : tx[b].st \in {"idle", "begun", "lines", "ending"}
    BY DEF TypeOK, Transaction
  <2> QED
    BY <2>1, <2>2
<1>2. CASE l \in SaleLine
  <2>1. Kind(c) = "pos" /\ Kind(d) = "pos"
    BY <1>2 DEF OwnLines
  <2> QED
    BY <1>1, <2>1 DEF TypeOK
<1>3. CASE l \in InvoiceLine
  <2>1. Kind(c) # "pos" /\ Kind(d) # "pos"
    BY <1>3 DEF OwnLines
  <2> QED
    BY <1>1, <1>3, <2>1 DEF TypeOK
<1> QED
  BY <1>2, <1>3 DEF Line

\* Before the first request the invariant holds.
LEMMA InitIInv == Init => IInv
<1> SUFFICES ASSUME Init PROVE IInv
  OBVIOUS
<1> USE SalesReturnsAssumption
<1>1. TypeOK
  BY DEF Init, TypeOK, NoTx, Zero, Sum, Transaction, Resource, Kind
<1>2. TxOK /\ OwnLines
  BY DEF Init, TxOK, OwnLines, NoTx, Zero, Line
<1>3. Room /\ NeverOverReturned
  BY DEF Init, Room, NeverOverReturned, NoTx, Zero
<1>4. PricedAll
  BY ZeroPriced DEF Init, PricedAll, NoTx
<1> QED
  BY <1>1, <1>2, <1>3, <1>4 DEF IInv

\* The end of a transaction that posts nothing preserves the invariant, also
\* if it saved a draft.
LEMMA DraftIInv ==
    ASSUME IInv, NEW c \in Clerk, End(c), UNCHANGED <<posted, credits, sent>>,
           orders' \in Seq([status : {"Open", "Posted"}, lines : [Line -> Sum],
                            client : ClientId \cup {NoId}])
    PROVE  IInv'
<1> USE SalesReturnsAssumption DEF End, Free
<1>1. /\ tx' = [tx EXCEPT ![c] = NoTx]
      /\ tx'[c] = NoTx /\ \A d \in Clerk \ {c} : tx'[d] = tx[d]
      /\ \A d \in Clerk \ {c} : \A r \in Resource : locker[r] = d => locker'[r] = d
  BY DEF IInv, TypeOK
<1>2. NoTx \in Transaction /\ NoTx.st = "idle" /\ NoTx.req = NoRequest
      /\ NoTx.lines = [l \in Line |-> Zero] /\ NoRequest.kind = "none"
  BY DEF NoTx, Transaction, Zero, Sum, NoRequest
<1>3. TypeOK'
  <2>1. tx' \in [Clerk -> Transaction] /\ locker' \in [Resource -> Clerk \cup {Nobody}]
    BY <1>1, <1>2 DEF IInv, TypeOK
  <2>2. ASSUME NEW d \in Clerk, tx'[d].st \in {"lines", "ending"}
        PROVE  /\ Kind(d)' = "pos" => locker'["RETURN"] = d
               /\ Kind(d)' # "pos" => \A l \in InvoiceLine :
                     tx'[d].lines[l].qty > 0 => locker'[l] = d
    <3>1. d # c /\ tx'[d] = tx[d]
      BY <2>2, <1>1, <1>2
    <3> QED
      BY <2>2, <3>1, <1>1 DEF IInv, TypeOK, Kind, Resource
  <2> QED
    BY <2>1, <2>2 DEF IInv, TypeOK
<1>4. TxOK' /\ OwnLines'
  <2>1. TxOK'
    BY <1>1, <1>2 DEF IInv, TxOK
  <2>2. OwnLines'
    BY <1>1, <1>2 DEF IInv, OwnLines, Kind, Zero, Line
  <2> QED
    BY <2>1, <2>2
<1>5. Room' /\ NeverOverReturned'
  BY <1>1, <1>2 DEF IInv, Room, NeverOverReturned, Zero, TypeOK, Sum
<1>6. PricedAll'
  BY <1>1, <1>2, ZeroPriced DEF IInv, PricedAll, Priced
<1> QED
  BY <1>3, <1>4, <1>5, <1>6 DEF IInv

\* In particular a refused request does.
LEMMA RefuseIInv ==
    ASSUME IInv, NEW c \in Clerk, Refuse(c), UNCHANGED sent
    PROVE  IInv'
  BY DraftIInv DEF Refuse, IInv, TypeOK

\* So does the commit of a transaction that posts what it counted.
LEMMA PostIInv ==
    ASSUME IInv, NEW c \in Clerk, Posted(c), End(c), UNCHANGED sent,
           orders' \in Seq([status : {"Open", "Posted"}, lines : [Line -> Sum],
                            client : ClientId \cup {NoId}]),
           credits' \in [ClientId -> Nat]
    PROVE  IInv'
<1> USE SalesReturnsAssumption DEF End, Free
<1>1. /\ tx' = [tx EXCEPT ![c] = NoTx]
      /\ tx'[c] = NoTx /\ \A d \in Clerk \ {c} : tx'[d] = tx[d]
      /\ \A d \in Clerk \ {c} : \A r \in Resource : locker[r] = d => locker'[r] = d
  BY DEF IInv, TypeOK
<1>2. NoTx \in Transaction /\ NoTx.st = "idle" /\ NoTx.req = NoRequest
      /\ NoTx.lines = [l \in Line |-> Zero] /\ NoRequest.kind = "none"
  BY DEF NoTx, Transaction, Zero, Sum, NoRequest
<1>3. \A l \in Line : posted[l] \in Sum /\ \A d \in Clerk : tx[d].lines[l] \in Sum
  BY DEF IInv, TypeOK, Transaction
<1>4. TypeOK'
  <2>1. tx' \in [Clerk -> Transaction] /\ locker' \in [Resource -> Clerk \cup {Nobody}]
    BY <1>1, <1>2 DEF IInv, TypeOK
  <2>2. posted' \in [Line -> Sum]
    <3>1. ASSUME NEW l \in Line
          PROVE  [qty |-> posted[l].qty + tx[c].lines[l].qty,
                  refund |-> posted[l].refund + tx[c].lines[l].refund,
                  rows |-> posted[l].rows + tx[c].lines[l].rows] \in Sum
      <4>1. posted[l] \in Sum /\ tx[c].lines[l] \in Sum
        BY <1>3
      <4> QED
        BY <4>1, SumAdds
    <3> QED
      BY <3>1 DEF Posted
  <2>3. ASSUME NEW d \in Clerk, tx'[d].st \in {"lines", "ending"}
        PROVE  /\ Kind(d)' = "pos" => locker'["RETURN"] = d
               /\ Kind(d)' # "pos" => \A l \in InvoiceLine :
                     tx'[d].lines[l].qty > 0 => locker'[l] = d
    <3>1. d # c /\ tx'[d] = tx[d]
      BY <2>3, <1>1, <1>2
    <3> QED
      BY <2>3, <3>1, <1>1 DEF IInv, TypeOK, Kind, Resource
  <2> QED
    BY <2>1, <2>2, <2>3 DEF IInv, TypeOK
<1>5. TxOK' /\ OwnLines'
  <2>1. TxOK'
    BY <1>1, <1>2 DEF IInv, TxOK
  <2>2. OwnLines'
    BY <1>1, <1>2 DEF IInv, OwnLines, Kind, Zero, Line
  <2> QED
    BY <2>1, <2>2
<1>6. \A l \in Line : posted'[l].qty = posted[l].qty + tx[c].lines[l].qty
  BY DEF Posted
<1>7. NeverOverReturned'
  BY <1>6 DEF IInv, Room, NeverOverReturned
<1>8. Room'
  <2> SUFFICES ASSUME NEW d \in Clerk, NEW l \in Line
               PROVE  posted'[l].qty + tx'[d].lines[l].qty <= Sold[l]
    BY DEF Room
  <2>1. CASE tx'[d].lines[l].qty = 0
    <3>1. posted'[l].qty \in Int /\ posted'[l].qty <= Sold[l]
      <4>1. posted[l].qty \in Nat /\ tx[c].lines[l].qty \in Nat
        BY <1>3 DEF Sum
      <4> QED
        BY <4>1, <1>6, <1>7 DEF NeverOverReturned
    <3> QED
      BY <2>1, <3>1
  <2>2. CASE tx'[d].lines[l].qty # 0
    <3>1. d # c /\ tx'[d] = tx[d]
      BY <2>2, <1>1, <1>2 DEF Zero
    <3>2. tx[d].lines[l].qty > 0
      BY <2>2, <3>1, <1>3 DEF Sum
    <3>3. tx[c].lines[l].qty = 0
      BY <3>1, <3>2, <1>3, Alone DEF IInv, Sum
    <3>4. posted'[l].qty = posted[l].qty
      <4>1. posted[l].qty \in Nat
        BY <1>3 DEF Sum
      <4> QED
        BY <3>3, <4>1, <1>6
    <3> QED
      BY <3>1, <3>4 DEF IInv, Room
  <2> QED
    BY <2>1, <2>2
<1>9. PricedAll'
  <2>1. \A l \in Line : Priced(posted'[l], l)
    BY <1>3, PricedAdds DEF Posted, IInv, PricedAll
  <2>2. \A l \in Line : \A d \in Clerk : Priced(tx'[d].lines[l], l)
    BY <1>1, <1>2, ZeroPriced DEF IInv, PricedAll
  <2> QED
    BY <2>1, <2>2 DEF PricedAll, Priced
<1> QED
  BY <1>4, <1>5, <1>7, <1>8, <1>9 DEF IInv

\* A refund, and the lines of a transaction that takes one more.
LEMMA TakeIInv ==
    ASSUME IInv, NEW c \in Clerk, TakeLine(c)
    PROVE  IInv'
<1> USE SalesReturnsAssumption
<1> DEFINE l == WantOf(c).line  q == WantOf(c).qty
<1>1. CASE q > Left(c, l)
  BY <1>1, RefuseIInv DEF TakeLine
<1>2. CASE ~(q > Left(c, l))
  <2>1. /\ tx[c].st = "lines" /\ tx[c].req \in Request /\ tx[c].next \in 1 .. Len(tx[c].req.wants)
        /\ tx[c] \in Transaction
    BY DEF TakeLine, CanTake, IInv, TxOK, TypeOK
  <2>2. /\ Kind(c) = "pos" => l \in SaleLine
        /\ Kind(c) # "pos" => l \in InvoiceLine
        /\ l \in Line /\ q \in Nat \ {0} /\ Len(tx[c].req.wants) \in Nat
    <3>1. CASE tx[c].req.kind = "pos"
      <4>1. tx[c].req.wants \in Seq([line : SaleLine, qty : Nat \ {0}])
        BY <2>1, <3>1 DEF Request, Wants
      <4> DEFINE S == [line : SaleLine, qty : Nat \ {0}]  w == tx[c].req.wants  n == tx[c].next
      <4>2. WantOf(c) \in S /\ Len(w) \in Nat
        <5>1. w \in Seq(S) /\ n \in 1 .. Len(w) /\ WantOf(c) = w[n]
          BY <2>1, <4>1 DEF WantOf
        <5> HIDE DEF S, w, n
        <5> QED
          BY <5>1, ElementOfSeq
      <4> QED
        BY <3>1, <4>2 DEF Kind, Line
    <3>2. CASE tx[c].req.kind # "pos"
      <4>1. tx[c].req.wants \in Seq([line : InvoiceLine, qty : Nat \ {0}])
        BY <2>1, <3>2 DEF Request, Wants
      <4> DEFINE S == [line : InvoiceLine, qty : Nat \ {0}]  w == tx[c].req.wants  n == tx[c].next
      <4>2. WantOf(c) \in S /\ Len(w) \in Nat
        <5>1. w \in Seq(S) /\ n \in 1 .. Len(w) /\ WantOf(c) = w[n]
          BY <2>1, <4>1 DEF WantOf
        <5> HIDE DEF S, w, n
        <5> QED
          BY <5>1, ElementOfSeq
      <4> QED
        BY <3>2, <4>2 DEF Kind, Line
    <3> QED
      BY <3>1, <3>2
  <2>3. PICK money \in Refund(l, q) :
          tx' = [tx EXCEPT ![c].lines[l] = [qty |-> @.qty + q, refund |-> @.refund + money,
                                            rows |-> @.rows + 1],
                           ![c].next = @ + 1,
                           ![c].st = IF tx[c].next = Len(tx[c].req.wants)
                                     THEN "ending" ELSE "lines"]
    BY <1>2 DEF TakeLine
  <2>4. /\ locker' = IF Kind(c) = "pos" THEN locker ELSE [locker EXCEPT ![l] = c]
        /\ Kind(c) # "pos" => locker[l] \in {Nobody, c}
        /\ UNCHANGED <<posted, orders, credits, sent>>
    BY <1>2 DEF TakeLine, CanTake
  <2> HIDE DEF l, q
  <2> DEFINE old == tx[c].lines[l]
             new == [qty |-> old.qty + q, refund |-> old.refund + money, rows |-> old.rows + 1]
  <2>5. old \in Sum /\ money \in Nat /\ new \in Sum
    <3>1. old \in Sum /\ money \in Nat
      BY <2>1, <2>2, RefundPriced DEF Transaction
    <3>2. old.qty + q \in Nat /\ old.refund + money \in Nat /\ old.rows + 1 \in Nat
      <4>1. old.qty \in Nat /\ old.refund \in Nat /\ old.rows \in Nat
        BY <3>1 DEF Sum
      <4> HIDE DEF old
      <4> QED
        BY <2>2, <3>1, <4>1
    <3> QED
      BY <3>1, <3>2 DEF Sum
  <2>6. /\ \A d \in Clerk \ {c} : tx'[d] = tx[d]
        /\ tx'[c].req = tx[c].req
        /\ tx'[c].next = tx[c].next + 1
        /\ tx'[c].st = IF tx[c].next = Len(tx[c].req.wants) THEN "ending" ELSE "lines"
        /\ tx'[c].lines = [tx[c].lines EXCEPT ![l] = new]
    BY <2>1, <2>3 DEF IInv, TypeOK, Transaction
  <2>7. /\ tx'[c].lines[l] = new /\ \A k \in Line \ {l} : tx'[c].lines[k] = tx[c].lines[k]
        /\ tx'[c].lines \in [Line -> Sum]
    BY <2>1, <2>2, <2>5, <2>6 DEF Transaction
  <2>8. TypeOK'
    <3>1. tx' \in [Clerk -> Transaction]
      <4>1. tx'[c] = [tx[c] EXCEPT !.lines = tx'[c].lines, !.next = tx'[c].next,
                                   !.st = tx'[c].st]
        BY <2>1, <2>3 DEF IInv, TypeOK, Transaction
      <4>2. tx'[c].next \in Nat /\ tx'[c].st \in {"lines", "ending"}
        BY <2>1, <2>6
      <4>3. tx'[c] \in Transaction
        BY <2>1, <2>7, <4>1, <4>2 DEF Transaction
      <4>4. tx' = [tx EXCEPT ![c] = tx'[c]]
        BY <2>3 DEF IInv, TypeOK
      <4> QED
        BY <4>3, <4>4 DEF IInv, TypeOK
    <3>2. locker' \in [Resource -> Clerk \cup {Nobody}]
      BY <2>4 DEF IInv, TypeOK
    <3>3. ASSUME NEW d \in Clerk, tx'[d].st \in {"lines", "ending"}
          PROVE  /\ Kind(d)' = "pos" => locker'["RETURN"] = d
                 /\ Kind(d)' # "pos" => \A k \in InvoiceLine :
                       tx'[d].lines[k].qty > 0 => locker'[k] = d
      <4>1. CASE d = c
        BY <4>1, <2>1, <2>2, <2>4, <2>6, <2>7 DEF IInv, TypeOK, Kind, Resource, Line
      <4>2. CASE d # c
        BY <4>2, <3>3, <2>2, <2>4, <2>6 DEF IInv, TypeOK, Kind, Resource
      <4> QED
        BY <4>1, <4>2
    <3> QED
      BY <3>1, <3>2, <3>3, <2>4 DEF IInv, TypeOK
  <2>9. TxOK'
    <3>1. tx[c].next # Len(tx[c].req.wants) => tx[c].next + 1 \in 1 .. Len(tx[c].req.wants)
      BY <2>1, <2>2
    <3> QED
      BY <2>1, <2>6, <3>1 DEF IInv, TxOK
  <2>10. OwnLines'
    <3> SUFFICES ASSUME NEW d \in Clerk
                 PROVE  /\ Kind(d)' = "pos" => \A k \in InvoiceLine : tx'[d].lines[k].qty = 0
                        /\ Kind(d)' # "pos" => \A k \in SaleLine : tx'[d].lines[k].qty = 0
      BY DEF OwnLines
    <3>1. CASE d = c
      <4>1. Kind(c)' = Kind(c)
        BY <2>6 DEF Kind
      <4>2. /\ Kind(c) = "pos" => l \notin InvoiceLine
            /\ Kind(c) # "pos" => l \notin SaleLine
        BY <2>2
      <4> QED
        BY <3>1, <4>1, <4>2, <2>7 DEF IInv, OwnLines, Line
    <3>2. CASE d # c
      BY <3>2, <2>6 DEF IInv, OwnLines, Kind
    <3> QED
      BY <3>1, <3>2
  <2>11. Room' /\ NeverOverReturned'
    <3>1. posted[l].qty + new.qty <= Sold[l]
      <4>1. posted[l].qty \in Nat /\ old.qty \in Nat /\ Sold[l] \in Nat
        BY <2>2, <2>5 DEF IInv, TypeOK, Sum
      <4>2. q <= Sold[l] - posted[l].qty - old.qty
        BY <1>2, <2>2, <4>1 DEF Left, l, q
      <4> QED
        BY <2>2, <4>1, <4>2
    <3> QED
      BY <2>4, <2>6, <2>7, <3>1 DEF IInv, Room, NeverOverReturned
  <2>12. PricedAll'
    <3>1. Priced(new, l)
      <4> DEFINE one == [qty |-> q, refund |-> money, rows |-> 1]
      <4>1. Priced(one, l) /\ one \in Sum
        BY <2>2, <2>5, RefundPriced DEF Sum
      <4>2. Priced(old, l)
        BY <2>2 DEF IInv, PricedAll
      <4>3. new = [qty |-> old.qty + one.qty, refund |-> old.refund + one.refund,
                   rows |-> old.rows + one.rows]
        OBVIOUS
      <4> QED
        BY <2>2, <2>5, <4>1, <4>2, <4>3, PricedAdds
    <3> QED
      BY <2>4, <2>6, <2>7, <3>1 DEF IInv, PricedAll, Priced
  <2> QED
    BY <2>8, <2>9, <2>10, <2>11, <2>12 DEF IInv
<1> QED
  BY <1>1, <1>2

\* A request that begins, and one that goes on to its lines, count nothing.
LEMMA BeginIInv ==
    ASSUME IInv, NEW c \in Clerk,
           \/ \E r \in Requests[c] : Send(c, r)
           \/ TakeNumber(c)
           \/ LookUp(c)
    PROVE  IInv'
<1> USE SalesReturnsAssumption
<1>1. CASE LookUp(c) /\ Refuse(c)
  BY <1>1, RefuseIInv DEF LookUp
<1>2. ASSUME NEW x \in Transaction, x.st \in {"begun", "lines"},
             tx' = [tx EXCEPT ![c] = x], x.req \in Request, x.lines = [l \in Line |-> Zero],
             x.next = 1,
             locker' \in [Resource -> Clerk \cup {Nobody}],
             \A d \in Clerk \ {c} : \A r \in Resource : locker[r] = d => locker'[r] = d,
             x.st = "lines" /\ x.req.kind = "pos" => locker'["RETURN"] = c,
             sent' \in 0 .. MaxRequests, UNCHANGED <<posted, orders, credits>>
      PROVE  IInv'
  <2>1. tx'[c] = x /\ \A d \in Clerk \ {c} : tx'[d] = tx[d]
    BY <1>2 DEF IInv, TypeOK
  <2>2. \A l \in Line : x.lines[l] = Zero /\ Zero.qty = 0
    BY <1>2 DEF Zero
  <2>3. TypeOK'
    <3>1. tx' \in [Clerk -> Transaction]
      BY <1>2 DEF IInv, TypeOK
    <3>2. ASSUME NEW d \in Clerk, tx'[d].st \in {"lines", "ending"}
          PROVE  /\ Kind(d)' = "pos" => locker'["RETURN"] = d
                 /\ Kind(d)' # "pos" => \A l \in InvoiceLine :
                       tx'[d].lines[l].qty > 0 => locker'[l] = d
      <4>1. CASE d = c
        BY <4>1, <3>2, <1>2, <2>1, <2>2 DEF Kind, Line
      <4>2. CASE d # c
        BY <4>2, <3>2, <1>2, <2>1 DEF IInv, TypeOK, Kind, Resource
      <4> QED
        BY <4>1, <4>2
    <3> QED
      BY <1>2, <3>1, <3>2 DEF IInv, TypeOK
  <2>4. TxOK'
    <3>1. x.st = "lines" => 1 \in 1 .. Len(x.req.wants)
      <4>1. x.req.wants \in Wants(SaleLine) \/ x.req.wants \in Wants(InvoiceLine)
        BY <1>2 DEF Request
      <4> QED
        BY <4>1 DEF Wants
    <3> QED
      BY <1>2, <2>1, <3>1 DEF IInv, TxOK
  <2>5. OwnLines'
    BY <2>1, <2>2 DEF IInv, OwnLines, Kind, Line
  <2>6. Room' /\ NeverOverReturned'
    BY <1>2, <2>1, <2>2 DEF IInv, Room, NeverOverReturned, TypeOK, Sum
  <2>7. PricedAll'
    BY <1>2, <2>1, <2>2, ZeroPriced DEF IInv, PricedAll, Priced
  <2> QED
    BY <2>3, <2>4, <2>5, <2>6, <2>7 DEF IInv
<1>3. ASSUME NEW r \in Requests[c], Send(c, r) PROVE IInv'
  <2> DEFINE x == [NoTx EXCEPT !.st = "begun", !.req = r, !.next = 1]
  <2>1. r \in Request
    OBVIOUS
  <2>2. x \in Transaction /\ x.st = "begun" /\ x.req = r /\ x.next = 1
        /\ x.lines = [l \in Line |-> Zero]
    BY <2>1 DEF NoTx, Transaction, Zero, Sum
  <2>3. tx' = [tx EXCEPT ![c] = x] /\ UNCHANGED <<posted, orders, locker, credits>>
    BY <1>3 DEF Send
  <2>4. sent' \in 0 .. MaxRequests
    <3>1. sent \in 0 .. MaxRequests /\ sent < MaxRequests /\ sent' = sent + 1
      BY <1>3 DEF Send, IInv, TypeOK
    <3> QED
      BY <3>1
  <2> HIDE DEF x
  <2> QED
    BY <2>1, <2>2, <2>3, <2>4, <1>2 DEF IInv, TypeOK
<1>4. ASSUME tx[c].st = "begun", tx' = [tx EXCEPT ![c].st = "lines"],
             locker' \in [Resource -> Clerk \cup {Nobody}],
             \A d \in Clerk \ {c} : \A r \in Resource : locker[r] = d => locker'[r] = d,
             Kind(c) = "pos" => locker'["RETURN"] = c,
             UNCHANGED <<posted, orders, sent, credits>>
      PROVE  IInv'
  <2> DEFINE x == [tx[c] EXCEPT !.st = "lines"]
  <2>1. /\ tx[c] \in Transaction /\ tx[c].req \in Request /\ tx[c].next = 1
        /\ tx[c].lines = [l \in Line |-> Zero]
    BY <1>4 DEF IInv, TypeOK, TxOK
  <2>2. /\ x \in Transaction /\ x.st = "lines" /\ x.req \in Request /\ x.next = 1
        /\ x.lines = [l \in Line |-> Zero] /\ x.req.kind = Kind(c)
    BY <2>1, <1>4 DEF Transaction, Kind
  <2>3. tx' = [tx EXCEPT ![c] = x]
    BY <1>4
  <2>4. sent' \in 0 .. MaxRequests
    BY <1>4 DEF IInv, TypeOK
  <2> HIDE DEF x
  <2> QED
    BY <1>4, <2>2, <2>3, <2>4, <1>2
<1>5. CASE TakeNumber(c)
  BY <1>5, <1>4 DEF TakeNumber, IInv, TypeOK, TxOK, Resource
<1>6. CASE LookUp(c) /\ ~Refuse(c)
  BY <1>6, <1>4 DEF LookUp, IInv, TypeOK, TxOK
<1> QED
  BY <1>1, <1>3, <1>5, <1>6

\* A return order is added, or rewritten if it is open.
LEMMA SavedOrders ==
    ASSUME IInv, NEW c \in Clerk, FinishOrder(c), MaySave(c)
    PROVE  /\ orders' \in Seq([status : {"Open", "Posted"}, lines : [Line -> Sum],
                               client : ClientId \cup {NoId}])
           /\ \A i \in Order : orders[i].status = "Posted" => i \in Order' /\ orders'[i] = orders[i]
<1> DEFINE Row == [status : {"Open", "Posted"}, lines : [Line -> Sum],
                   client : ClientId \cup {NoId}]
           o == tx[c].req.order
<1>1. /\ orders \in Seq(Row) /\ tx[c].lines \in [Line -> Sum]
      /\ o \in Nat /\ tx[c].req.client \in ClientId \cup {NoId}
      /\ Status(c) \in {"Open", "Posted"}
  <2>1. tx[c] \in Transaction /\ tx[c].req \in Request
    BY DEF IInv, TypeOK, TxOK, FinishOrder
  <2> QED
    BY <2>1 DEF IInv, TypeOK, Transaction, Request, Status
<1>2. Saved(c)
  BY DEF FinishOrder, Refuse, End
<1>3. CASE o > 0
  <2>1. /\ o \in 1 .. Len(orders) /\ orders[o].status = "Open" /\ Len(orders) \in Nat
    BY <1>1, <1>3 DEF MaySave, Order
  <2>2. orders' = [orders EXCEPT ![o].status = Status(c), ![o].lines = tx[c].lines]
    BY <1>2, <1>3 DEF Saved
  <2>3. orders[o] \in Row
    BY <1>1, <2>1, ElementOfSeq
  <2> DEFINE new == [orders[o] EXCEPT !.status = Status(c), !.lines = tx[c].lines]
  <2>4. new \in Row
    BY <1>1, <2>3
  <2>5. orders' = [orders EXCEPT ![o] = new]
    BY <2>2
  <2> HIDE DEF new, Row
  <2> QED
    BY <1>1, <2>1, <2>4, <2>5 DEF Order, Row
<1>4. CASE ~(o > 0)
  <2> DEFINE new == [status |-> Status(c), lines |-> tx[c].lines, client |-> tx[c].req.client]
  <2>1. orders' = Append(orders, new) /\ new \in Row
    BY <1>1, <1>2, <1>4 DEF Saved
  <2> HIDE DEF new, Row
  <2> QED
    BY <1>1, <2>1 DEF Order, Row
<1> QED
  BY <1>3, <1>4

\* Every step preserves the invariant.
LEMMA StepIInv == IInv /\ [Next]_vars => IInv'
<1> SUFFICES ASSUME IInv, [Next]_vars PROVE IInv'
  OBVIOUS
<1>1. ASSUME NEW c \in Clerk, \E r \in Requests[c] : Send(c, r) PROVE IInv'
  BY <1>1, BeginIInv
<1>2. ASSUME NEW c \in Clerk, TakeNumber(c) \/ LookUp(c) PROVE IInv'
  BY <1>2, BeginIInv
<1>3. ASSUME NEW c \in Clerk, TakeLine(c) PROVE IInv'
  BY <1>3, TakeIInv
<1>4. ASSUME NEW c \in Clerk, FinishPos(c) PROVE IInv'
  <2>1. CASE Refuse(c)
    BY <1>4, <2>1, RefuseIInv DEF FinishPos
  <2>2. CASE Posted(c) /\ End(c) /\ UNCHANGED <<orders, credits>>
    BY <1>4, <2>2, PostIInv DEF FinishPos, IInv, TypeOK
  <2> QED
    BY <1>4, <2>1, <2>2 DEF FinishPos
<1>5. ASSUME NEW c \in Clerk, FinishOrder(c) PROVE IInv'
  <2>1. CASE ~MaySave(c)
    BY <1>5, <2>1, RefuseIInv DEF FinishOrder
  <2>2. CASE MaySave(c) /\ Kind(c) = "post"
    <3>1. credits' \in [ClientId -> Nat]
      BY <1>5, <2>2 DEF FinishOrder, IInv, TypeOK
    <3> QED
      BY <1>5, <2>2, <3>1, SavedOrders, PostIInv DEF FinishOrder
  <2>3. CASE MaySave(c) /\ Kind(c) # "post"
    BY <1>5, <2>3, SavedOrders, DraftIInv DEF FinishOrder
  <2> QED
    BY <2>1, <2>2, <2>3
<1>6. ASSUME NEW c \in Clerk, Fail(c) \/ Victim(c) PROVE IInv'
  BY <1>6, RefuseIInv DEF Fail, Victim
<1>7. CASE UNCHANGED vars
  BY <1>7 DEF vars, IInv, TypeOK, TxOK, OwnLines, Room, NeverOverReturned, PricedAll, Priced,
              Kind
<1> QED
  BY <1>1, <1>2, <1>3, <1>4, <1>5, <1>6, <1>7 DEF Next, Serve

\* The invariant holds in every state.
LEMMA InductiveInvariant == Spec => []IInv
  BY InitIInv, StepIInv, PTL DEF Spec

\* The variables keep their types, and whoever has counted rows of a line
\* holds the lock it counted them under.
THEOREM TypeCorrect == Spec => []TypeOK
<1>1. IInv => TypeOK
  BY DEF IInv
<1> QED
  BY <1>1, InductiveInvariant, PTL

\* However many clerks return goods of one sale or invoice at a time, no more
\* comes back than was sold.
THEOREM NothingReturnedTwice == Spec => []NeverOverReturned
<1>1. IInv => NeverOverReturned
  BY DEF IInv
<1> QED
  BY <1>1, InductiveInvariant, PTL

\* Whatever the prices and quantities, rounding shifts the money given back for
\* a line by half a cent a row at most.
THEOREM RefundsAreShares == Spec => []RefundsAddUp
<1>1. IInv => RefundsAddUp
  BY DEF IInv, PricedAll, Priced, RefundsAddUp
<1> QED
  BY <1>1, InductiveInvariant, PTL

\* A posted return order never changes again.
THEOREM PostedOrdersStay == Spec => PostedStays
<1>1. IInv /\ [Next]_vars =>
        [\A i \in Order : orders[i].status = "Posted" => orders'[i] = orders[i]]_vars
  <2> SUFFICES ASSUME IInv, Next, NEW i \in Order, orders[i].status = "Posted"
               PROVE  orders'[i] = orders[i]
    OBVIOUS
  <2>1. ASSUME NEW c \in Clerk, FinishOrder(c), MaySave(c) PROVE orders'[i] = orders[i]
    BY <2>1, SavedOrders
  <2> QED
    BY <2>1 DEF Next, Serve, Send, LookUp, TakeNumber, TakeLine, FinishPos, FinishOrder,
                Fail, Victim, Refuse
<1> QED
  BY <1>1, InductiveInvariant, PTL DEF Spec, PostedStays

-----------------------------------------------------------------------------
(* A return order sent again is credited once.                             *)

\* Somebody sends client id d with order id n.
Sends(d, n) == \E c \in Clerk : \E r \in Requests[c] : r.client = d /\ r.order = n

\* A client id that was credited is in the row that was inserted with it, or it
\* comes with the id of an order that is posted.
CreditOK(d) ==
    /\ credits[d] \in {0, 1}
    /\ UsedBy(d) # {} => Sends(d, 0)
    /\ credits[d] = 1 =>
          UsedBy(d) # {} \/ \E n \in Order : Sends(d, n) /\ orders[n].status = "Posted"

\* The requests that run were sent.
KnownRequests == \A c \in Clerk : tx[c].st # "idle" => tx[c].req \in Requests[c]

CreditInv == OneOrderPerId /\ KnownRequests /\ \A d \in ClientId : CreditOK(d)

\* A client id has one order.
LEMMA OneOrder ==
    ASSUME OneOrderPerId, NEW d \in ClientId, NEW m, NEW n, Sends(d, m), Sends(d, n)
    PROVE  m = n
  BY SalesReturnsAssumption DEF OneOrderPerId, Sends

\* A running request stays the one that was sent.
LEMMA RequestsKnown ==
    ASSUME IInv, KnownRequests, Next PROVE KnownRequests'
<1>1. /\ tx \in [Clerk -> Transaction]
      /\ \A c \in Clerk : tx[c].st # "idle" => tx[c].req \in Requests[c]
  BY DEF IInv, TypeOK, KnownRequests
<1>2. ASSUME NEW c \in Clerk, NEW x, tx' = [tx EXCEPT ![c] = x],
             x.st # "idle" => x.req \in Requests[c]
      PROVE  KnownRequests'
  BY <1>1, <1>2 DEF KnownRequests
<1>3. NoTx.st = "idle"
  BY DEF NoTx
<1>4. ASSUME NEW c \in Clerk, End(c) PROVE KnownRequests'
  BY <1>2, <1>3, <1>4 DEF End
<1>5. ASSUME NEW c \in Clerk, NEW r \in Requests[c], Send(c, r) PROVE KnownRequests'
  <2> DEFINE x == [NoTx EXCEPT !.st = "begun", !.req = r, !.next = 1]
  <2>1. x.req = r
    BY DEF NoTx
  <2> QED
    BY <1>2, <1>5, <2>1 DEF Send
<1>6. ASSUME NEW c \in Clerk, tx' = [tx EXCEPT ![c].st = "lines"], tx[c].st = "begun"
      PROVE  KnownRequests'
  <2> DEFINE x == [tx[c] EXCEPT !.st = "lines"]
  <2>1. x.req = tx[c].req /\ tx[c].req \in Requests[c]
    BY <1>1, <1>6 DEF Transaction
  <2> QED
    BY <1>2, <1>6, <2>1
<1>7. ASSUME NEW c \in Clerk, TakeLine(c) PROVE KnownRequests'
  <2>1. CASE Refuse(c)
    BY <1>4, <2>1 DEF Refuse
  <2>2. CASE ~Refuse(c)
    <3> DEFINE l == WantOf(c).line  q == WantOf(c).qty
    <3>1. PICK money \in Refund(l, q) :
            tx' = [tx EXCEPT ![c].lines[l] = [qty |-> @.qty + q, refund |-> @.refund + money,
                                              rows |-> @.rows + 1],
                             ![c].next = @ + 1,
                             ![c].st = IF tx[c].next = Len(tx[c].req.wants)
                                       THEN "ending" ELSE "lines"]
      BY <1>7, <2>2 DEF TakeLine
    <3> HIDE DEF l, q
    <3>2. tx[c].req \in Requests[c]
      BY <1>1, <1>7 DEF TakeLine, CanTake
    <3>3. tx'[c].req = tx[c].req /\ \A d \in Clerk \ {c} : tx'[d] = tx[d]
      BY <1>1, <3>1 DEF Transaction
    <3> QED
      BY <1>1, <3>2, <3>3 DEF KnownRequests
  <2> QED
    BY <2>1, <2>2
<1>8. ASSUME NEW c \in Clerk, TakeNumber(c) \/ LookUp(c) PROVE KnownRequests'
  BY <1>4, <1>6, <1>8 DEF TakeNumber, LookUp, Refuse
<1>9. ASSUME NEW c \in Clerk, FinishPos(c) \/ FinishOrder(c) \/ Fail(c) \/ Victim(c)
      PROVE  KnownRequests'
  BY <1>4, <1>9 DEF FinishPos, FinishOrder, Fail, Victim, Refuse
<1> QED
  BY <1>5, <1>7, <1>8, <1>9 DEF Next, Serve

\* What is known of a client id depends on the orders and its credits.
LEMMA SameCredits ==
    ASSUME NEW d \in ClientId, CreditOK(d), UNCHANGED <<orders, credits>> PROVE CreditOK(d)'
  BY DEF CreditOK, UsedBy, Order

\* A return order is saved, and credits its client id if it is posted.
LEMMA FinishCredits ==
    ASSUME IInv, CreditInv, NEW c \in Clerk, FinishOrder(c), MaySave(c), NEW d \in ClientId
    PROVE  CreditOK(d)'
<1> DEFINE r == tx[c].req  n == r.order  post == Kind(c) = "post" /\ d = r.client
<1>1. /\ tx[c].st = "ending" /\ Saved(c) /\ OneOrderPerId /\ CreditOK(d) /\ r \in Requests[c]
      /\ orders \in Seq([status : {"Open", "Posted"}, lines : [Line -> Sum],
                         client : ClientId \cup {NoId}])
      /\ credits \in [ClientId -> Nat] /\ n \in Nat
  <2>1. tx[c].st = "ending" /\ Saved(c)
    BY DEF FinishOrder, Refuse, End
  <2>2. r \in Request
    BY <2>1 DEF IInv, TxOK
  <2> QED
    BY <2>1, <2>2 DEF CreditInv, KnownRequests, IInv, TypeOK, Request
<1>2. credits'[d] = IF post THEN credits[d] + 1 ELSE credits[d]
  BY <1>1 DEF FinishOrder
<1>3. d = r.client => Sends(d, n)
  BY <1>1 DEF Sends
<1>4. d # NoId
  BY SalesReturnsAssumption
<1>5. Order = 1 .. Len(orders) /\ Len(orders) \in Nat
  BY <1>1 DEF Order
<1>6. post => Status(c) = "Posted"
  BY DEF Status
<1> HIDE DEF r, n, post
<1>7. CASE n > 0
  <2>1. /\ n \in Order /\ orders[n].status = "Open"
        /\ orders' = [orders EXCEPT ![n].status = Status(c), ![n].lines = tx[c].lines]
    BY <1>1, <1>7 DEF MaySave, Saved, n, r
  <2>2. /\ Order' = Order /\ \A i \in Order : orders'[i].client = orders[i].client
        /\ orders'[n].status = Status(c) /\ \A i \in Order \ {n} : orders'[i] = orders[i]
    <3>1. DOMAIN orders' = DOMAIN orders
      BY <2>1 DEF Order
    <3>2. orders[n] \in [status : {"Open", "Posted"}, lines : [Line -> Sum],
                         client : ClientId \cup {NoId}]
      BY <1>1, <1>5, <2>1, ElementOfSeq
    <3>3. \A i \in Order :
            orders'[i] = IF i = n THEN [orders[n] EXCEPT !.status = Status(c),
                                                         !.lines = tx[c].lines]
                         ELSE orders[i]
      BY <2>1 DEF Order
    <3> QED
      BY <2>1, <3>1, <3>2, <3>3 DEF Order
  <2>3. UsedBy(d)' = UsedBy(d)
    BY <2>2 DEF UsedBy
  <2>4. CASE post
    <3>1. Sends(d, n)
      BY <1>3, <2>4 DEF post
    <3>2. UsedBy(d) = {}
      BY <1>1, <1>7, <3>1, OneOrder DEF CreditOK
    <3>3. credits[d] = 0
      <4>1. \A m \in Order : Sends(d, m) => m = n
        BY <1>1, <3>1, OneOrder
      <4> QED
        BY <1>1, <2>1, <3>2, <4>1 DEF CreditOK
    <3>4. credits'[d] = 1
      BY <1>2, <2>4, <3>3
    <3> QED
      BY <1>6, <2>1, <2>2, <2>3, <2>4, <3>1, <3>2, <3>4 DEF CreditOK, Sends
  <2>5. CASE ~post
    <3>1. credits'[d] = credits[d]
      BY <1>2, <2>5
    <3>2. \A m \in Order : orders[m].status = "Posted" => orders'[m].status = "Posted"
      BY <2>1, <2>2
    <3> QED
      BY <1>1, <2>2, <2>3, <3>1, <3>2 DEF CreditOK, Sends
  <2> QED
    BY <2>4, <2>5
<1>8. CASE ~(n > 0)
  <2> DEFINE new == [status |-> Status(c), lines |-> tx[c].lines, client |-> r.client]
             k == Len(orders) + 1
  <2>1. n = 0 /\ UsedBy(r.client) = {} /\ orders' = Append(orders, new)
    BY <1>1, <1>8 DEF MaySave, Saved, n, r
  <2>2. new.client = r.client
    OBVIOUS
  <2> HIDE DEF new
  <2>3. /\ Order' = Order \cup {k} /\ orders'[k] = new /\ k \notin Order
        /\ \A i \in Order : orders'[i] = orders[i]
    BY <1>1, <1>5, <2>1 DEF Order
  <2>4. UsedBy(d)' = IF d = r.client THEN UsedBy(d) \cup {k} ELSE UsedBy(d)
    BY <1>4, <2>2, <2>3 DEF UsedBy
  <2>5. d = r.client => Sends(d, 0)
    BY <1>3, <2>1
  <2>6. CASE post
    <3>1. UsedBy(d) = {} /\ d = r.client
      BY <2>1, <2>6 DEF post
    <3>2. credits[d] = 0
      <4>1. \A m \in Order : ~Sends(d, m)
        BY <1>1, <1>5, <2>5, <3>1, OneOrder
      <4> QED
        BY <1>1, <3>1, <4>1 DEF CreditOK
    <3>3. credits'[d] = 1
      BY <1>2, <2>6, <3>2
    <3> QED
      BY <2>4, <2>5, <3>1, <3>3 DEF CreditOK, Sends
  <2>7. CASE ~post
    <3>1. credits'[d] = credits[d]
      BY <1>2, <2>7
    <3>2. UsedBy(d)' # {} => Sends(d, 0)
      BY <1>1, <2>4, <2>5 DEF CreditOK
    <3> QED
      BY <1>1, <2>3, <2>4, <3>1, <3>2 DEF CreditOK, Sends
  <2> QED
    BY <2>6, <2>7
<1> QED
  BY <1>7, <1>8

\* Before the first request no client id was credited.
LEMMA InitCredits == OneOrderPerId /\ Init => CreditInv
  BY DEF Init, CreditInv, KnownRequests, CreditOK, UsedBy, Order, NoTx

\* Every step keeps the credits.
LEMMA StepCredits == IInv /\ CreditInv /\ [Next]_vars => CreditInv'
<1> SUFFICES ASSUME IInv, CreditInv, [Next]_vars PROVE CreditInv'
  OBVIOUS
<1>1. OneOrderPerId' /\ \A d \in ClientId : CreditOK(d)
  BY DEF CreditInv, OneOrderPerId
<1>2. KnownRequests'
  <2>1. CASE Next
    BY <2>1, RequestsKnown DEF CreditInv
  <2>2. CASE UNCHANGED vars
    BY <2>2 DEF vars, CreditInv, KnownRequests
  <2> QED
    BY <2>1, <2>2
<1>3. \A d \in ClientId : CreditOK(d)'
  <2>1. CASE UNCHANGED <<orders, credits>>
    BY <1>1, <2>1, SameCredits
  <2>2. ASSUME NEW c \in Clerk, FinishOrder(c), MaySave(c) PROVE \A d \in ClientId : CreditOK(d)'
    BY <2>2, FinishCredits
  <2>3. ASSUME NEW c \in Clerk, FinishOrder(c), ~MaySave(c) PROVE UNCHANGED <<orders, credits>>
    BY <2>3 DEF FinishOrder, Refuse
  <2>4. ASSUME NEW c \in Clerk, (\E r \in Requests[c] : Send(c, r)) \/ TakeNumber(c) \/ LookUp(c)
                                \/ TakeLine(c) \/ FinishPos(c) \/ Fail(c) \/ Victim(c)
        PROVE  UNCHANGED <<orders, credits>>
    BY <2>4 DEF Send, TakeNumber, LookUp, TakeLine, FinishPos, Fail, Victim, Refuse
  <2>5. CASE UNCHANGED vars
    BY <2>1, <2>5 DEF vars
  <2> QED
    BY <2>1, <2>2, <2>3, <2>4, <2>5 DEF Next, Serve
<1> QED
  BY <1>1, <1>2, <1>3 DEF CreditInv

\* A return order that is sent again, at the same time or later, is credited once.
THEOREM ReturnCreditedOnce == OneOrderPerId /\ Spec => []CreditedOnce
<1>1. IInv /\ CreditInv => CreditedOnce
  BY DEF CreditInv, CreditOK, CreditedOnce
<1> QED
  BY <1>1, InductiveInvariant, InitCredits, StepCredits, PTL DEF Spec
=============================================================================
