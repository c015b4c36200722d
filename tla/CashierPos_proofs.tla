-------------------------- MODULE CashierPos_proofs --------------------------
(***************************************************************************)
(* Proofs about CashierPos for any tills, items, duties and bounds: the    *)
(* types, why a tender is refused as short, and that every item is where   *)
(* it should be.                                                           *)
(*                                                                         *)
(* The last one rests on what is true of an item that met none of the      *)
(* races (ItemOK): a cart that is being sent holds nothing else than what  *)
(* was sent, two calls of a till do not carry the same item, and what a    *)
(* call may still store has not left the cart.                             *)
(***************************************************************************)
EXTENDS CashierPos, FiniteSetTheorems, SequenceTheorems, WellFoundedInduction, TLAPS

HoldType == [items : SUBSET Item, off : SUBSET Item, free : SUBSET Item, disc : Nat,
             status : {"Hold", "Retrieved"}]

Types ==
    /\ till \in [Till -> TillType]
    /\ \A t \in Till : till[t].plain \subseteq till[t].cart
    /\ calls \subseteq CallType /\ IsFiniteSet(calls)
    /\ \A c, d \in calls : c.id = d.id => c = d
    /\ sales \in Seq(SUBSET Item) /\ holds \in Seq(HoldType)
    /\ fresh \subseteq Item /\ dropped \subseteq Item /\ excused \subseteq Item

\* A call that stores items, or has stored them.
Storing(c) == c.kind \in {"sale", "hold"} /\ c.answer \in {"none", "ok"}

\* What is true of a call on its way.
CallOK(c) ==
    /\ c.kind = "retrieve" /\ c.answer \in {"none", "ok"} => c.hold \in DOMAIN holds
    /\ Storing(c) => c.items # {}
    /\ c.answer = "short" => ~c.agreed
    /\ c.kind = "sale" /\ c.answer = "none" /\ c.agreed => c.tender >= GrandTotal(c)

\* The places an item may be in.
Took(c, i, t) == c.till = t /\ c.kind \in {"sale", "hold"} /\ c.answer = "ok" /\ i \in c.items
InCart(i, t) == i \in till[t].cart /\ \A c \in calls : ~Took(c, i, t)
Waits(h, i) == holds[h].status = "Hold" /\ i \in holds[h].items
Brings(c, i) == c.kind = "retrieve" /\ c.answer = "ok" /\ i \in c.items

NoCart(i) == \A t \in Till : ~InCart(i, t)
NoSale(i) == \A s \in DOMAIN sales : i \notin sales[s]
NoHold(i) == \A h \in DOMAIN holds : ~Waits(h, i)
NoBack(i) == \A c \in calls : ~Brings(c, i)

Gone(i) == NoCart(i) /\ NoSale(i) /\ NoHold(i) /\ NoBack(i)
InOneCart(i) ==
    /\ \E t \in Till : \A u \in Till : InCart(i, u) <=> u = t
    /\ NoSale(i) /\ NoHold(i) /\ NoBack(i)
InOneSale(i) ==
    /\ \E s \in DOMAIN sales : \A n \in DOMAIN sales : i \in sales[n] <=> n = s
    /\ NoCart(i) /\ NoHold(i) /\ NoBack(i)
InOneHold(i) ==
    /\ \E h \in DOMAIN holds : \A n \in DOMAIN holds : Waits(n, i) <=> n = h
    /\ NoCart(i) /\ NoSale(i) /\ NoBack(i)
InOneAnswer(i) ==
    /\ \E c \in calls : \A d \in calls : Brings(d, i) <=> d = c
    /\ NoCart(i) /\ NoSale(i) /\ NoHold(i)

\* An item that was not scanned yet is nowhere.
Nowhere(i) ==
    /\ i \notin dropped
    /\ \A t \in Till : i \notin till[t].cart
    /\ \A c \in calls : i \notin c.items
    /\ \A s \in DOMAIN sales : i \notin sales[s]
    /\ \A h \in DOMAIN holds : i \notin holds[h].items

\* What a cart that is sent holds was sent.
Covered(i) == \A c \in calls : Storing(c) /\ i \in till[c.till].cart => i \in c.items

\* Calls of a till that store items do not share one.
Sole(i) ==
    \A c, d \in calls :
        Storing(c) /\ Storing(d) /\ c.till = d.till /\ i \in c.items /\ i \in d.items => c = d

\* What a call may still store is in the cart.
Kept(i) ==
    \A c \in calls :
        Storing(c) /\ c.answer = "none" /\ i \in c.items => i \in till[c.till].cart

Located(i) ==
    IF i \in dropped THEN Gone(i)
    ELSE InOneCart(i) \/ InOneSale(i) \/ InOneHold(i) \/ InOneAnswer(i)

ItemOK(i) ==
    /\ Covered(i) /\ Sole(i) /\ Kept(i)
    /\ i \in fresh => Nowhere(i)
    /\ i \notin fresh => Located(i)

IInv ==
    /\ Types
    /\ \A c \in calls : CallOK(c)
    /\ \A i \in Item \ excused : ItemOK(i)

-----------------------------------------------------------------------------
(* Numbers.                                                                *)

\* The least of a few numbers is one of them, and none is less.
LEMMA MinOf ==
    ASSUME NEW S \in SUBSET Nat, S # {}
    PROVE  Min(S) \in S /\ \A n \in S : Min(S) <= n
<1>1. \E m \in S : \A n \in S : <<n, m>> \notin OpToRel(<, Nat)
  BY NatLessThanWellFounded, WFMin
<1>2. \E m \in S : \A n \in S : m <= n
  <2>1. PICK m \in S : \A n \in S : <<n, m>> \notin {ss \in Nat \X Nat : ss[1] < ss[2]}
    BY <1>1, Zenon DEF OpToRel
  <2>2. ASSUME NEW n \in S PROVE m <= n
    <3>1. <<n, m>> \in Nat \X Nat => ~(n < m)
      BY <2>1
    <3> QED
      BY <3>1
  <2> QED
    BY <2>2
<1> QED
  BY <1>2 DEF Min

\* The greatest of two or three numbers is one of them.
LEMMA MaxOf ==
    /\ \A a, b \in Int : Max({a, b}) \in {a, b} /\ Max({a, b}) >= a /\ Max({a, b}) >= b
    /\ \A a, b, c \in Int : /\ Max({a, b, c}) \in {a, b, c}
                            /\ Max({a, b, c}) >= a /\ Max({a, b, c}) >= b
                            /\ Max({a, b, c}) >= c
<1>1. ASSUME NEW a \in Int, NEW b \in Int
      PROVE  Max({a, b}) \in {a, b} /\ Max({a, b}) >= a /\ Max({a, b}) >= b
  <2>1. \E m \in {a, b} : \A n \in {a, b} : m >= n
    OBVIOUS
  <2> QED
    BY <2>1 DEF Max
<1>2. ASSUME NEW a \in Int, NEW b \in Int, NEW c \in Int
      PROVE  /\ Max({a, b, c}) \in {a, b, c}
             /\ Max({a, b, c}) >= a /\ Max({a, b, c}) >= b /\ Max({a, b, c}) >= c
  <2>1. \E m \in {a, b, c} : \A n \in {a, b, c} : m >= n
    OBVIOUS
  <2> QED
    BY <2>1 DEF Max
<1> QED
  BY <1>1, <1>2

\* Prices are numbers, and more items do not cost less.
LEMMA PriceTyped ==
    ASSUME NEW items \in SUBSET Item
    PROVE  /\ Price(items) \in Nat /\ Cardinality(items \cap Taxed) \in Nat
           /\ \A some \in SUBSET items :
                /\ Cardinality(some \cap Taxed) \in Nat
                /\ Price(items) >= Cardinality(some \cap Taxed)
<1>1. IsFiniteSet(items)
  BY FS_Subset, CashierAssumption
<1>2. IsFiniteSet(items \cap Taxed) /\ Cardinality(items) \in Nat
  BY <1>1, FS_Intersection, FS_CardinalityType
<1>3. Cardinality(items \cap Taxed) \in Nat
  BY <1>2, FS_CardinalityType
<1>4. ASSUME NEW some \in SUBSET items
      PROVE  /\ Cardinality(some \cap Taxed) \in Nat
             /\ Cardinality(some \cap Taxed) <= Cardinality(items \cap Taxed)
  <2>1. some \cap Taxed \in SUBSET (items \cap Taxed)
    OBVIOUS
  <2>2. IsFiniteSet(some \cap Taxed)
        /\ Cardinality(some \cap Taxed) <= Cardinality(items \cap Taxed)
    BY <1>2, <2>1, FS_Subset
  <2> QED
    BY <2>2, FS_CardinalityType
<1>5. Price(items) \in Nat /\ Price(items) >= Cardinality(items \cap Taxed)
  BY <1>2, <1>3 DEF Price
<1> QED
  BY <1>3, <1>4, <1>5

\* Bills are not negative, and a till's own bill is the server's when nothing
\* in it is priced otherwise there.
LEMMA BillTyped ==
    ASSUME Types, NEW t \in Till
    PROVE  /\ Subtotal(t) \in Nat /\ After(t) \in Nat
           /\ Agrees(t) => After(t) = Price(till[t].cart \ (till[t].off \ NoDiscount))
<1>1. /\ till[t].cart \in SUBSET Item /\ till[t].plain \in SUBSET till[t].cart
      /\ till[t].disc \in Nat /\ Charged(t) \in SUBSET Item
  BY DEF Types, TillType, Charged
<1> DEFINE lost == Charged(t) \cap till[t].plain
<1>2. Subtotal(t) \in Nat
  <2>1. lost \in SUBSET Charged(t)
    OBVIOUS
  <2>2. Subtotal(t) = Price(Charged(t)) - Cardinality(lost \cap Taxed)
    BY DEF Subtotal
  <2> HIDE DEF lost
  <2>3. /\ Price(Charged(t)) \in Nat
        /\ Cardinality(lost \cap Taxed) \in Nat
        /\ Price(Charged(t)) >= Cardinality(lost \cap Taxed)
    BY <1>1, <2>1, PriceTyped
  <2> QED
    BY <2>2, <2>3
<1> DEFINE m == Min({till[t].disc, Subtotal(t)})
<1>3. m \in {till[t].disc, Subtotal(t)} /\ m <= Subtotal(t)
  BY <1>1, <1>2, MinOf
<1>4. After(t) = Subtotal(t) - m
  BY DEF After
<1>5. m <= till[t].disc
  BY <1>1, <1>2, MinOf
<1> HIDE DEF m
<1>6. After(t) \in Nat
  BY <1>1, <1>2, <1>3, <1>4
<1>7. ASSUME Agrees(t)
      PROVE  After(t) = Price(till[t].cart \ (till[t].off \ NoDiscount))
  <2>1. Charged(t) = till[t].cart \ (till[t].off \ NoDiscount) /\ till[t].disc = 0
    BY <1>7 DEF Agrees, Charged
  <2>2. Price(Charged(t)) \in Nat /\ Subtotal(t) = Price(Charged(t))
    <3>1. Charged(t) \cap till[t].plain \cap Taxed = {}
      BY <1>7 DEF Agrees
    <3>2. Price(Charged(t)) \in Nat
      BY <1>1, PriceTyped
    <3> QED
      BY <3>1, <3>2, FS_EmptySet DEF Subtotal
  <2>3. m = 0
    BY <1>1, <1>2, <1>3, <1>5, <2>1
  <2> QED
    BY <1>4, <2>1, <2>2, <2>3
<1> QED
  BY <1>2, <1>6, <1>7

-----------------------------------------------------------------------------
(* Calls.                                                                  *)

\* What a till is sending, and what has left its cart, call by call.
LEMMA SendingIs ==
    ASSUME NEW t
    PROVE  /\ \A i : i \in Sending(t) <=> \E c \in calls :
                        c.till = t /\ c.kind \in {"sale", "hold"} /\ i \in c.items
           /\ \A i : i \in Left(t) <=> \E c \in calls : Took(c, i, t)
  BY DEF Sending, Left, CallsOf, Took

\* While fewer than MaxCalls calls are under way an id is free.
LEMMA FreeId ==
    ASSUME Types, Cardinality(calls) < MaxCalls
    PROVE  LET n == Min((1 .. MaxCalls) \ {c.id : c \in calls})
           IN  n \in 1 .. MaxCalls /\ \A c \in calls : c.id # n
<1> DEFINE F == (1 .. MaxCalls) \ {c.id : c \in calls}
<1>1. F # {}
  <2> SUFFICES ASSUME F = {} PROVE FALSE
    OBVIOUS
  <2> DEFINE S == 1 .. MaxCalls
             f == [n \in S |-> CHOOSE c \in calls : c.id = n]
  <2>1. \A n \in S : \E c \in calls : c.id = n
    OBVIOUS
  <2>2. f \in [S -> calls] /\ \A n \in S : f[n].id = n
    BY <2>1
  <2>3. /\ IsFiniteSet(S) /\ IsFiniteSet(calls) /\ Cardinality(calls) < Cardinality(S)
    <3>1. MaxCalls \in Nat
      BY CashierAssumption
    <3>2. IsFiniteSet(S) /\ Cardinality(S) = MaxCalls
      BY <3>1, FS_Interval
    <3> QED
      BY <3>2 DEF Types
  <2> HIDE DEF f, S
  <2>4. \E x, y \in S : x # y /\ f[x] = f[y]
    BY <2>2, <2>3, FS_PigeonHole
  <2> QED
    BY <2>2, <2>4
<1>2. F \in SUBSET Nat
  BY CashierAssumption
<1>3. Min(F) \in F
  BY <1>1, <1>2, MinOf
<1> QED
  BY <1>3

\* A call that is made.
LEMMA CallMade ==
    ASSUME Types, Cardinality(calls) < MaxCalls, NEW t \in Till,
           NEW kind \in {"sale", "hold", "retrieve"}, NEW items \in SUBSET Item,
           NEW c, c = Call(t, kind, items)
    PROVE  /\ c \in CallType /\ \A d \in calls : d.id # c.id
           /\ c.till = t /\ c.kind = kind /\ c.items = items /\ c.answer = "none"
<1>1. c.id \in 1 .. MaxCalls /\ \A d \in calls : d.id # c.id
  BY FreeId DEF Call
<1>2. 0 \in Nat /\ 0 \in 0 .. MaxDocs /\ TRUE \in BOOLEAN
  BY CashierAssumption
<1>3. /\ c = [id |-> c.id, till |-> t, kind |-> kind, items |-> items, answer |-> "none",
              off |-> {}, free |-> {}, disc |-> 0, tender |-> 0, agreed |-> TRUE,
              hold |-> 0]
  BY DEF Call
<1>4. /\ c.till = t /\ c.kind = kind /\ c.items = items /\ c.answer = "none"
  BY <1>3
<1>5. c \in CallType
  <2>1. PICK agreed \in BOOLEAN : agreed = TRUE
    OBVIOUS
  <2>2. c = [id |-> c.id, till |-> t, kind |-> kind, items |-> items, answer |-> "none",
             off |-> {}, free |-> {}, disc |-> 0, tender |-> 0, agreed |-> agreed,
             hold |-> 0]
    BY <1>3, <2>1
  <2> QED
    BY <1>1, <1>2, <2>2 DEF CallType
<1> QED
  BY <1>1, <1>4, <1>5

\* One more call, under an id of its own.
LEMMA OneMore ==
    ASSUME Types, NEW c \in CallType, \A d \in calls : d.id # c.id, calls' = calls \cup {c}
    PROVE  /\ calls' \subseteq CallType /\ IsFiniteSet(calls')
           /\ \A x, y \in calls' : x.id = y.id => x = y
<1>1. IsFiniteSet(calls')
  BY FS_AddElement DEF Types
<1> QED
  BY <1>1 DEF Types

\* A call less.
LEMMA OneLess ==
    ASSUME Types, NEW c \in calls, calls' = calls \ {c}
    PROVE  /\ calls' \subseteq CallType /\ IsFiniteSet(calls')
           /\ \A x, y \in calls' : x.id = y.id => x = y
<1>1. IsFiniteSet(calls')
  BY FS_RemoveElement DEF Types
<1> QED
  BY <1>1 DEF Types

\* A call and its answer.
LEMMA Told ==
    ASSUME Types, NEW c \in calls, NEW answer \in {"ok", "error", "short"},
           NEW items \in SUBSET Item, Answer(c, answer, items)
    PROVE  \E d \in CallType :
             /\ calls' = (calls \ {c}) \cup {d}
             /\ d.id = c.id /\ d.till = c.till /\ d.kind = c.kind
             /\ d.answer = answer /\ d.items = items
             /\ answer = "ok" => d.hold = c.hold
             /\ answer = "short" => d.agreed = c.agreed
             /\ calls' \subseteq CallType /\ IsFiniteSet(calls')
             /\ \A x, y \in calls' : x.id = y.id => x = y
<1> DEFINE hold == IF answer = "ok" THEN c.hold ELSE 0
<1>1. c \in CallType
  BY DEF Types
<1>2. hold \in 0 .. MaxDocs
  BY <1>1, CashierAssumption DEF CallType
<1>3. PICK agreed \in BOOLEAN : agreed = (c.agreed \/ answer # "short")
  OBVIOUS
<1> DEFINE v == [c EXCEPT !.answer = answer, !.items = items, !.off = {}, !.free = {},
                          !.tender = 0, !.disc = 0, !.agreed = agreed, !.hold = hold]
<1>4. calls' = (calls \ {c}) \cup {v}
  <2>1. calls' = (calls \ {c}) \cup
          {[c EXCEPT !.answer = answer, !.items = items, !.off = {}, !.free = {},
                     !.tender = 0, !.disc = 0, !.agreed = c.agreed \/ answer # "short",
                     !.hold = hold]}
    BY DEF Answer
  <2> HIDE DEF hold
  <2> QED
    BY <1>3, <2>1, Zenon
<1> HIDE DEF hold
<1>5. /\ v \in CallType
      /\ v.id = c.id /\ v.till = c.till /\ v.kind = c.kind /\ v.agreed = agreed
      /\ v.answer = answer /\ v.items = items /\ v.hold = hold
  BY <1>1, <1>2 DEF CallType
<1> HIDE DEF v
<1>6. IsFiniteSet(calls \ {c})
  BY FS_RemoveElement DEF Types
<1>7. IsFiniteSet(calls')
  BY <1>4, <1>6, FS_AddElement
<1>8. calls' \subseteq CallType /\ \A x, y \in calls' : x.id = y.id => x = y
  BY <1>4, <1>5 DEF Types
<1>9. answer = "ok" => v.hold = c.hold
  BY <1>5 DEF hold
<1>10. answer = "short" => v.agreed = c.agreed
  BY <1>1, <1>3, <1>5 DEF CallType
<1> QED
  BY <1>4, <1>5, <1>7, <1>8, <1>9, <1>10

-----------------------------------------------------------------------------
(* Where an item is after a step.                                          *)

SameCarts(i) == \A t \in Till : i \in till'[t].cart <=> i \in till[t].cart
SameSales(i) ==
    /\ DOMAIN sales \subseteq DOMAIN sales'
    /\ \A s \in DOMAIN sales' : i \in sales'[s] <=> s \in DOMAIN sales /\ i \in sales[s]
SameHolds(i) ==
    /\ DOMAIN holds \subseteq DOMAIN holds'
    /\ \A h \in DOMAIN holds' :
         /\ i \in holds'[h].items => h \in DOMAIN holds /\ i \in holds[h].items
         /\ holds'[h].status = "Hold" /\ i \in holds'[h].items <=>
              h \in DOMAIN holds /\ Waits(h, i)
SameCalls(i) ==
    /\ \A c \in calls' : (Storing(c) /\ i \in c.items) \/ Brings(c, i) => c \in calls
    /\ \A c \in calls' : i \in c.items => \E d \in calls : i \in d.items
    /\ \A c \in calls : c.answer = "ok" /\ i \in c.items => c \in calls'
SameHistory(i) ==
    (i \in fresh' <=> i \in fresh) /\ (i \in dropped' <=> i \in dropped)

\* An item the step has nothing to do with stays where it is.
LEMMA Unmoved ==
    ASSUME NEW i, ItemOK(i), SameCarts(i), SameSales(i), SameHolds(i), SameCalls(i),
           SameHistory(i), Covered(i)', Types
    PROVE  ItemOK(i)'
<1>1. Sole(i)'
  BY DEF ItemOK, Sole, SameCalls
<1>2. Kept(i)'
  <2> SUFFICES ASSUME NEW c \in calls', Storing(c), c.answer = "none", i \in c.items
               PROVE  i \in till'[c.till].cart
    BY DEF Kept, Storing
  <2>1. c \in calls /\ c.till \in Till /\ i \in till[c.till].cart
    BY DEF SameCalls, ItemOK, Kept, Types, CallType
  <2> QED
    BY <2>1 DEF SameCarts
<1>3. i \in fresh' => Nowhere(i)'
  <2> SUFFICES ASSUME i \in fresh' PROVE Nowhere(i)'
    OBVIOUS
  <2>1. i \in fresh /\ Nowhere(i)
    BY DEF SameHistory, ItemOK
  <2> QED
    BY <2>1 DEF Nowhere, SameHistory, SameCarts, SameCalls, SameSales, SameHolds
<1>4. \A t \in Till : InCart(i, t)' <=> InCart(i, t)
  <2> SUFFICES ASSUME NEW t \in Till PROVE InCart(i, t)' <=> InCart(i, t)
    OBVIOUS
  <2>1. i \in till'[t].cart <=> i \in till[t].cart
    BY DEF SameCarts
  <2>2. \A c : c \in calls /\ Took(c, i, t) <=> c \in calls' /\ Took(c, i, t)
    BY DEF SameCalls, Took, Storing
  <2> QED
    BY <2>1, <2>2 DEF InCart, Took
<1>5. \A c : c \in calls /\ Brings(c, i) <=> c \in calls' /\ Brings(c, i)
  BY DEF SameCalls, Brings
<1>6. \A h \in DOMAIN holds' : Waits(h, i)' <=> h \in DOMAIN holds /\ Waits(h, i)
  BY DEF SameHolds, Waits
<1>7. /\ NoCart(i)' <=> NoCart(i)
      /\ NoSale(i)' <=> NoSale(i)
      /\ NoHold(i)' <=> NoHold(i)
      /\ NoBack(i)' <=> NoBack(i)
  <2>1. NoCart(i)' <=> NoCart(i)
    BY <1>4 DEF NoCart
  <2>2. NoSale(i)' <=> NoSale(i)
    BY DEF SameSales, NoSale
  <2>3. NoHold(i)' <=> NoHold(i)
    BY <1>6 DEF SameHolds, NoHold
  <2>4. NoBack(i)' <=> NoBack(i)
    BY <1>5 DEF NoBack, Brings
  <2> QED
    BY <2>1, <2>2, <2>3, <2>4
<1>8. /\ InOneCart(i) => InOneCart(i)'
      /\ InOneSale(i) => InOneSale(i)'
      /\ InOneHold(i) => InOneHold(i)'
      /\ InOneAnswer(i) => InOneAnswer(i)'
  <2>1. InOneCart(i) => InOneCart(i)'
    BY <1>4, <1>7 DEF InOneCart
  <2>2. InOneSale(i) => InOneSale(i)'
    BY <1>7 DEF InOneSale, SameSales
  <2>3. InOneHold(i) => InOneHold(i)'
    BY <1>6, <1>7 DEF InOneHold, SameHolds
  <2>4. InOneAnswer(i) => InOneAnswer(i)'
    BY <1>5, <1>7 DEF InOneAnswer, Brings
  <2> QED
    BY <2>1, <2>2, <2>3, <2>4
<1>9. i \notin fresh' => Located(i)'
  BY <1>7, <1>8 DEF ItemOK, Located, Gone, SameHistory
<1> QED
  BY <1>1, <1>2, <1>3, <1>9 DEF ItemOK

-----------------------------------------------------------------------------
(* What the clerk does at the till.                                        *)

\* Between calls, a till's record is replaced by another one.
LEMMA TillTyped ==
    ASSUME Types, NEW t \in Till, NEW v \in TillType, v.plain \subseteq v.cart,
           till' = [till EXCEPT ![t] = v]
    PROVE  /\ till' \in [Till -> TillType]
           /\ \A u \in Till : till'[u].plain \subseteq till'[u].cart
           /\ till'[t] = v /\ \A u \in Till \ {t} : till'[u] = till[u]
  BY DEF Types

\* Calls that were fine stay so when only carts change.
LEMMA CallsStay ==
    ASSUME \A c \in calls : CallOK(c), calls' = calls, holds' = holds
    PROVE  \A c \in calls' : CallOK(c)'
  BY DEF CallOK, Storing

LEMMA ScanStep ==
    ASSUME IInv, NEW t \in Till, NEW i \in Item, NEW plain \in SUBSET {i},
           NEW off \in SUBSET {i}, NEW free \in SUBSET {i}, Scan(t, i, plain, off, free)
    PROVE  IInv'
<1> DEFINE v == [till[t] EXCEPT !.cart = @ \cup {i}, !.plain = @ \cup plain,
                                !.off = @ \cup off, !.free = @ \cup free]
<1>1. Types /\ till[t] \in TillType
  BY DEF IInv, Types
<1>2. /\ v \in TillType /\ v.cart = till[t].cart \cup {i} /\ v.plain \subseteq v.cart
  BY <1>1 DEF Types, TillType
<1>3. till' = [till EXCEPT ![t] = v]
  BY DEF Scan
<1> HIDE DEF v
<1>4. /\ till' \in [Till -> TillType]
      /\ \A u \in Till : till'[u].plain \subseteq till'[u].cart
      /\ till'[t] = v /\ \A u \in Till \ {t} : till'[u] = till[u]
  BY <1>1, <1>2, <1>3, TillTyped
<1>5. Types' /\ \A c \in calls' : CallOK(c)'
  <2>1. \A c \in calls' : CallOK(c)'
    BY CallsStay DEF IInv, Scan, server
  <2> QED
    BY <1>1, <1>4, <2>1 DEF Types, Scan, server
<1>6. ASSUME NEW j \in Item \ excused' PROVE ItemOK(j)'
  <2>1. ItemOK(j)
    BY <1>6 DEF IInv, Scan
  <2>2. CASE j # i
    <3>1. SameCarts(j)
      BY <1>2, <1>4, <2>2 DEF SameCarts
    <3>2. Covered(j)'
      BY <2>1, <3>1, <1>1 DEF ItemOK, Covered, SameCarts, Scan, Storing, Types, CallType
    <3>3. SameSales(j) /\ SameHolds(j) /\ SameCalls(j) /\ SameHistory(j)
      BY <2>2 DEF SameSales, SameHolds, SameCalls, SameHistory, Scan, server, Waits
    <3> QED
      BY <1>1, <2>1, <3>1, <3>2, <3>3, Unmoved
  <2>3. CASE j = i
    <3>1. Nowhere(i) /\ Sending(t) = {}
      BY <1>6, <2>1, <2>3 DEF Scan, ItemOK
    <3>2. \A c \in calls : ~(Storing(c) /\ c.till = t)
      BY <3>1, SendingIs DEF Storing, IInv, CallOK
    <3>3. Covered(i)' /\ Sole(i)' /\ Kept(i)'
      BY <1>1, <1>4, <3>1, <3>2 DEF Covered, Sole, Kept, Nowhere, Scan, Storing,
                                   Types, CallType
    <3>4. \A u \in Till : InCart(i, u)' <=> u = t
      BY <1>2, <1>4, <3>1 DEF InCart, Took, Nowhere, Scan
    <3>5. NoSale(i)' /\ NoHold(i)' /\ NoBack(i)'
      BY <3>1 DEF NoSale, NoHold, NoBack, Waits, Brings, Nowhere, Scan, server
    <3>6. Located(i)'
      BY <3>1, <3>4, <3>5 DEF Located, InOneCart, Nowhere, Scan
    <3>7. i \notin fresh'
      BY DEF Scan
    <3> QED
      BY <2>3, <3>3, <3>6, <3>7 DEF ItemOK
  <2> QED
    BY <2>2, <2>3
<1> QED
  BY <1>5, <1>6 DEF IInv

\* Taking items out of a cart.
LEMMA DropStep ==
    ASSUME IInv, NEW t \in Till, NEW items \in SUBSET till[t].cart, NEW v \in TillType,
           v.cart = till[t].cart \ items, v.plain \subseteq v.cart,
           till' = [till EXCEPT ![t] = v], Drop(t, items)
    PROVE  IInv'
<1>1. Types /\ till[t] \in TillType
  BY DEF IInv, Types
<1>2. /\ till' \in [Till -> TillType]
      /\ \A u \in Till : till'[u].plain \subseteq till'[u].cart
      /\ till'[t] = v /\ \A u \in Till \ {t} : till'[u] = till[u]
  BY <1>1, TillTyped
<1>3. Types' /\ \A c \in calls' : CallOK(c)'
  <2>1. \A c \in calls' : CallOK(c)'
    BY CallsStay DEF IInv, Drop, server
  <2>2. items \subseteq Item
    BY <1>1 DEF TillType
  <2> QED
    BY <1>1, <1>2, <2>1, <2>2 DEF Types, Drop, server
<1>4. ASSUME NEW j \in Item \ excused' PROVE ItemOK(j)'
  <2>1. ItemOK(j)
    BY <1>4 DEF IInv, Drop
  <2>2. Covered(j)'
    <3>1. \A u \in Till : j \in till'[u].cart => j \in till[u].cart
      BY <1>2
    <3> QED
      BY <2>1, <3>1, <1>1 DEF ItemOK, Covered, Drop, Storing, Types, CallType
  <2>3. CASE j \notin items
    <3>1. SameCarts(j)
      BY <1>2, <2>3 DEF SameCarts
    <3>2. SameSales(j) /\ SameHolds(j) /\ SameCalls(j) /\ SameHistory(j)
      BY <2>3 DEF SameSales, SameHolds, SameCalls, SameHistory, Drop, server, Waits
    <3> QED
      BY <1>1, <2>1, <2>2, <3>1, <3>2, Unmoved
  <2>4. CASE j \in items
    <3>1. j \notin Sending(t) /\ j \in till[t].cart
      BY <1>4, <2>4 DEF Drop
    <3>2. \A c \in calls : c.kind \in {"sale", "hold"} /\ c.till = t => j \notin c.items
      BY <3>1, SendingIs
    <3>3. InCart(j, t)
      BY <3>1, <3>2 DEF InCart, Took
    <3>4. j \notin fresh /\ Located(j)
      BY <2>1, <3>1 DEF ItemOK, Nowhere
    <3>5. /\ \A u \in Till : InCart(j, u) => u = t
          /\ NoSale(j) /\ NoHold(j) /\ NoBack(j)
      BY <3>3, <3>4 DEF Located, Gone, NoCart, InOneCart, InOneSale, InOneHold, InOneAnswer
    <3>6. Sole(j)' /\ Kept(j)'
      BY <1>1, <1>2, <2>1, <3>2 DEF ItemOK, Sole, Kept, Drop, Storing, Types, CallType
    <3>7. NoSale(j)' /\ NoHold(j)' /\ NoBack(j)'
      BY <3>5 DEF NoSale, NoHold, NoBack, Waits, Brings, Drop, server
    <3>8. NoCart(j)'
      BY <1>2, <2>4, <3>5 DEF NoCart, InCart, Took, Drop
    <3>9. j \in dropped' /\ j \notin fresh'
      BY <1>4, <2>4, <3>4 DEF Drop
    <3> QED
      BY <2>2, <3>6, <3>7, <3>8, <3>9 DEF ItemOK, Located, Gone
  <2> QED
    BY <2>3, <2>4
<1> QED
  BY <1>3, <1>4 DEF IInv

LEMMA VoidStep ==
    ASSUME IInv, NEW t \in Till, NEW i \in Item, voidLine(t, i)
    PROVE  IInv'
<1> DEFINE v == [till[t] EXCEPT !.cart = @ \ {i}, !.plain = @ \ {i},
                                !.off = @ \ {i}, !.free = @ \ {i}]
<1>1. till[t] \in TillType /\ till[t].plain \subseteq till[t].cart
  BY DEF IInv, Types
<1>2. v \in TillType /\ v.cart = till[t].cart \ {i} /\ v.plain \subseteq v.cart
  BY <1>1 DEF TillType
<1>3. till' = [till EXCEPT ![t] = v] /\ {i} \in SUBSET till[t].cart /\ Drop(t, {i})
  BY DEF voidLine
<1> HIDE DEF v
<1> QED
  BY <1>2, <1>3, DropStep

\* An empty cart, posting or not.
LEMMA ClearedTyped ==
    ASSUME Types, NEW t \in Till
    PROVE  /\ Cleared(t) \in TillType /\ Cleared(t).cart = {} /\ Cleared(t).plain = {}
           /\ EmptyTill \in TillType /\ EmptyTill.cart = {} /\ EmptyTill.plain = {}
           /\ Cleared(t).disc = 0 /\ Cleared(t).posting = till[t].posting
<1>1. PICK p \in BOOLEAN : p = till[t].posting
  BY DEF Types, TillType
<1>2. PICK n \in BOOLEAN : n = FALSE
  OBVIOUS
<1>3. EmptyTill = [cart |-> {}, plain |-> {}, off |-> {}, free |-> {}, disc |-> 0,
                   posting |-> n]
  BY <1>2 DEF EmptyTill
<1>4. Cleared(t) = [cart |-> {}, plain |-> {}, off |-> {}, free |-> {}, disc |-> 0,
                    posting |-> p]
  BY <1>1, <1>3 DEF Cleared
<1> QED
  BY <1>1, <1>3, <1>4 DEF TillType

LEMMA CancelStep ==
    ASSUME IInv, NEW t \in Till, cancelBill(t)
    PROVE  IInv'
<1>1. Types
  BY DEF IInv
<1>2. /\ Cleared(t) \in TillType /\ Cleared(t).cart = till[t].cart \ till[t].cart
      /\ Cleared(t).plain \subseteq Cleared(t).cart
  BY <1>1, ClearedTyped
<1>3. till' = [till EXCEPT ![t] = Cleared(t)] /\ Drop(t, till[t].cart)
  BY DEF cancelBill
<1> QED
  BY <1>2, <1>3, DropStep

\* Other terms for the same cart.
LEMMA TermsStep ==
    ASSUME IInv, NEW t \in Till, NEW v \in TillType,
           v.cart = till[t].cart, v.plain = till[t].plain,
           till' = [till EXCEPT ![t] = v],
           UNCHANGED <<calls, server, fresh, dropped, excused>>
    PROVE  IInv'
<1>1. Types /\ v.plain \subseteq v.cart
  BY DEF IInv, Types
<1>2. /\ till' \in [Till -> TillType]
      /\ \A u \in Till : till'[u].plain \subseteq till'[u].cart
      /\ till'[t] = v /\ \A u \in Till \ {t} : till'[u] = till[u]
  BY <1>1, TillTyped
<1>3. Types' /\ \A c \in calls' : CallOK(c)'
  <2>1. \A c \in calls' : CallOK(c)'
    BY CallsStay DEF IInv, server
  <2> QED
    BY <1>1, <1>2, <2>1 DEF Types, server
<1>4. ASSUME NEW j \in Item \ excused' PROVE ItemOK(j)'
  <2>1. ItemOK(j)
    BY <1>4 DEF IInv
  <2>2. SameCarts(j)
    BY <1>2 DEF SameCarts
  <2>3. Covered(j)'
    BY <1>1, <2>1, <2>2 DEF ItemOK, Covered, SameCarts, Storing, Types, CallType
  <2>4. SameSales(j) /\ SameHolds(j) /\ SameCalls(j) /\ SameHistory(j)
    BY DEF SameSales, SameHolds, SameCalls, SameHistory, server, Waits
  <2> QED
    BY <1>1, <2>1, <2>2, <2>3, <2>4, Unmoved
<1> QED
  BY <1>3, <1>4 DEF IInv

LEMMA DiscountStep ==
    ASSUME IInv, NEW t \in Till, NEW d \in Nat, openDiscountAmt(t, d)
    PROVE  IInv'
<1> DEFINE v == [till[t] EXCEPT !.disc = d]
<1>1. till[t] \in TillType
  BY DEF IInv, Types
<1>2. v \in TillType /\ v.cart = till[t].cart /\ v.plain = till[t].plain
  BY <1>1 DEF TillType
<1>3. /\ till' = [till EXCEPT ![t] = v]
      /\ UNCHANGED <<calls, server, fresh, dropped, excused>>
  BY DEF openDiscountAmt
<1> HIDE DEF v
<1> QED
  BY <1>2, <1>3, TermsStep

LEMMA OverrideStep ==
    ASSUME IInv, NEW t \in Till, NEW i \in Item, NEW free \in SUBSET {i},
           openPriceOverride(t, i, free)
    PROVE  IInv'
<1> DEFINE v == [till[t] EXCEPT !.free = (@ \ {i}) \cup free]
<1>1. till[t] \in TillType
  BY DEF IInv, Types
<1>2. v \in TillType /\ v.cart = till[t].cart /\ v.plain = till[t].plain
  BY <1>1 DEF TillType
<1>3. /\ till' = [till EXCEPT ![t] = v]
      /\ UNCHANGED <<calls, server, fresh, dropped, excused>>
  BY DEF openPriceOverride
<1> HIDE DEF v
<1> QED
  BY <1>2, <1>3, TermsStep

\* Sending the cart of a till: no cart changes, and one call is new.
LEMMA SentStep ==
    ASSUME IInv, NEW t \in Till, NEW c \in CallType, NEW v \in TillType,
           c.till = t, c.kind \in {"sale", "hold"}, c.answer = "none",
           c.items = till[t].cart, till[t].cart # {},
           c.kind = "sale" /\ c.agreed => c.tender >= GrandTotal(c),
           \A d \in calls : d.id # c.id, calls' = calls \cup {c},
           v.cart = till[t].cart, v.plain = till[t].plain,
           till' = [till EXCEPT ![t] = v],
           excused' = excused \cup (till[t].cart \cap Sending(t)),
           sales' = sales, holds' = holds, fresh' = fresh, dropped' = dropped
    PROVE  IInv'
<1>1. Types /\ till[t] \in TillType /\ v.plain \subseteq v.cart
  BY DEF IInv, Types
<1>2. /\ till' \in [Till -> TillType]
      /\ \A u \in Till : till'[u].plain \subseteq till'[u].cart
      /\ till'[t] = v /\ \A u \in Till \ {t} : till'[u] = till[u]
  BY <1>1, TillTyped
<1>3. Types' /\ \A d \in calls' : CallOK(d)'
  <2>1. CallOK(c)'
    BY DEF CallOK
  <2>2. \A d \in calls : CallOK(d)'
    BY DEF IInv, CallOK, Storing
  <2>3. /\ calls' \subseteq CallType /\ IsFiniteSet(calls')
        /\ \A x, y \in calls' : x.id = y.id => x = y
    BY <1>1, OneMore
  <2>4. excused' \subseteq Item
    BY <1>1 DEF Types, TillType
  <2> QED
    BY <1>1, <1>2, <2>1, <2>2, <2>3, <2>4 DEF Types
<1>4. ASSUME NEW j \in Item \ excused' PROVE ItemOK(j)'
  <2>1. ItemOK(j)
    BY <1>4 DEF IInv
  <2>2. SameCarts(j)
    BY <1>2 DEF SameCarts
  <2>3. Covered(j)'
    BY <1>1, <2>1, <2>2 DEF ItemOK, Covered, SameCarts, Storing, Types, CallType
  <2>4. CASE j \notin till[t].cart
    <3>1. SameSales(j) /\ SameHolds(j) /\ SameHistory(j)
      BY DEF SameSales, SameHolds, SameHistory, Waits
    <3>2. SameCalls(j)
      BY <2>4 DEF SameCalls, Storing, Brings
    <3> QED
      BY <1>1, <2>1, <2>2, <2>3, <3>1, <3>2, Unmoved
  <2>5. CASE j \in till[t].cart
    <3>1. j \notin Sending(t)
      BY <1>4, <2>5
    <3>2. \A d \in calls : d.kind \in {"sale", "hold"} /\ d.till = t => j \notin d.items
      BY <3>1, SendingIs
    <3>3. InCart(j, t)
      BY <2>5, <3>2 DEF InCart, Took
    <3>4. j \notin fresh /\ Located(j)
      BY <2>1, <2>5 DEF ItemOK, Nowhere
    <3>5. /\ \A u \in Till : InCart(j, u) => u = t
          /\ NoSale(j) /\ NoHold(j) /\ NoBack(j) /\ j \notin dropped
      BY <3>3, <3>4 DEF Located, Gone, NoCart, InOneCart, InOneSale, InOneHold, InOneAnswer
    <3>6. Sole(j)'
      BY <2>1, <3>2 DEF ItemOK, Sole, Storing
    <3>7. Kept(j)'
      BY <1>1, <2>1, <2>2, <2>5 DEF ItemOK, Kept, Storing, SameCarts, Types, CallType
    <3>8. NoSale(j)' /\ NoHold(j)' /\ NoBack(j)'
      BY <3>5 DEF NoSale, NoHold, NoBack, Waits, Brings
    <3>9. \A u \in Till : InCart(j, u)' <=> u = t
      BY <2>2, <3>3, <3>5 DEF InCart, Took, SameCarts
    <3> QED
      BY <2>3, <3>4, <3>5, <3>6, <3>7, <3>8, <3>9 DEF ItemOK, Located, InOneCart
  <2> QED
    BY <2>4, <2>5
<1> QED
  BY <1>3, <1>4 DEF IInv

LEMMA PostSaleStep ==
    ASSUME IInv, NEW t \in Till, NEW credit \in BOOLEAN, NEW paid \in Nat,
           postSale(t, credit, paid)
    PROVE  IInv'
<1> DEFINE c0 == Call(t, "sale", till[t].cart)
           n == Tender(t, credit, paid)
           o == till[t].off
           v == [till[t] EXCEPT !.posting = TRUE]
<1>1. /\ Types /\ till[t] \in TillType /\ till[t].plain \subseteq till[t].cart
      /\ till[t].cart \in SUBSET Item /\ o \in SUBSET Item
  BY DEF IInv, Types, TillType
<1>2. /\ Cardinality(calls) < MaxCalls /\ till[t].cart # {}
      /\ till' = [till EXCEPT ![t] = v]
      /\ excused' = excused \cup (till[t].cart \cap Sending(t))
      /\ sales' = sales /\ holds' = holds /\ fresh' = fresh /\ dropped' = dropped
  BY DEF postSale, Send, Overlap, server
<1>3. /\ c0 \in CallType /\ \A d \in calls : d.id # c0.id
      /\ c0.till = t /\ c0.kind = "sale" /\ c0.items = till[t].cart /\ c0.answer = "none"
  BY <1>1, <1>2, CallMade
<1>4. n \in Nat /\ n >= After(t)
  <2>1. After(t) \in Nat
    BY <1>1, BillTyped
  <2>2. CASE credit
    BY <2>1, <2>2 DEF Tender
  <2>3. CASE ~credit
    <3>1. /\ Max({0, paid, After(t)}) \in {0, paid, After(t)}
          /\ Max({0, paid, After(t)}) >= After(t)
      <4>1. 0 \in Int /\ paid \in Int /\ After(t) \in Int
        BY <2>1
      <4> QED
        BY <4>1, MaxOf
    <3>2. n = Max({0, paid, After(t)})
      BY <2>3 DEF Tender
    <3> HIDE DEF n
    <3> QED
      BY <2>1, <3>1, <3>2
  <2> QED
    BY <2>2, <2>3
<1>5. Agrees(t) => n >= Price(till[t].cart \ (o \ NoDiscount))
  BY <1>1, <1>4, BillTyped
<1>6. /\ v \in TillType /\ v.cart = till[t].cart /\ v.plain = till[t].plain
  <2>1. PICK p \in BOOLEAN : p = TRUE
    OBVIOUS
  <2>2. v = [till[t] EXCEPT !.posting = p]
    BY <2>1
  <2> QED
    BY <1>1, <2>2 DEF TillType
<1>7. PICK W \in BOOLEAN : W = Agrees(t)
  BY DEF Agrees
<1>8. calls' = calls \cup {[c0 EXCEPT !.off = o, !.tender = n, !.agreed = W]}
  <2>1. calls' = calls \cup {[c0 EXCEPT !.off = o, !.tender = n, !.agreed = Agrees(t)]}
    BY Zenon DEF postSale, Send
  <2> HIDE DEF c0, n, o
  <2> QED
    BY <1>7, <2>1, Zenon
<1> HIDE DEF c0, n, o, v
<1> DEFINE c == [c0 EXCEPT !.off = o, !.tender = n, !.agreed = W]
<1>9. /\ c \in CallType /\ c.id = c0.id /\ c.till = t /\ c.kind = "sale" /\ c.off = o
      /\ c.items = till[t].cart /\ c.answer = "none" /\ c.tender = n /\ c.agreed = W
  BY <1>1, <1>3, <1>4, <1>7 DEF CallType
<1> HIDE DEF c
<1>10. \A d \in calls : d.id # c.id
  BY <1>3, <1>9
<1>11. c.kind = "sale" /\ c.agreed => c.tender >= GrandTotal(c)
  BY <1>5, <1>7, <1>9 DEF GrandTotal
<1>12. /\ c \in CallType /\ c.till = t /\ c.kind \in {"sale", "hold"}
       /\ c.items = till[t].cart /\ c.answer = "none"
  BY <1>9
<1>13. calls' = calls \cup {c} /\ till' = [till EXCEPT ![t] = v]
  BY <1>2, <1>8 DEF c
<1> QED
  BY <1>2, <1>6, <1>10, <1>11, <1>12, <1>13, SentStep

LEMMA HoldSaleStep ==
    ASSUME IInv, NEW t \in Till, holdSale(t)
    PROVE  IInv'
<1> DEFINE c0 == Call(t, "hold", till[t].cart)
           c == [c0 EXCEPT !.off = till[t].off, !.free = till[t].free, !.disc = till[t].disc]
<1>1. /\ Types /\ till[t] \in TillType /\ till[t].plain \subseteq till[t].cart
      /\ till[t].cart \in SUBSET Item /\ till[t].disc \in Nat
      /\ till[t].off \in SUBSET Item /\ till[t].free \in SUBSET Item
  BY DEF IInv, Types, TillType
<1>2. /\ Cardinality(calls) < MaxCalls /\ till[t].cart # {}
      /\ calls' = calls \cup {c}
      /\ till' = till
      /\ excused' = excused \cup (till[t].cart \cap Sending(t))
      /\ sales' = sales /\ holds' = holds /\ fresh' = fresh /\ dropped' = dropped
  BY DEF holdSale, Send, Overlap, server
<1>3. /\ c0 \in CallType /\ \A d \in calls : d.id # c0.id
      /\ c0.till = t /\ c0.kind = "hold" /\ c0.items = till[t].cart /\ c0.answer = "none"
  BY <1>1, <1>2, CallMade
<1> HIDE DEF c0
<1>4. /\ c \in CallType /\ c.id = c0.id /\ c.till = t /\ c.kind = "hold"
      /\ c.items = till[t].cart /\ c.answer = "none"
  BY <1>1, <1>3 DEF CallType
<1> HIDE DEF c
<1>5. till' = [till EXCEPT ![t] = till[t]]
  BY <1>1, <1>2 DEF Types
<1>6. \A d \in calls : d.id # c.id
  BY <1>3, <1>4
<1>7. c.kind = "sale" /\ c.agreed => c.tender >= GrandTotal(c)
  BY <1>4
<1> QED
  BY <1>1, <1>2, <1>4, <1>5, <1>6, <1>7, SentStep

LEMMA RetrieveSaleStep ==
    ASSUME IInv, NEW t \in Till, NEW h \in 1 .. MaxDocs, retrieveSale(t, h)
    PROVE  IInv'
<1> DEFINE c0 == Call(t, "retrieve", {})
           c1 == [c0 EXCEPT !.hold = h]
<1>1. Types
  BY DEF IInv
<1>2. /\ Cardinality(calls) < MaxCalls /\ h \in DOMAIN holds
      /\ calls' = calls \cup {c1} /\ till' = till /\ excused' = excused
      /\ sales' = sales /\ holds' = holds /\ fresh' = fresh /\ dropped' = dropped
  BY DEF retrieveSale, Send, server
<1>3. /\ c0 \in CallType /\ \A d \in calls : d.id # c0.id
      /\ c0.till = t /\ c0.kind = "retrieve" /\ c0.items = {} /\ c0.answer = "none"
  BY <1>1, <1>2, CallMade
<1> HIDE DEF c0
<1>4. h \in 0 .. MaxDocs
  BY CashierAssumption
<1>5. /\ c1 \in CallType /\ c1.id = c0.id /\ c1.till = t /\ c1.kind = "retrieve"
      /\ c1.items = {} /\ c1.answer = "none" /\ c1.hold = h
  BY <1>3, <1>4 DEF CallType
<1> HIDE DEF c1
<1>6. PICK c : c = c1
  OBVIOUS
<1>7. \A d \in calls : d.id # c.id
  BY <1>3, <1>5, <1>6
<1>8. Types' /\ \A d \in calls' : CallOK(d)'
  <2>1. CallOK(c)'
    BY <1>2, <1>5, <1>6 DEF CallOK, Storing
  <2>2. \A d \in calls : CallOK(d)'
    BY <1>2 DEF IInv, CallOK, Storing
  <2>3. /\ calls' \subseteq CallType /\ IsFiniteSet(calls')
        /\ \A x, y \in calls' : x.id = y.id => x = y
    BY <1>1, <1>2, <1>5, <1>6, <1>7, OneMore
  <2> QED
    BY <1>1, <1>2, <1>6, <2>1, <2>2, <2>3 DEF Types
<1>9. ASSUME NEW j \in Item \ excused' PROVE ItemOK(j)'
  <2>1. ItemOK(j)
    BY <1>2, <1>9 DEF IInv
  <2>2. SameCarts(j) /\ SameSales(j) /\ SameHolds(j) /\ SameHistory(j)
    BY <1>2 DEF SameCarts, SameSales, SameHolds, SameHistory, Waits
  <2>3. SameCalls(j)
    BY <1>2, <1>5, <1>6 DEF SameCalls, Storing, Brings
  <2>4. Covered(j)'
    BY <1>2, <1>5, <1>6, <2>1 DEF ItemOK, Covered, Storing
  <2> QED
    BY <1>1, <2>1, <2>2, <2>3, <2>4, Unmoved
<1> QED
  BY <1>8, <1>9 DEF IInv

\* A loaded cart.
LEMMA LoadTyped ==
    ASSUME Types, NEW t \in Till, NEW items \in SUBSET Item, NEW off \in SUBSET Item,
           NEW free \in SUBSET Item, NEW disc \in Nat, Load(t, items, off, free, disc)
    PROVE  /\ till' \in [Till -> TillType]
           /\ \A u \in Till : till'[u].plain \subseteq till'[u].cart
           /\ till'[t].cart = items /\ \A u \in Till \ {t} : till'[u] = till[u]
           /\ excused' \subseteq Item /\ excused \subseteq excused'
           /\ \A i \in Item \ excused' :
                i \notin till[t].cart /\ (i \in items => i \notin Sending(t) /\ Sending(t) = {})
<1> DEFINE v == [Cleared(t) EXCEPT !.cart = items, !.plain = items \cap Taxed,
                                   !.off = off, !.free = free, !.disc = disc]
<1>1. v \in TillType /\ v.cart = items /\ v.plain = items \cap Taxed
  BY ClearedTyped DEF TillType
<1>2. till' = [till EXCEPT ![t] = v]
  BY DEF Load
<1> HIDE DEF v
<1>3. /\ till' \in [Till -> TillType]
      /\ \A u \in Till : till'[u].plain \subseteq till'[u].cart
      /\ till'[t] = v /\ \A u \in Till \ {t} : till'[u] = till[u]
  BY <1>1, <1>2, TillTyped
<1>4. excused' = excused \cup till[t].cart
                         \cup (IF Sending(t) = {} THEN {} ELSE items)
  BY DEF Load
<1>5. till[t].cart \subseteq Item /\ excused \subseteq Item
  BY DEF Types, TillType
<1> QED
  BY <1>1, <1>3, <1>4, <1>5

LEMMA DuplicateStep ==
    ASSUME IInv, NEW t \in Till, NEW items \in SUBSET Item, NEW off \in SUBSET items,
           duplicateBill(t, items, off)
    PROVE  IInv'
<1>1. Types
  BY DEF IInv
<1>2. /\ till' \in [Till -> TillType]
      /\ \A u \in Till : till'[u].plain \subseteq till'[u].cart
      /\ till'[t].cart = items /\ \A u \in Till \ {t} : till'[u] = till[u]
      /\ excused' \subseteq Item /\ excused \subseteq excused'
      /\ \A i \in Item \ excused' :
           i \notin till[t].cart /\ (i \in items => i \notin Sending(t) /\ Sending(t) = {})
  <2>1. Load(t, items, off, {}, 0) /\ off \in SUBSET Item
    BY DEF duplicateBill
  <2> QED
    BY <1>1, <2>1, LoadTyped
<1>3. /\ items \subseteq fresh /\ fresh' = fresh \ items /\ calls' = calls
      /\ sales' = sales /\ holds' = holds /\ dropped' = dropped
  BY DEF duplicateBill, server
<1>4. Types' /\ \A c \in calls' : CallOK(c)'
  <2>1. \A c \in calls' : CallOK(c)'
    BY <1>3, CallsStay DEF IInv
  <2> QED
    BY <1>1, <1>2, <1>3, <2>1 DEF Types
<1>5. ASSUME NEW j \in Item \ excused' PROVE ItemOK(j)'
  <2>1. ItemOK(j) /\ j \notin till[t].cart
    BY <1>2, <1>5 DEF IInv
  <2>2. CASE j \notin items
    <3>1. SameCarts(j)
      BY <1>2, <2>1, <2>2 DEF SameCarts
    <3>2. Covered(j)'
      BY <1>1, <1>3, <2>1, <3>1 DEF ItemOK, Covered, SameCarts, Storing, Types, CallType
    <3>3. SameSales(j) /\ SameHolds(j) /\ SameCalls(j) /\ SameHistory(j)
      BY <1>3, <2>2 DEF SameSales, SameHolds, SameCalls, SameHistory, Waits
    <3> QED
      BY <1>1, <2>1, <3>1, <3>2, <3>3, Unmoved
  <2>3. CASE j \in items
    <3>1. Nowhere(j) /\ Sending(t) = {}
      BY <1>2, <1>3, <1>5, <2>1, <2>3 DEF ItemOK
    <3>2. \A c \in calls : ~(Storing(c) /\ c.till = t)
      BY <3>1, SendingIs DEF Storing, IInv, CallOK
    <3>3. Covered(j)' /\ Sole(j)' /\ Kept(j)'
      BY <1>1, <1>2, <1>3, <3>1, <3>2 DEF Covered, Sole, Kept, Nowhere, Storing,
                                        Types, CallType
    <3>4. \A u \in Till : InCart(j, u)' <=> u = t
      BY <1>2, <1>3, <2>3, <3>1 DEF InCart, Took, Nowhere
    <3>5. NoSale(j)' /\ NoHold(j)' /\ NoBack(j)'
      BY <1>3, <3>1 DEF NoSale, NoHold, NoBack, Waits, Brings, Nowhere
    <3> QED
      BY <1>3, <2>3, <3>1, <3>3, <3>4, <3>5 DEF ItemOK, Located, InOneCart, Nowhere
  <2> QED
    BY <2>2, <2>3
<1> QED
  BY <1>4, <1>5 DEF IInv

LEMMA RetrievedStep ==
    ASSUME IInv, NEW c \in calls, Retrieved(c)
    PROVE  IInv'
<1> DEFINE t == c.till
           items == c.items
<1>1. /\ Types /\ c \in CallType /\ CallOK(c) /\ t \in Till /\ items \in SUBSET Item
      /\ c.answer = "ok" /\ c.kind = "retrieve"
  BY DEF IInv, Types, CallType, Retrieved
<1>2. PICK h \in HoldType : h = holds[c.hold]
  <2>1. c.hold \in DOMAIN holds
    BY <1>1 DEF CallOK
  <2>2. holds \in Seq(HoldType)
    BY <1>1 DEF Types
  <2> QED
    BY <2>1, <2>2, ElementOfSeq
<1>3. /\ till' \in [Till -> TillType]
      /\ \A u \in Till : till'[u].plain \subseteq till'[u].cart
      /\ till'[t].cart = items /\ \A u \in Till \ {t} : till'[u] = till[u]
      /\ excused' \subseteq Item /\ excused \subseteq excused'
      /\ \A i \in Item \ excused' :
           i \notin till[t].cart /\ (i \in items => i \notin Sending(t) /\ Sending(t) = {})
  <2>1. Load(t, items, h.off, h.free, h.disc)
    BY <1>2 DEF Retrieved
  <2>2. h.off \in SUBSET Item /\ h.free \in SUBSET Item /\ h.disc \in Nat
    BY DEF HoldType
  <2> QED
    BY <1>1, <2>1, <2>2, LoadTyped
<1>4. /\ calls' = calls \ {c} /\ fresh' = fresh
      /\ sales' = sales /\ holds' = holds /\ dropped' = dropped
  BY DEF Retrieved, server, Done
<1>5. Types' /\ \A d \in calls' : CallOK(d)'
  <2>1. \A d \in calls' : CallOK(d)'
    BY <1>4 DEF IInv, CallOK, Storing
  <2>2. /\ calls' \subseteq CallType /\ IsFiniteSet(calls')
        /\ \A x, y \in calls' : x.id = y.id => x = y
    BY <1>1, <1>4, OneLess
  <2> QED
    BY <1>1, <1>3, <1>4, <2>1, <2>2 DEF Types
<1>6. ASSUME NEW j \in Item \ excused' PROVE ItemOK(j)'
  <2>1. ItemOK(j) /\ j \notin till[t].cart
    BY <1>3, <1>6 DEF IInv
  <2>2. CASE j \notin items
    <3>1. SameCarts(j)
      BY <1>3, <2>1, <2>2 DEF SameCarts
    <3>2. Covered(j)'
      BY <1>1, <1>4, <2>1, <3>1 DEF ItemOK, Covered, SameCarts, Storing, Types, CallType
    <3>3. SameSales(j) /\ SameHolds(j) /\ SameHistory(j)
      BY <1>4 DEF SameSales, SameHolds, SameHistory, Waits
    <3>4. SameCalls(j)
      BY <1>4, <2>2 DEF SameCalls
    <3> QED
      BY <1>1, <2>1, <3>1, <3>2, <3>3, <3>4, Unmoved
  <2>3. CASE j \in items
    <3>1. Sending(t) = {} /\ Brings(c, j)
      BY <1>1, <1>3, <1>6, <2>3 DEF Brings
    <3>2. \A d \in calls : ~(Storing(d) /\ d.till = t)
      BY <3>1, SendingIs DEF Storing, IInv, CallOK
    <3>3. j \notin fresh /\ Located(j)
      BY <2>1, <2>3 DEF ItemOK, Nowhere
    <3>4. /\ \A d \in calls : Brings(d, j) => d = c
          /\ NoCart(j) /\ NoSale(j) /\ NoHold(j) /\ j \notin dropped
      BY <3>1, <3>3 DEF Located, Gone, NoBack, InOneCart, InOneSale, InOneHold, InOneAnswer
    <3>5. Covered(j)' /\ Sole(j)' /\ Kept(j)'
      BY <1>1, <1>3, <1>4, <2>1, <3>2 DEF ItemOK, Covered, Sole, Kept, Storing,
                                        Types, CallType
    <3>6. \A u \in Till : InCart(j, u)' <=> u = t
      <4>1. \A d \in calls' : ~Took(d, j, t)
        BY <1>4, <3>1, SendingIs DEF Took
      <4>2. InCart(j, t)'
        BY <1>3, <2>3, <4>1 DEF InCart, Took
      <4>3. ASSUME NEW u \in Till, u # t PROVE ~InCart(j, u)'
        <5>1. till'[u] = till[u] /\ ~InCart(j, u)
          BY <1>3, <3>4, <4>3 DEF NoCart
        <5>2. \A d \in calls : Took(d, j, u) => d \in calls'
          BY <1>1, <1>4 DEF Took
        <5> QED
          BY <5>1, <5>2 DEF InCart, Took
      <4> QED
        BY <4>2, <4>3
    <3>7. NoSale(j)' /\ NoHold(j)' /\ NoBack(j)'
      BY <1>4, <3>4 DEF NoSale, NoHold, NoBack, Waits, Brings
    <3> QED
      BY <1>1, <1>4, <3>3, <3>4, <3>5, <3>6, <3>7 DEF ItemOK, Located, InOneCart
  <2> QED
    BY <2>2, <2>3
<1> QED
  BY <1>5, <1>6 DEF IInv

-----------------------------------------------------------------------------
(* The server.                                                             *)

\* A refused call: nothing is stored, and the call carries nothing any more.
LEMMA RefusedStep ==
    ASSUME IInv, NEW c \in calls, NEW answer \in {"error", "short"},
           c.answer = "none", answer = "short" => ~c.agreed, Answer(c, answer, {}),
           UNCHANGED <<till, server, fresh, dropped, excused>>
    PROVE  IInv'
<1>1. Types
  BY DEF IInv
<1>2. PICK d \in CallType :
        /\ calls' = (calls \ {c}) \cup {d}
        /\ d.kind = c.kind /\ (answer = "short" => d.agreed = c.agreed)
        /\ d.answer = answer /\ d.items = {}
        /\ calls' \subseteq CallType /\ IsFiniteSet(calls')
        /\ \A x, y \in calls' : x.id = y.id => x = y
  BY <1>1, Told
<1>3. /\ till' = till /\ sales' = sales /\ holds' = holds /\ fresh' = fresh
      /\ dropped' = dropped /\ excused' = excused
  BY DEF server
<1>4. Types' /\ \A x \in calls' : CallOK(x)'
  <2>1. CallOK(d)'
    BY <1>2 DEF CallOK, Storing
  <2>2. \A x \in calls : CallOK(x)'
    BY <1>3 DEF IInv, CallOK, Storing
  <2> QED
    BY <1>1, <1>2, <1>3, <2>1, <2>2 DEF Types
<1>5. ASSUME NEW j \in Item \ excused' PROVE ItemOK(j)'
  <2>1. ItemOK(j)
    BY <1>3, <1>5 DEF IInv
  <2>2. SameCarts(j) /\ SameSales(j) /\ SameHolds(j) /\ SameHistory(j)
    BY <1>3 DEF SameCarts, SameSales, SameHolds, SameHistory, Waits
  <2>3. SameCalls(j)
    BY <1>2 DEF SameCalls, Storing, Brings
  <2>4. Covered(j)'
    BY <1>2, <1>3, <2>1 DEF ItemOK, Covered, Storing
  <2> QED
    BY <1>1, <2>1, <2>2, <2>3, <2>4, Unmoved
<1> QED
  BY <1>4, <1>5 DEF IInv

LEMMA RefuseStep ==
    ASSUME IInv, NEW c \in calls, Refuse(c)
    PROVE  IInv'
<1>1. /\ c.answer = "none" /\ Answer(c, "error", {})
      /\ UNCHANGED <<till, server, fresh, dropped, excused>>
  BY DEF Refuse
<1>2. PICK answer \in {"error", "short"} : answer = "error"
  OBVIOUS
<1>3. answer = "short" => ~c.agreed
  BY <1>2
<1> QED
  BY <1>1, <1>2, <1>3, RefusedStep

LEMMA RefuseShortStep ==
    ASSUME IInv, NEW c \in calls, RefuseShort(c)
    PROVE  IInv'
<1>1. /\ c.answer = "none" /\ c.kind = "sale" /\ c.tender < GrandTotal(c)
      /\ Answer(c, "short", {})
      /\ UNCHANGED <<till, server, fresh, dropped, excused>>
  BY DEF RefuseShort
<1>2. c.items \in SUBSET Item /\ c.tender \in Nat
  BY DEF IInv, Types, CallType
<1>3. ~c.agreed
  <2>1. GrandTotal(c) \in Nat
    BY <1>2, PriceTyped DEF GrandTotal
  <2>2. ~(c.tender >= GrandTotal(c))
    BY <1>1, <1>2, <2>1
  <2>3. c.kind = "sale" /\ c.answer = "none" /\ c.agreed => c.tender >= GrandTotal(c)
    BY DEF IInv, CallOK
  <2> QED
    BY <1>1, <2>2, <2>3, Zenon
<1>4. PICK answer \in {"error", "short"} : answer = "short"
  OBVIOUS
<1> QED
  BY <1>1, <1>3, <1>4, RefusedStep

\* One more record.
LEMMA Appended ==
    ASSUME NEW S, NEW q \in Seq(S), NEW e \in S, NEW r, r = Append(q, e)
    PROVE  /\ r \in Seq(S) /\ DOMAIN q = 1 .. Len(q) /\ DOMAIN r = 1 .. Len(q) + 1
           /\ Len(q) \in Nat /\ r[Len(q) + 1] = e /\ \A n \in DOMAIN q : r[n] = q[n]
  OBVIOUS

\* What a committed call stored stays in the cart until the answer comes, but
\* has left it: before that step it was in that cart and nowhere else.
LEMMA WasInCart ==
    ASSUME IInv, NEW c \in calls, Storing(c), c.answer = "none",
           NEW i \in Item \ excused, i \in c.items
    PROVE  /\ InCart(i, c.till) /\ i \notin fresh /\ i \notin dropped
           /\ \A u \in Till : InCart(i, u) => u = c.till
           /\ NoSale(i) /\ NoHold(i) /\ NoBack(i)
           /\ \A d \in calls : Storing(d) /\ d.till = c.till /\ i \in d.items => d = c
<1>1. c.till \in Till /\ ItemOK(i)
  BY DEF IInv, Types, CallType
<1>2. \A d \in calls : Storing(d) /\ d.till = c.till /\ i \in d.items => d = c
  BY <1>1 DEF ItemOK, Sole
<1>3. InCart(i, c.till)
  BY <1>1, <1>2 DEF ItemOK, Kept, InCart, Took, Storing
<1>4. i \notin fresh /\ Located(i)
  BY <1>1 DEF ItemOK, Nowhere
<1> QED
  BY <1>1, <1>2, <1>3, <1>4 DEF Located, Gone, NoCart, InOneCart, InOneSale, InOneHold,
                               InOneAnswer

\* The answer to a call that stores its items and committed: the carts are as
\* they were, and what was in the cart of its till is no longer there.
LEMMA Stored ==
    ASSUME IInv, NEW c \in calls, Storing(c), c.answer = "none",
           NEW d \in CallType, calls' = (calls \ {c}) \cup {d},
           d.id = c.id, d.till = c.till, d.kind = c.kind, d.answer = "ok",
           d.items = c.items, till' = till,
           NEW i \in Item \ excused
    PROVE  /\ Covered(i)' /\ SameCarts(i)
           /\ i \notin c.items => SameCalls(i)
           /\ i \in c.items => Sole(i)' /\ Kept(i)' /\ NoCart(i)' /\ NoBack(i)'
<1>1. Types /\ ItemOK(i) /\ c.till \in Till
  BY DEF IInv, Types, CallType
<1>2. Covered(i)'
  BY <1>1 DEF ItemOK, Covered, Storing
<1>3. SameCarts(i)
  BY DEF SameCarts
<1>4. i \notin c.items => SameCalls(i)
  BY DEF SameCalls, Brings, Storing
<1>5. ASSUME i \in c.items
      PROVE  Sole(i)' /\ Kept(i)' /\ NoCart(i)' /\ NoBack(i)'
  <2>1. /\ InCart(i, c.till) /\ \A u \in Till : InCart(i, u) => u = c.till
        /\ NoBack(i)
        /\ \A x \in calls : Storing(x) /\ x.till = c.till /\ i \in x.items => x = c
    BY <1>5, WasInCart
  <2>2. Sole(i)'
    BY <1>1, <2>1 DEF ItemOK, Sole, Storing
  <2>3. Kept(i)'
    BY <1>1 DEF ItemOK, Kept, Storing
  <2>4. NoBack(i)'
    BY <2>1 DEF NoBack, Brings, Storing
  <2>5. NoCart(i)'
    <3> SUFFICES ASSUME NEW u \in Till PROVE ~InCart(i, u)'
      BY DEF NoCart
    <3>1. CASE u = c.till
      <4>1. Took(d, i, u) /\ d \in calls'
        BY <1>5, <3>1 DEF Took, Storing
      <4> QED
        BY <4>1 DEF InCart, Took
    <3>2. CASE u # c.till
      <4>1. ~InCart(i, u)
        BY <2>1, <3>2
      <4>2. \A x \in calls : Took(x, i, u) => x \in calls'
        BY <3>2 DEF Took
      <4> QED
        BY <4>1, <4>2 DEF InCart, Took
    <3> QED
      BY <3>1, <3>2
  <2> QED
    BY <2>2, <2>3, <2>4, <2>5
<1> QED
  BY <1>2, <1>3, <1>4, <1>5

\* An answer that was lost: what the call stored met a race.
LEMMA LostStep ==
    ASSUME IInv, NEW c \in calls, c.answer = "none", NEW items \in SUBSET Item,
           Storing(c) => items = c.items,
           Answer(c, "error", {}), excused' = excused \cup items,
           till' = till, fresh' = fresh, dropped' = dropped,
           sales' \in Seq(SUBSET Item), holds' \in Seq(HoldType),
           DOMAIN holds \subseteq DOMAIN holds',
           \A i \in Item \ items : SameSales(i) /\ SameHolds(i)
    PROVE  IInv'
<1>1. Types
  BY DEF IInv
<1>2. PICK d \in CallType :
        /\ calls' = (calls \ {c}) \cup {d}
        /\ d.answer = "error" /\ d.items = {}
        /\ calls' \subseteq CallType /\ IsFiniteSet(calls')
        /\ \A x, y \in calls' : x.id = y.id => x = y
  BY <1>1, Told
<1>3. Types' /\ \A x \in calls' : CallOK(x)'
  <2>1. CallOK(d)'
    BY <1>2 DEF CallOK, Storing
  <2>2. \A x \in calls : CallOK(x)'
    BY DEF IInv, CallOK, Storing
  <2> QED
    BY <1>1, <1>2, <2>1, <2>2 DEF Types
<1>4. ASSUME NEW j \in Item \ excused' PROVE ItemOK(j)'
  <2>1. ItemOK(j) /\ j \notin items
    BY <1>4 DEF IInv
  <2>2. SameCarts(j) /\ SameSales(j) /\ SameHolds(j) /\ SameHistory(j)
    BY <1>4, <2>1 DEF SameCarts, SameHistory
  <2>3. SameCalls(j)
    BY <1>2 DEF SameCalls, Storing, Brings
  <2>4. Covered(j)'
    BY <1>2, <2>1 DEF ItemOK, Covered, Storing
  <2> QED
    BY <1>1, <2>1, <2>2, <2>3, <2>4, Unmoved
<1> QED
  BY <1>3, <1>4 DEF IInv

LEMMA PostSalesStep ==
    ASSUME IInv, NEW c \in calls, PostSales(c)
    PROVE  IInv'
<1>1. /\ Types /\ c \in CallType /\ c.items \in SUBSET Item /\ Storing(c)
      /\ c.answer = "none" /\ c.kind = "sale" /\ c.till \in Till
  BY DEF IInv, Types, CallType, PostSales, Storing
<1>2. /\ sales' = Append(sales, c.items) /\ AnswerCommitted(c, c.items)
      /\ till' = till /\ holds' = holds /\ fresh' = fresh /\ dropped' = dropped
  BY DEF PostSales
<1>3. /\ sales' \in Seq(SUBSET Item) /\ DOMAIN sales = 1 .. Len(sales)
      /\ DOMAIN sales' = 1 .. Len(sales) + 1 /\ Len(sales) \in Nat
      /\ sales'[Len(sales) + 1] = c.items /\ \A s \in DOMAIN sales : sales'[s] = sales[s]
  <2>1. sales \in Seq(SUBSET Item)
    BY <1>1 DEF Types
  <2> QED
    BY <1>1, <1>2, <2>1, Appended
<1>4. \A i \in Item \ c.items : SameSales(i) /\ SameHolds(i)
  BY <1>2, <1>3 DEF SameSales, SameHolds, Waits
<1>5. CASE Answer(c, "ok", c.items) /\ UNCHANGED excused
  <2>1. PICK d \in CallType :
          /\ calls' = (calls \ {c}) \cup {d}
          /\ d.id = c.id /\ d.till = c.till /\ d.kind = c.kind
          /\ d.answer = "ok" /\ d.items = c.items
          /\ calls' \subseteq CallType /\ IsFiniteSet(calls')
          /\ \A x, y \in calls' : x.id = y.id => x = y
    BY <1>1, <1>5, Told
  <2>2. Types' /\ \A x \in calls' : CallOK(x)'
    <3>1. CallOK(d)'
      BY <1>1, <2>1 DEF IInv, CallOK, Storing
    <3>2. \A x \in calls : CallOK(x)'
      BY <1>2 DEF IInv, CallOK, Storing
    <3> QED
      BY <1>1, <1>2, <1>3, <1>5, <2>1, <3>1, <3>2 DEF Types
  <2>3. ASSUME NEW j \in Item \ excused' PROVE ItemOK(j)'
    <3>1. ItemOK(j) /\ j \in Item \ excused
      BY <1>5, <2>3 DEF IInv
    <3>2. /\ Covered(j)' /\ SameCarts(j)
          /\ j \notin c.items => SameCalls(j)
          /\ j \in c.items => Sole(j)' /\ Kept(j)' /\ NoCart(j)' /\ NoBack(j)'
      BY <1>1, <1>2, <2>1, <3>1, Stored
    <3>3. SameHistory(j)
      BY <1>2 DEF SameHistory
    <3>4. CASE j \notin c.items
      BY <1>1, <1>4, <2>3, <3>1, <3>2, <3>3, <3>4, Unmoved
    <3>5. CASE j \in c.items
      <4>1. j \notin fresh /\ j \notin dropped /\ NoSale(j) /\ NoHold(j)
        BY <1>1, <3>1, <3>5, WasInCart
      <4>2. \A s \in DOMAIN sales' : j \in sales'[s] <=> s = Len(sales) + 1
        BY <1>3, <3>5, <4>1 DEF NoSale
      <4>3. InOneSale(j)'
        <5>1. NoHold(j)'
          BY <1>2, <4>1 DEF NoHold, Waits
        <5>2. Len(sales) + 1 \in DOMAIN sales'
          BY <1>3
        <5>3. \E s \in DOMAIN sales' : \A n \in DOMAIN sales' : j \in sales'[n] <=> n = s
          BY <4>2, <5>2
        <5> QED
          BY <3>2, <3>5, <5>1, <5>3 DEF InOneSale
      <4> QED
        BY <1>2, <3>2, <3>5, <4>1, <4>3 DEF ItemOK, Located
    <3> QED
      BY <3>4, <3>5
  <2> QED
    BY <2>2, <2>3 DEF IInv
<1>6. CASE Answer(c, "error", {}) /\ excused' = excused \cup c.items
  <2>1. holds' \in Seq(HoldType) /\ DOMAIN holds \subseteq DOMAIN holds'
    BY <1>1, <1>2 DEF Types
  <2> QED
    BY <1>1, <1>2, <1>3, <1>4, <1>6, <2>1, LostStep
<1> QED
  BY <1>2, <1>5, <1>6 DEF AnswerCommitted

LEMMA PostHoldStep ==
    ASSUME IInv, NEW c \in calls, PostHold(c)
    PROVE  IInv'
<1> DEFINE h0 == [items |-> c.items, off |-> c.off, free |-> c.free, disc |-> c.disc,
                  status |-> "Hold"]
<1>1. /\ Types /\ c \in CallType /\ c.items \in SUBSET Item /\ Storing(c)
      /\ c.answer = "none" /\ c.kind = "hold" /\ c.till \in Till
      /\ h0 \in HoldType /\ h0.items = c.items /\ h0.status = "Hold"
  BY DEF IInv, Types, CallType, PostHold, Storing, HoldType
<1>2. /\ holds' = Append(holds, h0) /\ AnswerCommitted(c, c.items)
      /\ till' = till /\ sales' = sales /\ fresh' = fresh /\ dropped' = dropped
  BY DEF PostHold
<1> HIDE DEF h0
<1>3. /\ holds' \in Seq(HoldType) /\ DOMAIN holds = 1 .. Len(holds)
      /\ DOMAIN holds' = 1 .. Len(holds) + 1 /\ Len(holds) \in Nat
      /\ holds'[Len(holds) + 1] = h0 /\ \A h \in DOMAIN holds : holds'[h] = holds[h]
  <2>1. holds \in Seq(HoldType)
    BY <1>1 DEF Types
  <2> QED
    BY <1>1, <1>2, <2>1, Appended
<1>4. \A i \in Item \ c.items : SameSales(i) /\ SameHolds(i)
  BY <1>1, <1>2, <1>3 DEF SameSales, SameHolds, Waits
<1>5. DOMAIN holds \subseteq DOMAIN holds'
  BY <1>3
<1>6. CASE Answer(c, "ok", c.items) /\ UNCHANGED excused
  <2>1. PICK d \in CallType :
          /\ calls' = (calls \ {c}) \cup {d}
          /\ d.id = c.id /\ d.till = c.till /\ d.kind = c.kind
          /\ d.answer = "ok" /\ d.items = c.items
          /\ calls' \subseteq CallType /\ IsFiniteSet(calls')
          /\ \A x, y \in calls' : x.id = y.id => x = y
    BY <1>1, <1>6, Told
  <2>2. Types' /\ \A x \in calls' : CallOK(x)'
    <3>1. CallOK(d)'
      BY <1>1, <2>1 DEF IInv, CallOK, Storing
    <3>2. \A x \in calls : CallOK(x)'
      BY <1>5 DEF IInv, CallOK, Storing
    <3> QED
      BY <1>1, <1>2, <1>3, <1>6, <2>1, <3>1, <3>2 DEF Types
  <2>3. ASSUME NEW j \in Item \ excused' PROVE ItemOK(j)'
    <3>1. ItemOK(j) /\ j \in Item \ excused
      BY <1>6, <2>3 DEF IInv
    <3>2. /\ Covered(j)' /\ SameCarts(j)
          /\ j \notin c.items => SameCalls(j)
          /\ j \in c.items => Sole(j)' /\ Kept(j)' /\ NoCart(j)' /\ NoBack(j)'
      BY <1>1, <1>2, <2>1, <3>1, Stored
    <3>3. SameHistory(j)
      BY <1>2 DEF SameHistory
    <3>4. CASE j \notin c.items
      BY <1>1, <1>4, <2>3, <3>1, <3>2, <3>3, <3>4, Unmoved
    <3>5. CASE j \in c.items
      <4>1. j \notin fresh /\ j \notin dropped /\ NoSale(j) /\ NoHold(j)
        BY <1>1, <3>1, <3>5, WasInCart
      <4>2. \A h \in DOMAIN holds' : Waits(h, j)' <=> h = Len(holds) + 1
        BY <1>1, <1>3, <3>5, <4>1 DEF NoHold, Waits
      <4>3. InOneHold(j)'
        <5>1. NoSale(j)'
          BY <1>2, <4>1 DEF NoSale
        <5>2. PICK n \in DOMAIN holds' : n = Len(holds) + 1
          BY <1>3
        <5>3. \E h \in DOMAIN holds' : \A m \in DOMAIN holds' : Waits(m, j)' <=> m = h
          BY <4>2, <5>2
        <5> QED
          BY <3>2, <3>5, <5>1, <5>3 DEF InOneHold
      <4> QED
        BY <1>2, <3>2, <3>5, <4>1, <4>3 DEF ItemOK, Located
    <3> QED
      BY <3>4, <3>5
  <2> QED
    BY <2>2, <2>3 DEF IInv
<1>7. CASE Answer(c, "error", {}) /\ excused' = excused \cup c.items
  <2>1. sales' \in Seq(SUBSET Item)
    BY <1>1, <1>2 DEF Types
  <2> QED
    BY <1>1, <1>2, <1>3, <1>4, <1>5, <1>7, <2>1, LostStep
<1> QED
  BY <1>2, <1>6, <1>7 DEF AnswerCommitted

LEMMA PostRetrieveStep ==
    ASSUME IInv, NEW c \in calls, PostRetrieve(c)
    PROVE  IInv'
<1>1. /\ Types /\ c \in CallType /\ c.answer = "none" /\ c.kind = "retrieve"
      /\ ~Storing(c) /\ c.hold \in DOMAIN holds
  BY DEF IInv, Types, CallOK, PostRetrieve, Storing
<1>2. PICK h \in DOMAIN holds : h = c.hold
  BY <1>1
<1>3. /\ holds \in Seq(HoldType) /\ holds[h] \in HoldType
  <2>1. holds \in Seq(HoldType)
    BY <1>1 DEF Types
  <2> QED
    BY <1>2, <2>1, ElementOfSeq
<1>4. PICK items \in SUBSET Item : items = holds[h].items
  BY <1>3 DEF HoldType
<1>5. /\ holds' = [holds EXCEPT ![h] = [holds[h] EXCEPT !.status = "Retrieved"]]
      /\ AnswerCommitted(c, items) /\ holds[h].status = "Hold"
      /\ till' = till /\ sales' = sales /\ fresh' = fresh /\ dropped' = dropped
  BY <1>2, <1>4 DEF PostRetrieve, Retrieve
<1>6. PICK v : v = [holds[h] EXCEPT !.status = "Retrieved"]
  OBVIOUS
<1>7. v \in HoldType /\ v.items = items /\ v.status = "Retrieved"
  BY <1>3, <1>4, <1>6 DEF HoldType
<1>8. /\ holds' \in Seq(HoldType) /\ DOMAIN holds' = DOMAIN holds
      /\ holds'[h] = v /\ \A n \in DOMAIN holds : n # h => holds'[n] = holds[n]
  <2>1. holds' = [holds EXCEPT ![h] = v]
    BY <1>5, <1>6
  <2> QED
    BY <1>3, <1>7, <2>1, ExceptSeq
<1>9. \A i \in Item \ items : SameSales(i) /\ SameHolds(i)
  BY <1>4, <1>5, <1>7, <1>8 DEF SameSales, SameHolds, Waits
<1>10. CASE Answer(c, "ok", items) /\ UNCHANGED excused
  <2>1. PICK d \in CallType :
          /\ calls' = (calls \ {c}) \cup {d}
          /\ d.id = c.id /\ d.till = c.till /\ d.kind = c.kind
          /\ d.answer = "ok" /\ d.items = items /\ d.hold = c.hold
          /\ calls' \subseteq CallType /\ IsFiniteSet(calls')
          /\ \A x, y \in calls' : x.id = y.id => x = y
    BY <1>1, <1>10, Told
  <2>2. Types' /\ \A x \in calls' : CallOK(x)'
    <3>1. CallOK(d)'
      BY <1>1, <1>8, <2>1 DEF CallOK, Storing
    <3>2. \A x \in calls : CallOK(x)'
      BY <1>8 DEF IInv, CallOK, Storing
    <3> QED
      BY <1>1, <1>5, <1>8, <1>10, <2>1, <3>1, <3>2 DEF Types
  <2>3. ASSUME NEW j \in Item \ excused' PROVE ItemOK(j)'
    <3>1. ItemOK(j)
      BY <1>10, <2>3 DEF IInv
    <3>2. SameCarts(j) /\ SameHistory(j)
      BY <1>5 DEF SameCarts, SameHistory
    <3>3. Covered(j)'
      BY <1>1, <1>5, <2>1, <3>1 DEF ItemOK, Covered, Storing
    <3>4. CASE j \notin items
      <4>1. SameCalls(j)
        BY <1>1, <2>1, <3>4 DEF SameCalls, Storing, Brings
      <4> QED
        BY <1>1, <1>9, <2>3, <3>1, <3>2, <3>3, <3>4, <4>1, Unmoved
    <3>5. CASE j \in items
      <4>1. Waits(h, j)
        BY <1>4, <1>5, <3>5 DEF Waits
      <4>2. j \notin fresh /\ Located(j)
        BY <1>4, <3>1, <3>5 DEF ItemOK, Nowhere
      <4>3. /\ \A n \in DOMAIN holds : Waits(n, j) => n = h
            /\ NoCart(j) /\ NoSale(j) /\ NoBack(j) /\ j \notin dropped
        BY <4>1, <4>2 DEF Located, Gone, NoHold, InOneCart, InOneSale, InOneHold,
                          InOneAnswer
      <4>4. Sole(j)' /\ Kept(j)'
        BY <1>1, <1>5, <2>1, <3>1 DEF ItemOK, Sole, Kept, Storing
      <4>5. NoSale(j)'
        BY <1>5, <4>3 DEF NoSale
      <4>6. NoHold(j)'
        BY <1>7, <1>8, <4>3 DEF NoHold, Waits
      <4>7. NoCart(j)'
        <5>1. \A x \in calls, u \in Till : Took(x, j, u) => x \in calls'
          BY <1>1, <2>1 DEF Took
        <5> QED
          BY <1>5, <4>3, <5>1 DEF NoCart, InCart, Took
      <4>8. \A x \in calls' : Brings(x, j) <=> x = d
        BY <1>1, <2>1, <3>5, <4>3 DEF NoBack, Brings
      <4>9. InOneAnswer(j)'
        <5>1. d \in calls'
          BY <2>1
        <5>2. \E x \in calls' : \A y \in calls' : Brings(y, j) <=> y = x
          BY <4>8, <5>1
        <5> QED
          BY <4>5, <4>6, <4>7, <5>2 DEF InOneAnswer, Brings
      <4> QED
        BY <1>5, <3>3, <4>2, <4>3, <4>4, <4>9 DEF ItemOK, Located
    <3> QED
      BY <3>4, <3>5
  <2> QED
    BY <2>2, <2>3 DEF IInv
<1>11. CASE Answer(c, "error", {}) /\ excused' = excused \cup items
  <2>1. sales' \in Seq(SUBSET Item)
    BY <1>1, <1>5 DEF Types
  <2> QED
    BY <1>1, <1>5, <1>8, <1>9, <1>11, <2>1, LostStep
<1> QED
  BY <1>5, <1>10, <1>11 DEF AnswerCommitted

-----------------------------------------------------------------------------
(* Answers reach the till.                                                 *)

\* A sale or a hold was stored: what was sent is cleared with its cart.
LEMMA ClearedStep ==
    ASSUME IInv, NEW c \in calls, c.answer = "ok", c.kind \in {"sale", "hold"},
           NEW v \in TillType, v.cart = {}, v.plain = {},
           till' = [till EXCEPT ![c.till] = v], Done(c),
           UNCHANGED <<server, fresh, dropped, excused>>
    PROVE  IInv'
<1>1. Types /\ c \in CallType /\ c.till \in Till /\ Storing(c)
  BY DEF IInv, Types, CallType, Storing
<1>2. /\ calls' = calls \ {c} /\ sales' = sales /\ holds' = holds
      /\ fresh' = fresh /\ dropped' = dropped /\ excused' = excused
  BY DEF Done, server
<1>3. /\ till' \in [Till -> TillType]
      /\ \A u \in Till : till'[u].plain \subseteq till'[u].cart
      /\ till'[c.till] = v /\ \A u \in Till \ {c.till} : till'[u] = till[u]
  BY <1>1, TillTyped
<1>4. Types' /\ \A x \in calls' : CallOK(x)'
  <2>1. \A x \in calls' : CallOK(x)'
    BY <1>2 DEF IInv, CallOK, Storing
  <2>2. /\ calls' \subseteq CallType /\ IsFiniteSet(calls')
        /\ \A x, y \in calls' : x.id = y.id => x = y
    BY <1>1, <1>2, OneLess
  <2> QED
    BY <1>1, <1>2, <1>3, <2>1, <2>2 DEF Types
<1>5. ASSUME NEW j \in Item \ excused' PROVE ItemOK(j)'
  <2>1. ItemOK(j)
    BY <1>2, <1>5 DEF IInv
  <2>2. \A u \in Till : j \in till'[u].cart => j \in till[u].cart
    BY <1>3
  <2>3. Covered(j)' /\ Sole(j)'
    BY <1>1, <1>2, <2>1, <2>2 DEF ItemOK, Covered, Sole, Storing, Types, CallType
  <2>4. Kept(j)'
    <3> SUFFICES ASSUME NEW x \in calls', Storing(x), x.answer = "none", j \in x.items
                 PROVE  j \in till'[x.till].cart
      BY DEF Kept, Storing
    <3>1. /\ x \in calls /\ x # c /\ x.till \in Till /\ j \in till[x.till].cart
      BY <1>1, <1>2, <2>1 DEF ItemOK, Kept, Types, CallType
    <3>2. x.till # c.till
      BY <1>1, <2>1, <3>1 DEF ItemOK, Covered, Sole
    <3> QED
      BY <1>3, <3>1, <3>2
  <2>5. \A u \in Till : InCart(j, u)' <=> InCart(j, u)
    <3> SUFFICES ASSUME NEW u \in Till PROVE InCart(j, u)' <=> InCart(j, u)
      OBVIOUS
    <3>1. CASE u = c.till
      <4>1. ~InCart(j, u)'
        BY <1>3, <3>1 DEF InCart
      <4>2. ~InCart(j, u)
        BY <1>1, <2>1, <3>1 DEF ItemOK, Covered, InCart, Took
      <4> QED
        BY <4>1, <4>2
    <3>2. CASE u # c.till
      <4>1. till'[u] = till[u]
        BY <1>3, <3>2
      <4>2. \A x : x \in calls' /\ Took(x, j, u) <=> x \in calls /\ Took(x, j, u)
        BY <1>2, <3>2 DEF Took
      <4> QED
        BY <4>1, <4>2 DEF InCart, Took
    <3> QED
      BY <3>1, <3>2
  <2>6. \A x : x \in calls' /\ Brings(x, j) <=> x \in calls /\ Brings(x, j)
    BY <1>2 DEF Brings
  <2>7. j \in fresh' => Nowhere(j)'
    BY <1>2, <2>1, <2>2 DEF ItemOK, Nowhere
  <2>8. /\ NoCart(j)' <=> NoCart(j)
        /\ NoSale(j)' <=> NoSale(j)
        /\ NoHold(j)' <=> NoHold(j)
        /\ NoBack(j)' <=> NoBack(j)
    BY <1>2, <2>5, <2>6 DEF NoCart, NoSale, NoHold, NoBack, Waits, Brings
  <2>9. j \notin fresh' => Located(j)'
    <3>1. InOneCart(j) => InOneCart(j)'
      BY <2>5, <2>8 DEF InOneCart
    <3>2. InOneSale(j) => InOneSale(j)'
      BY <1>2, <2>8 DEF InOneSale
    <3>3. InOneHold(j) => InOneHold(j)'
      BY <1>2, <2>8 DEF InOneHold, Waits
    <3>4. InOneAnswer(j) => InOneAnswer(j)'
      BY <2>6, <2>8 DEF InOneAnswer, Brings
    <3> QED
      BY <1>2, <2>1, <2>8, <3>1, <3>2, <3>3, <3>4 DEF ItemOK, Located, Gone
  <2> QED
    BY <2>3, <2>4, <2>7, <2>9 DEF ItemOK
<1> QED
  BY <1>4, <1>5 DEF IInv

LEMMA SoldStep ==
    ASSUME IInv, NEW c \in calls, Sold(c)
    PROVE  IInv'
<1>1. Types /\ c.till \in Till
  BY DEF IInv, Types, CallType
<1>2. EmptyTill \in TillType /\ EmptyTill.cart = {} /\ EmptyTill.plain = {}
  BY <1>1, ClearedTyped
<1>3. /\ c.answer = "ok" /\ c.kind \in {"sale", "hold"}
      /\ till' = [till EXCEPT ![c.till] = EmptyTill] /\ Done(c)
      /\ UNCHANGED <<server, fresh, dropped, excused>>
  BY DEF Sold
<1> QED
  BY <1>2, <1>3, ClearedStep

LEMMA HeldStep ==
    ASSUME IInv, NEW c \in calls, Held(c)
    PROVE  IInv'
<1>1. Types /\ c.till \in Till
  BY DEF IInv, Types, CallType
<1>2. /\ Cleared(c.till) \in TillType /\ Cleared(c.till).cart = {}
      /\ Cleared(c.till).plain = {}
  BY <1>1, ClearedTyped
<1>3. /\ c.answer = "ok" /\ c.kind \in {"sale", "hold"}
      /\ till' = [till EXCEPT ![c.till] = Cleared(c.till)] /\ Done(c)
      /\ UNCHANGED <<server, fresh, dropped, excused>>
  BY DEF Held
<1> QED
  BY <1>2, <1>3, ClearedStep

LEMMA FailedStep ==
    ASSUME IInv, NEW c \in calls, Failed(c)
    PROVE  IInv'
<1>1. /\ Types /\ c \in CallType /\ c.till \in Till
      /\ till[c.till] \in TillType /\ till[c.till].plain \subseteq till[c.till].cart
  BY DEF IInv, Types, CallType
<1>2. /\ c.answer \in {"error", "short"} /\ calls' = calls \ {c}
      /\ sales' = sales /\ holds' = holds
      /\ fresh' = fresh /\ dropped' = dropped /\ excused' = excused
  BY DEF Failed, Done, server
<1>3. PICK p \in BOOLEAN : p = (till[c.till].posting /\ c.kind # "sale")
  OBVIOUS
<1> DEFINE v == [till[c.till] EXCEPT !.posting = p]
<1>4. till' = [till EXCEPT ![c.till] = v]
  <2>1. till' = [till EXCEPT ![c.till].posting =
                   till[c.till].posting /\ c.kind # "sale"]
    BY DEF Failed
  <2> QED
    BY <1>3, <2>1, Zenon
<1>5. v \in TillType /\ v.cart = till[c.till].cart /\ v.plain = till[c.till].plain
  BY <1>1 DEF TillType
<1> HIDE DEF v
<1>6. /\ till' \in [Till -> TillType]
      /\ \A u \in Till : till'[u].plain \subseteq till'[u].cart
      /\ till'[c.till] = v /\ \A u \in Till \ {c.till} : till'[u] = till[u]
  BY <1>1, <1>4, <1>5, TillTyped
<1>7. Types' /\ \A x \in calls' : CallOK(x)'
  <2>1. \A x \in calls' : CallOK(x)'
    BY <1>2 DEF IInv, CallOK, Storing
  <2>2. /\ calls' \subseteq CallType /\ IsFiniteSet(calls')
        /\ \A x, y \in calls' : x.id = y.id => x = y
    BY <1>1, <1>2, OneLess
  <2> QED
    BY <1>1, <1>2, <1>6, <2>1, <2>2 DEF Types
<1>8. ASSUME NEW j \in Item \ excused' PROVE ItemOK(j)'
  <2>1. ItemOK(j)
    BY <1>2, <1>8 DEF IInv
  <2>2. SameCarts(j)
    BY <1>5, <1>6 DEF SameCarts
  <2>3. SameSales(j) /\ SameHolds(j) /\ SameHistory(j)
    BY <1>2 DEF SameSales, SameHolds, SameHistory, Waits
  <2>4. SameCalls(j)
    BY <1>2 DEF SameCalls
  <2>5. Covered(j)'
    BY <1>1, <1>2, <2>1, <2>2 DEF ItemOK, Covered, SameCarts, Storing, Types, CallType
  <2> QED
    BY <1>1, <2>1, <2>2, <2>3, <2>4, <2>5, Unmoved
<1> QED
  BY <1>7, <1>8 DEF IInv

-----------------------------------------------------------------------------
(* The invariant.                                                          *)

LEMMA InitIInv == Init => IInv
<1> SUFFICES ASSUME Init PROVE IInv
  OBVIOUS
<1>1. PICK n \in BOOLEAN : n = FALSE
  OBVIOUS
<1>2. EmptyTill = [cart |-> {}, plain |-> {}, off |-> {}, free |-> {}, disc |-> 0,
                   posting |-> n]
  BY <1>1 DEF EmptyTill
<1>3. EmptyTill \in TillType /\ EmptyTill.cart = {} /\ EmptyTill.plain = {}
  BY <1>2 DEF TillType
<1>4. /\ till = [t \in Till |-> EmptyTill] /\ calls = {} /\ sales = <<>> /\ holds = <<>>
      /\ fresh = Item /\ dropped = {} /\ excused = {}
  BY DEF Init
<1>5. Types
  BY <1>3, <1>4, FS_EmptySet DEF Types
<1>6. \A i \in Item : ItemOK(i)
  BY <1>3, <1>4 DEF ItemOK, Covered, Sole, Kept, Nowhere
<1> QED
  BY <1>4, <1>5, <1>6 DEF IInv

LEMMA StepIInv == IInv /\ [Next]_vars => IInv'
<1> SUFFICES ASSUME IInv, [Next]_vars PROVE IInv'
  OBVIOUS
<1>1. ASSUME NEW t \in Till, Clerk(t) PROVE IInv'
  <2>1. ASSUME Cart(t) PROVE IInv'
    <3>1. ASSUME NEW i \in Item, NEW plain \in SUBSET ({i} \cap Taxed),
                 NEW off \in SUBSET ({i} \cap Discounts[t]),
                 NEW free \in SUBSET ({i} \cap Overrides[t]), Scan(t, i, plain, off, free)
          PROVE  IInv'
      <4>1. plain \in SUBSET {i} /\ off \in SUBSET {i} /\ free \in SUBSET {i}
        OBVIOUS
      <4> QED
        BY <3>1, <4>1, ScanStep
    <3>2. ASSUME NEW i \in Item, voidLine(t, i) PROVE IInv'
      BY <3>2, VoidStep
    <3>3. ASSUME cancelBill(t) PROVE IInv'
      BY <3>3, CancelStep
    <3>4. ASSUME NEW d \in 0 .. MaxDisc, openDiscountAmt(t, d) PROVE IInv'
      <4>1. d \in Nat
        OBVIOUS
      <4> QED
        BY <3>4, <4>1, DiscountStep
    <3> QED
      BY <2>1, <3>1, <3>2, <3>3, <3>4 DEF Cart
  <2>2. ASSUME NEW items \in SUBSET Item, NEW off \in SUBSET items,
               duplicateBill(t, items, off)
        PROVE  IInv'
    BY <2>2, DuplicateStep
  <2>3. ASSUME NEW credit \in BOOLEAN, NEW paid \in 0 .. MaxPaid, postSale(t, credit, paid)
        PROVE  IInv'
    <3>1. paid \in Nat
      OBVIOUS
    <3> QED
      BY <2>3, <3>1, PostSaleStep
  <2>4. ASSUME holdSale(t) PROVE IInv'
    BY <2>4, HoldSaleStep
  <2>5. ASSUME NEW h \in 1 .. MaxDocs, retrieveSale(t, h) PROVE IInv'
    BY <2>5, RetrieveSaleStep
  <2>6. ASSUME NEW i \in Overrides[t], NEW free \in SUBSET {i}, openPriceOverride(t, i, free)
        PROVE  IInv'
    <3>1. i \in Item
      BY CashierAssumption
    <3> QED
      BY <2>6, <3>1, OverrideStep
  <2> QED
    BY <1>1, <2>1, <2>2, <2>3, <2>4, <2>5, <2>6 DEF Clerk
<1>2. ASSUME NEW c \in calls, Serve(c) PROVE IInv'
  BY <1>2, RefuseStep, RefuseShortStep, PostSalesStep, PostHoldStep, PostRetrieveStep
     DEF Serve
<1>3. ASSUME NEW c \in calls, Deliver(c) PROVE IInv'
  BY <1>3, SoldStep, HeldStep, RetrievedStep, FailedStep DEF Deliver
<1>4. ASSUME UNCHANGED vars PROVE IInv'
  <2>1. /\ till' = till /\ calls' = calls /\ sales' = sales /\ holds' = holds
        /\ fresh' = fresh /\ dropped' = dropped /\ excused' = excused
    BY <1>4 DEF vars
  <2>2. Types' /\ \A c \in calls' : CallOK(c)'
    BY <2>1 DEF IInv, Types, CallOK, Storing
  <2>3. ASSUME NEW j \in Item \ excused' PROVE ItemOK(j)'
    <3>1. ItemOK(j) /\ Types
      BY <2>1, <2>3 DEF IInv
    <3>2. Covered(j)'
      BY <2>1, <3>1 DEF ItemOK, Covered, Storing
    <3>3. /\ SameCarts(j) /\ SameSales(j) /\ SameHolds(j) /\ SameCalls(j) /\ SameHistory(j)
      BY <2>1 DEF SameCarts, SameSales, SameHolds, SameCalls, SameHistory, Waits
    <3> QED
      BY <3>1, <3>2, <3>3, Unmoved
  <2> QED
    BY <2>2, <2>3 DEF IInv
<1> QED
  BY <1>1, <1>2, <1>3, <1>4 DEF Next

LEMMA Inductive == Spec => []IInv
  BY InitIInv, StepIInv, PTL DEF Spec

-----------------------------------------------------------------------------
(* What a reader should know.                                              *)

\* Tills, calls and documents have their types; no bill a till shows is
\* negative, whatever discounts and duplicated lines it went through.
THEOREM TypeCorrect == Spec => []TypeOK
<1>1. IInv => TypeOK
  <2> SUFFICES ASSUME IInv PROVE TypeOK
    OBVIOUS
  <2>1. Types
    BY DEF IInv
  <2>2. \A t \in Till : After(t) \in Nat
    BY <2>1, BillTyped
  <2>3. \A s \in DOMAIN sales : sales[s] \subseteq Item
    BY <2>1 DEF Types
  <2>4. \A h \in DOMAIN holds : holds[h].items \subseteq Item
    <3> SUFFICES ASSUME NEW h \in DOMAIN holds PROVE holds[h].items \subseteq Item
      OBVIOUS
    <3>1. holds \in Seq(HoldType)
      BY <2>1 DEF Types
    <3>2. holds[h] \in HoldType
      BY <3>1, ElementOfSeq
    <3> QED
      BY <3>2 DEF HoldType
  <2> QED
    BY <2>1, <2>2, <2>3, <2>4 DEF TypeOK, Types
<1> QED
  BY <1>1, Inductive, PTL

\* A topped-up sale is refused as underpaid only after an invoice discount, or
\* with a line that lacks its product's tax, is discounted though its product
\* takes no discount, or has a price of zero.
THEOREM ShortTender == Spec => []ShortTenderExplained
<1>1. IInv => ShortTenderExplained
  BY DEF IInv, CallOK, ShortTenderExplained
<1> QED
  BY <1>1, Inductive, PTL

\* The places of an item that is nowhere, or in one place.
LEMMA PlacesOf ==
    ASSUME IInv, NEW i \in Item, i \notin excused, i \notin fresh
    PROVE  Cardinality(Places(i)) = IF i \in dropped THEN 0 ELSE 1
<1>1. ItemOK(i) /\ Located(i)
  BY DEF IInv, ItemOK
<1>2. \A t \in Till : i \in till[t].cart \ Left(t) <=> InCart(i, t)
  BY SendingIs DEF InCart
<1> DEFINE carts == {u \in Till : i \in till[u].cart \ Left(u)}
           made == {n \in DOMAIN sales : i \in sales[n]}
           held == {n \in DOMAIN holds : holds[n].status = "Hold" /\ i \in holds[n].items}
           back == {d \in calls : d.kind = "retrieve" /\ d.answer = "ok" /\ i \in d.items}
<1>3. Places(i) = {<<"cart", t>> : t \in carts} \cup {<<"sale", s>> : s \in made}
                  \cup {<<"hold", h>> : h \in held} \cup {<<"back", c.id>> : c \in back}
  BY DEF Places
<1>4. /\ NoCart(i) => carts = {}
      /\ NoSale(i) => made = {}
      /\ NoHold(i) => held = {}
      /\ NoBack(i) => back = {}
  BY <1>2 DEF NoCart, NoSale, NoHold, NoBack, Waits, Brings
<1>5. /\ InOneCart(i) => \E t : carts = {t}
      /\ InOneSale(i) => \E s : made = {s}
      /\ InOneHold(i) => \E h : held = {h}
      /\ InOneAnswer(i) => \E c : back = {c}
  <2>1. InOneCart(i) => \E t : carts = {t}
    BY <1>2 DEF InOneCart
  <2>2. InOneSale(i) => \E s : made = {s}
    BY DEF InOneSale
  <2>3. InOneHold(i) => \E h : held = {h}
    BY DEF InOneHold, Waits
  <2>4. InOneAnswer(i) => \E c : back = {c}
    BY DEF InOneAnswer, Brings
  <2> QED
    BY <2>1, <2>2, <2>3, <2>4
<1> HIDE DEF carts, made, held, back
<1> DEFINE A == {<<"cart", t>> : t \in carts}
           B == {<<"sale", s>> : s \in made}
           C == {<<"hold", h>> : h \in held}
           D == {<<"back", c.id>> : c \in back}
<1>6. Places(i) = A \cup B \cup C \cup D
  BY <1>3
<1>7. /\ (carts = {} => A = {}) /\ (made = {} => B = {})
      /\ (held = {} => C = {}) /\ (back = {} => D = {})
  OBVIOUS
<1>8. ASSUME i \in dropped PROVE Cardinality(Places(i)) = 0
  <2>1. carts = {} /\ made = {} /\ held = {} /\ back = {}
    BY <1>1, <1>4, <1>8 DEF Located, Gone
  <2>2. Places(i) = {}
    BY <1>3, <2>1
  <2> QED
    BY <2>2, FS_EmptySet
<1>9. ASSUME i \notin dropped PROVE Cardinality(Places(i)) = 1
  <2>1. \E x : Places(i) = {x}
    <3>1. CASE InOneCart(i)
      <4>1. PICK t : carts = {t}
        BY <1>5, <3>1
      <4>2. made = {} /\ held = {} /\ back = {}
        BY <1>4, <3>1 DEF InOneCart
      <4>3. A = {<<"cart", t>>}
        BY <4>1
      <4>4. Places(i) = {<<"cart", t>>}
        BY <1>6, <1>7, <4>2, <4>3, Zenon
      <4> QED
        BY <4>4
    <3>2. CASE InOneSale(i)
      <4>1. PICK s : made = {s}
        BY <1>5, <3>2
      <4>2. carts = {} /\ held = {} /\ back = {}
        BY <1>4, <3>2 DEF InOneSale
      <4>3. B = {<<"sale", s>>}
        BY <4>1
      <4>4. Places(i) = {<<"sale", s>>}
        BY <1>6, <1>7, <4>2, <4>3, Zenon
      <4> QED
        BY <4>4
    <3>3. CASE InOneHold(i)
      <4>1. PICK h : held = {h}
        BY <1>5, <3>3
      <4>2. carts = {} /\ made = {} /\ back = {}
        BY <1>4, <3>3 DEF InOneHold
      <4>3. C = {<<"hold", h>>}
        BY <4>1
      <4>4. Places(i) = {<<"hold", h>>}
        BY <1>6, <1>7, <4>2, <4>3, Zenon
      <4> QED
        BY <4>4
    <3>4. CASE InOneAnswer(i)
      <4>1. PICK c : back = {c}
        BY <1>5, <3>4
      <4>2. carts = {} /\ made = {} /\ held = {}
        BY <1>4, <3>4 DEF InOneAnswer
      <4>3. D = {<<"back", c.id>>}
        BY <4>1
      <4>4. Places(i) = {<<"back", c.id>>}
        BY <1>6, <1>7, <4>2, <4>3, Zenon
      <4> QED
        BY <4>4
    <3> QED
      BY <1>1, <1>9, <3>1, <3>2, <3>3, <3>4 DEF Located
  <2> QED
    BY <2>1, FS_Singleton
<1> QED
  BY <1>8, <1>9

\* Every scanned item that met no race is in exactly one cart, held sale or
\* posted sale, or on its way back to a till; a dropped one is in none.
THEOREM Accounts == Spec => []Accounted
<1>1. IInv => Accounted
  BY PlacesOf DEF Accounted
<1> QED
  BY <1>1, Inductive, PTL
=============================================================================
