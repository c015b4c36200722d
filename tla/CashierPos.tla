----------------------------- MODULE CashierPos -----------------------------
(***************************************************************************)
(* The browser cashier: the cart of each till, and the calls that post it, *)
(* hold it, or take a held sale back, while the clerk keeps working.       *)
(*                                                                         *)
(* Only posting waits for its answer, behind a flag; holding and taking    *)
(* back may be sent at any time.  An answer acts on the cart the till      *)
(* shows when it arrives, not on the one that was sent.  No call carries a *)
(* client document id, so a call whose answer is lost cannot be told from  *)
(* one that failed.                                                        *)
(*                                                                         *)
(* An item is one scan, so that a cart is a set.  It costs 1 and, when its *)
(* product is taxed, 1 more; its line may be discounted whole, or have its *)
(* price set to zero.  Other discounts and prices, quantities, customers   *)
(* and the cents the two sides round differently are left out; stock is in *)
(* StockPosting and shifts are in PosShift.                                *)
(***************************************************************************)
EXTENDS Integers, Sequences, FiniteSets, FiniteSetsExt

CONSTANTS
    Till,
    Item,       \* the scans clerks may make
    Taxed,      \* those whose product carries tax
    NoDiscount, \* those whose product takes no discount (DiscountAllowed = 0)
    Duty,       \* Duty[t]: what the clerk at till t is seen to do
    Discounts,  \* Discounts[t]: the items whose line that clerk may discount
    Overrides,  \* Overrides[t]: those whose price the clerk may override
    MaxDisc,    \* bound: invoice discounts that are entered
    MaxPaid,    \* bound: amounts received that are entered
    MaxCalls,   \* bound: calls in flight
    MaxDocs,    \* bound: sales posted and held in a behaviour
    Faults      \* whether answers may be lost

ASSUME CashierAssumption ==
    /\ IsFiniteSet(Item) /\ Taxed \subseteq Item /\ NoDiscount \subseteq Item
    /\ Duty \in [Till -> SUBSET {"cart", "post", "hold", "retrieve", "duplicate"}]
    /\ Discounts \in [Till -> SUBSET Item] /\ Overrides \in [Till -> SUBSET Item]
    /\ MaxDisc \in Nat /\ MaxPaid \in Nat /\ MaxCalls \in Nat /\ MaxDocs \in Nat
    /\ Faults \in BOOLEAN

VARIABLES
    till,      \* till[t]: the cart and its terms, the invoice discount, the posting flag
    calls,     \* calls sent by tills and not yet answered
    sales,     \* the posted sales: the items of each
    holds,     \* HoldSalesHeader: the items, terms, discount and status of each
    fresh,     \* items not scanned yet
    dropped,   \* history: items a clerk took out of a cart
    excused    \* history: items that met one of the races listed below

vars == <<till, calls, sales, holds, fresh, dropped, excused>>
server == <<sales, holds>>

\* Of the cart, the lines the till knows no tax of (`plain'), those discounted
\* whole (`off') and those whose price was set to zero (`free').
EmptyTill == [cart |-> {}, plain |-> {}, off |-> {}, free |-> {},
              disc |-> 0, posting |-> FALSE]

Init ==
    /\ till = [t \in Till |-> EmptyTill]
    /\ calls = {}
    /\ sales = <<>>
    /\ holds = <<>>
    /\ fresh = Item
    /\ dropped = {}
    /\ excused = {}

\* What items cost at their sale price.
Price(items) == Cardinality(items) + Cardinality(items \cap Taxed)

\* A till takes a line's discount and price as they were entered, and its tax
\* from the line (lineCalc).
Charged(t) == till[t].cart \ (till[t].off \cup till[t].free)
Subtotal(t) == Price(Charged(t)) - Cardinality(Charged(t) \cap till[t].plain \cap Taxed)

GrandTotalUndiscounted(c) ==    \* mutant: no line takes its discount
    Price(c.items)

\* The server takes tax, and whether there may be a discount, from the product,
\* and the sale price for a price that is not above zero.
GrandTotal(c) == Price(c.items \ (c.off \ NoDiscount))

\* None of the terms that the two price differently: a discount on the bill, a tax
\* the line lacks, a discount the product does not take, a price of zero.
Agrees(t) ==
    /\ till[t].disc = 0
    /\ till[t].plain \cap Taxed = {}
    /\ till[t].off \cap NoDiscount = {}
    /\ till[t].free = {}

AfterUnclipped(t) ==            \* mutant: a discount above the subtotal
    Subtotal(t) - till[t].disc

After(t) == Subtotal(t) - Min({till[t].disc, Subtotal(t)})

CallsOf(t, kinds) == {c \in calls : c.till = t /\ c.kind \in kinds}
Sending(t) == UNION {c.items : c \in CallsOf(t, {"sale", "hold"})}
-----------------------------------------------------------------------------
(* What a clerk does at the till, also while calls are in flight.          *)

\* A lookup was answered; the permissions and inputs of the till decide the
\* terms of the new line.  It knows no tax when it was merged into a line that
\* does not, or the product was given one since.  An item scanned while the cart
\* is being sent is cleared with it.
Scan(t, i, plain, off, free) ==
    /\ i \in fresh
    /\ till' = [till EXCEPT ![t].cart = @ \cup {i}, ![t].plain = @ \cup plain,
                           ![t].off = @ \cup off, ![t].free = @ \cup free]
    /\ fresh' = fresh \ {i}
    /\ excused' = IF Sending(t) = {} THEN excused ELSE excused \cup {i}
    /\ UNCHANGED <<calls, server, dropped>>

\* The price of a line is set to zero, or to one above it.
openPriceOverride(t, i, free) ==
    /\ i \in till[t].cart
    /\ till' = [till EXCEPT ![t].free = (@ \ {i}) \cup free]
    /\ UNCHANGED <<calls, server, fresh, dropped, excused>>

\* Taking items out of a cart that is being sent does not take them back.
Drop(t, items) ==
    /\ excused' = excused \cup (items \cap Sending(t))
    /\ dropped' = dropped \cup (items \ excused')
    /\ UNCHANGED <<calls, server, fresh>>

voidLine(t, i) ==
    /\ i \in till[t].cart
    /\ till' = [till EXCEPT ![t].cart = @ \ {i}, ![t].plain = @ \ {i},
                           ![t].off = @ \ {i}, ![t].free = @ \ {i}]
    /\ Drop(t, {i})

\* clearSale leaves the posting flag alone.
Cleared(t) == [EmptyTill EXCEPT !.posting = till[t].posting]

cancelBill(t) ==
    /\ till' = [till EXCEPT ![t] = Cleared(t)]
    /\ Drop(t, till[t].cart)

openDiscountAmt(t, d) ==
    /\ d <= Subtotal(t)
    /\ till' = [till EXCEPT ![t].disc = d]
    /\ UNCHANGED <<calls, server, fresh, dropped, excused>>

\* A loaded cart replaces the one on the till without asking; its lines keep
\* their discounts and prices but no tax, and an answer still to come may clear
\* it.
Load(t, items, off, free, disc) ==
    /\ till' = [till EXCEPT ![t] = [Cleared(t) EXCEPT
                  !.cart = items, !.plain = items \cap Taxed,
                  !.off = off, !.free = free, !.disc = disc]]
    /\ excused' = excused \cup till[t].cart
                          \cup (IF Sending(t) = {} THEN {} ELSE items)

\* The lines of a posted invoice, into a new sale.  The price of such a line is
\* above zero, or the sale price.
duplicateBill(t, items, off) ==
    /\ items \subseteq fresh /\ items # {}
    /\ Load(t, items, off, {}, 0)
    /\ fresh' = fresh \ items
    /\ UNCHANGED <<calls, server, dropped>>
-----------------------------------------------------------------------------
(* Calls.                                                                  *)

\* A call without an answer, named by the first id that is free.  `agreed' is
\* history: the till priced it as the server does.
Call(t, kind, items) ==
    [id |-> Min((1 .. MaxCalls) \ {c.id : c \in calls}), till |-> t,
     kind |-> kind, items |-> items, answer |-> "none",
     off |-> {}, free |-> {}, disc |-> 0, tender |-> 0, agreed |-> TRUE, hold |-> 0]

Send(call) ==
    /\ Cardinality(calls) < MaxCalls
    /\ calls' = calls \cup {call}

MayStore ==
    Len(holds) + Len(sales)
      + Cardinality({c \in calls : c.kind # "retrieve" /\ c.answer = "none"}) < MaxDocs

\* A cart that two calls carry at once is stored by both.
Overlap(t) == excused' = excused \cup (till[t].cart \cap Sending(t))

\* A credit sale tenders the bill; otherwise a short amount is raised to it.
\* An amount the clerk never entered is the bill (syncPaidDefault), which is
\* among the amounts here.
Tender(t, credit, paid) ==
    IF credit THEN After(t) ELSE Max({0, paid, After(t)})

\* The payment panel, its method and amount, is read here and nowhere else, and
\* may show anything.  A price of zero is sent, but GrandTotal has no use for it.
postSale(t, credit, paid) ==
    /\ ~till[t].posting
    /\ till[t].cart # {}
    /\ MayStore
    /\ Send([Call(t, "sale", till[t].cart) EXCEPT
               !.off = till[t].off, !.tender = Tender(t, credit, paid),
               !.agreed = Agrees(t)])
    /\ till' = [till EXCEPT ![t].posting = TRUE]
    /\ Overlap(t)
    /\ UNCHANGED <<server, fresh, dropped>>

holdSale(t) ==
    /\ till[t].cart # {}
    /\ MayStore
    /\ Send([Call(t, "hold", till[t].cart) EXCEPT
               !.off = till[t].off, !.free = till[t].free, !.disc = till[t].disc])
    /\ Overlap(t)
    /\ UNCHANGED <<till, server, fresh, dropped>>

\* The list of holds was read earlier: hold h may be gone by now.
retrieveSale(t, h) ==
    /\ h \in DOMAIN holds
    /\ Send([Call(t, "retrieve", {}) EXCEPT !.hold = h])
    /\ UNCHANGED <<till, server, fresh, dropped, excused>>
-----------------------------------------------------------------------------
(* The server: each call is one transaction, which commits or leaves no    *)
(* trace.  The answer to a committed call may be lost on its way.          *)

\* An answer keeps what the till will use of it.
Answer(c, answer, items) ==
    calls' = (calls \ {c})
             \cup {[c EXCEPT !.answer = answer, !.items = items,
                             !.off = {}, !.free = {}, !.tender = 0, !.disc = 0,
                             !.agreed = @ \/ answer # "short",
                             !.hold = IF answer = "ok" THEN @ ELSE 0]}

AnswerCommitted(c, items) ==
    \/ /\ Answer(c, "ok", items)
       /\ UNCHANGED excused
    \/ /\ Faults
       /\ Answer(c, "error", {})
       /\ excused' = excused \cup items

\* A rule of another component refuses the call, or it never arrives.
Refuse(c) ==
    /\ c.answer = "none"
    /\ Answer(c, "error", {})
    /\ UNCHANGED <<till, server, fresh, dropped, excused>>

\* "Paid amount is less than grand total."
RefuseShort(c) ==
    /\ c.answer = "none" /\ c.kind = "sale"
    /\ c.tender < GrandTotal(c)
    /\ Answer(c, "short", {})
    /\ UNCHANGED <<till, server, fresh, dropped, excused>>

PostSales(c) ==
    /\ c.answer = "none" /\ c.kind = "sale"
    /\ c.tender >= GrandTotal(c)
    /\ sales' = Append(sales, c.items)
    /\ AnswerCommitted(c, c.items)
    /\ UNCHANGED <<till, holds, fresh, dropped>>

PostHold(c) ==
    /\ c.answer = "none" /\ c.kind = "hold"
    /\ holds' = Append(holds, [items |-> c.items, off |-> c.off, free |-> c.free,
                               disc |-> c.disc, status |-> "Hold"])
    /\ AnswerCommitted(c, c.items)
    /\ UNCHANGED <<till, sales, fresh, dropped>>

Retrieve(c) ==
    /\ holds' = [holds EXCEPT ![c.hold].status = "Retrieved"]
    /\ AnswerCommitted(c, holds[c.hold].items)
    /\ UNCHANGED <<till, sales, fresh, dropped>>

PostRetrieveAgain(c) ==         \* mutant: the status of the hold is not checked
    /\ c.answer = "none" /\ c.kind = "retrieve"
    /\ Retrieve(c)

\* The hold is read with UPDLOCK and updated where its status is still Hold:
\* nobody comes between the two.
PostRetrieve(c) ==
    /\ c.answer = "none" /\ c.kind = "retrieve"
    /\ holds[c.hold].status = "Hold"
    /\ Retrieve(c)
-----------------------------------------------------------------------------
(* Answers reach the till.                                                 *)

Done(c) == calls' = calls \ {c}

Sold(c) ==
    /\ c.answer = "ok" /\ c.kind = "sale"
    /\ till' = [till EXCEPT ![c.till] = EmptyTill]
    /\ Done(c)
    /\ UNCHANGED <<server, fresh, dropped, excused>>

Held(c) ==
    /\ c.answer = "ok" /\ c.kind = "hold"
    /\ till' = [till EXCEPT ![c.till] = Cleared(c.till)]
    /\ Done(c)
    /\ UNCHANGED <<server, fresh, dropped, excused>>

Retrieved(c) ==
    /\ c.answer = "ok" /\ c.kind = "retrieve"
    /\ LET h == holds[c.hold] IN Load(c.till, c.items, h.off, h.free, h.disc)
    /\ Done(c)
    /\ UNCHANGED <<server, fresh, dropped>>

FailedStuck(c) ==               \* mutant: no finally
    /\ c.answer \in {"error", "short"}
    /\ Done(c)
    /\ UNCHANGED <<till, server, fresh, dropped, excused>>

FailedCleared(c) ==             \* mutant: the cart is cleared on failure too
    /\ c.answer \in {"error", "short"}
    /\ till' = [till EXCEPT ![c.till] = IF c.kind = "sale" THEN EmptyTill
                                        ELSE Cleared(c.till)]
    /\ Done(c)
    /\ UNCHANGED <<server, fresh, dropped, excused>>

\* The error is shown and the cart stays; posting ends in a finally block.
Failed(c) ==
    /\ c.answer \in {"error", "short"}
    /\ till' = [till EXCEPT ![c.till].posting = @ /\ c.kind # "sale"]
    /\ Done(c)
    /\ UNCHANGED <<server, fresh, dropped, excused>>
-----------------------------------------------------------------------------
Cart(t) ==
    \/ \E i \in Item :
         \/ \E plain \in SUBSET ({i} \cap Taxed), off \in SUBSET ({i} \cap Discounts[t]),
              free \in SUBSET ({i} \cap Overrides[t]) : Scan(t, i, plain, off, free)
         \/ voidLine(t, i)
    \/ cancelBill(t)
    \/ \E d \in 0 .. MaxDisc : openDiscountAmt(t, d)

Clerk(t) ==
    \/ "cart" \in Duty[t] /\ Cart(t)
    \/ \E i \in Overrides[t] : \E free \in SUBSET {i} : openPriceOverride(t, i, free)
    \/ /\ "duplicate" \in Duty[t]
       /\ \E items \in SUBSET Item : \E off \in SUBSET items : duplicateBill(t, items, off)
    \/ /\ "post" \in Duty[t]
       /\ \E credit \in BOOLEAN, paid \in 0 .. MaxPaid : postSale(t, credit, paid)
    \/ "hold" \in Duty[t] /\ holdSale(t)
    \/ "retrieve" \in Duty[t] /\ \E h \in 1 .. MaxDocs : retrieveSale(t, h)

Serve(c) ==
    \/ Refuse(c) \/ RefuseShort(c) \/ PostSales(c) \/ PostHold(c) \/ PostRetrieve(c)

Deliver(c) == Sold(c) \/ Held(c) \/ Retrieved(c) \/ Failed(c)

Next ==
    \/ \E t \in Till : Clerk(t)
    \/ \E c \in calls : Serve(c) \/ Deliver(c)

Spec == Init /\ [][Next]_vars

\* The server ends every transaction and the browser every call.
FairSpec ==
    /\ Spec
    /\ \A n \in 1 .. MaxCalls :
         WF_vars(\E c \in calls : c.id = n /\ (Serve(c) \/ Deliver(c)))
-----------------------------------------------------------------------------
TillType == [cart : SUBSET Item, plain : SUBSET Item, off : SUBSET Item,
             free : SUBSET Item, disc : Nat, posting : BOOLEAN]
CallType == [id : 1 .. MaxCalls, till : Till, kind : {"sale", "hold", "retrieve"},
             items : SUBSET Item, off : SUBSET Item, free : SUBSET Item,
             disc : Nat, tender : Nat, hold : 0 .. MaxDocs,
             answer : {"none", "ok", "error", "short"}, agreed : BOOLEAN]

\* The state has its type: no bill is negative and no tender either.
TypeOK ==
    /\ till \in [Till -> TillType]
    /\ \A t \in Till : After(t) \in Nat
    /\ calls \subseteq CallType
    /\ \A s \in DOMAIN sales : sales[s] \subseteq Item
    /\ \A h \in DOMAIN holds : holds[h].items \subseteq Item
    /\ fresh \subseteq Item /\ dropped \subseteq Item /\ excused \subseteq Item

\* Where an item is.  Items of a committed sale or hold that the till has not
\* heard of yet have left its cart.
Left(t) == UNION {c.items : c \in {d \in CallsOf(t, {"sale", "hold"}) : d.answer = "ok"}}

Places(i) ==
    {<<"cart", t>> : t \in {u \in Till : i \in till[u].cart \ Left(u)}}
    \cup {<<"sale", s>> : s \in {n \in DOMAIN sales : i \in sales[n]}}
    \cup {<<"hold", h>> : h \in {n \in DOMAIN holds :
            holds[n].status = "Hold" /\ i \in holds[n].items}}
    \cup {<<"back", c.id>> : c \in {d \in calls :
            d.kind = "retrieve" /\ d.answer = "ok" /\ i \in d.items}}

\* Every item a clerk scanned and did not take out is in exactly one cart, held
\* sale or posted sale: none is sold twice, handed to two tills or lost, except
\* in these races, which the code does not close: it was scanned or loaded into
\* a cart that was being sent, taken out of such a cart, or sent by two
\* overlapping calls; its cart was replaced by a loaded one; or the answer to a
\* committed call was lost.
Accounted ==
    \A i \in Item \ (fresh \cup excused) :
        Cardinality(Places(i)) = IF i \in dropped THEN 0 ELSE 1

\* A sale the till tops up to its bill is refused as underpaid, by more than the
\* cents of rounding, only if the till took an invoice discount off, which the
\* server never hears of; priced a line without the tax of its product; or had a
\* line with a discount that its product does not take, or with a price of zero.
\* Line discounts are from 0 to 100, as their input asks.
ShortTenderExplained ==
    \A c \in calls : c.answer = "short" => ~c.agreed

\* What the comment in postSale says: a short tender is topped up, because the
\* server requires the paid amount to reach the grand total.  It does not hold.
TopUpSuffices == \A c \in calls : c.answer # "short"

\* A till that posts becomes free to post again.
TillFreesUp == \A t \in Till : till[t].posting ~> ~till[t].posting
=============================================================================
