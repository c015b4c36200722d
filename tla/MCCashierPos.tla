---------------------------- MODULE MCCashierPos ----------------------------
(* Two tills, and two items: i1 is taxed, the product of i2 takes no discount. *)
EXTENDS CashierPos

CONSTANTS t1, t2, i1, i2

\* A counter, and a second till that takes its held sales over.
Counter == {"cart", "post", "hold", "duplicate"}
Duties == [t \in {t1, t2} |-> IF t = t1 THEN Counter ELSE {"retrieve", "post"}]

\* A till at which earlier sales are only repeated.
Repeats == [t \in {t1, t2} |-> IF t = t1 THEN {"duplicate", "post"} ELSE {}]

\* The counter discounts any line; the second till has prices to override.
Discounted == [t \in {t1, t2} |-> IF t = t1 THEN {i1, i2} ELSE {}]
Overridden == [t \in {t1, t2} |-> IF t = t1 THEN {} ELSE {i1}]
Nothing == [t \in {t1, t2} |-> {}]
=============================================================================
