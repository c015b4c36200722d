----------------------------- MODULE MCPosShift -----------------------------
(* Two terminals of one user and one of another, and every kind of request. *)
EXTENDS PosShift, TLC

CONSTANTS w1, w2, w3, u1, u2

Req(kind, amount, given) == [kind |-> kind, amount |-> amount, change |-> given]

Users == w1 :> u1 @@ w2 :> u1 @@ w3 :> u2

\* Shift management is switched on, or the users of the store share a shift.
OtherSettings == {<<TRUE, TRUE>>, <<FALSE, FALSE>>}

EveryRequest == {Req("open", 0, 0), Req("close", 0, 0), Req("sale", 2, 0),
                 Req("return", -1, 0), Req("drawer", 1, 0)}

\* One terminal; the customer pays 2 for a bill of 1.
OneUser == w1 :> u1
SaleWithChange == {Req("open", 0, 0), Req("close", 0, 0), Req("sale", 2, 1)}
=============================================================================
