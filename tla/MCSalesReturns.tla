--------------------------- MODULE MCSalesReturns ---------------------------
(* Three clerks.  Two return goods of one POS sale, or the lines of one       *)
(* invoice in opposite orders; an order saved is posted by two; one is sent twice. *)
EXTENDS SalesReturns, TLC

CONSTANTS k1, k2, k3, s1, i1, i2, d1, d2

MCSold == s1 :> 2 @@ i1 :> 3 @@ i2 :> 1
MCLineTotal == s1 :> 3 @@ i1 :> 5 @@ i2 :> 1

Of(l, q) == [line |-> l, qty |-> q]
Pos(wants) == [kind |-> "pos", wants |-> wants, order |-> 0, client |-> NoId]
Rma(kind, wants, order, client) ==
    [kind |-> kind, wants |-> wants, order |-> order, client |-> client]

MCRequests ==
    k1 :> {Pos(<<Of(s1, 1)>>), Pos(<<Of(s1, 1), Of(s1, 1)>>),
           Rma("post", <<Of(i1, 1), Of(i2, 1)>>, 0, NoId),
           Rma("post", <<Of(i1, 2)>>, 1, d2)}
    @@ k2 :> {Pos(<<Of(s1, 2)>>),
              Rma("draft", <<Of(i2, 1), Of(i1, 1)>>, 0, NoId),
              Rma("post", <<Of(i2, 1), Of(i1, 1)>>, 1, NoId),
              Rma("post", <<Of(i1, 1)>>, 0, d1)}
    @@ k3 :> {Rma("post", <<Of(i1, 1)>>, 0, d1),
              Rma("draft", <<Of(i1, 1)>>, 1, NoId)}

ASSUME MCOneOrderPerId == OneOrderPerId
=============================================================================
