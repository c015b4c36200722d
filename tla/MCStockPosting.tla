--------------------------- MODULE MCStockPosting ---------------------------
(***************************************************************************)
(* Two stores and two products; the second store opened before product p2  *)
(* was created, so it has no row for it.  Every kind of posting, lines in  *)
(* both orders, and an adjustment of a row that sales decrement.           *)
(***************************************************************************)
EXTENDS StockPosting, TLC

CONSTANTS w1, w2, s1, s2, p1, p2

L(p, q) == [p |-> p, q |-> q]
R(kind, store, to, lines) ==
    [kind |-> kind, store |-> store, to |-> to, lines |-> lines]

MCWorker == {w1, w2}
MCStore == {s1, s2}
MCProduct == {p1, p2}
MCOpeningRows == {<<s1, p1>>, <<s1, p2>>, <<s2, p1>>}
MCOpeningQty == (<<s1, p1>> :> 2 @@ <<s1, p2>> :> 1
                 @@ <<s2, p1>> :> 0 @@ <<s2, p2>> :> 0)
MCOpeningStock == (p1 :> 2 @@ p2 :> 1)
MCRequest ==
    { R("pos", s1, s1, <<L(p1, 1), L(p2, 1)>>),
      R("pos", s2, s2, <<L(p2, 1)>>),
      R("invoice", s1, s1, <<L(p2, 1), L(p1, 1)>>),
      R("purchase", s2, s2, <<L(p2, 1)>>),
      R("transfer", s1, s2, <<L(p1, 2)>>),
      R("transfer", s1, s2, <<L(p2, 1)>>),
      R("adjust", s1, s1, <<L(p1, 0)>>),
      R("adjust", s1, s1, <<L(p2, 2)>>) }

\* A till and an invoice clerk reach for the last piece of p2.
RaceRequest ==
    { R("pos", s1, s1, <<L(p2, 1)>>), R("invoice", s1, s1, <<L(p2, 1)>>) }
=============================================================================
