--------------------------- MODULE MCStockPosOnly ---------------------------
(***************************************************************************)
(* Three tills of one store selling and receiving the same two products,   *)
(* with no sales invoice, transfer or adjustment in between, every product *)
(* with a row in the store and no product twice in one sale.               *)
(***************************************************************************)
EXTENDS StockPosting, TLC

CONSTANTS w1, w2, w3, s1, p1, p2

L(p, q) == [p |-> p, q |-> q]
R(kind, lines) == [kind |-> kind, store |-> s1, to |-> s1, lines |-> lines]

MCWorker == {w1, w2, w3}
Symmetry == Permutations(MCWorker)
MCStore == {s1}
MCProduct == {p1, p2}
MCOpeningRows == {<<s1, p1>>, <<s1, p2>>}
MCOpeningQty == (<<s1, p1>> :> 2 @@ <<s1, p2>> :> 1)
MCOpeningStock == (p1 :> 2 @@ p2 :> 1)
MCRequest ==
    { R("pos", <<L(p1, 1), L(p2, 1)>>),
      R("pos", <<L(p2, 1), L(p1, 2)>>),
      R("pos", <<L(p1, 2)>>),
      R("purchase", <<L(p2, 1), L(p1, 1)>>),
      R("purchase", <<L(p1, 1)>>) }

ASSUME MCTillsOnly == TillsOnly
=============================================================================
