--------------------------- MODULE MCInvoiceCard ---------------------------
(* A card alone on a new invoice, or on a draft that card c4 has open too and *)
(* may delete.  c1 has edits enough for a customer, a line, and the line gone *)
(* again; c2 loses answers but does not leave, c3 leaves but loses none.      *)
EXTENDS InvoiceCard, TLC

CONSTANTS c1, c2, c3, c4

Page(kind, opened, closed) == [kind |-> kind, opened |-> opened, closed |-> closed]
Away == [c \in Card |-> Page("sales", TRUE, TRUE)]
Draft == Page("sales", TRUE, FALSE)
MCStarts == {[Away EXCEPT ![c1] = Page("sales", FALSE, FALSE)],
             [Away EXCEPT ![c2] = Page("purchase", FALSE, FALSE)],
             [Away EXCEPT ![c3] = Page("purchase", FALSE, FALSE)],
             [Away EXCEPT ![c2] = Draft, ![c4] = Draft],
             [Away EXCEPT ![c3] = Draft, ![c4] = Draft]}
Clerks == c1 :> {"edit", "leave", "post"} @@ c2 :> {"edit", "post"}
          @@ c3 :> {"edit", "leave", "post"} @@ c4 :> {"delete"}
Edits == c1 :> 3 @@ c2 :> 2 @@ c3 :> 2 @@ c4 :> 0
=============================================================================
