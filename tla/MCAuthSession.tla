--------------------------- MODULE MCAuthSession ---------------------------
(* Two tabs, the first with two callers. *)
EXTENDS AuthSession, TLC

CONSTANTS t1, t2, c1, c2, c3

MCTabOf == c1 :> t1 @@ c2 :> t1 @@ c3 :> t2
MCOps == c1 :> {"call", "switch"} @@ c2 :> {"html"} @@ c3 :> {"call", "logout"}
=============================================================================
