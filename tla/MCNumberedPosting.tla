------------------------- MODULE MCNumberedPosting --------------------------
(***************************************************************************)
(* Two terminals' documents and one document without a client id, posted   *)
(* by three concurrent requests: enough for a retry to race its original   *)
(* and for both to race an unrelated document.                             *)
(***************************************************************************)
EXTENDS NumberedPosting

CONSTANTS w1, w2, w3, d1, d2

MCWorker == {w1, w2, w3}
MCClientId == {d1, d2}
=============================================================================
