--------------------------- MODULE PostedRegister ---------------------------
(***************************************************************************)
(* What a posting endpoint of the tenant API promises the terminals, with  *)
(* no workers, locks or transactions in sight: a register of posted        *)
(* documents, numbered 1, 2, 3, ... in the order they are posted, that     *)
(* holds at most one document for each client document id, and answers     *)
(* only with documents that are in the register.                           *)
(***************************************************************************)
EXTENDS Integers

CONSTANTS
    ClientId,   \* client document ids chosen by desktop and mobile terminals
    NoId        \* a cloud browser request carries no client document id

VARIABLES
    posted,     \* the documents: records [no, id]
    count,      \* how many have been posted
    acked       \* acked[d]: document numbers the terminal was told for id d

regVars == <<posted, count, acked>>

RegInit ==
    /\ posted = {}
    /\ count = 0
    /\ acked = [d \in ClientId |-> {}]

\* Post one more document; a client document id is posted at most once.
Post(id) ==
    /\ id # NoId => \A h \in posted : h.id # id
    /\ posted' = posted \cup {[no |-> count + 1, id |-> id]}
    /\ count' = count + 1
    /\ UNCHANGED acked

\* Tell the terminal the number under which its document stands posted.
Acknowledge(d) ==
    /\ \E h \in posted :
          /\ h.id = d
          /\ acked' = [acked EXCEPT ![d] = @ \cup {h.no}]
    /\ UNCHANGED <<posted, count>>

RegNext ==
    \/ \E id \in ClientId \cup {NoId} : Post(id)
    \/ \E d \in ClientId : Acknowledge(d)

RegSpec == RegInit /\ [][RegNext]_regVars
=============================================================================
