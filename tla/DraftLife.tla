------------------------------ MODULE DraftLife ------------------------------
(***************************************************************************)
(* What the server promises of an invoice: it is written and rewritten as  *)
(* an open draft, then posted once or deleted once, and from then on never *)
(* touched again.  It may also be posted straight away.                    *)
(***************************************************************************)
EXTENDS Naturals

CONSTANTS
    Id,         \* the ids invoices may get
    Content     \* what an invoice may say

VARIABLE invoice    \* invoice[i]: its status and content

None == [status |-> "none", content |-> {}]
Draft == [status : {"Open"}, content : Content]
Final == [status : {"Posted"}, content : Content] \cup
         [status : {"Deleted"}, content : Content]
Invoice == {None} \cup Draft \cup Final

Init == invoice \in [Id -> {None} \cup Draft]

Save(i) ==
    /\ invoice[i] \in {None} \cup Draft
    /\ \E d \in Draft : invoice' = [invoice EXCEPT ![i] = d]

Finish(i) ==
    /\ invoice[i] \in {None} \cup Draft
    /\ \E f \in Final : invoice' = [invoice EXCEPT ![i] = f]

Next == \E i \in Id : Save(i) \/ Finish(i)

Spec == Init /\ [][Next]_invoice

\* An invoice that was posted or deleted stays as it is.
FinalStays == [][\A i \in Id : invoice[i] \in Final => invoice'[i] = invoice[i]]_invoice
=============================================================================
