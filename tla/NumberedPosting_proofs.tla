----------------------- MODULE NumberedPosting_proofs -----------------------
(***************************************************************************)
(* Proofs about NumberedPosting for any number of concurrent requests and  *)
(* any set of client document ids.  The inductive invariant IInv says why  *)
(* the scheme works: whoever is between drawing a number and committing    *)
(* owns the NumberSeries row, so it alone may insert, and what it saw when *)
(* it inserted is still true when it commits.                              *)
(***************************************************************************)
EXTENDS NumberedPosting, TLAPS

\* A request that has drawn a number owns the series, and its number is next.
HolderNext ==
    \A w \in Worker : tx[w].pc \in {"insert", "commit"} =>
        seriesOwner = w /\ tx[w].no = lastNumber + 1

\* The index check made by the INSERT still holds up to the commit.
InsertStillUnique ==
    \A w \in Worker : tx[w].pc = "commit" /\ tx[w].id # NoId =>
        RowsFor(tx[w].id) = {}

\* What is about to be answered, and what has been answered, is posted.
AnswersArePosted ==
    /\ \A w \in Worker : tx[w].pc = "respond" =>
          [no |-> tx[w].no, id |-> tx[w].id] \in header
    /\ \A d \in ClientId : \A n \in acked[d] : [no |-> n, id |-> d] \in header

IInv ==
    /\ TypeOK
    /\ HolderNext
    /\ NumbersGapFree
    /\ OneDocPerClientId
    /\ InsertStillUnique
    /\ AnswersArePosted

\* An empty document table satisfies the inductive invariant.
LEMMA InitIInv == Init => IInv
<1> SUFFICES ASSUME Init PROVE IInv
  OBVIOUS
<1>1. TypeOK
  BY DEF Init, TypeOK, Idle, Id
<1>2. HolderNext /\ InsertStillUnique /\ AnswersArePosted
  BY DEF Init, HolderNext, InsertStillUnique, AnswersArePosted, Idle
<1>3. NumbersGapFree /\ OneDocPerClientId
  BY DEF Init, NumbersGapFree, Numbers, OneDocPerClientId
<1> QED
  BY <1>1, <1>2, <1>3 DEF IInv

\* Every step of every request preserves the inductive invariant.
LEMMA StepIInv == IInv /\ [Next]_vars => IInv'
<1> SUFFICES ASSUME IInv, [Next]_vars PROVE IInv'
  OBVIOUS
<1> USE NumberedPostingAssumption
<1>1. ASSUME NEW w \in Worker, NEW id \in Id, Begin(w, id) PROVE IInv'
  <2>1. TypeOK'
    BY <1>1 DEF IInv, TypeOK, Begin, Id
  <2>2. HolderNext' /\ InsertStillUnique'
    BY <1>1 DEF IInv, TypeOK, HolderNext, InsertStillUnique, RowsFor, Begin
  <2>3. NumbersGapFree' /\ OneDocPerClientId'
    BY <1>1 DEF IInv, NumbersGapFree, Numbers, OneDocPerClientId, Begin
  <2>4. AnswersArePosted'
    BY <1>1 DEF IInv, TypeOK, AnswersArePosted, Begin
  <2> QED
    BY <2>1, <2>2, <2>3, <2>4 DEF IInv
<1>2. ASSUME NEW w \in Worker, FindExisting(w) PROVE IInv'
  <2>1. TypeOK'
    BY <1>2 DEF IInv, TypeOK, FindExisting, RowsFor
  <2>2. HolderNext' /\ InsertStillUnique'
    BY <1>2 DEF IInv, TypeOK, HolderNext, InsertStillUnique, RowsFor,
                FindExisting
  <2>3. NumbersGapFree' /\ OneDocPerClientId'
    BY <1>2 DEF IInv, NumbersGapFree, Numbers, OneDocPerClientId, FindExisting
  <2>4. AnswersArePosted'
    \* A hit is a committed row with this very id.
    BY <1>2 DEF IInv, TypeOK, AnswersArePosted, FindExisting, RowsFor
  <2> QED
    BY <2>1, <2>2, <2>3, <2>4 DEF IInv
<1>3. ASSUME NEW w \in Worker, NextNumber(w) PROVE IInv'
  <2>1. TypeOK'
    <3>1. lastNumber + 1 \in Nat \ {0}
      BY DEF IInv, TypeOK
    <3>2. PICK n \in Nat \ {0} :
              tx' = [tx EXCEPT ![w].pc = "insert", ![w].no = n]
      BY <1>3, <3>1 DEF NextNumber
    <3> DEFINE Tx == [pc : {"idle", "find", "number", "insert", "commit",
                            "respond"}, id : Id, no : Nat]
    <3>3. /\ tx' \in [Worker -> Tx]
          /\ tx'[w].no = n
          /\ \A v \in Worker \ {w} : tx'[v] = tx[v]
      BY <3>2 DEF IInv, TypeOK
    <3>4. \A v \in Worker : tx'[v].pc \in {"insert", "commit", "respond"}
              => tx'[v].no # 0
      BY <3>2, <3>3 DEF IInv, TypeOK
    <3> QED
      BY <1>3, <3>3, <3>4 DEF IInv, TypeOK, NextNumber
  <2>2. HolderNext' /\ InsertStillUnique'
    \* The row was free, so no other request had a number.
    BY <1>3 DEF IInv, TypeOK, HolderNext, InsertStillUnique, RowsFor,
                NextNumber
  <2>3. NumbersGapFree' /\ OneDocPerClientId'
    BY <1>3 DEF IInv, NumbersGapFree, Numbers, OneDocPerClientId, NextNumber
  <2>4. AnswersArePosted'
    BY <1>3 DEF IInv, TypeOK, AnswersArePosted, NextNumber
  <2> QED
    BY <2>1, <2>2, <2>3, <2>4 DEF IInv
<1>4. ASSUME NEW w \in Worker, InsertHeader(w) PROVE IInv'
  <2>1. TypeOK'
    BY <1>4 DEF IInv, TypeOK, InsertHeader
  <2>2. HolderNext' /\ InsertStillUnique'
    BY <1>4 DEF IInv, TypeOK, HolderNext, InsertStillUnique, RowsFor,
                InsertHeader, Duplicate
  <2>3. NumbersGapFree' /\ OneDocPerClientId'
    BY <1>4 DEF IInv, NumbersGapFree, Numbers, OneDocPerClientId, InsertHeader
  <2>4. AnswersArePosted'
    BY <1>4 DEF IInv, TypeOK, AnswersArePosted, InsertHeader
  <2> QED
    BY <2>1, <2>2, <2>3, <2>4 DEF IInv
<1>5. ASSUME NEW w \in Worker, Commit(w) PROVE IInv'
  <2> DEFINE doc == [no |-> tx[w].no, id |-> tx[w].id]
  <2>1. /\ seriesOwner = w
        /\ tx[w].no = lastNumber + 1
        /\ lastNumber \in Nat
        /\ header' = header \cup {doc}
        /\ lastNumber' = lastNumber + 1
    BY <1>5 DEF IInv, TypeOK, HolderNext, Commit
  <2>2. \A v \in Worker \ {w} : tx[v].pc \notin {"insert", "commit"}
    BY <2>1 DEF IInv, HolderNext
  <2>3. TypeOK'
    BY <1>5 DEF IInv, TypeOK, Commit
  <2>4. HolderNext' /\ InsertStillUnique'
    BY <1>5, <2>2 DEF IInv, TypeOK, HolderNext, InsertStillUnique, Commit
  <2>5. NumbersGapFree'
    <3>1. Numbers' = Numbers \cup {lastNumber + 1}
      <4>1. doc.no = lastNumber + 1
        BY <2>1
      <4> HIDE DEF doc
      <4> QED
        BY <2>1, <4>1 DEF Numbers
    <3>2. Numbers' = (1 .. lastNumber)'
      BY <2>1, <3>1 DEF IInv, NumbersGapFree
    <3>3. \A h \in header : h.no # lastNumber + 1
      BY <2>1 DEF IInv, NumbersGapFree, Numbers
    <3>4. ASSUME NEW h1 \in header', NEW h2 \in header', h1.no = h2.no
          PROVE h1 = h2
      BY <2>1, <3>3, <3>4 DEF IInv, NumbersGapFree
    <3> QED
      BY <3>2, <3>4 DEF NumbersGapFree
  <2>6. OneDocPerClientId'
    <3>1. tx[w].id # NoId => \A h \in header : h.id # tx[w].id
      BY <1>5 DEF IInv, InsertStillUnique, RowsFor, Commit
    <3>2. ASSUME NEW h1 \in header', NEW h2 \in header',
                 h1.id = h2.id, h1.id # NoId
          PROVE h1 = h2
      BY <2>1, <3>1, <3>2 DEF IInv, OneDocPerClientId
    <3> QED
      BY <3>2 DEF OneDocPerClientId
  <2>7. AnswersArePosted'
    BY <1>5, <2>1 DEF IInv, TypeOK, AnswersArePosted, Commit
  <2> QED
    BY <2>3, <2>4, <2>5, <2>6, <2>7 DEF IInv
<1>6. ASSUME NEW w \in Worker, InFlight(w), Undo(w) PROVE IInv'
  <2>1. TypeOK'
    BY <1>6 DEF IInv, TypeOK, Undo, Idle, Id
  <2>2. HolderNext' /\ InsertStillUnique'
    BY <1>6 DEF IInv, TypeOK, HolderNext, InsertStillUnique, RowsFor, Undo,
                Idle
  <2>3. NumbersGapFree' /\ OneDocPerClientId'
    BY <1>6 DEF IInv, NumbersGapFree, Numbers, OneDocPerClientId, Undo
  <2>4. AnswersArePosted'
    BY <1>6 DEF IInv, TypeOK, AnswersArePosted, Undo, Idle
  <2> QED
    BY <2>1, <2>2, <2>3, <2>4 DEF IInv
<1>7. ASSUME NEW w \in Worker, Respond(w) PROVE IInv'
  <2>1. TypeOK'
    BY <1>7 DEF IInv, TypeOK, Respond, Idle, Id
  <2>2. HolderNext' /\ InsertStillUnique'
    BY <1>7 DEF IInv, TypeOK, HolderNext, InsertStillUnique, RowsFor, Respond,
                Idle
  <2>3. NumbersGapFree' /\ OneDocPerClientId'
    BY <1>7 DEF IInv, NumbersGapFree, Numbers, OneDocPerClientId, Respond
  <2>4. AnswersArePosted'
    BY <1>7 DEF IInv, TypeOK, AnswersArePosted, Respond, Idle, Id
  <2> QED
    BY <2>1, <2>2, <2>3, <2>4 DEF IInv
<1>8. ASSUME NEW w \in Worker, LoseReply(w) PROVE IInv'
  <2>1. TypeOK'
    BY <1>8 DEF IInv, TypeOK, LoseReply, Idle, Id
  <2>2. HolderNext' /\ InsertStillUnique'
    BY <1>8 DEF IInv, TypeOK, HolderNext, InsertStillUnique, RowsFor,
                LoseReply, Idle
  <2>3. NumbersGapFree' /\ OneDocPerClientId'
    BY <1>8 DEF IInv, NumbersGapFree, Numbers, OneDocPerClientId, LoseReply
  <2>4. AnswersArePosted'
    BY <1>8 DEF IInv, TypeOK, AnswersArePosted, LoseReply, Idle
  <2> QED
    BY <2>1, <2>2, <2>3, <2>4 DEF IInv
<1>9. CASE UNCHANGED vars
  BY <1>9 DEF IInv, TypeOK, HolderNext, NumbersGapFree, Numbers,
              OneDocPerClientId, InsertStillUnique, RowsFor, AnswersArePosted,
              vars
<1>10. ASSUME NEW w \in Worker, DuplicateKey(w) PROVE IInv'
  BY <1>6, <1>10 DEF DuplicateKey, InFlight
<1>11. ASSUME NEW w \in Worker, Rollback(w) PROVE IInv'
  BY <1>6, <1>11 DEF Rollback
<1> QED
  BY <1>1, <1>2, <1>3, <1>4, <1>5, <1>7, <1>8, <1>9, <1>10, <1>11 DEF Next

\* The inductive invariant holds in every reachable state of the frame.
LEMMA Inductive == Spec => []IInv
BY InitIInv, StepIInv, PTL DEF Spec
-----------------------------------------------------------------------------
\* Every variable keeps its type; no document is ever numbered 0.
THEOREM TypeCorrect == Spec => []TypeOK
<1>1. IInv => TypeOK
  BY DEF IInv
<1> QED
  BY <1>1, Inductive, PTL

\* A client document id is never posted twice, whatever the retries.
THEOREM AtMostOnce == Spec => []OneDocPerClientId
<1>1. IInv => OneDocPerClientId
  BY DEF IInv
<1> QED
  BY <1>1, Inductive, PTL

\* The committed documents are numbered 1 to LastNumber, without repetition.
THEOREM GapFree == Spec => []NumbersGapFree
<1>1. IInv => NumbersGapFree
  BY DEF IInv
<1> QED
  BY <1>1, Inductive, PTL

\* A number in the hands of a request is nobody else's.
THEOREM NumbersAreFresh == Spec => []FreshNumber
<1>1. IInv => FreshNumber
  <2> SUFFICES ASSUME IInv, NEW w \in Worker, tx[w].pc \in {"insert", "commit"}
               PROVE  /\ tx[w].no \notin Numbers
                      /\ \A v \in Worker \ {w} :
                            tx[v].pc \in {"insert", "commit"} => tx[v].no # tx[w].no
    BY DEF FreshNumber
  <2>1. seriesOwner = w /\ tx[w].no = lastNumber + 1 /\ lastNumber \in Nat
    BY DEF IInv, HolderNext, TypeOK
  <2>2. tx[w].no \notin Numbers
    BY <2>1 DEF IInv, NumbersGapFree
  <2>3. \A v \in Worker \ {w} : tx[v].pc \notin {"insert", "commit"}
    BY <2>1 DEF IInv, HolderNext
  <2> QED
    BY <2>2, <2>3
<1> QED
  BY <1>1, Inductive, PTL

\* A terminal is never told two different numbers for the same document.
THEOREM AnswersAgree == Spec => []SameAnswer
<1>1. IInv => SameAnswer
  <2> SUFFICES ASSUME IInv, NEW d \in ClientId,
                      NEW n1 \in acked[d], NEW n2 \in acked[d]
               PROVE  n1 = n2
    BY DEF SameAnswer
  <2>1. /\ [no |-> n1, id |-> d] \in header
        /\ [no |-> n2, id |-> d] \in header
    BY DEF IInv, AnswersArePosted
  <2>2. d # NoId
    BY NumberedPostingAssumption
  <2>3. [no |-> n1, id |-> d] = [no |-> n2, id |-> d]
    BY <2>1, <2>2 DEF IInv, OneDocPerClientId
  <2> QED
    BY <2>3
<1> QED
  BY <1>1, Inductive, PTL
-----------------------------------------------------------------------------
\* Requests with races, locks, failures and retries implement the register:
\* only a commit posts, only an OK reply acknowledges, all else is invisible.
THEOREM Refinement == Spec => RefinesRegister
<1>1. Init => Register!RegInit
  BY DEF Init, Register!RegInit
<1>2. IInv /\ [Next]_vars => [Register!RegNext]_(Register!regVars)
  <2> SUFFICES ASSUME IInv, [Next]_vars
               PROVE  Register!RegNext \/ UNCHANGED Register!regVars
    OBVIOUS
  <2>1. ASSUME NEW w \in Worker, Commit(w) PROVE Register!RegNext
    <3>1. tx[w].id \in ClientId \cup {NoId}
      BY <2>1 DEF IInv, TypeOK, Id
    <3>2. tx[w].id # NoId => \A h \in header : h.id # tx[w].id
      BY <2>1 DEF IInv, InsertStillUnique, RowsFor, Commit
    <3>3. tx[w].no = lastNumber + 1
      BY <2>1 DEF IInv, HolderNext, Commit
    <3>4. Register!Post(tx[w].id)
      BY <2>1, <3>2, <3>3 DEF Commit, Register!Post
    <3> QED
      BY <3>1, <3>4 DEF Register!RegNext
  <2>2. ASSUME NEW w \in Worker, Respond(w)
        PROVE  Register!RegNext \/ UNCHANGED Register!regVars
    <3>1. CASE tx[w].id = NoId
      BY <2>2, <3>1 DEF Respond, Register!regVars
    <3>2. CASE tx[w].id # NoId
      <4>1. tx[w].id \in ClientId
        BY <3>2 DEF IInv, TypeOK, Id
      <4>2. [no |-> tx[w].no, id |-> tx[w].id] \in header
        BY <2>2 DEF IInv, AnswersArePosted, Respond
      <4>3. Register!Acknowledge(tx[w].id)
        BY <2>2, <3>2, <4>2 DEF Respond, Register!Acknowledge
      <4> QED
        BY <4>1, <4>3 DEF Register!RegNext
    <3> QED
      BY <3>1, <3>2
  <2>3. ASSUME NEW w \in Worker,
               \/ \E id \in Id : Begin(w, id)
               \/ FindExisting(w)
               \/ NextNumber(w)
               \/ InsertHeader(w)
               \/ DuplicateKey(w)
               \/ Rollback(w)
               \/ LoseReply(w)
        PROVE  UNCHANGED Register!regVars
    BY <2>3 DEF Begin, FindExisting, NextNumber, InsertHeader, DuplicateKey,
                Rollback, Undo, LoseReply, Register!regVars
  <2>4. CASE UNCHANGED vars
    BY <2>4 DEF vars, Register!regVars
  <2> QED
    BY <2>1, <2>2, <2>3, <2>4 DEF Next
<1> QED
  BY <1>1, <1>2, Inductive, PTL DEF Spec, RefinesRegister, Register!RegSpec
=============================================================================
