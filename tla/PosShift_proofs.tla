---------------------------- MODULE PosShift_proofs ----------------------------
(***************************************************************************)
(* Proofs about PosShift for any finite set of terminals and any users.    *)
(* The inductive invariant IInv says what a request knows of the shift it  *)
(* found or inserted: the row is there to stay, or is the request's own;   *)
(* and that an open shift stands for a terminal of its user that has done  *)
(* its inserting, so that there are never more of them than terminals.     *)
(***************************************************************************)
EXTENDS PosShift, FiniteSetTheorems, TLAPS

RowType == [status : {"none", "open", "closed", "undone"},
            user : User \cup {Nobody}, maker : Worker \cup {Nobody},
            opening : Nat, expected : Int]
RunType == [req : Request \cup {NoRequest},
            step : {"idle", "preferred", "find", "answer", "insert",
                    "write", "commit", "sum"},
            managed : BOOLEAN, wise : BOOLEAN,
            shift : ShiftId \cup {NoShift}, expected : Int,
            todo : SUBSET Part]

Types ==
    /\ managed \in BOOLEAN /\ wise \in BOOLEAN
    /\ shift \in [ShiftId -> RowType]
    /\ cash \in [ShiftId -> [Part -> Int]]
    /\ change \in [ShiftId -> Nat]
    /\ run \in [Worker -> RunType]
    /\ begun \in 0 .. MaxRequests

\* Before its shift is chosen a request has none; from then on the row it has
\* was committed, or is its own.
Without == {"idle", "find", "answer", "insert"}
HasRow(w) ==
    IF run[w].step \in Without
    THEN run[w].shift = NoShift
    ELSE /\ run[w].shift \in ShiftId
         /\ shift[run[w].shift].status \in {"open", "closed"}
         /\ shift[run[w].shift].maker \in {Nobody, w}

Writing(w) == run[w].step \in {"write", "commit"} /\ KindOf(w) \in Document

\* A document is about to go into a shift of its user, and into one it did
\* not insert while shifts are managed.
OwnRow(w) ==
    /\ Writing(w) => /\ run[w].wise => shift[run[w].shift].user = UserOf[w]
                     /\ run[w].managed => shift[run[w].shift].maker = Nobody
    /\ run[w].step = "insert" /\ KindOf(w) \in Document => ~run[w].managed

WorkerOK(w) ==
    /\ run[w].step # "idle" => run[w].req \in Request
    /\ HasRow(w)
    /\ OwnRow(w)

\* A row that is not committed belongs to a document being written into it,
\* and like one undone has no cash.
RowOK(s) ==
    /\ shift[s].maker # Nobody => Writing(shift[s].maker) /\ Using(shift[s].maker, s)
    /\ shift[s].maker # Nobody \/ shift[s].status \in {"none", "undone"} =>
          cash[s] = [p \in Part |-> 0]

OpenOf(u) == {s \in ShiftId : shift[s].status = "open" /\ shift[s].user = u}
Inserting(u) == {w \in Terminals(u) : run[w].step = "insert"}

\* A user's open shifts and shifts about to be inserted are as many as the
\* user's terminals, or fewer.
Counted ==
    \A u \in User : Cardinality(OpenOf(u)) + Cardinality(Inserting(u))
                        <= Cardinality(Terminals(u))

IInv ==
    /\ Types
    /\ \A w \in Worker : WorkerOK(w)
    /\ \A s \in ShiftId : RowOK(s)
    /\ Counted

-----------------------------------------------------------------------------
(* Counting.                                                               *)

\* The sets that are counted are finite.
LEMMA Finite ==
    ASSUME NEW u, NEW S \in SUBSET ShiftId, NEW T \in SUBSET Terminals(u)
    PROVE  /\ IsFiniteSet(S) /\ Cardinality(S) \in Nat
           /\ IsFiniteSet(T) /\ Cardinality(T) \in Nat
           /\ IsFiniteSet(Terminals(u)) /\ Cardinality(Terminals(u)) \in Nat
           /\ Cardinality(T) <= Cardinality(Terminals(u))
<1>1. IsFiniteSet(ShiftId)
  BY PosShiftAssumption, FS_Interval DEF ShiftId
<1>2. IsFiniteSet(Terminals(u))
  BY PosShiftAssumption, FS_Subset DEF Terminals
<1>3. IsFiniteSet(S) /\ IsFiniteSet(T) /\ Cardinality(T) <= Cardinality(Terminals(u))
  BY <1>1, <1>2, FS_Subset
<1> QED
  BY <1>2, <1>3, FS_CardinalityType

\* Steps that open nothing and bring nobody to an insert keep the count.
LEMMA Fewer ==
    ASSUME Counted,
           \A u \in User : OpenOf(u)' \subseteq OpenOf(u),
           \A u \in User : Inserting(u)' \subseteq Inserting(u)
    PROVE  Counted'
<1> SUFFICES ASSUME NEW u \in User
             PROVE  Cardinality(OpenOf(u)') + Cardinality(Inserting(u)')
                        <= Cardinality(Terminals(u))
  BY DEF Counted, Terminals
<1>1. Cardinality(OpenOf(u)') <= Cardinality(OpenOf(u))
  <2>1. IsFiniteSet(OpenOf(u))
    BY Finite, {} \subseteq Terminals(u) DEF OpenOf
  <2> QED
    BY <2>1, FS_Subset
<1>2. Cardinality(Inserting(u)') <= Cardinality(Inserting(u))
  <2>1. IsFiniteSet(Inserting(u))
    BY Finite, {} \subseteq ShiftId DEF Inserting
  <2> QED
    BY <2>1, FS_Subset
<1>3. /\ Cardinality(OpenOf(u)) \in Nat /\ Cardinality(OpenOf(u)') \in Nat
      /\ Cardinality(Inserting(u)) \in Nat /\ Cardinality(Inserting(u)') \in Nat
      /\ Cardinality(Terminals(u)) \in Nat
  <2>1. OpenOf(u) \subseteq ShiftId /\ OpenOf(u)' \subseteq ShiftId
    BY DEF OpenOf
  <2>2. Inserting(u) \subseteq Terminals(u) /\ Inserting(u)' \subseteq Terminals(u)
    BY DEF Inserting, Terminals
  <2> QED
    BY <2>1, <2>2, Finite
<1> QED
  BY <1>1, <1>2, <1>3 DEF Counted
-----------------------------------------------------------------------------
(* Steps that change nothing but one request.                              *)

\* A request that is not writing is the maker of no row.
LEMMA MakesNothing ==
    ASSUME IInv, NEW w \in Worker, ~Writing(w), NEW s \in ShiftId
    PROVE  shift[s].maker # w
BY PosShiftAssumption DEF IInv, RowOK

\* Such a step keeps the invariant if it does for the request itself.
LEMMA RunStep ==
    ASSUME IInv, NEW w \in Worker, UNCHANGED <<shift, books>>,
           managed' \in BOOLEAN, wise' \in BOOLEAN, begun' \in 0 .. MaxRequests,
           run' \in [Worker -> RunType],
           \A v \in Worker : v # w => run'[v] = run[v],
           WorkerOK(w)',
           Writing(w) => Writing(w)' /\ run'[w].shift = run[w].shift,
           Counted'
    PROVE  IInv'
<1>1. Types'
  BY DEF IInv, Types, books
<1>2. ASSUME NEW v \in Worker PROVE WorkerOK(v)'
  <2>1. CASE v = w
    BY <2>1
  <2>2. CASE v # w
    <3>1. WorkerOK(v) /\ run'[v] = run[v] /\ shift' = shift
      BY <2>2 DEF IInv
    <3> QED
      BY <3>1 DEF WorkerOK, HasRow, OwnRow, Writing, KindOf
  <2> QED
    BY <2>1, <2>2
<1>3. ASSUME NEW s \in ShiftId PROVE RowOK(s)'
  <2>1. RowOK(s) /\ shift' = shift /\ cash' = cash
    BY DEF IInv, books
  <2>2. ASSUME shift[s].maker # Nobody
        PROVE  Writing(shift[s].maker)' /\ Using(shift[s].maker, s)'
    <3> DEFINE m == shift[s].maker
    <3>1. m \in Worker /\ Writing(m) /\ Using(m, s)
      BY <2>1, <2>2 DEF IInv, Types, RowType, RowOK
    <3>2. CASE m = w
      BY <3>1, <3>2 DEF Using
    <3>3. CASE m # w
      BY <3>1, <3>3 DEF Using, Writing, KindOf
    <3> QED
      BY <3>2, <3>3
  <2> QED
    BY <2>1, <2>2 DEF RowOK
<1> QED
  BY <1>1, <1>2, <1>3 DEF IInv

\* A request that brings nobody to an insert keeps the count.
LEMMA SameCount ==
    ASSUME IInv, NEW w \in Worker, shift' = shift,
           \A v \in Worker : v # w => run'[v] = run[v],
           run'[w].step # "insert"
    PROVE  Counted'
<1>1. \A u \in User : OpenOf(u)' \subseteq OpenOf(u)
  BY DEF OpenOf
<1>2. \A u \in User : Inserting(u)' \subseteq Inserting(u)
  BY DEF Inserting, Terminals
<1> QED
  BY <1>1, <1>2, Fewer DEF IInv

\* A request that found no open shift of its user, nor one being inserted, may
\* go on to insert one: the user has none.
LEMMA FirstCount ==
    ASSUME IInv, NEW w \in Worker, shift' = shift,
           \A v \in Worker : v # w => run'[v] = run[v],
           Candidates(w) = {}, ~FindWaits(w)
    PROVE  Counted'
<1> DEFINE me == UserOf[w]
<1>0. me \in User
  BY PosShiftAssumption
<1>1. OpenOf(me) = {}
  BY DEF OpenOf, Candidates, FindWaits, Suits
<1>2. OpenOf(me)' = {}
  BY <1>1 DEF OpenOf
<1> SUFFICES ASSUME NEW u \in User
             PROVE  Cardinality(OpenOf(u)') + Cardinality(Inserting(u)')
                        <= Cardinality(Terminals(u))
  BY DEF Counted, Terminals
<1>3. CASE u = me
  <2>1. Inserting(me)' \subseteq Terminals(me)
    BY DEF Inserting, Terminals
  <2>2. /\ Cardinality(Inserting(me)') <= Cardinality(Terminals(me))
        /\ Cardinality(Inserting(me)') \in Nat /\ Cardinality(Terminals(me)) \in Nat
    BY <2>1, Finite, {} \subseteq ShiftId
  <2>3. Cardinality(OpenOf(me)') = 0
    BY <1>2, FS_EmptySet
  <2> QED
    BY <1>3, <2>2, <2>3
<1>4. CASE u # me
  <2>1. OpenOf(u)' = OpenOf(u)
    BY DEF OpenOf
  <2>2. Inserting(u)' = Inserting(u)
    BY <1>4 DEF Inserting, Terminals
  <2> QED
    BY <2>1, <2>2 DEF IInv, Counted
<1> QED
  BY <1>3, <1>4
-----------------------------------------------------------------------------
(* The invariant.                                                          *)

\* Without shifts and requests it holds.
LEMMA InitIInv == Init => IInv
<1> SUFFICES ASSUME Init PROVE IInv
  OBVIOUS
<1> USE PosShiftAssumption
<1>1. NoRow \in RowType
  BY DEF NoRow, RowType
<1>2. Idle \in RunType
  BY DEF Idle, RunType, NoShift
<1>3. Types
  <2>1. managed \in BOOLEAN /\ wise \in BOOLEAN
    BY Zenon DEF Init
  <2>4. begun \in 0 .. MaxRequests
    BY DEF Init
  <2>2. shift \in [ShiftId -> RowType] /\ run \in [Worker -> RunType]
    BY <1>1, <1>2 DEF Init
  <2>3. cash \in [ShiftId -> [Part -> Int]] /\ change \in [ShiftId -> Nat]
    BY DEF Init
  <2> QED
    BY <2>1, <2>2, <2>3, <2>4 DEF Types
<1>4. \A w \in Worker : WorkerOK(w)
  BY DEF Init, WorkerOK, HasRow, OwnRow, Writing, Without, Idle
<1>5. \A s \in ShiftId : RowOK(s)
  BY DEF Init, RowOK, NoRow
<1>6. Counted
  <2> SUFFICES ASSUME NEW u \in User
               PROVE  Cardinality(OpenOf(u)) + Cardinality(Inserting(u))
                          <= Cardinality(Terminals(u))
    BY DEF Counted
  <2>1. OpenOf(u) = {} /\ Inserting(u) = {}
    BY DEF Init, OpenOf, Inserting, NoRow, Idle, Terminals
  <2>2. Cardinality(Terminals(u)) \in Nat
    BY Finite, {} \subseteq ShiftId, {} \subseteq Terminals(u)
  <2> QED
    BY <2>1, <2>2, FS_EmptySet
<1> QED
  BY <1>3, <1>4, <1>5, <1>6 DEF IInv

\* The settings are nobody's.
LEMMA PutSettingsOK ==
    ASSUME IInv, NEW new \in Settings, PutSettings(new)
    PROVE  IInv'
<1>1. Types'
  BY PosShiftAssumption DEF PutSettings, IInv, Types, books
<1>2. \A w \in Worker : WorkerOK(w)'
  BY DEF PutSettings, IInv, WorkerOK, HasRow, OwnRow, Writing, KindOf
<1>3. \A s \in ShiftId : RowOK(s)'
  BY DEF PutSettings, IInv, RowOK, Writing, KindOf, Using, books
<1>4. Counted'
  <2>1. \A u \in User : OpenOf(u)' \subseteq OpenOf(u) /\ Inserting(u)' \subseteq Inserting(u)
    BY DEF PutSettings, OpenOf, Inserting, Terminals
  <2> QED
    BY <2>1, Fewer DEF IInv
<1> QED
  BY <1>1, <1>2, <1>3, <1>4 DEF IInv

\* What a request starts with has its type.
LEMMA NewRun ==
    ASSUME NEW r \in Request, NEW m \in BOOLEAN, NEW u \in BOOLEAN,
           NEW s \in ShiftId \cup {NoShift}, NEW step \in {"find", "preferred"}
    PROVE  [Idle EXCEPT !.req = r, !.wise = u, !.managed = m, !.shift = s,
                        !.step = step] \in RunType
<1>1. Idle \in RunType
  BY DEF Idle, RunType, NoShift
<1> QED
  BY <1>1 DEF RunType

\* A new request has no shift, or one that was committed.
LEMMA BeginOK ==
    ASSUME IInv, NEW w \in Worker, NEW r \in Request, NEW s \in Known \cup {NoShift},
           Begin(w, r, s)
    PROVE  IInv'
<1> USE PosShiftAssumption
<1> DEFINE new == [Idle EXCEPT !.req = r, !.wise = wise,
                               !.managed = managed /\ r.kind \in Document,
                               !.shift = s,
                               !.step = IF s = NoShift THEN "find" ELSE "preferred"]
<1>1. run' = [run EXCEPT ![w] = new]
  BY DEF Begin
<1>2. /\ new.req = r /\ new.shift = s
      /\ new.step = IF s = NoShift THEN "find" ELSE "preferred"
  BY DEF Idle
<1>3. new \in RunType
  <2> DEFINE m == managed /\ r.kind \in Document
             step == IF s = NoShift THEN "find" ELSE "preferred"
  <2>1. wise \in BOOLEAN /\ m \in BOOLEAN
    BY DEF IInv, Types
  <2>2. s \in ShiftId \cup {NoShift} /\ step \in {"find", "preferred"}
    BY DEF Known
  <2> HIDE DEF m, step
  <2> QED
    BY <2>1, <2>2, NewRun
<1> HIDE DEF new
<1>4. run' \in [Worker -> RunType] /\ run'[w] = new /\ \A v \in Worker : v # w => run'[v] = run[v]
  BY <1>1, <1>3 DEF IInv, Types
<1>5. WorkerOK(w)'
  <2>1. s # NoShift => s \in ShiftId /\ shift[s].status \in {"open", "closed"}
                       /\ shift[s].maker = Nobody
    BY DEF Known
  <2> QED
    BY <1>2, <1>4, <2>1 DEF Begin, WorkerOK, HasRow, OwnRow, Writing, Without
<1>6. UNCHANGED <<shift, books>> /\ managed' \in BOOLEAN /\ wise' \in BOOLEAN
      /\ begun' \in 0 .. MaxRequests /\ run[w].step = "idle"
  BY DEF Begin, IInv, Types, config
<1>7. Counted'
  BY <1>2, <1>4, <1>6, SameCount
<1> QED
  BY <1>4, <1>5, <1>6, <1>7, RunStep DEF Writing

\* A request that takes an open shift it may use.
LEMMA TakeOK ==
    ASSUME IInv, NEW w \in Worker, NEW s \in ShiftId, s \in Candidates(w),
           run[w].step # "idle", ~Writing(w),
           run' \in [Worker -> RunType],
           \A v \in Worker : v # w => run'[v] = run[v],
           run'[w].step \in {"write", "sum"}, run'[w].shift = s,
           run'[w].req = run[w].req, run'[w].wise = run[w].wise,
           UNCHANGED <<config, shift, books, begun>>
    PROVE  IInv'
<1> USE PosShiftAssumption
<1>1. /\ shift[s].status = "open" /\ shift[s].maker = Nobody
      /\ run[w].wise => shift[s].user = UserOf[w]
  BY MakesNothing DEF Candidates, Visible, Suits
<1>2. WorkerOK(w)'
  BY <1>1 DEF IInv, WorkerOK, HasRow, OwnRow, Writing, Without
<1>3. Counted'
  BY SameCount DEF config
<1>4. managed' \in BOOLEAN /\ wise' \in BOOLEAN /\ begun' \in 0 .. MaxRequests
      /\ UNCHANGED <<shift, books>>
  BY DEF IInv, Types, config
<1> QED
  BY <1>2, <1>3, <1>4, RunStep

\* A request that is not writing ends.
LEMMA EndOK ==
    ASSUME IInv, NEW w \in Worker, ~Writing(w), End(w),
           UNCHANGED <<config, shift, books, begun>>
    PROVE  IInv'
<1> USE PosShiftAssumption
<1>1. Idle \in RunType /\ Idle.step = "idle" /\ Idle.shift = NoShift
  BY DEF Idle, RunType, NoShift
<1>2. run' \in [Worker -> RunType] /\ run'[w] = Idle /\ \A v \in Worker : v # w => run'[v] = run[v]
  BY <1>1 DEF End, IInv, Types
<1>3. WorkerOK(w)'
  BY <1>1, <1>2 DEF WorkerOK, HasRow, OwnRow, Writing, Without
<1>4. Counted'
  BY <1>1, <1>2, SameCount
<1>5. managed' \in BOOLEAN /\ wise' \in BOOLEAN /\ begun' \in 0 .. MaxRequests
      /\ UNCHANGED <<shift, books>>
  BY DEF IInv, Types, config
<1> QED
  BY <1>2, <1>3, <1>4, <1>5, RunStep

\* A request that has no shift yet moves on without one.
LEMMA OnwardOK ==
    ASSUME IInv, NEW w \in Worker, run[w].step # "idle", ~Writing(w),
           run' \in [Worker -> RunType],
           \A v \in Worker : v # w => run'[v] = run[v],
           run'[w].step \in {"find", "answer", "insert"}, run'[w].shift = NoShift,
           run'[w].req = run[w].req,
           run'[w].step = "insert" /\ KindOf(w) \in Document => ~run'[w].managed,
           UNCHANGED <<config, shift, books, begun>>, Counted'
    PROVE  IInv'
<1>1. WorkerOK(w)'
  BY DEF IInv, WorkerOK, HasRow, OwnRow, Writing, Without, KindOf
<1>2. managed' \in BOOLEAN /\ wise' \in BOOLEAN /\ begun' \in 0 .. MaxRequests
      /\ UNCHANGED <<shift, books>>
  BY DEF IInv, Types, config
<1> QED
  BY <1>1, <1>2, RunStep

\* What Pick and Goto leave of a request.
LEMMA Picked ==
    ASSUME Types, NEW w \in Worker, NEW s \in ShiftId \cup {NoShift},
           NEW step \in {"find", "write", "answer", "insert", "commit"},
           Pick(w, s, step) \/ (Goto(w, step) /\ run[w].shift = s)
    PROVE  /\ run' \in [Worker -> RunType]
           /\ \A v \in Worker : v # w => run'[v] = run[v]
           /\ run'[w].step = step /\ run'[w].shift = s
           /\ run'[w].req = run[w].req /\ run'[w].wise = run[w].wise
           /\ run'[w].managed = run[w].managed
<1>1. run[w] \in RunType
  BY DEF Types
<1>2. CASE Pick(w, s, step)
  <2>1. [run[w] EXCEPT !.shift = s, !.step = step] \in RunType
    BY <1>1 DEF RunType
  <2>2. run' = [run EXCEPT ![w] = [run[w] EXCEPT !.shift = s, !.step = step]]
    BY <1>2 DEF Pick
  <2>3. run' \in [Worker -> RunType] /\ \A v \in Worker : v # w => run'[v] = run[v]
    BY <2>1, <2>2 DEF Types
  <2>4. run'[w] = [run[w] EXCEPT !.shift = s, !.step = step]
    BY <2>2 DEF Types
  <2> QED
    BY <1>1, <2>3, <2>4 DEF RunType
<1>3. CASE Goto(w, step) /\ run[w].shift = s
  <2>1. [run[w] EXCEPT !.step = step] \in RunType
    BY <1>1 DEF RunType
  <2>2. run' = [run EXCEPT ![w] = [run[w] EXCEPT !.step = step]]
    BY <1>3 DEF Goto
  <2>3. run' \in [Worker -> RunType] /\ \A v \in Worker : v # w => run'[v] = run[v]
    BY <2>1, <2>2 DEF Types
  <2>4. run'[w] = [run[w] EXCEPT !.step = step]
    BY <2>2 DEF Types
  <2> QED
    BY <1>1, <1>3, <2>3, <2>4 DEF RunType
<1> QED
  BY <1>2, <1>3

\* A shift the client names is taken only if a lookup would show it.
LEMMA PickPreferredOK ==
    ASSUME IInv, NEW w \in Worker, PickPreferred(w)
    PROVE  IInv'
<1> DEFINE s == run[w].shift
<1>1. /\ run[w].step = "preferred" /\ Types /\ ~Writing(w)
      /\ UNCHANGED <<config, shift, books, begun>>
  BY DEF PickPreferred, At, IInv, Writing
<1>2. CASE s \in Candidates(w)
  <2>1. s \in ShiftId /\ Pick(w, s, "write")
    BY <1>2 DEF PickPreferred, Candidates
  <2>2. /\ run' \in [Worker -> RunType]
        /\ \A v \in Worker : v # w => run'[v] = run[v]
        /\ run'[w].step = "write" /\ run'[w].shift = s
        /\ run'[w].req = run[w].req /\ run'[w].wise = run[w].wise
    BY <1>1, <2>1, Picked
  <2> QED
    BY <1>1, <1>2, <2>1, <2>2, TakeOK
<1>3. CASE s \notin Candidates(w)
  <2>1. Pick(w, NoShift, "find")
    BY <1>3 DEF PickPreferred
  <2>2. /\ run' \in [Worker -> RunType]
        /\ \A v \in Worker : v # w => run'[v] = run[v]
        /\ run'[w].step = "find" /\ run'[w].shift = NoShift
        /\ run'[w].req = run[w].req
    BY <1>1, <2>1, Picked
  <2>3. Counted'
    BY <1>1, <2>2, SameCount
  <2> QED
    BY <1>1, <2>2, <2>3, OnwardOK
<1> QED
  BY <1>2, <1>3

\* Of the rows a lookup shows, the request takes the newest.
LEMMA EnsureOpenShiftOK ==
    ASSUME IInv, NEW w \in Worker, EnsureOpenShift(w)
    PROVE  IInv'
<1>1. /\ run[w].step = "find" /\ KindOf(w) \in Document /\ ~FindWaits(w)
      /\ Types /\ ~Writing(w) /\ run[w].shift = NoShift
      /\ UNCHANGED <<config, shift, books, begun>>
  BY DEF EnsureOpenShift, At, IInv, Writing, WorkerOK, HasRow, Without
<1>2. ASSUME NEW s \in ShiftId, Newest(w, s), Pick(w, s, "write")
      PROVE  IInv'
  <2>1. /\ run' \in [Worker -> RunType]
        /\ \A v \in Worker : v # w => run'[v] = run[v]
        /\ run'[w].step = "write" /\ run'[w].shift = s
        /\ run'[w].req = run[w].req /\ run'[w].wise = run[w].wise
    BY <1>1, <1>2, Picked
  <2> QED
    BY <1>1, <1>2, <2>1, TakeOK DEF Newest
<1>3. CASE Candidates(w) = {} /\ run[w].managed /\ End(w)
  BY <1>1, <1>3, EndOK
<1>4. CASE Candidates(w) = {} /\ ~run[w].managed /\ Goto(w, "insert")
  <2>1. /\ run' \in [Worker -> RunType]
        /\ \A v \in Worker : v # w => run'[v] = run[v]
        /\ run'[w].step = "insert" /\ run'[w].shift = NoShift
        /\ run'[w].req = run[w].req /\ run'[w].managed = run[w].managed
    BY <1>1, <1>4, Picked
  <2>2. Counted'
    BY <1>1, <1>4, <2>1, FirstCount
  <2> QED
    BY <1>1, <1>4, <2>1, <2>2, OnwardOK
<1> QED
  BY <1>2, <1>3, <1>4 DEF EnsureOpenShift

\* An opening that saw no open shift, nor one being inserted.
LEMMA LookBeforeOpeningOK ==
    ASSUME IInv, NEW w \in Worker, LookBeforeOpening(w)
    PROVE  IInv'
<1> DEFINE step == IF Candidates(w) = {} THEN "insert" ELSE "answer"
<1>1. /\ run[w].step = "find" /\ KindOf(w) \notin Document /\ ~FindWaits(w)
      /\ Types /\ ~Writing(w) /\ run[w].shift = NoShift
      /\ UNCHANGED <<config, shift, books, begun>> /\ Goto(w, step)
  BY DEF LookBeforeOpening, At, IInv, Writing, WorkerOK, HasRow, Without, Document
<1>2. /\ run' \in [Worker -> RunType]
      /\ \A v \in Worker : v # w => run'[v] = run[v]
      /\ run'[w].step = step /\ run'[w].shift = NoShift
      /\ run'[w].req = run[w].req
  BY <1>1, Picked
<1>3. Counted'
  <2>1. CASE Candidates(w) = {}
    BY <1>1, <1>2, <2>1, FirstCount
  <2>2. CASE Candidates(w) # {}
    BY <1>1, <1>2, <2>2, SameCount
  <2> QED
    BY <2>1, <2>2
<1> QED
  BY <1>1, <1>2, <1>3, OnwardOK

\* An opening that found one ends.
LEMMA AnswerOpenOK ==
    ASSUME IInv, NEW w \in Worker, AnswerOpen(w)
    PROVE  IInv'
BY EndOK DEF AnswerOpen, At, Writing

\* A close and a drawer entry.
LEMMA FindOpenShiftOK ==
    ASSUME IInv, NEW w \in Worker, FindOpenShift(w)
    PROVE  IInv'
<1>1. /\ run[w].step = "find" /\ Types /\ ~Writing(w)
      /\ UNCHANGED <<config, shift, books, begun>>
  BY DEF FindOpenShift, At, IInv, Writing
<1>2. CASE Candidates(w) = {} /\ End(w)
  BY <1>1, <1>2, EndOK
<1>3. ASSUME NEW s \in ShiftId, Newest(w, s),
             run' = [run EXCEPT
                       ![w].shift = s,
                       ![w].step = IF KindOf(w) = "close" THEN "sum" ELSE "write",
                       ![w].expected = shift[s].opening,
                       ![w].todo = Part]
      PROVE  IInv'
  <2> DEFINE step == IF KindOf(w) = "close" THEN "sum" ELSE "write"
             cents == shift[s].opening
             new == [run[w] EXCEPT !.shift = s, !.step = step,
                                   !.expected = cents, !.todo = Part]
  <2>1. run' = [run EXCEPT ![w] = new]
    BY <1>3
  <2>2. run[w] \in RunType /\ cents \in Int /\ step \in {"sum", "write"}
    BY <1>1 DEF Types, RowType
  <2> HIDE DEF step, cents
  <2>3. new \in RunType /\ new.shift = s /\ new.step = step
        /\ new.req = run[w].req /\ new.wise = run[w].wise
    BY <2>2 DEF RunType
  <2> HIDE DEF new
  <2>4. run' \in [Worker -> RunType] /\ run'[w] = new
        /\ \A v \in Worker : v # w => run'[v] = run[v]
    BY <1>1, <2>1, <2>3 DEF Types
  <2> QED
    BY <1>1, <1>3, <2>2, <2>3, <2>4, TakeOK DEF Newest
<1> QED
  BY <1>2, <1>3 DEF FindOpenShift

\* A header is written: the request goes on with the shift it has.
LEMMA WriteHeaderOK ==
    ASSUME IInv, NEW w \in Worker, WriteHeader(w)
    PROVE  IInv'
<1> DEFINE s == run[w].shift
<1>1. /\ Types /\ Writing(w) /\ run[w].step = "write" /\ KindOf(w) \in Document
      /\ Goto(w, "commit") /\ s \in ShiftId
      /\ UNCHANGED <<config, shift, books, begun>>
  BY DEF WriteHeader, At, IInv, Writing, WorkerOK, HasRow, Without
<1>2. /\ run' \in [Worker -> RunType]
      /\ \A v \in Worker : v # w => run'[v] = run[v]
      /\ run'[w].step = "commit" /\ run'[w].shift = s
      /\ run'[w].req = run[w].req /\ run'[w].wise = run[w].wise
      /\ run'[w].managed = run[w].managed
  BY <1>1, Picked
<1>3. WorkerOK(w)' /\ Writing(w)'
  BY <1>1, <1>2 DEF IInv, WorkerOK, HasRow, OwnRow, Writing, Without, KindOf
<1>4. Counted'
  BY <1>1, <1>2, SameCount
<1>5. managed' \in BOOLEAN /\ wise' \in BOOLEAN /\ begun' \in 0 .. MaxRequests
      /\ UNCHANGED <<shift, books>>
  BY <1>1 DEF Types, config
<1> QED
  BY <1>2, <1>3, <1>4, <1>5, RunStep

\* A close reads on.
LEMMA SumPartOK ==
    ASSUME IInv, NEW w \in Worker, NEW part \in Part, SumPart(w, part)
    PROVE  IInv'
<1> DEFINE cents == run[w].expected + cash[run[w].shift][part]
           todo == run[w].todo \ {part}
           new == [run[w] EXCEPT !.todo = todo, !.expected = cents]
<1>1. /\ Types /\ run[w].step = "sum" /\ ~Writing(w) /\ run[w] \in RunType
      /\ run[w].shift \in ShiftId
      /\ UNCHANGED <<config, shift, books, begun>>
  BY DEF SumPart, At, IInv, Types, Writing, WorkerOK, HasRow, Without
<1>2. run' = [run EXCEPT ![w] = new]
  BY DEF SumPart
<1>3. cents \in Int /\ todo \in SUBSET Part
  BY <1>1 DEF Types, RunType
<1> HIDE DEF cents, todo
<1>4. /\ new \in RunType /\ new.shift = run[w].shift /\ new.step = "sum"
      /\ new.req = run[w].req
  BY <1>1, <1>3 DEF RunType
<1> HIDE DEF new
<1>5. run' \in [Worker -> RunType] /\ run'[w] = new
      /\ \A v \in Worker : v # w => run'[v] = run[v]
  BY <1>1, <1>2, <1>4 DEF Types
<1>6. WorkerOK(w)'
  BY <1>1, <1>4, <1>5 DEF IInv, WorkerOK, HasRow, OwnRow, Writing, Without
<1>7. Counted'
  BY <1>1, <1>4, <1>5, SameCount
<1>8. managed' \in BOOLEAN /\ wise' \in BOOLEAN /\ begun' \in 0 .. MaxRequests
      /\ UNCHANGED <<shift, books>>
  BY <1>1 DEF Types, config
<1> QED
  BY <1>1, <1>5, <1>6, <1>7, <1>8, RunStep

-----------------------------------------------------------------------------
(* Steps that change the rows of Shifts.                                   *)

\* Other requests keep what they know: of the rows they have, only one made
\* by this request could disappear, and they have none of those.
LEMMA OthersKeep ==
    ASSUME IInv, NEW w \in Worker, NEW v \in Worker, v # w, run'[v] = run[v],
           \A s \in ShiftId : shift[s].status \in {"open", "closed"} /\ shift[s].maker # w =>
               /\ shift'[s].status \in {"open", "closed"}
               /\ shift'[s].maker = shift[s].maker /\ shift'[s].user = shift[s].user
    PROVE  WorkerOK(v)'
<1>1. WorkerOK(v) /\ Nobody # w
  BY PosShiftAssumption DEF IInv, WorkerOK
<1> DEFINE s == run[v].shift
<1>2. CASE run[v].step \in Without
  BY <1>1, <1>2 DEF WorkerOK, HasRow, OwnRow, Writing, Without, KindOf
<1>3. CASE run[v].step \notin Without
  <2>1. s \in ShiftId /\ shift[s].status \in {"open", "closed"} /\ shift[s].maker # w
    BY <1>1, <1>3, PosShiftAssumption DEF IInv, WorkerOK, HasRow
  <2> QED
    BY <1>1, <1>3, <2>1 DEF WorkerOK, HasRow, OwnRow, Writing, Without, KindOf
<1> QED
  BY <1>2, <1>3

\* The request that inserts a row is the one that makes it, or nobody.
LEMMA InsertShiftOK ==
    ASSUME IInv, NEW w \in Worker, InsertShift(w)
    PROVE  IInv'
<1> USE PosShiftAssumption
<1>1. PICK s \in ShiftId : /\ NextShiftId(s)
                           /\ shift' = [shift EXCEPT ![s] = NewShift(w)]
                           /\ IF KindOf(w) = "open" THEN End(w) ELSE Pick(w, s, "write")
  BY DEF InsertShift
<1> DEFINE opens == KindOf(w) = "open"
<1>2. /\ Types /\ run[w].step = "insert" /\ KindOf(w) \in Document \cup {"open"}
      /\ ~Writing(w) /\ run[w].req \in Request
      /\ KindOf(w) \in Document => ~run[w].managed
      /\ UNCHANGED <<config, books, begun>>
  BY DEF InsertShift, At, IInv, Writing, WorkerOK, OwnRow
<1>3. /\ NewShift(w) \in RowType
      /\ NewShift(w).status = "open" /\ NewShift(w).user = UserOf[w]
      /\ NewShift(w).maker = IF opens THEN Nobody ELSE w
  <2>1. (IF opens THEN Nobody ELSE w) \in Worker \cup {Nobody}
        /\ (IF opens THEN OpeningCash ELSE 0) \in Nat /\ UserOf[w] \in User
    OBVIOUS
  <2> QED
    BY <2>1 DEF NewShift, RowType
<1>4. /\ shift' \in [ShiftId -> RowType] /\ shift'[s] = NewShift(w)
      /\ \A r \in ShiftId : r # s => shift'[r] = shift[r]
  BY <1>1, <1>2, <1>3 DEF Types
<1>5. shift[s].status = "none" /\ shift[s].maker = Nobody
  BY <1>1 DEF NextShiftId, NoRow
<1>6. /\ run' \in [Worker -> RunType]
      /\ \A v \in Worker : v # w => run'[v] = run[v]
      /\ opens => run'[w].step = "idle" /\ run'[w].shift = NoShift
      /\ ~opens => /\ run'[w].step = "write" /\ run'[w].shift = s
                   /\ run'[w].req = run[w].req /\ run'[w].wise = run[w].wise
                   /\ run'[w].managed = run[w].managed
  <2>1. CASE opens
    <3>1. Idle \in RunType /\ Idle.step = "idle" /\ Idle.shift = NoShift
      BY DEF Idle, RunType, NoShift
    <3> QED
      BY <1>1, <1>2, <2>1, <3>1 DEF End, Types
  <2>2. CASE ~opens
    BY <1>1, <1>2, <2>2, Picked
  <2> QED
    BY <2>1, <2>2
<1>7. Types'
  BY <1>2, <1>4, <1>6 DEF Types, config, books
<1>8. ASSUME NEW v \in Worker PROVE WorkerOK(v)'
  <2>1. CASE v # w
    BY <1>4, <1>5, <1>6, <2>1, OthersKeep
  <2>2. CASE v = w /\ opens
    BY <1>6, <2>2 DEF WorkerOK, HasRow, OwnRow, Writing, Without
  <2>3. CASE v = w /\ ~opens
    BY <1>2, <1>3, <1>4, <1>6, <2>3 DEF WorkerOK, HasRow, OwnRow, Writing, Without, KindOf
  <2> QED
    BY <2>1, <2>2, <2>3
<1>9. ASSUME NEW r \in ShiftId PROVE RowOK(r)'
  <2>1. RowOK(r) /\ cash' = cash
    BY <1>2 DEF IInv, books
  <2>2. CASE r = s
    <3>1. cash[s] = [p \in Part |-> 0]
      BY <1>5, <2>1, <2>2 DEF RowOK
    <3>2. ~opens => Writing(w)' /\ Using(w, s)'
      BY <1>2, <1>6 DEF Writing, Using, KindOf
    <3>3. shift'[s].status = "open" /\ shift'[s].maker = IF opens THEN Nobody ELSE w
      BY <1>3, <1>4
    <3> QED
      BY <2>1, <2>2, <3>1, <3>2, <3>3 DEF RowOK
  <2>3. CASE r # s
    <3>1. shift'[r] = shift[r] /\ shift[r].maker # w
      BY <1>2, <1>4, <2>3, MakesNothing
    <3>2. shift[r].maker # Nobody => shift[r].maker \in Worker
      BY <1>2 DEF Types, RowType
    <3>3. shift[r].maker # Nobody =>
            Writing(shift[r].maker)' /\ Using(shift[r].maker, r)'
      BY <1>6, <2>1, <3>1, <3>2 DEF RowOK, Writing, Using, KindOf
    <3> QED
      BY <2>1, <3>1, <3>3 DEF RowOK
  <2> QED
    BY <2>2, <2>3
<1>10. Counted'
  <2> SUFFICES ASSUME NEW u \in User
               PROVE  Cardinality(OpenOf(u)') + Cardinality(Inserting(u)')
                          <= Cardinality(Terminals(u))
    BY DEF Counted, Terminals
  <2>1. OpenOf(u) \subseteq ShiftId /\ Inserting(u) \subseteq Terminals(u)
    BY DEF OpenOf, Inserting
  <2>2. /\ IsFiniteSet(OpenOf(u)) /\ Cardinality(OpenOf(u)) \in Nat
        /\ IsFiniteSet(Inserting(u)) /\ Cardinality(Inserting(u)) \in Nat
        /\ Cardinality(Terminals(u)) \in Nat
    BY <2>1, Finite
  <2>3. Cardinality(OpenOf(u)) + Cardinality(Inserting(u)) <= Cardinality(Terminals(u))
    BY DEF IInv, Counted
  <2>4. CASE u = UserOf[w]
    <3>1. OpenOf(u)' = OpenOf(u) \cup {s} /\ s \notin OpenOf(u)
      BY <1>3, <1>4, <1>5, <2>4 DEF OpenOf
    <3>2. Inserting(u)' = Inserting(u) \ {w} /\ w \in Inserting(u)
      BY <1>2, <1>6, <2>4 DEF Inserting, Terminals
    <3>3. /\ Cardinality(OpenOf(u)') = Cardinality(OpenOf(u)) + 1
          /\ Cardinality(Inserting(u)') = Cardinality(Inserting(u)) - 1
      BY <2>2, <3>1, <3>2, FS_AddElement, FS_RemoveElement
    <3> QED
      BY <2>2, <2>3, <3>3
  <2>5. CASE u # UserOf[w]
    <3>1. OpenOf(u)' = OpenOf(u)
      BY <1>3, <1>4, <1>5, <2>5 DEF OpenOf
    <3>2. Inserting(u)' = Inserting(u)
      BY <1>6, <2>5 DEF Inserting, Terminals
    <3> QED
      BY <2>3, <3>1, <3>2
  <2> QED
    BY <2>4, <2>5
<1> QED
  BY <1>7, <1>8, <1>9, <1>10 DEF IInv

\* The document enters the shift it has, which is committed with it if it is
\* its own.
LEMMA CommitDocumentOK ==
    ASSUME IInv, NEW w \in Worker, CommitDocument(w)
    PROVE  IInv'
<1> USE PosShiftAssumption
<1> DEFINE mine == run[w].shift
<1>1. /\ Types /\ run[w].step = "commit" /\ KindOf(w) \in Document
      /\ run[w].req \in Request /\ mine \in ShiftId /\ Writing(w)
      /\ shift[mine].status \in {"open", "closed"}
      /\ UNCHANGED <<config, begun>> /\ End(w) /\ Book(w, KindOf(w))
  BY DEF CommitDocument, At, IInv, Writing, WorkerOK, HasRow, Without
<1>2. /\ shift' \in [ShiftId -> RowType]
      /\ \A s \in ShiftId :
            /\ shift'[s].status = shift[s].status /\ shift'[s].user = shift[s].user
            /\ shift'[s].maker = IF shift[s].maker = w THEN Nobody ELSE shift[s].maker
  <2>1. shift' = [s \in ShiftId |-> [shift[s] EXCEPT !.maker =
                                       IF @ = w THEN Nobody ELSE @]]
    BY DEF CommitDocument
  <2>2. ASSUME NEW s \in ShiftId
        PROVE  /\ shift'[s] \in RowType
               /\ shift'[s].status = shift[s].status /\ shift'[s].user = shift[s].user
               /\ shift'[s].maker = IF shift[s].maker = w THEN Nobody ELSE shift[s].maker
    <3> DEFINE m == IF shift[s].maker = w THEN Nobody ELSE shift[s].maker
    <3>1. shift[s] \in RowType /\ m \in Worker \cup {Nobody}
      BY <1>1 DEF Types, RowType
    <3>2. shift'[s] = [shift[s] EXCEPT !.maker = m]
      BY <2>1
    <3> HIDE DEF m
    <3>3. shift'[s] \in RowType /\ shift'[s].status = shift[s].status
          /\ shift'[s].user = shift[s].user /\ shift'[s].maker = m
      BY <3>1, <3>2 DEF RowType
    <3> QED
      BY <3>3 DEF m
  <2> QED
    BY <2>1, <2>2
<1>3. /\ run' \in [Worker -> RunType]
      /\ \A v \in Worker : v # w => run'[v] = run[v]
      /\ run'[w].step = "idle" /\ run'[w].shift = NoShift
  <2>1. Idle \in RunType /\ Idle.step = "idle" /\ Idle.shift = NoShift
    BY DEF Idle, RunType, NoShift
  <2> QED
    BY <1>1, <2>1 DEF End, Types
<1>4. /\ cash' \in [ShiftId -> [Part -> Int]] /\ change' \in [ShiftId -> Nat]
      /\ \A s \in ShiftId : s # mine => cash'[s] = cash[s]
  <2>1. /\ run[w].req.amount \in Int /\ run[w].req.change \in Nat
        /\ KindOf(w) \in Part
    BY <1>1 DEF Document, Part
  <2> QED
    BY <1>1, <2>1 DEF Book, Types
<1>5. Types'
  BY <1>1, <1>2, <1>3, <1>4 DEF Types, config
<1>6. ASSUME NEW v \in Worker PROVE WorkerOK(v)'
  <2>1. CASE v # w
    BY <1>2, <1>3, <2>1, OthersKeep
  <2>2. CASE v = w
    BY <1>3, <2>2 DEF WorkerOK, HasRow, OwnRow, Writing, Without
  <2> QED
    BY <2>1, <2>2
<1>7. ASSUME NEW r \in ShiftId PROVE RowOK(r)'
  <2>1. RowOK(r)
    BY DEF IInv
  <2>2. shift[r].maker # Nobody => shift[r].maker \in Worker
    BY <1>1 DEF Types, RowType
  <2>3. CASE r = mine
    <3>1. shift[r].maker \in {Nobody, w}
      BY <2>3 DEF IInv, WorkerOK, HasRow, Writing, Without, CommitDocument, At
    <3>2. shift'[r].maker = Nobody /\ shift'[r].status \in {"open", "closed"}
      BY <1>1, <1>2, <2>3, <3>1
    <3> QED
      BY <3>2 DEF RowOK
  <2>4. CASE r # mine
    <3>1. shift[r].maker # w
      BY <2>1, <2>4 DEF RowOK, Using
    <3>2. shift'[r].maker = shift[r].maker /\ shift'[r].status = shift[r].status
          /\ cash'[r] = cash[r]
      BY <1>2, <1>4, <2>4, <3>1
    <3>3. shift[r].maker # Nobody =>
            Writing(shift[r].maker)' /\ Using(shift[r].maker, r)'
      BY <1>3, <2>1, <2>2, <3>1, <3>2 DEF RowOK, Writing, Using, KindOf
    <3> QED
      BY <2>1, <3>2, <3>3 DEF RowOK
  <2> QED
    BY <2>3, <2>4
<1>8. Counted'
  <2>1. \A u \in User : OpenOf(u)' \subseteq OpenOf(u)
    BY <1>2 DEF OpenOf
  <2>2. \A u \in User : Inserting(u)' \subseteq Inserting(u)
    BY <1>3 DEF Inserting, Terminals
  <2> QED
    BY <2>1, <2>2, Fewer DEF IInv
<1> QED
  BY <1>5, <1>6, <1>7, <1>8 DEF IInv

\* A drawer entry goes into a committed shift.
LEMMA DrawerEntryOK ==
    ASSUME IInv, NEW w \in Worker, DrawerEntry(w)
    PROVE  IInv'
<1> USE PosShiftAssumption
<1> DEFINE mine == run[w].shift
<1>1. /\ Types /\ run[w].step = "write" /\ KindOf(w) = "drawer"
      /\ run[w].req \in Request /\ mine \in ShiftId /\ ~Writing(w)
      /\ shift[mine].status \in {"open", "closed"}
      /\ UNCHANGED <<config, shift, begun>> /\ End(w) /\ Book(w, "drawer")
  BY DEF DrawerEntry, At, IInv, Writing, WorkerOK, HasRow, Without, Document
<1>2. shift[mine].maker = Nobody
  BY <1>1, MakesNothing DEF IInv, WorkerOK, HasRow, Without
<1>3. /\ run' \in [Worker -> RunType]
      /\ \A v \in Worker : v # w => run'[v] = run[v]
      /\ run'[w].step = "idle" /\ run'[w].shift = NoShift
  <2>1. Idle \in RunType /\ Idle.step = "idle" /\ Idle.shift = NoShift
    BY DEF Idle, RunType, NoShift
  <2> QED
    BY <1>1, <2>1 DEF End, Types
<1>4. /\ cash' \in [ShiftId -> [Part -> Int]] /\ change' \in [ShiftId -> Nat]
      /\ \A s \in ShiftId : s # mine => cash'[s] = cash[s]
  <2>1. run[w].req.amount \in Int /\ run[w].req.change \in Nat
    BY <1>1
  <2> QED
    BY <1>1, <2>1 DEF Book, Types, Part
<1>5. Types'
  BY <1>1, <1>3, <1>4 DEF Types, config
<1>6. ASSUME NEW v \in Worker PROVE WorkerOK(v)'
  <2>1. CASE v # w
    BY <1>1, <1>3, <2>1, OthersKeep
  <2>2. CASE v = w
    BY <1>3, <2>2 DEF WorkerOK, HasRow, OwnRow, Writing, Without
  <2> QED
    BY <2>1, <2>2
<1>7. ASSUME NEW r \in ShiftId PROVE RowOK(r)'
  <2>1. RowOK(r) /\ shift' = shift
    BY <1>1 DEF IInv
  <2>2. shift[r].maker # Nobody => shift[r].maker \in Worker
    BY <1>1 DEF Types, RowType
  <2>3. shift[r].maker # w
    BY <1>1, MakesNothing
  <2>4. shift[r].maker # Nobody =>
          Writing(shift[r].maker)' /\ Using(shift[r].maker, r)'
    BY <1>3, <2>1, <2>2, <2>3 DEF RowOK, Writing, Using, KindOf
  <2> QED
    BY <1>1, <1>2, <1>4, <2>1, <2>4 DEF RowOK
<1>8. Counted'
  BY <1>1, <1>3, SameCount
<1> QED
  BY <1>5, <1>6, <1>7, <1>8 DEF IInv

\* A closed row was committed: the close found it.
LEMMA CloseShiftOK ==
    ASSUME IInv, NEW w \in Worker, CloseShift(w)
    PROVE  IInv'
<1> USE PosShiftAssumption
<1> DEFINE mine == run[w].shift
<1>1. /\ Types /\ run[w].step = "sum" /\ mine \in ShiftId /\ ~Writing(w)
      /\ UNCHANGED <<config, books, begun>> /\ End(w)
  BY DEF CloseShift, At, IInv, Writing, WorkerOK, HasRow, Without
<1>2. shift[mine].maker = Nobody
  BY <1>1, MakesNothing DEF IInv, WorkerOK, HasRow, Without
<1>3. /\ run' \in [Worker -> RunType]
      /\ \A v \in Worker : v # w => run'[v] = run[v]
      /\ run'[w].step = "idle" /\ run'[w].shift = NoShift
  <2>1. Idle \in RunType /\ Idle.step = "idle" /\ Idle.shift = NoShift
    BY DEF Idle, RunType, NoShift
  <2> QED
    BY <1>1, <2>1 DEF End, Types
<1>4. /\ shift' \in [ShiftId -> RowType]
      /\ shift'[mine].status = "closed" /\ shift'[mine].maker = Nobody
      /\ shift'[mine].user = shift[mine].user
      /\ \A s \in ShiftId : s # mine => shift'[s] = shift[s]
  <2> DEFINE cents == run[w].expected
             new == [shift[mine] EXCEPT !.status = "closed", !.expected = cents]
  <2>1. shift' = [shift EXCEPT ![mine] = new]
    BY DEF CloseShift
  <2>2. shift[mine] \in RowType /\ cents \in Int
    BY <1>1 DEF Types, RunType
  <2> HIDE DEF cents
  <2>3. new \in RowType /\ new.status = "closed" /\ new.maker = Nobody
        /\ new.user = shift[mine].user
    BY <1>2, <2>2 DEF RowType
  <2> HIDE DEF new
  <2> QED
    BY <1>1, <2>1, <2>3 DEF Types
<1>5. Types'
  BY <1>1, <1>3, <1>4 DEF Types, config, books
<1>6. ASSUME NEW v \in Worker PROVE WorkerOK(v)'
  <2>1. CASE v # w
    BY <1>2, <1>3, <1>4, <2>1, OthersKeep
  <2>2. CASE v = w
    BY <1>3, <2>2 DEF WorkerOK, HasRow, OwnRow, Writing, Without
  <2> QED
    BY <2>1, <2>2
<1>7. ASSUME NEW r \in ShiftId PROVE RowOK(r)'
  <2>1. RowOK(r) /\ cash' = cash
    BY <1>1 DEF IInv, books
  <2>2. CASE r = mine
    BY <1>4, <2>2 DEF RowOK
  <2>3. CASE r # mine
    <3>1. shift'[r] = shift[r] /\ shift[r].maker # w
      BY <1>1, <1>4, <2>3, MakesNothing
    <3>2. shift[r].maker # Nobody => shift[r].maker \in Worker
      BY <1>1 DEF Types, RowType
    <3>3. shift[r].maker # Nobody =>
            Writing(shift[r].maker)' /\ Using(shift[r].maker, r)'
      BY <1>3, <2>1, <3>1, <3>2 DEF RowOK, Writing, Using, KindOf
    <3> QED
      BY <2>1, <3>1, <3>3 DEF RowOK
  <2> QED
    BY <2>2, <2>3
<1>8. Counted'
  <2>1. \A u \in User : OpenOf(u)' \subseteq OpenOf(u)
    BY <1>4 DEF OpenOf
  <2>2. \A u \in User : Inserting(u)' \subseteq Inserting(u)
    BY <1>3 DEF Inserting, Terminals
  <2> QED
    BY <2>1, <2>2, Fewer DEF IInv
<1> QED
  BY <1>5, <1>6, <1>7, <1>8 DEF IInv

\* A rollback takes back rows nobody else has, and no cash was in them.
LEMMA FailOK ==
    ASSUME IInv, NEW w \in Worker, Fail(w)
    PROVE  IInv'
<1> USE PosShiftAssumption
<1> DEFINE gone == [NoRow EXCEPT !.status = "undone"]
<1>1. /\ Types /\ UNCHANGED <<config, books, begun>> /\ End(w)
      /\ shift' = [s \in ShiftId |-> IF shift[s].maker = w THEN gone ELSE shift[s]]
  BY DEF Fail, IInv
<1>2. NoRow \in RowType /\ NoRow.maker = Nobody
  BY DEF NoRow, RowType
<1>3. gone \in RowType /\ gone.status = "undone" /\ gone.maker = Nobody
  BY <1>2 DEF RowType
<1> HIDE DEF gone
<1>4. /\ run' \in [Worker -> RunType]
      /\ \A v \in Worker : v # w => run'[v] = run[v]
      /\ run'[w].step = "idle" /\ run'[w].shift = NoShift
  <2>1. Idle \in RunType /\ Idle.step = "idle" /\ Idle.shift = NoShift
    BY DEF Idle, RunType, NoShift
  <2> QED
    BY <1>1, <2>1 DEF End, Types
<1>5. Types'
  BY <1>1, <1>3, <1>4 DEF Types, config, books
<1>6. ASSUME NEW v \in Worker PROVE WorkerOK(v)'
  <2>1. CASE v # w
    BY <1>1, <1>4, <2>1, OthersKeep
  <2>2. CASE v = w
    BY <1>4, <2>2 DEF WorkerOK, HasRow, OwnRow, Writing, Without
  <2> QED
    BY <2>1, <2>2
<1>7. ASSUME NEW r \in ShiftId PROVE RowOK(r)'
  <2>1. RowOK(r) /\ cash' = cash
    BY <1>1 DEF IInv, books
  <2>2. CASE shift[r].maker = w
    <3>1. shift'[r] = gone /\ cash[r] = [p \in Part |-> 0]
      BY <1>1, <2>1, <2>2 DEF RowOK
    <3> QED
      BY <1>3, <2>1, <3>1 DEF RowOK
  <2>3. CASE shift[r].maker # w
    <3>1. shift'[r] = shift[r]
      BY <1>1, <2>3
    <3>2. shift[r].maker # Nobody => shift[r].maker \in Worker
      BY <1>1 DEF Types, RowType
    <3>3. shift[r].maker # Nobody =>
            Writing(shift[r].maker)' /\ Using(shift[r].maker, r)'
      BY <1>4, <2>1, <2>3, <3>1, <3>2 DEF RowOK, Writing, Using, KindOf
    <3> QED
      BY <2>1, <3>1, <3>3 DEF RowOK
  <2> QED
    BY <2>2, <2>3
<1>8. Counted'
  <2>1. \A u \in User : OpenOf(u)' \subseteq OpenOf(u)
    BY <1>1, <1>3 DEF OpenOf
  <2>2. \A u \in User : Inserting(u)' \subseteq Inserting(u)
    BY <1>4 DEF Inserting, Terminals
  <2> QED
    BY <2>1, <2>2, Fewer DEF IInv
<1> QED
  BY <1>5, <1>6, <1>7, <1>8 DEF IInv

\* Every step of every request preserves the invariant.
LEMMA StepIInv == IInv /\ [Next]_vars => IInv'
<1> SUFFICES ASSUME IInv, [Next]_vars PROVE IInv'
  OBVIOUS
<1>1. ASSUME NEW new \in Settings, PutSettings(new) PROVE IInv'
  BY <1>1, PutSettingsOK
<1>2. ASSUME NEW w \in Worker, NEW r \in Request, NEW s \in Known \cup {NoShift},
             Begin(w, r, s)
      PROVE  IInv'
  BY <1>2, BeginOK
<1>3. ASSUME NEW w \in Worker, Run(w) PROVE IInv'
  BY <1>3, PickPreferredOK, EnsureOpenShiftOK, LookBeforeOpeningOK, AnswerOpenOK,
     InsertShiftOK, FindOpenShiftOK, WriteHeaderOK, CommitDocumentOK, DrawerEntryOK,
     SumPartOK, CloseShiftOK DEF Run
<1>4. ASSUME NEW w \in Worker, Fail(w) PROVE IInv'
  BY <1>4, FailOK
<1>5. CASE UNCHANGED vars
  BY <1>5 DEF vars, config, books, IInv, Types, WorkerOK, HasRow, OwnRow, RowOK, Writing,
              Using, KindOf, Counted, OpenOf, Inserting, Terminals
<1> QED
  BY <1>1, <1>2, <1>3, <1>4, <1>5 DEF Next

\* The invariant holds throughout.
LEMMA Inductive == Spec => []IInv
BY InitIInv, StepIInv, PTL DEF Spec

-----------------------------------------------------------------------------
(* What follows.                                                           *)

\* The variables keep their types, and an uncommitted shift always belongs to
\* a document that is being written into it.
THEOREM TypeCorrect == Spec => []TypeOK
<1>1. IInv => TypeOK
  <2> SUFFICES ASSUME IInv PROVE TypeOK
    OBVIOUS
  <2>1. Types /\ \A s \in ShiftId : RowOK(s)
    BY DEF IInv
  <2> QED
    BY <2>1 DEF Types, RowType, RunType, RowOK, Writing, TypeOK
<1> QED
  BY <1>1, Inductive, PTL

\* Openings that race, whoever sends them and however the settings change,
\* leave a user at most one open shift for each of the user's terminals.
THEOREM OpeningsBounded == Spec => []OpenShiftsBounded
<1>1. IInv => OpenShiftsBounded
  <2> SUFFICES ASSUME IInv, NEW u \in User
               PROVE  Cardinality({s \in ShiftId : shift[s].status = "open"
                                                   /\ shift[s].user = u})
                        <= Cardinality(Terminals(u))
    BY DEF OpenShiftsBounded
  <2>1. OpenOf(u) \subseteq ShiftId /\ Inserting(u) \subseteq Terminals(u)
    BY DEF OpenOf, Inserting
  <2>2. /\ Cardinality(OpenOf(u)) \in Nat /\ Cardinality(Inserting(u)) \in Nat
        /\ Cardinality(Terminals(u)) \in Nat
    BY <2>1, Finite
  <2>3. Cardinality(OpenOf(u)) <= Cardinality(Terminals(u))
    BY <2>2 DEF IInv, Counted
  <2> QED
    BY <2>3 DEF OpenOf
<1> QED
  BY <1>1, Inductive, PTL

\* No rollback takes away the shift of a document of another request: nobody
\* uses a shift that another transaction may still undo.
THEOREM RollbackLeavesNoOrphan == Spec => []DocumentsHaveShift
<1>1. IInv => DocumentsHaveShift
  <2> SUFFICES ASSUME IInv, NEW s \in ShiftId
               PROVE  /\ shift[s].status = "undone" =>
                           ~Busy(s) /\ cash[s] = [p \in Part |-> 0]
                      /\ \A w \in Worker : shift[s].maker \notin {Nobody, w} => ~Using(w, s)
    BY DEF DocumentsHaveShift
  <2>1. RowOK(s) /\ s # NoShift /\ \A w \in Worker : HasRow(w)
    BY DEF IInv, WorkerOK, ShiftId, NoShift
  <2> QED
    BY <2>1 DEF RowOK, HasRow, Busy, Using
<1> QED
  BY <1>1, Inductive, PTL

\* A document is committed into a shift of its own user, and, where shifts are
\* managed, into one that it did not make itself.
THEOREM OwnShift == Spec => DocumentsInOwnShift
<1>1. IInv /\ [Next]_vars =>
        [\A w \in Worker : CommitDocument(w) =>
           LET s == run[w].shift
           IN  /\ run[w].wise => shift[s].user = UserOf[w]
               /\ run[w].managed => shift[s].maker = Nobody]_vars
  BY DEF IInv, WorkerOK, OwnRow, Writing, CommitDocument, At
<1> QED
  BY <1>1, Inductive, PTL DEF Spec, DocumentsInOwnShift

\* Nobody but the request itself starts or stops to be busy.
LEMMA BusyBy ==
    ASSUME NEW w \in Worker, NEW s \in ShiftId, ~Busy(s),
           \A v \in Worker : v # w => run'[v] = run[v],
           run'[w].shift # s \/ run'[w].step = "preferred"
    PROVE  ~Busy(s)'
BY DEF Busy, Using

\* A request that ends is not busy.
LEMMA BusyEnd ==
    ASSUME IInv, NEW w \in Worker, NEW s \in ShiftId, ~Busy(s), End(w)
    PROVE  ~Busy(s)'
<1>1. run'[w] = Idle /\ \A v \in Worker : v # w => run'[v] = run[v]
  BY DEF End, IInv, Types
<1>2. Idle.shift # s
  BY DEF Idle, NoShift, ShiftId
<1> QED
  BY <1>1, <1>2, BusyBy

\* A closed shift nobody is busy with is not found.
LEMMA NotFound ==
    ASSUME IInv, NEW w \in Worker, NEW s \in ShiftId, shift[s].status = "closed", ~Busy(s),
           Run(w)
    PROVE  shift'[s] = shift[s] /\ cash'[s] = cash[s] /\ ~Busy(s)'
<1> DEFINE mine == run[w].shift
<1> USE PosShiftAssumption
<1>1. /\ Types /\ HasRow(w) /\ RowOK(s) /\ s # NoShift
      /\ shift[s].maker # Nobody => shift[s].maker \in Worker
  BY DEF IInv, WorkerOK, Types, RowType, ShiftId, NoShift
<1>2. run[w].step # "preferred" => mine # s
  BY DEF Busy, Using
<1>3. shift[s].maker = Nobody
  BY <1>1 DEF RowOK, Writing, Busy, Using
<1>4. s \notin Candidates(w)
  BY DEF Candidates, Visible
<1>5. CASE PickPreferred(w)
  <2>1. shift'[s] = shift[s] /\ cash'[s] = cash[s]
    BY <1>5 DEF PickPreferred, books
  <2>2. CASE mine \in Candidates(w)
    <3>1. mine # s /\ mine \in ShiftId /\ Pick(w, mine, "write")
      BY <1>4, <1>5, <2>2 DEF PickPreferred, Candidates
    <3>2. run'[w].shift # s /\ \A v \in Worker : v # w => run'[v] = run[v]
      BY <1>1, <3>1, Picked
    <3> QED
      BY <2>1, <3>2, BusyBy
  <2>3. CASE mine \notin Candidates(w)
    <3>1. run'[w].shift # s /\ \A v \in Worker : v # w => run'[v] = run[v]
      BY <1>1, <1>5, <2>3, Picked DEF PickPreferred
    <3> QED
      BY <2>1, <3>1, BusyBy
  <2> QED
    BY <2>2, <2>3
<1>6. CASE EnsureOpenShift(w)
  <2>1. shift'[s] = shift[s] /\ cash'[s] = cash[s] /\ mine = NoShift
    BY <1>1, <1>6 DEF EnsureOpenShift, books, At, HasRow, Without
  <2>2. ASSUME NEW c \in ShiftId, Newest(w, c), Pick(w, c, "write") PROVE ~Busy(s)'
    <3>1. run'[w].shift # s /\ \A v \in Worker : v # w => run'[v] = run[v]
      BY <1>1, <1>4, <2>2, Picked DEF Newest
    <3> QED
      BY <3>1, BusyBy
  <2>3. CASE End(w)
    BY <2>1, <2>3, BusyEnd
  <2>4. CASE Goto(w, "insert")
    <3>1. run'[w].shift # s /\ \A v \in Worker : v # w => run'[v] = run[v]
      BY <1>1, <2>1, <2>4, Picked
    <3> QED
      BY <2>1, <3>1, BusyBy
  <2> QED
    BY <1>6, <2>1, <2>2, <2>3, <2>4 DEF EnsureOpenShift
<1>7. CASE LookBeforeOpening(w)
  <2> DEFINE step == IF Candidates(w) = {} THEN "insert" ELSE "answer"
  <2>1. shift'[s] = shift[s] /\ cash'[s] = cash[s] /\ mine = NoShift /\ Goto(w, step)
    BY <1>1, <1>7 DEF LookBeforeOpening, books, At, HasRow, Without
  <2>2. run'[w].shift # s /\ \A v \in Worker : v # w => run'[v] = run[v]
    BY <1>1, <2>1, Picked
  <2> QED
    BY <2>1, <2>2, BusyBy
<1>8. CASE AnswerOpen(w)
  BY <1>8, BusyEnd DEF AnswerOpen, books
<1>9. CASE InsertShift(w)
  <2>1. PICK r \in ShiftId : /\ NextShiftId(r)
                             /\ shift' = [shift EXCEPT ![r] = NewShift(w)]
                             /\ IF KindOf(w) = "open" THEN End(w) ELSE Pick(w, r, "write")
    BY <1>9 DEF InsertShift
  <2>2. r # s
    BY <2>1 DEF NextShiftId, NoRow
  <2>3. shift'[s] = shift[s] /\ cash'[s] = cash[s]
    BY <1>1, <1>9, <2>1, <2>2 DEF InsertShift, books, Types
  <2>4. CASE End(w)
    BY <2>3, <2>4, BusyEnd
  <2>5. CASE Pick(w, r, "write")
    <3>1. run'[w].shift # s /\ \A v \in Worker : v # w => run'[v] = run[v]
      BY <1>1, <2>2, <2>5, Picked
    <3> QED
      BY <2>3, <3>1, BusyBy
  <2> QED
    BY <2>1, <2>4, <2>5
<1>10. CASE FindOpenShift(w)
  <2>1. shift'[s] = shift[s] /\ cash'[s] = cash[s]
    BY <1>10 DEF FindOpenShift, books
  <2>2. CASE End(w)
    BY <2>1, <2>2, BusyEnd
  <2>3. ASSUME NEW c \in ShiftId, Newest(w, c),
               run' = [run EXCEPT
                         ![w].shift = c,
                         ![w].step = IF KindOf(w) = "close" THEN "sum" ELSE "write",
                         ![w].expected = shift[c].opening,
                         ![w].todo = Part]
        PROVE  ~Busy(s)'
    <3>1. run \in [Worker -> RunType] /\ c # s
      BY <1>1, <1>4, <2>3 DEF Types, Newest
    <3>2. run'[w].shift # s /\ \A v \in Worker : v # w => run'[v] = run[v]
      BY <2>3, <3>1 DEF RunType
    <3> QED
      BY <3>2, BusyBy
  <2> QED
    BY <1>10, <2>1, <2>2, <2>3 DEF FindOpenShift
<1>11. CASE WriteHeader(w)
  <2>1. shift'[s] = shift[s] /\ cash'[s] = cash[s] /\ mine # s /\ mine \in ShiftId
        /\ Goto(w, "commit")
    BY <1>1, <1>2, <1>11 DEF WriteHeader, books, At, HasRow, Without
  <2>2. run'[w].shift # s /\ \A v \in Worker : v # w => run'[v] = run[v]
    BY <1>1, <2>1, Picked
  <2> QED
    BY <2>1, <2>2, BusyBy
<1>12. CASE CommitDocument(w)
  <2>1. mine # s /\ w # Nobody /\ End(w)
    BY <1>2, <1>12 DEF CommitDocument, At
  <2>2. cash'[s] = cash[s]
    BY <1>1, <1>12, <2>1 DEF CommitDocument, Book, Types
  <2>3. shift'[s] = shift[s]
    <3>1. shift[s] \in RowType
      BY <1>1 DEF Types
    <3>2. shift'[s] = [shift[s] EXCEPT !.maker = Nobody]
      BY <1>3, <1>12, <2>1 DEF CommitDocument
    <3> QED
      BY <1>3, <3>1, <3>2 DEF RowType
  <2> QED
    BY <2>1, <2>2, <2>3, BusyEnd
<1>13. CASE DrawerEntry(w)
  <2>1. mine # s /\ End(w) /\ shift' = shift
    BY <1>2, <1>13 DEF DrawerEntry, At
  <2>2. cash'[s] = cash[s]
    BY <1>1, <1>13, <2>1 DEF DrawerEntry, Book, Types
  <2> QED
    BY <2>1, <2>2, BusyEnd
<1>14. ASSUME NEW part \in Part, SumPart(w, part)
       PROVE  shift'[s] = shift[s] /\ cash'[s] = cash[s] /\ ~Busy(s)'
  <2>1. shift'[s] = shift[s] /\ cash'[s] = cash[s] /\ mine # s
    BY <1>2, <1>14 DEF SumPart, books, At
  <2>2. run'[w].shift # s /\ \A v \in Worker : v # w => run'[v] = run[v]
    BY <1>1, <1>14, <2>1 DEF SumPart, Types, RunType
  <2> QED
    BY <2>1, <2>2, BusyBy
<1>15. CASE CloseShift(w)
  <2>1. mine # s /\ End(w) /\ cash'[s] = cash[s]
    BY <1>2, <1>15 DEF CloseShift, At, books
  <2>2. shift'[s] = shift[s]
    BY <1>1, <1>15, <2>1 DEF CloseShift, Types
  <2> QED
    BY <2>1, <2>2, BusyEnd
<1> QED
  BY <1>5, <1>6, <1>7, <1>8, <1>9, <1>10, <1>11, <1>12, <1>13, <1>14, <1>15 DEF Run

\* Once nobody is at work on a closed shift it is final: no document enters
\* it, its expected cash stays, and no request finds it again.
THEOREM ClosedIsFinal == Spec => ClosedShiftsSettle
<1>1. ASSUME IInv, Next, NEW s \in ShiftId, shift[s].status = "closed", ~Busy(s)
      PROVE  shift'[s] = shift[s] /\ cash'[s] = cash[s] /\ ~Busy(s)'
  <2>1. ASSUME NEW new \in Settings, PutSettings(new)
        PROVE  shift'[s] = shift[s] /\ cash'[s] = cash[s] /\ ~Busy(s)'
    BY <1>1, <2>1 DEF PutSettings, books, Busy, Using
  <2>2. ASSUME NEW w \in Worker, NEW r \in Request, NEW k \in Known \cup {NoShift},
               Begin(w, r, k)
        PROVE  shift'[s] = shift[s] /\ cash'[s] = cash[s] /\ ~Busy(s)'
    <3> DEFINE wanted == managed /\ r.kind \in Document
               step == IF k = NoShift THEN "find" ELSE "preferred"
               new == [Idle EXCEPT !.req = r, !.wise = wise, !.managed = wanted,
                                   !.shift = k, !.step = step]
    <3>1. run' = [run EXCEPT ![w] = new] /\ run \in [Worker -> RunType]
      BY <1>1, <2>2 DEF Begin, IInv, Types
    <3>2. new.shift = k /\ new.step = step
      BY DEF Idle
    <3>3. run'[w] = new /\ \A v \in Worker : v # w => run'[v] = run[v]
      BY <3>1
    <3>4. run'[w].shift # s \/ run'[w].step = "preferred"
      BY <3>2, <3>3 DEF NoShift, ShiftId
    <3> QED
      BY <1>1, <2>2, <3>3, <3>4, BusyBy DEF Begin, books
  <2>3. ASSUME NEW w \in Worker, Run(w)
        PROVE  shift'[s] = shift[s] /\ cash'[s] = cash[s] /\ ~Busy(s)'
    BY <1>1, <2>3, NotFound
  <2>4. ASSUME NEW w \in Worker, Fail(w)
        PROVE  shift'[s] = shift[s] /\ cash'[s] = cash[s] /\ ~Busy(s)'
    <3>1. shift[s].maker # w
      BY <1>1, PosShiftAssumption DEF IInv, RowOK, Writing, Busy, Using
    <3> QED
      BY <1>1, <2>4, <3>1, BusyEnd DEF Fail, books
  <2> QED
    BY <1>1, <2>1, <2>2, <2>3, <2>4 DEF Next
<1>2. IInv /\ [Next]_vars =>
        [\A s \in ShiftId : shift[s].status = "closed" /\ ~Busy(s) =>
          /\ shift'[s] = shift[s]
          /\ cash'[s] = cash[s]
          /\ ~Busy(s)']_vars
  BY <1>1
<1> QED
  BY <1>2, Inductive, PTL DEF Spec, ClosedShiftsSettle
=============================================================================
