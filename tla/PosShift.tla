------------------------------ MODULE PosShift ------------------------------
(***************************************************************************)
(* The cash shifts of one store: opening, closing, the cash drawer, and    *)
(* the sales and returns that need a shift while others open and close it. *)
(*                                                                         *)
(* A sale or a return runs in a transaction that looks a shift up, or      *)
(* inserts one, long before it inserts its header.  Opening, closing and   *)
(* drawer entries are batches with no transaction: each statement commits  *)
(* by itself.  Nothing in the schema limits the open shifts of a user and  *)
(* nothing but the lookup ties a document to an open shift.                *)
(***************************************************************************)
EXTENDS Integers, FiniteSets

CONSTANTS
    Worker,         \* the terminals: each sends one request at a time
    User,
    UserOf,         \* who is signed in at a terminal
    Nobody,         \* the maker of a committed shift
    Request,        \* requests terminals may send: [kind, amount, change]
    NoRequest,
    Settings,       \* the settings pairs <<managed, wise>> that are put
    OpeningCash,    \* the opening cash a user enters
    MaxRequests     \* bound: requests begun in a behaviour

Document == {"sale", "return"}
Kind == Document \cup {"open", "close", "drawer"}
Part == {"sale", "return", "drawer"}    \* what expected cash is summed from
ShiftId == 1 .. MaxRequests             \* a request inserts at most one shift
NoShift == 0

ASSUME PosShiftAssumption ==
    /\ IsFiniteSet(Worker)
    /\ UserOf \in [Worker -> User]
    /\ Nobody \notin Worker
    /\ NoRequest \notin Request
    /\ Request \subseteq [kind : Kind, amount : Int, change : Nat]
    /\ Settings \subseteq BOOLEAN \X BOOLEAN
    /\ OpeningCash \in Nat
    /\ MaxRequests \in Nat

VARIABLES
    managed,   \* ShiftManagementSettings.EnableShiftManagement
    wise,      \* ShiftManagementSettings.UserWiseShift
    shift,     \* the rows of Shifts, uncommitted ones included
    cash,      \* committed cash of a shift's documents, by part
    change,    \* committed ChangeAmount of a shift's sales
    run,       \* run[w]: the request, its next statement and what it read
    begun      \* requests begun so far

vars == <<managed, wise, shift, cash, change, run, begun>>
config == <<managed, wise>>
books == <<cash, change>>

\* A row that was never inserted, or whose insert was rolled back.
NoRow == [status |-> "none", user |-> Nobody, maker |-> Nobody,
          opening |-> 0, expected |-> 0]
Idle == [req |-> NoRequest, step |-> "idle", managed |-> FALSE, wise |-> FALSE,
         shift |-> NoShift, expected |-> 0, todo |-> {}]

\* EnsureShiftManagementSchemaAsync: user-wise shifts, management off.
Init ==
    /\ managed = FALSE
    /\ wise = TRUE
    /\ shift = [s \in ShiftId |-> NoRow]
    /\ cash = [s \in ShiftId |-> [p \in Part |-> 0]]
    /\ change = [s \in ShiftId |-> 0]
    /\ run = [w \in Worker |-> Idle]
    /\ begun = 0

KindOf(w) == run[w].req.kind
At(w, kinds, step) == run[w].step = step /\ KindOf(w) \in kinds
Goto(w, step) == run' = [run EXCEPT ![w].step = step]
End(w) == run' = [run EXCEPT ![w] = Idle]

\* The request works on shift s, found or inserted by it.
Using(w, s) == run[w].shift = s

\* A transaction that has inserted its header and not ended.
Wrote(w, s) == run[w].step = "commit" /\ Using(w, s)
-----------------------------------------------------------------------------
\* PUT /api/shifts/settings, at any time.
PutSettings(new) ==
    /\ managed' = new[1]
    /\ wise' = new[2]
    /\ UNCHANGED <<shift, books, run, begun>>

\* A request reads the settings, a document also whether shifts are managed; a
\* sale may name the shift its terminal knows.
Begin(w, r, preferred) ==
    /\ run[w].step = "idle"
    /\ begun < MaxRequests
    /\ preferred # NoShift => r.kind = "sale"
    /\ begun' = begun + 1
    /\ run' = [run EXCEPT ![w] =
                 [Idle EXCEPT !.req = r, !.wise = wise,
                              !.managed = managed /\ r.kind \in Document,
                              !.shift = preferred,
                              !.step = IF preferred = NoShift THEN "find"
                                                              ELSE "preferred"]]
    /\ UNCHANGED <<config, shift, books>>
-----------------------------------------------------------------------------
(* Looking a shift up.  A lookup sees open shifts, of the user when shifts *)
(* are user-wise, newest first, and waits for a newer uncommitted one.     *)

VisibleDirty(w, s) ==        \* mutant: reads uncommitted rows
    shift[s].status = "open"

Visible(w, s) == shift[s].status = "open" /\ shift[s].maker \in {Nobody, w}

Suits(w, s) == run[w].wise => shift[s].user = UserOf[w]

Candidates(w) == {s \in ShiftId : Visible(w, s) /\ Suits(w, s)}

FindWaits(w) ==
    \E s \in ShiftId :
        /\ shift[s].status = "open" /\ Suits(w, s)
        /\ ~Visible(w, s)
        /\ \A c \in Candidates(w) : c < s

\* The first row of a lookup, ORDER BY ShiftId DESC.
Newest(w, s) == s \in Candidates(w) /\ \A c \in Candidates(w) : c <= s

Pick(w, s, step) == run' = [run EXCEPT ![w].shift = s, ![w].step = step]

PickPreferredUnchecked(w) == \* mutant: trusts the shift the client names
    /\ At(w, {"sale"}, "preferred")
    /\ Pick(w, run[w].shift, "write")
    /\ UNCHANGED <<config, shift, books, begun>>

PickPreferredOfAnyone(w) ==  \* mutant: the user is not compared
    LET s == run[w].shift
    IN  /\ At(w, {"sale"}, "preferred")
        /\ shift[s].maker \in {Nobody, w}
        /\ IF shift[s].status = "open" THEN Pick(w, s, "write")
                                       ELSE Pick(w, NoShift, "find")
        /\ UNCHANGED <<config, shift, books, begun>>

\* The shift the client names is taken if it is open and the user's.
PickPreferred(w) ==
    LET s == run[w].shift
    IN  /\ At(w, {"sale"}, "preferred")
        /\ shift[s].maker \in {Nobody, w}
        /\ IF s \in Candidates(w) THEN Pick(w, s, "write")
                                  ELSE Pick(w, NoShift, "find")
        /\ UNCHANGED <<config, shift, books, begun>>

\* EnsureOpenShiftAsync: the newest open shift, or a new one unless managed.
EnsureOpenShift(w) ==
    /\ At(w, Document, "find")
    /\ ~FindWaits(w)
    /\ \/ \E s \in ShiftId : Newest(w, s) /\ Pick(w, s, "write")
       \/ /\ Candidates(w) = {}
          /\ IF run[w].managed THEN End(w) ELSE Goto(w, "insert")
    /\ UNCHANGED <<config, shift, books, begun>>

OpenWithoutLooking(w) ==     \* mutant: no IF EXISTS
    /\ At(w, {"open"}, "find")
    /\ Goto(w, "insert")
    /\ UNCHANGED <<config, shift, books, begun>>

\* Opening: IF EXISTS an open shift.
LookBeforeOpening(w) ==
    /\ At(w, {"open"}, "find")
    /\ ~FindWaits(w)
    /\ Goto(w, IF Candidates(w) = {} THEN "insert" ELSE "answer")
    /\ UNCHANGED <<config, shift, books, begun>>

\* ... its ShiftId is selected, if it is still open, and answered.
AnswerOpen(w) ==
    /\ At(w, {"open"}, "answer")
    /\ ~FindWaits(w)
    /\ End(w)
    /\ UNCHANGED <<config, shift, books, begun>>

\* Identity values rise and are not used again after a rollback.
NextShiftId(s) == shift[s] = NoRow /\ \A r \in ShiftId : r < s => shift[r] # NoRow

NewShift(w) ==
    [status |-> "open", user |-> UserOf[w], expected |-> 0,
     maker |-> IF KindOf(w) = "open" THEN Nobody ELSE w,
     opening |-> IF KindOf(w) = "open" THEN OpeningCash ELSE 0]

\* INSERT INTO Shifts: committed at once by an opening, with the transaction
\* by a sale or a return.
InsertShift(w) ==
    /\ At(w, Document \cup {"open"}, "insert")
    /\ \E s \in ShiftId :
         /\ NextShiftId(s)
         /\ shift' = [shift EXCEPT ![s] = NewShift(w)]
         /\ IF KindOf(w) = "open" THEN End(w) ELSE Pick(w, s, "write")
    /\ UNCHANGED <<config, books, begun>>

\* A close and a drawer entry need an open shift.
FindOpenShift(w) ==
    /\ At(w, {"close", "drawer"}, "find")
    /\ ~FindWaits(w)
    /\ \/ /\ Candidates(w) = {}
          /\ End(w)
       \/ \E s \in ShiftId :
             /\ Newest(w, s)
             /\ run' = [run EXCEPT
                           ![w].shift = s,
                           ![w].step = IF KindOf(w) = "close" THEN "sum" ELSE "write",
                           ![w].expected = shift[s].opening,
                           ![w].todo = Part]
    /\ UNCHANGED <<config, shift, books, begun>>
-----------------------------------------------------------------------------
(* Documents.                                                              *)

\* The number series serialises documents of one kind up to their commit.
WriteHeader(w) ==
    /\ At(w, Document, "write")
    /\ \A v \in Worker : run[v].step = "commit" => KindOf(v) # KindOf(w)
    /\ Goto(w, "commit")
    /\ UNCHANGED <<config, shift, books, begun>>

Book(w, part) ==
    /\ cash' = [cash EXCEPT ![run[w].shift][part] = @ + run[w].req.amount]
    /\ change' = [change EXCEPT ![run[w].shift] = @ + run[w].req.change]

\* The document, its payments and the shift it inserted become visible.
CommitDocument(w) ==
    /\ At(w, Document, "commit")
    /\ Book(w, KindOf(w))
    /\ shift' = [s \in ShiftId |-> [shift[s] EXCEPT !.maker =
                                      IF @ = w THEN Nobody ELSE @]]
    /\ End(w)
    /\ UNCHANGED <<config, begun>>

\* INSERT INTO CashDrawerLedger.
DrawerEntry(w) ==
    /\ At(w, {"drawer"}, "write")
    /\ Book(w, "drawer")
    /\ End(w)
    /\ UNCHANGED <<config, shift, begun>>

FailKeepingRow(w) ==         \* mutant: the transaction is left open
    /\ run[w].step # "idle"
    /\ End(w)
    /\ UNCHANGED <<config, shift, books, begun>>

\* A request fails: what its transaction inserted is undone.
Fail(w) ==
    /\ run[w].step # "idle"
    /\ shift' = [s \in ShiftId |->
                   IF shift[s].maker = w THEN [NoRow EXCEPT !.status = "undone"]
                                         ELSE shift[s]]
    /\ End(w)
    /\ UNCHANGED <<config, books, begun>>
-----------------------------------------------------------------------------
(* Closing.                                                                *)

\* One of the sums of expected cash; it waits for headers not yet committed.
SumPart(w, part) ==
    /\ At(w, {"close"}, "sum")
    /\ part \in run[w].todo
    /\ \A v \in Worker : ~(Wrote(v, run[w].shift) /\ KindOf(v) = part)
    /\ run' = [run EXCEPT ![w].todo = @ \ {part},
                          ![w].expected = @ + cash[run[w].shift][part]]
    /\ UNCHANGED <<config, shift, books, begun>>

\* UPDATE Shifts ... WHERE ShiftId=@ShiftId.
CloseShift(w) ==
    /\ At(w, {"close"}, "sum")
    /\ run[w].todo = {}
    /\ shift' = [shift EXCEPT ![run[w].shift].status = "closed",
                              ![run[w].shift].expected = run[w].expected]
    /\ End(w)
    /\ UNCHANGED <<config, books, begun>>

Run(w) ==
    \/ PickPreferred(w) \/ EnsureOpenShift(w)
    \/ LookBeforeOpening(w) \/ AnswerOpen(w) \/ InsertShift(w)
    \/ FindOpenShift(w) \/ WriteHeader(w) \/ CommitDocument(w) \/ DrawerEntry(w)
    \/ \E part \in Part : SumPart(w, part)
    \/ CloseShift(w)

\* The shift a client names was answered to it once.
Known == {s \in ShiftId : shift[s].status \in {"open", "closed"}
                          /\ shift[s].maker = Nobody}

Next ==
    \/ \E new \in Settings : PutSettings(new)
    \/ \E w \in Worker :
         \/ \E r \in Request, s \in Known \cup {NoShift} : Begin(w, r, s)
         \/ Run(w)
         \/ Fail(w)

Spec == Init /\ [][Next]_vars

\* A request runs on unless it waits for a lock; nothing says one must fail.
FairSpec == Spec /\ \A w \in Worker : WF_vars(Run(w))
-----------------------------------------------------------------------------
\* The types, and an uncommitted shift belongs to a transaction that uses it.
TypeOK ==
    /\ managed \in BOOLEAN /\ wise \in BOOLEAN
    /\ shift \in [ShiftId -> [status : {"none", "open", "closed", "undone"},
                              user : User \cup {Nobody}, maker : Worker \cup {Nobody},
                              opening : Nat, expected : Int]]
    /\ cash \in [ShiftId -> [Part -> Int]]
    /\ change \in [ShiftId -> Nat]
    /\ run \in [Worker -> [req : Request \cup {NoRequest},
                           step : {"idle", "preferred", "find", "answer", "insert",
                                   "write", "commit", "sum"},
                           managed : BOOLEAN, wise : BOOLEAN,
                           shift : ShiftId \cup {NoShift}, expected : Int,
                           todo : SUBSET Part]]
    /\ begun \in 0 .. MaxRequests
    /\ \A s \in ShiftId : shift[s].maker # Nobody =>
          Using(shift[s].maker, s) /\ run[shift[s].maker].step \in {"write", "commit"}

Terminals(u) == {w \in Worker : UserOf[w] = u}

\* Opening twice at once may give a user two open shifts, but never more than
\* the terminals the user is signed in at, however settings change meanwhile.
OpenShiftsBounded ==
    \A u \in User :
        Cardinality({s \in ShiftId : shift[s].status = "open" /\ shift[s].user = u})
            <= Cardinality(Terminals(u))

Busy(s) == \E w \in Worker : Using(w, s) /\ run[w].step # "preferred"

\* A closed shift that no running request found while it was open is settled:
\* no document enters it, its expected cash stays, and no request finds it.
ClosedShiftsSettle ==
    [][\A s \in ShiftId : shift[s].status = "closed" /\ ~Busy(s) =>
          /\ shift'[s] = shift[s]
          /\ cash'[s] = cash[s]
          /\ ~Busy(s)']_vars

\* Every document belongs to a shift that exists: none was put into a shift
\* whose insert is, or will be, rolled back with another transaction.
DocumentsHaveShift ==
    \A s \in ShiftId :
        /\ (shift[s].status = "undone" => ~Busy(s) /\ cash[s] = [p \in Part |-> 0])
        /\ \A w \in Worker : shift[s].maker \notin {Nobody, w} => ~Using(w, s)

\* While shifts are user-wise a document lands in a shift of its own user; with
\* shift management on it also never makes one.
DocumentsInOwnShift ==
    [][\A w \in Worker : CommitDocument(w) =>
          LET s == run[w].shift
          IN  /\ run[w].wise => shift[s].user = UserOf[w]
              /\ run[w].managed => shift[s].maker = Nobody]_vars

\* Every request ends: a close waits for the documents written before it, and
\* a lookup for the shift being inserted, but they never wait for each other.
EveryRequestEnds == \A w \in Worker : run[w].step # "idle" ~> run[w].step = "idle"

\* When nobody is at work, the expected cash of a closed shift is the cash in
\* the drawer: what was paid in and out, less the change given back.
ExpectedIsDrawerCash ==
    (\A w \in Worker : run[w].step = "idle") =>
        \A s \in ShiftId : shift[s].status = "closed" =>
            shift[s].expected = shift[s].opening + cash[s]["sale"]
                                + cash[s]["return"] + cash[s]["drawer"] - change[s]
=============================================================================
