-------------------------- MODULE IngestionProofs --------------------------
(***************************************************************************)
(* Theorems about Ingestion, for every number of threads that flush and    *)
(* poll, of readings and of failures: which transaction holds which id,    *)
(* what the pipeline promises of the rows it adds and shows, and what a    *)
(* flush may return with.                                                  *)
(***************************************************************************)
EXTENDS Ingestion, WellFoundedInduction, TLAPS

Working == {"prepare", "insert", "fallback", "broadcast"}

\* What a batch still has to account for, at each point of its transaction.
Account(j) ==
  CASE job[j].pc = "prepare" -> job[j].batch
    [] job[j].pc \in {"insert", "fallback"} -> job[j].todo \cup job[j].mine
    [] OTHER -> {}

\* The rows of a batch are stored, logged, or still to come.
BatchAccounted ==
  \A j \in Jobs : job[j].batch \subseteq stored \cup logged \cup Account(j)

\* The write lock is held exactly by the flush that is under way.
LockExcludes ==
  \A f \in Flushers : /\ job[f].pc \in Working <=> lock = f
                      /\ job[f].pc \notin Working => job[f].batch = {}

\* What was buffered at the call is stored, logged, in the buffer or in the flush under
\* way; once the lock is taken it is in one's own batch, and nothing is left at the return.
AskedAccounted ==
  \A f \in Flushers :
    /\ job[f].pc = "lock" => job[f].asked \subseteq items \cup InFlight \cup stored \cup logged
    /\ job[f].pc \in Working => job[f].asked \subseteq job[f].batch \cup stored \cup logged
    /\ job[f].pc = "returned" => job[f].asked \subseteq stored \cup logged

\* A row is broadcast once at most, and not before it is stored.
BroadcastOnce ==
  \A r \in Readings : frames[r] <= (IF r \in stored THEN 1 ELSE 0)

\* An id is in the insert set of one transaction only, and it is not stored until that one
\* commits; what a transaction has still to show is its own, stored, and not yet shown.
IdsAreHeld ==
  /\ \A j, k \in Jobs : j # k => job[j].mine \cap job[k].mine = {}
  /\ \A j \in Jobs :
       /\ job[j].pc \in {"insert", "fallback"} => job[j].mine \cap stored = {}
       /\ job[j].pc = "broadcast" =>
            /\ job[j].mine \subseteq stored
            /\ job[j].todo \subseteq job[j].mine
            /\ \A r \in job[j].todo : frames[r] = 0
       /\ job[j].pc \in {"idle", "lock", "prepare", "returned"} => job[j].mine = {}

-----------------------------------------------------------------------------
\* The next row of a transaction is one it has still to do.

LEMMA LeastNumber ==
  ASSUME NEW S \in SUBSET Nat, S # {}
  PROVE  \E x \in S : \A y \in S : x <= y
<1> DEFINE R == {ss \in Nat \X Nat : ss[1] < ss[2]}
<1>1. IsWellFoundedOn(R, Nat)
  BY NatLessThanWellFounded DEF OpToRel
<1>2. \A x \in Nat, y \in Nat : y < x => <<y, x>> \in R
  OBVIOUS
<1> HIDE DEF R
<1>3. PICK x \in S : \A y \in S : <<y, x>> \notin R
  BY <1>1, WFMin
<1>4. \A y \in S : ~(y < x)
  BY <1>2, <1>3
<1> QED
  BY <1>4

LEMMA GreatestNumber ==
  ASSUME NEW n \in Nat, NEW S \in SUBSET (1 .. n), S # {}
  PROVE  \E x \in S : \A y \in S : x >= y
<1> DEFINE T == {n - x : x \in S}
<1>1. \A x \in S : n - x \in Nat
  OBVIOUS
<1>2. T \in SUBSET Nat /\ T # {}
  BY <1>1
<1>3. PICK t \in T : \A u \in T : t <= u
  BY <1>2, LeastNumber
<1>4. PICK x \in S : t = n - x
  OBVIOUS
<1>5. \A y \in S : n - x <= n - y
  BY <1>3, <1>4
<1> QED
  BY <1>5

LEMMA NextRowIsToDo ==
  ASSUME NEW j \in Jobs, job[j].todo \in SUBSET Readings, job[j].todo # {}
  PROVE  NextRow(j) \in job[j].todo
<1>1. \E x \in job[j].todo : \A y \in job[j].todo : x <= y
  BY LeastNumber DEF Readings
<1>2. \E x \in job[j].todo : \A y \in job[j].todo : x >= y
  BY GreatestNumber, LimitsAssumption DEF Readings
<1> QED
  BY <1>1, <1>2 DEF NextRow, Min, Max

-----------------------------------------------------------------------------
\* What each step makes of the job it is about.

Turns(j, pc, asked, batch, todo, mine) ==
  /\ job' \in [Jobs -> JobType]
  /\ job'[j].pc = pc /\ job'[j].asked = asked /\ job'[j].batch = batch
  /\ job'[j].todo = todo /\ job'[j].mine = mine
  /\ \A k \in Jobs \ {j} : job'[k] = job[k]

LEMMA Turning ==
  ASSUME TypeOK, NEW j \in Jobs, NEW x \in JobType, job' = [job EXCEPT ![j] = x]
  PROVE  Turns(j, x.pc, x.asked, x.batch, x.todo, x.mine)
  BY DEF TypeOK, Turns

LEMMA IdleType ==
  /\ Idle \in JobType
  /\ Idle.pc = "idle" /\ Idle.asked = {} /\ Idle.batch = {} /\ Idle.todo = {} /\ Idle.mine = {}
  BY DEF Idle, JobType

LEMMA FlushCallTurns ==
  ASSUME TypeOK, NEW f \in Flushers, FlushCall(f)
  PROVE  Turns(f, "lock", items \cup InFlight, job[f].batch, job[f].todo, job[f].mine)
<1>1. f \in Jobs /\ items \cup InFlight \in SUBSET Readings /\ job[f] \in JobType
  BY DEF Jobs, InFlight, TypeOK, JobType
<1> DEFINE x == [job[f] EXCEPT !.pc = "lock", !.asked = items \cup InFlight]
<1>2. /\ x \in JobType
      /\ x.pc = "lock" /\ x.asked = items \cup InFlight /\ x.batch = job[f].batch
      /\ x.todo = job[f].todo /\ x.mine = job[f].mine
  BY <1>1 DEF JobType
<1>3. job' = [job EXCEPT ![f] = x]
  BY <1>1 DEF FlushCall, TypeOK
<1> HIDE DEF x
<1>4. Turns(f, x.pc, x.asked, x.batch, x.todo, x.mine)
  BY <1>1, <1>2, <1>3, Turning
<1> QED
  BY <1>2, <1>4

LEMMA FlushTakeTurns ==
  ASSUME TypeOK, NEW f \in Flushers, FlushTake(f)
  PROVE  Turns(f, "prepare", job[f].asked, items, job[f].todo, job[f].mine)
<1>1. f \in Jobs /\ items \in SUBSET Readings /\ job[f] \in JobType
  BY DEF Jobs, TypeOK
<1> DEFINE x == [job[f] EXCEPT !.pc = "prepare", !.batch = items]
<1>2. /\ x \in JobType
      /\ x.pc = "prepare" /\ x.asked = job[f].asked /\ x.batch = items
      /\ x.todo = job[f].todo /\ x.mine = job[f].mine
  BY <1>1 DEF JobType
<1>3. job' = [job EXCEPT ![f] = x]
  BY <1>1 DEF FlushTake, Take, TypeOK
<1> HIDE DEF x
<1>4. Turns(f, x.pc, x.asked, x.batch, x.todo, x.mine)
  BY <1>1, <1>2, <1>3, Turning
<1> QED
  BY <1>2, <1>4

LEMMA FlushReturnTurns ==
  ASSUME TypeOK, NEW f \in Flushers, FlushReturn(f)
  PROVE  Turns(f, "idle", {}, {}, {}, {})
<1>1. f \in Jobs /\ job' = [job EXCEPT ![f] = Idle]
  BY DEF Jobs, FlushReturn
<1>2. Turns(f, Idle.pc, Idle.asked, Idle.batch, Idle.todo, Idle.mine)
  BY <1>1, IdleType, Turning
<1> QED
  BY <1>2, IdleType

LEMMA PollTurns ==
  ASSUME TypeOK, NEW p \in Pollers, Poll(p)
  PROVE  Turns(p, "prepare", job[p].asked, Window, job[p].todo, job[p].mine)
<1>1. p \in Jobs /\ Window \in SUBSET Readings /\ job[p] \in JobType
  BY DEF Jobs, Window, TypeOK
<1> DEFINE x == [job[p] EXCEPT !.pc = "prepare", !.batch = Window]
<1>2. /\ x \in JobType
      /\ x.pc = "prepare" /\ x.asked = job[p].asked /\ x.batch = Window
      /\ x.todo = job[p].todo /\ x.mine = job[p].mine
  BY <1>1 DEF JobType
<1>3. job' = [job EXCEPT ![p] = x]
  BY <1>1 DEF Poll, TypeOK
<1> HIDE DEF x
<1>4. Turns(p, x.pc, x.asked, x.batch, x.todo, x.mine)
  BY <1>1, <1>2, <1>3, Turning
<1> QED
  BY <1>2, <1>4

\* A call that is over.
Ends(j) ==
  Turns(j, IF j \in Flushers THEN "returned" ELSE "idle",
           IF j \in Flushers THEN job[j].asked ELSE {}, {}, {}, {})

LEMMA OverEnds ==
  ASSUME TypeOK, NEW j \in Jobs, job' = [job EXCEPT ![j] = Over(j)]
  PROVE  Ends(j)
<1> DEFINE x == Over(j)
<1>1. job[j].asked \in SUBSET Readings
  BY DEF TypeOK, JobType
<1>2. /\ x \in JobType
      /\ x.pc = (IF j \in Flushers THEN "returned" ELSE "idle")
      /\ x.asked = (IF j \in Flushers THEN job[j].asked ELSE {})
      /\ x.batch = {} /\ x.todo = {} /\ x.mine = {}
  BY <1>1 DEF Over, Idle, JobType
<1>3. job' = [job EXCEPT ![j] = x]
  OBVIOUS
<1> HIDE DEF x
<1>4. Turns(j, x.pc, x.asked, x.batch, x.todo, x.mine)
  BY <1>2, <1>3, Turning
<1> QED
  BY <1>2, <1>4 DEF Ends

LEMMA PrepareTurns ==
  ASSUME TypeOK, NEW j \in Jobs, Prepare(j)
  PROVE  IF job[j].batch \subseteq stored THEN Ends(j)
         ELSE Turns(j, "insert", job[j].asked, job[j].batch, job[j].batch \ stored, job[j].mine)
<1> DEFINE fresh == job[j].batch \ stored
<1>1. job[j] \in JobType /\ fresh \in SUBSET Readings
  BY DEF TypeOK, JobType
<1>2. CASE fresh = {}
  BY <1>2, OverEnds DEF Prepare
<1>3. CASE fresh # {}
  <2> DEFINE x == [job[j] EXCEPT !.pc = "insert", !.todo = fresh]
  <2>1. /\ x \in JobType
        /\ x.pc = "insert" /\ x.asked = job[j].asked /\ x.batch = job[j].batch
        /\ x.todo = fresh /\ x.mine = job[j].mine
    BY <1>1 DEF JobType
  <2>2. job' = [job EXCEPT ![j] = x]
    BY <1>1, <1>3 DEF Prepare
  <2> HIDE DEF x
  <2>3. Turns(j, x.pc, x.asked, x.batch, x.todo, x.mine)
    BY <2>1, <2>2, Turning
  <2> QED
    BY <1>3, <2>1, <2>3
<1> QED
  BY <1>2, <1>3

LEMMA InsertRowTurns ==
  ASSUME TypeOK, NEW j \in Jobs, InsertRow(j)
  PROVE  LET r == NextRow(j)
         IN  /\ r \in job[j].todo
             /\ \/ /\ r \notin stored
                   /\ Turns(j, job[j].pc, job[j].asked, job[j].batch, job[j].todo \ {r}, job[j].mine \cup {r})
                \/ /\ job[j].pc = "insert"
                   /\ Turns(j, "fallback", job[j].asked, job[j].batch, job[j].batch, {})
                \/ /\ r \in stored
                   /\ Turns(j, job[j].pc, job[j].asked, job[j].batch, job[j].todo \ {r}, job[j].mine)
<1> DEFINE r == NextRow(j)
<1>1. job[j] \in JobType
  BY DEF TypeOK
<1>2. r \in job[j].todo /\ r \in Readings
  BY <1>1, NextRowIsToDo DEF InsertRow, Inserting, JobType
<1> HIDE DEF r
<1>3. CASE r \notin stored
  <2> DEFINE x == [job[j] EXCEPT !.todo = job[j].todo \ {r}, !.mine = job[j].mine \cup {r}]
  <2>1. /\ x \in JobType
        /\ x.pc = job[j].pc /\ x.asked = job[j].asked /\ x.batch = job[j].batch
        /\ x.todo = job[j].todo \ {r} /\ x.mine = job[j].mine \cup {r}
    BY <1>1, <1>2 DEF JobType
  <2>2. job' = [job EXCEPT ![j] = x]
    BY <1>1, <1>3 DEF InsertRow, r
  <2> HIDE DEF x
  <2>3. Turns(j, x.pc, x.asked, x.batch, x.todo, x.mine)
    BY <2>1, <2>2, Turning
  <2> QED
    BY <1>2, <1>3, <2>1, <2>3 DEF r
<1>4. CASE r \in stored /\ job[j].pc = "insert"
  <2> DEFINE x == [job[j] EXCEPT !.pc = "fallback", !.todo = job[j].batch, !.mine = {}]
  <2>1. /\ x \in JobType
        /\ x.pc = "fallback" /\ x.asked = job[j].asked /\ x.batch = job[j].batch
        /\ x.todo = job[j].batch /\ x.mine = {}
    BY <1>1 DEF JobType
  <2>2. job' = [job EXCEPT ![j] = x]
    BY <1>1, <1>4 DEF InsertRow, r
  <2> HIDE DEF x
  <2>3. Turns(j, x.pc, x.asked, x.batch, x.todo, x.mine)
    BY <2>1, <2>2, Turning
  <2> QED
    BY <1>2, <1>4, <2>1, <2>3 DEF r
<1>5. CASE r \in stored /\ job[j].pc # "insert"
  <2> DEFINE x == [job[j] EXCEPT !.todo = job[j].todo \ {r}]
  <2>1. /\ x \in JobType
        /\ x.pc = job[j].pc /\ x.asked = job[j].asked /\ x.batch = job[j].batch
        /\ x.todo = job[j].todo \ {r} /\ x.mine = job[j].mine
    BY <1>1, <1>2 DEF JobType
  <2>2. job' = [job EXCEPT ![j] = x]
    BY <1>1, <1>5 DEF InsertRow, Skip, r
  <2> HIDE DEF x
  <2>3. Turns(j, x.pc, x.asked, x.batch, x.todo, x.mine)
    BY <2>1, <2>2, Turning
  <2> QED
    BY <1>2, <1>5, <2>1, <2>3 DEF r
<1> QED
  BY <1>3, <1>4, <1>5

LEMMA GiveUpRowTurns ==
  ASSUME TypeOK, NEW j \in Jobs, GiveUpRow(j)
  PROVE  LET r == NextRow(j)
         IN  /\ r \in Readings
             /\ Turns(j, job[j].pc, job[j].asked, job[j].batch, job[j].todo \ {r}, job[j].mine)
<1> DEFINE r == NextRow(j)
           x == [job[j] EXCEPT !.todo = job[j].todo \ {r}]
<1>1. job[j] \in JobType
  BY DEF TypeOK
<1>2. r \in Readings
  BY <1>1, NextRowIsToDo DEF GiveUpRow, JobType
<1>3. job' = [job EXCEPT ![j] = x]
  BY DEF GiveUpRow
<1> HIDE DEF r
<1>4. /\ x \in JobType
      /\ x.pc = job[j].pc /\ x.asked = job[j].asked /\ x.batch = job[j].batch
      /\ x.todo = job[j].todo \ {r} /\ x.mine = job[j].mine
  BY <1>1 DEF JobType
<1> HIDE DEF x
<1>5. Turns(j, x.pc, x.asked, x.batch, x.todo, x.mine)
  BY <1>3, <1>4, Turning
<1> QED
  BY <1>2, <1>4, <1>5 DEF r

LEMMA CommitBatchTurns ==
  ASSUME TypeOK, NEW j \in Jobs, CommitBatch(j)
  PROVE  \E shown \in {{}, job[j].mine} :
           Turns(j, "broadcast", job[j].asked, job[j].batch, shown, job[j].mine)
<1>1. job[j] \in JobType
  BY DEF TypeOK
<1>2. PICK shown \in {{}, job[j].mine} :
        job' = [job EXCEPT ![j] = [job[j] EXCEPT !.pc = "broadcast", !.todo = shown]]
  BY <1>1 DEF CommitBatch, TypeOK
<1> DEFINE x == [job[j] EXCEPT !.pc = "broadcast", !.todo = shown]
<1>3. /\ x \in JobType
      /\ x.pc = "broadcast" /\ x.asked = job[j].asked /\ x.batch = job[j].batch
      /\ x.todo = shown /\ x.mine = job[j].mine
  BY <1>1 DEF JobType
<1>4. job' = [job EXCEPT ![j] = x]
  BY <1>2
<1> HIDE DEF x
<1>5. Turns(j, x.pc, x.asked, x.batch, x.todo, x.mine)
  BY <1>3, <1>4, Turning
<1> QED
  BY <1>3, <1>5

\* A broadcast shows the next row, or the call is over.
LEMMA BroadcastTurns ==
  ASSUME TypeOK, NEW j \in Jobs, Broadcast(j)
  PROVE  \/ /\ job[j].todo = {} /\ Ends(j) /\ frames' = frames /\ lock' = Release(j)
         \/ LET r == NextRow(j)
            IN  /\ r \in job[j].todo /\ r \in Readings
                /\ frames' = [frames EXCEPT ![r] = @ + 1] /\ lock' = lock
                /\ Turns(j, "broadcast", job[j].asked, job[j].batch, job[j].todo \ {r}, job[j].mine)
<1>1. CASE job[j].todo = {}
  BY <1>1, OverEnds DEF Broadcast
<1>2. CASE job[j].todo # {}
  <2> DEFINE r == NextRow(j)
             x == [job[j] EXCEPT !.todo = job[j].todo \ {r}]
  <2>1. job[j] \in JobType
    BY DEF TypeOK
  <2>2. r \in job[j].todo /\ r \in Readings
    BY <1>2, <2>1, NextRowIsToDo DEF JobType
  <2>3. /\ job[j].pc = "broadcast" /\ job' = [job EXCEPT ![j] = x]
        /\ frames' = [frames EXCEPT ![r] = @ + 1] /\ lock' = lock
    BY <1>2 DEF Broadcast
  <2> HIDE DEF r
  <2>4. /\ x \in JobType
        /\ x.pc = "broadcast" /\ x.asked = job[j].asked /\ x.batch = job[j].batch
        /\ x.todo = job[j].todo \ {r} /\ x.mine = job[j].mine
    BY <2>1, <2>3 DEF JobType
  <2> HIDE DEF x
  <2>5. Turns(j, x.pc, x.asked, x.batch, x.todo, x.mine)
    BY <2>3, <2>4, Turning
  <2> QED
    BY <2>2, <2>3, <2>4, <2>5 DEF r
<1> QED
  BY <1>1, <1>2

-----------------------------------------------------------------------------
\* Types.

LEMMA TypesInit == Init => TypeOK
  BY LimitsAssumption, IdleType DEF Init, TypeOK, Jobs, Readings

LEMMA TypesStep == TypeOK /\ [Next]_vars => TypeOK'
<1> SUFFICES ASSUME TypeOK, [Next]_vars
             PROVE  TypeOK'
  OBVIOUS
<1> USE LimitsAssumption
<1>1. CASE UNCHANGED vars
  BY <1>1 DEF vars, TypeOK
<1>2. CASE Environment
  <2>1. CASE Record
    <3>1. recorded' \in 0 .. MaxReadings /\ delivered \in 0 .. recorded'
      BY <2>1 DEF Record, TypeOK
    <3> QED
      BY <2>1, <3>1 DEF Record, TypeOK
  <2>2. CASE Deliver
    <3>1. PICK r \in delivered + 1 .. recorded :
            /\ delivered' = r /\ previews' = previews \cup {r} /\ items' = items \cup {r}
      BY <2>2 DEF Deliver
    <3>2. r \in Readings /\ r \in 0 .. recorded /\ 1 .. delivered \subseteq 1 .. r /\ r \in 1 .. r
      BY <3>1 DEF TypeOK, Readings
    <3>3. previews' \subseteq 1 .. r
      BY <3>1, <3>2 DEF TypeOK
    <3> QED
      BY <2>2, <3>1, <3>2, <3>3 DEF Deliver, TypeOK
  <2> QED
    BY <1>2, <2>1, <2>2 DEF Environment
<1>3. ASSUME NEW f \in Flushers, FlushStep(f)
      PROVE  TypeOK'
  <2>1. job' \in [Jobs -> JobType]
    BY <1>3, FlushCallTurns, FlushTakeTurns, FlushReturnTurns DEF FlushStep, Turns
  <2> QED
    BY <1>3, <2>1 DEF FlushStep, FlushCall, FlushTake, FlushReturn, TypeOK
<1>4. ASSUME NEW p \in Pollers, Poll(p)
      PROVE  TypeOK'
  BY <1>4, PollTurns DEF Poll, TypeOK, Turns
<1>5. ASSUME NEW j \in Jobs, RollBack(j), failures' \in 0 .. MaxFailures
      PROVE  TypeOK'
  <2>1. job' \in [Jobs -> JobType] /\ GivenUp(j) \in SUBSET Readings
    BY <1>5, OverEnds DEF RollBack, Ends, Turns, GivenUp, TypeOK, JobType
  <2> QED
    BY <1>5, <2>1 DEF RollBack, Release, TypeOK
<1>6. ASSUME NEW j \in Jobs, GiveUpRow(j), failures' \in 0 .. MaxFailures
      PROVE  TypeOK'
  <2>1. job' \in [Jobs -> JobType] /\ NextRow(j) \in Readings
    BY <1>6, GiveUpRowTurns DEF Turns
  <2> QED
    BY <1>6, <2>1 DEF GiveUpRow, TypeOK
<1>7. ASSUME NEW j \in Jobs, Transaction(j) \/ Failure(j)
      PROVE  TypeOK'
  <2>1. CASE Prepare(j)
    <3>1. job' \in [Jobs -> JobType]
      BY <2>1, PrepareTurns DEF Turns, Ends
    <3> QED
      BY <2>1, <3>1 DEF Prepare, Release, TypeOK
  <2>2. CASE InsertRow(j)
    <3>1. job' \in [Jobs -> JobType]
      BY <2>2, InsertRowTurns DEF Turns
    <3> QED
      BY <2>2, <3>1 DEF InsertRow, TypeOK
  <2>4. CASE CommitBatch(j)
    <3>1. job' \in [Jobs -> JobType] /\ job[j].mine \in SUBSET Readings
      BY <2>4, CommitBatchTurns DEF Turns, TypeOK, JobType
    <3> QED
      BY <2>4, <3>1 DEF CommitBatch, TypeOK
  <2>5. CASE Broadcast(j)
    <3>1. job' \in [Jobs -> JobType] /\ frames' \in [Readings -> Nat]
      BY <2>5, BroadcastTurns DEF Ends, Turns, TypeOK
    <3> QED
      BY <2>5, <3>1 DEF Broadcast, Release, TypeOK
  <2>6. CASE DeadlockVictim(j)
    BY <1>5, <1>6, <2>6 DEF DeadlockVictim, TypeOK
  <2>7. CASE Failure(j)
    BY <1>5, <1>6, <2>7 DEF Failure, TypeOK
  <2> QED
    BY <1>7, <2>1, <2>2, <2>4, <2>5, <2>6, <2>7 DEF Transaction
<1> QED
  BY <1>1, <1>2, <1>3, <1>4, <1>7 DEF Next

-----------------------------------------------------------------------------
\* One transaction per id.

LEMMA HeldInit == Init => IdsAreHeld /\ BroadcastOnce
  BY IdleType DEF Init, IdsAreHeld, BroadcastOnce

LEMMA HeldStep == TypeOK /\ IdsAreHeld /\ BroadcastOnce /\ [Next]_vars => IdsAreHeld' /\ BroadcastOnce'
<1> SUFFICES ASSUME TypeOK, IdsAreHeld, BroadcastOnce, [Next]_vars
             PROVE  IdsAreHeld' /\ BroadcastOnce'
  OBVIOUS
<1>0. /\ frames \in [Readings -> Nat]
      /\ \A j \in Jobs : job[j].mine \in SUBSET Readings
  BY DEF TypeOK, JobType
<1>1. CASE UNCHANGED <<job, stored, frames>>
  BY <1>1 DEF IdsAreHeld, BroadcastOnce
\* A step of one job that writes no row and broadcasts none.
<1>2. ASSUME NEW j \in Jobs, UNCHANGED <<stored, frames>>,
             \A k \in Jobs \ {j} : job'[k] = job[k],
             \/ job'[j].mine = {} /\ job'[j].pc # "broadcast"
             \/ /\ job'[j].mine = job[j].mine
                /\ job[j].pc \in {"insert", "fallback"}
                /\ job'[j].pc \in {"insert", "fallback"}
      PROVE  IdsAreHeld' /\ BroadcastOnce'
  BY <1>2 DEF IdsAreHeld, BroadcastOnce
<1>3. ASSUME NEW f \in Flushers, FlushStep(f)
      PROVE  IdsAreHeld' /\ BroadcastOnce'
  <2>1. f \in Jobs
    BY DEF Jobs
  <2>2. CASE FlushCall(f)
    <3>1. job[f].mine = {} /\ UNCHANGED <<stored, frames>>
      BY <2>1, <2>2 DEF FlushCall, IdsAreHeld
    <3>2. /\ job'[f].mine = job[f].mine /\ job'[f].pc # "broadcast"
          /\ \A k \in Jobs \ {f} : job'[k] = job[k]
      BY <2>2, FlushCallTurns DEF Turns
    <3> QED
      BY <1>2, <2>1, <3>1, <3>2
  <2>3. CASE FlushTake(f)
    <3>1. job[f].mine = {} /\ UNCHANGED <<stored, frames>>
      BY <2>1, <2>3 DEF FlushTake, IdsAreHeld
    <3>2. /\ job'[f].mine = job[f].mine /\ job'[f].pc # "broadcast"
          /\ \A k \in Jobs \ {f} : job'[k] = job[k]
      BY <2>3, FlushTakeTurns DEF Turns
    <3> QED
      BY <1>2, <2>1, <3>1, <3>2
  <2>4. CASE FlushReturn(f)
    BY <1>2, <2>1, <2>4, FlushReturnTurns DEF FlushReturn, Turns, IdsAreHeld
  <2> QED
    BY <1>3, <2>2, <2>3, <2>4 DEF FlushStep
<1>4. ASSUME NEW p \in Pollers, Poll(p)
      PROVE  IdsAreHeld' /\ BroadcastOnce'
  <2>1. p \in Jobs
    BY DEF Jobs
  <2>2. job[p].mine = {} /\ UNCHANGED <<stored, frames>>
    BY <1>4, <2>1 DEF Poll, IdsAreHeld
  <2>3. job'[p].mine = job[p].mine /\ job'[p].pc # "broadcast" /\ \A k \in Jobs \ {p} : job'[k] = job[k]
    BY <1>4, PollTurns DEF Turns
  <2> QED
    BY <1>2, <2>1, <2>2, <2>3
<1>5. ASSUME NEW j \in Jobs, RollBack(j) \/ GiveUpRow(j)
      PROVE  IdsAreHeld' /\ BroadcastOnce'
  <2>1. CASE RollBack(j)
    BY <1>2, <2>1, OverEnds DEF RollBack, Ends, Turns
  <2>2. CASE GiveUpRow(j)
    BY <1>2, <2>2, GiveUpRowTurns DEF GiveUpRow, Turns
  <2> QED
    BY <1>5, <2>1, <2>2
<1>6. ASSUME NEW j \in Jobs, Transaction(j) \/ Failure(j)
      PROVE  IdsAreHeld' /\ BroadcastOnce'
  <2>1. CASE Prepare(j)
    <3>1. job[j].mine = {} /\ UNCHANGED <<stored, frames>>
      BY <2>1 DEF Prepare, IdsAreHeld
    <3>2. job'[j].mine \in {{}, job[j].mine} /\ job'[j].pc # "broadcast" /\ \A k \in Jobs \ {j} : job'[k] = job[k]
      BY <2>1, PrepareTurns DEF Ends, Turns
    <3> QED
      BY <1>2, <3>1, <3>2
  <2>2. CASE InsertRow(j)
    <3> DEFINE r == NextRow(j)
    <3>1. \A k \in Jobs \ {j} : r \notin job[k].mine
      BY <2>2 DEF InsertRow, WaitsFor
    <3>2. /\ r \in job[j].todo /\ r \in Readings /\ job[j].pc \in {"insert", "fallback"}
          /\ UNCHANGED <<stored, frames>>
      BY <2>2, InsertRowTurns DEF InsertRow, Inserting, TypeOK, JobType
    <3>3. CASE /\ r \notin stored
               /\ Turns(j, job[j].pc, job[j].asked, job[j].batch, job[j].todo \ {r}, job[j].mine \cup {r})
      BY <3>1, <3>2, <3>3 DEF Turns, IdsAreHeld, BroadcastOnce
    <3>4. CASE \/ Turns(j, "fallback", job[j].asked, job[j].batch, job[j].batch, {})
               \/ Turns(j, job[j].pc, job[j].asked, job[j].batch, job[j].todo \ {r}, job[j].mine)
      BY <1>2, <3>2, <3>4 DEF Turns
    <3> QED
      BY <2>2, <3>3, <3>4, InsertRowTurns
  <2>4. CASE CommitBatch(j)
    <3>1. /\ job[j].pc \in {"insert", "fallback"} /\ stored' = stored \cup job[j].mine /\ frames' = frames
          /\ job'[j].pc = "broadcast" /\ job'[j].mine = job[j].mine
          /\ job'[j].todo \in {{}, job[j].mine}
          /\ \A k \in Jobs \ {j} : job'[k] = job[k]
      BY <2>4, CommitBatchTurns DEF CommitBatch, Turns
    <3>2. \A r \in job[j].mine : r \in Readings /\ r \notin stored /\ frames[r] = 0
      BY <1>0, <3>1 DEF IdsAreHeld, BroadcastOnce
    <3>3. BroadcastOnce'
      BY <1>0, <3>1, <3>2 DEF BroadcastOnce
    <3>4. IdsAreHeld'
      BY <3>1, <3>2 DEF IdsAreHeld
    <3> QED
      BY <3>3, <3>4
  <2>5. CASE Broadcast(j)
    <3> DEFINE r == NextRow(j)
    <3>1. job[j].pc = "broadcast" /\ stored' = stored
      BY <2>5 DEF Broadcast
    <3>2. CASE Ends(j) /\ frames' = frames
      BY <1>2, <3>1, <3>2 DEF Ends, Turns
    <3>3. CASE /\ r \in job[j].todo /\ r \in Readings
               /\ frames' = [frames EXCEPT ![r] = @ + 1]
               /\ Turns(j, "broadcast", job[j].asked, job[j].batch, job[j].todo \ {r}, job[j].mine)
      <4> HIDE DEF r
      <4>1. r \in stored /\ r \in job[j].mine /\ frames[r] = 0
        BY <3>1, <3>3 DEF IdsAreHeld
      <4>2. frames'[r] = 1 /\ \A s \in Readings \ {r} : frames'[s] = frames[s]
        BY <1>0, <3>3, <4>1
      <4>3. BroadcastOnce'
        BY <3>1, <4>1, <4>2 DEF BroadcastOnce
      <4>4. \A k \in Jobs \ {j} : r \notin job[k].mine
        BY <4>1 DEF IdsAreHeld
      <4>5. IdsAreHeld'
        <5>1. /\ job'[j].pc = "broadcast" /\ job'[j].mine = job[j].mine
              /\ job'[j].todo = job[j].todo \ {r} /\ \A k \in Jobs \ {j} : job'[k] = job[k]
          BY <3>3 DEF Turns
        <5>2. \A k \in Jobs : job'[k].pc = job[k].pc /\ job'[k].mine = job[k].mine
          BY <3>1, <5>1
        <5>3. \A k \in Jobs : job'[k].pc = "broadcast" =>
                job'[k].todo \subseteq job[k].todo /\ r \notin job'[k].todo
          BY <4>4, <5>1, <5>2 DEF IdsAreHeld
        <5>4. \A k \in Jobs : job[k].pc = "broadcast" => job[k].todo \subseteq Readings
          BY DEF TypeOK, JobType
        <5> QED
          BY <3>1, <4>2, <5>2, <5>3, <5>4 DEF IdsAreHeld
      <4> QED
        BY <4>3, <4>5
    <3> QED
      BY <2>5, <3>2, <3>3, BroadcastTurns
  <2>6. CASE DeadlockVictim(j)
    BY <1>5, <2>6 DEF DeadlockVictim
  <2>7. CASE Failure(j)
    BY <1>5, <2>7 DEF Failure
  <2> QED
    BY <1>6, <2>1, <2>2, <2>4, <2>5, <2>6, <2>7 DEF Transaction
<1> QED
  BY <1>1, <1>3, <1>4, <1>6 DEF Next, vars, Environment, Record, Deliver

\* ingestion_pipeline.py, broadcast after the commit: the pipeline shows no row twice, and
\* none that is not stored, however many batches carry it and wherever one of them fails.
\* (What MQTT shows as provisional before it is stored is apart from this.)
THEOREM ShownOnce == Spec => []BroadcastOnce
  BY TypesInit, TypesStep, HeldInit, HeldStep, PTL DEF Spec

-----------------------------------------------------------------------------
\* The promise of the pipeline.

Broadcasting == {j \in Jobs : job[j].pc = "broadcast"}

Pending == UNION {job[j].todo : j \in Broadcasting}

LEMMA PendingRows ==
  /\ Broadcasting \subseteq Jobs /\ Broadcasting' \subseteq Jobs
  /\ \A r : r \in Pending <=> \E k \in Broadcasting : r \in job[k].todo
  /\ \A r : r \in Pending' <=> \E k \in Broadcasting' : r \in job'[k].todo
  BY DEF Pending, Broadcasting

LEMMA FeedNext ==
  /\ Feed!Next <=> Feed!Store \/ Feed!Show \/ Feed!Lose \/ Feed!Preview
  /\ Feed!Store <=> \E batch \in SUBSET (Readings \ stored) :
                      /\ batch # {}
                      /\ stored' = stored \cup batch
                      /\ Pending' \in {Pending, Pending \cup batch}
                      /\ UNCHANGED <<frames, previews>>
  /\ Feed!Show <=> \E r \in Pending :
                      /\ Pending' = Pending \ {r}
                      /\ frames' = [frames EXCEPT ![r] = @ + 1]
                      /\ UNCHANGED <<stored, previews>>
  /\ Feed!Lose <=> Pending' \in SUBSET Pending /\ UNCHANGED <<stored, frames, previews>>
  /\ Feed!Preview <=> \E r \in Readings \ previews :
                        previews' = previews \cup {r} /\ UNCHANGED <<stored, Pending, frames>>
  /\ UNCHANGED Feed!vars <=> UNCHANGED <<stored, Pending, frames, previews>>
  BY DEF Feed!Next, Feed!Store, Feed!Show, Feed!Lose, Feed!Preview, Feed!vars, Pending, Broadcasting

LEMMA FeedInit == Init => Feed!Init
<1> SUFFICES ASSUME Init
             PROVE  Pending = {}
  BY DEF Init, Feed!Init, Pending, Broadcasting
<1>1. Broadcasting = {}
  BY IdleType DEF Init, Broadcasting
<1> QED
  BY <1>1 DEF Pending

\* A step of a job that is not broadcasting before or after it adds and shows nothing.
LEMMA FeedStutter ==
  ASSUME NEW j \in Jobs, UNCHANGED <<stored, frames, previews>>,
         job[j].pc # "broadcast", job'[j].pc # "broadcast",
         \A k \in Jobs \ {j} : job'[k] = job[k]
  PROVE  UNCHANGED Feed!vars
<1>1. Broadcasting' = Broadcasting /\ \A k \in Broadcasting : job'[k] = job[k]
  BY DEF Broadcasting
<1>2. Pending' = Pending
  BY <1>1 DEF Pending
<1> QED
  BY <1>2, FeedNext

\* A commit stores what the transaction has inserted, if that is anything, and has all of it
\* or nothing to show.
LEMMA FeedCommit ==
  ASSUME TypeOK, IdsAreHeld, NEW j \in Jobs, CommitBatch(j)
  PROVE  [Feed!Next]_(Feed!vars)
<1> DEFINE mine == job[j].mine
<1>1. PICK shown \in {{}, mine} :
        /\ job[j].pc \in {"insert", "fallback"} /\ stored' = stored \cup mine
        /\ UNCHANGED <<frames, previews>>
        /\ job'[j].pc = "broadcast" /\ job'[j].todo = shown
        /\ \A k \in Jobs \ {j} : job'[k] = job[k]
  BY CommitBatchTurns DEF CommitBatch, Turns
<1>2. mine \in SUBSET (Readings \ stored)
  BY <1>1 DEF IdsAreHeld, TypeOK, JobType
<1>3. Broadcasting' = Broadcasting \cup {j} /\ \A k \in Broadcasting : job'[k] = job[k]
  BY <1>1 DEF Broadcasting
<1>4. Pending' = Pending \cup shown
  BY <1>1, <1>3 DEF Pending
<1> HIDE DEF mine
<1>5. CASE mine = {}
  BY <1>1, <1>4, <1>5, FeedNext
<1>6. CASE mine # {}
  BY <1>1, <1>2, <1>4, <1>6, FeedNext
<1> QED
  BY <1>5, <1>6

\* A broadcast shows a row of one commit; no other transaction holds it.
LEMMA FeedBroadcast ==
  ASSUME TypeOK, IdsAreHeld, NEW j \in Jobs, Broadcast(j)
  PROVE  [Feed!Next]_(Feed!vars)
<1> DEFINE r == NextRow(j)
<1>1. job[j].pc = "broadcast" /\ UNCHANGED <<stored, previews>>
  BY DEF Broadcast
<1>2. CASE job[j].todo = {} /\ Ends(j) /\ frames' = frames
  <2>1. job'[j].pc # "broadcast" /\ \A k \in Jobs \ {j} : job'[k] = job[k]
    BY <1>2 DEF Ends, Turns
  <2>2. Broadcasting' = Broadcasting \ {j}
    BY <2>1 DEF Broadcasting
  <2>3. Pending' = Pending
    BY <1>2, <2>1, <2>2, PendingRows
  <2> QED
    BY <1>1, <1>2, <2>3, FeedNext
<1>3. CASE /\ r \in job[j].todo
           /\ frames' = [frames EXCEPT ![r] = @ + 1]
           /\ Turns(j, "broadcast", job[j].asked, job[j].batch, job[j].todo \ {r}, job[j].mine)
  <2> HIDE DEF r
  <2>1. /\ job'[j].pc = "broadcast" /\ job'[j].todo = job[j].todo \ {r}
        /\ \A k \in Jobs \ {j} : job'[k] = job[k]
    BY <1>3 DEF Turns
  <2>2. Broadcasting' = Broadcasting /\ j \in Broadcasting
    BY <1>1, <2>1 DEF Broadcasting
  <2>3. \A k \in Broadcasting \ {j} : r \notin job[k].todo
    BY <1>1, <1>3 DEF IdsAreHeld, Broadcasting
  <2>4. Pending' = Pending \ {r} /\ r \in Pending
    <3>1. \A s : s \in Pending' <=> s \in Pending /\ s # r
      BY <1>3, <2>1, <2>2, <2>3, PendingRows
    <3>2. r \in Pending
      BY <1>3, <2>2, PendingRows
    <3> QED
      BY <3>1, <3>2
  <2> QED
    BY <1>1, <1>3, <2>4, FeedNext
<1> QED
  BY <1>2, <1>3, BroadcastTurns

\* A call that fails has nothing more to show.
LEMMA FeedRollBack ==
  ASSUME NEW j \in Jobs, TypeOK, RollBack(j)
  PROVE  Feed!Lose
<1>1. /\ UNCHANGED <<stored, frames, previews>> /\ job'[j].pc # "broadcast"
      /\ \A k \in Jobs \ {j} : job'[k] = job[k]
  BY OverEnds DEF RollBack, Ends, Turns
<1>2. Broadcasting' = Broadcasting \ {j}
  BY <1>1 DEF Broadcasting
<1>3. Pending' \in SUBSET Pending
  BY <1>1, <1>2, PendingRows
<1> QED
  BY <1>1, <1>3, FeedNext

\* A message is delivered once, so a reading is shown once as provisional.
LEMMA FeedDeliver ==
  ASSUME TypeOK, Deliver
  PROVE  Feed!Preview
<1>1. Pending' = Pending
  BY DEF Deliver, Pending, Broadcasting
<1>2. PICK r \in delivered + 1 .. recorded :
        previews' = previews \cup {r} /\ UNCHANGED <<stored, frames>>
  BY DEF Deliver
<1>3. r \in Readings \ previews
  BY LimitsAssumption, <1>2 DEF TypeOK, Readings
<1> QED
  BY <1>1, <1>2, <1>3, FeedNext

LEMMA FeedStep == TypeOK /\ IdsAreHeld /\ [Next]_vars => [Feed!Next]_(Feed!vars)
<1> SUFFICES ASSUME TypeOK, IdsAreHeld, [Next]_vars
             PROVE  [Feed!Next]_(Feed!vars)
  OBVIOUS
<1>1. ASSUME UNCHANGED <<job, stored, frames, previews>>
      PROVE  UNCHANGED Feed!vars
  BY <1>1, FeedNext DEF Pending, Broadcasting
<1>2. ASSUME NEW f \in Flushers, FlushStep(f)
      PROVE  UNCHANGED Feed!vars
  <2>1. f \in Jobs
    BY DEF Jobs
  <2>2. CASE FlushCall(f)
    BY <2>1, <2>2, FlushCallTurns, FeedStutter DEF FlushCall, Turns
  <2>3. CASE FlushTake(f)
    BY <2>1, <2>3, FlushTakeTurns, FeedStutter DEF FlushTake, Turns
  <2>4. CASE FlushReturn(f)
    BY <2>1, <2>4, FlushReturnTurns, FeedStutter DEF FlushReturn, Turns
  <2> QED
    BY <1>2, <2>2, <2>3, <2>4 DEF FlushStep
<1>3. ASSUME NEW p \in Pollers, Poll(p)
      PROVE  UNCHANGED Feed!vars
  <2>1. p \in Jobs
    BY DEF Jobs
  <2> QED
    BY <1>3, <2>1, PollTurns, FeedStutter DEF Poll, Turns
<1>5. ASSUME NEW j \in Jobs, GiveUpRow(j)
      PROVE  UNCHANGED Feed!vars
  <2>1. /\ job[j].pc # "broadcast" /\ job'[j].pc # "broadcast"
        /\ UNCHANGED <<stored, frames, previews>> /\ \A k \in Jobs \ {j} : job'[k] = job[k]
    BY <1>5, GiveUpRowTurns DEF GiveUpRow, Turns
  <2> QED
    BY <2>1, FeedStutter
<1>6. ASSUME NEW j \in Jobs, Transaction(j) \/ Failure(j)
      PROVE  [Feed!Next]_(Feed!vars)
  <2>1. CASE Prepare(j)
    <3>1. /\ job[j].pc # "broadcast" /\ job'[j].pc # "broadcast"
          /\ UNCHANGED <<stored, frames, previews>> /\ \A k \in Jobs \ {j} : job'[k] = job[k]
      BY <2>1, PrepareTurns DEF Prepare, Ends, Turns
    <3> QED
      BY <3>1, FeedStutter
  <2>2. CASE InsertRow(j)
    <3>1. /\ job[j].pc # "broadcast" /\ job'[j].pc # "broadcast"
          /\ UNCHANGED <<stored, frames, previews>> /\ \A k \in Jobs \ {j} : job'[k] = job[k]
      BY <2>2, InsertRowTurns DEF InsertRow, Inserting, Turns
    <3> QED
      BY <3>1, FeedStutter
  <2>4. CASE CommitBatch(j)
    BY <2>4, FeedCommit
  <2>5. CASE Broadcast(j)
    BY <2>5, FeedBroadcast
  <2>6. CASE DeadlockVictim(j)
    BY <1>5, <2>6, FeedRollBack, FeedNext DEF DeadlockVictim
  <2>7. CASE Failure(j)
    BY <1>5, <2>7, FeedRollBack, FeedNext DEF Failure
  <2> QED
    BY <1>6, <2>1, <2>2, <2>4, <2>5, <2>6, <2>7 DEF Transaction
<1> QED
  BY <1>1, <1>2, <1>3, <1>6, FeedDeliver, FeedNext DEF Next, vars, Environment, Record

\* ingestion_pipeline.py, insert, commit, broadcast: whatever flushes, polls, deadlocks and
\* failed transactions write at the same time, to its readers the pipeline adds rows that
\* nobody has stored, one batch at a time, and shows a row once at most, after its commit;
\* a failed broadcast shows the rest of its batch to nobody.
THEOREM FeedPromise == Spec => ReadingFeedSpec
<1>1. Spec => [](TypeOK /\ IdsAreHeld)
  BY TypesInit, TypesStep, HeldInit, HeldStep, PTL DEF Spec
<1>2. Spec => Feed!Init /\ [][Feed!Next]_(Feed!vars)
  BY <1>1, FeedInit, FeedStep, PTL DEF Spec
<1> QED
  BY <1>2 DEF ReadingFeedSpec, Feed!Spec

-----------------------------------------------------------------------------
\* The account of a batch.

LEMMA AccountInit == Init => BatchAccounted
  BY IdleType DEF Init, BatchAccounted

LEMMA AccountStep == TypeOK /\ BatchAccounted /\ [Next]_vars => BatchAccounted'
<1> SUFFICES ASSUME TypeOK, BatchAccounted, [Next]_vars
             PROVE  BatchAccounted'
  OBVIOUS
<1>1. CASE UNCHANGED <<job, stored, logged>>
  BY <1>1 DEF BatchAccounted, Account
<1>2. ASSUME NEW j \in Jobs, stored \subseteq stored', logged \subseteq logged',
             \A k \in Jobs \ {j} : job'[k] = job[k],
             job'[j].batch \subseteq stored' \cup logged' \cup Account(j)'
      PROVE  BatchAccounted'
  BY <1>2 DEF BatchAccounted, Account
<1>3. ASSUME NEW j \in Jobs, Ends(j), stored \subseteq stored', logged \subseteq logged'
      PROVE  BatchAccounted'
  BY <1>2, <1>3 DEF Ends, Turns
<1>4. ASSUME NEW f \in Flushers, FlushStep(f)
      PROVE  BatchAccounted'
  <2>1. f \in Jobs
    BY DEF Jobs
  <2>2. CASE FlushCall(f)
    BY <1>2, <2>1, <2>2, FlushCallTurns DEF FlushCall, Turns, BatchAccounted, Account
  <2>3. CASE FlushTake(f)
    BY <1>2, <2>1, <2>3, FlushTakeTurns DEF FlushTake, Turns, Account
  <2>4. CASE FlushReturn(f)
    BY <1>2, <2>1, <2>4, FlushReturnTurns DEF FlushReturn, Turns
  <2> QED
    BY <1>4, <2>2, <2>3, <2>4 DEF FlushStep
<1>5. ASSUME NEW p \in Pollers, Poll(p)
      PROVE  BatchAccounted'
  <2>1. p \in Jobs
    BY DEF Jobs
  <2> QED
    BY <1>2, <1>5, <2>1, PollTurns DEF Poll, Turns, Account
<1>6. ASSUME NEW j \in Jobs, RollBack(j)
      PROVE  BatchAccounted'
  BY <1>3, <1>6, OverEnds DEF RollBack
<1>7. ASSUME NEW j \in Jobs, GiveUpRow(j)
      PROVE  BatchAccounted'
  <2>1. /\ stored' = stored /\ logged' = logged \cup {NextRow(j)} /\ job[j].pc = "fallback"
        /\ Turns(j, job[j].pc, job[j].asked, job[j].batch, job[j].todo \ {NextRow(j)}, job[j].mine)
    BY <1>7, GiveUpRowTurns DEF GiveUpRow
  <2> QED
    BY <1>2, <2>1 DEF Turns, BatchAccounted, Account
<1>8. ASSUME NEW j \in Jobs, Transaction(j) \/ Failure(j)
      PROVE  BatchAccounted'
  <2>1. CASE Prepare(j)
    <3>1. /\ UNCHANGED <<stored, logged>>
          /\ IF job[j].batch \subseteq stored THEN Ends(j)
             ELSE Turns(j, "insert", job[j].asked, job[j].batch, job[j].batch \ stored, job[j].mine)
      BY <2>1, PrepareTurns DEF Prepare
    <3> QED
      BY <1>2, <1>3, <3>1 DEF Turns, Account
  <2>2. CASE InsertRow(j)
    <3> DEFINE r == NextRow(j)
    <3>1. job[j].pc \in {"insert", "fallback"} /\ UNCHANGED <<stored, logged>>
      BY <2>2 DEF InsertRow, Inserting
    <3>2. CASE Turns(j, job[j].pc, job[j].asked, job[j].batch, job[j].todo \ {r}, job[j].mine \cup {r})
      BY <1>2, <3>1, <3>2 DEF Turns, BatchAccounted, Account
    <3>3. CASE Turns(j, "fallback", job[j].asked, job[j].batch, job[j].batch, {})
      BY <1>2, <3>1, <3>3 DEF Turns, Account
    <3>4. CASE /\ r \in stored
               /\ Turns(j, job[j].pc, job[j].asked, job[j].batch, job[j].todo \ {r}, job[j].mine)
      BY <1>2, <3>1, <3>4 DEF Turns, BatchAccounted, Account
    <3> QED
      BY <2>2, <3>2, <3>3, <3>4, InsertRowTurns
  <2>4. CASE CommitBatch(j)
    <3>1. /\ job[j].pc \in {"insert", "fallback"} /\ job[j].todo = {}
          /\ stored' = stored \cup job[j].mine /\ logged' = logged
          /\ job'[j].batch = job[j].batch /\ \A k \in Jobs \ {j} : job'[k] = job[k]
      BY <2>4, CommitBatchTurns DEF CommitBatch, Turns
    <3> QED
      BY <1>2, <3>1 DEF BatchAccounted, Account
  <2>5. CASE Broadcast(j)
    <3>1. job[j].pc = "broadcast" /\ UNCHANGED <<stored, logged>>
      BY <2>5 DEF Broadcast
    <3> QED
      BY <1>2, <1>3, <2>5, <3>1, BroadcastTurns DEF Turns, BatchAccounted, Account
  <2>6. CASE DeadlockVictim(j)
    BY <1>6, <1>7, <2>6 DEF DeadlockVictim
  <2>7. CASE Failure(j)
    BY <1>6, <1>7, <2>7 DEF Failure
  <2> QED
    BY <1>8, <2>1, <2>2, <2>4, <2>5, <2>6, <2>7 DEF Transaction
<1> QED
  BY <1>1, <1>4, <1>5, <1>8 DEF Next, vars, Environment, Record, Deliver

-----------------------------------------------------------------------------
\* The barrier.

Barrier == LockExcludes /\ AskedAccounted

LEMMA BarrierInit == Init => Barrier
<1> SUFFICES ASSUME Init, NEW f \in Flushers
             PROVE  job[f] = Idle /\ lock = Null /\ Null \notin Flushers
  BY IdleType DEF Init, Barrier, LockExcludes, AskedAccounted, Working
<1> QED
  BY WorkersAssumption DEF Init, Jobs

LEMMA BarrierStep == TypeOK /\ BatchAccounted /\ Barrier /\ [Next]_vars => Barrier'
<1> SUFFICES ASSUME TypeOK, BatchAccounted, LockExcludes, AskedAccounted, [Next]_vars
             PROVE  LockExcludes' /\ AskedAccounted'
  BY DEF Barrier
<1>0. Flushers \subseteq Jobs /\ Null \notin Flushers /\ \A p \in Pollers : p \notin Flushers
  BY WorkersAssumption DEF Jobs
<1>1. ASSUME UNCHANGED <<job, lock>>, items \subseteq items', stored' = stored, logged' = logged
      PROVE  LockExcludes' /\ AskedAccounted'
  BY <1>1 DEF LockExcludes, AskedAccounted, InFlight
\* A step of a transaction that goes on, and every step of a poll.
<1>2. ASSUME NEW j \in Jobs, UNCHANGED <<lock, items>>, stored \subseteq stored', logged \subseteq logged',
             \A k \in Jobs \ {j} : job'[k] = job[k],
             j \in Flushers =>
               /\ job[j].pc \in Working /\ job'[j].pc \in Working
               /\ job'[j].batch = job[j].batch /\ job'[j].asked = job[j].asked
      PROVE  LockExcludes' /\ AskedAccounted'
  <2>1. \A f \in Flushers : /\ job'[f].batch = job[f].batch /\ job'[f].asked = job[f].asked
                            /\ job'[f].pc = job[f].pc \/ (job[f].pc \in Working /\ job'[f].pc \in Working)
    BY <1>0, <1>2
  <2>2. InFlight' = InFlight
    BY <2>1 DEF InFlight
  <2> QED
    BY <1>2, <2>1, <2>2 DEF LockExcludes, AskedAccounted, Working
\* A flush that ends has stored or logged its batch.
<1>3. ASSUME NEW j \in Jobs, Ends(j), job[j].pc \in Working, lock' = Release(j), items' = items,
             stored \subseteq stored', logged \subseteq logged',
             j \in Flushers => job[j].batch \subseteq stored' \cup logged'
      PROVE  LockExcludes' /\ AskedAccounted'
  <2>1. CASE j \notin Flushers
    BY <1>2, <1>3, <2>1 DEF Release, Ends, Turns
  <2>2. CASE j \in Flushers
    <3>1. /\ lock = j /\ lock' = Null
          /\ job'[j].pc = "returned" /\ job'[j].asked = job[j].asked /\ job'[j].batch = {}
          /\ \A f \in Flushers \ {j} : job'[f] = job[f]
      BY <1>0, <1>3, <2>2 DEF LockExcludes, Release, Ends, Turns
    <3>2. LockExcludes'
      BY <1>0, <2>2, <3>1 DEF LockExcludes, Working
    <3>3. InFlight \subseteq InFlight' \cup stored' \cup logged'
      BY <1>3, <2>2, <3>1 DEF InFlight
    <3>4. job[j].asked \subseteq stored' \cup logged'
      BY <1>3, <2>2 DEF AskedAccounted
    <3>5. AskedAccounted'
      BY <1>3, <2>2, <3>1, <3>3, <3>4 DEF AskedAccounted, Working
    <3> QED
      BY <3>2, <3>5
  <2> QED
    BY <2>1, <2>2
<1>4. ASSUME NEW f \in Flushers, FlushStep(f)
      PROVE  LockExcludes' /\ AskedAccounted'
  <2>1. CASE FlushCall(f)
    <3>1. /\ job[f].pc = "idle" /\ UNCHANGED <<items, lock, stored, logged>>
          /\ job'[f].pc = "lock" /\ job'[f].asked = items \cup InFlight /\ job'[f].batch = job[f].batch
          /\ \A g \in Flushers \ {f} : job'[g] = job[g]
      BY <1>0, <2>1, FlushCallTurns DEF FlushCall, Turns
    <3>2. InFlight' = InFlight
      BY <3>1 DEF InFlight
    <3> QED
      BY <3>1, <3>2 DEF LockExcludes, AskedAccounted, Working
  <2>2. CASE FlushTake(f)
    <3>1. /\ job[f].pc = "lock" /\ lock = Null /\ lock' = f /\ items' = {} /\ UNCHANGED <<stored, logged>>
          /\ job'[f].pc = "prepare" /\ job'[f].asked = job[f].asked /\ job'[f].batch = items
          /\ \A g \in Flushers \ {f} : job'[g] = job[g]
      BY <1>0, <2>2, FlushTakeTurns DEF FlushTake, LockFree, Take, Turns
    <3>2. \A g \in Flushers : job[g].pc \notin Working /\ job[g].batch = {}
      BY <1>0, <3>1 DEF LockExcludes
    <3>3. InFlight = {} /\ InFlight' = items
      BY <3>1, <3>2 DEF InFlight
    <3>4. LockExcludes'
      BY <3>1, <3>2 DEF LockExcludes, Working
    <3>5. AskedAccounted'
      BY <3>1, <3>2, <3>3 DEF AskedAccounted, Working
    <3> QED
      BY <3>4, <3>5
  <2>3. CASE FlushReturn(f)
    <3>1. /\ job[f].pc = "returned" /\ UNCHANGED <<items, lock, stored, logged>>
          /\ job'[f].pc = "idle" /\ job'[f].batch = {}
          /\ \A g \in Flushers \ {f} : job'[g] = job[g]
      BY <1>0, <2>3, FlushReturnTurns DEF FlushReturn, Turns
    <3>2. InFlight' = InFlight
      BY <3>1 DEF InFlight, LockExcludes, Working
    <3> QED
      BY <3>1, <3>2 DEF LockExcludes, AskedAccounted, Working
  <2> QED
    BY <1>4, <2>1, <2>2, <2>3 DEF FlushStep
<1>5. ASSUME NEW p \in Pollers, Poll(p)
      PROVE  LockExcludes' /\ AskedAccounted'
  <2>1. p \in Jobs /\ p \notin Flushers
    BY <1>0 DEF Jobs
  <2> QED
    BY <1>2, <1>5, <2>1, PollTurns DEF Poll, Turns
<1>6. ASSUME NEW j \in Jobs, RollBack(j), job[j].pc \in Working
      PROVE  LockExcludes' /\ AskedAccounted'
  BY <1>3, <1>6, OverEnds DEF RollBack, GivenUp
<1>7. ASSUME NEW j \in Jobs, GiveUpRow(j)
      PROVE  LockExcludes' /\ AskedAccounted'
  BY <1>2, <1>7, GiveUpRowTurns DEF GiveUpRow, Turns, Working
<1>8. ASSUME NEW j \in Jobs, Transaction(j) \/ Failure(j)
      PROVE  LockExcludes' /\ AskedAccounted'
  <2>1. CASE Prepare(j)
    <3>1. /\ UNCHANGED <<stored, logged, items>> /\ job[j].pc = "prepare"
          /\ lock' = IF job[j].batch \subseteq stored THEN Release(j) ELSE lock
      BY <2>1 DEF Prepare
    <3>2. IF job[j].batch \subseteq stored THEN Ends(j)
          ELSE Turns(j, "insert", job[j].asked, job[j].batch, job[j].batch \ stored, job[j].mine)
      BY <2>1, PrepareTurns
    <3> QED
      BY <1>2, <1>3, <3>1, <3>2 DEF Turns, Working
  <2>2. CASE InsertRow(j)
    <3>1. job[j].pc \in {"insert", "fallback"} /\ UNCHANGED <<items, lock, stored, logged>>
      BY <2>2 DEF InsertRow, Inserting
    <3>2. /\ job'[j].pc \in {job[j].pc, "fallback"}
          /\ job'[j].batch = job[j].batch /\ job'[j].asked = job[j].asked
          /\ \A k \in Jobs \ {j} : job'[k] = job[k]
      BY <2>2, InsertRowTurns DEF Turns
    <3> QED
      BY <1>2, <3>1, <3>2 DEF Working
  <2>4. CASE CommitBatch(j)
    BY <1>2, <2>4, CommitBatchTurns DEF CommitBatch, Turns, Working
  <2>5. CASE Broadcast(j)
    <3>1. job[j].pc = "broadcast" /\ UNCHANGED <<items, stored, logged>>
      BY <2>5 DEF Broadcast
    <3>2. job[j].batch \subseteq stored \cup logged
      BY <3>1 DEF BatchAccounted, Account
    <3>3. CASE Ends(j) /\ lock' = Release(j)
      BY <1>3, <3>1, <3>2, <3>3 DEF Working
    <3>4. CASE /\ Turns(j, "broadcast", job[j].asked, job[j].batch, job[j].todo \ {NextRow(j)}, job[j].mine)
               /\ lock' = lock
      BY <1>2, <3>1, <3>4 DEF Turns, Working
    <3> QED
      BY <2>5, <3>3, <3>4, BroadcastTurns
  <2>6. CASE DeadlockVictim(j)
    BY <1>6, <1>7, <2>6 DEF DeadlockVictim, Working
  <2>7. CASE Failure(j)
    BY <1>6, <1>7, <2>7 DEF Failure, MayFail, Working
  <2> QED
    BY <1>8, <2>1, <2>2, <2>4, <2>5, <2>6, <2>7 DEF Transaction
<1> QED
  BY <1>1, <1>4, <1>5, <1>8 DEF Next, vars, Environment, Record, Deliver

\* ingest_buffer.py, flush() "is a barrier": when a flush returns, what was buffered when it
\* was called is stored or an error was logged for it, whoever wrote it.
THEOREM FlushIsBarrier == Spec => []FlushAccounts
<1>1. Barrier => FlushAccounts
  BY DEF Barrier, AskedAccounted, FlushAccounts
<1> QED
  BY <1>1, TypesInit, TypesStep, AccountInit, AccountStep, BarrierInit, BarrierStep, PTL DEF Spec

\* Every variable keeps its type.
THEOREM IngestionTypes == Spec => []TypeOK
  BY TypesInit, TypesStep, PTL DEF Spec
=============================================================================
