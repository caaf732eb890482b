----------------------------- MODULE Ingestion -----------------------------
(***************************************************************************)
(* The way of a reading into the database: ReadingBuffer of                *)
(* app/services/ingest_buffer.py with its flush barrier, and the batch     *)
(* transaction of app/services/ingestion_pipeline.py with its dedup, its   *)
(* row by row fallback and the broadcast that follows the commit.          *)
(*                                                                         *)
(* A flush (a stop, a cancel, the poller's timer, a closing broker link)   *)
(* writes what MQTT has delivered; a poll (the poller, a fetch-through)    *)
(* writes what Adafruit returns.  Both run the same transaction over the   *)
(* unique column adafruit_id, so an INSERT waits for another transaction   *)
(* that holds the same id, and PostgreSQL aborts one of the transactions   *)
(* that wait for each other.  A reading is named by the order in which the *)
(* machine recorded it; all are of one feed.                               *)
(***************************************************************************)
EXTENDS Naturals, FiniteSets, FiniteSetsExt

CONSTANTS
  Flushers,       \* threads that call BUFFER.flush()
  Pollers,        \* threads that call store_readings()
  MaxReadings,    \* bound on the readings recorded
  Limit,          \* IOT_HTTP_POLL_LIMIT: rows Adafruit returns for the feed
  Null,
  MaxFailures     \* bound on the transactions that fail for no reason of their own

ASSUME WorkersAssumption == Flushers \cap Pollers = {} /\ Null \notin Flushers
ASSUME LimitsAssumption == MaxReadings \in Nat /\ Limit \in Nat /\ MaxFailures \in Nat

VARIABLES
  recorded,    \* how many readings Adafruit holds
  delivered,   \* the newest reading MQTT has delivered
  items,       \* ReadingBuffer._items
  lock,        \* the holder of ReadingBuffer._write_lock
  job,         \* what each thread's flush or poll is doing
  stored,      \* committed rows of iot_readings
  logged,      \* readings given up with an error in the log
  frames,      \* how often each stored row was broadcast
  previews,    \* readings that MQTT has published as provisional
  failures     \* how many transactions or broadcasts have failed

vars == <<recorded, delivered, items, lock, job, stored, logged, frames, previews, failures>>

Readings == 1 .. MaxReadings
Jobs == Flushers \cup Pollers

Idle ==
  [pc |-> "idle", asked |-> {}, batch |-> {}, todo |-> {}, mine |-> {}]

Init ==
  /\ recorded = 0
  /\ delivered = 0
  /\ items = {}
  /\ lock = Null
  /\ job = [j \in Jobs |-> Idle]
  /\ stored = {}
  /\ logged = {}
  /\ frames = [r \in Readings |-> 0]
  /\ previews = {}
  /\ failures = 0

-----------------------------------------------------------------------------
(* The machine, the broker, the operator. *)

Record ==
  /\ recorded < MaxReadings
  /\ recorded' = recorded + 1
  /\ UNCHANGED <<delivered, items, lock, job, stored, logged, frames, previews, failures>>

\* QoS 0: a message comes once, in order, or not at all.  It is published as provisional
\* before anything is stored, and buffered.
Deliver ==
  \E r \in delivered + 1 .. recorded :
    /\ delivered' = r
    /\ previews' = previews \cup {r}
    /\ items' = items \cup {r}
    /\ UNCHANGED <<recorded, lock, job, stored, logged, frames, failures>>

-----------------------------------------------------------------------------
(* ReadingBuffer.flush *)

InFlight == UNION {job[f].batch : f \in Flushers}

\* `asked` remembers what was buffered, in the list or in a flush under way, at the call.
FlushCall(f) ==
  /\ job[f].pc = "idle"
  /\ job' = [job EXCEPT ![f].pc = "lock", ![f].asked = items \cup InFlight]
  /\ UNCHANGED <<recorded, delivered, items, lock, stored, logged, frames, previews, failures>>

\* Mutant: flushes do not wait for each other.
LockFreeAlways == TRUE

LockFree == lock = Null

Take == items

FlushTake(f) ==
  /\ job[f].pc = "lock"
  /\ LockFree
  /\ lock' = f
  /\ items' = items \ Take
  /\ job' = [job EXCEPT ![f].pc = "prepare", ![f].batch = Take]
  /\ UNCHANGED <<recorded, delivered, stored, logged, frames, previews, failures>>

FlushReturn(f) ==
  /\ job[f].pc = "returned"
  /\ job' = [job EXCEPT ![f] = Idle]
  /\ UNCHANGED <<recorded, delivered, items, lock, stored, logged, frames, previews, failures>>

\* The worker's call is over: the write lock is released, and a flush has returned.
Over(j) == IF j \in Flushers THEN [Idle EXCEPT !.pc = "returned", !.asked = job[j].asked] ELSE Idle

Release(j) == IF j \in Flushers THEN Null ELSE lock

-----------------------------------------------------------------------------
(* fetch_all_feeds *)

\* Mutant: one row too few is fetched.
WindowShort == {r \in Readings : r <= recorded /\ r + Limit > recorded + 1}

\* The newest Limit rows.
Window == {r \in Readings : r <= recorded /\ r + Limit > recorded}

Poll(p) ==
  /\ job[p].pc = "idle"
  /\ Window # {}
  /\ job' = [job EXCEPT ![p].pc = "prepare", ![p].batch = Window]
  /\ UNCHANGED <<recorded, delivered, items, lock, stored, logged, frames, previews, failures>>

-----------------------------------------------------------------------------
(* ingest_normalized_batch_rows *)

\* The stored ids are read; a batch without a fresh row is done.
Prepare(j) ==
  LET fresh == job[j].batch \ stored
  IN  /\ job[j].pc = "prepare"
      /\ job' = [job EXCEPT ![j] = IF fresh = {} THEN Over(j) ELSE [@ EXCEPT !.pc = "insert", !.todo = fresh]]
      /\ lock' = IF fresh = {} THEN Release(j) ELSE lock
      /\ UNCHANGED <<recorded, delivered, items, stored, logged, frames, previews, failures>>

\* Rows go in batch order: the buffer's oldest first, Adafruit's newest first.
NextRow(j) == IF j \in Flushers THEN Min(job[j].todo) ELSE Max(job[j].todo)

Inserting(j) == job[j].pc \in {"insert", "fallback"} /\ job[j].todo # {}

WaitsFor(j, k) == j # k /\ Inserting(j) /\ NextRow(j) \in job[k].mine

\* Mutant: the fallback counts a row that another transaction stored as its own.
SkipAsMine(j, r) == [job[j] EXCEPT !.todo = @ \ {r}, !.mine = @ \cup {r}]

Skip(j, r) == [job[j] EXCEPT !.todo = @ \ {r}]

\* The id is free: the row is inserted.  It is taken: IntegrityError, the batch is rolled
\* back and retried row by row, each in a savepoint, where a taken id is skipped.
InsertRow(j) ==
  LET r == NextRow(j)
  IN  /\ Inserting(j)
      /\ \A k \in Jobs : ~ WaitsFor(j, k)
      /\ job' = [job EXCEPT ![j] =
           IF r \notin stored
           THEN [@ EXCEPT !.todo = job[j].todo \ {r}, !.mine = job[j].mine \cup {r}]
           ELSE IF job[j].pc = "insert"
                THEN [@ EXCEPT !.pc = "fallback", !.todo = job[j].batch, !.mine = {}]
                ELSE Skip(j, r)]
      /\ UNCHANGED <<recorded, delivered, items, lock, stored, logged, frames, previews, failures>>

\* Another error on one row of the fallback: the savepoint is rolled back, the row logged.
GiveUpRow(j) ==
  /\ job[j].pc = "fallback"
  /\ job[j].todo # {}
  /\ job' = [job EXCEPT ![j].todo = @ \ {NextRow(j)}]
  /\ logged' = logged \cup {NextRow(j)}
  /\ UNCHANGED <<recorded, delivered, items, lock, stored, frames, previews>>

\* The batch has one session, whose watchers are to see its rows, or none.
CommitBatch(j) ==
  /\ job[j].pc \in {"insert", "fallback"}
  /\ job[j].todo = {}
  /\ stored' = stored \cup job[j].mine
  /\ \E shown \in {{}, job[j].mine} :
       job' = [job EXCEPT ![j].pc = "broadcast", ![j].todo = shown]
  /\ UNCHANGED <<recorded, delivered, items, lock, logged, frames, previews, failures>>

\* broadcast_update of the next row, after the last of which the call is over.
Broadcast(j) ==
  /\ job[j].pc = "broadcast"
  /\ IF job[j].todo = {}
     THEN /\ job' = [job EXCEPT ![j] = Over(j)]
          /\ lock' = Release(j)
          /\ UNCHANGED frames
     ELSE /\ frames' = [frames EXCEPT ![NextRow(j)] = @ + 1]
          /\ job' = [job EXCEPT ![j].todo = @ \ {NextRow(j)}]
          /\ UNCHANGED lock
  /\ UNCHANGED <<recorded, delivered, items, stored, logged, previews, failures>>

\* A failed flush counts and logs its readings; a failed poll has lost nothing.  After the
\* commit nothing is lost either way, but a flush counts its readings all the same.
GivenUp(j) == IF j \in Flushers THEN job[j].batch ELSE {}

RollBack(j) ==
  /\ job' = [job EXCEPT ![j] = Over(j)]
  /\ lock' = Release(j)
  /\ logged' = logged \cup GivenUp(j)
  /\ UNCHANGED <<recorded, delivered, items, stored, frames, previews>>

\* The batch fails before its commit, or in its broadcasts: the commit has expired its rows
\* and its alerts, so each is read again before it is shown, and the rest are not shown.
MayFail(j) ==
  \/ job[j].pc \in {"prepare", "insert", "fallback"}
  \/ job[j].pc = "broadcast" /\ job[j].mine # {}

Failure(j) ==
  /\ failures < MaxFailures
  /\ failures' = failures + 1
  /\ MayFail(j)
  /\ RollBack(j) \/ GiveUpRow(j)

\* PostgreSQL finds transactions that all wait for each other and aborts one of them: its
\* batch, or in the fallback the row it was waiting for.
Deadlocked(j) ==
  \E group \in SUBSET Jobs :
    j \in group /\ \A i \in group : \E k \in group : WaitsFor(i, k)

DeadlockVictim(j) ==
  /\ Deadlocked(j)
  /\ IF job[j].pc = "insert" THEN RollBack(j) ELSE GiveUpRow(j)
  /\ UNCHANGED failures

-----------------------------------------------------------------------------
Transaction(j) ==
  \/ Prepare(j) \/ InsertRow(j) \/ CommitBatch(j) \/ Broadcast(j) \/ DeadlockVictim(j)

FlushStep(f) == FlushCall(f) \/ FlushTake(f) \/ FlushReturn(f)

Environment == Record \/ Deliver

Next ==
  \/ Environment
  \/ \E f \in Flushers : FlushStep(f)
  \/ \E p \in Pollers : Poll(p)
  \/ \E j \in Jobs : Transaction(j) \/ Failure(j)

\* A session is running, so the poller polls; a transaction that can go on does, and the
\* database finds its deadlocks.
Fairness ==
  /\ \A p \in Pollers : WF_vars(Poll(p))
  /\ \A j \in Jobs : WF_vars(Transaction(j))

Spec == Init /\ [][Next]_vars /\ Fairness
-----------------------------------------------------------------------------
(* Properties *)

JobType ==
  [pc : {"idle", "lock", "prepare", "insert", "fallback", "broadcast", "returned"},
   asked : SUBSET Readings, batch : SUBSET Readings, todo : SUBSET Readings,
   mine : SUBSET Readings]

\* Every variable keeps its type: the buffer, its lock, the transactions and the tables.
TypeOK ==
  /\ recorded \in 0 .. MaxReadings
  /\ delivered \in 0 .. recorded
  /\ {items, stored, logged} \subseteq SUBSET Readings
  /\ previews \subseteq 1 .. delivered
  /\ lock \in Flushers \cup {Null}
  /\ job \in [Jobs -> JobType]
  /\ frames \in [Readings -> Nat]
  /\ failures \in 0 .. MaxFailures

\* ReadingBuffer: flush() is a barrier.  What was buffered when it was called, its own
\* batch or that of a flush it had to wait for, is stored when it returns, or an error
\* says that it is not.
FlushAccounts ==
  \A f \in Flushers : job[f].pc = "returned" => job[f].asked \subseteq stored \cup logged

\* The promise of the pipeline to the map and the counters, whatever flushes and polls of
\* the same readings do at the same time: only rows that nobody has stored are added, and a
\* row is broadcast once at most, by who added it and after its commit.  Before that a reading
\* may be shown once as provisional.
Feed == INSTANCE ReadingFeed WITH
  Readings <- Readings, stored <- stored, frames <- frames, previews <- previews,
  pending <- UNION {job[j].todo : j \in {k \in Jobs : job[k].pc = "broadcast"}}

ReadingFeedSpec == Feed!Spec

\* The transports converge: every recorded reading is stored in the end, whatever a failed
\* flush or a deadlock has dropped, provided that one poll returns all of them.
EveryReadingStored == \A r \in Readings : r <= recorded ~> r \in stored
=============================================================================
