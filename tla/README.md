# FarmDSS backend: TLA+ models, checks and proofs

The backend (`src/app`, FastAPI on PostgreSQL) books tractor work as *sessions*. An operator
starts a session at the owner's rate, the machine's readings are ingested while it runs
(pauses excepted), and stopping it fixes a charge that is never computed again. Around that
core stand the accounts, the catalogue of tractors and implements, and a decision-support
engine that computes draft, slip and ballast for a tractor with an implement.

The models concentrate on what makes the program hard to test: handlers, ingestion threads and
the event loop of one process share a database, a buffer, a gate, a lock and a fan-out queue;
tokens and rights are checked long before they are used; iterative solvers stop at boundaries.

Paths below are relative to `src/`.

## 1. Inventory

| Component | State it keeps | Operations | What is hard about it | Correct when | Modelled |
|---|---|---|---|---|---|
| Session lifecycle, `app/routes/sessions.py` | `sessions`, `session_pauses` | start, pause, resume, stop, cancel, area-summary close-out | threadpool handlers race under READ COMMITTED without locks; multi-step close | status, pause ledger and charge agree; a closed session is priced; the area counts the readings of the session | partly |
| Billing, `app/services/operation_cost_service.py`, `app/core/billing_units.py`, `app/services/field_area_service.py` | billing columns of `sessions` | lock the rate, paused time, hours, area, finalize | finalize-once from inputs that other transactions still change | the charge is fixed once and equals rate x quantity | partly |
| Session gate, `app/services/session_gate.py` | an in-memory flag, an event shared by two threads | refresh, wait_for_change, wake | read-publish-signal in three steps; the first waiter clears the event | transports run while a session is attachable, and only then | yes |
| Transports, `app/services/transports/*`, `app/main.py` | thread-local loops, broker link | poll, fetch with retries, subscribe, park, shut down | daemon threads, a library network thread, shutdown order | nothing stranded in the buffer, both threads follow the gate | partly |
| Reading buffer, `app/services/ingest_buffer.py` | list and write lock | add, flush | flush is a barrier for stop and cancel | a reading is stored or accounted for when flush returns | partly |
| Ingestion pipeline, `app/services/ingestion_pipeline.py` | `iot_readings`, alerts | resolve session, dedup, insert with fallback, alert, commit, broadcast | overlapping batches, unique-key conflicts, deadlock | one row per reading, shown after its commit and at most once as stored, all stored in the end | partly |
| Alert engine, `app/services/alert_engine.py` | `iot_alerts` | evaluate thresholds and preset deviations, acknowledge | check-then-insert across transactions | no pile-up of standing alerts | no |
| Live fan-out, `app/services/live_hub.py`, `app/api/v1/routes/live.py` | queue, connections, the expiry of a socket's token | publish from threads, drain, register, unregister, handshake | thread-to-loop hand-over, bounded queue, clients that stall or vanish, a token that lapses under an open socket | in order, once, delivered or counted; a socket ends before its token | partly |
| Fetch-through, `app/services/iot_live.py` | cooldown and coalescing lock | ensure_fresh, warm-up of a start | waiters race the cooldown; retries under one deadline, requests that outlast it | one fetch per burst, retries that add nothing to the wait, the lock returned | yes |
| Rate card, `app/routes/operation_charges.py` | `operation_charges` | upsert, patch, delete | a rate changes between two steps of a start | a session keeps the rate it was started at | partly |
| Authentication, `app/routes/auth.py`, `app/utils/security.py` | `users`, `user_sessions` | register, login, refresh, logout | registrations of one number overlap; a refresh races a logout | one account per number; a session that was logged out stays out | partly |
| Catalogue, `app/crud`, `app/api/v1/routes` | tractors, implements, tyres, stored runs | create, read, update, delete, library and copies | rights checked before a commit; cascades; deletes under a stored run | every reference resolves; nobody's rows are changed by others | partly |
| Decision support, `app/core`, `app/api/v1/routes/simulations.py` | none while it computes; the stored run | validate, axle loads, slip search, ballast solvers, verdicts | iterative solvers at caps and boundaries; three modes that must agree | the search stops at the least slip and the least ballast; advice agrees with the figures | partly |
| Migrations and seeds, `alembic/versions`, `scripts`, `app/main.py` | library rows, legacy sessions | replace the library, seed, reseed, seed one owner | they run beside requests and each other | the library is not doubled, owners keep their rows | partly |
| Reports and exports; wages and fuel | `wage_records` | documents, wage records | report close-out calls the finalizers again | figures equal the stored charge | no |
| Normalizer; configuration, database, logging | - | - | - | - | no |

How they interact: a lifecycle handler commits, then refreshes the **gate**; the gate opens
and closes the **transports**; MQTT adds to the **buffer**, the poller and the fetch-through
store directly through the **pipeline**; stop and cancel flush the buffer before they close the
session; the pipeline resolves the attachable session, evaluates **alerts** inside its
transaction and, after its commit, publishes to the **hub**, which hands the frame over to the
event loop, where a handler admitted with an access token of **authentication** sends it on. A
session and a stored run refer to rows of the **catalogue**, and the **decision support** reads
them.

The hazards of this code, each at its line and with the properties that watch it, are listed
in `PROJECT.json`.

## 2. Modules

| Module | Models | Theorems in |
|---|---|---|
| `Billing` | the billing operators on a session row and its pause ledger; no state | |
| `ChargeLedger` | abstract specification: a session is opened once at a fixed rate, a charge is issued at most once and never moves | |
| `SessionLifecycle` | the handlers of `sessions.py`, the rate card, the readings they are charged from, the writers of those readings, failures and restarts; implements `ChargeLedger` | `SessionLifecycleProofs` |
| `ReadingFeed` | abstract specification: rows nobody has stored are added a batch at a time, and each is shown after its commit, once at most | |
| `SessionGate` | the gate, its event, the handlers that refresh it, both transport threads, the lifespan | `SessionGateProofs` |
| `Ingestion` | buffer, flush barrier, batch transaction, dedup and fallback, deadlock, provisional frames, broadcast and its failure; implements `ReadingFeed` | `IngestionProofs` |
| `LiveHub` | publish callbacks, bounded queue, drain task, connections and their handlers | `LiveHubProofs` |
| `FetchThrough` | the cooldown, the coalescing lock, the warm-up and the fetch with its retries | `FetchThroughProofs` |
| `Accounts` | registration, login, refresh, logout and the life of a socket | `AccountsProofs` |
| `Traction` | the formulas of the decision-support engine; no state | |
| `TractorSimulation` | one run of the engine: checks, slip search, ballast solvers, verdicts; uses `Traction` | `TractorSimulationProofs` |
| `Catalogue` | rows, tyres, stored runs, the requests that change them, seeding and the library migration | `CatalogueProofs` |
| `MC...` | model values, inputs and symmetry for TLC | |

### SessionLifecycle

`row[s]` is the committed row of `sessions`, `pauses[s]` its `session_pauses` rows, `fix[t]`
where the GPS fix of instant `t` is (not recorded, at Adafruit, in the buffer, stored detached
or on a session), `card` the rate card, `req[r]` what a worker holds in memory between two
database calls, `flush` what the holder of the buffer's write lock has taken and resolved,
`writer[w]` the same for an ingestion transaction outside the buffer.

*Atomicity.* PostgreSQL runs READ COMMITTED and the handlers take no explicit lock, so a
handler is split wherever another transaction can commit in a way it can notice: after the
SELECT its guard tests (`PauseCheck`, `ResumeCheck`, `CloseCheck`, `StartCheck`,
`BackfillCheck`), around `BUFFER.flush()`, and after
`close_open_pause` has selected its row (`CloseEnd`). From its first UPDATE to its COMMIT a
handler holds the row lock of the session and others wait, so that section is one action
(`...Commit`). The ORM writes changed columns only; columns a handler does not write keep
what others have committed. A roll-back is `Fail`; `Restart` loses requests, transactions and
the buffer, but not what Adafruit holds.

A flush is three steps, whoever calls it: `TakeBuffer` takes the write lock and the buffer (a
stop's flush waits until the lock is free), `FlushResolve` picks the session of the batch,
`FlushCommit` stores the rows or `FlushDrop` loses them, and the caller goes on
(`FlushReturns`). Between any two of them other transactions commit. `WriterResolve` and
`WriterCommit` are the same for the poller and the fetch-through, which take no lock.

*Data.* Time is `0 .. MaxTime`; a fix is its instant; the worked area is the number of worked
fixes, so quantization and the geometry of the path are left out; rates are naturals.

### SessionGate

`open` and `changed` are the flag and the event, `handler[h]` the progress of a refresh (read,
publish under the lock, signal), `poller` and `mqtt` the position of the two loops, `connected`
the link's own event, `buffered` whether the buffer holds something, `main` the lifespan.
The paho network thread is `Connack`, `LinkDrops` and `Message`, possible from `loop_start` to
`loop_stop`. `event.set()` wakes both waiters and the first to run clears it: `PollerClear`
and `MqttClear` are steps of their own. A redeploy is `BeginShutdown`, `ShutdownFlush`, `Exit`
and `Boot`; the daemon threads go on until `Exit`.

### Ingestion

A *job* is a flush (a stop, a cancel, the poller's timer, a closing link) or a poll (the
poller, a fetch-through). Both run the batch transaction: `Prepare` (session, stored ids),
`InsertRow` in batch order, `CommitBatch`, and a `Broadcast` for each row. An INSERT waits for a
transaction that holds the same id (`WaitsFor`); when it finds the id committed, the batch is
rolled back and retried row by row, where taken ids are skipped. PostgreSQL aborts one of the
transactions that wait for each other (`DeadlockVictim`, modelled from the unique column and
marked external). Rows go in batch order: the buffer's oldest first, Adafruit's newest first.
`Failure` is any other database error, at most `MaxFailures` times. It can strike after the commit
too: the commit expires the rows, so each is read again before it is shown, outside the `try` of
`broadcast_update` (`app/services/ingestion_pipeline.py:37`); the rest of the batch is then not
shown, and a flush counts as dropped what is stored. A batch has one session, or none: rows
without a session are not shown (`CommitBatch` leaves open which it is). `Deliver` is the MQTT
subscriber, which publishes the reading as *provisional* before it buffers it: `previews`.
`ReadingFeed` sees the rows, how often each was broadcast as stored, which were previewed, and as
`pending` what committed batches have still to show.

### LiveHub

`scheduled` holds the callbacks of `call_soon_threadsafe`, `queue` the bounded queue, `drain`
the frame in transmission with the sends that have not completed, `client[c]` whether the
client reads, has stopped reading, has left, or is closed. Everything but `Publish` runs on
the event loop, one step between two awaits.

### FetchThrough

`now` is the monotonic clock, `newest` the newest stored timestamp, `lastAttempt` and `lock` the
module globals of `iot_live.py`, `pc[f]` where a request or a warm-up task is, `asked` and
`deadline` when it came and when its fetch must end, `feed[f][k]` what the pool's thread does
for each feed. A reader goes through `Ask`, `CheckCooldown`, `Acquire` or `GiveUp`, `Recheck`,
the fetch (`Respond`, `Wake`, `Store`), `Stamp`, `Release` and `Answer`; a warm-up (`Warm`)
takes neither the lock nor the cooldown, as in the code. `OtherStore` is the poller or MQTT
storing a row meanwhile. Only requests to the upstream service, the sleeps between them and the
wait for the lock take time: `Tick` waits for the code that does neither. The timeout of a request
is a number, which httpx applies to each of its phases (the wait for a connection of the pool, the
connect, each write, each read), so `Proceed` begins the next phase with the same timeout, and a
request that has begun may outlast the deadline. Nothing in the code bounds the phases, as an
upstream may send byte by byte: `MaxPhases` is a bound of the model, and `Overrun` what it allows
one request to add. `ended` is a history variable.

### Accounts

`users`, `rows` (the table `user_sessions`), `req[q]` the handlers in flight, `issued` the access
tokens clients hold, `socket[k]` the WebSocket handlers; `revoked` and `created` are history.
Register, login and refresh are split between the SELECT and the commit. A token is its claims,
and `exp` is cut to whole seconds, so two logins within a second get *equal* tokens; that is
part of the model. A registration that loses the race hits the unique phone
number (`UserRefused`); a refresh whose row a logout deleted fails as the ORM's UPDATE matches
no row. The socket's life is `Handshake`, `Admit`, `Look` (the receive timeout and its glance at
the expiry) and `Disconnect`. One phone number is enough in the run because no handler looks
at two.

### Traction and TractorSimulation

`Traction` has the formulas of `legacy_algorithms.py`, `combi_algorithms.py` and `dss_shared.py`
in integers, units named in its header: axle loads, draft, wheel numerics, the traction curve,
power and its verdicts. `TractorSimulation` drives one run: `Submit` refuses or resolves the
request in the order of the route's checks, `TrySlip` raises the trial slip until the pull
carries the draft and interpolates the last step, `Judge` refuses a run without tractive
efficiency and asks whether the front axle needs ballast, `Widen`
and `Bisect` find the front ballast, `Settle` iterates the rear ballast, `Report` stores and
answers. The three modes (single, passive-passive, active-passive) share this chain and differ
in the loads it starts from and the warnings it ends with. Integer division rounds where the
code has floats; `SlipTolerance` and `BallastTolerance` say by how much a
property allows for that. The code's fixed point for the rear ballast stops when a load repeats to
0.0001 N and gives up after 200 rounds. Where rounds draw nearby loads together (`Contracts`), 200 of
them reach that from any start, and the model stops when its whole-newton load repeats. Where
they do not, the rounded curve cannot tell whether the loop stays, creeps until the rounds run
out or drifts off: `Settle` then leaves all of it open, among it the answer that the fixed point did not
converge, once a round moves the load by less than the curve resolves (`RearResolution`). The standalone active mode of the engine is unreachable: the slot
check turns every such request away.

### Catalogue

`rows` holds tractors and implements with their name, owner and library flag, `used` the keys
ever given out, `tires`, `simulations` and `sessions` the references to them, `request[c]` what
a client has read and not yet committed, `boot[b]` what a starting server found missing,
`upgraded` whether the migration ran. Creation, update, deletion, tyres and runs are split
between the check and the commit, and the foreign keys decide at the commit: tyres and runs are
deleted with a tractor, sessions lose a deleted implement, a session keeps its tractor.
`CheckLibrary`/`SeedLibrary`/`SeedFails` are the start-up seeding, `Upgrade` the migration,
`Reseed` and `SeedOwner` the scripts run by hand.

## 3. Runs

| Run | Question | Bounds |
|---|---|---|
| `SessionSerial` | With one request in flight at a time, do status, pause ledger, hours and charge agree over every legal sequence of calls, with pauses, background flushes, failures, restarts and rate-card edits? | one session, both billing units, clock to 3, two pauses: a pause of non-zero length, a second one, and a stop while paused all fit |
| `SessionConcurrent` | Two requests interleave on one session while the timer flushes and a writer bypasses the buffer: what survives every race of stop, cancel, pause and resume? Do the handlers implement `ChargeLedger`? Is a reading stored once, and which readings can an area miss? | two fixes, clock to 1, one pause, one writer; every pair of handlers overlaps at every split point, and a flush or the writer may have resolved the session before any of them |
| `SessionLegacy` | Rows that predate the rate lock, closed out by concurrent reads: is no rate invented and does no charge move? | one legacy row in every shape the migration leaves |
| `GateConcurrent` | Two requests refresh at the same time, a SELECT may fail, handlers may die before they refresh, the process is redeployed: do the threads still follow the gate and end on shutdown? | two handlers, two sessions, so that ending one leaves the gate open |
| `IngestConcurrent` | Two flushes and a poll write overlapping batches, wait for each other, deadlock and fail: is anything lost silently, shown twice or never stored? Do the threads implement `ReadingFeed`? | two readings: enough for two transactions that hold and want each other's id; two failures, before or after a commit |
| `HubFanout` | Clients stop reading, leave and arrive while the loop falls behind: are frames in order, once, and delivered or counted? | two clients, two sessions, three frames over a queue of two: one frame more than it holds |
| `FetchThrough` | Two requests and a warm-up meet a stale feed and an upstream that fails, returns nothing or takes its time: is there one fetch per burst, do retries keep to the budget, and is no lock kept? | the unit is half a second of backoff; clock to 9, two phases per request, lock wait 1 below cooldown 2, budget 3, httpx timeout 2, three attempts, so that a reader can give up, a waiter can find the cooldown running, and the deadline cuts a retry short |
| `AccountsRaces` | Two requests in flight for one number with the clock moving, and a socket that outlives them: one account, final logouts, no token without a row, no socket past its token? | clock to 5, three rows, token lives of 4, a socket that looks every 2 with a margin of 3: tokens lapse while handlers run, and two logins fall into one second |
| `DecisionRuns` | About 200 requests of the three modes over nine tractors, seven implements and fields that differ in soil, depth and speed: do the solvers stop at the least slip and ballast, and does the advice agree with the figures? | the ballast search widens at most 4 times (40 in the code); a tractor that no ballast helps exhausts it, the others find their bracket; 200 bisections and 200 rounds of the rear solver as in the code; one request at a slip where that solver does not contract |
| `Catalogue` | Two clients (an owner and a user of another role), a starting server, the migration and the scripts interleave beside rows of a second owner, who makes no request: do references resolve, do owners keep their rows, is the library single? | two tractors, two implements, one session, one stored run, two owners: a delete, an update and a run against one row, and a row that is another's |

Two runs are expected to fail. `RaceStopCancel`: the docstring of the cancel handler says it
"terminates it at a final zero" (`app/routes/sessions.py:444`); TLC shows that a cancel past its
check when a stop commits leaves an aborted session with the stop's charge, since finalizing skips
a row that is final (`app/routes/sessions.py:474`).

`RaceFlushStop`: a stop computes area and cost "over a complete set of readings"
(`app/routes/sessions.py:366`), for which it flushes the buffer first. TLC shows, with one request
and no writer beside the buffer, that a reading which arrives after that flush is taken by the
timer's, resolved to the session, as the stop has not committed
(`app/services/ingestion_pipeline.py:189`), and committed (`:227`) after the stop has read the fixes:
it stands on a completed session whose area and charge do not count it. What holds is
`AreaMissesOnlyUnderway`: a stop counts all that is stored, and only what had resolved the session before the
stop can come later.

*Overlapping requests.* `SessionConcurrent` deliberately leaves out what the code does not
ensure for two overlapping requests on one session: `OpenPauseMeansPaused` (two
overlapping pauses open two intervals), `BillReconciles` (a second close writes the area
again), `HoursAreWorkedTime`. `CancelledIsFree` fails there, as above. No run claims at all that an
operator has one open session (two starts pass the check of `app/routes/sessions.py:199` together,
and no index refuses the second) or that a closed session stays closed (a pause past its check when a
stop commits reopens it, `app/routes/sessions.py:399`): with one request at a time these would
only restate the guards.
`TerminatedIsPriced` needs `ClockLag = 0`: the start is the database's `now()` and the end the
application's clock, and a session stopped at once with the latter behind has a negative
duration and no charge. In the same way `OneLibraryTractorPerName` holds for one server start
at a time: two overlapping boots both find the library missing and seed it twice.

*Deadlock checking* is on except in `HubFanout`, `FetchThrough`, `AccountsRaces` and
`Catalogue`: with every frame published, the clock at its bound or every key used these bounded
models come to rest.

## 4. Properties

* **Charge.** `ChargeLedgerSpec` (refinement), `TerminatedIsPriced`, `HourlyBillReconciles`,
  `BillReconciles`, `CancelledIsFree`, `HoursAreWorkedTime`, `OpenPauseMeansPaused`.
* **Readings.** `AreaIsComplete` (violated), `AreaMissesOnlyUnderway`, `StoredReadingStays`, `ReadingFeedSpec` (refinement), `FlushAccounts`,
  `EveryReadingStored`, `NothingStranded`.
* **Gate.** `OpenGateWakesPoller`, `ClosedGateDropsLink`, `SessionIsPolled`, `StopEndsThreads`.
* **Hub.** `FramesInOrder`, `FramesArrive`, `GoneClientsLeave`.
* **Fetch-through.** `LockIsOwned`, `BurstFetchesOnce`, `AnswersInTime`, `LockIsReturned`.
* **Accounts.** `OneAccountPerPhone`, `LogoutIsFinal`, `RefreshIsBacked`, `SocketClosesInTime`.
* **Decision support.** `StepIsLeast`, `ReportedSlipPulls`, `FrontBallastIsLeast`,
  `RearBallastFollowsSlip`, `CombinationReduces`, `AdviceAgrees`.
* **Catalogue.** `RowsResolve`, `OwnersKeepTheirRows`, `OneLibraryTractorPerName`.

Every property of a passing run is broken by a mutant of the code it is about (`PROJECT.json`,
"mutants"; the mutated definitions stand before the originals and are marked as such).

*Fairness.* In `SessionGate` a handler's worker finishes its refresh and both daemon threads are
scheduled; a timed wait ends by itself (`wait(timeout=...)`). Nothing is assumed of clients,
requests, the broker or a redeploy. In `Ingestion` the poller keeps polling (the gate is open)
and a transaction that can go on does; nothing is assumed of MQTT, and a flush need not be
called. In `LiveHub` the event loop runs its callbacks and the drain task, and a handler
notices a client that has left; a client that has stopped reading need not read again, so
`FramesArrive` is stated for the time in which all clients read. In `FetchThrough` time passes
and a thread that can run does; nobody has to ask. `SessionLifecycle`, `Accounts`,
`TractorSimulation` and `Catalogue` have safety properties only and no fairness.

## 5. Proofs

The theorems are checked by TLAPS for every value of the constants that satisfies the named
assumptions.

| Theorem | Statement | Argument |
|---|---|---|
| **SessionLifecycle** | | |
| `TypeCorrect` | `Spec => []TypeOK` | by the inductive invariant `IInv` |
| `HourlyBill` | `Spec => []HourlyBillReconciles` | the same `IInv`: a worker in a close or a backfill holds an existing session and the times it read, a backfill's copy has no hours, is not final and carries the rate of the present row (the rate never moves), and a final row has a total |
| `TerminatedPriced` | `ClockLag = 0` implies `Spec => []TerminatedIsPriced` | `PInv` on top of `IInv`: no session starts after the clock, so the elapsed time of a close is not negative and the quantity is known; a session started under the lock has a rate |
| `ReadingsStay` | `Spec => StoredReadingStays` | `FutureIsFuture`: the machine records the fix of an instant when the clock reaches it, and a flush and the writers hold recorded fixes only; storing skips stored ids |
| `ChargePromise` | `Spec => ChargeLedgerSpec` | `Promise` on top of `IInv` and `FutureIsFuture`: a close leaves a row priced or *hopeless* (no price can be found for it), and the copy that a backfill holds is hopeless, still to be measured, or faithful to the row; so a late backfill writes the charge that is there, or the one nobody had issued |
| `AreaMisses` | `Spec => AreaMissesOnlyUnderway` | with `IInv` and `FutureIsFuture`: whichever commit makes a row completed computes its area from what is stored at that step (`CommitArea`), a session that has ended is resolved by no one (`EndedIsNoTarget`), and where nothing is under way its fixes stay as they are (`ReadingsSettle`) |
| `SerialBills` | `Spec /\ []Apart => []BillReconciles` | `Serial`: nothing that a worker has read of its session has changed (`Alone`; a commit on another session leaves it so, `OthersUndisturbed`), a completed row carries its bill (`Bills`), a ledger has one open interval exactly while the session is paused (`Intervals`) |
| `SerialHours` | `ClockLag = 0` implies `Spec /\ []Apart => []HoursAreWorkedTime` | `Chronology`: the pauses of a session follow each other without overlap between its start and the clock (or its end), so the instants they cover add up to the sum of their lengths (`PausedOnce`), and `NetHours`: the hours of a completed row are its length less that sum. With the application's clock behind, a pause may begin before the session, hence `ClockLag = 0` |
| **SessionGate** | | |
| `NothingIsStranded` | `Spec => []NothingStranded` | inductive by itself: the subscriber reaches the gate only through the flush that follows `loop_stop()`, and messages arrive only before it |
| `GateTypes` | `Spec => []TypeOK` | |
| **Ingestion** | | |
| `FeedPromise` | `Spec => ReadingFeedSpec` | `IdsAreHeld`: an id is in the insert set of one transaction only, is not stored before that one commits and not shown before it broadcasts; so a commit is a `Store` of its insert set (a stutter if that is empty), a broadcast a `Show`, a failure after the commit a `Lose`, a delivery a `Preview`, and every other step a stutter |
| `ShownOnce` | `Spec => []`(no row is shown twice, or before it is stored) | the same invariant |
| `FlushIsBarrier` | `Spec => []FlushAccounts` | `LockExcludes` and `AskedAccounted`: the write lock admits one flush; what was buffered at a call is stored, logged, in the buffer or in the flush under way, and from the lock on in one's own batch, of which nothing is forgotten (`BatchAccounted`) |
| `IngestionTypes` | `Spec => []TypeOK` | |
| **LiveHub** | | |
| `FramesKeepOrder` | `Spec => []FramesInOrder` | `Sending`, `Stations`, `Seen`: frame ids grow along received, drain, queue and scheduled |
| `HubTypes` | `Spec => []TypeOK`, with the bound on the queue | |
| **FetchThrough** | | |
| `LockOwned` | `Spec => []LockIsOwned` | |
| `OneFetch` | `Spec => BurstFetchesOnce` | `Punctual` and `Busy`: a reader takes the lock within `LockWait` of its arrival, less than a cooldown, so a stamp that the second look finds at least a cooldown old was set before it arrived |
| `Answered` | `Spec => []AnswersInTime` | `Punctual`: a fetch begins within `LockWait` of the arrival and has a deadline of one budget, no sleep outlives the deadline, no request begins after it, one that has begun outlives it by the phases it has left, and code that neither waits nor fetches takes no time |
| `FetchTypes` | `Spec => []TypeOK` | `Clocks`: nothing is dated in the future |
| **Accounts** | | |
| `OneAccount` | `Spec => []OneAccountPerPhone` | `Registered`: a number with an answered registration is a user, and a second insert is refused |
| `LogoutFinal` | `Spec => []LogoutIsFinal` | ids of deleted rows are not given out again, and an update of a row that is gone fails |
| `RefreshBacked` | `Spec => RefreshIsBacked` | `HeldIsIssued`: a handler that would give out the token a row already had read it from that row |
| `SocketCloses` | `Spec => []SocketClosesInTime` | `WakesInTime`: the loop of an open socket is due before the expiry, as `Poll < Margin` |
| **TractorSimulation** | | |
| `SlipIsLeast` | `Spec => []StepIsLeast` | `TriedInVain`: every trial below the present one fell short, whatever the pull curve and the draft are |
| `BracketKept` | `Spec => []`(the bracket holds the root) | `BracketHoldsRoot`: bisection keeps an upper end that steers and, where it aims at steering, a lower end that does not |
| `CombinationsReduce` | `WellPosed` implies `Spec => []CombinationReduces` | `Asked`: what is computed with is a request with its area and radii filled in; then arithmetic: both balances have the same terms (`ChainReduces`, `LoadsReduce`) |
| `FrontBallast` | `EnoughIterations` implies `Spec => [](Acts => FrontBallastIsLeast)` | `MoreSteers`: a kilogram more ballast steers where less does, as the front axle gains at least a fifth of it, rounding included. `Narrows`: the bracket that is left is at most a kilogram wide. `OneOutcome`: two walks of the solver for one request take the same steps, so the ballast fitted and the ballast recommended are equal |
| `InterpolationPulls` | `Spec => [](CurveAboveChord => ReportedSlipPulls)` | `Interpolates`: the solution is a trial that covers the draft, or the crossing of the chord to it from the trial before, which does not. `ChordMeetsDraft`: rounded down, the crossing lies within the step, and a hundredth of a percent further the chord is above the draft |
| `AdviceFollowsFigures` | `EnoughIterations` implies `Spec => [](query # Null /\ BallastCounts(query) /\ FiguresAreNumbers => AdviceAgrees)` | one invariant per stage of a run: ballast is fitted only to an axle that lifts (`LiftIsFitted`), a search that did not converge stands at the cap (`Capped`), a run that was not refused has tractive efficiency (`Judged`), ballast is recommended exactly where the tractor does not steer (`Recommended`), and an answer stands until the next request (`AnswerStands`). `LiftedThenSteers`: ballast that brings a lifting axle down leaves it a fifth of the weight, so none is advised on top |
| **Catalogue** | | |
| `ReferencesResolve` | `Spec => []RowsResolve` | with the types: keys are not reused, and every step that removes a row removes or clears what refers to it, or is refused |
| `RowsAreTheirOwners` | `Spec => OwnersKeepTheirRows` | `RightsHold`: from the check to the commit the row a request read is still its client's or nobody's, since no step gives a stored row another owner; seeding, migration and scripts leave owned rows alone |
| `LibraryIsSeededOnce` | `Spec /\ []StartsApart` implies `[]OneLibraryTractorPerName`, for any number of servers | `Seeding`: a server that is about to add the library has found it empty and it still is, as requests add no library tractor; the migration and the reseeding take the old library away in the transaction that adds the new one, and do not run beside a start |

Why strengthenings are needed: `HourlyBillReconciles`, for instance, is not inductive alone:
`BackfillCommit` writes hours and total computed from a row as it was read, and `TypeOK` does not
say that such a row was not final, nor that its rate is the present one; `Consistent` does.

*Hypotheses.* `Apart` says of a state that no two requests in flight concern one session:
requests of different sessions overlap freely, in any number, and with one
worker it always holds (`OneWorkerIsApart`). Nothing in the code ensures it, since handlers take no lock;
it is what clients do that wait for their answers while one person acts on a session. Only `SerialBills` and
`SerialHours` assume it; they are about arithmetic over long sequences of calls, and say nothing of
the races of section 3. `StartsApart` says the same
of server starts: any number of them, no two between their read and their
write. The service is meant for one uvicorn worker (`app/main.py:37`), so starts that follow each
other are the normal case. `WellPosed` asks that the first tool of a pair weighs something and that the denominator of the axle balance is
positive. The code ensures neither: `weight` may be zero (`app/schemas/implement.py:18`), and two
weightless tools get a centre of gravity of zero (`app/core/combi_algorithms.py:402`), which a single
one does not; of the denominator only zero is refused. All requests of `DecisionRuns` are
`WellPosed`. `Acts` (`BallastActs` of the request) asks that the numbers of the balance are numbers, that the weight of
the tractor and the length of the balance are positive, and that the rear axle carries at most 31/45
of what is added (the balance adds ballast at the tractor's centre of gravity). On a tractor
with its weight too far back the front axle gains less than the fifth of the ballast that steering asks for,
and the solver rightly gives up; between 31/45 and four fifths it is the model's whole newtons
that could undo a kilogram.
`EnoughIterations` asks that the halvings of the solver outlast its widening: 40 widenings grow
five tonnes to less than 2^40 kg, and 200 halvings follow. `CurveAboveChord` asks of the traction curve that it does not fall from a trial slip to the
slip two hundredths further, and that between the two trials around the draft it runs above their
chord, as a concave curve does; the formula ensures neither on soil so soft that the
tractor sinks before it pulls. `BallastCounts` asks besides `BallastActs` that the rear axle carries no negative part of
what is added, that the tractor weighs 200 N, and that ballast is not missing by
less than the kilogram the model resolves (a tractor that steers with one steers with none: where the code
would size half a kilogram the model sizes zero). `FiguresAreNumbers` asks that no formula of the verdicts
divides by zero. `MCTractorSimulation` has TLC verify
these hypotheses on the requests that the engine takes up in the run: `BallastActs` and `BallastCounts` hold of all but those of
the tractor that was put there to lack them, `CurveAboveChord`, with the loads of the tractor as it is, of all but that of the
tractor that was put there to sink, and the figures are numbers at every slip up to the cap.

*Assumptions.* `Billing`: `NullAssumption`, `TimeAssumption`. `SessionLifecycle`:
`SessionsAssumption` (a session is not one of the places a fix can be), `RequestsAssumption`, `RatesAssumption`
(rates are positive), `ClockLagAssumption`, `MaxPausesAssumption`. `SessionGate`:
`SwitchesAssumption`. `Ingestion`: `WorkersAssumption`, `LimitsAssumption`. `LiveHub`:
`BoundsAssumption`. `FetchThrough`: `TimesAssumption`, `LockWaitAssumption` (the defaults of the
configuration: a reader gives up the lock before a cooldown has passed), `ActorsAssumption`.
`Accounts`: `LivesAssumption`, `MarginAssumption` (a look every 20 s against a margin of 60 s), `NullAssumption`.
`TractorSimulation`: `BoundsAssumption`, `NullAssumption`, `RequestsAssumption` (rows and requests have the types of
their columns and of the schema). `Catalogue`: `KeysAssumption`, `FiniteKeysAssumption` (keys are
UUIDs), `NamesAssumption`, `OwnersAssumption`, `RowAssumption`.

*Model-checked only.* All liveness (`OpenGateWakesPoller`, `ClosedGateDropsLink`,
`SessionIsPolled`, `StopEndsThreads`, `EveryReadingStored`, `FramesArrive`, `GoneClientsLeave`,
`LockIsReturned`): fairness and ENABLED are outside the prover. Of the decision support,
`RearBallastFollowsSlip`: it compares the load that a fixed point settles on with the slip that a
search stops at, which needs the fixed point to converge and load times traction to grow with the
load. `Traction` computes both with recursive functions in rounded integers, so that would be
induction over data, and it is not there for every row of numbers. It is a claim about
realistic machines, and `DecisionRuns` checks it on those. `ReportedSlipPulls` rests on the shape of
the curve as well, but there one fact about it (`CurveAboveChord`) is enough and the rest is proved. The balance of the axles in
`FrontBallast` is plain arithmetic; the one induction there, over the steps of two searches, is
replaced by the least step at which they differ (`LeastNatural`).

## 6. Where the code and its words differ

Besides `RaceStopCancel` and `RaceFlushStop`, modelling showed these; they are noted here and not made into runs.

* The gate is "Open while any session is attachable" (`app/services/session_gate.py:52`), but
  `refresh()` reads before it takes the lock under which it sets the flag (`:102`): the older of two reads may be published
  last and the gate stays closed over a running session until the next refresh. After a handler
  that dies between commit and refresh it keeps its old state too: the timeout of
  `wait_for_change` looks at the flag again, not at the database.
* "When it returns, everything buffered at the moment" of the call is committed
  (`app/services/ingest_buffer.py:32`), but a flush that PostgreSQL aborts as the victim of a
  deadlock with a concurrent poll drops its batch with a log line and returns (`:114`).
  `FlushAccounts` is the part that holds.
* "Retries are bounded by `deadline` [...] instead of stalling the whole cycle"
  (`app/services/transports/http_poller.py:128`): the retries are, but not a request that has begun, whose
  timeout httpx applies to every phase and every read anew (`:140`). `AnswersInTime` allows for it.
* `broadcast_update` "must never be able to fail an ingest" (`app/services/ingestion_pipeline.py:34`),
  but it reads an expired row before its `try` (`:37`): when that fails after the commit, the rest
  of the batch is not shown and the flush counts stored readings as dropped.
* The check "Operator already has an active session" (`app/routes/sessions.py:199-209`) takes no lock and
  no index stands behind it: two starts that overlap open two sessions.
* "one slow client cannot delay the others" (`app/services/live_hub.py:107`), but the drain task
  waits for the sends of one frame to all clients before it takes the next (`:108`).
* `create_implement` takes `is_library` from the payload (`app/api/v1/routes/implements.py:59-70`):
  an owner may create a library implement, which `CreateImplement` has as a choice. Hence
  `OneLibraryTractorPerName` speaks of tractors.
* Library rows that the migration retires have no owner, and any owner may then delete them
  (`app/api/v1/routes/tractors.py:134`); `OwnersKeepTheirRows` speaks of rows with an owner and
  of the library.
* The pull at the cap of 20 % slip is computed but never compared with the draft
  (`app/core/legacy_algorithms.py:669-676`, against `:611`): a draft that only the cap carries
  is reported as not converged.
* A socket whose token lapses between its two verifications (`app/api/v1/routes/live.py:145`) is
  admitted without an expiry; `SocketClosesInTime` speaks of sockets whose expiry was read.
* "a combination reduce *exactly* to the single-implement result when the second tool
  contributes nothing" (`app/core/combi_algorithms.py:255`), but not when the first tool is
  recorded without weight; see `WellPosed` in section 5.
* Downgrading the library migration promotes owners' tractors of the library's names to the
  library; the downgrade is not an action of `Catalogue`.

## 7. Not modelled

* *Reports, exports, wages and fuel*: documents and single-row writes of one owner; the report
  close-out is `SessionLifecycle.BackfillCommit`, as it calls the same finalizers.
* *Normalizer*: parsing of one payload; one identity per reading is an assumption of `Ingestion`.
* *Configuration, database set-up, logging, mock devices*: no concurrent state of the service.
* *Profiles, `/me`, farmer lists, presets, field observations, listings*: reads, or writes of one
  row of the caller.
* *The geometry of the path and Decimal rounding*: the area is a count of worked fixes.
* *The alert engine*: a crossing raises an alert inside the batch transaction unless an
  unacknowledged one stands. Look-up and insert are not serialised and the code promises nothing
  about overlapping batches, so no property would use the detail.
* *The upsert race on a rate*: the unique key of owner and operation turns the loser into an
  error answer; `EditRateCard` changes a rate between any two steps.
* *Fuel figures, diagnostics, `matching_service` and the documents of a run*: arithmetic on
  results that no solver reads back.

The `_put` callbacks of `publish_threadsafe` have no bound in the code; `MaxQueue` bounds only
the queue they feed. A redeploy may lose a reading that MQTT buffers after the final flush,
while the daemon threads are not joined; `NothingStranded` says that this is possible only as
long as the broker link is up.

## 8. What could follow

The thresholds of the alert engine as operators used by `Ingestion`; the segment rules of
`compute_covered_area_ha` as a fold over fixes in place of the count; rate-card upserts with
their conflict; wage records against terminated sessions; and abstract specifications of the hub
(a lossy queue that keeps its order) and of the fetch-through (one fetch per cooldown).
