---------------------------- MODULE FetchThrough ----------------------------
(***************************************************************************)
(* The fetch-through of app/services/iot_live.py, the handler of           *)
(* GET /iot/latest that asks for it, the warm-up that a session start      *)
(* leaves behind, and the fetch of app/services/transports/http_poller.py  *)
(* both of them run: every feed in its own thread of a pool, up to         *)
(* MaxAttempts requests per feed, all under one deadline.                  *)
(*                                                                         *)
(* A request's timeout is a number, which httpx takes as the limit of each *)
(* of its phases: the wait for a connection of the pool, the connect, each *)
(* write and each read.  The deadline therefore bounds when a request      *)
(* begins, and not when it ends.                                           *)
(*                                                                         *)
(* Time is the monotonic clock.  Requests to the upstream service and the  *)
(* sleeps between them take time, as does waiting for the lock; code that  *)
(* neither waits nor fetches takes none (the actions of Instant), but the  *)
(* threads still interleave there.                                         *)
(***************************************************************************)
EXTENDS Naturals, FiniteSets

CONSTANTS
  Readers,         \* requests to GET /iot/latest
  Warmups,         \* background tasks of POST /sessions
  Feeds,           \* FEEDS
  MaxTime,         \* bound on the clock
  StaleAfter,      \* IOT_STALE_AFTER_SEC
  Cooldown,        \* IOT_FETCH_THROUGH_COOLDOWN_SEC
  LockWait,        \* _LOCK_WAIT_SEC
  Budget,          \* IOT_FETCH_THROUGH_TIMEOUT_SEC
  RequestTimeout,  \* _PER_REQUEST_TIMEOUT_SEC
  MaxAttempts,     \* _MAX_ATTEMPTS
  MaxPhases,       \* BOUND on the phases of one request
  Backoff(_),      \* the sleep after the n-th failed attempt
  Nobody

ASSUME TimesAssumption ==
  /\ {MaxTime, StaleAfter, Cooldown, LockWait, Budget, RequestTimeout, MaxAttempts} \subseteq Nat
  /\ \A n \in 1..MaxAttempts : Backoff(n) \in Nat \ {0}
  /\ MaxPhases \in Nat \ {0}
  /\ MaxTime > 0 /\ Budget > 0 /\ RequestTimeout > 0 /\ MaxAttempts > 0

\* The defaults: a reader gives up the lock before a cooldown has passed.
ASSUME LockWaitAssumption == LockWait < Cooldown

ASSUME ActorsAssumption == Nobody \notin Readers /\ Readers \cap Warmups = {}

Fetchers == Readers \cup Warmups

VARIABLES
  now,          \* time.monotonic(); the process starts at 1
  newest,       \* max(device_timestamp) of the device, 0 when it has no rows
  lastAttempt,  \* _last_attempt_monotonic, 0 until a fetch has ended
  lock,         \* the owner of _fetch_lock
  pc,           \* where each request or task is
  asked,        \* when it arrived
  deadline,     \* the deadline of its fetch
  feed,         \* what the pool's thread does for each feed of its fetch
  ended         \* history: when the last of these fetches ended

vars == <<now, newest, lastAttempt, lock, pc, asked, deadline, feed, ended>>

\* A feed whose requests have ended, with rows or without: it is empty, or it failed.
Outcome(st) == [st |-> st, n |-> 1, by |-> 0, phase |-> 1, timeout |-> 0]

\* What the phases after the first may add to a request.
Overrun == (MaxPhases - 1) * RequestTimeout

Init ==
  /\ now = 1
  /\ newest = 0
  /\ lastAttempt = 0
  /\ lock = Nobody
  /\ pc = [f \in Fetchers |-> "idle"]
  /\ asked = [f \in Fetchers |-> 0]
  /\ deadline = [f \in Fetchers |-> 0]
  /\ feed = [f \in Fetchers |-> [k \in Feeds |-> Outcome("none")]]
  /\ ended = 0

Goto(f, label) == pc' = [pc EXCEPT ![f] = label]

Lesser(a, b) == IF a < b THEN a ELSE b

-----------------------------------------------------------------------------
(* ensure_fresh: the checks and the lock *)

IsStale == newest = 0 \/ now - newest > StaleAfter

CoolingDown == lastAttempt # 0 /\ now - lastAttempt < Cooldown

\* The request arrives and reads the age of the newest row (is_stale).  A
\* client polls at most once per unit of time.
Ask(r) ==
  /\ pc[r] = "idle"
  /\ asked[r] < now
  /\ now + LockWait + Budget + Overrun <= MaxTime
  /\ asked' = [asked EXCEPT ![r] = now]
  /\ Goto(r, IF IsStale THEN "stale" ELSE "idle")
  /\ UNCHANGED <<now, newest, lastAttempt, lock, deadline, feed, ended>>

\* The first look at the cooldown, without the lock.
CheckCooldown(r) ==
  /\ pc[r] = "stale"
  /\ Goto(r, IF CoolingDown THEN "answer" ELSE "waiting")
  /\ UNCHANGED <<now, newest, lastAttempt, lock, asked, deadline, feed, ended>>

\* Mutant: everyone who waits gets in.
AcquireHeld(r) ==
  /\ pc[r] = "waiting"
  /\ lock' = r
  /\ Goto(r, "holding")
  /\ UNCHANGED <<now, newest, lastAttempt, asked, deadline, feed, ended>>

\* _fetch_lock.acquire succeeds.
Acquire(r) ==
  /\ pc[r] = "waiting"
  /\ lock = Nobody
  /\ lock' = r
  /\ Goto(r, "holding")
  /\ UNCHANGED <<now, newest, lastAttempt, asked, deadline, feed, ended>>

\* _fetch_lock.acquire(timeout=_LOCK_WAIT_SEC) gives up.
GiveUp(r) ==
  /\ pc[r] = "waiting"
  /\ now >= asked[r] + LockWait
  /\ Goto(r, "answer")
  /\ UNCHANGED <<now, newest, lastAttempt, lock, asked, deadline, feed, ended>>

-----------------------------------------------------------------------------
(* _fetch_feed_rows: one feed *)

\* The top of the loop: no budget left, or a request whose timeout is no more than is left.
Attempt(by, n) ==
  IF by <= now
    THEN Outcome("none")
    ELSE LET timeout == Lesser(RequestTimeout, by - now)
         IN  [st |-> "request", n |-> n, by |-> now + timeout, phase |-> 1, timeout |-> timeout]

Sleep(n) == [Outcome("sleep") EXCEPT !.n = n, !.by = now + Backoff(n)]

\* Mutant: the sleep is not held against the deadline.
RetryAnyway(by, n) == IF n = MaxAttempts THEN Outcome("none") ELSE Sleep(n)

\* The except clause: give up after the last attempt, or when the sleep
\* would pass the deadline.
Retry(by, n) ==
  IF n = MaxAttempts \/ now + Backoff(n) >= by THEN Outcome("none") ELSE Sleep(n)

SetFeed(f, k, val) ==
  /\ feed' = [feed EXCEPT ![f][k] = val]
  /\ UNCHANGED <<now, newest, lastAttempt, lock, pc, asked, deadline, ended>>

\* The request of feed k ends: with rows, with none, with an error the loop retries, or with
\* one it does not know (which ends the feed alone).
Respond(f, k) ==
  /\ pc[f] = "fetching"
  /\ feed[f][k].st = "request"
  /\ \E val \in {Outcome("rows"), Outcome("none"), Retry(deadline[f], feed[f][k].n)} :
       SetFeed(f, k, val)

\* A phase ends within the timeout and the next begins, with the same timeout.
Proceed(f, k) ==
  /\ pc[f] = "fetching"
  /\ feed[f][k].st = "request"
  /\ feed[f][k].phase < MaxPhases
  /\ SetFeed(f, k, [feed[f][k] EXCEPT !.phase = @ + 1, !.by = now + feed[f][k].timeout])

Wake(f, k) ==
  /\ pc[f] = "fetching"
  /\ feed[f][k].st = "sleep"
  /\ feed[f][k].by = now
  /\ SetFeed(f, k, Attempt(deadline[f], feed[f][k].n + 1))

-----------------------------------------------------------------------------
(* refresh_now: fetch_all_feeds, store_readings, the stamp *)

BeginFetch(f) ==
  /\ Goto(f, "fetching")
  /\ deadline' = [deadline EXCEPT ![f] = now + Budget]
  /\ feed' = [feed EXCEPT ![f] = [k \in Feeds |-> Attempt(now + Budget, 1)]]

\* Mutant: the holder of the lock fetches whatever happened while it waited.
RecheckNot(r) ==
  /\ pc[r] = "holding"
  /\ BeginFetch(r)
  /\ UNCHANGED <<now, newest, lastAttempt, lock, asked, ended>>

\* The second look at the cooldown, under the lock, and the fetch.
Recheck(r) ==
  /\ pc[r] = "holding"
  /\ IF CoolingDown
       THEN Goto(r, "release") /\ UNCHANGED <<deadline, feed, ended>>
       ELSE BeginFetch(r)
  /\ UNCHANGED <<now, newest, lastAttempt, lock, asked, ended>>

\* _warm_iot_for_session: no check and no lock.
Warm(w) ==
  /\ pc[w] = "idle"
  /\ asked[w] < now
  /\ now + Budget + Overrun <= MaxTime
  /\ asked' = [asked EXCEPT ![w] = now]
  /\ BeginFetch(w)
  /\ UNCHANGED <<now, newest, lastAttempt, lock, ended>>

Fetched(f) == \A k \in Feeds : feed[f][k].st \in {"rows", "none"}

\* The pool is joined; rows are stored, or the database refuses them and
\* nothing is.
Store(f) ==
  /\ pc[f] = "fetching"
  /\ Fetched(f)
  /\ newest' \in IF \E k \in Feeds : feed[f][k].st = "rows" THEN {newest, now} ELSE {newest}
  /\ Goto(f, "stamp")
  /\ UNCHANGED <<now, lastAttempt, lock, asked, deadline, feed, ended>>

EndFetch(f) ==
  /\ Goto(f, IF f \in Readers THEN "release" ELSE "idle")
  /\ deadline' = [deadline EXCEPT ![f] = 0]
  /\ feed' = [feed EXCEPT ![f] = [k \in Feeds |-> Outcome("none")]]
  /\ ended' = now

\* _last_attempt_monotonic, set on success and on failure alike.
Stamp(f) ==
  /\ pc[f] = "stamp"
  /\ lastAttempt' = now
  /\ EndFetch(f)
  /\ UNCHANGED <<now, newest, lock, asked>>

\* Mutant: a request that waited for the lock does not give it back.
ReleaseUnlessWaited(r) ==
  /\ pc[r] = "release"
  /\ lock' = IF asked[r] < lastAttempt THEN lock ELSE Nobody
  /\ Goto(r, "answer")
  /\ UNCHANGED <<now, newest, lastAttempt, asked, deadline, feed, ended>>

\* The finally clause.
Release(r) ==
  /\ pc[r] = "release"
  /\ lock' = Nobody
  /\ Goto(r, "answer")
  /\ UNCHANGED <<now, newest, lastAttempt, asked, deadline, feed, ended>>

\* get_latest_per_feed and the response, from whatever the database holds.
Answer(r) ==
  /\ pc[r] = "answer"
  /\ Goto(r, "idle")
  /\ UNCHANGED <<now, newest, lastAttempt, lock, asked, deadline, feed, ended>>

-----------------------------------------------------------------------------
(* The poller and the buffer store rows as well; time *)

\* Rows of another transport, without a stamp (Ingestion has their story).
OtherStore ==
  /\ newest < now
  /\ newest' = now
  /\ UNCHANGED <<now, lastAttempt, lock, pc, asked, deadline, feed, ended>>

\* Nobody is in code that takes no time.
Instant(f) ==
  \/ pc[f] \in {"stale", "holding", "stamp", "release", "answer"}
  \/ pc[f] = "fetching" /\ Fetched(f)
  \/ pc[f] = "waiting" /\ (lock = Nobody \/ now >= asked[f] + LockWait)
  \/ pc[f] = "fetching" /\ \E k \in Feeds :
       feed[f][k].st \in {"request", "sleep"} /\ feed[f][k].by <= now

Tick ==
  /\ now < MaxTime
  /\ \A f \in Fetchers : ~Instant(f)
  /\ now' = now + 1
  /\ UNCHANGED <<newest, lastAttempt, lock, pc, asked, deadline, feed, ended>>

Step(f) ==
  \/ Store(f) \/ Stamp(f)
  \/ \E k \in Feeds : Respond(f, k) \/ Proceed(f, k) \/ Wake(f, k)

ReaderStep(r) ==
  \/ CheckCooldown(r) \/ Acquire(r) \/ GiveUp(r) \/ Recheck(r) \/ Release(r) \/ Answer(r)

Next ==
  \/ \E r \in Readers : Ask(r) \/ ReaderStep(r)
  \/ \E w \in Warmups : Warm(w)
  \/ \E f \in Fetchers : Step(f)
  \/ OtherStore
  \/ Tick

\* Time passes and a thread that can run does; nobody has to ask.
Fairness ==
  /\ WF_vars(Tick)
  /\ \A f \in Fetchers : WF_vars(Step(f))
  /\ \A r \in Readers : WF_vars(ReaderStep(r))

Spec == Init /\ [][Next]_vars
FairSpec == Spec /\ Fairness

-----------------------------------------------------------------------------
(* Properties *)

Labels == {"idle", "stale", "waiting", "holding", "fetching", "stamp", "release", "answer"}

\* Every variable keeps its type, and nothing is dated later than the clock.
TypeOK ==
  /\ now \in 1..MaxTime /\ newest \in 0..now /\ lastAttempt \in 0..now
  /\ lock \in Readers \cup {Nobody}
  /\ pc \in [Fetchers -> Labels]
  /\ asked \in [Fetchers -> 0..now] /\ ended \in 0..now
  /\ deadline \in [Fetchers -> Nat]
  /\ feed \in [Fetchers -> [Feeds -> [st : {"request", "sleep", "rows", "none"},
                                      n : 1..MaxAttempts, by : Nat,
                                      phase : 1..MaxPhases, timeout : 0..RequestTimeout]]]

HoldsLock(r) == pc[r] \in {"holding", "fetching", "stamp", "release"}

\* _fetch_lock "serializes fetch-through across concurrent requests": at most
\* one request stands between acquire and release, and it owns the lock.
LockIsOwned == \A r \in Readers : HoldsLock(r) <=> lock = r

\* A burst of requests makes one fetch: a request never fetches when another
\* request's fetch, or a warm-up, ended while it was waiting, whatever that
\* fetch brought (iot_live.py, the second look at the cooldown).
BurstFetchesOnce ==
  [][\A r \in Readers : pc[r] # "fetching" /\ pc'[r] = "fetching" => ended < asked[r]]_vars

\* Retries stay under the deadline: a request is answered within the wait for the lock, one
\* fetch budget and, as the deadline does not bound a request that has begun, the later phases
\* of the one that is under way when the budget ends, however many attempts there may be.
AnswersInTime ==
  \A r \in Readers : pc[r] # "idle" => now <= asked[r] + LockWait + Budget + Overrun

\* Nobody keeps the lock: a fetch that fails or is not needed gives it back.
LockIsReturned == \A r \in Readers : lock = r ~> lock # r
=============================================================================
