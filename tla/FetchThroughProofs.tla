------------------------- MODULE FetchThroughProofs -------------------------
(***************************************************************************)
(* Theorems about FetchThrough, for every number of requests, warm-ups and *)
(* feeds, and every length of the waits, the retries and the budget.       *)
(***************************************************************************)
EXTENDS FetchThrough, TLAPS

\* What the thread of a feed is doing.
FeedState == [st : {"request", "sleep", "rows", "none"}, n : 1..MaxAttempts, by : Nat,
              phase : 1..MaxPhases, timeout : 0..RequestTimeout]

Types ==
  /\ now \in Nat \ {0} /\ lastAttempt \in Nat /\ ended = lastAttempt /\ lastAttempt <= now
  /\ lock \in Readers \cup {Nobody}
  /\ pc \in [Fetchers -> Labels]
  /\ asked \in [Fetchers -> Nat]
  /\ deadline \in [Fetchers -> Nat]
  /\ feed \in [Fetchers -> [Feeds -> FeedState]]
  /\ \A f \in Fetchers, k \in Feeds : feed[f][k].st = "sleep" => feed[f][k].n < MaxAttempts

\* How late a feed's thread wakes up: a sleep within the deadline, a request within the
\* timeouts of its later phases.
DueInTime(due, by) ==
  /\ due.st = "sleep" => due.by <= by
  /\ due.st = "request" => due.by <= by + (due.phase - 1) * RequestTimeout

\* How late it can be at each label of the code.
Punctual ==
  \A f \in Fetchers :
    /\ pc[f] = "stale" => now = asked[f]
    /\ pc[f] \in {"waiting", "holding"} => now <= asked[f] + LockWait
    /\ pc[f] = "fetching" =>
         /\ now <= deadline[f] + Overrun /\ deadline[f] <= asked[f] + LockWait + Budget
         /\ \A k \in Feeds :
              /\ feed[f][k].st \in {"request", "sleep"} => now <= feed[f][k].by
              /\ DueInTime(feed[f][k], deadline[f])
    /\ pc[f] \in {"stamp", "release", "answer"} => now <= asked[f] + LockWait + Budget + Overrun

\* The process has been up for a while when a request arrives.
Busy == \A f \in Fetchers : pc[f] # "idle" => asked[f] # 0

\* The later phases of a request are not counted twice, and never more than there can be.
LEMMA Phases ==
  /\ Overrun \in Nat
  /\ \A i \in 1..MaxPhases :
       /\ (i - 1) * RequestTimeout \in Nat
       /\ (i - 1) * RequestTimeout <= Overrun
       /\ (i - 1) * RequestTimeout + RequestTimeout = i * RequestTimeout
<1> DEFINE R == RequestTimeout
<1>1. R \in Nat /\ MaxPhases \in Nat \ {0}
  BY TimesAssumption
<1> HIDE DEF R
<1>2. \A i \in Nat : i * R \in Nat
  BY <1>1
<1>3. \A i, j \in Nat : (i + j) * R = i * R + j * R
  BY <1>1
<1>4. ASSUME NEW i \in 1..MaxPhases
      PROVE  /\ (i - 1) * R \in Nat
             /\ (i - 1) * R <= (MaxPhases - 1) * R
             /\ (i - 1) * R + R = i * R
  <2>1. i - 1 \in Nat /\ MaxPhases - i \in Nat /\ (i - 1) + (MaxPhases - i) = MaxPhases - 1 /\ (i - 1) + 1 = i
    BY <1>1
  <2>2. (MaxPhases - 1) * R = (i - 1) * R + (MaxPhases - i) * R
    BY <1>3, <2>1
  <2>3. i * R = (i - 1) * R + 1 * R
    BY <1>3, <2>1
  <2>4. (i - 1) * R \in Nat /\ (MaxPhases - i) * R \in Nat /\ 1 * R = R
    BY <1>1, <1>2, <2>1
  <2> QED
    BY <2>2, <2>3, <2>4
<1>5. (MaxPhases - 1) * R \in Nat
  BY <1>1, <1>2
<1> QED
  BY <1>4, <1>5 DEF Overrun, R

LEMMA AttemptInTime ==
  ASSUME NEW by \in Nat, NEW n \in 1..MaxAttempts, now \in Nat
  PROVE  /\ Attempt(by, n) \in FeedState
         /\ Attempt(by, n).st # "sleep"
         /\ Attempt(by, n).st = "request" => now <= Attempt(by, n).by
         /\ DueInTime(Attempt(by, n), by)
<1>1. CASE by <= now
  BY <1>1, TimesAssumption DEF Attempt, FeedState, Outcome, DueInTime
<1>2. CASE ~(by <= now)
  <2> DEFINE timeout == Lesser(RequestTimeout, by - now)
  <2>1. timeout \in 0..RequestTimeout /\ now + timeout <= by /\ now + timeout \in Nat
    BY <1>2, TimesAssumption DEF Lesser
  <2>2. Attempt(by, n) = [st |-> "request", n |-> n, by |-> now + timeout, phase |-> 1,
                          timeout |-> timeout]
    BY <1>2 DEF Attempt
  <2> HIDE DEF timeout
  <2>3. (1 - 1) * RequestTimeout = 0 /\ 1 \in 1..MaxPhases
    BY TimesAssumption
  <2> QED
    BY <2>1, <2>2, <2>3 DEF FeedState, DueInTime
<1> QED
  BY <1>1, <1>2

LEMMA RetryInTime ==
  ASSUME NEW by \in Nat, NEW n \in 1..MaxAttempts, now \in Nat
  PROVE  /\ Retry(by, n) \in FeedState
         /\ Retry(by, n).st = "sleep" =>
              n < MaxAttempts /\ Retry(by, n).n = n /\ now <= Retry(by, n).by
         /\ Retry(by, n).st # "request"
         /\ DueInTime(Retry(by, n), by)
<1>1. CASE n = MaxAttempts \/ now + Backoff(n) >= by
  BY <1>1, TimesAssumption DEF Retry, FeedState, Outcome, DueInTime
<1>2. CASE ~(n = MaxAttempts \/ now + Backoff(n) >= by)
  <2>1. Retry(by, n) = [st |-> "sleep", n |-> n, by |-> now + Backoff(n), phase |-> 1, timeout |-> 0]
    BY <1>2 DEF Retry, Sleep, Outcome
  <2>2. now + Backoff(n) \in Nat /\ now + Backoff(n) <= by /\ now <= now + Backoff(n) /\ n < MaxAttempts
    BY <1>2, TimesAssumption
  <2> QED
    BY <2>1, <2>2, TimesAssumption DEF FeedState, DueInTime
<1> QED
  BY <1>1, <1>2

LEMMA OutcomeInTime ==
  ASSUME NEW st \in {"rows", "none"}, NEW by \in Nat
  PROVE  /\ Outcome(st) \in FeedState
         /\ Outcome(st).st = st
         /\ DueInTime(Outcome(st), by)
  BY TimesAssumption DEF FeedState, Outcome, DueInTime

\* A phase that ends while it may is followed by one that is due a timeout later at most.
LEMMA ProceedInTime ==
  ASSUME NEW was \in FeedState, NEW by \in Nat, now \in Nat,
         was.st = "request", was.phase < MaxPhases
  PROVE  LET is == [was EXCEPT !.phase = @ + 1, !.by = now + was.timeout]
         IN  /\ is \in FeedState
             /\ is.st = "request"
             /\ now <= is.by
             /\ now <= was.by /\ DueInTime(was, by) => DueInTime(is, by)
<1> DEFINE is == [was EXCEPT !.phase = @ + 1, !.by = now + was.timeout]
<1>1. /\ is.st = "request" /\ is.phase = was.phase + 1 /\ is.by = now + was.timeout
      /\ is.n = was.n /\ is.timeout = was.timeout
  BY DEF FeedState
<1>2. /\ was.timeout \in Nat /\ was.timeout <= RequestTimeout /\ RequestTimeout \in Nat
      /\ was.phase \in 1..MaxPhases /\ was.by \in Nat /\ MaxPhases \in Nat
  BY TimesAssumption DEF FeedState
<1>3. is \in FeedState
  <2>1. is = [st |-> was.st, n |-> was.n, by |-> now + was.timeout, phase |-> was.phase + 1,
              timeout |-> was.timeout]
    <3> DEFINE on == [was EXCEPT !.phase = was.phase + 1]
    <3>1. on = [st |-> was.st, n |-> was.n, by |-> was.by, phase |-> was.phase + 1,
                timeout |-> was.timeout]
      BY DEF FeedState
    <3>2. is = [on EXCEPT !.by = now + was.timeout]
      OBVIOUS
    <3> HIDE DEF on, is
    <3> QED
      BY <3>1, <3>2
  <2>2. now + was.timeout \in Nat /\ was.phase + 1 \in 1..MaxPhases
    BY <1>2
  <2> HIDE DEF is
  <2> QED
    BY <2>1, <2>2 DEF FeedState
<1> HIDE DEF is
<1>4. ASSUME now <= was.by, DueInTime(was, by)
      PROVE  DueInTime(is, by)
  <2>1. was.by <= by + (was.phase - 1) * RequestTimeout
    BY <1>4 DEF DueInTime
  <2> DEFINE before == (was.phase - 1) * RequestTimeout  after == was.phase * RequestTimeout
  <2>2. before \in Nat /\ before + RequestTimeout = after
    BY <1>2, Phases
  <2>3. was.by <= by + before
    BY <2>1
  <2>4. is.phase - 1 = was.phase
    BY <1>1, <1>2
  <2> HIDE DEF before, after
  <2>5. is.by <= by + after
    BY <1>1, <1>2, <1>4, <2>2, <2>3
  <2>6. is.by <= by + (is.phase - 1) * RequestTimeout
    BY <2>4, <2>5 DEF after
  <2> QED
    BY <1>1, <2>6 DEF DueInTime
<1> QED
  BY <1>1, <1>2, <1>3, <1>4 DEF is

-----------------------------------------------------------------------------

LEMMA TypesInit == Init => Types
  BY TimesAssumption DEF Init, Types, Labels, FeedState, Outcome, Fetchers

\* A new fetch, by whoever begins it.
LEMMA BeginFetchTypes ==
  ASSUME Types, NEW f \in Fetchers, BeginFetch(f)
  PROVE  /\ pc' \in [Fetchers -> Labels]
         /\ deadline' \in [Fetchers -> Nat]
         /\ feed' \in [Fetchers -> [Feeds -> FeedState]]
         /\ \A g \in Fetchers, k \in Feeds : feed'[g][k].st = "sleep" => feed'[g][k].n < MaxAttempts
         /\ \A k \in Feeds : feed'[f][k].st \in {"request", "sleep"} => now <= feed'[f][k].by
         /\ \A k \in Feeds : DueInTime(feed'[f][k], deadline'[f])
         /\ deadline'[f] = now + Budget
<1>1. now + Budget \in Nat /\ 1 \in 1..MaxAttempts
  BY TimesAssumption DEF Types
<1> DEFINE a == Attempt(now + Budget, 1)
<1>2. /\ a \in FeedState /\ a.st # "sleep"
      /\ a.st = "request" => now <= a.by
      /\ DueInTime(a, now + Budget)
  BY <1>1, AttemptInTime DEF Types
<1> HIDE DEF a
<1>3. feed' = [feed EXCEPT ![f] = [k \in Feeds |-> a]]
  BY DEF BeginFetch, a
<1> QED
  BY <1>1, <1>2, <1>3 DEF Types, BeginFetch, Goto, Labels

LEMMA TypesStep == Types /\ [Next]_vars => Types'
<1> SUFFICES ASSUME Types, [Next]_vars
             PROVE  Types'
  OBVIOUS
<1>1. CASE UNCHANGED vars
  BY <1>1 DEF vars, Types
<1>2. ASSUME NEW r \in Readers,
             Ask(r) \/ CheckCooldown(r) \/ Acquire(r) \/ GiveUp(r) \/ Release(r) \/ Answer(r)
      PROVE  Types'
  BY <1>2 DEF Types, Ask, CheckCooldown, Acquire, GiveUp, Release, Answer, Goto, Labels, Fetchers
<1>3. ASSUME NEW r \in Readers, Recheck(r)
      PROVE  Types'
  <2>1. r \in Fetchers
    BY DEF Fetchers
  <2>2. CASE CoolingDown
    BY <1>3, <2>1, <2>2 DEF Types, Recheck, Goto, Labels
  <2>3. CASE ~CoolingDown
    BY <1>3, <2>1, <2>3, BeginFetchTypes DEF Types, Recheck
  <2> QED
    BY <2>2, <2>3
<1>4. ASSUME NEW w \in Warmups, Warm(w)
      PROVE  Types'
  BY <1>4, BeginFetchTypes DEF Types, Warm, Fetchers
<1>5. ASSUME NEW f \in Fetchers, Store(f)
      PROVE  Types'
  BY <1>5 DEF Types, Store, Goto, Labels
<1>6. ASSUME NEW f \in Fetchers, Stamp(f)
      PROVE  Types'
  BY <1>6, TimesAssumption DEF Types, Stamp, EndFetch, Goto, Labels, Outcome, FeedState
<1>7. ASSUME NEW f \in Fetchers, NEW k \in Feeds, Respond(f, k) \/ Proceed(f, k) \/ Wake(f, k)
      PROVE  Types'
  <2>1. /\ feed[f][k] \in FeedState /\ deadline[f] \in Nat
        /\ feed[f][k].n \in 1..MaxAttempts
    BY DEF Types, FeedState
  <2>2. PICK val \in FeedState :
          /\ val.st = "sleep" => val.n < MaxAttempts
          /\ SetFeed(f, k, val)
    <3>1. CASE Respond(f, k)
      <4>1. Retry(deadline[f], feed[f][k].n) \in FeedState
            /\ (Retry(deadline[f], feed[f][k].n).st = "sleep"
                  => Retry(deadline[f], feed[f][k].n).n < MaxAttempts)
        BY <2>1, RetryInTime DEF Types
      <4>2. \A st \in {"rows", "none"} : Outcome(st) \in FeedState /\ Outcome(st).st # "sleep"
        BY <2>1, OutcomeInTime
      <4> QED
        BY <3>1, <4>1, <4>2 DEF Respond
    <3>2. CASE Wake(f, k)
      <4>1. feed[f][k].n + 1 \in 1..MaxAttempts
        BY <2>1, <3>2, TimesAssumption DEF Types, Wake
      <4> QED
        BY <2>1, <3>2, <4>1, AttemptInTime DEF Wake, Types
    <3>3. CASE Proceed(f, k)
      BY <2>1, <3>3, ProceedInTime DEF Proceed, Types
    <3> QED
      BY <1>7, <3>1, <3>2, <3>3
  <2> QED
    BY <2>2 DEF Types, SetFeed
<1>8. CASE OtherStore \/ Tick
  BY <1>8 DEF Types, OtherStore, Tick
<1> QED
  BY <1>1, <1>2, <1>3, <1>4, <1>5, <1>6, <1>7, <1>8 DEF Next, Step, ReaderStep

-----------------------------------------------------------------------------

LEMMA LockInit == Init => LockIsOwned
  BY ActorsAssumption DEF Init, LockIsOwned, HoldsLock, Fetchers

\* Who takes the lock finds it free, so nobody stood behind it; who gives it back owned it.
LEMMA LockStep == Types /\ LockIsOwned /\ [Next]_vars => LockIsOwned'
<1> SUFFICES ASSUME Types, LockIsOwned, [Next]_vars
             PROVE  LockIsOwned'
  OBVIOUS
<1> USE DEF LockIsOwned, HoldsLock
<1>0. Readers \subseteq Fetchers /\ pc \in [Fetchers -> Labels]
  BY DEF Fetchers, Types
<1>1. CASE UNCHANGED vars
  BY <1>1 DEF vars
<1>2. ASSUME NEW r \in Readers,
             Ask(r) \/ CheckCooldown(r) \/ GiveUp(r) \/ Answer(r)
      PROVE  LockIsOwned'
  BY <1>0, <1>2 DEF Ask, CheckCooldown, GiveUp, Answer, Goto
<1>3. ASSUME NEW r \in Readers, Acquire(r) \/ Release(r)
      PROVE  LockIsOwned'
  BY <1>0, <1>3, ActorsAssumption DEF Acquire, Release, Goto
<1>4. ASSUME NEW r \in Readers, Recheck(r)
      PROVE  LockIsOwned'
  BY <1>0, <1>4 DEF Recheck, BeginFetch, Goto
<1>5. ASSUME NEW w \in Warmups, Warm(w)
      PROVE  LockIsOwned'
  BY <1>0, <1>5, ActorsAssumption DEF Warm, BeginFetch, Goto
<1>6. ASSUME NEW f \in Fetchers, Store(f) \/ Stamp(f)
      PROVE  LockIsOwned'
  BY <1>0, <1>6, ActorsAssumption DEF Store, Stamp, EndFetch, Goto, Fetchers
<1>7. ASSUME NEW f \in Fetchers, NEW k \in Feeds, Respond(f, k) \/ Proceed(f, k) \/ Wake(f, k)
      PROVE  LockIsOwned'
  BY <1>7 DEF Respond, Proceed, Wake, SetFeed
<1>8. CASE OtherStore \/ Tick
  BY <1>8 DEF OtherStore, Tick
<1> QED
  BY <1>1, <1>2, <1>3, <1>4, <1>5, <1>6, <1>7, <1>8 DEF Next, Step, ReaderStep

-----------------------------------------------------------------------------

LEMMA PunctualInit == Init => Punctual
  BY DEF Init, Punctual

\* The clock stops for whoever is due, so it can never overtake a label.
LEMMA PunctualStep == Types /\ Punctual /\ [Next]_vars => Punctual'
<1> SUFFICES ASSUME Types, Punctual, [Next]_vars
             PROVE  Punctual'
  OBVIOUS
<1>0. /\ now \in Nat /\ pc \in [Fetchers -> Labels] /\ asked \in [Fetchers -> Nat]
      /\ deadline \in [Fetchers -> Nat] /\ feed \in [Fetchers -> [Feeds -> FeedState]]
      /\ LockWait \in Nat /\ Budget \in Nat /\ Overrun \in Nat /\ Readers \subseteq Fetchers /\ Warmups \subseteq Fetchers
  BY TimesAssumption, Phases DEF Types, Fetchers
<1>1. CASE UNCHANGED vars
  BY <1>1 DEF vars, Punctual, DueInTime
<1>2. ASSUME NEW r \in Readers,
             Ask(r) \/ CheckCooldown(r) \/ Acquire(r) \/ GiveUp(r) \/ Release(r) \/ Answer(r)
      PROVE  Punctual'
  <2>1. CASE Ask(r)
    BY <1>0, <2>1 DEF Punctual, Ask, Goto
  <2>2. CASE CheckCooldown(r) \/ Acquire(r)
    BY <1>0, <2>2 DEF Punctual, CheckCooldown, Acquire, Goto
  <2>3. CASE GiveUp(r) \/ Release(r) \/ Answer(r)
    BY <1>0, <2>3 DEF Punctual, GiveUp, Release, Answer, Goto
  <2> QED
    BY <1>2, <2>1, <2>2, <2>3
<1>3. ASSUME NEW r \in Readers, Recheck(r)
      PROVE  Punctual'
  <2>1. CASE CoolingDown
    BY <1>0, <1>3, <2>1 DEF Punctual, Recheck, Goto
  <2>2. CASE ~CoolingDown
    <3>1. BeginFetch(r) /\ UNCHANGED <<now, asked>> /\ now <= asked[r] + LockWait
      BY <1>0, <1>3, <2>2 DEF Recheck, Punctual
    <3>2. /\ deadline'[r] = now + Budget
          /\ \A k \in Feeds : feed'[r][k].st \in {"request", "sleep"} => now <= feed'[r][k].by
          /\ \A k \in Feeds : DueInTime(feed'[r][k], deadline'[r])
      BY <1>0, <3>1, BeginFetchTypes
    <3> QED
      BY <1>0, <3>1, <3>2 DEF Punctual, BeginFetch, Goto
  <2> QED
    BY <2>1, <2>2
<1>4. ASSUME NEW w \in Warmups, Warm(w)
      PROVE  Punctual'
  <2>1. /\ deadline'[w] = now + Budget
        /\ \A k \in Feeds : feed'[w][k].st \in {"request", "sleep"} => now <= feed'[w][k].by
        /\ \A k \in Feeds : DueInTime(feed'[w][k], deadline'[w])
    BY <1>0, <1>4, BeginFetchTypes DEF Warm
  <2> QED
    BY <1>0, <1>4, <2>1 DEF Punctual, Warm, BeginFetch, Goto
<1>5. ASSUME NEW f \in Fetchers, Store(f) \/ Stamp(f)
      PROVE  Punctual'
  BY <1>0, <1>5 DEF Punctual, Store, Stamp, EndFetch, Goto
<1>6. ASSUME NEW f \in Fetchers, NEW k \in Feeds, Respond(f, k) \/ Proceed(f, k) \/ Wake(f, k)
      PROVE  Punctual'
  <2>1. /\ feed[f][k] \in FeedState /\ deadline[f] \in Nat
        /\ feed[f][k].n \in 1..MaxAttempts
    BY <1>0 DEF FeedState
  <2>2. PICK val :
          /\ val.st \in {"request", "sleep"} => now <= val.by
          /\ DueInTime(val, deadline[f])
          /\ SetFeed(f, k, val)
    <3>1. CASE Respond(f, k)
      <4>1. LET val == Retry(deadline[f], feed[f][k].n)
            IN  /\ val.st \in {"request", "sleep"} => now <= val.by
                /\ DueInTime(val, deadline[f])
        BY <1>0, <2>1, RetryInTime
      <4>2. \A st \in {"rows", "none"} :
              Outcome(st).st = st /\ DueInTime(Outcome(st), deadline[f])
        BY <2>1, OutcomeInTime
      <4> QED
        BY <3>1, <4>1, <4>2 DEF Respond
    <3>2. CASE Wake(f, k)
      <4>1. feed[f][k].n + 1 \in 1..MaxAttempts
        BY <2>1, <3>2, TimesAssumption DEF Types, Wake
      <4> QED
        BY <1>0, <2>1, <3>2, <4>1, AttemptInTime DEF Wake
    <3>3. CASE Proceed(f, k)
      <4>1. now <= feed[f][k].by /\ DueInTime(feed[f][k], deadline[f])
        BY <3>3 DEF Proceed, Punctual
      <4> QED
        BY <1>0, <2>1, <3>3, <4>1, ProceedInTime DEF Proceed
    <3> QED
      BY <1>6, <3>1, <3>2, <3>3
  <2> QED
    BY <1>0, <2>2 DEF Punctual, SetFeed
<1>7. CASE OtherStore
  BY <1>7 DEF Punctual, OtherStore
<1>8. CASE Tick
  <2>0. UNCHANGED <<pc, asked, deadline, feed>> /\ now' = now + 1
    BY <1>8 DEF Tick
  <2> SUFFICES ASSUME NEW f \in Fetchers
               PROVE  /\ pc[f] \notin {"stale", "holding", "stamp", "release", "answer"}
                      /\ pc[f] = "waiting" => now + 1 <= asked[f] + LockWait
                      /\ pc[f] = "fetching" =>
                           /\ now + 1 <= deadline[f] + Overrun
                           /\ \A k \in Feeds : feed[f][k].st \in {"request", "sleep"}
                                               => now + 1 <= feed[f][k].by
    BY <2>0 DEF Punctual, DueInTime
  <2>1. ~Instant(f)
    BY <1>8 DEF Tick
  <2>2. pc[f] \notin {"stale", "holding", "stamp", "release", "answer"}
    BY <2>1 DEF Instant
  <2>3. pc[f] = "waiting" => now + 1 <= asked[f] + LockWait
    BY <1>0, <2>1 DEF Instant
  <2>4. ASSUME pc[f] = "fetching", NEW k \in Feeds, feed[f][k].st \in {"request", "sleep"}
        PROVE  now + 1 <= feed[f][k].by
    <3>1. ~(feed[f][k].by <= now)
      BY <2>1, <2>4 DEF Instant
    <3>2. feed[f][k].by \in Nat
      BY <1>0 DEF FeedState
    <3> QED
      BY <1>0, <3>1, <3>2
  <2>5. ASSUME pc[f] = "fetching"
        PROVE  now + 1 <= deadline[f] + Overrun
    <3>1. PICK k \in Feeds : feed[f][k].st \in {"request", "sleep"}
      BY <1>0, <2>1, <2>5 DEF Instant, Fetched, FeedState
    <3>2. feed[f][k].by <= deadline[f] + Overrun
      <4> DEFINE later == (feed[f][k].phase - 1) * RequestTimeout
      <4>1. DueInTime(feed[f][k], deadline[f])
        BY <2>5 DEF Punctual
      <4>2. feed[f][k].by \in Nat /\ feed[f][k].phase \in 1..MaxPhases
        BY <1>0 DEF FeedState
      <4>3. later \in Nat /\ later <= Overrun
        BY <4>2, Phases
      <4>4. feed[f][k].by <= deadline[f] \/ feed[f][k].by <= deadline[f] + later
        BY <3>1, <4>1 DEF DueInTime
      <4> HIDE DEF later
      <4> QED
        BY <1>0, <4>2, <4>3, <4>4
    <3>3. now + 1 <= feed[f][k].by /\ feed[f][k].by \in Nat
      BY <1>0, <2>4, <2>5, <3>1 DEF FeedState
    <3> QED
      BY <1>0, <3>2, <3>3
  <2> QED
    BY <2>2, <2>3, <2>4, <2>5
<1> QED
  BY <1>1, <1>2, <1>3, <1>4, <1>5, <1>6, <1>7, <1>8 DEF Next, Step, ReaderStep

-----------------------------------------------------------------------------

LEMMA BusyInit == Init => Busy
  BY DEF Init, Busy

LEMMA BusyStep == Types /\ Busy /\ [Next]_vars => Busy'
<1> SUFFICES ASSUME Types, Busy, [Next]_vars
             PROVE  Busy'
  OBVIOUS
<1>0. /\ now \in Nat \ {0} /\ pc \in [Fetchers -> Labels] /\ asked \in [Fetchers -> Nat]
      /\ Readers \subseteq Fetchers /\ Warmups \subseteq Fetchers
  BY DEF Types, Fetchers
<1>1. CASE UNCHANGED vars
  BY <1>1 DEF vars, Busy
<1>2. ASSUME NEW r \in Readers, Ask(r) \/ ReaderStep(r)
      PROVE  Busy'
  BY <1>0, <1>2 DEF Busy, Ask, ReaderStep, CheckCooldown, Acquire, GiveUp, Recheck, BeginFetch,
                    Release, Answer, Goto
<1>3. ASSUME NEW w \in Warmups, Warm(w)
      PROVE  Busy'
  BY <1>0, <1>3 DEF Busy, Warm, BeginFetch, Goto
<1>4. ASSUME NEW f \in Fetchers, Step(f)
      PROVE  Busy'
  BY <1>0, <1>4 DEF Busy, Step, Store, Stamp, EndFetch, Respond, Proceed, Wake, SetFeed, Goto
<1>5. CASE OtherStore \/ Tick
  BY <1>5 DEF Busy, OtherStore, Tick
<1> QED
  BY <1>1, <1>2, <1>3, <1>4, <1>5 DEF Next

-----------------------------------------------------------------------------

\* A request that begins its fetch has waited for at most LockWait, less than a cooldown, and
\* the cooldown has passed since the last fetch ended.
LEMMA OneFetchPerBurst ==
  Types /\ Punctual /\ Busy /\ [Next]_vars
    => (\A r \in Readers : pc[r] # "fetching" /\ pc'[r] = "fetching" => ended < asked[r])
<1> SUFFICES ASSUME Types, Punctual, Busy, [Next]_vars, NEW r \in Readers,
                    pc[r] # "fetching", pc'[r] = "fetching"
             PROVE  ended < asked[r]
  OBVIOUS
<1>0. r \in Fetchers /\ pc \in [Fetchers -> Labels]
  BY DEF Fetchers, Types
<1>1. Recheck(r) /\ ~CoolingDown
  <2>1. CASE UNCHANGED vars
    BY <2>1 DEF vars
  <2>2. ASSUME NEW q \in Readers, Ask(q) \/ ReaderStep(q)
        PROVE  Recheck(r) /\ ~CoolingDown
    <3>1. CASE Recheck(q)
      BY <1>0, <3>1 DEF Recheck, BeginFetch, Goto
    <3> QED
      BY <1>0, <2>2, <3>1
      DEF ReaderStep, Ask, CheckCooldown, Acquire, GiveUp, Release, Answer, Goto
  <2>3. ASSUME NEW w \in Warmups, Warm(w)
        PROVE  FALSE
    BY <1>0, <2>3, ActorsAssumption DEF Warm, BeginFetch, Goto
  <2>4. ASSUME NEW f \in Fetchers, Step(f)
        PROVE  FALSE
    BY <1>0, <2>4 DEF Step, Store, Stamp, EndFetch, Respond, Proceed, Wake, SetFeed, Goto
  <2>5. CASE OtherStore \/ Tick
    BY <2>5 DEF OtherStore, Tick
  <2> QED
    BY <2>1, <2>2, <2>3, <2>4, <2>5 DEF Next
<1>2. now <= asked[r] + LockWait
  BY <1>0, <1>1 DEF Recheck, Punctual
<1>3. lastAttempt = 0 \/ now - lastAttempt >= Cooldown
  BY <1>1, TimesAssumption DEF CoolingDown, Types
<1>4. asked[r] \in Nat /\ now \in Nat \ {0} /\ lastAttempt \in Nat /\ ended = lastAttempt
  BY <1>0 DEF Types
<1>5. asked[r] # 0
  BY <1>0, <1>1 DEF Recheck, Busy
<1> QED
  BY <1>2, <1>3, <1>4, <1>5, TimesAssumption, LockWaitAssumption

-----------------------------------------------------------------------------

\* The three parts together are inductive.
LEMMA Inductive == Spec => [](Types /\ LockIsOwned /\ Punctual /\ Busy)
<1> QED
  BY TypesInit, TypesStep, LockInit, LockStep, PunctualInit, PunctualStep, BusyInit, BusyStep, PTL DEF Spec

\* iot_live.py, _fetch_lock "serializes fetch-through across concurrent requests": at most
\* one request stands between acquire and release, whatever its fetch does.
THEOREM LockOwned == Spec => []LockIsOwned
  BY Inductive, PTL

\* iot_live.py, the second look at the cooldown: of the requests of a burst one fetches,
\* because LockWait is shorter than the cooldown.
THEOREM OneFetch == Spec => BurstFetchesOnce
  BY Inductive, OneFetchPerBurst, PTL DEF Spec, BurstFetchesOnce

\* http_poller.py, "retries are bounded by deadline": a request is answered within the wait for
\* the lock, one fetch budget and the later phases of one upstream request, for every number of
\* attempts, every backoff and every bound on the phases.
THEOREM Answered == Spec => []AnswersInTime
<1>1. Types /\ Punctual => AnswersInTime
  <2> SUFFICES ASSUME Types, Punctual, NEW r \in Readers, pc[r] # "idle"
               PROVE  now <= asked[r] + LockWait + Budget + Overrun
    BY DEF AnswersInTime
  <2>1. r \in Fetchers /\ pc[r] \in Labels /\ asked[r] \in Nat /\ deadline[r] \in Nat /\ now \in Nat
    BY DEF Types, Fetchers
  <2> QED
    BY <2>1, TimesAssumption, Phases DEF Punctual, Labels
<1> QED
  BY <1>1, Inductive, PTL

-----------------------------------------------------------------------------

\* Nothing is dated in the future.
Clocks ==
  /\ now <= MaxTime /\ newest \in Nat /\ newest <= now
  /\ \A f \in Fetchers : asked[f] <= now

LEMMA ClocksStep == Types /\ Clocks /\ [Next]_vars => Clocks'
<1> SUFFICES ASSUME Types, Clocks, [Next]_vars
             PROVE  Clocks'
  OBVIOUS
<1> USE TimesAssumption DEF Clocks
<1>1. CASE UNCHANGED vars
  BY <1>1 DEF vars
<1>2. ASSUME NEW r \in Fetchers, Ask(r) \/ Warm(r)
      PROVE  Clocks'
  <2>1. /\ now' = now /\ newest' = newest /\ now \in Nat
        /\ asked \in [Fetchers -> Nat] /\ asked' = [asked EXCEPT ![r] = now]
    BY <1>2 DEF Types, Ask, Warm
  <2> QED
    BY <2>1
<1>3. ASSUME NEW r \in Readers, ReaderStep(r)
      PROVE  Clocks'
  BY <1>3 DEF ReaderStep, CheckCooldown, Acquire, GiveUp, Recheck, Release, Answer
<1>4. ASSUME NEW f \in Fetchers, Store(f)
      PROVE  Clocks'
  BY <1>4 DEF Types, Store
<1>5. ASSUME NEW f \in Fetchers, Stamp(f) \/ \E k \in Feeds : Respond(f, k) \/ Proceed(f, k) \/ Wake(f, k)
      PROVE  Clocks'
  BY <1>5 DEF Stamp, Respond, Proceed, Wake, SetFeed
<1>6. CASE OtherStore \/ Tick
  BY <1>6 DEF Types, OtherStore, Tick
<1> QED
  BY <1>1, <1>2, <1>3, <1>4, <1>5, <1>6 DEF Next, Step, Fetchers

\* Every variable of the fetch-through keeps its type, and no row, fetch or request is dated
\* later than the clock.
THEOREM FetchTypes == Spec => []TypeOK
<1>1. Init => Clocks
  BY TimesAssumption DEF Init, Clocks
<1>2. Types /\ Clocks => TypeOK
  BY DEF Types, Clocks, TypeOK, FeedState
<1> QED
  BY <1>1, <1>2, ClocksStep, Inductive, PTL DEF Spec
=============================================================================
