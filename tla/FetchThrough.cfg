\* Two requests and a warm-up; one unit of time is half a second of backoff. A request has
\* two phases at most.
SPECIFICATION FairSpec
CONSTANTS
  r1 = r1
  r2 = r2
  w1 = w1
  k1 = k1
  k2 = k2
  Nobody = Nobody
  Readers = {r1, r2}
  Warmups = {w1}
  Feeds = {k1}
  MaxTime = 9
  StaleAfter = 3
  Cooldown = 2
  LockWait = 1
  Budget = 3
  RequestTimeout = 2
  MaxAttempts = 3
  MaxPhases = 2
  Backoff <- MCBackoff
CHECK_DEADLOCK FALSE
INVARIANTS
  LockIsOwned
  AnswersInTime
PROPERTIES
  BurstFetchesOnce
  LockIsReturned
