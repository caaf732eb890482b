\* Two requests refresh at the same time, a SELECT may fail, a handler may die between its
\* commit and its refresh, and the process may be redeployed.
SPECIFICATION Spec
CONSTANTS
  h1 = h1
  h2 = h2
  s1 = s1
  s2 = s2
  Handlers = {h1, h2}
  Sessions = {s1, s2}
  DatabaseFails = TRUE
  HandlerFails = TRUE
  Redeploys = TRUE
INVARIANTS
  NothingStranded
PROPERTIES
  OpenGateWakesPoller
  ClosedGateDropsLink
  SessionIsPolled
  StopEndsThreads
