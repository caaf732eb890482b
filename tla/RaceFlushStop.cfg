\* A timer's flush is under way while the session is stopped.
SPECIFICATION Spec
CONSTANTS
  r1 = r1
  r2 = r2
  s1 = s1
  s2 = s2
  w1 = w1
  alice = alice
  bob = bob
  Null = Null
  MaxTime = 1
  OperationTypes = {"Tillage"}
  HourlyTypes = {"Threshing"}
  Requests = {r1}
  Writers = {}
  Sessions = {s1}
  Legacy = {}
  Operators = {alice}
  Rates = {2}
  ClockLag = 0
  MaxPauses = 1
INVARIANT AreaIsComplete
