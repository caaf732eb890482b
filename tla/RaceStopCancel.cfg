\* A stop and a cancel of the same session overlap.
SPECIFICATION Spec
CONSTANTS
  r1 = r1
  r2 = r2
  s1 = s1
  s2 = s2
  w1 = w1
  alice = alice
  bob = bob
  Null = Null
  MaxTime = 1
  OperationTypes = {"Threshing"}
  HourlyTypes = {"Threshing"}
  Requests = {r1, r2}
  Writers = {}
  Sessions = {s1}
  Legacy = {}
  Operators = {alice}
  Rates = {2}
  ClockLag = 0
  MaxPauses = 1
INVARIANT CancelledIsFree
