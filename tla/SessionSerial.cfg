\* One request in flight at a time, no writer outside the buffer.
SPECIFICATION Spec
CONSTANTS
  r1 = r1
  r2 = r2
  s1 = s1
  s2 = s2
  w1 = w1
  alice = alice
  bob = bob
  Null = Null
  MaxTime = 3
  OperationTypes = {"Tillage", "Threshing"}
  HourlyTypes = {"Threshing"}
  Requests = {r1}
  Writers = {}
  Sessions = {s1}
  Legacy = {}
  Operators = {alice}
  Rates = {2}
  ClockLag = 0
  MaxPauses = 2
INVARIANTS
  BillReconciles
  OpenPauseMeansPaused
  CancelledIsFree
  HoursAreWorkedTime
