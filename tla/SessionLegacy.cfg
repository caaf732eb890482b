\* Rows that predate the rate lock, backfilled by concurrent reads.
SPECIFICATION Spec
CONSTANTS
  r1 = r1
  r2 = r2
  s1 = s1
  s2 = s2
  w1 = w1
  alice = alice
  bob = bob
  Null = Null
  MaxTime = 1
  OperationTypes = {"Tillage", "Threshing"}
  HourlyTypes = {"Threshing"}
  Requests = {r1, r2}
  Writers = {}
  Sessions = {s1}
  Legacy = {s1}
  Operators = {alice}
  Rates = {2}
  ClockLag = 0
  MaxPauses = 1
SYMMETRY Symmetry
INVARIANTS
  HourlyBillReconciles
PROPERTIES
  ChargeLedgerSpec
