\* Two requests in flight on one session, beside the buffer and a writer that bypasses it.
SPECIFICATION Spec
CONSTANTS
  r1 = r1
  r2 = r2
  s1 = s1
  s2 = s2
  w1 = w1
  alice = alice
  bob = bob
  Null = Null
  MaxTime = 1
  OperationTypes = {"Tillage"}
  HourlyTypes = {"Threshing"}
  Requests = {r1, r2}
  Writers = {w1}
  Sessions = {s1}
  Legacy = {}
  Operators = {alice}
  Rates = {2}
  ClockLag = 0
  MaxPauses = 1
SYMMETRY Symmetry
INVARIANTS
  TerminatedIsPriced
PROPERTIES
  ChargeLedgerSpec
  
  StoredReadingStays
