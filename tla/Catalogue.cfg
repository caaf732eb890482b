\* Two tractors, two implements, one session, one server start at a time.
SPECIFICATION Spec
CONSTANTS
  Null = Null
  Tractors = {t1, t2}
  Implements = {i1, i2}
  Sessions = {s1}
  c1 = c1
  c2 = c2
  o1 = o1
  o2 = o2
  Clients = {c1, c2}
  Owners = {o1, o2}
  OwnerOf <- MCOwnerOf
  TargetOwner = o2
  Boots = {b1}
  MaxSimulations = 1
  NewNames = {"own"}
SYMMETRY Keys
CHECK_DEADLOCK FALSE
INVARIANTS
  RowsResolve
  OneLibraryTractorPerName
PROPERTIES
  OwnersKeepTheirRows
