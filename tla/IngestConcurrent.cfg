\* Two flushes and a poll write the same readings; transactions may fail.
SPECIFICATION Spec
CONSTANTS
  f1 = f1
  f2 = f2
  p1 = p1
  Flushers = {f1, f2}
  Pollers = {p1}
  MaxReadings = 2
  Limit = 2
  Null = Null
  MaxFailures = 2
INVARIANTS
  FlushAccounts
PROPERTIES
  EveryReadingStored
  ReadingFeedSpec
