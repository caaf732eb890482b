\* Clients that stop reading, two sessions, a loop that falls behind.
SPECIFICATION Spec
CONSTANTS
  c1 = c1
  c2 = c2
  s1 = s1
  s2 = s2
  Clients = {c1, c2}
  Sessions = {s1, s2}
  MaxQueue = 2
  MaxFrames = 3
CHECK_DEADLOCK FALSE
INVARIANTS
  FramesInOrder
PROPERTIES
  FramesArrive
  GoneClientsLeave
