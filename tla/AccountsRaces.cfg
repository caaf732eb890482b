\* One phone number, two requests in flight and a live socket.
SPECIFICATION Spec
CONSTANTS
  p1 = p1
  q1 = q1
  q2 = q2
  k1 = k1
  Null = Null
  Phones = {p1}
  Requests = {q1, q2}
  Sockets = {k1}
  MaxTime = 5
  MaxRows = 3
  AccessLife = 4
  RefreshLife = 4
  Margin = 3
  Poll = 2
SYMMETRY Symmetry
CHECK_DEADLOCK FALSE
INVARIANTS
  OneAccountPerPhone
  LogoutIsFinal
  SocketClosesInTime
PROPERTIES
  RefreshIsBacked
