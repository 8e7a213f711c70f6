\* One room under two requests at a time and a lane of packets; one is sent again.
SPECIFICATION Spec
CONSTANTS
  m = m
  n = n
  h1 = h1
  c1 = c1
  c2 = c2
  r1 = r1
  Rooms = {r1}
  Nodes = {m, n}
  KindOf <- MessageAndLeft
  RoomOf <- SameRoom
  Handlers = {h1}
  Calls = {c1, c2}
  Public = Public
  NoNode = NoNode
  NoRow = NoRow
  StartRows <- Bootstrapped
  Requests <- Mixed
  MaxSession = 2
  MaxRevision = 3
  MaxFaults = 1
SYMMETRY CallSymmetry
INVARIANT ControlInv
PROPERTIES RowsAuthorized AuthorityForward
CHECK_DEADLOCK FALSE
