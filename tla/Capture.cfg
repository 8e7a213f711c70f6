\* Three overlapping requests of one socket, whose pairing may change.
SPECIFICATION Spec
CONSTANTS
  s1 = s1
  s2 = s2
  Sessions = {s1, s2}
  NoContext = NoContext
  MaxSockets = 1
  MaxAsks = 3
  MaxAt = 1
  MaxFaults = 1
SYMMETRY SessionSymmetry
INVARIANT CaptureInv
PROPERTIES ContextForward ProofProgresses
CHECK_DEADLOCK FALSE
