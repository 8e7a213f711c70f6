\* One relay or frame of one socket, with a callback, a pairing or a failure.
SPECIFICATION Spec
CONSTANTS
  c1 = c1
  s1 = s1
  s2 = s2
  Calls = {c1}
  Sessions = {s1, s2}
  Messages <- MCMessages
  NoMessage = NoMessage
  Depth = 2
  Fanout = 2
  MaxFaults = 1
SYMMETRY SessionSymmetry
INVARIANT RelayInv
