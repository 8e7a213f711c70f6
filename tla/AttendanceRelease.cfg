\* A dispatch and a readback of one material, a competing one at another process, a takeover.
SPECIFICATION Spec
CONSTANTS
  r1 = r1
  r2 = r2
  r3 = r3
  m1 = m1
  m2 = m2
  p1 = p1
  p2 = p2
  s1 = s1
  s2 = s2
  NoMaterial = NoMaterial
  NoSocket = NoSocket
  NoRequest = NoRequest
  Requests <- ThreeRequests
  Materials <- TwoMaterials
  Physical <- OneMaterial
  Deadline <- DeadlineNext
  MaterialOf <- Competing
  Readbacks <- OneReadback
  Procs <- TwoProcs
  At <- TwoAndOne
  Sockets <- TwoSockets
  Home <- HomeApart
  MaxNow = 1
  MaxRefresh = 1
CHECK_DEADLOCK FALSE
INVARIANTS
  WriteIsEvident
  ReturnIsEvidence
  ToldOfOwnMaterial
  ExpiredNeverStarts
  NoDeadlock
PROPERTIES
  OnlyOwnerStarts
  KeepsPromise
