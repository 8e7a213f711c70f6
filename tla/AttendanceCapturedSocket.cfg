\* One process whose socket is replaced while a message is sent.
SPECIFICATION Spec
CONSTANTS
  r1 = r1
  r2 = r2
  r3 = r3
  m1 = m1
  m2 = m2
  p1 = p1
  p2 = p2
  s1 = s1
  s2 = s2
  NoMaterial = NoMaterial
  NoSocket = NoSocket
  NoRequest = NoRequest
  Requests <- TwoRequests
  Materials <- OneMaterial
  Physical <- OneMaterial
  Deadline <- DeadlineOne
  MaterialOf <- Same
  Readbacks <- NoReadback
  Procs <- OneProc
  At <- Together
  Sockets <- TwoSockets
  Home <- HomeTogether
  MaxNow = 1
  MaxRefresh = 0
CHECK_DEADLOCK FALSE
PROPERTY
  StartedOnTransportSocket
