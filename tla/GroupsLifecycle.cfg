\* One service that stops, fails and restarts while its tasks overlap.
SPECIFICATION FairSpec
CONSTANTS
  p1 = p1
  t1 = t1
  t2 = t2
  t3 = t3
  Procs = {p1}
  Tokens = {t1, t2, t3}
  NoToken = NoToken
  Placeholder = Placeholder
  NoProc = NoProc
  Elsewhere = Elsewhere
  MaxStops = 1
  MaxFaults = 2
INVARIANT LifecycleInv
PROPERTIES StopOvertakes TasksEnd RowRecovers
CHECK_DEADLOCK FALSE
