\* One process drains two instances with an event each, the poll looking at one
\* instance at a time; or two processes meet one event, and a stalled one loses
\* its lease to the other.
SPECIFICATION CrewSpec
CONSTANTS
  p1 = p1
  p2 = p2
  e1 = e1
  e2 = e2
  i1 = i1
  i2 = i2
  Events = {e1, e2}
  Instances = {i1, i2}
  InstanceOf <- TwoInstances
  Readable = {e1}
  Procs = {p1, p2}
  NoProc = NoProc
  NoInstance = NoInstance
  NoEvent = NoEvent
  MaxAttempts = 2
  Lease = 1
  Backoff <- ShortBackoff
  Limit = 2
  Capacity = 2
  Window = 1
  MaxNow = 2
  MaxFaults = 1
PROPERTIES
  LeaseRespected
  KeepsPromise
  NoEventStranded
