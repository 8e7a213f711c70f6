\* Two sweeps drain and expire one event.  It grows old at 2, after two leases
\* can have run out or been given back: the second attempt, the last, may begin
\* under a stalled first one and end before or after the age.
SPECIFICATION FairSpec
CONSTANTS
  w1 = w1
  w2 = w2
  i1 = i1
  Events <- OneEvent
  Instances = {i1}
  InstanceOf <- OneInstance
  Loaded = {i1}
  Sweeps = {w1, w2}
  NoSweep = NoSweep
  NoInstance = NoInstance
  MaxAttempts = 2
  MaxAge = 2
  Lease = 1
  Backoff <- ShortBackoff
  Limit = 1
  MaxNow = 3
  MaxFaults = 1
PROPERTIES LeaseRespected KeepsPromise RetentionKept
