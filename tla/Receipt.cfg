\* Packets of one and two receipts, one of them large, against full buffers.
SPECIFICATION FairSpec
CONSTANTS
  k1 = k1
  k2 = k2
  k3 = k3
  Keys = {k1, k2, k3}
  Size <- MCSize
  Packets <- Mixed
  MaxPlace = 2
  QueueItems = 2
  QueueBytes = 3
  Concurrent = 1
  RecoveryItems = 2
  RecoveryBytes = 2
  MaxPackets = 2
  MaxFaults = 1
INVARIANT WorkerInv
PROPERTY EvidenceEnds
CHECK_DEADLOCK FALSE
