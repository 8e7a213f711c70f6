\* A message delivery attempted twice, with another body, next to a contact sync;
\* the clock runs past the lease, the skew window and the TTL.
SPECIFICATION FairSpec
CONSTANTS
  r1 = r1
  r2 = r2
  r3 = r3
  d1 = d1
  d2 = d2
  b1 = b1
  b2 = b2
  b3 = b3
  NoRecord = NoRecord
  Requests <- TwoRequests
  Deliveries <- TwoDeliveries
  Bodies <- MixedBodies
  Kind <- MixedKind
  SignedAt <- SignedOnce
  Lease = 1
  Ttl = 4
  Skew = 1
  MaxStall = 1
  MaxNow = 5
CHECK_DEADLOCK FALSE
INVARIANTS
  AtMostOnce
  ReservedProvesUntouched
  SideEffectOwned
  SuccessIsReal
PROPERTIES
  LedgerNeverRegresses
  ImplementsOnce
  EveryRequestEnds
