\* One delivery signed twice, two overlapping calls, re-linking at any moment;
\* the clock runs past the deadlines and past the retention of the ledger.
SPECIFICATION Spec
CONSTANTS
  c1 = c1
  c2 = c2
  c3 = c3
  t1 = t1
  t2 = t2
  k1 = k1
  s1 = s1
  s2 = s2
  NoRecord = NoRecord
  Calls <- TwoCalls
  Tokens <- TwoTokens
  Keys <- OneKey
  KeyOf <- SameKey
  Deadline <- Deadlines
  SessionOf <- SignedFor
  Sessions <- TwoSessions
  Window = 2
  Lease = 1
  Ttl = 3
  MaxNow = 4
SYMMETRY AnyCall
CHECK_DEADLOCK FALSE
INVARIANTS
  OncePerDelivery
  CompletedWasWritten
PROPERTIES
  WrittenAsSigned
  ConsumedForGood
