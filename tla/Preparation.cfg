\* Two workers and the timer over one unit and its replacement.
SPECIFICATION FairSpec
CONSTANTS
  w1 = w1
  w2 = w2
  t1 = t1
  Workers = {w1, w2, t1}
  Timers = {t1}
  NoStamp = NoStamp
  MaxRows = 2
  MaxTries = 6
  MaxExchanges = 1
  MaxFaults = 1
INVARIANT PreparationInv
PROPERTIES ReservationFound PreparationEnds
CHECK_DEADLOCK FALSE
