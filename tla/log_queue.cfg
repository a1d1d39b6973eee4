SPECIFICATION Spec
CONSTANTS
  Producers = {p1, p2}
  Capacity = 2
  MaxOffers = 5
INVARIANTS EveryLineIsCounted PendingAreWritten
PROPERTIES ShutdownEnds
CHECK_DEADLOCK FALSE
