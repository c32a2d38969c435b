SPECIFICATION FairSpec
CONSTANTS
  m1 = m1
  m2 = m2
  none = none
  Messages <- MCMessages
  NoState = none
  MaxLosses = 1
INVARIANTS RequestsInOrder QuietAfterRelease LinkNotLeftOpen
PROPERTIES WaitingForwards StopEnds
CHECK_DEADLOCK FALSE
