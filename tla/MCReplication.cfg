SPECIFICATION FairSpec
CONSTANTS
  e = e
  f = f
  g = g
  none = none
  Stimuli <- MCThree
  Timestamp <- MCTimestamps
  MaxDelta = 3
  NoStimulus = none
  TwinsMayFail = TRUE
  TwinsMayHang = TRUE
  MaxSessions = 1
INVARIANTS Conserved NeverEarly OrderExplained AtMostOneAfterStop
PROPERTIES StopEndsIssuer EventuallyIssued
CHECK_DEADLOCK FALSE
