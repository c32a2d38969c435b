SPECIFICATION Spec
CONSTANTS
  Candies = {1, 2}
  Delay = 2
  SleepTicks = 2
  MaxTicks = 1
  MaxWrites = 3
  MaxDetected = 2
  MaxReads = 2
INVARIANTS Exclusion OncePerSelection NeverTwice Attributed NoneMissed
PROPERTIES ExtractsFully
CHECK_DEADLOCK FALSE
