SPECIFICATION Spec
CONSTANTS
  listener = listener
  modbus = modbus
  Setters <- MCListenerOnly
  Listener = listener
  Faults <- MCAllFaults
  MaxStarts = 3
  MaxSignals = 1
  MaxFailures = 1
  MaxInflight = 1
  SemValueMax = 1
INVARIANTS SingleThread StoppedIsQuiet NoDeadSemaphore ScanAfterInit OrphanBound
CHECK_DEADLOCK FALSE
