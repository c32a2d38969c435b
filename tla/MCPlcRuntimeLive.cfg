SPECIFICATION FairSpec
CONSTANTS
  listener = listener
  modbus = modbus
  Setters <- MCSetters
  Listener = listener
  Faults = {}
  MaxStarts = 3
  MaxSignals = 0
  MaxFailures = 0
  MaxInflight = 1
  SemValueMax = 2
PROPERTIES ImplementsCycle SetsProgress
CHECK_DEADLOCK FALSE
