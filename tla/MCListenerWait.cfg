CONSTANTS
    Callers = {c1}
    Recorders = {r1}
    Motors = {r1}
    Kinds = {"start", "stop"}
    NVars = 2
    MaxCalls = 1
    MaxEarly = 1
SPECIFICATION Spec
INVARIANT WaitSuffices
CHECK_DEADLOCK FALSE
