CONSTANTS
    Callers = {c1}
    Recorders = {r1, r2}
    Motors = {r2}
    Kinds = {"start", "stop", "set", "badset", "get", "terminate"}
    NVars = 1
    MaxCalls = 3
    MaxEarly = 2
SPECIFICATION Spec
INVARIANTS
    ListenerSurvives
    BlocksServed
PROPERTIES
    CallsEnd
    Recorded
CHECK_DEADLOCK FALSE
