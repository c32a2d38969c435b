------------------------------ MODULE PlcCycle ------------------------------
(* What a virtual PLC promises to those who start, stop and watch it: one   *)
(* program, which is scanned by one thread at a time, between its start and *)
(* its stop, and a stop that ends with no scan in progress.  PlcRuntime     *)
(* implements it as long as no library call fails and no signal arrives.    *)
(*                                                                          *)
(* One exception is part of the promise: from the second start on a tick of *)
(* the timer before may come late and begin a scan while the start is still *)
(* under way.                                                               *)
EXTENDS Naturals

VARIABLES
    phase,   \* "stopped", "starting", "running", "stopping"
    starts,  \* how often the PLC was started
    scans    \* scans in progress

cycleVars == <<phase, starts, scans>>

Init == phase = "stopped" /\ starts = 0 /\ scans = 0

Start ==
    /\ phase = "stopped"
    /\ phase' = "starting" /\ starts' = starts + 1
    /\ UNCHANGED scans

Up ==
    /\ phase = "starting"
    /\ phase' = "running"
    /\ UNCHANGED <<starts, scans>>

Stop ==
    /\ phase = "running"
    /\ phase' = "stopping"
    /\ UNCHANGED <<starts, scans>>

Stopped ==
    /\ phase = "stopping" /\ scans = 0
    /\ phase' = "stopped"
    /\ UNCHANGED <<starts, scans>>

ScanBegin ==
    /\ scans = 0
    /\ \/ phase \in {"running", "stopping"}
       \/ phase = "starting" /\ starts > 1
    /\ scans' = 1
    /\ UNCHANGED <<phase, starts>>

ScanEnd ==
    /\ scans = 1
    /\ scans' = 0
    /\ UNCHANGED <<phase, starts>>

Next == Start \/ Up \/ Stop \/ Stopped \/ ScanBegin \/ ScanEnd

(* Starts complete, scans end, and a stop completes however often scans     *)
(* begin meanwhile.                                                         *)
Fairness ==
    WF_cycleVars(Up) /\ SF_cycleVars(Stopped) /\ WF_cycleVars(ScanEnd)

SafeSpec == Init /\ [][Next]_cycleVars

Spec == SafeSpec /\ Fairness
============================================================================
