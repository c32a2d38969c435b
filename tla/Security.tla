------------------------------ MODULE Security ------------------------------
(* A rule that links a variable of an HMI to one of a PLC                   *)
(* (cpstwinning/securitymanager.py, predicate "equals"), composed with the  *)
(* HMI, its Modbus process and the register of module Hmi.  One thread gets *)
(* every change of the PLC's variable and compares it with what the HMI     *)
(* shows when it takes the message; every get or set of the HMI that ends   *)
(* well starts a thread that asks the PLC and compares.                     *)
(*                                                                          *)
(* The HMI's variable is of type int, as in Hmi.  The PLC's listener serves *)
(* (Listener) and sends each change to the rule once (PlcSupervisor).       *)
EXTENDS Hmi, SequencesExt

CONSTANTS
    Unread,      \* a thread that has not got its answer
    MaxChanges   \* bound: changes the PLC program makes

ASSUME SecurityAssumption == Unread \notin Values /\ MaxChanges \in Nat

VARIABLES
    notes,     \* MonitorResponseMessages on their way to the rule's thread
    checks,    \* the answers of the VariableLinkHmiMonitoringThreads
    changes,   \* for the bound
    reported,  \* history: an alert was raised for value and register as they are
    dropped    \* history: the value was last changed by a set that failed, or
               \* never, and no comparison has been made since

ruleVars == <<notes, checks, changes, reported, dropped>>
secVars  == <<vars, ruleVars>>

SecurityInit ==
    /\ Init
    /\ notes = <<>> /\ checks = <<>> /\ changes = 0
    /\ reported = FALSE /\ dropped = TRUE

(* What the rule sees of a step of the HMI or the PLC: each change of the   *)
(* PLC's variable.                                                          *)
Noted ==
    /\ notes' = IF register' # register THEN Append(notes, register') ELSE notes
    /\ reported' = (reported /\ register' = register /\ value' = value)

(* Mutant: only a set calls var_link_clbk. *)
LinkedAfterSet(c) ==
    /\ Callbacks(c) /\ Noted
    /\ checks' = IF req[c] = Get THEN checks ELSE Append(checks, Unread)
    /\ UNCHANGED <<changes, dropped>>

(* var_link_clbk: check_var_link_get_set_hmi_var. *)
Linked(c) ==
    /\ Callbacks(c) /\ Noted
    /\ checks' = Append(checks, Unread)
    /\ UNCHANGED <<changes, dropped>>

(* A set that fails, by its answer or by an exception, calls nobody. *)
Unlinked(c) ==
    /\ \/ SetResult(c) /\ reply[c] # Success
       \/ Raised(c) /\ req[c] # Get
    /\ Noted
    /\ dropped' = TRUE
    /\ UNCHANGED <<checks, changes>>

CallStep(c) ==
    \/ Linked(c) \/ Unlinked(c)
    \/ /\ \/ SetOld(c) \/ SetOptimistic(c) \/ GetResult(c)
          \/ Exchange(c) /\ UNCHANGED hmiVars
          \/ SetResult(c) /\ reply[c] = Success
          \/ Raised(c) /\ req[c] = Get
       /\ Noted
       /\ UNCHANGED <<checks, changes, dropped>>

ServerStep == HmiMbClient /\ Noted /\ UNCHANGED <<checks, changes, dropped>>

Environment ==
    /\ \/ \E c \in Callers : GetCall(c) \/ \E v \in Settable : SetCall(c, v)
       \/ changes < MaxChanges /\ \E v \in Values \ {register} : PlcChanges(v)
    /\ Noted
    /\ changes' = IF register' # register THEN changes + 1 ELSE changes
    /\ UNCHANGED <<checks, dropped>>

---------------------------------------------------------------------------
(* The comparison: value is read when the message is there. *)
Compare(v) ==
    /\ reported' = (reported \/ (value # v /\ v = register))
    /\ dropped' = (dropped /\ v # register)
    /\ UNCHANGED <<vars, changes>>

(* VariableLinkPlcMonitoringThread *)
TakeNote ==
    /\ notes # <<>>
    /\ Compare(Head(notes))
    /\ notes' = Tail(notes)
    /\ UNCHANGED checks

(* VariableLinkHmiMonitoringThread: GetTagMessage and the answer *)
Ask(i) ==
    /\ checks[i] = Unread
    /\ checks' = [checks EXCEPT ![i] = register]
    /\ UNCHANGED <<vars, notes, changes, reported, dropped>>

Check(i) ==
    /\ checks[i] # Unread
    /\ Compare(checks[i])
    /\ checks' = RemoveAt(checks, i)
    /\ UNCHANGED notes

SecurityNext ==
    \/ \E c \in Callers : CallStep(c)
    \/ ServerStep \/ Environment
    \/ TakeNote
    \/ \E i \in DOMAIN checks : Ask(i) \/ Check(i)

SecuritySpec == SecurityInit /\ [][SecurityNext]_secVars

---------------------------------------------------------------------------
(* Once calls, messages and threads have come to rest, a difference between *)
(* the HMI and the PLC has been reported, in whatever order the changes and *)
(* the threads came and calls overlapped, unless a set has failed since or  *)
(* nothing has changed since the start.                                     *)
MismatchReported ==
    Quiet /\ notes = <<>> /\ checks = <<>> /\ value # register =>
        reported \/ dropped
============================================================================
