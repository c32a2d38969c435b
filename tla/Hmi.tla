-------------------------------- MODULE Hmi --------------------------------
(* A variable of an HMI twin (cpstwinning/twins.py, class Hmi), the process *)
(* that speaks Modbus for it (cpstwinning/hmi_mb_client.py) and the         *)
(* register of the PLC behind.  A set shows the new value at once and rolls *)
(* it back when the answer is not a success.  Both directions of the calls  *)
(* are Rpc's; here is what they carry.                                      *)
(*                                                                          *)
(* Nobody sends the process a CloseMessage.  One variable of type int: the  *)
(* variables share nothing but the connection.                              *)
EXTENDS Rpc

CONSTANTS
    Values,    \* what the register holds
    Unwritable,  \* what a set may ask for beside: below 0 or above 65535
    Get,       \* the request that reads; a value is the request to write it
    Success, Failed  \* SuccessHmiMessage; FailedHmiMessage or None

ASSUME HmiAssumption ==
    /\ 0 \in Values /\ Unwritable \intersect Values = {}
    /\ Requests = Values \union Unwritable \union {Get}
    /\ Get \notin Values \union Unwritable
    /\ Results = Values \union {Success, Failed}
    /\ Success \notin Values /\ Failed \notin Values /\ Success # Failed

Settable == Values \union Unwritable

VARIABLES
    value, old,   \* var['value'], old_value of each caller
    register,     \* the holding register in the PLC
    announced,    \* what the callbacks were given last
    acked,        \* history: the value last read or written with success
    clouded,      \* history: two calls overlapped, or a set raised, and no
                  \* call has succeeded on its own since
    unreachable,  \* history: the PLC could not be reached over Modbus
    outOfRange    \* history: a set has asked for a value that is unwritable

faults  == <<unreachable, outOfRange>>
hmiVars == <<value, old, register, announced, acked, clouded, faults>>
vars == <<rpcVars, hmiVars>>

Init ==
    /\ RpcInit
    /\ value = 0 /\ old = [c \in Callers |-> 0]
    /\ register \in Values
    /\ announced = 0 /\ acked = 0
    /\ clouded = FALSE /\ unreachable = FALSE /\ outOfRange = FALSE

---------------------------------------------------------------------------
(* Hmi.get_var_value, Hmi.set_var_value: int(value) takes any integer. *)

Begin(c, r, l) ==
    /\ Call(c, r, l)
    /\ clouded' = (clouded \/ c \in disturbed')
    /\ outOfRange' = (outOfRange \/ r \in Unwritable)
    /\ UNCHANGED <<value, old, register, announced, acked, unreachable>>

GetCall(c) == Begin(c, Get, "connect")

SetCall(c, v) == Begin(c, v, "old")

SetOld(c) ==
    /\ pc[c] = "old"
    /\ old' = [old EXCEPT ![c] = value]
    /\ Goto(c, "optimistic")
    /\ UNCHANGED <<req, reply, used, twin, wires, server, overlap, value,
                   register, announced, acked, clouded, faults>>

SetOptimistic(c) ==
    /\ pc[c] = "optimistic"
    /\ value' = req[c]
    /\ Goto(c, "connect")
    /\ UNCHANGED <<req, reply, used, twin, wires, server, overlap, old,
                   register, announced, acked, clouded, faults>>

(* Without a ReadMessageResult the value stays and the callbacks are not    *)
(* called.                                                                  *)
GetResult(c) ==
    /\ pc[c] = "received" /\ req[c] = Get
    /\ IF reply[c] \in Values
       THEN /\ value' = reply[c] /\ acked' = reply[c]
            /\ Goto(c, "callbacks")
       ELSE Goto(c, "idle") /\ UNCHANGED <<value, acked>>
    /\ UNCHANGED <<req, reply, used, twin, wires, server, overlap, old,
                   register, announced, clouded, faults>>

(* Mutant: no rollback. *)
SetResultKeeps(c) ==
    /\ pc[c] = "received" /\ req[c] # Get
    /\ acked' = IF reply[c] = Success THEN req[c] ELSE acked
    /\ Goto(c, "callbacks")
    /\ UNCHANGED <<req, reply, used, twin, wires, server, overlap, value,
                   old, register, announced, clouded, faults>>

SetResult(c) ==
    /\ pc[c] = "received" /\ req[c] # Get
    /\ IF reply[c] = Success
       THEN acked' = req[c] /\ Goto(c, "callbacks") /\ UNCHANGED value
       ELSE value' = old[c] /\ Goto(c, "idle") /\ UNCHANGED acked
    /\ UNCHANGED <<req, reply, used, twin, wires, server, overlap, old,
                   register, announced, clouded, faults>>

(* var_link_clbk and the monitor callbacks get the variable, not the value. *)
Callbacks(c) ==
    /\ pc[c] = "callbacks"
    /\ announced' = value
    /\ clouded' = (clouded /\ c \in disturbed)
    /\ Goto(c, "idle")
    /\ UNCHANGED <<req, reply, used, twin, wires, server, overlap, value,
                   old, register, acked, faults>>

(* An exception of the connection leaves the method. *)
Raised(c) ==
    /\ pc[c] = "raised"
    /\ clouded' = (clouded \/ req[c] # Get)
    /\ Goto(c, "idle")
    /\ UNCHANGED <<req, reply, used, twin, wires, server, overlap, value,
                   old, register, announced, acked, faults>>

---------------------------------------------------------------------------
(* HmiMbClient *)

(* Mutant: an error of the PLC is not answered. *)
HandleReadSilent ==
    /\ srv = "handle" /\ current = Get
    /\ \/ Answer(register, {})
       \/ /\ srv' = "accept" /\ current' = NoMessage
          /\ UNCHANGED <<callers, twin, wires, sconn, overlap>>
    /\ UNCHANGED hmiVars

(* read_holding_registers; None when the PLC answers with an error. *)
HandleRead ==
    /\ srv = "handle" /\ current = Get
    /\ \E r \in {register, Failed} : Answer(r, {})
    /\ UNCHANGED hmiVars

(* write_registers; without an answer in time the write may have happened. *)
HandleWrite ==
    /\ srv = "handle" /\ current \in Values
    /\ \/ register' = current /\ Answer(Success, {})
       \/ register' \in {register, current} /\ Answer(Failed, {})
    /\ UNCHANGED <<value, old, announced, acked, clouded, faults>>

(* Entering the Modbus client raises when it cannot connect; packing a      *)
(* value into the 16 bits of a register does when it does not fit.          *)
HandleRaises ==
    /\ srv = "handle"
    /\ Die({})
    /\ \/ unreachable' = TRUE
       \/ current \in Unwritable /\ UNCHANGED unreachable
    /\ UNCHANGED <<callers, twin, toServer, toClient, clientOpen, overlap,
                   value, old, register, announced, acked, clouded, outOfRange>>

(* The PLC program, or another HMI, changes the register. *)
PlcChanges(v) ==
    /\ register' = v
    /\ UNCHANGED <<rpcVars, value, old, announced, acked, clouded, faults>>

---------------------------------------------------------------------------
Caller(c) ==
    \/ SetOld(c) \/ SetOptimistic(c)
    \/ Exchange(c) /\ UNCHANGED hmiVars
    \/ GetResult(c) \/ SetResult(c) \/ Callbacks(c) \/ Raised(c)

HmiMbClient ==
    \/ Serve({}) /\ UNCHANGED hmiVars
    \/ HandleRead \/ HandleWrite \/ HandleRaises

Next ==
    \/ \E c \in Callers :
         \/ GetCall(c) \/ (\E v \in Settable : SetCall(c, v))
         \/ Caller(c)
    \/ HmiMbClient
    \/ \E v \in Values : PlcChanges(v)

(* Callers and the process are scheduled; a Modbus request ends, if only by *)
(* its timeout.                                                             *)
Fairness == (\A c \in Callers : WF_vars(Caller(c))) /\ WF_vars(HmiMbClient)

Spec == Init /\ [][Next]_vars
FairSpec == Spec /\ Fairness

---------------------------------------------------------------------------
(* Properties *)

Quiet == \A c \in Callers : pc[c] = "idle"

(* Between calls the HMI shows, and has announced, what it last read or     *)
(* wrote with success, whatever has failed since and however calls have     *)
(* overlapped before, once a call on its own has succeeded since the last   *)
(* overlap or exception.                                                    *)
ShowsAcknowledged ==
    Quiet /\ ~clouded => value = acked /\ announced = acked

(* The process behind the HMI only dies of an unreachable PLC, after a set  *)
(* to a value that is no register's, or of two calls that overlap and leave *)
(* a connection nobody writes to.                                           *)
DeathExplained == srv = "dead" => unreachable \/ outOfRange \/ overlapped

(* A call that overlaps with no other ends, whatever calls before it have   *)
(* left behind, also when the process dies under it.                        *)
CallsEnd ==
    \A c \in Callers : (pc[c] # "idle") ~> (pc[c] = "idle" \/ c \in disturbed)

============================================================================
