------------------------------ MODULE Gateway ------------------------------
(* The IIoT gateway (misc/IIoTGateway): a state machine that forwards MQTT  *)
(* messages as Modbus requests.  The worker thread executes the object in   *)
(* the field state and replaces it by that object's next state; the         *)
(* callbacks of the MQTT client and the shutdown hook replace it at any     *)
(* moment, and then notify the worker, which waits when there is no next    *)
(* state.  Only wait and notify are synchronised, reads and writes of the   *)
(* field are not.                                                           *)
(*                                                                          *)
(* A state is named after its class; a message m in the field stands for    *)
(* the SendModbusRequestState made of it.  The sleeps of five seconds are   *)
(* the time between two steps.  Paho calls messageArrived from one thread,  *)
(* connectionLost from another after the first is idle; its disconnect()    *)
(* waits for messageArrived to return.  The address and the code of a       *)
(* request are left out.                                                    *)
EXTENDS Naturals, FiniteSets, Sequences, SequencesExt

CONSTANTS
    Messages,   \* the messages published, each once
    NoState,    \* null
    MaxLosses   \* bound: losses of the connection to the broker

Plain  == {"initial", "connected", "subscribed", "mqttConnectionError",
           "disconnect", "disconnected"}
States == Plain \union Messages

ASSUME GatewayAssumption ==
    /\ NoState \notin States /\ Messages \intersect Plain = {}
    /\ MaxLosses \in Nat

VARIABLES
    state, stop,       \* the fields of GatewayStateMachine
    at,                \* where the worker is
    obj, failed,       \* the state it executes; whether that went wrong
    replaced,          \* state is no longer the object the worker read
    nxt,               \* what getNextState returned
    msgcb, msg,        \* onMessageArrived: where it is, and its message
    lostcb,            \* onConnectionLost
    hook,              \* the shutdown hook
    conn, subscription,  \* the MQTT client and its subscription
    pending, link,     \* Modbus requests to be completed; the connection
    released,          \* Modbus.releaseSharedResources was called
    losses,            \* losses so far
    arrived, sent,     \* history: messages that arrived, requests sent
    superseded,        \* history: messages overwritten by another thread
    afterStop,         \* history: a callback overwrote state after the stop
    lostAtRelease,     \* history: a loss was being handled at the release
    late               \* history: a request was sent after the release

fields  == <<state, stop, replaced>>
worker  == <<at, obj, failed, nxt>>
threads == <<msgcb, msg, lostcb, hook>>
mqtt    == <<conn, subscription, losses>>
modbus  == <<pending, link, released>>
history == <<arrived, sent, superseded, afterStop, lostAtRelease, late>>
vars == <<fields, worker, threads, mqtt, modbus, history>>

Init ==
    /\ state = "initial" /\ stop = FALSE /\ replaced = FALSE
    /\ at = "loop" /\ obj = NoState /\ failed = FALSE /\ nxt = NoState
    /\ msgcb = "idle" /\ msg = NoState /\ lostcb = "idle" /\ hook = "idle"
    /\ conn = "down" /\ subscription = FALSE /\ losses = 0
    /\ pending = {} /\ link = FALSE /\ released = FALSE
    /\ arrived = <<>> /\ sent = <<>> /\ superseded = {}
    /\ afterStop = FALSE /\ lostAtRelease = FALSE /\ late = FALSE

(* Mutant: a request is sent until the state is changed from outside.       *)
NextStateResends(s) ==
    CASE s = "initial" -> "connected"
      [] s = "connected" -> "subscribed"
      [] s = "mqttConnectionError" -> "initial"
      [] s = "disconnect" -> "disconnected"
      [] s \in {"subscribed", "disconnected"} -> NoState
      [] s \in Messages -> s

(* The nextState a state is constructed with. *)
NextState(s) ==
    CASE s = "initial" -> "connected"
      [] s = "connected" -> "subscribed"
      [] s = "mqttConnectionError" -> "initial"
      [] s = "disconnect" -> "disconnected"
      [] s \in {"subscribed", "disconnected"} -> NoState
      [] s \in Messages -> "subscribed"

(* The nextState execute sets when the MQTT client raises. *)
Retry(s) == IF s = "initial" THEN "mqttConnectionError" ELSE "connected"

---------------------------------------------------------------------------
(* The worker: GatewayStateMachine.run *)

Goto(l) == at' = l

Loop ==
    /\ at = "loop"
    /\ IF stop
       THEN Goto("done") /\ UNCHANGED <<obj, failed, replaced>>
       ELSE /\ Goto(IF state = NoState THEN "catch" ELSE "execute")
            /\ obj' = state /\ failed' = FALSE /\ replaced' = FALSE
    /\ UNCHANGED <<state, stop, nxt, threads, mqtt, modbus, history>>

(* InitialState: connect() raises if the broker does not answer, and on a   *)
(* client that is connected or closed.                                      *)
ExecuteInitial ==
    /\ at = "execute" /\ obj = "initial"
    /\ \/ conn = "down" /\ conn' = "up" /\ UNCHANGED failed
       \/ failed' = TRUE /\ UNCHANGED conn
    /\ Goto("next")
    /\ UNCHANGED <<fields, obj, nxt, threads, subscription, losses, modbus, history>>

(* ConnectedState *)
ExecuteConnected ==
    /\ at = "execute" /\ obj = "connected"
    /\ \/ conn = "up" /\ subscription' = TRUE /\ UNCHANGED failed
       \/ failed' = TRUE /\ UNCHANGED subscription
    /\ Goto("next")
    /\ UNCHANGED <<fields, obj, nxt, threads, conn, losses, modbus, history>>

(* SubscribedState, DisconnectedState, MqttConnectionErrorState *)
ExecuteNothing ==
    /\ at = "execute"
    /\ obj \in {"subscribed", "disconnected", "mqttConnectionError"}
    /\ Goto("next")
    /\ UNCHANGED <<fields, obj, failed, nxt, threads, mqtt, modbus, history>>

(* SendModbusRequestState; without the shared resources it may raise. *)
ExecuteSend ==
    /\ at = "execute" /\ obj \in Messages
    /\ \/ /\ pending' = pending \union {obj} /\ link' = TRUE
          /\ sent' = Append(sent, obj)
          /\ late' = (late \/ released)
          /\ Goto("next")
       \/ released /\ Goto("catch") /\ UNCHANGED <<pending, link, sent, late>>
    /\ UNCHANGED <<fields, obj, failed, nxt, threads, mqtt, released, arrived,
                   superseded, afterStop, lostAtRelease>>

(* Mutant: the MQTT client is left connected. *)
ExecuteDisconnectModbus ==
    /\ at = "execute" /\ obj = "disconnect"
    /\ link' = FALSE /\ released' = TRUE
    /\ lostAtRelease' = (lostAtRelease \/ lostcb # "idle" \/ conn = "lost")
    /\ Goto("next")
    /\ UNCHANGED <<fields, obj, failed, nxt, threads, mqtt, pending, arrived,
                   sent, superseded, afterStop, late>>

(* DisconnectState: the client is only closed if it was connected. *)
ExecuteDisconnect ==
    /\ at = "execute" /\ obj = "disconnect"
    /\ IF conn = "up"
       THEN /\ msgcb = "idle"
            /\ conn' = "closed" /\ subscription' = FALSE
       ELSE UNCHANGED <<conn, subscription>>
    /\ link' = FALSE /\ released' = TRUE
    /\ lostAtRelease' = (lostAtRelease \/ lostcb # "idle" \/ conn = "lost")
    /\ Goto("next")
    /\ UNCHANGED <<fields, obj, failed, nxt, threads, losses, pending, arrived,
                   sent, superseded, afterStop, late>>

(* state.getNextState(), of whatever object is in the field by now. *)
GetNext ==
    /\ at = "next"
    /\ nxt' = IF failed /\ ~replaced THEN Retry(state) ELSE NextState(state)
    /\ Goto("assign")
    /\ UNCHANGED <<fields, obj, failed, threads, mqtt, modbus, history>>

Assign ==
    /\ at = "assign"
    /\ state' = nxt
    /\ Goto("test")
    /\ UNCHANGED <<stop, replaced, obj, failed, nxt, threads, mqtt, modbus, history>>

Test ==
    /\ at = "test"
    /\ Goto(IF state = NoState THEN "enter" ELSE "check")
    /\ UNCHANGED <<fields, obj, failed, nxt, threads, mqtt, modbus, history>>

(* waitForStateChange *)
Wait ==
    /\ at = "enter"
    /\ Goto("waiting")
    /\ UNCHANGED <<fields, obj, failed, nxt, threads, mqtt, modbus, history>>

(* Object.wait may return without a notify. *)
SpuriousWakeup ==
    /\ at = "waiting"
    /\ Goto("check")
    /\ UNCHANGED <<fields, obj, failed, nxt, threads, mqtt, modbus, history>>

(* Mutant: the worker does not stop when disconnected. *)
CheckNothing ==
    /\ at = "check"
    /\ Goto("loop")
    /\ UNCHANGED <<fields, obj, failed, nxt, threads, mqtt, modbus, history>>

Check ==
    /\ at = "check"
    /\ stop' = (stop \/ state = "disconnected")
    /\ Goto("loop")
    /\ UNCHANGED <<state, replaced, obj, failed, nxt, threads, mqtt, modbus, history>>

(* The handler of exceptions calls stopStateMachine; nobody waits then. *)
Catch ==
    /\ at = "catch"
    /\ state' = "disconnect"
    /\ Goto("loop")
    /\ UNCHANGED <<stop, replaced, obj, failed, nxt, threads, mqtt, modbus, history>>

---------------------------------------------------------------------------
(* The other threads *)

(* state = s, by a thread that is not the worker. *)
Replace(s) ==
    /\ state' = s
    /\ replaced' = TRUE
    /\ superseded' = superseded \union ({state} \intersect Messages)

(* wakeUp *)
Notify == IF at = "waiting" THEN Goto("check") ELSE UNCHANGED at

MessageArrives(m) ==
    /\ conn = "up" /\ subscription /\ msgcb = "idle"
    /\ m \notin ToSet(arrived)
    /\ msgcb' = "assign" /\ msg' = m
    /\ arrived' = Append(arrived, m)
    /\ UNCHANGED <<fields, worker, lostcb, hook, mqtt, modbus, sent, superseded,
                   afterStop, lostAtRelease, late>>

MessageAssign ==
    /\ msgcb = "assign"
    /\ Replace(msg)
    /\ afterStop' = (afterStop \/ hook # "idle")
    /\ msgcb' = "notify"
    /\ UNCHANGED <<stop, worker, msg, lostcb, hook, mqtt, modbus, arrived, sent,
                   lostAtRelease, late>>

(* Mutant: wakeUp is forgotten. *)
MessageNotifiesNobody ==
    /\ msgcb = "notify"
    /\ msgcb' = "idle" /\ msg' = NoState
    /\ UNCHANGED <<fields, worker, lostcb, hook, mqtt, modbus, history>>

MessageNotify ==
    /\ msgcb = "notify"
    /\ Notify
    /\ msgcb' = "idle" /\ msg' = NoState
    /\ UNCHANGED <<fields, obj, failed, nxt, lostcb, hook, mqtt, modbus, history>>

ConnectionLost ==
    /\ conn = "up" /\ losses < MaxLosses
    /\ conn' = "lost" /\ subscription' = FALSE
    /\ losses' = losses + 1
    /\ UNCHANGED <<fields, worker, threads, modbus, history>>

LostCallback ==
    /\ conn = "lost" /\ msgcb = "idle" /\ lostcb = "idle"
    /\ conn' = "down"
    /\ lostcb' = "sleep"
    /\ UNCHANGED <<fields, worker, msgcb, msg, hook, subscription, losses, modbus,
                   history>>

LostUnstop ==
    /\ lostcb = "sleep"
    /\ stop' = FALSE
    /\ lostcb' = "assign"
    /\ UNCHANGED <<state, replaced, worker, msgcb, msg, hook, mqtt, modbus, history>>

LostAssign ==
    /\ lostcb = "assign"
    /\ Replace("initial")
    /\ afterStop' = (afterStop \/ hook # "idle")
    /\ lostcb' = "notify"
    /\ UNCHANGED <<stop, worker, msgcb, msg, hook, mqtt, modbus, arrived, sent,
                   lostAtRelease, late>>

LostNotify ==
    /\ lostcb = "notify"
    /\ Notify
    /\ lostcb' = "idle"
    /\ UNCHANGED <<fields, obj, failed, nxt, msgcb, msg, hook, mqtt, modbus, history>>

(* The shutdown hook: stopStateMachine, then join. *)
HookStop ==
    /\ hook = "idle"
    /\ Replace("disconnect")
    /\ hook' = "notify"
    /\ UNCHANGED <<stop, worker, msgcb, msg, lostcb, mqtt, modbus, arrived, sent,
                   afterStop, lostAtRelease, late>>

HookNotify ==
    /\ hook = "notify"
    /\ Notify
    /\ hook' = "join"
    /\ UNCHANGED <<fields, obj, failed, nxt, msgcb, msg, lostcb, mqtt, modbus, history>>

HookJoin ==
    /\ hook = "join" /\ at = "done"
    /\ hook' = "done"
    /\ UNCHANGED <<fields, worker, msgcb, msg, lostcb, mqtt, modbus, history>>

(* Mutant: the connection is only closed on shutdown. *)
CompleteOnly(m) ==
    /\ m \in pending
    /\ pending' = pending \ {m}
    /\ UNCHANGED <<fields, worker, threads, mqtt, link, released, history>>

(* A request completes, with a response or an exception: the handler closes *)
(* the one connection, whatever else is under way on it.                    *)
Complete(m) ==
    /\ m \in pending
    /\ pending' = pending \ {m}
    /\ link' = FALSE
    /\ UNCHANGED <<fields, worker, threads, mqtt, released, history>>

---------------------------------------------------------------------------
Worker ==
    \/ Loop \/ ExecuteInitial \/ ExecuteConnected \/ ExecuteNothing \/ ExecuteSend
    \/ ExecuteDisconnect \/ GetNext \/ Assign \/ Test \/ Wait \/ Check \/ Catch

Callbacks ==
    \/ MessageAssign \/ MessageNotify
    \/ LostCallback \/ LostUnstop \/ LostAssign \/ LostNotify
    \/ HookNotify \/ HookJoin
    \/ \E m \in Messages : Complete(m)

Next ==
    \/ Worker \/ SpuriousWakeup \/ Callbacks
    \/ (\E m \in Messages : MessageArrives(m))
    \/ ConnectionLost \/ HookStop

(* Every thread that has something to do is scheduled, a request completes  *)
(* (with a timeout if need be).  Nobody has to publish, to stop the gateway *)
(* or to lose the connection.                                               *)
Fairness ==
    /\ WF_vars(Worker)
    /\ WF_vars(MessageAssign) /\ WF_vars(MessageNotify)
    /\ WF_vars(LostCallback) /\ WF_vars(LostUnstop)
    /\ WF_vars(LostAssign) /\ WF_vars(LostNotify)
    /\ WF_vars(HookNotify) /\ WF_vars(HookJoin)
    /\ \A m \in Messages : WF_vars(Complete(m))

Spec == Init /\ [][Next]_vars
FairSpec == Spec /\ Fairness

---------------------------------------------------------------------------
(* Properties *)

IndexIn(q, m) == CHOOSE i \in DOMAIN q : q[i] = m

(* Messages may get lost between the threads, but no request is sent twice, *)
(* and requests go out in the order in which their messages arrived.        *)
RequestsInOrder ==
    \A i, j \in DOMAIN sent :
        /\ sent[i] \in ToSet(arrived)
        /\ i < j => IndexIn(arrived, sent[i]) < IndexIn(arrived, sent[j])

(* Once the gateway has released the Modbus resources it sends no request   *)
(* any more, unless a loss of the connection was just being handled, which  *)
(* brings the state machine back to life.                                   *)
QuietAfterRelease == late => lostAtRelease

(* A Modbus connection is not left open when all requests have completed,   *)
(* although the handler of one closes the connection of all.                *)
LinkNotLeftOpen == link => pending # {}

(* A message that is about to be announced to a waiting gateway is          *)
(* forwarded, unless another thread overwrites it or the gateway shuts down. *)
WaitingForwards ==
    \A m \in Messages :
        (at = "waiting" /\ state = m /\ msgcb = "notify")
            ~> (m \in ToSet(sent) \/ m \in superseded \/ released)

(* A shutdown about to be announced to a waiting gateway ends it, unless a  *)
(* callback overwrites the state once more or a loss is being handled.      *)
StopEnds ==
    (at = "waiting" /\ state = "disconnect" /\ hook = "notify" /\ lostcb = "idle")
        ~> (at = "done" \/ afterStop)

=============================================================================
