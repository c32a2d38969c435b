------------------------------ MODULE Listener ------------------------------
(* The life of a PLC supervisor (cpstwinning/plc_supervisor.py): its main   *)
(* thread builds the PLC and starts it while the listener already serves    *)
(* requests, one per connection.  An exception that no handler of a request *)
(* catches ends the listener; its socket disappears, and with it, once the  *)
(* main thread is through, the whole process.  Clients: the twin's calls    *)
(* (cpstwinning/twins.py), and the threads that monitor a PLC               *)
(* (cpstwinning/statelogging.py), which ask for all names, connect again    *)
(* and monitor them, or monitor the variables of a motor right away.        *)
(*                                                                          *)
(* What a change does once a client is registered is PlcSupervisor's        *)
(* subject, what start_plc and stop_plc do PlcRuntime's, the connection     *)
(* that calls of one twin share Rpc's.  A client connects and sends in one  *)
(* step, and receives an answer with the step that sends it.                *)
EXTENDS Naturals, SequencesExt

CONSTANTS
    Callers,    \* threads that call the twin
    Recorders,  \* monitoring threads
    Motors,     \* those of them that know which variables they want
    Kinds,      \* requests that the callers make
    NVars,      \* variables of the PLC program
    MaxCalls,   \* bound: calls of the twin
    MaxEarly    \* bound: how many of them before __init__ has ended

ASSUME ListenerAssumption ==
    /\ NVars \in Nat \ {0} /\ MaxCalls \in Nat /\ MaxEarly \in Nat
    /\ Motors \subseteq Recorders /\ Callers \intersect Recorders = {}
    /\ Kinds \subseteq {"start", "stop", "get", "set", "badset", "terminate"}

Clients == Callers \union Recorders

VARIABLES
    boot,           \* where PlcSupervisor.__init__ is
    build_finished,
    varsSet, known, \* self.vars is there; how many variables it has
    running,        \* self.running: "unset", "no", "yes"
    mb_blocks,      \* number of the blocks in self.mb_blocks (0: unset)
    port,           \* the blocks that the Modbus server on port 502 serves
    made,           \* blocks made so far
    plc_thread,     \* "unset", "waiting" for its stop_event, "ended"
    plcs,           \* start_plc calls not undone by stop_plc
    st, mine,       \* where main and listener are in start(), their blocks
    lst, cur,       \* where the listener is, the request it handles
    backlog,        \* requests not yet read; open: the client has not closed
    watch,          \* conn_watcher: client, how many variables, open
    at,             \* where each client is
    stop,           \* recorders whose stop_event is set
    \* bound and history
    calls,
    early,          \* something but monitoring was asked before __init__ ended
    faults,         \* what went wrong outside: build, library, value, stopped
    cause           \* the request that ended the listener

main     == <<boot, build_finished, varsSet, known>>
plc      == <<running, mb_blocks, port, made, plc_thread, plcs, st, mine>>
listener == <<lst, cur, backlog, watch, cause>>
clients  == <<at, stop, calls, early>>
vars == <<main, plc, listener, clients, faults>>

Starters  == {"main", "listener"}
NoRequest == [client |-> "none", kind |-> "none", open |-> FALSE]

Init ==
    /\ boot = "make" /\ build_finished = FALSE /\ varsSet = FALSE /\ known = 0
    /\ running = "unset" /\ mb_blocks = 0 /\ port = 0 /\ made = 0
    /\ plc_thread = "unset" /\ plcs = 0
    /\ st = [s \in Starters |-> "none"] /\ mine = [s \in Starters |-> 0]
    /\ lst = "init" /\ cur = NoRequest /\ backlog = <<>> /\ watch = <<>>
    /\ at = [c \in Clients |-> IF c \in Recorders THEN "off" ELSE "idle"]
    /\ stop = {}
    /\ calls = 0 /\ early = FALSE /\ faults = {} /\ cause = "none"

---------------------------------------------------------------------------
(* PlcSupervisor.__init__.  A make target that fails is noticed when its    *)
(* result is read; names that do not match raise right away.                *)

InitRaises == boot' = "failed" /\ faults' = faults \union {"build"}

Make ==
    /\ boot = "make"
    /\ \/ boot' = "vars" /\ build_finished' = TRUE /\ UNCHANGED faults
       \/ InitRaises /\ UNCHANGED build_finished
    /\ UNCHANGED <<varsSet, known, plc, listener, clients>>

SetVarsBegin ==
    /\ boot = "vars" /\ ~varsSet
    /\ varsSet' = TRUE
    /\ InitRaises \/ UNCHANGED <<boot, faults>>
    /\ UNCHANGED <<build_finished, known, plc, listener, clients>>

(* A variable of a type or class that is not supported raises. *)
SetVarsNext ==
    /\ boot = "vars" /\ varsSet
    /\ \/ known < NVars /\ known' = known + 1 /\ UNCHANGED <<boot, faults>>
       \/ known < NVars /\ InitRaises /\ UNCHANGED known
       \/ known = NVars /\ boot' = "lib" /\ UNCHANGED <<known, faults>>
    /\ UNCHANGED <<build_finished, varsSet, plc, listener, clients>>

(* The Modbus map is read and the library loaded. *)
LoadLib ==
    /\ boot = "lib"
    /\ InitRaises \/ (boot' = "flag" /\ UNCHANGED faults)
    /\ UNCHANGED <<build_finished, varsSet, known, plc, listener, clients>>

SetRunning ==
    /\ boot = "flag"
    /\ boot' = "start" /\ running' = "no"
    /\ UNCHANGED <<build_finished, varsSet, known, mb_blocks, port, made, plc_thread,
                   plcs, st, mine, listener, clients, faults>>

LibLoaded == boot \notin {"make", "vars", "lib"} /\ "build" \notin faults

(* The process ends with its last thread that is not a daemon: the runtime, *)
(* the Modbus server and all connections go with it.                        *)
Exit ==
    /\ boot \in {"done", "failed"} /\ lst \in {"dead", "closed"}
    /\ boot' = "exited"
    /\ port' = 0 /\ plcs' = 0
    /\ at' = [c \in Clients |-> IF at[c] = "recording" THEN "ended" ELSE at[c]]
    /\ UNCHANGED <<build_finished, varsSet, known, running, mb_blocks, made,
                   plc_thread, st, mine, listener, stop, calls, early, faults>>

---------------------------------------------------------------------------
(* The end of a request *)

Serving(kind) == lst = "handle" /\ cur.kind = kind

Finish(next) ==
    /\ lst' = next /\ cur' = NoRequest
    /\ UNCHANGED <<backlog, cause>>

(* The listener's frame goes and with it the connections it holds, except   *)
(* those in conn_watcher: who waits for an answer gets EOFError.            *)
Raise ==
    /\ lst' = "dead" /\ cause' = cur.kind
    /\ cur' = NoRequest /\ backlog' = <<>>
    /\ LET lost == {backlog[i].client : i \in DOMAIN backlog} \union {cur.client}
       IN  at' = [c \in Clients |->
                     IF c \notin lost THEN at[c]
                     ELSE IF c \in Callers THEN "idle" ELSE "ended"]
    /\ UNCHANGED watch

(* conn.send(answer): it raises when the client has closed. *)
Answer ==
    IF cur.open
    THEN /\ Finish("accept")
         /\ at' = [at EXCEPT ![cur.client] =
                      IF cur.kind = "names" THEN "reconnect" ELSE "idle"]
         /\ UNCHANGED watch
    ELSE Raise

---------------------------------------------------------------------------
(* PlcSupervisor.start, run by main and by the listener *)

Enter(s) == st' = [st EXCEPT ![s] = "blocks"]

(* The end of start: main is through with __init__, the listener answers. *)
Started(s) ==
    /\ st' = [st EXCEPT ![s] = "none"]
    /\ IF s = "main" THEN boot' = "done" /\ UNCHANGED <<listener, at>>
       ELSE Answer /\ UNCHANGED boot

MainStart ==
    /\ boot = "start" /\ st["main"] = "none"
    /\ IF running = "yes" THEN boot' = "done" /\ UNCHANGED st
       ELSE Enter("main") /\ UNCHANGED boot
    /\ UNCHANGED <<build_finished, varsSet, known, running, mb_blocks, port, made,
                   plc_thread, plcs, mine, listener, clients, faults>>

(* Mutant: start does not look whether the PLC runs. *)
StartAgain ==
    /\ Serving("start")
    /\ IF running = "unset" THEN Raise /\ UNCHANGED st
       ELSE /\ Enter("listener") /\ lst' = "start"
            /\ UNCHANGED <<cur, backlog, watch, cause, at>>
    /\ UNCHANGED <<main, running, mb_blocks, port, made, plc_thread, plcs, mine,
                   stop, calls, early, faults>>

Start ==
    /\ Serving("start")
    /\ CASE running = "unset" -> Raise /\ UNCHANGED st
         [] running = "yes"   -> Answer /\ UNCHANGED st
         [] running = "no"    -> /\ Enter("listener") /\ lst' = "start"
                                 /\ UNCHANGED <<cur, backlog, watch, cause, at>>
    /\ UNCHANGED <<main, running, mb_blocks, port, made, plc_thread, plcs, mine,
                   stop, calls, early, faults>>

MakeBlocks(s) ==
    /\ st[s] = "blocks"
    /\ made' = made + 1 /\ mb_blocks' = made + 1
    /\ mine' = [mine EXCEPT ![s] = made + 1]
    /\ st' = [st EXCEPT ![s] = "bind"]
    /\ UNCHANGED <<main, running, port, plc_thread, plcs, listener, clients, faults>>

(* The server's constructor binds the port; it raises if that is taken. *)
Bind(s) ==
    /\ st[s] = "bind"
    /\ mine' = [mine EXCEPT ![s] = 0]
    /\ IF port = 0
       THEN /\ port' = mine[s] /\ plc_thread' = "waiting"
            /\ st' = [st EXCEPT ![s] = "lib"]
            /\ UNCHANGED <<boot, listener, at>>
       ELSE /\ st' = [st EXCEPT ![s] = "none"]
            /\ IF s = "main" THEN boot' = "failed" /\ UNCHANGED <<listener, at>>
               ELSE Raise /\ UNCHANGED boot
            /\ UNCHANGED <<port, plc_thread>>
    /\ UNCHANGED <<build_finished, varsSet, known, running, mb_blocks, made, plcs,
                   stop, calls, early, faults>>

(* start_plc; when it fails the Modbus server is left as it is. *)
LibStart(s) ==
    /\ st[s] = "lib"
    /\ \/ /\ running' = "yes" /\ plcs' = plcs + 1
          /\ UNCHANGED <<plc_thread, faults>>
       \/ /\ plc_thread' = "ended" /\ faults' = faults \union {"library"}
          /\ UNCHANGED <<running, plcs>>
    /\ Started(s)
    /\ UNCHANGED <<build_finished, varsSet, known, mb_blocks, port, made, mine, stop,
                   calls, early>>

---------------------------------------------------------------------------
(* PlcSupervisor.stop, for StopMessage and TerminateMessage *)

StopEnded ==
    IF cur.kind = "stop" THEN Answer
    ELSE lst' = "join" /\ UNCHANGED <<cur, backlog, watch, cause, at>>

(* Mutant: the server keeps its socket. *)
StopKeepsPort ==
    /\ Serving("stop") \/ lst = "terminate"
    /\ CASE running = "unset" -> Raise
         [] running = "no"    -> StopEnded
         [] running = "yes"   -> /\ lst' = "stop_plc"
                                 /\ UNCHANGED <<cur, backlog, watch, cause, at>>
    /\ UNCHANGED <<main, plc, stop, calls, early, faults>>

Stop ==
    /\ Serving("stop") \/ lst = "terminate"
    /\ CASE running = "unset" -> Raise /\ UNCHANGED port
         [] running = "no"    -> StopEnded /\ UNCHANGED port
         [] running = "yes"   -> /\ port' = 0 /\ lst' = "stop_plc"
                                 /\ UNCHANGED <<cur, backlog, watch, cause, at>>
    /\ UNCHANGED <<main, running, mb_blocks, made, plc_thread, plcs, st, mine, stop,
                   calls, early, faults>>

(* When stop_plc fails, the PLC counts as running and its thread waits on.  *)
StopPlc ==
    /\ lst = "stop_plc"
    /\ plcs' = 0
    /\ \/ running' = "no" /\ plc_thread' = "ended" /\ UNCHANGED faults
       \/ faults' = faults \union {"library"} /\ UNCHANGED <<running, plc_thread>>
    /\ StopEnded
    /\ UNCHANGED <<main, mb_blocks, port, made, st, mine, stop, calls, early>>

(* The clients are told one after the other; the first that has closed      *)
(* raises.                                                                  *)
Terminate ==
    /\ Serving("terminate")
    /\ LET closed == {i \in DOMAIN watch : ~watch[i].open}
           told   == {watch[i].client : i \in {i \in DOMAIN watch :
                                               \A j \in closed : i < j}}
       IN  IF closed = {}
           THEN /\ at' = [c \in Clients |-> IF c \in told THEN "ended" ELSE at[c]]
                /\ lst' = "terminate"
                /\ UNCHANGED <<cur, backlog, cause>>
           ELSE /\ lst' = "dead" /\ cause' = cur.kind
                /\ cur' = NoRequest /\ backlog' = <<>>
                /\ LET lost == {backlog[i].client : i \in DOMAIN backlog} IN
                   at' = [c \in Clients |->
                             IF c \in (told \union lost) \ Callers THEN "ended"
                             ELSE IF c \in lost THEN "idle" ELSE at[c]]
    /\ UNCHANGED <<main, plc, watch, stop, calls, early, faults>>

(* plc_thread.join(), then the listener leaves its loop. *)
Join ==
    /\ lst = "join" /\ plc_thread # "waiting"
    /\ IF plc_thread = "unset" THEN Raise
       ELSE /\ lst' = "closed" /\ cur' = NoRequest /\ backlog' = <<>>
            /\ LET lost == {backlog[i].client : i \in DOMAIN backlog} IN
               at' = [c \in Clients |->
                         IF c \notin lost THEN at[c]
                         ELSE IF c \in Callers THEN "idle" ELSE "ended"]
            /\ UNCHANGED <<watch, cause>>
    /\ UNCHANGED <<main, plc, stop, calls, early, faults>>

---------------------------------------------------------------------------
(* Requests for variables *)

(* GetAllTagNamesMessage *)
Names ==
    /\ Serving("names")
    /\ IF varsSet THEN Answer ELSE Raise
    /\ UNCHANGED <<main, plc, stop, calls, early, faults>>

(* GetTagMessage and the part of SetTagMessage up to the runtime's token: a *)
(* name that is not (yet) in the list is answered with an exception, one    *)
(* that is there needs the library; int() refuses a bad value.              *)
Look ==
    /\ \E kind \in {"get", "set", "badset"} : Serving(kind)
    /\ \/ ~varsSet /\ Raise
       \/ varsSet /\ Answer
       \/ known > 0 /\ IF ~LibLoaded \/ cur.kind = "badset" THEN Raise
                       ELSE IF cur.kind = "get" THEN Answer
                       ELSE lst' = "token" /\ UNCHANGED <<cur, backlog, watch, cause, at>>
    /\ UNCHANGED <<main, plc, stop, calls, early, faults>>

(* The setter gets in, then the new value goes into the Modbus blocks, if   *)
(* the variable is mapped to one.                                           *)
Token ==
    /\ lst = "token"
    /\ \/ Answer
       \/ mb_blocks = 0 /\ Raise
    /\ UNCHANGED <<main, plc, stop, calls, early, faults>>

(* Mutant: wait for the variables instead of the build, which may fail. *)
MonitorWaitsLonger ==
    /\ Serving("monitor") /\ known = NVars
    /\ Finish("accept") /\ UNCHANGED at
    /\ watch' = Append(watch, [client |-> cur.client, names |-> known,
                              open |-> cur.open])
    /\ UNCHANGED <<main, plc, stop, calls, early, faults>>

(* MonitorMessage: the loop that waits for the build, then those of the     *)
(* names that are known.                                                    *)
Monitor ==
    /\ Serving("monitor") /\ build_finished
    /\ IF varsSet
       THEN /\ Finish("accept") /\ UNCHANGED at
            /\ watch' = Append(watch, [client |-> cur.client, names |-> known,
                                       open |-> cur.open])
       ELSE Raise
    /\ UNCHANGED <<main, plc, stop, calls, early, faults>>

(* A change that cannot be sent takes a client out (PlcSupervisor). *)
Forget ==
    /\ plcs > 0
    /\ \E i \in DOMAIN watch :
          ~watch[i].open /\ watch' = RemoveAt(watch, i)
    /\ UNCHANGED <<main, plc, lst, cur, backlog, cause, clients, faults>>

---------------------------------------------------------------------------
(* The listener's loop *)

Listen ==
    /\ lst = "init"
    /\ lst' = "accept"
    /\ UNCHANGED <<main, plc, cur, backlog, watch, cause, clients, faults>>

Accept ==
    /\ lst = "accept" /\ backlog # <<>>
    /\ cur' = Head(backlog) /\ backlog' = Tail(backlog)
    /\ lst' = "handle"
    /\ UNCHANGED <<main, plc, watch, cause, clients, faults>>

---------------------------------------------------------------------------
(* Clients *)

Socket == lst \notin {"init", "dead", "closed"}

Send(c, kind) ==
    /\ backlog' = Append(backlog, [client |-> c, kind |-> kind, open |-> TRUE])
    /\ early' = (early \/ (kind # "monitor" /\ boot # "done"))

(* A call of the twin; without a socket it raises.  terminate does not wait *)
(* for an answer.                                                           *)
Call(c) ==
    /\ at[c] = "idle" /\ Socket
    /\ calls < IF boot = "done" THEN MaxCalls ELSE MaxEarly
    /\ calls' = calls + 1
    /\ \E kind \in Kinds :
          /\ Send(c, kind)
          /\ at' = IF kind = "terminate" THEN at ELSE [at EXCEPT ![c] = "call"]
          /\ faults' = IF kind = "badset" THEN faults \union {"value"} ELSE faults
    /\ UNCHANGED <<main, plc, lst, cur, watch, cause, stop>>

Record(r) ==
    /\ at[r] = "off"
    /\ at' = [at EXCEPT ![r] = "connect"]
    /\ UNCHANGED <<main, plc, listener, stop, calls, early, faults>>

(* __create_connection waits for the socket, whether told to stop or not. *)
Connect(r) ==
    /\ at[r] = "connect" /\ Socket
    /\ Send(r, IF r \in Motors THEN "monitor" ELSE "names")
    /\ at' = [at EXCEPT ![r] = IF r \in Motors THEN "recording" ELSE "names"]
    /\ UNCHANGED <<main, plc, lst, cur, watch, cause, stop, calls, faults>>

(* Mutant: the recorder asks to monitor on the connection that it has. *)
ReconnectNot(r) ==
    /\ at[r] = "reconnect"
    /\ at' = [at EXCEPT ![r] = "recording"]
    /\ UNCHANGED <<main, plc, listener, stop, calls, early, faults>>

Reconnect(r) ==
    /\ at[r] = "reconnect" /\ Socket
    /\ Send(r, "monitor")
    /\ at' = [at EXCEPT ![r] = "recording"]
    /\ UNCHANGED <<main, plc, lst, cur, watch, cause, stop, calls, faults>>

StopRecording(r) ==
    /\ at[r] \notin {"off", "ended"} /\ r \notin stop
    /\ stop' = stop \union {r}
    /\ faults' = faults \union {"stopped"}
    /\ UNCHANGED <<main, plc, listener, at, calls, early>>

(* The loop ends; StopMonitoringMessage goes to a connection that nobody    *)
(* reads again.                                                             *)
LeaveLoop(r) ==
    /\ r \in stop /\ at[r] \in {"names", "recording"}
    /\ at' = [at EXCEPT ![r] = "ended"]
    /\ LET Closed(e) == IF e.client = r THEN [e EXCEPT !.open = FALSE] ELSE e
       IN  /\ backlog' = [i \in DOMAIN backlog |-> Closed(backlog[i])]
           /\ watch' = [i \in DOMAIN watch |-> Closed(watch[i])]
           /\ cur' = Closed(cur)
    /\ UNCHANGED <<main, plc, lst, cause, stop, calls, early, faults>>

---------------------------------------------------------------------------
MainNext ==
    \/ Make \/ SetVarsBegin \/ SetVarsNext \/ LoadLib \/ SetRunning \/ MainStart
    \/ MakeBlocks("main") \/ Bind("main") \/ LibStart("main")
    \/ Exit

ListenerNext ==
    \/ Listen \/ Accept \/ Start
    \/ MakeBlocks("listener") \/ Bind("listener") \/ LibStart("listener")
    \/ Stop \/ StopPlc \/ Terminate \/ Join \/ Names \/ Look \/ Monitor

RecorderNext(r) == Connect(r) \/ Reconnect(r) \/ LeaveLoop(r)

Next ==
    \/ MainNext \/ ListenerNext \/ Token \/ Forget
    \/ \E c \in Callers : Call(c)
    \/ \E r \in Recorders : Record(r) \/ StopRecording(r) \/ RecorderNext(r)

(* A make that ends, two threads that run, recorders that run.  A setter    *)
(* gets its token while the PLC runs (PlcRuntime!SetsProgress).             *)
Fairness ==
    /\ WF_vars(MainNext) /\ WF_vars(ListenerNext)
    /\ WF_vars(Token /\ plcs > 0)
    /\ \A r \in Recorders : WF_vars(RecorderNext(r))

Spec == Init /\ [][Next]_vars /\ Fairness

---------------------------------------------------------------------------
(* Properties *)

(* Who keeps to the order of things -- asks for nothing but to monitor      *)
(* before the PLC is up -- finds a listener that goes on serving, whatever  *)
(* starts, stops and reads follow, unless the environment failed it: the    *)
(* build, the library, a bad value, a recorder that was stopped.            *)
ListenerSurvives ==
    lst = "dead" => early \/ faults # {} \/ cause = "monitor"

(* The blocks that changes are written to are those that the Modbus server  *)
(* serves, across starts and stops: else its clients read zeros for ever.   *)
BlocksServed ==
    port # 0 => port = mb_blocks \/ early \/ "library" \in faults

(* The three ways in which the listener waits for ever: for a token of a    *)
(* PLC that does not run, for the thread of a PLC that failed to stop or    *)
(* was being started when it was told to terminate, and for a build that    *)
(* has raised.                                                              *)
Blocked ==
    \/ Serving("monitor") /\ boot = "failed" /\ ~build_finished
    \/ lst = "token" /\ plcs = 0
    \/ lst = "join" /\ plc_thread = "waiting"

(* Every call of the twin returns, with an answer or an EOFError, also when *)
(* the build fails and a client monitors while it lasts.                    *)
CallsEnd ==
    \A c \in Callers : at[c] = "call" ~> (at[c] # "call" \/ Blocked)

(* Who starts to record is registered, unless the listener ends first. *)
Recorded ==
    \A r \in Recorders :
        at[r] = "connect" ~> \/ \E i \in DOMAIN watch : watch[i].client = r
                             \/ lst \in {"dead", "closed"}
                             \/ Blocked \/ r \in stop

(* "Wait until build is finished" (plc_supervisor.py:587): who asks to      *)
(* monitor waits until the variables are there, and all are monitored.      *)
WaitSuffices ==
    /\ cause # "monitor"
    /\ \A i \in DOMAIN watch :
          watch[i].client \in Motors => watch[i].names = NVars
============================================================================
