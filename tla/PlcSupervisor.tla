-------------------------- MODULE PlcSupervisor --------------------------
(* How a change of a PLC variable travels (cpstwinning/plc_supervisor.py):  *)
(* from the C variable to the Modbus data block, to the value cached in     *)
(* self.vars and to the clients that monitor the PLC.  Three kinds of       *)
(* threads run this code with no lock between them: the PLC thread, through *)
(* the callback that every assignment of the program makes, the listener,   *)
(* which serves the sockets, and the handlers of Modbus write requests.     *)
(* A thread can lose the interpreter between any two of the steps below.    *)
(*                                                                          *)
(* The module starts where PlcSupervisor.__init__ ends: built, started, no  *)
(* change seen yet.  Whether a setter waits in sem_wait is PlcRuntime's     *)
(* subject; here it may write at any time.  Each variable has one Modbus    *)
(* address; message contents other than variable and value are left out.    *)
(*                                                                          *)
(* A set stores an int, four bytes, whatever the type of the variable       *)
(* (plc_runtime_skeleton.c, set_int_val_by_idx_t and _p).  A BOOL has two,  *)
(* its value and its flags: the store zeroes the BOOL that lies behind it   *)
(* (values that are set are neither negative nor wider than their type).    *)
EXTENDS Naturals, FiniteSets, Sequences, SequencesExt

CONSTANTS
    Vars,        \* variables of the PLC program
    Values,      \* the values they take
    InitValue,   \* the value config_init__ gives them
    NoValue,     \* None: no change has been seen yet
    Overrun,     \* the variables that a set of a variable zeroes besides
    Setters,     \* threads that set variables: "listener", Modbus handlers
    Watchers,    \* clients that may monitor the PLC, one connection each
    Interests,   \* the sets of variables that a client may ask for
    MaxRestarts, \* bound: StopMessage followed by StartMessage
    MaxWrites    \* bound: assignments and set requests

ASSUME SupervisorAssumption ==
    /\ 0 \in Values /\ InitValue \in Values
    /\ NoValue \notin Values \union Vars
    /\ "plc" \notin Setters
    /\ MaxRestarts \in Nat /\ MaxWrites \in Nat

ASSUME NeighboursAssumption ==
    Overrun \in [Vars -> SUBSET Vars] /\ Interests \subseteq SUBSET Vars

Threads == {"plc", "listener"} \union Setters

VARIABLES
    cvar,          \* the variables in the C library
    blk,           \* self.mb_blocks
    cache,         \* self.vars[idx]['value']
    conn_watcher,  \* self.conn_watcher
    subs,          \* the 'var_names' of each client
    peer,          \* the client's end: "none", "up", "down"
    view,          \* the last value sent to each client (at first: the cached)
    at, job,       \* where each thread is, and what it propagates
    plc,           \* "running", "stopping", "stopped", "starting"
    listener,      \* "serving", "ending", "closed", "dead"
    told,          \* clients sent a TerminateMessage
    restarts, writes,  \* counted for the bounds
    touched,       \* history: variables written since the last start
    unsettled,     \* history: last propagation overlapped another or was cut,
                   \* or the set of a neighbour has zeroed the variable since
    everUnsettled, \* history: any propagation so far overlapped or was cut
    lateSubs       \* history: subscriptions made while a change was on its way

values  == <<cvar, blk, cache>>
clients == <<conn_watcher, subs, peer, view, told, lateSubs>>
control == <<plc, listener, restarts>>
history == <<touched, unsettled, everUnsettled>>
vars == <<values, clients, at, job, control, writes, history>>

(* v, new: the variable and its value; i: the index of the for loop in      *)
(* conn_watcher; w: its loop variable; k: the index to delete; todo: the    *)
(* clients still to be told, dels: deletions since the loop began (history). *)
NoJob == [v |-> NoValue, new |-> NoValue, i |-> 0, w |-> NoValue, k |-> 0,
          todo |-> {}, dels |-> 0]

Init ==
    /\ cvar = [v \in Vars |-> InitValue]
    /\ blk = [v \in Vars |-> 0]
    /\ cache = [v \in Vars |-> NoValue]
    /\ conn_watcher = <<>>
    /\ subs = [w \in Watchers |-> {}]
    /\ peer = [w \in Watchers |-> "none"]
    /\ view = [w \in Watchers |-> [v \in Vars |-> NoValue]]
    /\ at = [t \in Threads |-> "idle"]
    /\ job = [t \in Threads |-> NoJob]
    /\ plc = "running" /\ listener = "serving"
    /\ told = {} /\ lateSubs = {}
    /\ restarts = 0 /\ writes = 0
    /\ touched = {} /\ unsettled = {} /\ everUnsettled = {}

Pending(v)     == {t \in Threads : at[t] # "idle" /\ job[t].v = v}
Propagating(v) == {t \in Pending(v) : at[t] # "write"}
ListenerFree   == listener = "serving" /\ at["listener"] = "idle"
                    /\ plc \in {"running", "stopped"}

Goto(t, l) == at' = [at EXCEPT ![t] = l]
Finish(t)  == Goto(t, "idle") /\ job' = [job EXCEPT ![t] = NoJob]

---------------------------------------------------------------------------
(* Writing the C variable *)

(* The write, which zeroes some variables besides, and the history of it:   *)
(* whether another thread has not yet finished propagating the variable.    *)
WriteVar(t, v, x, zeroed) ==
    /\ cvar' = [u \in Vars |-> IF u = v THEN x
                               ELSE IF u \in zeroed THEN 0 ELSE cvar[u]]
    /\ touched' = touched \union {v}
    /\ IF Propagating(v) \ {t} # {}
       THEN /\ unsettled' = unsettled \union {v} \union zeroed
            /\ everUnsettled' = everUnsettled \union {v}
       ELSE /\ unsettled' = (unsettled \ {v}) \union zeroed
            /\ UNCHANGED everUnsettled

CountWrite == writes < MaxWrites /\ writes' = writes + 1

(* The program assigns a variable: __SET_VAR writes it and calls back.      *)
Assign(v, x) ==
    /\ plc \in {"running", "stopping"} /\ at["plc"] = "idle"
    /\ CountWrite
    /\ WriteVar("plc", v, x, {})
    /\ job' = [job EXCEPT !["plc"] = [@ EXCEPT !.v = v]]
    /\ Goto("plc", "callback")
    /\ UNCHANGED <<blk, cache, clients, control>>

(* my_callback: the value is read back, it may not be the one assigned.     *)
Callback ==
    /\ at["plc"] = "callback"
    /\ job' = [job EXCEPT !["plc"] = [@ EXCEPT !.new = cvar[job["plc"].v]]]
    /\ Goto("plc", "sync")
    /\ UNCHANGED <<values, clients, control, writes, history>>

(* set_var_value up to the C write, for a SetTagMessage. *)
SetTag(v, x) ==
    /\ "listener" \in Setters /\ ListenerFree
    /\ CountWrite
    /\ job' = [job EXCEPT !["listener"] = [@ EXCEPT !.v = v, !.new = x]]
    /\ Goto("listener", "write")
    /\ UNCHANGED <<values, clients, control, history>>

(* The same for a Modbus write: the data block has the value first.  A      *)
(* handler may be late with its request: the PLC has stopped meanwhile, or  *)
(* has been started again with other blocks than those the handler knows.   *)
ModbusWrite(t, v, x) ==
    /\ at[t] = "idle"
    /\ CountWrite
    /\ blk' = [blk EXCEPT ![v] = x] \/ (restarts > 0 /\ UNCHANGED blk)
    /\ job' = [job EXCEPT ![t] = [@ EXCEPT !.v = v, !.new = x]]
    /\ Goto(t, "write")
    /\ UNCHANGED <<cvar, cache, clients, control, history>>

(* set_int_val_by_idx returns; no callback tells of what it has zeroed. *)
SetVar(t) ==
    /\ at[t] = "write"
    /\ WriteVar(t, job[t].v, job[t].new, Overrun[job[t].v])
    /\ Goto(t, "sync")
    /\ UNCHANGED <<blk, cache, clients, job, control, writes>>

---------------------------------------------------------------------------
(* __sync_mb_blocks and __notify_watcher *)

(* Mutant: the data block is left alone. *)
SyncNothing(t) ==
    /\ at[t] = "sync"
    /\ Goto(t, "compare")
    /\ UNCHANGED <<values, clients, job, control, writes, history>>

SyncBlock(t) ==
    /\ at[t] = "sync"
    /\ blk' = [blk EXCEPT ![job[t].v] = job[t].new]
    /\ Goto(t, "compare")
    /\ UNCHANGED <<cvar, cache, clients, job, control, writes, history>>

Changed(v, x) == cache[v] = NoValue \/ cache[v] # x

Compare(t) ==
    /\ at[t] = "compare"
    /\ IF Changed(job[t].v, job[t].new)
       THEN /\ job' = [job EXCEPT ![t] =
               [@ EXCEPT !.i = 1,
                         !.todo = {w \in Range(conn_watcher) : job[t].v \in subs[w]}]]
            /\ Goto(t, "loop")
       ELSE Finish(t)
    /\ UNCHANGED <<values, clients, control, writes, history>>

(* One round of the loop over conn_watcher.  Python keeps an index into the *)
(* list whatever happens to the list meanwhile.                             *)
LoopNext(t) ==
    /\ at[t] = "loop" /\ job[t].i <= Len(conn_watcher)
    /\ LET w == conn_watcher[job[t].i]
           v == job[t].v
       IN  IF v \in subs[w] /\ peer[w] = "down"
           THEN /\ Goto(t, "index")        \* send raised EOFError or IOError
                /\ job' = [job EXCEPT ![t] = [@ EXCEPT !.w = w, !.todo = job[t].todo \ {w}]]
                /\ UNCHANGED view
           ELSE /\ job' = [job EXCEPT ![t] = [@ EXCEPT !.i = job[t].i + 1,
                                                    !.todo = job[t].todo \ {w}]]
                /\ view' = IF v \in subs[w]
                           THEN [view EXCEPT ![w][v] = job[t].new] ELSE view
                /\ UNCHANGED at
    /\ UNCHANGED <<values, conn_watcher, subs, peer, told, lateSubs, control,
                   writes, history>>

(* Mutant: the loop ends one client early. *)
LoopEndEarly(t) ==
    /\ at[t] = "loop" /\ job[t].i >= Len(conn_watcher)
    /\ Goto(t, "store")
    /\ UNCHANGED <<values, clients, job, control, writes, history>>

LoopEnd(t) ==
    /\ at[t] = "loop" /\ job[t].i > Len(conn_watcher)
    /\ Goto(t, "store")
    /\ UNCHANGED <<values, clients, job, control, writes, history>>

(* ValueError or IndexError, which nobody on the way catches: the rest of   *)
(* the propagation is lost, and on the listener the listener with it.       *)
Abort(t) ==
    /\ Finish(t)
    /\ unsettled' = unsettled \union {job[t].v}
    /\ everUnsettled' = everUnsettled \union {job[t].v}
    /\ listener' = IF t = "listener" THEN "dead" ELSE listener

(* self.conn_watcher.index(conn_el) *)
FindDead(t) ==
    /\ at[t] = "index"
    /\ IF Contains(conn_watcher, job[t].w)
       THEN /\ job' = [job EXCEPT ![t] =
                 [@ EXCEPT !.k = CHOOSE k \in DOMAIN conn_watcher :
                                   conn_watcher[k] = job[t].w]]
            /\ Goto(t, "del")
            /\ UNCHANGED <<unsettled, everUnsettled, listener>>
       ELSE Abort(t)
    /\ UNCHANGED <<values, clients, plc, restarts, writes, touched>>

(* del self.conn_watcher[k], and on to the next round. *)
DeleteDead(t) ==
    /\ at[t] = "del"
    /\ IF job[t].k <= Len(conn_watcher)
       THEN /\ conn_watcher' = RemoveAt(conn_watcher, job[t].k)
            /\ job' = [u \in Threads |->
                 IF u = t
                 THEN [job[t] EXCEPT !.i = @ + 1, !.w = NoValue, !.k = 0,
                                     !.dels = @ + 1]
                 ELSE IF at[u] \in {"loop", "index", "del"}
                      THEN [job[u] EXCEPT !.dels = @ + 1] ELSE job[u]]
            /\ Goto(t, "loop")
            /\ UNCHANGED <<unsettled, everUnsettled, listener>>
       ELSE Abort(t) /\ UNCHANGED conn_watcher
    /\ UNCHANGED <<values, subs, peer, view, told, lateSubs, plc, restarts,
                   writes, touched>>

StoreValue(t) ==
    /\ at[t] = "store"
    /\ cache' = [cache EXCEPT ![job[t].v] = job[t].new]
    /\ Finish(t)
    /\ UNCHANGED <<cvar, blk, clients, control, writes, history>>

---------------------------------------------------------------------------
(* Clients *)

Monitor(w, V) ==
    /\ ListenerFree /\ peer[w] = "none"
    /\ conn_watcher' = Append(conn_watcher, w)
    /\ subs' = [subs EXCEPT ![w] = V]
    /\ peer' = [peer EXCEPT ![w] = "up"]
    /\ view' = [view EXCEPT ![w] = cache]
    /\ lateSubs' = lateSubs \union {<<w, v>> : v \in {u \in V : Propagating(u) # {}}}
    /\ UNCHANGED <<values, told, at, job, control, writes, history>>

(* A client closes its end.  A StopMonitoringMessage it sends before does   *)
(* not arrive: the listener reads one message per connection.               *)
Disconnect(w) ==
    /\ peer[w] = "up"
    /\ peer' = [peer EXCEPT ![w] = "down"]
    /\ UNCHANGED <<values, conn_watcher, subs, view, told, lateSubs, at, job,
                   control, writes, history>>

---------------------------------------------------------------------------
(* StopMessage, StartMessage and TerminateMessage *)

StopPlc ==
    /\ ListenerFree /\ plc = "running"
    /\ plc' = "stopping"
    /\ UNCHANGED <<values, clients, at, job, listener, restarts, writes, history>>

(* stop_plc has joined the PLC thread. *)
StopReturn ==
    /\ plc = "stopping" /\ at["plc"] = "idle"
    /\ plc' = "stopped"
    /\ UNCHANGED <<values, clients, at, job, listener, restarts, writes, history>>

(* start(): new data blocks, all zero. *)
StartPlc ==
    /\ ListenerFree /\ plc = "stopped"
    /\ restarts < MaxRestarts /\ restarts' = restarts + 1
    /\ plc' = "starting"
    /\ blk' = [v \in Vars |-> 0]
    /\ touched' = {}
    /\ UNCHANGED <<cvar, cache, clients, at, job, listener, writes, unsettled,
                   everUnsettled>>

(* start_plc: config_init__ resets the variables; nobody resets the cache.  *)
StartReturn ==
    /\ plc = "starting"
    /\ plc' = "running"
    /\ cvar' = [v \in Vars |-> InitValue]
    /\ touched' = {}
    /\ UNCHANGED <<blk, cache, clients, at, job, listener, restarts, writes,
                   unsettled, everUnsettled>>

Terminate ==
    /\ ListenerFree
    /\ Goto("listener", "telling")
    /\ job' = [job EXCEPT !["listener"] = [@ EXCEPT !.i = 1]]
    /\ UNCHANGED <<values, clients, control, writes, history>>

(* A send that fails is caught by nobody but ListenerThread.run. *)
TellNext ==
    /\ at["listener"] = "telling" /\ job["listener"].i <= Len(conn_watcher)
    /\ LET w == conn_watcher[job["listener"].i]
       IN  IF peer[w] = "down"
           THEN Finish("listener") /\ listener' = "dead" /\ UNCHANGED told
           ELSE /\ told' = told \union {w}
                /\ job' = [job EXCEPT !["listener"] = [@ EXCEPT !.i = job["listener"].i + 1]]
                /\ UNCHANGED <<at, listener>>
    /\ UNCHANGED <<values, conn_watcher, subs, peer, view, lateSubs, plc,
                   restarts, writes, history>>

(* Mutant: the last client is not told. *)
TellEndEarly ==
    /\ at["listener"] = "telling" /\ job["listener"].i >= Len(conn_watcher)
    /\ Finish("listener")
    /\ listener' = "ending"
    /\ plc' = IF plc = "running" THEN "stopping" ELSE plc
    /\ UNCHANGED <<values, clients, restarts, writes, history>>

TellEnd ==
    /\ at["listener"] = "telling" /\ job["listener"].i > Len(conn_watcher)
    /\ Finish("listener")
    /\ listener' = "ending"
    /\ plc' = IF plc = "running" THEN "stopping" ELSE plc
    /\ UNCHANGED <<values, clients, restarts, writes, history>>

CloseListener ==
    /\ listener = "ending" /\ plc = "stopped"
    /\ listener' = "closed"
    /\ UNCHANGED <<values, clients, at, job, plc, restarts, writes, history>>

---------------------------------------------------------------------------
Propagate(t) ==
    \/ SetVar(t) \/ SyncBlock(t) \/ Compare(t) \/ LoopNext(t) \/ LoopEnd(t)
    \/ FindDead(t) \/ DeleteDead(t) \/ StoreValue(t)

Next ==
    \/ \E v \in Vars, x \in Values :
         \/ Assign(v, x)
         \/ SetTag(v, x)
         \/ \E t \in Setters \ {"listener"} : ModbusWrite(t, v, x)
    \/ Callback
    \/ \E t \in Threads : Propagate(t)
    \/ \E w \in Watchers :
         \/ \E V \in Interests : Monitor(w, V)
         \/ Disconnect(w)
    \/ StopPlc \/ StopReturn \/ StartPlc \/ StartReturn
    \/ Terminate \/ TellNext \/ TellEnd \/ CloseListener

Spec == Init /\ [][Next]_vars

---------------------------------------------------------------------------
(* Properties *)

(* After the last write of a variable has been propagated, the Modbus block *)
(* and the cached value are the PLC's, whatever happened before, restarts   *)
(* and earlier races included -- unless that propagation overlapped with    *)
(* another of the same variable, or an exception cut it off, or a set of    *)
(* the variable before it in memory has zeroed it since, and as long as the *)
(* variable has been written since the PLC was started.                     *)
MirrorsAgree ==
    \A v \in touched \ unsettled :
        Pending(v) = {} => blk[v] = cvar[v] /\ cache[v] = cvar[v]

(* While nobody disconnects and no two propagations of a variable overlap,  *)
(* every client that subscribed at a quiet moment has been sent the cached  *)
(* value, however subscriptions, writes and restarts interleave.            *)
ClientsAgree ==
    \A w \in Range(conn_watcher) : \A v \in subs[w] \ everUnsettled :
        Propagating(v) = {} /\ <<w, v>> \notin lateSubs
            /\ (\A u \in Watchers : peer[u] # "down")
        => view[w][v] = cache[v]

(* Deleting a dead client while the list is iterated makes the loop pass    *)
(* over others, but over no more clients than were deleted during the loop, *)
(* also when other threads iterate and delete at the same time.             *)
SkipsBounded ==
    \A t \in Threads : at[t] = "store" => Cardinality(job[t].todo) <= job[t].dels

(* A supervisor that shuts down in order has told every client and stopped  *)
(* the PLC, if all clients were connected: no propagation that runs at the  *)
(* same time makes the loop miss one.                                       *)
TerminateTellsAll ==
    listener = "closed" /\ (\A w \in Watchers : peer[w] # "down") =>
        /\ \A w \in Range(conn_watcher) : w \in told
        /\ plc = "stopped" /\ at["plc"] = "idle"

============================================================================
