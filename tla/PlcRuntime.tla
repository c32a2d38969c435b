---------------------------- MODULE PlcRuntime ----------------------------
(* The C runtime that every virtual PLC is linked with                      *)
(* (cpstwinning/plcruntime/src/plc_runtime_skeleton.c), together with the   *)
(* two places that drive it: PlcSupervisor.start/stop in plc_supervisor.py  *)
(* and the SIGINT/SIGTERM handler the runtime installs for itself.          *)
(*                                                                          *)
(* Threads: the control thread (Python's main thread for the first start,   *)
(* the listener afterwards), the thread a signal is handled on, one PLC     *)
(* thread per successful pthread_create, the notification threads of the    *)
(* POSIX timers (SIGEV_THREAD), and the threads that set a variable (the    *)
(* listener and the Modbus request handlers).                               *)
(*                                                                          *)
(* The PLC program's variables are left out (PlcSupervisor has them); tick, *)
(* which only numbers the scans, is left out too.                           *)
EXTENDS Naturals, FiniteSets

CONSTANTS
    Setters,      \* threads that call set_int_val_by_idx_p / _t
    Listener,     \* the setter that also runs start() and stop()
    Faults,       \* the library calls that may fail
    MaxStarts,    \* bound: calls of start_plc
    MaxSignals,   \* bound: SIGINT / SIGTERM deliveries
    MaxFailures,  \* bound: injected failures of library calls
    MaxInflight,  \* bound: notification threads of one timer not yet run
    SemValueMax   \* SEM_VALUE_MAX: sem_post fails with EOVERFLOW beyond it

FaultPoints == {"sem_timer", "sem_vars", "create", "timer_create",
                "timer_settime", "join", "destroy_timer", "destroy_vars",
                "timer_delete"}

ASSUME RuntimeAssumption ==
    /\ Listener \in Setters
    /\ Faults \subseteq FaultPoints
    /\ MaxStarts \in Nat \ {0}
    /\ MaxSignals \in Nat
    /\ MaxFailures \in Nat
    /\ MaxInflight \in Nat \ {0}
    /\ SemValueMax \in Nat \ {0}

VARIABLES
    running,         \* PlcSupervisor.running
    is_plc_running,  \* the C flag
    sem_plc_timer, sem_plc_vars,  \* the semaphores' counts
    live,            \* the semaphores initialised and not destroyed
    plc_thread,      \* the last thread created (0: none yet)
    thr,             \* where each PLC thread is
    armed,           \* timers that expire periodically
    inflight,        \* per timer, expirations whose timer_notify has not run
    pc,              \* where the control and the signal thread are
    target,          \* the thread a pthread_join in progress waits for
    setter,          \* where each setter is
    inited,          \* config_init__ has run in the current start
    handlers,        \* the signal handlers are installed
    starts,          \* calls of start_plc; also the id of its thread and timer
    signals,         \* history: signals delivered so far
    failures,        \* history: library calls that have failed so far
    staleTick        \* history: a notification of an older timer posted the
                     \* semaphore after it was initialised for this start

flags   == <<running, is_plc_running, inited, handlers>>
sems    == <<sem_plc_timer, sem_plc_vars, live>>
threads == <<plc_thread, thr>>
timers  == <<armed, inflight>>
calls   == <<pc, target>>
history == <<starts, signals, failures, staleTick>>
vars == <<flags, sems, threads, timers, calls, setter, history>>

Starts  == 1..MaxStarts
Callers == {"ctl", "sig"}
StartPc == {"sem_timer", "sem_vars", "create", "config_init",
            "timer_create", "timer_settime", "signal"}
StopPc  == {"stop_flag", "join", "joining", "destroy_timer",
            "destroy_vars", "timer_delete"}
AlivePc == {"check", "post", "wait", "scan"}

(* sem_post, whose result the code ignores: at SEM_VALUE_MAX it does nothing. *)
Post(n) == IF n < SemValueMax THEN n + 1 ELSE n

(* Mutant: the count of the previous run is kept. *)
SemInitKeeps(n) == n

SemInit(n) == 0

(* The first start is made by PlcSupervisor.__init__ on the main thread; the *)
(* listener makes all later calls and cannot while it is inside a set.       *)
InFirstStart == starts = 1 /\ pc["ctl"] \in StartPc
ListenerFree == setter[Listener] = "idle"

Init ==
    /\ running = FALSE /\ is_plc_running = FALSE
    /\ inited = FALSE /\ handlers = FALSE
    /\ sem_plc_timer = 0 /\ sem_plc_vars = 0 /\ live = {}
    /\ plc_thread = 0 /\ thr = [t \in Starts |-> "none"]
    /\ armed = {} /\ inflight = [t \in Starts |-> 0]
    /\ pc = [c \in Callers |-> "idle"] /\ target = [c \in Callers |-> 0]
    /\ setter = [s \in Setters |-> "idle"]
    /\ starts = 0 /\ signals = 0 /\ failures = 0
    /\ staleTick = FALSE

---------------------------------------------------------------------------
(* start_plc, called by PlcSupervisor.start when it is not running. *)

Goto(c, l) == pc' = [pc EXCEPT ![c] = l]

(* Mutant: PlcSupervisor.start does not test running. *)
MayStartAlways == starts = 0 \/ ListenerFree

MayStart == ~running /\ (starts = 0 \/ ListenerFree)

StartCall ==
    /\ pc["ctl"] = "idle"
    /\ MayStart
    /\ starts < MaxStarts
    /\ is_plc_running' = TRUE
    /\ starts' = starts + 1
    /\ inited' = FALSE
    /\ Goto("ctl", "sem_timer")
    /\ UNCHANGED <<sems, threads, timers, running, target, setter, handlers,
                   signals, failures, staleTick>>

InitSemTimer ==
    /\ pc["ctl"] = "sem_timer"
    /\ sem_plc_timer' = SemInit(sem_plc_timer)
    /\ live' = live \union {"timer"}
    /\ staleTick' = FALSE
    /\ Goto("ctl", "sem_vars")
    /\ UNCHANGED <<flags, threads, timers, sem_plc_vars, target, setter,
                   starts, signals, failures>>

InitSemVars ==
    /\ pc["ctl"] = "sem_vars"
    /\ sem_plc_vars' = SemInit(sem_plc_vars)
    /\ live' = live \union {"vars"}
    /\ Goto("ctl", "create")
    /\ UNCHANGED <<flags, threads, timers, history, sem_plc_timer, target,
                   setter>>

CreateThread ==
    /\ pc["ctl"] = "create"
    /\ plc_thread' = starts
    /\ thr' = [thr EXCEPT ![starts] = "check"]
    /\ Goto("ctl", "config_init")
    /\ UNCHANGED <<flags, sems, timers, history, target, setter>>

(* config_init__ gives every PLC variable its initial value. *)
ConfigInit ==
    /\ pc["ctl"] = "config_init"
    /\ inited' = TRUE
    /\ Goto("ctl", "timer_create")
    /\ UNCHANGED <<sems, threads, timers, history, running, is_plc_running,
                   target, setter, handlers>>

TimerCreate ==
    /\ pc["ctl"] = "timer_create"
    /\ Goto("ctl", "timer_settime")
    /\ UNCHANGED <<running, is_plc_running, sem_plc_timer, sem_plc_vars, live,
                   plc_thread, thr, armed, inflight, target, setter, inited,
                   handlers, starts, signals, failures, staleTick>>

TimerSettime ==
    /\ pc["ctl"] = "timer_settime"
    /\ armed' = armed \union {starts}
    /\ Goto("ctl", "signal")
    /\ UNCHANGED <<flags, sems, threads, history, inflight, target, setter>>

(* The handlers are installed, start_plc returns 0, running becomes True. *)
StartReturn ==
    /\ pc["ctl"] = "signal"
    /\ handlers' = TRUE
    /\ running' = TRUE
    /\ Goto("ctl", "idle")
    /\ UNCHANGED <<sems, threads, timers, history, is_plc_running, target,
                   setter, inited>>

(* A library call fails: the error is returned at once and nothing that was *)
(* done before is undone.  A failed start leaves running False, a failed    *)
(* stop leaves it True.                                                     *)
LibraryError(c) ==
    /\ pc[c] \in Faults
    /\ failures < MaxFailures
    /\ failures' = failures + 1
    /\ Goto(c, "idle")
    /\ UNCHANGED <<flags, sems, threads, timers, target, setter, starts,
                   signals, staleTick>>

---------------------------------------------------------------------------
(* stop_plc, called by PlcSupervisor.stop and by catch_signal. *)

(* stop_plc returns 0: PlcSupervisor.stop then clears running. *)
StopDone(c) == running' = IF c = "ctl" THEN FALSE ELSE running

StopCall ==
    /\ pc["ctl"] = "idle" /\ running
    /\ ListenerFree
    /\ IF is_plc_running
       THEN Goto("ctl", "stop_flag") /\ UNCHANGED running
       ELSE StopDone("ctl") /\ UNCHANGED pc
    /\ UNCHANGED <<sems, threads, timers, history, is_plc_running, target,
                   setter, inited, handlers>>

CatchSignal ==
    /\ handlers
    /\ pc["sig"] = "idle"
    /\ signals < MaxSignals
    /\ signals' = signals + 1
    /\ IF is_plc_running THEN Goto("sig", "stop_flag") ELSE UNCHANGED pc
    /\ UNCHANGED <<flags, sems, threads, timers, target, setter, starts,
                   failures, staleTick>>

(* Mutant: the timer is deleted before the thread is joined. *)
StopFlagDeletesTimer(c) ==
    /\ pc[c] = "stop_flag"
    /\ is_plc_running' = FALSE
    /\ armed' = armed \ {starts}
    /\ Goto(c, "join")
    /\ UNCHANGED <<sems, threads, history, running, inflight, target, setter,
                   inited, handlers>>

StopFlag(c) ==
    /\ pc[c] = "stop_flag"
    /\ is_plc_running' = FALSE
    /\ Goto(c, "join")
    /\ UNCHANGED <<sems, threads, timers, history, running, target, setter,
                   inited, handlers>>

(* pthread_join reads plc_thread when it is called.  A thread that another  *)
(* caller joins or has joined makes it fail, and stop_plc with it.          *)
JoinRefused(c) ==
    \/ thr[plc_thread] = "joined"
    \/ \E d \in Callers \ {c} : pc[d] = "joining" /\ target[d] = plc_thread

JoinCall(c) ==
    /\ pc[c] = "join"
    /\ IF JoinRefused(c)
       THEN failures' = failures + 1 /\ Goto(c, "idle") /\ UNCHANGED target
       ELSE /\ target' = [target EXCEPT ![c] = plc_thread]
            /\ Goto(c, "joining")
            /\ UNCHANGED failures
    /\ UNCHANGED <<flags, sems, threads, timers, setter, starts, signals,
                   staleTick>>

(* Mutant: a join that gives up waiting. *)
JoinTimesOut(c) ==
    /\ pc[c] = "joining"
    /\ Goto(c, "destroy_timer")
    /\ UNCHANGED <<running, is_plc_running, sem_plc_timer, sem_plc_vars, live,
                   plc_thread, thr, armed, inflight, target, setter, inited,
                   handlers, starts, signals, failures, staleTick>>

JoinReturn(c) ==
    /\ pc[c] = "joining"
    /\ thr[target[c]] = "exited"
    /\ thr' = [thr EXCEPT ![target[c]] = "joined"]
    /\ Goto(c, "destroy_timer")
    /\ UNCHANGED <<flags, sems, timers, history, plc_thread, target, setter>>

(* glibc's sem_destroy leaves the count as it is. *)
DestroySemTimer(c) ==
    /\ pc[c] = "destroy_timer"
    /\ live' = live \ {"timer"}
    /\ Goto(c, "destroy_vars")
    /\ UNCHANGED <<flags, threads, timers, history, sem_plc_timer,
                   sem_plc_vars, target, setter>>

DestroySemVars(c) ==
    /\ pc[c] = "destroy_vars"
    /\ live' = live \ {"vars"}
    /\ Goto(c, "timer_delete")
    /\ UNCHANGED <<flags, threads, timers, history, sem_plc_timer,
                   sem_plc_vars, target, setter>>

(* Mutant: the timer is never deleted. *)
TimerKept(c) ==
    /\ pc[c] = "timer_delete"
    /\ StopDone(c)
    /\ Goto(c, "idle")
    /\ UNCHANGED <<sems, threads, timers, history, is_plc_running, target,
                   setter, inited, handlers>>

(* timer holds the last timer created: that of the current start. *)
TimerDelete(c) ==
    /\ pc[c] = "timer_delete"
    /\ armed' = armed \ {starts}
    /\ StopDone(c)
    /\ Goto(c, "idle")
    /\ UNCHANGED <<sems, threads, history, is_plc_running, inflight, target,
                   setter, inited, handlers>>

---------------------------------------------------------------------------
(* The timer: each expiration starts a thread that runs timer_notify. *)

TimerExpire(t) ==
    /\ t \in armed
    /\ inflight[t] < MaxInflight
    /\ inflight' = [inflight EXCEPT ![t] = @ + 1]
    /\ UNCHANGED <<running, is_plc_running, sem_plc_timer, sem_plc_vars, live,
                   plc_thread, thr, armed, pc, target, setter, inited, handlers,
                   starts, signals, failures, staleTick>>

TimerNotify(t) ==
    /\ inflight[t] > 0
    /\ inflight' = [inflight EXCEPT ![t] = @ - 1]
    /\ sem_plc_timer' = Post(sem_plc_timer)
    /\ staleTick' = (staleTick \/ t # starts)
    /\ UNCHANGED <<flags, threads, calls, sem_plc_vars, live, armed, setter,
                   starts, signals, failures>>

---------------------------------------------------------------------------
(* plc_thread_routine_c *)

ThreadCheck(t) ==
    /\ thr[t] = "check"
    /\ thr' = [thr EXCEPT ![t] = IF is_plc_running THEN "post" ELSE "exited"]
    /\ UNCHANGED <<running, is_plc_running, sem_plc_timer, sem_plc_vars, live,
                   plc_thread, armed, inflight, pc, target, setter, inited,
                   handlers, starts, signals, failures, staleTick>>

(* Mutant: the token for the setters is not given. *)
ThreadPostsNothing(t) ==
    /\ thr[t] = "post"
    /\ thr' = [thr EXCEPT ![t] = "wait"]
    /\ UNCHANGED <<running, is_plc_running, sem_plc_timer, sem_plc_vars, live,
                   plc_thread, armed, inflight, pc, target, setter, inited,
                   handlers, starts, signals, failures, staleTick>>

ThreadPost(t) ==
    /\ thr[t] = "post"
    /\ sem_plc_vars' = Post(sem_plc_vars)
    /\ thr' = [thr EXCEPT ![t] = "wait"]
    /\ UNCHANGED <<flags, timers, calls, history, sem_plc_timer, live,
                   plc_thread, setter>>

ThreadWait(t) ==
    /\ thr[t] = "wait"
    /\ sem_plc_timer > 0
    /\ sem_plc_timer' = sem_plc_timer - 1
    /\ thr' = [thr EXCEPT ![t] = "scan"]
    /\ UNCHANGED <<flags, timers, calls, history, sem_plc_vars, live,
                   plc_thread, setter>>

(* The end of run(), that is of config_run__: the scan itself lasts from    *)
(* ThreadWait to here.                                                      *)
ThreadRun(t) ==
    /\ thr[t] = "scan"
    /\ thr' = [thr EXCEPT ![t] = "check"]
    /\ UNCHANGED <<running, is_plc_running, sem_plc_timer, sem_plc_vars, live,
                   plc_thread, armed, inflight, pc, target, setter, inited,
                   handlers, starts, signals, failures, staleTick>>

---------------------------------------------------------------------------
(* set_int_val_by_idx_p and _t: no test of is_plc_running is made, neither  *)
(* here nor by PlcSupervisor.set_var_value.                                 *)

SetCall(s) ==
    /\ setter[s] = "idle"
    /\ s = Listener => pc["ctl"] = "idle" \/ InFirstStart
    /\ setter' = [setter EXCEPT ![s] = "waiting"]
    /\ UNCHANGED <<running, is_plc_running, sem_plc_timer, sem_plc_vars, live,
                   plc_thread, thr, armed, inflight, pc, target, inited, handlers,
                   starts, signals, failures, staleTick>>

SetAdmit(s) ==
    /\ setter[s] = "waiting"
    /\ sem_plc_vars > 0
    /\ sem_plc_vars' = sem_plc_vars - 1
    /\ setter' = [setter EXCEPT ![s] = "admitted"]
    /\ UNCHANGED <<flags, threads, timers, calls, history, sem_plc_timer, live>>

SetWrite(s) ==
    /\ setter[s] = "admitted"
    /\ setter' = [setter EXCEPT ![s] = "idle"]
    /\ UNCHANGED <<running, is_plc_running, sem_plc_timer, sem_plc_vars, live,
                   plc_thread, thr, armed, inflight, pc, target, inited, handlers,
                   starts, signals, failures, staleTick>>

---------------------------------------------------------------------------
start_plc ==
    \/ StartCall \/ InitSemTimer \/ InitSemVars \/ CreateThread \/ ConfigInit
    \/ TimerCreate \/ TimerSettime \/ StartReturn

stop_plc(c) ==
    \/ StopFlag(c) \/ JoinCall(c) \/ JoinReturn(c) \/ DestroySemTimer(c)
    \/ DestroySemVars(c) \/ TimerDelete(c)

plc_thread_routine_c(t) ==
    ThreadCheck(t) \/ ThreadPost(t) \/ ThreadWait(t) \/ ThreadRun(t)

set_int_val_by_idx(s) == SetCall(s) \/ SetAdmit(s) \/ SetWrite(s)

Next ==
    \/ start_plc
    \/ StopCall
    \/ CatchSignal
    \/ \E c \in Callers : stop_plc(c) \/ LibraryError(c)
    \/ \E t \in Starts : TimerExpire(t) \/ TimerNotify(t) \/ plc_thread_routine_c(t)
    \/ \E s \in Setters : set_int_val_by_idx(s)

(* A call in progress goes on, threads are scheduled, an armed timer        *)
(* expires, its notification runs.  No request is ever owed: StartCall,     *)
(* StopCall, CatchSignal and SetCall carry no fairness.  POSIX semaphores   *)
(* are not fair between waiters, so only some waiting setter is admitted.   *)
Fairness ==
    /\ WF_vars(start_plc /\ pc["ctl"] # "idle")
    /\ \A c \in Callers : WF_vars(stop_plc(c))
    /\ \A t \in Starts : /\ WF_vars(plc_thread_routine_c(t))
                         /\ WF_vars(TimerExpire(t))
                         /\ WF_vars(TimerNotify(t))
    /\ WF_vars(\E s \in Setters : SetAdmit(s))
    /\ \A s \in Setters : WF_vars(SetWrite(s))

Spec == Init /\ [][Next]_vars

FairSpec == Spec /\ Fairness

---------------------------------------------------------------------------
(* Properties *)

TypeOK ==
    /\ running \in BOOLEAN
    /\ is_plc_running \in BOOLEAN
    /\ sem_plc_timer \in 0..SemValueMax
    /\ sem_plc_vars \in 0..SemValueMax
    /\ live \subseteq {"timer", "vars"}
    /\ plc_thread \in 0..MaxStarts
    /\ thr \in [Starts -> {"none", "exited", "joined"} \union AlivePc]
    /\ armed \subseteq Starts
    /\ inflight \in [Starts -> 0..MaxInflight]
    /\ pc \in [Callers -> {"idle"} \union StartPc \union StopPc]
    /\ target \in [Callers -> 0..MaxStarts]
    /\ setter \in [Setters -> {"idle", "waiting", "admitted"}]
    /\ inited \in BOOLEAN
    /\ handlers \in BOOLEAN
    /\ starts \in 0..MaxStarts
    /\ signals \in 0..MaxSignals
    /\ failures \in Nat
    /\ staleTick \in BOOLEAN

Alive(t) == thr[t] \in AlivePc

(* No library call has failed and no signal has been delivered so far. *)
Clean == failures = 0 /\ signals = 0

(* Two PLC threads never execute the program at the same time, over any     *)
(* number of starts and stops, as long as no call failed and no signal      *)
(* came: stop_plc joins before PlcSupervisor allows the next start_plc.     *)
SingleThread ==
    Clean => \A t, u \in Starts : Alive(t) /\ Alive(u) => t = u

(* What failures and signals can add: each leaves at most one PLC thread    *)
(* behind that nobody joins (a start that fails after pthread_create, a     *)
(* stop that fails before the join, a start that sets the flag again before *)
(* the thread a signal stopped has read it).                                *)
OrphanBound ==
    Cardinality({t \in Starts : Alive(t)}) <= 1 + failures + signals

(* Once PlcSupervisor.stop has reported success nothing of the PLC is left: *)
(* no thread, no armed timer, no flag that would let a thread continue.     *)
StoppedIsQuiet ==
    Clean /\ pc["ctl"] = "idle" /\ ~running =>
        /\ ~is_plc_running
        /\ armed = {}
        /\ \A t \in Starts : ~Alive(t) /\ thr[t] # "exited"

(* A PLC thread never posts or waits on a semaphore that is not initialised *)
(* or already destroyed: creation after sem_init, destruction after join.   *)
NoDeadSemaphore ==
    Clean => \A t \in Starts :
        /\ thr[t] = "post" => "vars" \in live
        /\ thr[t] = "wait" => "timer" \in live

(* No scan runs on variables that config_init__ has not set yet, unless a   *)
(* notification of the timer of an earlier start came late: the thread is   *)
(* created before config_init__, and only the unarmed timer holds it back.  *)
ScanAfterInit ==
    Clean /\ ~inited /\ ~staleTick => \A t \in Starts : thr[t] # "scan"

(* On a running PLC a set request does not block for ever: every scan gives *)
(* one token back, so some waiting setter gets in unless the PLC is stopped. *)
SetsProgress ==
    (Clean /\ \E s \in Setters : setter[s] = "waiting")
        ~> \/ \E s \in Setters : setter[s] = "admitted"
           \/ ~is_plc_running
           \/ ~Clean

(* The phase a caller of PlcSupervisor.start and stop sees; the PLC runs    *)
(* from the moment its timer is armed.                                      *)
Phase ==
    IF pc["ctl"] \in StopPc THEN "stopping"
    ELSE IF pc["ctl"] \in StartPc \ {"signal"} THEN "starting"
    ELSE IF pc["ctl"] = "signal" \/ running THEN "running" ELSE "stopped"

ScansInProgress == Cardinality({t \in Starts : thr[t] = "scan"})

Cycle == INSTANCE PlcCycle WITH phase <- Phase, scans <- ScansInProgress

(* The semaphores, the timers and the flag keep the promise of PlcCycle:    *)
(* one scan at a time, none between stop and start, none left when a stop   *)
(* returns, and every start and stop ends.                                  *)
ImplementsCycle == Cycle!Spec

============================================================================
