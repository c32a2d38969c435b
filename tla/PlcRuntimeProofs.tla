------------------------- MODULE PlcRuntimeProofs -------------------------
(* Proofs about PlcRuntime for every set of setters, every set of failing   *)
(* calls and every value of the bounds: undisturbed runs first, then the    *)
(* refinement of PlcCycle, then what disturbances can leave behind.         *)
EXTENDS PlcRuntime, FiniteSetTheorems, TLAPS

(* What start_plc has allocated is counted: a call in progress belongs to   *)
(* a start.                                                                 *)
Counted ==
    /\ pc["ctl"] # "idle" \/ running => starts \in Starts
    /\ starts = 0 => ~inited

Gone(t) == thr[t] \in {"none", "joined"}
Others  == \A t \in Starts : t # starts => Gone(t)
Whole   == live = {"timer", "vars"}

(* The control thread is at rest: either everything runs or nothing is left. *)
AtRest ==
    pc["ctl"] = "idle" =>
        IF running
        THEN /\ is_plc_running /\ Whole /\ inited
             /\ plc_thread = starts /\ armed = {starts}
             /\ Others /\ Alive(starts)
        ELSE /\ ~is_plc_running /\ armed = {}
             /\ \A t \in Starts : Gone(t)

(* start_plc before pthread_create: no thread of an earlier start is left. *)
BeforeCreate ==
    pc["ctl"] \in {"sem_timer", "sem_vars", "create"} =>
        /\ is_plc_running /\ ~running /\ ~inited /\ armed = {}
        /\ \A t \in Starts : Gone(t)
        /\ pc["ctl"] # "sem_timer" => "timer" \in live
        /\ pc["ctl"] = "create" => Whole

(* start_plc after pthread_create: the one thread is that of this start. *)
AfterCreate ==
    pc["ctl"] \in {"config_init", "timer_create", "timer_settime", "signal"} =>
        /\ is_plc_running /\ ~running /\ Whole
        /\ plc_thread = starts /\ Others /\ Alive(starts)
        /\ inited <=> pc["ctl"] # "config_init"
        /\ armed = IF pc["ctl"] = "signal" THEN {starts} ELSE {}

(* stop_plc: the semaphores outlive the thread, the timer outlives both. *)
Stopping ==
    pc["ctl"] \in StopPc =>
        /\ running /\ inited /\ plc_thread = starts /\ armed = {starts}
        /\ Others
        /\ is_plc_running <=> pc["ctl"] = "stop_flag"
        /\ pc["ctl"] = "stop_flag" => Alive(starts)
        /\ pc["ctl"] \in {"stop_flag", "join", "joining"} =>
             Whole /\ thr[starts] \in AlivePc \union {"exited"}
        /\ pc["ctl"] = "joining" => target["ctl"] = starts
        /\ pc["ctl"] \in {"destroy_timer", "destroy_vars", "timer_delete"} =>
             Gone(starts)

(* The semaphore of the timer is empty until the timer of this start has    *)
(* expired, but for notifications of an older timer.                        *)
NoEarlyTick ==
    /\ \A t \in Starts : t > starts => inflight[t] = 0
    /\ pc["ctl"] \in StartPc \ {"signal"} => inflight[starts] = 0
    /\ pc["ctl"] \in {"sem_vars", "create", "config_init"} /\ ~staleTick =>
         sem_plc_timer = 0

CleanInv ==
    /\ pc["sig"] = "idle"
    /\ AtRest /\ BeforeCreate /\ AfterCreate /\ Stopping
    /\ NoEarlyTick /\ ScanAfterInit

(* The inductive invariant. *)
IInv == TypeOK /\ Counted /\ (Clean => CleanInv)

---------------------------------------------------------------------------
(* The types are an inductive invariant by themselves: one step per action, *)
(* one line per variable the action changes.                                *)
LEMMA StepTypeOK == TypeOK /\ Counted /\ [Next]_vars => TypeOK'
<1> SUFFICES ASSUME TypeOK, Counted, [Next]_vars PROVE TypeOK'
  OBVIOUS
<1> USE RuntimeAssumption DEF SemInit, MayStart, flags, sems, threads, timers, calls, history
<1>1. CASE StartCall
  <2>1. is_plc_running' \in BOOLEAN
    BY <1>1 DEF StartCall
  <2>2. starts' \in 0..MaxStarts
    BY <1>1 DEF StartCall, TypeOK
  <2>3. inited' \in BOOLEAN
    BY <1>1 DEF StartCall
  <2>4. pc' \in [Callers -> {"idle"} \union StartPc \union StopPc]
    BY <1>1 DEF StartCall, TypeOK, Goto, Callers, StartPc, StopPc
  <2> QED
    BY <1>1, <2>1, <2>2, <2>3, <2>4, Zenon DEF StartCall, TypeOK
<1>2. CASE InitSemTimer
  <2>1. sem_plc_timer' \in 0..SemValueMax
    BY <1>2 DEF InitSemTimer, TypeOK
  <2>2. live' \subseteq {"timer", "vars"}
    BY <1>2 DEF InitSemTimer, TypeOK
  <2>3. staleTick' \in BOOLEAN
    BY <1>2 DEF InitSemTimer, TypeOK
  <2>4. pc' \in [Callers -> {"idle"} \union StartPc \union StopPc]
    BY <1>2 DEF InitSemTimer, TypeOK, Goto, Callers, StartPc, StopPc
  <2> QED
    BY <1>2, <2>1, <2>2, <2>3, <2>4, Zenon DEF InitSemTimer, TypeOK
<1>3. CASE InitSemVars
  <2>1. sem_plc_vars' \in 0..SemValueMax
    BY <1>3 DEF InitSemVars, TypeOK
  <2>2. live' \subseteq {"timer", "vars"}
    BY <1>3 DEF InitSemVars, TypeOK
  <2>3. pc' \in [Callers -> {"idle"} \union StartPc \union StopPc]
    BY <1>3 DEF InitSemVars, TypeOK, Goto, Callers, StartPc, StopPc
  <2> QED
    BY <1>3, <2>1, <2>2, <2>3, Zenon DEF InitSemVars, TypeOK
<1>4. CASE CreateThread
  <2>1. plc_thread' \in 0..MaxStarts
    BY <1>4 DEF CreateThread, TypeOK
  <2>2. thr' \in [Starts -> {"none", "exited", "joined"} \union AlivePc]
    BY <1>4 DEF CreateThread, TypeOK, AlivePc, Starts
  <2>3. pc' \in [Callers -> {"idle"} \union StartPc \union StopPc]
    BY <1>4 DEF CreateThread, TypeOK, Goto, Callers, StartPc, StopPc
  <2> QED
    BY <1>4, <2>1, <2>2, <2>3, Zenon DEF CreateThread, TypeOK
<1>5. CASE ConfigInit
  <2>1. inited' \in BOOLEAN
    BY <1>5 DEF ConfigInit
  <2>2. pc' \in [Callers -> {"idle"} \union StartPc \union StopPc]
    BY <1>5 DEF ConfigInit, TypeOK, Goto, Callers, StartPc, StopPc
  <2> QED
    BY <1>5, <2>1, <2>2, Zenon DEF ConfigInit, TypeOK
<1>6. CASE TimerCreate
  <2>1. pc' \in [Callers -> {"idle"} \union StartPc \union StopPc]
    BY <1>6 DEF TimerCreate, TypeOK, Goto, Callers, StartPc, StopPc
  <2> QED
    BY <1>6, <2>1, Zenon DEF TimerCreate, TypeOK
<1>7. CASE TimerSettime
  <2>1. armed' \subseteq Starts
    BY <1>7 DEF TimerSettime, TypeOK, Counted, Starts
  <2>2. pc' \in [Callers -> {"idle"} \union StartPc \union StopPc]
    BY <1>7 DEF TimerSettime, TypeOK, Goto, Callers, StartPc, StopPc
  <2> QED
    BY <1>7, <2>1, <2>2, Zenon DEF TimerSettime, TypeOK
<1>8. CASE StartReturn
  <2>1. handlers' \in BOOLEAN
    BY <1>8 DEF StartReturn
  <2>2. running' \in BOOLEAN
    BY <1>8 DEF StartReturn, TypeOK
  <2>3. pc' \in [Callers -> {"idle"} \union StartPc \union StopPc]
    BY <1>8 DEF StartReturn, TypeOK, Goto, Callers, StartPc, StopPc
  <2> QED
    BY <1>8, <2>1, <2>2, <2>3, Zenon DEF StartReturn, TypeOK
<1>9. CASE StopCall
  <2>1. running' \in BOOLEAN
    BY <1>9 DEF StopCall, TypeOK, StopDone
  <2>2. pc' \in [Callers -> {"idle"} \union StartPc \union StopPc]
    BY <1>9 DEF StopCall, TypeOK, Goto, Callers, StartPc, StopPc, StopDone
  <2> QED
    BY <1>9, <2>1, <2>2, Zenon DEF StopCall, TypeOK
<1>10. CASE CatchSignal
  <2>1. signals' \in 0..MaxSignals
    BY <1>10 DEF CatchSignal, TypeOK
  <2>2. pc' \in [Callers -> {"idle"} \union StartPc \union StopPc]
    BY <1>10 DEF CatchSignal, TypeOK, Goto, Callers, StartPc, StopPc
  <2> QED
    BY <1>10, <2>1, <2>2, Zenon DEF CatchSignal, TypeOK
<1>11. ASSUME NEW c \in Callers, LibraryError(c) PROVE TypeOK'
  <2>1. failures' \in Nat
    BY <1>11 DEF LibraryError, TypeOK
  <2>2. pc' \in [Callers -> {"idle"} \union StartPc \union StopPc]
    BY <1>11 DEF LibraryError, TypeOK, Goto, Callers, StartPc, StopPc
  <2> QED
    BY <1>11, <2>1, <2>2, Zenon DEF LibraryError, TypeOK
<1>12. ASSUME NEW c \in Callers, StopFlag(c) PROVE TypeOK'
  <2>1. is_plc_running' \in BOOLEAN
    BY <1>12 DEF StopFlag
  <2>2. pc' \in [Callers -> {"idle"} \union StartPc \union StopPc]
    BY <1>12 DEF StopFlag, TypeOK, Goto, Callers, StartPc, StopPc
  <2> QED
    BY <1>12, <2>1, <2>2, Zenon DEF StopFlag, TypeOK
<1>13. ASSUME NEW c \in Callers, JoinCall(c) PROVE TypeOK'
  <2>1. failures' \in Nat
    BY <1>13 DEF JoinCall, TypeOK
  <2>2. target' \in [Callers -> 0..MaxStarts]
    BY <1>13 DEF JoinCall, TypeOK, Callers
  <2>3. pc' \in [Callers -> {"idle"} \union StartPc \union StopPc]
    BY <1>13 DEF JoinCall, TypeOK, Goto, Callers, StartPc, StopPc
  <2> QED
    BY <1>13, <2>1, <2>2, <2>3, Zenon DEF JoinCall, TypeOK
<1>14. ASSUME NEW c \in Callers, JoinReturn(c) PROVE TypeOK'
  <2>1. thr' \in [Starts -> {"none", "exited", "joined"} \union AlivePc]
    BY <1>14 DEF JoinReturn, TypeOK, AlivePc, Starts
  <2>2. pc' \in [Callers -> {"idle"} \union StartPc \union StopPc]
    BY <1>14 DEF JoinReturn, TypeOK, Goto, Callers, StartPc, StopPc
  <2> QED
    BY <1>14, <2>1, <2>2, Zenon DEF JoinReturn, TypeOK
<1>15. ASSUME NEW c \in Callers, DestroySemTimer(c) PROVE TypeOK'
  <2>1. live' \subseteq {"timer", "vars"}
    BY <1>15 DEF DestroySemTimer, TypeOK
  <2>2. pc' \in [Callers -> {"idle"} \union StartPc \union StopPc]
    BY <1>15 DEF DestroySemTimer, TypeOK, Goto, Callers, StartPc, StopPc
  <2> QED
    BY <1>15, <2>1, <2>2, Zenon DEF DestroySemTimer, TypeOK
<1>16. ASSUME NEW c \in Callers, DestroySemVars(c) PROVE TypeOK'
  <2>1. live' \subseteq {"timer", "vars"}
    BY <1>16 DEF DestroySemVars, TypeOK
  <2>2. pc' \in [Callers -> {"idle"} \union StartPc \union StopPc]
    BY <1>16 DEF DestroySemVars, TypeOK, Goto, Callers, StartPc, StopPc
  <2> QED
    BY <1>16, <2>1, <2>2, Zenon DEF DestroySemVars, TypeOK
<1>17. ASSUME NEW c \in Callers, TimerDelete(c) PROVE TypeOK'
  <2>1. armed' \subseteq Starts
    BY <1>17 DEF TimerDelete, TypeOK, Counted, Starts
  <2>2. running' \in BOOLEAN
    BY <1>17 DEF TimerDelete, TypeOK, StopDone
  <2>3. pc' \in [Callers -> {"idle"} \union StartPc \union StopPc]
    BY <1>17 DEF TimerDelete, TypeOK, Goto, Callers, StartPc, StopPc, StopDone
  <2> QED
    BY <1>17, <2>1, <2>2, <2>3, Zenon DEF TimerDelete, TypeOK
<1>18. ASSUME NEW t \in Starts, TimerExpire(t) PROVE TypeOK'
  <2>1. inflight' \in [Starts -> 0..MaxInflight]
    BY <1>18 DEF TimerExpire, TypeOK, Starts
  <2> QED
    BY <1>18, <2>1, Zenon DEF TimerExpire, TypeOK
<1>19. ASSUME NEW t \in Starts, TimerNotify(t) PROVE TypeOK'
  <2>1. inflight' \in [Starts -> 0..MaxInflight]
    BY <1>19 DEF TimerNotify, TypeOK, Starts
  <2>2. sem_plc_timer' \in 0..SemValueMax
    BY <1>19 DEF TimerNotify, TypeOK, Post
  <2>3. staleTick' \in BOOLEAN
    BY <1>19 DEF TimerNotify, TypeOK
  <2> QED
    BY <1>19, <2>1, <2>2, <2>3, Zenon DEF TimerNotify, TypeOK
<1>20. ASSUME NEW t \in Starts, ThreadCheck(t) PROVE TypeOK'
  <2>1. thr' \in [Starts -> {"none", "exited", "joined"} \union AlivePc]
    BY <1>20 DEF ThreadCheck, TypeOK, AlivePc, Starts
  <2> QED
    BY <1>20, <2>1, Zenon DEF ThreadCheck, TypeOK
<1>21. ASSUME NEW t \in Starts, ThreadPost(t) PROVE TypeOK'
  <2>1. sem_plc_vars' \in 0..SemValueMax
    BY <1>21 DEF ThreadPost, TypeOK, Post
  <2>2. thr' \in [Starts -> {"none", "exited", "joined"} \union AlivePc]
    BY <1>21 DEF ThreadPost, TypeOK, AlivePc, Starts
  <2> QED
    BY <1>21, <2>1, <2>2, Zenon DEF ThreadPost, TypeOK
<1>22. ASSUME NEW t \in Starts, ThreadWait(t) PROVE TypeOK'
  <2>1. sem_plc_timer' \in 0..SemValueMax
    BY <1>22 DEF ThreadWait, TypeOK
  <2>2. thr' \in [Starts -> {"none", "exited", "joined"} \union AlivePc]
    BY <1>22 DEF ThreadWait, TypeOK, AlivePc, Starts
  <2> QED
    BY <1>22, <2>1, <2>2, Zenon DEF ThreadWait, TypeOK
<1>23. ASSUME NEW t \in Starts, ThreadRun(t) PROVE TypeOK'
  <2>1. thr' \in [Starts -> {"none", "exited", "joined"} \union AlivePc]
    BY <1>23 DEF ThreadRun, TypeOK, AlivePc, Starts
  <2> QED
    BY <1>23, <2>1, Zenon DEF ThreadRun, TypeOK
<1>24. ASSUME NEW s \in Setters, SetCall(s) PROVE TypeOK'
  <2>1. setter' \in [Setters -> {"idle", "waiting", "admitted"}]
    BY <1>24 DEF SetCall, TypeOK
  <2> QED
    BY <1>24, <2>1, Zenon DEF SetCall, TypeOK
<1>25. ASSUME NEW s \in Setters, SetAdmit(s) PROVE TypeOK'
  <2>1. sem_plc_vars' \in 0..SemValueMax
    BY <1>25 DEF SetAdmit, TypeOK
  <2>2. setter' \in [Setters -> {"idle", "waiting", "admitted"}]
    BY <1>25 DEF SetAdmit, TypeOK
  <2> QED
    BY <1>25, <2>1, <2>2, Zenon DEF SetAdmit, TypeOK
<1>26. ASSUME NEW s \in Setters, SetWrite(s) PROVE TypeOK'
  <2>1. setter' \in [Setters -> {"idle", "waiting", "admitted"}]
    BY <1>26 DEF SetWrite, TypeOK
  <2> QED
    BY <1>26, <2>1, Zenon DEF SetWrite, TypeOK
<1>27. CASE UNCHANGED vars
  BY <1>27, Zenon DEF vars, TypeOK
<1> QED
  BY <1>1, <1>2, <1>3, <1>4, <1>5, <1>6, <1>7, <1>8, <1>9, <1>10, <1>11,
     <1>12, <1>13, <1>14, <1>15, <1>16, <1>17, <1>18, <1>19, <1>20, <1>21,
     <1>22, <1>23, <1>24, <1>25, <1>26, <1>27
     DEF Next, start_plc, stop_plc, plc_thread_routine_c, set_int_val_by_idx

(* Every step preserves what holds while no call has failed and no signal   *)
(* has come; no step makes an unclean run clean again.                      *)
LEMMA StepCleanInv ==
  TypeOK /\ Counted /\ (Clean => CleanInv) /\ [Next]_vars
    => Counted' /\ (Clean' => CleanInv')
<1> SUFFICES ASSUME TypeOK, Counted, Clean => CleanInv, [Next]_vars
             PROVE  Counted' /\ (Clean' => CleanInv')
  OBVIOUS
<1> USE RuntimeAssumption DEF Starts, Callers, StartPc, StopPc, AlivePc, Goto,
          TypeOK, Counted, Clean, SemInit, MayStart,
          flags, sems, threads, timers, calls, history
<1>1. CASE StartCall
  <2>1. Counted'
    BY <1>1 DEF StartCall
  <2>2. Clean' => CleanInv'
    BY <1>1, SMTT(20) DEF StartCall, CleanInv, AtRest, BeforeCreate,
       AfterCreate, Stopping, NoEarlyTick, ScanAfterInit, Gone, Others, Whole, Alive
  <2> QED
    BY <2>1, <2>2
<1>2. CASE InitSemTimer
  <2>1. Counted'
    BY <1>2 DEF InitSemTimer
  <2>2. Clean' => CleanInv'
    BY <1>2, SMTT(20) DEF InitSemTimer, CleanInv, AtRest, BeforeCreate,
       AfterCreate, Stopping, NoEarlyTick, ScanAfterInit, Gone, Others, Whole, Alive
  <2> QED
    BY <2>1, <2>2
<1>3. CASE InitSemVars
  <2>1. Counted'
    BY <1>3 DEF InitSemVars
  <2>2. ASSUME Clean' PROVE CleanInv'
    <3>1. Clean /\ CleanInv
      BY <1>3, <2>2 DEF InitSemVars
    <3>2. AtRest'
      BY <1>3, <3>1 DEF InitSemVars, CleanInv, AtRest, BeforeCreate,
         AfterCreate, Gone, Others, Whole, Alive
    <3>3. BeforeCreate'
      BY <1>3, <3>1 DEF InitSemVars, CleanInv, BeforeCreate, BeforeCreate,
         AfterCreate, Gone, Others, Whole, Alive
    <3>4. AfterCreate'
      BY <1>3, <3>1 DEF InitSemVars, CleanInv, AfterCreate, BeforeCreate,
         AfterCreate, Gone, Others, Whole, Alive
    <3>5. Stopping'
      BY <1>3, <3>1 DEF InitSemVars, CleanInv, Stopping, BeforeCreate,
         AfterCreate, Gone, Others, Whole, Alive
    <3>6. NoEarlyTick'
      BY <1>3, <3>1 DEF InitSemVars, CleanInv, NoEarlyTick, BeforeCreate,
         AfterCreate, Gone, Others, Whole, Alive
    <3>7. ScanAfterInit'
      BY <1>3, <3>1 DEF InitSemVars, CleanInv, ScanAfterInit, BeforeCreate,
         AfterCreate, Gone, Others, Whole, Alive
    <3> QED
      BY <1>3, <3>1, <3>2, <3>3, <3>4, <3>5, <3>6, <3>7 DEF InitSemVars, CleanInv
  <2> QED
    BY <2>1, <2>2
<1>4. CASE CreateThread
  <2>1. Counted'
    BY <1>4 DEF CreateThread
  <2>2. Clean' => CleanInv'
    BY <1>4, SMTT(20) DEF CreateThread, CleanInv, AtRest, BeforeCreate,
       AfterCreate, Stopping, NoEarlyTick, ScanAfterInit, Gone, Others, Whole, Alive
  <2> QED
    BY <2>1, <2>2
<1>5. CASE ConfigInit
  <2>1. Counted'
    BY <1>5 DEF ConfigInit
  <2>2. Clean' => CleanInv'
    BY <1>5, SMTT(20) DEF ConfigInit, CleanInv, AtRest, BeforeCreate,
       AfterCreate, Stopping, NoEarlyTick, ScanAfterInit, Gone, Others, Whole, Alive
  <2> QED
    BY <2>1, <2>2
<1>6. CASE TimerCreate
  <2>1. Counted'
    BY <1>6 DEF TimerCreate
  <2>2. Clean' => CleanInv'
    BY <1>6, SMTT(20) DEF TimerCreate, CleanInv, AtRest, BeforeCreate,
       AfterCreate, Stopping, NoEarlyTick, ScanAfterInit, Gone, Others, Whole, Alive
  <2> QED
    BY <2>1, <2>2
<1>7. CASE TimerSettime
  <2>1. Counted'
    BY <1>7 DEF TimerSettime
  <2>2. ASSUME Clean' PROVE CleanInv'
    <3>1. Clean /\ CleanInv
      BY <1>7, <2>2 DEF TimerSettime
    <3>2. AtRest'
      BY <1>7, <3>1 DEF TimerSettime, CleanInv, AtRest, BeforeCreate,
         AfterCreate, Gone, Others, Whole, Alive
    <3>3. BeforeCreate'
      BY <1>7, <3>1 DEF TimerSettime, CleanInv, BeforeCreate, BeforeCreate,
         AfterCreate, Gone, Others, Whole, Alive
    <3>4. AfterCreate'
      BY <1>7, <3>1 DEF TimerSettime, CleanInv, AfterCreate, BeforeCreate,
         AfterCreate, Gone, Others, Whole, Alive
    <3>5. Stopping'
      BY <1>7, <3>1 DEF TimerSettime, CleanInv, Stopping, BeforeCreate,
         AfterCreate, Gone, Others, Whole, Alive
    <3>6. NoEarlyTick'
      BY <1>7, <3>1 DEF TimerSettime, CleanInv, NoEarlyTick, BeforeCreate,
         AfterCreate, Gone, Others, Whole, Alive
    <3>7. ScanAfterInit'
      BY <1>7, <3>1 DEF TimerSettime, CleanInv, ScanAfterInit, BeforeCreate,
         AfterCreate, Gone, Others, Whole, Alive
    <3> QED
      BY <1>7, <3>1, <3>2, <3>3, <3>4, <3>5, <3>6, <3>7 DEF TimerSettime, CleanInv
  <2> QED
    BY <2>1, <2>2
<1>8. CASE StartReturn
  <2>1. Counted'
    BY <1>8 DEF StartReturn
  <2>2. Clean' => CleanInv'
    BY <1>8, SMTT(20) DEF StartReturn, CleanInv, AtRest, BeforeCreate,
       AfterCreate, Stopping, NoEarlyTick, ScanAfterInit, Gone, Others, Whole, Alive
  <2> QED
    BY <2>1, <2>2
<1>9. CASE StopCall
  <2>1. Counted'
    BY <1>9 DEF StopCall, StopDone
  <2>2. Clean' => CleanInv'
    BY <1>9, SMTT(20) DEF StopCall, StopDone, CleanInv, AtRest, BeforeCreate,
       AfterCreate, Stopping, NoEarlyTick, ScanAfterInit, Gone, Others, Whole, Alive
  <2> QED
    BY <2>1, <2>2
<1>10. CASE CatchSignal
  <2>1. Counted'
    BY <1>10 DEF CatchSignal
  <2>2. Clean' => CleanInv'
    BY <1>10, SMTT(20) DEF CatchSignal, CleanInv, AtRest, BeforeCreate,
       AfterCreate, Stopping, NoEarlyTick, ScanAfterInit, Gone, Others, Whole, Alive
  <2> QED
    BY <2>1, <2>2
<1>11. ASSUME NEW c \in Callers, LibraryError(c)
     PROVE  Counted' /\ (Clean' => CleanInv')
  <2>1. Counted'
    BY <1>11 DEF LibraryError
  <2>2. Clean' => CleanInv'
    BY <1>11, SMTT(20) DEF LibraryError, CleanInv, AtRest, BeforeCreate,
       AfterCreate, Stopping, NoEarlyTick, ScanAfterInit, Gone, Others, Whole, Alive
  <2> QED
    BY <2>1, <2>2
<1>12. ASSUME NEW c \in Callers, StopFlag(c)
     PROVE  Counted' /\ (Clean' => CleanInv')
  <2>1. Counted'
    BY <1>12 DEF StopFlag
  <2>2. Clean' => CleanInv'
    BY <1>12, SMTT(20) DEF StopFlag, CleanInv, AtRest, BeforeCreate,
       AfterCreate, Stopping, NoEarlyTick, ScanAfterInit, Gone, Others, Whole, Alive
  <2> QED
    BY <2>1, <2>2
<1>13. ASSUME NEW c \in Callers, JoinCall(c)
     PROVE  Counted' /\ (Clean' => CleanInv')
  <2>1. Counted'
    BY <1>13 DEF JoinCall, JoinRefused
  <2>2. Clean' => CleanInv'
    BY <1>13, SMTT(20) DEF JoinCall, JoinRefused, CleanInv, AtRest, BeforeCreate,
       AfterCreate, Stopping, NoEarlyTick, ScanAfterInit, Gone, Others, Whole, Alive
  <2> QED
    BY <2>1, <2>2
<1>14. ASSUME NEW c \in Callers, JoinReturn(c)
     PROVE  Counted' /\ (Clean' => CleanInv')
  <2>1. Counted'
    BY <1>14 DEF JoinReturn
  <2>2. Clean' => CleanInv'
    BY <1>14, SMTT(20) DEF JoinReturn, CleanInv, AtRest, BeforeCreate,
       AfterCreate, Stopping, NoEarlyTick, ScanAfterInit, Gone, Others, Whole, Alive
  <2> QED
    BY <2>1, <2>2
<1>15. ASSUME NEW c \in Callers, DestroySemTimer(c)
     PROVE  Counted' /\ (Clean' => CleanInv')
  <2>1. Counted'
    BY <1>15 DEF DestroySemTimer
  <2>2. Clean' => CleanInv'
    BY <1>15, SMTT(20) DEF DestroySemTimer, CleanInv, AtRest, BeforeCreate,
       AfterCreate, Stopping, NoEarlyTick, ScanAfterInit, Gone, Others, Whole, Alive
  <2> QED
    BY <2>1, <2>2
<1>16. ASSUME NEW c \in Callers, DestroySemVars(c)
     PROVE  Counted' /\ (Clean' => CleanInv')
  <2>1. Counted'
    BY <1>16 DEF DestroySemVars
  <2>2. Clean' => CleanInv'
    BY <1>16, SMTT(20) DEF DestroySemVars, CleanInv, AtRest, BeforeCreate,
       AfterCreate, Stopping, NoEarlyTick, ScanAfterInit, Gone, Others, Whole, Alive
  <2> QED
    BY <2>1, <2>2
<1>17. ASSUME NEW c \in Callers, TimerDelete(c)
     PROVE  Counted' /\ (Clean' => CleanInv')
  <2>1. Counted'
    BY <1>17 DEF TimerDelete, StopDone
  <2>2. Clean' => CleanInv'
    BY <1>17, SMTT(20) DEF TimerDelete, StopDone, CleanInv, AtRest, BeforeCreate,
       AfterCreate, Stopping, NoEarlyTick, ScanAfterInit, Gone, Others, Whole, Alive
  <2> QED
    BY <2>1, <2>2
<1>18. ASSUME NEW t \in Starts, TimerExpire(t)
     PROVE  Counted' /\ (Clean' => CleanInv')
  <2>1. Counted'
    BY <1>18 DEF TimerExpire
  <2>2. Clean' => CleanInv'
    BY <1>18, SMTT(20) DEF TimerExpire, CleanInv, AtRest, BeforeCreate,
       AfterCreate, Stopping, NoEarlyTick, ScanAfterInit, Gone, Others, Whole, Alive
  <2> QED
    BY <2>1, <2>2
<1>19. ASSUME NEW t \in Starts, TimerNotify(t)
     PROVE  Counted' /\ (Clean' => CleanInv')
  <2>1. Counted'
    BY <1>19 DEF TimerNotify, Post
  <2>2. Clean' => CleanInv'
    BY <1>19, SMTT(20) DEF TimerNotify, Post, CleanInv, AtRest, BeforeCreate,
       AfterCreate, Stopping, NoEarlyTick, ScanAfterInit, Gone, Others, Whole, Alive
  <2> QED
    BY <2>1, <2>2
<1>20. ASSUME NEW t \in Starts, ThreadCheck(t)
     PROVE  Counted' /\ (Clean' => CleanInv')
  <2>1. Counted'
    BY <1>20 DEF ThreadCheck
  <2>2. Clean' => CleanInv'
    BY <1>20, SMTT(20) DEF ThreadCheck, CleanInv, AtRest, BeforeCreate,
       AfterCreate, Stopping, NoEarlyTick, ScanAfterInit, Gone, Others, Whole, Alive
  <2> QED
    BY <2>1, <2>2
<1>21. ASSUME NEW t \in Starts, ThreadPost(t)
     PROVE  Counted' /\ (Clean' => CleanInv')
  <2>1. Counted'
    BY <1>21 DEF ThreadPost, Post
  <2>2. Clean' => CleanInv'
    BY <1>21, SMTT(20) DEF ThreadPost, Post, CleanInv, AtRest, BeforeCreate,
       AfterCreate, Stopping, NoEarlyTick, ScanAfterInit, Gone, Others, Whole, Alive
  <2> QED
    BY <2>1, <2>2
<1>22. ASSUME NEW t \in Starts, ThreadWait(t)
     PROVE  Counted' /\ (Clean' => CleanInv')
  <2>1. Counted'
    BY <1>22 DEF ThreadWait
  <2>2. Clean' => CleanInv'
    BY <1>22, SMTT(20) DEF ThreadWait, CleanInv, AtRest, BeforeCreate,
       AfterCreate, Stopping, NoEarlyTick, ScanAfterInit, Gone, Others, Whole, Alive
  <2> QED
    BY <2>1, <2>2
<1>23. ASSUME NEW t \in Starts, ThreadRun(t)
     PROVE  Counted' /\ (Clean' => CleanInv')
  <2>1. Counted'
    BY <1>23 DEF ThreadRun
  <2>2. Clean' => CleanInv'
    BY <1>23, SMTT(20) DEF ThreadRun, CleanInv, AtRest, BeforeCreate,
       AfterCreate, Stopping, NoEarlyTick, ScanAfterInit, Gone, Others, Whole, Alive
  <2> QED
    BY <2>1, <2>2
<1>24. ASSUME NEW s \in Setters, SetCall(s)
     PROVE  Counted' /\ (Clean' => CleanInv')
  <2>1. Counted'
    BY <1>24 DEF SetCall
  <2>2. Clean' => CleanInv'
    BY <1>24, SMTT(20) DEF SetCall, CleanInv, AtRest, BeforeCreate,
       AfterCreate, Stopping, NoEarlyTick, ScanAfterInit, Gone, Others, Whole, Alive
  <2> QED
    BY <2>1, <2>2
<1>25. ASSUME NEW s \in Setters, SetAdmit(s)
     PROVE  Counted' /\ (Clean' => CleanInv')
  <2>1. Counted'
    BY <1>25 DEF SetAdmit
  <2>2. Clean' => CleanInv'
    BY <1>25, SMTT(20) DEF SetAdmit, CleanInv, AtRest, BeforeCreate,
       AfterCreate, Stopping, NoEarlyTick, ScanAfterInit, Gone, Others, Whole, Alive
  <2> QED
    BY <2>1, <2>2
<1>26. ASSUME NEW s \in Setters, SetWrite(s)
     PROVE  Counted' /\ (Clean' => CleanInv')
  <2>1. Counted'
    BY <1>26 DEF SetWrite
  <2>2. Clean' => CleanInv'
    BY <1>26, SMTT(20) DEF SetWrite, CleanInv, AtRest, BeforeCreate,
       AfterCreate, Stopping, NoEarlyTick, ScanAfterInit, Gone, Others, Whole, Alive
  <2> QED
    BY <2>1, <2>2
<1>27. CASE UNCHANGED vars
  BY <1>27, SMTT(20) DEF vars, CleanInv, AtRest, BeforeCreate,
     AfterCreate, Stopping, NoEarlyTick, ScanAfterInit, Gone, Others, Whole, Alive
<1> QED
  BY <1>1, <1>2, <1>3, <1>4, <1>5, <1>6, <1>7, <1>8, <1>9, <1>10, <1>11,
     <1>12, <1>13, <1>14, <1>15, <1>16, <1>17, <1>18, <1>19, <1>20, <1>21,
     <1>22, <1>23, <1>24, <1>25, <1>26, <1>27
     DEF Next, start_plc, stop_plc, plc_thread_routine_c, set_int_val_by_idx

---------------------------------------------------------------------------
(* The initial state satisfies the invariant. *)
LEMMA InitIInv == Init => IInv
<1> SUFFICES ASSUME Init PROVE IInv
  OBVIOUS
<1> USE RuntimeAssumption DEF Init, Starts, Callers
<1>1. TypeOK
  <2>1. /\ 0 \in 0..SemValueMax /\ 0 \in 0..MaxStarts /\ 0 \in 0..MaxSignals
        /\ 0 \in 0..MaxInflight /\ 0 \in Nat
    OBVIOUS
  <2> QED
    BY <2>1, Zenon DEF TypeOK
<1>2. Counted
  BY DEF Counted
<1>3. AtRest /\ BeforeCreate /\ AfterCreate /\ Stopping
  BY DEF AtRest, BeforeCreate, AfterCreate, Stopping, Gone, StopPc
<1>4. NoEarlyTick /\ ScanAfterInit
  BY DEF NoEarlyTick, ScanAfterInit, StartPc
<1> QED
  BY <1>1, <1>2, <1>3, <1>4 DEF IInv, CleanInv

(* IInv is an invariant of the runtime. *)
THEOREM Inductive == Spec => []IInv
<1>1. IInv /\ [Next]_vars => IInv'
  BY StepTypeOK, StepCleanInv DEF IInv
<1> QED
  BY InitIInv, <1>1, PTL DEF Spec

(* Type correctness of every reachable state. *)
THEOREM TypeCorrect == Spec => []TypeOK
<1>1. IInv => TypeOK
  BY DEF IInv
<1> QED
  BY <1>1, Inductive, PTL

(* At most one PLC thread is alive in every run without failed calls and    *)
(* signals, whatever the number of starts, stops and setters.               *)
THEOREM SingleThreadHolds == Spec => []SingleThread
<1>1. IInv => SingleThread
  <2> SUFFICES ASSUME IInv, Clean PROVE \A t, u \in Starts : Alive(t) /\ Alive(u) => t = u
    BY DEF SingleThread
  <2>1. Others \/ \A t \in Starts : Gone(t)
    BY Zenon DEF IInv, CleanInv, TypeOK, AtRest, BeforeCreate, AfterCreate, Stopping,
       Callers, StartPc, StopPc
  <2>2. \A t \in Starts : Gone(t) => ~Alive(t)
    BY DEF Gone, Alive, AlivePc
  <2> QED
    BY <2>1, <2>2 DEF Others
<1> QED
  BY <1>1, Inductive, PTL

(* After a successful stop no thread, armed timer or raised flag is left. *)
THEOREM StoppedIsQuietHolds == Spec => []StoppedIsQuiet
<1>1. IInv => StoppedIsQuiet
  BY DEF IInv, CleanInv, StoppedIsQuiet, AtRest, Gone, Alive, AlivePc
<1> QED
  BY <1>1, Inductive, PTL

(* A PLC thread only touches semaphores that exist. *)
THEOREM NoDeadSemaphoreHolds == Spec => []NoDeadSemaphore
<1>1. IInv => NoDeadSemaphore
  <2> SUFFICES ASSUME IInv, Clean, NEW t \in Starts, thr[t] \in {"post", "wait"}
               PROVE  Whole
    BY DEF NoDeadSemaphore, Whole
  <2>1. ~Gone(t) /\ Alive(t)
    BY DEF Gone, Alive, AlivePc
  <2>2. pc["ctl"] \in {"idle"} \union StartPc \union StopPc
    BY DEF IInv, TypeOK, Callers
  <2> QED
    BY <2>1, <2>2 DEF IInv, CleanInv, AtRest, BeforeCreate, AfterCreate, Stopping,
       Others, StartPc, StopPc
<1> QED
  BY <1>1, Inductive, PTL

(* No scan precedes config_init__ but for the late tick of an older timer. *)
THEOREM ScanAfterInitHolds == Spec => []ScanAfterInit
<1>1. IInv => ScanAfterInit
  BY DEF IInv, CleanInv, ScanAfterInit
<1> QED
  BY <1>1, Inductive, PTL

---------------------------------------------------------------------------
(* PlcRuntime keeps the promise of PlcCycle, step by step, for every number *)
(* of starts and setters, as long as no library call fails and no signal    *)
(* arrives.  That starts and stops end is left to TLC.                      *)

(* Until the timer of the first start is armed nothing has ticked. *)
BeforeFirstTick ==
    starts = 0 \/ (starts = 1 /\ pc["ctl"] \in StartPc \ {"signal"})

FirstTickInv ==
    Clean /\ BeforeFirstTick =>
        sem_plc_timer = 0 /\ \A t \in Starts : inflight[t] = 0

CycleInv == IInv /\ FirstTickInv

---------------------------------------------------------------------------
(* Failures and signals stay counted. *)
LEMMA CleanBefore == TypeOK /\ [Next]_vars /\ Clean' => Clean
<1> USE RuntimeAssumption DEF Starts, Callers, StartPc, StopPc, Goto, flags, sems,
        threads, timers, calls, history
<1> QED
  BY DEF Clean, TypeOK, Next, start_plc, stop_plc, StartCall, InitSemTimer,
     InitSemVars, CreateThread, ConfigInit, TimerCreate, TimerSettime, StartReturn,
     StopCall, CatchSignal, LibraryError, StopFlag, JoinCall, JoinReturn,
     DestroySemTimer, DestroySemVars, TimerDelete, TimerExpire, TimerNotify,
     plc_thread_routine_c, ThreadCheck, ThreadPost, ThreadWait, ThreadRun,
     set_int_val_by_idx, SetCall, SetAdmit, SetWrite, vars

(* No step makes a tick before the first timer is armed. *)
LEMMA StepFirstTick == IInv /\ FirstTickInv /\ [Next]_vars => FirstTickInv'
<1> SUFFICES ASSUME IInv, FirstTickInv, [Next]_vars, Clean', BeforeFirstTick'
             PROVE  sem_plc_timer' = 0 /\ \A t \in Starts : inflight'[t] = 0
  BY DEF FirstTickInv
<1> USE RuntimeAssumption DEF Starts, Callers, StartPc, StopPc, Goto, flags, sems, threads,
        timers, calls, history, BeforeFirstTick
<1>1. TypeOK /\ Counted /\ Clean /\ CleanInv
  BY CleanBefore DEF IInv
<1>2. BeforeFirstTick => /\ sem_plc_timer = 0 /\ \A t \in Starts : inflight[t] = 0
                         /\ armed = {}
  BY <1>1 DEF FirstTickInv, Counted, CleanInv, AtRest, BeforeCreate, AfterCreate
<1> USE <1>1, <1>2 DEF TypeOK, Counted
<1>3. CASE StartCall
  BY <1>3 DEF StartCall, MayStart
<1>4. CASE InitSemTimer
  BY <1>4 DEF InitSemTimer, SemInit
<1>5. CASE InitSemVars
  BY <1>5 DEF InitSemVars, SemInit
<1>6. CASE CreateThread
  BY <1>6 DEF CreateThread
<1>7. CASE ConfigInit
  BY <1>7 DEF ConfigInit
<1>8. CASE TimerCreate
  BY <1>8 DEF TimerCreate
<1>9. CASE TimerSettime
  BY <1>9 DEF TimerSettime
<1>10. CASE StartReturn
  BY <1>10 DEF StartReturn
<1>11. CASE StopCall
  BY <1>11 DEF StopCall, StopDone
<1>12. CASE CatchSignal
  BY <1>12 DEF CatchSignal, CleanInv, Clean
<1>13. ASSUME NEW c \in Callers, StopFlag(c)
     PROVE  sem_plc_timer' = 0 /\ \A u \in Starts : inflight'[u] = 0
  BY <1>13 DEF StopFlag, CleanInv, Clean
<1>14. ASSUME NEW c \in Callers, JoinCall(c)
     PROVE  sem_plc_timer' = 0 /\ \A u \in Starts : inflight'[u] = 0
  BY <1>14 DEF JoinCall, JoinRefused, CleanInv, Clean
<1>15. ASSUME NEW c \in Callers, JoinReturn(c)
     PROVE  sem_plc_timer' = 0 /\ \A u \in Starts : inflight'[u] = 0
  BY <1>15 DEF JoinReturn, CleanInv, Clean
<1>16. ASSUME NEW c \in Callers, DestroySemTimer(c)
     PROVE  sem_plc_timer' = 0 /\ \A u \in Starts : inflight'[u] = 0
  BY <1>16 DEF DestroySemTimer, CleanInv, Clean
<1>17. ASSUME NEW c \in Callers, DestroySemVars(c)
     PROVE  sem_plc_timer' = 0 /\ \A u \in Starts : inflight'[u] = 0
  BY <1>17 DEF DestroySemVars, CleanInv, Clean
<1>18. ASSUME NEW c \in Callers, TimerDelete(c)
     PROVE  sem_plc_timer' = 0 /\ \A u \in Starts : inflight'[u] = 0
  BY <1>18 DEF TimerDelete, StopDone, CleanInv, Clean
<1>19. ASSUME NEW c \in Callers, LibraryError(c)
     PROVE  sem_plc_timer' = 0 /\ \A u \in Starts : inflight'[u] = 0
  BY <1>19 DEF LibraryError, CleanInv, Clean
<1>20. ASSUME NEW t \in Starts, TimerExpire(t)
     PROVE  sem_plc_timer' = 0 /\ \A u \in Starts : inflight'[u] = 0
  BY <1>20 DEF TimerExpire
<1>21. ASSUME NEW t \in Starts, TimerNotify(t)
     PROVE  sem_plc_timer' = 0 /\ \A u \in Starts : inflight'[u] = 0
  BY <1>21 DEF TimerNotify, Post
<1>22. ASSUME NEW t \in Starts, ThreadCheck(t)
     PROVE  sem_plc_timer' = 0 /\ \A u \in Starts : inflight'[u] = 0
  BY <1>22 DEF ThreadCheck
<1>23. ASSUME NEW t \in Starts, ThreadPost(t)
     PROVE  sem_plc_timer' = 0 /\ \A u \in Starts : inflight'[u] = 0
  BY <1>23 DEF ThreadPost, Post
<1>24. ASSUME NEW t \in Starts, ThreadWait(t)
     PROVE  sem_plc_timer' = 0 /\ \A u \in Starts : inflight'[u] = 0
  BY <1>24 DEF ThreadWait
<1>25. ASSUME NEW t \in Starts, ThreadRun(t)
     PROVE  sem_plc_timer' = 0 /\ \A u \in Starts : inflight'[u] = 0
  BY <1>25 DEF ThreadRun
<1>26. ASSUME NEW s \in Setters, SetCall(s)
     PROVE  sem_plc_timer' = 0 /\ \A u \in Starts : inflight'[u] = 0
  BY <1>26 DEF SetCall
<1>27. ASSUME NEW s \in Setters, SetAdmit(s)
     PROVE  sem_plc_timer' = 0 /\ \A u \in Starts : inflight'[u] = 0
  BY <1>27 DEF SetAdmit
<1>28. ASSUME NEW s \in Setters, SetWrite(s)
     PROVE  sem_plc_timer' = 0 /\ \A u \in Starts : inflight'[u] = 0
  BY <1>28 DEF SetWrite
<1>29. CASE UNCHANGED vars
  BY <1>29 DEF vars
<1> QED
  BY <1>3, <1>4, <1>5, <1>6, <1>7, <1>8, <1>9, <1>10, <1>11, <1>12, <1>13, <1>14, <1>15, <1>16, <1>17, <1>18, <1>19, <1>20, <1>21, <1>22, <1>23, <1>24, <1>25, <1>26, <1>27, <1>28, <1>29
     DEF Next, start_plc, stop_plc, plc_thread_routine_c, set_int_val_by_idx

---------------------------------------------------------------------------
(* Only the thread of the last start can be in a scan. *)
Scanning == {t \in Starts : thr[t] = "scan"}

OneScan ==
    /\ ScansInProgress = 0 <=> \A t \in Starts : thr[t] # "scan"
    /\ ScansInProgress = 1 <=> \E t \in Starts : thr[t] = "scan"
    /\ \A t \in Starts : thr[t] = "scan" => t = starts

LEMMA CountScans == IInv /\ Clean => OneScan
<1> SUFFICES ASSUME IInv, Clean PROVE OneScan
  OBVIOUS
<1> USE DEF IInv, CleanInv, TypeOK
<1>1. \A t \in Starts : thr[t] = "scan" => t = starts
  BY DEF AtRest, BeforeCreate, AfterCreate, Stopping, Others, Gone, Callers, StartPc, StopPc
<1>2. Scanning = {} \/ Scanning = {starts}
  BY <1>1 DEF Scanning
<1>3. Cardinality({}) = 0 /\ Cardinality({starts}) = 1
  BY FS_EmptySet, FS_Singleton
<1>4. ScansInProgress = Cardinality(Scanning)
  BY DEF ScansInProgress, Scanning
<1>5. Scanning = {} <=> \A t \in Starts : thr[t] # "scan"
  BY DEF Scanning
<1>6. /\ ScansInProgress = 0 <=> Scanning = {}
      /\ ScansInProgress = 1 <=> Scanning # {}
  BY ONLY <1>2, <1>3, <1>4
<1> QED
  BY ONLY <1>1, <1>5, <1>6 DEF OneScan, Scanning

---------------------------------------------------------------------------
(* Every step is one of PlcCycle's or leaves what it speaks of alone. *)
LEMMA StepCycle ==
  ASSUME CycleInv, [Next]_vars, Clean', IInv'
  PROVE  Cycle!Next \/ UNCHANGED <<Phase, starts, ScansInProgress>>
<1> USE RuntimeAssumption DEF Starts, Callers, StartPc, StopPc, AlivePc, Goto, flags,
        sems, threads, timers, calls, history
<1>1. TypeOK /\ Counted /\ Clean /\ CleanInv /\ FirstTickInv
  BY CleanBefore DEF CycleInv, IInv
<1>2. /\ ScansInProgress = 0 <=> \A t \in Starts : thr[t] # "scan"
      /\ ScansInProgress = 1 <=> \E t \in Starts : thr[t] = "scan"
      /\ \A t \in Starts : thr[t] = "scan" => t = starts
      /\ ScansInProgress' = 0 <=> \A t \in Starts : thr'[t] # "scan"
      /\ ScansInProgress' = 1 <=> \E t \in Starts : thr'[t] = "scan"
  <2>1. OneScan
    BY <1>1, CountScans DEF CycleInv
  <2>2. OneScan'
    <3>1. (IInv /\ Clean => OneScan)'
      BY CountScans, PTL
    <3> QED
      BY <3>1
  <2> QED
    BY <2>1, <2>2 DEF OneScan
<1>3. (\A u \in Starts : thr'[u] = "scan" <=> thr[u] = "scan")
        => ScansInProgress' = ScansInProgress
  BY <1>2, Zenon
<1> USE <1>1 DEF TypeOK, Counted, CleanInv
<1>4. CASE StartCall
  <2>1. Phase = "stopped" /\ Phase' = "starting" /\ starts' = starts + 1
    BY <1>4 DEF StartCall, MayStart, Phase
  <2>2. ScansInProgress' = ScansInProgress
    BY <1>4, <1>3 DEF StartCall
  <2> QED
    BY <2>1, <2>2 DEF Cycle!Next, Cycle!Start
<1>5. CASE InitSemTimer
  <2>1. Phase' = Phase /\ starts' = starts
    BY <1>5 DEF InitSemTimer, SemInit, Phase
  <2>2. \A u \in Starts : thr'[u] = "scan" <=> thr[u] = "scan"
    BY <1>5 DEF InitSemTimer, SemInit
  <2> QED
    BY <1>3, <2>1, <2>2
<1>6. CASE InitSemVars
  <2>1. Phase' = Phase /\ starts' = starts
    BY <1>6 DEF InitSemVars, SemInit, Phase
  <2>2. \A u \in Starts : thr'[u] = "scan" <=> thr[u] = "scan"
    BY <1>6 DEF InitSemVars, SemInit
  <2> QED
    BY <1>3, <2>1, <2>2
<1>7. CASE CreateThread
  <2>1. Phase' = Phase /\ starts' = starts
    BY <1>7 DEF CreateThread, Phase
  <2>2. \A u \in Starts : thr'[u] = "scan" <=> thr[u] = "scan"
    BY <1>7 DEF CreateThread, BeforeCreate, Gone
  <2> QED
    BY <1>3, <2>1, <2>2
<1>8. CASE ConfigInit
  <2>1. Phase' = Phase /\ starts' = starts
    BY <1>8 DEF ConfigInit, Phase
  <2>2. \A u \in Starts : thr'[u] = "scan" <=> thr[u] = "scan"
    BY <1>8 DEF ConfigInit
  <2> QED
    BY <1>3, <2>1, <2>2
<1>9. CASE TimerCreate
  <2>1. Phase' = Phase /\ starts' = starts
    BY <1>9 DEF TimerCreate, Phase
  <2>2. \A u \in Starts : thr'[u] = "scan" <=> thr[u] = "scan"
    BY <1>9 DEF TimerCreate
  <2> QED
    BY <1>3, <2>1, <2>2
<1>10. CASE TimerSettime
  <2>1. Phase = "starting" /\ Phase' = "running" /\ starts' = starts
    BY <1>10 DEF TimerSettime, Phase
  <2>2. ScansInProgress' = ScansInProgress
    BY <1>10, <1>3 DEF TimerSettime
  <2> QED
    BY <2>1, <2>2 DEF Cycle!Next, Cycle!Up
<1>11. CASE StartReturn
  <2>1. Phase' = Phase /\ starts' = starts
    BY <1>11 DEF StartReturn, Phase
  <2>2. \A u \in Starts : thr'[u] = "scan" <=> thr[u] = "scan"
    BY <1>11 DEF StartReturn
  <2> QED
    BY <1>3, <2>1, <2>2
<1>12. CASE StopCall
  <2>1. is_plc_running
    BY <1>12 DEF StopCall, AtRest
  <2>2. Phase = "running" /\ Phase' = "stopping" /\ starts' = starts
    BY <1>12, <2>1 DEF StopCall, Phase
  <2>3. ScansInProgress' = ScansInProgress
    BY <1>12, <1>3 DEF StopCall
  <2> QED
    BY <2>2, <2>3 DEF Cycle!Next, Cycle!Stop
<1>13. CASE CatchSignal
  BY <1>13 DEF CatchSignal, Clean
<1>14. ASSUME NEW c \in Callers, StopFlag(c)
     PROVE  Cycle!Next \/ UNCHANGED <<Phase, starts, ScansInProgress>>
  <2>1. Phase' = Phase /\ starts' = starts
    BY <1>14 DEF StopFlag, Phase
  <2>2. \A u \in Starts : thr'[u] = "scan" <=> thr[u] = "scan"
    BY <1>14 DEF StopFlag
  <2> QED
    BY <1>3, <2>1, <2>2
<1>15. ASSUME NEW c \in Callers, JoinCall(c)
     PROVE  Cycle!Next \/ UNCHANGED <<Phase, starts, ScansInProgress>>
  <2>1. Phase' = Phase /\ starts' = starts
    BY <1>15 DEF JoinCall, JoinRefused, Clean, Phase
  <2>2. \A u \in Starts : thr'[u] = "scan" <=> thr[u] = "scan"
    BY <1>15 DEF JoinCall, JoinRefused, Clean
  <2> QED
    BY <1>3, <2>1, <2>2
<1>16. ASSUME NEW c \in Callers, JoinReturn(c)
     PROVE  Cycle!Next \/ UNCHANGED <<Phase, starts, ScansInProgress>>
  <2>1. Phase' = Phase /\ starts' = starts
    BY <1>16 DEF JoinReturn, Phase
  <2>2. \A u \in Starts : thr'[u] = "scan" <=> thr[u] = "scan"
    BY <1>16 DEF JoinReturn
  <2> QED
    BY <1>3, <2>1, <2>2
<1>17. ASSUME NEW c \in Callers, DestroySemTimer(c)
     PROVE  Cycle!Next \/ UNCHANGED <<Phase, starts, ScansInProgress>>
  <2>1. Phase' = Phase /\ starts' = starts
    BY <1>17 DEF DestroySemTimer, Phase
  <2>2. \A u \in Starts : thr'[u] = "scan" <=> thr[u] = "scan"
    BY <1>17 DEF DestroySemTimer
  <2> QED
    BY <1>3, <2>1, <2>2
<1>18. ASSUME NEW c \in Callers, DestroySemVars(c)
     PROVE  Cycle!Next \/ UNCHANGED <<Phase, starts, ScansInProgress>>
  <2>1. Phase' = Phase /\ starts' = starts
    BY <1>18 DEF DestroySemVars, Phase
  <2>2. \A u \in Starts : thr'[u] = "scan" <=> thr[u] = "scan"
    BY <1>18 DEF DestroySemVars
  <2> QED
    BY <1>3, <2>1, <2>2
<1>19. ASSUME NEW c \in Callers, TimerDelete(c)
     PROVE  Cycle!Next \/ UNCHANGED <<Phase, starts, ScansInProgress>>
  <2>1. c = "ctl"
    BY <1>19 DEF TimerDelete
  <2>2. Phase = "stopping" /\ Phase' = "stopped" /\ starts' = starts
    BY <1>19, <2>1 DEF TimerDelete, StopDone, Phase
  <2>3. \A u \in Starts : thr[u] # "scan"
    BY <1>19, <2>1 DEF TimerDelete, Stopping, Others, Gone
  <2>4. ScansInProgress = 0 /\ ScansInProgress' = ScansInProgress
    BY <1>19, <1>2, <1>3, <2>3 DEF TimerDelete
  <2> QED
    BY <2>2, <2>4 DEF Cycle!Next, Cycle!Stopped
<1>20. ASSUME NEW c \in Callers, LibraryError(c)
     PROVE  Cycle!Next \/ UNCHANGED <<Phase, starts, ScansInProgress>>
  BY <1>20 DEF LibraryError, Clean
<1>21. ASSUME NEW t \in Starts, TimerExpire(t)
     PROVE  Cycle!Next \/ UNCHANGED <<Phase, starts, ScansInProgress>>
  <2>1. Phase' = Phase /\ starts' = starts
    BY <1>21 DEF TimerExpire, Phase
  <2>2. \A u \in Starts : thr'[u] = "scan" <=> thr[u] = "scan"
    BY <1>21 DEF TimerExpire
  <2> QED
    BY <1>3, <2>1, <2>2
<1>22. ASSUME NEW t \in Starts, TimerNotify(t)
     PROVE  Cycle!Next \/ UNCHANGED <<Phase, starts, ScansInProgress>>
  <2>1. Phase' = Phase /\ starts' = starts
    BY <1>22 DEF TimerNotify, Post, Phase
  <2>2. \A u \in Starts : thr'[u] = "scan" <=> thr[u] = "scan"
    BY <1>22 DEF TimerNotify, Post
  <2> QED
    BY <1>3, <2>1, <2>2
<1>23. ASSUME NEW t \in Starts, ThreadCheck(t)
     PROVE  Cycle!Next \/ UNCHANGED <<Phase, starts, ScansInProgress>>
  <2>1. Phase' = Phase /\ starts' = starts
    BY <1>23 DEF ThreadCheck, Phase
  <2>2. \A u \in Starts : thr'[u] = "scan" <=> thr[u] = "scan"
    BY <1>23 DEF ThreadCheck
  <2> QED
    BY <1>3, <2>1, <2>2
<1>24. ASSUME NEW t \in Starts, ThreadPost(t)
     PROVE  Cycle!Next \/ UNCHANGED <<Phase, starts, ScansInProgress>>
  <2>1. Phase' = Phase /\ starts' = starts
    BY <1>24 DEF ThreadPost, Post, Phase
  <2>2. \A u \in Starts : thr'[u] = "scan" <=> thr[u] = "scan"
    BY <1>24 DEF ThreadPost, Post
  <2> QED
    BY <1>3, <2>1, <2>2
<1>25. ASSUME NEW t \in Starts, ThreadWait(t)
     PROVE  Cycle!Next \/ UNCHANGED <<Phase, starts, ScansInProgress>>
  <2>1. Alive(t) /\ ~Gone(t)
    BY <1>25 DEF ThreadWait, Alive, Gone
  <2>2. t = starts
    BY <2>1 DEF AtRest, BeforeCreate, AfterCreate, Stopping, Others
  <2>3. Phase # "stopped"
    BY <2>1 DEF Phase, AtRest
  <2>4. Phase = "starting" => starts > 1
    BY <1>25, <2>2 DEF ThreadWait, Phase, FirstTickInv, BeforeFirstTick
  <2>5. \A u \in Starts : thr[u] # "scan"
    BY <1>25, <1>2, <2>2 DEF ThreadWait
  <2>6. \E u \in Starts : thr'[u] = "scan"
    BY <1>25 DEF ThreadWait
  <2>7. ScansInProgress = 0 /\ ScansInProgress' = 1
    BY <1>2, <2>5, <2>6
  <2>8. Phase' = Phase /\ starts' = starts
    BY <1>25 DEF ThreadWait, Phase
  <2> QED
    BY <2>3, <2>4, <2>7, <2>8 DEF Cycle!Next, Cycle!ScanBegin, Phase
<1>26. ASSUME NEW t \in Starts, ThreadRun(t)
     PROVE  Cycle!Next \/ UNCHANGED <<Phase, starts, ScansInProgress>>
  <2>1. ScansInProgress = 1
    BY <1>26, <1>2 DEF ThreadRun
  <2>2. \A u \in Starts : thr'[u] # "scan"
    BY <1>26, <1>2 DEF ThreadRun
  <2>3. ScansInProgress' = 0
    BY <1>2, <2>2
  <2>4. Phase' = Phase /\ starts' = starts
    BY <1>26 DEF ThreadRun, Phase
  <2> QED
    BY <2>1, <2>3, <2>4 DEF Cycle!Next, Cycle!ScanEnd
<1>27. ASSUME NEW s \in Setters, SetCall(s)
     PROVE  Cycle!Next \/ UNCHANGED <<Phase, starts, ScansInProgress>>
  <2>1. Phase' = Phase /\ starts' = starts
    BY <1>27 DEF SetCall, Phase
  <2>2. \A u \in Starts : thr'[u] = "scan" <=> thr[u] = "scan"
    BY <1>27 DEF SetCall
  <2> QED
    BY <1>3, <2>1, <2>2
<1>28. ASSUME NEW s \in Setters, SetAdmit(s)
     PROVE  Cycle!Next \/ UNCHANGED <<Phase, starts, ScansInProgress>>
  <2>1. Phase' = Phase /\ starts' = starts
    BY <1>28 DEF SetAdmit, Phase
  <2>2. \A u \in Starts : thr'[u] = "scan" <=> thr[u] = "scan"
    BY <1>28 DEF SetAdmit
  <2> QED
    BY <1>3, <2>1, <2>2
<1>29. ASSUME NEW s \in Setters, SetWrite(s)
     PROVE  Cycle!Next \/ UNCHANGED <<Phase, starts, ScansInProgress>>
  <2>1. Phase' = Phase /\ starts' = starts
    BY <1>29 DEF SetWrite, Phase
  <2>2. \A u \in Starts : thr'[u] = "scan" <=> thr[u] = "scan"
    BY <1>29 DEF SetWrite
  <2> QED
    BY <1>3, <2>1, <2>2
<1>30. CASE UNCHANGED vars
  <2>1. Phase' = Phase /\ starts' = starts
    BY <1>30 DEF vars, Phase
  <2>2. \A u \in Starts : thr'[u] = "scan" <=> thr[u] = "scan"
    BY <1>30 DEF vars
  <2> QED
    BY <1>3, <2>1, <2>2
<1> QED
  BY <1>4, <1>5, <1>6, <1>7, <1>8, <1>9, <1>10, <1>11, <1>12, <1>13, <1>14, <1>15, <1>16, <1>17, <1>18, <1>19, <1>20, <1>21, <1>22, <1>23, <1>24, <1>25, <1>26, <1>27, <1>28, <1>29, <1>30
     DEF Next, start_plc, stop_plc, plc_thread_routine_c, set_int_val_by_idx

---------------------------------------------------------------------------
(* The semaphores, the timers and the flag implement one program that is    *)
(* scanned by one thread at a time, only between its start and its stop.    *)
THEOREM CleanImplementsCycle == Spec /\ []Clean => Cycle!SafeSpec
<1>1. Init => CycleInv /\ Cycle!Init
  <2> SUFFICES ASSUME Init PROVE CycleInv /\ Cycle!Init
    OBVIOUS
  <2>1. IInv
    BY InitIInv
  <2>2. FirstTickInv
    BY DEF Init, FirstTickInv, Starts
  <2>3. Phase = "stopped" /\ starts = 0
    BY DEF Init, Phase, StartPc, StopPc, Callers
  <2>4. ScansInProgress = 0
    <3>1. Clean /\ \A t \in Starts : thr[t] # "scan"
      BY DEF Init, Clean
    <3> QED
      BY <2>1, <3>1, CountScans DEF OneScan
  <2> QED
    BY <2>1, <2>2, <2>3, <2>4 DEF CycleInv, Cycle!Init
<1>2. CycleInv /\ [Next]_vars => CycleInv'
  BY StepTypeOK, StepCleanInv, StepFirstTick DEF CycleInv, IInv
<1>3. CycleInv /\ CycleInv' /\ Clean' /\ [Next]_vars
        => [Cycle!Next]_(Cycle!cycleVars)
  BY StepCycle DEF CycleInv, Cycle!cycleVars
<1> QED
  BY <1>1, <1>2, <1>3, PTL DEF Spec, Cycle!SafeSpec

---------------------------------------------------------------------------
(* However many library calls fail and however many signals arrive, and at  *)
(* whatever moments, each of them leaves at most one PLC thread behind.     *)

(* Threads that live on although a later one was created. *)
Orphans == {t \in Starts : Alive(t) /\ t # plc_thread}

(* The threads that live. *)
Living == {t \in Starts : Alive(t)}

Number == Cardinality(Orphans)
Total  == Cardinality(Living)

LastGone == plc_thread \notin Living

Counts ==
    /\ Number \in Nat /\ Total \in Nat
    /\ Total <= Number + 1
    /\ LastGone => Total <= Number

(* The disturbances so far.  A signal counts when its handler clears the    *)
(* flag: before that it has had no effect.                                  *)
Budget == failures + signals - (IF pc["sig"] = "stop_flag" THEN 1 ELSE 0)

Early == {"sem_timer", "sem_vars", "create"}
Late  == {"config_init", "timer_create", "timer_settime", "signal"}

(* Every thread that an earlier start left behind is paid for by a          *)
(* disturbance.                                                             *)
OldPaid == Number <= Budget

(* So is the last one where the runtime would let a new one be created.     *)
StartPaid ==
    pc["ctl"] \in Early \/ (pc["ctl"] = "idle" /\ running = FALSE)
      => Total <= Budget

(* If the flag has been cleared before the thread is created, the thread to *)
(* come is paid for already.                                                *)
ComingPaid == pc["ctl"] \in Early /\ is_plc_running = FALSE => Total < Budget

(* If it has been cleared since, the next stop will join nobody.            *)
StopPaid ==
    is_plc_running = FALSE /\ (pc["ctl"] = "idle" \/ pc["ctl"] \in Late)
      => Total <= Budget

(* The listener's stop joins the last thread, and goes on without it.       *)
JoinsLast ==
    /\ pc["ctl"] = "joining" => target["ctl"] = plc_thread
    /\ pc["ctl"] \in {"destroy_timer", "destroy_vars", "timer_delete"} => LastGone

Paid == OldPaid /\ StartPaid /\ ComingPaid /\ StopPaid /\ JoinsLast

---------------------------------------------------------------------------
(* Counting threads. *)
LEMMA Counting ==
  \A S \in SUBSET Starts :
     /\ Cardinality(S) \in Nat
     /\ \A T \in SUBSET S : Cardinality(T) <= Cardinality(S)
     /\ \A x : \A T \in SUBSET (S \union {x}) : Cardinality(T) <= Cardinality(S) + 1
<1> USE RuntimeAssumption DEF Starts
<1>1. IsFiniteSet(Starts)
  BY FS_Interval
<1> TAKE S \in SUBSET Starts
<1>2. IsFiniteSet(S)
  BY <1>1, FS_Subset
<1>3. Cardinality(S) \in Nat
  BY <1>2, FS_CardinalityType
<1>4. \A T \in SUBSET S : Cardinality(T) <= Cardinality(S)
  BY <1>2, FS_Subset
<1>5. ASSUME NEW x, NEW T \in SUBSET (S \union {x})
      PROVE  Cardinality(T) <= Cardinality(S) + 1
  <2>1. /\ IsFiniteSet(S \union {x})
        /\ Cardinality(S \union {x}) = IF x \in S THEN Cardinality(S) ELSE Cardinality(S) + 1
    BY <1>2, FS_AddElement
  <2>2. Cardinality(T) <= Cardinality(S \union {x}) /\ IsFiniteSet(T)
    BY <2>1, FS_Subset
  <2>3. Cardinality(T) \in Nat
    BY <2>2, FS_CardinalityType
  <2> QED
    BY <1>3, <2>1, <2>2, <2>3
<1> QED
  BY <1>3, <1>4, <1>5

(* Besides the orphans only the last thread lives. *)
LEMMA ThreadsCounted ==
  /\ Number \in Nat /\ Total \in Nat
  /\ Total <= Number + 1
  /\ LastGone => Total <= Number
<1>1. /\ Orphans \in SUBSET Starts /\ Living \in SUBSET (Orphans \union {plc_thread})
      /\ Living \in SUBSET Starts
  BY DEF Orphans, Living
<1>2. LastGone => Living \in SUBSET Orphans
  BY <1>1 DEF LastGone
<1> QED
  BY <1>1, <1>2, Counting DEF Number, Total

(* Only pthread_create makes a thread, and of the thread before it an       *)
(* orphan.                                                                  *)
LEMMA StepNumber ==
  ASSUME TypeOK, [Next]_vars
  PROVE  /\ Counts /\ Number' \in Nat /\ Total' \in Nat
         /\ CreateThread => Number' <= Total /\ Total' <= Total + 1
         /\ ~CreateThread => Number' <= Number /\ Total' <= Total /\ (LastGone => LastGone')
<1>1. /\ Orphans \in SUBSET Starts /\ Orphans' \in SUBSET Starts
      /\ Living \in SUBSET Starts /\ Living' \in SUBSET Starts
  BY DEF Orphans, Living, Starts
<1>2. Number \in Nat /\ Number' \in Nat /\ Total \in Nat /\ Total' \in Nat
  BY <1>1, Counting DEF Number, Total
<1>3. Counts
  BY ThreadsCounted DEF Counts
<1>4. ASSUME CreateThread PROVE Number' <= Total /\ Total' <= Total + 1
  <2>1. /\ plc_thread' = starts
        /\ \A t \in Starts : t # starts => thr'[t] = thr[t]
    BY <1>4 DEF CreateThread, TypeOK, Starts
  <2>2. Orphans' \in SUBSET Living /\ Living' \in SUBSET (Living \union {starts})
    BY <2>1 DEF Orphans, Living, Alive
  <2> QED
    BY <1>1, <2>2, Counting DEF Number, Total
<1>5. ASSUME ~CreateThread
      PROVE  Number' <= Number /\ Total' <= Total /\ (LastGone => LastGone')
  <2>1. /\ plc_thread' = plc_thread
        /\ \A t \in Starts : thr'[t] \in AlivePc => thr[t] \in AlivePc
    <3> USE <1>5 DEF flags, sems, threads, timers, calls, history, TypeOK, AlivePc
    <3>1. ASSUME NEW c \in Callers, JoinReturn(c)
          PROVE  plc_thread' = plc_thread /\ \A t \in Starts : thr'[t] \in AlivePc => thr[t] \in AlivePc
      BY <3>1 DEF JoinReturn
    <3>2. ASSUME NEW u \in Starts, ThreadCheck(u)
          PROVE  plc_thread' = plc_thread /\ \A t \in Starts : thr'[t] \in AlivePc => thr[t] \in AlivePc
      BY <3>2 DEF ThreadCheck
    <3>3. ASSUME NEW u \in Starts, ThreadPost(u)
          PROVE  plc_thread' = plc_thread /\ \A t \in Starts : thr'[t] \in AlivePc => thr[t] \in AlivePc
      BY <3>3 DEF ThreadPost
    <3>4. ASSUME NEW u \in Starts, ThreadWait(u)
          PROVE  plc_thread' = plc_thread /\ \A t \in Starts : thr'[t] \in AlivePc => thr[t] \in AlivePc
      BY <3>4 DEF ThreadWait
    <3>5. ASSUME NEW u \in Starts, ThreadRun(u)
          PROVE  plc_thread' = plc_thread /\ \A t \in Starts : thr'[t] \in AlivePc => thr[t] \in AlivePc
      BY <3>5 DEF ThreadRun
    <3>6. CASE plc_thread' = plc_thread /\ thr' = thr
      BY <3>6
    <3> QED
      BY <3>1, <3>2, <3>3, <3>4, <3>5, <3>6
         DEF Next, start_plc, stop_plc, plc_thread_routine_c,
             set_int_val_by_idx, vars, StartCall, InitSemTimer, InitSemVars,
             ConfigInit, TimerCreate, TimerSettime, StartReturn, StopCall,
             CatchSignal, StopFlag, JoinCall, DestroySemTimer, DestroySemVars,
             TimerDelete, LibraryError, TimerExpire, TimerNotify, SetCall, SetAdmit,
             SetWrite
  <2>2. Orphans' \in SUBSET Orphans /\ Living' \in SUBSET Living
    BY <2>1 DEF Orphans, Living, Alive
  <2>3. Number' <= Number /\ Total' <= Total
    BY <1>1, <2>2, Counting DEF Number, Total
  <2>4. LastGone => LastGone'
    BY <2>1, <2>2 DEF LastGone
  <2> QED
    BY <2>3, <2>4
<1> QED
  BY <1>2, <1>3, <1>4, <1>5

(* A step that leaves the listener's call and the flags alone. *)
LEMMA Quiet ==
  ASSUME Paid, Counts, Number' \in Nat, Total' \in Nat,
         Number' <= Number, Total' <= Total, LastGone => LastGone',
         Budget \in Int, Budget' \in Int, Budget <= Budget',
         pc'["ctl"] = pc["ctl"], target'["ctl"] = target["ctl"],
         UNCHANGED <<running, plc_thread>>,
         is_plc_running' = is_plc_running
  PROVE  Paid'
<1> USE DEF Counts, Early, Late
<1>1. OldPaid'
  BY DEF Paid, OldPaid
<1>2. Total <= Budget => Total' <= Budget'
  OBVIOUS
<1>3. StartPaid'
  BY <1>2 DEF Paid, StartPaid
<1>4. Total < Budget => Total' < Budget'
  OBVIOUS
<1>5. ComingPaid'
  BY <1>4 DEF Paid, ComingPaid
<1>6. StopPaid'
  BY <1>2 DEF Paid, StopPaid
<1>8. JoinsLast'
  BY DEF Paid, JoinsLast
<1> QED
  BY <1>1, <1>3, <1>5, <1>6, <1>8 DEF Paid

(* Every step pays for the threads it leaves behind. *)
LEMMA StepPaid ==
  ASSUME TypeOK, Paid, [Next]_vars
  PROVE  Paid'
<1> USE DEF Callers, StartPc, StopPc, Early, Late, Goto, flags, sems, threads, timers,
        calls, history
<1> USE DEF OldPaid, StartPaid, ComingPaid, StopPaid, JoinsLast
<1>1. /\ Counts /\ Number' \in Nat /\ Total' \in Nat
      /\ CreateThread => Number' <= Total /\ Total' <= Total + 1
      /\ ~CreateThread => Number' <= Number /\ Total' <= Total /\ (LastGone => LastGone')
  BY StepNumber
<1>2. /\ failures \in Nat /\ signals \in Nat
      /\ pc \in [Callers -> {"idle"} \union StartPc \union StopPc]
      /\ target \in [Callers -> 0..MaxStarts]
      /\ running \in BOOLEAN /\ is_plc_running \in BOOLEAN
  BY DEF TypeOK
<1>3. CASE StartCall
  <2>1. Budget \in Int /\ Budget' \in Int /\ Budget' = Budget
    BY <1>2, <1>3 DEF StartCall, MayStart, Budget
  <2>2. ~CreateThread
    BY <1>2, <1>3 DEF StartCall, MayStart, CreateThread
  <2>3. Number' <= Number /\ Total' <= Total /\ (LastGone => LastGone')
    BY <1>1, <2>2
  <2>4. /\ UNCHANGED <<plc_thread, target, running>>
        /\ is_plc_running' = TRUE /\ running = FALSE
        /\ pc["ctl"] = "idle" /\ pc'["ctl"] = "sem_timer"
    BY <1>2, <1>3 DEF StartCall, MayStart
  <2>5. OldPaid'
    BY <1>1, <2>1, <2>3, <2>4 DEF Counts, Paid
  <2>6. StartPaid'
    BY <1>1, <2>1, <2>3, <2>4 DEF Counts, Paid
  <2>7. ComingPaid'
    BY <1>1, <2>1, <2>3, <2>4 DEF Counts, Paid
  <2>8. StopPaid'
    BY <1>1, <2>1, <2>3, <2>4 DEF Counts, Paid
  <2>9. JoinsLast'
    BY <1>1, <2>1, <2>3, <2>4 DEF Counts, Paid
  <2> QED
    BY <2>5, <2>6, <2>7, <2>8, <2>9 DEF Paid
<1>4. CASE InitSemTimer
  <2>1. Budget \in Int /\ Budget' \in Int /\ Budget' = Budget
    BY <1>2, <1>4 DEF InitSemTimer, SemInit, Budget
  <2>2. ~CreateThread
    BY <1>2, <1>4 DEF InitSemTimer, SemInit, CreateThread
  <2>3. Number' <= Number /\ Total' <= Total /\ (LastGone => LastGone')
    BY <1>1, <2>2
  <2>4. /\ UNCHANGED <<plc_thread, target, running, is_plc_running>>
        /\ pc["ctl"] = "sem_timer" /\ pc'["ctl"] = "sem_vars"
    BY <1>2, <1>4 DEF InitSemTimer, SemInit
  <2>5. Total < Budget => Total' < Budget'
    BY <1>1, <2>1, <2>3, <2>4 DEF Counts
  <2>6. OldPaid'
    BY <1>1, <2>1, <2>3, <2>4, <2>5 DEF Counts, Paid
  <2>7. StartPaid'
    BY <1>1, <2>1, <2>3, <2>4, <2>5 DEF Counts, Paid
  <2>8. ComingPaid'
    BY <1>1, <2>1, <2>3, <2>4, <2>5 DEF Counts, Paid
  <2>9. StopPaid'
    BY <1>1, <2>1, <2>3, <2>4, <2>5 DEF Counts, Paid
  <2>10. JoinsLast'
    BY <1>1, <2>1, <2>3, <2>4, <2>5 DEF Counts, Paid
  <2> QED
    BY <2>6, <2>7, <2>8, <2>9, <2>10 DEF Paid
<1>5. CASE InitSemVars
  <2>1. Budget \in Int /\ Budget' \in Int /\ Budget' = Budget
    BY <1>2, <1>5 DEF InitSemVars, SemInit, Budget
  <2>2. ~CreateThread
    BY <1>2, <1>5 DEF InitSemVars, SemInit, CreateThread
  <2>3. Number' <= Number /\ Total' <= Total /\ (LastGone => LastGone')
    BY <1>1, <2>2
  <2>4. /\ UNCHANGED <<plc_thread, target, running, is_plc_running>>
        /\ pc["ctl"] = "sem_vars" /\ pc'["ctl"] = "create"
    BY <1>2, <1>5 DEF InitSemVars, SemInit
  <2>5. Total < Budget => Total' < Budget'
    BY <1>1, <2>1, <2>3, <2>4 DEF Counts
  <2>6. OldPaid'
    BY <1>1, <2>1, <2>3, <2>4, <2>5 DEF Counts, Paid
  <2>7. StartPaid'
    BY <1>1, <2>1, <2>3, <2>4, <2>5 DEF Counts, Paid
  <2>8. ComingPaid'
    BY <1>1, <2>1, <2>3, <2>4, <2>5 DEF Counts, Paid
  <2>9. StopPaid'
    BY <1>1, <2>1, <2>3, <2>4, <2>5 DEF Counts, Paid
  <2>10. JoinsLast'
    BY <1>1, <2>1, <2>3, <2>4, <2>5 DEF Counts, Paid
  <2> QED
    BY <2>6, <2>7, <2>8, <2>9, <2>10 DEF Paid
<1>6. CASE CreateThread
  <2>1. Budget \in Int /\ Budget' \in Int /\ Budget' = Budget
    BY <1>2, <1>6 DEF CreateThread, Budget
  <2>4. /\ UNCHANGED <<target, running, is_plc_running>>
        /\ pc["ctl"] = "create" /\ pc'["ctl"] = "config_init"
    BY <1>2, <1>6 DEF CreateThread
  <2>5. Total < Budget => Total' <= Budget'
    BY <1>1, <1>6, <2>1, <2>4 DEF Counts
  <2>6. OldPaid'
    BY <1>1, <1>6, <2>1, <2>4, <2>5 DEF Counts, Paid
  <2>7. StartPaid'
    BY <1>1, <1>6, <2>1, <2>4, <2>5 DEF Counts, Paid
  <2>8. ComingPaid'
    BY <1>1, <1>6, <2>1, <2>4, <2>5 DEF Counts, Paid
  <2>9. StopPaid'
    BY <1>1, <1>6, <2>1, <2>4, <2>5 DEF Counts, Paid
  <2>10. JoinsLast'
    BY <1>1, <1>6, <2>1, <2>4, <2>5 DEF Counts, Paid
  <2> QED
    BY <2>6, <2>7, <2>8, <2>9, <2>10 DEF Paid
<1>7. CASE ConfigInit
  <2>1. Budget \in Int /\ Budget' \in Int /\ Budget' = Budget
    BY <1>2, <1>7 DEF ConfigInit, Budget
  <2>2. ~CreateThread
    BY <1>2, <1>7 DEF ConfigInit, CreateThread
  <2>3. Number' <= Number /\ Total' <= Total /\ (LastGone => LastGone')
    BY <1>1, <2>2
  <2>4. /\ UNCHANGED <<plc_thread, target, running, is_plc_running>>
        /\ pc["ctl"] = "config_init" /\ pc'["ctl"] = "timer_create"
    BY <1>2, <1>7 DEF ConfigInit
  <2>5. OldPaid'
    BY <1>1, <2>1, <2>3, <2>4 DEF Counts, Paid
  <2>6. StartPaid'
    BY <1>1, <2>1, <2>3, <2>4 DEF Counts, Paid
  <2>7. ComingPaid'
    BY <1>1, <2>1, <2>3, <2>4 DEF Counts, Paid
  <2>8. StopPaid'
    BY <1>1, <2>1, <2>3, <2>4 DEF Counts, Paid
  <2>9. JoinsLast'
    BY <1>1, <2>1, <2>3, <2>4 DEF Counts, Paid
  <2> QED
    BY <2>5, <2>6, <2>7, <2>8, <2>9 DEF Paid
<1>8. CASE TimerCreate
  <2>1. Budget \in Int /\ Budget' \in Int /\ Budget' = Budget
    BY <1>2, <1>8 DEF TimerCreate, Budget
  <2>2. ~CreateThread
    BY <1>2, <1>8 DEF TimerCreate, CreateThread
  <2>3. Number' <= Number /\ Total' <= Total /\ (LastGone => LastGone')
    BY <1>1, <2>2
  <2>4. /\ UNCHANGED <<plc_thread, target, running, is_plc_running>>
        /\ pc["ctl"] = "timer_create" /\ pc'["ctl"] = "timer_settime"
    BY <1>2, <1>8 DEF TimerCreate
  <2>5. OldPaid'
    BY <1>1, <2>1, <2>3, <2>4 DEF Counts, Paid
  <2>6. StartPaid'
    BY <1>1, <2>1, <2>3, <2>4 DEF Counts, Paid
  <2>7. ComingPaid'
    BY <1>1, <2>1, <2>3, <2>4 DEF Counts, Paid
  <2>8. StopPaid'
    BY <1>1, <2>1, <2>3, <2>4 DEF Counts, Paid
  <2>9. JoinsLast'
    BY <1>1, <2>1, <2>3, <2>4 DEF Counts, Paid
  <2> QED
    BY <2>5, <2>6, <2>7, <2>8, <2>9 DEF Paid
<1>9. CASE TimerSettime
  <2>1. Budget \in Int /\ Budget' \in Int /\ Budget' = Budget
    BY <1>2, <1>9 DEF TimerSettime, Budget
  <2>2. ~CreateThread
    BY <1>2, <1>9 DEF TimerSettime, CreateThread
  <2>3. Number' <= Number /\ Total' <= Total /\ (LastGone => LastGone')
    BY <1>1, <2>2
  <2>4. /\ UNCHANGED <<plc_thread, target, running, is_plc_running>>
        /\ pc["ctl"] = "timer_settime" /\ pc'["ctl"] = "signal"
    BY <1>2, <1>9 DEF TimerSettime
  <2>5. OldPaid'
    BY <1>1, <2>1, <2>3, <2>4 DEF Counts, Paid
  <2>6. StartPaid'
    BY <1>1, <2>1, <2>3, <2>4 DEF Counts, Paid
  <2>7. ComingPaid'
    BY <1>1, <2>1, <2>3, <2>4 DEF Counts, Paid
  <2>8. StopPaid'
    BY <1>1, <2>1, <2>3, <2>4 DEF Counts, Paid
  <2>9. JoinsLast'
    BY <1>1, <2>1, <2>3, <2>4 DEF Counts, Paid
  <2> QED
    BY <2>5, <2>6, <2>7, <2>8, <2>9 DEF Paid
<1>10. CASE StartReturn
  <2>1. Budget \in Int /\ Budget' \in Int /\ Budget' = Budget
    BY <1>2, <1>10 DEF StartReturn, Budget
  <2>2. ~CreateThread
    BY <1>2, <1>10 DEF StartReturn, CreateThread
  <2>3. Number' <= Number /\ Total' <= Total /\ (LastGone => LastGone')
    BY <1>1, <2>2
  <2>4. /\ UNCHANGED <<plc_thread, target, is_plc_running>>
        /\ running' = TRUE
        /\ pc["ctl"] = "signal" /\ pc'["ctl"] = "idle"
    BY <1>2, <1>10 DEF StartReturn
  <2>5. OldPaid'
    BY <1>1, <2>1, <2>3, <2>4 DEF Counts, Paid
  <2>6. StartPaid'
    BY <1>1, <2>1, <2>3, <2>4 DEF Counts, Paid
  <2>7. ComingPaid'
    BY <1>1, <2>1, <2>3, <2>4 DEF Counts, Paid
  <2>8. StopPaid'
    BY <1>1, <2>1, <2>3, <2>4 DEF Counts, Paid
  <2>9. JoinsLast'
    BY <1>1, <2>1, <2>3, <2>4 DEF Counts, Paid
  <2> QED
    BY <2>5, <2>6, <2>7, <2>8, <2>9 DEF Paid
<1>11. CASE StopCall
  <2>0. UNCHANGED <<failures, signals, pc["sig"]>>
    BY <1>2, <1>11 DEF StopCall, StopDone
  <2>1. Budget \in Int /\ Budget' \in Int /\ Budget' = Budget
    BY <2>0, <1>2, <1>11 DEF StopCall, StopDone, Budget
  <2>2. ~CreateThread
    BY <1>2, <1>11 DEF StopCall, StopDone, CreateThread
  <2>3. Number' <= Number /\ Total' <= Total /\ (LastGone => LastGone')
    BY <1>1, <2>2
  <2>4. /\ UNCHANGED <<plc_thread, target, is_plc_running>>
        /\ pc["ctl"] = "idle"
        /\ \/ pc'["ctl"] = "stop_flag"
           \/ is_plc_running = FALSE /\ pc'["ctl"] = "idle"
    BY <1>2, <1>11 DEF StopCall, StopDone
  <2>5. OldPaid'
    BY <1>1, <2>1, <2>3, <2>4 DEF Counts, Paid
  <2>6. StartPaid'
    BY <1>1, <2>1, <2>3, <2>4 DEF Counts, Paid
  <2>7. ComingPaid'
    BY <1>1, <2>1, <2>3, <2>4 DEF Counts, Paid
  <2>8. StopPaid'
    BY <1>1, <2>1, <2>3, <2>4 DEF Counts, Paid
  <2>9. JoinsLast'
    BY <1>1, <2>1, <2>3, <2>4 DEF Counts, Paid
  <2> QED
    BY <2>5, <2>6, <2>7, <2>8, <2>9 DEF Paid
<1>12. CASE CatchSignal
  <2>1. Budget \in Int /\ Budget' \in Int /\ Budget' >= Budget
    BY <1>2, <1>12 DEF CatchSignal, Budget
  <2>2. ~CreateThread
    BY <1>2, <1>12 DEF CatchSignal, CreateThread
  <2>3. Number' <= Number /\ Total' <= Total /\ (LastGone => LastGone')
    BY <1>1, <2>2
  <2>4. /\ UNCHANGED <<plc_thread, target, running, is_plc_running>>
        /\ UNCHANGED pc["ctl"]
    BY <1>2, <1>12 DEF CatchSignal
  <2> QED
    BY <1>1, <2>1, <2>3, <2>4, Quiet
<1>13. ASSUME NEW c \in Callers, StopFlag(c) PROVE Paid'
  <2>1. Budget \in Int /\ Budget' \in Int /\ Budget' = IF c = "sig" THEN Budget + 1 ELSE Budget
    BY <1>2, <1>13 DEF StopFlag, Budget
  <2>2. ~CreateThread
    BY <1>2, <1>13 DEF StopFlag, CreateThread
  <2>3. Number' <= Number /\ Total' <= Total /\ (LastGone => LastGone')
    BY <1>1, <2>2
  <2>4. /\ UNCHANGED <<plc_thread, target, running>>
        /\ is_plc_running' = FALSE
        /\ IF c = "ctl" THEN pc["ctl"] = "stop_flag" /\ pc'["ctl"] = "join" ELSE UNCHANGED pc["ctl"]
    BY <1>2, <1>13 DEF StopFlag
  <2>5. CASE c = "ctl"
    <3>1. OldPaid'
      BY <1>1, <2>1, <2>3, <2>4, <2>5 DEF Counts, Paid
    <3>2. StartPaid'
      BY <1>1, <2>1, <2>3, <2>4, <2>5 DEF Counts, Paid
    <3>3. ComingPaid'
      BY <1>1, <2>1, <2>3, <2>4, <2>5 DEF Counts, Paid
    <3>4. StopPaid'
      BY <1>1, <2>1, <2>3, <2>4, <2>5 DEF Counts, Paid
    <3>5. JoinsLast'
      BY <1>1, <2>1, <2>3, <2>4, <2>5 DEF Counts, Paid
    <3> QED
      BY <3>1, <3>2, <3>3, <3>4, <3>5 DEF Paid
  <2>6. CASE c = "sig"
    <3>1. Total <= Budget => Total' < Budget'
      BY <1>1, <2>1, <2>3, <2>4, <2>6 DEF Counts
    <3>2. OldPaid'
      BY <1>1, <2>1, <2>3, <2>4, <2>6, <3>1 DEF Counts, Paid
    <3>3. StartPaid'
      BY <1>1, <2>1, <2>3, <2>4, <2>6, <3>1 DEF Counts, Paid
    <3>4. ComingPaid'
      BY <1>1, <2>1, <2>3, <2>4, <2>6, <3>1 DEF Counts, Paid
    <3>5. StopPaid'
      BY <1>1, <2>1, <2>3, <2>4, <2>6, <3>1 DEF Counts, Paid
    <3>6. JoinsLast'
      BY <1>1, <2>1, <2>3, <2>4, <2>6, <3>1 DEF Counts, Paid
    <3> QED
      BY <3>2, <3>3, <3>4, <3>5, <3>6 DEF Paid
  <2> QED
    BY <2>5, <2>6
<1>14. ASSUME NEW c \in Callers, JoinCall(c) PROVE Paid'
  <2>1. Budget \in Int /\ Budget' \in Int /\ Budget' >= Budget /\ (pc'[c] = "idle" => Budget' = Budget + 1)
    BY <1>2, <1>14 DEF JoinCall, JoinRefused, Budget
  <2>2. ~CreateThread
    BY <1>2, <1>14 DEF JoinCall, JoinRefused, CreateThread
  <2>3. Number' <= Number /\ Total' <= Total /\ (LastGone => LastGone')
    BY <1>1, <2>2
  <2>4. /\ UNCHANGED <<plc_thread, running, is_plc_running>>
        /\ c = "ctl" => \/ pc'["ctl"] = "joining" /\ target'["ctl"] = plc_thread
                        \/ pc'["ctl"] = "idle"
        /\ c = "sig" => UNCHANGED <<pc["ctl"], target["ctl"]>>
    BY <1>2, <1>14 DEF JoinCall, JoinRefused
  <2>5. CASE c = "sig"
    BY <1>1, <2>1, <2>3, <2>4, <2>5, Quiet
  <2>6. CASE c = "ctl"
    <3>1. OldPaid'
      BY <1>1, <2>1, <2>3, <2>4, <2>6 DEF Counts, Paid
    <3>2. StartPaid'
      BY <1>1, <2>1, <2>3, <2>4, <2>6 DEF Counts, Paid
    <3>3. ComingPaid'
      BY <1>1, <2>1, <2>3, <2>4, <2>6 DEF Counts, Paid
    <3>4. StopPaid'
      BY <1>1, <2>1, <2>3, <2>4, <2>6 DEF Counts, Paid
    <3>5. JoinsLast'
      BY <1>1, <2>1, <2>3, <2>4, <2>6 DEF Counts, Paid
    <3> QED
      BY <3>1, <3>2, <3>3, <3>4, <3>5 DEF Paid
  <2> QED
    BY <2>5, <2>6
<1>15. ASSUME NEW c \in Callers, JoinReturn(c) PROVE Paid'
  <2>1. Budget \in Int /\ Budget' \in Int /\ Budget' = Budget
    BY <1>2, <1>15 DEF JoinReturn, Budget
  <2>2. ~CreateThread
    BY <1>2, <1>15 DEF JoinReturn, CreateThread
  <2>3. Number' <= Number /\ Total' <= Total /\ (LastGone => LastGone')
    BY <1>1, <2>2
  <2>4. /\ UNCHANGED <<plc_thread, target, running, is_plc_running>>
        /\ IF c = "ctl" THEN pc["ctl"] = "joining" /\ pc'["ctl"] = "destroy_timer" ELSE UNCHANGED pc["ctl"]
    BY <1>2, <1>15 DEF JoinReturn
  <2>5. CASE c = "sig"
    BY <1>1, <2>1, <2>3, <2>4, <2>5, Quiet
  <2>6. CASE c = "ctl"
    <3>0. LastGone'
      BY <1>2, <1>15, <2>6 DEF JoinReturn, Paid, JoinsLast, LastGone, Living, Alive, AlivePc, TypeOK
    <3>1. OldPaid'
      BY <1>1, <2>1, <2>3, <2>4, <2>6, <3>0 DEF Counts, Paid
    <3>2. StartPaid'
      BY <1>1, <2>1, <2>3, <2>4, <2>6, <3>0 DEF Counts, Paid
    <3>3. ComingPaid'
      BY <1>1, <2>1, <2>3, <2>4, <2>6, <3>0 DEF Counts, Paid
    <3>4. StopPaid'
      BY <1>1, <2>1, <2>3, <2>4, <2>6, <3>0 DEF Counts, Paid
    <3>5. JoinsLast'
      BY <1>1, <2>1, <2>3, <2>4, <2>6, <3>0 DEF Counts, Paid
    <3> QED
      BY <3>1, <3>2, <3>3, <3>4, <3>5 DEF Paid
  <2> QED
    BY <2>5, <2>6
<1>16. ASSUME NEW c \in Callers, DestroySemTimer(c) PROVE Paid'
  <2>1. Budget \in Int /\ Budget' \in Int /\ Budget' = Budget
    BY <1>2, <1>16 DEF DestroySemTimer, Budget
  <2>2. ~CreateThread
    BY <1>2, <1>16 DEF DestroySemTimer, CreateThread
  <2>3. Number' <= Number /\ Total' <= Total /\ (LastGone => LastGone')
    BY <1>1, <2>2
  <2>4. /\ UNCHANGED <<plc_thread, target, running, is_plc_running>>
        /\ IF c = "ctl" THEN pc["ctl"] = "destroy_timer" /\ pc'["ctl"] = "destroy_vars" ELSE UNCHANGED pc["ctl"]
    BY <1>2, <1>16 DEF DestroySemTimer
  <2>5. CASE c = "sig"
    BY <1>1, <2>1, <2>3, <2>4, <2>5, Quiet
  <2>6. CASE c = "ctl"
    <3>1. OldPaid'
      BY <1>1, <2>1, <2>3, <2>4, <2>6 DEF Counts, Paid
    <3>2. StartPaid'
      BY <1>1, <2>1, <2>3, <2>4, <2>6 DEF Counts, Paid
    <3>3. ComingPaid'
      BY <1>1, <2>1, <2>3, <2>4, <2>6 DEF Counts, Paid
    <3>4. StopPaid'
      BY <1>1, <2>1, <2>3, <2>4, <2>6 DEF Counts, Paid
    <3>5. JoinsLast'
      BY <1>1, <2>1, <2>3, <2>4, <2>6 DEF Counts, Paid
    <3> QED
      BY <3>1, <3>2, <3>3, <3>4, <3>5 DEF Paid
  <2> QED
    BY <2>5, <2>6
<1>17. ASSUME NEW c \in Callers, DestroySemVars(c) PROVE Paid'
  <2>1. Budget \in Int /\ Budget' \in Int /\ Budget' = Budget
    BY <1>2, <1>17 DEF DestroySemVars, Budget
  <2>2. ~CreateThread
    BY <1>2, <1>17 DEF DestroySemVars, CreateThread
  <2>3. Number' <= Number /\ Total' <= Total /\ (LastGone => LastGone')
    BY <1>1, <2>2
  <2>4. /\ UNCHANGED <<plc_thread, target, running, is_plc_running>>
        /\ IF c = "ctl" THEN pc["ctl"] = "destroy_vars" /\ pc'["ctl"] = "timer_delete" ELSE UNCHANGED pc["ctl"]
    BY <1>2, <1>17 DEF DestroySemVars
  <2>5. CASE c = "sig"
    BY <1>1, <2>1, <2>3, <2>4, <2>5, Quiet
  <2>6. CASE c = "ctl"
    <3>1. OldPaid'
      BY <1>1, <2>1, <2>3, <2>4, <2>6 DEF Counts, Paid
    <3>2. StartPaid'
      BY <1>1, <2>1, <2>3, <2>4, <2>6 DEF Counts, Paid
    <3>3. ComingPaid'
      BY <1>1, <2>1, <2>3, <2>4, <2>6 DEF Counts, Paid
    <3>4. StopPaid'
      BY <1>1, <2>1, <2>3, <2>4, <2>6 DEF Counts, Paid
    <3>5. JoinsLast'
      BY <1>1, <2>1, <2>3, <2>4, <2>6 DEF Counts, Paid
    <3> QED
      BY <3>1, <3>2, <3>3, <3>4, <3>5 DEF Paid
  <2> QED
    BY <2>5, <2>6
<1>18. ASSUME NEW c \in Callers, TimerDelete(c) PROVE Paid'
  <2>1. Budget \in Int /\ Budget' \in Int /\ Budget' = Budget
    BY <1>2, <1>18 DEF TimerDelete, StopDone, Budget
  <2>2. ~CreateThread
    BY <1>2, <1>18 DEF TimerDelete, StopDone, CreateThread
  <2>3. Number' <= Number /\ Total' <= Total /\ (LastGone => LastGone')
    BY <1>1, <2>2
  <2>4. /\ UNCHANGED <<plc_thread, target, is_plc_running>>
        /\ running' = IF c = "ctl" THEN FALSE ELSE running
        /\ IF c = "ctl" THEN pc["ctl"] = "timer_delete" /\ pc'["ctl"] = "idle" ELSE UNCHANGED pc["ctl"]
    BY <1>2, <1>18 DEF TimerDelete, StopDone
  <2>5. CASE c = "sig"
    BY <1>1, <2>1, <2>3, <2>4, <2>5, Quiet
  <2>6. CASE c = "ctl"
    <3>1. OldPaid'
      BY <1>1, <2>1, <2>3, <2>4, <2>6 DEF Counts, Paid
    <3>2. StartPaid'
      BY <1>1, <2>1, <2>3, <2>4, <2>6 DEF Counts, Paid
    <3>3. ComingPaid'
      BY <1>1, <2>1, <2>3, <2>4, <2>6 DEF Counts, Paid
    <3>4. StopPaid'
      BY <1>1, <2>1, <2>3, <2>4, <2>6 DEF Counts, Paid
    <3>5. JoinsLast'
      BY <1>1, <2>1, <2>3, <2>4, <2>6 DEF Counts, Paid
    <3> QED
      BY <3>1, <3>2, <3>3, <3>4, <3>5 DEF Paid
  <2> QED
    BY <2>5, <2>6
<1>19. ASSUME NEW c \in Callers, LibraryError(c) PROVE Paid'
  <2>1. Budget \in Int /\ Budget' \in Int /\ Budget' = Budget + 1
    BY RuntimeAssumption, <1>2, <1>19 DEF LibraryError, FaultPoints, Budget
  <2>2. ~CreateThread
    BY <1>2, <1>19 DEF LibraryError, FaultPoints, CreateThread
  <2>3. Number' <= Number /\ Total' <= Total /\ (LastGone => LastGone')
    BY <1>1, <2>2
  <2>4. /\ UNCHANGED <<plc_thread, target, running, is_plc_running>>
        /\ IF c = "ctl" THEN pc["ctl"] \in Faults /\ pc'["ctl"] = "idle" ELSE UNCHANGED pc["ctl"]
    BY <1>2, <1>19 DEF LibraryError, FaultPoints
  <2>5. CASE c = "sig"
    BY <1>1, <2>1, <2>3, <2>4, <2>5, Quiet
  <2>6. CASE c = "ctl"
    <3>1. OldPaid'
      BY <1>1, <2>1, <2>3, <2>4, <2>6 DEF Counts, Paid
    <3>2. StartPaid'
      BY <1>1, <2>1, <2>3, <2>4, <2>6 DEF Counts, Paid
    <3>3. ComingPaid'
      BY <1>1, <2>1, <2>3, <2>4, <2>6 DEF Counts, Paid
    <3>4. StopPaid'
      BY <1>1, <2>1, <2>3, <2>4, <2>6 DEF Counts, Paid
    <3>5. JoinsLast'
      BY <1>1, <2>1, <2>3, <2>4, <2>6 DEF Counts, Paid
    <3> QED
      BY <3>1, <3>2, <3>3, <3>4, <3>5 DEF Paid
  <2> QED
    BY <2>5, <2>6
<1>20. ASSUME NEW t \in Starts,
               TimerExpire(t) \/ TimerNotify(t) \/ plc_thread_routine_c(t)
       PROVE  Paid'
  <2> USE <1>20 DEF plc_thread_routine_c, TimerExpire, TimerNotify, ThreadCheck,
          ThreadPost, ThreadWait, ThreadRun
  <2>1. Budget \in Int /\ Budget' \in Int /\ Budget' = Budget
    BY <1>2 DEF Budget
  <2>2. ~CreateThread
    BY <1>2 DEF CreateThread, TypeOK, Starts
  <2>3. Number' <= Number /\ Total' <= Total /\ (LastGone => LastGone')
    BY <1>1, <2>2
  <2>4. UNCHANGED <<plc_thread, target, running, is_plc_running, pc>>
    OBVIOUS
  <2> QED
    BY <1>1, <2>1, <2>3, <2>4, Quiet
<1>21. ASSUME NEW s \in Setters, set_int_val_by_idx(s) PROVE Paid'
  <2> USE <1>21 DEF set_int_val_by_idx, SetCall, SetAdmit, SetWrite
  <2>1. Budget \in Int /\ Budget' \in Int /\ Budget' = Budget
    BY <1>2 DEF Budget
  <2>2. ~CreateThread
    BY <1>2 DEF CreateThread
  <2>3. Number' <= Number /\ Total' <= Total /\ (LastGone => LastGone')
    BY <1>1, <2>2
  <2>4. UNCHANGED <<plc_thread, target, running, is_plc_running, pc>>
    OBVIOUS
  <2> QED
    BY <1>1, <2>1, <2>3, <2>4, Quiet
<1>22. CASE UNCHANGED vars
  <2>1. Number' = Number /\ Total' = Total /\ (LastGone => LastGone')
    BY <1>22 DEF vars, Number, Orphans, LastGone, Living, Alive, Total
  <2>2. Budget \in Int /\ Budget' = Budget
    BY <1>2, <1>22 DEF vars, Budget
  <2>3. UNCHANGED <<plc_thread, target, running, is_plc_running, pc>>
    BY <1>22 DEF vars
  <2> QED
    BY <1>1, <2>1, <2>2, <2>3, Quiet
<1> QED
  BY <1>3, <1>4, <1>5, <1>6, <1>7, <1>8, <1>9, <1>10, <1>11, <1>12,
     <1>13, <1>14, <1>15, <1>16, <1>17, <1>18, <1>19, <1>20, <1>21, <1>22
     DEF Next, start_plc, stop_plc

---------------------------------------------------------------------------
(* At most one PLC thread, and one more for every failed call and every     *)
(* signal.                                                                  *)
THEOREM OrphanBoundHolds == Spec => []OrphanBound
<1>1. Init => Paid
  <2> SUFFICES ASSUME Init PROVE Paid
    OBVIOUS
  <2>1. Orphans = {} /\ Living = {}
    BY DEF Init, Orphans, Living, Alive, AlivePc
  <2>2. Number = 0 /\ Total = 0
    BY <2>1, FS_EmptySet DEF Number, Total
  <2> QED
    BY <2>1, <2>2 DEF Init, Paid, OldPaid, StartPaid, ComingPaid, StopPaid, JoinsLast, Budget,
           Callers, Early, Late
<1>2. TypeOK /\ Paid /\ [Next]_vars => Paid'
  BY StepPaid
<1>3. TypeOK /\ Paid => OrphanBound
  <2> SUFFICES ASSUME TypeOK, Paid PROVE OrphanBound
    OBVIOUS
  <2>1. Total <= Number + 1 /\ Total \in Nat /\ Number \in Nat
    BY ThreadsCounted
  <2>2. Number <= failures + signals /\ failures \in Nat /\ signals \in Nat
    BY <2>1 DEF Paid, OldPaid, Budget, TypeOK
  <2> QED
    BY <2>1, <2>2 DEF OrphanBound, Total, Living
<1>4. Spec => []Paid
  BY <1>1, <1>2, TypeCorrect, PTL DEF Spec
<1> QED
  BY <1>3, <1>4, TypeCorrect, PTL
============================================================================
