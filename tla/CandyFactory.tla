---------------------------- MODULE CandyFactory ----------------------------
(* The PLC program of the candy factory                                     *)
(* (misc/specification/Source/CandyFactory.st), one scan per tick of the    *)
(* runtime's timer.  The operator's HMI writes StartConveyorBelt,           *)
(* StopConveyorBelt and SelectedCandy, the gateway writes DetectedCandy,    *)
(* both by Modbus and at any point of a scan, for sem_plc_vars does not     *)
(* keep them out of it.  A write stores an int over a BOOL of two bytes     *)
(* (plc_runtime_skeleton.c, set_int_val_by_idx) and so clears the BOOL that *)
(* is declared next: a write of StartConveyorBelt revokes the stop, a write *)
(* of StopConveyorBelt a call.                                              *)
(*                                                                          *)
(* Time is counted in ticks (50 ms).  The clock that the on-delay timer     *)
(* reads is written by the notification of a tick, in two halves and        *)
(* without a lock (plc_runtime_skeleton.c, get_time): what is read in       *)
(* between is any time.  ConveyorVelocity is not used by the program.       *)
EXTENDS Integers

CONSTANTS
    Candies,     \* identifiers of candies; 0 is none
    Delay,       \* ExtractorDoneTimer in ticks
    MaxTicks,    \* bound: ticks whose scan has not begun
    MaxWrites,   \* bound: writes of the operator
    MaxDetected  \* bound: writes of the gateway

ASSUME CandyAssumption ==
    /\ 0 \notin Candies
    /\ Delay \in Nat \ {0} /\ MaxTicks \in Nat \ {0}
    /\ MaxWrites \in Nat /\ MaxDetected \in Nat

VARIABLES
    StartConveyorBelt, StopConveyorBelt, SelectedCandy,  \* the operator's
    DetectedCandy,                                       \* the gateway's
    CandyCall, ConveyorRun,
    ExtractorStart, ExtractorRunning, ExtractorDone,
    ton,         \* STATE and PREV_IN of ExtractorDoneTON
    elapsed,     \* the time since its START_TIME
    pc,          \* the statement of the scan
    ticks,       \* sem_plc_timer
    ticking,     \* the clock is being written
    \* bounds and history
    writes, detected,
    matched,     \* the candy the last call was made for
    selections, calls,  \* candies selected by the operator, calls made
    age,         \* ticks since the extractor was started, up to AgeLimit
    torn,        \* the clock was read while being written, since then
    stopped      \* the operator's stop stands: neither a write of one of the
                 \* two buttons nor the end of an extraction has revoked it

AgeLimit == Delay + 2

operator == <<StartConveyorBelt, SelectedCandy>>
belt     == <<StopConveyorBelt, ConveyorRun, stopped>>
call     == <<CandyCall, matched, calls>>
extractor == <<ExtractorStart, ExtractorRunning>>
timer    == <<ExtractorDone, ton, elapsed, torn>>
clock    == <<ticks, ticking, age>>
bounds   == <<writes, detected, selections>>
factoryVars == <<operator, belt, call, extractor, timer, clock, bounds,
                 DetectedCandy, pc>>

FactoryInit ==
    /\ StartConveyorBelt = FALSE /\ StopConveyorBelt = FALSE
    /\ SelectedCandy = 0 /\ DetectedCandy = 0
    /\ CandyCall = FALSE /\ ConveyorRun = FALSE
    /\ ExtractorStart = FALSE /\ ExtractorRunning = FALSE /\ ExtractorDone = FALSE
    /\ ton = [state |-> 0, prev |-> FALSE] /\ elapsed = 0
    /\ pc = "rest" /\ ticks = 0 /\ ticking = FALSE
    /\ writes = 0 /\ detected = 0 /\ matched = 0 /\ selections = 0 /\ calls = 0
    /\ age = 0 /\ torn = FALSE /\ stopped = FALSE

---------------------------------------------------------------------------
(* The notification of a tick: the clock, then the semaphore *)

TickBegin ==
    /\ ~ticking /\ ticks < MaxTicks
    /\ ticking' = TRUE
    /\ UNCHANGED <<operator, belt, call, extractor, timer, bounds,
                   DetectedCandy, pc, ticks, age>>

TickEnd ==
    /\ ticking
    /\ ticking' = FALSE /\ ticks' = ticks + 1
    /\ age' = IF age < AgeLimit THEN age + 1 ELSE age
    /\ elapsed' = IF elapsed < Delay THEN elapsed + 1 ELSE elapsed
    /\ UNCHANGED <<operator, belt, call, extractor, ExtractorDone, ton, torn,
                   bounds, DetectedCandy, pc>>

---------------------------------------------------------------------------
(* The scan *)

Begin ==
    /\ pc = "rest" /\ ticks > 0
    /\ ticks' = ticks - 1
    /\ pc' = "run"
    /\ UNCHANGED <<operator, belt, call, extractor, timer, bounds,
                   DetectedCandy, ticking, age>>

(* Mutant: the belt may run while the extractor does. *)
RunBeside ==
    /\ pc = "run"
    /\ ConveyorRun' = ((StartConveyorBelt \/ ConveyorRun) /\ ~StopConveyorBelt)
    /\ pc' = "test"
    /\ UNCHANGED <<operator, StopConveyorBelt, stopped, call, extractor, timer,
                   clock, bounds, DetectedCandy>>

Run ==
    /\ pc = "run"
    /\ ConveyorRun' = ((StartConveyorBelt \/ ConveyorRun)
                         /\ ~StopConveyorBelt /\ ~ExtractorRunning)
    /\ pc' = "test"
    /\ UNCHANGED <<operator, StopConveyorBelt, stopped, call, extractor, timer,
                   clock, bounds, DetectedCandy>>

Matches == SelectedCandy = DetectedCandy /\ SelectedCandy # 0 /\ ConveyorRun

Test ==
    /\ pc = "test"
    /\ IF Matches
       THEN matched' = DetectedCandy /\ pc' = "call" /\ UNCHANGED CandyCall
       ELSE CandyCall' = FALSE /\ pc' = "timer" /\ UNCHANGED matched
    /\ UNCHANGED <<operator, belt, calls, extractor, timer, clock, bounds,
                   DetectedCandy>>

(* Mutant: the selection stays. *)
CallKeeps ==
    /\ pc = "call"
    /\ CandyCall' = TRUE /\ calls' = calls + 1
    /\ pc' = "timer"
    /\ UNCHANGED <<operator, belt, matched, extractor, timer, clock, bounds,
                   DetectedCandy>>

(* Whatever is selected by now is reset. *)
Call ==
    /\ pc = "call"
    /\ SelectedCandy' = 0
    /\ CandyCall' = TRUE /\ calls' = calls + 1
    /\ pc' = "timer"
    /\ UNCHANGED <<StartConveyorBelt, belt, matched, extractor, timer, clock,
                   bounds, DetectedCandy>>

(* Mutant: the timer is called only while the extractor runs. *)
TimerSkipped ==
    /\ pc = "timer"
    /\ IF ~ExtractorRunning THEN UNCHANGED timer
       ELSE \E e \in (IF ticking THEN (-Delay)..Delay ELSE {elapsed}) :
              /\ torn' = (torn \/ ticking)
              /\ IF ton.state = 0 /\ ~ton.prev
                 THEN ton' = [state |-> 1, prev |-> TRUE] /\ elapsed' = 0
                      /\ ExtractorDone' = FALSE
                 ELSE /\ ton' = [state |-> IF ton.state = 1 /\ e >= Delay THEN 2
                                           ELSE ton.state, prev |-> TRUE]
                      /\ ExtractorDone' = (ton'.state = 2)
                      /\ UNCHANGED elapsed
    /\ pc' = "halt"
    /\ UNCHANGED <<operator, belt, call, extractor, clock, bounds, DetectedCandy>>

(* ExtractorDoneTON: started by a rising edge of IN, reset while IN is      *)
(* false.  The time read is wrong while the clock is being written, and so  *)
(* is then START_TIME.                                                      *)
Timer ==
    /\ pc = "timer"
    /\ \E e \in (IF ticking THEN (-Delay)..Delay ELSE {elapsed}) :
         IF ~ExtractorRunning
         THEN /\ ton' = [state |-> 0, prev |-> FALSE]
              /\ ExtractorDone' = FALSE /\ UNCHANGED <<elapsed, torn>>
         ELSE /\ torn' = (torn \/ ticking)
              /\ IF ton.state = 0 /\ ~ton.prev
                 THEN /\ ton' = [state |-> 1, prev |-> TRUE]
                      /\ elapsed' = IF ticking THEN e ELSE 0
                 ELSE /\ ton' = [state |-> IF ton.state = 1 /\ e >= Delay THEN 2
                                           ELSE ton.state, prev |-> TRUE]
                      /\ UNCHANGED elapsed
              /\ ExtractorDone' = (ton'.state = 2)
    /\ pc' = "halt"
    /\ UNCHANGED <<operator, belt, call, extractor, clock, bounds, DetectedCandy>>

Halt ==
    /\ pc = "halt"
    /\ IF CandyCall
       THEN /\ StopConveyorBelt' = TRUE /\ ConveyorRun' = FALSE
            /\ pc' = "extract" /\ UNCHANGED ExtractorStart
       ELSE /\ ExtractorStart' = FALSE
            /\ pc' = "done" /\ UNCHANGED <<StopConveyorBelt, ConveyorRun>>
    /\ UNCHANGED <<operator, stopped, call, ExtractorRunning, timer, clock,
                   bounds, DetectedCandy>>

Extract ==
    /\ pc = "extract"
    /\ ExtractorStart' = TRUE /\ ExtractorRunning' = TRUE
    /\ age' = 0 /\ torn' = FALSE
    /\ pc' = "done"
    /\ UNCHANGED <<operator, belt, call, ExtractorDone, ton, elapsed, ticks,
                   ticking, bounds, DetectedCandy>>

Done ==
    /\ pc = "done"
    /\ IF ExtractorDone
       THEN /\ ExtractorDone' = FALSE /\ ExtractorRunning' = FALSE
            /\ StopConveyorBelt' = FALSE /\ stopped' = FALSE
       ELSE UNCHANGED <<ExtractorDone, ExtractorRunning, StopConveyorBelt, stopped>>
    /\ pc' = "rest"
    /\ UNCHANGED <<operator, ConveyorRun, call, ExtractorStart, ton, elapsed,
                   torn, clock, bounds, DetectedCandy>>

---------------------------------------------------------------------------
(* Writes over Modbus *)

CountWrite == writes < MaxWrites /\ writes' = writes + 1

(* StopConveyorBelt is the neighbour ... *)
PressStart(b) ==
    /\ CountWrite
    /\ StartConveyorBelt' = b
    /\ StopConveyorBelt' = FALSE /\ stopped' = FALSE
    /\ UNCHANGED <<SelectedCandy, ConveyorRun, call, extractor, timer, clock,
                   detected, selections, DetectedCandy, pc>>

(* ... and has CandyCall for its own. *)
PressStop(b) ==
    /\ CountWrite
    /\ StopConveyorBelt' = b /\ stopped' = b
    /\ CandyCall' = FALSE
    /\ UNCHANGED <<operator, ConveyorRun, matched, calls, extractor, timer, clock,
                   detected, selections, DetectedCandy, pc>>

Select(c) ==
    /\ CountWrite
    /\ SelectedCandy' = c
    /\ selections' = selections + 1
    /\ UNCHANGED <<StartConveyorBelt, belt, call, extractor, timer, clock, detected,
                   DetectedCandy, pc>>

Detect(c) ==
    /\ detected < MaxDetected
    /\ detected' = detected + 1
    /\ DetectedCandy' = c
    /\ UNCHANGED <<operator, belt, call, extractor, timer, clock, writes,
                   selections, pc>>

---------------------------------------------------------------------------
Tick == TickBegin \/ TickEnd
Statement == Run \/ Test \/ Call \/ Timer \/ Halt \/ Extract \/ Done
Scan == Begin \/ Statement
HmiWrites ==
    \/ \E b \in BOOLEAN : PressStart(b) \/ PressStop(b)
    \/ \E c \in Candies : Select(c)

FactoryNext == Tick \/ Scan \/ HmiWrites \/ \E c \in Candies : Detect(c)

FactorySpec == FactoryInit /\ [][FactoryNext]_factoryVars

---------------------------------------------------------------------------
(* Properties *)

Statements == {"rest", "run", "test", "call", "timer", "halt", "extract", "done"}

FactoryTypeOK ==
    /\ StartConveyorBelt \in BOOLEAN /\ StopConveyorBelt \in BOOLEAN
    /\ SelectedCandy \in Candies \union {0} /\ DetectedCandy \in Candies \union {0}
    /\ CandyCall \in BOOLEAN /\ ConveyorRun \in BOOLEAN
    /\ ExtractorStart \in BOOLEAN /\ ExtractorRunning \in BOOLEAN
    /\ ExtractorDone \in BOOLEAN
    /\ ton \in [state : 0..2, prev : BOOLEAN]
    /\ elapsed \in (-Delay)..Delay
    /\ pc \in Statements
    /\ ticks \in Nat /\ ticking \in BOOLEAN
    /\ writes \in Nat /\ detected \in Nat
    /\ matched \in Candies \union {0}
    /\ selections \in Nat /\ calls \in Nat
    /\ age \in 0..AgeLimit /\ torn \in BOOLEAN /\ stopped \in BOOLEAN

(* The belt and the extractor never run together, not even between two      *)
(* statements of a scan and whatever is written meanwhile.                  *)
Exclusion == ~(ConveyorRun /\ ExtractorRunning)

(* The extractor runs for the whole time of its timer, also when one        *)
(* extraction follows the other, unless the timer has read a torn clock.    *)
ExtractsFully ==
    [][ExtractorRunning /\ ~ExtractorRunning' => age >= Delay \/ torn]_factoryVars

(* Each selection of the operator is good for one extraction at most,       *)
(* although DetectedCandy keeps the candy that was extracted.               *)
OncePerSelection == calls <= selections

(* A belt that was stopped by the operator stays so until the operator      *)
(* writes one of the two buttons or an extraction ends.  A write of start   *)
(* is enough, also one that was meant to be overruled by the stop.          *)
StopHeld == [][~ConveyorRun /\ ConveyorRun' => ~stopped]_factoryVars
============================================================================
