---------------------------- MODULE CandyProofs ----------------------------
(* Proofs about the program of the candy factory, for every set of candies, *)
(* every delay and every bound; that the factory among its twins (module    *)
(* Candy) is that factory still, so that they hold there, too; and about    *)
(* what the sensor reports, for every delay of at least its sleep.          *)
EXTENDS Candy, SequenceTheorems, TLAPS

(* A candy is called only while the belt runs, hence not while the          *)
(* extractor does, and the belt is halted before the extractor is started.  *)
CallInv ==
    /\ Exclusion
    /\ pc = "call" => ~ExtractorRunning
    /\ pc \in {"timer", "halt"} /\ CandyCall => ~ExtractorRunning
    /\ pc = "extract" => ~ConveyorRun /\ ~ExtractorRunning

(* The timer is at its beginning when the extractor is started; it has      *)
(* counted no more ticks than have passed since.                            *)
TimerInv ==
    /\ ExtractorDone => ton.state = 2 /\ ExtractorRunning
    /\ pc = "extract" \/ (pc = "halt" /\ ~ExtractorRunning) =>
         ton.state = 0 /\ ~ExtractorDone
    /\ ExtractorRunning /\ ton.state = 1 => torn \/ elapsed <= age
    /\ ExtractorRunning /\ ton.state = 2 => torn \/ age >= Delay

(* A selection that has not been reset is one that no call was made for. *)
SelectionInv ==
    /\ OncePerSelection
    /\ pc = "call" => SelectedCandy # 0
    /\ SelectedCandy # 0 => calls < selections

(* The operator's stop is one of the ways in which the belt is stopped. *)
StopInv == stopped => StopConveyorBelt

(* The inductive invariant. *)
FactoryInv == FactoryTypeOK /\ CallInv /\ TimerInv /\ SelectionInv /\ StopInv

---------------------------------------------------------------------------
LEMMA InitFactoryInv == FactoryInit => FactoryInv
<1> SUFFICES ASSUME FactoryInit PROVE FactoryInv
  OBVIOUS
<1> USE CandyAssumption DEF FactoryInit
<1>1. FactoryTypeOK
  <2>1. ton \in [state : 0..2, prev : BOOLEAN]
    OBVIOUS
  <2>2. elapsed \in (-Delay)..Delay /\ age \in 0..AgeLimit
    BY DEF AgeLimit
  <2>3. pc \in Statements
    BY DEF Statements
  <2> QED
    BY <2>1, <2>2, <2>3 DEF FactoryTypeOK
<1>2. CallInv /\ TimerInv /\ SelectionInv /\ StopInv
  BY DEF CallInv, Exclusion, TimerInv, SelectionInv, OncePerSelection, StopInv
<1> QED
  BY <1>1, <1>2 DEF FactoryInv

(* The types are inductive by themselves. *)
LEMMA StepFactoryTypeOK ==
  FactoryTypeOK /\ [FactoryNext]_factoryVars => FactoryTypeOK'
<1> SUFFICES ASSUME FactoryTypeOK, [FactoryNext]_factoryVars PROVE FactoryTypeOK'
  OBVIOUS
<1> USE CandyAssumption DEF FactoryTypeOK, Statements, AgeLimit, operator, belt, call,
        extractor, timer, clock, bounds
<1>1. CASE TickBegin
  BY <1>1 DEF TickBegin
<1>2. CASE TickEnd
  <2>1. ticks' \in Nat
    BY <1>2 DEF TickEnd
  <2>2. age' \in 0..(Delay + 2)
    BY <1>2 DEF TickEnd
  <2>3. elapsed' \in (-Delay)..Delay
    BY <1>2 DEF TickEnd
  <2>4. ticking' \in BOOLEAN
    BY <1>2 DEF TickEnd
  <2> QED
    BY <2>1, <2>2, <2>3, <2>4, <1>2 DEF TickEnd
<1>3. CASE Begin
  BY <1>3 DEF Begin
<1>4. CASE Run
  BY <1>4 DEF Run
<1>5. CASE Test
  <2>1. matched' \in Candies \union {0}
    BY <1>5 DEF Test, Matches
  <2>2. CandyCall' \in BOOLEAN
    BY <1>5 DEF Test, Matches
  <2>3. pc' \in {"call", "timer"}
    BY <1>5 DEF Test, Matches
  <2> QED
    BY <2>1, <2>2, <2>3, <1>5 DEF Test
<1>6. CASE Call
  BY <1>6 DEF Call
<1>7. CASE Timer
  <2>1. ton' \in [state : 0..2, prev : BOOLEAN]
    <3>1. ton.state \in 0..2
      OBVIOUS
    <3>2. \/ ton' = [state |-> 0, prev |-> FALSE]
          \/ ton' = [state |-> 1, prev |-> TRUE]
          \/ ton' = [state |-> 2, prev |-> TRUE]
          \/ ton' = [state |-> ton.state, prev |-> TRUE]
      BY <1>7, Zenon DEF Timer
    <3>3. ASSUME NEW n \in 0..2, NEW b \in BOOLEAN, ton' = [state |-> n, prev |-> b]
          PROVE  ton' \in [state : 0..2, prev : BOOLEAN]
      BY <3>3, Zenon
    <3>4. 0 \in 0..2 /\ 1 \in 0..2 /\ 2 \in 0..2
      OBVIOUS
    <3> QED
      BY ONLY <3>1, <3>2, <3>3, <3>4, Zenon
  <2>2. ExtractorDone' \in BOOLEAN
    BY <1>7 DEF Timer
  <2>3. elapsed' \in (-Delay)..Delay
    BY <1>7 DEF Timer
  <2>4. torn' \in BOOLEAN
    BY <1>7 DEF Timer
  <2>5. pc' = "halt"
    BY <1>7 DEF Timer
  <2>6. UNCHANGED <<operator, belt, call, extractor, clock, bounds, DetectedCandy>>
    BY <1>7 DEF Timer
  <2> QED
    BY <2>1, <2>2, <2>3, <2>4, <2>5, <2>6
<1>8. CASE Halt
  <2>1. StopConveyorBelt' \in BOOLEAN /\ ConveyorRun' \in BOOLEAN
    BY <1>8 DEF Halt
  <2>2. ExtractorStart' \in BOOLEAN /\ pc' \in {"extract", "done"}
    BY <1>8 DEF Halt
  <2> QED
    BY <2>1, <2>2, <1>8 DEF Halt
<1>9. CASE Extract
  <2>1. ExtractorStart' \in BOOLEAN /\ ExtractorRunning' \in BOOLEAN
    BY <1>9 DEF Extract
  <2>2. age' \in 0..(Delay + 2)
    BY <1>9 DEF Extract
  <2>3. torn' \in BOOLEAN
    BY <1>9 DEF Extract
  <2>4. pc' = "done"
    BY <1>9 DEF Extract
  <2> QED
    BY <2>1, <2>2, <2>3, <2>4, <1>9, Zenon DEF Extract
<1>10. CASE Done
  <2>1. ExtractorDone' \in BOOLEAN /\ ExtractorRunning' \in BOOLEAN
    BY <1>10 DEF Done
  <2>2. StopConveyorBelt' \in BOOLEAN /\ stopped' \in BOOLEAN
    BY <1>10 DEF Done
  <2>3. pc' = "rest"
    BY <1>10 DEF Done
  <2> QED
    BY <2>1, <2>2, <2>3, <1>10, Zenon DEF Done
<1>11. ASSUME NEW b \in BOOLEAN, PressStart(b) PROVE FactoryTypeOK'
  <2>1. writes' \in Nat
    BY <1>11 DEF PressStart, CountWrite
  <2>2. /\ StartConveyorBelt' \in BOOLEAN /\ StopConveyorBelt' \in BOOLEAN
        /\ stopped' \in BOOLEAN
    BY <1>11, Zenon DEF PressStart
  <2> QED
    BY <2>1, <2>2, <1>11 DEF PressStart
<1>14. ASSUME NEW b \in BOOLEAN, PressStop(b) PROVE FactoryTypeOK'
  <2>1. writes' \in Nat
    BY <1>14 DEF PressStop, CountWrite
  <2>2. /\ CandyCall' \in BOOLEAN /\ StopConveyorBelt' \in BOOLEAN
        /\ stopped' \in BOOLEAN
    BY <1>14, Zenon DEF PressStop
  <2> QED
    BY <2>1, <2>2, <1>14 DEF PressStop
<1>12. ASSUME NEW c \in Candies, Select(c) \/ Detect(c) PROVE FactoryTypeOK'
  BY <1>12 DEF Select, Detect, CountWrite
<1>13. CASE UNCHANGED factoryVars
  BY <1>13 DEF factoryVars
<1> QED
  BY <1>1, <1>2, <1>3, <1>4, <1>5, <1>6, <1>7, <1>8, <1>9, <1>10, <1>11, <1>12, <1>13,
     <1>14 DEF FactoryNext, Tick, Scan, Statement, HmiWrites

(* What the program promises, one step per conjunct under each action. *)
LEMMA StepFactoryInv ==
  FactoryInv /\ [FactoryNext]_factoryVars
    => CallInv' /\ TimerInv' /\ SelectionInv' /\ StopInv'
<1> SUFFICES ASSUME FactoryInv, [FactoryNext]_factoryVars
             PROVE  CallInv' /\ TimerInv' /\ SelectionInv' /\ StopInv'
  OBVIOUS
<1> USE CandyAssumption DEF FactoryInv, AgeLimit, operator, belt, call, extractor,
        timer, clock, bounds
<1>1. CASE TickBegin
  <2>1. CallInv'
    BY <1>1 DEF TickBegin, CallInv, Exclusion, FactoryTypeOK
  <2>2. TimerInv'
    BY <1>1 DEF TickBegin, TimerInv, CallInv, FactoryTypeOK
  <2>3. SelectionInv'
    BY <1>1 DEF TickBegin, SelectionInv, OncePerSelection, FactoryTypeOK
  <2>4. StopInv'
    BY <1>1 DEF TickBegin, StopInv
  <2> QED
    BY <2>1, <2>2, <2>3, <2>4
<1>2. CASE TickEnd
  <2>1. CallInv'
    BY <1>2 DEF TickEnd, CallInv, Exclusion, FactoryTypeOK
  <2>2. TimerInv'
    BY <1>2 DEF TickEnd, TimerInv, CallInv, FactoryTypeOK
  <2>3. SelectionInv'
    BY <1>2 DEF TickEnd, SelectionInv, OncePerSelection, FactoryTypeOK
  <2>4. StopInv'
    BY <1>2 DEF TickEnd, StopInv
  <2> QED
    BY <2>1, <2>2, <2>3, <2>4
<1>3. CASE Begin
  <2>1. CallInv'
    BY <1>3 DEF Begin, CallInv, Exclusion, FactoryTypeOK
  <2>2. TimerInv'
    BY <1>3 DEF Begin, TimerInv, CallInv, FactoryTypeOK
  <2>3. SelectionInv'
    BY <1>3 DEF Begin, SelectionInv, OncePerSelection, FactoryTypeOK
  <2>4. StopInv'
    BY <1>3 DEF Begin, StopInv
  <2> QED
    BY <2>1, <2>2, <2>3, <2>4
<1>4. CASE Run
  <2>1. CallInv'
    BY <1>4 DEF Run, CallInv, Exclusion, FactoryTypeOK
  <2>2. TimerInv'
    BY <1>4 DEF Run, TimerInv, CallInv, FactoryTypeOK
  <2>3. SelectionInv'
    BY <1>4 DEF Run, SelectionInv, OncePerSelection, FactoryTypeOK
  <2>4. StopInv'
    BY <1>4 DEF Run, StopInv
  <2> QED
    BY <2>1, <2>2, <2>3, <2>4
<1>5. CASE Test
  <2>1. CallInv'
    BY <1>5 DEF Test, Matches, CallInv, Exclusion, FactoryTypeOK
  <2>2. TimerInv'
    BY <1>5 DEF Test, Matches, TimerInv, CallInv, FactoryTypeOK
  <2>3. SelectionInv'
    BY <1>5 DEF Test, Matches, SelectionInv, OncePerSelection, FactoryTypeOK
  <2>4. StopInv'
    BY <1>5 DEF Test, Matches, StopInv
  <2> QED
    BY <2>1, <2>2, <2>3, <2>4
<1>6. CASE Call
  <2>1. CallInv'
    BY <1>6 DEF Call, CallInv, Exclusion, FactoryTypeOK
  <2>2. TimerInv'
    BY <1>6 DEF Call, TimerInv, CallInv, FactoryTypeOK
  <2>3. SelectionInv'
    BY <1>6 DEF Call, SelectionInv, OncePerSelection, FactoryTypeOK
  <2>4. StopInv'
    BY <1>6 DEF Call, StopInv
  <2> QED
    BY <2>1, <2>2, <2>3, <2>4
<1>7. CASE Timer
  <2>1. CallInv'
    BY <1>7 DEF Timer, CallInv, Exclusion, FactoryTypeOK
  <2>2. TimerInv'
    BY <1>7 DEF Timer, TimerInv, CallInv, FactoryTypeOK
  <2>3. SelectionInv'
    BY <1>7 DEF Timer, SelectionInv, OncePerSelection, FactoryTypeOK
  <2>4. StopInv'
    BY <1>7 DEF Timer, StopInv
  <2> QED
    BY <2>1, <2>2, <2>3, <2>4
<1>8. CASE Halt
  <2>1. CallInv'
    BY <1>8 DEF Halt, CallInv, Exclusion, FactoryTypeOK
  <2>2. TimerInv'
    BY <1>8 DEF Halt, TimerInv, CallInv, FactoryTypeOK
  <2>3. SelectionInv'
    BY <1>8 DEF Halt, SelectionInv, OncePerSelection, FactoryTypeOK
  <2>4. StopInv'
    BY <1>8 DEF Halt, StopInv
  <2> QED
    BY <2>1, <2>2, <2>3, <2>4
<1>9. CASE Extract
  <2>1. CallInv'
    BY <1>9 DEF Extract, CallInv, Exclusion, FactoryTypeOK
  <2>2. TimerInv'
    BY <1>9 DEF Extract, TimerInv, CallInv, FactoryTypeOK
  <2>3. SelectionInv'
    BY <1>9 DEF Extract, SelectionInv, OncePerSelection, FactoryTypeOK
  <2>4. StopInv'
    BY <1>9 DEF Extract, StopInv
  <2> QED
    BY <2>1, <2>2, <2>3, <2>4
<1>10. CASE Done
  <2>1. CallInv'
    BY <1>10 DEF Done, CallInv, Exclusion, FactoryTypeOK
  <2>2. TimerInv'
    BY <1>10 DEF Done, TimerInv, CallInv, FactoryTypeOK
  <2>3. SelectionInv'
    BY <1>10 DEF Done, SelectionInv, OncePerSelection, FactoryTypeOK
  <2>4. StopInv'
    BY <1>10 DEF Done, StopInv
  <2> QED
    BY <2>1, <2>2, <2>3, <2>4
<1>11. ASSUME NEW b \in BOOLEAN, PressStart(b) \/ PressStop(b)
     PROVE  CallInv' /\ TimerInv' /\ SelectionInv' /\ StopInv'
  <2>1. CallInv'
    BY <1>11 DEF PressStart, PressStop, CountWrite, CallInv, Exclusion, FactoryTypeOK
  <2>2. TimerInv'
    BY <1>11 DEF PressStart, PressStop, CountWrite, TimerInv, CallInv, FactoryTypeOK
  <2>3. SelectionInv'
    BY <1>11 DEF PressStart, PressStop, CountWrite, SelectionInv, OncePerSelection, FactoryTypeOK
  <2>4. StopInv'
    BY <1>11 DEF PressStart, PressStop, CountWrite, StopInv
  <2> QED
    BY <2>1, <2>2, <2>3, <2>4
<1>12. ASSUME NEW c \in Candies, Select(c) \/ Detect(c)
     PROVE  CallInv' /\ TimerInv' /\ SelectionInv' /\ StopInv'
  <2>1. CallInv'
    BY <1>12 DEF Select, Detect, CountWrite, CallInv, Exclusion, FactoryTypeOK
  <2>2. TimerInv'
    BY <1>12 DEF Select, Detect, CountWrite, TimerInv, CallInv, FactoryTypeOK
  <2>3. SelectionInv'
    BY <1>12 DEF Select, Detect, CountWrite, SelectionInv, OncePerSelection, FactoryTypeOK
  <2>4. StopInv'
    BY <1>12 DEF Select, Detect, CountWrite, StopInv
  <2> QED
    BY <2>1, <2>2, <2>3, <2>4
<1>13. CASE UNCHANGED factoryVars
  <2>1. CallInv'
    BY <1>13 DEF factoryVars, CallInv, Exclusion, FactoryTypeOK
  <2>2. TimerInv'
    BY <1>13 DEF factoryVars, TimerInv, CallInv, FactoryTypeOK
  <2>3. SelectionInv'
    BY <1>13 DEF factoryVars, SelectionInv, OncePerSelection, FactoryTypeOK
  <2>4. StopInv'
    BY <1>13 DEF factoryVars, StopInv
  <2> QED
    BY <2>1, <2>2, <2>3, <2>4
<1> QED
  BY <1>1, <1>2, <1>3, <1>4, <1>5, <1>6, <1>7, <1>8, <1>9, <1>10, <1>11, <1>12, <1>13
  DEF FactoryNext, Tick, Scan, Statement, HmiWrites

---------------------------------------------------------------------------
(* The inductive invariant of the program holds. *)
THEOREM FactoryInductive == FactorySpec => []FactoryInv
<1>1. FactoryInv /\ [FactoryNext]_factoryVars => FactoryInv'
  BY StepFactoryTypeOK, StepFactoryInv DEF FactoryInv
<1> QED
  BY InitFactoryInv, <1>1, PTL DEF FactorySpec

(* Every variable of the program and of its environment keeps its type. *)
THEOREM FactoryTypeCorrect == FactorySpec => []FactoryTypeOK
<1>1. FactoryInv => FactoryTypeOK
  BY DEF FactoryInv
<1> QED
  BY <1>1, FactoryInductive, PTL

(* The belt and the extractor never run together. *)
THEOREM ExclusionHolds == FactorySpec => []Exclusion
<1>1. FactoryInv => Exclusion
  BY DEF FactoryInv, CallInv
<1> QED
  BY <1>1, FactoryInductive, PTL

(* No more extractions than selections. *)
THEOREM OncePerSelectionHolds == FactorySpec => []OncePerSelection
<1>1. FactoryInv => OncePerSelection
  BY DEF FactoryInv, SelectionInv
<1> QED
  BY <1>1, FactoryInductive, PTL

(* Only Done stops the extractor, when the timer says so. *)
THEOREM ExtractsFullyHolds == FactorySpec => ExtractsFully
<1>1. FactoryInv /\ [FactoryNext]_factoryVars =>
        [ExtractorRunning /\ ~ExtractorRunning' => age >= Delay \/ torn]_factoryVars
  <2> SUFFICES ASSUME FactoryInv, FactoryNext, ExtractorRunning, ~ExtractorRunning'
               PROVE  age >= Delay \/ torn
    OBVIOUS
  <2>1. Done
    BY DEF FactoryNext, Tick, Scan, Statement, HmiWrites, TickBegin, TickEnd, Begin,
       Run, Test, Call, Timer, Halt, Extract, PressStart, PressStop, Select, Detect,
       extractor
  <2>2. ExtractorDone
    BY <2>1 DEF Done
  <2> QED
    BY <2>2 DEF FactoryInv, TimerInv
<1> QED
  BY <1>1, FactoryInductive, PTL DEF FactorySpec, ExtractsFully

(* Only Run starts the belt, and not while the operator's stop stands; a    *)
(* write of StartConveyorBelt takes it away (see PressStart).               *)
THEOREM StopHeldHolds == FactorySpec => StopHeld
<1>1. FactoryInv /\ [FactoryNext]_factoryVars =>
        [~ConveyorRun /\ ConveyorRun' => ~stopped]_factoryVars
  <2> SUFFICES ASSUME FactoryInv, FactoryNext, ~ConveyorRun, ConveyorRun'
               PROVE  ~stopped
    OBVIOUS
  <2>1. Run
    BY DEF FactoryNext, Tick, Scan, Statement, HmiWrites, TickBegin, TickEnd, Begin,
       Test, Call, Timer, Halt, Extract, Done, PressStart, PressStop, Select, Detect,
       belt
  <2> QED
    BY <2>1 DEF Run, FactoryInv, FactoryTypeOK, StopInv
<1> QED
  BY <1>1, FactoryInductive, PTL DEF FactorySpec, StopHeld

---------------------------------------------------------------------------
(* What is on its way to the PLC are candies. *)
PathInv ==
    /\ rfid # "idle" => tag \in Candies
    /\ inbox \in Seq(Candies \union {Connect})
    /\ mqtt \in Seq(Candies)

LEMMA StepPathInv == PathInv /\ [Next]_vars => PathInv'
<1> SUFFICES ASSUME PathInv, [Next]_vars PROVE PathInv'
  OBVIOUS
<1> USE DEF PathInv, reader, path, twinVars
<1>1. CASE PlcTick
  BY <1>1 DEF PlcTick, ClockTicks
<1>2. CASE PlcScan
  BY <1>2 DEF PlcScan, CandyCalled, TimerRead, ExtractorStarts, ExtractorStops
<1>3. CASE HmiWrites /\ UNCHANGED twinVars
  BY <1>3
<1>4. ASSUME NEW c \in Candies, ReadTag(c) PROVE PathInv'
  BY <1>4 DEF ReadTag
<1>5. CASE SendConnect
  BY <1>5 DEF SendConnect
<1>6. CASE SendPublish
  BY <1>6 DEF SendPublish
<1>7. CASE Callback
  BY <1>7 DEF Callback
<1>8. CASE MqttClient
  <2>1. inbox # <<>> /\ Tail(inbox) \in Seq(Candies \union {Connect})
    BY <1>8 DEF MqttClient
  <2>2. Head(inbox) # Connect => Head(inbox) \in Candies
    BY <2>1
  <2>3. inbox' \in Seq(Candies \union {Connect})
    <3>1. inbox' = Tail(inbox) \/ inbox' = <<>>
      BY <1>8 DEF MqttClient
    <3>2. <<>> \in Seq(Candies \union {Connect})
      OBVIOUS
    <3> QED
      BY <2>1, <3>1, <3>2, Zenon
  <2>4. mqtt' \in Seq(Candies)
    BY <1>8, <2>2 DEF MqttClient
  <2> QED
    BY <1>8, <2>3, <2>4 DEF MqttClient
<1>9. CASE Deliver
  BY <1>9 DEF Deliver
<1>10. CASE Lose
  BY <1>10 DEF Lose
<1>11. CASE Monitor \/ Sensor \/ Terminate
  BY <1>11 DEF Monitor, Sensor, Look, Report, ReportRaises, Terminate
<1>12. CASE UNCHANGED vars
  BY <1>12 DEF vars
<1> QED
  BY <1>1, <1>2, <1>3, <1>4, <1>5, <1>6, <1>7, <1>8, <1>9, <1>10, <1>11, <1>12
     DEF Next, Reader

(* Every step of Candy is one of the factory, or leaves it alone. *)
LEMMA StepImplements == PathInv /\ [Next]_vars => [FactoryNext]_factoryVars
<1> SUFFICES ASSUME PathInv, [Next]_vars PROVE FactoryNext \/ UNCHANGED factoryVars
  OBVIOUS
<1> USE DEF FactoryNext
<1>1. CASE PlcTick
  BY <1>1 DEF PlcTick, ClockTicks, Tick
<1>2. CASE PlcScan
  BY <1>2 DEF PlcScan, CandyCalled, TimerRead, ExtractorStarts, ExtractorStops, Scan,
     Statement
<1>3. CASE HmiWrites
  BY <1>3
<1>4. ASSUME NEW c \in Candies, ReadTag(c) PROVE UNCHANGED factoryVars
  BY <1>4 DEF ReadTag
<1>5. CASE Reader
  BY <1>5 DEF Reader, SendConnect, SendPublish, Callback
<1>6. CASE MqttClient
  BY <1>6 DEF MqttClient
<1>7. CASE Deliver
  <2>1. Head(mqtt) \in Candies
    BY <1>7 DEF PathInv, Deliver
  <2> QED
    BY <1>7, <2>1 DEF Deliver
<1>8. CASE Lose \/ Monitor \/ Sensor \/ Terminate
  BY <1>8 DEF Lose, Monitor, Sensor, Look, Report, ReportRaises, Terminate
<1>9. CASE UNCHANGED vars
  BY <1>9 DEF vars
<1> QED
  BY <1>1, <1>2, <1>3, <1>4, <1>5, <1>6, <1>7, <1>8, <1>9 DEF Next

(* Among its twins the factory makes its own steps only: what the reader,   *)
(* the sensor and the network do reaches it through Detect.                 *)
THEOREM CandyImplementsFactory == Spec => FactorySpec
<1>1. Init => FactoryInit
  BY DEF Init
<1>2. Init => PathInv
  BY DEF Init, PathInv
<1> QED
  BY <1>1, <1>2, StepImplements, StepPathInv, PTL DEF Spec, FactorySpec

(* So the belt, the extractor and the operator's selection and stop are as  *)
(* safe whatever the twins do.                                              *)
THEOREM CandySafe ==
  Spec => []Exclusion /\ []OncePerSelection /\ ExtractsFully /\ StopHeld
BY CandyImplementsFactory, ExclusionHolds, OncePerSelectionHolds,
   ExtractsFullyHolds, StopHeldHolds, PTL

---------------------------------------------------------------------------
(* The sensor *)

Bit(b) == IF b THEN 1 ELSE 0

TwinsTypeOK ==
    /\ rfid \in {"idle", "connect", "publish", "callback"}
    /\ tag \in Candies \union {0} /\ candy \in Candies \union {0}
    /\ seen \in Candies \union {0}
    /\ is_connected \in BOOLEAN /\ running \in BOOLEAN /\ active \in BOOLEAN
    /\ shutdown \in BOOLEAN /\ inStep \in BOOLEAN /\ clean \in BOOLEAN
    /\ irregular \in BOOLEAN
    /\ news \in Seq(BOOLEAN) /\ cleans \in Seq(BOOLEAN)
    /\ published \in Seq(Candies \union {0}) /\ extracted \in Seq(Candies \union {0})
    /\ sensor \in {"look", "sleep", "ended"} /\ asleep \in 0..SleepTicks

(* Where the sensor and the reader are. *)
Standing ==
    /\ sensor = "sleep" => ~active
    /\ Len(published) <= Len(cleans)
    /\ sensor # "ended" => Len(cleans) = Len(published) + Bit(sensor = "sleep")
    /\ ~is_connected => inbox = <<>> /\ mqtt = <<>>
    /\ rfid = "connect" => ~is_connected
    /\ rfid \in {"publish", "callback"} => is_connected
    /\ \A i \in 1..Len(inbox) : inbox[i] = Connect => i = 1 /\ mqtt = <<>>

(* How often the extractor has changed, and how often as far as the sensor  *)
(* has been told; what is on its way to it are the changes in between.      *)
Changes == 2 * Len(extracted) + Bit(ExtractorRunning)
Told    == Changes - Len(news)

Counted ==
    /\ running = (Told % 2 = 1)
    /\ \A i \in 1..Len(news) : news[i] = ((Told + i) % 2 = 1)
    /\ 2 * Len(cleans) + Bit(active) <= Told

(* The extractor runs only for a candy that was detected. *)
Known ==
    CandyCall \/ pc \in {"call", "extract"} \/ ExtractorRunning => DetectedCandy # 0

(* The tag published last: the candy of the sensor, or the next one. *)
Latest == IF rfid = "callback" THEN tag ELSE candy

Tagged ==
    /\ DetectedCandy # 0 \/ mqtt # <<>> \/ (\E i \in 1..Len(inbox) : inbox[i] # Connect)
         => Latest # 0
    /\ inbox = <<>> /\ mqtt # <<>> => mqtt[Len(mqtt)] = Latest
    /\ inbox # <<>> /\ inbox[Len(inbox)] # Connect => inbox[Len(inbox)] = Latest
    /\ inStep => /\ mqtt = <<>> /\ \A i \in 1..Len(inbox) : inbox[i] = Connect
                 /\ DetectedCandy = Latest
    /\ clean => matched = Latest

(* The scan of a tick is over before the next tick. *)
InTime ==
    /\ ticks <= 1 /\ (pc # "rest" => ticks = 0)
    /\ ~torn

ScanOver == pc = "rest" /\ ticks = 0

(* The sensor is at most one change behind the extractor: with an end until *)
(* the next tick, with a start as long as it sleeps after the last end.     *)
Follows ==
    /\ Changes - (2 * Len(cleans) + Bit(active)) \in {0, 1}
    /\ active /\ ~ExtractorRunning =>
         ScanOver /\ Len(extracted) > 0 /\ extracted[Len(extracted)] = matched
    /\ ExtractorRunning /\ ~active =>
         age + (IF sensor = "sleep" THEN asleep ELSE 0) <= SleepTicks - 1
    /\ sensor = "sleep" /\ ~ScanOver => asleep <= SleepTicks - 1
    /\ active /\ (candy = 0 \/ (clean /\ rfid = "callback")) =>
         ExtractorRunning /\ age <= SleepTicks - 1

(* What was reported, or will be when the sleep is over. *)
Reported(i) == IF i <= Len(published) THEN published[i] ELSE seen

Right == \A i \in 1..Len(cleans) : cleans[i] => Reported(i) = extracted[i]

(* The inductive invariant. *)
TwinsInv ==
    /\ FactoryInv /\ PathInv /\ TwinsTypeOK /\ Standing /\ Counted /\ Known
    /\ ~shutdown => Tagged
    /\ ~irregular => InTime /\ Right
    /\ ~irregular /\ ~shutdown /\ sensor # "ended" => Follows

(* Facts about queues that the steps below use. *)
LEMMA QueueFacts ==
  ASSUME NEW S, NEW s \in Seq(S)
  PROVE  /\ Len(s) \in Nat /\ \A i \in 1..Len(s) : s[i] \in S
         /\ s = <<>> <=> Len(s) = 0
         /\ s # <<>> => /\ Head(s) = s[1] /\ Head(s) \in S /\ Len(s) > 0
                        /\ Tail(s) \in Seq(S) /\ Len(Tail(s)) = Len(s) - 1
                        /\ \A i \in 1..Len(s) - 1 : Tail(s)[i] = s[i + 1]
         /\ \A e \in S : /\ Append(s, e) \in Seq(S) /\ Len(Append(s, e)) = Len(s) + 1
                         /\ \A i \in 1..Len(s) : Append(s, e)[i] = s[i]
                         /\ Append(s, e)[Len(s) + 1] = e
<1>1. Len(s) \in Nat /\ \A i \in 1..Len(s) : s[i] \in S
  BY LenProperties, ElementOfSeq
<1>2. s = <<>> <=> Len(s) = 0
  BY EmptySeq
<1>3. ASSUME s # <<>>
      PROVE  /\ Head(s) = s[1] /\ Head(s) \in S /\ Len(s) > 0
             /\ Tail(s) \in Seq(S) /\ Len(Tail(s)) = Len(s) - 1
             /\ \A i \in 1..Len(s) - 1 : Tail(s)[i] = s[i + 1]
  <2>1. /\ Head(s) \in S /\ Tail(s) \in Seq(S) /\ Len(Tail(s)) = Len(s) - 1
        /\ \A i \in 1 .. Len(Tail(s)) : Tail(s)[i] = s[i + 1]
    BY <1>3, HeadTailProperties
  <2>2. Head(s) = s[1]
    BY <1>3
  <2>3. Len(s) > 0
    BY <1>1, <1>2, <1>3
  <2> QED
    BY <2>1, <2>2, <2>3
<1>4. ASSUME NEW e \in S
      PROVE  /\ Append(s, e) \in Seq(S) /\ Len(Append(s, e)) = Len(s) + 1
             /\ \A i \in 1..Len(s) : Append(s, e)[i] = s[i]
             /\ Append(s, e)[Len(s) + 1] = e
  BY AppendProperties
<1> QED
  BY <1>1, <1>2, <1>3, <1>4

LEMMA StepTwinsTypeOK ==
  ASSUME FactoryTypeOK, PathInv, TwinsTypeOK, [Next]_vars
  PROVE  TwinsTypeOK'
<1> USE DEF reader, path, loop, marks, twinVars
<1>1. CASE ClockTicks
  <2>1. asleep' \in 0..SleepTicks
    BY <1>1, SensorAssumption DEF ClockTicks, Settled, Asleep, TwinsTypeOK
  <2>2. irregular' \in BOOLEAN
    BY <1>1 DEF ClockTicks, TwinsTypeOK
  <2> QED
    BY <1>1, <2>1, <2>2 DEF ClockTicks, TwinsTypeOK
<1>2. CASE UNCHANGED twinVars
  BY <1>2 DEF TwinsTypeOK
<1>3. CASE CandyCalled
  <2>1. clean' \in BOOLEAN
    BY <1>3 DEF CandyCalled, TwinsTypeOK
  <2> QED
    BY <1>3, <2>1 DEF CandyCalled, TwinsTypeOK
<1>4. CASE TimerRead
  BY <1>4 DEF TimerRead, TwinsTypeOK
<1>5. CASE ExtractorStarts
  <2>1. Append(news, TRUE) \in Seq(BOOLEAN)
    <3>1. news \in Seq(BOOLEAN)
      BY DEF TwinsTypeOK
    <3> QED
      BY <3>1, QueueFacts
  <2> QED
    BY <1>5, <2>1 DEF ExtractorStarts, TwinsTypeOK
<1>6. CASE ExtractorStops
  <2>1. /\ Append(news, FALSE) \in Seq(BOOLEAN)
        /\ Append(extracted, matched) \in Seq(Candies \union {0})
    <3>1. news \in Seq(BOOLEAN) /\ extracted \in Seq(Candies \union {0})
          /\ matched \in Candies \union {0}
      BY DEF TwinsTypeOK, FactoryTypeOK
    <3> QED
      BY <3>1, QueueFacts
  <2>2. news' \in Seq(BOOLEAN) /\ extracted' \in Seq(Candies \union {0})
    BY <1>6, <2>1 DEF ExtractorStops, TwinsTypeOK
  <2> QED
    BY <1>6, <2>2 DEF ExtractorStops, TwinsTypeOK
<1>7. ASSUME NEW c \in Candies, ReadTag(c) PROVE TwinsTypeOK'
  BY <1>7 DEF ReadTag, TwinsTypeOK
<1>8. CASE SendConnect
  BY <1>8 DEF SendConnect, TwinsTypeOK
<1>9. CASE SendPublish
  BY <1>9 DEF SendPublish, TwinsTypeOK
<1>10. CASE Callback
  BY <1>10 DEF Callback, TwinsTypeOK
<1>11. CASE MqttClient
  BY <1>11 DEF MqttClient, TwinsTypeOK
<1>12. CASE Deliver
  <2>1. inStep' \in BOOLEAN
    BY <1>12 DEF Deliver, TwinsTypeOK
  <2> QED
    BY <1>12, <2>1 DEF Deliver, TwinsTypeOK
<1>13. CASE Lose
  BY <1>13 DEF Lose, TwinsTypeOK
<1>14. CASE Monitor
  <2>1. Head(news) \in BOOLEAN /\ Tail(news) \in Seq(BOOLEAN)
    <3>1. news \in Seq(BOOLEAN) /\ news # <<>>
      BY <1>14 DEF Monitor, TwinsTypeOK
    <3> QED
      BY <3>1, QueueFacts
  <2> QED
    BY <1>14, <2>1 DEF Monitor, TwinsTypeOK
<1>15. CASE Look
  <2>1. Append(cleans, clean) \in Seq(BOOLEAN)
    <3>1. cleans \in Seq(BOOLEAN) /\ clean \in BOOLEAN
      BY DEF TwinsTypeOK
    <3> QED
      BY <3>1, QueueFacts
  <2>2. cleans' \in Seq(BOOLEAN)
    BY <1>15, <2>1 DEF Look, TwinsTypeOK
  <2>5. asleep' \in 0..SleepTicks
    <3>1. SleepTicks \in 0..SleepTicks
      BY SensorAssumption
    <3> QED
      BY <1>15, <3>1 DEF Look, SleepFor, TwinsTypeOK
  <2>3. active' \in BOOLEAN /\ sensor' \in {"look", "sleep", "ended"}
        /\ seen' \in Candies \union {0}
    BY <1>15 DEF Look, TwinsTypeOK
  <2>4. UNCHANGED <<reader, path, candy, running, news, shutdown, published, marks>>
    BY <1>15 DEF Look
  <2> QED
    BY <2>2, <2>3, <2>4, <2>5 DEF TwinsTypeOK
<1>16. CASE Report
  <2>1. Append(published, seen) \in Seq(Candies \union {0})
    <3>1. published \in Seq(Candies \union {0}) /\ seen \in Candies \union {0}
      BY DEF TwinsTypeOK
    <3> QED
      BY <3>1, QueueFacts
  <2> QED
    BY <1>16, <2>1 DEF Report, TwinsTypeOK
<1>19. CASE ReportRaises
  BY <1>19 DEF ReportRaises, TwinsTypeOK
<1>17. CASE Terminate
  BY <1>17 DEF Terminate, TwinsTypeOK
<1>18. CASE UNCHANGED vars
  BY <1>18 DEF vars, TwinsTypeOK
<1> QED
  BY <1>1, <1>2, <1>3, <1>4, <1>5, <1>6, <1>7, <1>8, <1>9, <1>10, <1>11, <1>12, <1>13,
     <1>14, <1>15, <1>16, <1>17, <1>18, <1>19
  DEF Next, PlcTick, PlcScan, Reader, Sensor

(* What the steps of the PLC leave alone. *)
LEMMA PlcLeaves ==
  ASSUME PlcTick \/ PlcScan \/ (HmiWrites /\ UNCHANGED twinVars) \/ UNCHANGED vars
  PROVE  UNCHANGED <<rfid, tag, is_connected, reads, proc, inbox, mqtt, candy, running,
                     sensor, active, seen, published, cleans, shutdown, inStep>>
<1> USE DEF reader, path, loop, marks, twinVars
<1>1. CASE PlcTick
  BY <1>1 DEF PlcTick, ClockTicks
<1>2. CASE PlcScan
  BY <1>2 DEF PlcScan, CandyCalled, TimerRead, ExtractorStarts, ExtractorStops
<1>3. CASE HmiWrites /\ UNCHANGED twinVars
  BY <1>3
<1>4. CASE UNCHANGED vars
  BY <1>4 DEF vars
<1> QED
  BY <1>1, <1>2, <1>3, <1>4

LEMMA StepStanding ==
  ASSUME PathInv, TwinsTypeOK, Standing, [Next]_vars
  PROVE  Standing'
<1> USE DEF reader, path, loop, marks, twinVars
<1>1. inbox \in Seq(Candies \union {Connect}) /\ mqtt \in Seq(Candies)
      /\ cleans \in Seq(BOOLEAN) /\ published \in Seq(Candies \union {0})
  BY DEF PathInv, TwinsTypeOK
<1>2. CASE PlcTick \/ PlcScan \/ (HmiWrites /\ UNCHANGED twinVars) \/ UNCHANGED vars
  BY <1>2, PlcLeaves DEF Standing
<1>3. CASE Monitor \/ Terminate
  BY <1>3 DEF Monitor, Terminate, Standing
<1>11. ASSUME NEW c \in Candies, ReadTag(c) PROVE Standing'
  BY <1>11 DEF ReadTag, Standing
<1>4. CASE SendConnect
  <2>1. CASE proc = "dead"
    BY <1>4, <2>1 DEF SendConnect, Standing
  <2>2. CASE proc # "dead"
    <3>1. inbox = <<>> /\ mqtt = <<>> /\ inbox' = Append(inbox, Connect)
      BY <1>4, <2>2 DEF SendConnect, Standing
    <3>2. Len(inbox') = 1
      BY <3>1
    <3>3. \A i \in 1..Len(inbox') : i = 1
      BY <3>2
    <3> QED
      BY <1>4, <2>2, <3>1, <3>3 DEF SendConnect, Standing
  <2> QED
    BY <2>1, <2>2
<1>5. CASE SendPublish
  <2>1. CASE proc = "dead"
    BY <1>5, <2>1 DEF SendPublish, Standing
  <2>2. CASE proc # "dead"
    <3>1. tag \in Candies /\ rfid' = "callback"
      BY <1>5, <2>2 DEF SendPublish, PathInv
    <3>2. /\ Len(Append(inbox, tag)) = Len(inbox) + 1 /\ Len(inbox) \in Nat
          /\ \A i \in 1..Len(inbox) : Append(inbox, tag)[i] = inbox[i]
          /\ Append(inbox, tag)[Len(inbox) + 1] = tag
      BY <1>1, <3>1, QueueFacts
    <3>3. tag # Connect
      BY <3>1, CandyAssumption DEF Connect
    <3>4. inbox' = Append(inbox, tag)
          /\ UNCHANGED <<is_connected, mqtt, sensor, active, published, cleans, shutdown>>
      BY <1>5, <2>2 DEF SendPublish
    <3>5. \A i \in 1..Len(inbox') : inbox'[i] = Connect => i \in 1..Len(inbox)
      BY <3>2, <3>3, <3>4
    <3>6. \A i \in 1..Len(inbox') : inbox'[i] = Connect => i = 1 /\ mqtt = <<>>
      BY <3>2, <3>4, <3>5 DEF Standing
    <3>7. is_connected
      BY <1>5 DEF SendPublish, Standing
    <3> QED
      BY <3>1, <3>4, <3>6, <3>7 DEF Standing
  <2> QED
    BY <2>1, <2>2
<1>6. CASE Callback
  BY <1>6 DEF Callback, Standing
<1>7. CASE MqttClient
  <2>1. /\ Head(inbox) = inbox[1] /\ Len(Tail(inbox)) = Len(inbox) - 1
        /\ \A i \in 1..Len(inbox) - 1 : Tail(inbox)[i] = inbox[i + 1]
        /\ Len(inbox) \in Nat /\ Len(inbox) > 0
    BY <1>1, <1>7, QueueFacts DEF MqttClient
  <2>2. UNCHANGED <<reader, sensor, active, published, cleans, shutdown>>
    BY <1>7 DEF MqttClient
  <2>3. is_connected
    BY <1>7, <2>1 DEF MqttClient, Standing
  <2>4. \A i \in 1..Len(inbox) - 1 : Tail(inbox)[i] # Connect
    BY <2>1 DEF Standing
  <2>5. inbox' = Tail(inbox) \/ inbox' = <<>>
    BY <1>7 DEF MqttClient
  <2>6. \A i \in 1..Len(inbox') : inbox'[i] # Connect
    <3>1. CASE inbox' = <<>>
      BY <3>1
    <3>2. CASE inbox' = Tail(inbox)
      BY <2>1, <2>4, <3>2
    <3> QED
      BY <2>5, <3>1, <3>2
  <2> QED
    BY <2>2, <2>3, <2>6 DEF Standing
<1>8. CASE Deliver \/ Lose
  <2>1. mqtt # <<>> /\ UNCHANGED <<reader, inbox, sensor, active, published, cleans, shutdown>>
    BY <1>8 DEF Deliver, Lose
  <2> QED
    BY <2>1 DEF Standing
<1>9. CASE Look
  <2>1. Len(Append(cleans, clean)) = Len(cleans) + 1 /\ Len(cleans) \in Nat
        /\ Len(published) \in Nat
    <3>1. clean \in BOOLEAN
      BY DEF TwinsTypeOK
    <3> QED
      BY <1>1, <3>1, QueueFacts
  <2>2. UNCHANGED <<reader, path, published, shutdown>> /\ sensor = "look"
    BY <1>9 DEF Look
  <2>3. /\ sensor' = "sleep" => ~active' /\ Len(cleans') = Len(cleans) + 1
        /\ sensor' # "sleep" => cleans' = cleans
    BY <1>9, <2>1 DEF Look
  <2>4. Len(cleans) = Len(published)
    BY <2>1, <2>2 DEF Standing, Bit
  <2>5. Len(cleans') = Len(published') + Bit(sensor' = "sleep")
    BY <2>1, <2>2, <2>3, <2>4 DEF Bit
  <2>6. Len(published') <= Len(cleans')
    BY <2>1, <2>2, <2>3, <2>4
  <2> QED
    BY <2>2, <2>3, <2>5, <2>6 DEF Standing
<1>10. CASE Report
  <2>1. Len(Append(published, seen)) = Len(published) + 1 /\ Len(cleans) \in Nat
        /\ Len(published) \in Nat
    <3>1. seen \in Candies \union {0}
      BY DEF TwinsTypeOK
    <3> QED
      BY <1>1, <3>1, QueueFacts
  <2>2. UNCHANGED <<reader, path, cleans, shutdown>> /\ sensor = "sleep" /\ sensor' = "look"
        /\ published' = Append(published, seen)
    BY <1>10 DEF Report
  <2>3. Len(cleans') = Len(published') + Bit(sensor' = "sleep")
    BY <2>1, <2>2 DEF Standing, Bit
  <2>4. Len(published') <= Len(cleans')
    BY <2>1, <2>2, <2>3 DEF Bit
  <2> QED
    BY <2>2, <2>3, <2>4 DEF Standing
<1>12. CASE ReportRaises
  BY <1>12 DEF ReportRaises, Standing
<1> QED
  BY <1>2, <1>3, <1>4, <1>5, <1>6, <1>7, <1>8, <1>9, <1>10, <1>11, <1>12
  DEF Next, Reader, Sensor

LEMMA Parity ==
  ASSUME NEW n \in Int
  PROVE  /\ n % 2 \in {0, 1} /\ ((n + 1) % 2 = 1 <=> n % 2 # 1)
         /\ (2 * n) % 2 = 0 /\ (2 * n + 1) % 2 = 1
OBVIOUS

(* Only Extract and Done switch the extractor, and each switches it over. *)
LEMMA Switches ==
  ASSUME FactoryInv, [Next]_vars
  PROVE  /\ ExtractorStarts => ~ExtractorRunning /\ ExtractorRunning'
         /\ ExtractorStops /\ ExtractorDone => ExtractorRunning /\ ~ExtractorRunning'
         /\ \/ ExtractorStarts \/ ExtractorStops
            \/ UNCHANGED <<ExtractorRunning, extracted>> /\ (~Monitor => UNCHANGED news)
<1> USE DEF extractor, marks, twinVars
<1>1. ExtractorStarts => ~ExtractorRunning /\ ExtractorRunning'
  BY DEF ExtractorStarts, Extract, FactoryInv, CallInv
<1>2. ExtractorStops /\ ExtractorDone => ExtractorRunning /\ ~ExtractorRunning'
  BY DEF ExtractorStops, Done, FactoryInv, TimerInv
<1>3. ASSUME ~ExtractorStarts, ~ExtractorStops
      PROVE  UNCHANGED <<ExtractorRunning, extracted>> /\ (~Monitor => UNCHANGED news)
  <2>1. CASE PlcTick
    BY <2>1 DEF PlcTick, ClockTicks, TickEnd, TickBegin
  <2>2. CASE PlcScan
    <3>1. CandyCalled \/ TimerRead => UNCHANGED <<ExtractorRunning, news, extracted>>
      BY DEF CandyCalled, Test, TimerRead, Timer
    <3>2. (Begin \/ Run \/ Call \/ Halt) /\ UNCHANGED twinVars
            => UNCHANGED <<ExtractorRunning, news, extracted>>
      BY DEF Begin, Run, Call, Halt
    <3> QED
      BY <1>3, <2>2, <3>1, <3>2 DEF PlcScan
  <2>3. CASE HmiWrites /\ UNCHANGED twinVars
    BY <2>3 DEF HmiWrites, PressStart, PressStop, Select
  <2>4. CASE Reader \/ MqttClient \/ Lose \/ Sensor \/ Terminate
             \/ \E c \in Candies : ReadTag(c)
    BY <2>4 DEF Reader, SendConnect, SendPublish, Callback, MqttClient, Lose, Sensor, Look,
       Report, ReportRaises, Terminate, ReadTag, factoryVars
  <2>5. CASE Deliver
    BY <2>5 DEF Deliver, Detect
  <2>6. CASE Monitor
    BY <2>6 DEF Monitor, factoryVars
  <2>7. CASE UNCHANGED vars
    BY <2>7 DEF vars, factoryVars
  <2> QED
    BY <2>1, <2>2, <2>3, <2>4, <2>5, <2>6, <2>7 DEF Next
<1> QED
  BY <1>1, <1>2, <1>3

(* Every change of the extractor is told once, in its turn. *)
LEMMA StepCounted ==
  ASSUME FactoryInv, PathInv, TwinsTypeOK, Standing, Counted, [Next]_vars
  PROVE  Counted'
<1> USE DEF loop, marks, twinVars
<1>1. /\ news \in Seq(BOOLEAN) /\ cleans \in Seq(BOOLEAN) /\ clean \in BOOLEAN
      /\ extracted \in Seq(Candies \union {0})
      /\ matched \in Candies \union {0} /\ ExtractorRunning \in BOOLEAN
      /\ Len(news) \in Nat /\ Len(cleans) \in Nat /\ Len(extracted) \in Nat
  BY LenProperties DEF TwinsTypeOK, FactoryInv, FactoryTypeOK
<1>2. Changes \in Int /\ Told \in Int
  BY <1>1 DEF Changes, Told, Bit
<1>3. CASE ExtractorStarts
  <2>1. /\ ~ExtractorRunning /\ ExtractorRunning' /\ news' = Append(news, TRUE)
        /\ UNCHANGED <<extracted, running, active, cleans>>
    BY <1>3, Switches DEF ExtractorStarts
  <2>2. /\ Len(news') = Len(news) + 1 /\ news'[Len(news) + 1] = TRUE
        /\ \A i \in 1..Len(news) : news'[i] = news[i]
    BY <1>1, <2>1, QueueFacts
  <2>3. Told' = Told
    BY <1>1, <2>1, <2>2 DEF Told, Changes, Bit
  <2>4. (Told + (Len(news) + 1)) % 2 = 1
    <3>1. Told + (Len(news) + 1) = 2 * Len(extracted) + 1
      BY <1>1, <2>1 DEF Told, Changes, Bit
    <3> QED
      BY <1>1, <3>1, Parity
  <2>5. \A i \in 1..Len(news') : news'[i] = ((Told' + i) % 2 = 1)
    <3> TAKE i \in 1..Len(news')
    <3>1. i \in 1..Len(news) \/ i = Len(news) + 1
      BY <1>1, <2>2
    <3> QED
      BY <2>2, <2>3, <2>4, <3>1 DEF Counted
  <2> QED
    BY <2>1, <2>3, <2>5 DEF Counted
<1>4. CASE ExtractorStops
  <2>1. CASE ~ExtractorDone
    <3>1. UNCHANGED <<ExtractorRunning, news, extracted, running, active, cleans>>
      BY <1>4, <2>1 DEF ExtractorStops, Done
    <3> QED
      BY <3>1 DEF Counted, Told, Changes, Bit
  <2>2. CASE ExtractorDone
    <3>1. /\ ExtractorRunning /\ ~ExtractorRunning' /\ news' = Append(news, FALSE)
          /\ extracted' = Append(extracted, matched)
          /\ UNCHANGED <<running, active, cleans>>
      BY <1>4, <2>2, Switches DEF ExtractorStops
    <3>2. /\ Len(news') = Len(news) + 1 /\ news'[Len(news) + 1] = FALSE
          /\ \A i \in 1..Len(news) : news'[i] = news[i]
      BY <1>1, <3>1, QueueFacts
    <3>3. Len(extracted') = Len(extracted) + 1
      BY <1>1, <3>1, QueueFacts
    <3>4. Told' = Told
      BY <1>1, <3>1, <3>2, <3>3 DEF Told, Changes, Bit
    <3>5. (Told + (Len(news) + 1)) % 2 # 1
      <4>1. Told + (Len(news) + 1) = 2 * (Len(extracted) + 1)
        BY <1>1, <3>1 DEF Told, Changes, Bit
      <4>2. (2 * (Len(extracted) + 1)) % 2 = 0
        <5>1. Len(extracted) + 1 \in Int
          BY <1>1
        <5> QED
          BY <5>1, Parity
      <4> QED
        BY <4>1, <4>2
    <3>6. \A i \in 1..Len(news') : news'[i] = ((Told' + i) % 2 = 1)
      <4> TAKE i \in 1..Len(news')
      <4>1. i \in 1..Len(news) \/ i = Len(news) + 1
        BY <1>1, <3>2
      <4> QED
        BY <3>2, <3>4, <3>5, <4>1 DEF Counted
    <3> QED
      BY <3>1, <3>4, <3>6 DEF Counted
  <2> QED
    BY <2>1, <2>2
<1>5. CASE Monitor
  <2>1. /\ news # <<>> /\ running' = Head(news) /\ news' = Tail(news)
        /\ UNCHANGED <<ExtractorRunning, extracted, active, cleans>>
    BY <1>5 DEF Monitor, factoryVars, extractor
  <2>2. /\ Head(news) = news[1] /\ Len(news') = Len(news) - 1 /\ Len(news) > 0
        /\ \A i \in 1..Len(news) - 1 : news'[i] = news[i + 1]
    BY <1>1, <2>1, QueueFacts
  <2>3. Told' = Told + 1
    BY <1>1, <2>1, <2>2 DEF Told, Changes, Bit
  <2>4. running' = (Told' % 2 = 1)
    BY <1>1, <2>1, <2>2, <2>3 DEF Counted
  <2>5. \A i \in 1..Len(news') : news'[i] = ((Told' + i) % 2 = 1)
    <3> TAKE i \in 1..Len(news')
    <3>1. i + 1 \in 1..Len(news) /\ news'[i] = news[i + 1]
      BY <1>1, <2>2
    <3>2. Told + (i + 1) = Told' + i
      BY <1>2, <2>3
    <3>3. news[i + 1] = ((Told + (i + 1)) % 2 = 1)
      BY <3>1 DEF Counted
    <3> QED
      BY <3>1, <3>2, <3>3
  <2>6. 2 * Len(cleans') + Bit(active') <= Told'
    BY <1>1, <1>2, <2>1, <2>3 DEF Counted, Bit
  <2> QED
    BY <2>4, <2>5, <2>6 DEF Counted
<1>6. CASE Look
  <2>1. UNCHANGED <<ExtractorRunning, extracted, news, running>>
    BY <1>6 DEF Look, factoryVars, extractor
  <2>2. Told' = Told
    BY <2>1 DEF Told, Changes
  <2>3. 2 * Len(cleans') + Bit(active') <= Told'
    <3>1. CASE UNCHANGED <<active, cleans>>
      BY <2>2, <3>1 DEF Counted
    <3>2. CASE ~active /\ running /\ active' /\ cleans' = cleans
      <4>1. Told % 2 = 1 /\ 2 * Len(cleans) <= Told
        <5>1. Bit(active) = 0
          BY <3>2 DEF Bit
        <5>2. Told % 2 = 1
          BY <3>2 DEF Counted
        <5>3. 2 * Len(cleans) + Bit(active) <= Told
          BY DEF Counted
        <5> QED
          BY <1>1, <1>2, <5>1, <5>2, <5>3
      <4>2. Told # 2 * Len(cleans)
        BY <1>1, <4>1, Parity
      <4> QED
        BY <1>1, <1>2, <2>2, <3>2, <4>1, <4>2 DEF Bit
    <3>3. CASE active /\ ~running /\ ~active'
               /\ cleans' \in {cleans, Append(cleans, clean)}
      <4>1. Told % 2 # 1 /\ 2 * Len(cleans) + 1 <= Told
        <5>1. Bit(active) = 1
          BY <3>3 DEF Bit
        <5> QED
          BY <1>1, <1>2, <3>3, <5>1 DEF Counted
      <4>2. Told # 2 * Len(cleans) + 1
        BY <1>1, <4>1, Parity
      <4>3. Len(cleans') \in {Len(cleans), Len(cleans) + 1}
        BY <1>1, <3>3, QueueFacts
      <4>4. Bit(active') = 0
        BY <3>3 DEF Bit
      <4>5. 2 * Len(cleans) + 2 <= Told
        BY <1>1, <1>2, <4>1, <4>2
      <4> QED
        BY <1>1, <1>2, <2>2, <4>3, <4>4, <4>5
    <3>4. active \in BOOLEAN /\ running \in BOOLEAN
      BY DEF TwinsTypeOK
    <3> QED
      BY <1>6, <3>1, <3>2, <3>3, <3>4 DEF Look
  <2> QED
    BY <2>1, <2>2, <2>3 DEF Counted
<1>7. CASE ~ExtractorStarts /\ ~ExtractorStops /\ ~Monitor /\ ~Look
  <2>1. UNCHANGED <<ExtractorRunning, news, extracted>>
    BY <1>7, Switches
  <2>2. UNCHANGED <<running, active, cleans>>
    <3>1. Reader \/ MqttClient \/ Deliver \/ Lose \/ Report \/ ReportRaises \/ Terminate
          \/ (\E c \in Candies : ReadTag(c)) => UNCHANGED <<running, active, cleans>>
      BY DEF Reader, SendConnect, SendPublish, Callback, MqttClient, Deliver, Lose,
         Report, ReportRaises, Terminate, ReadTag
    <3> QED
      BY <1>7, <3>1, PlcLeaves DEF Next, Sensor
  <2> QED
    BY <2>1, <2>2 DEF Counted, Told, Changes, Bit
<1> QED
  BY <1>3, <1>4, <1>5, <1>6, <1>7

(* A candy that is called was detected, and DetectedCandy is not reset. *)
LEMMA StepKnown ==
  ASSUME FactoryInv, PathInv, Known, [Next]_vars
  PROVE  Known'
<1> USE DEF operator, belt, call, extractor, timer, clock, bounds
<1>1. [FactoryNext]_factoryVars
  BY StepImplements
<1>2. CASE Tick
  BY <1>2 DEF Tick, TickBegin, TickEnd, Known
<1>3. CASE Scan
  <2>1. CASE Test
    BY <2>1 DEF Test, Matches, Known
  <2>2. CASE Call
    BY <2>2 DEF Call, Known
  <2>3. CASE Begin \/ Run \/ Timer \/ Halt \/ Extract \/ Done
    BY <2>3 DEF Begin, Run, Timer, Halt, Extract, Done, Known, FactoryInv, FactoryTypeOK
  <2> QED
    BY <1>3, <2>1, <2>2, <2>3 DEF Scan, Statement
<1>4. CASE HmiWrites
  BY <1>4 DEF HmiWrites, PressStart, PressStop, Select, Known
<1>5. ASSUME NEW c \in Candies, Detect(c) PROVE Known'
  BY <1>5, CandyAssumption DEF Detect, Known
<1>6. CASE UNCHANGED factoryVars
  BY <1>6 DEF factoryVars, Known
<1> QED
  BY <1>1, <1>2, <1>3, <1>4, <1>5, <1>6 DEF FactoryNext


(* The tag published last is the last of those on their way. *)
LEMMA StepTagged ==
  ASSUME PathInv, TwinsTypeOK, Standing, Tagged, ~shutdown', [Next]_vars
  PROVE  Tagged'
<1> USE DEF reader, path, loop, marks, twinVars
<1>1. inbox \in Seq(Candies \union {Connect}) /\ mqtt \in Seq(Candies)
      /\ Len(inbox) \in Nat /\ Len(mqtt) \in Nat
  BY LenProperties DEF PathInv
<1>2. CASE UNCHANGED <<DetectedCandy, mqtt, inbox, Latest, inStep, clean, matched>>
  BY <1>2 DEF Tagged
<1>3. CASE CandyCalled
  <2>1. UNCHANGED <<DetectedCandy, mqtt, inbox, Latest, inStep>>
    BY <1>3 DEF CandyCalled, Test, Latest
  <2>2. \/ matched' = DetectedCandy /\ clean' = inStep
        \/ matched' = matched /\ clean' = clean
    BY <1>3 DEF CandyCalled, Test
  <2>3. clean' => matched' = Latest'
    BY <2>1, <2>2 DEF Tagged
  <2> QED
    BY <2>1, <2>3 DEF Tagged
<1>4. CASE (PlcTick \/ PlcScan \/ (HmiWrites /\ UNCHANGED twinVars)) /\ ~CandyCalled
  <2>1. UNCHANGED <<mqtt, inbox, Latest, inStep>>
    BY <1>4, PlcLeaves DEF Latest
  <2>2. UNCHANGED <<DetectedCandy, clean, matched>>
    <3> USE DEF call
    <3>1. CASE PlcTick
      BY <3>1 DEF PlcTick, ClockTicks, TickBegin, TickEnd
    <3>2. CASE PlcScan
      BY <1>4, <3>2 DEF PlcScan, TimerRead, ExtractorStarts, ExtractorStops, Timer,
         Extract, Done, Begin, Run, Call, Halt
    <3>3. CASE HmiWrites /\ UNCHANGED twinVars
      BY <3>3 DEF HmiWrites, PressStart, PressStop, Select
    <3> QED
      BY <1>4, <3>1, <3>2, <3>3
  <2> QED
    BY <1>2, <2>1, <2>2
<1>5. CASE Monitor \/ Sensor \/ Terminate \/ (\E c \in Candies : ReadTag(c))
           \/ UNCHANGED vars
  <2>1. UNCHANGED <<DetectedCandy, mqtt, inbox, Latest, inStep, clean, matched>>
    BY <1>5 DEF Monitor, Sensor, Look, Report, ReportRaises, Terminate, ReadTag, Latest, vars,
       factoryVars, call
  <2> QED
    BY <1>2, <2>1
<1>6. CASE SendConnect
  <2>1. UNCHANGED <<DetectedCandy, mqtt, Latest, inStep, clean, matched>>
    BY <1>6 DEF SendConnect, factoryVars, call, Latest
  <2>2. CASE inbox' = inbox
    BY <1>2, <2>1, <2>2
  <2>3. CASE inbox' = Append(inbox, Connect)
    <3>1. inbox = <<>> /\ mqtt = <<>>
      BY <1>6 DEF SendConnect, Standing
    <3>2. \A i \in 1..Len(inbox') : inbox'[i] = Connect
      BY <2>3, <3>1
    <3>3. inbox' # <<>> /\ inbox'[Len(inbox')] = Connect
      BY <2>3, <3>1
    <3> QED
      BY <2>1, <3>1, <3>2, <3>3 DEF Tagged
  <2> QED
    BY <1>6, <2>2, <2>3 DEF SendConnect
<1>7. CASE SendPublish
  <2>1. CASE proc = "dead"
    <3>1. UNCHANGED <<DetectedCandy, mqtt, inbox, Latest, inStep, clean, matched>>
      BY <1>7, <2>1 DEF SendPublish, factoryVars, call, Latest
    <3> QED
      BY <1>2, <3>1
  <2>2. CASE proc # "dead"
    <3>1. tag \in Candies /\ Latest' = tag /\ inbox' = Append(inbox, tag)
          /\ ~inStep' /\ ~clean'
      BY <1>7, <2>2 DEF SendPublish, PathInv, Latest
    <3>2. inbox' # <<>> /\ inbox'[Len(inbox')] = tag
      BY <1>1, <3>1, QueueFacts
    <3>3. tag # 0
      BY <3>1, CandyAssumption
    <3> QED
      BY <3>1, <3>2, <3>3 DEF Tagged
  <2> QED
    BY <2>1, <2>2
<1>8. CASE Callback
  <2>1. UNCHANGED <<DetectedCandy, mqtt, inbox, inStep, clean, matched>>
    BY <1>8 DEF Callback, factoryVars, call
  <2>2. Latest' = Latest
    BY <1>8 DEF Callback, Latest
  <2> QED
    BY <1>2, <2>1, <2>2
<1>9. CASE MqttClient
  <2>1. UNCHANGED <<DetectedCandy, Latest, inStep, clean, matched>>
    BY <1>9 DEF MqttClient, factoryVars, call, Latest
  <2>2. /\ Head(inbox) = inbox[1] /\ Tail(inbox) \in Seq(Candies \union {Connect})
        /\ Len(Tail(inbox)) = Len(inbox) - 1 /\ Len(inbox) > 0
        /\ \A i \in 1..Len(inbox) - 1 : Tail(inbox)[i] = inbox[i + 1]
        /\ Tail(inbox) = <<>> <=> Len(Tail(inbox)) = 0
    <3>1. inbox # <<>>
      BY <1>9 DEF MqttClient
    <3>2. Tail(inbox) \in Seq(Candies \union {Connect})
      BY <1>1, <3>1, QueueFacts
    <3> QED
      BY <1>1, <3>1, <3>2, QueueFacts
  <2>3. Tail(inbox) # <<>> => Tail(inbox)[Len(Tail(inbox))] = inbox[Len(inbox)]
    BY <1>1, <2>2
  <2>4. \A i \in 1..Len(Tail(inbox)) : Tail(inbox)[i] # Connect
    BY <1>1, <2>2 DEF Standing
  <2>5. inbox # <<>>
    BY <1>9 DEF MqttClient
  <2>6. CASE Head(inbox) = Connect
    <3>1. mqtt = <<>> /\ mqtt' = <<>> /\ inbox' \in {<<>>, Tail(inbox)}
      BY <1>1, <1>9, <2>2, <2>6 DEF MqttClient, Standing
    <3>2. (\E i \in 1..Len(inbox') : inbox'[i] # Connect)
             => \E i \in 1..Len(inbox) : inbox[i] # Connect
      BY <1>1, <2>2, <3>1
    <3>3. inbox' # <<>> => inbox'[Len(inbox')] = inbox[Len(inbox)]
      BY <2>3, <3>1
    <3>4. DetectedCandy' # 0 \/ mqtt' # <<>>
            \/ (\E i \in 1..Len(inbox') : inbox'[i] # Connect) => Latest' # 0
      BY <2>1, <3>1, <3>2 DEF Tagged
    <3>5. inbox' # <<>> /\ inbox'[Len(inbox')] # Connect => inbox'[Len(inbox')] = Latest'
      BY <2>1, <2>5, <3>3 DEF Tagged
    <3>6. inStep' => /\ \A i \in 1..Len(inbox') : inbox'[i] = Connect
                     /\ DetectedCandy' = Latest'
      BY <2>1, <3>2 DEF Tagged
    <3> QED
      BY <2>1, <3>1, <3>4, <3>5, <3>6 DEF Tagged
  <2>7. CASE Head(inbox) # Connect
    <3>1. inbox' = Tail(inbox) /\ mqtt' = Append(mqtt, Head(inbox))
      BY <1>9, <2>7 DEF MqttClient
    <3>2. Head(inbox) \in Candies
      BY <1>1, <2>2, <2>7
    <3>3. mqtt' # <<>> /\ mqtt'[Len(mqtt')] = Head(inbox)
      BY <1>1, <3>1, <3>2, QueueFacts
    <3>4. ~inStep /\ Latest # 0
      BY <1>1, <2>2, <2>7 DEF Tagged
    <3>5. inbox' = <<>> => Head(inbox) = Latest
      BY <1>1, <2>2, <2>5, <2>7, <3>1 DEF Tagged
    <3>6. inbox' # <<>> => inbox'[Len(inbox')] = inbox[Len(inbox)]
      BY <2>3, <3>1
    <3>7. inbox' # <<>> /\ inbox'[Len(inbox')] # Connect => inbox'[Len(inbox')] = Latest'
      BY <2>1, <2>5, <3>6 DEF Tagged
    <3> QED
      BY <2>1, <3>3, <3>4, <3>5, <3>7 DEF Tagged
  <2> QED
    BY <2>6, <2>7
<1>10. CASE Deliver \/ Lose
  <2>1. UNCHANGED <<inbox, Latest, clean, matched>> /\ mqtt # <<>> /\ mqtt' = Tail(mqtt)
    BY <1>10 DEF Deliver, Detect, Lose, factoryVars, call, Latest
  <2>2. /\ Head(mqtt) = mqtt[1] /\ Len(Tail(mqtt)) = Len(mqtt) - 1
        /\ \A i \in 1..Len(mqtt) - 1 : Tail(mqtt)[i] = mqtt[i + 1]
    BY <1>1, <2>1, QueueFacts
  <2>3. mqtt' # <<>> => mqtt'[Len(mqtt')] = mqtt[Len(mqtt)]
    BY <1>1, <2>1, <2>2
  <2>4. inbox' = <<>> /\ mqtt' # <<>> => mqtt'[Len(mqtt')] = Latest'
    BY <2>1, <2>3 DEF Tagged
  <2>5. inStep' => mqtt' = <<>> /\ inbox' = <<>> /\ DetectedCandy' = Latest'
    <3>1. ~inStep
      BY <2>1 DEF Tagged
    <3>2. CASE Lose
      BY <3>1, <3>2 DEF Lose
    <3>3. CASE Deliver /\ inStep'
      <4>1. mqtt' = <<>> /\ inbox = <<>> /\ DetectedCandy' = Head(mqtt)
        BY <3>1, <3>3 DEF Deliver, Detect
      <4>2. Len(mqtt) = 1
        BY <1>1, <2>1, <2>2, <4>1
      <4> QED
        BY <2>1, <2>2, <4>1, <4>2 DEF Tagged
    <3> QED
      BY <1>10, <3>2, <3>3
  <2> QED
    BY <2>1, <2>4, <2>5 DEF Tagged
<1> QED
  BY <1>3, <1>4, <1>5, <1>6, <1>7, <1>8, <1>9, <1>10 DEF Next, Reader

(* A regular tick finds the scan of the last one done. *)
LEMMA StepInTime ==
  ASSUME FactoryInv, InTime, ~irregular', [Next]_vars
  PROVE  InTime'
<1> USE DEF FactoryInv, FactoryTypeOK
<1>1. CASE ClockTicks
  <2>1. pc = "rest" /\ ~(ticks > 0)
    BY <1>1 DEF ClockTicks
  <2>2. ticks = 0
    BY <2>1
  <2>3. ticks' = ticks + 1 /\ UNCHANGED <<torn, pc>>
    BY <1>1 DEF ClockTicks, TickEnd
  <2> QED
    BY <2>1, <2>2, <2>3 DEF InTime
<1>2. CASE Begin
  BY <1>2 DEF Begin, InTime, timer
<1>3. CASE TimerRead
  <2>1. torn' = torn \/ (ticking /\ ExtractorRunning)
    BY <1>3 DEF TimerRead, Timer
  <2>2. ~(ticking /\ ExtractorRunning)
    BY <1>3 DEF TimerRead
  <2>3. ticks' = ticks /\ pc = "timer"
    BY <1>3 DEF TimerRead, Timer, clock
  <2> QED
    BY <2>1, <2>2, <2>3 DEF InTime
<1>4. CASE ExtractorStarts
  BY <1>4 DEF ExtractorStarts, Extract, InTime
<1>5. CASE ExtractorStops
  BY <1>5 DEF ExtractorStops, Done, InTime, clock
<1>6. CASE CandyCalled
  BY <1>6 DEF CandyCalled, Test, InTime, clock, timer
<1>7. CASE Run \/ Call \/ Halt
  BY <1>7 DEF Run, Call, Halt, InTime, clock, timer
<1>8. CASE TickBegin
  BY <1>8 DEF TickBegin, InTime, timer
<1>9. CASE HmiWrites
  BY <1>9 DEF HmiWrites, PressStart, PressStop, Select, InTime, clock, timer
<1>10. CASE Deliver
  BY <1>10 DEF Deliver, Detect, InTime, clock, timer
<1>11. CASE Reader \/ MqttClient \/ Lose \/ Monitor \/ Sensor \/ Terminate
           \/ (\E c \in Candies : ReadTag(c)) \/ UNCHANGED vars
  BY <1>11 DEF Reader, SendConnect, SendPublish, Callback, MqttClient, Lose, Monitor,
     Sensor, Look, Report, ReportRaises, Terminate, ReadTag, InTime, vars, factoryVars, clock, timer
<1> QED
  BY <1>1, <1>2, <1>3, <1>4, <1>5, <1>6, <1>7, <1>8, <1>9, <1>10, <1>11
  DEF Next, PlcTick, PlcScan

(* How far the sensor is behind, from what it has been told. *)
LEMMA Behind ==
  ASSUME FactoryTypeOK, TwinsTypeOK, Counted, Follows
  PROVE  /\ Len(extracted) = Len(cleans) + Bit(active /\ ~ExtractorRunning)
         /\ news = <<>> => running = ExtractorRunning
         /\ running # active => ExtractorRunning = running
<1>1. /\ Len(news) \in Nat /\ Len(cleans) \in Nat /\ Len(extracted) \in Nat
      /\ ExtractorRunning \in BOOLEAN /\ active \in BOOLEAN /\ running \in BOOLEAN
  BY LenProperties DEF TwinsTypeOK, FactoryTypeOK
<1>2. Changes - (2 * Len(cleans) + Bit(active)) \in {0, 1}
  BY DEF Follows
<1>3. Len(extracted) = Len(cleans) + Bit(active /\ ~ExtractorRunning)
  BY <1>1, <1>2 DEF Changes, Bit
<1>4. Changes % 2 = Bit(ExtractorRunning)
  <2>1. (2 * Len(extracted)) % 2 = 0 /\ (2 * Len(extracted) + 1) % 2 = 1
    <3>1. Len(extracted) \in Int
      BY <1>1
    <3> QED
      BY <3>1, Parity
  <2>2. Changes \in {2 * Len(extracted), 2 * Len(extracted) + 1}
    BY <1>1 DEF Changes, Bit
  <2> QED
    BY <1>1, <2>1 DEF Changes, Bit
<1>5. ASSUME news = <<>> PROVE running = ExtractorRunning
  <2>1. Told = Changes
    BY <1>1, <1>5 DEF Told, Changes, Bit
  <2>2. running = (Changes % 2 = 1)
    BY <2>1 DEF Counted
  <2> QED
    BY <1>1, <1>4, <2>2 DEF Bit
<1>6. ASSUME running # active PROVE ExtractorRunning = running
  <2>1. running = (Told % 2 = 1) /\ Told \in Int
    BY <1>1 DEF Counted, Told, Changes, Bit
  <2>2. Told % 2 = 1 \/ Told % 2 = 0
    BY <2>1, Parity
  <2>3. 2 * Len(cleans) + Bit(active) <= Told
    BY DEF Counted
  <2>4. (2 * Len(cleans)) % 2 = 0 /\ (2 * Len(cleans) + 1) % 2 = 1
    <3>1. Len(cleans) \in Int
      BY <1>1
    <3> QED
      BY <3>1, Parity
  <2>5. Told # 2 * Len(cleans) + Bit(active)
    BY <1>1, <1>6, <2>1, <2>4 DEF Bit
  <2>6. 2 * Len(cleans) + Bit(active) < Told /\ Told <= Changes /\ Changes \in Int
    BY <1>1, <2>1, <2>3, <2>5 DEF Told, Changes, Bit
  <2>7. Told = Changes
    BY <1>1, <1>2, <2>1, <2>6 DEF Bit
  <2> QED
    BY <1>1, <1>4, <2>1, <2>7 DEF Bit
<1> QED
  BY <1>3, <1>5, <1>6

(* Once late or torn, terminated or ended: for good. *)
LEMMA Lasting ==
  ASSUME TwinsTypeOK, [Next]_vars
  PROVE  /\ irregular => irregular'
         /\ shutdown => shutdown'
         /\ sensor = "ended" => sensor' = "ended"
<1> USE DEF marks, loop, twinVars
<1>1. irregular \in BOOLEAN /\ shutdown \in BOOLEAN
  BY DEF TwinsTypeOK
<1>2. CASE PlcTick
  BY <1>1, <1>2 DEF PlcTick, ClockTicks
<1>3. CASE PlcScan
  BY <1>1, <1>3, PlcLeaves DEF PlcScan, CandyCalled, TimerRead, ExtractorStarts,
     ExtractorStops
<1>4. CASE HmiWrites /\ UNCHANGED twinVars
  BY <1>4 DEF loop
<1>5. CASE Reader \/ MqttClient \/ Deliver \/ Lose \/ Monitor \/ Sensor \/ Terminate
           \/ (\E c \in Candies : ReadTag(c)) \/ UNCHANGED vars
  BY <1>5 DEF Reader, SendConnect, SendPublish, Callback, MqttClient, Deliver, Lose,
     Monitor, Sensor, Look, Report, ReportRaises, Terminate, ReadTag, vars
<1> QED
  BY <1>2, <1>3, <1>4, <1>5 DEF Next

(* What the sensor reads when an extraction ends is what was extracted. *)
LEMMA StepRight ==
  ASSUME FactoryInv, PathInv, TwinsTypeOK, Standing, Counted, Right,
         ~shutdown => Tagged /\ (sensor # "ended" => Follows), [Next]_vars
  PROVE  Right'
<1> USE DEF reader, path, loop, marks, twinVars
<1>1. /\ cleans \in Seq(BOOLEAN) /\ clean \in BOOLEAN
      /\ published \in Seq(Candies \union {0}) /\ seen \in Candies \union {0}
      /\ extracted \in Seq(Candies \union {0}) /\ matched \in Candies \union {0}
      /\ Len(cleans) \in Nat /\ Len(published) \in Nat /\ Len(extracted) \in Nat
      /\ FactoryTypeOK
  BY LenProperties DEF TwinsTypeOK, FactoryInv, FactoryTypeOK
<1>2. CASE UNCHANGED <<cleans, published, seen, extracted>>
  BY <1>2 DEF Right, Reported
<1>3. CASE ExtractorStops
  <2>1. CASE ~ExtractorDone
    BY <1>2, <1>3, <2>1 DEF ExtractorStops
  <2>2. CASE ExtractorDone
    <3>1. extracted' = Append(extracted, matched) /\ UNCHANGED <<cleans, published, seen>>
      BY <1>3, <2>2 DEF ExtractorStops
    <3>2. \A i \in 1..Len(extracted) : extracted'[i] = extracted[i]
      BY <1>1, <3>1, QueueFacts
    <3>3. Len(cleans) <= Len(extracted)
      <4>1. 2 * Len(cleans) + Bit(active) <= Told /\ Len(news) \in Nat
        BY LenProperties DEF Counted, TwinsTypeOK
      <4> QED
        BY <1>1, <4>1 DEF Told, Changes, Bit
    <3>4. \A i \in 1..Len(cleans) : extracted'[i] = extracted[i]
      BY <1>1, <3>2, <3>3
    <3> QED
      BY <3>1, <3>4 DEF Right, Reported
  <2> QED
    BY <2>1, <2>2
<1>4. CASE Look
  <2>1. UNCHANGED <<published, extracted, candy, rfid, tag>> /\ sensor = "look"
    BY <1>4 DEF Look
  <2>2. Len(cleans) = Len(published)
    BY <1>1, <2>1 DEF Standing, Bit
  <2>3. CASE UNCHANGED <<seen, cleans>>
    BY <1>2, <2>1, <2>3
  <2>4. CASE /\ ~shutdown /\ active # running /\ ~running
             /\ seen' = candy /\ cleans' = Append(cleans, clean)
    <3>1. /\ Len(cleans') = Len(cleans) + 1 /\ cleans'[Len(cleans) + 1] = clean
          /\ \A i \in 1..Len(cleans) : cleans'[i] = cleans[i]
      BY <1>1, <2>4, QueueFacts
    <3>2. active /\ running = FALSE /\ running # active
      BY <2>4 DEF TwinsTypeOK
    <3>3. Tagged /\ Follows
      BY <2>1, <2>4
    <3>4. ExtractorRunning = FALSE
      BY <1>1, <3>2, <3>3, Behind
    <3>5. Len(extracted) = Len(cleans) + Bit(active /\ ~ExtractorRunning)
      BY <1>1, <3>3, Behind
    <3>6. Len(extracted) = Len(cleans) + 1
      BY <1>1, <3>2, <3>4, <3>5 DEF Bit
    <3>7. extracted[Len(cleans) + 1] = matched
      BY <1>1, <3>2, <3>3, <3>4, <3>6 DEF Follows
    <3>8. clean => matched = candy
      BY <3>2, <3>3, <3>4 DEF Follows, Tagged, Latest
    <3>9. ASSUME NEW i \in 1..Len(cleans'), cleans'[i]
          PROVE  Reported(i)' = extracted'[i]
      <4>1. CASE i \in 1..Len(cleans)
        BY <1>1, <2>1, <2>2, <3>1, <3>9, <4>1 DEF Right, Reported
      <4>2. CASE i = Len(cleans) + 1
        <5>1. clean
          BY <3>1, <3>9, <4>2
        <5>2. Reported(i)' = candy
          BY <1>1, <2>1, <2>2, <2>4, <4>2 DEF Reported
        <5> QED
          BY <2>1, <3>7, <3>8, <4>2, <5>1, <5>2
      <4> QED
        BY <1>1, <3>1, <4>1, <4>2
    <3> QED
      BY <3>9 DEF Right
  <2> QED
    BY <1>4, <2>3, <2>4 DEF Look
<1>5. CASE Report
  <2>1. UNCHANGED <<cleans, extracted, seen>> /\ published' = Append(published, seen)
        /\ sensor = "sleep"
    BY <1>5 DEF Report
  <2>2. Len(cleans) = Len(published) + 1
    BY <1>1, <2>1 DEF Standing, Bit
  <2>3. /\ Len(published') = Len(published) + 1
        /\ \A i \in 1..Len(published) : published'[i] = published[i]
        /\ published'[Len(published) + 1] = seen
    BY <1>1, <2>1, QueueFacts
  <2>4. ASSUME NEW i \in 1..Len(cleans) PROVE Reported(i)' = Reported(i)
    <3>1. CASE i \in 1..Len(published)
      BY <1>1, <2>3, <3>1 DEF Reported
    <3>2. CASE i = Len(published) + 1
      BY <1>1, <2>3, <3>2 DEF Reported
    <3> QED
      BY <1>1, <2>2, <3>1, <3>2
  <2> QED
    BY <2>1, <2>4 DEF Right
<1>6. CASE ~ExtractorStops /\ ~Look /\ ~Report
  <2>1. UNCHANGED <<cleans, published, seen>>
    <3>1. Reader \/ MqttClient \/ Deliver \/ Lose \/ Monitor \/ Terminate \/ ReportRaises
          \/ (\E c \in Candies : ReadTag(c)) => UNCHANGED <<cleans, published, seen>>
      BY DEF Reader, SendConnect, SendPublish, Callback, MqttClient, Deliver, Lose,
         Monitor, Terminate, ReadTag, ReportRaises
    <3> QED
      BY <1>6, <3>1, PlcLeaves DEF Next, Sensor
  <2>2. UNCHANGED extracted
    BY <1>6, Switches DEF ExtractorStarts
  <2> QED
    BY <1>2, <2>1, <2>2
<1> QED
  BY <1>3, <1>4, <1>5, <1>6

(* The sensor keeps up: it is awake before the extraction after the one it  *)
(* reports can end.                                                         *)
LEMMA StepFollows ==
  ASSUME FactoryInv, PathInv, TwinsTypeOK, Standing, Counted, Known, Tagged, InTime,
         Follows, ~irregular', ~shutdown', sensor' # "ended", [Next]_vars
  PROVE  Follows'
<1> USE DEF reader, path, loop, marks, twinVars
<1>1. /\ cleans \in Seq(BOOLEAN) /\ clean \in BOOLEAN
      /\ extracted \in Seq(Candies \union {0}) /\ matched \in Candies \union {0}
      /\ Len(cleans) \in Nat /\ Len(extracted) \in Nat
      /\ FactoryTypeOK /\ ExtractorRunning \in BOOLEAN /\ active \in BOOLEAN
      /\ running \in BOOLEAN /\ age \in Nat /\ asleep \in 0..SleepTicks
      /\ SleepTicks \in Nat \ {0} /\ Delay \in Nat /\ ticks \in Nat
  BY LenProperties, SensorAssumption, CandyAssumption
  DEF TwinsTypeOK, FactoryInv, FactoryTypeOK
<1>2. /\ Len(extracted) = Len(cleans) + Bit(active /\ ~ExtractorRunning)
      /\ news = <<>> => running = ExtractorRunning
      /\ running # active => ExtractorRunning = running
  BY <1>1, Behind
<1>3. ~irregular /\ ~shutdown /\ sensor # "ended"
  BY Lasting
<1>4. pc # "rest" => ticks = 0 /\ (active => ExtractorRunning)
                     /\ (sensor = "sleep" => asleep <= SleepTicks - 1)
  BY DEF InTime, Follows, ScanOver
<1>5. CASE UNCHANGED <<ExtractorRunning, extracted, cleans, active, pc, ticks, matched,
                       age, sensor, asleep, candy, clean, rfid>>
  BY <1>5 DEF Follows, Changes, ScanOver
<1>6. CASE ClockTicks
  <2>1. /\ pc = "rest" /\ ticks = 0 /\ Settled
        /\ UNCHANGED <<ExtractorRunning, extracted, cleans, active, matched, sensor, candy,
                       clean, rfid>>
        /\ pc' = "rest" /\ ticks' = 1 /\ age' <= age + 1 /\ asleep' = Asleep
    <3>1. pc = "rest" /\ ~(ticks > 0)
      BY <1>6 DEF ClockTicks
    <3>2. ticks = 0
      BY <1>1, <3>1
    <3>3. /\ UNCHANGED <<ExtractorRunning, extracted, cleans, active, matched, sensor,
                         candy, clean, rfid, pc>>
          /\ Settled /\ asleep' = Asleep
      BY <1>6 DEF ClockTicks, TickEnd, call, extractor
    <3>4. ticks' = ticks + 1 /\ age' <= age + 1
      BY <1>1, <1>6 DEF ClockTicks, TickEnd
    <3> QED
      BY <3>1, <3>2, <3>3, <3>4
  <2>2. CASE sensor = "look"
    <3>1. active = running /\ news = <<>> /\ rfid # "callback"
      BY <2>1, <2>2 DEF Settled
    <3>2. active = ExtractorRunning
      BY <1>2, <3>1
    <3>3. active => candy # 0
      BY <3>1, <3>2 DEF Known, Tagged, Latest
    <3> QED
      BY <2>1, <2>2, <3>1, <3>2, <3>3 DEF Follows, Changes, ScanOver
  <2>3. CASE sensor = "sleep"
    <3>1. ~active /\ asleep > 0 /\ asleep' = asleep - 1
      BY <2>1, <2>3 DEF Standing, Settled, Asleep
    <3>2. ASSUME ExtractorRunning PROVE age' + asleep' <= SleepTicks - 1
      <4>1. age + asleep <= SleepTicks - 1
        BY <2>3, <3>1, <3>2 DEF Follows
      <4>3. age' <= age + 1
        BY <2>1
      <4>2. age' \in Int
        BY <1>1, <1>6 DEF ClockTicks, TickEnd
      <4>4. age \in Int /\ asleep \in Int /\ SleepTicks \in Int
        BY <1>1
      <4>5. asleep' = asleep - 1
        BY <3>1
      <4>6. asleep' \in Int
        BY <4>4, <4>5
      <4>7. \A a, b, c, d, n \in Int :
              a + b <= n - 1 /\ c <= a + 1 /\ d = b - 1 => c + d <= n - 1
        OBVIOUS
      <4> QED
        BY <4>1, <4>2, <4>3, <4>4, <4>5, <4>6, <4>7
    <3>3. asleep' <= SleepTicks - 1
      BY <1>1, <3>1
    <3> QED
      BY <2>1, <2>3, <3>1, <3>2, <3>3 DEF Follows, Changes
  <2> QED
    BY <1>3, <2>2, <2>3 DEF TwinsTypeOK
<1>7. CASE Begin /\ UNCHANGED twinVars
  <2>1. /\ ticks > 0 /\ pc' = "run"
        /\ UNCHANGED <<ExtractorRunning, extracted, cleans, active, matched,
                       age, sensor, asleep, candy, clean, rfid>>
    BY <1>7 DEF Begin, call, extractor
  <2>2. ~ScanOver /\ ~ScanOver'
    BY <2>1 DEF ScanOver
  <2> QED
    BY <2>1, <2>2 DEF Follows, Changes
<1>8. CASE TimerRead \/ ((Run \/ Call \/ Halt) /\ UNCHANGED twinVars)
  <2>1. /\ pc # "rest" /\ pc' # "rest"
        /\ UNCHANGED <<ExtractorRunning, extracted, cleans, active, matched,
                       age, sensor, asleep, candy, clean, rfid>>
    <3>1. CASE TimerRead
      BY <3>1 DEF TimerRead, Timer, call, extractor, clock
    <3>2. CASE (Run \/ Call \/ Halt) /\ UNCHANGED twinVars
      BY <3>2 DEF Run, Call, Halt, call, extractor, clock
    <3> QED
      BY <1>8, <3>1, <3>2
  <2>2. ~ScanOver /\ ~ScanOver'
    BY <2>1 DEF ScanOver
  <2> QED
    BY <2>1, <2>2 DEF Follows, Changes
<1>9. CASE CandyCalled
  <2>1. /\ pc = "test" /\ pc' # "rest"
        /\ UNCHANGED <<ExtractorRunning, extracted, cleans, active,
                       age, sensor, asleep, candy, rfid>>
    BY <1>9 DEF CandyCalled, Test, extractor, clock
  <2>2. ~ScanOver /\ ~ScanOver'
    BY <2>1 DEF ScanOver
  <2>3. active => clean' = clean
    <3>1. Matches => ~ExtractorRunning
      BY DEF Matches, FactoryInv, CallInv, Exclusion
    <3> QED
      BY <1>4, <1>9, <2>1, <3>1 DEF CandyCalled
  <2> QED
    BY <2>1, <2>2, <2>3 DEF Follows, Changes
<1>10. CASE ExtractorStarts
  <2>1. /\ pc = "extract" /\ pc' = "done" /\ age' = 0
        /\ UNCHANGED <<extracted, cleans, active, sensor, asleep>>
        /\ ~ExtractorRunning /\ ExtractorRunning'
    BY <1>10, Switches DEF ExtractorStarts, Extract
  <2>2. ~active /\ Len(extracted) = Len(cleans)
    BY <1>1, <1>2, <1>4, <2>1 DEF Bit
  <2>3. Changes' - (2 * Len(cleans') + Bit(active')) \in {0, 1}
    BY <1>1, <2>1, <2>2 DEF Changes, Bit
  <2>4. age' + (IF sensor' = "sleep" THEN asleep' ELSE 0) <= SleepTicks - 1
    BY <1>1, <1>4, <2>1
  <2>5. sensor' = "sleep" => asleep' <= SleepTicks - 1
    BY <1>4, <2>1
  <2> QED
    BY <2>1, <2>2, <2>3, <2>4, <2>5 DEF Follows
<1>11. CASE ExtractorStops /\ ~ExtractorDone
  <2>1. /\ pc = "done" /\ pc' = "rest" /\ ticks' = ticks
        /\ UNCHANGED <<ExtractorRunning, extracted, cleans, active, matched,
                       age, sensor, asleep, candy, clean, rfid>>
    BY <1>11 DEF ExtractorStops, Done, call, clock
  <2>2. ScanOver' /\ (active => ExtractorRunning)
    BY <1>4, <2>1 DEF ScanOver
  <2> QED
    BY <2>1, <2>2 DEF Follows, Changes
<1>12. CASE ExtractorStops /\ ExtractorDone
  <2>1. /\ pc = "done" /\ pc' = "rest" /\ ticks' = ticks
        /\ extracted' = Append(extracted, matched)
        /\ UNCHANGED <<cleans, active, matched, age, sensor, asleep, candy, clean, rfid>>
        /\ ExtractorRunning /\ ~ExtractorRunning'
    BY <1>12, Switches DEF ExtractorStops, Done, call, clock
  <2>2. age >= Delay /\ age > SleepTicks - 1
    <3>1. age >= Delay
      BY <1>12, <2>1 DEF FactoryInv, TimerInv, InTime
    <3> QED
      BY <1>1, <3>1, SleepAssumption
  <2>3. active
    <3>1. ASSUME ~active PROVE FALSE
      <4>1. age + (IF sensor = "sleep" THEN asleep ELSE 0) <= SleepTicks - 1
        BY <2>1, <3>1 DEF Follows
      <4> QED
        BY <1>1, <2>2, <4>1
    <3> QED
      BY <3>1
  <2>4. Len(extracted) = Len(cleans)
    BY <1>1, <1>2, <2>1 DEF Bit
  <2>5. Len(extracted') = Len(extracted) + 1 /\ extracted'[Len(extracted) + 1] = matched
    BY <1>1, <2>1, QueueFacts
  <2>6. Changes' - (2 * Len(cleans') + Bit(active')) \in {0, 1}
    BY <1>1, <2>1, <2>3, <2>4, <2>5 DEF Changes, Bit
  <2>7. ScanOver'
    BY <1>4, <2>1 DEF ScanOver
  <2>8. Len(extracted') > 0 /\ extracted'[Len(extracted')] = matched'
    BY <1>1, <2>1, <2>5
  <2>9. ~(candy = 0 \/ (clean /\ rfid = "callback"))
    <3>1. ~(age <= SleepTicks - 1)
      BY <1>1, <2>2
    <3> QED
      BY <2>3, <3>1 DEF Follows
  <2> QED
    BY <2>1, <2>3, <2>6, <2>7, <2>8, <2>9 DEF Follows
<1>13. CASE SendPublish
  <2>1. /\ UNCHANGED <<ExtractorRunning, extracted, cleans, active, pc, ticks, matched,
                       age, sensor, asleep, candy>>
        /\ ~clean' \/ rfid' = "idle"
    BY <1>13 DEF SendPublish, factoryVars, extractor, call, clock
  <2> QED
    BY <2>1 DEF Follows, Changes, ScanOver
<1>14. CASE Callback
  <2>1. /\ UNCHANGED <<ExtractorRunning, extracted, cleans, active, pc, ticks, matched,
                       age, sensor, asleep, clean>>
        /\ rfid' = "idle" /\ candy' # 0
    BY <1>3, <1>14, CandyAssumption DEF Callback, PathInv, factoryVars, extractor, call, clock
  <2> QED
    BY <2>1 DEF Follows, Changes, ScanOver
<1>15. CASE SendConnect \/ \E c \in Candies : ReadTag(c)
  <2>1. /\ UNCHANGED <<ExtractorRunning, extracted, cleans, active, pc, ticks, matched,
                       age, sensor, asleep, candy, clean>>
        /\ rfid' # "callback"
    BY <1>15 DEF SendConnect, ReadTag, factoryVars, extractor, call, clock
  <2> QED
    BY <2>1 DEF Follows, Changes, ScanOver
<1>16. CASE Look
  <2>1. /\ UNCHANGED <<ExtractorRunning, extracted, pc, ticks, matched, age, candy, clean,
                       rfid>>
        /\ sensor = "look" /\ active # running /\ active' = running
    BY <1>3, <1>16 DEF Look, factoryVars, extractor, call, clock
  <2>2. ExtractorRunning = running
    BY <1>2, <2>1
  <2>3. CASE running
    <3>5. ~active /\ active' /\ ExtractorRunning
      <4>1. running = TRUE
        BY <1>1, <2>3
      <4> QED
        BY <1>1, <2>1, <2>2, <4>1
    <3>1. ~active /\ active' /\ ExtractorRunning /\ Len(extracted) = Len(cleans)
      BY <1>1, <1>2, <3>5 DEF Bit
    <3>2. UNCHANGED <<sensor, cleans>>
      BY <1>3, <1>16, <2>3 DEF Look
    <3>3. Changes' - (2 * Len(cleans') + Bit(active')) \in {0, 1}
      BY <1>1, <2>1, <3>1, <3>2 DEF Changes, Bit
    <3>4. age <= SleepTicks - 1
      <4>1. age + 0 <= SleepTicks - 1
        BY <2>1, <3>1 DEF Follows
      <4> QED
        BY <1>1, <4>1
    <3> QED
      BY <2>1, <3>1, <3>2, <3>3, <3>4 DEF Follows
  <2>4. CASE ~running
    <3>1. active /\ ~active' /\ ~ExtractorRunning /\ Len(extracted) = Len(cleans) + 1
      BY <1>1, <1>2, <2>1, <2>2, <2>4 DEF Bit
    <3>2. candy # 0 /\ ScanOver
      BY <3>1 DEF Follows
    <3>3. sensor' = "sleep" /\ cleans' = Append(cleans, clean)
      BY <1>3, <1>16, <2>4, <3>2 DEF Look
    <3>4. Len(cleans') = Len(cleans) + 1
      BY <1>1, <3>3, QueueFacts
    <3>5. Changes' - (2 * Len(cleans') + Bit(active')) \in {0, 1}
      BY <1>1, <2>1, <3>1, <3>4 DEF Changes, Bit
    <3>6. ScanOver' /\ ~ExtractorRunning'
      BY <2>1, <3>1, <3>2 DEF ScanOver
    <3> QED
      BY <3>1, <3>5, <3>6 DEF Follows
  <2> QED
    BY <2>3, <2>4
<1>17. CASE Report
  <2>1. /\ UNCHANGED <<ExtractorRunning, extracted, cleans, active, pc, ticks, matched,
                       age, candy, clean, rfid>>
        /\ sensor = "sleep" /\ asleep = 0 /\ sensor' = "look"
    BY <1>17 DEF Report, factoryVars, extractor, call, clock
  <2>2. ExtractorRunning /\ ~active => age + 0 <= SleepTicks - 1
    BY <2>1 DEF Follows
  <2> QED
    BY <2>1, <2>2 DEF Follows, Changes, ScanOver
<1>18. CASE TickBegin /\ UNCHANGED twinVars
  BY <1>5, <1>18 DEF TickBegin, call, extractor
<1>19. CASE HmiWrites /\ UNCHANGED twinVars
  BY <1>5, <1>19 DEF HmiWrites, PressStart, PressStop, Select, call, extractor, clock
<1>20. CASE MqttClient \/ Deliver \/ Lose \/ Monitor \/ UNCHANGED vars
  BY <1>5, <1>20 DEF MqttClient, Deliver, Detect, Lose, Monitor, vars, factoryVars,
     call, extractor, clock
<1>21. ~Terminate /\ ~ReportRaises
  BY DEF Terminate, ReportRaises
<1> QED
  BY <1>6, <1>7, <1>8, <1>9, <1>10, <1>11, <1>12, <1>13, <1>14, <1>15, <1>16, <1>17,
     <1>18, <1>19, <1>20, <1>21
  DEF Next, PlcTick, PlcScan, Reader, Sensor

---------------------------------------------------------------------------
LEMMA InitTwinsInv == Init => TwinsInv
<1> SUFFICES ASSUME Init PROVE TwinsInv
  OBVIOUS
<1> USE DEF Init
<1>1. FactoryInv
  BY InitFactoryInv
<1>2. PathInv /\ TwinsTypeOK
  <2>1. /\ news \in Seq(BOOLEAN) /\ cleans \in Seq(BOOLEAN)
        /\ published \in Seq(Candies \union {0}) /\ extracted \in Seq(Candies \union {0})
        /\ inbox \in Seq(Candies \union {Connect}) /\ mqtt \in Seq(Candies)
    OBVIOUS
  <2>2. asleep \in 0..SleepTicks
    BY SensorAssumption
  <2>3. PathInv
    BY <2>1 DEF PathInv
  <2> QED
    BY <2>1, <2>2, <2>3 DEF TwinsTypeOK
<1>3. Standing
  BY DEF Standing, Bit
<1>4. Counted
  <2>1. ~ExtractorRunning
    BY DEF FactoryInit
  <2>2. Changes = 0 /\ Told = 0 /\ 2 * Len(cleans) + Bit(active) = 0
    BY <2>1 DEF Changes, Told, Bit
  <2>3. running = (Told % 2 = 1)
    <3>1. Told % 2 # 1 /\ ~running
      BY <2>2
    <3>2. running = FALSE
      OBVIOUS
    <3> QED
      BY <3>1, <3>2, Zenon
  <2>4. \A i \in 1..Len(news) : news[i] = ((Told + i) % 2 = 1)
    OBVIOUS
  <2> QED
    BY <2>2, <2>3, <2>4 DEF Counted
<1>5. Known /\ Tagged /\ InTime /\ Right
  BY DEF FactoryInit, Known, Tagged, Latest, InTime, Right
<1>6. Follows
  <2>1. ~ExtractorRunning /\ ~active /\ sensor # "sleep"
    BY DEF FactoryInit
  <2>2. Changes - (2 * Len(cleans) + Bit(active)) = 0
    BY <2>1 DEF Changes, Bit
  <2> QED
    BY <2>1, <2>2 DEF Follows
<1> QED
  BY <1>1, <1>2, <1>3, <1>4, <1>5, <1>6 DEF TwinsInv

(* The inductive invariant of the factory and its sensor. *)
THEOREM TwinsInductive == Spec => []TwinsInv
<1>1. ASSUME TwinsInv, [Next]_vars PROVE TwinsInv'
  <2> USE DEF TwinsInv
  <2>1. PathInv' /\ TwinsTypeOK' /\ Standing' /\ Counted' /\ Known'
    BY <1>1, StepPathInv, StepTwinsTypeOK, StepStanding, StepCounted, StepKnown
    DEF FactoryInv
  <2>2. FactoryInv'
    <3>1. [FactoryNext]_factoryVars
      BY <1>1, StepImplements
    <3> QED
      BY <1>1, <3>1, StepFactoryTypeOK, StepFactoryInv DEF FactoryInv
  <2>3. ~irregular' => ~irregular
    BY <1>1, Lasting
  <2>4. ~shutdown' => ~shutdown
    BY <1>1, Lasting
  <2>5. ASSUME ~shutdown' PROVE Tagged'
    BY <1>1, <2>4, <2>5, StepTagged
  <2>6. ASSUME ~irregular' PROVE InTime' /\ Right'
    BY <1>1, <2>3, <2>6, StepInTime, StepRight
  <2>7. ASSUME ~irregular', ~shutdown', sensor' # "ended" PROVE Follows'
    <3>1. sensor # "ended"
      BY <1>1, <2>7, Lasting
    <3> QED
      BY <1>1, <2>3, <2>4, <2>7, <3>1, StepFollows
  <2> QED
    BY <2>1, <2>2, <2>5, <2>6, <2>7
<1> QED
  BY <1>1, InitTwinsInv, PTL DEF Spec

(* Every variable of the program, the reader, the sensor and the path       *)
(* between them keeps its type.                                             *)
THEOREM TwinsTypeCorrect == Spec => [](FactoryTypeOK /\ TwinsTypeOK /\ PathInv)
<1>1. TwinsInv => FactoryTypeOK /\ TwinsTypeOK /\ PathInv
  BY DEF TwinsInv, FactoryInv
<1> QED
  BY <1>1, TwinsInductive, PTL

(* The sensor sees no more ends of extractions than it is told of, and      *)
(* reports each of them once: however late the scans are.                   *)
THEOREM NeverTwiceHolds == Spec => []NeverTwice
<1>1. ASSUME TwinsInv PROVE NeverTwice
  <2>1. /\ Len(news) \in Nat /\ Len(cleans) \in Nat /\ Len(extracted) \in Nat
        /\ Len(published) \in Nat
    BY <1>1, LenProperties DEF TwinsInv, TwinsTypeOK
  <2>2. 2 * Len(cleans) + Bit(active) <= Told /\ Len(published) <= Len(cleans)
    BY <1>1 DEF TwinsInv, Counted, Standing
  <2>3. Len(cleans) <= Len(extracted)
    <3>1. 2 * Len(cleans) + Bit(active) <= Told
      BY <2>2
    <3> QED
      BY <2>1, <3>1 DEF Told, Changes, Bit
  <2> QED
    BY <2>1, <2>2, <2>3 DEF NeverTwice
<1> QED
  BY <1>1, TwinsInductive, PTL

(* A candy the PLC called with the last tag known to it, and that no other  *)
(* tag overtook until the sensor saw the end, is reported as itself.        *)
THEOREM AttributedHolds == Spec => []Attributed
<1>1. ASSUME TwinsInv PROVE Attributed
  <2>1. ~irregular => Right
    BY <1>1 DEF TwinsInv
  <2>2. DOMAIN published = 1..Len(published) /\ Len(published) \in Nat
        /\ Len(cleans) \in Nat
    BY <1>1, LenProperties DEF TwinsInv, TwinsTypeOK
  <2>3. Len(published) <= Len(cleans)
    BY <1>1, <2>2 DEF TwinsInv, Standing
  <2>4. ASSUME ~irregular, NEW i \in DOMAIN published, cleans[i]
        PROVE  published[i] = extracted[i]
    <3>1. i \in 1..Len(cleans) /\ i <= Len(published)
      BY <2>2, <2>3
    <3>2. Reported(i) = extracted[i]
      BY <2>1, <2>4, <3>1 DEF Right
    <3> QED
      BY <3>1, <3>2 DEF Reported
  <2> QED
    BY <2>4 DEF Attributed
<1> QED
  BY <1>1, TwinsInductive, PTL

(* The sensor's sleep is no longer than an extraction, so that every end is *)
(* seen, and with it reported, before the next, as long as it lives.        *)
THEOREM NoneMissedHolds == Spec => []NoneMissed
<1>1. ASSUME TwinsInv, ~irregular, ~shutdown, sensor # "ended", Settled
      PROVE  Len(extracted) = Len(published) + (IF sensor = "sleep" THEN 1 ELSE 0)
  <2>1. Follows /\ Standing /\ Counted /\ TwinsTypeOK /\ FactoryTypeOK
    BY <1>1 DEF TwinsInv, FactoryInv
  <2>2. Len(cleans) \in Nat /\ Len(extracted) \in Nat /\ Len(published) \in Nat
    BY <2>1, LenProperties DEF TwinsTypeOK
  <2>3. /\ running = ExtractorRunning
        /\ Len(extracted) = Len(cleans) + Bit(active /\ ~ExtractorRunning)
    BY <1>1, <2>1, Behind DEF Settled
  <2>4. ~(active /\ ~ExtractorRunning)
    <3>1. CASE sensor = "look"
      BY <1>1, <2>3, <3>1 DEF Settled
    <3>2. CASE sensor = "sleep"
      BY <2>1, <3>2 DEF Standing
    <3> QED
      BY <1>1, <2>1, <3>1, <3>2 DEF TwinsTypeOK
  <2>5. Len(extracted) = Len(cleans)
    BY <2>2, <2>3, <2>4 DEF Bit
  <2> QED
    BY <1>1, <2>1, <2>2, <2>5 DEF Standing, Bit
<1>2. TwinsInv => NoneMissed
  BY <1>1 DEF NoneMissed
<1> QED
  BY <1>2, TwinsInductive, PTL

============================================================================
