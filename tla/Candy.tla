------------------------------- MODULE Candy -------------------------------
(* The candy factory as a whole: the PLC program (CandyFactory) and the     *)
(* twins around it (cpstwinning/twins.py).  The RFID reader hands the tag   *)
(* of a candy to its MQTT client process (mqtt_client.py), from where it    *)
(* travels by broker and gateway to the PLC's DetectedCandy, and then calls *)
(* the candy sensor back.  The sensor follows ExtractorRunning through its  *)
(* PlcMonitorThread and reports, when an extraction ends, the candy read    *)
(* last, after a sleep of two seconds with its mutex held.                  *)
(*                                                                          *)
(* What takes microseconds (a message between threads, one round of the     *)
(* sensor's loop, a callback that finds the mutex free) is over before the  *)
(* next tick; the broker and the gateway may take any time.                 *)
EXTENDS CandyFactory, SequencesExt

CONSTANTS
    SleepTicks,  \* sleep(2) in ticks
    MaxReads     \* bound: tags read

ASSUME SensorAssumption == SleepTicks \in Nat \ {0} /\ MaxReads \in Nat

(* The sensor sleeps for sleep(2), and ExtractorDoneTimer is T#1961ms: of   *)
(* ticks of 50 ms these are 40 and 40.                                      *)
ASSUME SleepAssumption == SleepTicks <= Delay

VARIABLES
    rfid, tag, is_connected,  \* RfidReaderMqttWiFi: where read_value is
    proc, inbox,  \* the MQTT client process, the messages it has yet to read
    mqtt,         \* published, not yet written to the PLC
    candy, running,  \* the sensor's vars; running: its ExtractorRunning
    news,         \* changes of ExtractorRunning on their way to the sensor
    sensor, active, seen, asleep,  \* CandySensorVarsThread; seen: its candy
    shutdown,
    published,    \* what the sensor has reported
    \* bound and history
    reads,
    extracted,    \* the candies whose extraction has ended
    inStep,       \* the PLC knows of the last tag that was published
    clean,        \* it did when the candy was called, and no tag since
    cleans,       \* clean, at the end of each extraction the sensor saw
    irregular     \* a scan was not done when the next tick came, or the
                  \* timer has read a torn clock

reader == <<rfid, tag, is_connected, reads>>
path   == <<proc, inbox, mqtt>>
loop   == <<sensor, active, seen, asleep, published, cleans>>
marks  == <<extracted, inStep, clean, irregular>>
twinVars == <<reader, path, candy, running, news, loop, shutdown, marks>>
vars == <<factoryVars, twinVars>>

Connect == 0   \* the ConnectMessage; a candy is a PublishMessage

Init ==
    /\ FactoryInit
    /\ rfid = "idle" /\ tag = 0 /\ is_connected = FALSE
    /\ proc = "up" /\ inbox = <<>> /\ mqtt = <<>>
    /\ candy = 0 /\ running = FALSE /\ news = <<>>
    /\ sensor = "look" /\ active = FALSE /\ seen = 0 /\ asleep = 0
    /\ shutdown = FALSE /\ published = <<>>
    /\ reads = 0 /\ extracted = <<>> /\ cleans = <<>>
    /\ inStep = TRUE /\ clean = TRUE /\ irregular = FALSE

---------------------------------------------------------------------------
(* RfidReaderMqttWiFi.read_value and the MQTT client process *)

ReadTag(c) ==
    /\ rfid = "idle" /\ reads < MaxReads
    /\ reads' = reads + 1
    /\ tag' = c
    /\ rfid' = IF is_connected THEN "publish" ELSE "connect"
    /\ UNCHANGED <<factoryVars, is_connected, path, candy, running, news, loop,
                   shutdown, marks>>

(* Client(address) raises once the process has died: read_value is left.    *)
SendConnect ==
    /\ rfid = "connect"
    /\ IF proc = "dead" THEN rfid' = "idle" /\ UNCHANGED <<is_connected, inbox>>
       ELSE /\ inbox' = Append(inbox, Connect)
            /\ is_connected' = TRUE /\ rfid' = "publish"
    /\ UNCHANGED <<factoryVars, tag, reads, proc, mqtt, candy, running, news,
                   loop, shutdown, marks>>

SendPublish ==
    /\ rfid = "publish"
    /\ IF proc = "dead" THEN rfid' = "idle" /\ UNCHANGED <<inbox, inStep, clean>>
       ELSE /\ inbox' = Append(inbox, tag) /\ rfid' = "callback"
            /\ inStep' = FALSE /\ clean' = FALSE
    /\ UNCHANGED <<factoryVars, tag, is_connected, reads, proc, mqtt, candy,
                   running, news, loop, shutdown, extracted, irregular>>

(* CandySensor.rfidr_clbk, which terminate() removes. *)
Callback ==
    /\ rfid = "callback" /\ sensor # "sleep"
    /\ candy' = IF shutdown THEN candy ELSE tag
    /\ rfid' = "idle"
    /\ UNCHANGED <<factoryVars, tag, is_connected, reads, path, running, news,
                   loop, shutdown, marks>>

(* MqttClient: a connect that raises ends the process. *)
MqttClient ==
    /\ proc = "up" /\ inbox # <<>>
    /\ IF Head(inbox) = Connect
       THEN /\ \/ inbox' = Tail(inbox) /\ UNCHANGED proc
               \/ inbox' = <<>> /\ proc' = "dead"
            /\ UNCHANGED mqtt
       ELSE /\ mqtt' = Append(mqtt, Head(inbox))
            /\ inbox' = Tail(inbox) /\ UNCHANGED proc
    /\ UNCHANGED <<factoryVars, reader, candy, running, news, loop, shutdown, marks>>

(* Broker and gateway: delivered (the PLC has caught up when nothing is     *)
(* behind it), or lost.                                                     *)
Deliver ==
    /\ mqtt # <<>>
    /\ Detect(Head(mqtt))
    /\ mqtt' = Tail(mqtt)
    /\ inStep' = (inStep \/ (mqtt' = <<>> /\ inbox = <<>>))
    /\ UNCHANGED <<reader, proc, inbox, candy, running, news, loop, shutdown,
                   extracted, clean, irregular>>

Lose ==
    /\ mqtt # <<>>
    /\ mqtt' = Tail(mqtt)
    /\ UNCHANGED <<factoryVars, reader, proc, inbox, candy, running, news, loop,
                   shutdown, marks>>

---------------------------------------------------------------------------
(* CandySensor *)

(* PlcMonitorThread.run: without the mutex. *)
Monitor ==
    /\ news # <<>>
    /\ running' = Head(news) /\ news' = Tail(news)
    /\ UNCHANGED <<factoryVars, reader, path, candy, loop, shutdown, marks>>

(* Mutant: a slower sensor. *)
SleepLonger == SleepTicks + Delay + 2

SleepFor == SleepTicks

(* Mutant: the loop forgets to reset extractor_active. *)
LookKeepsActive ==
    /\ sensor = "look"
    /\ IF shutdown THEN sensor' = "ended" /\ UNCHANGED <<active, seen, asleep, cleans>>
       ELSE IF running
       THEN ~active /\ active' = TRUE /\ UNCHANGED <<sensor, seen, asleep, cleans>>
       ELSE /\ active /\ UNCHANGED active
            /\ sensor' = "sleep" /\ seen' = candy /\ asleep' = SleepFor
            /\ cleans' = Append(cleans, clean)
    /\ UNCHANGED <<factoryVars, reader, path, candy, running, news, shutdown,
                   published, marks>>

(* One round of the loop; without a candy there is only a warning.  Rounds  *)
(* that change nothing are left out.                                        *)
Look ==
    /\ sensor = "look"
    /\ IF shutdown THEN sensor' = "ended" /\ UNCHANGED <<active, seen, asleep, cleans>>
       ELSE /\ active # running /\ active' = running
            /\ IF ~running /\ candy # 0
               THEN /\ sensor' = "sleep" /\ seen' = candy /\ asleep' = SleepFor
                    /\ cleans' = Append(cleans, clean)
               ELSE UNCHANGED <<sensor, seen, asleep, cleans>>
    /\ UNCHANGED <<factoryVars, reader, path, candy, running, news, shutdown,
                   published, marks>>

(* Mutant: the candy is read when the sleep is over. *)
ReportLatest ==
    /\ sensor = "sleep" /\ asleep = 0
    /\ published' = Append(published, IF rfid = "callback" THEN tag ELSE candy)
    /\ sensor' = "look"
    /\ UNCHANGED <<factoryVars, reader, path, candy, running, news, active, seen,
                   asleep, cleans, shutdown, marks>>

Report ==
    /\ sensor = "sleep" /\ asleep = 0
    /\ published' = Append(published, seen)
    /\ sensor' = "look"
    /\ UNCHANGED <<factoryVars, reader, path, candy, running, news, active, seen,
                   asleep, cleans, shutdown, marks>>

(* The log producer raises, which ends the thread. *)
ReportRaises ==
    /\ sensor = "sleep" /\ asleep = 0
    /\ sensor' = "ended"
    /\ UNCHANGED <<factoryVars, reader, path, candy, running, news, active, seen,
                   asleep, cleans, published, shutdown, marks>>

Terminate ==
    /\ ~shutdown /\ shutdown' = TRUE
    /\ UNCHANGED <<factoryVars, reader, path, candy, running, news, loop, marks>>

---------------------------------------------------------------------------
(* The factory's steps as the twins see them *)

(* All that takes microseconds is over. *)
Settled ==
    /\ news = <<>> /\ rfid \notin {"connect", "publish"}
    /\ sensor = "look" => active = running /\ rfid # "callback" /\ ~shutdown
    /\ sensor = "sleep" => asleep > 0
    /\ sensor = "ended" => rfid # "callback"

Asleep == IF sensor = "sleep" THEN asleep - 1 ELSE asleep

ClockTicks ==
    /\ TickEnd /\ Settled
    /\ asleep' = Asleep
    /\ irregular' = (irregular \/ pc # "rest" \/ ticks > 0)
    /\ UNCHANGED <<reader, path, candy, running, news, sensor, active, seen,
                   published, cleans, shutdown, extracted, inStep, clean>>

CandyCalled ==
    /\ Test
    /\ clean' = IF Matches THEN inStep ELSE clean
    /\ UNCHANGED <<reader, path, candy, running, news, loop, shutdown, extracted,
                   inStep, irregular>>

TimerRead ==
    /\ Timer
    /\ irregular' = (irregular \/ (ticking /\ ExtractorRunning))
    /\ UNCHANGED <<reader, path, candy, running, news, loop, shutdown, extracted,
                   inStep, clean>>

ExtractorStarts ==
    /\ Extract
    /\ news' = Append(news, TRUE)
    /\ UNCHANGED <<reader, path, candy, running, loop, shutdown, marks>>

ExtractorStops ==
    /\ Done
    /\ IF ExtractorDone
       THEN news' = Append(news, FALSE) /\ extracted' = Append(extracted, matched)
       ELSE UNCHANGED <<news, extracted>>
    /\ UNCHANGED <<reader, path, candy, running, loop, shutdown, inStep, clean,
                   irregular>>

PlcScan ==
    \/ CandyCalled \/ TimerRead \/ ExtractorStarts \/ ExtractorStops
    \/ (Begin \/ Run \/ Call \/ Halt) /\ UNCHANGED twinVars

PlcTick == ClockTicks \/ (TickBegin /\ UNCHANGED twinVars)

Reader == SendConnect \/ SendPublish \/ Callback
Sensor == Look \/ Report \/ ReportRaises

Next ==
    \/ PlcTick \/ PlcScan
    \/ HmiWrites /\ UNCHANGED twinVars
    \/ \E c \in Candies : ReadTag(c)
    \/ Reader \/ MqttClient \/ Deliver \/ Lose
    \/ Monitor \/ Sensor \/ Terminate

Spec == Init /\ [][Next]_vars

---------------------------------------------------------------------------
(* Properties *)

(* No extraction is reported twice, although the sensor keeps the candy it  *)
(* read last, and none before it has ended, however late scans are.         *)
NeverTwice == Len(published) <= Len(extracted)

(* What is reported is what was extracted, provided that the PLC knew of    *)
(* the last tag when the candy was called, no other tag was published until *)
(* the sensor saw the end, and the scans were in time.                      *)
Attributed ==
    ~irregular =>
        \A i \in DOMAIN published : cleans[i] => published[i] = extracted[i]

(* Every extraction is reported, within the sleep of the sensor, which is   *)
(* short enough for it to see the next one: unless scans are late, the      *)
(* clock is torn or the sensor is shut down or has ended, none is missed.   *)
NoneMissed ==
    ~irregular /\ ~shutdown /\ sensor # "ended" /\ Settled =>
        Len(extracted) = Len(published) + (IF sensor = "sleep" THEN 1 ELSE 0)
============================================================================
