# TLA+ specifications of CPS Twinning

CPS Twinning generates digital twins of an industrial network (PLCs, HMIs, an
RFID reader, sensors) from an AutomationML file, runs them on Mininet hosts
and can replicate the states of the physical system. This directory holds
TLA+ models of its concurrent parts, configurations that model-check them
with TLC, and proofs that TLAPS checks. Paths are relative to the repository,
`src/` in front.

## The system

| Component | Code | State | Operations | Correct when |
|---|---|---|---|---|
| PLC runtime (C) | `cpstwinning/plcruntime/src/plc_runtime_skeleton.c` | `is_plc_running`, two semaphores, a POSIX timer, the PLC thread | `start_plc`, `stop_plc`, `timer_notify`, the thread's scan loop, setters by index, `catch_signal` | one PLC thread; nothing left after a stop; no semaphore used when dead; no scan before `config_init__`; `stop_plc` returns |
| PLC supervisor: values | `cpstwinning/plc_supervisor.py` | C variables, Modbus data block, value cache, list of monitoring clients | callback of every assignment, Modbus write, `SetTagMessage`, monitor, stop, start, terminate | block, cache and clients agree with the C variables once writes have settled; clients are told every change and the end |
| PLC supervisor: build, listener | `cpstwinning/plc_supervisor.py` | `build_finished`, `self.vars`, `running`, the Modbus blocks and port, the listener's socket | background build and start, one request per connection, start, stop, terminate | a request is answered, the listener serves on, the port serves the blocks that are written |
| Modbus server | pymodbus, used by `plc_supervisor.py` | data block | write requests | see values |
| Twins and their RPC | `cpstwinning/twins.py`, `plcmessages.py`, `hmimessages.py` | one connection attribute per twin, cached HMI values | `get_var_value`, `set_var_value`, `start`, `stop`, monitor threads | an answer reaches who asked; the HMI shows what the PLC has |
| HMI Modbus client | `cpstwinning/hmi_mb_client.py` | one connection, one Modbus client | read, write, terminate | serves one request after the other, always |
| Candy sensor | `cpstwinning/twins.py` (`CandySensor`) | `Candy`, `ExtractorRunning`, a mutex | monitor thread, worker, callback of the reader | one report per extraction, of the right candy |
| Candy factory program | `misc/specification/Source/CandyFactory.st` | program variables, an on-delay timer | one scan per tick | belt and extractor never run together, one extraction per selection, of full length |
| Security module | `cpstwinning/securitymanager.py` | none but its threads | PLC link, HMI link, maximum | a lasting mismatch is reported |
| State logging | `cpstwinning/statelogging.py` | one thread per PLC and motor, log file | start, stop, record | who records is registered with the PLC |
| Visualisation | `cpstwinning/viz.py`, `viz/js/viz.js` | `device_to_client_map`; in the page `subscribedTo`, header, table | subscribe, unsubscribe, REST request, announced changes | the page shows the device asked for with its values |
| State replication | `cpstwinning/replication.py` | sessions, priority queue, event, issuer's clock | start, stop, receive, issue | stimuli are issued once, in order, at their distances; stop stops |
| RFID reader, MQTT client | `cpstwinning/mqtt_client.py`, `twins.py` | one connection, `is_connected` | connect, publish | published when connected |
| IIoT gateway (Java) | `misc/IIoTGateway` | `state`, `stop`, MQTT and Modbus connections | worker, callbacks, shutdown hook | every message forwarded once; a shutdown ends it |
| Facade, command line | `cpstwinning/cpstw.py`, `cli.py` | references to the above | start and stop of each | - |
| Parser, topology, pre-processor | `amlparser.py`, `topo.py`, `prepreprocessor.py` | none after the start | one sequential pass | - |

How they interact. The supervisor loads the PLC program and the runtime as a
C library: it calls `start_plc`, `stop_plc` and the setters, and every
assignment of the program calls back into Python. The twins, the security
module, the state logging and the visualisation talk to the supervisor over
Unix sockets, one pickled message per request; a `MonitorMessage` keeps the
connection open for values. HMIs write and read PLC variables over Modbus/TCP.
The replication receives stimuli from Kafka and calls the twins' setters. The
gateway is a process of its own between the RFID reader and the PLC.

What is hard. No part of the Python code uses a lock around the data that the
PLC thread, the listener and the Modbus handlers share. The runtime destroys
and re-creates its semaphores while other threads may use them; Modbus writes
land between the statements of a scan, and the clock of the scan is written
without a lock. The supervisor serves requests while it still builds the PLC,
and an exception no handler expects ends the service. The replication's sleep
can be ended early, is entered again and again, and races with arrivals and
with stop. Browser, REST server, WebSocket server and monitoring threads each
have their own idea of who shows what. The gateway's threads overwrite one
field. Peers go away at any moment, and a failing send ends the thread that
made it. `PROJECT.json` lists each such place under `hazards`, with the
properties that watch over it.

## The modules

### PlcRuntime

One action per library call of `start_plc` and `stop_plc` (each can fail, as
the code's return tests provide for), in the order of the code and with the
state an early return leaves behind. `pc` says where the control thread and
the signal handler are, `thr` where each PLC thread is: at the loop's test
(`check`), at `sem_post` on `sem_plc_vars`, at `sem_wait` on `sem_plc_timer`,
or scanning. `TimerExpire` makes a notification (`SIGEV_THREAD` runs it in a
thread of its own), `TimerNotify` runs `timer_notify`, possibly long after
`timer_delete`. `MayStart` and `StopCall` carry the guards of
`PlcSupervisor.start` and `stop`. The setters of `sem_plc_vars` are
`SetCall`, `SetAdmit`, `SetWrite`. `Post`, `JoinRefused` stand for the C
library. Left out: the variables (see PlcSupervisor), `tick`, the getters.

### PlcCycle

The abstract specification of PlcRuntime: a PLC is stopped, starting, running
or stopping, scans come one at a time and only while it is started, a stop ends
with none in progress, and every start, scan and stop ends. The refinement
mapping is `Phase` and `ScansInProgress` in PlcRuntime; `ImplementsCycle` is
the abstract specification with its fairness. One wart of the code had to
become part of the promise: from the second start on, a late tick of the timer
before may begin a scan while the start is still under way.

### PlcSupervisor

The propagation of a value, one action per step between which a thread can
lose the interpreter: write (`Assign` with its `Callback`, `SetTag`,
`ModbusWrite`), `SyncBlock`, `Compare` with the cache, the loop over
`conn_watcher` with a send per client, deletion of clients that have gone,
`StoreValue`. `Monitor` and `Disconnect` are the clients', `StopPlc` to
`StartReturn` a restart, `Terminate` to `CloseListener` the shutdown; `Abort`
is an exception that ends the listener. Whether a setter is admitted is
PlcRuntime's subject, here it may write at any time; a Modbus handler that has
taken a request may also be late and write while the PLC stops, is stopped or
has been started again. A set stores four bytes whatever the variable's type,
and a BOOL has two: the constant `Overrun` says which variables a set zeroes
besides, without a callback, so that block and cache keep what they had.
MirrorsAgree and ClientsAgree except such a neighbour until it is propagated
itself (`unsettled`); an assignment of the program stores what it should. That
`stop_plc` may fail is Listener's subject.

### Listener

The two threads of a supervisor. `Make`, `SetVarsBegin`, `SetVarsNext`,
`LoadLib`, `SetRunning` and `MainStart` are `PlcSupervisor.__init__`; `Listen`
and `Accept` the listener's loop, followed by one action per kind of request.
`start()` is run by both threads (`MakeBlocks`, `Bind`, `LibStart`, with the
thread as parameter), so that a start over the twin can meet the one at boot.
`Raise` is an exception that no handler of the request catches: the listener
ends, its frame's connections close and whoever waits gets EOFError. `Exit` is
the end of the process: the listener is its only thread that is not a daemon.
`InitRaises` is an exception in `__init__`, after which its thread is through
and the listener serves on without a PLC. `LibStart` and `StopPlc` may fail: a
failed stop leaves `running` set and the thread of the PLC waiting.
Clients are the twin's calls (`Call`) and the threads of the state logging
(`Record`, `Connect`, `Reconnect`, `StopRecording`, `LeaveLoop`), two kinds:
one that asks for all names and connects again, and one that knows its names
(motors; the sensor's monitor and the security rules ask alike).

The listener waits for ever in three cases, which `Blocked` names: a set on a
stopped PLC waits for a token; Terminate joins the thread of a PLC that it did
not stop, because a start was in progress (`running` is still False) or because
`stop_plc` failed; a client that monitors makes it wait for a build that has
raised. A recorder that is stopped
before its names are sent ends the listener (the answer meets a closed
connection), which is among the `faults` ListenerSurvives excepts. That two
starts do not both serve is owed to the port alone: the second bind raises and
ends its thread.

### Security

One rule `equals`, composed with Hmi and Rpc by EXTENDS: every step of the HMI
and its PLC is a step of Security, which adds the notifications under way
(`notes`) and the threads that a successful get or set starts (`checks`, by
`Linked`). `Compare` reads the HMI's value when the message is taken. Left out:
the maximum rule, which compares each notified value with a constant, and
booleans: there the code compares the HMI's value with `result.value ==
'True'`, and the PLC sends a bool, so that the alert depends on the HMI's value
alone. That is a type confusion and not a matter of order.

### Viz

The page: `Click` (`updateVarsView`), `Loaded` (the answer of the REST
request), `OnMessage`. The server: `Serve`, `ServeFails`, `HandleMessage`,
`OtherMessage` (another page's subscriptions), `Receive` and `SendNext` (the
walk over the list of clients, one client per step, with the index a Python
for-loop keeps while the list changes). The devices: `Change`, and for motors,
whose own variables lag behind those of their PLC, `MotorStores`. `Disconnect`
closes the WebSocket; its client stays in the lists. One variable per device,
of the same name, for the page matches changes by name only. An unsubscribe
that raises half-way would have removed some of its devices; the model leaves
the lists as they are, since ServedAgree shows that no message of the page
raises. Left out: drawing, layout, the list of devices.

### CandyFactory and Candy

`CandyFactory` is the PLC program, one action per statement (a statement that
assigns several variables from one condition is one action, but for those that
start the extractor), with Modbus writes of the operator and the gateway in
between. A tick writes the clock in two halves (`TickBegin`, `TickEnd`); the
on-delay timer that reads it in between gets any time. T#1961ms are 40 ticks of
50 ms. Things the model shows the program does, which no comment forbids:
`DetectedCandy` is never reset; the end of an extraction clears a stop the
operator has pressed meanwhile; a candy selected between the test and the reset
is lost. Two more come from the four bytes of a set, for the three BOOLs
`StartConveyorBelt`, `StopConveyorBelt` and `CandyCall` lie one behind the
other: a write of start, even of FALSE, takes a stop back (`PressStart`), and a
write of stop drops a call that was made in the same scan (`PressStop`).
StopHeld is stated accordingly.

`Candy` extends it with the twins: the reader and its MQTT client process
(`ReadTag` to `MqttClient`), broker and gateway (`Deliver`, `Lose`), the
sensor's monitor thread, its worker with the mutex (`Look`, `Report`) and the
reader's callback that waits for it. `Settled` is the one assumption about
time: what takes microseconds is over when the next tick comes. `sleep(2)` is 40
ticks as well, so the sensor wakes in time for the next extraction's end with a
margin of about two ticks. The log producer may raise (`ReportRaises`) and end
the sensor's thread; NoneMissed speaks of a sensor that lives. The sensor's `Candy` is never reset: it reports the
last tag read. The reader sets `is_connected` although the client process may
have died of the connect.

### Replication

`Start` and `Stop` are the command line's; a stop has the three steps of the
code, each of which can fall between the steps of the threads. A session is a
consumer (`ConsumerRun`, `Connect`, `StartIssuer`, `Receive`, `Wake`,
`ConsumerExit`) and an issuer (`IssuerRun`, `InitialSleep`, `Loop`, `Get`,
`Clear`, `ForcedWakeup`, `Timeout`, and of the twin's call its three outcomes
`Issue`, `IssueRaises`, `IssueHangs`: a set on a stopped PLC, or a connection
another thread has overwritten, see Listener and Rpc, receives without a timeout
and may never return). The priority queue is a set with `NextUp` choosing a
least timestamp (the code compares strings, which all have the same number of
digits), time is counted since
the first stimulus was issued (`Tick`). Kafka delivers to every open consumer,
in the order of production. Left out: stimuli for unknown twins, which are
logged and dropped; `bail_out`, which nobody sets; the consumer that dies
because Kafka cannot be reached.

### Gateway

The worker's loop in steps: `Loop` reads `stop` and the field `state`, an
`Execute...` action is the execute method of a state class, `GetNext` and
`Assign` are the two halves of `state = state.getNextState()`, `Test` and
`Wait` the null test and `waitForStateChange`, `Check` the test for
DisconnectedState, `Catch` the exception handler. The callbacks and the
shutdown hook write the field (`Replace`) and notify in two steps. A spurious
return of `Object.wait` is possible. `NextState` is the next state a class is
constructed with, `Retry` the one its execute method sets on failure; only the
object still in the field profits from the latter. Plain fields are modelled
as sequentially consistent memory, which is more than the Java memory model
grants `state`; stale reads are left out. Of Paho the model assumes that it
calls back as the module's head says.

### Rpc and Hmi

`Rpc` is a request to the process behind a twin by way of the twin's attribute
`conn`, which the command line, the replication and the visualisation share
without a lock: `Connect` overwrites it, `Send`, `Recv` and `Close` read it
again. A connection is a number; each end is open until it is closed or, as
CPython does, its last reference goes (`Referenced`). The server accepts,
receives and answers one connection after the other; an exception it does not
handle is `Die`. For the HMI's process there are two beside those of its
connections (`HandleRaises`): the PLC cannot be reached, and a set may ask for a
value below 0 or above 65535 (`Unwritable`), which `write_registers` cannot
pack. `Hmi` adds what `Hmi.get_var_value` and `set_var_value` do
before and after (`SetOld`, `SetOptimistic`, `GetResult`, `SetResult`,
`Callbacks`, `Raised`) and what `HmiMbClient` answers. The register of the PLC
may change at any time (`PlcChanges`). Left out: the other variables, the
other Modbus tables, the conversion of booleans.

## The runs

| Run | Shows | Bounds and why they are enough |
|---|---|---|
| `runtime` | SingleThread, StoppedIsQuiet, NoDeadSemaphore, ScanAfterInit, OrphanBound | 3 starts (two restarts: a late notification of the first timer can meet the third start's semaphore), one failing call of any kind, one signal, one late notification per timer, semaphores up to 1 |
| `runtime_live` | ImplementsCycle, SetsProgress | 3 starts, 2 setters that compete for tokens, semaphores up to 2, no faults |
| `supervisor` | MirrorsAgree, ClientsAgree, SkipsBounded, TerminateTellsAll | 2 variables, of which a set of the first zeroes the second as one BOOL does the next, 2 values, 2 clients, listener and Modbus handler, 2 writes that can overlap with each other, one restart |
| `listener` | ListenerSurvives, BlocksServed, CallsEnd, Recorded | 1 caller with 3 calls of any kind (start, stop, start over), 2 of them before the PLC is up; 2 recorders, one of each kind; 1 variable; building, loading, start_plc and stop_plc may fail |
| `listener_wait` | WaitSuffices is violated | 2 variables, 1 recorder |
| `security` | MismatchReported | 1 caller, 3 calls (a get and two sets), 3 changes of the PLC, 3 values, so that a value may come back, and 1 out of range |
| `viz` | ShowsCurrent, ServedAgree, NeverBack, Settles | a PLC and a motor, 3 clicks (there, away and back), 1 change, 1 message of the other client, which may be in a list from the beginning |
| `viz_table` | LastClickShown is violated | as `viz` |
| `candy` | Exclusion, OncePerSelection, NeverTwice, Attributed, NoneMissed, ExtractsFully | 2 candies, 2 tags read and delivered, 3 writes of the operator (start, two selections, so two extractions), timer and sleep of 2 ticks as their ratio is 1, 1 tick behind |
| `replication` | Conserved, NeverEarly, OrderExplained, AtMostOneAfterStop, StopEndsIssuer, EventuallyIssued | 1 session, 3 stimuli with uneven distances: one issued, one in hand, one that arrives; twins may fail or hang. Two sessions do not share anything but Kafka and `Stop`; the theorems cover any number |
| `hmi` | ShowsAcknowledged, DeathExplained, CallsEnd | 2 callers, 3 calls: two that overlap and one on its own after them; 2 values that a register holds, 1 that none does |
| `gateway` | RequestsInOrder, QuietAfterRelease, LinkNotLeftOpen, WaitingForwards, StopEnds | 2 messages (one under way, one overtaking), 1 loss, 1 shutdown |

Every property of a passing run has a mutant in its module (marked `Mutant` in
a comment): the code with a plausible mistake, which breaks the property.

All configurations say `CHECK_DEADLOCK FALSE`: the bounded counters run out,
and the systems really stop (a stopped PLC without further requests, an ended
process, a drained session, a page nobody clicks on, a gateway that has been
shut down). Blocking is the subject of the liveness properties.

### What the violated ones say

- `listener_wait`: the listener waits for `build_finished` before it registers
  a client that monitors ("Wait until build is finished"). The flag is set
  before the variables are parsed: such a client ends the listener, or is
  registered for the names known so far only.
- `viz_table`: the page announces to replace the old table by the new one. The
  table body to be replaced is looked up at the click; when the answer of an
  earlier click has replaced it, the later one is dropped, and the table shows
  the first device under the second one's name. Changes of the second device
  are then written into it.

### Known deviations without a run

The models show these, too; each contradicts a comment of the code, and the
properties except them or are stated so that they hold beside them.

- `plc_supervisor.py:147` promises notifications only for real changes.
  Compare and store are not one step, so a Modbus write and the PLC thread can
  both find the value changed and send it twice.
- `plc_supervisor.py:606` promises that all clients are notified of the end.
  The send is not guarded: the first client that has gone ends the listener,
  and with it the shutdown.
- `replication.py:135` promises that an arriving stimulus wakes the issuer.
  `Sleep.sleep` clears the event before it waits, so an arrival after the last
  `get` goes unnoticed and is late; it is not lost, as `replication` shows.
- `twins.py:229` announces a rollback when a set fails. It is reached only
  when an answer comes; when the process behind the HMI has died, the exception
  leaves the method with the optimistic value in place.
- `SendModbusRequestState.java:19` promises to return to the subscribed state
  after a request has been sent. A message that arrives while the worker
  executes another state is skipped: the worker asks the new object, which it
  has not executed, for its next state (`GatewayStateMachine.java:70`).
- `plc_runtime_skeleton.c:113` and `:130` store an int into variables of every
  type: setting a BOOL zeroes the one behind it, and neither Modbus block nor
  cache nor clients learn of it (`plc_supervisor.py:515` propagates the variable
  that was set only).
- `securitymanager.py` reports neither a set that was rolled back nor a
  mismatch that exists at the start before the next event on either side.

### Fairness

Of the systems that the runs with liveness are about the following is assumed,
and nothing else; a property that needs more says so in an exception of its own.

`runtime_live` assumes that runnable threads run, that an armed timer keeps
expiring and its notifications run, and that some waiting setter is admitted
when a token is there; a start and a stop that are in progress go on.
Nobody has to call set, start or stop. `replication` assumes that consumer and
issuer threads are scheduled, that time passes, and that a stop in progress
goes on. Twins need not answer: an issuer that calls one goes on by one of three
outcomes, of which one is to hang, and the two liveness properties except it. `gateway` assumes scheduled threads and that a Modbus request
completes, if only by its timeout; `hmi` assumes the same of callers, of the
HMI's process and of its Modbus requests. `listener` assumes that make ends,
that the supervisor's two threads and the recorders run, and that a setter gets
its token while the PLC runs, which is PlcRuntime's SetsProgress. `viz` assumes
the browser's event loop and the threads of the servers and devices, and of a
REST request that it is answered or fails. No user has to do anything and no
fault has to occur or to stay away. Peers are assumed to answer in one place
only: Modbus requests, which have a timeout in `hmi_mb_client.py` and, by the
library's default, in the gateway's master.

## What is proved

Every theorem holds for all values of the constants that satisfy the module's
named assumptions; TLC evaluates these in every run. They give the constants
their types and say that values that stand for nothing (`NoValue`, `NoState`,
`NoMessage`, the candy 0) are different from the real ones. Two say more:
delays are positive, and `SleepAssumption` of Candy, that the sensor's sleep is
not longer than the extractor's timer (`sleep(2)` and T#1961ms are 40 ticks
each); SleepLonger, the mutant of NoneMissed, shows that the property needs it.
All invariants that the passing runs check are proved, and of the action properties
ExtractsFully and NeverBack (and StopHeld, which no run checks). Each inductive
invariant was checked by TLC on the instance of the module's run before it was
proved. The theorems are about the specification without fairness, which the
one with fairness implies.

`PlcRuntimeProofs`, about PlcRuntime: TypeOK in every run, and SingleThread,
StoppedIsQuiet, NoDeadSemaphore and ScanAfterInit as long as no call has failed
and no signal has come. None of these is inductive: that there is one thread
depends on where `start_plc` or `stop_plc` is. The invariant `IInv` therefore
says, for each point of the two functions, what exists: `AtRest` (everything
runs or nothing is left), `BeforeCreate` (no thread of an earlier start),
`AfterCreate` (the one thread is of this start, its timer not armed before the
last step), `Stopping` (semaphores outlive the thread, the timer outlives both)
and `NoEarlyTick` (the timer's semaphore is empty before the timer is armed,
but for late notifications). TypeOK with `Counted` is inductive by itself
(`StepTypeOK`); `StepCleanInv` adds the rest, action by action.

The same module, about the disturbed runs: OrphanBound for any number of
starts, failures and signals. That each disturbance leaves at most one thread
behind is not inductive, because a disturbance costs a thread only later, when
the next thread is created or a stop fails to join. The invariant `Paid` says
where the account stands: old threads are paid for; so is the last one where
the code would create another (`StartPaid`), would join none (`StopPaid`), or
has cleared the flag before it creates one (`ComingPaid`); and a stop joins the
last thread (`JoinsLast`). `Counting`, `ThreadsCounted` and `StepNumber` are
the lemmas on cardinalities. And about the undisturbed ones: every step of
PlcRuntime is a step of PlcCycle or leaves its variables alone
(`CleanImplementsCycle`), from IInv and `FirstTickInv`: before the timer of the
first start is armed nothing ticks. That starts, scans and stops end is checked
by TLC (ImplementsCycle).

`PlcSupervisorProofs`: MirrorsAgree, ClientsAgree, SkipsBounded and
TerminateTellsAll for any number of variables, clients, handlers and writes.
`Mirrored` says of a variable whose last write nobody disturbed that at most
one thread is on its way with it, and that what it has passed has the value
(which variables a set zeroes besides is arbitrary, `NeighboursAssumption`);
`Viewed` the same of the clients the loop has passed. `Skipped` relates the
clients a loop should still come to with those that are still ahead of it in
the list: each deletion takes one away (`RemoveAtFacts` says what a deletion
does to the positions). `Telling` is about the loop of the TerminateMessage.

`ListenerProofs`: ListenerSurvives and BlocksServed for any number of callers,
recorders, variables and calls. Whether an exception can reach the loop depends
on what has happened before: `InOrder` (nobody asked for more than to monitor
too early) keeps main and listener from starting together, `LastServed` follows
the port through start and stop of either thread, `NoneLeft` says that without
faults every client waits for its answer. `RaiseEnds` and `AnswerEnds` are
what a request's two ends do, shared by all its handlers.

`SecurityProofs`, about Hmi and Security: ShowsAcknowledged and DeathExplained
for any number of callers, calls and values, from `Shown` (what is on the
screen at each place of a call that is alone) and `Exchanged` (where the one
connection of such a call is, from the moment it is made). `Placed` counts
connections: no more are made than calls; `Ranged` says that as long as no set
has asked for a value out of range none is under way. For the rule, MismatchReported for
any number of changes and overlapping calls: `SecIInv` says that a difference
has somebody who will notice it, a call that is about to compare, a
notification under way or a thread that compares. `RuleOnlyWatches` shows that
the HMI under a rule implements the HMI.

`GatewayProofs`: RequestsInOrder, QuietAfterRelease and LinkNotLeftOpen for any
number of messages and losses. `Executing` lists what other threads can have
put into the field beside the state that is executed; `Ordered` says of every
place from which a message can still be sent (the object executed, the field,
the callback) that it is `Behind` what was sent; `Released` that after an
orderly release no place holds a state that leads to a request or a connection.

`VizProofs`: ServedAgree, NeverBack and ShowsCurrent for any number of devices,
clicks, changes and messages of other clients. `Asked`: the messages on their
way, taken one after the other, lead from the lists the page is in to the one
it wants. `Once`: no client is twice in a list, though lists change while they
are walked. `Following` finds the last value of the device that is shown: with
the device's thread, with the walk if that has yet to come to the page
(`Ahead`), on the WebSocket, or in the table.

`ReplicationProofs`: Conserved, NeverEarly, OrderExplained and
AtMostOneAfterStop for any stimuli, timestamps and number of sessions, also
those nobody stopped. The invariant has a part per session: `Inbox` (what Kafka
still has to deliver was not received and comes once), `Kept` (every stimulus
received is in the queue, in hand, issued or lost with its thread), `Timely`
(what is about to be issued is due), `Ordered` (what is in hand precedes all but
newcomers), `Stops`.

`CandyProofs`: about the PLC program for every set of candies and every delay,
Exclusion, OncePerSelection, ExtractsFully, and StopHeld, that a stopped belt
stays so until one of the two buttons is written or an extraction ends; its invariant says when a call can be made (`CallInv`), that the
timer never counts more ticks than have passed (`TimerInv`), that what is
selected has not been paid out (`SelectionInv`) and what a stop has set
(`StopInv`). `CandyImplementsFactory` shows by step simulation that the factory
among its twins behaves as the program alone does, so that all this holds there
(`CandySafe`). About the sensor, NeverTwice, Attributed and NoneMissed:
`Counted` numbers the changes of ExtractorRunning and says which of them the
sensor has been told (`Parity` tells a start from an end), `Follows` that it is
at most one change behind as long as it lives, with a start only while it sleeps
after the last end, the sleep and the age of the extraction together being shorter than the
timer; `Tagged` where the tag published last is, `Right` what has been or is
about to be reported.

Only model-checked: the liveness properties, SetsProgress, CallsEnd, Recorded,
Settles, StopEndsIssuer, EventuallyIssued, WaitingForwards, StopEnds, and of
ImplementsCycle the fairness; liveness under fairness is beyond the prover. The
two violated properties are claims of comments, and have no theorem. No
recursion is used.

## Not modelled

- The JavaScript under `viz/js` other than `viz.js`, and all style sheets, are
  unchanged third-party libraries (D3, cola.js, Bootstrap): more than 31000
  lines, and nearly all of the repository's JavaScript. They are external to
  the models. The program itself is the Python, C, Java and Structured Text
  code; of `viz.js` the table of variables is modelled, the rest draws.
- The parser (`amlparser.py`), the topology and the pre-processor are
  sequential, run before anything else and keep no state that other threads
  see; their subject is text.
- The sketches and scripts under `misc` are programs of their own for the
  physical testbed.
- Mininet, Kafka, mosquitto, pymodbus, paho and the C library are modelled as
  far as the code uses them.
- The protocols themselves, the conversion of values to and from text, and
  logging.

## Plan

What is left, in order of use:

1. Proofs: Rpc on its own, that an answer reaches who asked as long as calls
   do not overlap, which SecurityProofs shows inside its invariant, as an
   abstract specification that Hmi implements.
2. Listener composed with PlcSupervisor and PlcRuntime instead of beside them:
   a restart in which the values, the blocks and the threads are seen together
   (too large for TLC in this form; the parts meet at `MayStart`, `StopCall`
   and the fairness of `Token`).
3. The RFID reader's `terminate` and paho's reconnects.
