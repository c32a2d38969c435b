--------------------------- MODULE Replication ---------------------------
(* State replication (cpstwinning/replication.py): stimuli recorded at the  *)
(* physical system arrive through Kafka and are issued on the digital twins *)
(* with the time distances they were recorded with.  Every Replication.start *)
(* makes a session of its own: a KafkaStimuliConsumer, which fills a        *)
(* priority queue, and a StimulusIssuer, which empties it and sleeps until  *)
(* the next stimulus is due.  The consumer wakes it early when a stimulus   *)
(* arrives, and stop() does to end it; waking is an Event that sleep()      *)
(* clears before it waits.                                                  *)
(*                                                                          *)
(* Time is relative: elapsed counts since the first stimulus was issued, up *)
(* to the largest distance of two timestamps.  Stimuli that name an unknown *)
(* twin never enter the queue and are left out, as is bail_out, which is    *)
(* never set.                                                               *)
EXTENDS Integers, FiniteSets, Sequences

CONSTANTS
    Stimuli,      \* the stimuli recorded, each produced once
    Timestamp,    \* their timestamps
    NoStimulus,
    MaxDelta,     \* the largest distance of two timestamps
    TwinsMayFail, \* whether issuing a stimulus may raise
    TwinsMayHang, \* whether issuing a stimulus may never return
    MaxSessions   \* bound: calls of Replication.start that start a session

Delta(a, b) == Timestamp[a] - Timestamp[b]

ASSUME ReplicationAssumption ==
    /\ Timestamp \in [Stimuli -> Nat]
    /\ MaxDelta \in Nat /\ \A a, b \in Stimuli : Delta(a, b) <= MaxDelta
    /\ NoStimulus \notin Stimuli
    /\ TwinsMayFail \in BOOLEAN /\ TwinsMayHang \in BOOLEAN
    /\ MaxSessions \in Nat \ {0}

Sessions == 1..MaxSessions

VARIABLES
    running, session,    \* Replication: running, the last session started
    cli,                 \* where Replication.stop is
    produced,            \* stimuli in the Kafka topic
    cpc, crunning, kafka_consumer, inbox,   \* the consumers
    pq, event,           \* the queues; the Events of the sleepers
    ipc, irunning, cur, first, elapsed,     \* the issuers
    received, issued,    \* history: stimuli put in the queue / issued
    lost,                \* history: taken from the queue, never issued
    newcomers,           \* history: put in the queue since the last get
    stopped, after       \* history: the issuer was told to stop; issued since

consumers == <<cpc, crunning, kafka_consumer, inbox>>
issuers == <<ipc, irunning, cur, first, elapsed>>
history == <<received, issued, lost, newcomers, stopped, after>>
vars == <<running, session, cli, produced, consumers, pq, event, issuers, history>>

ForEach(x) == [s \in Sessions |-> x]

Init ==
    /\ running = FALSE /\ session = 0 /\ cli = "idle"
    /\ produced = {}
    /\ cpc = ForEach("none") /\ crunning = ForEach(FALSE)
    /\ kafka_consumer = ForEach(FALSE) /\ inbox = ForEach(<<>>)
    /\ pq = ForEach({}) /\ event = ForEach(FALSE)
    /\ ipc = ForEach("none") /\ irunning = ForEach(FALSE)
    /\ cur = ForEach(NoStimulus) /\ first = ForEach(NoStimulus)
    /\ elapsed = ForEach(0)
    /\ received = ForEach({}) /\ issued = ForEach({}) /\ lost = ForEach({})
    /\ newcomers = ForEach({}) /\ stopped = ForEach(FALSE) /\ after = ForEach(0)

---------------------------------------------------------------------------
(* Replication, called from the command line *)

Start ==
    /\ cli = "idle" /\ ~running
    /\ session < MaxSessions
    /\ running' = TRUE
    /\ session' = session + 1
    /\ cpc' = [cpc EXCEPT ![session + 1] = "started"]
    /\ UNCHANGED <<cli, produced, crunning, kafka_consumer, inbox, pq, event,
                   issuers, history>>

(* KafkaStimuliConsumer.stop, up to issuer.running = False: nothing at all  *)
(* is stopped while the consumer is not ready yet, nor the issuer unless    *)
(* it has begun to run.                                                     *)
Stop ==
    /\ cli = "idle" /\ running
    /\ IF crunning[session] /\ kafka_consumer[session]
       THEN /\ cli' = IF irunning[session] THEN "wake" ELSE "consumer"
            /\ irunning' = [irunning EXCEPT ![session] = FALSE]
            /\ stopped' = [stopped EXCEPT ![session] = @ \/ irunning[session]]
            /\ UNCHANGED running
       ELSE running' = FALSE /\ UNCHANGED <<cli, irunning, stopped>>
    /\ UNCHANGED <<session, produced, consumers, pq, event, ipc, cur, first,
                   elapsed, received, issued, lost, newcomers, after>>

StopWake ==
    /\ cli = "wake"
    /\ event' = [event EXCEPT ![session] = TRUE]
    /\ cli' = "consumer"
    /\ UNCHANGED <<running, session, produced, consumers, pq, issuers, history>>

StopConsumer ==
    /\ cli = "consumer"
    /\ crunning' = [crunning EXCEPT ![session] = FALSE]
    /\ running' = FALSE
    /\ cli' = "idle"
    /\ UNCHANGED <<session, produced, cpc, kafka_consumer, inbox, pq, event,
                   issuers, history>>

---------------------------------------------------------------------------
(* Kafka: a topic read from the latest offset; stimuli arrive in any order. *)

Produce(m) ==
    /\ m \notin produced
    /\ produced' = produced \union {m}
    /\ inbox' = [s \in Sessions |-> IF kafka_consumer[s] /\ cpc[s] # "done"
                                    THEN Append(inbox[s], m) ELSE inbox[s]]
    /\ UNCHANGED <<running, session, cli, cpc, crunning, kafka_consumer, pq,
                   event, issuers, history>>

---------------------------------------------------------------------------
(* KafkaStimuliConsumer.run *)

ConsumerRun(s) ==
    /\ cpc[s] = "started"
    /\ crunning' = [crunning EXCEPT ![s] = TRUE]
    /\ cpc' = [cpc EXCEPT ![s] = "connect"]
    /\ UNCHANGED <<running, session, cli, produced, kafka_consumer, inbox, pq,
                   event, issuers, history>>

Connect(s) ==
    /\ cpc[s] = "connect"
    /\ kafka_consumer' = [kafka_consumer EXCEPT ![s] = TRUE]
    /\ cpc' = [cpc EXCEPT ![s] = "issuer"]
    /\ UNCHANGED <<running, session, cli, produced, crunning, inbox, pq, event,
                   issuers, history>>

StartIssuer(s) ==
    /\ cpc[s] = "issuer"
    /\ ipc' = [ipc EXCEPT ![s] = "started"]
    /\ cpc' = [cpc EXCEPT ![s] = "poll"]
    /\ UNCHANGED <<running, session, cli, produced, crunning, kafka_consumer,
                   inbox, pq, event, irunning, cur, first, elapsed, history>>

(* The for loop over the topic does not look at running. *)
Receive(s) ==
    /\ cpc[s] = "poll" /\ inbox[s] # <<>>
    /\ inbox' = [inbox EXCEPT ![s] = Tail(@)]
    /\ pq' = [pq EXCEPT ![s] = @ \union {Head(inbox[s])}]
    /\ received' = [received EXCEPT ![s] = @ \union {Head(inbox[s])}]
    /\ newcomers' = [newcomers EXCEPT ![s] = @ \union {Head(inbox[s])}]
    /\ cpc' = [cpc EXCEPT ![s] = "wake"]
    /\ UNCHANGED <<running, session, cli, produced, crunning, kafka_consumer,
                   event, issuers, issued, lost, stopped, after>>

Wake(s) ==
    /\ cpc[s] = "wake"
    /\ event' = [event EXCEPT ![s] = TRUE]
    /\ cpc' = [cpc EXCEPT ![s] = "poll"]
    /\ UNCHANGED <<running, session, cli, produced, crunning, kafka_consumer,
                   inbox, pq, issuers, history>>

(* After a second without a message the for loop ends and running counts.   *)
ConsumerExit(s) ==
    /\ cpc[s] = "poll" /\ inbox[s] = <<>> /\ ~crunning[s]
    /\ cpc' = [cpc EXCEPT ![s] = "done"]
    /\ UNCHANGED <<running, session, cli, produced, crunning, kafka_consumer,
                   inbox, pq, event, issuers, history>>

---------------------------------------------------------------------------
(* StimulusIssuer.run *)

IssuerGoto(s, l) == ipc' = [ipc EXCEPT ![s] = l]

IssuerRun(s) ==
    /\ ipc[s] = "started"
    /\ irunning' = [irunning EXCEPT ![s] = TRUE]
    /\ IssuerGoto(s, "initial")
    /\ UNCHANGED <<running, session, cli, produced, consumers, pq, event, cur,
                   first, elapsed, history>>

InitialSleep(s) ==
    /\ ipc[s] = "initial"
    /\ IssuerGoto(s, "loop")
    /\ UNCHANGED <<running, session, cli, produced, consumers, pq, event,
                   irunning, cur, first, elapsed, history>>

(* Mutant: `while True`. *)
LoopAlways(s) ==
    /\ ipc[s] = "loop"
    /\ IssuerGoto(s, "get")
    /\ UNCHANGED <<running, session, cli, produced, consumers, pq, event,
                   irunning, cur, first, elapsed, history>>

Loop(s) ==
    /\ ipc[s] = "loop"
    /\ IssuerGoto(s, IF irunning[s] THEN "get" ELSE "done")
    /\ UNCHANGED <<running, session, cli, produced, consumers, pq, event,
                   irunning, cur, first, elapsed, history>>

Due(s, m) == elapsed[s] >= Delta(m, first[s])

(* Mutant: a queue without priorities. *)
NextAny(s, m) == m \in pq[s]

(* Timestamps are queued as they come in the messages, as strings: of the   *)
(* same number of digits, so that their order is that of the numbers.       *)
NextUp(s, m) == m \in pq[s] /\ \A n \in pq[s] : Timestamp[m] <= Timestamp[n]

Get(s, m) ==
    /\ ipc[s] = "get"
    /\ NextUp(s, m)
    /\ pq' = [pq EXCEPT ![s] = @ \ {m}]
    /\ cur' = [cur EXCEPT ![s] = m]
    /\ newcomers' = [newcomers EXCEPT ![s] = {}]
    /\ IF first[s] = NoStimulus
       THEN /\ first' = [first EXCEPT ![s] = m]
            /\ IssuerGoto(s, "issue")
       ELSE /\ IssuerGoto(s, IF Due(s, m) THEN "issue" ELSE "clear")
            /\ UNCHANGED first
    /\ UNCHANGED <<running, session, cli, produced, consumers, event, irunning,
                   elapsed, received, issued, lost, stopped, after>>

Clear(s) ==
    /\ ipc[s] = "clear"
    /\ event' = [event EXCEPT ![s] = FALSE]
    /\ IssuerGoto(s, "wait")
    /\ UNCHANGED <<running, session, cli, produced, consumers, pq, irunning, cur,
                   first, elapsed, history>>

(* Mutant: the break or continue after a forced wake-up is missing.         *)
ForcedWakeupIssues(s) ==
    /\ ipc[s] = "wait" /\ event[s]
    /\ IssuerGoto(s, "issue")
    /\ UNCHANGED <<running, session, cli, produced, consumers, pq, event,
                   irunning, cur, first, elapsed, history>>

(* Mutant: the stimulus in hand is not queued again.                        *)
ForcedWakeupDrops(s) ==
    /\ ipc[s] = "wait" /\ event[s]
    /\ IssuerGoto(s, IF irunning[s] THEN "loop" ELSE "done")
    /\ cur' = [cur EXCEPT ![s] = NoStimulus]
    /\ UNCHANGED <<running, session, cli, produced, consumers, pq, event,
                   irunning, first, elapsed, history>>

(* wait() returns True: give up if stopped, else queue the stimulus again.  *)
ForcedWakeup(s) ==
    /\ ipc[s] = "wait" /\ event[s]
    /\ IF irunning[s]
       THEN /\ pq' = [pq EXCEPT ![s] = @ \union {cur[s]}]
            /\ IssuerGoto(s, "loop")
            /\ UNCHANGED lost
       ELSE /\ lost' = [lost EXCEPT ![s] = @ \union {cur[s]}]
            /\ IssuerGoto(s, "done")
            /\ UNCHANGED pq
    /\ cur' = [cur EXCEPT ![s] = NoStimulus]
    /\ UNCHANGED <<running, session, cli, produced, consumers, event, irunning,
                   first, elapsed, received, issued, newcomers, stopped, after>>

(* Mutant: wait() without a timeout. *)
TimeoutNever(s) == FALSE /\ UNCHANGED vars

Timeout(s) ==
    /\ ipc[s] = "wait" /\ ~event[s] /\ Due(s, cur[s])
    /\ IssuerGoto(s, "issue")
    /\ UNCHANGED <<running, session, cli, produced, consumers, pq, event,
                   irunning, cur, first, elapsed, history>>

Issue(s) ==
    /\ ipc[s] = "issue"
    /\ issued' = [issued EXCEPT ![s] = @ \union {cur[s]}]
    /\ after' = [after EXCEPT ![s] = IF stopped[s] THEN @ + 1 ELSE @]
    /\ cur' = [cur EXCEPT ![s] = NoStimulus]
    /\ IssuerGoto(s, "loop")
    /\ UNCHANGED <<running, session, cli, produced, consumers, pq, event,
                   irunning, first, elapsed, received, lost, newcomers, stopped>>

(* The twin cannot be reached: the exception ends the issuer's thread.      *)
IssueRaises(s) ==
    /\ TwinsMayFail /\ ipc[s] = "issue"
    /\ lost' = [lost EXCEPT ![s] = @ \union {cur[s]}]
    /\ cur' = [cur EXCEPT ![s] = NoStimulus]
    /\ IssuerGoto(s, "done")
    /\ UNCHANGED <<running, session, cli, produced, consumers, pq, event,
                   irunning, first, elapsed, received, issued, newcomers,
                   stopped, after>>

(* The twin does not answer: a set on a PLC that is stopped, or a call on a *)
(* connection whose answers have been mixed up, receives without a timeout. *)
IssueHangs(s) ==
    /\ TwinsMayHang /\ ipc[s] = "issue"
    /\ after' = [after EXCEPT ![s] = IF stopped[s] THEN @ + 1 ELSE @]
    /\ IssuerGoto(s, "hung")
    /\ UNCHANGED <<running, session, cli, produced, consumers, pq, event,
                   irunning, cur, first, elapsed, received, issued, lost,
                   newcomers, stopped>>

(* Time passes for every session that has issued its first stimulus.        *)
Tick ==
    /\ \E s \in Sessions : first[s] # NoStimulus /\ elapsed[s] < MaxDelta
    /\ elapsed' = [s \in Sessions |->
                     IF first[s] # NoStimulus /\ elapsed[s] < MaxDelta
                     THEN elapsed[s] + 1 ELSE elapsed[s]]
    /\ UNCHANGED <<running, session, cli, produced, consumers, pq, event, ipc,
                   irunning, cur, first, history>>

---------------------------------------------------------------------------
Consumer(s) ==
    \/ ConsumerRun(s) \/ Connect(s) \/ StartIssuer(s) \/ Receive(s) \/ Wake(s)
    \/ ConsumerExit(s)

Issuer(s) ==
    \/ IssuerRun(s) \/ InitialSleep(s) \/ Loop(s) \/ \E m \in Stimuli : Get(s, m)
    \/ Clear(s) \/ ForcedWakeup(s) \/ Timeout(s)
    \/ Issue(s) \/ IssueRaises(s) \/ IssueHangs(s)

Next ==
    \/ Start \/ Stop \/ StopWake \/ StopConsumer
    \/ \E m \in Stimuli : Produce(m)
    \/ \E s \in Sessions : Consumer(s) \/ Issuer(s)
    \/ Tick

(* Threads are scheduled, time passes, a stop in progress goes on.  Nobody  *)
(* has to start, to stop or to produce, and no twin has to answer: an       *)
(* issuer that calls one goes on by any of its three outcomes.              *)
Fairness ==
    /\ \A s \in Sessions : WF_vars(Consumer(s)) /\ WF_vars(Issuer(s))
    /\ WF_vars(StopWake) /\ WF_vars(StopConsumer) /\ WF_vars(Tick)

Spec == Init /\ [][Next]_vars
FairSpec == Spec /\ Fairness

---------------------------------------------------------------------------
(* Properties *)

TypeOK ==
    /\ running \in BOOLEAN /\ session \in 0..MaxSessions
    /\ cli \in {"idle", "wake", "consumer"}
    /\ produced \subseteq Stimuli
    /\ cpc \in [Sessions -> {"none", "started", "connect", "issuer", "poll",
                             "wake", "done"}]
    /\ crunning \in [Sessions -> BOOLEAN]
    /\ kafka_consumer \in [Sessions -> BOOLEAN]
    /\ inbox \in [Sessions -> Seq(Stimuli)]
    /\ pq \in [Sessions -> SUBSET Stimuli]
    /\ event \in [Sessions -> BOOLEAN]
    /\ ipc \in [Sessions -> {"none", "started", "initial", "loop", "get",
                             "clear", "wait", "issue", "hung", "done"}]
    /\ irunning \in [Sessions -> BOOLEAN]
    /\ cur \in [Sessions -> Stimuli \union {NoStimulus}]
    /\ first \in [Sessions -> Stimuli \union {NoStimulus}]
    /\ elapsed \in [Sessions -> 0..MaxDelta]
    /\ received \in [Sessions -> SUBSET Stimuli]
    /\ issued \in [Sessions -> SUBSET Stimuli]
    /\ lost \in [Sessions -> SUBSET Stimuli]
    /\ newcomers \in [Sessions -> SUBSET Stimuli]
    /\ stopped \in [Sessions -> BOOLEAN]
    /\ after \in [Sessions -> Nat]

InHand(s) == {cur[s]} \ {NoStimulus}

(* Nothing is lost or doubled by taking stimuli out of the queue and        *)
(* putting them back: every stimulus received is at exactly one place, and  *)
(* is only given up when the issuer ends.                                   *)
Conserved ==
    \A s \in Sessions :
        /\ received[s] = pq[s] \union InHand(s) \union issued[s] \union lost[s]
        /\ pq[s] \intersect InHand(s) = {}
        /\ (pq[s] \union InHand(s)) \intersect (issued[s] \union lost[s]) = {}
        /\ issued[s] \intersect lost[s] = {}
        /\ lost[s] # {} => ipc[s] = "done"

(* No stimulus is issued before its distance to the first one has passed,   *)
(* however often the issuer is woken early.                                 *)
NeverEarly ==
    \A s \in Sessions : ipc[s] = "issue" => Due(s, cur[s])

(* Stimuli are issued in the order of their timestamps, but for those that  *)
(* were put in the queue after the one issued had been taken out.           *)
OrderExplained ==
    \A s \in Sessions : ipc[s] = "issue" =>
        \A m \in pq[s] : Timestamp[m] < Timestamp[cur[s]] => m \in newcomers[s]

(* stop() is not immediate, but an issuer that has been told to stop issues *)
(* at most one more stimulus, whatever it was doing and whatever arrives.   *)
AtMostOneAfterStop ==
    \A s \in Sessions : after[s] <= 1

(* An issuer told to stop ends, unless it blocks on the empty queue or in   *)
(* the call of a twin that does not answer.                                 *)
StopEndsIssuer ==
    \A s \in Sessions :
        stopped[s] ~> \/ ipc[s] \in {"done", "hung"}
                      \/ ipc[s] = "get" /\ pq[s] = {}

(* A stimulus that is in the queue is issued in the end, unless the issuer  *)
(* is told to stop, fails or hangs in the call of a twin.                   *)
EventuallyIssued ==
    \A s \in Sessions, m \in Stimuli :
        (m \in received[s]) ~>
            (m \in issued[s] \/ stopped[s] \/ ipc[s] \in {"done", "hung"})

============================================================================
