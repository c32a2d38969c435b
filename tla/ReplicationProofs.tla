------------------------- MODULE ReplicationProofs -------------------------
(* Proofs about Replication for all stimuli with any timestamps and for any *)
(* number of sessions, of which the runs check one.                         *)
EXTENDS Replication, TLAPS

Holding == {"clear", "wait", "issue", "hung"}

(* What Kafka still has to deliver has not been received, and comes once. *)
Inbox(s) ==
    /\ received[s] \subseteq produced
    /\ \A i \in 1..Len(inbox[s]) : inbox[s][i] \in produced \ received[s]
    /\ \A i, j \in 1..Len(inbox[s]) : inbox[s][i] = inbox[s][j] => i = j

(* Every stimulus received is in one place, and the issuer knows which of   *)
(* its steps hold one.                                                      *)
Kept(s) ==
    /\ s > session => cpc[s] = "none"
    /\ cpc[s] \in {"none", "started", "connect", "issuer"} => ipc[s] = "none"
    /\ cur[s] # NoStimulus <=> ipc[s] \in Holding
    /\ received[s] = pq[s] \union InHand(s) \union issued[s] \union lost[s]
    /\ pq[s] \intersect InHand(s) = {}
    /\ (pq[s] \union InHand(s)) \intersect (issued[s] \union lost[s]) = {}
    /\ issued[s] \intersect lost[s] = {}
    /\ lost[s] # {} => ipc[s] = "done"

(* The clock runs when there is a stimulus to wait for. *)
Timely(s) ==
    /\ ipc[s] \in Holding => first[s] # NoStimulus
    /\ ipc[s] = "issue" => Due(s, cur[s])

(* The stimulus in hand precedes all but those that came after it was taken. *)
Ordered(s) ==
    ipc[s] \in Holding =>
        \A m \in pq[s] : Timestamp[m] < Timestamp[cur[s]] => m \in newcomers[s]

(* An issuer that has been told to stop stays told, and comes back to the   *)
(* test of its loop after it has issued.                                    *)
Stops(s) ==
    /\ irunning[s] \/ stopped[s] => ipc[s] \notin {"none", "started"}
    /\ stopped[s] => ~irunning[s]
    /\ after[s] > 0 => stopped[s] /\ ipc[s] \in {"loop", "done", "hung"}
    /\ after[s] <= 1

(* The inductive invariant. *)
IInv ==
    /\ TypeOK
    /\ \A s \in Sessions : Inbox(s) /\ Kept(s) /\ Timely(s) /\ Ordered(s) /\ Stops(s)

---------------------------------------------------------------------------
(* What is in hand is a stimulus, so the types are kept. *)
LEMMA StepTypeOK == TypeOK /\ (\A s \in Sessions : Kept(s)) /\ [Next]_vars => TypeOK'
<1> SUFFICES ASSUME TypeOK, \A s \in Sessions : Kept(s), [Next]_vars PROVE TypeOK'
  OBVIOUS
<1> USE ReplicationAssumption DEF consumers, issuers, history, TypeOK
<1>1. CASE Start
  <2>1. session + 1 \in 1..MaxSessions
    BY <1>1 DEF Start
  <2>2. cpc' = [cpc EXCEPT ![session + 1] = "started"] /\ session' = session + 1
    BY <1>1 DEF Start
  <2>3. cpc' \in [Sessions -> {"none", "started", "connect", "issuer", "poll",
                               "wake", "done"}]
    BY <2>1, <2>2 DEF Sessions
  <2> QED
    BY <1>1, <2>1, <2>2, <2>3 DEF Start
<1>2. CASE Stop
  BY <1>2 DEF Stop
<1>3. CASE StopWake
  BY <1>3 DEF StopWake
<1>4. CASE StopConsumer
  BY <1>4 DEF StopConsumer
<1>5. CASE Tick
  <2>1. \A s \in Sessions : elapsed[s] < MaxDelta => elapsed[s] + 1 \in 0..MaxDelta
    OBVIOUS
  <2>2. elapsed' \in [Sessions -> 0..MaxDelta]
    BY <1>5, <2>1 DEF Tick
  <2> QED
    BY <1>5, <2>2 DEF Tick
<1>6. ASSUME NEW m \in Stimuli, Produce(m) PROVE TypeOK'
  BY <1>6 DEF Produce
<1>7. ASSUME NEW s \in Sessions, ConsumerRun(s) PROVE TypeOK'
  BY <1>7 DEF ConsumerRun
<1>8. ASSUME NEW s \in Sessions, Connect(s) PROVE TypeOK'
  BY <1>8 DEF Connect
<1>9. ASSUME NEW s \in Sessions, StartIssuer(s) PROVE TypeOK'
  BY <1>9 DEF StartIssuer
<1>10. ASSUME NEW s \in Sessions, Receive(s) PROVE TypeOK'
  BY <1>10 DEF Receive
<1>11. ASSUME NEW s \in Sessions, Wake(s) PROVE TypeOK'
  BY <1>11 DEF Wake
<1>12. ASSUME NEW s \in Sessions, ConsumerExit(s) PROVE TypeOK'
  BY <1>12 DEF ConsumerExit
<1>13. ASSUME NEW s \in Sessions, IssuerRun(s) PROVE TypeOK'
  BY <1>13 DEF IssuerRun, IssuerGoto
<1>14. ASSUME NEW s \in Sessions, InitialSleep(s) PROVE TypeOK'
  BY <1>14 DEF InitialSleep, IssuerGoto
<1>15. ASSUME NEW s \in Sessions, Loop(s) PROVE TypeOK'
  BY <1>15 DEF Loop, IssuerGoto
<1>16. ASSUME NEW s \in Sessions, Clear(s) PROVE TypeOK'
  BY <1>16 DEF Clear, IssuerGoto
<1>17. ASSUME NEW s \in Sessions, ForcedWakeup(s) PROVE TypeOK'
  <2>1. cur[s] \in Stimuli
    BY <1>17 DEF ForcedWakeup, Kept, Holding
  <2>2. \/ /\ pq' = [pq EXCEPT ![s] = @ \union {cur[s]}] /\ lost' = lost
           /\ ipc' = [ipc EXCEPT ![s] = "loop"]
        \/ /\ lost' = [lost EXCEPT ![s] = @ \union {cur[s]}] /\ pq' = pq
           /\ ipc' = [ipc EXCEPT ![s] = "done"]
    BY <1>17 DEF ForcedWakeup, IssuerGoto
  <2>3. /\ pq[s] \union {cur[s]} \in SUBSET Stimuli
        /\ lost[s] \union {cur[s]} \in SUBSET Stimuli
    BY <2>1
  <2> HIDE DEF TypeOK
  <2>4. pq \in [Sessions -> SUBSET Stimuli] /\ lost \in [Sessions -> SUBSET Stimuli]
    BY DEF TypeOK
  <2>5. pq' \in [Sessions -> SUBSET Stimuli]
    BY <2>2, <2>3, <2>4
  <2>6. lost' \in [Sessions -> SUBSET Stimuli]
    BY <2>2, <2>3, <2>4
  <2> USE DEF TypeOK
  <2>7. ipc' \in [Sessions -> {"none", "started", "initial", "loop", "get",
                               "clear", "wait", "issue", "hung", "done"}]
    BY <2>2
  <2>8. cur' \in [Sessions -> Stimuli \union {NoStimulus}]
    BY <1>17 DEF ForcedWakeup
  <2> QED
    BY <1>17, <2>5, <2>6, <2>7, <2>8 DEF ForcedWakeup
<1>18. ASSUME NEW s \in Sessions, Timeout(s) PROVE TypeOK'
  BY <1>18 DEF Timeout, IssuerGoto
<1>19. ASSUME NEW s \in Sessions, Issue(s) PROVE TypeOK'
  <2>1. cur[s] \in Stimuli
    BY <1>19 DEF Issue, Kept, Holding
  <2>2. issued' \in [Sessions -> SUBSET Stimuli]
    BY <1>19, <2>1 DEF Issue
  <2>3. after' \in [Sessions -> Nat]
    BY <1>19, <2>1 DEF Issue
  <2>4. cur' \in [Sessions -> Stimuli \union {NoStimulus}]
    BY <1>19, <2>1 DEF Issue
  <2> QED
    BY <1>19, <2>2, <2>3, <2>4 DEF Issue, IssuerGoto
<1>20. ASSUME NEW s \in Sessions, IssueRaises(s) PROVE TypeOK'
  <2>1. cur[s] \in Stimuli
    BY <1>20 DEF IssueRaises, Kept, Holding
  <2>2. lost' \in [Sessions -> SUBSET Stimuli]
    BY <1>20, <2>1 DEF IssueRaises
  <2>3. cur' \in [Sessions -> Stimuli \union {NoStimulus}]
    BY <1>20, <2>1 DEF IssueRaises
  <2> QED
    BY <1>20, <2>2, <2>3 DEF IssueRaises, IssuerGoto
<1>21. ASSUME NEW s \in Sessions, NEW m \in Stimuli, Get(s, m) PROVE TypeOK'
  <2>1. pq' \in [Sessions -> SUBSET Stimuli] /\ newcomers' \in [Sessions -> SUBSET Stimuli]
    BY <1>21 DEF Get
  <2>2. cur' \in [Sessions -> Stimuli \union {NoStimulus}]
    BY <1>21 DEF Get
  <2>3. first' \in [Sessions -> Stimuli \union {NoStimulus}]
    BY <1>21 DEF Get
  <2>4. ipc' \in [Sessions -> {"none", "started", "initial", "loop", "get",
                               "clear", "wait", "issue", "hung", "done"}]
    BY <1>21 DEF Get, IssuerGoto
  <2> QED
    BY <1>21, <2>1, <2>2, <2>3, <2>4 DEF Get
<1>22. ASSUME NEW s \in Sessions, IssueHangs(s) PROVE TypeOK'
  <2>1. after' \in [Sessions -> Nat]
    BY <1>22 DEF IssueHangs
  <2> QED
    BY <1>22, <2>1 DEF IssueHangs, IssuerGoto
<1>23. CASE UNCHANGED vars
  BY <1>23 DEF vars
<1> QED
  BY <1>1, <1>2, <1>3, <1>4, <1>5, <1>6, <1>7, <1>8, <1>9, <1>10,
     <1>11, <1>12, <1>13, <1>14, <1>15, <1>16, <1>17, <1>18, <1>19, <1>20,
     <1>21, <1>22, <1>23
     DEF Next, Consumer, Issuer

(* A stimulus is produced once, so it is received once. *)
LEMMA StepInbox ==
  ASSUME NEW u \in Sessions, TypeOK, Inbox(u), [Next]_vars
  PROVE  Inbox(u)'
<1> USE ReplicationAssumption DEF consumers, issuers, history
<1>1. ASSUME UNCHANGED <<received, inbox, produced>>
     PROVE  Inbox(u)'
  BY <1>1 DEF Inbox
<1>2. ASSUME NEW m \in Stimuli, Produce(m)
     PROVE  Inbox(u)'
  <2> DEFINE q == inbox[u]
  <2>1. q \in Seq(Stimuli) /\ Len(q) \in Nat
    BY DEF TypeOK
  <2>2. /\ Len(Append(q, m)) = Len(q) + 1
        /\ \A i \in 1..Len(q) : Append(q, m)[i] = q[i]
        /\ Append(q, m)[Len(q) + 1] = m
    BY <2>1
  <2>3. inbox'[u] = q \/ inbox'[u] = Append(q, m)
    BY <1>2 DEF Produce
  <2>4. /\ produced' = produced \union {m} /\ m \notin produced
        /\ received' = received
    BY <1>2 DEF Produce
  <2>5. CASE inbox'[u] = q
    BY <2>4, <2>5 DEF Inbox
  <2>6. CASE inbox'[u] = Append(q, m)
    <3> HIDE DEF q
    <3>1. \A i \in 1..Len(q) : q[i] \in produced \ received[u]
      BY DEF Inbox, q
    <3>2. \A i, j \in 1..Len(q) : q[i] = q[j] => i = j
      BY DEF Inbox, q
    <3>3. received[u] \subseteq produced
      BY DEF Inbox
    <3> QED
      BY <2>1, <2>2, <2>4, <2>6, <3>1, <3>2, <3>3 DEF Inbox
  <2> QED
    BY <2>3, <2>5, <2>6
<1>3. ASSUME NEW s \in Sessions, Receive(s)
     PROVE  Inbox(u)'
  <2>1. /\ inbox[s] \in Seq(Stimuli) /\ inbox[s] # <<>>
        /\ inbox' = [inbox EXCEPT ![s] = Tail(@)]
        /\ received' = [received EXCEPT ![s] = @ \union {Head(inbox[s])}]
        /\ produced' = produced
    BY <1>3 DEF Receive, TypeOK
  <2>2. CASE u # s
    BY <2>1, <2>2 DEF Inbox, TypeOK
  <2>3. CASE u = s
    <3> DEFINE q == inbox[u]
    <3>1. inbox'[u] = Tail(q) /\ received'[u] = received[u] \union {q[1]}
      BY <2>1, <2>3 DEF TypeOK
    <3>2. /\ Len(q) \in Nat \ {0} /\ Len(Tail(q)) = Len(q) - 1
          /\ \A i \in 1..Len(q) - 1 : Tail(q)[i] = q[i + 1]
      BY <2>1, <2>3
    <3>3. \A i \in 1..Len(q) : q[i] \in produced \ received[u]
      BY DEF Inbox
    <3>4. \A i, j \in 1..Len(q) : q[i] = q[j] => i = j
      BY DEF Inbox
    <3>5. received[u] \subseteq produced
      BY DEF Inbox
    <3> HIDE DEF q
    <3>6. \A i \in 1..Len(q) - 1 : i + 1 \in 1..Len(q) /\ i + 1 # 1 /\ 1 \in 1..Len(q)
      BY <3>2
    <3>7. /\ received[u] \union {q[1]} \subseteq produced
          /\ \A i \in 1..Len(q) - 1 :
               q[i + 1] \in produced \ (received[u] \union {q[1]})
      BY <3>2, <3>3, <3>4, <3>5, <3>6
    <3>8. \A i, j \in 1..Len(q) - 1 : q[i + 1] = q[j + 1] => i = j
      BY <3>2, <3>4, <3>6
    <3> QED
      <4>1. Len(inbox'[u]) = Len(q) - 1
        BY <3>1, <3>2
      <4>2. \A i \in 1..Len(q) - 1 : inbox'[u][i] = q[i + 1]
        BY <3>1, <3>2
      <4>3. \A i, j \in 1..Len(q) - 1 : inbox'[u][i] = inbox'[u][j] => i = j
        BY <3>8, <4>2
      <4>4. \A i \in 1..Len(q) - 1 : inbox'[u][i] \in produced' \ received'[u]
        BY <2>1, <3>1, <3>7, <4>2
      <4>5. received'[u] \subseteq produced'
        BY <2>1, <3>1, <3>7
      <4> QED
        BY <4>1, <4>3, <4>4, <4>5 DEF Inbox
  <2> QED
    BY <2>2, <2>3
<1> QED
  BY <1>1, <1>2, <1>3
     DEF Next, Consumer, Issuer, vars, Start, Stop, StopWake, StopConsumer,
     Tick, ConsumerRun, Connect, StartIssuer, Wake, ConsumerExit, IssuerRun,
     InitialSleep, Loop, Clear, ForcedWakeup, Timeout, Issue, IssueRaises,
     IssueHangs, Get, IssuerGoto

(* Taking out, putting back and issuing move a stimulus from place to place. *)
LEMMA StepKept ==
  ASSUME NEW u \in Sessions, TypeOK, Inbox(u), Kept(u), [Next]_vars
  PROVE  Kept(u)'
<1> USE ReplicationAssumption DEF consumers, issuers, history
<1>1. ASSUME UNCHANGED <<session, cpc, ipc, cur, received, pq, issued, lost>>
     PROVE  Kept(u)'
  BY <1>1 DEF Kept, InHand, Holding
<1>2. CASE Start
  <2>1. cpc' = [cpc EXCEPT ![session + 1] = "started"] /\ session' = session + 1
    BY <1>2 DEF Start
  <2>2. UNCHANGED <<ipc, cur, received, pq, issued, lost>>
    BY <1>2 DEF Start
  <2>3. u > session' => u > session /\ cpc'[u] = cpc[u]
    BY <2>1 DEF TypeOK, Sessions
  <2>4. cpc'[u] = cpc[u] \/ u > session
    BY <2>1 DEF TypeOK, Sessions
  <2> QED
    BY <2>2, <2>3, <2>4 DEF Kept, InHand, Holding
<1>3. ASSUME NEW s \in Sessions, ConsumerRun(s)
     PROVE  Kept(u)'
  BY <1>3 DEF ConsumerRun, Kept, TypeOK, InHand, Holding
<1>4. ASSUME NEW s \in Sessions, Connect(s)
     PROVE  Kept(u)'
  BY <1>4 DEF Connect, Kept, TypeOK, InHand, Holding
<1>5. ASSUME NEW s \in Sessions, StartIssuer(s)
     PROVE  Kept(u)'
  BY <1>5 DEF StartIssuer, Kept, TypeOK, InHand, Holding
<1>6. ASSUME NEW s \in Sessions, Receive(s)
     PROVE  Kept(u)'
  BY <1>6 DEF Receive, Kept, TypeOK, InHand, Holding, Inbox
<1>7. ASSUME NEW s \in Sessions, Wake(s)
     PROVE  Kept(u)'
  BY <1>7 DEF Wake, Kept, TypeOK, InHand, Holding
<1>8. ASSUME NEW s \in Sessions, ConsumerExit(s)
     PROVE  Kept(u)'
  BY <1>8 DEF ConsumerExit, Kept, TypeOK, InHand, Holding
<1>9. ASSUME NEW s \in Sessions, IssuerRun(s)
     PROVE  Kept(u)'
  BY <1>9 DEF IssuerRun, IssuerGoto, Kept, TypeOK, InHand, Holding
<1>10. ASSUME NEW s \in Sessions, InitialSleep(s)
     PROVE  Kept(u)'
  BY <1>10 DEF InitialSleep, IssuerGoto, Kept, TypeOK, InHand, Holding
<1>11. ASSUME NEW s \in Sessions, Loop(s)
     PROVE  Kept(u)'
  BY <1>11 DEF Loop, IssuerGoto, Kept, TypeOK, InHand, Holding
<1>12. ASSUME NEW s \in Sessions, Clear(s)
     PROVE  Kept(u)'
  BY <1>12 DEF Clear, IssuerGoto, Kept, TypeOK, InHand, Holding
<1>13. ASSUME NEW s \in Sessions, ForcedWakeup(s)
     PROVE  Kept(u)'
  BY <1>13 DEF ForcedWakeup, IssuerGoto, Kept, TypeOK, InHand, Holding
<1>14. ASSUME NEW s \in Sessions, Timeout(s)
     PROVE  Kept(u)'
  BY <1>14 DEF Timeout, IssuerGoto, Kept, TypeOK, InHand, Holding
<1>15. ASSUME NEW s \in Sessions, Issue(s)
     PROVE  Kept(u)'
  BY <1>15 DEF Issue, IssuerGoto, Kept, TypeOK, InHand, Holding
<1>16. ASSUME NEW s \in Sessions, IssueRaises(s)
     PROVE  Kept(u)'
  BY <1>16 DEF IssueRaises, IssuerGoto, Kept, TypeOK, InHand, Holding
<1>17. ASSUME NEW s \in Sessions, NEW m \in Stimuli, Get(s, m)
     PROVE  Kept(u)'
  BY <1>17 DEF Get, IssuerGoto, NextUp, Kept, TypeOK, InHand, Holding
<1>18. ASSUME NEW s \in Sessions, IssueHangs(s)
     PROVE  Kept(u)'
  BY <1>18 DEF IssueHangs, IssuerGoto, Kept, TypeOK, InHand, Holding
<1> QED
  BY <1>1, <1>2, <1>3, <1>4, <1>5, <1>6, <1>7, <1>8, <1>9, <1>10,
     <1>11, <1>12, <1>13, <1>14, <1>15, <1>16, <1>17, <1>18
     DEF Next, Consumer, Issuer, vars, Stop, StopWake, StopConsumer, Tick,
     Produce

(* The time that has passed only grows. *)
LEMMA StepTimely ==
  ASSUME NEW u \in Sessions, TypeOK, Kept(u), Timely(u), [Next]_vars
  PROVE  Timely(u)'
<1> USE ReplicationAssumption DEF consumers, issuers, history
<1>1. ASSUME UNCHANGED <<ipc, cur, first, elapsed>>
     PROVE  Timely(u)'
  BY <1>1 DEF Timely, Due, Holding
<1>2. CASE Tick
  BY <1>2 DEF Tick, Timely, TypeOK, Due, Delta, Holding, Kept
<1>3. ASSUME NEW s \in Sessions, StartIssuer(s)
     PROVE  Timely(u)'
  BY <1>3 DEF StartIssuer, Timely, TypeOK, Due, Delta, Holding, Kept
<1>4. ASSUME NEW s \in Sessions, IssuerRun(s)
     PROVE  Timely(u)'
  BY <1>4 DEF IssuerRun, IssuerGoto, Timely, TypeOK, Due, Delta, Holding, Kept
<1>5. ASSUME NEW s \in Sessions, InitialSleep(s)
     PROVE  Timely(u)'
  BY <1>5 DEF InitialSleep, IssuerGoto, Timely, TypeOK, Due, Delta, Holding, Kept
<1>6. ASSUME NEW s \in Sessions, Loop(s)
     PROVE  Timely(u)'
  BY <1>6 DEF Loop, IssuerGoto, Timely, TypeOK, Due, Delta, Holding, Kept
<1>7. ASSUME NEW s \in Sessions, Clear(s)
     PROVE  Timely(u)'
  BY <1>7 DEF Clear, IssuerGoto, Timely, TypeOK, Due, Delta, Holding, Kept
<1>8. ASSUME NEW s \in Sessions, ForcedWakeup(s)
     PROVE  Timely(u)'
  BY <1>8 DEF ForcedWakeup, IssuerGoto, Timely, TypeOK, Due, Delta, Holding, Kept
<1>9. ASSUME NEW s \in Sessions, Timeout(s)
     PROVE  Timely(u)'
  BY <1>9 DEF Timeout, IssuerGoto, Timely, TypeOK, Due, Delta, Holding, Kept
<1>10. ASSUME NEW s \in Sessions, Issue(s)
     PROVE  Timely(u)'
  BY <1>10 DEF Issue, IssuerGoto, Timely, TypeOK, Due, Delta, Holding, Kept
<1>11. ASSUME NEW s \in Sessions, IssueRaises(s)
     PROVE  Timely(u)'
  BY <1>11 DEF IssueRaises, IssuerGoto, Timely, TypeOK, Due, Delta, Holding, Kept
<1>12. ASSUME NEW s \in Sessions, NEW m \in Stimuli, Get(s, m)
     PROVE  Timely(u)'
  <2>1. Delta(m, m) = 0 /\ elapsed[s] >= 0
    BY DEF Delta, TypeOK
  <2>2. CASE u # s
    BY <1>12, <2>2 DEF Get, IssuerGoto, Timely, TypeOK, Due, Holding
  <2>3. CASE u = s
    <3>1. cur'[s] = m /\ elapsed' = elapsed /\ m # NoStimulus
      BY <1>12 DEF Get, TypeOK
    <3>2. CASE first[s] = NoStimulus
      BY <1>12, <2>1, <2>3, <3>1, <3>2 DEF Get, IssuerGoto, Timely, TypeOK, Due, Holding
    <3>3. CASE first[s] # NoStimulus
      BY <1>12, <2>3, <3>1, <3>3 DEF Get, IssuerGoto, Timely, TypeOK, Due, Holding
    <3> QED
      BY <3>2, <3>3
  <2> QED
    BY <2>2, <2>3
<1>13. ASSUME NEW s \in Sessions, IssueHangs(s)
     PROVE  Timely(u)'
  BY <1>13 DEF IssueHangs, IssuerGoto, Timely, TypeOK, Due, Delta, Holding, Kept
<1> QED
  BY <1>1, <1>2, <1>3, <1>4, <1>5, <1>6, <1>7, <1>8, <1>9, <1>10,
     <1>11, <1>12, <1>13
     DEF Next, Consumer, Issuer, vars, Start, Stop, StopWake, StopConsumer,
     Produce, ConsumerRun, Connect, Receive, Wake, ConsumerExit

(* The queue hands out the least, what is put in later counts as new. *)
LEMMA StepOrdered ==
  ASSUME NEW u \in Sessions, TypeOK, Ordered(u), [Next]_vars
  PROVE  Ordered(u)'
<1> USE ReplicationAssumption DEF consumers, issuers, history
<1>1. ASSUME UNCHANGED <<ipc, cur, pq, newcomers>>
     PROVE  Ordered(u)'
  BY <1>1 DEF Ordered, Holding
<1>2. ASSUME NEW s \in Sessions, StartIssuer(s)
     PROVE  Ordered(u)'
  BY <1>2 DEF StartIssuer, Ordered, TypeOK, Holding
<1>3. ASSUME NEW s \in Sessions, Receive(s)
     PROVE  Ordered(u)'
  BY <1>3 DEF Receive, Ordered, TypeOK, Holding
<1>4. ASSUME NEW s \in Sessions, IssuerRun(s)
     PROVE  Ordered(u)'
  BY <1>4 DEF IssuerRun, IssuerGoto, Ordered, TypeOK, Holding
<1>5. ASSUME NEW s \in Sessions, InitialSleep(s)
     PROVE  Ordered(u)'
  BY <1>5 DEF InitialSleep, IssuerGoto, Ordered, TypeOK, Holding
<1>6. ASSUME NEW s \in Sessions, Loop(s)
     PROVE  Ordered(u)'
  BY <1>6 DEF Loop, IssuerGoto, Ordered, TypeOK, Holding
<1>7. ASSUME NEW s \in Sessions, Clear(s)
     PROVE  Ordered(u)'
  BY <1>7 DEF Clear, IssuerGoto, Ordered, TypeOK, Holding
<1>8. ASSUME NEW s \in Sessions, ForcedWakeup(s)
     PROVE  Ordered(u)'
  BY <1>8 DEF ForcedWakeup, IssuerGoto, Ordered, TypeOK, Holding
<1>9. ASSUME NEW s \in Sessions, Timeout(s)
     PROVE  Ordered(u)'
  BY <1>9 DEF Timeout, IssuerGoto, Ordered, TypeOK, Holding
<1>10. ASSUME NEW s \in Sessions, Issue(s)
     PROVE  Ordered(u)'
  BY <1>10 DEF Issue, IssuerGoto, Ordered, TypeOK, Holding
<1>11. ASSUME NEW s \in Sessions, IssueRaises(s)
     PROVE  Ordered(u)'
  BY <1>11 DEF IssueRaises, IssuerGoto, Ordered, TypeOK, Holding
<1>12. ASSUME NEW s \in Sessions, NEW m \in Stimuli, Get(s, m)
     PROVE  Ordered(u)'
  BY <1>12 DEF Get, IssuerGoto, NextUp, Ordered, TypeOK, Holding
<1>13. ASSUME NEW s \in Sessions, IssueHangs(s)
     PROVE  Ordered(u)'
  BY <1>13 DEF IssueHangs, IssuerGoto, Ordered, TypeOK, Holding
<1> QED
  BY <1>1, <1>2, <1>3, <1>4, <1>5, <1>6, <1>7, <1>8, <1>9, <1>10,
     <1>11, <1>12, <1>13
     DEF Next, Consumer, Issuer, vars, Start, Stop, StopWake, StopConsumer,
     Tick, Produce, ConsumerRun, Connect, Wake, ConsumerExit

(* Nothing sets running again, and the loop tests it before the next get. *)
LEMMA StepStops ==
  ASSUME NEW u \in Sessions, TypeOK, Kept(u), Stops(u), [Next]_vars
  PROVE  Stops(u)'
<1> USE ReplicationAssumption DEF consumers, issuers, history
<1>1. ASSUME UNCHANGED <<ipc, irunning, stopped, after>>
     PROVE  Stops(u)'
  BY <1>1 DEF Stops
<1>2. CASE Stop
  <2>1. UNCHANGED <<ipc, after>>
    BY <1>2 DEF Stop
  <2>2. \/ irunning' = irunning /\ stopped' = stopped
        \/ /\ irunning' = [irunning EXCEPT ![session] = FALSE]
           /\ stopped' = [stopped EXCEPT ![session] = @ \/ irunning[session]]
    BY <1>2 DEF Stop
  <2>3. \/ irunning'[u] = irunning[u] /\ stopped'[u] = stopped[u]
        \/ irunning'[u] = FALSE /\ stopped'[u] = (stopped[u] \/ irunning[u])
    BY <2>2, Zenon DEF TypeOK
  <2> QED
    BY <2>1, <2>3 DEF Stops, TypeOK
<1>3. ASSUME NEW s \in Sessions, StartIssuer(s)
     PROVE  Stops(u)'
  BY <1>3 DEF StartIssuer, Stops, TypeOK, Kept, Holding
<1>4. ASSUME NEW s \in Sessions, IssuerRun(s)
     PROVE  Stops(u)'
  BY <1>4 DEF IssuerRun, IssuerGoto, Stops, TypeOK, Kept, Holding
<1>5. ASSUME NEW s \in Sessions, InitialSleep(s)
     PROVE  Stops(u)'
  BY <1>5 DEF InitialSleep, IssuerGoto, Stops, TypeOK, Kept, Holding
<1>6. ASSUME NEW s \in Sessions, Loop(s)
     PROVE  Stops(u)'
  BY <1>6 DEF Loop, IssuerGoto, Stops, TypeOK, Kept, Holding
<1>7. ASSUME NEW s \in Sessions, Clear(s)
     PROVE  Stops(u)'
  BY <1>7 DEF Clear, IssuerGoto, Stops, TypeOK, Kept, Holding
<1>8. ASSUME NEW s \in Sessions, ForcedWakeup(s)
     PROVE  Stops(u)'
  BY <1>8 DEF ForcedWakeup, IssuerGoto, Stops, TypeOK, Kept, Holding
<1>9. ASSUME NEW s \in Sessions, Timeout(s)
     PROVE  Stops(u)'
  BY <1>9 DEF Timeout, IssuerGoto, Stops, TypeOK, Kept, Holding
<1>10. ASSUME NEW s \in Sessions, Issue(s)
     PROVE  Stops(u)'
  BY <1>10 DEF Issue, IssuerGoto, Stops, TypeOK, Kept, Holding
<1>11. ASSUME NEW s \in Sessions, IssueRaises(s)
     PROVE  Stops(u)'
  BY <1>11 DEF IssueRaises, IssuerGoto, Stops, TypeOK, Kept, Holding
<1>12. ASSUME NEW s \in Sessions, NEW m \in Stimuli, Get(s, m)
     PROVE  Stops(u)'
  BY <1>12 DEF Get, IssuerGoto, NextUp, Stops, TypeOK, Kept, Holding
<1>13. ASSUME NEW s \in Sessions, IssueHangs(s)
     PROVE  Stops(u)'
  BY <1>13 DEF IssueHangs, IssuerGoto, Stops, TypeOK, Kept, Holding
<1> QED
  BY <1>1, <1>2, <1>3, <1>4, <1>5, <1>6, <1>7, <1>8, <1>9, <1>10,
     <1>11, <1>12, <1>13
     DEF Next, Consumer, Issuer, vars, Start, StopWake, StopConsumer, Tick,
     Produce, ConsumerRun, Connect, Receive, Wake, ConsumerExit

---------------------------------------------------------------------------
(* IInv is an invariant of the replication. *)
THEOREM Inductive == Spec => []IInv
<1>1. Init => IInv
  <2> SUFFICES ASSUME Init PROVE IInv
    OBVIOUS
  <2> USE ReplicationAssumption DEF Init, ForEach
  <2>1. TypeOK
    <3>1. 0 \in 0..MaxDelta /\ 0 \in Nat /\ 0 \in 0..MaxSessions
      OBVIOUS
    <3>2. <<>> \in Seq(Stimuli)
      OBVIOUS
    <3> QED
      BY <3>1, <3>2, Zenon DEF TypeOK
  <2>2. \A s \in Sessions : Inbox(s) /\ Kept(s)
    BY DEF Inbox, Kept, InHand, Holding, Sessions
  <2>3. \A s \in Sessions : Timely(s) /\ Ordered(s) /\ Stops(s)
    BY DEF Timely, Ordered, Stops, Holding
  <2> QED
    BY <2>1, <2>2, <2>3 DEF IInv
<1>2. IInv /\ [Next]_vars => IInv'
  <2> SUFFICES ASSUME IInv, [Next]_vars PROVE IInv'
    OBVIOUS
  <2>1. TypeOK'
    BY StepTypeOK DEF IInv
  <2>2. ASSUME NEW s \in Sessions
        PROVE  (Inbox(s) /\ Kept(s) /\ Timely(s) /\ Ordered(s) /\ Stops(s))'
    <3>1. TypeOK /\ Inbox(s) /\ Kept(s) /\ Timely(s) /\ Ordered(s) /\ Stops(s)
      BY DEF IInv
    <3> QED
      BY <3>1, StepInbox, StepKept, StepTimely, StepOrdered, StepStops
  <2> QED
    BY <2>1, <2>2 DEF IInv
<1> QED
  BY <1>1, <1>2, PTL DEF Spec

(* Every variable of the replication keeps its type. *)
THEOREM TypeCorrect == Spec => []TypeOK
<1>1. IInv => TypeOK
  BY DEF IInv
<1> QED
  BY <1>1, Inductive, PTL

(* No stimulus is lost or doubled between the queue and the issuer, however *)
(* often it is taken out and put back.                                      *)
THEOREM ConservedHolds == Spec => []Conserved
<1>1. IInv => Conserved
  BY DEF IInv, Kept, Conserved
<1> QED
  BY <1>1, Inductive, PTL

(* No stimulus is issued before its time. *)
THEOREM NeverEarlyHolds == Spec => []NeverEarly
<1>1. IInv => NeverEarly
  BY DEF IInv, Timely, NeverEarly
<1> QED
  BY <1>1, Inductive, PTL

(* Disorder comes only from stimuli that arrive late. *)
THEOREM OrderExplainedHolds == Spec => []OrderExplained
<1>1. IInv => OrderExplained
  BY DEF IInv, Ordered, Holding, OrderExplained
<1> QED
  BY <1>1, Inductive, PTL

(* An issuer that was told to stop issues at most one more stimulus. *)
THEOREM AtMostOneAfterStopHolds == Spec => []AtMostOneAfterStop
<1>1. IInv => AtMostOneAfterStop
  BY DEF IInv, Stops, AtMostOneAfterStop
<1> QED
  BY <1>1, Inductive, PTL
============================================================================
