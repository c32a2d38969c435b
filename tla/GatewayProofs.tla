--------------------------- MODULE GatewayProofs ---------------------------
(* Proofs about Gateway for any number of messages and of losses of the     *)
(* connection.                                                              *)
EXTENDS Gateway, SequenceTheorems, TLAPS

TypeOK ==
    /\ state \in States \union {NoState} /\ stop \in BOOLEAN /\ replaced \in BOOLEAN
    /\ at \in {"loop", "execute", "next", "assign", "test", "enter", "waiting",
               "check", "catch", "done"}
    /\ obj \in States \union {NoState} /\ failed \in BOOLEAN
    /\ nxt \in States \union {NoState}
    /\ msgcb \in {"idle", "assign", "notify"} /\ msg \in Messages \union {NoState}
    /\ lostcb \in {"idle", "sleep", "assign", "notify"}
    /\ hook \in {"idle", "notify", "join", "done"}
    /\ conn \in {"down", "up", "lost", "closed"} /\ subscription \in BOOLEAN
    /\ losses \in Nat
    /\ pending \in SUBSET Messages /\ link \in BOOLEAN /\ released \in BOOLEAN
    /\ arrived \in Seq(Messages) /\ sent \in Seq(Messages)
    /\ superseded \in SUBSET Messages /\ afterStop \in BOOLEAN
    /\ lostAtRelease \in BOOLEAN /\ late \in BOOLEAN

(* The worker executes the object it read, and another thread may have put  *)
(* one of three kinds of states into the field meanwhile.                   *)
Executing ==
    /\ at = "execute" => ~failed /\ obj # NoState
    /\ at \in {"execute", "next"} =>
         state = obj \/ (replaced /\ state \in {"initial", "disconnect"} \union Messages)
    /\ at \in {"execute", "next"} => state # NoState
    /\ at = "next" /\ failed => obj \in {"initial", "connected"}
    /\ at = "assign" => nxt \notin Messages
    /\ msgcb = "assign" => msg \in Messages
    /\ subscription => conn = "up"
    /\ msgcb # "idle" => conn \in {"up", "lost"}

(* A message that arrived after every message a request was sent for.       *)
Behind(m) ==
    \E i \in 1..Len(arrived) :
        /\ arrived[i] = m
        /\ \A k \in 1..Len(sent), j \in 1..Len(arrived) :
             arrived[j] = sent[k] => j < i

(* Every message that can still be sent is behind those that were: the one  *)
(* executed, the one in the field unless the worker is about to overwrite   *)
(* it, and the one a callback is about to put there, which arrived last.    *)
Ordered ==
    /\ \A i, j \in 1..Len(arrived) : arrived[i] = arrived[j] => i = j
    /\ \A k \in 1..Len(sent) : \E i \in 1..Len(arrived) : arrived[i] = sent[k]
    /\ \A k, l \in 1..Len(sent), i, j \in 1..Len(arrived) :
         k < l /\ arrived[i] = sent[k] /\ arrived[j] = sent[l] => i < j
    /\ at = "execute" /\ obj \in Messages => Behind(obj)
    /\ at \notin {"next", "assign"} /\ state \in Messages => Behind(state)
    /\ msgcb = "assign" =>
         /\ Behind(msg) /\ Len(arrived) > 0 /\ arrived[Len(arrived)] = msg
         /\ at = "execute" => obj # msg
         /\ at \notin {"next", "assign"} => state # msg

(* The states that lead to a request or to a new connection.                *)
Lively == {"initial", "mqttConnectionError"} \union Messages

(* After an orderly release nothing is left that could lead to one.         *)
Released ==
    /\ late => lostAtRelease
    /\ released /\ ~lostAtRelease =>
         /\ msgcb = "idle" /\ lostcb = "idle"
         /\ conn \in {"closed", "down"} /\ ~subscription
         /\ at = "execute" => obj \notin Lively
         /\ at = "next" => state # "mqttConnectionError"
                             /\ (~replaced => state \notin Lively)
         /\ at = "assign" => nxt \notin Lively
         /\ at \notin {"next", "assign"} => state \notin Lively

IInv == TypeOK /\ Executing /\ Ordered /\ Released /\ LinkNotLeftOpen

---------------------------------------------------------------------------
(* Every step keeps the types. *)
LEMMA StepTypeOK ==
  ASSUME TypeOK, Executing, [Next]_vars
  PROVE  TypeOK'
<1> USE DEF fields, worker, threads, mqtt, modbus, history
<1>1. /\ \A s \in States : NextState(s) \in States \union {NoState} /\ Retry(s) \in States
      /\ "initial" \in States /\ "disconnect" \in States /\ Messages \subseteq States
  BY GatewayAssumption DEF NextState, Retry, States, Plain
<1>2. CASE Loop
  <2>1. failed' \in BOOLEAN
    BY <1>2, Zenon DEF Loop, TypeOK
  <2>2. replaced' \in BOOLEAN
    BY <1>2, Zenon DEF Loop, TypeOK
  <2> QED
    BY <1>2, <2>1, <2>2 DEF Loop, Goto, TypeOK
<1>3. CASE ExecuteInitial
  <2>1. failed' \in BOOLEAN
    BY <1>3, Zenon DEF ExecuteInitial, TypeOK
  <2> QED
    BY <1>3, <2>1 DEF ExecuteInitial, Goto, TypeOK
<1>4. CASE ExecuteConnected
  <2>1. failed' \in BOOLEAN
    BY <1>4, Zenon DEF ExecuteConnected, TypeOK
  <2>2. subscription' \in BOOLEAN
    BY <1>4, Zenon DEF ExecuteConnected, TypeOK
  <2> QED
    BY <1>4, <2>1, <2>2 DEF ExecuteConnected, Goto, TypeOK
<1>5. CASE ExecuteNothing
  BY <1>5 DEF ExecuteNothing, Goto, TypeOK
<1>6. CASE ExecuteSend
  <2>1. sent' \in Seq(Messages)
    BY <1>6, AppendProperties DEF ExecuteSend, TypeOK
  <2>2. pending' \in SUBSET Messages /\ late' \in BOOLEAN /\ link' \in BOOLEAN
        /\ at' \in {"next", "catch"}
    BY <1>6 DEF ExecuteSend, Goto, TypeOK
  <2> QED
    BY <1>6, <2>1, <2>2 DEF ExecuteSend, TypeOK
<1>7. CASE ExecuteDisconnect
  <2>1. conn' \in {"down", "up", "lost", "closed"}
    BY <1>7 DEF ExecuteDisconnect, TypeOK
  <2>2. /\ subscription' \in BOOLEAN /\ lostAtRelease' \in BOOLEAN
        /\ link' \in BOOLEAN /\ released' \in BOOLEAN
    BY <1>7, Zenon DEF ExecuteDisconnect, TypeOK
  <2> QED
    BY <1>7, <2>1, <2>2 DEF ExecuteDisconnect, Goto, TypeOK
<1>8. CASE GetNext
  <2>1. state \in States
    BY <1>8 DEF GetNext, TypeOK, Executing
  <2>2. nxt' \in States \union {NoState}
    BY <1>1, <1>8, <2>1 DEF GetNext
  <2> QED
    BY <1>8, <2>2 DEF GetNext, Goto, TypeOK
<1>9. CASE Assign
  BY <1>9 DEF Assign, Goto, TypeOK
<1>10. CASE Test
  BY <1>10 DEF Test, Goto, TypeOK
<1>11. CASE Wait
  BY <1>11 DEF Wait, Goto, TypeOK
<1>12. CASE SpuriousWakeup
  BY <1>12 DEF SpuriousWakeup, Goto, TypeOK
<1>13. CASE Check
  BY <1>13 DEF Check, Goto, TypeOK
<1>14. CASE Catch
  BY <1>1, <1>14 DEF Catch, Goto, TypeOK
<1>15. CASE MessageAssign
  <2>1. msg \in Messages
    BY <1>15 DEF MessageAssign, Executing
  <2> QED
    BY <1>1, <1>15, <2>1 DEF MessageAssign, Replace, TypeOK
<1>16. CASE MessageNotify
  BY <1>16 DEF MessageNotify, Goto, Notify, TypeOK
<1>17. CASE ConnectionLost
  <2>1. subscription' \in BOOLEAN
    BY <1>17, Zenon DEF ConnectionLost, TypeOK
  <2> QED
    BY <1>17, <2>1 DEF ConnectionLost, Goto, TypeOK
<1>18. CASE LostCallback
  BY <1>18 DEF LostCallback, Goto, TypeOK
<1>19. CASE LostUnstop
  <2>1. stop' \in BOOLEAN
    BY <1>19, Zenon DEF LostUnstop, TypeOK
  <2> QED
    BY <1>19, <2>1 DEF LostUnstop, Goto, TypeOK
<1>20. CASE LostAssign
  BY <1>1, <1>20 DEF LostAssign, Goto, Replace, TypeOK
<1>21. CASE LostNotify
  BY <1>21 DEF LostNotify, Goto, Notify, TypeOK
<1>22. CASE HookStop
  BY <1>1, <1>22 DEF HookStop, Goto, Replace, TypeOK
<1>23. CASE HookNotify
  BY <1>23 DEF HookNotify, Goto, Notify, TypeOK
<1>24. CASE HookJoin
  BY <1>24 DEF HookJoin, Goto, TypeOK
<1>25. ASSUME NEW m \in Messages, MessageArrives(m)
      PROVE  TypeOK'
  <2>1. arrived' \in Seq(Messages)
    BY <1>25, AppendProperties DEF MessageArrives, TypeOK
  <2> QED
    BY <1>25, <2>1 DEF MessageArrives, TypeOK
<1>26. ASSUME NEW m \in Messages, Complete(m)
      PROVE  TypeOK'
  <2>1. link' \in BOOLEAN
    BY <1>26, Zenon DEF Complete, TypeOK
  <2> QED
    BY <1>26, <2>1 DEF Complete, TypeOK
<1>27. CASE UNCHANGED vars
  BY <1>27 DEF vars, TypeOK
<1> QED
  BY <1>2, <1>3, <1>4, <1>5, <1>6, <1>7, <1>8, <1>9, <1>10, <1>11, <1>12,
     <1>13, <1>14, <1>15, <1>16, <1>17, <1>18, <1>19, <1>20, <1>21, <1>22,
     <1>23, <1>24, <1>25, <1>26, <1>27
     DEF Next, Worker, Callbacks

(* Every step keeps what is said of the worker and of the callbacks.        *)
LEMMA StepExecuting ==
  ASSUME TypeOK, Executing, [Next]_vars
  PROVE  Executing'
<1> USE GatewayAssumption DEF fields, worker, threads, mqtt, modbus, history, States, Plain
<1>1. \A s \in States : NextState(s) \notin Messages /\ Retry(s) \notin Messages
  BY DEF NextState, Retry
<1>2. CASE Loop
  BY <1>2 DEF Loop, Goto, TypeOK, Executing
<1>3. CASE ExecuteInitial
  BY <1>3 DEF ExecuteInitial, Goto, TypeOK, Executing
<1>4. CASE ExecuteConnected
  BY <1>4 DEF ExecuteConnected, Goto, TypeOK, Executing
<1>5. CASE ExecuteNothing
  BY <1>5 DEF ExecuteNothing, Goto, TypeOK, Executing
<1>6. CASE ExecuteSend
  BY <1>6 DEF ExecuteSend, Goto, TypeOK, Executing
<1>7. CASE ExecuteDisconnect
  BY <1>7 DEF ExecuteDisconnect, Goto, TypeOK, Executing
<1>8. CASE GetNext
  <2>1. state \in States
    BY <1>8 DEF GetNext, TypeOK, Executing
  <2>2. nxt' \notin Messages
    BY <1>1, <1>8, <2>1 DEF GetNext
  <2> QED
    BY <1>8, <2>2 DEF GetNext, Goto, Executing
<1>9. CASE Assign
  BY <1>9 DEF Assign, Goto, TypeOK, Executing
<1>10. CASE Test
  BY <1>10 DEF Test, Goto, TypeOK, Executing
<1>11. CASE Wait
  BY <1>11 DEF Wait, Goto, TypeOK, Executing
<1>12. CASE SpuriousWakeup
  BY <1>12 DEF SpuriousWakeup, Goto, TypeOK, Executing
<1>13. CASE Check
  BY <1>13 DEF Check, Goto, TypeOK, Executing
<1>14. CASE Catch
  BY <1>14 DEF Catch, Goto, TypeOK, Executing
<1>15. CASE MessageAssign
  BY <1>15 DEF MessageAssign, Goto, Replace, TypeOK, Executing
<1>16. CASE MessageNotify
  BY <1>16 DEF MessageNotify, Goto, Notify, TypeOK, Executing
<1>17. CASE ConnectionLost
  BY <1>17 DEF ConnectionLost, Goto, TypeOK, Executing
<1>18. CASE LostCallback
  BY <1>18 DEF LostCallback, Goto, TypeOK, Executing
<1>19. CASE LostUnstop
  BY <1>19 DEF LostUnstop, Goto, TypeOK, Executing
<1>20. CASE LostAssign
  BY <1>20 DEF LostAssign, Goto, Replace, TypeOK, Executing
<1>21. CASE LostNotify
  BY <1>21 DEF LostNotify, Goto, Notify, TypeOK, Executing
<1>22. CASE HookStop
  BY <1>22 DEF HookStop, Goto, Replace, TypeOK, Executing
<1>23. CASE HookNotify
  BY <1>23 DEF HookNotify, Goto, Notify, TypeOK, Executing
<1>24. CASE HookJoin
  BY <1>24 DEF HookJoin, Goto, TypeOK, Executing
<1>25. ASSUME NEW m \in Messages, MessageArrives(m)
      PROVE  Executing'
  BY <1>25 DEF MessageArrives, TypeOK, Executing
<1>26. ASSUME NEW m \in Messages, Complete(m)
      PROVE  Executing'
  BY <1>26 DEF Complete, TypeOK, Executing
<1>27. CASE UNCHANGED vars
  BY <1>27 DEF vars, TypeOK, Executing
<1> QED
  BY <1>2, <1>3, <1>4, <1>5, <1>6, <1>7, <1>8, <1>9, <1>10, <1>11, <1>12,
     <1>13, <1>14, <1>15, <1>16, <1>17, <1>18, <1>19, <1>20, <1>21, <1>22,
     <1>23, <1>24, <1>25, <1>26, <1>27
     DEF Next, Worker, Callbacks

---------------------------------------------------------------------------
(* The order of messages while none arrives and none is sent: it is enough  *)
(* that no thread gets a message from nowhere.                              *)
LEMMA OrderKept ==
  ASSUME Ordered, UNCHANGED <<arrived, sent>>,
         at' = "execute" /\ obj' \in Messages => Behind(obj'),
         at' \notin {"next", "assign"} /\ state' \in Messages => Behind(state'),
         msgcb' = "assign" =>
           /\ msgcb = "assign" /\ msg' = msg
           /\ at' = "execute" => obj' # msg
           /\ at' \notin {"next", "assign"} => state' # msg
  PROVE  Ordered'
<1>1. \A m : Behind(m)' = Behind(m)
  BY DEF Behind
<1>2. /\ at' = "execute" /\ obj' \in Messages => Behind(obj)'
      /\ at' \notin {"next", "assign"} /\ state' \in Messages => Behind(state)'
      /\ msgcb' = "assign" => Behind(msg)'
  BY DEF Ordered, Behind
<1> QED
  BY <1>2 DEF Ordered

(* Every step keeps the order of messages. *)
LEMMA StepOrdered ==
  ASSUME TypeOK, Executing, Ordered, [Next]_vars
  PROVE  Ordered'
<1> USE DEF fields, worker, threads, mqtt, modbus, history
<1>1. /\ NoState \notin Messages
      /\ \A s \in {"initial", "disconnect"} : s \notin Messages
  BY GatewayAssumption DEF States, Plain
<1>2. CASE Loop
  BY <1>1, <1>2, OrderKept DEF Loop, Goto, Executing, Ordered
<1>3. CASE ExecuteInitial
  BY <1>1, <1>3, OrderKept DEF ExecuteInitial, Goto, Executing, Ordered
<1>4. CASE ExecuteConnected
  BY <1>1, <1>4, OrderKept DEF ExecuteConnected, Goto, Executing, Ordered
<1>5. CASE ExecuteNothing
  BY <1>1, <1>5, OrderKept DEF ExecuteNothing, Goto, Executing, Ordered
<1>6. CASE ExecuteDisconnect
  BY <1>1, <1>6, OrderKept DEF ExecuteDisconnect, Goto, Executing, Ordered
<1>7. CASE GetNext
  BY <1>1, <1>7, OrderKept DEF GetNext, Goto, Executing, Ordered
<1>8. CASE Assign
  BY <1>1, <1>8, OrderKept DEF Assign, Goto, Executing, Ordered
<1>9. CASE Test
  BY <1>1, <1>9, OrderKept DEF Test, Goto, Executing, Ordered
<1>10. CASE Wait
  BY <1>1, <1>10, OrderKept DEF Wait, Goto, Executing, Ordered
<1>11. CASE SpuriousWakeup
  BY <1>1, <1>11, OrderKept DEF SpuriousWakeup, Goto, Executing, Ordered
<1>12. CASE Check
  BY <1>1, <1>12, OrderKept DEF Check, Goto, Executing, Ordered
<1>13. CASE Catch
  BY <1>1, <1>13, OrderKept DEF Catch, Goto, Executing, Ordered
<1>14. CASE MessageAssign
  BY <1>1, <1>14, OrderKept DEF MessageAssign, Goto, Replace, Executing, Ordered
<1>15. CASE MessageNotify
  BY <1>1, <1>15, OrderKept DEF MessageNotify, Goto, Notify, Executing, Ordered
<1>16. CASE ConnectionLost
  BY <1>1, <1>16, OrderKept DEF ConnectionLost, Goto, Executing, Ordered
<1>17. CASE LostCallback
  BY <1>1, <1>17, OrderKept DEF LostCallback, Goto, Executing, Ordered
<1>18. CASE LostUnstop
  BY <1>1, <1>18, OrderKept DEF LostUnstop, Goto, Executing, Ordered
<1>19. CASE LostAssign
  BY <1>1, <1>19, OrderKept DEF LostAssign, Goto, Replace, Executing, Ordered
<1>20. CASE LostNotify
  BY <1>1, <1>20, OrderKept DEF LostNotify, Goto, Notify, Executing, Ordered
<1>21. CASE HookStop
  BY <1>1, <1>21, OrderKept DEF HookStop, Goto, Replace, Executing, Ordered
<1>22. CASE HookNotify
  BY <1>1, <1>22, OrderKept DEF HookNotify, Goto, Notify, Executing, Ordered
<1>23. CASE HookJoin
  BY <1>1, <1>23, OrderKept DEF HookJoin, Goto, Executing, Ordered
<1>24. ASSUME NEW m \in Messages, Complete(m)
      PROVE  Ordered'
  BY <1>24, OrderKept DEF Complete, Ordered
<1>25. CASE ExecuteSend /\ UNCHANGED sent
  BY <1>25, OrderKept DEF ExecuteSend, Goto, Ordered
<1>26. CASE ExecuteSend /\ ~UNCHANGED sent
  <2> DEFINE a == arrived
             n == Len(sent)
  <2>1. /\ at = "execute" /\ at' = "next" /\ obj \in Messages
        /\ sent' = Append(sent, obj)
        /\ UNCHANGED <<arrived, state, msgcb, msg>>
    BY <1>26 DEF ExecuteSend, Goto
  <2>2. /\ n \in Nat /\ Len(sent') = n + 1 /\ sent'[n + 1] = obj
        /\ \A k \in 1..n : sent'[k] = sent[k]
    BY <2>1, AppendProperties, LenProperties DEF TypeOK
  <2> HIDE DEF n
  <2>3. PICK p \in 1..Len(a) :
          /\ a[p] = obj
          /\ \A k \in 1..n, j \in 1..Len(a) : a[j] = sent[k] => j < p
    BY <2>1 DEF Ordered, Behind, n
  <2>4. /\ \A i, j \in 1..Len(a) : a[i] = a[j] => i = j
        /\ \A k \in 1..n : \E i \in 1..Len(a) : a[i] = sent[k]
        /\ \A k, l \in 1..n, i, j \in 1..Len(a) :
             k < l /\ a[i] = sent[k] /\ a[j] = sent[l] => i < j
    BY DEF Ordered, n
  <2>5. \A k \in 1..n + 1 : \E i \in 1..Len(a) : a[i] = sent'[k]
    BY <2>2, <2>3, <2>4
  <2>6. ASSUME NEW k \in 1..n + 1, NEW l \in 1..n + 1, NEW i \in 1..Len(a),
               NEW j \in 1..Len(a), k < l, a[i] = sent'[k], a[j] = sent'[l]
        PROVE  i < j
    <3>1. k \in 1..n /\ sent'[k] = sent[k]
      BY <2>2, <2>6
    <3>2. CASE l = n + 1
      BY <2>2, <2>3, <2>4, <2>6, <3>1, <3>2
    <3>3. CASE l # n + 1
      <4>1. l \in 1..n /\ sent'[l] = sent[l]
        BY <2>2, <3>3
      <4> QED
        BY <2>4, <2>6, <3>1, <4>1
    <3> QED
      BY <3>2, <3>3
  <2>7. ASSUME msgcb = "assign"
        PROVE  Behind(msg)' /\ Len(a) > 0 /\ a[Len(a)] = msg
    <3>1. /\ Behind(msg) /\ Len(a) > 0 /\ a[Len(a)] = msg /\ obj # msg
          /\ Len(a) \in Nat
      BY <2>1, <2>7, LenProperties DEF Ordered, TypeOK
    <3>2. PICK i \in 1..Len(a) :
            a[i] = msg /\ \A k \in 1..n, j \in 1..Len(a) : a[j] = sent[k] => j < i
      BY <3>1 DEF Behind, n
    <3>3. i = Len(a) /\ p < i
      BY <2>3, <2>4, <3>1, <3>2
    <3>4. \A k \in 1..n + 1, j \in 1..Len(a) : a[j] = sent'[k] => j < i
      BY <2>2, <2>3, <2>4, <3>2, <3>3
    <3> QED
      BY <2>1, <2>2, <3>1, <3>2, <3>4 DEF Behind
  <2> QED
    BY <2>1, <2>2, <2>4, <2>5, <2>6, <2>7 DEF Ordered
<1>27. ASSUME NEW m \in Messages, MessageArrives(m)
      PROVE  Ordered'
  <2> DEFINE a == arrived
             n == Len(arrived)
             b == arrived'
  <2>1. /\ msgcb = "idle" /\ msgcb' = "assign" /\ msg' = m
        /\ b = Append(a, m) /\ m \notin ToSet(a)
        /\ UNCHANGED <<sent, at, obj, state>>
    BY <1>27 DEF MessageArrives
  <2>2. /\ n \in Nat /\ Len(b) = n + 1 /\ b[n + 1] = m
        /\ \A i \in 1..n : b[i] = a[i]
    BY <2>1, AppendProperties, LenProperties DEF TypeOK
  <2>3. \A i \in 1..n : a[i] # m
    <3>1. ToSet(a) = {a[i] : i \in 1..n}
      BY LenProperties DEF TypeOK, ToSet
    <3> QED
      BY <2>1, <3>1
  <2> HIDE DEF n, b
  <2>4. \A k \in 1..Len(sent) : \E i \in 1..n : a[i] = sent[k]
    BY DEF Ordered, n
  <2>5. ASSUME NEW k \in 1..Len(sent), NEW j \in 1..n + 1, b[j] = sent[k]
        PROVE  j \in 1..n /\ a[j] = sent[k]
    BY <2>2, <2>3, <2>4, <2>5
  <2> DEFINE After(x) == \E i \in 1..n + 1 :
               /\ b[i] = x
               /\ \A k \in 1..Len(sent), j \in 1..n + 1 : b[j] = sent[k] => j < i
  <2>6. ASSUME NEW x, Behind(x)
        PROVE  After(x) /\ x # m
    <3>1. PICK i \in 1..n : /\ a[i] = x
                            /\ \A k \in 1..Len(sent), j \in 1..n : a[j] = sent[k] => j < i
      BY <2>6 DEF Behind, n
    <3>2. i \in 1..n + 1 /\ b[i] = x
      BY <2>2, <3>1
    <3>3. \A k \in 1..Len(sent), j \in 1..n + 1 : b[j] = sent[k] => j < i
      BY <2>5, <3>1
    <3> QED
      BY <2>2, <2>3, <3>1, <3>2, <3>3
  <2>7. After(m)
    <3>1. \A k \in 1..Len(sent), j \in 1..n + 1 : b[j] = sent[k] => j < n + 1
      BY <2>2, <2>5
    <3> QED
      BY <2>2, <3>1
  <2>8. \A i, j \in 1..n + 1 : b[i] = b[j] => i = j
    <3>1. \A i, j \in 1..n : a[i] = a[j] => i = j
      BY DEF Ordered, n
    <3> QED
      BY <2>2, <2>3, <3>1
  <2>9. \A k \in 1..Len(sent) : \E i \in 1..n + 1 : b[i] = sent[k]
    BY <2>2, <2>4
  <2>10. ASSUME NEW k \in 1..Len(sent), NEW l \in 1..Len(sent), NEW i \in 1..n + 1,
                NEW j \in 1..n + 1, k < l, b[i] = sent[k], b[j] = sent[l]
         PROVE  i < j
    <3>1. i \in 1..n /\ a[i] = sent[k] /\ j \in 1..n /\ a[j] = sent[l]
      BY <2>5, <2>10
    <3> QED
      BY <2>10, <3>1 DEF Ordered, n
  <2>11. /\ at = "execute" /\ obj \in Messages => After(obj) /\ obj # m
         /\ at \notin {"next", "assign"} /\ state \in Messages => After(state) /\ state # m
    <3> HIDE DEF After
    <3> QED
      BY <2>6 DEF Ordered
  <2>12. Len(b) > 0 /\ b[Len(b)] = m
    BY <2>2
  <2>13. Behind(msg)' /\ (at = "execute" /\ obj \in Messages => Behind(obj)')
         /\ (at \notin {"next", "assign"} /\ state \in Messages => Behind(state)')
    BY <2>1, <2>2, <2>7, <2>11 DEF Behind, b
  <2> QED
    BY <2>1, <2>2, <2>8, <2>9, <2>10, <2>11, <2>12, <2>13 DEF Ordered, b
<1>28. CASE UNCHANGED vars
  BY <1>28, OrderKept DEF vars, Ordered
<1> QED
  BY <1>2, <1>3, <1>4, <1>5, <1>6, <1>7, <1>8, <1>9, <1>10, <1>11, <1>12,
     <1>13, <1>14, <1>15, <1>16, <1>17, <1>18, <1>19, <1>20, <1>21, <1>22,
     <1>23, <1>24, <1>25, <1>26, <1>27, <1>28
     DEF Next, Worker, Callbacks

---------------------------------------------------------------------------
(* Every step keeps the quiet after a release, and closes what it must.     *)
LEMMA StepReleased ==
  ASSUME TypeOK, Executing, Released, [Next]_vars
  PROVE  Released'
<1> USE DEF fields, worker, threads, mqtt, modbus, history
<1>1. /\ NoState \notin Lively /\ "disconnect" \notin Lively
      /\ "connected" \notin Lively /\ "subscribed" \notin Lively
      /\ "disconnected" \notin Lively /\ "initial" \in Lively /\ Messages \subseteq Lively
      /\ "mqttConnectionError" \in Lively /\ "mqttConnectionError" \notin Messages
      /\ "disconnect" \notin Messages /\ "initial" \notin Messages
  BY GatewayAssumption DEF Lively, States, Plain
<1>2. \A s \in States : /\ s # "mqttConnectionError" => NextState(s) \notin Lively
                        /\ s # "initial" => Retry(s) \notin Lively
  BY <1>1 DEF NextState, Retry, States, Plain, Lively
<1>3. CASE Loop
  BY <1>1, <1>3 DEF Loop, Goto, Executing, Released
<1>4. CASE ExecuteInitial
  BY <1>1, <1>4 DEF ExecuteInitial, Goto, Executing, Released
<1>5. CASE ExecuteConnected
  BY <1>1, <1>5 DEF ExecuteConnected, Goto, Executing, Released
<1>6. CASE ExecuteNothing
  BY <1>1, <1>6 DEF ExecuteNothing, Goto, Executing, Released
<1>7. CASE ExecuteSend
  <2>1. released => lostAtRelease
    BY <1>1, <1>7 DEF ExecuteSend, Released
  <2> QED
    BY <1>7, <2>1 DEF ExecuteSend, Goto, Released
<1>8. CASE ExecuteDisconnect
  <2>1. /\ at = "execute" /\ obj = "disconnect" /\ at' = "next"
        /\ UNCHANGED <<state, replaced, msgcb, lostcb, late>>
        /\ lostAtRelease' = (lostAtRelease \/ lostcb # "idle" \/ conn = "lost")
        /\ conn' = (IF conn = "up" THEN "closed" ELSE conn)
    BY <1>8 DEF ExecuteDisconnect, Goto
  <2>2. late' => lostAtRelease'
    BY <2>1 DEF Released
  <2>3. ASSUME ~lostAtRelease'
        PROVE  /\ msgcb' = "idle" /\ lostcb' = "idle" /\ conn' \in {"closed", "down"}
               /\ ~subscription'
    <3>1. lostcb = "idle" /\ conn # "lost"
      BY <2>1, <2>3
    <3>2. CASE conn = "up"
      BY <1>8, <2>1, <3>1, <3>2 DEF ExecuteDisconnect
    <3>3. CASE conn # "up"
      BY <1>8, <2>1, <3>1, <3>3 DEF ExecuteDisconnect, Executing, TypeOK
    <3> QED
      BY <3>2, <3>3
  <2>4. state # "mqttConnectionError" /\ (~replaced => state \notin Lively)
    BY <1>1, <2>1 DEF Executing
  <2> QED
    BY <2>1, <2>2, <2>3, <2>4 DEF Released
<1>9. CASE GetNext
  <2>1. state \in States
    BY <1>9 DEF GetNext, TypeOK, Executing
  <2>2. ASSUME released, ~lostAtRelease
        PROVE  nxt' \notin Lively
    <3>1. state # "mqttConnectionError" /\ (~replaced => state # "initial")
      BY <1>1, <1>9, <2>2 DEF GetNext, Released
    <3> QED
      BY <1>2, <1>9, <2>1, <3>1 DEF GetNext
  <2> QED
    BY <1>9, <2>2 DEF GetNext, Goto, Released
<1>10. CASE Assign
  BY <1>1, <1>10 DEF Assign, Goto, Executing, Released
<1>11. CASE Test
  BY <1>1, <1>11 DEF Test, Goto, Executing, Released
<1>12. CASE Wait
  BY <1>1, <1>12 DEF Wait, Goto, Executing, Released
<1>13. CASE SpuriousWakeup
  BY <1>1, <1>13 DEF SpuriousWakeup, Goto, Executing, Released
<1>14. CASE Check
  BY <1>1, <1>14 DEF Check, Goto, Executing, Released
<1>15. CASE Catch
  BY <1>1, <1>15 DEF Catch, Goto, Executing, Released
<1>16. CASE MessageAssign
  BY <1>1, <1>16 DEF MessageAssign, Goto, Replace, Executing, Released
<1>17. CASE MessageNotify
  BY <1>1, <1>17 DEF MessageNotify, Goto, Notify, Executing, Released
<1>18. CASE ConnectionLost
  BY <1>1, <1>18 DEF ConnectionLost, Goto, Executing, Released
<1>19. CASE LostCallback
  BY <1>1, <1>19 DEF LostCallback, Goto, Executing, Released
<1>20. CASE LostUnstop
  BY <1>1, <1>20 DEF LostUnstop, Goto, Executing, Released
<1>21. CASE LostAssign
  BY <1>1, <1>21 DEF LostAssign, Goto, Replace, Executing, Released
<1>22. CASE LostNotify
  BY <1>1, <1>22 DEF LostNotify, Goto, Notify, Executing, Released
<1>23. CASE HookStop
  BY <1>1, <1>23 DEF HookStop, Goto, Replace, Executing, Released
<1>24. CASE HookNotify
  BY <1>1, <1>24 DEF HookNotify, Goto, Notify, Executing, Released
<1>25. CASE HookJoin
  BY <1>1, <1>25 DEF HookJoin, Goto, Executing, Released
<1>26. ASSUME NEW m \in Messages, MessageArrives(m)
      PROVE  Released'
  BY <1>26 DEF MessageArrives, Released
<1>27. ASSUME NEW m \in Messages, Complete(m)
      PROVE  Released'
  BY <1>27 DEF Complete, Released
<1>28. CASE UNCHANGED vars
  BY <1>28 DEF vars, Released
<1> QED
  BY <1>3, <1>4, <1>5, <1>6, <1>7, <1>8, <1>9, <1>10, <1>11, <1>12, <1>13,
     <1>14, <1>15, <1>16, <1>17, <1>18, <1>19, <1>20, <1>21, <1>22, <1>23,
     <1>24, <1>25, <1>26, <1>27, <1>28
     DEF Next, Worker, Callbacks

LEMMA StepLink ==
  ASSUME LinkNotLeftOpen, [Next]_vars
  PROVE  LinkNotLeftOpen'
<1> USE DEF fields, worker, threads, mqtt, modbus, history, LinkNotLeftOpen
<1>1. CASE ExecuteSend
  BY <1>1 DEF ExecuteSend
<1>2. CASE ExecuteDisconnect
  BY <1>2 DEF ExecuteDisconnect
<1>3. ASSUME NEW m \in Messages, Complete(m)
      PROVE  LinkNotLeftOpen'
  BY <1>3 DEF Complete
<1>4. CASE UNCHANGED <<link, pending>>
  BY <1>4
<1>5. CASE Worker /\ ~ExecuteSend /\ ~ExecuteDisconnect
  BY <1>4, <1>5 DEF Worker, Loop, ExecuteInitial, ExecuteConnected, ExecuteNothing,
     GetNext, Assign, Test, Wait, Check, Catch
<1>6. CASE Callbacks /\ ~(\E m \in Messages : Complete(m))
  BY <1>4, <1>6 DEF Callbacks, MessageAssign, MessageNotify, LostCallback, LostUnstop,
     LostAssign, LostNotify, HookNotify, HookJoin
<1>7. CASE SpuriousWakeup \/ (\E m \in Messages : MessageArrives(m)) \/ ConnectionLost
             \/ HookStop
  BY <1>4, <1>7 DEF SpuriousWakeup, MessageArrives, ConnectionLost, HookStop
<1>8. CASE UNCHANGED vars
  BY <1>4, <1>8 DEF vars
<1> QED
  BY <1>1, <1>2, <1>3, <1>5, <1>6, <1>7, <1>8 DEF Next, Worker, Callbacks

---------------------------------------------------------------------------
(* The inductive invariant holds in every state. *)
THEOREM Inductive == Spec => []IInv
<1>1. Init => IInv
  <2> SUFFICES ASSUME Init PROVE IInv
    OBVIOUS
  <2>1. TypeOK
    <3>1. /\ stop \in BOOLEAN /\ replaced \in BOOLEAN /\ failed \in BOOLEAN
          /\ subscription \in BOOLEAN /\ link \in BOOLEAN /\ released \in BOOLEAN
          /\ afterStop \in BOOLEAN /\ lostAtRelease \in BOOLEAN /\ late \in BOOLEAN
      BY Zenon DEF Init
    <3>2. "initial" \in States
      BY DEF States, Plain
    <3>3. arrived \in Seq(Messages) /\ sent \in Seq(Messages)
      BY DEF Init
    <3> QED
      BY <3>1, <3>2, <3>3 DEF Init, TypeOK
  <2>2. Len(arrived) = 0 /\ Len(sent) = 0
    BY DEF Init
  <2>3. "initial" \notin Messages
    BY GatewayAssumption DEF Plain
  <2>4. Ordered
    BY <2>2, <2>3 DEF Init, Ordered
  <2>5. Executing /\ Released /\ LinkNotLeftOpen
    BY DEF Init, Executing, Released, LinkNotLeftOpen
  <2> QED
    BY <2>1, <2>4, <2>5 DEF IInv
<1>2. IInv /\ [Next]_vars => IInv'
  BY StepTypeOK, StepExecuting, StepOrdered, StepReleased, StepLink DEF IInv
<1> QED
  BY <1>1, <1>2, PTL DEF Spec

(* Every variable always has a value of its type: the fields of the state   *)
(* machine, where the threads are, the connections, the messages.           *)
THEOREM TypeCorrect == Spec => []TypeOK
<1>1. IInv => TypeOK
  BY DEF IInv
<1> QED
  BY <1>1, Inductive, PTL

(* No message is forwarded twice or before one that arrived earlier, though *)
(* the callbacks and the hook overwrite the field state at any moment.      *)
THEOREM RequestsInOrderHolds == Spec => []RequestsInOrder
<1>1. IInv => RequestsInOrder
  <2> SUFFICES ASSUME IInv, NEW i \in DOMAIN sent, NEW j \in DOMAIN sent
               PROVE  /\ sent[i] \in ToSet(arrived)
                      /\ i < j => IndexIn(arrived, sent[i]) < IndexIn(arrived, sent[j])
    BY DEF RequestsInOrder
  <2>1. /\ DOMAIN sent = 1..Len(sent) /\ DOMAIN arrived = 1..Len(arrived)
        /\ ToSet(arrived) = {arrived[k] : k \in 1..Len(arrived)}
    BY LenProperties DEF IInv, TypeOK, ToSet
  <2>2. ASSUME NEW k \in 1..Len(sent)
        PROVE  /\ IndexIn(arrived, sent[k]) \in 1..Len(arrived)
               /\ arrived[IndexIn(arrived, sent[k])] = sent[k]
    <3>1. \E n \in DOMAIN arrived : arrived[n] = sent[k]
      BY <2>1 DEF IInv, Ordered
    <3>2. /\ IndexIn(arrived, sent[k]) \in DOMAIN arrived
          /\ arrived[IndexIn(arrived, sent[k])] = sent[k]
      BY <3>1, Zenon DEF IndexIn
    <3> QED
      BY <2>1, <3>2
  <2>3. sent[i] \in ToSet(arrived)
    BY <2>1, <2>2
  <2>4. i < j => IndexIn(arrived, sent[i]) < IndexIn(arrived, sent[j])
    BY <2>1, <2>2 DEF IInv, Ordered
  <2> QED
    BY <2>3, <2>4
<1> QED
  BY <1>1, Inductive, PTL

(* After DisconnectState has released the Modbus resources, the gateway     *)
(* sends no request, if no loss of the connection was being handled then.   *)
THEOREM QuietAfterReleaseHolds == Spec => []QuietAfterRelease
<1>1. IInv => QuietAfterRelease
  BY DEF IInv, Released, QuietAfterRelease
<1> QED
  BY <1>1, Inductive, PTL

(* The handlers of SendModbusRequestState close the connection: once all    *)
(* requests have completed, none is open.                                   *)
THEOREM LinkNotLeftOpenHolds == Spec => []LinkNotLeftOpen
<1>1. IInv => LinkNotLeftOpen
  BY DEF IInv
<1> QED
  BY <1>1, Inductive, PTL

============================================================================
