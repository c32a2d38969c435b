--------------------------- MODULE SecurityProofs ---------------------------
(* Proofs about Hmi, for any number of callers, calls and values, and about *)
(* Security, the rule composed with it, for any number of changes too.      *)
EXTENDS Security, FiniteSetTheorems, SequenceTheorems, TLAPS

Places == {"idle", "old", "optimistic", "connect", "send", "recv", "receiving",
           "close", "received", "callbacks", "raised"}

TypeOK ==
    /\ pc \in [Callers -> Places]
    /\ req \in [Callers -> Requests \union {NoMessage}]
    /\ reply \in [Callers -> Results \union {NoMessage}]
    /\ used \in [Callers -> Connections \union {0}]
    /\ conn \in Connections \union {0} /\ made \in Nat /\ calls \in 0..MaxCalls
    /\ backlog \in Seq(Connections)
    /\ toServer \in [Connections -> Seq(Requests)]
    /\ toClient \in [Connections -> Seq(Results)]
    /\ clientOpen \subseteq Connections /\ serverOpen \subseteq Connections
    /\ srv \in {"accept", "recv", "handle", "dead"}
    /\ sconn \in Connections \union {0}
    /\ current \in Requests \union {NoMessage}
    /\ disturbed \subseteq Callers
    /\ value \in Settable /\ old \in [Callers -> Settable] /\ register \in Values
    /\ announced \in Settable /\ acked \in Settable

(* What the types rest on: who is in a call has asked something, a set has  *)
(* a value, the server has a connection where it needs one, and every call    *)
(* makes one connection.                                                    *)
ToConnect == {c \in Callers : pc[c] \in {"old", "optimistic", "connect"}}

Placed ==
    /\ \A c \in Callers :
         /\ pc[c] # "idle" => req[c] \in Requests
         /\ pc[c] \in {"old", "optimistic"} => req[c] \in Settable
         /\ pc[c] = "receiving" => used[c] \in Connections
    /\ srv \in {"recv", "handle"} => sconn \in Connections
    /\ srv = "handle" => current \in Requests
    /\ IsFiniteSet(ToConnect) /\ made + Cardinality(ToConnect) <= calls

(* A caller that is not disturbed is alone, and while nothing is clouded    *)
(* nobody is disturbed.                                                     *)
Alone ==
    /\ \A c, d \in Callers :
         pc[c] # "idle" /\ c \notin disturbed /\ pc[d] # "idle" => c = d
    /\ ~clouded => \A c \in Callers : pc[c] # "idle" => c \notin disturbed

Agreed == value = acked /\ announced = acked

Pending == {"connect", "send", "recv", "receiving", "close", "received"}

(* What a caller that is alone knows at each place of its call: what is     *)
(* shown, and, if nothing is clouded, what will be shown if it fails.       *)
Shown(c) ==
    pc[c] # "idle" /\ c \notin disturbed =>
        /\ req[c] # Get /\ pc[c] \in Pending => value = req[c]
        /\ pc[c] = "callbacks" => value = acked
        /\ ~clouded =>
             /\ pc[c] = "old" => Agreed
             /\ req[c] = Get /\ pc[c] \in Pending \union {"raised"} => Agreed
             /\ req[c] # Get /\ pc[c] \in Pending \union {"optimistic"} =>
                  old[c] = acked /\ announced = acked

Acknowledged ==
    /\ Quiet /\ ~clouded => Agreed
    /\ \A c \in Callers : Shown(c)

(* The one connection of a call on its own, from the moment it is made:     *)
(* waiting to be accepted, accepted, its message read, answered.            *)
Silent(k) == toServer[k] = <<>> /\ toClient[k] = <<>>
Waiting   == srv = "accept" /\ backlog = <<made>> /\ sconn < made
Accepted  == srv = "recv" /\ backlog = <<>> /\ sconn = made
Handled   == srv = "handle" /\ backlog = <<>> /\ sconn = made
Answered  == srv = "accept" /\ backlog = <<>> /\ sconn = made

Between == /\ srv = "accept" /\ backlog = <<>> /\ sconn <= made
           /\ \A k \in Connections : Silent(k)

Open == conn = made /\ made \in clientOpen \intersect serverOpen

Exchanged(c) ==
    /\ pc[c] \notin {"send", "recv", "receiving"} => Between
    /\ pc[c] = "send" =>
         Open /\ (Waiting \/ Accepted) /\ \A k \in Connections : Silent(k)
    /\ pc[c] \in {"recv", "receiving"} =>
         /\ Open /\ \A k \in Connections \ {made} : Silent(k)
         /\ \/ /\ Waiting \/ Accepted
               /\ Len(toServer[made]) = 1 /\ toClient[made] = <<>>
            \/ Handled /\ Silent(made)
            \/ /\ Answered
               /\ toServer[made] = <<>> /\ Len(toClient[made]) = 1
    /\ pc[c] = "receiving" => used[c] = made
    /\ pc[c] # "raised"

Living ==
    /\ Quiet => Between
    /\ \A c, d \in Callers : pc[c] # "idle" /\ pc[d] # "idle" => c = d
    /\ \A c \in Callers : pc[c] # "idle" => Exchanged(c)

(* As long as no two calls overlap, the PLC can be reached and all that is  *)
(* written fits a register.                                                 *)
Alive == overlapped \/ unreachable \/ outOfRange \/ Living

(* No value on its way to the PLC is too large before one was asked for.    *)
Ranged ==
    ~outOfRange =>
        /\ \A c \in Callers : req[c] \notin Unwritable
        /\ \A k \in Connections :
             \A i \in 1..Len(toServer[k]) : toServer[k][i] \notin Unwritable
        /\ current \notin Unwritable

(* The inductive invariant of Hmi. *)
IInv == TypeOK /\ Placed /\ Alone /\ Acknowledged /\ Ranged /\ Alive

RuleTypes == notes \in Seq(Values) /\ checks \in Seq(Values \union {Unread})

(* What is going to notice a difference: a call that will start a           *)
(* comparison or drop the difference, the last note, a thread that compares. *)
Calling(c) ==
    \/ pc[c] = "callbacks"
    \/ req[c] # Get /\ pc[c] \in Pending \union {"raised"}

Messaged == notes # <<>> /\ notes[Len(notes)] = register

Compared == \E i \in 1..Len(checks) : checks[i] \in {Unread, register}

Noticed ==
    value # register =>
        reported \/ dropped \/ (\E c \in Callers : Calling(c)) \/ Messaged \/ Compared

(* The inductive invariant of Security.                                     *)
SecIInv == TypeOK /\ Placed /\ RuleTypes /\ Noticed

---------------------------------------------------------------------------
(* Lemmas *)

(* A caller that is about to connect finds a connection left. *)
LEMMA OneLeft ==
  ASSUME TypeOK, Placed, NEW c \in Callers, pc[c] = "connect"
  PROVE  made + 1 \in Connections /\ made + 1 <= calls
<1>1. c \in ToConnect
  BY DEF ToConnect
<1>2. Cardinality(ToConnect) \in Nat /\ Cardinality(ToConnect) # 0
  BY <1>1, FS_CardinalityType, FS_EmptySet DEF Placed
<1> QED
  BY <1>2, RpcAssumption DEF Placed, TypeOK, Connections

(* Every step keeps the types. *)
LEMMA StepTypeOK ==
  ASSUME TypeOK, Placed, [Next]_vars
  PROVE  TypeOK'
<1> USE DEF callers, twin, wires, server, overlap, rpcVars, hmiVars, faults
<1>1. /\ Settable \subseteq Requests /\ Get \in Requests /\ 0 \in Values
      /\ Requests \ {Get} = Settable /\ Values \subseteq Settable
      /\ Values \subseteq Results /\ Success \in Results /\ Failed \in Results
      /\ MaxCalls \in Nat
  BY HmiAssumption, RpcAssumption DEF Settable
<1>2. ASSUME NEW c \in Callers, NEW r \in Requests, NEW l \in {"connect", "old"},
             Begin(c, r, l)
      PROVE  TypeOK'
  <2>1. /\ pc' \in [Callers -> Places] /\ req' \in [Callers -> Requests \union {NoMessage}]
        /\ reply' \in [Callers -> Results \union {NoMessage}]
    BY <1>2 DEF Begin, Call, Goto, TypeOK, Places
  <2>2. calls' \in 0..MaxCalls
    BY <1>1, <1>2 DEF Begin, Call, TypeOK
  <2>3. disturbed' \subseteq Callers
    BY <1>2, Zenon DEF Begin, Call, TypeOK
  <2> QED
    BY <1>2, <2>1, <2>2, <2>3 DEF Begin, Call, TypeOK
<1>3. ASSUME NEW c \in Callers, SetOld(c) PROVE TypeOK'
  BY <1>3 DEF SetOld, Goto, TypeOK, Places
<1>4. ASSUME NEW c \in Callers, SetOptimistic(c) PROVE TypeOK'
  BY <1>4 DEF SetOptimistic, Goto, TypeOK, Places, Placed
<1>5. ASSUME NEW c \in Callers, GetResult(c) PROVE TypeOK'
  BY <1>1, <1>5 DEF GetResult, Goto, TypeOK, Places
<1>6. ASSUME NEW c \in Callers, SetResult(c) PROVE TypeOK'
  <2>1. req[c] \in Settable
    BY <1>1, <1>6 DEF SetResult, Placed
  <2>2. acked' \in Settable /\ value' \in Settable
    BY <1>6, <2>1 DEF SetResult, TypeOK
  <2>3. pc' \in [Callers -> Places]
    BY <1>6 DEF SetResult, Goto, TypeOK, Places
  <2> QED
    BY <1>6, <2>2, <2>3 DEF SetResult, TypeOK
<1>7. ASSUME NEW c \in Callers, Callbacks(c) PROVE TypeOK'
  BY <1>7 DEF Callbacks, Goto, TypeOK, Places
<1>8. ASSUME NEW c \in Callers, Raised(c) PROVE TypeOK'
  BY <1>8 DEF Raised, Goto, TypeOK, Places
<1>9. ASSUME NEW c \in Callers, Connect(c), UNCHANGED hmiVars PROVE TypeOK'
  <2>1. made + 1 \in Connections
    BY <1>9, OneLeft DEF Connect
  <2>2. backlog' \in Seq(Connections)
    <3>1. Append(backlog, made + 1) \in Seq(Connections)
      BY <2>1, AppendProperties DEF TypeOK
    <3> QED
      BY <1>9, <3>1 DEF Connect, TypeOK
  <2>3. pc' \in [Callers -> Places]
    BY <1>9 DEF Connect, Goto, TypeOK, Places
  <2>4. /\ conn' \in Connections \union {0} /\ made' \in Nat
        /\ clientOpen' \subseteq Connections /\ serverOpen' \subseteq Connections
    BY <1>9, <2>1 DEF Connect, Referenced, TypeOK
  <2> QED
    BY <1>9, <2>2, <2>3, <2>4 DEF Connect, TypeOK
<1>10. ASSUME NEW c \in Callers, Send(c), UNCHANGED hmiVars PROVE TypeOK'
  <2>1. toServer' \in [Connections -> Seq(Requests)]
    <3>1. CASE conn \in clientOpen \intersect serverOpen
      <4>1. conn \in Connections /\ req[c] \in Requests
        BY <1>10, <3>1 DEF Send, TypeOK, Placed
      <4>2. Append(toServer[conn], req[c]) \in Seq(Requests)
        BY <4>1, AppendProperties DEF TypeOK
      <4> QED
        BY <1>10, <3>1, <4>2 DEF Send, TypeOK
    <3> QED
      BY <1>10, <3>1 DEF Send, TypeOK
  <2>2. pc' \in [Callers -> Places]
    BY <1>10 DEF Send, Goto, TypeOK, Places
  <2> QED
    BY <1>10, <2>1, <2>2 DEF Send, TypeOK
<1>11. ASSUME NEW c \in Callers, Recv(c), UNCHANGED hmiVars PROVE TypeOK'
  BY <1>11 DEF Recv, Goto, TypeOK, Places
<1>12. ASSUME NEW c \in Callers, Receive(c), UNCHANGED hmiVars PROVE TypeOK'
  <2>1. used[c] \in Connections
    BY <1>12 DEF Receive, Placed
  <2>2. /\ Head(toClient[used[c]]) \in Results
        /\ Tail(toClient[used[c]]) \in Seq(Results)
    BY <1>12, <2>1, HeadTailProperties DEF Receive, TypeOK
  <2>3. /\ reply' \in [Callers -> Results \union {NoMessage}]
        /\ toClient' \in [Connections -> Seq(Results)]
    BY <1>12, <2>2 DEF Receive, TypeOK
  <2>4. /\ pc' \in [Callers -> Places] /\ used' \in [Callers -> Connections \union {0}]
        /\ clientOpen' \subseteq Connections
    BY <1>12 DEF Receive, Referenced, Goto, TypeOK, Places
  <2> QED
    BY <1>12, <2>3, <2>4 DEF Receive, TypeOK
<1>13. ASSUME NEW c \in Callers, ReceiveEof(c), UNCHANGED hmiVars PROVE TypeOK'
  <2>1. /\ pc' \in [Callers -> Places] /\ used' \in [Callers -> Connections \union {0}]
        /\ clientOpen' \subseteq Connections
    BY <1>13 DEF ReceiveEof, Referenced, Goto, TypeOK, Places
  <2> QED
    BY <1>13, <2>1 DEF ReceiveEof, TypeOK
<1>14. ASSUME NEW c \in Callers, Close(c), UNCHANGED hmiVars PROVE TypeOK'
  BY <1>14 DEF Close, Goto, TypeOK, Places
<1>15. ASSUME Accept({}), UNCHANGED hmiVars PROVE TypeOK'
  <2>1. Head(backlog) \in Connections /\ Tail(backlog) \in Seq(Connections)
    BY <1>15, HeadTailProperties DEF Accept, TypeOK
  <2> QED
    BY <1>15, <2>1 DEF Accept, TypeOK
<1>16. ASSUME ServerRecv, UNCHANGED hmiVars PROVE TypeOK'
  <2>1. sconn \in Connections
    BY <1>16 DEF ServerRecv, Placed
  <2>2. /\ Head(toServer[sconn]) \in Requests
        /\ Tail(toServer[sconn]) \in Seq(Requests)
    BY <1>16, <2>1, HeadTailProperties DEF ServerRecv, TypeOK
  <2> QED
    BY <1>16, <2>1, <2>2 DEF ServerRecv, TypeOK
<1>17. ASSUME ServerEof({}), UNCHANGED hmiVars PROVE TypeOK'
  BY <1>17, EmptySeq DEF ServerEof, Die, TypeOK
<1>18. ASSUME srv = "handle", NEW r \in Results, Answer(r, {}), register' \in Values,
              UNCHANGED <<value, old, announced, acked>>
       PROVE  TypeOK'
  <2>1. CASE sconn \in clientOpen
    <3>1. sconn \in Connections
      BY <1>18 DEF Placed
    <3>2. Append(toClient[sconn], r) \in Seq(Results)
      BY <1>18, <3>1, AppendProperties DEF TypeOK
    <3> QED
      BY <1>18, <2>1, <3>1, <3>2 DEF Answer, TypeOK
  <2>2. CASE sconn \notin clientOpen
    BY <1>18, <2>2, EmptySeq DEF Answer, Die, TypeOK
  <2> QED
    BY <2>1, <2>2
<1>19. CASE HandleRead
  <2>1. PICK r \in {register, Failed} : Answer(r, {})
    BY <1>19 DEF HandleRead
  <2>2. r \in Results /\ register' \in Values
    BY <1>1, <1>19 DEF HandleRead, TypeOK
  <2> QED
    BY <1>18, <1>19, <2>1, <2>2 DEF HandleRead
<1>20. CASE HandleWrite
  <2>1. current \in Values
    BY <1>20 DEF HandleWrite
  <2>2. PICK r \in {Success, Failed} : Answer(r, {})
    BY <1>20 DEF HandleWrite
  <2>3. r \in Results /\ register' \in Values
    BY <1>1, <1>20, <2>1 DEF HandleWrite, TypeOK
  <2> QED
    BY <1>18, <1>20, <2>2, <2>3 DEF HandleWrite
<1>21. CASE HandleRaises
  BY <1>21, EmptySeq DEF HandleRaises, Die, TypeOK
<1>22. ASSUME NEW v \in Values, PlcChanges(v) PROVE TypeOK'
  BY <1>22 DEF PlcChanges, TypeOK
<1>23. CASE UNCHANGED vars
  BY <1>23 DEF vars, TypeOK
<1> QED
  <2>1. ASSUME NEW c \in Callers, GetCall(c) \/ \E v \in Settable : SetCall(c, v)
        PROVE  TypeOK'
    BY <1>1, <1>2, <2>1 DEF GetCall, SetCall
  <2>2. ASSUME NEW c \in Callers, Caller(c) PROVE TypeOK'
    BY <1>3, <1>4, <1>5, <1>6, <1>7, <1>8, <1>9, <1>10, <1>11, <1>12, <1>13,
       <1>14, <2>2 DEF Caller, Exchange
  <2>3. CASE HmiMbClient
    BY <1>15, <1>16, <1>17, <1>19, <1>20, <1>21, <2>3 DEF HmiMbClient, Serve
  <2> QED
    BY <1>22, <1>23, <2>1, <2>2, <2>3 DEF Next

(* Every step keeps what the types rest on. *)
LEMMA StepPlaced ==
  ASSUME TypeOK, Placed, [Next]_vars
  PROVE  Placed'
<1> USE DEF callers, twin, wires, server, overlap, rpcVars, hmiVars, faults
<1>1. /\ Settable \subseteq Requests /\ Get \in Requests /\ "connect" # "old"
      /\ Requests \ {Get} = Settable
  BY HmiAssumption DEF Settable
<1> DEFINE Counted == IsFiniteSet(ToConnect) /\ made + Cardinality(ToConnect) <= calls
<1>2. Counted /\ Cardinality(ToConnect) \in Nat /\ made \in Nat /\ calls \in Nat
  BY FS_CardinalityType, RpcAssumption DEF Placed, TypeOK
<1>3. ASSUME ToConnect' = ToConnect, made' = made, calls' = calls
      PROVE  Counted'
  BY <1>2, <1>3
<1>4. ASSUME NEW c \in Callers, NEW r \in Requests, NEW l \in {"connect", "old"},
             l = "old" => r \in Settable, Begin(c, r, l)
      PROVE  Placed'
  <2>1. c \notin ToConnect /\ ToConnect' = ToConnect \union {c}
    BY <1>4 DEF Begin, Call, Goto, TypeOK, ToConnect
  <2>2. /\ IsFiniteSet(ToConnect \union {c})
        /\ Cardinality(ToConnect \union {c}) = Cardinality(ToConnect) + 1
    BY <1>2, <2>1, FS_AddElement
  <2>3. calls' = calls + 1 /\ made' = made
    BY <1>4 DEF Begin, Call
  <2>4. Counted'
    BY <1>2, <2>1, <2>2, <2>3
  <2> QED
    BY <1>4, <2>4 DEF Begin, Call, Goto, TypeOK, Placed
<1>5. ASSUME NEW c \in Callers, SetOld(c) PROVE Placed'
  <2>1. ToConnect' = ToConnect /\ made' = made /\ calls' = calls
    BY <1>5 DEF SetOld, Goto, TypeOK, ToConnect
  <2> QED
    BY <1>3, <1>5, <2>1 DEF SetOld, Goto, TypeOK, Placed
<1>6. ASSUME NEW c \in Callers, SetOptimistic(c) PROVE Placed'
  <2>1. ToConnect' = ToConnect /\ made' = made /\ calls' = calls
    BY <1>6 DEF SetOptimistic, Goto, TypeOK, ToConnect
  <2> QED
    BY <1>3, <1>6, <2>1 DEF SetOptimistic, Goto, TypeOK, Placed
<1>7. ASSUME NEW c \in Callers, GetResult(c) \/ SetResult(c) \/ Callbacks(c) \/ Raised(c)
      PROVE  Placed'
  <2>1. /\ \/ pc' = [pc EXCEPT ![c] = "callbacks"]
           \/ pc' = [pc EXCEPT ![c] = "idle"]
        /\ pc[c] \in {"received", "callbacks", "raised"}
        /\ UNCHANGED <<req, used, srv, sconn, current, made, calls>>
    BY <1>7 DEF GetResult, SetResult, Callbacks, Raised, Goto
  <2>2. ToConnect' = ToConnect
    BY <2>1 DEF TypeOK, ToConnect
  <2> QED
    BY <1>3, <2>1, <2>2 DEF TypeOK, Placed
<1>8. ASSUME NEW c \in Callers, Connect(c), UNCHANGED hmiVars PROVE Placed'
  <2>1. c \in ToConnect /\ ToConnect' = ToConnect \ {c}
    BY <1>8 DEF Connect, Goto, TypeOK, ToConnect
  <2>2. /\ IsFiniteSet(ToConnect \ {c})
        /\ Cardinality(ToConnect \ {c}) = Cardinality(ToConnect) - 1
    BY <1>2, <2>1, FS_RemoveElement
  <2>3. calls' = calls /\ made' \in {made, made + 1}
    BY <1>8 DEF Connect
  <2>4. Counted'
    BY <1>2, <2>1, <2>2, <2>3
  <2> QED
    BY <1>8, <2>4 DEF Connect, Goto, TypeOK, Placed
<1>9. ASSUME NEW c \in Callers, UNCHANGED hmiVars,
             Send(c) \/ Recv(c) \/ Receive(c) \/ ReceiveEof(c) \/ Close(c)
      PROVE  Placed'
  <2>1. ToConnect' = ToConnect /\ made' = made /\ calls' = calls
    BY <1>9 DEF Send, Recv, Receive, ReceiveEof, Close, Goto, TypeOK, ToConnect
  <2>2. Counted'
    BY <1>3, <2>1
  <2>3. CASE Send(c)
    BY <2>2, <2>3 DEF Send, Goto, TypeOK, Placed
  <2>4. CASE Recv(c)
    BY <2>2, <2>4 DEF Recv, Goto, TypeOK, Placed
  <2>5. CASE Receive(c) \/ ReceiveEof(c) \/ Close(c)
    BY <2>2, <2>5 DEF Receive, ReceiveEof, Close, Goto, TypeOK, Placed
  <2> QED
    BY <1>9, <2>3, <2>4, <2>5
<1>10. ASSUME HmiMbClient PROVE Placed'
  <2>1. /\ UNCHANGED <<pc, req, used, made, calls>>
    BY <1>10 DEF HmiMbClient, Serve, Accept, ServerRecv, ServerEof, HandleRead,
                 HandleWrite, HandleRaises, Answer, Die
  <2>2. Counted'
    BY <1>3, <2>1 DEF ToConnect
  <2>3. /\ srv' \in {"recv", "handle"} => sconn' \in Connections
        /\ srv' = "handle" => current' \in Requests
    <3>1. CASE Accept({})
      <4>1. Head(backlog) \in Connections
        BY <3>1, HeadTailProperties DEF Accept, TypeOK
      <4> QED
        BY <3>1, <4>1 DEF Accept
    <3>2. CASE ServerRecv
      <4>1. sconn \in Connections
        BY <3>2 DEF ServerRecv, Placed
      <4>2. Head(toServer[sconn]) \in Requests
        BY <3>2, <4>1, HeadTailProperties DEF ServerRecv, TypeOK
      <4> QED
        BY <3>2, <4>1, <4>2 DEF ServerRecv
    <3>3. CASE ServerEof({}) \/ HandleRaises
      BY <3>3 DEF ServerEof, HandleRaises, Die
    <3>4. CASE HandleRead \/ HandleWrite
      <4>1. srv' \in {"accept", "dead"}
        BY <3>4 DEF HandleRead, HandleWrite, Answer, Die
      <4> QED
        BY <4>1
    <3> QED
      BY <1>10, <3>1, <3>2, <3>3, <3>4 DEF HmiMbClient, Serve
  <2> QED
    BY <2>1, <2>2, <2>3 DEF Placed
<1>11. ASSUME NEW v \in Values, PlcChanges(v) PROVE Placed'
  BY <1>11 DEF PlcChanges, Placed, ToConnect
<1>12. CASE UNCHANGED vars
  BY <1>12 DEF vars, Placed, ToConnect
<1> QED
  <2>1. ASSUME NEW c \in Callers, GetCall(c) \/ \E v \in Settable : SetCall(c, v)
        PROVE  Placed'
    BY <1>1, <1>4, <2>1 DEF GetCall, SetCall
  <2>2. ASSUME NEW c \in Callers, Caller(c) PROVE Placed'
    BY <1>5, <1>6, <1>7, <1>8, <1>9, <2>2 DEF Caller, Exchange
  <2> QED
    BY <1>10, <1>11, <1>12, <2>1, <2>2 DEF Next

(* A call that begins is alone, or it and all the others are disturbed and  *)
(* clouded; clouded is cleared only at the end of a call that was alone.    *)
LEMMA StepAlone ==
  ASSUME TypeOK, Alone, [Next]_vars
  PROVE  Alone'
<1> USE DEF callers, twin, wires, server, overlap, rpcVars, hmiVars, faults
<1>1. ASSUME disturbed' = disturbed, clouded => clouded',
             \A c \in Callers : pc[c] = "idle" => pc'[c] = "idle"
      PROVE  Alone'
  <2>1. ~clouded' => ~clouded
    BY <1>1, Zenon
  <2> QED
    BY <1>1, <2>1 DEF Alone
<1>2. ASSUME NEW c \in Callers, NEW r, NEW l \in {"connect", "old"}, Begin(c, r, l)
      PROVE  Alone'
  <2> DEFINE others == {d \in Callers : pc[d] # "idle"}
  <2>1. /\ others \subseteq disturbed'
        /\ others # {} => c \in disturbed'
        /\ \A d \in Callers : pc'[d] # "idle" => d \in others \/ d = c
    BY <1>2 DEF Begin, Call, Goto, TypeOK
  <2>2. ~clouded' => c \notin disturbed'
    BY <1>2, Zenon DEF Begin
  <2> HIDE DEF others
  <2> QED
    BY <2>1, <2>2 DEF Alone
<1>3. ASSUME NEW c \in Callers,
             \/ SetOld(c) \/ SetOptimistic(c) \/ GetResult(c) \/ SetResult(c)
             \/ Exchange(c) /\ UNCHANGED hmiVars
      PROVE  Alone'
  <2>1. disturbed' = disturbed /\ clouded' = clouded /\ pc[c] # "idle"
    BY <1>3 DEF SetOld, SetOptimistic, GetResult, SetResult, Exchange, Connect,
                Send, Recv, Receive, ReceiveEof, Close
  <2>2. \A d \in Callers : pc[d] = "idle" => pc'[d] = "idle"
    BY <1>3, <2>1 DEF SetOld, SetOptimistic, GetResult, SetResult, Exchange,
                Connect, Send, Recv, Receive, ReceiveEof, Close, Goto, TypeOK
  <2> QED
    BY <1>1, <2>1, <2>2
<1>4. ASSUME NEW c \in Callers, Callbacks(c) PROVE Alone'
  <2>1. ~clouded' => ~clouded \/ c \notin disturbed
    BY <1>4, Zenon DEF Callbacks
  <2>2. disturbed' = disturbed /\ pc[c] # "idle"
        /\ \A d \in Callers : pc'[d] # "idle" => d # c /\ pc[d] # "idle"
    BY <1>4 DEF Callbacks, Goto, TypeOK
  <2> QED
    BY <2>1, <2>2 DEF Alone
<1>5. ASSUME NEW c \in Callers, Raised(c) PROVE Alone'
  <2>1. clouded => clouded'
    BY <1>5, Zenon DEF Raised
  <2>2. disturbed' = disturbed /\ \A d \in Callers : pc[d] = "idle" => pc'[d] = "idle"
    BY <1>5 DEF Raised, Goto, TypeOK
  <2> QED
    BY <1>1, <2>1, <2>2
<1>6. ASSUME HmiMbClient PROVE Alone'
  <2>1. UNCHANGED <<pc, disturbed, clouded>>
    BY <1>6 DEF HmiMbClient, Serve, Accept, ServerRecv, ServerEof, HandleRead,
                HandleWrite, HandleRaises, Answer, Die
  <2> QED
    BY <1>1, <2>1
<1>7. ASSUME NEW v \in Values, PlcChanges(v) PROVE Alone'
  BY <1>1, <1>7 DEF PlcChanges
<1>8. CASE UNCHANGED vars
  BY <1>1, <1>8 DEF vars
<1> QED
  <2>1. ASSUME NEW c \in Callers, GetCall(c) \/ \E v \in Settable : SetCall(c, v)
        PROVE  Alone'
    BY <1>2, <2>1 DEF GetCall, SetCall
  <2>2. ASSUME NEW c \in Callers, Caller(c) PROVE Alone'
    BY <1>3, <1>4, <1>5, <2>2 DEF Caller
  <2> QED
    BY <1>6, <1>7, <1>8, <2>1, <2>2 DEF Next

(* What a caller that is alone shows carries its call from the one          *)
(* agreement to the next.                                                   *)
LEMMA StepAcknowledged ==
  ASSUME TypeOK, Placed, Alone, Acknowledged, [Next]_vars
  PROVE  Acknowledged'
<1> USE DEF callers, twin, wires, server, overlap, rpcVars, hmiVars, faults, Agreed
<1>1. CASE UNCHANGED <<pc, req, disturbed, value, old, announced, acked, clouded>>
  BY <1>1 DEF Acknowledged, Quiet, Shown
<1>2. ASSUME NEW c \in Callers, pc[c] # "idle", disturbed' = disturbed,
             \A d \in Callers : d # c => pc'[d] = pc[d],
             Shown(c)', Quiet' /\ ~clouded' => Agreed'
      PROVE  Acknowledged'
  <2>1. ASSUME NEW d \in Callers, d # c PROVE Shown(d)'
    <3>1. pc'[d] # "idle" => d \in disturbed'
      BY <1>2, <2>1 DEF Alone
    <3> QED
      BY <3>1 DEF Shown
  <2> QED
    BY <1>2, <2>1 DEF Acknowledged
<1>3. ASSUME NEW c \in Callers, NEW r \in Requests, NEW l \in {"connect", "old"},
             Begin(c, r, l),
             (r = Get /\ l = "connect") \/ (r # Get /\ l = "old")
      PROVE  Acknowledged'
  <2> DEFINE others == {d \in Callers : pc[d] # "idle"}
  <2>1. /\ others \subseteq disturbed'
        /\ others # {} => c \in disturbed'
        /\ pc[c] = "idle" /\ pc'[c] = l /\ req'[c] = r
        /\ \A d \in Callers : d # c => pc'[d] = pc[d]
        /\ UNCHANGED <<value, old, announced, acked>>
    BY <1>3 DEF Begin, Call, Goto, TypeOK
  <2>2. ~clouded' => ~clouded
    BY <1>3, Zenon DEF Begin
  <2>3. Shown(c)'
    <3>1. c \notin disturbed' => Quiet
      BY <2>1 DEF Quiet
    <3> QED
      BY <1>3, <2>1, <2>2, <3>1 DEF Shown, Acknowledged, Pending
  <2>4. ASSUME NEW d \in Callers, d # c PROVE Shown(d)'
    <3>1. pc'[d] # "idle" => d \in disturbed'
      BY <2>1, <2>4
    <3> QED
      BY <3>1 DEF Shown
  <2>5. ~Quiet'
    BY <1>3, <2>1 DEF Quiet
  <2> QED
    BY <2>3, <2>4, <2>5 DEF Acknowledged
<1>4. ASSUME NEW c \in Callers, SetOld(c) \/ SetOptimistic(c), req[c] # Get
      PROVE  Acknowledged'
  <2>1. /\ pc[c] # "idle" /\ pc'[c] # "idle" /\ disturbed' = disturbed
        /\ \A d \in Callers : d # c => pc'[d] = pc[d]
    BY <1>4 DEF SetOld, SetOptimistic, Goto, TypeOK
  <2>2. Shown(c)'
    <3>1. CASE SetOld(c)
      BY <1>4, <3>1 DEF SetOld, Goto, TypeOK, Shown, Acknowledged, Pending
    <3>2. CASE SetOptimistic(c)
      BY <1>4, <3>2 DEF SetOptimistic, Goto, TypeOK, Shown, Acknowledged, Pending
    <3> QED
      BY <1>4, <3>1, <3>2
  <2> QED
    BY <1>2, <2>1, <2>2 DEF Quiet
<1>5. ASSUME NEW c \in Callers, Exchange(c), UNCHANGED hmiVars
      PROVE  Acknowledged'
  <2>1. /\ pc[c] \in Pending \ {"received"} /\ pc'[c] \in Pending \union {"raised"}
        /\ UNCHANGED <<disturbed, req>>
        /\ \A d \in Callers : d # c => pc'[d] = pc[d]
    BY <1>5 DEF Exchange, Connect, Send, Recv, Receive, ReceiveEof, Close, Goto,
                TypeOK, Pending
  <2>2. Shown(c)'
    BY <1>5, <2>1 DEF Shown, Acknowledged, Pending
  <2>3. pc[c] # "idle" /\ ~Quiet'
    BY <2>1 DEF Pending, Quiet
  <2> QED
    BY <1>2, <2>1, <2>2, <2>3
<1>6. ASSUME NEW c \in Callers, GetResult(c)
      PROVE  Acknowledged'
  <2>1. /\ pc[c] = "received" /\ req[c] = Get /\ disturbed' = disturbed
        /\ clouded' = clouded /\ pc'[c] \in {"callbacks", "idle"} /\ req' = req
        /\ \A d \in Callers : d # c => pc'[d] = pc[d]
    BY <1>6 DEF GetResult, Goto, TypeOK
  <2>2. Shown(c)'
    BY <1>6, <2>1 DEF GetResult, Goto, TypeOK, Shown, Pending
  <2>3. Quiet' /\ ~clouded' => Agreed'
    <3>1. ~clouded => Agreed
      BY <2>1 DEF Alone, Acknowledged, Shown, Pending
    <3>2. Quiet' => UNCHANGED <<value, announced, acked>>
      BY <1>6 DEF GetResult, Goto, TypeOK, Quiet
    <3> QED
      BY <2>1, <3>1, <3>2
  <2> QED
    BY <1>2, <2>1, <2>2, <2>3
<1>7. ASSUME NEW c \in Callers, SetResult(c)
      PROVE  Acknowledged'
  <2>1. /\ pc[c] = "received" /\ req[c] # Get /\ disturbed' = disturbed
        /\ clouded' = clouded /\ pc'[c] \in {"callbacks", "idle"} /\ req' = req
        /\ \A d \in Callers : d # c => pc'[d] = pc[d]
    BY <1>7 DEF SetResult, Goto, TypeOK
  <2>2. Shown(c)'
    BY <1>7, <2>1 DEF SetResult, Goto, TypeOK, Shown, Acknowledged, Pending
  <2>3. Quiet' /\ ~clouded' => Agreed'
    <3>1. ~clouded => old[c] = acked /\ announced = acked
      BY <2>1 DEF Alone, Acknowledged, Shown, Pending
    <3>2. Quiet' => value' = old[c] /\ UNCHANGED <<announced, acked>>
      BY <1>7 DEF SetResult, Goto, TypeOK, Quiet
    <3> QED
      BY <2>1, <3>1, <3>2
  <2> QED
    BY <1>2, <2>1, <2>2, <2>3
<1>8. ASSUME NEW c \in Callers, Callbacks(c)
      PROVE  Acknowledged'
  <2>1. /\ pc[c] = "callbacks" /\ disturbed' = disturbed /\ pc'[c] = "idle"
        /\ announced' = value /\ UNCHANGED <<value, acked>>
        /\ \A d \in Callers : d # c => pc'[d] = pc[d]
    BY <1>8 DEF Callbacks, Goto, TypeOK
  <2>2. ~clouded' => ~clouded \/ c \notin disturbed
    BY <1>8, Zenon DEF Callbacks
  <2>3. ~clouded' => value = acked
    BY <2>1, <2>2 DEF Alone, Acknowledged, Shown
  <2> QED
    BY <1>2, <2>1, <2>3 DEF Shown
<1>9. ASSUME NEW c \in Callers, Raised(c)
      PROVE  Acknowledged'
  <2>1. /\ pc[c] = "raised" /\ disturbed' = disturbed /\ pc'[c] = "idle"
        /\ UNCHANGED <<value, announced, acked>>
        /\ \A d \in Callers : d # c => pc'[d] = pc[d]
    BY <1>9 DEF Raised, Goto, TypeOK
  <2>2. ~clouded' => ~clouded /\ req[c] = Get
    BY <1>9, Zenon DEF Raised
  <2>3. ~clouded' => Agreed
    BY <2>1, <2>2 DEF Alone, Acknowledged, Shown
  <2> QED
    BY <1>2, <2>1, <2>3 DEF Shown
<1>10. ASSUME HmiMbClient \/ (\E v \in Values : PlcChanges(v)) \/ UNCHANGED vars
       PROVE  Acknowledged'
  <2>1. UNCHANGED <<pc, req, disturbed, value, old, announced, acked, clouded>>
    BY <1>10 DEF HmiMbClient, Serve, Accept, ServerRecv, ServerEof, HandleRead,
                 HandleWrite, HandleRaises, Answer, Die, PlcChanges, vars
  <2> QED
    BY <1>1, <2>1
<1> QED
  <2>1. ASSUME NEW c \in Callers, GetCall(c) \/ \E v \in Settable : SetCall(c, v)
        PROVE  Acknowledged'
    <3>1. Get \in Requests /\ \A v \in Settable : v \in Requests /\ v # Get
      BY HmiAssumption DEF Settable
    <3>2. CASE GetCall(c)
      BY <1>3, <3>1, <3>2 DEF GetCall
    <3>3. ASSUME NEW v \in Settable, SetCall(c, v) PROVE Acknowledged'
      BY <1>3, <3>1, <3>3 DEF SetCall
    <3> QED
      BY <2>1, <3>2, <3>3
  <2>2. ASSUME NEW c \in Callers, Caller(c) PROVE Acknowledged'
    <3>1. CASE SetOld(c) \/ SetOptimistic(c)
      <4>1. req[c] # Get
        BY <3>1, HmiAssumption DEF SetOld, SetOptimistic, Placed, Settable
      <4> QED
        BY <1>4, <3>1, <4>1
    <3> QED
      BY <1>5, <1>6, <1>7, <1>8, <1>9, <2>2, <3>1 DEF Caller
  <2> QED
    BY <1>10, <2>1, <2>2 DEF Next

(* What is asked is what is sent, and what is sent is what is read.         *)
LEMMA StepRanged ==
  ASSUME TypeOK, Placed, Ranged, [Next]_vars
  PROVE  Ranged'
<1> USE DEF callers, twin, wires, server, overlap, rpcVars, hmiVars, faults
<1>1. NoMessage \notin Unwritable
  BY HmiAssumption, RpcAssumption
<1>2. ASSUME UNCHANGED <<req, toServer, outOfRange>>, current' \in {current, NoMessage}
      PROVE  Ranged'
  BY <1>1, <1>2 DEF Ranged
<1>3. ASSUME NEW c \in Callers, NEW r, NEW l, Begin(c, r, l)
      PROVE  Ranged'
  <2>1. /\ req' = [req EXCEPT ![c] = r] /\ UNCHANGED <<toServer, current>>
        /\ ~outOfRange' => ~outOfRange /\ r \notin Unwritable
    BY <1>3 DEF Begin, Call
  <2> QED
    BY <2>1 DEF Ranged, TypeOK
<1>4. ASSUME NEW c \in Callers, Send(c), UNCHANGED hmiVars
      PROVE  Ranged'
  <2>1. CASE conn \in clientOpen \intersect serverOpen
    <3>1. /\ conn \in Connections /\ req[c] \in Requests
          /\ toServer' = [toServer EXCEPT ![conn] = Append(@, req[c])]
          /\ UNCHANGED <<req, current, outOfRange>>
      BY <1>4, <2>1 DEF Send, TypeOK, Placed
    <3>2. /\ Len(Append(toServer[conn], req[c])) = Len(toServer[conn]) + 1
          /\ Len(toServer[conn]) \in Nat
          /\ \A i \in 1..Len(toServer[conn]) :
               Append(toServer[conn], req[c])[i] = toServer[conn][i]
          /\ Append(toServer[conn], req[c])[Len(toServer[conn]) + 1] = req[c]
      BY <3>1, AppendProperties, LenProperties DEF TypeOK
    <3> QED
      BY <3>1, <3>2 DEF Ranged, TypeOK
  <2>2. CASE conn \notin clientOpen \intersect serverOpen
    BY <1>2, <1>4, <2>2 DEF Send
  <2> QED
    BY <2>1, <2>2
<1>5. ASSUME ServerRecv, UNCHANGED hmiVars
      PROVE  Ranged'
  <2>1. /\ sconn \in Connections /\ toServer[sconn] # <<>>
        /\ toServer' = [toServer EXCEPT ![sconn] = Tail(@)]
        /\ current' = Head(toServer[sconn]) /\ UNCHANGED <<req, outOfRange>>
    BY <1>5 DEF ServerRecv, Placed
  <2>2. /\ Head(toServer[sconn]) = toServer[sconn][1]
        /\ Len(Tail(toServer[sconn])) = Len(toServer[sconn]) - 1
        /\ \A i \in 1..Len(Tail(toServer[sconn])) :
             Tail(toServer[sconn])[i] = toServer[sconn][i + 1]
    BY <2>1, HeadTailProperties DEF TypeOK
  <2>3. Len(toServer[sconn]) \in Nat \ {0}
    BY <2>1, EmptySeq, LenProperties DEF TypeOK
  <2> QED
    BY <2>1, <2>2, <2>3 DEF Ranged, TypeOK
<1>6. ASSUME NEW c \in Callers, Caller(c) PROVE Ranged'
  <2>1. CASE Send(c) /\ UNCHANGED hmiVars
    BY <1>4, <2>1
  <2>2. CASE ~Send(c)
    BY <1>2, <1>6, <2>2 DEF Caller, SetOld, SetOptimistic, Exchange, Connect, Recv,
       Receive, ReceiveEof, Close, GetResult, SetResult, Callbacks, Raised
  <2>3. Send(c) => UNCHANGED hmiVars
    BY <1>6 DEF Caller, SetOld, SetOptimistic, Exchange, GetResult, SetResult,
       Callbacks, Raised, Send
  <2> QED
    BY <2>1, <2>2, <2>3
<1>7. CASE HmiMbClient
  <2>1. CASE ServerRecv /\ UNCHANGED hmiVars
    BY <1>5, <2>1
  <2>2. CASE ~(ServerRecv /\ UNCHANGED hmiVars)
    BY <1>2, <1>7, <2>2 DEF HmiMbClient, Serve, Accept, ServerEof, HandleRead,
       HandleWrite, HandleRaises, Answer, Die
  <2> QED
    BY <2>1, <2>2
<1>8. ASSUME (\E v \in Values : PlcChanges(v)) \/ UNCHANGED vars PROVE Ranged'
  BY <1>2, <1>8 DEF PlcChanges, vars
<1> QED
  BY <1>3, <1>6, <1>7, <1>8 DEF Next, GetCall, SetCall

(* A call on its own is accepted, read and answered before it ends.         *)
LEMMA StepAlive ==
  ASSUME TypeOK, Placed, Ranged, Alive, [Next]_vars
  PROVE  Alive'
<1> USE DEF callers, twin, wires, server, overlap, rpcVars, hmiVars, faults
<1>1. CASE UNCHANGED <<pc, used, conn, made, backlog, toServer, toClient,
                       clientOpen, serverOpen, srv, sconn, overlapped,
                       faults>>
  BY <1>1 DEF Alive, Living, Quiet, Between, Exchanged, Open, Silent, Waiting,
              Accepted, Handled, Answered
<1>2. ASSUME NEW c \in Callers, Living, pc[c] # "idle",
             \A d \in Callers : d # c => pc'[d] = pc[d],
             Quiet' => Between', pc'[c] # "idle" => Exchanged(c)'
      PROVE  Living'
  <2>1. \A d \in Callers : d # c => pc'[d] = "idle"
    BY <1>2 DEF Living
  <2>2. \A d \in Callers : pc'[d] # "idle" => d = c
    BY <2>1
  <2>3. \A d \in Callers : pc'[d] # "idle" => Exchanged(d)'
    BY <1>2, <2>2
  <2> QED
    BY <1>2, <2>2, <2>3 DEF Living
<1>3. ASSUME NEW c \in Callers, NEW r, NEW l \in {"connect", "old"}, Begin(c, r, l)
      PROVE  Alive'
  <2> DEFINE others == {d \in Callers : pc[d] # "idle"}
  <2>1. /\ overlapped' = (overlapped \/ others # {}) /\ unreachable' = unreachable
        /\ outOfRange' = (outOfRange \/ r \in Unwritable)
    BY <1>3 DEF Begin, Call
  <2>2. CASE others # {} \/ overlapped \/ unreachable \/ outOfRange
    <3> HIDE DEF others
    <3> QED
      BY <2>1, <2>2, Zenon DEF Alive
  <2>3. CASE others = {} /\ Living
    <3>1. Quiet /\ Between
      BY <2>3 DEF Living, Quiet
    <3>2. \A d \in Callers : pc'[d] # "idle" => d = c
      BY <1>3, <3>1 DEF Begin, Call, Goto, TypeOK, Quiet
    <3>3. Between' /\ pc'[c] = l /\ l \notin {"send", "recv", "receiving", "raised"}
      BY <1>3, <3>1 DEF Begin, Call, Goto, TypeOK, Between, Silent
    <3>4. Exchanged(c)'
      BY <3>3 DEF Exchanged
    <3>5. \A d \in Callers : pc'[d] # "idle" => Exchanged(d)'
      BY <3>2, <3>4
    <3> QED
      BY <3>2, <3>3, <3>5 DEF Alive, Living
  <2> QED
    BY <2>2, <2>3, Zenon DEF Alive
<1>4. ASSUME NEW c \in Callers, Living,
             SetOld(c) \/ SetOptimistic(c) \/ GetResult(c) \/ SetResult(c) \/ Callbacks(c)
      PROVE  Living'
  <2>1. /\ pc[c] \in {"old", "optimistic", "received", "callbacks"}
        /\ pc'[c] \in {"optimistic", "connect", "callbacks", "idle"}
        /\ UNCHANGED <<toServer, toClient, srv, backlog, sconn, made>>
        /\ \A d \in Callers : d # c => pc'[d] = pc[d]
    BY <1>4 DEF SetOld, SetOptimistic, GetResult, SetResult, Callbacks, Goto, TypeOK
  <2>2. Between
    BY <1>4, <2>1 DEF Living, Exchanged
  <2>3. Between'
    BY <2>1, <2>2 DEF Between, Silent
  <2> QED
    BY <1>2, <1>4, <2>1, <2>3 DEF Exchanged
<1>5. ASSUME NEW c \in Callers, Living, Raised(c)
      PROVE  FALSE
  BY <1>5 DEF Raised, Living, Exchanged
<1>6. ASSUME NEW c \in Callers, Living, Connect(c)
      PROVE  Living'
  <2>1. Between /\ pc[c] = "connect"
    BY <1>6 DEF Connect, Living, Exchanged
  <2>2. made + 1 \in Connections /\ made \in Nat
    BY <2>1, OneLeft DEF TypeOK
  <2>3. /\ made' = made + 1 /\ conn' = made + 1 /\ backlog' = Append(backlog, made + 1)
        /\ clientOpen' = Referenced(clientOpen \union {made + 1}, made + 1, used)
        /\ serverOpen' = serverOpen \union {made + 1}
        /\ pc' = [pc EXCEPT ![c] = "send"]
        /\ UNCHANGED <<toServer, toClient, srv, sconn>>
    BY <1>6, <2>1 DEF Connect, Between, Goto
  <2>4. Append(<<>>, made + 1) = <<made + 1>>
    OBVIOUS
  <2>5. Open' /\ Waiting' /\ \A k \in Connections : Silent(k)'
    <3>1. Open'
      BY <2>3 DEF Open, Referenced
    <3>2. Waiting'
      <4>1. backlog' = <<made + 1>> /\ sconn <= made
        BY <2>1, <2>3, <2>4 DEF Between
      <4>2. sconn \in Nat
        BY DEF TypeOK, Connections
      <4> QED
        BY <2>1, <2>2, <2>3, <4>1, <4>2 DEF Between, Waiting
    <3>3. \A k \in Connections : Silent(k)'
      BY <2>1, <2>3 DEF Between, Silent
    <3> QED
      BY <3>1, <3>2, <3>3
  <2>6. pc'[c] = "send" /\ \A d \in Callers : d # c => pc'[d] = pc[d]
    BY <2>3 DEF TypeOK
  <2>7. Exchanged(c)'
    BY <2>5, <2>6 DEF Exchanged
  <2> QED
    BY <1>2, <1>6, <2>1, <2>6, <2>7 DEF Quiet
<1>7. ASSUME NEW c \in Callers, Living, Send(c)
      PROVE  Living'
  <2>1. /\ Open /\ (Waiting \/ Accepted) /\ \A k \in Connections : Silent(k)
        /\ pc[c] = "send"
    BY <1>7 DEF Send, Living, Exchanged
  <2>2. conn = made /\ made \in Connections
    BY <2>1 DEF Open, TypeOK
  <2>3. /\ toServer' = [toServer EXCEPT ![made] = Append(@, req[c])]
        /\ pc' = [pc EXCEPT ![c] = "recv"]
        /\ UNCHANGED <<conn, made, backlog, toClient, clientOpen, serverOpen, srv, sconn>>
    BY <1>7, <2>1, <2>2 DEF Send, Open, Goto
  <2>4. Len(Append(<<>>, req[c])) = 1
    OBVIOUS
  <2>5. /\ Open' /\ (Waiting' \/ Accepted')
        /\ Len(toServer'[made]) = 1 /\ toClient'[made] = <<>>
        /\ \A k \in Connections \ {made} : Silent(k)'
    BY <2>1, <2>2, <2>3, <2>4 DEF TypeOK, Open, Waiting, Accepted, Silent
  <2>6. pc'[c] = "recv" /\ \A d \in Callers : d # c => pc'[d] = pc[d]
    BY <2>3 DEF TypeOK
  <2>7. Exchanged(c)'
    BY <2>3, <2>5, <2>6 DEF Exchanged
  <2> QED
    BY <1>2, <1>7, <2>1, <2>6, <2>7 DEF Quiet
<1>8. ASSUME NEW c \in Callers, Living, Recv(c)
      PROVE  Living'
  <2>1. pc[c] = "recv" /\ Exchanged(c) /\ Open
    BY <1>8 DEF Recv, Living, Exchanged
  <2>2. /\ used' = [used EXCEPT ![c] = made] /\ pc' = [pc EXCEPT ![c] = "receiving"]
        /\ UNCHANGED <<conn, made, backlog, toServer, toClient, clientOpen,
                       serverOpen, srv, sconn>>
    BY <1>8, <2>1 DEF Recv, Open, Goto
  <2>3. /\ pc'[c] = "receiving" /\ used'[c] = made
        /\ \A d \in Callers : d # c => pc'[d] = pc[d]
    BY <2>2 DEF TypeOK
  <2>4. Exchanged(c)'
    BY <2>1, <2>2, <2>3 DEF Exchanged, Open, Silent, Waiting, Accepted, Handled, Answered
  <2> QED
    BY <1>2, <1>8, <2>1, <2>3, <2>4 DEF Quiet
<1>9. ASSUME NEW c \in Callers, Living, Receive(c)
      PROVE  Living'
  <2>1. /\ pc[c] = "receiving" /\ used[c] = made /\ made \in Connections
        /\ toClient[made] # <<>> /\ Exchanged(c)
    BY <1>9 DEF Receive, Living, Exchanged, Open, TypeOK
  <2>2. /\ Answered /\ toServer[made] = <<>> /\ Len(toClient[made]) = 1
        /\ \A k \in Connections \ {made} : Silent(k)
    BY <2>1 DEF Exchanged, Silent
  <2>3. Tail(toClient[made]) = <<>>
    <3>1. /\ Tail(toClient[made]) \in Seq(Results)
          /\ Len(Tail(toClient[made])) = Len(toClient[made]) - 1
      BY <2>1, HeadTailProperties DEF TypeOK
    <3>2. Tail(toClient[made]) # <<>> => Len(Tail(toClient[made])) # 0
      BY <3>1, EmptySeq
    <3> QED
      BY <2>2, <3>1, <3>2
  <2>4. /\ toClient' = [toClient EXCEPT ![made] = Tail(@)]
        /\ pc' = [pc EXCEPT ![c] = "close"]
        /\ UNCHANGED <<made, backlog, toServer, srv, sconn>>
    BY <1>9, <2>1 DEF Receive, Goto
  <2>5. Between'
    BY <2>1, <2>2, <2>3, <2>4 DEF TypeOK, Between, Answered, Silent
  <2>6. pc'[c] = "close" /\ \A d \in Callers : d # c => pc'[d] = pc[d]
    BY <2>4 DEF TypeOK
  <2> QED
    BY <1>2, <1>9, <2>1, <2>5, <2>6 DEF Exchanged
<1>10. ASSUME NEW c \in Callers, Living, ReceiveEof(c)
       PROVE  FALSE
  BY <1>10 DEF ReceiveEof, Living, Exchanged, Open
<1>11. ASSUME NEW c \in Callers, Living, Close(c)
       PROVE  Living'
  <2>1. /\ pc[c] = "close" /\ pc' = [pc EXCEPT ![c] = "received"]
        /\ UNCHANGED <<made, backlog, toServer, toClient, srv, sconn>>
    BY <1>11 DEF Close, Goto
  <2>2. Between'
    BY <1>11, <2>1 DEF Living, Exchanged, Between, Silent
  <2>3. pc'[c] = "received" /\ \A d \in Callers : d # c => pc'[d] = pc[d]
    BY <2>1 DEF TypeOK
  <2> QED
    BY <1>2, <1>11, <2>1, <2>2, <2>3 DEF Exchanged
<1>12. ASSUME Living, HmiMbClient, ~unreachable', ~outOfRange'
       PROVE  Living'
  <2>3. ~HandleRaises
    <3>1. ~outOfRange => current \notin Unwritable
      BY DEF Ranged
    <3>2. HandleRaises => /\ unreachable' = TRUE \/ current \in Unwritable
                          /\ outOfRange' = outOfRange
      BY DEF HandleRaises
    <3> QED
      BY <1>12, <3>1, <3>2
  <2>1. CASE Quiet \/ \E c \in Callers : pc[c] # "idle" /\ Between
    <3>1. Between
      BY <1>12, <2>1 DEF Living
    <3>2. ~Accept({}) /\ ~ServerRecv /\ ~ServerEof({}) /\ ~HandleRead /\ ~HandleWrite
      BY <3>1 DEF Between, Accept, ServerRecv, ServerEof, HandleRead, HandleWrite
    <3> QED
      BY <1>12, <2>3, <3>2 DEF HmiMbClient, Serve
  <2>2. ASSUME NEW c \in Callers, pc[c] \in {"send", "recv", "receiving"}
        PROVE  Living'
    <3>1. /\ Exchanged(c) /\ Open /\ made \in Connections
          /\ \A k \in Connections \ {made} : Silent(k)
      BY <1>12, <2>2 DEF Living, Exchanged, Open, TypeOK
    <3>2. /\ UNCHANGED <<pc, used, conn, made, clientOpen>>
      BY <1>12 DEF HmiMbClient, Serve, Accept, ServerRecv, ServerEof, HandleRead,
                   HandleWrite, HandleRaises, Answer, Die
    <3>3. CASE Accept({})
      <4>1. Waiting
        BY <2>2, <3>1, <3>3 DEF Exchanged, Accept, Accepted, Handled, Answered
      <4>2. /\ sconn' = made /\ backlog' = <<>> /\ srv' = "recv"
            /\ made \in serverOpen' /\ UNCHANGED <<toServer, toClient>>
        BY <3>1, <3>3, <4>1 DEF Accept, Waiting, Open, TypeOK
      <4>3. Open' /\ Accepted'
        BY <3>1, <3>2, <4>2 DEF Open, Accepted
      <4>4. Exchanged(c)'
        BY <2>2, <3>1, <3>2, <4>1, <4>2, <4>3 DEF Exchanged, Silent, Waiting,
           Accepted, Handled, Answered
      <4> QED
        BY <1>2, <1>12, <2>2, <3>2, <4>4 DEF Quiet
    <3>4. CASE ServerRecv
      <4>1. Accepted /\ pc[c] # "send" /\ Len(toServer[made]) = 1 /\ toClient[made] = <<>>
        BY <2>2, <3>1, <3>4 DEF Exchanged, ServerRecv, Waiting, Accepted, Handled,
           Answered, Silent
      <4>2. Tail(toServer[made]) = <<>>
        <5>1. /\ Tail(toServer[made]) \in Seq(Requests)
              /\ Len(Tail(toServer[made])) = Len(toServer[made]) - 1
          BY <3>1, <3>4, <4>1, HeadTailProperties DEF ServerRecv, Accepted, TypeOK
        <5>2. Tail(toServer[made]) # <<>> => Len(Tail(toServer[made])) # 0
          BY <5>1, EmptySeq
        <5> QED
          BY <4>1, <5>1, <5>2
      <4>3. /\ toServer' = [toServer EXCEPT ![made] = Tail(@)] /\ srv' = "handle"
            /\ UNCHANGED <<backlog, toClient, serverOpen, sconn>>
        BY <3>4, <4>1 DEF ServerRecv, Accepted
      <4>4. /\ Open' /\ Handled' /\ Silent(made)'
            /\ \A k \in Connections \ {made} : Silent(k)'
        BY <3>1, <3>2, <4>1, <4>2, <4>3 DEF TypeOK, Open, Handled, Accepted, Silent
      <4>5. Exchanged(c)'
        BY <2>2, <3>1, <3>2, <4>1, <4>4 DEF Exchanged, Silent
      <4> QED
        BY <1>2, <1>12, <2>2, <3>2, <4>5 DEF Quiet
    <3>5. CASE ServerEof({})
      <4>1. sconn # made
        BY <3>1, <3>5 DEF ServerEof, Open
      <4> QED
        BY <2>2, <3>1, <3>5, <4>1 DEF Exchanged, ServerEof, Waiting, Accepted, Handled,
           Answered
    <3>6. ASSUME NEW r, srv = "handle", Answer(r, {})
          PROVE  Living'
      <4>1. Handled /\ pc[c] # "send" /\ Silent(made)
        BY <2>2, <3>1, <3>6 DEF Exchanged, Waiting, Accepted, Handled, Answered
      <4>2. /\ toClient' = [toClient EXCEPT ![made] = Append(@, r)] /\ srv' = "accept"
            /\ UNCHANGED <<backlog, toServer, serverOpen, sconn>>
        BY <3>1, <3>6, <4>1 DEF Answer, Handled, Open
      <4>3. Len(Append(<<>>, r)) = 1
        OBVIOUS
      <4>4. /\ Open' /\ Answered' /\ toServer'[made] = <<>> /\ Len(toClient'[made]) = 1
            /\ \A k \in Connections \ {made} : Silent(k)'
        BY <3>1, <3>2, <4>1, <4>2, <4>3 DEF TypeOK, Open, Handled, Answered, Silent
      <4>5. Exchanged(c)'
        BY <2>2, <3>1, <3>2, <4>1, <4>4 DEF Exchanged
      <4> QED
        BY <1>2, <1>12, <2>2, <3>2, <4>5 DEF Quiet
    <3> QED
      BY <1>12, <2>3, <3>3, <3>4, <3>5, <3>6 DEF HmiMbClient, Serve, HandleRead, HandleWrite
  <2> QED
    BY <1>12, <2>1, <2>2 DEF Living, Exchanged, Quiet
<1>13. ASSUME NEW v \in Values, PlcChanges(v) PROVE Alive'
  BY <1>1, <1>13 DEF PlcChanges
<1>14. CASE UNCHANGED vars
  BY <1>1, <1>14 DEF vars
<1>15. ASSUME (\E c \in Callers : Caller(c)) \/ HmiMbClient
       PROVE  /\ overlapped => overlapped'
              /\ unreachable => unreachable'
              /\ outOfRange' = outOfRange
  <2>1. overlapped' = overlapped
    BY <1>15 DEF Caller, SetOld, SetOptimistic, Exchange, Connect, Send, Recv,
                 Receive, ReceiveEof, Close, GetResult, SetResult, Callbacks, Raised,
                 HmiMbClient, Serve, Accept, ServerRecv, ServerEof, HandleRead,
                 HandleWrite, HandleRaises, Answer, Die
  <2>2. unreachable' = unreachable \/ unreachable' = TRUE
    BY <1>15 DEF Caller, SetOld, SetOptimistic, Exchange, Connect, Send, Recv,
                 Receive, ReceiveEof, Close, GetResult, SetResult, Callbacks, Raised,
                 HmiMbClient, Serve, Accept, ServerRecv, ServerEof, HandleRead,
                 HandleWrite, HandleRaises, Answer, Die
  <2>3. overlapped => overlapped'
    BY <2>1
  <2>4. unreachable => unreachable'
    BY <2>2
  <2>5. outOfRange' = outOfRange
    BY <1>15 DEF Caller, SetOld, SetOptimistic, Exchange, GetResult, SetResult,
                 Callbacks, Raised, HmiMbClient, HandleRead, HandleWrite, HandleRaises
  <2> QED
    BY <2>3, <2>4, <2>5, Zenon
<1> QED
  <2>1. ASSUME NEW c \in Callers, GetCall(c) \/ \E v \in Settable : SetCall(c, v)
        PROVE  Alive'
    BY <1>3, <2>1 DEF GetCall, SetCall
  <2>2. ASSUME NEW c \in Callers, Living, Caller(c) PROVE Living'
    BY <1>4, <1>5, <1>6, <1>7, <1>8, <1>9, <1>10, <1>11, <2>2 DEF Caller, Exchange
  <2>3. ASSUME NEW c \in Callers, Caller(c) PROVE Alive'
    BY <1>15, <2>2, <2>3, Zenon DEF Alive
  <2>4. ASSUME HmiMbClient PROVE Alive'
    BY <1>12, <1>15, <2>4, Zenon DEF Alive
  <2> QED
    BY <1>13, <1>14, <2>1, <2>3, <2>4 DEF Next

LEMMA InitIInv == Init => IInv
<1> SUFFICES ASSUME Init PROVE IInv
  OBVIOUS
<1> USE DEF Init, RpcInit
<1>1. MaxCalls \in Nat /\ 0 \in Values
  BY RpcAssumption, HmiAssumption
<1>2. TypeOK
  BY <1>1, EmptySeq DEF TypeOK, Places, Settable
<1>3. Placed
  <2>1. ToConnect = {}
    BY DEF ToConnect
  <2> QED
    BY <2>1, FS_EmptySet DEF Placed
<1>4. Alone
  BY DEF Alone
<1>5. Acknowledged
  BY DEF Acknowledged, Agreed, Shown
<1>6. Alive
  BY DEF Alive, Living, Between, Silent
<1>7. Ranged
  <2>1. NoMessage \notin Unwritable
    BY HmiAssumption, RpcAssumption
  <2>2. Len(<<>>) = 0
    OBVIOUS
  <2> QED
    BY <2>1, <2>2 DEF Ranged
<1> QED
  BY <1>2, <1>3, <1>4, <1>5, <1>6, <1>7 DEF IInv

---------------------------------------------------------------------------
(* The HMI *)

(* The inductive invariant holds in every state the HMI, its process and    *)
(* the register can reach.                                                  *)
THEOREM HmiInductive == Spec => []IInv
<1>1. IInv /\ [Next]_vars => IInv'
  BY StepTypeOK, StepPlaced, StepAlone, StepAcknowledged, StepRanged, StepAlive DEF IInv
<1> QED
  BY <1>1, InitIInv, PTL DEF Spec

(* The variables of the HMI, of the connections and of the process always   *)
(* have values of their types: a message is only ever read from a           *)
(* connection there is, and no more connections are made than calls.        *)
THEOREM HmiTypeCorrect == Spec => [](TypeOK /\ Placed)
<1>1. IInv => TypeOK /\ Placed
  BY DEF IInv
<1> QED
  BY <1>1, HmiInductive, PTL

(* Between calls get_var_value and set_var_value leave on the screen, and   *)
(* in the callbacks, what was last read or written with success, once a     *)
(* call on its own has succeeded since the last overlap or exception.       *)
THEOREM ShowsAcknowledgedHolds == Spec => []ShowsAcknowledged
<1>1. IInv => ShowsAcknowledged
  BY DEF IInv, Acknowledged, Agreed, ShowsAcknowledged
<1> QED
  BY <1>1, HmiInductive, PTL

(* HmiMbClient only dies when the PLC cannot be reached, after a set to a   *)
(* value that is no register's, or when two calls have overlapped: a call   *)
(* on its own never leaves it a connection without a message or an answer   *)
(* nobody takes.                                                            *)
THEOREM DeathExplainedHolds == Spec => []DeathExplained
<1>1. IInv => DeathExplained
  <2> SUFFICES ASSUME IInv, srv = "dead", Living PROVE FALSE
    BY DEF IInv, Alive, DeathExplained
  <2>1. ~Quiet
    BY DEF Living, Between
  <2>2. PICK c \in Callers : pc[c] # "idle"
    BY <2>1 DEF Quiet
  <2> QED
    BY <2>2 DEF Living, Exchanged, Between, Waiting, Accepted, Handled, Answered
<1> QED
  BY <1>1, HmiInductive, PTL

---------------------------------------------------------------------------
(* The rule *)

(* A step of the composition is a step of the HMI, its process or the       *)
(* register, or leaves them alone.                                          *)
LEMMA ImplementsStep == [SecurityNext]_secVars => [Next]_vars
<1> SUFFICES ASSUME [SecurityNext]_secVars PROVE [Next]_vars
  OBVIOUS
<1>1. ASSUME NEW c \in Callers, CallStep(c) PROVE Next
  BY <1>1 DEF CallStep, Linked, Unlinked, Next, Caller
<1>2. CASE ServerStep
  BY <1>2 DEF ServerStep, Next
<1>3. CASE Environment
  BY <1>3 DEF Environment, Next
<1>4. CASE TakeNote
  BY <1>4 DEF TakeNote, Compare
<1>5. ASSUME NEW i, Ask(i) \/ Check(i) PROVE UNCHANGED vars
  BY <1>5 DEF Ask, Check, Compare
<1>6. CASE UNCHANGED secVars
  BY <1>6 DEF secVars
<1> QED
  BY <1>1, <1>2, <1>3, <1>4, <1>5, <1>6 DEF SecurityNext

(* The entry that is removed is the only one that goes. *)
LEMMA RemoveAtKeeps ==
  ASSUME NEW S, NEW s \in Seq(S), NEW n \in 1..Len(s)
  PROVE  /\ RemoveAt(s, n) \in Seq(S)
         /\ \A j \in 1..Len(s) \ {n} :
              \E i \in 1..Len(RemoveAt(s, n)) : RemoveAt(s, n)[i] = s[j]
<1> DEFINE before == SubSeq(s, 1, n - 1)
           behind == SubSeq(s, n + 1, Len(s))
<1>1. Len(s) \in Nat /\ n \in Nat /\ \A i \in 1..Len(s) : s[i] \in S
  BY ElementOfSeq, LenProperties
<1>2. /\ before \in Seq(S) /\ Len(before) = n - 1
      /\ \A i \in 1..n - 1 : before[i] = s[i]
  <2>1. \A i \in 1..n - 1 : s[i] \in S
    BY <1>1
  <2>2. /\ before \in Seq(S)
        /\ Len(before) = IF 1 <= n - 1 THEN n - 1 - 1 + 1 ELSE 0
        /\ \A i \in 1 .. n - 1 - 1 + 1 : before[i] = s[1 + i - 1]
    BY <1>1, <2>1, SubSeqProperties
  <2> QED
    BY <1>1, <2>2
<1>3. /\ behind \in Seq(S) /\ Len(behind) = Len(s) - n
      /\ \A i \in 1..Len(s) - n : behind[i] = s[n + i]
  <2>1. \A i \in n + 1 .. Len(s) : s[i] \in S
    BY <1>1
  <2>2. /\ behind \in Seq(S)
        /\ Len(behind) = IF n + 1 <= Len(s) THEN Len(s) - (n + 1) + 1 ELSE 0
        /\ \A i \in 1 .. Len(s) - (n + 1) + 1 : behind[i] = s[n + 1 + i - 1]
    BY <1>1, <2>1, SubSeqProperties
  <2> QED
    BY <1>1, <2>2
<1>4. RemoveAt(s, n) = before \o behind
  BY DEF RemoveAt
<1> HIDE DEF before, behind
<1>5. /\ RemoveAt(s, n) \in Seq(S)
      /\ Len(RemoveAt(s, n)) = Len(s) - 1
      /\ \A i \in 1..n - 1 : RemoveAt(s, n)[i] = s[i]
      /\ \A i \in 1..Len(s) - n : RemoveAt(s, n)[n - 1 + i] = s[n + i]
  BY <1>1, <1>2, <1>3, <1>4, ConcatProperties
<1>6. ASSUME NEW j \in 1..Len(s) \ {n}
      PROVE  \E i \in 1..Len(RemoveAt(s, n)) : RemoveAt(s, n)[i] = s[j]
  <2>1. CASE j < n
    BY <1>1, <1>5, <2>1
  <2>2. CASE n < j
    <3>1. /\ j - n \in 1..Len(s) - n /\ n + (j - n) = j
          /\ n - 1 + (j - n) \in 1..Len(s) - 1
      BY <1>1, <2>2
    <3> QED
      BY <1>5, <3>1
  <2> QED
    BY <1>1, <2>1, <2>2
<1> QED
  BY <1>5, <1>6

(* Notes and answers are values of the register. *)
LEMMA StepRuleTypes ==
  ASSUME TypeOK, TypeOK', RuleTypes, [SecurityNext]_secVars
  PROVE  RuleTypes'
<1>1. ASSUME Noted PROVE notes' \in Seq(Values)
  <2>1. register' \in Values
    BY DEF TypeOK
  <2>2. Append(notes, register') \in Seq(Values)
    BY <2>1, AppendProperties DEF RuleTypes
  <2> QED
    BY <1>1, <2>2 DEF Noted, RuleTypes
<1>2. ASSUME NEW c \in Callers, CallStep(c) PROVE RuleTypes'
  <2>1. Append(checks, Unread) \in Seq(Values \union {Unread})
    BY AppendProperties DEF RuleTypes
  <2>2. Noted /\ checks' \in {checks, Append(checks, Unread)}
    BY <1>2 DEF CallStep, Linked, Unlinked
  <2> QED
    BY <1>1, <2>1, <2>2 DEF RuleTypes
<1>3. CASE ServerStep \/ Environment
  BY <1>1, <1>3 DEF ServerStep, Environment, RuleTypes
<1>4. CASE TakeNote
  BY <1>4, HeadTailProperties DEF TakeNote, RuleTypes
<1>5. ASSUME NEW i \in DOMAIN checks, Ask(i) \/ Check(i) PROVE RuleTypes'
  <2>1. i \in 1..Len(checks)
    BY LenProperties DEF RuleTypes
  <2>2. register \in Values \union {Unread}
    BY DEF TypeOK
  <2>3. /\ [checks EXCEPT ![i] = register] \in Seq(Values \union {Unread})
        /\ RemoveAt(checks, i) \in Seq(Values \union {Unread})
    BY <2>1, <2>2, ExceptSeq, RemoveAtKeeps DEF RuleTypes
  <2> QED
    BY <1>5, <2>3 DEF Ask, Check, RuleTypes
<1>6. CASE UNCHANGED secVars
  BY <1>6 DEF secVars, ruleVars, RuleTypes
<1> QED
  BY <1>2, <1>3, <1>4, <1>5, <1>6 DEF SecurityNext

(* A difference that a step makes or keeps has somebody to notice it.       *)
LEMMA StepNoticed ==
  ASSUME TypeOK, TypeOK', RuleTypes, Noticed, [SecurityNext]_secVars
  PROVE  Noticed'
<1> USE DEF callers, twin, wires, server, overlap, rpcVars, hmiVars, faults
<1> DEFINE Called == \E c \in Callers : Calling(c)
<1>1. Noted => \/ /\ register' = register /\ notes' = notes
                  /\ value' = value => (reported => reported')
               \/ Messaged'
  <2> SUFFICES ASSUME Noted PROVE \/ /\ register' = register /\ notes' = notes
                                     /\ value' = value => (reported => reported')
                                  \/ Messaged'
    OBVIOUS
  <2>1. CASE register' = register
    <3>1. value' = value => (reported => reported')
      BY <2>1, Zenon DEF Noted
    <3> QED
      BY <2>1, <3>1 DEF Noted
  <2>2. CASE register' # register
    <3>1. register' \in Values
      BY DEF TypeOK
    <3>2. /\ Append(notes, register') # <<>>
          /\ Append(notes, register')[Len(Append(notes, register'))] = register'
      BY <3>1, AppendProperties DEF RuleTypes
    <3> QED
      BY <2>2, <3>2 DEF Noted, Messaged
  <2> QED
    BY <2>1, <2>2
<1>2. Messaged' => Noticed'
  BY DEF Noticed
<1>3. Called' => Noticed'
  BY DEF Noticed
<1>4. Compared' => Noticed'
  BY DEF Noticed
<1>5. ASSUME Noted, value' = value, checks' = checks, dropped' = dropped, Called => Called'
      PROVE  Noticed'
  <2>1. CASE Messaged'
    BY <1>2, <2>1
  <2>2. CASE /\ register' = register /\ notes' = notes
             /\ reported => reported'
    <3>1. /\ Messaged => Messaged'
          /\ Compared => Compared'
          /\ value' # register' => value # register
      BY <1>5, <2>2 DEF Messaged, Compared
    <3>2. dropped => dropped'
      BY <1>5
    <3> HIDE DEF Called
    <3>3. value # register => reported \/ dropped \/ Called \/ Messaged \/ Compared
      BY DEF Noticed, Called
    <3>4. value' # register' =>
            reported' \/ dropped' \/ Called' \/ Messaged' \/ Compared'
      BY <1>5, <2>2, <3>1, <3>2, <3>3, Zenon
    <3> QED
      BY <3>4 DEF Noticed, Called
  <2> QED
    BY <1>1, <1>5, <2>1, <2>2
<1>6. ASSUME NEW c \in Callers, Linked(c) PROVE Noticed'
  <2>1. /\ Len(Append(checks, Unread)) \in 1..Len(Append(checks, Unread))
        /\ Append(checks, Unread)[Len(Append(checks, Unread))] = Unread
    <3>1. /\ Len(Append(checks, Unread)) = Len(checks) + 1 /\ Len(checks) \in Nat
          /\ Append(checks, Unread)[Len(checks) + 1] = Unread
      BY AppendProperties, LenProperties DEF RuleTypes
    <3> QED
      BY <3>1
  <2>2. Compared'
    BY <1>6, <2>1 DEF Linked, Compared
  <2> QED
    BY <1>4, <2>2
<1>7. ASSUME NEW c \in Callers, Unlinked(c) PROVE Noticed'
  BY <1>7 DEF Unlinked, Noticed
<1>8. ASSUME NEW c \in Callers, Noted, UNCHANGED <<checks, changes, dropped>>,
             \/ SetOld(c) \/ SetOptimistic(c) \/ GetResult(c)
             \/ Exchange(c) /\ UNCHANGED hmiVars
             \/ SetResult(c) /\ reply[c] = Success
             \/ Raised(c) /\ req[c] = Get
      PROVE  Noticed'
  <2>1. ASSUME NEW d \in Callers, d # c, Calling(d) PROVE Called'
    <3>1. pc'[d] = pc[d] /\ req' = req
      BY <1>8, <2>1 DEF SetOld, SetOptimistic, GetResult, SetResult, Exchange,
         Connect, Send, Recv, Receive, ReceiveEof, Close, Raised, Goto, TypeOK
    <3> QED
      BY <2>1, <3>1 DEF Calling
  <2>2. ASSUME Calling(c) => Calling(c)', value' = value PROVE Noticed'
    <3>1. Called => Called'
      BY <2>1, <2>2
    <3> QED
      BY <1>5, <1>8, <2>2, <3>1
  <2>3. ASSUME Calling(c)' PROVE Noticed'
    BY <1>3, <2>3
  <2>4. CASE SetOld(c)
    BY <2>2, <2>4 DEF SetOld, Goto, TypeOK, Calling, Pending
  <2>5. CASE SetOptimistic(c) /\ req[c] # Get
    BY <2>3, <2>5 DEF SetOptimistic, Goto, TypeOK, Calling, Pending
  <2>6. CASE SetOptimistic(c) /\ req[c] = Get
    <3>1. req[c] = value' /\ value' \in Settable
      BY <2>6 DEF SetOptimistic, TypeOK
    <3> QED
      BY <2>6, <3>1, HmiAssumption DEF Settable
  <2>7. CASE GetResult(c) /\ reply[c] \in Values
    BY <2>3, <2>7 DEF GetResult, Goto, TypeOK, Calling
  <2>8. CASE GetResult(c) /\ reply[c] \notin Values
    BY <2>2, <2>8 DEF GetResult, Goto, TypeOK, Calling
  <2>9. CASE Exchange(c) /\ UNCHANGED hmiVars
    <3>1. /\ pc[c] \in Pending /\ pc'[c] \in Pending \union {"raised"} /\ req' = req
          /\ pc[c] # "callbacks"
      BY <2>9 DEF Exchange, Connect, Send, Recv, Receive, ReceiveEof, Close, Goto,
         TypeOK, Pending
    <3> QED
      BY <2>2, <2>9, <3>1 DEF Calling
  <2>10. CASE SetResult(c) /\ reply[c] = Success
    BY <2>3, <2>10 DEF SetResult, Goto, TypeOK, Calling
  <2>11. CASE Raised(c) /\ req[c] = Get
    BY <2>2, <2>11 DEF Raised, Calling
  <2> QED
    BY <1>8, <2>4, <2>5, <2>6, <2>7, <2>8, <2>9, <2>10, <2>11
<1>9. CASE ServerStep
  <2>1. UNCHANGED <<pc, req, value, checks, dropped>>
    BY <1>9 DEF ServerStep, HmiMbClient, Serve, Accept, ServerRecv, ServerEof,
       HandleRead, HandleWrite, HandleRaises, Answer, Die
  <2>2. Called => Called'
    BY <2>1 DEF Calling
  <2> QED
    BY <1>5, <1>9, <2>1, <2>2 DEF ServerStep
<1>10. CASE Environment
  <2>1. ASSUME NEW c \in Callers, GetCall(c) \/ \E v \in Settable : SetCall(c, v)
        PROVE  Noticed'
    <3>1. /\ pc[c] = "idle" /\ value' = value
          /\ \A d \in Callers : d # c => pc'[d] = pc[d] /\ req'[d] = req[d]
      BY <2>1 DEF GetCall, SetCall, Begin, Call, Goto, TypeOK
    <3>2. ASSUME NEW d \in Callers, Calling(d) PROVE Called'
      <4>1. d # c
        BY <3>1, <3>2 DEF Calling, Pending
      <4> QED
        BY <3>1, <3>2, <4>1 DEF Calling
    <3> QED
      BY <1>5, <1>10, <3>1, <3>2 DEF Environment
  <2>2. ASSUME NEW v \in Values, PlcChanges(v) PROVE Noticed'
    <3>1. UNCHANGED <<pc, req, value>>
      BY <2>2 DEF PlcChanges
    <3>2. Called => Called'
      BY <3>1 DEF Calling
    <3> QED
      BY <1>5, <1>10, <3>1, <3>2 DEF Environment
  <2> QED
    BY <1>10, <2>1, <2>2 DEF Environment
<1>11. ASSUME NEW v, Compare(v)
       PROVE  /\ UNCHANGED <<pc, req, value, register>> /\ (Called => Called')
              /\ reported => reported'
              /\ v = register => (value # register => reported')
              /\ v # register => (dropped => dropped')
  <2>1. UNCHANGED <<pc, req, value, register>>
    BY <1>11 DEF Compare, vars
  <2>2. Called => Called'
    BY <2>1 DEF Calling
  <2>3. /\ reported => reported'
        /\ v = register => (value # register => reported')
        /\ v # register => (dropped => dropped')
    BY <1>11, Zenon DEF Compare
  <2> QED
    BY <2>1, <2>2, <2>3
<1>12. CASE TakeNote
  <2>1. Messaged /\ Head(notes) # register => Messaged'
    <3> SUFFICES ASSUME Messaged, Head(notes) # register PROVE Messaged'
      OBVIOUS
    <3>1. /\ Tail(notes) \in Seq(Values) /\ Len(Tail(notes)) = Len(notes) - 1
          /\ \A i \in 1..Len(Tail(notes)) : Tail(notes)[i] = notes[i + 1]
      BY HeadTailProperties DEF Messaged, RuleTypes
    <3>2. Len(notes) \in Nat \ {0} /\ Len(notes) # 1
      <4>1. Len(notes) \in Nat \ {0} /\ Head(notes) = notes[1]
        BY EmptySeq DEF Messaged, RuleTypes
      <4> QED
        BY <4>1 DEF Messaged
    <3>3. Tail(notes) # <<>> /\ Tail(notes)[Len(Tail(notes))] = register
      <4>1. Len(notes) - 1 \in 1..Len(notes) - 1 /\ Len(notes) - 1 + 1 = Len(notes)
        BY <3>2
      <4>2. Tail(notes)[Len(Tail(notes))] = notes[Len(notes)]
        BY <3>1, <4>1
      <4>3. Tail(notes) # <<>>
        <5>1. Len(Tail(notes)) # 0 /\ Len(<<>>) = 0
          BY <3>1, <3>2
        <5> QED
          BY <5>1
      <4> QED
        BY <4>2, <4>3 DEF Messaged
    <3> QED
      BY <1>11, <1>12, <3>3 DEF TakeNote, Messaged
  <2>2. Compared => Compared'
    BY <1>11, <1>12 DEF TakeNote, Compared
  <2>3. /\ UNCHANGED <<value, register>> /\ (Called => Called')
        /\ reported => reported'
        /\ Head(notes) = register => (value # register => reported')
        /\ Head(notes) # register => (dropped => dropped')
    BY <1>11, <1>12 DEF TakeNote
  <2> HIDE DEF Called
  <2>4. value # register => reported \/ dropped \/ Called \/ Messaged \/ Compared
    BY DEF Noticed, Called
  <2>5. value' # register' => reported' \/ dropped' \/ Called' \/ Messaged' \/ Compared'
    BY <2>1, <2>2, <2>3, <2>4, Zenon
  <2> QED
    BY <2>5 DEF Noticed, Called
<1>13. ASSUME NEW i \in DOMAIN checks, Ask(i) PROVE Noticed'
  <2>1. i \in 1..Len(checks) /\ register \in Values \union {Unread}
    BY LenProperties DEF RuleTypes, TypeOK
  <2>2. /\ Len([checks EXCEPT ![i] = register]) = Len(checks)
        /\ [checks EXCEPT ![i] = register][i] = register
    BY <2>1, ExceptSeq DEF RuleTypes
  <2>3. Compared'
    BY <1>13, <2>1, <2>2 DEF Ask, Compared, vars
  <2> QED
    BY <1>4, <2>3
<1>14. ASSUME NEW i \in DOMAIN checks, Check(i) PROVE Noticed'
  <2>1. i \in 1..Len(checks) /\ checks[i] # Unread
    BY <1>14, LenProperties DEF RuleTypes, Check
  <2>2. checks[i] # register /\ Compared => Compared'
    <3> SUFFICES ASSUME checks[i] # register, Compared PROVE Compared'
      OBVIOUS
    <3>1. PICK j \in 1..Len(checks) : checks[j] \in {Unread, register}
      BY DEF Compared
    <3>2. \E k \in 1..Len(RemoveAt(checks, i)) : RemoveAt(checks, i)[k] = checks[j]
      BY <2>1, <3>1, RemoveAtKeeps DEF RuleTypes
    <3> QED
      BY <1>11, <1>14, <3>1, <3>2 DEF Check, Compared
  <2>3. Messaged => Messaged'
    BY <1>11, <1>14 DEF Check, Messaged
  <2>4. /\ UNCHANGED <<value, register>> /\ (Called => Called')
        /\ reported => reported'
        /\ checks[i] = register => (value # register => reported')
        /\ checks[i] # register => (dropped => dropped')
    BY <1>11, <1>14 DEF Check
  <2> HIDE DEF Called
  <2>5. value # register => reported \/ dropped \/ Called \/ Messaged \/ Compared
    BY DEF Noticed, Called
  <2>6. value' # register' => reported' \/ dropped' \/ Called' \/ Messaged' \/ Compared'
    BY <2>2, <2>3, <2>4, <2>5, Zenon
  <2> QED
    BY <2>6 DEF Noticed, Called
<1>15. CASE UNCHANGED secVars
  BY <1>15 DEF secVars, vars, ruleVars, Noticed, Messaged, Compared, Calling
<1> QED
  <2>1. ASSUME NEW c \in Callers, CallStep(c) PROVE Noticed'
    BY <1>6, <1>7, <1>8, <2>1 DEF CallStep
  <2> QED
    BY <1>9, <1>10, <1>12, <1>13, <1>14, <1>15, <2>1 DEF SecurityNext

(* The composition keeps its inductive invariant: types, and somebody to    *)
(* notice each difference.                                                  *)
THEOREM SecurityInductive == SecuritySpec => []SecIInv
<1>1. SecurityInit => SecIInv
  BY InitIInv, EmptySeq DEF SecurityInit, IInv, SecIInv, RuleTypes, Noticed
<1>2. SecIInv /\ [SecurityNext]_secVars => SecIInv'
  <2> SUFFICES ASSUME SecIInv, [SecurityNext]_secVars PROVE SecIInv'
    OBVIOUS
  <2>1. [Next]_vars
    BY ImplementsStep
  <2>2. TypeOK' /\ Placed'
    BY <2>1, StepTypeOK, StepPlaced DEF SecIInv
  <2> QED
    BY <2>2, StepRuleTypes, StepNoticed DEF SecIInv
<1> QED
  BY <1>1, <1>2, PTL DEF SecuritySpec

(* The composition is the HMI with a rule beside it: what is proved of the  *)
(* HMI holds under a rule.                                                  *)
THEOREM RuleOnlyWatches == SecuritySpec => Spec
<1>1. SecurityInit => Init
  BY DEF SecurityInit
<1> QED
  BY <1>1, ImplementsStep, PTL DEF SecuritySpec, Spec

(* check_var_link reports every difference that is left when all has come   *)
(* to rest, for any number of overlapping calls and of changes by the PLC,  *)
(* unless a set has failed since or nothing has changed since the start.    *)
THEOREM MismatchReportedHolds == SecuritySpec => []MismatchReported
<1>1. SecIInv => MismatchReported
  <2> SUFFICES ASSUME SecIInv, Quiet, notes = <<>>, checks = <<>>, value # register
               PROVE  reported \/ dropped
    BY DEF MismatchReported
  <2>1. ~Messaged
    BY DEF Messaged
  <2>2. ~Compared
    BY DEF Compared
  <2>3. \A c \in Callers : ~Calling(c)
    BY DEF Quiet, Calling, Pending
  <2> QED
    BY <2>1, <2>2, <2>3 DEF SecIInv, Noticed
<1> QED
  BY <1>1, SecurityInductive, PTL
============================================================================
