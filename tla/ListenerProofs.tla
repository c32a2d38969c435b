--------------------------- MODULE ListenerProofs ---------------------------
(* Proofs about Listener for any number of callers, recorders, variables    *)
(* and calls.                                                               *)
EXTENDS Listener, SequenceTheorems, TLAPS

Entries  == [client : Clients, kind : Kinds \union {"names", "monitor"}, open : BOOLEAN]
Watchers == [client : Clients, names : Nat, open : BOOLEAN]

(* Where the listener has a request. *)
Busy == {"handle", "start", "stop_plc", "terminate", "join", "token"}

TypeOK ==
    /\ boot \in {"make", "vars", "lib", "flag", "start", "done", "failed", "exited"}
    /\ known \in Nat
    /\ running \in {"unset", "no", "yes"}
    /\ mb_blocks \in Nat /\ port \in Nat /\ made \in Nat /\ plcs \in Nat
    /\ plc_thread \in {"unset", "waiting", "ended"}
    /\ st \in [Starters -> {"none", "blocks", "bind", "lib"}]
    /\ mine \in [Starters -> Nat]
    /\ lst \in {"init", "accept", "dead", "closed"} \union Busy
    /\ cur \in Entries \union {NoRequest}
    /\ backlog \in Seq(Entries) /\ watch \in Seq(Watchers)
    /\ at \in [Clients -> {"off", "idle", "call", "connect", "names", "reconnect",
                           "recording", "ended"}]
    /\ stop \subseteq Recorders
    /\ faults \subseteq {"build", "library", "value", "stopped"}

(* What the listener is at belongs to the request it has read, and before   *)
(* and after its loop there is none.                                        *)
Requested ==
    /\ lst \in {"init", "dead", "closed"} => backlog = <<>>
    /\ lst \in Busy => cur \in Entries
    /\ lst = "start" => cur.kind = "start"
    /\ lst = "token" => cur.kind = "set"
    /\ lst = "stop_plc" => cur.kind \in {"stop", "terminate"}
    /\ lst \in {"terminate", "join"} => cur.kind = "terminate"
    /\ st["listener"] # "none" => lst = "start"
    /\ st["main"] # "none" => boot = "start"
    /\ boot \in {"lib", "flag", "start", "done"} => varsSet

(* As long as nobody asks for more than to monitor too early, main starts   *)
(* the PLC alone, and finds the port free.                                  *)
InOrder ==
    /\ \A i \in 1..Len(backlog) : backlog[i].kind # "monitor" => boot = "done"
    /\ lst \in Busy /\ cur.kind # "monitor" => boot = "done"
    /\ boot \in {"make", "vars", "lib", "flag", "failed"} =>
         running = "unset" /\ port = 0
    /\ boot = "start" => running = "no" /\ (st["main"] # "lib" => port = 0)
    /\ boot = "start" /\ st["main"] \in {"bind", "lib"} => mb_blocks # 0
    /\ boot = "start" /\ st["main"] = "lib" => plc_thread # "unset"
    /\ boot = "done" => running # "unset" /\ plc_thread # "unset" /\ mb_blocks # 0

(* As long as the library starts, too, the port is free whenever the PLC    *)
(* does not run and nobody has just bound it, and served by the last blocks *)
(* when it is not.                                                          *)
LastServed ==
    /\ \A s \in Starters : st[s] # "none" => running = "no"
    /\ \A s \in Starters : st[s] \in {"blocks", "bind"} => port = 0
    /\ \A s \in Starters : st[s] = "bind" => mine[s] = mb_blocks
    /\ running = "no" /\ (\A s \in Starters : st[s] # "lib") => port = 0
    /\ lst = "stop_plc" => port = 0
    /\ port # 0 => port = mb_blocks

Orderly == ~early => InOrder
Served  == ~early /\ "library" \notin faults => LastServed

(* As long as nothing fails outside, every client waits for its answer.     *)
NoneLeft ==
    /\ \A i \in 1..Len(backlog) : backlog[i].open /\ backlog[i].kind # "badset"
    /\ lst \in Busy => cur.open /\ cur.kind # "badset"
    /\ \A i \in 1..Len(watch) : watch[i].open
    /\ stop = {}

Faultless == faults = {} => NoneLeft

(* The inductive invariant. *)
IInv == TypeOK /\ Requested /\ Orderly /\ Served /\ Faultless /\ ListenerSurvives

---------------------------------------------------------------------------
(* How a request ends *)

Places == {"off", "idle", "call", "connect", "names", "reconnect", "recording", "ended"}

LEMMA RaiseEnds ==
  ASSUME TypeOK, Raise
  PROVE  /\ lst' = "dead" /\ cur' = NoRequest /\ backlog' = <<>> /\ watch' = watch
         /\ at' \in [Clients -> Places]
<1> DEFINE lost == {backlog[i].client : i \in DOMAIN backlog} \union {cur.client}
<1>1. at' = [c \in Clients |-> IF c \notin lost THEN at[c]
                               ELSE IF c \in Callers THEN "idle" ELSE "ended"]
  BY DEF Raise
<1> HIDE DEF lost
<1>2. at' \in [Clients -> Places]
  BY <1>1 DEF TypeOK, Places
<1> QED
  BY <1>2 DEF Raise

LEMMA AnswerEnds ==
  ASSUME TypeOK, Answer
  PROVE  /\ cur' = NoRequest /\ watch' = watch /\ at' \in [Clients -> Places]
         /\ \/ cur.open /\ lst' = "accept" /\ backlog' = backlog
            \/ ~cur.open /\ lst' = "dead" /\ backlog' = <<>>
<1>1. CASE cur.open
  <2>1. at' \in [Clients -> Places]
    BY <1>1 DEF Answer, TypeOK, Places
  <2> QED
    BY <1>1, <2>1 DEF Answer, Finish
<1>2. CASE ~cur.open
  <2>1. Raise
    BY <1>2 DEF Answer
  <2> QED
    BY <1>2, <2>1, RaiseEnds
<1> QED
  BY <1>1, <1>2

(* What a step that may end a request leaves of the listener. *)
Ended(next) ==
    /\ watch' = watch /\ at' \in [Clients -> Places]
    /\ \/ lst' = next /\ cur' = cur /\ backlog' = backlog /\ at' = at
       \/ lst' = "accept" /\ cur' = NoRequest /\ backlog' = backlog /\ cur.open
       \/ lst' = "dead" /\ cur' = NoRequest /\ backlog' = <<>>

LEMMA StartEnds ==
  ASSUME TypeOK, Start
  PROVE  /\ Ended("start") /\ st' \in {st, [st EXCEPT !["listener"] = "blocks"]}
         /\ lst' = "dead" => running = "unset" \/ ~cur.open
         /\ lst' = "start" => running = "no" /\ st' = [st EXCEPT !["listener"] = "blocks"]
         /\ lst' # "start" => st' = st
<1>1. running \in {"unset", "yes", "no"} /\ at \in [Clients -> Places]
  BY DEF TypeOK, Places
<1>2. CASE running = "unset"
  <2>1. Raise /\ st' = st
    BY <1>2 DEF Start
  <2> QED
    BY <1>2, <2>1, RaiseEnds DEF Ended
<1>3. CASE running = "yes"
  <2>1. Answer /\ st' = st
    BY <1>3 DEF Start
  <2> QED
    BY <1>3, <2>1, AnswerEnds DEF Ended
<1>4. CASE running = "no"
  <2>1. Enter("listener") /\ lst' = "start" /\ UNCHANGED <<cur, backlog, watch, at>>
    BY <1>4 DEF Start
  <2> QED
    BY <1>1, <1>4, <2>1 DEF Ended, Enter
<1> QED
  BY <1>1, <1>2, <1>3, <1>4

LEMMA StopEndedEnds ==
  ASSUME TypeOK, StopEnded
  PROVE  /\ Ended("join")
         /\ lst' = "dead" => ~cur.open
         /\ lst' = "join" => cur.kind # "stop"
<1>1. at \in [Clients -> Places]
  BY DEF TypeOK, Places
<1>2. CASE cur.kind = "stop"
  <2>1. Answer
    BY <1>2 DEF StopEnded
  <2> QED
    BY <1>2, <2>1, AnswerEnds DEF Ended
<1>3. CASE cur.kind # "stop"
  BY <1>1, <1>3 DEF StopEnded, Ended
<1> QED
  BY <1>2, <1>3

LEMMA StopEnds ==
  ASSUME TypeOK, Stop
  PROVE  /\ Ended("join") \/ Ended("stop_plc")
         /\ port' \in {0, port}
         /\ lst' = "dead" => running = "unset" \/ ~cur.open
         /\ lst' = "join" => cur.kind # "stop"
         /\ lst' = "stop_plc" => running = "yes" /\ port' = 0
         /\ lst' # "stop_plc" => port' = port
<1>1. running \in {"unset", "yes", "no"} /\ at \in [Clients -> Places]
  BY DEF TypeOK, Places
<1>2. CASE running = "unset"
  <2>1. Raise /\ port' = port
    BY <1>2 DEF Stop
  <2> QED
    BY <1>2, <2>1, RaiseEnds DEF Ended
<1>3. CASE running = "no"
  <2>1. StopEnded /\ port' = port
    BY <1>3 DEF Stop
  <2> QED
    BY <1>3, <2>1, StopEndedEnds DEF Ended
<1>4. CASE running = "yes"
  <2>1. port' = 0 /\ lst' = "stop_plc" /\ UNCHANGED <<cur, backlog, watch, at>>
    BY <1>4 DEF Stop
  <2> QED
    BY <1>1, <1>4, <2>1 DEF Ended
<1> QED
  BY <1>1, <1>2, <1>3, <1>4

LEMMA TerminateEnds ==
  ASSUME TypeOK, Terminate
  PROVE  /\ watch' = watch /\ at' \in [Clients -> Places]
         /\ \/ lst' = "terminate" /\ cur' = cur /\ backlog' = backlog
            \/ /\ lst' = "dead" /\ cur' = NoRequest /\ backlog' = <<>>
               /\ \E i \in DOMAIN watch : ~watch[i].open
<1> DEFINE closed == {i \in DOMAIN watch : ~watch[i].open}
           told   == {watch[i].client : i \in {i \in DOMAIN watch :
                                               \A j \in closed : i < j}}
           lost   == {backlog[i].client : i \in DOMAIN backlog}
<1>1. watch' = watch
  BY DEF Terminate
<1>2. at \in [Clients -> Places]
  BY DEF TypeOK, Places
<1>3. CASE closed = {}
  <2>1. /\ at' = [c \in Clients |-> IF c \in told THEN "ended" ELSE at[c]]
        /\ lst' = "terminate" /\ UNCHANGED <<cur, backlog>>
    BY <1>3 DEF Terminate
  <2> HIDE DEF told
  <2> QED
    BY <1>1, <1>2, <2>1 DEF Places
<1>4. CASE closed # {}
  <2>1. /\ at' = [c \in Clients |-> IF c \in (told \union lost) \ Callers THEN "ended"
                                    ELSE IF c \in lost THEN "idle" ELSE at[c]]
        /\ lst' = "dead" /\ cur' = NoRequest /\ backlog' = <<>>
    BY <1>4 DEF Terminate
  <2> HIDE DEF told, lost
  <2>2. at' \in [Clients -> Places]
    BY <1>2, <2>1 DEF Places
  <2> QED
    BY <1>1, <1>4, <2>1, <2>2
<1> QED
  BY <1>3, <1>4

LEMMA JoinEnds ==
  ASSUME TypeOK, Join
  PROVE  /\ watch' = watch /\ at' \in [Clients -> Places]
         /\ lst' \in {"dead", "closed"} /\ cur' = NoRequest /\ backlog' = <<>>
         /\ lst' = "dead" => plc_thread = "unset"
<1> DEFINE lost == {backlog[i].client : i \in DOMAIN backlog}
<1>1. CASE plc_thread = "unset"
  <2>1. Raise
    BY <1>1 DEF Join
  <2> QED
    BY <1>1, <2>1, RaiseEnds
<1>2. CASE plc_thread # "unset"
  <2>1. /\ lst' = "closed" /\ cur' = NoRequest /\ backlog' = <<>> /\ watch' = watch
        /\ at' = [c \in Clients |-> IF c \notin lost THEN at[c]
                                    ELSE IF c \in Callers THEN "idle" ELSE "ended"]
    BY <1>2 DEF Join
  <2> HIDE DEF lost
  <2> QED
    BY <1>2, <2>1 DEF TypeOK, Places
<1> QED
  BY <1>1, <1>2

LEMMA LookEnds ==
  ASSUME TypeOK, Look
  PROVE  /\ Ended("token")
         /\ lst' = "dead" => ~varsSet \/ ~LibLoaded \/ cur.kind = "badset" \/ ~cur.open
         /\ lst' = "token" => cur.kind = "set"
<1>1. at \in [Clients -> Places]
  BY DEF TypeOK, Places
<1>2. CASE ~varsSet /\ Raise
  BY <1>2, RaiseEnds DEF Ended
<1>3. CASE Answer
  BY <1>3, AnswerEnds DEF Ended
<1>4. CASE Raise /\ (~LibLoaded \/ cur.kind = "badset")
  BY <1>4, RaiseEnds DEF Ended
<1>5. CASE /\ cur.kind \notin {"get", "badset"}
           /\ lst' = "token" /\ UNCHANGED <<cur, backlog, watch, cause, at>>
  BY <1>1, <1>5 DEF Ended, Look, Serving
<1> QED
  BY <1>2, <1>3, <1>4, <1>5 DEF Look

LEMMA TokenEnds ==
  ASSUME TypeOK, Token
  PROVE  Ended("accept") /\ (lst' = "dead" => mb_blocks = 0 \/ ~cur.open)
<1>1. CASE Answer
  BY <1>1, AnswerEnds DEF Ended
<1>2. CASE mb_blocks = 0 /\ Raise
  BY <1>2, RaiseEnds DEF Ended
<1> QED
  BY <1>1, <1>2 DEF Token

LEMMA NamesEnds ==
  ASSUME TypeOK, Names
  PROVE  Ended("accept") /\ (lst' = "dead" => ~varsSet \/ ~cur.open)
<1>1. CASE varsSet
  BY <1>1, AnswerEnds DEF Names, Ended
<1>2. CASE ~varsSet
  BY <1>2, RaiseEnds DEF Names, Ended
<1> QED
  BY <1>1, <1>2

LEMMA LibStartEnds ==
  ASSUME TypeOK, LibStart("listener")
  PROVE  Ended("accept") /\ lst' # "start" /\ (lst' = "dead" => ~cur.open) /\ boot' = boot
<1>1. Answer /\ boot' = boot
  BY DEF LibStart, Started
<1> QED
  BY <1>1, AnswerEnds DEF Ended

(* What is sent waits behind what was sent before. *)
LEMMA SendAppends ==
  ASSUME TypeOK, NEW c \in Clients, NEW kind \in Kinds \union {"names", "monitor"},
         Send(c, kind)
  PROVE  /\ backlog' \in Seq(Entries) /\ Len(backlog') = Len(backlog) + 1
         /\ \A i \in 1..Len(backlog) : backlog'[i] = backlog[i]
         /\ backlog'[Len(backlog) + 1] = [client |-> c, kind |-> kind, open |-> TRUE]
<1>1. [client |-> c, kind |-> kind, open |-> TRUE] \in Entries
  BY DEF Entries
<1>2. backlog' = Append(backlog, [client |-> c, kind |-> kind, open |-> TRUE])
  BY DEF Send
<1>3. backlog \in Seq(Entries)
  BY DEF TypeOK
<1> HIDE DEF Entries
<1> QED
  BY <1>1, <1>2, <1>3, AppendProperties

(* A recorder that leaves closes its connections. *)
LEMMA LeaveCloses ==
  ASSUME TypeOK, NEW r \in Recorders, LeaveLoop(r)
  PROVE  /\ backlog' \in Seq(Entries) /\ Len(backlog') = Len(backlog)
         /\ backlog = <<>> => backlog' = <<>>
         /\ \A i \in 1..Len(backlog) : backlog'[i].kind = backlog[i].kind
         /\ watch' \in Seq(Watchers)
         /\ cur' \in Entries \union {NoRequest} /\ cur'.kind = cur.kind
         /\ cur \in Entries => cur' \in Entries
<1> DEFINE Closed(e) == IF e.client = r THEN [e EXCEPT !.open = FALSE] ELSE e
<1>1. /\ backlog' = [i \in DOMAIN backlog |-> Closed(backlog[i])]
      /\ watch' = [i \in DOMAIN watch |-> Closed(watch[i])]
      /\ cur' = Closed(cur)
  BY DEF LeaveLoop
<1>2. \A e \in Entries : Closed(e) \in Entries /\ Closed(e).kind = e.kind
  BY DEF Entries
<1>3. \A e \in Watchers : Closed(e) \in Watchers
  BY DEF Watchers
<1>4. Closed(NoRequest) = NoRequest
  BY DEF NoRequest
<1>5. /\ Len(backlog) \in Nat /\ DOMAIN backlog = 1..Len(backlog)
      /\ \A i \in 1..Len(backlog) : backlog[i] \in Entries
  BY LenProperties, ElementOfSeq DEF TypeOK
<1>6. /\ Len(watch) \in Nat /\ DOMAIN watch = 1..Len(watch)
      /\ \A i \in 1..Len(watch) : watch[i] \in Watchers
  BY LenProperties, ElementOfSeq DEF TypeOK
<1> HIDE DEF Closed
<1>7. backlog' \in [1..Len(backlog) -> Entries] /\ watch' \in [1..Len(watch) -> Watchers]
  BY <1>1, <1>2, <1>3, <1>5, <1>6
<1>8. backlog' \in Seq(Entries) /\ watch' \in Seq(Watchers)
  BY <1>5, <1>6, <1>7, SeqDef
<1>9. Len(backlog') = Len(backlog)
  <2>1. DOMAIN backlog' = 1..Len(backlog)
    BY <1>7
  <2>2. DOMAIN backlog' = 1..Len(backlog') /\ Len(backlog') \in Nat
    BY <1>8, LenProperties
  <2> QED
    BY <1>5, <2>1, <2>2
<1>10. \A i \in 1..Len(backlog) : backlog'[i].kind = backlog[i].kind
  BY <1>1, <1>2, <1>5
<1>11. /\ cur' \in Entries \union {NoRequest} /\ cur'.kind = cur.kind
       /\ cur \in Entries => cur' \in Entries
  BY <1>1, <1>2, <1>4 DEF TypeOK
<1>12. backlog = <<>> => backlog' = <<>>
  BY <1>8, <1>9, EmptySeq
<1> QED
  BY <1>8, <1>9, <1>10, <1>11, <1>12

(* Taking the first request. *)
LEMMA AcceptTakes ==
  ASSUME TypeOK, Accept
  PROVE  /\ cur' \in Entries /\ 1 \in 1..Len(backlog) /\ cur' = backlog[1]
         /\ backlog' \in Seq(Entries) /\ lst' = "handle"
         /\ \A i \in 1..Len(backlog') :
              i + 1 \in 1..Len(backlog) /\ backlog'[i] = backlog[i + 1]
<1>1. backlog \in Seq(Entries) /\ backlog # <<>>
  BY DEF Accept, TypeOK
<1>2. Len(backlog) \in Nat \ {0}
  BY <1>1, EmptySeq
<1>3. /\ Head(backlog) \in Entries /\ Tail(backlog) \in Seq(Entries)
      /\ Len(Tail(backlog)) = Len(backlog) - 1
      /\ \A i \in 1..Len(Tail(backlog)) : Tail(backlog)[i] = backlog[i + 1]
  BY <1>1, HeadTailProperties
<1>4. Head(backlog) = backlog[1]
  BY <1>1
<1>5. cur' = Head(backlog) /\ backlog' = Tail(backlog) /\ lst' = "handle"
  BY DEF Accept
<1> HIDE DEF Entries
<1> QED
  BY <1>2, <1>3, <1>4, <1>5

(* Forgetting a client. *)
LEMMA RemoveAtType ==
  ASSUME NEW S, NEW s \in Seq(S), NEW n \in DOMAIN s
  PROVE  RemoveAt(s, n) \in Seq(S)
<1>1. /\ Len(s) \in Nat /\ n \in 1..Len(s) /\ n - 1 \in Int /\ n + 1 \in Int
      /\ \A i \in 1..Len(s) : s[i] \in S
  BY LenProperties, ElementOfSeq
<1>2. \A i \in 1..n - 1 : s[i] \in S
  BY <1>1
<1>3. \A i \in n + 1 .. Len(s) : s[i] \in S
  BY <1>1
<1>4. SubSeq(s, 1, n - 1) \in Seq(S) /\ SubSeq(s, n + 1, Len(s)) \in Seq(S)
  BY <1>1, <1>2, <1>3, SubSeqProperties
<1> QED
  BY <1>4, ConcatProperties DEF RemoveAt

(* Every step keeps the types. *)
LEMMA StepTypeOK ==
  ASSUME TypeOK, [Next]_vars
  PROVE  TypeOK'
<1> USE DEF main, plc, listener, clients, InitRaises
<1>1. "names" \in Kinds \union {"names", "monitor"} /\ Recorders \subseteq Clients
      /\ Callers \subseteq Clients
  BY DEF Clients
<1>2. TypeOK => at \in [Clients -> Places] /\ <<>> \in Seq(Entries)
  BY DEF TypeOK, Places
<1>3. CASE Make \/ SetVarsBegin \/ SetVarsNext \/ LoadLib \/ SetRunning
  <2>1. CASE Make
    BY <2>1 DEF Make, TypeOK
  <2>2. CASE SetVarsBegin
    BY <2>2 DEF SetVarsBegin, TypeOK
  <2>3. CASE SetVarsNext
    <3>1. /\ boot' \in {boot, "failed", "lib"} /\ known' \in {known, known + 1}
          /\ faults' \in {faults, faults \union {"build"}}
      BY <2>3 DEF SetVarsNext
    <3>2. known' \in Nat /\ faults' \subseteq {"build", "library", "value", "stopped"}
      BY <3>1 DEF TypeOK
    <3> QED
      BY <2>3, <3>1, <3>2 DEF SetVarsNext, TypeOK
  <2>4. CASE LoadLib \/ SetRunning
    BY <2>4 DEF LoadLib, SetRunning, TypeOK
  <2> QED
    BY <1>3, <2>1, <2>2, <2>3, <2>4
<1>4. CASE MainStart
  BY <1>4 DEF MainStart, Enter, Starters, TypeOK
<1>5. ASSUME NEW s \in Starters, MakeBlocks(s) PROVE TypeOK'
  BY <1>5 DEF MakeBlocks, TypeOK
<1>6. CASE Exit
  BY <1>6 DEF Exit, TypeOK
<1>7. ASSUME NEW next \in Busy \union {"accept"}, Ended(next), UNCHANGED <<main, stop>>,
             faults' \in {faults, faults \union {"library"}},
             running' \in {"unset", "no", "yes"}, port' \in Nat, plcs' \in Nat,
             plc_thread' \in {"unset", "waiting", "ended"},
             st' \in [Starters -> {"none", "blocks", "bind", "lib"}],
             UNCHANGED <<mb_blocks, made, mine>>
      PROVE  TypeOK'
  BY <1>7, <1>2 DEF Ended, TypeOK, Places
<1>8. CASE Start
  <2>1. Ended("start") /\ st' \in {st, [st EXCEPT !["listener"] = "blocks"]}
    BY <1>8, StartEnds
  <2> QED
    BY <1>7, <1>8, <2>1 DEF Start, TypeOK, Busy, Starters
<1>9. CASE Stop
  <2>1. (Ended("join") \/ Ended("stop_plc")) /\ port' \in {0, port}
    BY <1>9, StopEnds
  <2> QED
    BY <1>7, <1>9, <2>1 DEF Stop, TypeOK, Busy
<1>10. CASE StopPlc
  <2>1. Ended("join")
    BY <1>10, StopEndedEnds DEF StopPlc
  <2> QED
    BY <1>7, <1>10, <2>1 DEF StopPlc, TypeOK, Busy
<1>11. CASE Names
  <2>1. Ended("accept")
    BY <1>11, NamesEnds
  <2> QED
    BY <1>7, <1>11, <2>1 DEF Names, TypeOK
<1>12. CASE Look
  <2>1. Ended("token")
    BY <1>12, LookEnds
  <2> QED
    BY <1>7, <1>12, <2>1 DEF Look, TypeOK, Busy
<1>13. CASE Token
  <2>1. Ended("accept")
    BY <1>13, TokenEnds
  <2> QED
    BY <1>7, <1>13, <2>1 DEF Token, TypeOK
<1>14. CASE Terminate
  BY <1>2, <1>14, TerminateEnds DEF Terminate, TypeOK, Places, Busy
<1>15. CASE Join
  BY <1>2, <1>15, JoinEnds DEF Join, TypeOK, Places
<1>16. CASE Monitor
  <2>1. CASE varsSet
    <3>1. /\ watch' = Append(watch, [client |-> cur.client, names |-> known,
                                     open |-> cur.open])
          /\ lst' = "accept" /\ cur' = NoRequest /\ backlog' = backlog /\ at' = at
      BY <1>16, <2>1 DEF Monitor, Finish
    <3>2. cur \in Entries
      BY <1>16 DEF Monitor, Serving, TypeOK, NoRequest
    <3>3. [client |-> cur.client, names |-> known, open |-> cur.open] \in Watchers
      BY <3>2 DEF Watchers, Entries, TypeOK
    <3>4. watch' \in Seq(Watchers)
      <4>1. watch \in Seq(Watchers)
        BY DEF TypeOK
      <4> HIDE DEF Watchers
      <4> QED
        BY <3>1, <3>3, <4>1, AppendProperties
    <3> QED
      BY <1>16, <3>1, <3>4 DEF Monitor, TypeOK
  <2>2. CASE ~varsSet
    BY <1>2, <1>16, <2>2, RaiseEnds DEF Monitor, TypeOK, Places
  <2> QED
    BY <2>1, <2>2
<1>17. ASSUME NEW s \in Starters, Bind(s) PROVE TypeOK'
  <2>1. mine' \in [Starters -> Nat] /\ mine[s] \in Nat
    BY <1>17 DEF Bind, TypeOK
  <2>2. CASE port = 0
    BY <1>17, <2>1, <2>2 DEF Bind, TypeOK
  <2>3. CASE port # 0 /\ s = "main"
    BY <1>17, <2>1, <2>3 DEF Bind, TypeOK
  <2>4. CASE port # 0 /\ s # "main"
    BY <1>2, <1>17, <2>1, <2>4, RaiseEnds DEF Bind, TypeOK, Places
  <2> QED
    BY <2>2, <2>3, <2>4
<1>18. ASSUME NEW s \in Starters, LibStart(s) PROVE TypeOK'
  <2>1. /\ running' \in {"unset", "no", "yes"} /\ plcs' \in Nat
        /\ plc_thread' \in {"unset", "waiting", "ended"}
        /\ faults' \subseteq {"build", "library", "value", "stopped"}
        /\ st' \in [Starters -> {"none", "blocks", "bind", "lib"}]
    <3>1. st' = [st EXCEPT ![s] = "none"]
      BY <1>18 DEF LibStart, Started
    <3>2. \/ running' = "yes" /\ plcs' = plcs + 1 /\ UNCHANGED <<plc_thread, faults>>
          \/ /\ plc_thread' = "ended" /\ faults' = faults \union {"library"}
             /\ UNCHANGED <<running, plcs>>
      BY <1>18 DEF LibStart
    <3>3. st' \in [Starters -> {"none", "blocks", "bind", "lib"}]
      BY <3>1 DEF TypeOK
    <3>4. CASE running' = "yes" /\ plcs' = plcs + 1 /\ UNCHANGED <<plc_thread, faults>>
      BY <3>3, <3>4 DEF TypeOK
    <3>5. CASE /\ plc_thread' = "ended" /\ faults' = faults \union {"library"}
               /\ UNCHANGED <<running, plcs>>
      BY <3>3, <3>5 DEF TypeOK
    <3> QED
      BY <3>2, <3>4, <3>5
  <2>2. CASE s = "main"
    BY <1>18, <2>1, <2>2 DEF LibStart, Started, TypeOK
  <2>3. CASE s # "main"
    <3>1. Answer /\ boot' = boot
      BY <1>18, <2>3 DEF LibStart, Started
    <3> QED
      BY <1>2, <1>18, <2>1, <3>1, AnswerEnds DEF LibStart, TypeOK, Places
  <2> QED
    BY <2>2, <2>3
<1>19. CASE Listen
  BY <1>19 DEF Listen, TypeOK
<1>20. CASE Accept
  BY <1>20, AcceptTakes DEF Accept, TypeOK, Busy
<1>21. CASE Forget
  <2>1. PICK i \in DOMAIN watch : watch' = RemoveAt(watch, i)
    BY <1>21 DEF Forget
  <2>2. watch' \in Seq(Watchers)
    <3>1. watch \in Seq(Watchers)
      BY DEF TypeOK
    <3> QED
      BY <2>1, <3>1, RemoveAtType
  <2> QED
    BY <1>21, <2>2 DEF Forget, TypeOK
<1>22. ASSUME NEW c \in Callers, Call(c) PROVE TypeOK'
  <2>1. PICK kind \in Kinds :
          /\ Send(c, kind)
          /\ at' = IF kind = "terminate" THEN at ELSE [at EXCEPT ![c] = "call"]
          /\ faults' = IF kind = "badset" THEN faults \union {"value"} ELSE faults
    BY <1>22 DEF Call
  <2>2. backlog' \in Seq(Entries)
    BY <1>1, <2>1, SendAppends
  <2> QED
    BY <1>22, <2>1, <2>2 DEF Call, TypeOK
<1>23. ASSUME NEW r \in Recorders, Record(r) \/ StopRecording(r) PROVE TypeOK'
  BY <1>23 DEF Record, StopRecording, TypeOK
<1>24. ASSUME NEW r \in Recorders, Connect(r) PROVE TypeOK'
  <2>1. backlog' \in Seq(Entries)
    BY <1>1, <1>24, SendAppends DEF Connect
  <2> QED
    BY <1>24, <2>1 DEF Connect, TypeOK
<1>25. ASSUME NEW r \in Recorders, Reconnect(r) PROVE TypeOK'
  <2>1. backlog' \in Seq(Entries)
    BY <1>1, <1>25, SendAppends DEF Reconnect
  <2> QED
    BY <1>25, <2>1 DEF Reconnect, TypeOK
<1>26. ASSUME NEW r \in Recorders, LeaveLoop(r) PROVE TypeOK'
  BY <1>26, LeaveCloses DEF LeaveLoop, TypeOK
<1>27. CASE UNCHANGED vars
  BY <1>27 DEF vars, TypeOK
<1> QED
  <2>1. "main" \in Starters /\ "listener" \in Starters
    BY DEF Starters
  <2>2. CASE MainNext
    BY <1>3, <1>4, <1>5, <1>6, <1>17, <1>18, <2>1, <2>2 DEF MainNext
  <2>3. CASE ListenerNext
    BY <1>5, <1>8, <1>9, <1>10, <1>11, <1>12, <1>14, <1>15, <1>16, <1>17, <1>18,
       <1>19, <1>20, <2>1, <2>3 DEF ListenerNext
  <2> QED
    BY <1>13, <1>21, <1>22, <1>23, <1>24, <1>25, <1>26, <1>27, <2>2, <2>3
    DEF Next, RecorderNext

(* Every step leaves the listener at something its request asks for. *)
LEMMA StepRequested ==
  ASSUME TypeOK, Requested, [Next]_vars
  PROVE  Requested'
<1> USE DEF main, plc, listener, clients, InitRaises
<1>1. /\ "main" \in Starters /\ "listener" \in Starters /\ "main" # "listener"
      /\ Recorders \subseteq Clients /\ Callers \subseteq Clients
  BY DEF Starters, Clients
<1>2. CASE Make \/ SetVarsBegin \/ SetVarsNext \/ LoadLib \/ SetRunning
  BY <1>2 DEF Make, SetVarsBegin, SetVarsNext, LoadLib, SetRunning, Requested
<1>3. CASE MainStart
  BY <1>1, <1>3 DEF MainStart, Enter, TypeOK, Requested
<1>4. ASSUME NEW s \in Starters, MakeBlocks(s) PROVE Requested'
  BY <1>1, <1>4 DEF MakeBlocks, TypeOK, Requested
<1>5. CASE Exit
  BY <1>5 DEF Exit, Requested
<1>6. CASE Start
  BY <1>1, <1>6, StartEnds DEF Start, Serving, Ended, Requested, Busy, TypeOK
<1>7. CASE Stop
  BY <1>7, StopEnds DEF Stop, Serving, Ended, Requested, Busy
<1>8. CASE StopPlc
  BY <1>8, StopEndedEnds DEF StopPlc, Ended, Requested, Busy
<1>9. CASE Names
  BY <1>9, NamesEnds DEF Names, Serving, Ended, Requested, Busy
<1>10. CASE Look
  BY <1>10, LookEnds DEF Look, Serving, Ended, Requested, Busy
<1>11. CASE Token
  BY <1>11, TokenEnds DEF Token, Ended, Requested, Busy
<1>12. CASE Terminate
  BY <1>12, TerminateEnds DEF Terminate, Serving, Requested, Busy
<1>13. CASE Join
  BY <1>13, JoinEnds DEF Join, Requested, Busy
<1>14. CASE Monitor
  BY <1>14, RaiseEnds DEF Monitor, Finish, Serving, Requested, Busy
<1>15. ASSUME NEW s \in Starters, Bind(s) PROVE Requested'
  <2>1. CASE port = 0
    BY <1>1, <1>15, <2>1 DEF Bind, TypeOK, Requested
  <2>2. CASE port # 0 /\ s = "main"
    BY <1>1, <1>15, <2>2 DEF Bind, TypeOK, Requested
  <2>3. CASE port # 0 /\ s = "listener"
    BY <1>1, <1>15, <2>3, RaiseEnds DEF Bind, TypeOK, Requested, Busy
  <2> QED
    BY <2>1, <2>2, <2>3 DEF Starters
<1>16. ASSUME NEW s \in Starters, LibStart(s) PROVE Requested'
  <2>1. CASE s = "main"
    BY <1>1, <1>16, <2>1 DEF LibStart, Started, TypeOK, Requested
  <2>2. CASE s = "listener"
    BY <1>1, <1>16, <2>2, LibStartEnds DEF LibStart, Started, Ended, TypeOK, Requested, Busy
  <2> QED
    BY <2>1, <2>2 DEF Starters
<1>17. CASE Listen
  BY <1>17 DEF Listen, Requested, Busy
<1>18. CASE Accept
  BY <1>18, AcceptTakes DEF Accept, Requested, Busy
<1>19. CASE Forget
  BY <1>19 DEF Forget, Requested
<1>20. ASSUME NEW c \in Clients, NEW kind, Send(c, kind), Socket,
              UNCHANGED <<main, plc, lst, cur>>
       PROVE  Requested'
  BY <1>20 DEF Socket, Requested, Busy
<1>21. ASSUME NEW c \in Callers, Call(c) PROVE Requested'
  BY <1>1, <1>20, <1>21 DEF Call
<1>22. ASSUME NEW r \in Recorders, Record(r) \/ StopRecording(r) PROVE Requested'
  BY <1>22 DEF Record, StopRecording, Requested
<1>23. ASSUME NEW r \in Recorders, Connect(r) \/ Reconnect(r) PROVE Requested'
  BY <1>1, <1>20, <1>23 DEF Connect, Reconnect
<1>24. ASSUME NEW r \in Recorders, LeaveLoop(r) PROVE Requested'
  BY <1>24, LeaveCloses DEF LeaveLoop, Requested
<1>25. CASE UNCHANGED vars
  BY <1>25 DEF vars, Requested
<1> QED
  <2>1. CASE MainNext
    BY <1>1, <1>2, <1>3, <1>4, <1>5, <1>15, <1>16, <2>1 DEF MainNext
  <2>2. CASE ListenerNext
    BY <1>1, <1>4, <1>6, <1>7, <1>8, <1>9, <1>10, <1>12, <1>13, <1>14, <1>15, <1>16,
       <1>17, <1>18, <2>2 DEF ListenerNext
  <2> QED
    BY <1>11, <1>19, <1>21, <1>22, <1>23, <1>24, <1>25, <2>1, <2>2
    DEF Next, RecorderNext

(* Nothing that was asked too early is forgotten. *)
LEMMA EarlyStays ==
  ASSUME [Next]_vars
  PROVE  /\ early => early'
         /\ faults \subseteq faults'
<1> USE DEF main, plc, listener, clients, InitRaises
<1>1. ASSUME NEW c, NEW kind, Send(c, kind) PROVE early => early'
  BY <1>1, Zenon DEF Send
<1>2. (\E c \in Callers : Call(c)) \/ (\E r \in Recorders : Connect(r) \/ Reconnect(r))
        => (early => early')
  BY <1>1 DEF Call, Connect, Reconnect
<1>3. MainNext \/ ListenerNext \/ Token \/ Forget => early' = early
  BY DEF MainNext, Make, SetVarsBegin, SetVarsNext, LoadLib, SetRunning, MainStart,
     MakeBlocks, Bind, LibStart, Exit, ListenerNext, Listen, Accept, Start, Stop, StopPlc,
     Terminate, Join, Names, Look, Monitor, Token, Forget
<1>4. (\E r \in Recorders : Record(r) \/ StopRecording(r) \/ LeaveLoop(r)) \/ UNCHANGED vars
        => early' = early
  BY DEF Record, StopRecording, LeaveLoop, vars
<1>5. early => early'
  <2>1. (early' = early) => (early => early')
    OBVIOUS
  <2> QED
    BY <1>2, <1>3, <1>4, <2>1 DEF Next, RecorderNext
<1>6. faults \subseteq faults'
  <2>1. MainNext \/ ListenerNext \/ Token \/ Forget => faults \subseteq faults'
    BY DEF MainNext, Make, SetVarsBegin, SetVarsNext, LoadLib, SetRunning, MainStart,
       MakeBlocks, Bind, LibStart, Exit, ListenerNext, Listen, Accept, Start, Stop,
       StopPlc, Terminate, Join, Names, Look, Monitor, Token, Forget
  <2>2. (\E r \in Recorders : Record(r) \/ StopRecording(r) \/ RecorderNext(r))
        \/ (\E c \in Callers : Call(c)) \/ UNCHANGED vars => faults \subseteq faults'
    BY DEF Record, StopRecording, RecorderNext, Connect, Reconnect, LeaveLoop, Call, vars
  <2> QED
    BY <2>1, <2>2 DEF Next
<1> QED
  BY <1>5, <1>6

(* Every step but one that asks too early keeps the order of things.        *)
LEMMA StepOrderly ==
  ASSUME TypeOK, Requested, Orderly, [Next]_vars
  PROVE  Orderly'
<1> SUFFICES ASSUME InOrder, ~early' PROVE InOrder'
  <2>1. ~early' => ~early
    BY EarlyStays, Zenon
  <2> QED
    BY <2>1 DEF Orderly
<1> USE DEF main, plc, listener, clients, InitRaises
<1>1. /\ "main" \in Starters /\ "listener" \in Starters /\ "main" # "listener"
      /\ Recorders \subseteq Clients /\ Callers \subseteq Clients
  BY DEF Starters, Clients
<1>2. CASE Make \/ SetVarsBegin \/ SetVarsNext \/ LoadLib \/ SetRunning
  BY <1>2 DEF Make, SetVarsBegin, SetVarsNext, LoadLib, SetRunning, InOrder, Requested
<1>3. CASE MainStart
  BY <1>1, <1>3 DEF MainStart, Enter, TypeOK, InOrder
<1>4. ASSUME NEW s \in Starters, MakeBlocks(s) PROVE InOrder'
  <2>1. mb_blocks' # 0
    BY <1>4 DEF MakeBlocks, TypeOK
  <2>2. CASE s = "main"
    BY <1>1, <1>4, <2>1, <2>2 DEF MakeBlocks, TypeOK, InOrder, Requested
  <2>3. CASE s = "listener"
    <3>1. boot = "done" /\ st'["main"] = st["main"]
      BY <1>1, <1>4, <2>3 DEF MakeBlocks, TypeOK, InOrder, Requested, Busy
    <3> QED
      BY <1>4, <2>1, <3>1 DEF MakeBlocks, InOrder
  <2> QED
    BY <2>2, <2>3 DEF Starters
<1>5. CASE Exit
  BY <1>5 DEF Exit, InOrder, Requested, Busy
<1>6. ASSUME NEW next, Ended(next), lst \in Busy, boot' = boot, st'["main"] = st["main"],
             port' \in {0, port}, mb_blocks' = mb_blocks,
             running' = running \/ (boot = "done" /\ running' # "unset"),
             plc_thread' = plc_thread \/ plc_thread' # "unset"
      PROVE  InOrder'
  BY <1>6 DEF Ended, InOrder, Busy, NoRequest
<1>7. CASE Start
  BY <1>1, <1>6, <1>7, StartEnds DEF Start, Serving, TypeOK, Busy
<1>8. CASE Stop
  BY <1>6, <1>8, StopEnds DEF Stop, Serving, Busy
<1>9. CASE StopPlc
  <2>1. boot = "done"
    BY <1>9 DEF StopPlc, InOrder, Requested, Busy
  <2> QED
    BY <1>6, <1>9, <2>1, StopEndedEnds DEF StopPlc, Busy
<1>10. CASE Names
  BY <1>6, <1>10, NamesEnds DEF Names, Serving, Busy
<1>11. CASE Look
  BY <1>6, <1>11, LookEnds DEF Look, Serving, Busy
<1>12. CASE Token
  BY <1>6, <1>12, TokenEnds DEF Token, Busy
<1>13. CASE Terminate
  BY <1>13, TerminateEnds DEF Terminate, Serving, InOrder, Busy
<1>14. CASE Join
  BY <1>14, JoinEnds DEF Join, InOrder, Busy
<1>15. CASE Monitor
  BY <1>15, RaiseEnds DEF Monitor, Finish, InOrder, Busy
<1>16. ASSUME NEW s \in Starters, Bind(s) PROVE InOrder'
  <2>1. CASE s = "main"
    <3>1. port = 0 /\ boot = "start" /\ mb_blocks # 0
      BY <1>1, <1>16, <2>1 DEF Bind, InOrder, Requested
    <3> QED
      BY <1>1, <1>16, <2>1, <3>1 DEF Bind, TypeOK, InOrder
  <2>2. CASE s = "listener"
    <3>1. boot = "done" /\ st'["main"] = st["main"]
      BY <1>1, <1>16, <2>2 DEF Bind, TypeOK, InOrder, Requested, Busy
    <3>2. CASE port = 0
      BY <1>16, <2>2, <3>1, <3>2 DEF Bind, InOrder
    <3>3. CASE port # 0
      <4>1. Raise /\ boot' = boot /\ UNCHANGED <<port, plc_thread, running, mb_blocks>>
        BY <1>1, <1>16, <2>2, <3>3 DEF Bind
      <4> QED
        BY <3>1, <4>1, RaiseEnds DEF InOrder, Busy
    <3> QED
      BY <3>2, <3>3
  <2> QED
    BY <2>1, <2>2 DEF Starters
<1>17. ASSUME NEW s \in Starters, LibStart(s) PROVE InOrder'
  <2>1. /\ running' = running \/ running' = "yes"
        /\ plc_thread' = plc_thread \/ plc_thread' = "ended"
        /\ UNCHANGED <<port, mb_blocks>>
    BY <1>17 DEF LibStart
  <2>2. CASE s = "main"
    <3>1. boot = "start" /\ mb_blocks # 0 /\ plc_thread # "unset" /\ running = "no"
      BY <1>1, <1>17, <2>2 DEF LibStart, InOrder, Requested
    <3>2. boot' = "done" /\ UNCHANGED <<lst, cur, backlog>>
      BY <1>17, <2>2 DEF LibStart, Started
    <3> QED
      BY <2>1, <3>1, <3>2 DEF InOrder
  <2>3. CASE s = "listener"
    <3>1. boot = "done" /\ st'["main"] = st["main"] /\ lst \in Busy
      BY <1>1, <1>17, <2>3 DEF LibStart, Started, TypeOK, InOrder, Requested, Busy
    <3>2. Ended("accept") /\ boot' = boot
      BY <1>17, <2>3, LibStartEnds
    <3> QED
      BY <1>6, <2>1, <3>1, <3>2
  <2> QED
    BY <2>2, <2>3 DEF Starters
<1>18. CASE Listen
  BY <1>18 DEF Listen, InOrder, Busy
<1>19. CASE Accept
  <2>1. \A i \in 1..Len(backlog') : backlog'[i].kind # "monitor" => boot = "done"
    BY <1>19, AcceptTakes DEF InOrder
  <2>2. cur'.kind # "monitor" => boot = "done"
    BY <1>19, AcceptTakes DEF InOrder
  <2> QED
    BY <1>19, <2>1, <2>2 DEF Accept, InOrder
<1>20. CASE Forget
  BY <1>20 DEF Forget, InOrder
<1>21. ASSUME NEW c \in Clients, NEW kind \in Kinds \union {"names", "monitor"},
              Send(c, kind), UNCHANGED <<main, plc, lst, cur>>
       PROVE  InOrder'
  <2>1. kind # "monitor" => boot = "done"
    BY <1>21, Zenon DEF Send
  <2>2. /\ Len(backlog) \in Nat /\ Len(backlog') = Len(backlog) + 1
        /\ \A i \in 1..Len(backlog) : backlog'[i] = backlog[i]
        /\ backlog'[Len(backlog) + 1] = [client |-> c, kind |-> kind, open |-> TRUE]
    BY <1>21, SendAppends, LenProperties DEF TypeOK
  <2>3. \A i \in 1..Len(backlog') : backlog'[i].kind # "monitor" => boot = "done"
    <3> SUFFICES ASSUME NEW i \in 1..Len(backlog'), backlog'[i].kind # "monitor"
                 PROVE  boot = "done"
      OBVIOUS
    <3>1. CASE i \in 1..Len(backlog)
      BY <1>21, <2>2, <3>1 DEF InOrder
    <3>2. CASE i = Len(backlog) + 1
      <4>1. backlog'[i].kind = kind
        BY <2>2, <3>2
      <4> QED
        BY <2>1, <4>1
    <3> QED
      BY <2>2, <3>1, <3>2
  <2> QED
    BY <1>21, <2>3 DEF InOrder
<1>22. ASSUME NEW c \in Callers, Call(c) PROVE InOrder'
  BY <1>1, <1>21, <1>22 DEF Call
<1>23. ASSUME NEW r \in Recorders, Record(r) \/ StopRecording(r) PROVE InOrder'
  BY <1>23 DEF Record, StopRecording, InOrder
<1>24. ASSUME NEW r \in Recorders, Connect(r) \/ Reconnect(r) PROVE InOrder'
  BY <1>1, <1>21, <1>24 DEF Connect, Reconnect
<1>25. ASSUME NEW r \in Recorders, LeaveLoop(r) PROVE InOrder'
  BY <1>25, LeaveCloses DEF LeaveLoop, InOrder
<1>26. CASE UNCHANGED vars
  BY <1>26 DEF vars, InOrder
<1> QED
  <2>1. CASE MainNext
    BY <1>1, <1>2, <1>3, <1>4, <1>5, <1>16, <1>17, <2>1 DEF MainNext
  <2>2. CASE ListenerNext
    BY <1>1, <1>4, <1>7, <1>8, <1>9, <1>10, <1>11, <1>13, <1>14, <1>15, <1>16, <1>17,
       <1>18, <1>19, <2>2 DEF ListenerNext
  <2> QED
    BY <1>12, <1>20, <1>22, <1>23, <1>24, <1>25, <1>26, <2>1, <2>2
    DEF Next, RecorderNext

(* Start and stop hand the port from one server to the next.                *)
LEMMA StepServed ==
  ASSUME TypeOK, Requested, Orderly, Served, [Next]_vars
  PROVE  Served'
<1> SUFFICES ASSUME InOrder, LastServed, "library" \notin faults' PROVE LastServed'
  <2>1. ~early' => ~early
    BY EarlyStays, Zenon
  <2>2. "library" \notin faults' => "library" \notin faults
    BY EarlyStays
  <2> QED
    BY <2>1, <2>2 DEF Orderly, Served
<1> USE DEF main, plc, listener, clients, InitRaises
<1>1. Starters = {"main", "listener"} /\ "main" # "listener"
  BY DEF Starters
<1>2. /\ st["main"] # "none" => boot = "start"
      /\ st["listener"] # "none" => boot = "done" /\ lst = "start"
      /\ lst \in {"start", "stop_plc"} => boot = "done"
  BY DEF Requested, InOrder, Busy
<1>3. ASSUME UNCHANGED <<st, running, port, mine, mb_blocks>>,
             lst' = "stop_plc" => lst = "stop_plc"
      PROVE  LastServed'
  BY <1>3 DEF LastServed
<1>4. CASE Make \/ SetVarsBegin \/ SetVarsNext \/ LoadLib
  BY <1>3, <1>4 DEF Make, SetVarsBegin, SetVarsNext, LoadLib
<1>5. CASE SetRunning
  BY <1>1, <1>2, <1>5 DEF SetRunning, InOrder, LastServed
<1>6. CASE MainStart
  <2>1. running = "no" /\ port = 0 /\ st' = [st EXCEPT !["main"] = "blocks"]
        /\ st["listener"] = "none"
    BY <1>2, <1>6 DEF MainStart, Enter, InOrder
  <2> QED
    BY <1>1, <1>2, <1>6, <2>1 DEF MainStart, TypeOK, LastServed
<1>7. ASSUME NEW s \in Starters, st[s] # "none"
      PROVE  /\ running = "no" /\ lst # "stop_plc"
             /\ \A t \in Starters \ {s} : st[t] = "none"
  BY <1>1, <1>2, <1>7 DEF LastServed
<1>8. ASSUME NEW s \in Starters, MakeBlocks(s) PROVE LastServed'
  <2>1. /\ running = "no" /\ lst # "stop_plc" /\ port = 0
        /\ \A t \in Starters \ {s} : st[t] = "none"
    BY <1>7, <1>8 DEF MakeBlocks, LastServed
  <2>2. /\ st' = [st EXCEPT ![s] = "bind"] /\ mine' = [mine EXCEPT ![s] = made + 1]
        /\ mb_blocks' = made + 1 /\ UNCHANGED <<running, port, lst>>
    BY <1>8 DEF MakeBlocks
  <2> QED
    BY <2>1, <2>2 DEF TypeOK, LastServed
<1>9. ASSUME NEW s \in Starters, Bind(s) PROVE LastServed'
  <2>1. /\ running = "no" /\ lst # "stop_plc" /\ port = 0 /\ mine[s] = mb_blocks
        /\ \A t \in Starters \ {s} : st[t] = "none"
    BY <1>7, <1>9 DEF Bind, LastServed
  <2>2. /\ st' = [st EXCEPT ![s] = "lib"] /\ mine' = [mine EXCEPT ![s] = 0]
        /\ port' = mb_blocks /\ UNCHANGED <<running, mb_blocks, lst>>
    BY <1>9, <2>1 DEF Bind
  <2> QED
    BY <2>1, <2>2 DEF TypeOK, LastServed
<1>10. ASSUME NEW s \in Starters, LibStart(s) PROVE LastServed'
  <2>1. /\ running = "no" /\ lst # "stop_plc"
        /\ \A t \in Starters \ {s} : st[t] = "none"
    BY <1>7, <1>10 DEF LibStart
  <2>2. running' = "yes" /\ st' = [st EXCEPT ![s] = "none"] /\ UNCHANGED <<port, mb_blocks>>
    BY <1>10 DEF LibStart, Started
  <2>3. lst' # "stop_plc"
    <3>1. CASE s = "main"
      BY <1>10, <2>1, <3>1 DEF LibStart, Started
    <3>2. CASE s = "listener"
      BY <1>10, <2>1, <3>2, LibStartEnds DEF Ended
    <3> QED
      BY <1>1, <3>1, <3>2
  <2> QED
    BY <2>1, <2>2, <2>3 DEF TypeOK, LastServed
<1>11. CASE Exit
  BY <1>1, <1>2, <1>11 DEF Exit, LastServed
<1>12. CASE Start
  <2>1. boot = "done" /\ lst = "handle" /\ \A s \in Starters : st[s] = "none"
    BY <1>1, <1>2, <1>12 DEF Start, Serving, InOrder, Busy
  <2>2. CASE lst' # "start"
    <3>1. st' = st /\ lst' # "stop_plc"
      BY <1>12, <2>1, <2>2, StartEnds DEF Ended
    <3> QED
      BY <1>3, <1>12, <3>1 DEF Start
  <2>3. CASE lst' = "start"
    <3>1. running = "no" /\ st' = [st EXCEPT !["listener"] = "blocks"] /\ port = 0
      BY <1>12, <2>1, <2>3, StartEnds DEF LastServed
    <3> QED
      BY <1>1, <1>12, <2>1, <2>3, <3>1 DEF Start, TypeOK, LastServed
  <2> QED
    BY <2>2, <2>3
<1>13. CASE Stop
  <2>1. CASE lst' = "stop_plc"
    <3>1. running = "yes" /\ port' = 0
      BY <1>13, <2>1, StopEnds
    <3> QED
      BY <1>13, <2>1, <3>1 DEF Stop, LastServed
  <2>2. CASE lst' # "stop_plc"
    <3>1. port' = port
      BY <1>13, <2>2, StopEnds
    <3> QED
      BY <1>3, <1>13, <2>2, <3>1 DEF Stop
  <2> QED
    BY <2>1, <2>2
<1>14. CASE StopPlc
  <2>1. boot = "done" /\ port = 0 /\ \A s \in Starters : st[s] = "none"
    BY <1>1, <1>2, <1>14 DEF StopPlc, LastServed
  <2>2. lst' # "stop_plc"
    BY <1>14, StopEndedEnds DEF StopPlc, Ended, TypeOK, StopEnded, Answer, Finish, Raise
  <2> QED
    BY <1>14, <2>1, <2>2 DEF StopPlc, LastServed
<1>15. CASE Names
  BY <1>3, <1>15, NamesEnds DEF Names, Ended
<1>16. CASE Look
  BY <1>3, <1>16, LookEnds DEF Look, Ended
<1>17. CASE Token
  BY <1>3, <1>17, TokenEnds DEF Token, Ended
<1>18. CASE Terminate
  BY <1>3, <1>18, TerminateEnds DEF Terminate
<1>19. CASE Join
  BY <1>3, <1>19, JoinEnds DEF Join
<1>20. CASE Monitor
  BY <1>3, <1>20, RaiseEnds DEF Monitor, Finish
<1>21. CASE Listen \/ Accept \/ Forget
  BY <1>3, <1>21 DEF Listen, Accept, Forget
<1>22. ASSUME NEW c \in Callers, Call(c) PROVE LastServed'
  BY <1>3, <1>22 DEF Call
<1>23. ASSUME NEW r \in Recorders, Record(r) \/ StopRecording(r) \/ RecorderNext(r)
       PROVE  LastServed'
  BY <1>3, <1>23 DEF Record, StopRecording, RecorderNext, Connect, Reconnect, LeaveLoop
<1>24. CASE UNCHANGED vars
  BY <1>3, <1>24 DEF vars
<1> QED
  <2>1. CASE MainNext
    BY <1>1, <1>4, <1>5, <1>6, <1>8, <1>9, <1>10, <1>11, <2>1 DEF MainNext
  <2>2. CASE ListenerNext
    BY <1>1, <1>8, <1>9, <1>10, <1>12, <1>13, <1>14, <1>15, <1>16, <1>18, <1>19,
       <1>20, <1>21, <2>2 DEF ListenerNext
  <2> QED
    BY <1>17, <1>21, <1>22, <1>23, <1>24, <2>1, <2>2 DEF Next

(* Without a fault no client leaves a request or a connection behind.       *)
LEMMA StepFaultless ==
  ASSUME TypeOK, Requested, Faultless, [Next]_vars
  PROVE  Faultless'
<1> SUFFICES ASSUME NoneLeft, faults' = {} PROVE NoneLeft'
  <2>1. faults' = {} => faults = {}
    BY EarlyStays
  <2> QED
    BY <2>1 DEF Faultless
<1> USE DEF main, plc, listener, clients, InitRaises
<1>1. /\ Recorders \subseteq Clients /\ Callers \subseteq Clients
      /\ Kinds \subseteq Kinds \union {"names", "monitor"}
      /\ {"names", "monitor"} \subseteq Kinds \union {"names", "monitor"}
  BY DEF Clients
<1>2. ASSUME UNCHANGED <<lst, cur, backlog, watch, stop>>
      PROVE  NoneLeft'
  BY <1>2 DEF NoneLeft
<1>3. ASSUME NEW next, Ended(next), lst \in Busy, stop' = stop
      PROVE  NoneLeft'
  BY <1>3 DEF Ended, NoneLeft, Busy
<1>4. CASE Make \/ SetVarsBegin \/ SetVarsNext \/ LoadLib \/ SetRunning \/ MainStart \/ Exit
  BY <1>2, <1>4 DEF Make, SetVarsBegin, SetVarsNext, LoadLib, SetRunning, MainStart, Exit
<1>5. ASSUME NEW s \in Starters, MakeBlocks(s) PROVE NoneLeft'
  BY <1>2, <1>5 DEF MakeBlocks
<1>6. CASE Start
  BY <1>3, <1>6, StartEnds DEF Start, Serving, Busy
<1>7. CASE Stop
  BY <1>3, <1>7, StopEnds DEF Stop, Serving, Busy
<1>8. CASE StopPlc
  BY <1>3, <1>8, StopEndedEnds DEF StopPlc, Busy
<1>9. CASE Names
  BY <1>3, <1>9, NamesEnds DEF Names, Serving, Busy
<1>10. CASE Look
  BY <1>3, <1>10, LookEnds DEF Look, Serving, Busy
<1>11. CASE Token
  BY <1>3, <1>11, TokenEnds DEF Token, Busy
<1>12. CASE Terminate
  BY <1>12, TerminateEnds DEF Terminate, Serving, NoneLeft, Busy
<1>13. CASE Join
  BY <1>13, JoinEnds DEF Join, NoneLeft, Busy
<1>14. CASE Monitor
  <2>1. CASE varsSet
    <3>1. /\ watch' = Append(watch, [client |-> cur.client, names |-> known,
                                     open |-> cur.open])
          /\ lst' = "accept" /\ backlog' = backlog /\ stop' = stop
      BY <1>14, <2>1 DEF Monitor, Finish
    <3>2. cur \in Entries /\ cur.open
      BY <1>14 DEF Monitor, Serving, NoneLeft, Requested, Busy
    <3>3. [client |-> cur.client, names |-> known, open |-> cur.open] \in Watchers
      BY <3>2 DEF Watchers, Entries, TypeOK
    <3>4. watch \in Seq(Watchers)
      BY DEF TypeOK
    <3>5. /\ Len(watch') = Len(watch) + 1 /\ Len(watch) \in Nat
          /\ \A i \in 1..Len(watch) : watch'[i] = watch[i]
          /\ watch'[Len(watch) + 1] = [client |-> cur.client, names |-> known,
                                       open |-> cur.open]
      <4> HIDE DEF Watchers
      <4> QED
        BY <3>1, <3>3, <3>4, AppendProperties, LenProperties
    <3>6. \A i \in 1..Len(watch') : watch'[i].open
      <4> SUFFICES ASSUME NEW i \in 1..Len(watch') PROVE watch'[i].open
        OBVIOUS
      <4>1. CASE i \in 1..Len(watch)
        BY <3>5, <4>1 DEF NoneLeft
      <4>2. CASE i = Len(watch) + 1
        BY <3>2, <3>5, <4>2
      <4> QED
        BY <3>5, <4>1, <4>2
    <3> QED
      BY <3>1, <3>6 DEF NoneLeft, Busy
  <2>2. CASE ~varsSet
    <3>1. Raise /\ stop' = stop
      BY <1>14, <2>2 DEF Monitor
    <3> QED
      BY <3>1, RaiseEnds DEF NoneLeft, Busy
  <2> QED
    BY <2>1, <2>2
<1>15. ASSUME NEW s \in Starters, Bind(s) PROVE NoneLeft'
  <2>1. stop' = stop
    BY <1>15 DEF Bind
  <2>2. CASE port = 0 \/ s = "main"
    BY <1>2, <1>15, <2>2 DEF Bind
  <2>3. CASE port # 0 /\ s # "main"
    BY <1>15, <2>1, <2>3, RaiseEnds DEF Bind, NoneLeft, Busy
  <2> QED
    BY <2>2, <2>3
<1>16. ASSUME NEW s \in Starters, LibStart(s) PROVE NoneLeft'
  <2>1. CASE s = "main"
    BY <1>2, <1>16, <2>1 DEF LibStart, Started
  <2>2. CASE s = "listener"
    BY <1>3, <1>16, <2>2, LibStartEnds DEF LibStart, Requested, Busy
  <2> QED
    BY <2>1, <2>2 DEF Starters
<1>17. CASE Listen
  BY <1>17 DEF Listen, NoneLeft, Busy
<1>18. CASE Accept
  BY <1>18, AcceptTakes DEF Accept, NoneLeft
<1>19. CASE Forget
  <2>1. DOMAIN watch = 1..Len(watch)
    BY LenProperties DEF TypeOK
  <2> QED
    BY <1>19, <2>1 DEF Forget, NoneLeft
<1>20. ASSUME NEW c \in Clients, NEW kind \in Kinds \union {"names", "monitor"},
              Send(c, kind), kind # "badset", UNCHANGED <<lst, cur, watch, stop>>
       PROVE  NoneLeft'
  <2>1. /\ Len(backlog) \in Nat /\ Len(backlog') = Len(backlog) + 1
        /\ \A i \in 1..Len(backlog) : backlog'[i] = backlog[i]
        /\ backlog'[Len(backlog) + 1] = [client |-> c, kind |-> kind, open |-> TRUE]
    BY <1>20, SendAppends, LenProperties DEF TypeOK
  <2>2. ASSUME NEW i \in 1..Len(backlog')
        PROVE  backlog'[i].open /\ backlog'[i].kind # "badset"
    <3>1. CASE i \in 1..Len(backlog)
      BY <2>1, <3>1 DEF NoneLeft
    <3>2. CASE i = Len(backlog) + 1
      BY <1>20, <2>1, <3>2
    <3> QED
      BY <2>1, <3>1, <3>2
  <2> QED
    BY <1>20, <2>2 DEF NoneLeft
<1>21. ASSUME NEW c \in Callers, Call(c) PROVE NoneLeft'
  <2>1. PICK kind \in Kinds :
          /\ Send(c, kind)
          /\ faults' = IF kind = "badset" THEN faults \union {"value"} ELSE faults
    BY <1>21 DEF Call
  <2>2. kind # "badset"
    BY <2>1
  <2> QED
    BY <1>1, <1>20, <1>21, <2>1, <2>2 DEF Call
<1>22. ASSUME NEW r \in Recorders, Record(r) PROVE NoneLeft'
  BY <1>2, <1>22 DEF Record
<1>23. ASSUME NEW r \in Recorders, StopRecording(r) \/ LeaveLoop(r) PROVE FALSE
  BY <1>23 DEF StopRecording, LeaveLoop, NoneLeft
<1>24. ASSUME NEW r \in Recorders, Connect(r) \/ Reconnect(r) PROVE NoneLeft'
  BY <1>1, <1>20, <1>24 DEF Connect, Reconnect
<1>25. CASE UNCHANGED vars
  BY <1>2, <1>25 DEF vars
<1> QED
  <2>1. CASE MainNext
    BY <1>4, <1>5, <1>15, <1>16, <2>1 DEF MainNext, Starters
  <2>2. CASE ListenerNext
    BY <1>5, <1>6, <1>7, <1>8, <1>9, <1>10, <1>12, <1>13, <1>14, <1>15, <1>16,
       <1>17, <1>18, <2>2 DEF ListenerNext, Starters
  <2> QED
    BY <1>11, <1>19, <1>21, <1>22, <1>23, <1>24, <1>25, <2>1, <2>2
    DEF Next, RecorderNext

(* Each request that could end the listener is impossible in order and      *)
(* without faults, but for one to monitor.                                  *)
LEMMA StepSurvives ==
  ASSUME TypeOK, Requested, Orderly, Served, Faultless, ListenerSurvives, [Next]_vars
  PROVE  ListenerSurvives'
<1> SUFFICES ASSUME lst' = "dead", ~early', faults' = {} PROVE cause' = "monitor"
  BY DEF ListenerSurvives
<1> USE DEF main, plc, listener, clients, InitRaises
<1>1. ~early /\ faults = {}
  <2>1. ~early
    BY EarlyStays, Zenon
  <2> QED
    BY <2>1, EarlyStays
<1>2. InOrder /\ LastServed /\ NoneLeft /\ (lst = "dead" => cause = "monitor")
  BY <1>1 DEF Orderly, Served, Faultless, ListenerSurvives
<1>3. CASE lst = "dead"
  <2>1. st["listener"] = "none"
    BY <1>3 DEF Requested
  <2>2. ~ListenerNext /\ ~Token
    BY <1>3, <2>1 DEF ListenerNext, Listen, Accept, Start, MakeBlocks, Bind, LibStart,
       Stop, StopPlc, Terminate, Join, Names, Look, Monitor, Serving, Token
  <2>3. cause' = cause
    <3>1. MainNext => cause' = cause
      BY DEF MainNext, Make, SetVarsBegin, SetVarsNext, LoadLib, SetRunning, MainStart,
         MakeBlocks, Bind, LibStart, Started, Exit
    <3>2. \/ Forget \/ (\E c \in Callers : Call(c)) \/ UNCHANGED vars
          \/ (\E r \in Recorders : Record(r) \/ StopRecording(r) \/ RecorderNext(r))
          => cause' = cause
      BY DEF Forget, Call, Record, StopRecording, RecorderNext, Connect, Reconnect,
         LeaveLoop, vars
    <3> QED
      BY <2>2, <3>1, <3>2 DEF Next
  <2> QED
    BY <1>2, <1>3, <2>3
<1>4. CASE lst # "dead"
  <2>1. lst \in Busy => cur.open /\ cur.kind # "badset"
    BY <1>2 DEF NoneLeft
  <2>2. /\ lst \in Busy /\ cur.kind # "monitor" =>
             /\ boot = "done" /\ running # "unset" /\ plc_thread # "unset"
             /\ mb_blocks # 0 /\ varsSet /\ LibLoaded
    BY <1>1, <1>2 DEF InOrder, Requested, LibLoaded
  <2>3. ~Start /\ ~Names /\ ~Look
    BY <2>1, <2>2, StartEnds, NamesEnds, LookEnds DEF Start, Names, Look, Serving, Busy
  <2>4. ~Stop
    BY <2>1, <2>2, StopEnds DEF Stop, Serving, Busy, Requested
  <2>5. ~StopPlc
    BY <2>1, StopEndedEnds DEF StopPlc, Busy
  <2>6. ~Token
    BY <2>1, <2>2, TokenEnds DEF Token, Busy, Requested
  <2>7. ~Terminate
    <3>1. DOMAIN watch = 1..Len(watch)
      BY LenProperties DEF TypeOK
    <3> QED
      BY <1>2, <3>1, TerminateEnds DEF NoneLeft
  <2>8. ~Join
    BY <2>2, JoinEnds DEF Join, Busy, Requested
  <2>9. ~Listen /\ ~Accept
    BY DEF Listen, Accept
  <2>10. ~LibStart("listener")
    BY <2>1, LibStartEnds DEF LibStart, Requested, Busy
  <2>11. ~Bind("listener") /\ ~MakeBlocks("listener")
    <3>1. st["listener"] = "bind" => port = 0
      BY <1>2 DEF LastServed, Starters
    <3> QED
      BY <1>4, <3>1 DEF Bind, MakeBlocks
  <2>12. Monitor => cause' = "monitor"
    BY DEF Monitor, Finish, Raise, Serving
  <2>13. MainNext => lst' = lst
    BY DEF MainNext, Make, SetVarsBegin, SetVarsNext, LoadLib, SetRunning, MainStart,
       MakeBlocks, Bind, LibStart, Started, Exit
  <2>14. \/ Forget \/ (\E c \in Callers : Call(c)) \/ UNCHANGED vars
         \/ (\E r \in Recorders : Record(r) \/ StopRecording(r) \/ RecorderNext(r))
         => lst' = lst
    BY DEF Forget, Call, Record, StopRecording, RecorderNext, Connect, Reconnect,
       LeaveLoop, vars
  <2> QED
    BY <1>4, <2>3, <2>4, <2>5, <2>6, <2>7, <2>8, <2>9, <2>10, <2>11, <2>12, <2>13, <2>14
    DEF Next, ListenerNext
<1> QED
  BY <1>3, <1>4

---------------------------------------------------------------------------
(* The theorems *)

LEMMA InitIInv == Init => IInv
<1> SUFFICES ASSUME Init PROVE IInv
  OBVIOUS
<1>1. TypeOK
  <2>1. backlog \in Seq(Entries) /\ watch \in Seq(Watchers)
    BY EmptySeq DEF Init
  <2> QED
    BY <2>1, ListenerAssumption DEF Init, TypeOK
<1>2. Len(backlog) = 0 /\ Len(watch) = 0
  BY EmptySeq DEF Init
<1>3. Requested
  BY DEF Init, Requested, Starters, Busy
<1>4. Orderly
  BY <1>2 DEF Init, Orderly, InOrder, Busy
<1>5. Served
  BY DEF Init, Served, LastServed, Starters
<1>6. Faultless
  BY <1>2 DEF Init, Faultless, NoneLeft, Busy
<1> QED
  BY <1>1, <1>3, <1>4, <1>5, <1>6 DEF Init, IInv, ListenerSurvives

(* Where the listener and main are in their handlers, what each request     *)
(* needs of the PLC, whose blocks the port serves and who has hung up: the  *)
(* invariant that every step of either thread, of the clients and of the    *)
(* recorders keeps.                                                         *)
THEOREM Inductive == Spec => []IInv
<1>1. IInv /\ [Next]_vars => IInv'
  BY StepTypeOK, StepRequested, StepOrderly, StepServed, StepFaultless, StepSurvives
  DEF IInv
<1> QED
  BY <1>1, InitIInv, PTL DEF Spec

(* The variables of the PLC's supervisor keep their types: the queues of    *)
(* the listener hold requests of clients, whatever fails.                   *)
THEOREM TypeCorrect == Spec => []TypeOK
<1>1. IInv => TypeOK
  BY DEF IInv
<1> QED
  BY <1>1, Inductive, PTL

(* However many clients call, record and hang up, the listener's loop does  *)
(* not end by an exception, as long as nobody asked too early and nothing   *)
(* failed outside.                                                          *)
THEOREM ListenerSurvivesHolds == Spec => []ListenerSurvives
<1>1. IInv => ListenerSurvives
  BY DEF IInv
<1> QED
  BY <1>1, Inductive, PTL

(* The Modbus server on the port serves the blocks that changes are written *)
(* to, after any number of starts and stops.                                *)
THEOREM BlocksServedHolds == Spec => []BlocksServed
<1>1. IInv => BlocksServed
  BY DEF IInv, Served, LastServed, BlocksServed
<1> QED
  BY <1>1, Inductive, PTL
============================================================================
