------------------------ MODULE PlcSupervisorProofs ------------------------
(* Proofs about PlcSupervisor for any number of variables, clients, Modbus  *)
(* handlers, writes and restarts.                                           *)
EXTENDS PlcSupervisor, FiniteSetTheorems, SequenceTheorems, TLAPS

Places == {"idle", "callback", "write", "sync", "compare", "loop", "index",
           "del", "store", "telling"}

Jobs == [v : Vars \union {NoValue}, new : Values \union {NoValue}, i : Nat,
         w : Watchers \union {NoValue}, k : Nat, todo : SUBSET Watchers, dels : Nat]

TypeOK ==
    /\ cvar \in [Vars -> Values] /\ blk \in [Vars -> Values]
    /\ cache \in [Vars -> Values \union {NoValue}]
    /\ conn_watcher \in Seq(Watchers)
    /\ subs \in [Watchers -> SUBSET Vars]
    /\ peer \in [Watchers -> {"none", "up", "down"}]
    /\ view \in [Watchers -> [Vars -> Values \union {NoValue}]]
    /\ at \in [Threads -> Places] /\ job \in [Threads -> Jobs]
    /\ plc \in {"running", "stopping", "stopped", "starting"}
    /\ listener \in {"serving", "ending", "closed", "dead"}
    /\ told \subseteq Watchers /\ restarts \in Nat /\ writes \in Nat
    /\ touched \subseteq Vars /\ unsettled \subseteq Vars
    /\ everUnsettled \subseteq Vars /\ lateSubs \subseteq Watchers \X Vars

(* What the place of a thread says about its job: in particular, only a     *)
(* client that has gone is looked for in the list.                          *)
Placed(t) ==
    /\ at[t] = "idle" => job[t] = NoJob
    /\ at[t] \notin {"idle", "telling"} => job[t].v \in Vars
    /\ at[t] \notin {"idle", "telling", "callback"} => job[t].new \in Values
    /\ at[t] \in {"loop", "index", "del", "telling"} => job[t].i >= 1
    /\ at[t] \in {"index", "del"} => job[t].w \in Watchers /\ peer[job[t].w] = "down"
    /\ at[t] = "del" => job[t].k >= 1
    /\ at[t] = "telling" => t = "listener" /\ job[t].v = NoValue

(* A variable whose last write was not disturbed: one thread at most is on  *)
(* its way with the value of the variable; what it has passed has the value *)
(* already, unless another is about to write.                               *)
Mirrored(v) ==
    v \in touched \ unsettled =>
        /\ \A t, u \in Propagating(v) : t = u
        /\ \A t \in Propagating(v) : at[t] # "callback" => job[t].new = cvar[v]
        /\ Propagating(v) = {} => cache[v] = cvar[v]
        /\ (\A t \in Pending(v) : at[t] \notin {"write", "callback", "sync"})
             => blk[v] = cvar[v]

NoneGone == \A u \in Watchers : peer[u] # "down"

(* A variable that was never disturbed: its clients have the cached value   *)
(* until the loop has come to them, then the one that will be cached.       *)
Viewed(v) ==
    v \notin everUnsettled =>
        /\ \A t, u \in Propagating(v) : t = u
        /\ NoneGone =>
             \A k \in 1..Len(conn_watcher) :
               v \in subs[conn_watcher[k]] /\ <<conn_watcher[k], v>> \notin lateSubs =>
                 /\ (\A t \in Propagating(v) : at[t] \in {"callback", "sync", "compare"})
                      => view[conn_watcher[k]][v] = cache[v]
                 /\ \A t \in Propagating(v) :
                      at[t] = "store" \/ (at[t] = "loop" /\ k < job[t].i)
                        => view[conn_watcher[k]][v] = job[t].new

(* The clients that the loop of t will still come to, as the list is now,   *)
(* and those to be told that it will not.                                   *)
Ahead(t) ==
    CASE at[t] = "loop" -> {conn_watcher[j] : j \in job[t].i .. Len(conn_watcher)}
      [] at[t] \in {"index", "del"} ->
           {conn_watcher[j] : j \in job[t].i + 1 .. Len(conn_watcher)}
      [] OTHER -> {}

Missed(t) == job[t].todo \ Ahead(t)

(* Each deletion costs the loop one client. *)
Skipped(t) ==
    at[t] \in {"loop", "index", "del", "store"} =>
        IsFiniteSet(job[t].todo) /\ Cardinality(Missed(t)) <= job[t].dels

(* The clients that the listener has passed have been told; nobody is taken *)
(* out of the list while all clients are there, and nobody gets in after a  *)
(* Terminate.                                                               *)
Telling ==
    /\ listener # "serving" => at["listener"] = "idle"
    /\ NoneGone =>
         \A j \in 1..Len(conn_watcher) :
           (\/ listener \in {"ending", "closed"}
            \/ at["listener"] = "telling" /\ j < job["listener"].i)
             => conn_watcher[j] \in told
    /\ plc \in {"stopped", "starting"} => at["plc"] = "idle"
    /\ listener = "closed" => plc = "stopped"

(* The inductive invariant. *)
IInv ==
    /\ TypeOK /\ Telling
    /\ \A t \in Threads : Placed(t) /\ Skipped(t)
    /\ \A v \in Vars : Mirrored(v) /\ Viewed(v)

---------------------------------------------------------------------------
(* What taking one element out of a sequence leaves. *)
LEMMA RemoveAtFacts ==
  ASSUME NEW S, NEW s \in Seq(S), NEW n \in 1..Len(s)
  PROVE  /\ RemoveAt(s, n) \in Seq(S)
         /\ Len(RemoveAt(s, n)) = Len(s) - 1
         /\ \A j \in 1..Len(s) - 1 : RemoveAt(s, n)[j] = IF j < n THEN s[j] ELSE s[j + 1]
<1> DEFINE before == SubSeq(s, 1, n - 1)
           behind == SubSeq(s, n + 1, Len(s))
<1>1. Len(s) \in Nat /\ n \in Nat /\ \A i \in 1..Len(s) : s[i] \in S
  BY ElementOfSeq, LenProperties
<1>2. /\ before \in Seq(S) /\ Len(before) = n - 1
      /\ \A i \in 1..n - 1 : before[i] = s[i]
  <2>1. \A i \in 1..n - 1 : s[i] \in S
    BY <1>1
  <2>2. /\ before \in Seq(S)
        /\ Len(before) = IF 1 <= n - 1 THEN n - 1 - 1 + 1 ELSE 0
        /\ \A i \in 1 .. n - 1 - 1 + 1 : before[i] = s[1 + i - 1]
    BY <1>1, <2>1, SubSeqProperties
  <2> QED
    BY <1>1, <2>2
<1>3. /\ behind \in Seq(S) /\ Len(behind) = Len(s) - n
      /\ \A i \in 1..Len(s) - n : behind[i] = s[n + i]
  <2>1. \A i \in n + 1 .. Len(s) : s[i] \in S
    BY <1>1
  <2>2. /\ behind \in Seq(S)
        /\ Len(behind) = IF n + 1 <= Len(s) THEN Len(s) - (n + 1) + 1 ELSE 0
        /\ \A i \in 1 .. Len(s) - (n + 1) + 1 : behind[i] = s[n + 1 + i - 1]
    BY <1>1, <2>1, SubSeqProperties
  <2> QED
    BY <1>1, <2>2
<1>4. RemoveAt(s, n) = before \o behind
  BY DEF RemoveAt
<1> HIDE DEF before, behind
<1>5. /\ before \o behind \in Seq(S)
      /\ Len(before \o behind) = Len(before) + Len(behind)
      /\ \A i \in 1 .. Len(before) + Len(behind) :
           (before \o behind)[i] = IF i <= Len(before) THEN before[i]
                                   ELSE behind[i - Len(before)]
  BY <1>2, <1>3, ConcatProperties
<1>6. ASSUME NEW j \in 1..Len(s) - 1
      PROVE  RemoveAt(s, n)[j] = IF j < n THEN s[j] ELSE s[j + 1]
  BY <1>1, <1>2, <1>3, <1>4, <1>5
<1> QED
  BY <1>1, <1>2, <1>3, <1>4, <1>5, <1>6

---------------------------------------------------------------------------
(* Every step keeps the types. *)
LEMMA StepTypeOK ==
  ASSUME TypeOK, \A t \in Threads : Placed(t), [Next]_vars
  PROVE  TypeOK'
<1> USE SupervisorAssumption DEF values, clients, control, history
<1>1. NoJob \in Jobs
  BY DEF NoJob, Jobs
<1>2. "listener" \in Threads /\ "plc" \in Threads
  BY DEF Threads
<1>3. ASSUME NEW t \in Threads, NEW l \in Places, at' = [at EXCEPT ![t] = l]
      PROVE  at' \in [Threads -> Places]
  BY <1>3 DEF TypeOK
<1>4. ASSUME NEW t \in Threads, NEW r \in Jobs, job' = [job EXCEPT ![t] = r]
      PROVE  job' \in [Threads -> Jobs]
  BY <1>4 DEF TypeOK
<1>5. ASSUME NEW t \in Threads, NEW v \in Vars, NEW x \in Values,
             NEW Z \in SUBSET Vars, WriteVar(t, v, x, Z)
      PROVE  /\ cvar' \in [Vars -> Values]
             /\ touched' \subseteq Vars /\ unsettled' \subseteq Vars
             /\ everUnsettled' \subseteq Vars
  BY <1>5 DEF TypeOK, WriteVar
<1>6. ASSUME NEW v \in Vars, NEW x \in Values, Assign(v, x)
      PROVE  TypeOK'
  <2>1. job["plc"] \in Jobs
    BY <1>2 DEF TypeOK
  <2>2. [job["plc"] EXCEPT !.v = v] \in Jobs
    BY <2>1 DEF Jobs
  <2>3. job' \in [Threads -> Jobs]
    BY <1>2, <1>4, <1>6, <2>2 DEF Assign
  <2>4. at' \in [Threads -> Places]
    BY <1>2, <1>3, <1>6 DEF Assign, Goto, Places
  <2>5. writes' \in Nat
    BY <1>6 DEF Assign, CountWrite, TypeOK
  <2> QED
    BY <1>2, <1>5, <1>6, <2>3, <2>4, <2>5 DEF Assign, TypeOK
<1>7. ASSUME NEW v \in Vars, NEW x \in Values, SetTag(v, x)
      PROVE  TypeOK'
  <2>1. job["listener"] \in Jobs
    BY <1>2 DEF TypeOK
  <2>2. [job["listener"] EXCEPT !.v = v, !.new = x] \in Jobs
    BY <2>1 DEF Jobs
  <2>3. job' \in [Threads -> Jobs]
    BY <1>2, <1>4, <1>7, <2>2 DEF SetTag
  <2>4. at' \in [Threads -> Places]
    BY <1>2, <1>3, <1>7 DEF SetTag, Goto, Places
  <2>5. writes' \in Nat
    BY <1>7 DEF SetTag, CountWrite, TypeOK
  <2> QED
    BY <1>7, <2>3, <2>4, <2>5 DEF SetTag, TypeOK
<1>8. ASSUME NEW t \in Setters, NEW v \in Vars, NEW x \in Values, ModbusWrite(t, v, x)
      PROVE  TypeOK'
  <2>1. t \in Threads /\ job[t] \in Jobs
    BY DEF TypeOK, Threads
  <2>2. [job[t] EXCEPT !.v = v, !.new = x] \in Jobs
    BY <2>1 DEF Jobs
  <2>3. job' \in [Threads -> Jobs]
    BY <1>4, <1>8, <2>1, <2>2 DEF ModbusWrite
  <2>4. at' \in [Threads -> Places]
    BY <1>3, <1>8, <2>1 DEF ModbusWrite, Goto, Places
  <2>5. writes' \in Nat /\ blk' \in [Vars -> Values]
    <3>1. blk' = [blk EXCEPT ![v] = x] \/ UNCHANGED blk
      BY <1>8 DEF ModbusWrite
    <3> QED
      BY <1>8, <3>1 DEF ModbusWrite, CountWrite, TypeOK
  <2> QED
    BY <1>8, <2>3, <2>4, <2>5 DEF ModbusWrite, TypeOK
<1>9. CASE Callback
  <2>1. job["plc"] \in Jobs /\ job["plc"].v \in Vars
    BY <1>2, <1>9 DEF TypeOK, Placed, Callback
  <2>2. cvar[job["plc"].v] \in Values
    BY <2>1 DEF TypeOK
  <2>3. [job["plc"] EXCEPT !.new = cvar[job["plc"].v]] \in Jobs
    BY <2>1, <2>2 DEF Jobs
  <2>4. job' \in [Threads -> Jobs]
    BY <1>2, <1>4, <1>9, <2>3 DEF Callback
  <2>5. at' \in [Threads -> Places]
    BY <1>2, <1>3, <1>9 DEF Callback, Goto, Places
  <2> QED
    BY <1>9, <2>4, <2>5 DEF Callback, TypeOK
<1>10. ASSUME NEW t \in Threads, SetVar(t)
      PROVE  TypeOK'
  <2>1. job[t].v \in Vars /\ job[t].new \in Values
    BY <1>10 DEF SetVar, Placed
  <2>2. at' \in [Threads -> Places]
    BY <1>3, <1>10 DEF SetVar, Goto, Places
  <2>3. Overrun[job[t].v] \in SUBSET Vars
    BY <2>1, NeighboursAssumption
  <2> QED
    BY <1>5, <1>10, <2>1, <2>2, <2>3 DEF SetVar, TypeOK
<1>11. ASSUME NEW t \in Threads, SyncBlock(t)
      PROVE  TypeOK'
  <2>1. job[t].v \in Vars /\ job[t].new \in Values
    BY <1>11 DEF SyncBlock, Placed
  <2>2. at' \in [Threads -> Places]
    BY <1>3, <1>11 DEF SyncBlock, Goto, Places
  <2>3. blk' \in [Vars -> Values]
    BY <1>11, <2>1 DEF SyncBlock, TypeOK
  <2> QED
    BY <1>11, <2>2, <2>3 DEF SyncBlock, TypeOK
<1>12. ASSUME NEW t \in Threads, Compare(t)
      PROVE  TypeOK'
  <2> DEFINE T == {w \in Range(conn_watcher) : job[t].v \in subs[w]}
  <2>1. job[t] \in Jobs /\ Range(conn_watcher) \subseteq Watchers
    BY RangeOfSeq DEF TypeOK
  <2>2. T \in SUBSET Watchers
    BY <2>1
  <2> HIDE DEF T
  <2>3. [job[t] EXCEPT !.i = 1, !.todo = T] \in Jobs
    BY <2>1, <2>2 DEF Jobs
  <2>4. \/ /\ job' = [job EXCEPT ![t] = [@ EXCEPT !.i = 1, !.todo = T]]
           /\ at' = [at EXCEPT ![t] = "loop"]
        \/ job' = [job EXCEPT ![t] = NoJob] /\ at' = [at EXCEPT ![t] = "idle"]
    BY <1>12 DEF Compare, Finish, Goto, T
  <2>5. job' \in [Threads -> Jobs]
    BY <1>1, <1>4, <2>3, <2>4
  <2>6. at' \in [Threads -> Places]
    BY <1>3, <2>4 DEF Places
  <2> QED
    BY <1>12, <2>5, <2>6 DEF Compare, TypeOK
<1>13. ASSUME NEW t \in Threads, LoopNext(t)
      PROVE  TypeOK'
  <2> DEFINE j == job[t]
             w == conn_watcher[j.i]
  <2>1. j \in Jobs /\ j.i \in Nat /\ j.i >= 1 /\ j.v \in Vars /\ j.new \in Values
    BY <1>13 DEF LoopNext, Placed, Jobs, TypeOK
  <2>2. w \in Watchers
    <3>1. conn_watcher \in Seq(Watchers) /\ j.i <= Len(conn_watcher)
      BY <1>13 DEF TypeOK, LoopNext
    <3> QED
      BY <2>1, <3>1, ElementOfSeq
  <2> HIDE DEF w
  <2>3. j.todo \ {w} \in SUBSET Watchers /\ j.i + 1 \in Nat
    BY <2>1 DEF Jobs
  <2>4. /\ [j EXCEPT !.w = w, !.todo = j.todo \ {w}] \in Jobs
        /\ [j EXCEPT !.i = j.i + 1, !.todo = j.todo \ {w}] \in Jobs
    BY <2>1, <2>2, <2>3 DEF Jobs
  <2>5. \/ job' = [job EXCEPT ![t] = [j EXCEPT !.w = w, !.todo = j.todo \ {w}]]
        \/ job' = [job EXCEPT ![t] = [j EXCEPT !.i = j.i + 1, !.todo = j.todo \ {w}]]
    BY <1>13 DEF LoopNext, w
  <2>6. job' \in [Threads -> Jobs]
    BY <1>4, <2>4, <2>5
  <2>7. view' = view \/ view' = [view EXCEPT ![w][j.v] = j.new]
    BY <1>13 DEF LoopNext, w
  <2>8. view' \in [Watchers -> [Vars -> Values \union {NoValue}]]
    <3>1. view \in [Watchers -> [Vars -> Values \union {NoValue}]]
      BY DEF TypeOK
    <3>2. view[w] \in [Vars -> Values \union {NoValue}]
      BY <2>2, <3>1
    <3>3. [view[w] EXCEPT ![j.v] = j.new] \in [Vars -> Values \union {NoValue}]
      BY <2>1, <3>2
    <3>4. view' = view \/ view' = [view EXCEPT ![w] = [view[w] EXCEPT ![j.v] = j.new]]
      BY <2>7
    <3> QED
      BY <2>2, <3>1, <3>3, <3>4
  <2>9. at' \in [Threads -> Places]
    BY <1>13 DEF LoopNext, Goto, Places, TypeOK
  <2> QED
    BY <1>13, <2>6, <2>8, <2>9 DEF LoopNext, TypeOK
<1>14. ASSUME NEW t \in Threads, LoopEnd(t)
      PROVE  TypeOK'
  BY <1>14 DEF LoopEnd, Goto, Places, TypeOK
<1>15. ASSUME NEW t \in Threads, Abort(t), job[t].v \in Vars
      PROVE  /\ job' \in [Threads -> Jobs] /\ at' \in [Threads -> Places]
             /\ unsettled' \subseteq Vars /\ everUnsettled' \subseteq Vars
             /\ listener' \in {"serving", "ending", "closed", "dead"}
  BY <1>1, <1>3, <1>4, <1>15 DEF Abort, Finish, Goto, Places, TypeOK
<1>16. ASSUME NEW t \in Threads, FindDead(t)
      PROVE  TypeOK'
  <2>1. job[t] \in Jobs /\ job[t].v \in Vars
    BY <1>16 DEF FindDead, Placed, TypeOK
  <2>2. CASE Contains(conn_watcher, job[t].w)
    <3> DEFINE K == CHOOSE k \in DOMAIN conn_watcher : conn_watcher[k] = job[t].w
    <3>1. K \in Nat
      <4>1. DOMAIN conn_watcher = 1..Len(conn_watcher) /\ Len(conn_watcher) \in Nat
        BY LenProperties DEF TypeOK
      <4>2. \E k \in DOMAIN conn_watcher : conn_watcher[k] = job[t].w
        BY <2>2, <4>1 DEF Contains
      <4>3. K \in DOMAIN conn_watcher
        BY <4>2, Zenon
      <4> QED
        BY <4>1, <4>3
    <3> HIDE DEF K
    <3>2. [job[t] EXCEPT !.k = K] \in Jobs
      BY <2>1, <3>1 DEF Jobs
    <3>3. job' = [job EXCEPT ![t] = [@ EXCEPT !.k = K]] /\ at' = [at EXCEPT ![t] = "del"]
      BY <1>16, <2>2 DEF FindDead, Goto, K
    <3>4. job' \in [Threads -> Jobs] /\ at' \in [Threads -> Places]
      BY <1>3, <1>4, <3>2, <3>3 DEF Places
    <3> QED
      BY <1>16, <2>2, <3>4 DEF FindDead, TypeOK
  <2>3. CASE ~Contains(conn_watcher, job[t].w)
    BY <1>15, <1>16, <2>1, <2>3 DEF FindDead, TypeOK
  <2> QED
    BY <2>2, <2>3
<1>17. ASSUME NEW t \in Threads, DeleteDead(t)
      PROVE  TypeOK'
  <2>1. job[t] \in Jobs /\ job[t].v \in Vars /\ job[t].k >= 1 /\ job[t].k \in Nat
    BY <1>17 DEF DeleteDead, Placed, TypeOK, Jobs
  <2>2. CASE job[t].k <= Len(conn_watcher)
    <3>1. conn_watcher' \in Seq(Watchers)
      <4>1. conn_watcher \in Seq(Watchers) /\ job[t].k \in 1..Len(conn_watcher)
        BY <2>1, <2>2 DEF TypeOK
      <4> QED
        BY <1>17, <2>2, <4>1, RemoveAtFacts DEF DeleteDead
    <3>2. ASSUME NEW u \in Threads
          PROVE  /\ [job[u] EXCEPT !.dels = @ + 1] \in Jobs
                 /\ [job[u] EXCEPT !.i = @ + 1, !.w = NoValue, !.k = 0,
                                   !.dels = @ + 1] \in Jobs
      <4>1. job[u] \in Jobs
        BY DEF TypeOK
      <4>2. job[u].dels + 1 \in Nat /\ job[u].i + 1 \in Nat
        BY <4>1 DEF Jobs
      <4> QED
        BY <4>1, <4>2 DEF Jobs
    <3>3. job' \in [Threads -> Jobs]
      <4>1. job' = [u \in Threads |->
                 IF u = t
                 THEN [job[u] EXCEPT !.i = @ + 1, !.w = NoValue, !.k = 0,
                                     !.dels = @ + 1]
                 ELSE IF at[u] \in {"loop", "index", "del"}
                      THEN [job[u] EXCEPT !.dels = @ + 1] ELSE job[u]]
        BY <1>17, <2>2 DEF DeleteDead
      <4>2. \A u \in Threads : job[u] \in Jobs
        BY DEF TypeOK
      <4> DEFINE one(u) == [job[u] EXCEPT !.i = @ + 1, !.w = NoValue, !.k = 0,
                                          !.dels = @ + 1]
                 two(u) == [job[u] EXCEPT !.dels = @ + 1]
      <4>3. \A u \in Threads : one(u) \in Jobs /\ two(u) \in Jobs
        BY <3>2
      <4>4. job' = [u \in Threads |->
                 IF u = t THEN one(u)
                 ELSE IF at[u] \in {"loop", "index", "del"} THEN two(u) ELSE job[u]]
        BY <4>1
      <4> HIDE DEF one, two
      <4> QED
        BY <4>2, <4>3, <4>4
    <3>4. at' \in [Threads -> Places]
      BY <1>3, <1>17, <2>2 DEF DeleteDead, Goto, Places
    <3> QED
      BY <1>17, <2>2, <3>1, <3>3, <3>4 DEF DeleteDead, TypeOK
  <2>3. CASE ~(job[t].k <= Len(conn_watcher))
    BY <1>15, <1>17, <2>1, <2>3 DEF DeleteDead, TypeOK
  <2> QED
    BY <2>2, <2>3
<1>18. ASSUME NEW t \in Threads, StoreValue(t)
      PROVE  TypeOK'
  <2>1. job[t].v \in Vars /\ job[t].new \in Values
    BY <1>18 DEF StoreValue, Placed
  <2>2. at' \in [Threads -> Places] /\ job' \in [Threads -> Jobs]
    BY <1>1, <1>3, <1>4, <1>18 DEF StoreValue, Finish, Goto, Places
  <2>3. cache' \in [Vars -> Values \union {NoValue}]
    BY <1>18, <2>1 DEF StoreValue, TypeOK
  <2> QED
    BY <1>18, <2>2, <2>3 DEF StoreValue, TypeOK
<1>19. ASSUME NEW w \in Watchers, NEW V \in SUBSET Vars, Monitor(w, V)
      PROVE  TypeOK'
  <2>1. conn_watcher' \in Seq(Watchers)
    <3>1. conn_watcher \in Seq(Watchers) /\ conn_watcher' = Append(conn_watcher, w)
      BY <1>19 DEF Monitor, TypeOK
    <3> QED
      BY <3>1, AppendProperties
  <2>2. view' \in [Watchers -> [Vars -> Values \union {NoValue}]]
    BY <1>19 DEF Monitor, TypeOK
  <2> DEFINE late == {u \in V : Propagating(u) # {}}
  <2>3. lateSubs' \subseteq Watchers \X Vars
    <3>1. late \subseteq Vars
      OBVIOUS
    <3>2. lateSubs' = lateSubs \union {<<w, v>> : v \in late}
      BY <1>19 DEF Monitor
    <3> HIDE DEF late
    <3> QED
      BY <3>1, <3>2 DEF TypeOK
  <2>4. /\ subs' \in [Watchers -> SUBSET Vars]
        /\ peer' \in [Watchers -> {"none", "up", "down"}]
    BY <1>19 DEF Monitor, TypeOK
  <2> QED
    BY <1>19, <2>1, <2>2, <2>3, <2>4 DEF Monitor, TypeOK
<1>20. ASSUME NEW w \in Watchers, Disconnect(w)
      PROVE  TypeOK'
  BY <1>20 DEF Disconnect, TypeOK
<1>21. CASE StopPlc \/ StopReturn
  BY <1>21 DEF StopPlc, StopReturn, TypeOK
<1>22. CASE StartPlc \/ StartReturn
  BY <1>22 DEF StartPlc, StartReturn, TypeOK
<1>23. CASE Terminate
  <2>1. [job["listener"] EXCEPT !.i = 1] \in Jobs
    BY <1>2 DEF TypeOK, Jobs
  <2>2. at' \in [Threads -> Places] /\ job' \in [Threads -> Jobs]
    BY <1>2, <1>3, <1>4, <1>23, <2>1 DEF Terminate, Goto, Places
  <2> QED
    BY <1>23, <2>2 DEF Terminate, TypeOK
<1>24. CASE TellNext
  <2> DEFINE j == job["listener"]
             w == conn_watcher[j.i]
  <2>1. j \in Jobs /\ j.i \in Nat /\ j.i >= 1
    BY <1>2, <1>24 DEF TellNext, Placed, Jobs, TypeOK
  <2>2. w \in Watchers
    <3>1. conn_watcher \in Seq(Watchers) /\ j.i <= Len(conn_watcher)
      BY <1>24 DEF TypeOK, TellNext
    <3> QED
      BY <2>1, <3>1, ElementOfSeq
  <2> HIDE DEF w
  <2>3. [j EXCEPT !.i = j.i + 1] \in Jobs
    BY <2>1 DEF Jobs
  <2>4. \/ Finish("listener") /\ told' = told /\ listener' = "dead"
        \/ /\ job' = [job EXCEPT !["listener"] = [j EXCEPT !.i = j.i + 1]]
           /\ told' = told \union {w} /\ UNCHANGED <<at, listener>>
    BY <1>24 DEF TellNext, w
  <2>5. job' \in [Threads -> Jobs] /\ at' \in [Threads -> Places]
    BY <1>1, <1>2, <1>3, <1>4, <2>3, <2>4 DEF Finish, Goto, Places, TypeOK
  <2> QED
    BY <1>24, <2>2, <2>4, <2>5 DEF TellNext, TypeOK
<1>25. CASE TellEnd
  <2>1. at' \in [Threads -> Places] /\ job' \in [Threads -> Jobs]
    BY <1>1, <1>2, <1>3, <1>4, <1>25 DEF TellEnd, Finish, Goto, Places
  <2> QED
    BY <1>25, <2>1 DEF TellEnd, TypeOK
<1>26. CASE CloseListener
  BY <1>26 DEF CloseListener, TypeOK
<1>27. CASE UNCHANGED vars
  BY <1>27 DEF vars, TypeOK
<1> QED
  BY NeighboursAssumption, <1>6, <1>7, <1>8, <1>9, <1>10, <1>11, <1>12, <1>13, <1>14, <1>16, <1>17,
     <1>18, <1>19, <1>20, <1>21, <1>22, <1>23, <1>24, <1>25, <1>26, <1>27
     DEF Next, Propagate

---------------------------------------------------------------------------
(* What each step does to the threads: one moves, the others stay.          *)
OthersStay(t) == \A u \in Threads \ {t} : at'[u] = at[u] /\ job'[u] = job[u]

Carries(t) == job'[t].v = job[t].v /\ job'[t].new = job[t].new

LEMMA GotoMoves ==
  ASSUME TypeOK, NEW t \in Threads, NEW l, NEW r, Goto(t, l),
         job' = [job EXCEPT ![t] = r]
  PROVE  at'[t] = l /\ job'[t] = r /\ OthersStay(t)
BY DEF TypeOK, Goto, OthersStay

LEMMA StartMoves ==
  ASSUME TypeOK, NEW v \in Vars, NEW x \in Values, NEW t \in Threads,
         \/ Assign(v, x) /\ t = "plc"
         \/ SetTag(v, x) /\ t = "listener"
         \/ ModbusWrite(t, v, x)
  PROVE  /\ at[t] = "idle" /\ at'[t] \in {"callback", "write"}
         /\ at'[t] = "callback" <=> Assign(v, x)
         /\ job'[t].v = v
         /\ at'[t] = "write" => job'[t].new = x
         /\ OthersStay(t)
<1> DEFINE j == job[t]
<1>1. j \in Jobs
  BY DEF TypeOK
<1>2. CASE Assign(v, x) /\ t = "plc"
  <2>1. /\ Goto(t, "callback") /\ job' = [job EXCEPT ![t] = [j EXCEPT !.v = v]]
        /\ at[t] = "idle"
    BY <1>2 DEF Assign
  <2>2. [j EXCEPT !.v = v].v = v
    BY <1>1 DEF Jobs
  <2> HIDE DEF j
  <2> QED
    BY <1>2, <2>1, <2>2, GotoMoves
<1>3. CASE (SetTag(v, x) /\ t = "listener") \/ ModbusWrite(t, v, x)
  <2>1. /\ Goto(t, "write") /\ job' = [job EXCEPT ![t] = [j EXCEPT !.v = v, !.new = x]]
        /\ at[t] = "idle"
    BY <1>3 DEF SetTag, ModbusWrite, ListenerFree
  <2>2. [j EXCEPT !.v = v, !.new = x].v = v /\ [j EXCEPT !.v = v, !.new = x].new = x
    BY <1>1 DEF Jobs
  <2>3. at'[t] = "write" /\ job'[t].v = v /\ job'[t].new = x /\ OthersStay(t)
    <3> HIDE DEF j
    <3> QED
      BY <2>1, <2>2, GotoMoves
  <2>4. ~Assign(v, x)
    <3>1. "plc" \in Threads
      BY DEF Threads
    <3>2. Assign(v, x) => at'["plc"] = "callback" /\ at["plc"] = "idle"
      BY <3>1 DEF Assign, Goto, TypeOK
    <3> QED
      BY <2>3, <3>1, <3>2 DEF OthersStay
  <2> QED
    BY <2>1, <2>3, <2>4
<1> QED
  BY <1>2, <1>3

LEMMA CallbackMoves ==
  ASSUME TypeOK, Callback
  PROVE  /\ at["plc"] = "callback" /\ at'["plc"] = "sync"
         /\ job'["plc"].v = job["plc"].v
         /\ job'["plc"].new = cvar[job["plc"].v]
         /\ OthersStay("plc")
<1> DEFINE j == job["plc"]
<1>1. "plc" \in Threads /\ j \in Jobs
  BY DEF TypeOK, Threads
<1>2. /\ Goto("plc", "sync") /\ at["plc"] = "callback"
      /\ job' = [job EXCEPT !["plc"] = [j EXCEPT !.new = cvar[j.v]]]
  BY DEF Callback
<1>3. [j EXCEPT !.new = cvar[j.v]].v = j.v /\ [j EXCEPT !.new = cvar[j.v]].new = cvar[j.v]
  BY <1>1 DEF Jobs
<1>4. \A r : job' = [job EXCEPT !["plc"] = r] =>
                at'["plc"] = "sync" /\ job'["plc"] = r /\ OthersStay("plc")
  BY <1>1, <1>2, GotoMoves
<1> QED
  BY <1>2, <1>3, <1>4

LEMMA CompareMoves ==
  ASSUME TypeOK, NEW t \in Threads, Compare(t)
  PROVE  /\ at[t] = "compare" /\ OthersStay(t)
         /\ \/ /\ Changed(job[t].v, job[t].new) /\ at'[t] = "loop" /\ Carries(t)
               /\ job'[t].i = 1
               /\ job'[t].todo = {w \in Range(conn_watcher) : job[t].v \in subs[w]}
               /\ job'[t].dels = job[t].dels
            \/ /\ ~Changed(job[t].v, job[t].new)
               /\ at'[t] = "idle" /\ job'[t] = NoJob
<1> DEFINE j == job[t]
           T == {w \in Range(conn_watcher) : j.v \in subs[w]}
<1>1. j \in Jobs
  BY DEF TypeOK
<1>2. CASE Changed(j.v, j.new)
  <2>1. Goto(t, "loop") /\ job' = [job EXCEPT ![t] = [j EXCEPT !.i = 1, !.todo = T]]
    BY <1>2 DEF Compare
  <2> HIDE DEF T
  <2>2. /\ [j EXCEPT !.i = 1, !.todo = T].v = j.v
        /\ [j EXCEPT !.i = 1, !.todo = T].new = j.new
        /\ [j EXCEPT !.i = 1, !.todo = T].i = 1
        /\ [j EXCEPT !.i = 1, !.todo = T].todo = T
        /\ [j EXCEPT !.i = 1, !.todo = T].dels = j.dels
    BY <1>1 DEF Jobs
  <2>3. /\ at'[t] = "loop" /\ job'[t] = [j EXCEPT !.i = 1, !.todo = T]
        /\ OthersStay(t)
    BY <2>1, GotoMoves
  <2> QED
    BY <1>2, <2>2, <2>3 DEF Carries, Compare, T
<1>3. CASE ~Changed(j.v, j.new)
  <2>1. Goto(t, "idle") /\ job' = [job EXCEPT ![t] = NoJob]
    BY <1>3 DEF Compare, Finish
  <2> QED
    BY <1>3, <2>1, GotoMoves DEF Compare
<1> QED
  BY <1>2, <1>3

LEMMA LoopNextMoves ==
  ASSUME TypeOK, NEW t \in Threads, LoopNext(t), Placed(t)
  PROVE  /\ at[t] = "loop" /\ OthersStay(t) /\ Carries(t)
         /\ job[t].i \in 1..Len(conn_watcher)
         /\ conn_watcher[job[t].i] \in Watchers
         /\ job'[t].todo = job[t].todo \ {conn_watcher[job[t].i]}
         /\ job'[t].dels = job[t].dels
         /\ \/ /\ peer[conn_watcher[job[t].i]] = "down" /\ at'[t] = "index"
               /\ job'[t].w = conn_watcher[job[t].i] /\ job'[t].i = job[t].i
               /\ view' = view
            \/ /\ ~(job[t].v \in subs[conn_watcher[job[t].i]]
                      /\ peer[conn_watcher[job[t].i]] = "down")
               /\ at'[t] = "loop" /\ job'[t].i = job[t].i + 1
               /\ view' = IF job[t].v \in subs[conn_watcher[job[t].i]]
                          THEN [view EXCEPT ![conn_watcher[job[t].i]][job[t].v] = job[t].new]
                          ELSE view
<1> DEFINE j == job[t]
           w == conn_watcher[j.i]
<1>1. j \in Jobs /\ j.i \in Nat /\ j.i >= 1
  BY DEF TypeOK, Jobs, LoopNext, Placed
<1>2. j.i \in 1..Len(conn_watcher) /\ w \in Watchers
  <2>1. conn_watcher \in Seq(Watchers) /\ j.i <= Len(conn_watcher)
    BY DEF TypeOK, LoopNext
  <2> QED
    BY <1>1, <2>1, ElementOfSeq, LenProperties
<1> HIDE DEF w
<1> DEFINE T == j.todo \ {w}
<1>3. CASE j.v \in subs[w] /\ peer[w] = "down"
  <2>1. Goto(t, "index") /\ job' = [job EXCEPT ![t] = [j EXCEPT !.w = w, !.todo = T]]
        /\ view' = view
    BY <1>3 DEF LoopNext, w
  <2> HIDE DEF T
  <2>2. /\ [j EXCEPT !.w = w, !.todo = T].v = j.v
        /\ [j EXCEPT !.w = w, !.todo = T].new = j.new
        /\ [j EXCEPT !.w = w, !.todo = T].i = j.i
        /\ [j EXCEPT !.w = w, !.todo = T].w = w
        /\ [j EXCEPT !.w = w, !.todo = T].todo = T
        /\ [j EXCEPT !.w = w, !.todo = T].dels = j.dels
    BY <1>1 DEF Jobs
  <2>3. /\ at'[t] = "index" /\ job'[t] = [j EXCEPT !.w = w, !.todo = T]
        /\ OthersStay(t)
    BY <2>1, GotoMoves
  <2> QED
    BY <1>2, <1>3, <2>1, <2>2, <2>3 DEF Carries, LoopNext, w, T
<1>4. CASE ~(j.v \in subs[w] /\ peer[w] = "down")
  <2> DEFINE n == j.i + 1
  <2>1. /\ at' = at /\ job' = [job EXCEPT ![t] = [j EXCEPT !.i = n, !.todo = T]]
        /\ view' = IF j.v \in subs[w] THEN [view EXCEPT ![w][j.v] = j.new] ELSE view
    BY <1>4 DEF LoopNext, w
  <2> HIDE DEF T, n
  <2>2. /\ [j EXCEPT !.i = n, !.todo = T].v = j.v
        /\ [j EXCEPT !.i = n, !.todo = T].new = j.new
        /\ [j EXCEPT !.i = n, !.todo = T].i = n
        /\ [j EXCEPT !.i = n, !.todo = T].todo = T
        /\ [j EXCEPT !.i = n, !.todo = T].dels = j.dels
    BY <1>1 DEF Jobs
  <2>3. at'[t] = at[t] /\ job'[t] = [j EXCEPT !.i = n, !.todo = T] /\ OthersStay(t)
    BY <2>1 DEF OthersStay, TypeOK
  <2> QED
    BY <1>2, <1>4, <2>1, <2>2, <2>3 DEF Carries, LoopNext, w, T, n
<1> QED
  BY <1>3, <1>4

LEMMA FinishMoves ==
  ASSUME TypeOK, NEW t \in Threads, Finish(t)
  PROVE  at'[t] = "idle" /\ job'[t] = NoJob /\ OthersStay(t)
BY GotoMoves DEF Finish

LEMMA FindDeadMoves ==
  ASSUME TypeOK, NEW t \in Threads, FindDead(t)
  PROVE  /\ at[t] = "index" /\ OthersStay(t)
         /\ \/ /\ at'[t] = "del" /\ Carries(t)
               /\ job'[t].i = job[t].i /\ job'[t].w = job[t].w
               /\ job'[t].k \in 1..Len(conn_watcher)
               /\ job'[t].todo = job[t].todo /\ job'[t].dels = job[t].dels
               /\ UNCHANGED <<unsettled, everUnsettled, listener>>
            \/ at'[t] = "idle" /\ job'[t] = NoJob /\ Abort(t)
<1> DEFINE j == job[t]
           K == CHOOSE k \in DOMAIN conn_watcher : conn_watcher[k] = j.w
<1>1. j \in Jobs
  BY DEF TypeOK
<1>2. CASE Contains(conn_watcher, j.w)
  <2>1. K \in 1..Len(conn_watcher)
    <3>1. DOMAIN conn_watcher = 1..Len(conn_watcher) /\ Len(conn_watcher) \in Nat
      BY LenProperties DEF TypeOK
    <3>2. \E k \in DOMAIN conn_watcher : conn_watcher[k] = j.w
      BY <1>2, <3>1 DEF Contains
    <3>3. K \in DOMAIN conn_watcher
      BY <3>2, Zenon
    <3> QED
      BY <3>1, <3>3
  <2>2. Goto(t, "del") /\ job' = [job EXCEPT ![t] = [j EXCEPT !.k = K]]
        /\ UNCHANGED <<unsettled, everUnsettled, listener>> /\ at[t] = "index"
    BY <1>2 DEF FindDead
  <2> HIDE DEF K
  <2>3. /\ [j EXCEPT !.k = K].v = j.v /\ [j EXCEPT !.k = K].new = j.new
        /\ [j EXCEPT !.k = K].i = j.i /\ [j EXCEPT !.k = K].w = j.w
        /\ [j EXCEPT !.k = K].k = K
        /\ [j EXCEPT !.k = K].todo = j.todo /\ [j EXCEPT !.k = K].dels = j.dels
    BY <1>1 DEF Jobs
  <2>4. at'[t] = "del" /\ job'[t] = [j EXCEPT !.k = K] /\ OthersStay(t)
    BY <2>2, GotoMoves
  <2> QED
    BY <2>1, <2>2, <2>3, <2>4 DEF Carries
<1>3. CASE ~Contains(conn_watcher, j.w)
  BY <1>3, FinishMoves DEF FindDead, Abort
<1> QED
  BY <1>2, <1>3

LEMMA DeleteDeadMoves ==
  ASSUME TypeOK, NEW t \in Threads, DeleteDead(t)
  PROVE  /\ at[t] = "del"
         /\ \A u \in Threads \ {t} :
              /\ at'[u] = at[u] /\ Carries(u)
              /\ job'[u].i = job[u].i /\ job'[u].w = job[u].w /\ job'[u].k = job[u].k
              /\ job'[u].todo = job[u].todo
              /\ at[u] \notin {"loop", "index", "del"} => job'[u] = job[u]
         /\ \/ /\ at'[t] = "loop" /\ Carries(t)
               /\ job[t].k <= Len(conn_watcher)
               /\ conn_watcher' = RemoveAt(conn_watcher, job[t].k)
               /\ job'[t].i = job[t].i + 1 /\ job'[t].todo = job[t].todo
               /\ \A u \in Threads : at[u] \in {"loop", "index", "del"} =>
                                        job'[u].dels = job[u].dels + 1
               /\ UNCHANGED <<unsettled, everUnsettled, listener>>
            \/ /\ at'[t] = "idle" /\ job'[t] = NoJob /\ Abort(t)
               /\ UNCHANGED conn_watcher /\ OthersStay(t)
<1>1. CASE job[t].k <= Len(conn_watcher)
  <2> DEFINE more(u) == [job[u] EXCEPT !.dels = @ + 1]
             done == [job[t] EXCEPT !.i = @ + 1, !.w = NoValue, !.k = 0, !.dels = @ + 1]
  <2>1. job' = [u \in Threads |->
                  IF u = t THEN done
                  ELSE IF at[u] \in {"loop", "index", "del"} THEN more(u) ELSE job[u]]
    BY <1>1 DEF DeleteDead
  <2>2. job[t] \in Jobs
    BY DEF TypeOK
  <2>3. /\ done.v = job[t].v /\ done.new = job[t].new /\ done.i = job[t].i + 1
        /\ done.todo = job[t].todo /\ done.dels = job[t].dels + 1
    BY <2>2 DEF Jobs
  <2>4. ASSUME NEW u \in Threads
        PROVE  /\ more(u).v = job[u].v /\ more(u).new = job[u].new
               /\ more(u).i = job[u].i /\ more(u).w = job[u].w /\ more(u).k = job[u].k
               /\ more(u).todo = job[u].todo /\ more(u).dels = job[u].dels + 1
    <3>1. job[u] \in Jobs
      BY DEF TypeOK
    <3> QED
      BY <3>1 DEF Jobs
  <2> HIDE DEF more, done
  <2>5. at' = [at EXCEPT ![t] = "loop"] /\ at[t] = "del"
        /\ conn_watcher' = RemoveAt(conn_watcher, job[t].k)
        /\ UNCHANGED <<unsettled, everUnsettled, listener>>
    BY <1>1 DEF DeleteDead, Goto
  <2>6. at'[t] = "loop" /\ \A u \in Threads \ {t} : at'[u] = at[u]
    BY <2>5 DEF TypeOK
  <2>7. job'[t] = done
    BY <2>1
  <2>8. ASSUME NEW u \in Threads \ {t}
        PROVE  job'[u] = IF at[u] \in {"loop", "index", "del"} THEN more(u) ELSE job[u]
    BY <2>1
  <2>9. ASSUME NEW u \in Threads \ {t}
        PROVE  /\ Carries(u)
               /\ job'[u].i = job[u].i /\ job'[u].w = job[u].w /\ job'[u].k = job[u].k
               /\ job'[u].todo = job[u].todo
               /\ at[u] \notin {"loop", "index", "del"} => job'[u] = job[u]
               /\ at[u] \in {"loop", "index", "del"} => job'[u].dels = job[u].dels + 1
    BY <2>4, <2>8 DEF Carries
  <2>10. \A u \in Threads : at[u] \in {"loop", "index", "del"} =>
                              job'[u].dels = job[u].dels + 1
    BY <2>3, <2>7, <2>9
  <2>11. Carries(t)
    BY <2>3, <2>7 DEF Carries
  <2> QED
    BY <1>1, <2>3, <2>5, <2>6, <2>7, <2>9, <2>10, <2>11
<1>2. CASE ~(job[t].k <= Len(conn_watcher))
  <2>1. Abort(t) /\ UNCHANGED conn_watcher /\ at[t] = "del"
    BY <1>2 DEF DeleteDead
  <2>2. at'[t] = "idle" /\ job'[t] = NoJob /\ OthersStay(t)
    BY <2>1, FinishMoves DEF Abort
  <2> QED
    BY <2>1, <2>2 DEF OthersStay, Carries
<1> QED
  BY <1>1, <1>2

(* What the assignment of a variable by the program does.                   *)
LEMMA AssignMoves ==
  ASSUME TypeOK, NEW v \in Vars, NEW x \in Values, Assign(v, x)
  PROVE  /\ at["plc"] = "idle" /\ at'["plc"] = "callback"
         /\ job'["plc"].v = v /\ OthersStay("plc")
         /\ WriteVar("plc", v, x, {}) /\ UNCHANGED <<blk, cache, clients>>
<1>1. "plc" \in Threads
  BY DEF Threads
<1>2. /\ at["plc"] = "idle" /\ at'["plc"] = "callback"
      /\ job'["plc"].v = v /\ OthersStay("plc")
  BY <1>1, StartMoves
<1>3. WriteVar("plc", v, x, {}) /\ UNCHANGED <<blk, cache, clients>>
  BY DEF Assign
<1> QED
  BY <1>2, <1>3

(* The listener on its way through the clients it tells.                    *)
LEMMA TellMoves ==
  ASSUME TypeOK, Terminate \/ TellNext \/ TellEnd
  PROVE  /\ OthersStay("listener")
         /\ job'["listener"] = NoJob \/ Carries("listener")
         /\ Terminate => at["listener"] = "idle" /\ at'["listener"] = "telling"
                         /\ job'["listener"].i = 1
         /\ TellNext =>
              /\ at["listener"] = "telling"
              /\ \/ /\ peer[conn_watcher[job["listener"].i]] # "down"
                    /\ at'["listener"] = "telling"
                    /\ job'["listener"].i = job["listener"].i + 1
                    /\ Carries("listener") /\ UNCHANGED listener
                    /\ told' = told \union {conn_watcher[job["listener"].i]}
                 \/ /\ peer[conn_watcher[job["listener"].i]] = "down"
                    /\ at'["listener"] = "idle" /\ job'["listener"] = NoJob
                    /\ listener' = "dead" /\ UNCHANGED told
         /\ TellEnd => at["listener"] = "telling" /\ at'["listener"] = "idle"
                       /\ job'["listener"] = NoJob
<1> DEFINE j == job["listener"]
<1>1. "listener" \in Threads /\ j \in Jobs
  BY DEF TypeOK, Threads
<1>2. ASSUME Terminate
      PROVE  /\ OthersStay("listener") /\ Carries("listener")
             /\ at["listener"] = "idle" /\ at'["listener"] = "telling"
             /\ job'["listener"].i = 1
  <2>1. Goto("listener", "telling")
        /\ job' = [job EXCEPT !["listener"] = [j EXCEPT !.i = 1]]
        /\ at["listener"] = "idle"
    BY <1>2 DEF Terminate, ListenerFree
  <2>2. [j EXCEPT !.i = 1].v = j.v /\ [j EXCEPT !.i = 1].new = j.new
        /\ [j EXCEPT !.i = 1].i = 1
    BY <1>1 DEF Jobs
  <2> HIDE DEF j
  <2>3. at'["listener"] = "telling" /\ job'["listener"] = [j EXCEPT !.i = 1]
        /\ OthersStay("listener")
    BY <1>1, <2>1, GotoMoves
  <2> QED
    BY <1>2, <2>1, <2>2, <2>3 DEF Carries, j
<1>3. ASSUME TellNext, peer[conn_watcher[j.i]] = "down"
      PROVE  /\ OthersStay("listener") /\ at["listener"] = "telling"
             /\ at'["listener"] = "idle" /\ job'["listener"] = NoJob
             /\ listener' = "dead" /\ UNCHANGED told
  BY <1>1, <1>3, FinishMoves DEF TellNext
<1>4. ASSUME TellNext, peer[conn_watcher[j.i]] # "down"
      PROVE  /\ OthersStay("listener") /\ at["listener"] = "telling"
             /\ at'["listener"] = "telling" /\ job'["listener"].i = j.i + 1
             /\ Carries("listener") /\ UNCHANGED listener
             /\ told' = told \union {conn_watcher[j.i]}
  <2> DEFINE n == j.i + 1
  <2>1. /\ at' = at /\ job' = [job EXCEPT !["listener"] = [j EXCEPT !.i = n]]
        /\ at["listener"] = "telling" /\ UNCHANGED listener
        /\ told' = told \union {conn_watcher[j.i]}
    BY <1>4 DEF TellNext
  <2> HIDE DEF n
  <2>2. [j EXCEPT !.i = n].v = j.v /\ [j EXCEPT !.i = n].new = j.new
        /\ [j EXCEPT !.i = n].i = n
    BY <1>1 DEF Jobs
  <2>3. at'["listener"] = "telling" /\ job'["listener"] = [j EXCEPT !.i = n]
        /\ OthersStay("listener")
    BY <1>1, <2>1 DEF OthersStay, TypeOK
  <2> QED
    BY <1>4, <2>1, <2>2, <2>3 DEF Carries, n
<1>5. ASSUME TellEnd
      PROVE  /\ OthersStay("listener") /\ at["listener"] = "telling"
             /\ at'["listener"] = "idle" /\ job'["listener"] = NoJob
  BY <1>1, <1>5, FinishMoves DEF TellEnd
<1> QED
  BY <1>2, <1>3, <1>4, <1>5

---------------------------------------------------------------------------
(* Every step keeps what the places say. *)
LEMMA StepPlaced ==
  ASSUME TypeOK, \A t \in Threads : Placed(t), [Next]_vars
  PROVE  \A t \in Threads : Placed(t)'
<1> USE SupervisorAssumption DEF values, clients, control, history
<1> DEFINE GoneStay == \A w \in Watchers : peer[w] = "down" => peer'[w] = "down"
<1>1. "listener" \in Threads /\ "plc" \in Threads
  BY DEF Threads
<1>2. ASSUME NEW t \in Threads, OthersStay(t), GoneStay, Placed(t)'
      PROVE  \A u \in Threads : Placed(u)'
  BY <1>2 DEF OthersStay, Placed
<1>3. ASSUME GoneStay, UNCHANGED <<at, job>>
      PROVE  \A u \in Threads : Placed(u)'
  BY <1>3 DEF Placed
<1>4. ASSUME NEW v \in Vars, NEW x \in Values, NEW t \in Threads,
             \/ Assign(v, x) /\ t = "plc"
             \/ SetTag(v, x) /\ t = "listener"
             \/ ModbusWrite(t, v, x)
      PROVE  \A u \in Threads : Placed(u)'
  <2>1. GoneStay
    BY <1>4 DEF Assign, SetTag, ModbusWrite
  <2>2. Placed(t)' /\ OthersStay(t)
    BY <1>4, StartMoves DEF Placed
  <2> QED
    BY <1>2, <2>1, <2>2
<1>5. CASE Callback
  <2>1. GoneStay /\ cvar[job["plc"].v] \in Values
    BY <1>1, <1>5, CallbackMoves DEF Callback, TypeOK, Placed
  <2>2. Placed("plc")' /\ OthersStay("plc")
    BY <1>1, <1>5, <2>1, CallbackMoves DEF Placed
  <2> QED
    BY <1>1, <1>2, <2>1, <2>2
<1>6. ASSUME NEW t \in Threads, SetVar(t) \/ SyncBlock(t) \/ LoopEnd(t)
      PROVE  \A u \in Threads : Placed(u)'
  <2>1. GoneStay /\ UNCHANGED job /\ at[t] \in {"write", "sync", "loop"}
    BY <1>6 DEF SetVar, SyncBlock, LoopEnd
  <2>2. at'[t] \in {"sync", "compare", "store"} /\ OthersStay(t)
    BY <1>6, <2>1 DEF SetVar, SyncBlock, LoopEnd, Goto, TypeOK, OthersStay
  <2> QED
    BY <1>2, <2>1, <2>2 DEF Placed
<1>7. ASSUME NEW t \in Threads, Compare(t)
      PROVE  \A u \in Threads : Placed(u)'
  <2>1. GoneStay
    BY <1>7 DEF Compare
  <2>2. Placed(t)' /\ OthersStay(t)
    BY <1>7, CompareMoves DEF Placed, Carries
  <2> QED
    BY <1>2, <2>1, <2>2
<1>8. ASSUME NEW t \in Threads, LoopNext(t)
      PROVE  \A u \in Threads : Placed(u)'
  <2>1. UNCHANGED peer /\ GoneStay
    BY <1>8 DEF LoopNext
  <2>2. job[t].i \in Nat
    BY DEF TypeOK, Jobs
  <2>3. Placed(t)' /\ OthersStay(t)
    <3>1. /\ at[t] = "loop" /\ at'[t] \in {"loop", "index"} /\ OthersStay(t) /\ Carries(t)
          /\ job'[t].i \in {job[t].i, job[t].i + 1}
          /\ at'[t] = "index" => job'[t].w \in Watchers /\ peer[job'[t].w] = "down"
      BY <1>8, LoopNextMoves
    <3>2. job[t].v \in Vars /\ job[t].new \in Values /\ job[t].i >= 1
      BY <3>1 DEF Placed
    <3> QED
      BY <2>1, <2>2, <3>1, <3>2 DEF Placed, Carries
  <2> QED
    BY <1>2, <2>1, <2>3
<1>9. ASSUME NEW t \in Threads, FindDead(t)
      PROVE  \A u \in Threads : Placed(u)'
  <2>1. UNCHANGED peer /\ GoneStay
    BY <1>9 DEF FindDead
  <2>2. Placed(t)' /\ OthersStay(t)
    BY <1>9, <2>1, FindDeadMoves DEF Placed, Carries
  <2> QED
    BY <1>2, <2>1, <2>2
<1>10. ASSUME NEW t \in Threads, DeleteDead(t)
       PROVE  \A u \in Threads : Placed(u)'
  <2>1. UNCHANGED peer
    BY <1>10 DEF DeleteDead
  <2>2. job[t].i \in Nat /\ job[t].i >= 1
    BY <1>10 DEF DeleteDead, Placed, TypeOK, Jobs
  <2>3. Placed(t)'
    BY <1>10, <2>1, <2>2, DeleteDeadMoves DEF Placed, Carries
  <2>4. ASSUME NEW u \in Threads \ {t}
        PROVE  Placed(u)'
    <3>1. /\ at'[u] = at[u] /\ Carries(u) /\ job'[u].i = job[u].i
          /\ job'[u].w = job[u].w /\ job'[u].k = job[u].k
          /\ at[u] \notin {"loop", "index", "del"} => job'[u] = job[u]
      BY <1>10, DeleteDeadMoves
    <3> QED
      BY <2>1, <3>1 DEF Placed, Carries
  <2> QED
    BY <2>3, <2>4
<1>11. ASSUME NEW t \in Threads, StoreValue(t)
       PROVE  \A u \in Threads : Placed(u)'
  BY <1>2, <1>11, FinishMoves DEF StoreValue, Placed
<1>12. ASSUME NEW w \in Watchers, NEW V \in SUBSET Vars, Monitor(w, V)
       PROVE  \A u \in Threads : Placed(u)'
  BY <1>3, <1>12 DEF Monitor, TypeOK
<1>13. ASSUME NEW w \in Watchers, Disconnect(w)
       PROVE  \A u \in Threads : Placed(u)'
  BY <1>3, <1>13 DEF Disconnect, TypeOK
<1>14. CASE StopPlc \/ StopReturn \/ StartPlc \/ StartReturn \/ CloseListener
  BY <1>3, <1>14 DEF StopPlc, StopReturn, StartPlc, StartReturn, CloseListener
<1>15. CASE Terminate \/ TellNext \/ TellEnd
  <2>1. GoneStay
    BY <1>15 DEF Terminate, TellNext, TellEnd
  <2>2. at'["listener"] = "telling" => job'["listener"].v = NoValue
    BY <1>1, <1>15, TellMoves DEF Placed, Carries, NoJob
  <2>3. at'["listener"] = "telling" => job'["listener"].i >= 1
    <3>1. job["listener"].i \in Nat
      BY <1>1 DEF TypeOK, Jobs
    <3> QED
      BY <1>1, <1>15, <3>1, TellMoves DEF Placed
  <2>4. Placed("listener")' /\ OthersStay("listener")
    BY <1>1, <1>15, <2>2, <2>3, TellMoves DEF Placed
  <2> QED
    BY <1>1, <1>2, <2>1, <2>4
<1>16. CASE UNCHANGED vars
  BY <1>3, <1>16 DEF vars
<1> QED
  BY NeighboursAssumption, <1>1, <1>4, <1>5, <1>6, <1>7, <1>8, <1>9, <1>10, <1>11, <1>12, <1>13, <1>14,
     <1>15, <1>16 DEF Next, Propagate, Threads

---------------------------------------------------------------------------
(* Every step keeps what has been told. *)
LEMMA StepTelling ==
  ASSUME TypeOK, \A t \in Threads : Placed(t), Telling, [Next]_vars
  PROVE  Telling'
<1> USE SupervisorAssumption DEF values, clients, control, history
<1> DEFINE GoneStay == \A w \in Watchers : peer[w] = "down" => peer'[w] = "down"
<1>1. "listener" \in Threads /\ "plc" \in Threads
  BY DEF Threads
<1>2. ASSUME NEW v \in Vars, NEW x \in Values, NEW t \in Threads,
             \/ Assign(v, x) /\ t = "plc"
             \/ SetTag(v, x) /\ t = "listener"
             \/ ModbusWrite(t, v, x) /\ t \in Setters \ {"listener"}
      PROVE  Telling'
  <2>1. UNCHANGED <<conn_watcher, peer, told, plc, listener>>
        /\ (t = "plc" => plc \in {"running", "stopping"})
        /\ (t = "listener" => listener = "serving")
    BY <1>2 DEF Assign, SetTag, ModbusWrite, ListenerFree
  <2>2. at[t] = "idle" /\ at'[t] \in {"callback", "write"} /\ OthersStay(t)
    BY <1>2, StartMoves
  <2> QED
    BY <1>1, <2>1, <2>2 DEF OthersStay, Telling, NoneGone
<1>3. ASSUME NEW t \in Threads, OthersStay(t), at[t] \notin {"idle", "telling"},
             at'[t] # "telling",
             UNCHANGED <<conn_watcher, peer, told, plc, listener>>
      PROVE  Telling'
  BY <1>1, <1>3 DEF OthersStay, Telling, NoneGone
<1>4. CASE Callback
  BY <1>1, <1>3, <1>4, CallbackMoves DEF Callback
<1>5. ASSUME NEW t \in Threads, SetVar(t) \/ SyncBlock(t) \/ LoopEnd(t)
      PROVE  Telling'
  <2>1. /\ UNCHANGED <<conn_watcher, peer, told, plc, listener, job>>
        /\ at[t] \in {"write", "sync", "loop"}
        /\ at'[t] \in {"sync", "compare", "store"} /\ OthersStay(t)
    BY <1>5 DEF SetVar, SyncBlock, LoopEnd, Goto, TypeOK, OthersStay
  <2> QED
    BY <1>3, <2>1
<1>6. ASSUME NEW t \in Threads, Compare(t) \/ LoopNext(t) \/ StoreValue(t)
      PROVE  Telling'
  <2>1. UNCHANGED <<conn_watcher, peer, told, plc, listener>>
    BY <1>6 DEF Compare, LoopNext, StoreValue
  <2>2. CASE Compare(t)
    BY <1>3, <2>1, <2>2, CompareMoves
  <2>3. CASE LoopNext(t)
    BY <1>3, <2>1, <2>3, LoopNextMoves
  <2>4. CASE StoreValue(t)
    BY <1>3, <2>1, <2>4, FinishMoves DEF StoreValue
  <2> QED
    BY <1>6, <2>2, <2>3, <2>4
<1>7. ASSUME NEW t \in Threads, FindDead(t) \/ DeleteDead(t)
      PROVE  Telling'
  <2>1. /\ at[t] \in {"index", "del"} /\ at'[t] \in {"del", "loop", "idle"}
        /\ \A u \in Threads \ {t} : at'[u] = at[u]
        /\ UNCHANGED <<peer, told, plc>>
    BY <1>7, FindDeadMoves, DeleteDeadMoves DEF OthersStay, FindDead, DeleteDead
  <2>2. ~NoneGone'
    BY <2>1 DEF Placed, NoneGone
  <2>3. \/ UNCHANGED listener
        \/ at'[t] = "idle" /\ listener' = IF t = "listener" THEN "dead" ELSE listener
    BY <1>7, FindDeadMoves, DeleteDeadMoves DEF Abort
  <2> QED
    BY <1>1, <2>1, <2>2, <2>3 DEF Telling
<1>8. ASSUME NEW w \in Watchers, NEW V \in SUBSET Vars, Monitor(w, V)
      PROVE  Telling'
  BY <1>8 DEF Monitor, ListenerFree, Telling
<1>9. ASSUME NEW w \in Watchers, Disconnect(w)
      PROVE  Telling'
  <2>1. NoneGone' => NoneGone
    BY <1>9 DEF Disconnect, NoneGone, TypeOK
  <2> QED
    BY <1>9, <2>1 DEF Disconnect, Telling
<1>10. CASE StopPlc \/ StopReturn \/ StartPlc \/ StartReturn \/ CloseListener
  BY <1>10 DEF StopPlc, StopReturn, StartPlc, StartReturn, CloseListener, Telling,
               ListenerFree, NoneGone
<1>11. CASE Terminate \/ TellNext
  <2>1. UNCHANGED <<conn_watcher, peer, plc>> /\ at'["plc"] = at["plc"]
    BY <1>1, <1>11, TellMoves DEF Terminate, TellNext, OthersStay
  <2>2. CASE Terminate
    <3>1. /\ listener = "serving" /\ UNCHANGED <<listener, told>>
          /\ at'["listener"] = "telling" /\ job'["listener"].i = 1
      BY <2>2, TellMoves DEF Terminate, ListenerFree
    <3> QED
      BY <2>1, <3>1 DEF Telling
  <2>3. CASE TellNext /\ at'["listener"] = "idle"
    <3>1. ~NoneGone'
      <4>1. /\ peer[conn_watcher[job["listener"].i]] = "down"
            /\ at["listener"] = "telling"
        BY <2>3, TellMoves
      <4>2. job["listener"].i \in 1..Len(conn_watcher)
        BY <1>1, <2>3, <4>1 DEF TellNext, Placed, TypeOK, Jobs
      <4>3. conn_watcher[job["listener"].i] \in Watchers
        BY <4>2, ElementOfSeq DEF TypeOK
      <4> QED
        BY <2>1, <4>1, <4>3 DEF NoneGone
    <3>2. listener' = "dead"
      BY <2>3, TellMoves
    <3> QED
      BY <2>1, <2>3, <3>1, <3>2 DEF Telling
  <2>4. CASE TellNext /\ at'["listener"] # "idle"
    <3>1. /\ at["listener"] = "telling" /\ at'["listener"] = "telling"
          /\ job'["listener"].i = job["listener"].i + 1 /\ UNCHANGED listener
          /\ told' = told \union {conn_watcher[job["listener"].i]}
      BY <2>4, TellMoves
    <3>2. job["listener"].i \in Nat /\ listener = "serving"
      BY <1>1, <3>1 DEF Telling, TypeOK, Jobs
    <3>3. ASSUME NoneGone', NEW n \in 1..Len(conn_watcher), n < job["listener"].i + 1
          PROVE  conn_watcher[n] \in told'
      BY <2>1, <3>1, <3>2, <3>3 DEF Telling, NoneGone
    <3> QED
      BY <2>1, <3>1, <3>2, <3>3 DEF Telling
  <2> QED
    BY <1>11, <2>2, <2>3, <2>4
<1>12. CASE TellEnd
  <2>1. /\ UNCHANGED <<conn_watcher, peer, told>> /\ at["listener"] = "telling"
        /\ at'["listener"] = "idle" /\ listener' = "ending"
        /\ plc' = IF plc = "running" THEN "stopping" ELSE plc
        /\ at'["plc"] = at["plc"]
        /\ job["listener"].i > Len(conn_watcher)
    BY <1>1, <1>12, TellMoves DEF TellEnd, OthersStay
  <2>2. job["listener"].i \in Nat /\ Len(conn_watcher) \in Nat
    BY <1>1, LenProperties DEF TypeOK, Jobs
  <2>3. NoneGone' => \A n \in 1..Len(conn_watcher) : conn_watcher[n] \in told
    BY <2>1, <2>2 DEF Telling, NoneGone
  <2> QED
    BY <2>1, <2>3 DEF Telling
<1>13. CASE UNCHANGED vars
  BY <1>13 DEF vars, Telling, NoneGone
<1> QED
  BY NeighboursAssumption, <1>1, <1>2, <1>4, <1>5, <1>6, <1>7, <1>8, <1>9, <1>10, <1>11, <1>12, <1>13
     DEF Next, Propagate, Threads

---------------------------------------------------------------------------
(* Steps that leave a thread as it is for a variable v: it does not touch v *)
(* before or after, or it carries the same value of v on.                   *)
On(t, v) == at[t] # "idle" /\ job[t].v = v

Synced == {"compare", "loop", "index", "del", "store"}

Alike(t, v) ==
    /\ On(t, v)' <=> On(t, v)
    /\ On(t, v) => /\ job'[t].new = job[t].new
                   /\ at'[t] = at[t] \/ (at[t] \in Synced /\ at'[t] \in Synced)

LEMMA MirrorKept ==
  ASSUME NEW v \in Vars, Mirrored(v), \A t \in Threads : Alike(t, v),
         v \in touched' \ unsettled' => v \in touched \ unsettled,
         cvar'[v] = cvar[v], blk'[v] = blk[v], cache'[v] = cache[v]
  PROVE  Mirrored(v)'
<1>1. Propagating(v)' = Propagating(v) /\ Pending(v)' = Pending(v)
  BY DEF Alike, On, Propagating, Pending, Synced
<1>2. \A t \in Pending(v) :
        /\ job'[t].new = job[t].new
        /\ at[t] \in {"write", "callback", "sync"} => at'[t] = at[t]
        /\ at'[t] = "callback" => at[t] = "callback"
  BY DEF Alike, On, Pending, Synced
<1>3. Propagating(v) \subseteq Pending(v)
  BY DEF Propagating
<1> QED
  BY <1>1, <1>2, <1>3 DEF Mirrored

(* A thread that moves from one variable or idleness to another leaves v    *)
(* alone, if it is neither of them.                                         *)
LEMMA ElsewhereAlike ==
  ASSUME NEW v, NEW t \in Threads, OthersStay(t), ~On(t, v), ~On(t, v)'
  PROVE  \A u \in Threads : Alike(u, v)
BY DEF OthersStay, Alike, On

(* Every step keeps the mirrors. *)
LEMMA StepMirrored ==
  ASSUME TypeOK, \A t \in Threads : Placed(t), [Next]_vars,
         NEW v \in Vars, Mirrored(v)
  PROVE  Mirrored(v)'
<1> USE SupervisorAssumption DEF values, clients, control, history
<1>1. "listener" \in Threads /\ "plc" \in Threads
  BY DEF Threads
<1>2. v # NoValue /\ NoJob.v = NoValue
  BY DEF NoJob
<1>3. ASSUME NEW x \in Values, NEW t \in Threads, NEW Z, WriteVar(t, v, x, Z),
             v \in touched' \ unsettled'
      PROVE  /\ cvar'[v] = x /\ Propagating(v) \subseteq {t}
  BY <1>3 DEF WriteVar, TypeOK
<1>4. ASSUME NEW x \in Values, NEW t \in Threads, NEW v0 \in Vars \ {v}, NEW Z,
             WriteVar(t, v0, x, Z), v \in touched' \ unsettled'
      PROVE  cvar'[v] = cvar[v] /\ v \in touched \ unsettled
  <2>1. /\ cvar' = [u \in Vars |-> IF u = v0 THEN x ELSE IF u \in Z THEN 0 ELSE cvar[u]]
        /\ touched' = touched \union {v0}
        /\ \/ unsettled' = unsettled \union {v0} \union Z
           \/ unsettled' = (unsettled \ {v0}) \union Z
    BY <1>4 DEF WriteVar
  <2>2. v \notin Z /\ v # v0
    BY <1>4, <2>1
  <2> QED
    BY <1>4, <2>1, <2>2
<1>5. ASSUME NEW x \in Values, Assign(v, x)
      PROVE  Mirrored(v)'
  <2>1. at["plc"] = "idle" /\ at'["plc"] = "callback" /\ job'["plc"].v = v
        /\ OthersStay("plc") /\ WriteVar("plc", v, x, {})
    BY <1>5, AssignMoves
  <2>2. SUFFICES ASSUME v \in touched' \ unsettled'
                 PROVE  Mirrored(v)'
    BY DEF Mirrored
  <2>3. Propagating(v) \subseteq {"plc"}
    BY <1>1, <1>3, <2>1, <2>2
  <2>4. Propagating(v)' = {"plc"} /\ "plc" \in Pending(v)'
    BY <1>1, <2>1, <2>3 DEF Propagating, Pending, OthersStay
  <2> QED
    BY <2>1, <2>4 DEF Mirrored
<1>6. ASSUME NEW v0 \in Vars, v0 # v, NEW x \in Values, Assign(v0, x)
      PROVE  Mirrored(v)'
  <2>1. at["plc"] = "idle" /\ job'["plc"].v = v0 /\ OthersStay("plc")
        /\ WriteVar("plc", v0, x, {}) /\ UNCHANGED <<blk, cache>>
    BY <1>6, AssignMoves
  <2>2. SUFFICES ASSUME v \in touched' \ unsettled'
                 PROVE  Mirrored(v)'
    BY DEF Mirrored
  <2>3. \A u \in Threads : Alike(u, v)
    BY <1>1, <1>6, <2>1, ElsewhereAlike DEF On
  <2>4. cvar'[v] = cvar[v] /\ v \in touched \ unsettled
    BY <1>1, <1>4, <1>6, <2>1, <2>2
  <2> QED
    BY <2>1, <2>3, <2>4, MirrorKept
<1>7. ASSUME NEW v0 \in Vars, NEW x \in Values, NEW t \in Threads,
             (SetTag(v0, x) /\ t = "listener") \/ ModbusWrite(t, v0, x)
      PROVE  Mirrored(v)'
  <2>1. /\ at[t] = "idle" /\ job'[t].v = v0 /\ OthersStay(t)
        /\ UNCHANGED <<cvar, cache, touched, unsettled>>
        /\ (v0 # v => blk'[v] = blk[v])
    <3>1. at[t] = "idle" /\ job'[t].v = v0 /\ OthersStay(t)
      BY <1>7, StartMoves
    <3>2. UNCHANGED <<cvar, cache, touched, unsettled>> /\ (v0 # v => blk'[v] = blk[v])
      BY <1>7 DEF SetTag, ModbusWrite, TypeOK
    <3> QED
      BY <3>1, <3>2
  <2>2. at'[t] = "write"
    BY <1>7 DEF SetTag, ModbusWrite, Goto, TypeOK
  <2>3. CASE v0 # v
    <3>1. \A u \in Threads : Alike(u, v)
      BY <2>1, <2>3, ElsewhereAlike DEF On
    <3> QED
      BY <2>1, <2>3, <3>1, MirrorKept
  <2>4. CASE v0 = v
    <3>1. /\ Propagating(v)' = Propagating(v) /\ t \in Pending(v)'
          /\ \A u \in Propagating(v) : at'[u] = at[u] /\ job'[u] = job[u]
      BY <2>1, <2>2, <2>4 DEF Propagating, Pending, OthersStay
    <3> QED
      BY <2>1, <2>2, <3>1 DEF Mirrored
  <2> QED
    BY <2>3, <2>4
<1>8. CASE Callback
  <2>1. /\ at["plc"] = "callback" /\ at'["plc"] = "sync"
        /\ job'["plc"].v = job["plc"].v /\ job'["plc"].new = cvar[job["plc"].v]
        /\ OthersStay("plc") /\ UNCHANGED <<values, history>>
    BY <1>8, CallbackMoves DEF Callback
  <2>2. CASE job["plc"].v = v
    <3>1. Propagating(v)' = Propagating(v) /\ "plc" \in Propagating(v)
          /\ "plc" \in Pending(v)'
      BY <1>1, <2>1, <2>2 DEF Propagating, Pending, OthersStay
    <3>2. \A u \in Propagating(v)' : at'[u] # "callback" =>
             u = "plc" \/ (at[u] # "callback" /\ job'[u].new = job[u].new)
      BY <2>1 DEF OthersStay, Propagating, Pending
    <3> QED
      BY <2>1, <2>2, <3>1, <3>2 DEF Mirrored
  <2>3. CASE job["plc"].v # v
    <3>1. \A u \in Threads : Alike(u, v)
      BY <1>1, <2>1, <2>3, ElsewhereAlike DEF On
    <3> QED
      BY <2>1, <3>1, MirrorKept
  <2> QED
    BY <2>2, <2>3
<1>9. ASSUME NEW t \in Threads, SetVar(t)
      PROVE  Mirrored(v)'
  <2>1. /\ at[t] = "write" /\ at'[t] = "sync" /\ OthersStay(t) /\ UNCHANGED job
        /\ WriteVar(t, job[t].v, job[t].new, Overrun[job[t].v])
        /\ UNCHANGED <<blk, cache>> /\ job[t].v \in Vars /\ job[t].new \in Values
    BY <1>9 DEF SetVar, Goto, TypeOK, OthersStay, Placed
  <2>2. CASE job[t].v = v
    <3>1. SUFFICES ASSUME v \in touched' \ unsettled'
                   PROVE  Mirrored(v)'
      BY DEF Mirrored
    <3>2. Propagating(v) \subseteq {t} /\ cvar'[v] = job[t].new
      BY <1>3, <2>1, <2>2, <3>1
    <3>3. Propagating(v)' = {t} /\ t \in Pending(v)'
      BY <2>1, <2>2, <3>2 DEF Propagating, Pending, OthersStay
    <3> QED
      BY <2>1, <3>2, <3>3 DEF Mirrored
  <2>3. CASE job[t].v # v
    <3>1. SUFFICES ASSUME v \in touched' \ unsettled'
                   PROVE  Mirrored(v)'
      BY DEF Mirrored
    <3>2. \A u \in Threads : Alike(u, v)
      BY <2>1, <2>3, ElsewhereAlike DEF On
    <3>3. cvar'[v] = cvar[v] /\ v \in touched \ unsettled
      BY <1>4, <2>1, <2>3, <3>1
    <3> QED
      BY <2>1, <3>2, <3>3, MirrorKept
  <2> QED
    BY <2>2, <2>3
<1>10. ASSUME NEW t \in Threads, SyncBlock(t)
       PROVE  Mirrored(v)'
  <2>1. /\ at[t] = "sync" /\ at'[t] = "compare" /\ OthersStay(t) /\ UNCHANGED job
        /\ blk' = [blk EXCEPT ![job[t].v] = job[t].new]
        /\ UNCHANGED <<cvar, cache, history>>
    BY <1>10 DEF SyncBlock, Goto, TypeOK, OthersStay
  <2>2. CASE job[t].v = v
    <3>1. Propagating(v)' = Propagating(v) /\ t \in Propagating(v)
      BY <2>1, <2>2 DEF Propagating, Pending, OthersStay
    <3>2. blk'[v] = job[t].new
      BY <2>1, <2>2 DEF TypeOK
    <3>3. \A u \in Threads : at'[u] # "callback" => at[u] # "callback"
      BY <2>1 DEF OthersStay
    <3> QED
      BY <2>1, <3>1, <3>2, <3>3 DEF Mirrored, Propagating, Pending
  <2>3. CASE job[t].v # v
    <3>1. \A u \in Threads : Alike(u, v)
      BY <2>1, <2>3, ElsewhereAlike DEF On
    <3>2. blk'[v] = blk[v]
      BY <2>1, <2>3 DEF TypeOK
    <3> QED
      BY <2>1, <3>1, <3>2, MirrorKept
  <2> QED
    BY <2>2, <2>3
<1>11. ASSUME NEW t \in Threads, OthersStay(t), Carries(t),
              at[t] \in Synced, at'[t] \in Synced, UNCHANGED <<values, history>>
       PROVE  Mirrored(v)'
  <2>1. \A u \in Threads : Alike(u, v)
    BY <1>11 DEF OthersStay, Carries, Alike, On, Synced
  <2> QED
    BY <1>11, <2>1, MirrorKept
<1>12. ASSUME NEW t \in Threads, Compare(t)
       PROVE  Mirrored(v)'
  <2>1. UNCHANGED <<values, history>>
    BY <1>12 DEF Compare
  <2>2. CASE Changed(job[t].v, job[t].new)
    <3>1. OthersStay(t) /\ Carries(t) /\ at[t] \in Synced /\ at'[t] \in Synced
      BY <1>12, <2>2, CompareMoves DEF Synced
    <3> QED
      BY <1>11, <2>1, <3>1
  <2>3. CASE ~Changed(job[t].v, job[t].new)
    <3>1. OthersStay(t) /\ at[t] = "compare" /\ at'[t] = "idle" /\ job'[t] = NoJob
      BY <1>12, <2>3, CompareMoves
    <3>2. CASE job[t].v # v
      <4>1. \A u \in Threads : Alike(u, v)
        BY <3>1, <3>2, ElsewhereAlike DEF On
      <4> QED
        BY <2>1, <4>1, MirrorKept
    <3>3. CASE job[t].v = v
      <4>1. SUFFICES ASSUME v \in touched \ unsettled
                     PROVE  Mirrored(v)'
        BY <2>1 DEF Mirrored
      <4>2. t \in Propagating(v) /\ cache[v] = job[t].new
        BY <2>3, <3>1, <3>3 DEF Propagating, Pending, Changed
      <4>3. Propagating(v) = {t} /\ cache[v] = cvar[v]
        BY <3>1, <4>1, <4>2 DEF Mirrored
      <4>4. Propagating(v)' = {} /\ Pending(v)' = Pending(v) \ {t}
            /\ \A u \in Pending(v)' : at'[u] = at[u]
        BY <3>1, <4>3 DEF Propagating, Pending, OthersStay
      <4> QED
        BY <2>1, <3>1, <4>1, <4>3, <4>4 DEF Mirrored
    <3> QED
      BY <3>2, <3>3
  <2> QED
    BY <2>2, <2>3
<1>13. ASSUME NEW t \in Threads, LoopNext(t) \/ LoopEnd(t)
       PROVE  Mirrored(v)'
  <2>1. UNCHANGED <<values, history>>
    BY <1>13 DEF LoopNext, LoopEnd
  <2>2. CASE LoopNext(t)
    <3>1. OthersStay(t) /\ Carries(t) /\ at[t] = "loop" /\ at'[t] \in {"index", "loop"}
      BY <2>2, LoopNextMoves
    <3> QED
      BY <1>11, <2>1, <3>1 DEF Synced
  <2>3. CASE LoopEnd(t)
    <3>1. OthersStay(t) /\ Carries(t) /\ at[t] = "loop" /\ at'[t] = "store"
      BY <2>3 DEF LoopEnd, Goto, TypeOK, OthersStay, Carries
    <3> QED
      BY <1>11, <2>1, <3>1 DEF Synced
  <2> QED
    BY <1>13, <2>2, <2>3
<1>14. ASSUME NEW t \in Threads, Abort(t), OthersStay(t), at[t] \in {"index", "del"},
              at'[t] = "idle", UNCHANGED <<values, touched>>
       PROVE  Mirrored(v)'
  <2>1. unsettled' = unsettled \union {job[t].v}
    BY <1>14 DEF Abort
  <2>2. CASE job[t].v = v
    BY <2>1, <2>2 DEF Mirrored
  <2>3. CASE job[t].v # v
    <3>1. \A u \in Threads : Alike(u, v)
      BY <1>14, <2>3, ElsewhereAlike DEF On
    <3> QED
      BY <1>14, <2>1, <3>1, MirrorKept
  <2> QED
    BY <2>2, <2>3
<1>15. ASSUME NEW t \in Threads, FindDead(t)
       PROVE  Mirrored(v)'
  <2>1. /\ OthersStay(t) /\ at[t] = "index" /\ UNCHANGED <<values, touched>>
        /\ \/ at'[t] = "del" /\ Carries(t) /\ UNCHANGED <<unsettled, everUnsettled>>
           \/ at'[t] = "idle" /\ Abort(t)
    BY <1>15, FindDeadMoves DEF FindDead
  <2> QED
    BY <1>11, <1>14, <2>1 DEF Synced
<1>16. ASSUME NEW t \in Threads, DeleteDead(t)
       PROVE  Mirrored(v)'
  <2>1. at[t] = "del" /\ UNCHANGED <<values, touched>>
        /\ \A u \in Threads \ {t} : at'[u] = at[u] /\ Carries(u)
    BY <1>16, DeleteDeadMoves DEF DeleteDead
  <2>2. CASE at'[t] = "loop"
    <3>1. Carries(t) /\ UNCHANGED unsettled
      BY <1>16, <2>2, DeleteDeadMoves
    <3>2. \A u \in Threads : Alike(u, v)
      BY <2>1, <2>2, <3>1 DEF Alike, On, Carries, Synced
    <3> QED
      BY <2>1, <3>1, <3>2, MirrorKept
  <2>3. CASE at'[t] # "loop"
    <3>1. at'[t] = "idle" /\ Abort(t) /\ OthersStay(t)
      BY <1>16, <2>3, DeleteDeadMoves
    <3> QED
      BY <1>14, <2>1, <3>1
  <2> QED
    BY <2>2, <2>3
<1>17. ASSUME NEW t \in Threads, StoreValue(t)
       PROVE  Mirrored(v)'
  <2>1. /\ at[t] = "store" /\ at'[t] = "idle" /\ job'[t] = NoJob /\ OthersStay(t)
        /\ cache' = [cache EXCEPT ![job[t].v] = job[t].new]
        /\ UNCHANGED <<cvar, blk, history>>
    BY <1>17, FinishMoves DEF StoreValue
  <2>2. CASE job[t].v # v
    <3>1. \A u \in Threads : Alike(u, v)
      BY <2>1, <2>2, ElsewhereAlike DEF On
    <3>2. cache'[v] = cache[v]
      BY <2>1, <2>2 DEF TypeOK
    <3> QED
      BY <2>1, <3>1, <3>2, MirrorKept
  <2>3. CASE job[t].v = v
    <3>1. SUFFICES ASSUME v \in touched \ unsettled
                   PROVE  Mirrored(v)'
      BY <2>1 DEF Mirrored
    <3>2. t \in Propagating(v) /\ cache'[v] = job[t].new
      BY <2>1, <2>3 DEF Propagating, Pending, TypeOK
    <3>3. Propagating(v) = {t} /\ job[t].new = cvar[v]
      BY <2>1, <3>1, <3>2 DEF Mirrored
    <3>4. Propagating(v)' = {} /\ Pending(v)' = Pending(v) \ {t}
          /\ \A u \in Pending(v)' : at'[u] = at[u]
      BY <2>1, <3>3 DEF Propagating, Pending, OthersStay
    <3> QED
      BY <2>1, <3>1, <3>2, <3>3, <3>4 DEF Mirrored
  <2> QED
    BY <2>2, <2>3
<1>18. ASSUME UNCHANGED <<values, at, job, history>>
       PROVE  Mirrored(v)'
  BY <1>18 DEF Mirrored, Propagating, Pending
<1>19. ASSUME NEW w \in Watchers, NEW V \in Interests, Monitor(w, V)
       PROVE  Mirrored(v)'
  BY <1>18, <1>19 DEF Monitor
<1>24. ASSUME NEW w \in Watchers, Disconnect(w)
       PROVE  Mirrored(v)'
  BY <1>18, <1>24 DEF Disconnect
<1>20. CASE StopPlc \/ StopReturn \/ CloseListener
  BY <1>18, <1>20 DEF StopPlc, StopReturn, CloseListener
<1>21. CASE StartPlc \/ StartReturn
  BY <1>21 DEF StartPlc, StartReturn, Mirrored
<1>22. CASE Terminate \/ TellNext \/ TellEnd
  <2>1. OthersStay("listener") /\ UNCHANGED <<values, history>>
    BY <1>22, TellMoves DEF Terminate, TellNext, TellEnd
  <2>2. job["listener"].v # v /\ job'["listener"].v # v
    BY <1>1, <1>2, <1>22, TellMoves DEF Placed, Carries
  <2>3. \A u \in Threads : Alike(u, v)
    BY <1>1, <2>1, <2>2, ElsewhereAlike DEF On
  <2> QED
    BY <2>1, <2>3, MirrorKept
<1>23. CASE UNCHANGED vars
  BY <1>18, <1>23 DEF vars
<1> QED
  BY <1>1, <1>5, <1>6, <1>7, <1>8, <1>9, <1>10, <1>12, <1>13, <1>15, <1>16, <1>17,
     <1>19, <1>20, <1>21, <1>22, <1>23, <1>24 DEF Next, Propagate, Threads

---------------------------------------------------------------------------
(* The same for what the clients have been sent: a thread keeps its place   *)
(* in the loop over them, or has not come to the loop before and after.     *)
Moving(t, v) == t \in Propagating(v)

Before == {"callback", "sync", "compare"}

Level(t, v) ==
    /\ Moving(t, v)' <=> Moving(t, v)
    /\ Moving(t, v) =>
         \/ at[t] \in Before /\ at'[t] \in Before
         \/ at'[t] = at[t] /\ job'[t].new = job[t].new /\ job'[t].i = job[t].i

LEMMA ViewKept ==
  ASSUME TypeOK, NEW v \in Vars, Viewed(v), \A t \in Threads : Level(t, v),
         v \notin everUnsettled' => v \notin everUnsettled,
         NoneGone' => NoneGone, UNCHANGED <<conn_watcher, subs, lateSubs>>,
         \A w \in Watchers : view'[w][v] = view[w][v],
         cache'[v] = cache[v]
  PROVE  Viewed(v)'
<1>1. Propagating(v)' = Propagating(v)
  BY DEF Level, Moving, Propagating, Pending
<1>2. \A t \in Propagating(v) :
        /\ at[t] \in Before <=> at'[t] \in Before
        /\ at[t] \notin Before => at'[t] = at[t] /\ job'[t].new = job[t].new
                                    /\ job'[t].i = job[t].i
  BY DEF Level, Moving, Propagating, Pending
<1>3. \A k \in 1..Len(conn_watcher) : conn_watcher[k] \in Watchers
  BY ElementOfSeq DEF TypeOK
<1>4. v \notin everUnsettled' => \A t, u \in Propagating(v)' : t = u
  BY <1>1 DEF Viewed
<1>5. ASSUME v \notin everUnsettled', NoneGone', NEW k \in 1..Len(conn_watcher),
             v \in subs[conn_watcher[k]], <<conn_watcher[k], v>> \notin lateSubs
      PROVE  /\ (\A t \in Propagating(v)' : at'[t] \in Before)
                  => view'[conn_watcher[k]][v] = cache'[v]
             /\ \A t \in Propagating(v)' :
                  at'[t] = "store" \/ (at'[t] = "loop" /\ k < job'[t].i)
                    => view'[conn_watcher[k]][v] = job'[t].new
  <2>1. /\ (\A t \in Propagating(v) : at[t] \in Before)
             => view[conn_watcher[k]][v] = cache[v]
        /\ \A t \in Propagating(v) :
             at[t] = "store" \/ (at[t] = "loop" /\ k < job[t].i)
               => view[conn_watcher[k]][v] = job[t].new
    BY <1>5 DEF Viewed, Before
  <2>2. \A t \in Propagating(v) : at'[t] \in {"store", "loop"} => at[t] \notin Before
    BY <1>2 DEF Before
  <2> QED
    BY <1>1, <1>2, <1>3, <2>1, <2>2
<1> QED
  BY <1>4, <1>5 DEF Viewed, Before

LEMMA ElsewhereLevel ==
  ASSUME NEW v, NEW t \in Threads, OthersStay(t), ~Moving(t, v), ~Moving(t, v)'
  PROVE  \A u \in Threads : Level(u, v)
BY DEF OthersStay, Level, Moving, Propagating, Pending

(* The only thread that carries v moves on, and the clients it has passed   *)
(* have its value -- all of them, if it is done.                            *)
LEMMA MoverViewed ==
  ASSUME NEW v \in Vars, Viewed(v), NEW t \in Threads, Moving(t, v), OthersStay(t),
         v \notin everUnsettled, UNCHANGED <<conn_watcher, subs, lateSubs>>,
         Moving(t, v)' => at'[t] \notin Before,
         NoneGone' =>
           \A k \in 1..Len(conn_watcher) :
             v \in subs[conn_watcher[k]] /\ <<conn_watcher[k], v>> \notin lateSubs =>
               /\ ~Moving(t, v)' => view'[conn_watcher[k]][v] = cache'[v]
               /\ Moving(t, v)' =>
                    (at'[t] = "store" \/ (at'[t] = "loop" /\ k < job'[t].i)
                       => view'[conn_watcher[k]][v] = job'[t].new)
  PROVE  Viewed(v)'
<1>1. Propagating(v) = {t}
  BY DEF Moving, Viewed
<1>2. Propagating(v)' = IF Moving(t, v)' THEN {t} ELSE {}
  BY <1>1 DEF Moving, Propagating, Pending, OthersStay
<1> DEFINE Sent(k) ==
       /\ (\A u \in Propagating(v)' : at'[u] \in Before)
            => view'[conn_watcher[k]][v] = cache'[v]
       /\ \A u \in Propagating(v)' :
            at'[u] = "store" \/ (at'[u] = "loop" /\ k < job'[u].i)
              => view'[conn_watcher[k]][v] = job'[u].new
<1>3. ASSUME NoneGone', NEW k \in 1..Len(conn_watcher),
             v \in subs[conn_watcher[k]], <<conn_watcher[k], v>> \notin lateSubs
      PROVE  Sent(k)
  <2>1. CASE Moving(t, v)'
    <3>1. Propagating(v)' = {t} /\ at'[t] \notin Before
      BY <1>2, <2>1
    <3> QED
      BY <1>3, <2>1, <3>1
  <2>2. CASE ~Moving(t, v)'
    <3>1. Propagating(v)' = {}
      BY <1>2, <2>2
    <3> QED
      BY <1>3, <2>2, <3>1
  <2> QED
    BY <2>1, <2>2
<1>4. \A s, u \in Propagating(v)' : s = u
  BY <1>2
<1> QED
  BY <1>3, <1>4 DEF Viewed, Before

(* Every step keeps what the clients have been sent. *)
LEMMA StepViewed ==
  ASSUME TypeOK, \A t \in Threads : Placed(t), [Next]_vars,
         NEW v \in Vars, Viewed(v)
  PROVE  Viewed(v)'
<1> USE SupervisorAssumption DEF values, clients, control, history
<1>1. "listener" \in Threads /\ "plc" \in Threads
  BY DEF Threads
<1>2. v # NoValue /\ NoJob.v = NoValue
  BY DEF NoJob
<1>3. \A k \in 1..Len(conn_watcher) : conn_watcher[k] \in Watchers
  BY ElementOfSeq DEF TypeOK
<1>4. NoneGone' => NoneGone
  <2>1. \A w \in Watchers : peer[w] = "down" => peer'[w] = "down"
    <3>1. ASSUME NEW w \in Watchers, NEW V \in SUBSET Vars, Monitor(w, V) \/ Disconnect(w)
          PROVE  \A u \in Watchers : peer[u] = "down" => peer'[u] = "down"
      BY <3>1 DEF Monitor, Disconnect, TypeOK
    <3>2. CASE UNCHANGED peer
      BY <3>2
    <3> QED
      BY NeighboursAssumption, <3>1, <3>2 DEF Next, Propagate, Assign, SetTag, ModbusWrite, Callback, SetVar,
           SyncBlock, Compare, LoopNext, LoopEnd, FindDead, DeleteDead, StoreValue,
           StopPlc, StopReturn, StartPlc, StartReturn, Terminate, TellNext, TellEnd,
           CloseListener, vars
  <2> QED
    BY <2>1 DEF NoneGone
<1>5. ASSUME NEW x \in Values, NEW t \in Threads, NEW v0 \in Vars, NEW Z,
             WriteVar(t, v0, x, Z)
      PROVE  /\ v \notin everUnsettled' => v \notin everUnsettled
             /\ v0 = v /\ v \notin everUnsettled' => Propagating(v) \subseteq {t}
  BY <1>5 DEF WriteVar, TypeOK
<1>6. ASSUME NEW t \in Threads, NEW x \in Values, NEW Z, WriteVar(t, v, x, Z),
             ~Moving(t, v),
             Moving(t, v)', at'[t] \in Before, OthersStay(t), UNCHANGED <<cache, clients>>
      PROVE  Viewed(v)'
  <2>1. SUFFICES ASSUME v \notin everUnsettled'
                 PROVE  Viewed(v)'
    BY DEF Viewed
  <2>2. Propagating(v) = {} /\ v \notin everUnsettled
    BY <1>5, <1>6, <2>1 DEF Moving
  <2>3. Propagating(v)' = {t}
    BY <1>6, <2>2 DEF Moving, Propagating, Pending, OthersStay
  <2>4. ASSUME NoneGone', NEW k \in 1..Len(conn_watcher),
               v \in subs[conn_watcher[k]], <<conn_watcher[k], v>> \notin lateSubs
        PROVE  view[conn_watcher[k]][v] = cache[v]
    BY <1>4, <2>2, <2>4 DEF Viewed
  <2>5. \A s, u \in Propagating(v)' : s = u
    BY <2>3
  <2>6. \A u \in Propagating(v)' : at'[u] # "store" /\ at'[u] # "loop"
    BY <1>6, <2>3 DEF Before
  <2>7. /\ conn_watcher' = conn_watcher /\ subs' = subs /\ lateSubs' = lateSubs
        /\ view' = view /\ cache' = cache
    BY <1>6
  <2> QED
    BY <2>4, <2>5, <2>6, <2>7 DEF Viewed
<1>7. ASSUME NEW v0 \in Vars, NEW x \in Values, Assign(v0, x)
      PROVE  Viewed(v)'
  <2>1. /\ at["plc"] = "idle" /\ at'["plc"] = "callback" /\ job'["plc"].v = v0
        /\ OthersStay("plc") /\ WriteVar("plc", v0, x, {}) /\ UNCHANGED <<cache, clients>>
    BY <1>7, AssignMoves
  <2>2. ~Moving("plc", v)
    BY <2>1 DEF Moving, Propagating, Pending
  <2>3. CASE v0 = v
    <3>1. Moving("plc", v)' /\ at'["plc"] \in Before
      BY <1>1, <2>1, <2>3 DEF Moving, Propagating, Pending, Before
    <3> QED
      BY <1>1, <1>6, <2>1, <2>2, <2>3, <3>1
  <2>4. CASE v0 # v
    <3>1. ~Moving("plc", v)'
      BY <2>1, <2>4 DEF Moving, Propagating, Pending
    <3>2. \A u \in Threads : Level(u, v)
      BY <1>1, <2>1, <2>2, <3>1, ElsewhereLevel
    <3> QED
      BY <1>1, <1>4, <1>5, <1>7, <2>1, <3>2, ViewKept
  <2> QED
    BY <2>3, <2>4
<1>8. ASSUME NEW v0 \in Vars, NEW x \in Values, NEW t \in Threads,
             (SetTag(v0, x) /\ t = "listener") \/ ModbusWrite(t, v0, x)
      PROVE  Viewed(v)'
  <2>1. at[t] = "idle" /\ OthersStay(t)
    BY <1>8, StartMoves
  <2>2. at'[t] = "write" /\ UNCHANGED <<cache, clients, everUnsettled>>
    BY <1>8 DEF SetTag, ModbusWrite, Goto, TypeOK
  <2>3. \A u \in Threads : Level(u, v)
    BY <2>1, <2>2, ElsewhereLevel DEF Moving, Propagating, Pending
  <2> QED
    BY <1>4, <2>2, <2>3, ViewKept
<1>9. CASE Callback
  <2>1. /\ at["plc"] = "callback" /\ at'["plc"] = "sync"
        /\ job'["plc"].v = job["plc"].v /\ OthersStay("plc")
        /\ UNCHANGED <<values, clients, history>>
    BY <1>9, CallbackMoves DEF Callback
  <2>2. \A u \in Threads : Level(u, v)
    BY <1>1, <2>1 DEF Level, Moving, Propagating, Pending, Before, OthersStay
  <2> QED
    BY <1>4, <2>1, <2>2, ViewKept
<1>10. ASSUME NEW t \in Threads, SetVar(t)
       PROVE  Viewed(v)'
  <2>1. /\ at[t] = "write" /\ at'[t] = "sync" /\ OthersStay(t) /\ UNCHANGED job
        /\ WriteVar(t, job[t].v, job[t].new, Overrun[job[t].v])
        /\ UNCHANGED <<cache, clients>> /\ job[t].v \in Vars /\ job[t].new \in Values
    BY <1>10 DEF SetVar, Goto, TypeOK, OthersStay, Placed
  <2>2. ~Moving(t, v)
    BY <2>1 DEF Moving, Propagating, Pending
  <2>3. CASE job[t].v = v
    <3>1. Moving(t, v)' /\ at'[t] \in Before
      BY <2>1, <2>3 DEF Moving, Propagating, Pending, Before
    <3> QED
      BY <1>6, <2>1, <2>2, <2>3, <3>1
  <2>4. CASE job[t].v # v
    <3>1. ~Moving(t, v)'
      BY <2>1, <2>4 DEF Moving, Propagating, Pending
    <3>2. \A u \in Threads : Level(u, v)
      BY <2>1, <2>2, <3>1, ElsewhereLevel
    <3>3. v \notin everUnsettled' => v \notin everUnsettled
      BY <1>5, <2>1
    <3> QED
      BY <1>4, <2>1, <3>2, <3>3, ViewKept
  <2> QED
    BY <2>3, <2>4
<1>11. ASSUME NEW t \in Threads, SyncBlock(t)
       PROVE  Viewed(v)'
  <2>1. /\ at[t] = "sync" /\ at'[t] = "compare" /\ OthersStay(t) /\ UNCHANGED job
        /\ UNCHANGED <<cache, clients, history>>
    BY <1>11 DEF SyncBlock, Goto, TypeOK, OthersStay
  <2>2. \A u \in Threads : Level(u, v)
    BY <2>1 DEF Level, Moving, Propagating, Pending, Before, OthersStay
  <2> QED
    BY <1>4, <2>1, <2>2, ViewKept
<1>12. ASSUME v \in everUnsettled'
       PROVE  Viewed(v)'
  BY <1>12 DEF Viewed
<1>13. ASSUME NEW t \in Threads, Compare(t)
       PROVE  Viewed(v)'
  <2>1. UNCHANGED <<values, clients, history>> /\ at[t] = "compare" /\ OthersStay(t)
    BY <1>13, CompareMoves DEF Compare
  <2>2. CASE ~Moving(t, v)
    <3>1. ~Moving(t, v)'
      BY <1>2, <1>13, <2>1, <2>2, CompareMoves DEF Moving, Propagating, Pending, Carries
    <3>2. \A u \in Threads : Level(u, v)
      BY <2>1, <2>2, <3>1, ElsewhereLevel
    <3> QED
      BY <1>4, <2>1, <3>2, ViewKept
  <2>3. CASE Moving(t, v) /\ v \notin everUnsettled
    <3>1. job[t].v = v
      BY <2>3 DEF Moving, Propagating, Pending
    <3>2. CASE Changed(job[t].v, job[t].new)
      <4>1. at'[t] = "loop" /\ job'[t].v = v /\ job'[t].i = 1
        BY <1>13, <3>1, <3>2, CompareMoves DEF Carries
      <4>2. Moving(t, v)' /\ at'[t] \notin Before
        BY <4>1 DEF Moving, Propagating, Pending, Before
      <4> QED
        BY <2>1, <2>3, <4>1, <4>2, MoverViewed
    <3>3. CASE ~Changed(job[t].v, job[t].new)
      <4>1. at'[t] = "idle"
        BY <1>13, <3>3, CompareMoves
      <4>2. ~Moving(t, v)'
        BY <4>1 DEF Moving, Propagating, Pending
      <4>3. Propagating(v) = {t}
        BY <2>3 DEF Moving, Viewed
      <4>4. ASSUME NoneGone', NEW k \in 1..Len(conn_watcher),
                   v \in subs[conn_watcher[k]], <<conn_watcher[k], v>> \notin lateSubs
            PROVE  view[conn_watcher[k]][v] = cache[v]
        BY <1>4, <2>1, <2>3, <4>3, <4>4 DEF Viewed
      <4> QED
        BY <2>1, <2>3, <4>2, <4>4, MoverViewed
    <3> QED
      BY <3>2, <3>3
  <2> QED
    BY <1>12, <2>1, <2>2, <2>3
<1>14. ASSUME NEW t \in Threads, LoopNext(t)
       PROVE  Viewed(v)'
  <2> DEFINE w == conn_watcher[job[t].i]
  <2>1. /\ UNCHANGED <<values, conn_watcher, subs, peer, lateSubs, history>>
        /\ at[t] = "loop" /\ at'[t] \in {"loop", "index"} /\ OthersStay(t) /\ Carries(t)
        /\ job[t].i \in Nat /\ w \in Watchers
    BY <1>14, LoopNextMoves DEF LoopNext, TypeOK, Jobs
  <2>2. CASE ~Moving(t, v)
    <3>1. job[t].v # v /\ ~Moving(t, v)'
      BY <2>1, <2>2 DEF Moving, Propagating, Pending, Carries
    <3>2. \A u \in Threads : Level(u, v)
      BY <2>1, <2>2, <3>1, ElsewhereLevel
    <3>3. \A u \in Watchers : view'[u][v] = view[u][v]
      <4>1. view' = view \/ view' = [view EXCEPT ![w][job[t].v] = job[t].new]
        BY <1>14, LoopNextMoves
      <4>2. view \in [Watchers -> [Vars -> Values \union {NoValue}]]
        BY DEF TypeOK
      <4> HIDE DEF w
      <4> QED
        BY <2>1, <3>1, <4>1, <4>2
    <3> QED
      BY <1>4, <2>1, <3>2, <3>3, ViewKept
  <2>3. CASE Moving(t, v) /\ v \notin everUnsettled
    <3>1. job[t].v = v /\ Moving(t, v)'
      BY <2>1, <2>3 DEF Moving, Propagating, Pending, Carries
    <3>2. ASSUME NoneGone', NEW k \in 1..Len(conn_watcher),
                 v \in subs[conn_watcher[k]], <<conn_watcher[k], v>> \notin lateSubs,
                 at'[t] = "store" \/ (at'[t] = "loop" /\ k < job'[t].i)
          PROVE  view'[conn_watcher[k]][v] = job'[t].new
      <4>1. peer[w] # "down"
        BY <2>1, <3>2 DEF NoneGone
      <4>2. /\ at'[t] = "loop" /\ job'[t].i = job[t].i + 1
            /\ view' = IF v \in subs[w] THEN [view EXCEPT ![w][v] = job[t].new] ELSE view
        BY <1>14, <3>1, <4>1, LoopNextMoves
      <4>3. CASE k = job[t].i
        BY <2>1, <3>2, <4>2, <4>3 DEF TypeOK, Carries
      <4>4. CASE k # job[t].i
        <5>1. k < job[t].i
          BY <2>1, <3>2, <4>2, <4>4
        <5>2. view[conn_watcher[k]][v] = job[t].new
          BY <1>4, <2>1, <2>3, <3>2, <5>1 DEF Viewed, Moving
        <5> QED
          BY <1>3, <2>1, <3>2, <4>2, <5>2 DEF TypeOK, Carries
      <4> QED
        BY <4>3, <4>4
    <3> QED
      BY <2>1, <2>3, <3>1, <3>2, MoverViewed DEF Before
  <2> QED
    BY <1>12, <2>1, <2>2, <2>3
<1>15. ASSUME NEW t \in Threads, LoopEnd(t)
       PROVE  Viewed(v)'
  <2>1. /\ UNCHANGED <<values, clients, job, history>> /\ OthersStay(t)
        /\ at[t] = "loop" /\ at'[t] = "store" /\ job[t].i > Len(conn_watcher)
        /\ job[t].i \in Nat /\ Len(conn_watcher) \in Nat
    BY <1>15, LenProperties DEF LoopEnd, Goto, TypeOK, OthersStay, Jobs
  <2>2. CASE ~Moving(t, v)
    <3>1. ~Moving(t, v)'
      BY <2>1, <2>2 DEF Moving, Propagating, Pending
    <3>2. \A u \in Threads : Level(u, v)
      BY <2>1, <2>2, <3>1, ElsewhereLevel
    <3> QED
      BY <1>4, <2>1, <3>2, ViewKept
  <2>3. CASE Moving(t, v) /\ v \notin everUnsettled
    <3>1. Moving(t, v)' /\ at'[t] \notin Before
      BY <2>1, <2>3 DEF Moving, Propagating, Pending, Before
    <3>2. ASSUME NoneGone', NEW k \in 1..Len(conn_watcher),
                 v \in subs[conn_watcher[k]], <<conn_watcher[k], v>> \notin lateSubs
          PROVE  view[conn_watcher[k]][v] = job[t].new
      <4>1. k < job[t].i
        BY <2>1
      <4> QED
        BY <1>4, <2>1, <2>3, <3>2, <4>1 DEF Viewed, Moving
    <3> QED
      BY <2>1, <2>3, <3>1, <3>2, MoverViewed
  <2> QED
    BY <1>12, <2>1, <2>2, <2>3
<1>16. ASSUME NEW t \in Threads, FindDead(t) \/ DeleteDead(t)
       PROVE  Viewed(v)'
  <2>1. /\ at[t] \in {"index", "del"} /\ at'[t] \in {"idle", "loop", "del"}
        /\ UNCHANGED peer
        /\ \A u \in Threads \ {t} : at'[u] = at[u] /\ job'[u].v = job[u].v
        /\ at'[t] # "idle" => job'[t].v = job[t].v
        /\ UNCHANGED everUnsettled \/ everUnsettled' = everUnsettled \union {job[t].v}
    BY <1>16, FindDeadMoves, DeleteDeadMoves
       DEF FindDead, DeleteDead, OthersStay, Carries, Abort
  <2>2. ~NoneGone'
    BY <2>1 DEF Placed, NoneGone
  <2>3. Propagating(v)' \subseteq Propagating(v)
    BY <2>1 DEF Propagating, Pending
  <2>4. v \notin everUnsettled' => v \notin everUnsettled
    BY <2>1
  <2> QED
    BY <2>2, <2>3, <2>4 DEF Viewed
<1>17. ASSUME NEW t \in Threads, StoreValue(t)
       PROVE  Viewed(v)'
  <2>1. /\ at[t] = "store" /\ at'[t] = "idle" /\ job'[t] = NoJob /\ OthersStay(t)
        /\ cache' = [cache EXCEPT ![job[t].v] = job[t].new]
        /\ UNCHANGED <<cvar, blk, clients, history>>
    BY <1>17, FinishMoves DEF StoreValue
  <2>2. ~Moving(t, v)'
    BY <2>1 DEF Moving, Propagating, Pending
  <2>3. CASE ~Moving(t, v)
    <3>1. \A u \in Threads : Level(u, v)
      BY <2>1, <2>2, <2>3, ElsewhereLevel
    <3>2. cache'[v] = cache[v]
      BY <2>1, <2>3 DEF TypeOK, Moving, Propagating, Pending
    <3> QED
      BY <1>4, <2>1, <3>1, <3>2, ViewKept
  <2>4. CASE Moving(t, v) /\ v \notin everUnsettled
    <3>1. cache'[v] = job[t].new
      BY <2>1, <2>4 DEF TypeOK, Moving, Propagating, Pending
    <3>2. ASSUME NoneGone', NEW k \in 1..Len(conn_watcher),
                 v \in subs[conn_watcher[k]], <<conn_watcher[k], v>> \notin lateSubs
          PROVE  view[conn_watcher[k]][v] = job[t].new
      BY <1>4, <2>1, <2>4, <3>2 DEF Viewed, Moving
    <3> QED
      BY <2>1, <2>2, <2>4, <3>1, <3>2, MoverViewed
  <2> QED
    BY <1>12, <2>1, <2>3, <2>4
<1>18. ASSUME NEW w \in Watchers, NEW V \in SUBSET Vars, Monitor(w, V)
       PROVE  Viewed(v)'
  <2>1. /\ conn_watcher' = Append(conn_watcher, w)
        /\ subs' = [subs EXCEPT ![w] = V] /\ view' = [view EXCEPT ![w] = cache]
        /\ lateSubs' = lateSubs \union {<<w, u>> : u \in {u \in V : Propagating(u) # {}}}
        /\ UNCHANGED <<values, at, job, history>>
    BY <1>18 DEF Monitor
  <2>2. Propagating(v)' = Propagating(v)
    BY <2>1 DEF Propagating, Pending
  <2>3. lateSubs \subseteq lateSubs' /\ (v \in V /\ Propagating(v) # {} => <<w, v>> \in lateSubs')
    BY <2>1
  <2>4. ASSUME NEW k \in 1..Len(conn_watcher'), conn_watcher'[k] # w
        PROVE  k \in 1..Len(conn_watcher) /\ conn_watcher'[k] = conn_watcher[k]
    BY <2>1, <2>4, AppendProperties, LenProperties DEF TypeOK
  <2>5. \A k \in 1..Len(conn_watcher) : conn_watcher[k] # w =>
          subs'[conn_watcher[k]] = subs[conn_watcher[k]]
            /\ view'[conn_watcher[k]] = view[conn_watcher[k]]
    BY <1>3, <2>1 DEF TypeOK
  <2>6. subs'[w] = V /\ view'[w] = cache
    BY <2>1 DEF TypeOK
  <2> DEFINE Sent(k) ==
         /\ (\A t \in Propagating(v)' : at'[t] \in {"callback", "sync", "compare"})
              => view'[conn_watcher'[k]][v] = cache'[v]
         /\ \A t \in Propagating(v)' :
              at'[t] = "store" \/ (at'[t] = "loop" /\ k < job'[t].i)
                => view'[conn_watcher'[k]][v] = job'[t].new
  <2>7. ASSUME v \notin everUnsettled', NoneGone', NEW k \in 1..Len(conn_watcher'),
               v \in subs'[conn_watcher'[k]], <<conn_watcher'[k], v>> \notin lateSubs'
        PROVE  Sent(k)
    <3>1. CASE conn_watcher'[k] = w
      <4>1. Propagating(v) = {}
        BY <2>3, <2>6, <2>7, <3>1
      <4> QED
        BY <2>1, <2>2, <2>6, <3>1, <4>1
    <3>2. CASE conn_watcher'[k] # w
      <4>1. k \in 1..Len(conn_watcher) /\ conn_watcher'[k] = conn_watcher[k]
        BY <2>4, <3>2
      <4>2. v \in subs[conn_watcher[k]] /\ <<conn_watcher[k], v>> \notin lateSubs
            /\ view'[conn_watcher[k]] = view[conn_watcher[k]]
        BY <2>3, <2>5, <2>7, <3>2, <4>1
      <4> QED
        BY <1>4, <2>1, <2>2, <2>7, <4>1, <4>2 DEF Viewed
    <3> QED
      BY <3>1, <3>2
  <2>8. v \notin everUnsettled' => \A t, u \in Propagating(v)' : t = u
    BY <2>1, <2>2 DEF Viewed
  <2> QED
    BY <2>7, <2>8 DEF Viewed
<1>19. ASSUME UNCHANGED <<cache, conn_watcher, subs, view, lateSubs, at, job, everUnsettled>>
       PROVE  Viewed(v)'
  <2>1. \A t \in Threads : Level(t, v)
    BY <1>19 DEF Level, Moving, Propagating, Pending
  <2> QED
    BY <1>4, <1>19, <2>1, ViewKept
<1>20. ASSUME NEW w \in Watchers, Disconnect(w)
       PROVE  Viewed(v)'
  BY <1>19, <1>20 DEF Disconnect
<1>21. CASE StopPlc \/ StopReturn \/ StartPlc \/ StartReturn \/ CloseListener
  BY <1>19, <1>21 DEF StopPlc, StopReturn, StartPlc, StartReturn, CloseListener
<1>22. CASE Terminate \/ TellNext \/ TellEnd
  <2>1. OthersStay("listener") /\ UNCHANGED <<values, conn_watcher, subs, view, lateSubs, history>>
    BY <1>22, TellMoves DEF Terminate, TellNext, TellEnd
  <2>2. job["listener"].v # v /\ job'["listener"].v # v
    BY <1>1, <1>2, <1>22, TellMoves DEF Placed, Carries
  <2>3. \A u \in Threads : Level(u, v)
    BY <1>1, <2>1, <2>2, ElsewhereLevel DEF Moving, Propagating, Pending
  <2> QED
    BY <1>4, <2>1, <2>3, ViewKept
<1>23. CASE UNCHANGED vars
  BY <1>19, <1>23 DEF vars
<1> QED
  BY NeighboursAssumption, <1>1, <1>7, <1>8, <1>9, <1>10, <1>11, <1>13, <1>14, <1>15, <1>16, <1>17, <1>18,
     <1>20, <1>21, <1>22, <1>23 DEF Next, Propagate, Threads

---------------------------------------------------------------------------
(* What a deletion costs a loop: from position n on, the shorter list has   *)
(* all the elements of the longer one but one.                              *)
Rest(s, n) == {s[j] : j \in n .. Len(s)}

LEMMA RestAfterRemoveAt ==
  ASSUME NEW S, NEW s \in Seq(S), NEW d \in 1..Len(s), NEW n \in Nat, n >= 1
  PROVE  \E e : Rest(s, n) \subseteq Rest(RemoveAt(s, d), n) \union {e}
<1> DEFINE r == RemoveAt(s, d)
           e == IF d >= n THEN s[d] ELSE s[n]
<1>1. /\ Len(s) \in Nat /\ d \in Nat /\ Len(r) = Len(s) - 1
      /\ \A j \in 1..Len(s) - 1 : r[j] = IF j < d THEN s[j] ELSE s[j + 1]
  <2>1. Len(s) \in Nat
    BY LenProperties
  <2>2. d \in Nat
    BY <2>1
  <2>3. /\ Len(r) = Len(s) - 1
        /\ \A j \in 1..Len(s) - 1 : r[j] = IF j < d THEN s[j] ELSE s[j + 1]
    BY RemoveAtFacts, Zenon
  <2> QED
    BY <2>1, <2>2, <2>3
<1> HIDE DEF r, e
<1>2. ASSUME NEW j \in n .. Len(s), s[j] # e
      PROVE  s[j] \in Rest(r, n)
  <2>1. CASE j < d
    <3>1. j \in n .. Len(r) /\ r[j] = s[j]
      BY <1>1, <2>1
    <3> QED
      BY <3>1 DEF Rest
  <2>2. CASE j > d
    <3>1. j - 1 \in 1..Len(s) - 1 /\ ~(j - 1 < d) /\ j - 1 + 1 = j
      BY <1>1, <2>2
    <3>2. r[j - 1] = s[j]
      BY <1>1, <3>1
    <3>3. j # n
      BY <1>1, <1>2, <2>2 DEF e
    <3>4. j - 1 \in n .. Len(r)
      BY <1>1, <2>2, <3>3
    <3> QED
      BY <3>2, <3>4 DEF Rest
  <2>3. j # d
    BY <1>1, <1>2 DEF e
  <2> QED
    BY <1>1, <2>1, <2>2, <2>3
<1>3. Rest(s, n) \subseteq Rest(r, n) \union {e}
  BY <1>2 DEF Rest
<1> QED
  BY <1>3 DEF r

(* What appending does not cost. *)
LEMMA RestAfterAppend ==
  ASSUME NEW S, NEW s \in Seq(S), NEW w \in S, NEW n \in Nat, n >= 1
  PROVE  Rest(s, n) \subseteq Rest(Append(s, w), n)
<1>1. /\ Len(s) \in Nat /\ Len(Append(s, w)) = Len(s) + 1
      /\ \A j \in 1..Len(s) : Append(s, w)[j] = s[j]
  BY AppendProperties, LenProperties
<1> QED
  BY <1>1 DEF Rest

LEMMA OneMore ==
  ASSUME NEW T, IsFiniteSet(T), NEW A, NEW B, NEW e, A \subseteq B \union {e},
         NEW d \in Nat, Cardinality(T \ A) <= d
  PROVE  Cardinality(T \ B) <= d + 1
<1>1. IsFiniteSet(T \ A) /\ IsFiniteSet((T \ A) \union {e}) /\ IsFiniteSet(T \ B)
  BY FS_Subset, FS_AddElement
<1>2. T \ B \subseteq (T \ A) \union {e}
  OBVIOUS
<1>3. Cardinality(T \ B) <= Cardinality((T \ A) \union {e})
  BY <1>1, <1>2, FS_Subset
<1>4. /\ Cardinality((T \ A) \union {e}) \in {Cardinality(T \ A), Cardinality(T \ A) + 1}
      /\ Cardinality(T \ A) \in Nat /\ Cardinality(T \ B) \in Nat
      /\ Cardinality((T \ A) \union {e}) \in Nat
  BY <1>1, FS_AddElement, FS_CardinalityType
<1> QED
  BY <1>3, <1>4

LEMMA NoMore ==
  ASSUME NEW T, IsFiniteSet(T), NEW U, U \subseteq T, NEW d \in Nat,
         Cardinality(T) <= d
  PROVE  IsFiniteSet(U) /\ Cardinality(U) <= d
<1>1. IsFiniteSet(U) /\ Cardinality(U) <= Cardinality(T)
  BY FS_Subset
<1>2. Cardinality(U) \in Nat /\ Cardinality(T) \in Nat
  BY <1>1, FS_CardinalityType
<1> QED
  BY <1>1, <1>2

(* Ahead in terms of Rest. *)
Looping == {"loop", "index", "del"}
From(t) == IF at[t] = "loop" THEN job[t].i ELSE job[t].i + 1

LEMMA AheadIsRest ==
  ASSUME NEW t
  PROVE  /\ at[t] \in Looping => Ahead(t) = Rest(conn_watcher, From(t))
         /\ at[t] \notin Looping => Ahead(t) = {}
BY DEF Ahead, Rest, Looping, From

LEMMA FiniteRange ==
  ASSUME NEW S, NEW s \in Seq(S)
  PROVE  IsFiniteSet(Range(s))
<1>1. Len(s) \in Nat /\ DOMAIN s = 1..Len(s)
  BY LenProperties
<1>2. IsFiniteSet(1..Len(s))
  BY <1>1, FS_Interval
<1>3. s \in [1..Len(s) -> Range(s)] /\ Range(s) = {s[k] : k \in 1..Len(s)}
  <2>1. Range(s) = {s[k] : k \in 1..Len(s)}
    BY RangeEquality
  <2>2. s \in [1..Len(s) -> S]
    BY LenProperties
  <2> QED
    BY <2>1, <2>2
<1>4. s \in Surjection(1..Len(s), Range(s))
  BY <1>3 DEF Surjection
<1> QED
  BY <1>2, <1>4, FS_Surjection

LEMMA SkippedKept ==
  ASSUME TypeOK, NEW t \in Threads, Placed(t), Skipped(t), at'[t] = at[t],
         at[t] \in {"loop", "index", "del", "store"} =>
            /\ job'[t].i = job[t].i /\ job'[t].todo = job[t].todo
            /\ job'[t].dels = job[t].dels,
         \/ conn_watcher' = conn_watcher
         \/ \E w \in Watchers : conn_watcher' = Append(conn_watcher, w)
  PROVE  Skipped(t)'
<1>1. SUFFICES ASSUME at[t] \in {"loop", "index", "del", "store"}
               PROVE  Skipped(t)'
  BY DEF Skipped
<1>2. /\ IsFiniteSet(job[t].todo) /\ Cardinality(Missed(t)) <= job[t].dels
      /\ job[t].dels \in Nat
  BY <1>1 DEF Skipped, TypeOK, Jobs
<1>3. Ahead(t) \subseteq Ahead(t)'
  <2>1. CASE at[t] \in Looping
    <3>1. From(t) \in Nat /\ From(t) >= 1 /\ From(t)' = From(t)
      BY <1>1, <2>1 DEF From, Placed, TypeOK, Jobs, Looping
    <3>2. Rest(conn_watcher, From(t)) \subseteq Rest(conn_watcher', From(t))
      <4>1. conn_watcher \in Seq(Watchers)
        BY DEF TypeOK
      <4> QED
        BY <3>1, <4>1, RestAfterAppend
    <3>3. Ahead(t)' = Rest(conn_watcher', From(t)')
      BY <2>1 DEF Ahead, Rest, Looping, From
    <3> QED
      BY <2>1, <3>1, <3>2, <3>3, AheadIsRest
  <2>2. CASE at[t] \notin Looping
    BY <2>2, AheadIsRest
  <2> QED
    BY <2>1, <2>2
<1>4. Missed(t)' \subseteq Missed(t)
  BY <1>1, <1>3 DEF Missed
<1>5. IsFiniteSet(Missed(t))
  BY <1>2, FS_Subset DEF Missed
<1>6. Cardinality(Missed(t)') <= job[t].dels
  BY <1>2, <1>4, <1>5, NoMore
<1> QED
  BY <1>1, <1>2, <1>6 DEF Skipped

(* Every step keeps what the loops skip within what was deleted. *)
LEMMA StepSkipped ==
  ASSUME TypeOK, \A t \in Threads : Placed(t), \A t \in Threads : Skipped(t),
         [Next]_vars
  PROVE  \A t \in Threads : Skipped(t)'
<1> USE SupervisorAssumption DEF values, clients, control, history
<1>1. "listener" \in Threads /\ "plc" \in Threads
  BY DEF Threads
<1>2. conn_watcher \in Seq(Watchers)
  BY DEF TypeOK
<1>3. ASSUME NEW t \in Threads, OthersStay(t), UNCHANGED conn_watcher, Skipped(t)'
      PROVE  \A u \in Threads : Skipped(u)'
  BY <1>3, SkippedKept DEF OthersStay
<1>4. ASSUME NEW t \in Threads, OthersStay(t), UNCHANGED conn_watcher,
             at'[t] \notin {"loop", "index", "del", "store"}
      PROVE  \A u \in Threads : Skipped(u)'
  BY <1>3, <1>4 DEF Skipped
<1>5. ASSUME UNCHANGED <<at, job>>,
             \/ conn_watcher' = conn_watcher
             \/ \E w \in Watchers : conn_watcher' = Append(conn_watcher, w)
      PROVE  \A u \in Threads : Skipped(u)'
  BY <1>5, SkippedKept
<1>6. ASSUME NEW v \in Vars, NEW x \in Values, NEW t \in Threads,
             \/ Assign(v, x) /\ t = "plc"
             \/ SetTag(v, x) /\ t = "listener"
             \/ ModbusWrite(t, v, x)
      PROVE  \A u \in Threads : Skipped(u)'
  <2>1. OthersStay(t) /\ at'[t] \in {"callback", "write"}
    BY <1>6, StartMoves
  <2>2. UNCHANGED conn_watcher
    BY <1>6 DEF Assign, SetTag, ModbusWrite
  <2> QED
    BY <1>4, <2>1, <2>2
<1>7. CASE Callback
  BY <1>1, <1>4, <1>7, CallbackMoves DEF Callback
<1>8. ASSUME NEW t \in Threads, SetVar(t) \/ SyncBlock(t)
      PROVE  \A u \in Threads : Skipped(u)'
  <2>1. OthersStay(t) /\ at'[t] \in {"sync", "compare"} /\ UNCHANGED conn_watcher
    BY <1>8 DEF SetVar, SyncBlock, Goto, TypeOK, OthersStay
  <2> QED
    BY <1>4, <2>1
<1>9. ASSUME NEW t \in Threads, Compare(t)
      PROVE  \A u \in Threads : Skipped(u)'
  <2>1. OthersStay(t) /\ UNCHANGED <<conn_watcher, subs>>
    BY <1>9, CompareMoves DEF Compare
  <2>2. CASE at'[t] # "loop"
    BY <1>4, <1>9, <2>1, <2>2, CompareMoves
  <2>3. CASE at'[t] = "loop"
    <3>1. /\ job'[t].i = 1 /\ job'[t].dels = job[t].dels
          /\ job'[t].todo = {w \in Range(conn_watcher) : job[t].v \in subs[w]}
      BY <1>9, <2>3, CompareMoves
    <3>2. IsFiniteSet(job'[t].todo)
      BY <1>2, <3>1, FiniteRange, FS_Subset
    <3>3. Ahead(t)' = Range(conn_watcher)
      BY <1>2, <2>1, <2>3, <3>1, RangeEquality DEF Ahead
    <3>4. Missed(t)' = {} /\ job'[t].dels \in Nat
      BY <3>1, <3>3 DEF Missed, TypeOK, Jobs
    <3>5. Cardinality(Missed(t)') <= job'[t].dels
      BY <3>4, FS_EmptySet
    <3>6. Skipped(t)'
      BY <3>2, <3>5 DEF Skipped
    <3> QED
      BY <1>3, <2>1, <3>6
  <2> QED
    BY <2>2, <2>3
<1>10. ASSUME NEW t \in Threads, LoopNext(t)
       PROVE  \A u \in Threads : Skipped(u)'
  <2> DEFINE i == job[t].i
             w == conn_watcher[i]
  <2>1. /\ at[t] = "loop" /\ OthersStay(t) /\ UNCHANGED conn_watcher
        /\ i \in 1..Len(conn_watcher) /\ i \in Nat /\ Len(conn_watcher) \in Nat
        /\ job'[t].todo = job[t].todo \ {w} /\ job'[t].dels = job[t].dels
        /\ \/ at'[t] = "index" /\ job'[t].i = i
           \/ at'[t] = "loop" /\ job'[t].i = i + 1
    BY <1>2, <1>10, LoopNextMoves, LenProperties DEF LoopNext, TypeOK, Jobs
  <2>2. Ahead(t)' = Rest(conn_watcher, i + 1) /\ Ahead(t) = Rest(conn_watcher, i)
    BY <2>1 DEF Ahead, Rest
  <2>3. Rest(conn_watcher, i) = Rest(conn_watcher, i + 1) \union {w}
    <3>1. i .. Len(conn_watcher) = (i + 1 .. Len(conn_watcher)) \union {i}
      BY <2>1
    <3> QED
      BY <3>1 DEF Rest
  <2>4. Missed(t)' = Missed(t)
    BY <2>1, <2>2, <2>3 DEF Missed
  <2>5. IsFiniteSet(job[t].todo) /\ Cardinality(Missed(t)) <= job[t].dels
    BY <2>1 DEF Skipped
  <2>6. IsFiniteSet(job'[t].todo)
    BY <2>1, <2>5, FS_Subset
  <2>7. Skipped(t)'
    BY <2>1, <2>4, <2>5, <2>6 DEF Skipped
  <2> QED
    BY <1>3, <2>1, <2>7
<1>11. ASSUME NEW t \in Threads, LoopEnd(t)
       PROVE  \A u \in Threads : Skipped(u)'
  <2>1. /\ at[t] = "loop" /\ at'[t] = "store" /\ OthersStay(t)
        /\ UNCHANGED <<conn_watcher, job>> /\ job[t].i > Len(conn_watcher)
        /\ job[t].i \in Nat /\ Len(conn_watcher) \in Nat
    BY <1>2, <1>11, LenProperties DEF LoopEnd, Goto, TypeOK, OthersStay, Jobs
  <2>2. Ahead(t)' = {}
    BY <2>1 DEF Ahead
  <2>3. Ahead(t) = {}
    <3>1. job[t].i .. Len(conn_watcher) = {}
      BY <2>1
    <3> QED
      BY <2>1, <3>1 DEF Ahead
  <2>4. Skipped(t)'
    BY <2>1, <2>2, <2>3 DEF Skipped, Missed
  <2> QED
    BY <1>3, <2>1, <2>4
<1>12. ASSUME NEW t \in Threads, FindDead(t)
       PROVE  \A u \in Threads : Skipped(u)'
  <2>1. at[t] = "index" /\ OthersStay(t) /\ UNCHANGED conn_watcher
    BY <1>12, FindDeadMoves DEF FindDead
  <2>2. CASE at'[t] = "idle"
    BY <1>4, <2>1, <2>2
  <2>3. CASE at'[t] # "idle"
    <3>1. /\ at'[t] = "del" /\ job'[t].i = job[t].i /\ job'[t].todo = job[t].todo
          /\ job'[t].dels = job[t].dels
      BY <1>12, <2>3, FindDeadMoves
    <3>2. Ahead(t)' = Ahead(t)
      BY <2>1, <3>1 DEF Ahead
    <3>3. Skipped(t)'
      BY <2>1, <3>1, <3>2 DEF Skipped, Missed
    <3> QED
      BY <1>3, <2>1, <3>3
  <2> QED
    BY <2>2, <2>3
<1>13. ASSUME NEW t \in Threads, DeleteDead(t)
       PROVE  \A u \in Threads : Skipped(u)'
  <2>1. CASE at'[t] = "idle"
    <3>1. OthersStay(t) /\ UNCHANGED conn_watcher
      BY <1>13, <2>1, DeleteDeadMoves
    <3> QED
      BY <1>4, <2>1, <3>1
  <2>2. CASE at'[t] # "idle"
    <3>1. /\ at[t] = "del" /\ at'[t] = "loop"
          /\ conn_watcher' = RemoveAt(conn_watcher, job[t].k)
          /\ job'[t].i = job[t].i + 1 /\ job'[t].todo = job[t].todo
          /\ job[t].k \in 1..Len(conn_watcher)
          /\ \A u \in Threads : at[u] \in Looping => job'[u].dels = job[u].dels + 1
      <4>1. job[t].k \in Nat /\ Len(conn_watcher) \in Nat
        BY <1>2, LenProperties DEF TypeOK, Jobs
      <4>2. at[t] = "del" /\ job[t].k >= 1
        BY <1>13, DeleteDeadMoves DEF Placed
      <4> QED
        BY <1>13, <2>2, <4>1, <4>2, DeleteDeadMoves DEF Looping
    <3>2. ASSUME NEW u \in Threads, at[u] \in Looping
          PROVE  Skipped(u)'
      <4>1. job[u].i \in Nat /\ job[u].dels \in Nat /\ job[u].i >= 1
        BY <3>2 DEF TypeOK, Jobs, Placed, Looping
      <4>2. /\ From(u) \in Nat /\ From(u) >= 1
            /\ Ahead(u) = Rest(conn_watcher, From(u))
        BY <3>2, <4>1, AheadIsRest DEF From
      <4>3. /\ Ahead(u)' = Rest(conn_watcher', From(u))
            /\ job'[u].todo = job[u].todo /\ job'[u].dels = job[u].dels + 1
        <5>1. CASE u = t
          BY <3>1, <3>2, <5>1 DEF Ahead, Rest, From
        <5>2. CASE u # t
          <6>1. at'[u] = at[u] /\ job'[u].i = job[u].i /\ job'[u].todo = job[u].todo
            BY <1>13, <5>2, DeleteDeadMoves
          <6> QED
            BY <3>1, <3>2, <6>1 DEF Ahead, Rest, From, Looping
        <5> QED
          BY <5>1, <5>2
      <4>4. PICK e : Ahead(u) \subseteq Ahead(u)' \union {e}
        <5> DEFINE n == From(u)
        <5>1. n \in Nat /\ n >= 1 /\ job[t].k \in 1..Len(conn_watcher)
          BY <3>1, <4>2
        <5> HIDE DEF n
        <5>2. \E e : Rest(conn_watcher, n)
                       \subseteq Rest(RemoveAt(conn_watcher, job[t].k), n) \union {e}
          BY <1>2, <5>1, RestAfterRemoveAt
        <5> QED
          BY <3>1, <4>2, <4>3, <5>2 DEF n
      <4>5. IsFiniteSet(job[u].todo) /\ Cardinality(Missed(u)) <= job[u].dels
        BY <3>2 DEF Skipped, Looping
      <4>6. Cardinality(job[u].todo \ Ahead(u)') <= job[u].dels + 1
        BY <4>1, <4>4, <4>5, OneMore DEF Missed
      <4> QED
        BY <4>3, <4>5, <4>6 DEF Skipped, Missed
    <3>3. ASSUME NEW u \in Threads, at[u] \notin Looping
          PROVE  Skipped(u)'
      <4>1. at'[u] = at[u] /\ job'[u] = job[u]
        <5>1. u # t
          BY <3>1, <3>3 DEF Looping
        <5> QED
          BY <1>13, <3>3, <5>1, DeleteDeadMoves DEF Looping
      <4>2. Ahead(u)' = {} /\ Ahead(u) = {}
        BY <3>3, <4>1, AheadIsRest DEF Ahead, Looping
      <4> QED
        BY <4>1, <4>2 DEF Skipped, Missed
    <3> QED
      BY <3>2, <3>3
  <2> QED
    BY <2>1, <2>2
<1>14. ASSUME NEW t \in Threads, StoreValue(t)
       PROVE  \A u \in Threads : Skipped(u)'
  BY <1>4, <1>14, FinishMoves DEF StoreValue
<1>15. ASSUME NEW w \in Watchers, NEW V \in SUBSET Vars, Monitor(w, V) \/ Disconnect(w)
       PROVE  \A u \in Threads : Skipped(u)'
  BY <1>5, <1>15 DEF Monitor, Disconnect
<1>16. CASE StopPlc \/ StopReturn \/ StartPlc \/ StartReturn \/ CloseListener
  BY <1>5, <1>16 DEF StopPlc, StopReturn, StartPlc, StartReturn, CloseListener
<1>17. CASE Terminate \/ TellNext \/ TellEnd
  <2>1. OthersStay("listener") /\ at'["listener"] \in {"idle", "telling"}
    BY <1>17, TellMoves
  <2>2. UNCHANGED conn_watcher
    BY <1>17 DEF Terminate, TellNext, TellEnd
  <2> QED
    BY <1>1, <1>4, <2>1, <2>2
<1>18. CASE UNCHANGED vars
  BY <1>5, <1>18 DEF vars
<1> QED
  BY NeighboursAssumption, <1>1, <1>6, <1>7, <1>8, <1>9, <1>10, <1>11, <1>12, <1>13, <1>14, <1>15, <1>16,
     <1>17, <1>18 DEF Next, Propagate, Threads

---------------------------------------------------------------------------
(* The inductive invariant holds in every state. *)
LEMMA InitIInv == Init => IInv
<1> SUFFICES ASSUME Init PROVE IInv
  OBVIOUS
<1> USE SupervisorAssumption
<1>1. TypeOK
  BY DEF Init, TypeOK, Places, Jobs, NoJob
<1>2. \A t \in Threads : at[t] = "idle" /\ job[t] = NoJob
  BY DEF Init
<1>3. \A t \in Threads : Placed(t) /\ Skipped(t)
  BY <1>2 DEF Placed, Skipped
<1>4. Telling
  <2>1. Len(conn_watcher) = 0
    BY DEF Init
  <2> QED
    BY <1>2, <2>1 DEF Init, Telling, Threads
<1>5. \A v \in Vars : Mirrored(v) /\ Viewed(v)
  <2>1. \A v \in Vars : Propagating(v) = {}
    BY <1>2 DEF Propagating, Pending
  <2>2. touched = {} /\ Len(conn_watcher) = 0
    BY DEF Init
  <2> QED
    BY <2>1, <2>2 DEF Mirrored, Viewed
<1> QED
  BY <1>1, <1>3, <1>4, <1>5 DEF IInv

LEMMA NextIInv == IInv /\ [Next]_vars => IInv'
<1> SUFFICES ASSUME IInv, [Next]_vars PROVE IInv'
  OBVIOUS
<1>1. TypeOK /\ Telling /\ (\A t \in Threads : Placed(t)) /\ (\A t \in Threads : Skipped(t))
  BY DEF IInv
<1>2. \A v \in Vars : Mirrored(v) /\ Viewed(v)
  BY DEF IInv
<1>3. TypeOK' /\ Telling'
  BY <1>1, StepTypeOK, StepTelling
<1>4. \A t \in Threads : Placed(t)' /\ Skipped(t)'
  BY <1>1, StepPlaced, StepSkipped
<1>5. \A v \in Vars : Mirrored(v)' /\ Viewed(v)'
  BY <1>1, <1>2, StepMirrored, StepViewed
<1> QED
  BY <1>3, <1>4, <1>5 DEF IInv

THEOREM Inductive == Spec => []IInv
BY InitIInv, NextIInv, PTL DEF Spec

(* Every variable always has a value of its type: the values, the list of   *)
(* clients, the jobs of the threads, the history.                           *)
THEOREM TypeCorrect == Spec => []TypeOK
<1>1. IInv => TypeOK
  BY DEF IInv
<1> QED
  BY <1>1, Inductive, PTL

(* The data block and the cached value agree with the C variable once its   *)
(* last change has been propagated undisturbed: __sync_mb_blocks and        *)
(* __notify_watcher store what the callback or the setter passed them.      *)
THEOREM MirrorsAgreeHolds == Spec => []MirrorsAgree
<1>1. IInv => MirrorsAgree
  <2> SUFFICES ASSUME IInv, NEW v \in touched \ unsettled, Pending(v) = {}
               PROVE  blk[v] = cvar[v] /\ cache[v] = cvar[v]
    BY DEF MirrorsAgree
  <2>1. v \in Vars /\ Mirrored(v)
    BY DEF IInv, TypeOK
  <2>2. Propagating(v) = {}
    BY DEF Propagating
  <2> QED
    BY <2>1, <2>2 DEF Mirrored
<1> QED
  BY <1>1, Inductive, PTL

(* While nobody disconnects, the clients that __notify_watcher notifies and *)
(* __handle_monitoring takes in have the value that is cached.              *)
THEOREM ClientsAgreeHolds == Spec => []ClientsAgree
<1>1. IInv => ClientsAgree
  <2> SUFFICES ASSUME IInv, NEW w \in Range(conn_watcher), NEW v \in subs[w] \ everUnsettled,
                      Propagating(v) = {}, <<w, v>> \notin lateSubs, NoneGone
               PROVE  view[w][v] = cache[v]
    BY DEF ClientsAgree, NoneGone
  <2>1. PICK k \in 1..Len(conn_watcher) : w = conn_watcher[k]
    BY RangeEquality DEF IInv, TypeOK
  <2>2. w \in Watchers
    BY <2>1, ElementOfSeq DEF IInv, TypeOK
  <2>3. v \in Vars /\ Viewed(v)
    BY <2>2 DEF IInv, TypeOK
  <2> QED
    BY <2>1, <2>3 DEF Viewed
<1> QED
  BY <1>1, Inductive, PTL

(* The loop of __notify_watcher passes over no more clients than were       *)
(* deleted from the list while it ran, by itself or by other threads.       *)
THEOREM SkipsBoundedHolds == Spec => []SkipsBounded
<1>1. IInv => SkipsBounded
  <2> SUFFICES ASSUME IInv, NEW t \in Threads, at[t] = "store"
               PROVE  Cardinality(job[t].todo) <= job[t].dels
    BY DEF SkipsBounded
  <2>1. Skipped(t)
    BY DEF IInv
  <2>2. Missed(t) = job[t].todo
    BY DEF Missed, Ahead
  <2> QED
    BY <2>1, <2>2 DEF Skipped
<1> QED
  BY <1>1, Inductive, PTL

(* A listener that ended on a TerminateMessage has told every client, and   *)
(* the PLC has stopped, if no client was gone.                              *)
THEOREM TerminateTellsAllHolds == Spec => []TerminateTellsAll
<1>1. IInv => TerminateTellsAll
  <2> SUFFICES ASSUME IInv, listener = "closed", NoneGone
               PROVE  /\ \A w \in Range(conn_watcher) : w \in told
                      /\ plc = "stopped" /\ at["plc"] = "idle"
    BY DEF TerminateTellsAll, NoneGone
  <2>1. Telling /\ conn_watcher \in Seq(Watchers)
    BY DEF IInv, TypeOK
  <2>2. \A k \in 1..Len(conn_watcher) : conn_watcher[k] \in told
    BY <2>1 DEF Telling
  <2>3. Range(conn_watcher) = {conn_watcher[k] : k \in 1..Len(conn_watcher)}
    BY <2>1, RangeEquality
  <2> QED
    BY <2>1, <2>2, <2>3 DEF Telling
<1> QED
  BY <1>1, Inductive, PTL

============================================================================
