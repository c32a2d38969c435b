----------------------------- MODULE VizProofs -----------------------------
(* Proofs about Viz for any number of devices, values, clicks, changes and  *)
(* messages of the other client.                                            *)
EXTENDS Viz, SequenceTheorems, FiniteSetTheorems, TLAPS

Clients  == {Page, Other}
Requests == [click : Nat, dev : Devices, old : Nat, status : {"sent", "answered"},
             value : Values]
Messages == [kind : {"subscribe", "unsubscribe"}, devs : {{d} : d \in Devices}]

TypeOK ==
    /\ head \in Devices \union {NoDevice}
    /\ subscribedTo \in {{}} \union {{d} : d \in Devices}
    /\ body \in [click : Nat, dev : Devices \union {NoDevice}, value : Values]
    /\ xhrs \subseteq Requests
    /\ ws \in {"open", "closed"} /\ up \in Seq(Messages) /\ down \in Seq(Values)
    /\ DOMAIN subs \subseteq Devices /\ subs \in [DOMAIN subs -> Seq(Clients)]
    /\ news \in [Devices -> Seq(Values)]
    /\ iter \in [Devices -> Walking \union {NotWalking}]
    /\ value \in [Devices -> Values]
    /\ late \in [Devices -> Seq(Values)] /\ motorVars \in [Devices -> Values]
    /\ clicks \in Nat

(* The body in the table was there before each click it waits to be         *)
(* replaced by.                                                             *)
Newer ==
    /\ body.click <= clicks
    /\ \A x \in xhrs : x.old < x.click /\ x.click <= clicks

(* No client is twice in a list, and a list that is walked exists. *)
Once ==
    /\ \A d \in DOMAIN subs : \A i, j \in 1..Len(subs[d]) :
          subs[d][i] = subs[d][j] => i = j
    /\ \A d \in Devices : iter[d] # NotWalking => d \in DOMAIN subs

Serves(d) == d \in DOMAIN subs /\ \E i \in 1..Len(subs[d]) : subs[d][i] = Page

(* What the page has sent, message after message, leads from the devices    *)
(* whose lists it is in to the one it wants.                                *)
Asked ==
    /\ up = <<>> => \A d \in Devices : Serves(d) <=> d \in subscribedTo
    /\ up # <<>> =>
         /\ \A d \in Devices :
              Serves(d) <=> up[1].kind = "unsubscribe" /\ d \in up[1].devs
         /\ up[Len(up)].kind = "subscribe" /\ up[Len(up)].devs = subscribedTo
         /\ \A i \in 1..Len(up) - 1 :
              /\ up[i].kind # up[i + 1].kind
              /\ up[i].kind = "subscribe" => up[i].devs = up[i + 1].devs

Agreed ==
    /\ ~raised
    /\ ws = "open" => Asked
    /\ ws = "closed" => up = <<>> /\ down = <<>>

(* The values of a motor lag behind by what its thread has yet to store. *)
Lagging ==
    \A d \in Devices :
      /\ late[d] # <<>> => late[d][Len(late[d])] = value[d]
      /\ d \in Motors /\ late[d] = <<>> => motorVars[d] = value[d]
      /\ d \notin Motors => late[d] = <<>>

Silent ==
    /\ down = <<>>
    /\ \A d \in Devices : news[d] = <<>> /\ late[d] = <<>> /\ iter[d] = NotWalking

(* The walk over the clients of d has yet to come to the page. *)
Ahead(d) ==
    /\ iter[d] # NotWalking
    /\ \E i \in 1..Len(subs[d]) : i >= iter[d].i /\ subs[d][i] = Page

(* The value of d is the last one on its way to the table, or in it. *)
Following(d) ==
    IF news[d] # <<>> THEN news[d][Len(news[d])] = value[d]
    ELSE IF Ahead(d) THEN iter[d].value = value[d]
    ELSE IF down # <<>> THEN down[Len(down)] = value[d]
    ELSE body.value = value[d]

(* A click that nothing disturbs: while its request and its messages are    *)
(* under way nothing changes, and once they are through the table follows.  *)
Followed ==
    /\ ws = "open" /\ subscribedTo = {head}
    /\ xhrs # {} \/ up # <<>> => Silent
    /\ \A x \in xhrs :
         /\ x.dev = head /\ x.old = body.click
         /\ x.status = "answered" => x.value = value[head]
         /\ \A y \in xhrs : x = y
    /\ xhrs = {} => body.dev = head /\ Following(head)

Undisturbed == ~clouded /\ head # NoDevice => Followed

(* The inductive invariant. *)
IInv == TypeOK /\ Newer /\ Once /\ Agreed /\ Lagging /\ Undisturbed

---------------------------------------------------------------------------
(* Sequences *)

LEMMA RemoveAtFacts ==
  ASSUME NEW S, NEW s \in Seq(S), NEW n \in 1..Len(s)
  PROVE  /\ RemoveAt(s, n) \in Seq(S)
         /\ Len(RemoveAt(s, n)) = Len(s) - 1
         /\ \A j \in 1..Len(s) - 1 : RemoveAt(s, n)[j] = IF j < n THEN s[j] ELSE s[j + 1]
<1> DEFINE before == SubSeq(s, 1, n - 1)
           behind == SubSeq(s, n + 1, Len(s))
<1>1. Len(s) \in Nat /\ n \in Nat /\ \A i \in 1..Len(s) : s[i] \in S
  BY ElementOfSeq, LenProperties
<1>2. /\ before \in Seq(S) /\ Len(before) = n - 1
      /\ \A i \in 1..n - 1 : before[i] = s[i]
  <2>1. \A i \in 1..n - 1 : s[i] \in S
    BY <1>1
  <2>2. /\ before \in Seq(S)
        /\ Len(before) = IF 1 <= n - 1 THEN n - 1 - 1 + 1 ELSE 0
        /\ \A i \in 1 .. n - 1 - 1 + 1 : before[i] = s[1 + i - 1]
    BY <1>1, <2>1, SubSeqProperties
  <2> QED
    BY <1>1, <2>2
<1>3. /\ behind \in Seq(S) /\ Len(behind) = Len(s) - n
      /\ \A i \in 1..Len(s) - n : behind[i] = s[n + i]
  <2>1. \A i \in n + 1 .. Len(s) : s[i] \in S
    BY <1>1
  <2>2. /\ behind \in Seq(S)
        /\ Len(behind) = IF n + 1 <= Len(s) THEN Len(s) - (n + 1) + 1 ELSE 0
        /\ \A i \in 1 .. Len(s) - (n + 1) + 1 : behind[i] = s[n + 1 + i - 1]
    BY <1>1, <2>1, SubSeqProperties
  <2> QED
    BY <1>1, <2>2
<1>4. RemoveAt(s, n) = before \o behind
  BY DEF RemoveAt
<1> HIDE DEF before, behind
<1>5. /\ before \o behind \in Seq(S)
      /\ Len(before \o behind) = Len(before) + Len(behind)
      /\ \A i \in 1 .. Len(before) + Len(behind) :
           (before \o behind)[i] = IF i <= Len(before) THEN before[i]
                                   ELSE behind[i - Len(before)]
  BY <1>2, <1>3, ConcatProperties
<1>6. ASSUME NEW j \in 1..Len(s) - 1
      PROVE  RemoveAt(s, n)[j] = IF j < n THEN s[j] ELSE s[j + 1]
  BY <1>1, <1>2, <1>3, <1>4, <1>5
<1> QED
  BY <1>1, <1>2, <1>3, <1>4, <1>5, <1>6

(* Removing a client that is in a list once leaves the others, and not it. *)
LEMMA RemoveFirstFacts ==
  ASSUME NEW S, NEW s \in Seq(S), NEW n \in 1..Len(s),
         \A i, j \in 1..Len(s) : s[i] = s[j] => i = j
  PROVE  LET r == RemoveFirst(s, s[n])
         IN  /\ r \in Seq(S)
             /\ \A i, j \in 1..Len(r) : r[i] = r[j] => i = j
             /\ \A c : (\E i \in 1..Len(r) : r[i] = c)
                         <=> c # s[n] /\ \E i \in 1..Len(s) : s[i] = c
<1> DEFINE r == RemoveAt(s, n)
<1>1. {j \in 1..Len(s) : s[j] = s[n]} = {n}
  OBVIOUS
<1>2. Min({n}) = n
  <2>1. \A x \in {n} : \A y \in {n} : x <= y
    BY LenProperties
  <2> QED
    BY <2>1, Zenon DEF Min
<1>3. SelectInSeq(s, LAMBDA v : v = s[n]) = n
  BY <1>1, <1>2, Zenon DEF SelectInSeq
<1>4. RemoveFirst(s, s[n]) = r
  BY <1>3, Zenon DEF RemoveFirst
<1>5. /\ r \in Seq(S) /\ Len(r) = Len(s) - 1 /\ Len(s) \in Nat
      /\ \A j \in 1..Len(s) - 1 : r[j] = IF j < n THEN s[j] ELSE s[j + 1]
  BY RemoveAtFacts, LenProperties
<1> HIDE DEF r
<1>6. ASSUME NEW i \in 1..Len(r), NEW j \in 1..Len(r), r[i] = r[j] PROVE i = j
  BY <1>5, <1>6
<1>7. ASSUME NEW c, NEW i \in 1..Len(r), r[i] = c
      PROVE  c # s[n] /\ \E j \in 1..Len(s) : s[j] = c
  <2> DEFINE j == IF i < n THEN i ELSE i + 1
  <2>1. j \in 1..Len(s) /\ s[j] = c /\ j # n
    BY <1>5, <1>7
  <2> QED
    BY <2>1
<1>8. ASSUME NEW c, c # s[n], NEW i \in 1..Len(s), s[i] = c
      PROVE  \E j \in 1..Len(r) : r[j] = c
  <2> DEFINE j == IF i < n THEN i ELSE i - 1
  <2>1. j \in 1..Len(r) /\ r[j] = c
    BY <1>5, <1>8
  <2> QED
    BY <2>1
<1> QED
  BY <1>4, <1>5, <1>6, <1>7, <1>8

(* The first of a queue leaves it. *)
LEMMA TailFacts ==
  ASSUME NEW S, NEW s \in Seq(S), s # <<>>
  PROVE  /\ Head(s) = s[1] /\ Head(s) \in S /\ Tail(s) \in Seq(S)
         /\ Len(s) \in Nat \ {0} /\ Len(Tail(s)) = Len(s) - 1
         /\ \A i \in 1..Len(s) - 1 : Tail(s)[i] = s[i + 1]
         /\ Tail(s) # <<>> => Len(s) > 1 /\ Tail(s)[Len(Tail(s))] = s[Len(s)]
         /\ Tail(s) = <<>> => Len(s) = 1
<1>1. /\ Head(s) \in S /\ Tail(s) \in Seq(S) /\ Len(Tail(s)) = Len(s) - 1
      /\ \A i \in 1 .. Len(Tail(s)) : Tail(s)[i] = s[i + 1]
  BY HeadTailProperties
<1>2. Len(s) \in Nat \ {0} /\ Head(s) = s[1]
  BY EmptySeq
<1>3. Tail(s) # <<>> => Len(Tail(s)) \in Nat \ {0}
  BY <1>1, EmptySeq
<1>4. Tail(s) = <<>> => Len(s) = 1
  <2>1. Tail(s) = <<>> => Len(Tail(s)) = 0
    <3> DEFINE t == Tail(s)
    <3> HIDE DEF t
    <3>1. t = <<>> => Len(t) = 0
      BY EmptySeq
    <3> QED
      BY <3>1 DEF t
  <2> QED
    BY <1>1, <1>2, <2>1
<1> QED
  BY <1>1, <1>2, <1>3, <1>4

LEMMA AppendFacts ==
  ASSUME NEW S, NEW s \in Seq(S), NEW e \in S
  PROVE  /\ Append(s, e) \in Seq(S) /\ Append(s, e) # <<>>
         /\ Append(s, e)[Len(Append(s, e))] = e
         /\ Len(Append(s, e)) = Len(s) + 1
         /\ \A i \in 1..Len(s) : Append(s, e)[i] = s[i]
         /\ Append(s, e)[Len(s) + 1] = e
<1>1. /\ Append(s, e) \in Seq(S) /\ Len(Append(s, e)) = Len(s) + 1
      /\ \A i \in 1..Len(s) : Append(s, e)[i] = s[i]
      /\ Append(s, e)[Len(s) + 1] = e
  BY AppendProperties
<1>2. Append(s, e) # <<>>
  BY <1>1, EmptySeq, LenProperties
<1> QED
  BY <1>1, <1>2

---------------------------------------------------------------------------
(* The lists of clients *)

ListsOK ==
    /\ DOMAIN subs \subseteq Devices /\ subs \in [DOMAIN subs -> Seq(Clients)]
    /\ \A d \in DOMAIN subs : \A i, j \in 1..Len(subs[d]) :
          subs[d][i] = subs[d][j] => i = j

LEMMA SubscribedFacts ==
  ASSUME ListsOK, NEW c \in Clients, NEW d \in Devices, Subscribed(c, d)
  PROVE  /\ ListsOK' /\ raised' = raised /\ DOMAIN subs \subseteq DOMAIN subs'
         /\ \A e \in Devices : Serves(e)' <=> Serves(e) \/ (c = Page /\ e = d)
         /\ \A e \in DOMAIN subs : e # d => subs'[e] = subs[e]
<1> DEFINE list == ClientsOf(d)
<1>1. /\ list \in Seq(Clients) /\ Len(list) \in Nat
      /\ \A i, j \in 1..Len(list) : list[i] = list[j] => i = j
  <2>1. CASE d \in DOMAIN subs
    <3>1. list = subs[d]
      BY <2>1 DEF ClientsOf
    <3> QED
      BY <2>1, <3>1, LenProperties DEF ListsOK
  <2>2. CASE d \notin DOMAIN subs
    <3>1. list = <<>>
      BY <2>2 DEF ClientsOf
    <3> QED
      BY <3>1, EmptySeq
  <2> QED
    BY <2>1, <2>2
<1>2. CASE Contains(list, c)
  <2>1. subs' = subs /\ raised' = raised
    BY <1>2 DEF Subscribed
  <2>2. d \in DOMAIN subs /\ list = subs[d]
    BY <1>2, EmptySeq DEF ClientsOf, Contains
  <2>3. c = Page => Serves(d)
    BY <1>2, <2>2 DEF Contains, Serves
  <2> QED
    BY <2>1, <2>3 DEF ListsOK, Serves
<1>3. CASE ~Contains(list, c)
  <2>1. /\ subs' = [e \in DOMAIN subs \union {d} |->
                      IF e = d THEN Append(list, c) ELSE subs[e]]
        /\ raised' = raised
    BY <1>3 DEF Subscribed
  <2>2. /\ Append(list, c) \in Seq(Clients) /\ Len(Append(list, c)) = Len(list) + 1
        /\ \A i \in 1..Len(list) : Append(list, c)[i] = list[i]
        /\ Append(list, c)[Len(list) + 1] = c
    BY <1>1, AppendFacts
  <2>3. \A i \in 1..Len(list) : list[i] # c
    BY <1>3 DEF Contains
  <2>4. \A i \in 1..Len(list) + 1 : i \in 1..Len(list) \/ i = Len(list) + 1
    BY <1>1
  <2>5. \A i, j \in 1..Len(list) + 1 :
          Append(list, c)[i] = Append(list, c)[j] => i = j
    BY <1>1, <2>2, <2>3, <2>4
  <2>6. (\E i \in 1..Len(list) + 1 : Append(list, c)[i] = Page)
          <=> c = Page \/ \E i \in 1..Len(list) : list[i] = Page
    <3>1. Len(list) + 1 \in 1..Len(list) + 1 /\ 1..Len(list) \subseteq 1..Len(list) + 1
      BY <1>1
    <3> QED
      BY <2>2, <2>4, <3>1
  <2>7. (d \in DOMAIN subs /\ \E i \in 1..Len(subs[d]) : subs[d][i] = Page)
          <=> \E i \in 1..Len(list) : list[i] = Page
    BY EmptySeq DEF ClientsOf
  <2> HIDE DEF list
  <2>8. /\ DOMAIN subs' = DOMAIN subs \union {d} /\ subs'[d] = Append(list, c)
        /\ \A e \in DOMAIN subs : e # d => subs'[e] = subs[e]
    BY <2>1
  <2>9. ListsOK'
    <3>1. subs' \in [DOMAIN subs' -> Seq(Clients)]
      BY <2>1, <2>2 DEF ListsOK
    <3>2. \A e \in DOMAIN subs' : \A i, j \in 1..Len(subs'[e]) :
            subs'[e][i] = subs'[e][j] => i = j
      BY <2>2, <2>5, <2>8 DEF ListsOK
    <3> QED
      BY <2>8, <3>1, <3>2 DEF ListsOK
  <2>10. \A e \in Devices : Serves(e)' <=> Serves(e) \/ (c = Page /\ e = d)
    <3>1. Serves(d)' <=> c = Page \/ Serves(d)
      BY <2>2, <2>6, <2>7, <2>8 DEF Serves
    <3>2. \A e \in Devices : e # d => (Serves(e)' <=> Serves(e))
      BY <2>8 DEF Serves
    <3> QED
      BY <3>1, <3>2
  <2> QED
    BY <2>1, <2>8, <2>9, <2>10
<1> QED
  BY <1>2, <1>3

LEMMA UnsubscribedFacts ==
  ASSUME ListsOK, NEW c \in Clients, NEW D \in SUBSET Devices, Unsubscribed(c, D),
         \A d \in D \intersect DOMAIN subs : \E i \in 1..Len(subs[d]) : subs[d][i] = c
  PROVE  /\ ListsOK' /\ raised' = raised /\ DOMAIN subs' = DOMAIN subs
         /\ \A e \in Devices : Serves(e)' <=> Serves(e) /\ ~(c = Page /\ e \in D)
         /\ \A e \in DOMAIN subs : e \notin D => subs'[e] = subs[e]
<1> DEFINE K == D \intersect DOMAIN subs
<1>1. \A d \in K : Contains(subs[d], c)
  BY DEF Contains
<1>2. /\ subs' = [d \in DOMAIN subs |->
                    IF d \in K THEN RemoveFirst(subs[d], c) ELSE subs[d]]
      /\ raised' = raised
  BY <1>1, Zenon DEF Unsubscribed
<1>3. ASSUME NEW d \in K
      PROVE  LET r == RemoveFirst(subs[d], c)
             IN  /\ r \in Seq(Clients)
                 /\ \A i, j \in 1..Len(r) : r[i] = r[j] => i = j
                 /\ \A x : (\E i \in 1..Len(r) : r[i] = x)
                             <=> x # c /\ \E i \in 1..Len(subs[d]) : subs[d][i] = x
  <2>1. PICK n \in 1..Len(subs[d]) : subs[d][n] = c
    BY <1>3
  <2>2. subs[d] \in Seq(Clients)
        /\ \A i, j \in 1..Len(subs[d]) : subs[d][i] = subs[d][j] => i = j
    BY DEF ListsOK
  <2> DEFINE r == RemoveFirst(subs[d], subs[d][n])
  <2>3. /\ r \in Seq(Clients)
        /\ \A i, j \in 1..Len(r) : r[i] = r[j] => i = j
        /\ \A x : (\E i \in 1..Len(r) : r[i] = x)
                    <=> x # subs[d][n] /\ \E i \in 1..Len(subs[d]) : subs[d][i] = x
    BY <2>2, RemoveFirstFacts
  <2> QED
    BY <2>1, <2>3
<1>4. /\ DOMAIN subs' = DOMAIN subs
      /\ \A d \in K : subs'[d] = RemoveFirst(subs[d], c)
      /\ \A d \in DOMAIN subs : d \notin D => subs'[d] = subs[d]
  BY <1>2
<1>5. ListsOK'
  <2>1. subs' \in [DOMAIN subs -> Seq(Clients)]
    BY <1>2, <1>3 DEF ListsOK
  <2>2. \A d \in DOMAIN subs : \A i, j \in 1..Len(subs'[d]) :
          subs'[d][i] = subs'[d][j] => i = j
    BY <1>3, <1>4 DEF ListsOK
  <2> QED
    BY <1>4, <2>1, <2>2 DEF ListsOK
<1>6. \A e \in Devices : Serves(e)' <=> Serves(e) /\ ~(c = Page /\ e \in D)
  <2>1. \A e \in K : Serves(e)' <=> Serves(e) /\ c # Page
    <3> SUFFICES ASSUME NEW e \in K PROVE Serves(e)' <=> Serves(e) /\ c # Page
      OBVIOUS
    <3> DEFINE r == RemoveFirst(subs[e], c)
    <3>1. (\E i \in 1..Len(r) : r[i] = Page)
            <=> Page # c /\ \E i \in 1..Len(subs[e]) : subs[e][i] = Page
      BY <1>3
    <3>2. e \in DOMAIN subs /\ DOMAIN subs' = DOMAIN subs /\ subs'[e] = r
      BY <1>4
    <3> HIDE DEF r
    <3> QED
      BY <3>1, <3>2 DEF Serves
  <2>2. \A e \in Devices \ K : Serves(e)' <=> Serves(e)
    BY <1>4 DEF Serves
  <2>3. \A e \in Devices \ K : Serves(e) => e \notin D
    BY DEF Serves
  <2> QED
    BY <2>1, <2>2, <2>3
<1> QED
  BY <1>2, <1>4, <1>5, <1>6

LEMMA ListsAreOK == TypeOK /\ Once => ListsOK
BY DEF TypeOK, Once, ListsOK

(* A message of the page is handled without an exception, and those that    *)
(* are left lead on from there.                                             *)
LEMMA HandleFacts ==
  ASSUME TypeOK, Once, Agreed, HandleMessage
  PROVE  /\ ListsOK' /\ raised' = raised /\ DOMAIN subs \subseteq DOMAIN subs'
         /\ ws = "open" /\ ws' = ws /\ Asked'
<1> DEFINE m == up[1]
<1>1. up # <<>> /\ ws = "open"
  BY DEF HandleMessage, Agreed, TypeOK
<1>2. Asked
  BY <1>1 DEF Agreed
<1>3. up \in Seq(Messages)
  BY DEF TypeOK
<1>4. /\ Head(up) = m /\ m \in Messages /\ Tail(up) \in Seq(Messages)
      /\ Len(up) \in Nat \ {0} /\ Len(Tail(up)) = Len(up) - 1
      /\ \A i \in 1..Len(up) - 1 : Tail(up)[i] = up[i + 1]
      /\ Tail(up) # <<>> => Len(up) > 1 /\ Tail(up)[Len(Tail(up))] = up[Len(up)]
      /\ Tail(up) = <<>> => Len(up) = 1
  <2>1. Head(up) = up[1] /\ Head(up) \in Messages
    BY <1>1, <1>3, TailFacts
  <2> QED
    BY <1>1, <1>3, <2>1, TailFacts
<1>5. /\ \A d \in Devices : Serves(d) <=> m.kind = "unsubscribe" /\ d \in m.devs
      /\ up[Len(up)].kind = "subscribe" /\ up[Len(up)].devs = subscribedTo
      /\ \A i \in 1..Len(up) - 1 :
           /\ up[i].kind # up[i + 1].kind
           /\ up[i].kind = "subscribe" => up[i].devs = up[i + 1].devs
  BY <1>1, <1>2 DEF Asked
<1>6. /\ up' = Tail(up) /\ subscribedTo' = subscribedTo
      /\ ws' = IF raised' THEN "closed" ELSE ws
  BY DEF HandleMessage, page
<1>7. m.kind \in {"subscribe", "unsubscribe"} /\ \E d \in Devices : m.devs = {d}
  BY <1>4 DEF Messages
<1>8. ListsOK /\ Page \in Clients
  BY ListsAreOK DEF Clients
<1>9. CASE m.kind = "subscribe"
  <2>1. PICK d \in Devices : m.devs = {d}
    BY <1>7
  <2>2. Subscribed(Page, d)
    BY <1>4, <1>9, <2>1 DEF HandleMessage
  <2>3. /\ ListsOK' /\ raised' = raised /\ DOMAIN subs \subseteq DOMAIN subs'
        /\ \A e \in Devices : Serves(e)' <=> Serves(e) \/ (Page = Page /\ e = d)
    BY <1>8, <2>2, SubscribedFacts
  <2>4. \A e \in Devices : Serves(e)' <=> e = d
    BY <1>5, <1>9, <2>3
  <2>5. Asked'
    <3>1. CASE Tail(up) = <<>>
      <4>1. subscribedTo' = {d}
        BY <1>4, <1>5, <1>6, <2>1, <3>1
      <4> QED
        BY <1>6, <2>4, <3>1, <4>1 DEF Asked
    <3>2. CASE Tail(up) # <<>>
      <4>1. 1 \in 1..Len(up) - 1 /\ 1 + 1 = 2
        BY <1>4, <3>2
      <4>2. up[2].kind # "subscribe" /\ up[2].devs = {d} /\ Tail(up)[1] = up[2]
        BY <1>4, <1>5, <1>9, <2>1, <4>1
      <4>3. 2 \in 1..Len(up) /\ up[2] \in Messages
        BY <1>3, <1>4, <4>1, ElementOfSeq
      <4>4. up[2].kind = "unsubscribe"
        BY <4>2, <4>3 DEF Messages
      <4>5. \A i \in 1..Len(Tail(up)) - 1 :
              /\ Tail(up)[i] = up[i + 1] /\ Tail(up)[i + 1] = up[i + 1 + 1]
              /\ i + 1 \in 1..Len(up) - 1
        BY <1>4
      <4>6. \A i \in 1..Len(Tail(up)) - 1 :
              /\ Tail(up)[i].kind # Tail(up)[i + 1].kind
              /\ Tail(up)[i].kind = "subscribe" => Tail(up)[i].devs = Tail(up)[i + 1].devs
        BY <1>5, <4>5
      <4> HIDE DEF m
      <4> QED
        BY <1>4, <1>5, <1>6, <2>4, <3>2, <4>2, <4>4, <4>6 DEF Asked
    <3> QED
      BY <3>1, <3>2
  <2> QED
    BY <1>1, <1>6, <2>3, <2>5 DEF Agreed
<1>10. CASE m.kind = "unsubscribe"
  <2>1. Unsubscribed(Page, m.devs) /\ m.devs \in SUBSET Devices
    BY <1>4, <1>7, <1>10 DEF HandleMessage
  <2>2. \A d \in m.devs \intersect DOMAIN subs :
          \E i \in 1..Len(subs[d]) : subs[d][i] = Page
    BY <1>5, <1>10, <2>1 DEF Serves
  <2>3. /\ ListsOK' /\ raised' = raised /\ DOMAIN subs' = DOMAIN subs
        /\ \A e \in Devices : Serves(e)' <=> Serves(e) /\ ~(Page = Page /\ e \in m.devs)
    BY <1>8, <2>1, <2>2, UnsubscribedFacts
  <2>4. \A e \in Devices : ~Serves(e)'
    BY <1>5, <1>10, <2>3
  <2>5. Tail(up) # <<>>
    BY <1>4, <1>5, <1>10
  <2>6. 1 \in 1..Len(up) - 1 /\ 1 + 1 = 2
    BY <1>4, <2>5
  <2>7. Tail(up)[1].kind # "unsubscribe"
    BY <1>4, <1>5, <1>10, <2>6
  <2>8. \A i \in 1..Len(Tail(up)) - 1 :
          /\ Tail(up)[i] = up[i + 1] /\ Tail(up)[i + 1] = up[i + 1 + 1]
          /\ i + 1 \in 1..Len(up) - 1
    BY <1>4
  <2>9. \A i \in 1..Len(Tail(up)) - 1 :
          /\ Tail(up)[i].kind # Tail(up)[i + 1].kind
          /\ Tail(up)[i].kind = "subscribe" => Tail(up)[i].devs = Tail(up)[i + 1].devs
    BY <1>5, <2>8
  <2>10. Asked'
    <3> HIDE DEF m
    <3> QED
      BY <1>4, <1>5, <1>6, <2>4, <2>5, <2>7, <2>9 DEF Asked
  <2> QED
    BY <1>1, <1>6, <2>3, <2>10 DEF Agreed
<1> QED
  BY <1>7, <1>9, <1>10

(* What the other client asks for changes nothing about the page. *)
LEMMA OtherFacts ==
  ASSUME TypeOK, Once, NEW d \in Devices, OtherMessage(d)
  PROVE  /\ ListsOK' /\ raised' = raised /\ DOMAIN subs \subseteq DOMAIN subs'
         /\ \A e \in Devices : Serves(e)' <=> Serves(e)
         /\ \A e \in DOMAIN subs : e # d => subs'[e] = subs[e]
<1>1. ListsOK /\ Other \in Clients /\ Other # Page
  BY ListsAreOK, VizAssumption DEF Clients
<1>2. CASE Contains(ClientsOf(d), Other)
  <2>1. Unsubscribed(Other, {d}) /\ {d} \in SUBSET Devices
    BY <1>2 DEF OtherMessage
  <2>2. \A e \in {d} \intersect DOMAIN subs :
          \E i \in 1..Len(subs[e]) : subs[e][i] = Other
    BY <1>2 DEF ClientsOf, Contains
  <2>3. /\ ListsOK' /\ raised' = raised /\ DOMAIN subs' = DOMAIN subs
        /\ \A e \in Devices : Serves(e)' <=> Serves(e) /\ ~(Other = Page /\ e \in {d})
        /\ \A e \in DOMAIN subs : e \notin {d} => subs'[e] = subs[e]
    BY <1>1, <2>1, <2>2, UnsubscribedFacts
  <2> QED
    BY <1>1, <2>3
<1>3. CASE ~Contains(ClientsOf(d), Other)
  <2>1. Subscribed(Other, d)
    BY <1>3 DEF OtherMessage
  <2>2. /\ ListsOK' /\ raised' = raised /\ DOMAIN subs \subseteq DOMAIN subs'
        /\ \A e \in Devices : Serves(e)' <=> Serves(e) \/ (Other = Page /\ e = d)
        /\ \A e \in DOMAIN subs : e # d => subs'[e] = subs[e]
    BY <1>1, <2>1, SubscribedFacts
  <2> QED
    BY <1>1, <2>2
<1> QED
  BY <1>2, <1>3

(* What the page sends at a click. *)
LEMMA ClickSends ==
  ASSUME TypeOK, NEW d \in Devices, Click(d), ws = "open"
  PROVE  \E s \in Seq(Messages) :
           /\ up' = up \o s
           /\ \/ Len(s) = 0 /\ subscribedTo = {d}
              \/ Len(s) = 1 /\ subscribedTo = {} /\ s[1] = Subscribe(d)
              \/ /\ Len(s) = 2 /\ subscribedTo \notin {{}, {d}}
                 /\ s[1] = Unsubscribe(subscribedTo) /\ s[2] = Subscribe(d)
<1> DEFINE a == IF Unsub(d) = {} THEN <<>> ELSE <<Unsubscribe(Unsub(d))>>
           b == IF d \in subscribedTo THEN <<>> ELSE <<Subscribe(d)>>
<1>1. up' = up \o (a \o b)
  BY DEF Click, Sent
<1>2. Subscribe(d) \in Messages
  BY DEF Subscribe, Messages
<1>3. CASE subscribedTo = {}
  <2>1. a = <<>> /\ b = <<Subscribe(d)>>
    BY <1>3 DEF Unsub
  <2>2. <<Subscribe(d)>> \in Seq(Messages)
    BY <1>2
  <2>3. a \o b = <<Subscribe(d)>>
    <3>1. <<>> \o <<Subscribe(d)>> = <<Subscribe(d)>>
      BY <2>2, ConcatEmptySeq
    <3> QED
      BY <2>1, <3>1
  <2> HIDE DEF a, b
  <2> QED
    BY <1>1, <1>3, <2>2, <2>3
<1>4. CASE subscribedTo = {d}
  <2>1. a = <<>> /\ b = <<>>
    BY <1>4 DEF Unsub
  <2>2. <<>> \in Seq(Messages) /\ Len(<<>>) = 0
    BY EmptySeq
  <2>3. a \o b = <<>>
    <3>1. <<>> \o <<>> = <<>>
      BY <2>2, ConcatEmptySeq
    <3> QED
      BY <2>1, <3>1
  <2> HIDE DEF a, b
  <2> QED
    BY <1>1, <1>4, <2>2, <2>3
<1>5. CASE subscribedTo \notin {{}, {d}}
  <2>1. PICK e \in Devices : subscribedTo = {e} /\ e # d
    BY <1>5 DEF TypeOK
  <2>2. a = <<Unsubscribe({e})>> /\ b = <<Subscribe(d)>>
    <3>1. Unsub(d) = {e} /\ Unsub(d) # {} /\ d \notin subscribedTo
      BY <2>1 DEF Unsub
    <3> QED
      BY <3>1
  <2>3. Unsubscribe({e}) \in Messages
    BY DEF Unsubscribe, Messages
  <2>4. a \in Seq(Messages) /\ b \in Seq(Messages) /\ Len(a) = 1 /\ Len(b) = 1
        /\ a[1] = Unsubscribe({e}) /\ b[1] = Subscribe(d)
    BY <1>2, <2>2, <2>3
  <2> HIDE DEF a, b
  <2>5. /\ a \o b \in Seq(Messages) /\ Len(a \o b) = 2
        /\ (a \o b)[1] = a[1] /\ (a \o b)[2] = b[1]
    <3>1. /\ a \o b \in Seq(Messages) /\ Len(a \o b) = Len(a) + Len(b)
          /\ \A i \in 1..Len(a) + Len(b) :
               (a \o b)[i] = IF i <= Len(a) THEN a[i] ELSE b[i - Len(a)]
      BY <2>4, ConcatProperties
    <3> QED
      BY <2>4, <3>1
  <2> QED
    BY <1>1, <1>5, <2>1, <2>4, <2>5
<1> QED
  BY <1>3, <1>4, <1>5

---------------------------------------------------------------------------
(* Every step keeps the types, the lists and the order of the clicks. *)

LEMMA StepTypeOK ==
  ASSUME TypeOK, Once, Agreed, [Next]_vars
  PROVE  TypeOK'
<1> USE DEF page, wire, monitor, device, history
<1>1. \A x \in Requests : /\ x.dev \in Devices /\ x.value \in Values
                          /\ x.click \in Nat /\ x.old \in Nat
  BY DEF Requests
<1>2. NotWalking \in Walking \union {NotWalking} /\ Initial \in Values
  BY VizAssumption
<1>3. ASSUME NEW d \in Devices, Click(d) PROVE TypeOK'
  <2>1. up' \in Seq(Messages)
    <3>1. CASE ws = "open"
      <4>1. PICK s \in Seq(Messages) : up' = up \o s
        BY <1>3, <3>1, ClickSends
      <4> QED
        BY <4>1, ConcatProperties DEF TypeOK
    <3>2. CASE ws # "open"
      BY <1>3, <3>2 DEF Click, Sent, TypeOK
    <3> QED
      BY <3>1, <3>2
  <2>2. [click |-> clicks + 1, dev |-> d, old |-> body.click,
         status |-> "sent", value |-> Initial] \in Requests
    BY <1>2 DEF TypeOK, Requests
  <2>3. xhrs' \subseteq Requests
    BY <1>3, <2>2 DEF Click, TypeOK
  <2>4. head' = d /\ subscribedTo' = {d} /\ clicks' = clicks + 1
        /\ UNCHANGED <<body, ws, down, subs, monitor, device>>
    BY <1>3 DEF Click
  <2>5. clicks' \in Nat
    BY <2>4 DEF TypeOK
  <2>7. head' \in Devices /\ subscribedTo' \in {{e} : e \in Devices}
    BY <2>4
  <2>6. UNCHANGED <<body, ws, down, subs, news, iter, value, late, motorVars>>
    BY <2>4
  <2> QED
    BY <2>1, <2>3, <2>5, <2>6, <2>7 DEF TypeOK
<1>4. ASSUME NEW d \in Devices, OtherMessage(d) PROVE TypeOK'
  <2>1. ListsOK'
    BY <1>4, OtherFacts
  <2> QED
    BY <1>4, <2>1 DEF OtherMessage, TypeOK, ListsOK
<1>5. ASSUME NEW d \in Devices, Receive(d) PROVE TypeOK'
  <2>1. news[d] \in Seq(Values) /\ news[d] # <<>>
    BY <1>5 DEF Receive, TypeOK
  <2>2. Head(news[d]) \in Values /\ Tail(news[d]) \in Seq(Values)
    BY <2>1, TailFacts
  <2>3. [i |-> 1, value |-> Head(news[d])] \in Walking
    BY <2>2 DEF Walking
  <2>4. news' \in [Devices -> Seq(Values)]
    BY <1>5, <2>2 DEF Receive, TypeOK
  <2>5. iter' \in [Devices -> Walking \union {NotWalking}]
    BY <1>5, <2>3 DEF Receive, TypeOK
  <2> QED
    BY <1>5, <2>4, <2>5 DEF Receive, TypeOK
<1>6. ASSUME NEW d \in Devices, SendNext(d) PROVE TypeOK'
  <2>1. iter[d] \in Walking
    BY <1>6 DEF SendNext, TypeOK
  <2>2. [iter[d] EXCEPT !.i = @ + 1] \in Walking /\ iter[d].value \in Values
    BY <2>1 DEF Walking
  <2>3. iter' \in [Devices -> Walking \union {NotWalking}]
    BY <1>6, <2>2 DEF SendNext, TypeOK
  <2>4. Append(down, iter[d].value) \in Seq(Values)
    BY <2>2, AppendFacts DEF TypeOK
  <2>5. down' \in Seq(Values)
    BY <1>6, <2>4 DEF SendNext, TypeOK
  <2> QED
    BY <1>6, <2>3, <2>5 DEF SendNext, TypeOK
<1>7. ASSUME NEW d \in Devices, MotorStores(d) PROVE TypeOK'
  <2>1. late[d] \in Seq(Values) /\ late[d] # <<>>
    BY <1>7 DEF MotorStores, TypeOK
  <2>2. Head(late[d]) \in Values /\ Tail(late[d]) \in Seq(Values)
    BY <2>1, TailFacts
  <2> QED
    BY <1>7, <2>2 DEF MotorStores, TypeOK
<1>8. ASSUME NEW d \in Devices, NEW v \in Values, Change(d, v) PROVE TypeOK'
  <2>1. Append(news[d], v) \in Seq(Values) /\ Append(late[d], v) \in Seq(Values)
    <3>1. news[d] \in Seq(Values) /\ late[d] \in Seq(Values)
      BY DEF TypeOK
    <3> QED
      BY <3>1, AppendFacts
  <2>2. news' \in [Devices -> Seq(Values)] /\ late' \in [Devices -> Seq(Values)]
    BY <1>8, <2>1 DEF Change, TypeOK
  <2> QED
    BY <1>8, <2>2 DEF Change, TypeOK
<1>9. ASSUME NEW x \in xhrs, Request(x) PROVE TypeOK'
  <2>1. x \in Requests /\ Shown(x.dev) \in Values
    BY <1>1 DEF TypeOK, Shown
  <2>2. [x EXCEPT !.status = "answered", !.value = Shown(x.dev)] \in Requests
    BY <2>1 DEF Requests
  <2>3. xhrs' \subseteq Requests
    BY <1>9, <2>2 DEF Request, Serve, ServeFails, TypeOK
  <2> QED
    BY <1>9, <2>3 DEF Request, Serve, ServeFails, TypeOK
<1>10. ASSUME Browser PROVE TypeOK'
  <2>1. CASE OnMessage
    <3>1. Head(down) \in Values /\ Tail(down) \in Seq(Values)
      BY <2>1, TailFacts DEF OnMessage, TypeOK
    <3> QED
      BY <2>1, <3>1 DEF OnMessage, TypeOK
  <2>2. ASSUME NEW x \in xhrs, Loaded(x) PROVE TypeOK'
    BY <1>1, <2>2 DEF Loaded, TypeOK
  <2> QED
    BY <1>10, <2>1, <2>2 DEF Browser
<1>11. CASE HandleMessage
  <2>1. ListsOK' /\ ws' = ws
    BY <1>11, HandleFacts
  <2>2. Tail(up) \in Seq(Messages)
    BY <1>11, TailFacts DEF HandleMessage, TypeOK
  <2> QED
    BY <1>11, <2>1, <2>2 DEF HandleMessage, TypeOK, ListsOK
<1>12. CASE Disconnect
  <2>1. <<>> \in Seq(Messages) /\ <<>> \in Seq(Values)
    BY EmptySeq
  <2> QED
    BY <1>12, <2>1 DEF Disconnect, TypeOK
<1>13. CASE UNCHANGED vars
  BY <1>13 DEF vars, TypeOK
<1> QED
  BY <1>3, <1>4, <1>5, <1>6, <1>7, <1>8, <1>9, <1>10, <1>11, <1>12, <1>13
  DEF Next, Device

LEMMA StepNewer ==
  ASSUME TypeOK, Newer, [Next]_vars
  PROVE  Newer'
<1> USE DEF page, wire, monitor, device, history
<1>1. clicks \in Nat /\ body.click \in Nat
      /\ \A x \in xhrs : x \in Requests /\ x.click \in Nat /\ x.old \in Nat
  BY DEF TypeOK, Requests
<1>2. ASSUME NEW d \in Devices, Click(d) PROVE Newer'
  BY <1>1, <1>2 DEF Click, Newer
<1>3. ASSUME NEW x \in xhrs, Request(x) PROVE Newer'
  <2>1. [x EXCEPT !.status = "answered", !.value = Shown(x.dev)].old = x.old
        /\ [x EXCEPT !.status = "answered", !.value = Shown(x.dev)].click = x.click
    BY <1>1 DEF Requests
  <2> QED
    BY <1>3, <2>1 DEF Request, Serve, ServeFails, Newer
<1>4. CASE Browser
  <2>1. body \in [click : Nat, dev : Devices \union {NoDevice}, value : Values]
    BY DEF TypeOK
  <2>2. OnMessage => body'.click = body.click /\ UNCHANGED <<xhrs, clicks>>
    BY <2>1 DEF OnMessage
  <2>3. ASSUME NEW x \in xhrs, Loaded(x) PROVE Newer'
    BY <1>1, <2>3 DEF Loaded, Newer
  <2> QED
    BY <1>4, <2>2, <2>3 DEF Browser, Newer
<1>5. \/ (\E d \in Devices : OtherMessage(d) \/ Device(d)) \/ HandleMessage \/ Disconnect
      \/ (\E d \in Devices, v \in Values : Change(d, v)) \/ UNCHANGED vars
      => UNCHANGED <<body, xhrs, clicks>>
  BY DEF OtherMessage, Device, Receive, SendNext, MotorStores, HandleMessage,
     Disconnect, Change, vars
<1> QED
  BY <1>2, <1>3, <1>4, <1>5 DEF Next, Newer

LEMMA StepOnce ==
  ASSUME TypeOK, Once, Agreed, [Next]_vars
  PROVE  Once'
<1> USE DEF page, wire, monitor, device, history
<1>1. CASE HandleMessage \/ \E d \in Devices : OtherMessage(d)
  <2>1. ListsOK' /\ DOMAIN subs \subseteq DOMAIN subs' /\ iter' = iter
    BY <1>1, HandleFacts, OtherFacts DEF HandleMessage, OtherMessage
  <2> QED
    BY <2>1 DEF Once, ListsOK
<1>2. CASE \E d \in Devices : Receive(d) \/ SendNext(d)
  <2>1. PICK d \in Devices : Receive(d) \/ SendNext(d)
    BY <1>2
  <2>2. subs' = subs /\ \A e \in Devices : e # d => iter'[e] = iter[e]
    BY <2>1 DEF Receive, SendNext, TypeOK
  <2>3. iter'[d] # NotWalking => d \in DOMAIN subs
    BY <2>1 DEF Receive, SendNext, TypeOK, Once
  <2> QED
    BY <2>2, <2>3 DEF Once
<1>3. \/ (\E d \in Devices : Click(d) \/ MotorStores(d)) \/ Browser \/ Disconnect
      \/ (\E x \in xhrs : Request(x)) \/ UNCHANGED vars
      \/ (\E d \in Devices, v \in Values : Change(d, v))
      => subs' = subs /\ iter' = iter
  BY DEF Click, MotorStores, Browser, OnMessage, Loaded, Disconnect, Request, Serve,
     ServeFails, Change, vars
<1> QED
  BY <1>1, <1>2, <1>3 DEF Next, Device, Once

(* Every step keeps the lists of the server, with what is on the way to it, *)
(* agreed with the page.                                                    *)
LEMMA StepAgreed ==
  ASSUME TypeOK, Once, Agreed, [Next]_vars
  PROVE  Agreed'
<1> USE DEF page, wire, monitor, device, history
<1>1. ASSUME NEW d \in Devices, Click(d) PROVE Agreed'
  <2>1. /\ raised' = raised /\ ws' = ws /\ down' = down /\ subs' = subs
        /\ subscribedTo' = {d}
    BY <1>1 DEF Click
  <2>2. CASE ws # "open"
    BY <1>1, <2>1, <2>2 DEF Click, Sent, Agreed
  <2>3. CASE ws = "open"
    <3>1. PICK s \in Seq(Messages) :
            /\ up' = up \o s
            /\ \/ Len(s) = 0 /\ subscribedTo = {d}
               \/ Len(s) = 1 /\ subscribedTo = {} /\ s[1] = Subscribe(d)
               \/ /\ Len(s) = 2 /\ subscribedTo \notin {{}, {d}}
                  /\ s[1] = Unsubscribe(subscribedTo) /\ s[2] = Subscribe(d)
      BY <1>1, <2>3, ClickSends
    <3>2. /\ up \in Seq(Messages) /\ Len(up) \in Nat
          /\ Len(up') = Len(up) + Len(s) /\ up' \in Seq(Messages)
          /\ \A i \in 1..Len(up) : up'[i] = up[i]
          /\ \A i \in 1..Len(s) : up'[Len(up) + i] = s[i]
      <4>1. up \in Seq(Messages) /\ Len(up) \in Nat /\ Len(s) \in Nat
        BY LenProperties DEF TypeOK
      <4>2. /\ up' \in Seq(Messages) /\ Len(up') = Len(up) + Len(s)
            /\ \A i \in 1..Len(up) + Len(s) :
                 up'[i] = IF i <= Len(up) THEN up[i] ELSE s[i - Len(up)]
        BY <3>1, <4>1, ConcatProperties
      <4>3. \A i \in 1..Len(s) : /\ Len(up) + i \in 1..Len(up) + Len(s)
                                 /\ ~(Len(up) + i <= Len(up)) /\ Len(up) + i - Len(up) = i
        BY <4>1
      <4> QED
        BY <4>1, <4>2, <4>3
    <3>3. Asked
      BY <2>3 DEF Agreed
    <3>4. up # <<>> => Len(up) > 0
      BY <3>2, EmptySeq
    <3>5. up = <<>> => Len(up) = 0
      OBVIOUS
    <3>6. /\ Len(up') # 0 => up' # <<>>
          /\ up' # <<>> => Len(up') > 0
      BY <3>2, EmptySeq
    <3>7. \A e \in Devices : Serves(e)' <=> Serves(e)
      BY <2>1 DEF Serves
    <3>8. /\ Subscribe(d).kind = "subscribe" /\ Subscribe(d).devs = {d}
          /\ Unsubscribe(subscribedTo).kind = "unsubscribe"
          /\ Unsubscribe(subscribedTo).devs = subscribedTo
      BY DEF Subscribe, Unsubscribe
    <3>9. Asked'
      <4>1. CASE Len(s) = 0 /\ subscribedTo = {d}
        <5>1. up' = up
          <6>1. s = <<>>
            BY <4>1, EmptySeq
          <6> QED
            BY <3>1, <3>2, <6>1, ConcatEmptySeq
        <5> QED
          BY <2>1, <3>3, <3>7, <4>1, <5>1 DEF Asked
      <4>2. CASE Len(s) = 1 /\ subscribedTo = {} /\ s[1] = Subscribe(d)
        <5>1. up = <<>>
          <6>1. up # <<>> => up[Len(up)] \in Messages
            BY <3>2, <3>4, ElementOfSeq
          <6>2. up # <<>> => up[Len(up)].devs = {}
            BY <3>3, <4>2 DEF Asked
          <6> QED
            BY <6>1, <6>2 DEF Messages
        <5>2. Len(up') = 1 /\ up'[1] = Subscribe(d)
          BY <3>2, <3>5, <4>2, <5>1
        <5>3. \A e \in Devices : ~Serves(e)
          BY <3>3, <4>2, <5>1 DEF Asked
        <5>4. Subscribe(d).kind # "unsubscribe" /\ Len(up') - 1 = 0 /\ 1..0 = {}
          BY <3>8, <5>2
        <5>5. up' # <<>>
          BY <3>6, <5>2
        <5> QED
          BY <2>1, <3>7, <3>8, <5>2, <5>3, <5>4, <5>5 DEF Asked
      <4>3. CASE /\ Len(s) = 2 /\ subscribedTo \notin {{}, {d}}
                 /\ s[1] = Unsubscribe(subscribedTo) /\ s[2] = Subscribe(d)
        <5>1. /\ Len(up') = Len(up) + 2
              /\ up'[Len(up) + 1] = Unsubscribe(subscribedTo)
              /\ up'[Len(up) + 2] = Subscribe(d)
          BY <3>2, <4>3
        <5>2. up' # <<>>
          BY <3>2, <3>6, <5>1
        <5>3. up'[Len(up')].kind = "subscribe" /\ up'[Len(up')].devs = subscribedTo'
          BY <2>1, <3>8, <5>1
        <5>4. CASE up = <<>>
          <6>1. up'[1] = Unsubscribe(subscribedTo) /\ Len(up') - 1 = 1
                /\ up'[2] = Subscribe(d)
            BY <3>5, <5>1, <5>4
          <6>2. \A e \in Devices : Serves(e) <=> e \in subscribedTo
            BY <3>3, <5>4 DEF Asked
          <6>3. \A i \in 1..Len(up') - 1 :
                  /\ up'[i].kind # up'[i + 1].kind
                  /\ up'[i].kind = "subscribe" => up'[i].devs = up'[i + 1].devs
            <7> SUFFICES ASSUME NEW i \in 1..Len(up') - 1
                         PROVE  up'[i].kind = "unsubscribe" /\ up'[i + 1].kind = "subscribe"
              OBVIOUS
            <7>1. i = 1 /\ i + 1 = 2
              <8>1. 1..Len(up') - 1 = 1..1
                BY <6>1
              <8> QED
                BY <8>1
            <7> QED
              BY <3>8, <6>1, <7>1
          <6> QED
            BY <3>7, <3>8, <5>2, <5>3, <6>1, <6>2, <6>3 DEF Asked
        <5>5. CASE up # <<>>
          <6>1. /\ \A e \in Devices :
                     Serves(e) <=> up[1].kind = "unsubscribe" /\ e \in up[1].devs
                /\ up[Len(up)].kind = "subscribe" /\ up[Len(up)].devs = subscribedTo
                /\ \A i \in 1..Len(up) - 1 :
                     /\ up[i].kind # up[i + 1].kind
                     /\ up[i].kind = "subscribe" => up[i].devs = up[i + 1].devs
            BY <3>3, <5>5 DEF Asked
          <6>2. /\ up'[1] = up[1] /\ up'[Len(up)] = up[Len(up)]
                /\ \A i \in 1..Len(up) - 1 : up'[i] = up[i] /\ up'[i + 1] = up[i + 1]
            BY <3>2, <3>4, <5>5
          <6>3. \A i \in 1..Len(up') - 1 :
                  i \in 1..Len(up) - 1 \/ i = Len(up) \/ i = Len(up) + 1
            BY <3>2, <5>1
          <6>4. Len(up) + 1 + 1 = Len(up) + 2
            BY <3>2
          <6>5. \A i \in 1..Len(up') - 1 :
                  /\ up'[i].kind # up'[i + 1].kind
                  /\ up'[i].kind = "subscribe" => up'[i].devs = up'[i + 1].devs
            <7> TAKE i \in 1..Len(up') - 1
            <7>1. CASE i \in 1..Len(up) - 1
              <8>1. up'[i] = up[i] /\ up'[i + 1] = up[i + 1]
                BY <6>2, <7>1
              <8> QED
                BY <6>1, <7>1, <8>1
            <7>2. CASE i = Len(up)
              <8>1. up'[i].kind = "subscribe" /\ up'[i].devs = subscribedTo
                BY <6>1, <6>2, <7>2
              <8>2. up'[i + 1].kind = "unsubscribe" /\ up'[i + 1].devs = subscribedTo
                BY <3>8, <5>1, <7>2
              <8> QED
                BY <8>1, <8>2
            <7>3. CASE i = Len(up) + 1
              <8>1. up'[i].kind = "unsubscribe" /\ up'[i + 1].kind = "subscribe"
                BY <3>8, <5>1, <6>4, <7>3
              <8> QED
                BY <8>1
            <7> QED
              BY <6>3, <7>1, <7>2, <7>3
          <6> QED
            BY <3>7, <5>2, <5>3, <6>1, <6>2, <6>5 DEF Asked
        <5> QED
          BY <5>4, <5>5
      <4> QED
        BY <3>1, <4>1, <4>2, <4>3
    <3> QED
      BY <2>1, <2>3, <3>9 DEF Agreed
  <2> QED
    BY <2>2, <2>3
<1>2. CASE HandleMessage
  <2>1. raised' = raised /\ ws = "open" /\ ws' = ws /\ Asked'
    BY <1>2, HandleFacts
  <2> QED
    BY <2>1 DEF Agreed
<1>3. ASSUME NEW d \in Devices, OtherMessage(d) PROVE Agreed'
  <2>1. raised' = raised /\ \A e \in Devices : Serves(e)' <=> Serves(e)
    BY <1>3, OtherFacts
  <2>2. UNCHANGED <<page, wire>>
    BY <1>3 DEF OtherMessage
  <2> QED
    BY <2>1, <2>2 DEF Agreed, Asked
<1>4. CASE Disconnect
  BY <1>4 DEF Disconnect, Agreed
<1>5. ASSUME OnMessage \/ \E d \in Devices : SendNext(d) PROVE Agreed'
  <2>1. UNCHANGED <<raised, ws, up, subscribedTo, subs>>
    BY <1>5 DEF OnMessage, SendNext
  <2>2. ws = "closed" => down' = down
    BY <1>5 DEF OnMessage, SendNext, Agreed
  <2> QED
    BY <2>1, <2>2 DEF Agreed, Asked, Serves
<1>6. \/ (\E d \in Devices : Receive(d) \/ MotorStores(d)) \/ (\E x \in xhrs : Loaded(x))
      \/ (\E x \in xhrs : Request(x)) \/ UNCHANGED vars
      \/ (\E d \in Devices, v \in Values : Change(d, v))
      => UNCHANGED <<raised, wire, subscribedTo, subs>>
  BY DEF Receive, MotorStores, Loaded, Request, Serve, ServeFails, Change, vars
<1>7. UNCHANGED <<raised, wire, subscribedTo, subs>> => Agreed'
  BY DEF Agreed, Asked, Serves
<1> QED
  BY <1>1, <1>2, <1>3, <1>4, <1>5, <1>6, <1>7 DEF Next, Device, Browser

LEMMA StepLagging ==
  ASSUME TypeOK, Lagging, [Next]_vars
  PROVE  Lagging'
<1> USE DEF page, wire, monitor, device, history
<1>1. ASSUME NEW d \in Devices, MotorStores(d) PROVE Lagging'
  <2>1. late[d] \in Seq(Values) /\ late[d] # <<>>
    BY <1>1 DEF MotorStores, TypeOK
  <2>2. /\ Head(late[d]) = late[d][1]
        /\ Tail(late[d]) # <<>> =>
             Tail(late[d])[Len(Tail(late[d]))] = late[d][Len(late[d])]
        /\ Tail(late[d]) = <<>> => Len(late[d]) = 1
    BY <2>1, TailFacts
  <2>3. /\ value' = value /\ late'[d] = Tail(late[d]) /\ motorVars'[d] = Head(late[d])
        /\ \A e \in Devices : e # d => late'[e] = late[e] /\ motorVars'[e] = motorVars[e]
    BY <1>1 DEF MotorStores, TypeOK
  <2>4. late[d][Len(late[d])] = value[d]
    BY <2>1 DEF Lagging
  <2>5. /\ late'[d] # <<>> => late'[d][Len(late'[d])] = value'[d]
        /\ late'[d] = <<>> => motorVars'[d] = value'[d]
        /\ d \in Motors
    BY <2>1, <2>2, <2>3, <2>4 DEF Lagging
  <2> QED
    BY <2>3, <2>5 DEF Lagging
<1>2. ASSUME NEW d \in Devices, NEW v \in Values, Change(d, v) PROVE Lagging'
  <2>1. /\ Append(late[d], v) # <<>>
        /\ Append(late[d], v)[Len(Append(late[d], v))] = v
    <3>1. late[d] \in Seq(Values)
      BY DEF TypeOK
    <3> QED
      BY <3>1, AppendFacts
  <2>2. /\ value'[d] = v /\ motorVars' = motorVars
        /\ \A e \in Devices : e # d => late'[e] = late[e] /\ value'[e] = value[e]
        /\ late'[d] = IF d \in Motors THEN Append(late[d], v) ELSE late[d]
    BY <1>2 DEF Change, TypeOK
  <2>3. d \notin Motors => late[d] = <<>>
    BY DEF Lagging
  <2> QED
    BY <2>1, <2>2, <2>3 DEF Lagging
<1>3. \/ (\E d \in Devices : Click(d) \/ OtherMessage(d) \/ Receive(d) \/ SendNext(d))
      \/ (\E x \in xhrs : Request(x)) \/ Browser \/ HandleMessage \/ Disconnect
      \/ UNCHANGED vars
      => UNCHANGED device
  BY DEF Click, OtherMessage, Receive, SendNext, Request, Serve, ServeFails, Browser,
     OnMessage, Loaded, HandleMessage, Disconnect, vars
<1>4. UNCHANGED device => Lagging'
  BY DEF Lagging
<1> QED
  BY <1>1, <1>2, <1>3, <1>4 DEF Next, Device

---------------------------------------------------------------------------
(* Every step of a click that nothing disturbs leads to the table that      *)
(* follows the device.                                                      *)

LEMMA ServedAlone ==
  ASSUME TypeOK, Once, Agreed, Followed, head \in Devices, up = <<>>
  PROVE  /\ Serves(head) /\ head \in DOMAIN subs
         /\ \A d \in Devices : d # head => ~Serves(d)
<1>1. Asked /\ subscribedTo = {head}
  BY DEF Agreed, Followed
<1> QED
  BY <1>1 DEF Asked, Serves

LEMMA ClickFollowed ==
  ASSUME TypeOK, Agreed, NEW d \in Devices, Click(d), ~clouded'
  PROVE  Followed'
<1> USE DEF page, wire, monitor, device, history
<1>1. Idle /\ ws = "open"
  BY DEF Click, TypeOK
<1>2. Silent /\ Silent'
  BY <1>1 DEF Idle, Silent, Click
<1> DEFINE x == [click |-> clicks + 1, dev |-> d, old |-> body.click,
                 status |-> "sent", value |-> Initial]
<1>3. xhrs' = {x} /\ head' = d /\ subscribedTo' = {d} /\ body' = body /\ ws' = ws
  BY <1>1 DEF Click, Idle
<1>4. x.dev = d /\ x.old = body.click /\ x.status # "answered"
  OBVIOUS
<1> HIDE DEF x
<1> QED
  BY <1>1, <1>2, <1>3, <1>4 DEF Followed

LEMMA OtherFollowed ==
  ASSUME TypeOK, Once, Followed, head \in Devices,
         NEW d \in Devices, OtherMessage(d), ~clouded'
  PROVE  Followed'
<1> USE DEF page, wire, monitor, device, history
<1>1. UNCHANGED <<page, wire, monitor, device>> /\ iter[d] = NotWalking
  BY DEF OtherMessage
<1>2. \A e \in DOMAIN subs : e # d => subs'[e] = subs[e]
  BY OtherFacts
<1>3. Ahead(head)' <=> Ahead(head)
  <2>1. CASE iter[head] = NotWalking
    BY <1>1, <2>1 DEF Ahead
  <2>2. CASE iter[head] # NotWalking
    <3>1. subs'[head] = subs[head]
      BY <1>1, <1>2, <2>2 DEF Once
    <3> QED
      BY <1>1, <3>1 DEF Ahead
  <2> QED
    BY <2>1, <2>2
<1>4. Following(head)' <=> Following(head)
  BY <1>1, <1>3 DEF Following
<1>5. Silent' <=> Silent
  BY <1>1 DEF Silent
<1> QED
  BY <1>1, <1>4, <1>5 DEF Followed

LEMMA ReceiveFollowed ==
  ASSUME TypeOK, Once, Agreed, Followed, head \in Devices,
         NEW d \in Devices, Receive(d)
  PROVE  Followed'
<1> USE DEF page, wire, monitor, device, history
<1>1. news[d] # <<>> /\ iter[d] = NotWalking
  BY DEF Receive
<1>2. xhrs = {} /\ up = <<>>
  BY <1>1 DEF Followed, Silent
<1>3. UNCHANGED <<page, wire, subs, device>>
  BY DEF Receive
<1>4. Serves(head) /\ head \in DOMAIN subs
  BY <1>2, ServedAlone
<1>5. \A e \in Devices : e # d => news'[e] = news[e] /\ iter'[e] = iter[e]
  BY DEF Receive, TypeOK
<1>6. CASE d # head
  <2>1. Following(head)' <=> Following(head)
    BY <1>3, <1>5, <1>6 DEF Following, Ahead
  <2> QED
    BY <1>2, <1>3, <2>1 DEF Followed
<1>7. CASE d = head
  <2>1. /\ news'[d] = Tail(news[d])
        /\ iter'[d] = [i |-> 1, value |-> Head(news[d])]
    BY <1>4, <1>7 DEF Receive, TypeOK
  <2>2. news[d] \in Seq(Values)
    BY DEF TypeOK
  <2>3. /\ Head(news[d]) = news[d][1]
        /\ Tail(news[d]) # <<>> =>
             Tail(news[d])[Len(Tail(news[d]))] = news[d][Len(news[d])]
        /\ Tail(news[d]) = <<>> => Len(news[d]) = 1
    BY <1>1, <2>2, TailFacts
  <2>4. iter'[d].i = 1 /\ iter'[d].value = news[d][1]
    BY <2>1, <2>3
  <2>5. Ahead(d)'
    <3>1. PICK i \in 1..Len(subs[d]) : subs[d][i] = Page
      BY <1>4, <1>7 DEF Serves
    <3>2. i >= 1
      BY <3>1
    <3>3. iter'[d] # NotWalking
      BY <2>4 DEF NotWalking
    <3> QED
      BY <1>3, <2>4, <3>1, <3>2, <3>3 DEF Ahead
  <2>6. news[d][Len(news[d])] = value[d]
    BY <1>1, <1>2, <1>7 DEF Followed, Following
  <2>7. Following(d)'
    BY <1>3, <2>1, <2>3, <2>4, <2>5, <2>6 DEF Following
  <2> QED
    BY <1>2, <1>3, <1>7, <2>7 DEF Followed
<1> QED
  BY <1>6, <1>7

LEMMA SendFollowed ==
  ASSUME TypeOK, Once, Agreed, Followed, head \in Devices,
         NEW d \in Devices, SendNext(d)
  PROVE  Followed'
<1> USE DEF page, wire, monitor, device, history
<1>1. iter[d] # NotWalking /\ d \in DOMAIN subs
  BY DEF SendNext, Once
<1>2. xhrs = {} /\ up = <<>>
  BY <1>1 DEF Followed, Silent
<1>3. UNCHANGED <<page, ws, up, subs, news, device>>
  BY DEF SendNext
<1>4. Serves(head) /\ head \in DOMAIN subs /\ \A e \in Devices : e # head => ~Serves(e)
  BY <1>2, ServedAlone
<1>5. \A e \in Devices : e # d => iter'[e] = iter[e]
  BY DEF SendNext, TypeOK
<1>6. /\ subs[d] \in Seq(Clients) /\ Len(subs[d]) \in Nat
      /\ iter[d] \in Walking /\ iter[d].i \in Nat \ {0} /\ iter[d].value \in Values
  <2>1. subs[d] \in Seq(Clients)
    BY <1>1 DEF TypeOK
  <2>2. iter[d] \in Walking
    BY <1>1 DEF TypeOK
  <2> QED
    BY <2>1, <2>2, LenProperties DEF Walking
<1>7. CASE d # head
  <2>1. \A i \in 1..Len(subs[d]) : subs[d][i] # Page
    BY <1>1, <1>4, <1>7 DEF Serves
  <2>2. down' = down
    <3>1. iter[d].i <= Len(subs[d]) => iter[d].i \in 1..Len(subs[d])
      BY <1>6
    <3> QED
      BY <2>1, <3>1 DEF SendNext
  <2>3. Following(head)' <=> Following(head)
    BY <1>3, <1>5, <1>7, <2>2 DEF Following, Ahead
  <2> QED
    BY <1>2, <1>3, <2>3 DEF Followed
<1>8. CASE d = head
  <2> DEFINE i == iter[d].i
  <2>1. CASE i <= Len(subs[d]) /\ subs[d][i] = Page
    <3>1. i \in 1..Len(subs[d]) /\ ws = "open"
      BY <1>6, <2>1 DEF Followed
    <3>2. /\ iter'[d] = [iter[d] EXCEPT !.i = @ + 1]
          /\ down' = Append(down, iter[d].value)
      BY <2>1, <3>1 DEF SendNext, TypeOK
    <3>3. iter'[d].i = i + 1 /\ iter'[d].value = iter[d].value
      BY <1>6, <3>2 DEF Walking
    <3>4. ~Ahead(d)'
      <4>1. \A j \in 1..Len(subs[d]) : subs[d][j] = Page => j = i
        BY <1>1, <2>1, <3>1 DEF Once
      <4>2. \A j \in 1..Len(subs[d]) : j >= i + 1 => subs[d][j] # Page
        BY <1>6, <4>1
      <4> QED
        BY <1>3, <3>3, <4>2 DEF Ahead
    <3>5. Ahead(d)
      <4>1. i >= i
        BY <1>6
      <4> QED
        BY <1>1, <2>1, <3>1, <4>1 DEF Ahead
    <3>6. down' # <<>> /\ down'[Len(down')] = iter[d].value
      <4>1. down \in Seq(Values)
        BY DEF TypeOK
      <4> QED
        BY <1>6, <3>2, <4>1, AppendFacts
    <3>7. Following(d)
      BY <1>2, <1>8 DEF Followed
    <3> HIDE DEF i
    <3>8. Following(d)'
      BY <1>3, <3>4, <3>5, <3>6, <3>7 DEF Following
    <3> QED
      BY <1>2, <1>3, <1>8, <3>8 DEF Followed
  <2>2. CASE i <= Len(subs[d]) /\ subs[d][i] # Page
    <3>1. iter'[d] = [iter[d] EXCEPT !.i = @ + 1] /\ down' = down
      BY <2>2 DEF SendNext, TypeOK
    <3>2. iter'[d].i = i + 1 /\ iter'[d].value = iter[d].value
      BY <1>6, <3>1 DEF Walking
    <3>3. iter'[d] # NotWalking
      BY <1>6, <3>2 DEF NotWalking
    <3>4. \A j \in 1..Len(subs[d]) : subs[d][j] = Page => (j >= i <=> j >= i + 1)
      BY <1>6, <2>2
    <3>5. Ahead(d)' <=> Ahead(d)
      BY <1>1, <1>3, <3>2, <3>3, <3>4 DEF Ahead
    <3>6. Following(d)' <=> Following(d)
      BY <1>3, <3>1, <3>2, <3>5 DEF Following
    <3> QED
      BY <1>2, <1>3, <1>8, <3>6 DEF Followed
  <2>3. CASE ~(i <= Len(subs[d]))
    <3>1. iter'[d] = NotWalking /\ down' = down
      BY <2>3 DEF SendNext, TypeOK
    <3>2. ~Ahead(d)'
      BY <3>1 DEF Ahead
    <3>3. ~Ahead(d)
      BY <1>6, <2>3 DEF Ahead
    <3>4. Following(d)' <=> Following(d)
      BY <1>3, <3>1, <3>2, <3>3 DEF Following
    <3> QED
      BY <1>2, <1>3, <1>8, <3>4 DEF Followed
  <2> QED
    BY <2>1, <2>2, <2>3
<1> QED
  BY <1>7, <1>8

LEMMA ChangeFollowed ==
  ASSUME TypeOK, Followed, head \in Devices,
         NEW d \in Devices, NEW v \in Values, Change(d, v), ~clouded'
  PROVE  Followed'
<1> USE DEF page, wire, monitor, device, history
<1>1. xhrs = {} /\ up = <<>>
  BY DEF Change
<1>2. /\ UNCHANGED <<page, wire, subs, iter>> /\ value'[d] = v
      /\ news'[d] = Append(news[d], v)
      /\ \A e \in Devices : e # d => news'[e] = news[e] /\ value'[e] = value[e]
  BY DEF Change, TypeOK
<1>3. news'[d] # <<>> /\ news'[d][Len(news'[d])] = v
  <2>1. news[d] \in Seq(Values)
    BY DEF TypeOK
  <2> QED
    BY <1>2, <2>1, AppendFacts
<1>4. Following(head)'
  <2>1. CASE d = head
    BY <1>2, <1>3, <2>1 DEF Following
  <2>2. CASE d # head
    BY <1>1, <1>2, <2>2 DEF Following, Ahead, Followed
  <2> QED
    BY <2>1, <2>2
<1> QED
  BY <1>1, <1>2, <1>4 DEF Followed

LEMMA ServeFollowed ==
  ASSUME TypeOK, Lagging, Followed, head \in Devices, NEW x \in xhrs, Serve(x)
  PROVE  Followed'
<1> USE DEF page, wire, monitor, device, history
<1> DEFINE y == [x EXCEPT !.status = "answered", !.value = Shown(x.dev)]
<1>1. xhrs = {x} /\ x.dev = head /\ x.old = body.click /\ Silent
  BY DEF Followed
<1>2. xhrs' = {y}
  BY <1>1 DEF Serve
<1>3. UNCHANGED <<head, subscribedTo, body, wire, subs, monitor, device>>
  BY DEF Serve
<1>4. x \in Requests
  BY DEF TypeOK
<1>5. y.dev = head /\ y.old = body.click /\ y.value = Shown(head)
  BY <1>1, <1>4 DEF Requests
<1>6. Shown(head) = value[head]
  BY <1>1 DEF Shown, Silent, Lagging
<1>7. Silent'
  BY <1>1, <1>3 DEF Silent
<1> HIDE DEF y
<1> QED
  BY <1>2, <1>3, <1>5, <1>6, <1>7 DEF Followed

LEMMA LoadedFollowed ==
  ASSUME TypeOK, Followed, head \in Devices, NEW x \in xhrs, Loaded(x)
  PROVE  Followed'
<1> USE DEF page, wire, monitor, device, history
<1>1. xhrs = {x} /\ x.dev = head /\ x.old = body.click /\ Silent
  BY DEF Followed
<1>2. x.value = value[head]
  BY DEF Loaded, Followed
<1>3. /\ xhrs' = {} /\ body' = [click |-> x.click, dev |-> x.dev, value |-> x.value]
      /\ UNCHANGED <<head, subscribedTo, wire, subs, monitor, device>>
  BY <1>1 DEF Loaded
<1>4. body'.dev = head /\ body'.value = value[head]
  BY <1>1, <1>2, <1>3
<1>5. Silent'
  BY <1>1, <1>3 DEF Silent
<1>6. Following(head)'
  BY <1>3, <1>4, <1>5 DEF Silent, Following, Ahead
<1> QED
  BY <1>3, <1>4, <1>5, <1>6 DEF Followed

LEMMA OnMessageFollowed ==
  ASSUME TypeOK, Followed, head \in Devices, OnMessage
  PROVE  Followed'
<1> USE DEF page, wire, monitor, device, history
<1>1. down # <<>> /\ xhrs = {} /\ up = <<>>
  BY DEF OnMessage, Followed, Silent
<1>2. body.dev = head /\ body.dev # NoDevice /\ Following(head)
  BY <1>1, VizAssumption DEF Followed
<1>3. /\ body' = [body EXCEPT !.value = Head(down)] /\ down' = Tail(down)
      /\ UNCHANGED <<head, subscribedTo, xhrs, ws, up, subs, monitor, device>>
  BY <1>2 DEF OnMessage
<1>4. body'.dev = head /\ body'.value = Head(down)
  <2>1. body \in [click : Nat, dev : Devices \union {NoDevice}, value : Values]
    BY DEF TypeOK
  <2> QED
    BY <1>2, <1>3, <2>1
<1>5. /\ Head(down) = down[1]
      /\ Tail(down) # <<>> => Tail(down)[Len(Tail(down))] = down[Len(down)]
      /\ Tail(down) = <<>> => Len(down) = 1
  BY <1>1, TailFacts DEF TypeOK
<1>6. Ahead(head)' <=> Ahead(head)
  BY <1>3 DEF Ahead
<1>7. Following(head)'
  BY <1>1, <1>2, <1>3, <1>4, <1>5, <1>6 DEF Following
<1> QED
  BY <1>1, <1>3, <1>4, <1>7 DEF Followed

LEMMA HandleFollowed ==
  ASSUME TypeOK, Once, Agreed, Followed, head \in Devices, HandleMessage
  PROVE  Followed'
<1> USE DEF page, wire, monitor, device, history
<1>1. Silent
  BY DEF HandleMessage, Followed
<1>2. UNCHANGED <<page, down, monitor, device>> /\ ws' = ws
  BY HandleFacts DEF HandleMessage
<1>3. Silent'
  BY <1>1, <1>2 DEF Silent
<1>4. Following(head)' <=> Following(head)
  BY <1>1, <1>2, <1>3 DEF Following, Ahead, Silent
<1> QED
  BY <1>2, <1>3, <1>4 DEF Followed

LEMMA StepUndisturbed ==
  ASSUME TypeOK, Once, Agreed, Lagging, Undisturbed, [Next]_vars
  PROVE  Undisturbed'
<1> USE DEF page, wire, monitor, device, history
<1> SUFFICES ASSUME ~clouded', head' # NoDevice PROVE Followed'
  BY DEF Undisturbed
<1>1. ASSUME NEW d \in Devices, Click(d) PROVE Followed'
  BY <1>1, ClickFollowed
<1>2. ASSUME head' = head, ~clouded PROVE Followed /\ head \in Devices
  BY <1>2 DEF Undisturbed, TypeOK
<1>3. ASSUME NEW d \in Devices, OtherMessage(d) PROVE Followed'
  <2>1. head' = head /\ ~clouded
    BY <1>3 DEF OtherMessage
  <2> QED
    BY <1>2, <1>3, <2>1, OtherFollowed
<1>4. ASSUME NEW d \in Devices, Device(d) PROVE Followed'
  <2>1. head' = head /\ ~clouded
    BY <1>4 DEF Device, Receive, SendNext, MotorStores
  <2>2. Followed /\ head \in Devices
    BY <1>2, <2>1
  <2>3. CASE MotorStores(d)
    <3>1. late[d] # <<>> /\ UNCHANGED <<page, wire, subs, monitor, value>>
      BY <2>3 DEF MotorStores
    <3>2. xhrs = {} /\ up = <<>>
      BY <2>2, <3>1 DEF Followed, Silent
    <3>3. Following(head)' <=> Following(head)
      BY <3>1 DEF Following, Ahead
    <3> QED
      BY <2>2, <3>1, <3>2, <3>3 DEF Followed
  <2> QED
    BY <1>4, <2>2, <2>3, ReceiveFollowed, SendFollowed DEF Device
<1>5. ASSUME NEW d \in Devices, NEW v \in Values, Change(d, v) PROVE Followed'
  <2>1. head' = head /\ ~clouded
    BY <1>5 DEF Change
  <2> QED
    BY <1>2, <1>5, <2>1, ChangeFollowed
<1>6. ASSUME NEW x \in xhrs, Request(x) PROVE Followed'
  <2>1. Serve(x) /\ head' = head /\ ~clouded
    BY <1>6 DEF Request, Serve, ServeFails
  <2> QED
    BY <1>2, <2>1, ServeFollowed
<1>7. ASSUME Browser PROVE Followed'
  <2>1. head' = head /\ ~clouded
    BY <1>7 DEF Browser, OnMessage, Loaded
  <2> QED
    BY <1>2, <1>7, <2>1, LoadedFollowed, OnMessageFollowed DEF Browser
<1>8. CASE HandleMessage
  <2>1. head' = head /\ ~clouded
    BY <1>8 DEF HandleMessage
  <2> QED
    BY <1>2, <1>8, <2>1, HandleFollowed
<1>9. ~Disconnect
  BY DEF Disconnect
<1>10. CASE UNCHANGED vars
  <2>1. UNCHANGED <<page, wire, subs, monitor, device, clouded>>
    BY <1>10 DEF vars
  <2>2. Followed
    BY <1>2, <2>1
  <2>3. (Following(head)' <=> Following(head)) /\ (Silent' <=> Silent)
    BY <2>1 DEF Following, Ahead, Silent
  <2> QED
    BY <2>1, <2>2, <2>3 DEF Followed
<1> QED
  BY <1>1, <1>3, <1>4, <1>5, <1>6, <1>7, <1>8, <1>9, <1>10 DEF Next

---------------------------------------------------------------------------
(* The theorems *)

LEMMA InitIInv == Init => IInv
<1> SUFFICES ASSUME Init PROVE IInv
  OBVIOUS
<1>1. <<>> \in Seq(Messages) /\ <<>> \in Seq(Values)
  BY EmptySeq
<1>2. Initial \in Values /\ Page # Other /\ Other \in Clients
  BY VizAssumption DEF Clients
<1>3. /\ DOMAIN subs \subseteq Devices /\ subs \in [DOMAIN subs -> Seq(Clients)]
      /\ \A d \in DOMAIN subs : subs[d] = <<Other>>
  <2>1. CASE subs = <<>>
    <3>1. DOMAIN <<>> = {} /\ <<>> \in [{} -> Seq(Clients)]
      OBVIOUS
    <3> QED
      BY <2>1, <3>1
  <2>2. ASSUME NEW d \in Devices, subs = [e \in {d} |-> <<Other>>]
        PROVE  /\ DOMAIN subs \subseteq Devices /\ subs \in [DOMAIN subs -> Seq(Clients)]
               /\ \A e \in DOMAIN subs : subs[e] = <<Other>>
    <3>1. <<Other>> \in Seq(Clients)
      BY <1>2
    <3> QED
      BY <2>2, <3>1
  <2> QED
    BY <2>1, <2>2 DEF Init
<1>4. Len(<<Other>>) = 1 /\ <<Other>>[1] = Other
  OBVIOUS
<1>5. TypeOK
  <2>1. /\ head = NoDevice /\ subscribedTo = {} /\ xhrs = {} /\ ws = "open"
        /\ body \in [click : Nat, dev : Devices \union {NoDevice}, value : Values]
        /\ value \in [Devices -> Values] /\ motorVars \in [Devices -> Values]
        /\ clicks = 0 /\ up = <<>> /\ down = <<>>
    BY <1>2 DEF Init
  <2>2. iter \in [Devices -> Walking \union {NotWalking}]
    BY DEF Init
  <2>3. news \in [Devices -> Seq(Values)] /\ late \in [Devices -> Seq(Values)]
    BY <1>1 DEF Init
  <2> QED
    BY <1>1, <1>3, <2>1, <2>2, <2>3 DEF TypeOK
<1>6. Newer
  BY DEF Init, Newer
<1>7. Once
  <2>1. \A d \in Devices : iter[d] = NotWalking
    BY DEF Init
  <2>2. \A d \in DOMAIN subs : \A i, j \in 1..Len(subs[d]) : i = j
    <3> SUFFICES ASSUME NEW d \in DOMAIN subs PROVE \A i, j \in 1..Len(subs[d]) : i = j
      OBVIOUS
    <3>1. Len(subs[d]) = 1
      BY <1>3, <1>4
    <3> QED
      BY <3>1
  <2> QED
    BY <2>1, <2>2 DEF Once
<1>8. Agreed
  <2>1. \A d \in Devices : ~Serves(d)
    BY <1>2, <1>3, <1>4 DEF Serves
  <2> QED
    BY <2>1 DEF Init, Agreed, Asked
<1>9. Lagging /\ Undisturbed
  BY DEF Init, Lagging, Undisturbed
<1> QED
  BY <1>5, <1>6, <1>7, <1>8, <1>9 DEF IInv

(* Whatever is clicked, changed, answered, lost or walked in whatever       *)
(* order: the messages under way lead the server to what the page wants,    *)
(* and after a click that nothing disturbs the table follows the device.    *)
THEOREM Inductive == Spec => []IInv
<1>1. IInv /\ [Next]_vars => IInv'
  BY StepTypeOK, StepNewer, StepOnce, StepAgreed, StepLagging, StepUndisturbed DEF IInv
<1> QED
  BY <1>1, InitIInv, PTL DEF Spec

(* The page, the server's lists and the threads' queues keep their types. *)
THEOREM TypeCorrect == Spec => []TypeOK
<1>1. IInv => TypeOK
  BY DEF IInv
<1> QED
  BY <1>1, Inductive, PTL

(* The server never raises on a message of the page and, when it has        *)
(* handled all of them, sends the page the changes of exactly the device    *)
(* that the page wants, each once.                                          *)
THEOREM ServedAgreeHolds == Spec => []ServedAgree
<1>1. IInv => ServedAgree
  <2> SUFFICES ASSUME IInv, ws = "open", up = <<>>, NEW d \in Devices
               PROVE  Cardinality({i \in DOMAIN ClientsOf(d) : ClientsOf(d)[i] = Page})
                        = (IF d \in subscribedTo THEN 1 ELSE 0)
    BY DEF IInv, Agreed, ServedAgree
  <2> DEFINE I == {i \in DOMAIN ClientsOf(d) : ClientsOf(d)[i] = Page}
  <2>1. Serves(d) <=> d \in subscribedTo
    BY DEF IInv, Agreed, Asked
  <2>2. CASE d \in DOMAIN subs
    <3>1. subs[d] \in Seq(Clients) /\ ClientsOf(d) = subs[d]
      BY <2>2 DEF IInv, TypeOK, ClientsOf
    <3>2. DOMAIN subs[d] = 1..Len(subs[d])
      BY <3>1, LenProperties
    <3>3. CASE Serves(d)
      <4>1. PICK i \in 1..Len(subs[d]) : subs[d][i] = Page
        BY <3>3 DEF Serves
      <4>2. I = {i}
        BY <2>2, <3>1, <3>2, <4>1 DEF IInv, Once
      <4> QED
        BY <2>1, <3>3, <4>2, FS_Singleton
    <3>4. CASE ~Serves(d)
      <4>1. I = {}
        BY <2>2, <3>1, <3>2, <3>4 DEF Serves
      <4> QED
        BY <2>1, <3>4, <4>1, FS_EmptySet
    <3> QED
      BY <3>3, <3>4
  <2>3. CASE d \notin DOMAIN subs
    <3>1. ClientsOf(d) = <<>> /\ DOMAIN <<>> = {}
      BY <2>3 DEF ClientsOf
    <3>2. I = {}
      BY <3>1
    <3> QED
      BY <2>1, <2>3, <3>2, FS_EmptySet DEF Serves
  <2> QED
    BY <2>2, <2>3
<1> QED
  BY <1>1, Inductive, PTL

(* Of answers that come in any order, one that is older than what the table *)
(* shows never replaces it.                                                 *)
THEOREM NeverBackHolds == Spec => NeverBack
<1>1. IInv /\ [Next]_vars => [body'.click >= body.click]_vars
  <2> SUFFICES ASSUME IInv, Next PROVE body'.click >= body.click
    OBVIOUS
  <2>1. body \in [click : Nat, dev : Devices \union {NoDevice}, value : Values]
        /\ \A x \in xhrs : x \in Requests
    BY DEF IInv, TypeOK
  <2>2. ASSUME NEW x \in xhrs, Loaded(x) PROVE body'.click >= body.click
    <3>1. x.old < x.click /\ x.old \in Nat /\ x.click \in Nat
      BY <2>1 DEF IInv, Newer, Requests
    <3> QED
      BY <2>1, <2>2, <3>1 DEF Loaded
  <2>3. OnMessage => body'.click = body.click
    BY <2>1 DEF OnMessage
  <2>4. \/ \E d \in Devices : Click(d) \/ OtherMessage(d) \/ Device(d)
        \/ \E d \in Devices, v \in Values : Change(d, v)
        \/ (\E x \in xhrs : Request(x)) \/ HandleMessage \/ Disconnect
        => body' = body
    BY DEF Click, OtherMessage, Device, Receive, SendNext, MotorStores, Change, Request,
       Serve, ServeFails, HandleMessage, Disconnect, page
  <2> QED
    BY <2>1, <2>2, <2>3, <2>4 DEF Next, Browser
<1> QED
  BY <1>1, Inductive, PTL DEF Spec, NeverBack

(* After a click that nothing disturbs, changes, other clients and motors   *)
(* that lag leave nothing stale: when all is quiet the table shows the      *)
(* device its header names with the value it has.                           *)
THEOREM ShowsCurrentHolds == Spec => []ShowsCurrent
<1>1. IInv => ShowsCurrent
  <2> SUFFICES ASSUME IInv, Idle, ~clouded, head # NoDevice
               PROVE  body.dev = head /\ body.value = value[head]
    BY DEF ShowsCurrent
  <2>1. head \in Devices /\ Followed
    BY DEF IInv, TypeOK, Undisturbed
  <2>2. body.dev = head /\ Following(head)
    BY <2>1 DEF Idle, Followed
  <2> QED
    BY <2>1, <2>2 DEF Idle, Following, Ahead
<1> QED
  BY <1>1, Inductive, PTL
============================================================================
