-------------------------------- MODULE Rpc --------------------------------
(* How a twin talks to the process behind it (cpstwinning/twins.py, Plc and *)
(* Hmi): a call makes a connection, stores it in the attribute conn of the  *)
(* twin, and sends, receives and closes by way of that attribute.  The      *)
(* command line, the replication and the visualisation call one twin from   *)
(* threads of their own.  The other side (ListenerThread, HmiMbClient)      *)
(* accepts one connection after the other, reads one message from it and    *)
(* answers it.  What it answers is left to the modules that extend this one. *)
(*                                                                          *)
(* CPython closes a connection when its last reference goes: the client's   *)
(* end when conn is overwritten and nobody is inside a recv on it, the      *)
(* server's when its variable conn is.                                      *)
EXTENDS Naturals, FiniteSets, Sequences

CONSTANTS
    Callers,    \* threads that call the twin
    Requests,   \* what they ask
    Results,    \* what the server can answer
    NoMessage,
    MaxCalls    \* bound: calls, one connection each

ASSUME RpcAssumption ==
    /\ MaxCalls \in Nat \ {0}
    /\ NoMessage \notin Requests \union Results

Connections == 1..MaxCalls

VARIABLES
    pc,          \* where each caller is
    req, reply,  \* what it asked, what it was answered
    used,        \* the connection it waits on in recv (0: none)
    conn, made,  \* the twin's attribute (0: not set), connections made
    backlog,     \* connections to be accepted
    toServer, toClient,  \* messages on their way
    clientOpen, serverOpen,  \* ends that are open
    srv, sconn, current,  \* where the server is, its conn and its message
    calls,             \* for the bound
    disturbed,         \* history: callers whose last call overlapped another
    overlapped         \* history: two calls have overlapped

callers == <<pc, req, reply, used>>
twin    == <<conn, made>>
wires   == <<backlog, toServer, toClient, clientOpen, serverOpen>>
server  == <<srv, sconn, current>>
overlap == <<calls, disturbed, overlapped>>
rpcVars == <<callers, twin, wires, server, overlap>>

RpcInit ==
    /\ pc = [c \in Callers |-> "idle"]
    /\ req = [c \in Callers |-> NoMessage]
    /\ reply = [c \in Callers |-> NoMessage]
    /\ used = [c \in Callers |-> 0]
    /\ conn = 0 /\ made = 0
    /\ backlog = <<>>
    /\ toServer = [k \in Connections |-> <<>>]
    /\ toClient = [k \in Connections |-> <<>>]
    /\ clientOpen = {} /\ serverOpen = {}
    /\ srv = "accept" /\ sconn = 0 /\ current = NoMessage
    /\ calls = 0 /\ disturbed = {} /\ overlapped = FALSE

Goto(c, l) == pc' = [pc EXCEPT ![c] = l]

(* The client's ends among K that the attribute or somebody's recv refers to. *)
Referenced(K, attribute, waits) ==
    {k \in K : k = attribute \/ \E c \in Callers : waits[c] = k}

---------------------------------------------------------------------------
(* The twin *)

(* A call of the twin, which goes on at l. *)
Call(c, r, l) ==
    /\ pc[c] = "idle" /\ calls < MaxCalls
    /\ calls' = calls + 1
    /\ req' = [req EXCEPT ![c] = r]
    /\ reply' = [reply EXCEPT ![c] = NoMessage]
    /\ LET others == {d \in Callers : pc[d] # "idle"}
       IN  /\ disturbed' = (disturbed \ {c}) \union others
                            \union (IF others = {} THEN {} ELSE {c})
           /\ overlapped' = (overlapped \/ others # {})
    /\ Goto(c, l)
    /\ UNCHANGED <<used, twin, wires, server>>

(* Client(address) raises when nobody listens. *)
Connect(c) ==
    /\ pc[c] = "connect"
    /\ IF srv = "dead"
       THEN Goto(c, "raised") /\ UNCHANGED <<twin, backlog, clientOpen, serverOpen>>
       ELSE /\ made' = made + 1 /\ conn' = made + 1
            /\ backlog' = Append(backlog, made + 1)
            /\ clientOpen' = Referenced(clientOpen \union {made + 1}, made + 1, used)
            /\ serverOpen' = serverOpen \union {made + 1}
            /\ Goto(c, "send")
    /\ UNCHANGED <<req, reply, used, toServer, toClient, server, overlap>>

(* self.conn.send: of whatever connection is in the attribute by now; it    *)
(* raises when either end is closed.                                        *)
Send(c) ==
    /\ pc[c] = "send"
    /\ IF conn \in clientOpen \intersect serverOpen
       THEN /\ toServer' = [toServer EXCEPT ![conn] =
                              Append(@, req[c])]
            /\ Goto(c, "recv")
       ELSE Goto(c, "raised") /\ UNCHANGED toServer
    /\ UNCHANGED <<req, reply, used, twin, backlog, toClient, clientOpen,
                   serverOpen, server, overlap>>

(* self.conn.recv: once it waits, another thread may overwrite or close. *)
Recv(c) ==
    /\ pc[c] = "recv"
    /\ IF conn \in clientOpen
       THEN used' = [used EXCEPT ![c] = conn] /\ Goto(c, "receiving")
       ELSE Goto(c, "raised") /\ UNCHANGED used
    /\ UNCHANGED <<req, reply, twin, wires, server, overlap>>

Receive(c) ==
    /\ pc[c] = "receiving" /\ toClient[used[c]] # <<>>
    /\ reply' = [reply EXCEPT ![c] = Head(toClient[used[c]])]
    /\ toClient' = [toClient EXCEPT ![used[c]] = Tail(@)]
    /\ used' = [used EXCEPT ![c] = 0]
    /\ clientOpen' = Referenced(clientOpen, conn, used')
    /\ Goto(c, "close")
    /\ UNCHANGED <<req, twin, backlog, toServer, serverOpen, server, overlap>>

(* Mutant: recv gives up when the answer is late. *)
ReceiveGivesUp(c) ==
    /\ pc[c] = "receiving" /\ toClient[used[c]] = <<>>
    /\ used' = [used EXCEPT ![c] = 0]
    /\ clientOpen' = Referenced(clientOpen \ {used[c]}, 0, used')
    /\ Goto(c, "raised")
    /\ UNCHANGED <<req, reply, twin, backlog, toServer, toClient, serverOpen,
                   server, overlap>>

(* EOFError *)
ReceiveEof(c) ==
    /\ pc[c] = "receiving" /\ toClient[used[c]] = <<>>
    /\ used[c] \notin serverOpen
    /\ used' = [used EXCEPT ![c] = 0]
    /\ clientOpen' = Referenced(clientOpen, conn, used')
    /\ Goto(c, "raised")
    /\ UNCHANGED <<req, reply, twin, backlog, toServer, toClient, serverOpen,
                   server, overlap>>

Close(c) ==
    /\ pc[c] = "close"
    /\ clientOpen' = clientOpen \ {conn}
    /\ Goto(c, "received")
    /\ UNCHANGED <<req, reply, used, twin, backlog, toServer, toClient,
                   serverOpen, server, overlap>>

---------------------------------------------------------------------------
(* The server.  Kept: connections it holds references to beside conn. *)

(* An exception nobody handles: the listener is closed, with all that wait. *)
Die(Kept) ==
    /\ srv' = "dead" /\ sconn' = 0 /\ current' = NoMessage
    /\ serverOpen' = serverOpen \intersect Kept
    /\ backlog' = <<>>

Accept(Kept) ==
    /\ srv = "accept" /\ backlog # <<>>
    /\ sconn' = Head(backlog) /\ backlog' = Tail(backlog)
    /\ serverOpen' = serverOpen \ ({sconn} \ Kept)
    /\ srv' = "recv"
    /\ UNCHANGED <<callers, twin, toServer, toClient, clientOpen, current, overlap>>

ServerRecv ==
    /\ srv = "recv" /\ toServer[sconn] # <<>>
    /\ current' = Head(toServer[sconn])
    /\ toServer' = [toServer EXCEPT ![sconn] = Tail(@)]
    /\ srv' = "handle"
    /\ UNCHANGED <<callers, twin, backlog, toClient, clientOpen, serverOpen,
                   sconn, overlap>>

(* The client's end was closed before anything was sent: EOFError. *)
ServerEof(Kept) ==
    /\ srv = "recv" /\ toServer[sconn] = <<>> /\ sconn \notin clientOpen
    /\ Die(Kept)
    /\ UNCHANGED <<callers, twin, toServer, toClient, clientOpen, overlap>>

(* Answer the current message; the send raises if the client has gone. *)
Answer(r, Kept) ==
    /\ IF sconn \in clientOpen
       THEN /\ toClient' = [toClient EXCEPT ![sconn] =
                              Append(@, r)]
            /\ srv' = "accept" /\ current' = NoMessage
            /\ UNCHANGED <<sconn, backlog, serverOpen>>
       ELSE Die(Kept) /\ UNCHANGED toClient
    /\ UNCHANGED <<callers, twin, toServer, clientOpen, overlap>>

---------------------------------------------------------------------------
Exchange(c) ==
    \/ Connect(c) \/ Send(c) \/ Recv(c) \/ Receive(c) \/ ReceiveEof(c) \/ Close(c)

Serve(Kept) == Accept(Kept) \/ ServerRecv \/ ServerEof(Kept)

============================================================================
