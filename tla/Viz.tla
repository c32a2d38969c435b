-------------------------------- MODULE Viz --------------------------------
(* The table of variables in the visualisation (cpstwinning/viz.py and      *)
(* viz/js/viz.js).  A click on a device in the page subscribes to it over   *)
(* the WebSocket, writes its name over the table and asks for its variables *)
(* over HTTP; the answer replaces the body of the table, and afterwards     *)
(* each change that the server announces is written into the row of that    *)
(* name.  In the server one thread per PLC or motor and the callbacks of an *)
(* HMI walk the list of clients of a device while the thread of the         *)
(* WebSocket server changes it.                                             *)
(*                                                                          *)
(* Every device has a variable of the same name (StartConveyorBelt is one   *)
(* of the PLC and of the HMI), and that is the one in the model.  A second  *)
(* client stands for any other page; the lists keep a client whose          *)
(* connection was closed.  Before the WebSocket is open a click fails at    *)
(* its first send and changes nothing.                                      *)
EXTENDS Naturals, FiniteSets, SequencesExt

CONSTANTS
    Devices,
    Motors,        \* devices whose variables lag behind those of the PLC
    Values, Initial,
    NoDevice,
    Page, Other,   \* the two clients
    MaxClicks, MaxChanges, MaxOther  \* bounds: clicks, changes, the other's messages

ASSUME VizAssumption ==
    /\ Motors \subseteq Devices /\ NoDevice \notin Devices
    /\ Initial \in Values /\ Page # Other
    /\ MaxClicks \in Nat /\ MaxChanges \in Nat /\ MaxOther \in Nat

VARIABLES
    \* the page
    head,        \* the device the text over the table names
    subscribedTo,
    body,        \* the body in the table: the click that made it, device, value
    xhrs,        \* requests under way: the click, device, the body to replace
    ws, up, down,  \* the WebSocket: open or closed, messages either way
    \* the server
    subs,        \* device_to_client_map
    raised,      \* list.remove raised ValueError in handleMessage
    news,        \* changes that the thread of a device has yet to receive
    iter,        \* its walk over the clients: the next index, the value
    \* the devices
    value, late, motorVars,  \* late: what the thread of a motor has yet to store
    \* bounds and history
    clicks, changes, others,
    overlapped,  \* a click came while the answer to another was pending
    failed,      \* a request for variables failed
    clouded      \* something disturbed the last click, or the walk; cleared
                 \* by a click that nothing disturbs

page    == <<head, subscribedTo, body, xhrs>>
wire    == <<ws, up, down>>
monitor == <<news, iter>>
device  == <<value, late, motorVars>>
history == <<clicks, changes, others, overlapped, failed, clouded>>
vars == <<page, wire, subs, raised, monitor, device, history>>

Walking == [i : Nat \ {0}, value : Values]
NotWalking == [i |-> 0, value |-> Initial]

Init ==
    /\ head = NoDevice /\ subscribedTo = {}
    /\ body = [click |-> 0, dev |-> NoDevice, value |-> Initial]
    /\ xhrs = {}
    /\ ws = "open" /\ up = <<>> /\ down = <<>>
    /\ subs \in {<<>>} \union {[e \in {d} |-> <<Other>>] : d \in Devices}
    /\ raised = FALSE
    /\ news = [d \in Devices |-> <<>>]
    /\ iter = [d \in Devices |-> NotWalking]
    /\ value = [d \in Devices |-> Initial]
    /\ late = [d \in Devices |-> <<>>] /\ motorVars = value
    /\ clicks = 0 /\ changes = 0 /\ others = 0
    /\ overlapped = FALSE /\ failed = FALSE /\ clouded = FALSE

(* Nothing is under way anywhere. *)
Idle ==
    /\ xhrs = {} /\ up = <<>> /\ down = <<>>
    /\ \A d \in Devices :
         news[d] = <<>> /\ late[d] = <<>> /\ iter[d] = NotWalking

---------------------------------------------------------------------------
(* The page: updateVarsView, the callback of the request, ws.onmessage *)

(* What a closed WebSocket is given to send is dropped. *)
Sent(messages) == IF ws = "open" THEN up \o messages ELSE up

Unsubscribe(D) == [kind |-> "unsubscribe", devs |-> D]
Subscribe(d)   == [kind |-> "subscribe", devs |-> {d}]

(* Mutant: asks for everything to be given up, the device clicked included. *)
UnsubAll(d) == subscribedTo

(* Mutant: old subscriptions are kept. *)
UnsubNone(d) == {}

Unsub(d) == subscribedTo \ {d}

(* Mutant: the body of the table is looked up once, not at every click. *)
ClickOldCached(d) ==
    /\ clicks < MaxClicks
    /\ clicks' = clicks + 1
    /\ up' = Sent((IF Unsub(d) = {} THEN <<>> ELSE <<Unsubscribe(Unsub(d))>>)
                  \o (IF d \in subscribedTo THEN <<>> ELSE <<Subscribe(d)>>))
    /\ subscribedTo' = {d} /\ head' = d
    /\ xhrs' = xhrs \union {[click |-> clicks + 1, dev |-> d, old |-> 0,
                             status |-> "sent", value |-> Initial]}
    /\ overlapped' = (overlapped \/ xhrs # {})
    /\ clouded' = (~Idle \/ ws = "closed")
    /\ UNCHANGED <<body, ws, down, subs, raised, monitor, device, changes, others, failed>>

Click(d) ==
    /\ clicks < MaxClicks
    /\ clicks' = clicks + 1
    /\ up' = Sent((IF Unsub(d) = {} THEN <<>> ELSE <<Unsubscribe(Unsub(d))>>)
                  \o (IF d \in subscribedTo THEN <<>> ELSE <<Subscribe(d)>>))
    /\ subscribedTo' = {d}
    /\ head' = d
    /\ xhrs' = xhrs \union {[click |-> clicks + 1, dev |-> d, old |-> body.click,
                             status |-> "sent", value |-> Initial]}
    /\ overlapped' = (overlapped \/ xhrs # {})
    /\ clouded' = (~Idle \/ ws = "closed")
    /\ UNCHANGED <<body, ws, down, subs, raised, monitor, device, changes, others, failed>>

(* Mutant: whatever body is there is replaced. *)
LoadedAlways(x) ==
    /\ x \in xhrs /\ x.status = "answered"
    /\ xhrs' = xhrs \ {x}
    /\ body' = [click |-> x.click, dev |-> x.dev, value |-> x.value]
    /\ UNCHANGED <<head, subscribedTo, wire, subs, raised, monitor, device, history>>

(* The answer replaces the body that was in the table at the click, if that *)
(* one is still there.                                                      *)
Loaded(x) ==
    /\ x \in xhrs /\ x.status = "answered"
    /\ xhrs' = xhrs \ {x}
    /\ IF x.old = body.click
       THEN body' = [click |-> x.click, dev |-> x.dev, value |-> x.value]
       ELSE UNCHANGED body
    /\ UNCHANGED <<head, subscribedTo, wire, subs, raised, monitor, device, history>>

(* The row of that name, whatever device the table shows. *)
OnMessage ==
    /\ down # <<>>
    /\ down' = Tail(down)
    /\ body' = IF body.dev = NoDevice THEN body
               ELSE [body EXCEPT !.value = Head(down)]
    /\ UNCHANGED <<head, subscribedTo, xhrs, ws, up, subs, raised, monitor, device, history>>

---------------------------------------------------------------------------
(* The server *)

(* do_GET: a PLC is asked, an HMI and a motor keep their values. *)
Shown(d) == IF d \in Motors THEN motorVars[d] ELSE value[d]

Serve(x) ==
    /\ x \in xhrs /\ x.status = "sent"
    /\ xhrs' = (xhrs \ {x}) \union
                 {[x EXCEPT !.status = "answered", !.value = Shown(x.dev)]}
    /\ UNCHANGED <<head, subscribedTo, body, wire, subs, raised, monitor, device, history>>

(* The PLC cannot be asked: 404, or no answer at all. *)
ServeFails(x) ==
    /\ x \in xhrs /\ x.status = "sent"
    /\ xhrs' = xhrs \ {x}
    /\ failed' = TRUE /\ clouded' = TRUE
    /\ UNCHANGED <<head, subscribedTo, body, wire, subs, raised, monitor, device,
                   clicks, changes, others, overlapped>>

ClientsOf(d) == IF d \in DOMAIN subs THEN subs[d] ELSE <<>>

(* handleMessage.  A device nobody has subscribed to yet is only reported;  *)
(* remove of a client that is not in the list raises, and the server closes *)
(* the connection.                                                          *)
Subscribed(c, d) ==
    /\ subs' = IF Contains(ClientsOf(d), c) THEN subs
               ELSE [e \in DOMAIN subs \union {d} |->
                       IF e = d THEN Append(ClientsOf(d), c) ELSE subs[e]]
    /\ UNCHANGED raised

Unsubscribed(c, D) ==
    LET K == D \intersect DOMAIN subs
    IN  IF \A d \in K : Contains(subs[d], c)
        THEN /\ subs' = [d \in DOMAIN subs |->
                           IF d \in K THEN RemoveFirst(subs[d], c) ELSE subs[d]]
             /\ UNCHANGED raised
        ELSE raised' = TRUE /\ UNCHANGED subs

HandleMessage ==
    /\ up # <<>>
    /\ up' = Tail(up)
    /\ LET m == Head(up)
       IN  IF m.kind = "subscribe" THEN \E d \in m.devs : Subscribed(Page, d)
           ELSE Unsubscribed(Page, m.devs)
    /\ ws' = IF raised' THEN "closed" ELSE ws
    /\ UNCHANGED <<page, down, monitor, device, history>>

(* The other client subscribes or unsubscribes. *)
OtherMessage(d) ==
    /\ others < MaxOther
    /\ others' = others + 1
    /\ IF Contains(ClientsOf(d), Other) THEN Unsubscribed(Other, {d})
       ELSE Subscribed(Other, d)
    /\ clouded' = (clouded \/ iter[d] # NotWalking)
    /\ UNCHANGED <<page, wire, monitor, device, clicks, changes, overlapped, failed>>

(* The connection is lost or the server closes it.  handleClose leaves the  *)
(* lists alone.                                                             *)
Disconnect ==
    /\ ws = "open"
    /\ ws' = "closed" /\ up' = <<>> /\ down' = <<>>
    /\ clouded' = TRUE
    /\ UNCHANGED <<page, subs, raised, monitor, device, clicks, changes, others,
                   overlapped, failed>>

(* VariableMonitoringThread.run and hmi_tag_callback: begin to walk the     *)
(* clients of d.                                                            *)
Receive(d) ==
    /\ news[d] # <<>> /\ iter[d] = NotWalking
    /\ news' = [news EXCEPT ![d] = Tail(@)]
    /\ iter' = IF d \in DOMAIN subs
               THEN [iter EXCEPT ![d] = [i |-> 1, value |-> Head(news[d])]]
               ELSE iter
    /\ UNCHANGED <<page, wire, subs, raised, device, history>>

(* One step of the for: the next index of the list as it is by now. *)
SendNext(d) ==
    /\ iter[d] # NotWalking
    /\ IF iter[d].i <= Len(subs[d])
       THEN /\ iter' = [iter EXCEPT ![d].i = @ + 1]
            /\ down' = IF subs[d][iter[d].i] = Page /\ ws = "open"
                       THEN Append(down, iter[d].value) ELSE down
       ELSE iter' = [iter EXCEPT ![d] = NotWalking] /\ UNCHANGED down
    /\ UNCHANGED <<page, ws, up, subs, raised, news, device, history>>

---------------------------------------------------------------------------
(* The devices *)

Change(d, v) ==
    /\ changes < MaxChanges /\ v # value[d]
    /\ changes' = changes + 1
    /\ value' = [value EXCEPT ![d] = v]
    /\ news' = [news EXCEPT ![d] = Append(@, v)]
    /\ late' = IF d \in Motors THEN [late EXCEPT ![d] = Append(@, v)] ELSE late
    /\ clouded' = (clouded \/ xhrs # {} \/ up # <<>>)
    /\ UNCHANGED <<page, wire, subs, raised, iter, motorVars, clicks, others,
                   overlapped, failed>>

(* twins.PlcMonitorThread *)
MotorStores(d) ==
    /\ late[d] # <<>>
    /\ motorVars' = [motorVars EXCEPT ![d] = Head(late[d])]
    /\ late' = [late EXCEPT ![d] = Tail(@)]
    /\ UNCHANGED <<page, wire, subs, raised, monitor, value, history>>

---------------------------------------------------------------------------
Request(x) == Serve(x) \/ ServeFails(x)
Browser == OnMessage \/ \E x \in xhrs : Loaded(x)
Device(d) == Receive(d) \/ SendNext(d) \/ MotorStores(d)

Next ==
    \/ \E d \in Devices : Click(d) \/ OtherMessage(d) \/ Device(d)
    \/ \E d \in Devices, v \in Values : Change(d, v)
    \/ \E x \in xhrs : Request(x)
    \/ Browser \/ HandleMessage \/ Disconnect

(* The browser's event loop, the two servers' threads and the monitoring    *)
(* threads are scheduled.                                                   *)
Fairness ==
    /\ WF_vars(Browser) /\ WF_vars(\E x \in xhrs : Request(x))
    /\ WF_vars(HandleMessage)
    /\ \A d \in Devices : WF_vars(Receive(d)) /\ WF_vars(SendNext(d))
                          /\ WF_vars(MotorStores(d))

Spec == Init /\ [][Next]_vars
FairSpec == Spec /\ Fairness

---------------------------------------------------------------------------
(* Properties *)

(* When all is quiet the table shows the device its header names, with the  *)
(* value the device has: changes before, between and after clicks, clients  *)
(* that come and go while a change is sent round, and motors that lag leave *)
(* nothing stale, unless something disturbed the last click itself.         *)
ShowsCurrent ==
    Idle /\ ~clouded /\ head # NoDevice =>
        body.dev = head /\ body.value = value[head]

(* When the server has handled what the page sent, it sends the page the    *)
(* changes of exactly the device the page wants, each once, and no message  *)
(* of the page has made the server raise and close the connection.          *)
ServedAgree ==
    /\ ~raised
    /\ ws = "open" /\ up = <<>> =>
         \A d \in Devices :
           Cardinality({i \in DOMAIN ClientsOf(d) : ClientsOf(d)[i] = Page})
             = (IF d \in subscribedTo THEN 1 ELSE 0)

(* The table never goes back to an earlier click: of answers that come in   *)
(* any order, one that is older than what is shown is dropped.              *)
NeverBack == [][body'.click >= body.click]_vars

(* When clicks and changes stop, the table comes to show the device of the  *)
(* last click with its value, unless something disturbed that click.        *)
Settles ==
    <>[](\/ head = NoDevice \/ clouded
         \/ body.dev = head /\ body.value = value[head])

(* "Replace old content of variables table with new one": once the answers  *)
(* are in, the table is that of the last click.                             *)
LastClickShown == xhrs = {} /\ ~failed => body.dev = head
============================================================================
