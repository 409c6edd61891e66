------------------------------ MODULE EventBus ------------------------------
(***************************************************************************)
(* The event bus (hub/hub.go) and the WebSocket clients that listen to it  *)
(* (api/ws.go).  A client has a subscription per event type, each with a   *)
(* buffer of its own and a goroutine that moves events on to one channel   *)
(* the client is written from.  Nobody waits: what finds a buffer full is  *)
(* dropped.                                                                *)
(*                                                                         *)
(* An event is its type, its number among the events of that type, in the  *)
(* order in which their publication began, and the numbers of those that   *)
(* were being published then: publications share the lock of the bus, and  *)
(* those that overlap reach each subscriber in an order of its own.  A     *)
(* subscription is named by the clock, by which two of them may get the    *)
(* same name.  A forwarder that has taken an event puts it on at once; the *)
(* event it may hold in between is a place more in its buffer.             *)
(***************************************************************************)
EXTENDS Integers, FiniteSets, Sequences, SequencesExt

CONSTANTS
    Clients,      \* WebSocket clients
    EventTypes,   \* the types of events
    WsEventTypes, \* wsEventTypes: those a client subscribes to, in that order
    BufferSize,   \* 256, the buffer of a subscription
    ChanSize,     \* 256, the buffer of a client
    Clock         \* readings of the clock

ASSUME EventBusAssumption ==
    /\ IsFiniteSet(Clients) /\ IsFiniteSet(EventTypes)
    /\ WsEventTypes \in Seq(EventTypes) /\ IsInjective(WsEventTypes)
    /\ BufferSize \in Nat \ {0} /\ ChanSize \in Nat \ {0} /\ Clock \subseteq Nat

VARIABLES
    published,   \* number of publications begun so far, of each type
    publishing,  \* publications that hold the lock: who, the event, the place to send to next
    subscribers, \* the map of that name: of each type, subscriptions [client, id]
    ch,          \* the buffer of each client's subscription to each type
    quit,        \* the types for which a client's Quit channel is closed
    forwarders,  \* the types for which a client's goroutine runs
    eventCh,     \* the channel of that name, of each client
    pump,        \* each client: what its goroutines are at, its subscriptions' ids, ...
    delivered,   \* the events a client was sent
    distinct     \* rigid: the clock never shows the same twice

bus == <<subscribers, ch, quit, forwarders, eventCh, pump, delivered, distinct>>
busVars == <<published, publishing, bus>>

\* peer: the client is there; reading: readPump runs (its end closes done)
NoPump == [pc |-> "none", ids |-> <<>>, peer |-> FALSE, reading |-> FALSE]

BusInit ==
    /\ published = [t \in EventTypes |-> 0] /\ publishing = {}
    /\ subscribers = [t \in EventTypes |-> <<>>]
    /\ ch = [c \in Clients |-> [t \in EventTypes |-> <<>>]]
    /\ quit = [c \in Clients |-> {}]
    /\ forwarders = [c \in Clients |-> {}]
    /\ eventCh = [c \in Clients |-> <<>>]
    /\ pump = [c \in Clients |-> NoPump]
    /\ delivered = [c \in Clients |-> <<>>]
    /\ distinct \in BOOLEAN

-----------------------------------------------------------------------------
(* The bus                                                                 *)

Subscribed(c, t) == \E i \in DOMAIN subscribers[t] : subscribers[t][i].client = c

\* Publish, called by someone: it takes the lock, together with whoever else publishes, and with
\* nobody on the list it returns
Publish(t, by) ==
    LET event == [type |-> t, n |-> published[t] + 1,
                  during |-> {p.event.n : p \in {q \in publishing : q.event.type = t}}] IN
    /\ published' = [published EXCEPT ![t] = @ + 1]
    /\ publishing' = IF subscribers[t] = <<>> THEN publishing
                     ELSE publishing \cup {[by |-> by, event |-> event, next |-> 1]}
    /\ UNCHANGED bus

\* The event goes to the next subscription if it has room, and is lost to it otherwise.  After
\* the last one the lock is released
Send(p) ==
    LET t == p.event.type
        c == subscribers[t][p.next].client IN
    /\ p \in publishing
    /\ ch' = IF Len(ch[c][t]) < BufferSize THEN [ch EXCEPT ![c][t] = Append(@, p.event)] ELSE ch
    /\ publishing' = (publishing \ {p}) \cup
                     IF p.next = Len(subscribers[t]) THEN {}
                     ELSE {[by |-> p.by, event |-> p.event, next |-> p.next + 1]}
    /\ UNCHANGED <<published, subscribers, quit, forwarders, eventCh, pump, delivered, distinct>>

\* Publish has returned to its caller
Returned(by) == \A p \in publishing : p.by # by

\* Subscribe: the next of the client's subscriptions, while nobody publishes
Subscribe(c) ==
    LET k == Len(pump[c].ids) + 1
        t == WsEventTypes[k] IN
    /\ pump[c].pc = "subscribe" /\ k \in DOMAIN WsEventTypes /\ publishing = {}
    /\ \E id \in Clock :
          /\ distinct => \A i \in DOMAIN subscribers[t] : subscribers[t][i].id # id
          /\ subscribers' = [subscribers EXCEPT ![t] = Append(@, [client |-> c, id |-> id])]
          /\ pump' = [pump EXCEPT ![c].ids = Append(@, id)]
    /\ UNCHANGED <<published, publishing, ch, quit, forwarders, eventCh, delivered, distinct>>

\* Positions of the subscriptions of that name
Named(t, id) == {i \in DOMAIN subscribers[t] : subscribers[t][i].id = id}

\* Fault: the name is not looked at, the oldest subscription ends
FaultyFound(t, id) == IF Named(t, id) = {} THEN 0 ELSE 1

\* The first of them, 0 if there is none
Found(t, id) ==
    IF Named(t, id) = {} THEN 0 ELSE CHOOSE i \in Named(t, id) : \A j \in Named(t, id) : i <= j

\* Unsubscribe: the first subscription of that name ends, while nobody publishes, and its Quit
\* channel is closed.  writePump ends with one for each of its subscriptions
Unsubscribe(c) ==
    LET t == WsEventTypes[Len(WsEventTypes) - Len(pump[c].ids) + 1]
        i == Found(t, Head(pump[c].ids)) IN
    /\ pump[c].pc = "unsubscribe" /\ pump[c].ids # <<>> /\ publishing = {}
    /\ pump' = [pump EXCEPT ![c].ids = Tail(@)]
    /\ IF i = 0 THEN UNCHANGED <<quit, subscribers>>
       ELSE /\ quit' = [quit EXCEPT ![subscribers[t][i].client] = @ \cup {t}]
            /\ subscribers' = [subscribers EXCEPT ![t] = RemoveAt(@, i)]
    /\ UNCHANGED <<published, publishing, ch, forwarders, eventCh, delivered, distinct>>

-----------------------------------------------------------------------------
(* A client                                                                *)

\* A client connects: handleWebSocket ...
Upgrade(c) ==
    /\ pump[c].pc = "none"
    /\ pump' = [pump EXCEPT ![c].pc = "subscribe", ![c].peer = TRUE]
    /\ UNCHANGED <<published, publishing, subscribers, ch, quit, forwarders, eventCh, delivered,
                   distinct>>

\* ... which ends by starting the goroutines
StartPumps(c) ==
    /\ pump[c].pc = "subscribe" /\ Len(pump[c].ids) = Len(WsEventTypes)
    /\ forwarders' = [forwarders EXCEPT ![c] = ToSet(WsEventTypes)]
    /\ pump' = [pump EXCEPT ![c].pc = "welcome", ![c].reading = TRUE]
    /\ UNCHANGED <<published, publishing, subscribers, ch, quit, eventCh, delivered, distinct>>

\* The client goes away
PeerGone(c) ==
    /\ pump[c].peer
    /\ pump' = [pump EXCEPT ![c].peer = FALSE]
    /\ UNCHANGED <<published, publishing, subscribers, ch, quit, forwarders, eventCh, delivered,
                   distinct>>

\* Fault: an event that finds the channel full goes back to the buffer
FaultyForward(c, t) ==
    /\ t \in forwarders[c] /\ ch[c][t] # <<>>
    /\ IF Len(eventCh[c]) < ChanSize
       THEN /\ eventCh' = [eventCh EXCEPT ![c] = Append(@, Head(ch[c][t]))]
            /\ ch' = [ch EXCEPT ![c][t] = Tail(@)]
       ELSE /\ ch' = [ch EXCEPT ![c][t] = Append(Tail(@), Head(@))]
            /\ UNCHANGED eventCh
    /\ UNCHANGED <<published, publishing, subscribers, quit, forwarders, pump, delivered, distinct>>

\* A forwarder moves an event on, and drops it if the channel is full
Forward(c, t) ==
    /\ t \in forwarders[c] /\ ch[c][t] # <<>>
    /\ ch' = [ch EXCEPT ![c][t] = Tail(@)]
    /\ eventCh' = [eventCh EXCEPT ![c] = IF Len(@) < ChanSize THEN Append(@, Head(ch[c][t]))
                                         ELSE @]
    /\ UNCHANGED <<published, publishing, subscribers, quit, forwarders, pump, delivered, distinct>>

\* It ends when its subscription has ended; if there are events too it may take those first
ForwarderEnds(c, t) ==
    /\ t \in forwarders[c] /\ t \in quit[c]
    /\ forwarders' = [forwarders EXCEPT ![c] = @ \ {t}]
    /\ UNCHANGED <<published, publishing, subscribers, ch, quit, eventCh, pump, delivered,
                   distinct>>

\* readPump: a client that says nothing for a minute, or is gone, or whose connection was
\* closed here, ends it
ReadPump(c) ==
    /\ pump[c].reading /\ (~pump[c].peer \/ pump[c].pc = "gone")
    /\ pump' = [pump EXCEPT ![c].reading = FALSE]
    /\ UNCHANGED <<published, publishing, subscribers, ch, quit, forwarders, eventCh, delivered,
                   distinct>>

\* writePump: the welcome.  A write may succeed although the client is gone
Welcome(c) ==
    /\ pump[c].pc = "welcome"
    /\ \E next \in IF pump[c].peer THEN {"loop"} ELSE {"loop", "unsubscribe"} :
          pump' = [pump EXCEPT ![c].pc = next]
    /\ UNCHANGED <<published, publishing, subscribers, ch, quit, forwarders, eventCh, delivered,
                   distinct>>

\* An event is written, or the write fails
Deliver(c) ==
    /\ pump[c].pc = "loop" /\ eventCh[c] # <<>>
    /\ eventCh' = [eventCh EXCEPT ![c] = Tail(@)]
    /\ \/ /\ delivered' = [delivered EXCEPT ![c] = IF pump[c].peer THEN Append(@, Head(eventCh[c]))
                                                   ELSE @]
          /\ UNCHANGED pump
       \/ /\ ~pump[c].peer
          /\ pump' = [pump EXCEPT ![c].pc = "unsubscribe"]
          /\ UNCHANGED delivered
    /\ UNCHANGED <<published, publishing, subscribers, ch, quit, forwarders, distinct>>

\* A ping fails
Ping(c) ==
    /\ pump[c].pc = "loop" /\ ~pump[c].peer
    /\ pump' = [pump EXCEPT ![c].pc = "unsubscribe"]
    /\ UNCHANGED <<published, publishing, subscribers, ch, quit, forwarders, eventCh, delivered,
                   distinct>>

\* Fault: done is looked at when there is an event, and not before
FaultyDone(c) ==
    /\ pump[c].pc = "loop" /\ ~pump[c].reading /\ eventCh[c] # <<>>
    /\ pump' = [pump EXCEPT ![c].pc = "unsubscribe"]
    /\ UNCHANGED <<published, publishing, subscribers, ch, quit, forwarders, eventCh, delivered,
                   distinct>>

\* done: the reader has ended
Done(c) ==
    /\ pump[c].pc = "loop" /\ ~pump[c].reading
    /\ pump' = [pump EXCEPT ![c].pc = "unsubscribe"]
    /\ UNCHANGED <<published, publishing, subscribers, ch, quit, forwarders, eventCh, delivered,
                   distinct>>

\* writePump closes the connection and returns
CloseConn(c) ==
    /\ pump[c].pc = "unsubscribe" /\ pump[c].ids = <<>>
    /\ pump' = [pump EXCEPT ![c].pc = "gone"]
    /\ UNCHANGED <<published, publishing, subscribers, ch, quit, forwarders, eventCh, delivered,
                   distinct>>

Serving(c) == Subscribe(c) \/ StartPumps(c)
Writing(c) == Welcome(c) \/ Deliver(c) \/ Done(c) \/ Unsubscribe(c) \/ CloseConn(c)

ClientNext(c) ==
    \/ Upgrade(c) \/ PeerGone(c) \/ Serving(c) \/ ReadPump(c) \/ Writing(c) \/ Ping(c)
    \/ \E t \in EventTypes : Forward(c, t) \/ ForwarderEnds(c, t)

\* The goroutines of a client go on.  (No ping is relied on: the reader notices as well)
ClientFairness(c) ==
    /\ WF_busVars(Serving(c)) /\ WF_busVars(ReadPump(c)) /\ WF_busVars(Writing(c))
    /\ \A t \in EventTypes : WF_busVars(Forward(c, t)) /\ WF_busVars(ForwarderEnds(c, t))

\* Sending to a subscription waits for nobody
BusFairness == WF_busVars(\E p \in publishing : Send(p)) /\ \A c \in Clients : ClientFairness(c)

-----------------------------------------------------------------------------
(* Properties                                                              *)

Event == [type : EventTypes, n : Nat \ {0}, during : SUBSET Nat]

\* Types of the bus and its clients
BusTypeOK ==
    /\ \A t \in EventTypes : published[t] \in Nat
    /\ \A t \in EventTypes : \A i \in DOMAIN subscribers[t] :
          subscribers[t][i] \in [client : Clients, id : Clock]
    /\ \A p \in publishing : p.event \in Event /\ p.next \in DOMAIN subscribers[p.event.type]
    /\ \A c \in Clients :
          /\ quit[c] \subseteq EventTypes /\ forwarders[c] \subseteq EventTypes
          /\ \A t \in EventTypes : Len(ch[c][t]) <= BufferSize /\ ToSet(ch[c][t]) \subseteq Event
          /\ Len(eventCh[c]) <= ChanSize /\ ToSet(eventCh[c]) \subseteq Event
          /\ pump[c].pc \in {"none", "subscribe", "welcome", "loop", "unsubscribe", "gone"}
          /\ pump[c].peer \in BOOLEAN /\ pump[c].reading \in BOOLEAN

\* d may reach a client before e: they are not the same event, and d's publication began first or
\* while that of e was under way
MayPrecede(d, e) == d.n # e.n /\ (d.n < e.n \/ e.n \in d.during)

\* A client may miss events, but none of a type reaches it after one that was published later,
\* unless their publications overlapped, and none of them twice: through both of the buffers
InOrder ==
    \A c \in Clients : \A i, j \in DOMAIN delivered[c] :
        i < j /\ delivered[c][i].type = delivered[c][j].type
           => MayPrecede(delivered[c][i], delivered[c][j])

\* As long as its goroutines run a client is subscribed to every type and its forwarders run,
\* whoever else leaves meanwhile.  It needs distinct names, which the clock has to provide
StaysSubscribed ==
    distinct => \A c \in Clients :
        pump[c].pc \in {"welcome", "loop"}
           => \A t \in ToSet(WsEventTypes) : Subscribed(c, t) /\ t \in forwarders[c]

\* A client that has gone leaves nothing behind: no subscription the bus goes on filling, and
\* no goroutine
ClientsCleanedUp ==
    \A c \in Clients :
        (distinct /\ pump[c].pc # "none" /\ ~pump[c].peer)
           ~> (pump[c].pc = "gone" /\ forwarders[c] = {} /\ ~pump[c].reading
               /\ \A t \in EventTypes : ~Subscribed(c, t))
=============================================================================
