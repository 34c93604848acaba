------------------------------ MODULE EventBus ------------------------------
(***************************************************************************)
(* The event bus (services/events.py), its streams for browsers            *)
(* (routers/events.py) and the relay that passes events on to web sockets  *)
(* (routers/ws.py).  Everything runs in one event loop; a step goes from   *)
(* one await that may wait to the next.  An event is its place in log.     *)
(***************************************************************************)
EXTENDS Integers, Sequences, SequencesExt

CONSTANTS
    Streams,       \* browsers that open a stream of events
    Sockets,       \* browsers that open a web socket
    Admins,        \* those of the Sockets that are administrators'
    Relay,
    Capacity,      \* length of a queue (100 in the code)
    MaxEvents      \* bound: events

ASSUME EventBusAssumption ==
    /\ Admins \subseteq Sockets /\ Streams \cap Sockets = {} /\ Relay \notin Streams \cup Sockets
    /\ Capacity \in Nat \ {0} /\ MaxEvents \in Nat

VARIABLES
    log,         \* log[n]: "order" if event n is for administrators, else "shop"
    queue,       \* queue[q]: events that wait for q; only subscribed ones count
    reader,      \* reader[q]: where the reader of queue q is
    socket,      \* socket[s]: where the connection s is
    out,         \* the event the relay is sending, and the sockets left
    got,         \* observed only. got[c]: the events that came to c
    busPast      \* observed only; see BusObserved below

busVars == <<log, queue, reader, socket, out, got, busPast>>

Readers   == Streams \cup {Relay}
Receivers == Streams \cup Sockets
Quiet     == [n |-> 0, todo |-> {}]

(* since[q], from[s]: the last event when queue q was subscribed, when     *)
(* socket s connected; over[q]: the events published while q was full.     *)
BusObserved == [since |-> [q \in Readers |-> 0], over |-> [q \in Readers |-> {}],
                from  |-> [s \in Sockets |-> 0]]

BusInit ==
    /\ log = <<>>
    /\ queue = [q \in Readers |-> <<>>]
    /\ reader = [q \in Readers |-> "none"]
    /\ socket = [s \in Sockets |-> "closed"]
    /\ out = Quiet
    /\ got = [c \in Receivers |-> <<>>]
    /\ busPast = BusObserved

Subscribed(q) == reader[q] \in {"subscribed", "reading", "left"}

-----------------------------------------------------------------------------
(* EventBus.                                                               *)

(* Faulty variants of Put: the last place of a queue is never used; the    *)
(* queue is a stack.                                                       *)
PutBelow(q, n) == IF Len(q) + 1 < Capacity THEN Append(q, n) ELSE q
PutFirst(q, n) == IF Len(q) < Capacity THEN <<n>> \o q ELSE q

(* put_nowait: a full queue drops the event.                               *)
Put(q, n) == IF Len(q) < Capacity THEN Append(q, n) ELSE q

Publish(audience) ==
    LET n == Len(log) + 1 IN
    /\ n <= MaxEvents
    /\ log' = Append(log, audience)
    /\ queue' = [q \in Readers |-> IF Subscribed(q) THEN Put(queue[q], n) ELSE queue[q]]
    /\ busPast' = [busPast EXCEPT !.over = [q \in Readers |->
          IF Subscribed(q) /\ Len(queue[q]) >= Capacity THEN @[q] \cup {n} ELSE @[q]]]
    /\ UNCHANGED <<reader, socket, out, got>>

Subscribe(q, state) ==
    /\ queue' = [queue EXCEPT ![q] = <<>>]
    /\ reader' = [reader EXCEPT ![q] = state]
    /\ busPast' = [busPast EXCEPT !.since[q] = Len(log), !.over[q] = {}]
    /\ UNCHANGED <<log, socket, out, got>>

Dequeue(q) ==
    /\ reader[q] = "reading" /\ queue[q] # <<>>
    /\ queue' = [queue EXCEPT ![q] = Tail(@)]

-----------------------------------------------------------------------------
(* Streams.  The queue is subscribed before the answer starts; a browser   *)
(* that leaves before it does leaves the queue behind for good.            *)
OpenStream(c)  == reader[c] = "none" /\ Subscribe(c, "subscribed")

StartStream(c) ==
    /\ reader[c] = "subscribed"
    /\ reader' = [reader EXCEPT ![c] = "reading"]
    /\ UNCHANGED <<log, queue, socket, out, got, busPast>>

Yield(c) ==
    /\ Dequeue(c)
    /\ got' = [got EXCEPT ![c] = Append(@, Head(queue[c]))]
    /\ UNCHANGED <<log, reader, socket, out, busPast>>

CloseStream(c) ==
    /\ reader[c] \in {"subscribed", "reading"}
    /\ reader' = [reader EXCEPT ![c] = IF @ = "reading" THEN "none" ELSE "left"]
    /\ UNCHANGED <<log, queue, socket, out, got, busPast>>

-----------------------------------------------------------------------------
(* Web sockets.  "lost": closed by the browser, and not yet noticed.       *)

(* ensure_relay_started, and accept.  What the relay is sending goes to    *)
(* the connection s had before.                                            *)
Connect(s) ==
    /\ socket[s] = "closed"
    /\ socket' = [socket EXCEPT ![s] = "open"]
    /\ reader' = [reader EXCEPT ![Relay] = IF @ = "none" THEN "starting" ELSE @]
    /\ out' = [out EXCEPT !.todo = @ \ {s}]
    /\ busPast' = [busPast EXCEPT !.from[s] = Len(log)]
    /\ UNCHANGED <<log, queue, got>>

Lose(s) ==
    /\ socket[s] = "open"
    /\ socket' = [socket EXCEPT ![s] = "lost"]
    /\ UNCHANGED <<log, queue, reader, out, got, busPast>>

Disconnect(s) ==
    /\ socket[s] = "lost"
    /\ socket' = [socket EXCEPT ![s] = "closed"]
    /\ UNCHANGED <<log, queue, reader, out, got, busPast>>

StartRelay == reader[Relay] = "starting" /\ Subscribe(Relay, "reading")

(* broadcast_admin for orders, broadcast_all for the rest, to the sockets  *)
(* there are now.                                                          *)
Audience(n) == IF log[n] = "order" THEN Admins ELSE Sockets

TakeEvent ==
    LET n == Head(queue[Relay]) IN
    /\ Dequeue(Relay) /\ out = Quiet
    /\ out' = [n |-> n, todo |-> {s \in Audience(n) : socket[s] \in {"open", "lost"}}]
    /\ UNCHANGED <<log, reader, socket, got, busPast>>

Sent(s) == [out EXCEPT !.todo = @ \ {s}]

(* One socket after the other; a send that fails closes the socket.        *)
SendText(s) ==
    /\ s \in out.todo
    /\ out' = IF Sent(s).todo = {} THEN Quiet ELSE Sent(s)
    /\ IF socket[s] = "open"
       THEN got' = [got EXCEPT ![s] = Append(@, out.n)] /\ UNCHANGED socket
       ELSE socket' = [socket EXCEPT ![s] = IF @ = "lost" THEN "closed" ELSE @] /\ UNCHANGED got
    /\ UNCHANGED <<log, queue, reader, busPast>>

NobodyThere ==
    /\ out.n # 0 /\ out.todo = {} /\ out' = Quiet
    /\ UNCHANGED <<log, queue, reader, socket, got, busPast>>

-----------------------------------------------------------------------------
(* What a restart of the process leaves: nothing.                          *)
BusRestart ==
    /\ queue' = [q \in Readers |-> <<>>]
    /\ reader' = [q \in Readers |-> "none"]
    /\ socket' = [s \in Sockets |-> "closed"]
    /\ out' = Quiet
    /\ UNCHANGED <<log, got, busPast>>

BusNext ==
    \/ \E audience \in {"order", "shop"} : Publish(audience)
    \/ \E c \in Streams : OpenStream(c) \/ StartStream(c) \/ Yield(c) \/ CloseStream(c)
    \/ \E s \in Sockets : Connect(s) \/ Lose(s) \/ Disconnect(s) \/ SendText(s)
    \/ StartRelay \/ TakeEvent \/ NobodyThere

-----------------------------------------------------------------------------
(* Properties.                                                             *)

(* Streams and sockets receive events in the order of publication and none *)
(* twice, whatever is dropped, reconnected or restarted.                   *)
Abstract == INSTANCE Feed WITH published <- Len(log)
ImplementsFeed == Abstract!Spec

(* A subscriber misses only what was published while its queue was full    *)
(* (services/events.py:38-42).  Of the events since it subscribed each     *)
(* came to the stream or waits for it; of those since both the socket and  *)
(* the relay were there each came to the socket, waits for the relay or is *)
(* being sent.                                                             *)
Came(c, n)      == Contains(got[c], n)
Waits(q, n)     == Contains(queue[q], n)
BeingSent(s, n) == out.n = n /\ s \in out.todo

StreamTold(c) ==
    reader[c] \in {"subscribed", "reading"} =>
        \A n \in 1..Len(log) :
            n > busPast.since[c] => Came(c, n) \/ Waits(c, n) \/ n \in busPast.over[c]

SocketTold(s) ==
    socket[s] = "open" /\ reader[Relay] = "reading" =>
        \A n \in 1..Len(log) :
            n > busPast.since[Relay] /\ n > busPast.from[s] /\ s \in Audience(n) =>
                Came(s, n) \/ Waits(Relay, n) \/ BeingSent(s, n) \/ n \in busPast.over[Relay]

OnlyOverflowMissed == (\A c \in Streams : StreamTold(c)) /\ (\A s \in Sockets : SocketTold(s))
=============================================================================
