--------------------------- MODULE Process_proofs ---------------------------
(***************************************************************************)
(* Proofs about what runs in the server process beside the HTTP calls, for *)
(* any browsers, queues, subscribers, callers, batches, tabs, desks,       *)
(* orders, carrier events and periods.  Of Process: the event bus          *)
(* implements Feed and loses only what a full queue cannot hold, a         *)
(* campaign mails nobody twice and counts what it mails, and a tab of the  *)
(* chat misses no message within its history's limit.  Of Tracking: what a *)
(* stored status, a committed poll and an acknowledged webhook rest on;    *)
(* its invariant follows every session through apply_event and its         *)
(* rollback.  Of Scheduler: it does only what Tracking allows, so those    *)
(* theorems hold of it; and its counters give the alert and the backup     *)
(* their turns, whatever the poll does.                                    *)
(***************************************************************************)
EXTENDS Process, Scheduler, TLAPS, SequenceTheorems, FiniteSetTheorems

-----------------------------------------------------------------------------
(* The event bus.                                                          *)

BusType ==
    /\ log \in Seq({"order", "shop"})
    /\ queue \in [Readers -> Seq(Nat)]
    /\ reader \in [Readers -> {"none", "starting", "subscribed", "reading", "left"}]
    /\ socket \in [Sockets -> {"closed", "open", "lost"}]
    /\ out \in [n : Nat, todo : SUBSET Sockets]
    /\ got \in [Receivers -> Seq(Nat)]

(* What waits for a reader is in the order of publication; n events have   *)
(* been published.                                                         *)
Rising(q, n) ==
    /\ \A i \in 1..Len(q) : q[i] \in 1..n
    /\ \A i, j \in 1..Len(q) : i < j => q[i] < q[j]

(* What came to a receiver was published before what still waits.          *)
Behind(g, q, n) ==
    /\ \A i \in 1..Len(g) : g[i] <= n
    /\ \A i \in 1..Len(g), j \in 1..Len(q) : g[i] < q[j]

(* The event the relay has in hand is older than those it has not taken,   *)
(* and no socket has got a later one, nor this one if it is still to do.   *)
InHand ==
    /\ out.n \in 0..Len(log)
    /\ \A j \in 1..Len(queue[Relay]) : out.n < queue[Relay][j]
    /\ out.n = 0 => out.todo = {}
    /\ out.n # 0 => \A s \in Sockets : \A i \in 1..Len(got[s]) :
                        got[s][i] <= out.n /\ (s \in out.todo => got[s][i] < out.n)

QueuesRise    == \A q \in Readers : Rising(queue[q], Len(log))
StreamsBehind == \A c \in Streams : Behind(got[c], queue[c], Len(log))
SocketsBehind == \A s \in Sockets : Behind(got[s], queue[Relay], Len(log))

BusInv == BusType /\ QueuesRise /\ StreamsBehind /\ SocketsBehind /\ InHand

-----------------------------------------------------------------------------
(* Queues.  An event that is published goes behind all that wait, or is    *)
(* dropped: put_nowait.                                                    *)
LEMMA PutKeeps ==
    ASSUME NEW q \in Seq(Nat), NEW n \in Nat, Rising(q, n)
    PROVE  /\ Put(q, n + 1) \in Seq(Nat) /\ Rising(Put(q, n + 1), n + 1)
           /\ \A j \in 1..Len(Put(q, n + 1)) : (j \in 1..Len(q) /\ Put(q, n + 1)[j] = q[j]) \/ Put(q, n + 1)[j] = n + 1
  <1> DEFINE r == Append(q, n + 1)
  <1>1. /\ r \in Seq(Nat) /\ Len(r) = Len(q) + 1 /\ Len(q) \in Nat
        /\ \A j \in 1..Len(q) : r[j] = q[j]
        /\ r[Len(q) + 1] = n + 1
    OBVIOUS
  <1>2. \A j \in 1..Len(q) + 1 : j \in 1..Len(q) \/ j = Len(q) + 1
    BY <1>1
  <1> HIDE DEF r
  <1>3. Rising(r, n + 1)
    <2>1. ASSUME NEW j \in 1..Len(q) + 1 PROVE r[j] \in 1..n + 1
      <3>1. CASE j = Len(q) + 1
        BY <1>1, <3>1
      <3>2. CASE j \in 1..Len(q)
        <4>1. r[j] = q[j] /\ q[j] \in 1..n
          BY <1>1, <3>2 DEF Rising
        <4> QED
          BY <4>1
      <3> QED
        BY <1>2, <3>1, <3>2
    <2>2. ASSUME NEW i \in 1..Len(q) + 1, NEW j \in 1..Len(q) + 1, i < j PROVE r[i] < r[j]
      <3>1. i \in 1..Len(q) /\ r[i] = q[i] /\ q[i] \in 1..n
        BY <1>1, <1>2, <2>2 DEF Rising
      <3>2. CASE j = Len(q) + 1
        BY <1>1, <3>1, <3>2
      <3>3. CASE j \in 1..Len(q)
        BY <1>1, <2>2, <3>1, <3>3 DEF Rising
      <3> QED
        BY <1>2, <3>2, <3>3
    <2> QED
      BY <1>1, <2>1, <2>2 DEF Rising
  <1>4. Rising(q, n + 1)
    BY DEF Rising
  <1> QED
    BY <1>1, <1>2, <1>3, <1>4 DEF Put, r

(* Every receiver is behind the longer queue too.                          *)
LEMMA PutBehind ==
    ASSUME NEW q \in Seq(Nat), NEW g \in Seq(Nat), NEW n \in Nat, Rising(q, n), Behind(g, q, n)
    PROVE  Behind(g, Put(q, n + 1), n + 1) /\ Behind(g, q, n + 1)
  <1>1. \A i \in 1..Len(g) : g[i] \in Nat /\ g[i] <= n
    BY ElementOfSeq DEF Behind
  <1>2. \A i \in 1..Len(g) : g[i] <= n + 1 /\ g[i] < n + 1
    BY <1>1
  <1>3. ASSUME NEW i \in 1..Len(g), NEW j \in 1..Len(Put(q, n + 1)) PROVE g[i] < Put(q, n + 1)[j]
    BY <1>2, PutKeeps DEF Behind
  <1> QED
    BY <1>2, <1>3 DEF Behind

(* The first of a queue is older than the rest of it.                      *)
LEMMA HeadFirst ==
    ASSUME NEW q \in Seq(Nat), NEW n \in Nat, q # <<>>, Rising(q, n)
    PROVE  /\ Head(q) \in 1..n
           /\ Tail(q) \in Seq(Nat) /\ Rising(Tail(q), n)
           /\ \A j \in 1..Len(Tail(q)) : Head(q) < Tail(q)[j]
  <1>1. /\ Head(q) = q[1] /\ Len(q) \in Nat \ {0}
        /\ Tail(q) \in Seq(Nat) /\ Len(Tail(q)) = Len(q) - 1
        /\ \A i \in 1..Len(Tail(q)) : Tail(q)[i] = q[i + 1]
    BY HeadTailProperties
  <1>2. 1 \in 1..Len(q) /\ \A i \in 1..Len(Tail(q)) : i + 1 \in 1..Len(q)
    BY <1>1
  <1> QED
    BY <1>1, <1>2 DEF Rising

(* A receiver behind a queue is behind the first of it, and the rest.      *)
LEMMA HeadNews ==
    ASSUME NEW q \in Seq(Nat), NEW g \in Seq(Nat), NEW n \in Nat, q # <<>>, Behind(g, q, n)
    PROVE  Behind(g, Tail(q), n) /\ \A i \in 1..Len(g) : g[i] < Head(q)
  <1>1. /\ Head(q) = q[1] /\ Len(q) \in Nat \ {0}
        /\ Len(Tail(q)) = Len(q) - 1
        /\ \A i \in 1..Len(Tail(q)) : Tail(q)[i] = q[i + 1]
    BY HeadTailProperties
  <1>2. 1 \in 1..Len(q) /\ \A i \in 1..Len(Tail(q)) : i + 1 \in 1..Len(q)
    BY <1>1
  <1> QED
    BY <1>1, <1>2 DEF Behind

(* A receiver that gets a newer event than all it has got stays in order   *)
(* with every queue the event is older than.                               *)
LEMMA GotBehind ==
    ASSUME NEW q \in Seq(Nat), NEW g \in Seq(Nat), NEW n \in Nat, NEW e \in 1..n,
           Behind(g, q, n), \A j \in 1..Len(q) : e < q[j]
    PROVE  /\ Append(g, e) \in Seq(Nat) /\ Behind(Append(g, e), q, n)
           /\ \A i \in 1..Len(Append(g, e)) : (i \in 1..Len(g) /\ Append(g, e)[i] = g[i]) \/ Append(g, e)[i] = e
  <1> DEFINE r == Append(g, e)
  <1>1. /\ r \in Seq(Nat) /\ Len(r) = Len(g) + 1 /\ Len(g) \in Nat
        /\ \A j \in 1..Len(g) : r[j] = g[j]
        /\ r[Len(g) + 1] = e
    OBVIOUS
  <1>2. \A j \in 1..Len(g) + 1 : j \in 1..Len(g) \/ j = Len(g) + 1
    BY <1>1
  <1> HIDE DEF r
  <1>3. \A i \in 1..Len(r) : (i \in 1..Len(g) /\ r[i] = g[i]) \/ r[i] = e
    BY <1>1, <1>2
  <1>4. \A i \in 1..Len(r) : r[i] <= n
    BY <1>3 DEF Behind
  <1>5. \A i \in 1..Len(r), j \in 1..Len(q) : r[i] < q[j]
    BY <1>3 DEF Behind
  <1>6. Behind(r, q, n)
    BY <1>4, <1>5 DEF Behind
  <1> QED
    BY <1>1, <1>3, <1>6 DEF r

(* Nothing waits, so nothing is late.                                      *)
LEMMA NothingWaits ==
    ASSUME NEW n \in Nat
    PROVE  /\ <<>> \in Seq(Nat) /\ Rising(<<>>, n) /\ Len(<<>>) = 0
           /\ \A g, q : Behind(g, q, n) => Behind(g, <<>>, n)
           /\ Behind(<<>>, <<>>, n)
  <1>1. <<>> \in Seq(Nat) /\ Len(<<>>) = 0 /\ 1..0 = {}
    OBVIOUS
  <1> QED
    BY <1>1 DEF Rising, Behind

-----------------------------------------------------------------------------
(* The first state of the bus: nothing is published.                       *)
LEMMA BusInitInv == BusInit => BusInv
  <1> SUFFICES ASSUME BusInit PROVE BusInv
    OBVIOUS
  <1>1. /\ log = <<>> /\ queue = [q \in Readers |-> <<>>] /\ got = [c \in Receivers |-> <<>>]
        /\ reader = [q \in Readers |-> "none"] /\ socket = [s \in Sockets |-> "closed"]
        /\ out.n = 0 /\ out.todo = {} /\ out \in [n : Nat, todo : SUBSET Sockets]
    BY DEF BusInit, Quiet
  <1>2. Len(log) = 0 /\ log \in Seq({"order", "shop"})
    BY <1>1
  <1>3. BusType
    BY <1>1, <1>2, NothingWaits DEF BusType
  <1>4. QueuesRise
    BY <1>1, <1>2, NothingWaits DEF QueuesRise
  <1>5. StreamsBehind /\ SocketsBehind
    BY <1>1, <1>2, NothingWaits DEF StreamsBehind, SocketsBehind, Readers, Receivers
  <1>6. InHand
    BY <1>1, <1>2 DEF InHand, Readers
  <1> QED
    BY <1>3, <1>4, <1>5, <1>6 DEF BusInv

(* EventBus.publish: an event joins the queues that are subscribed.        *)
LEMMA PublishKeeps ==
    ASSUME BusInv, NEW audience \in {"order", "shop"}, Publish(audience) PROVE BusInv'
  <1> DEFINE n == Len(log)
  <1>1. /\ log' = Append(log, audience)
        /\ queue' = [q \in Readers |-> IF Subscribed(q) THEN Put(queue[q], n + 1) ELSE queue[q]]
        /\ reader' = reader /\ socket' = socket /\ out' = out /\ got' = got
    BY DEF Publish
  <1>2. n \in Nat /\ Len(log') = n + 1 /\ log' \in Seq({"order", "shop"})
    BY <1>1 DEF BusInv, BusType
  <1>3. \A q \in Readers : queue[q] \in Seq(Nat) /\ Rising(queue[q], n)
    BY DEF BusInv, BusType, QueuesRise
  <1>4. \A q \in Readers : queue'[q] = Put(queue[q], n + 1) \/ queue'[q] = queue[q]
    BY <1>1
  <1> HIDE DEF n
  <1>5. \A q \in Readers : Rising(queue[q], n + 1)
    BY <1>2, <1>3 DEF Rising
  <1>6. \A q \in Readers : queue'[q] \in Seq(Nat) /\ Rising(queue'[q], n + 1)
    BY <1>2, <1>3, <1>4, <1>5, PutKeeps
  <1>7. BusType'
    <2>1. queue' \in [Readers -> Seq(Nat)]
      BY <1>1, <1>6
    <2> QED
      BY <1>1, <1>2, <2>1 DEF BusInv, BusType
  <1>8. QueuesRise'
    BY <1>2, <1>6 DEF QueuesRise
  <1>9. StreamsBehind'
    <2> SUFFICES ASSUME NEW c \in Streams PROVE Behind(got[c], queue'[c], n + 1)
      BY <1>1, <1>2 DEF StreamsBehind
    <2>1. c \in Readers /\ c \in Receivers /\ Behind(got[c], queue[c], n)
      BY DEF BusInv, StreamsBehind, Readers, Receivers, n
    <2>2. got[c] \in Seq(Nat)
      BY <2>1 DEF BusInv, BusType
    <2> QED
      BY <1>2, <1>3, <1>4, <2>1, <2>2, PutBehind
  <1>10. SocketsBehind'
    <2> SUFFICES ASSUME NEW s \in Sockets PROVE Behind(got[s], queue'[Relay], n + 1)
      BY <1>1, <1>2 DEF SocketsBehind
    <2>1. Relay \in Readers /\ s \in Receivers /\ Behind(got[s], queue[Relay], n)
      BY DEF BusInv, SocketsBehind, Readers, Receivers, n
    <2>2. got[s] \in Seq(Nat)
      BY <2>1 DEF BusInv, BusType
    <2> QED
      BY <1>2, <1>3, <1>4, <2>1, <2>2, PutBehind
  <1>11. InHand'
    <2>1. out.n \in 0..n /\ Relay \in Readers
      BY DEF BusInv, InHand, Readers, n
    <2>2. \A j \in 1..Len(queue[Relay]) : out.n < queue[Relay][j]
      BY DEF BusInv, InHand
    <2>3. \A j \in 1..Len(queue'[Relay]) : out.n < queue'[Relay][j]
      <3>1. CASE queue'[Relay] = queue[Relay]
        BY <2>2, <3>1
      <3>2. CASE queue'[Relay] = Put(queue[Relay], n + 1)
        <4>1. out.n < n + 1
          BY <1>2, <2>1
        <4>2. queue[Relay] \in Seq(Nat) /\ Rising(queue[Relay], n)
          BY <1>3, <2>1
        <4>3. \A j \in 1..Len(Put(queue[Relay], n + 1)) :
                 \/ j \in 1..Len(queue[Relay]) /\ Put(queue[Relay], n + 1)[j] = queue[Relay][j]
                 \/ Put(queue[Relay], n + 1)[j] = n + 1
          BY <1>2, <4>2, PutKeeps
        <4> QED
          BY <2>2, <3>2, <4>1, <4>3
      <3> QED
        BY <1>4, <2>1, <3>1, <3>2
    <2>4. out.n \in 0..n + 1
      BY <1>2, <2>1
    <2> QED
      BY <1>1, <1>2, <2>3, <2>4 DEF BusInv, InHand
  <1> QED
    BY <1>7, <1>8, <1>9, <1>10, <1>11 DEF BusInv

(* EventBus.subscribe: the queue is new.                                   *)
LEMMA SubscribeKeeps ==
    ASSUME BusInv, NEW q \in Readers, NEW state \in {"subscribed", "reading"}, Subscribe(q, state)
    PROVE  BusInv'
  <1>1. /\ queue' = [queue EXCEPT ![q] = <<>>] /\ reader' = [reader EXCEPT ![q] = state]
        /\ log' = log /\ socket' = socket /\ out' = out /\ got' = got
    BY DEF Subscribe
  <1>2. queue \in [Readers -> Seq(Nat)] /\ Len(log) \in Nat
    BY DEF BusInv, BusType
  <1>3. \A r \in Readers : queue'[r] = <<>> \/ queue'[r] = queue[r]
    BY <1>1, <1>2
  <1>4. BusType'
    BY <1>1, NothingWaits DEF BusInv, BusType
  <1>5. QueuesRise'
    BY <1>1, <1>2, <1>3, NothingWaits DEF BusInv, QueuesRise
  <1>6. StreamsBehind' /\ SocketsBehind'
    <2>1. Relay \in Readers /\ Streams \subseteq Readers
      BY DEF Readers
    <2>2. ASSUME NEW c \in Streams PROVE Behind(got[c], queue'[c], Len(log))
      BY <1>2, <1>3, <2>1, NothingWaits DEF BusInv, StreamsBehind
    <2>3. ASSUME NEW s \in Sockets PROVE Behind(got[s], queue'[Relay], Len(log))
      BY <1>2, <1>3, <2>1, NothingWaits DEF BusInv, SocketsBehind
    <2> QED
      BY <1>1, <2>2, <2>3 DEF StreamsBehind, SocketsBehind
  <1>7. InHand'
    <2>1. Relay \in Readers
      BY DEF Readers
    <2>2. \A j \in 1..Len(queue'[Relay]) : out.n < queue'[Relay][j]
      <3>1. CASE queue'[Relay] = <<>>
        <4>1. Len(queue'[Relay]) = 0
          BY <3>1
        <4> QED
          BY <4>1
      <3>2. CASE queue'[Relay] = queue[Relay]
        BY <3>2 DEF BusInv, InHand
      <3> QED
        BY <1>3, <2>1, <3>1, <3>2
    <2> QED
      BY <1>1, <2>2 DEF BusInv, InHand
  <1> QED
    BY <1>4, <1>5, <1>6, <1>7 DEF BusInv

(* A browser that gets an event from its stream.                           *)
LEMMA YieldKeeps ==
    ASSUME BusInv, NEW c \in Streams, Yield(c)
    PROVE  BusInv' /\ Head(queue[c]) \in 1..Len(log) /\ \A i \in 1..Len(got[c]) : got[c][i] < Head(queue[c])
  <1> DEFINE n == Len(log)
             e == Head(queue[c])
  <1>1. /\ queue[c] # <<>>
        /\ queue' = [queue EXCEPT ![c] = Tail(queue[c])] /\ got' = [got EXCEPT ![c] = Append(got[c], e)]
        /\ log' = log /\ reader' = reader /\ socket' = socket /\ out' = out
    BY DEF Yield, Dequeue
  <1>2. /\ queue \in [Readers -> Seq(Nat)] /\ got \in [Receivers -> Seq(Nat)] /\ n \in Nat
        /\ c \in Readers /\ c \in Receivers /\ Relay \in Readers /\ c # Relay /\ c \notin Sockets
        /\ Sockets \subseteq Receivers
    BY EventBusAssumption DEF BusInv, BusType, Readers, Receivers
  <1>3. queue[c] \in Seq(Nat) /\ got[c] \in Seq(Nat) /\ Rising(queue[c], n) /\ Behind(got[c], queue[c], n)
    BY <1>2 DEF BusInv, QueuesRise, StreamsBehind
  <1> HIDE DEF n, e
  <1>4. /\ e \in 1..n /\ Tail(queue[c]) \in Seq(Nat) /\ Rising(Tail(queue[c]), n)
        /\ \A j \in 1..Len(Tail(queue[c])) : e < Tail(queue[c])[j]
    BY <1>1, <1>2, <1>3, HeadFirst DEF e
  <1>5. Behind(got[c], Tail(queue[c]), n) /\ \A i \in 1..Len(got[c]) : got[c][i] < e
    BY <1>1, <1>2, <1>3, HeadNews DEF e
  <1>6. Append(got[c], e) \in Seq(Nat) /\ Behind(Append(got[c], e), Tail(queue[c]), n)
    BY <1>2, <1>3, <1>4, <1>5, GotBehind
  <1>7. /\ \A q \in Readers \ {c} : queue'[q] = queue[q]
        /\ \A d \in Receivers \ {c} : got'[d] = got[d]
        /\ queue'[c] = Tail(queue[c]) /\ got'[c] = Append(got[c], e)
    BY <1>1, <1>2
  <1>8. BusType'
    BY <1>1, <1>2, <1>4, <1>6 DEF BusInv, BusType
  <1>9. QueuesRise'
    BY <1>1, <1>4, <1>7 DEF BusInv, QueuesRise, n
  <1>10. StreamsBehind'
    BY <1>1, <1>6, <1>7 DEF BusInv, StreamsBehind, Readers, Receivers, n
  <1>11. SocketsBehind' /\ InHand'
    BY <1>1, <1>2, <1>7 DEF BusInv, SocketsBehind, InHand
  <1> QED
    BY <1>4, <1>5, <1>8, <1>9, <1>10, <1>11 DEF BusInv, n, e

(* The relay takes an event: it is newer than what any socket has got.     *)
LEMMA TakeKeeps == ASSUME BusInv, TakeEvent PROVE BusInv'
  <1> DEFINE n == Len(log)
             e == Head(queue[Relay])
             r == Tail(queue[Relay])
  <1>1. /\ queue[Relay] # <<>> /\ queue' = [queue EXCEPT ![Relay] = r]
        /\ out'.n = e /\ out'.todo \subseteq Sockets /\ out' = [n |-> out'.n, todo |-> out'.todo]
        /\ log' = log /\ reader' = reader /\ socket' = socket /\ got' = got
    BY EventBusAssumption DEF TakeEvent, Dequeue, Audience
  <1>2. /\ queue \in [Readers -> Seq(Nat)] /\ got \in [Receivers -> Seq(Nat)] /\ n \in Nat
        /\ Relay \in Readers /\ Relay \notin Streams /\ Streams \subseteq Readers /\ Sockets \subseteq Receivers
    BY EventBusAssumption DEF BusInv, BusType, Readers, Receivers
  <1>3. queue[Relay] \in Seq(Nat) /\ Rising(queue[Relay], n)
    BY <1>2 DEF BusInv, QueuesRise
  <1>4. /\ e \in 1..n /\ r \in Seq(Nat) /\ Rising(r, n)
        /\ \A j \in 1..Len(r) : e < r[j]
    BY <1>1, <1>2, <1>3, HeadFirst
  <1>5. \A s \in Sockets : got[s] \in Seq(Nat) /\ Behind(got[s], queue[Relay], n)
    BY <1>2 DEF BusInv, SocketsBehind
  <1>6. \A s \in Sockets : Behind(got[s], r, n) /\ \A i \in 1..Len(got[s]) : got[s][i] < e
    BY <1>1, <1>2, <1>3, <1>5, HeadNews
  <1> HIDE DEF n, e, r
  <1>7. queue'[Relay] = r /\ \A q \in Readers \ {Relay} : queue'[q] = queue[q]
    BY <1>1, <1>2
  <1>8. BusType'
    BY <1>1, <1>2, <1>4 DEF BusInv, BusType
  <1>9. QueuesRise'
    BY <1>1, <1>4, <1>7 DEF BusInv, QueuesRise, n
  <1>10. StreamsBehind'
    BY <1>1, <1>2, <1>7 DEF BusInv, StreamsBehind
  <1>11. SocketsBehind'
    BY <1>1, <1>6, <1>7 DEF SocketsBehind, n
  <1>12. InHand'
    <2>1. \A s \in Sockets : \A i \in 1..Len(got[s]) : got[s][i] \in Nat
      BY <1>5, ElementOfSeq
    <2>2. \A s \in Sockets : \A i \in 1..Len(got[s]) : got[s][i] <= e /\ got[s][i] < e
      BY <1>4, <1>6, <2>1
    <2>3. out'.n \in 0..n /\ out'.n # 0
      BY <1>1, <1>2, <1>4
    <2> QED
      BY <1>1, <1>4, <1>7, <2>2, <2>3 DEF InHand, n
  <1> QED
    BY <1>8, <1>9, <1>10, <1>11, <1>12 DEF BusInv

(* The relay is done with an event, or gives it up.                        *)
LEMMA QuietKeeps ==
    ASSUME BusInv, out' = Quiet, UNCHANGED <<log, queue, got>>,
           reader' \in [Readers -> {"none", "starting", "subscribed", "reading", "left"}],
           socket' \in [Sockets -> {"closed", "open", "lost"}]
    PROVE  BusInv'
  <1>1. out'.n = 0 /\ out'.todo = {} /\ out' \in [n : Nat, todo : SUBSET Sockets]
    BY DEF Quiet
  <1>2. BusType'
    BY <1>1 DEF BusInv, BusType
  <1>3. QueuesRise' /\ StreamsBehind' /\ SocketsBehind'
    BY DEF BusInv, QueuesRise, StreamsBehind, SocketsBehind
  <1>4. Rising(queue[Relay], Len(log)) /\ Len(log) \in Nat
    BY DEF BusInv, BusType, QueuesRise, Readers
  <1>5. InHand'
    BY <1>1, <1>4 DEF InHand, Rising
  <1> QED
    BY <1>2, <1>3, <1>5 DEF BusInv

(* A send that fails closes the socket.                                    *)
LEMMA FailedSendKeeps ==
    ASSUME BusInv, NEW s \in Sockets, SendText(s), socket[s] # "open"
    PROVE  BusInv' /\ UNCHANGED <<log, got>>
  <1>1. /\ socket' = [socket EXCEPT ![s] = IF socket[s] = "lost" THEN "closed" ELSE socket[s]]
        /\ log' = log /\ queue' = queue /\ reader' = reader /\ got' = got
        /\ out' = Quiet \/ out' = Sent(s)
    BY DEF SendText
  <1>2. socket' \in [Sockets -> {"closed", "open", "lost"}] /\ reader' = reader
    BY <1>1 DEF BusInv, BusType
  <1>3. CASE out' = Quiet
    BY <1>1, <1>2, <1>3, QuietKeeps DEF BusInv, BusType
  <1>4. CASE out' = Sent(s)
    <2>1. out \in [n : Nat, todo : SUBSET Sockets]
      BY DEF BusInv, BusType
    <2>2. out'.n = out.n /\ out'.todo = out.todo \ {s} /\ out' \in [n : Nat, todo : SUBSET Sockets]
      BY <1>4, <2>1 DEF Sent
    <2>3. BusType'
      BY <1>1, <1>2, <2>2 DEF BusInv, BusType
    <2>4. QueuesRise' /\ StreamsBehind' /\ SocketsBehind'
      BY <1>1 DEF BusInv, QueuesRise, StreamsBehind, SocketsBehind
    <2>5. InHand'
      BY <1>1, <2>2 DEF BusInv, InHand
    <2> QED
      BY <1>1, <2>3, <2>4, <2>5 DEF BusInv
  <1> QED
    BY <1>1, <1>3, <1>4

(* A socket gets the event in hand: it is newer than all it has got.       *)
LEMMA SendKeeps ==
    ASSUME BusInv, NEW s \in Sockets, SendText(s), socket[s] = "open"
    PROVE  /\ BusInv' /\ log' = log /\ got' = [got EXCEPT ![s] = Append(got[s], out.n)]
           /\ out.n \in 1..Len(log) /\ \A i \in 1..Len(got[s]) : got[s][i] < out.n
  <1> DEFINE n == Len(log)
             g == Append(got[s], out.n)
  <1>1. /\ s \in out.todo /\ got' = [got EXCEPT ![s] = g]
        /\ log' = log /\ queue' = queue /\ reader' = reader /\ socket' = socket
        /\ out' = Quiet \/ out' = Sent(s)
    BY DEF SendText
  <1>2. /\ queue \in [Readers -> Seq(Nat)] /\ got \in [Receivers -> Seq(Nat)] /\ n \in Nat
        /\ Relay \in Readers /\ s \in Receivers /\ s \notin Streams
        /\ Streams \subseteq Receivers /\ Sockets \subseteq Receivers
        /\ out \in [n : Nat, todo : SUBSET Sockets]
    BY EventBusAssumption DEF BusInv, BusType, Readers, Receivers
  <1>3. /\ out.n \in 1..n /\ \A i \in 1..Len(got[s]) : got[s][i] < out.n
        /\ \A j \in 1..Len(queue[Relay]) : out.n < queue[Relay][j]
    BY <1>1, <1>2 DEF BusInv, InHand
  <1>4. queue[Relay] \in Seq(Nat) /\ got[s] \in Seq(Nat) /\ Behind(got[s], queue[Relay], n)
    BY <1>2 DEF BusInv, SocketsBehind
  <1>5. /\ g \in Seq(Nat) /\ Behind(g, queue[Relay], n)
        /\ \A i \in 1..Len(g) : (i \in 1..Len(got[s]) /\ g[i] = got[s][i]) \/ g[i] = out.n
    <2> HIDE DEF n
    <2>1. ASSUME NEW e \in 1..n, NEW q \in Seq(Nat), Behind(got[s], q, n), \A j \in 1..Len(q) : e < q[j]
          PROVE  /\ Append(got[s], e) \in Seq(Nat) /\ Behind(Append(got[s], e), q, n)
                 /\ \A i \in 1..Len(Append(got[s], e)) :
                       (i \in 1..Len(got[s]) /\ Append(got[s], e)[i] = got[s][i]) \/ Append(got[s], e)[i] = e
      BY <1>2, <1>4, <2>1, GotBehind
    <2> QED
      BY <1>3, <1>4, <2>1
  <1> HIDE DEF n, g
  <1>6. got'[s] = g /\ \A d \in Receivers \ {s} : got'[d] = got[d]
    BY <1>1, <1>2
  <1>7. /\ out' \in [n : Nat, todo : SUBSET Sockets] /\ out'.n \in {0, out.n} /\ (out'.n = 0 => out'.todo = {})
        /\ out'.todo \subseteq out.todo \ {s}
    BY <1>1, <1>2, <1>3 DEF Sent, Quiet
  <1>8. BusType'
    BY <1>1, <1>2, <1>5, <1>7 DEF BusInv, BusType
  <1>9. QueuesRise' /\ StreamsBehind'
    BY <1>1, <1>2, <1>6 DEF BusInv, QueuesRise, StreamsBehind
  <1>10. SocketsBehind'
    BY <1>1, <1>2, <1>5, <1>6 DEF BusInv, SocketsBehind, n
  <1>11. InHand'
    <2>1. out'.n \in 0..n /\ \A j \in 1..Len(queue[Relay]) : out'.n < queue[Relay][j]
      <3>1. CASE out'.n = out.n
        BY <1>2, <1>3, <3>1
      <3>2. CASE out'.n = 0
        <4>1. Rising(queue[Relay], n)
          BY <1>2 DEF BusInv, QueuesRise, n
        <4> QED
          BY <1>2, <3>2, <4>1 DEF Rising
      <3> QED
        BY <1>7, <3>1, <3>2
    <2>2. ASSUME out'.n # 0, NEW d \in Sockets, NEW i \in 1..Len(got'[d])
          PROVE  got'[d][i] <= out'.n /\ (d \in out'.todo => got'[d][i] < out'.n)
      <3>1. out'.n = out.n
        BY <1>7, <2>2
      <3>2. CASE d = s
        <4>1. g[i] <= out.n
          <5>1. CASE g[i] = out.n
            BY <1>3, <5>1
          <5>2. CASE i \in 1..Len(got[s]) /\ g[i] = got[s][i]
            <6>1. got[s][i] \in Nat /\ got[s][i] < out.n
              BY <1>3, <1>4, <5>2, ElementOfSeq
            <6> QED
              BY <1>3, <5>2, <6>1
          <5> QED
            BY <1>5, <1>6, <3>2, <5>1, <5>2
        <4> QED
          BY <1>6, <1>7, <3>1, <3>2, <4>1
      <3>3. CASE d # s
        BY <1>2, <1>3, <1>6, <1>7, <3>1, <3>3 DEF BusInv, InHand
      <3> QED
        BY <3>2, <3>3
    <2> QED
      BY <1>1, <1>7, <2>1, <2>2 DEF InHand, n
  <1> QED
    BY <1>1, <1>3, <1>8, <1>9, <1>10, <1>11 DEF BusInv, n, g

(* A connection opens: what the relay is sending is not for it.            *)
LEMMA ConnectKeeps == ASSUME BusInv, NEW s \in Sockets, Connect(s) PROVE BusInv'
  <1>1. /\ socket' = [socket EXCEPT ![s] = "open"]
        /\ reader' = [reader EXCEPT ![Relay] = IF @ = "none" THEN "starting" ELSE @]
        /\ out' = [out EXCEPT !.todo = out.todo \ {s}]
        /\ log' = log /\ queue' = queue /\ got' = got
    BY DEF Connect
  <1>2. out \in [n : Nat, todo : SUBSET Sockets]
    BY DEF BusInv, BusType
  <1>3. out'.n = out.n /\ out'.todo = out.todo \ {s} /\ out' \in [n : Nat, todo : SUBSET Sockets]
    BY <1>1, <1>2
  <1>4. /\ reader' \in [Readers -> {"none", "starting", "subscribed", "reading", "left"}]
        /\ socket' \in [Sockets -> {"closed", "open", "lost"}]
    BY <1>1 DEF BusInv, BusType
  <1>5. BusType'
    BY <1>1, <1>3, <1>4 DEF BusInv, BusType
  <1>6. QueuesRise' /\ StreamsBehind' /\ SocketsBehind'
    BY <1>1 DEF BusInv, QueuesRise, StreamsBehind, SocketsBehind
  <1>7. InHand'
    BY <1>1, <1>3 DEF BusInv, InHand
  <1> QED
    BY <1>5, <1>6, <1>7 DEF BusInv

(* Steps that only move a reader or a socket.                              *)
LEMMA MoveKeeps ==
    ASSUME BusInv, UNCHANGED <<log, queue, out, got>>,
           reader' \in [Readers -> {"none", "starting", "subscribed", "reading", "left"}],
           socket' \in [Sockets -> {"closed", "open", "lost"}]
    PROVE  BusInv'
  <1>1. BusType'
    BY DEF BusInv, BusType
  <1>2. QueuesRise' /\ StreamsBehind' /\ SocketsBehind' /\ InHand'
    BY DEF BusInv, QueuesRise, StreamsBehind, SocketsBehind, InHand
  <1> QED
    BY <1>1, <1>2 DEF BusInv

(* The process restarts: the queues and the connections are gone, what was *)
(* published before has no place left where it waits.                      *)
LEMMA BusRestartKeeps == ASSUME BusInv, BusRestart PROVE BusInv'
  <1>1. /\ queue' = [q \in Readers |-> <<>>] /\ reader' = [q \in Readers |-> "none"]
        /\ socket' = [s \in Sockets |-> "closed"] /\ log' = log /\ got' = got
        /\ out'.n = 0 /\ out'.todo = {} /\ out' \in [n : Nat, todo : SUBSET Sockets]
    BY DEF BusRestart, Quiet
  <1>2. Len(log) \in Nat
    BY DEF BusInv, BusType
  <1>3. \A q \in Readers : queue'[q] = <<>>
    BY <1>1
  <1>4. BusType'
    BY <1>1, NothingWaits, <1>2 DEF BusInv, BusType
  <1>5. QueuesRise'
    BY <1>1, <1>2, <1>3, NothingWaits DEF QueuesRise
  <1>6. StreamsBehind' /\ SocketsBehind'
    BY <1>1, <1>2, <1>3, NothingWaits DEF BusInv, StreamsBehind, SocketsBehind, Readers
  <1>7. InHand'
    BY <1>1, <1>2, <1>3, NothingWaits DEF InHand, Readers
  <1> QED
    BY <1>4, <1>5, <1>6, <1>7 DEF BusInv

-----------------------------------------------------------------------------
(* Every step of the bus keeps the invariant, and is one of the feed or    *)
(* none: _event_stream, and the sends of the relay, deliver.               *)
LEMMA BusStepImplements ==
    ASSUME BusInv, BusNext
    PROVE  BusInv' /\ (Abstract!Next \/ UNCHANGED <<Len(log), got>>)
  <1>1. ASSUME NEW audience \in {"order", "shop"}, Publish(audience) PROVE BusInv' /\ Abstract!Next
    <2>1. log' = Append(log, audience) /\ got' = got
      BY <1>1 DEF Publish
    <2>2. Len(log') = Len(log) + 1
      BY <2>1 DEF BusInv, BusType
    <2>3. Abstract!Publish
      BY <2>1, <2>2 DEF Abstract!Publish
    <2> QED
      BY <1>1, <2>3, PublishKeeps DEF Abstract!Next
  <1>2. ASSUME NEW c \in Streams, Yield(c) PROVE BusInv' /\ Abstract!Next
    <2>1. /\ BusInv' /\ Head(queue[c]) \in 1..Len(log)
          /\ \A i \in 1..Len(got[c]) : got[c][i] < Head(queue[c])
      BY <1>2, YieldKeeps
    <2>2. got' = [got EXCEPT ![c] = Append(got[c], Head(queue[c]))] /\ log' = log
      BY <1>2 DEF Yield
    <2>3. c \in Receivers /\ got[c] \in Seq(Nat)
      BY DEF BusInv, BusType, Receivers
    <2>4. DOMAIN got[c] = 1..Len(got[c])
      BY <2>3, LenProperties
    <2>5. Abstract!Deliver(c)
      BY <2>1, <2>2, <2>4 DEF Abstract!Deliver
    <2> QED
      BY <2>1, <2>3, <2>5 DEF Abstract!Next
  <1>3. ASSUME NEW s \in Sockets, SendText(s), socket[s] = "open" PROVE BusInv' /\ Abstract!Next
    <2>1. /\ BusInv' /\ log' = log /\ got' = [got EXCEPT ![s] = Append(got[s], out.n)]
          /\ out.n \in 1..Len(log) /\ \A i \in 1..Len(got[s]) : got[s][i] < out.n
      BY <1>3, SendKeeps
    <2>2. s \in Receivers /\ got[s] \in Seq(Nat)
      BY DEF BusInv, BusType, Receivers
    <2>3. DOMAIN got[s] = 1..Len(got[s])
      BY <2>2, LenProperties
    <2>4. Abstract!Deliver(s)
      BY <2>1, <2>3 DEF Abstract!Deliver
    <2> QED
      BY <2>1, <2>2, <2>4 DEF Abstract!Next
  <1>4. ASSUME NEW s \in Sockets, SendText(s), socket[s] # "open" PROVE BusInv' /\ UNCHANGED <<log, got>>
    BY <1>4, FailedSendKeeps
  <1>5. ASSUME NEW c \in Streams, OpenStream(c) PROVE BusInv' /\ UNCHANGED <<log, got>>
    BY <1>5, SubscribeKeeps DEF OpenStream, Subscribe, Readers
  <1>6. ASSUME NEW c \in Streams, StartStream(c) \/ CloseStream(c) PROVE BusInv' /\ UNCHANGED <<log, got>>
    <2>1. UNCHANGED <<log, queue, out, got, socket>>
      BY <1>6 DEF StartStream, CloseStream
    <2>2. reader' \in [Readers -> {"none", "starting", "subscribed", "reading", "left"}]
      BY <1>6 DEF StartStream, CloseStream, BusInv, BusType
    <2> QED
      BY <2>1, <2>2, MoveKeeps DEF BusInv, BusType
  <1>7. ASSUME NEW s \in Sockets, Connect(s) PROVE BusInv' /\ UNCHANGED <<log, got>>
    BY <1>7, ConnectKeeps DEF Connect
  <1>8. ASSUME NEW s \in Sockets, Lose(s) \/ Disconnect(s) PROVE BusInv' /\ UNCHANGED <<log, got>>
    <2>1. UNCHANGED <<log, queue, out, got, reader>>
      BY <1>8 DEF Lose, Disconnect
    <2>2. socket' \in [Sockets -> {"closed", "open", "lost"}]
      BY <1>8 DEF Lose, Disconnect, BusInv, BusType
    <2> QED
      BY <2>1, <2>2, MoveKeeps DEF BusInv, BusType
  <1>9. ASSUME StartRelay PROVE BusInv' /\ UNCHANGED <<log, got>>
    BY <1>9, SubscribeKeeps DEF StartRelay, Subscribe, Readers
  <1>10. ASSUME TakeEvent PROVE BusInv' /\ UNCHANGED <<log, got>>
    BY <1>10, TakeKeeps DEF TakeEvent
  <1>11. ASSUME NobodyThere PROVE BusInv' /\ UNCHANGED <<log, got>>
    BY <1>11, QuietKeeps DEF NobodyThere, BusInv, BusType
  <1> QED
    BY <1>1, <1>2, <1>3, <1>4, <1>5, <1>6, <1>7, <1>8, <1>9, <1>10, <1>11 DEF BusNext

(* Steps of the other parts leave the bus alone.                           *)
LEMMA BusStays == ASSUME BusInv, UNCHANGED busVars PROVE BusInv' /\ UNCHANGED <<Len(log), got>>
  <1>1. UNCHANGED <<log, queue, reader, socket, out, got>>
    BY DEF busVars
  <1>2. BusType'
    BY <1>1 DEF BusInv, BusType
  <1> QED
    BY <1>1, <1>2, MoveKeeps DEF BusType

(* Browsers get the events in the order of publication and none twice:     *)
(* services/events.py, routers/events.py and routers/ws.py, for any number *)
(* of browsers and any length of the queues.                               *)
THEOREM BusImplementsFeed == Spec => ImplementsFeed
  <1>1. Init => BusInv /\ Abstract!Init
    <2> SUFFICES ASSUME Init PROVE BusInv /\ Abstract!Init
      OBVIOUS
    <2>1. BusInit
      BY DEF Init
    <2>2. Len(log) = 0 /\ got = [c \in Receivers |-> <<>>]
      BY <2>1 DEF BusInit
    <2> QED
      BY <2>1, <2>2, BusInitInv DEF Abstract!Init
  <1>2. BusInv /\ [Next]_vars => BusInv' /\ [Abstract!Next]_<<Len(log), got>>
    <2> SUFFICES ASSUME BusInv, [Next]_vars PROVE BusInv' /\ (Abstract!Next \/ UNCHANGED <<Len(log), got>>)
      OBVIOUS
    <2>1. CASE BusStep
      BY <2>1, BusStepImplements DEF BusStep
    <2>2. CASE UNCHANGED busVars
      BY <2>2, BusStays
    <2>3. CASE Restart
      BY <2>3, BusRestartKeeps DEF Restart, BusRestart
    <2> QED
      BY <2>1, <2>2, <2>3 DEF Next, CampaignStep, ChatStep, vars
  <1> QED
    BY <1>1, <1>2, PTL DEF Spec, ImplementsFeed, Abstract!Spec

-----------------------------------------------------------------------------
(* What a full queue costs.                                                *)

PastType == busPast \in [since : [Readers -> Nat], over : [Readers -> SUBSET Nat], from : [Sockets -> Nat]]

TellInv == PastType /\ OnlyOverflowMissed

(* An event that joins a queue is behind those that wait, and the one that *)
(* is taken is the first.                                                  *)
LEMMA ContainsGrows ==
    ASSUME NEW q \in Seq(Nat), NEW e \in Nat, NEW n
    PROVE  Contains(Append(q, e), n) <=> Contains(q, n) \/ n = e
  <1>1. /\ Len(Append(q, e)) = Len(q) + 1 /\ Len(q) \in Nat
        /\ Append(q, e)[Len(q) + 1] = e
        /\ \A i \in 1..Len(q) : Append(q, e)[i] = q[i]
    OBVIOUS
  <1>2. 1..Len(q) + 1 = 1..Len(q) \cup {Len(q) + 1}
    BY <1>1
  <1> QED
    BY <1>1, <1>2 DEF Contains

LEMMA ContainsFirst ==
    ASSUME NEW q \in Seq(Nat), q # <<>>, NEW n, Contains(q, n)
    PROVE  n = Head(q) \/ Contains(Tail(q), n)
  <1>1. PICK i \in 1..Len(q) : q[i] = n
    BY DEF Contains
  <1>2. /\ Len(q) \in Nat /\ Len(q) > 0 /\ Len(Tail(q)) = Len(q) - 1 /\ Head(q) = q[1]
        /\ \A j \in 1..Len(q) - 1 : Tail(q)[j] = q[j + 1]
    OBVIOUS
  <1>3. CASE i = 1
    BY <1>1, <1>2, <1>3
  <1>4. CASE i # 1
    <2>1. i - 1 \in 1..Len(q) - 1 /\ (i - 1) + 1 = i
      BY <1>1, <1>2, <1>4
    <2> QED
      BY <1>1, <1>2, <2>1 DEF Contains
  <1> QED
    BY <1>3, <1>4

(* A step that publishes nothing and loses nothing for a stream.           *)
LEMMA StreamStays ==
    ASSUME NEW c \in Streams, StreamTold(c), log' = log,
           reader'[c] \in {"subscribed", "reading"} =>
              /\ reader[c] \in {"subscribed", "reading"}
              /\ busPast'.since[c] = busPast.since[c] /\ busPast.over[c] \subseteq busPast'.over[c]
              /\ \A n : Came(c, n) \/ Waits(c, n) => Came(c, n)' \/ Waits(c, n)'
    PROVE  StreamTold(c)'
  <1> SUFFICES ASSUME reader'[c] \in {"subscribed", "reading"}, NEW n \in 1..Len(log), n > busPast.since[c]
               PROVE  Came(c, n)' \/ Waits(c, n)' \/ n \in busPast'.over[c]
    BY DEF StreamTold
  <1>1. Came(c, n) \/ Waits(c, n) \/ n \in busPast.over[c]
    BY DEF StreamTold
  <1> QED
    BY <1>1

(* A step that publishes nothing and loses nothing for a socket.           *)
LEMMA SocketStays ==
    ASSUME NEW s \in Sockets, SocketTold(s), log' = log,
           socket'[s] = "open" /\ reader'[Relay] = "reading" =>
              /\ socket[s] = "open" /\ reader[Relay] = "reading"
              /\ busPast'.since[Relay] = busPast.since[Relay] /\ busPast'.from[s] = busPast.from[s]
              /\ busPast.over[Relay] \subseteq busPast'.over[Relay]
              /\ \A n \in 1..Len(log) :
                    s \in Audience(n) /\ (Came(s, n) \/ Waits(Relay, n) \/ BeingSent(s, n))
                       => Came(s, n)' \/ Waits(Relay, n)' \/ BeingSent(s, n)'
    PROVE  SocketTold(s)'
  <1> SUFFICES ASSUME socket'[s] = "open" /\ reader'[Relay] = "reading", NEW n \in 1..Len(log),
                      n > busPast.since[Relay], n > busPast.from[s], s \in Audience(n)
               PROVE  Came(s, n)' \/ Waits(Relay, n)' \/ BeingSent(s, n)' \/ n \in busPast'.over[Relay]
    BY DEF SocketTold, Audience
  <1>1. Came(s, n) \/ Waits(Relay, n) \/ BeingSent(s, n) \/ n \in busPast.over[Relay]
    BY DEF SocketTold
  <1> QED
    BY <1>1

(* EventBus.publish: an event joins a queue, or the queue was full.        *)
LEMMA PublishTells ==
    ASSUME BusInv, TellInv, NEW audience \in {"order", "shop"}, Publish(audience) PROVE TellInv'
  <1> DEFINE n == Len(log) + 1
             over == [q \in Readers |-> IF Subscribed(q) /\ Len(queue[q]) >= Capacity
                                        THEN busPast.over[q] \cup {n} ELSE busPast.over[q]]
  <1>1. /\ log' = Append(log, audience)
        /\ queue' = [q \in Readers |-> IF Subscribed(q) THEN Put(queue[q], n) ELSE queue[q]]
        /\ busPast' = [busPast EXCEPT !.over = over]
        /\ UNCHANGED <<reader, socket, out, got>>
    BY DEF Publish
  <1>2. /\ log \in Seq({"order", "shop"}) /\ queue \in [Readers -> Seq(Nat)] /\ Len(log) \in Nat /\ n \in Nat
        /\ Len(log') = n /\ \A k \in 1..Len(log) : log'[k] = log[k]
    BY <1>1 DEF BusInv, BusType
  <1>3. over \in [Readers -> SUBSET Nat]
    BY <1>2 DEF TellInv, PastType
  <1>4. /\ PastType' /\ busPast'.since = busPast.since /\ busPast'.from = busPast.from
        /\ busPast'.over = over
    BY <1>1, <1>3 DEF TellInv, PastType
  <1>5. ASSUME NEW q \in Readers, Subscribed(q)
        PROVE  /\ \A k : Contains(queue[q], k) => Contains(queue'[q], k)
               /\ Contains(queue'[q], n) \/ n \in over[q]
               /\ busPast.over[q] \subseteq over[q]
    <2>1. queue'[q] = Put(queue[q], n) /\ queue[q] \in Seq(Nat) /\ Len(queue[q]) \in Nat
      BY <1>1, <1>2, <1>5
    <2>2. CASE Len(queue[q]) < Capacity
      BY <1>2, <2>1, <2>2, ContainsGrows DEF Put
    <2>3. CASE ~ (Len(queue[q]) < Capacity)
      <3>1. Len(queue[q]) >= Capacity
        BY <2>1, <2>3, EventBusAssumption
      <3> QED
        BY <1>5, <2>1, <2>3, <3>1 DEF Put
    <2> QED
      BY <2>2, <2>3
  <1> HIDE DEF n, over
  <1>6. ASSUME NEW k \in 1..n PROVE k = n \/ k \in 1..Len(log)
    BY <1>2 DEF n
  <1>7. ASSUME NEW c \in Streams PROVE StreamTold(c)'
    <2> SUFFICES ASSUME reader[c] \in {"subscribed", "reading"}, NEW k \in 1..n, k > busPast.since[c]
                 PROVE  Came(c, k)' \/ Waits(c, k)' \/ k \in over[c]
      BY <1>1, <1>2, <1>4 DEF StreamTold
    <2>1. c \in Readers /\ Subscribed(c)
      BY DEF Readers, Subscribed
    <2>2. CASE k = n
      BY <1>5, <2>1, <2>2 DEF Waits
    <2>3. CASE k \in 1..Len(log)
      <3>1. Came(c, k) \/ Waits(c, k) \/ k \in busPast.over[c]
        BY <2>3 DEF TellInv, OnlyOverflowMissed, StreamTold
      <3> QED
        BY <1>1, <1>5, <2>1, <3>1 DEF Came, Waits
    <2> QED
      BY <1>6, <2>2, <2>3
  <1>8. ASSUME NEW s \in Sockets PROVE SocketTold(s)'
    <2> SUFFICES ASSUME socket[s] = "open", reader[Relay] = "reading", NEW k \in 1..n,
                        k > busPast.since[Relay], k > busPast.from[s], s \in Audience(k)'
                 PROVE  Came(s, k)' \/ Waits(Relay, k)' \/ BeingSent(s, k)' \/ k \in over[Relay]
      BY <1>1, <1>2, <1>4 DEF SocketTold
    <2>1. Relay \in Readers /\ Subscribed(Relay)
      BY DEF Readers, Subscribed
    <2>2. CASE k = n
      BY <1>5, <2>1, <2>2 DEF Waits
    <2>3. CASE k \in 1..Len(log)
      <3>1. s \in Audience(k)
        BY <1>2, <2>3 DEF Audience
      <3>2. Came(s, k) \/ Waits(Relay, k) \/ BeingSent(s, k) \/ k \in busPast.over[Relay]
        BY <2>3, <3>1 DEF TellInv, OnlyOverflowMissed, SocketTold
      <3> QED
        BY <1>1, <1>5, <2>1, <3>2 DEF Came, Waits, BeingSent
    <2> QED
      BY <1>6, <2>2, <2>3
  <1> QED
    BY <1>4, <1>7, <1>8 DEF TellInv, OnlyOverflowMissed

(* EventBus.subscribe: nothing is missed yet, and the others lose nothing. *)
LEMMA SubscribeTells ==
    ASSUME BusInv, TellInv, NEW q \in Readers, NEW state \in {"subscribed", "reading"}, Subscribe(q, state),
           q = Relay => reader[q] # "reading"
    PROVE  TellInv'
  <1>1. /\ queue' = [queue EXCEPT ![q] = <<>>] /\ reader' = [reader EXCEPT ![q] = state]
        /\ busPast' = [busPast EXCEPT !.since[q] = Len(log), !.over[q] = {}]
        /\ UNCHANGED <<log, socket, out, got>>
    BY DEF Subscribe
  <1>2. Len(log) \in Nat /\ queue \in [Readers -> Seq(Nat)]
    BY DEF BusInv, BusType
  <1>3. busPast' = [since |-> [busPast.since EXCEPT ![q] = Len(log)],
                    over  |-> [busPast.over EXCEPT ![q] = {}], from |-> busPast.from]
    BY <1>1 DEF TellInv, PastType
  <1>4. /\ PastType' /\ busPast'.since[q] = Len(log) /\ busPast'.from = busPast.from
        /\ \A r \in Readers \ {q} : busPast'.since[r] = busPast.since[r] /\ busPast'.over[r] = busPast.over[r]
    BY <1>2, <1>3 DEF TellInv, PastType
  <1>5. \A r \in Readers \ {q} : queue'[r] = queue[r] /\ reader'[r] = reader[r]
    BY <1>1, <1>2 DEF BusInv, BusType
  <1>6. ASSUME NEW c \in Streams PROVE StreamTold(c)'
    <2>1. CASE c = q
      BY <1>1, <1>2, <1>4, <2>1 DEF StreamTold
    <2>2. CASE c # q
      <3>1. c \in Readers \ {q}
        BY <2>2 DEF Readers
      <3> QED
        BY <1>1, <1>4, <1>5, <3>1, StreamStays DEF TellInv, OnlyOverflowMissed, Came, Waits
    <2> QED
      BY <2>1, <2>2
  <1>7. ASSUME NEW s \in Sockets PROVE SocketTold(s)'
    <2>1. CASE q = Relay
      BY <1>1, <1>2, <1>4, <2>1 DEF SocketTold
    <2>2. CASE q # Relay
      <3>1. Relay \in Readers \ {q}
        BY <2>2 DEF Readers
      <3> QED
        BY <1>1, <1>4, <1>5, <3>1, SocketStays DEF TellInv, OnlyOverflowMissed, Came, Waits, BeingSent
    <2> QED
      BY <2>1, <2>2
  <1> QED
    BY <1>4, <1>6, <1>7 DEF TellInv, OnlyOverflowMissed

(* What a stream takes has come to it; the rest still waits.               *)
LEMMA YieldTells == ASSUME BusInv, TellInv, NEW c \in Streams, Yield(c) PROVE TellInv'
  <1>1. /\ queue[c] # <<>> /\ queue' = [queue EXCEPT ![c] = Tail(queue[c])]
        /\ got' = [got EXCEPT ![c] = Append(got[c], Head(queue[c]))]
        /\ UNCHANGED <<log, reader, socket, out, busPast>>
    BY DEF Yield, Dequeue
  <1>2. /\ queue \in [Readers -> Seq(Nat)] /\ got \in [Receivers -> Seq(Nat)]
        /\ c \in Readers /\ c \in Receivers /\ c # Relay /\ \A s \in Sockets : s # c /\ s \in Receivers
    BY EventBusAssumption DEF BusInv, BusType, Readers, Receivers
  <1>3. Head(queue[c]) \in Nat
    BY <1>1, <1>2, HeadTailProperties
  <1>4. ASSUME NEW d \in Streams PROVE StreamTold(d)'
    <2>1. CASE d = c
      <3>1. ASSUME NEW n, Came(c, n) \/ Waits(c, n) PROVE Came(c, n)' \/ Waits(c, n)'
        <4>1. Came(c, n)' <=> Came(c, n) \/ n = Head(queue[c])
          BY <1>1, <1>2, <1>3, ContainsGrows DEF Came
        <4>2. Waits(c, n) => n = Head(queue[c]) \/ Waits(c, n)'
          BY <1>1, <1>2, ContainsFirst DEF Waits
        <4> QED
          BY <3>1, <4>1, <4>2
      <3> QED
        BY <1>1, <2>1, <3>1, StreamStays DEF TellInv, OnlyOverflowMissed
    <2>2. CASE d # c
      <3>1. queue'[d] = queue[d] /\ got'[d] = got[d]
        BY <1>1, <1>2, <2>2 DEF Readers, Receivers
      <3> QED
        BY <1>1, <3>1, StreamStays DEF TellInv, OnlyOverflowMissed, Came, Waits
    <2> QED
      BY <2>1, <2>2
  <1>5. ASSUME NEW s \in Sockets PROVE SocketTold(s)'
    <2>1. queue'[Relay] = queue[Relay] /\ got'[s] = got[s]
      BY <1>1, <1>2 DEF Readers
    <2> QED
      BY <1>1, <2>1, SocketStays DEF TellInv, OnlyOverflowMissed, Came, Waits, BeingSent
  <1> QED
    BY <1>1, <1>4, <1>5 DEF TellInv, PastType, OnlyOverflowMissed

(* The relay takes an event for all sockets that are open.                 *)
LEMMA TakeTells == ASSUME BusInv, TellInv, TakeEvent PROVE TellInv'
  <1> DEFINE e == Head(queue[Relay])
  <1>1. /\ queue[Relay] # <<>> /\ queue' = [queue EXCEPT ![Relay] = Tail(queue[Relay])] /\ out = Quiet
        /\ out' = [n |-> e, todo |-> {s \in Audience(e) : socket[s] \in {"open", "lost"}}]
        /\ UNCHANGED <<log, reader, socket, got, busPast>>
    BY DEF TakeEvent, Dequeue
  <1>2. queue \in [Readers -> Seq(Nat)] /\ Relay \in Readers /\ \A c \in Streams : c # Relay /\ c \in Readers
    BY EventBusAssumption DEF BusInv, BusType, Readers
  <1>3. ASSUME NEW c \in Streams PROVE StreamTold(c)'
    <2>1. queue'[c] = queue[c]
      BY <1>1, <1>2
    <2> QED
      BY <1>1, <2>1, StreamStays DEF TellInv, OnlyOverflowMissed, Came, Waits
  <1>4. ASSUME NEW s \in Sockets PROVE SocketTold(s)'
    <2>1. ASSUME socket[s] = "open", NEW n \in 1..Len(log), s \in Audience(n),
                 Came(s, n) \/ Waits(Relay, n) \/ BeingSent(s, n)
          PROVE  Came(s, n)' \/ Waits(Relay, n)' \/ BeingSent(s, n)'
      <3>1. ~ BeingSent(s, n)
        BY <1>1 DEF BeingSent, Quiet
      <3>2. Waits(Relay, n) => n = e \/ Waits(Relay, n)'
        BY <1>1, <1>2, ContainsFirst DEF Waits
      <3>3. n = e => BeingSent(s, n)'
        BY <1>1, <2>1 DEF BeingSent
      <3>4. Came(s, n) => Came(s, n)'
        BY <1>1 DEF Came
      <3> QED
        BY <2>1, <3>1, <3>2, <3>3, <3>4
    <2> QED
      BY <1>1, <2>1, SocketStays DEF TellInv, OnlyOverflowMissed
  <1> QED
    BY <1>1, <1>3, <1>4 DEF TellInv, PastType, OnlyOverflowMissed

(* The relay sends to one socket, and has it to do for the others.         *)
LEMMA SendTells == ASSUME BusInv, TellInv, NEW s \in Sockets, SendText(s) PROVE TellInv'
  <1>1. /\ s \in out.todo /\ (out' = Quiet \/ out' = [out EXCEPT !.todo = out.todo \ {s}])
        /\ out' = Quiet => out.todo \ {s} = {} \/ out' = [out EXCEPT !.todo = out.todo \ {s}]
        /\ UNCHANGED <<log, queue, reader, busPast>>
        /\ \/ socket[s] = "open" /\ got' = [got EXCEPT ![s] = Append(got[s], out.n)] /\ socket' = socket
           \/ socket[s] # "open" /\ got' = got
                /\ socket' = [socket EXCEPT ![s] = IF @ = "lost" THEN "closed" ELSE @]
    BY DEF SendText, Sent
  <1>2. /\ out \in [n : Nat, todo : SUBSET Sockets] /\ got \in [Receivers -> Seq(Nat)]
        /\ socket \in [Sockets -> {"closed", "open", "lost"}]
        /\ s \in Receivers /\ \A c \in Streams : c # s /\ c \in Receivers
    BY EventBusAssumption DEF BusInv, BusType, Receivers
  <1>3. ASSUME NEW t \in Sockets, t # s, t \in out.todo PROVE out'.n = out.n /\ t \in out'.todo
    <2>1. out.todo \ {s} # {}
      BY <1>3
    <2> QED
      BY <1>1, <1>2, <1>3, <2>1
  <1>4. ASSUME NEW c \in Streams PROVE StreamTold(c)'
    <2>1. got'[c] = got[c]
      BY <1>1, <1>2
    <2> QED
      BY <1>1, <2>1, StreamStays DEF TellInv, OnlyOverflowMissed, Came, Waits
  <1>5. ASSUME NEW t \in Sockets PROVE SocketTold(t)'
    <2>1. socket'[t] = "open" => socket[t] = "open"
      BY <1>1, <1>2
    <2>2. ASSUME socket[t] = "open", NEW n \in 1..Len(log), Came(t, n) \/ Waits(Relay, n) \/ BeingSent(t, n)
          PROVE  Came(t, n)' \/ Waits(Relay, n)' \/ BeingSent(t, n)'
      <3>1. CASE t = s
        <4>1. Came(s, n)' <=> Came(s, n) \/ n = out.n
          <5>1. got'[s] = Append(got[s], out.n) /\ got[s] \in Seq(Nat) /\ out.n \in Nat
            BY <1>1, <1>2, <2>2, <3>1
          <5> QED
            BY <5>1, ContainsGrows DEF Came
        <4> QED
          BY <1>1, <2>2, <3>1, <4>1 DEF Waits, BeingSent
      <3>2. CASE t # s
        <4>1. got'[t] = got[t]
          BY <1>1, <1>2, <3>2 DEF Receivers
        <4> QED
          BY <1>1, <1>3, <2>2, <3>2, <4>1 DEF Came, Waits, BeingSent
      <3> QED
        BY <3>1, <3>2
    <2> QED
      BY <1>1, <2>1, <2>2, SocketStays DEF TellInv, OnlyOverflowMissed
  <1> QED
    BY <1>1, <1>4, <1>5 DEF TellInv, PastType, OnlyOverflowMissed

(* A socket that connects has missed nothing since.                        *)
LEMMA ConnectTells == ASSUME BusInv, TellInv, NEW s \in Sockets, Connect(s) PROVE TellInv'
  <1>1. /\ socket' = [socket EXCEPT ![s] = "open"]
        /\ reader' = [reader EXCEPT ![Relay] = IF @ = "none" THEN "starting" ELSE @]
        /\ out' = [out EXCEPT !.todo = out.todo \ {s}]
        /\ busPast' = [busPast EXCEPT !.from[s] = Len(log)]
        /\ UNCHANGED <<log, queue, got>>
    BY DEF Connect
  <1>2. /\ out \in [n : Nat, todo : SUBSET Sockets] /\ socket \in [Sockets -> {"closed", "open", "lost"}]
        /\ reader \in [Readers -> {"none", "starting", "subscribed", "reading", "left"}]
        /\ Relay \in Readers /\ Len(log) \in Nat /\ \A c \in Streams : c # Relay /\ c \in Readers
    BY EventBusAssumption DEF BusInv, BusType, Readers
  <1>3. busPast' = [since |-> busPast.since, over |-> busPast.over,
                    from |-> [busPast.from EXCEPT ![s] = Len(log)]]
    BY <1>1 DEF TellInv, PastType
  <1>4. /\ PastType' /\ busPast'.since = busPast.since /\ busPast'.over = busPast.over
        /\ busPast'.from[s] = Len(log) /\ \A t \in Sockets \ {s} : busPast'.from[t] = busPast.from[t]
    BY <1>2, <1>3 DEF TellInv, PastType
  <1>5. out'.n = out.n /\ out'.todo = out.todo \ {s}
    BY <1>1, <1>2
  <1>6. reader'[Relay] = "reading" => reader[Relay] = "reading"
    BY <1>1, <1>2
  <1>7. ASSUME NEW c \in Streams PROVE StreamTold(c)'
    <2>1. reader'[c] = reader[c]
      BY <1>1, <1>2
    <2> QED
      BY <1>1, <1>4, <2>1, StreamStays DEF TellInv, OnlyOverflowMissed, Came, Waits
  <1>8. ASSUME NEW t \in Sockets PROVE SocketTold(t)'
    <2>1. CASE t = s
      BY <1>1, <1>2, <1>4, <2>1 DEF SocketTold
    <2>2. CASE t # s
      <3>1. socket'[t] = socket[t]
        BY <1>1, <1>2, <2>2
      <3> QED
        BY <1>1, <1>4, <1>5, <1>6, <2>2, <3>1, SocketStays DEF TellInv, OnlyOverflowMissed, Came, Waits, BeingSent
    <2> QED
      BY <2>1, <2>2
  <1> QED
    BY <1>4, <1>7, <1>8 DEF TellInv, OnlyOverflowMissed

(* Steps that start no reader and open no socket.                          *)
LEMMA MoveTells ==
    ASSUME TellInv, UNCHANGED <<log, queue, got, busPast>>,
           \A c \in Streams : reader'[c] \in {"subscribed", "reading"} => reader[c] \in {"subscribed", "reading"},
           reader'[Relay] = "reading" => reader[Relay] = "reading",
           \A s \in Sockets : socket'[s] = "open" => socket[s] = "open",
           out' = out \/ out.todo = {}
    PROVE  TellInv'
  <1>1. ASSUME NEW c \in Streams PROVE StreamTold(c)'
    BY StreamStays DEF TellInv, OnlyOverflowMissed, Came, Waits
  <1>2. ASSUME NEW s \in Sockets PROVE SocketTold(s)'
    BY SocketStays DEF TellInv, OnlyOverflowMissed, Came, Waits, BeingSent
  <1> QED
    BY <1>1, <1>2 DEF TellInv, PastType, OnlyOverflowMissed

(* Every step of the bus.                                                  *)
LEMMA BusStepTells == ASSUME BusInv, TellInv, BusNext PROVE TellInv'
  <1>1. Relay \notin Streams /\ Relay \in Readers
    BY EventBusAssumption DEF Readers
  <1>2. /\ reader \in [Readers -> {"none", "starting", "subscribed", "reading", "left"}]
        /\ socket \in [Sockets -> {"closed", "open", "lost"}]
    BY DEF BusInv, BusType
  <1>3. ASSUME NEW c \in Streams, OpenStream(c) PROVE TellInv'
    BY <1>1, <1>3, SubscribeTells DEF OpenStream, Readers
  <1>4. ASSUME NEW c \in Streams, StartStream(c) PROVE TellInv'
    <2>1. /\ reader[c] = "subscribed" /\ reader' = [reader EXCEPT ![c] = "reading"]
          /\ UNCHANGED <<log, queue, socket, out, got, busPast>>
      BY <1>4 DEF StartStream
    <2> QED
      BY <1>1, <1>2, <2>1, MoveTells DEF Readers
  <1>5. ASSUME NEW c \in Streams, CloseStream(c) PROVE TellInv'
    <2>1. /\ reader' = [reader EXCEPT ![c] = IF @ = "reading" THEN "none" ELSE "left"]
          /\ UNCHANGED <<log, queue, socket, out, got, busPast>>
      BY <1>5 DEF CloseStream
    <2> QED
      BY <1>1, <1>2, <2>1, MoveTells DEF Readers
  <1>6. ASSUME NEW s \in Sockets, Lose(s) \/ Disconnect(s) PROVE TellInv'
    <2>1. /\ socket' = [socket EXCEPT ![s] = "lost"] \/ socket' = [socket EXCEPT ![s] = "closed"]
          /\ UNCHANGED <<log, queue, reader, out, got, busPast>>
      BY <1>6 DEF Lose, Disconnect
    <2> QED
      BY <1>2, <2>1, MoveTells
  <1>7. ASSUME StartRelay PROVE TellInv'
    BY <1>1, <1>7, SubscribeTells DEF StartRelay
  <1>8. ASSUME NobodyThere PROVE TellInv'
    BY <1>8, MoveTells DEF NobodyThere
  <1> QED
    BY <1>3, <1>4, <1>5, <1>6, <1>7, <1>8, PublishTells, YieldTells, TakeTells, SendTells, ConnectTells
       DEF BusNext

(* A subscriber misses only what was published while its queue was full,   *)
(* for any length of the queues, any number of streams and sockets, and    *)
(* through restarts: services/events.py:31-42 and the relay of             *)
(* routers/ws.py.                                                          *)
THEOREM OverflowIsAllThatIsLost == Spec => []OnlyOverflowMissed
  <1>1. Init => BusInv /\ TellInv
    <2> SUFFICES ASSUME BusInit PROVE TellInv
      BY BusInitInv DEF Init
    <2>1. /\ log = <<>> /\ reader = [q \in Readers |-> "none"] /\ socket = [s \in Sockets |-> "closed"]
          /\ busPast = BusObserved /\ Streams \subseteq Readers
      BY DEF BusInit, Readers
    <2> QED
      BY <2>1 DEF TellInv, PastType, BusObserved, OnlyOverflowMissed, StreamTold, SocketTold
  <1>2. BusInv /\ TellInv /\ [Next]_vars => BusInv' /\ TellInv'
    <2> SUFFICES ASSUME BusInv, TellInv, [Next]_vars PROVE BusInv' /\ TellInv'
      OBVIOUS
    <2>1. CASE BusStep
      BY <2>1, BusStepImplements, BusStepTells DEF BusStep
    <2>2. CASE UNCHANGED busVars
      <3>1. UNCHANGED <<log, queue, reader, socket, out, got, busPast>>
        BY <2>2 DEF busVars
      <3> QED
        BY <2>2, <3>1, BusStays, MoveTells
    <2>3. CASE Restart
      <3>1. /\ reader' = [q \in Readers |-> "none"] /\ socket' = [s \in Sockets |-> "closed"]
            /\ UNCHANGED <<log, got, busPast>> /\ Streams \subseteq Readers
        BY <2>3 DEF Restart, BusRestart, Readers
      <3>2. TellInv'
        BY <3>1 DEF TellInv, PastType, OnlyOverflowMissed, StreamTold, SocketTold
      <3> QED
        BY <2>3, <3>2, BusRestartKeeps DEF Restart
    <2> QED
      BY <2>1, <2>2, <2>3 DEF Next, CampaignStep, ChatStep, vars
  <1>3. TellInv => OnlyOverflowMissed
    BY DEF TellInv
  <1> QED
    BY <1>1, <1>2, <1>3, PTL DEF Spec

-----------------------------------------------------------------------------
(* Campaigns.                                                              *)

CampaignRow == [st : {"draft", "sending", "completed", "gone"}, total : Nat, sent : Nat, failed : Nat]
Sender      == [pc : {"none", "new", "mailing"}, todo : SUBSET Subscribers,
                sent : Nat, failed : Nat, kept : Nat, keptFailed : Nat]
AdminCall   == [pc : {"idle", "send", "delete"}, was : {"none", "draft", "sending", "completed"}]

CampaignType ==
    /\ campaign \in CampaignRow /\ list \subseteq Subscribers
    /\ call \in [Callers -> AdminCall] /\ sender \in [Callers -> Sender]
    /\ mailbox \in [Subscribers -> Nat] /\ IsFiniteSet(Mails)
    /\ past \in [twice : BOOLEAN, changes : Nat]

Active(w) == call[w].pc = "send" \/ sender[w].pc # "none"

(* One call at a time starts to send, or one sender is at work.            *)
OneSender ==
    /\ \A v, w \in Callers : Active(v) /\ Active(w) => v = w
    /\ \A w \in Callers : call[w].pc = "send" => sender[w].pc = "none" /\ campaign.st \in {"draft", "gone"}
    /\ \A w \in Callers : sender[w].pc # "none" => campaign.st \in {"sending", "gone"}

(* Before the first mail nothing is counted.                               *)
NothingSent ==
    campaign.st = "draft" \/ (campaign.st = "sending" /\ \E w \in Callers : sender[w].pc = "new")
        => campaign.sent = 0 /\ campaign.failed = 0 /\ \A s \in Subscribers : mailbox[s] = 0

(* A sender at work counts what it does, and the row is at its last commit.*)
SenderCounts ==
    \A w \in Callers : sender[w].pc = "mailing" =>
        /\ \A s \in sender[w].todo : mailbox[s] = 0
        /\ sender[w].sent = Cardinality(Mails)
        /\ campaign.st = "sending" =>
              /\ campaign.total = Cardinality(sender[w].todo) + sender[w].sent + sender[w].failed
              /\ campaign.sent = sender[w].kept /\ campaign.failed = sender[w].keptFailed

CampaignInv ==
    /\ CampaignType
    /\ ~ past.twice => OneSender /\ NothingSent /\ SenderCounts
    /\ MailedOnce /\ Accounted

-----------------------------------------------------------------------------
(* Counting mails.  One more copy to s is one more mail: send_email.       *)
LEMMA OneMore ==
    ASSUME mailbox \in [Subscribers -> Nat], IsFiniteSet(Mails), NEW s \in Subscribers,
           mailbox' = [mailbox EXCEPT ![s] = mailbox[s] + 1]
    PROVE  IsFiniteSet(Mails') /\ Cardinality(Mails') = Cardinality(Mails) + 1
  <1> DEFINE m == <<s, mailbox[s] + 1>>
  <1>1. m \notin Mails
    BY DEF Mails
  <1>2. Mails' = Mails \cup {m}
    <2>1. 1..mailbox[s] + 1 = (1..mailbox[s]) \cup {mailbox[s] + 1}
      OBVIOUS
    <2>2. mailbox'[s] = mailbox[s] + 1 /\ \A t \in Subscribers \ {s} : mailbox'[t] = mailbox[t]
      OBVIOUS
    <2>3. ASSUME NEW p PROVE p \in Mails' <=> p \in Mails \cup {m}
      <3>1. p \in Mails' <=> \E t \in Subscribers : p \in {t} \X (1..mailbox'[t])
        BY DEF Mails
      <3>2. p \in Mails <=> \E t \in Subscribers : p \in {t} \X (1..mailbox[t])
        BY DEF Mails
      <3>3. p \in {s} \X (1..mailbox'[s]) <=> p \in ({s} \X (1..mailbox[s])) \cup {m}
        BY <2>1, <2>2
      <3> QED
        BY <2>2, <3>1, <3>2, <3>3
    <2> QED
      BY <2>3
  <1> QED
    BY <1>1, <1>2, FS_AddElement

(* Nobody has got a mail.                                                  *)
LEMMA NoMails ==
    ASSUME \A s \in Subscribers : mailbox[s] = 0
    PROVE  Mails = {} /\ IsFiniteSet(Mails) /\ Cardinality(Mails) = 0
  <1>1. Mails = {}
    <2>1. 1..0 = {}
      OBVIOUS
    <2>2. \A s \in Subscribers : 1..mailbox[s] = {}
      BY <2>1
    <2> QED
      BY <2>2 DEF Mails
  <1> QED
    BY <1>1, FS_EmptySet

(* Lists of subscribers are finite.                                        *)
LEMMA Lists ==
    ASSUME NEW S \in SUBSET Subscribers
    PROVE  /\ IsFiniteSet(S) /\ Cardinality(S) \in Nat /\ (S = {} <=> Cardinality(S) = 0)
           /\ \A s \in S : Cardinality(S) = Cardinality(S \ {s}) + 1 /\ Cardinality(S \ {s}) \in Nat
  <1>1. IsFiniteSet(S)
    BY CampaignsAssumption, FS_Subset
  <1>2. Cardinality(S) \in Nat /\ (S = {} <=> Cardinality(S) = 0)
    BY <1>1, FS_CardinalityType, FS_EmptySet
  <1>3. ASSUME NEW s \in S PROVE Cardinality(S) = Cardinality(S \ {s}) + 1 /\ Cardinality(S \ {s}) \in Nat
    <2>1. IsFiniteSet(S \ {s}) /\ Cardinality(S \ {s}) = Cardinality(S) - 1
      BY <1>1, FS_RemoveElement
    <2> QED
      BY <1>2, <2>1, FS_CardinalityType
  <1> QED
    BY <1>1, <1>2, <1>3

-----------------------------------------------------------------------------
(* The first state: a draft.                                               *)
LEMMA CampaignInitInv == CampaignInit => CampaignInv
  <1> SUFFICES ASSUME CampaignInit PROVE CampaignInv
    OBVIOUS
  <1>1. /\ campaign = Draft /\ list = Subscribers /\ past = CampaignObserved
        /\ call = [w \in Callers |-> NoCall] /\ sender = [w \in Callers |-> NoTask]
        /\ mailbox = [s \in Subscribers |-> 0]
    BY DEF CampaignInit
  <1>2. IsFiniteSet(Mails)
    BY <1>1, NoMails
  <1>3. NoCall \in AdminCall /\ NoTask \in Sender /\ Draft \in CampaignRow
    BY DEF NoCall, NoTask, Draft, AdminCall, Sender, CampaignRow
  <1>4. CampaignType
    BY <1>1, <1>2, <1>3 DEF CampaignType, CampaignObserved
  <1>5. \A w \in Callers : call[w].pc = "idle" /\ sender[w].pc = "none"
    BY <1>1 DEF NoCall, NoTask
  <1>6. OneSender /\ NothingSent /\ SenderCounts
    BY <1>1, <1>5 DEF OneSender, Active, NothingSent, SenderCounts, Draft
  <1>7. MailedOnce /\ Accounted
    BY <1>1 DEF MailedOnce, Accounted, Draft
  <1> QED
    BY <1>4, <1>6, <1>7 DEF CampaignInv

(* The rows and tasks that steps write.                                    *)
LEMMA SenderEnds == NoTask \in Sender /\ NoTask.pc = "none" /\ NoCall \in AdminCall /\ NoCall.pc = "idle"
  BY DEF NoTask, Sender, NoCall, AdminCall

(* A call that sends begins: nobody else may be at it, unless that is      *)
(* noticed.                                                                *)
LEMMA CallSendKeeps == ASSUME CampaignInv, NEW w \in Callers, Send(w) PROVE CampaignInv'
  <1>1. /\ call[w].pc = "idle" /\ sender[w].pc = "none" /\ campaign.st \in {"draft", "failed"}
        /\ call' = [call EXCEPT ![w] = [pc |-> "send", was |-> campaign.st]]
        /\ past' = [past EXCEPT !.twice = past.twice \/ Others(w)]
        /\ campaign' = campaign /\ list' = list /\ sender' = sender /\ mailbox' = mailbox
    BY DEF Send, Sendable
  <1>2. campaign.st = "draft" /\ call \in [Callers -> AdminCall] /\ past \in [twice : BOOLEAN, changes : Nat]
    BY <1>1 DEF CampaignInv, CampaignType, CampaignRow
  <1>3. [pc |-> "send", was |-> campaign.st] \in AdminCall
    BY <1>2 DEF AdminCall
  <1>4. past' \in [twice : BOOLEAN, changes : Nat] /\ past'.twice = (past.twice \/ Others(w))
    BY <1>1, <1>2
  <1>5. Mails' = Mails
    BY <1>1 DEF Mails
  <1>6. CampaignType'
    BY <1>1, <1>2, <1>3, <1>4, <1>5 DEF CampaignInv, CampaignType
  <1>7. ASSUME ~ past'.twice PROVE OneSender' /\ NothingSent' /\ SenderCounts'
    <2>1. ~ past.twice /\ \A v \in Callers \ {w} : ~ Active(v)
      BY <1>4, <1>7 DEF Others, Active
    <2>2. OneSender /\ NothingSent /\ SenderCounts
      BY <2>1 DEF CampaignInv
    <2>3. \A v \in Callers \ {w} : call'[v] = call[v]
      BY <1>1, <1>2
    <2>4. OneSender'
      BY <1>1, <1>2, <2>1, <2>2, <2>3 DEF OneSender, Active
    <2>5. NothingSent' /\ SenderCounts'
      BY <1>1, <1>5, <2>2 DEF NothingSent, SenderCounts
    <2> QED
      BY <2>4, <2>5
  <1>8. MailedOnce' /\ Accounted'
    BY <1>1, <1>4, <1>5 DEF CampaignInv, MailedOnce, Accounted
  <1> QED
    BY <1>6, <1>7, <1>8 DEF CampaignInv

(* The call commits and starts a sender.                                   *)
LEMMA CommitSendKeeps == ASSUME CampaignInv, NEW w \in Callers, CommitSend(w) PROVE CampaignInv'
  <1>1. /\ call[w].pc = "send" /\ call' = [call EXCEPT ![w] = NoCall]
        /\ list' = list /\ mailbox' = mailbox /\ past' = past
    BY DEF CommitSend
  <1>2. /\ campaign \in CampaignRow /\ call \in [Callers -> AdminCall] /\ sender \in [Callers -> Sender]
    BY DEF CampaignInv, CampaignType
  <1>3. call' \in [Callers -> AdminCall] /\ call'[w].pc = "idle" /\ \A v \in Callers \ {w} : call'[v] = call[v]
    BY <1>1, <1>2, SenderEnds
  <1>4. Mails' = Mails
    BY <1>1 DEF Mails
  <1>5. CASE campaign.st = "gone"
    <2>1. campaign' = campaign /\ sender' = sender
      BY <1>5 DEF CommitSend
    <2>2. CampaignType'
      BY <1>1, <1>3, <1>4, <2>1 DEF CampaignInv, CampaignType
    <2>3. ~ past.twice => OneSender' /\ NothingSent' /\ SenderCounts'
      BY <1>1, <1>3, <1>4, <2>1 DEF CampaignInv, OneSender, Active, NothingSent, SenderCounts
    <2>4. MailedOnce' /\ Accounted'
      BY <1>1, <1>4, <2>1 DEF CampaignInv, MailedOnce, Accounted
    <2> QED
      BY <1>1, <2>2, <2>3, <2>4 DEF CampaignInv
  <1>6. CASE campaign.st # "gone"
    <2> DEFINE t == [NoTask EXCEPT !.pc = "new"]
    <2>1. campaign' = [campaign EXCEPT !.st = "sending"] /\ sender' = [sender EXCEPT ![w] = t]
      BY <1>6 DEF CommitSend
    <2>2. t \in Sender /\ t.pc = "new"
      BY DEF NoTask, Sender
    <2> HIDE DEF t
    <2>3. /\ sender' \in [Callers -> Sender] /\ sender'[w].pc = "new"
          /\ \A v \in Callers \ {w} : sender'[v] = sender[v]
      BY <1>2, <2>1, <2>2
    <2>4. /\ campaign' \in CampaignRow /\ campaign'.st = "sending" /\ campaign'.sent = campaign.sent
          /\ campaign'.failed = campaign.failed
      BY <1>2, <2>1 DEF CampaignRow
    <2>5. CampaignType'
      BY <1>1, <1>3, <1>4, <2>3, <2>4 DEF CampaignInv, CampaignType
    <2>6. ASSUME ~ past.twice PROVE OneSender' /\ NothingSent' /\ SenderCounts'
      <3>1. OneSender /\ NothingSent /\ SenderCounts
        BY <2>6 DEF CampaignInv
      <3>2. campaign.st = "draft" /\ sender[w].pc = "none" /\ \A v \in Callers \ {w} : ~ Active(v)
        BY <1>1, <1>6, <3>1 DEF OneSender, Active
      <3>3. \A v \in Callers \ {w} : sender'[v].pc = "none" /\ call'[v].pc # "send"
        BY <1>3, <2>3, <3>2 DEF Active
      <3>4. OneSender'
        BY <1>3, <2>3, <2>4, <3>3 DEF OneSender, Active
      <3>5. NothingSent'
        BY <1>1, <2>4, <3>1, <3>2 DEF NothingSent
      <3>6. SenderCounts'
        BY <2>3, <3>3 DEF SenderCounts
      <3> QED
        BY <3>4, <3>5, <3>6
    <2>7. MailedOnce' /\ Accounted'
      BY <1>1, <2>4 DEF CampaignInv, MailedOnce, Accounted
    <2> QED
      BY <1>1, <2>5, <2>6, <2>7 DEF CampaignInv
  <1> QED
    BY <1>5, <1>6

(* A campaign that is no draft is not sent any more, so deleting it, or a  *)
(* call to, makes no difference to a sender.                               *)
LEMMA DeleteKeeps ==
    ASSUME CampaignInv, NEW w \in Callers, Delete(w) \/ CommitDelete(w) PROVE CampaignInv'
  <1>1. /\ list' = list /\ sender' = sender /\ mailbox' = mailbox /\ past' = past
        /\ campaign' = campaign \/ campaign' = [campaign EXCEPT !.st = "gone"]
        /\ call[w].pc \in {"idle", "delete"}
        /\ call' = [call EXCEPT ![w] = NoCall] \/ call' = [call EXCEPT ![w] = [pc |-> "delete", was |-> campaign.st]]
    BY DEF Delete, CommitDelete
  <1>2. campaign \in CampaignRow /\ call \in [Callers -> AdminCall]
    BY DEF CampaignInv, CampaignType
  <1>3. /\ call' \in [Callers -> AdminCall] /\ call'[w].pc \in {"idle", "delete"}
        /\ \A v \in Callers \ {w} : call'[v] = call[v]
    <2>1. CASE CommitDelete(w)
      BY <1>2, <2>1, SenderEnds DEF CommitDelete
    <2>2. CASE Delete(w)
      <3>1. [pc |-> "delete", was |-> campaign.st] \in AdminCall
        BY <1>2, <2>2 DEF Delete, CampaignRow, AdminCall
      <3> QED
        BY <1>2, <2>2, <3>1 DEF Delete
    <2> QED
      BY <2>1, <2>2
  <1>4. campaign' \in CampaignRow /\ campaign'.st \in {campaign.st, "gone"}
        /\ (campaign'.st # "gone" => campaign' = campaign)
    BY <1>1, <1>2 DEF CampaignRow
  <1>5. Mails' = Mails
    BY <1>1 DEF Mails
  <1>6. CampaignType'
    BY <1>1, <1>3, <1>4, <1>5 DEF CampaignInv, CampaignType
  <1>7. ASSUME ~ past.twice PROVE OneSender' /\ NothingSent' /\ SenderCounts'
    <2>1. OneSender /\ NothingSent /\ SenderCounts
      BY <1>7 DEF CampaignInv
    <2>2. \A v \in Callers : call'[v].pc = "send" => call[v].pc = "send"
      BY <1>3
    <2>3. OneSender'
      BY <1>1, <1>4, <2>1, <2>2 DEF OneSender, Active
    <2>4. NothingSent'
      BY <1>1, <1>4, <2>1 DEF NothingSent
    <2>5. SenderCounts'
      BY <1>1, <1>4, <1>5, <2>1 DEF SenderCounts
    <2> QED
      BY <2>3, <2>4, <2>5
  <1>8. MailedOnce' /\ Accounted'
    BY <1>1, <1>4, <1>5 DEF CampaignInv, MailedOnce, Accounted
  <1> QED
    BY <1>1, <1>6, <1>7, <1>8 DEF CampaignInv

-----------------------------------------------------------------------------
(* Steps of the one sender: nobody else is at it, so what holds of it then *)
(* holds of all.                                                           *)
LEMMA OneSenderSteps ==
    ASSUME CampaignInv, ~ past.twice, NEW w \in Callers, sender[w].pc # "none", UNCHANGED <<call, past>>,
           \A v \in Callers \ {w} : sender'[v] = sender[v],
           campaign'.st # "draft", sender'[w].pc # "new",
           sender'[w].pc = "mailing" =>
               /\ campaign'.st \in {"sending", "gone"}
               /\ \A s \in sender'[w].todo : mailbox'[s] = 0
               /\ sender'[w].sent = Cardinality(Mails')
               /\ campaign'.st = "sending" =>
                     /\ campaign'.total = Cardinality(sender'[w].todo) + sender'[w].sent + sender'[w].failed
                     /\ campaign'.sent = sender'[w].kept /\ campaign'.failed = sender'[w].keptFailed,
           sender'[w].pc \in {"none", "mailing"}
    PROVE  OneSender' /\ NothingSent' /\ SenderCounts'
  <1>1. OneSender
    BY DEF CampaignInv
  <1>2. \A v \in Callers \ {w} : sender[v].pc = "none" /\ call[v].pc # "send"
    BY <1>1 DEF OneSender, Active
  <1>3. call[w].pc # "send"
    BY <1>1 DEF OneSender
  <1>4. \A v \in Callers \ {w} : sender'[v].pc = "none"
    BY <1>2
  <1>5. OneSender'
    BY <1>2, <1>3, <1>4 DEF OneSender, Active
  <1>6. NothingSent'
    BY <1>4 DEF NothingSent
  <1>7. SenderCounts'
    BY <1>4 DEF SenderCounts
  <1> QED
    BY <1>5, <1>6, <1>7

(* _send_campaign_job starts, and finds the subscribers.                   *)
LEMMA BeginKeeps == ASSUME CampaignInv, NEW w \in Callers, Begin(w) PROVE CampaignInv'
  <1>1. sender[w].pc = "new" /\ list' = list /\ call' = call /\ mailbox' = mailbox /\ past' = past
    BY DEF Begin
  <1>2. campaign \in CampaignRow /\ sender \in [Callers -> Sender] /\ list \in SUBSET Subscribers
    BY DEF CampaignInv, CampaignType
  <1>3. Mails' = Mails
    BY <1>1 DEF Mails
  <1>4. CASE campaign.st # "sending"
    <2>1. sender' = [sender EXCEPT ![w] = NoTask] /\ campaign' = campaign
      BY <1>4 DEF Begin, End
    <2>2. /\ sender' \in [Callers -> Sender] /\ sender'[w].pc = "none"
          /\ \A v \in Callers \ {w} : sender'[v] = sender[v]
      BY <1>2, <2>1, SenderEnds
    <2>3. CampaignType'
      BY <1>1, <1>3, <2>1, <2>2 DEF CampaignInv, CampaignType
    <2>4. ~ past.twice => campaign.st # "draft"
      BY <1>1 DEF CampaignInv, OneSender
    <2>5. ~ past.twice => OneSender' /\ NothingSent' /\ SenderCounts'
      BY <1>1, <2>1, <2>2, <2>4, OneSenderSteps
    <2>6. MailedOnce' /\ Accounted'
      BY <1>1, <1>3, <2>1 DEF CampaignInv, MailedOnce, Accounted
    <2> QED
      BY <1>1, <2>3, <2>5, <2>6 DEF CampaignInv
  <1>5. CASE campaign.st = "sending"
    <2> DEFINE t == [pc |-> "mailing", todo |-> list, sent |-> campaign.sent, failed |-> campaign.failed,
                     kept |-> campaign.sent, keptFailed |-> campaign.failed]
    <2>1. sender' = [sender EXCEPT ![w] = t] /\ campaign' = [campaign EXCEPT !.total = Cardinality(list)]
      BY <1>5 DEF Begin
    <2>2. t \in Sender /\ Cardinality(list) \in Nat
      BY <1>2, Lists DEF CampaignRow, Sender
    <2>3. /\ sender' \in [Callers -> Sender] /\ sender'[w] = t
          /\ \A v \in Callers \ {w} : sender'[v] = sender[v]
      BY <1>2, <2>1, <2>2
    <2>4. /\ campaign' \in CampaignRow /\ campaign'.st = "sending" /\ campaign'.sent = campaign.sent
          /\ campaign'.failed = campaign.failed /\ campaign'.total = Cardinality(list)
      BY <1>2, <1>5, <2>1, <2>2 DEF CampaignRow
    <2>5. CampaignType'
      BY <1>1, <1>3, <2>3, <2>4 DEF CampaignInv, CampaignType
    <2>6. ASSUME ~ past.twice PROVE OneSender' /\ NothingSent' /\ SenderCounts'
      <3>1. campaign.sent = 0 /\ campaign.failed = 0 /\ \A s \in Subscribers : mailbox[s] = 0
        BY <1>1, <1>5, <2>6 DEF CampaignInv, NothingSent
      <3>2. Cardinality(Mails') = 0
        BY <1>3, <3>1, NoMails
      <3>3. /\ t.pc = "mailing" /\ t.todo = list /\ t.sent = 0 /\ t.failed = 0 /\ t.kept = 0 /\ t.keptFailed = 0
        BY <3>1
      <3> HIDE DEF t
      <3>4. /\ \A s \in sender'[w].todo : mailbox'[s] = 0
            /\ campaign'.total = Cardinality(sender'[w].todo) + sender'[w].sent + sender'[w].failed
        BY <1>1, <1>2, <2>2, <2>3, <2>4, <3>1, <3>3
      <3> QED
        BY <1>1, <2>3, <2>4, <2>6, <3>1, <3>2, <3>3, <3>4, OneSenderSteps
    <2>7. MailedOnce' /\ Accounted'
      BY <1>1, <2>4 DEF CampaignInv, MailedOnce, Accounted
    <2> QED
      BY <1>1, <2>5, <2>6, <2>7 DEF CampaignInv
  <1> QED
    BY <1>4, <1>5

(* What a sender has done after one more mail.                             *)
LEMMA DoneIs ==
    ASSUME NEW c \in Sender, c.pc = "mailing", NEW s \in Subscribers, NEW ok \in BOOLEAN
    PROVE  LET t == Done(c, s, ok) IN
           /\ t \in Sender /\ t.pc = "mailing" /\ t.todo = c.todo \ {s}
           /\ t.kept = c.kept /\ t.keptFailed = c.keptFailed
           /\ t.sent = c.sent + (IF ok THEN 1 ELSE 0) /\ t.failed = c.failed + (IF ok THEN 0 ELSE 1)
  <1> DEFINE t == Done(c, s, ok)
  <1>1. /\ c.todo \subseteq Subscribers /\ c.sent \in Nat /\ c.failed \in Nat
        /\ c.kept \in Nat /\ c.keptFailed \in Nat
        /\ c = [pc |-> c.pc, todo |-> c.todo, sent |-> c.sent, failed |-> c.failed,
                kept |-> c.kept, keptFailed |-> c.keptFailed]
    BY DEF Sender
  <1> DEFINE one == IF ok THEN 1 ELSE 0
             other == IF ok THEN 0 ELSE 1
  <1>2. t = [pc |-> c.pc, todo |-> c.todo \ {s}, sent |-> c.sent + one,
             failed |-> c.failed + other, kept |-> c.kept, keptFailed |-> c.keptFailed]
    <2>1. t = [c EXCEPT !.todo = c.todo \ {s}, !.sent = c.sent + one, !.failed = c.failed + other]
      BY DEF Done
    <2> HIDE DEF t, one, other
    <2> QED
      BY <1>1, <2>1
  <1>3. c.sent + one \in Nat /\ c.failed + other \in Nat
    BY <1>1
  <1>4. t \in Sender
    BY <1>1, <1>2, <1>3 DEF Sender
  <1> QED
    BY <1>2, <1>4

(* A commit of the counts.                                                 *)
LEMMA CountsAre ==
    ASSUME campaign \in CampaignRow, NEW t \in Sender
    PROVE  /\ Counts(t) \in CampaignRow /\ Counts(t).st = campaign.st /\ Counts(t).total = campaign.total
           /\ campaign.sent = t.kept => Counts(t).sent = t.sent
           /\ campaign.failed = t.keptFailed => Counts(t).failed = t.failed
           /\ [t EXCEPT !.kept = t.sent, !.keptFailed = t.failed] \in Sender
           /\ [Counts(t) EXCEPT !.st = "completed"] \in CampaignRow
  <1>1. t.sent \in Nat /\ t.failed \in Nat /\ campaign.sent \in Nat /\ campaign.failed \in Nat
    BY DEF Sender, CampaignRow
  <1>2. Counts(t) = [st |-> campaign.st, total |-> campaign.total,
                     sent |-> IF t.sent = t.kept THEN campaign.sent ELSE t.sent,
                     failed |-> IF t.failed = t.keptFailed THEN campaign.failed ELSE t.failed]
    <2> DEFINE newSent == IF t.sent = t.kept THEN campaign.sent ELSE t.sent
               newFailed == IF t.failed = t.keptFailed THEN campaign.failed ELSE t.failed
    <2>1. Counts(t) = [campaign EXCEPT !.sent = newSent, !.failed = newFailed]
      BY DEF Counts
    <2>2. campaign = [st |-> campaign.st, total |-> campaign.total, sent |-> campaign.sent,
                      failed |-> campaign.failed]
      BY DEF CampaignRow
    <2> HIDE DEF newSent, newFailed
    <2>3. Counts(t) = [st |-> campaign.st, total |-> campaign.total, sent |-> newSent, failed |-> newFailed]
      BY <2>1, <2>2
    <2> QED
      BY <2>3 DEF newSent, newFailed
  <1>3. Counts(t) \in CampaignRow
    BY <1>1, <1>2 DEF CampaignRow
  <1>4. [t EXCEPT !.kept = t.sent, !.keptFailed = t.failed] \in Sender
    BY <1>1 DEF Sender
  <1>5. [Counts(t) EXCEPT !.st = "completed"] \in CampaignRow
    BY <1>3 DEF CampaignRow
  <1> QED
    BY <1>2, <1>3, <1>4, <1>5

(* A mail goes out, or is refused; the counts are committed when the batch *)
(* is full, and a campaign that is gone by then ends the task.             *)
LEMMA MailKeeps ==
    ASSUME CampaignInv, NEW w \in Callers, NEW s \in Subscribers, NEW ok \in BOOLEAN, Mail(w, s, ok)
    PROVE  CampaignInv'
  <1> DEFINE c == sender[w]
             t == Done(c, s, ok)
             u == [t EXCEPT !.kept = t.sent, !.keptFailed = t.failed]
  <1>1. /\ c.pc = "mailing" /\ s \in c.todo /\ list' = list /\ call' = call /\ past' = past
        /\ mailbox' = IF ok THEN [mailbox EXCEPT ![s] = mailbox[s] + 1] ELSE mailbox
        /\ \/ sender' = [sender EXCEPT ![w] = t] /\ campaign' = campaign
           \/ sender' = [sender EXCEPT ![w] = NoTask] /\ campaign' = campaign /\ campaign.st = "gone"
           \/ sender' = [sender EXCEPT ![w] = u] /\ campaign' = Counts(t)
    BY DEF Mail, End
  <1>2. /\ campaign \in CampaignRow /\ sender \in [Callers -> Sender] /\ mailbox \in [Subscribers -> Nat]
        /\ IsFiniteSet(Mails) /\ c \in Sender
    BY DEF CampaignInv, CampaignType
  <1>3. /\ t \in Sender /\ t.pc = "mailing" /\ t.todo = c.todo \ {s}
        /\ t.kept = c.kept /\ t.keptFailed = c.keptFailed
        /\ t.sent = c.sent + (IF ok THEN 1 ELSE 0) /\ t.failed = c.failed + (IF ok THEN 0 ELSE 1)
    BY <1>1, <1>2, DoneIs
  <1> HIDE DEF t
  <1>4. /\ Counts(t) \in CampaignRow /\ Counts(t).st = campaign.st /\ Counts(t).total = campaign.total
        /\ campaign.sent = t.kept => Counts(t).sent = t.sent
        /\ campaign.failed = t.keptFailed => Counts(t).failed = t.failed
        /\ u \in Sender
    BY <1>2, <1>3, CountsAre
  <1>5. /\ u.pc = t.pc /\ u.todo = t.todo /\ u.sent = t.sent /\ u.failed = t.failed
        /\ u.kept = t.sent /\ u.keptFailed = t.failed
    BY <1>3 DEF Sender
  <1> HIDE DEF u
  <1>6. /\ sender' \in [Callers -> Sender] /\ sender'[w] \in {t, u, NoTask}
        /\ \A v \in Callers \ {w} : sender'[v] = sender[v]
    BY <1>1, <1>2, <1>3, <1>4, SenderEnds
  <1>7. mailbox' \in [Subscribers -> Nat] /\ \A v \in Subscribers \ {s} : mailbox'[v] = mailbox[v]
    BY <1>1, <1>2
  <1>8. IsFiniteSet(Mails') /\ Cardinality(Mails') = Cardinality(Mails) + (IF ok THEN 1 ELSE 0)
    <2>1. CASE ok
      BY <1>1, <1>2, <2>1, OneMore
    <2>2. CASE ~ ok
      <3>1. Mails' = Mails
        BY <1>1, <2>2 DEF Mails
      <3> QED
        BY <1>2, <2>2, <3>1, FS_CardinalityType
    <2> QED
      BY <2>1, <2>2
  <1>9. campaign' \in CampaignRow /\ campaign'.st = campaign.st /\ campaign'.total = campaign.total
    BY <1>1, <1>2, <1>4
  <1>10. CampaignType'
    BY <1>1, <1>6, <1>7, <1>8, <1>9 DEF CampaignInv, CampaignType
  <1>11. ASSUME ~ past.twice
         PROVE  /\ OneSender' /\ NothingSent' /\ SenderCounts'
                /\ campaign'.st \in {"sending", "gone"} /\ \A v \in Subscribers : mailbox'[v] <= 1
    <2>1. campaign.st \in {"sending", "gone"}
      BY <1>1, <1>11 DEF CampaignInv, OneSender
    <2>2. /\ \A v \in c.todo : mailbox[v] = 0
          /\ c.sent = Cardinality(Mails)
          /\ campaign.st = "sending" => /\ campaign.total = Cardinality(c.todo) + c.sent + c.failed
                                        /\ campaign.sent = c.kept /\ campaign.failed = c.keptFailed
      BY <1>1, <1>11 DEF CampaignInv, SenderCounts
    <2>3. \A v \in Subscribers : mailbox'[v] <= 1
      <3>1. \A v \in Subscribers : mailbox[v] <= 1
        BY <1>11 DEF CampaignInv, MailedOnce
      <3>2. mailbox'[s] <= 1
        BY <1>1, <1>2, <2>2
      <3> QED
        BY <1>7, <3>1, <3>2
    <2>4. \A v \in t.todo : mailbox'[v] = 0
      BY <1>2, <1>3, <1>7, <2>2 DEF Sender
    <2>5. t.sent = Cardinality(Mails')
      BY <1>3, <1>8, <2>2
    <2>6. Cardinality(c.todo) = Cardinality(t.todo) + 1 /\ Cardinality(t.todo) \in Nat
      BY <1>1, <1>2, <1>3, Lists DEF Sender
    <2>7. c.sent \in Nat /\ c.failed \in Nat
      BY <1>2 DEF Sender
    <2>8. campaign.st = "sending" => campaign.total = Cardinality(t.todo) + t.sent + t.failed
      <3>1. t.sent + t.failed = c.sent + c.failed + 1
        BY <1>3, <2>7
      <3>2. t.sent \in Nat /\ t.failed \in Nat
        BY <1>3 DEF Sender
      <3> QED
        BY <2>2, <2>6, <2>7, <3>1, <3>2
    <2>9. sender'[w].pc = "mailing" =>
             /\ \A v \in sender'[w].todo : mailbox'[v] = 0
             /\ sender'[w].sent = Cardinality(Mails')
             /\ campaign'.st = "sending" =>
                   /\ campaign'.total = Cardinality(sender'[w].todo) + sender'[w].sent + sender'[w].failed
                   /\ campaign'.sent = sender'[w].kept /\ campaign'.failed = sender'[w].keptFailed
      <3>1. CASE sender' = [sender EXCEPT ![w] = t] /\ campaign' = campaign
        <4>1. sender'[w] = t
          BY <1>2, <3>1
        <4> QED
          BY <1>3, <2>2, <2>4, <2>5, <2>8, <3>1, <4>1
      <3>2. CASE sender' = [sender EXCEPT ![w] = NoTask]
        BY <1>2, <3>2, SenderEnds
      <3>3. CASE sender' = [sender EXCEPT ![w] = u] /\ campaign' = Counts(t)
        <4>1. sender'[w] = u
          BY <1>2, <3>3
        <4> QED
          BY <1>3, <1>4, <1>5, <2>2, <2>4, <2>5, <2>8, <3>3, <4>1
      <3> QED
        BY <1>1, <3>1, <3>2, <3>3
    <2>10. sender'[w].pc \in {"none", "mailing"}
      BY <1>3, <1>5, <1>6, SenderEnds
    <2>11. OneSender' /\ NothingSent' /\ SenderCounts'
      BY <1>1, <1>6, <1>9, <1>11, <2>1, <2>9, <2>10, OneSenderSteps
    <2> QED
      BY <1>9, <2>1, <2>3, <2>11
  <1>12. MailedOnce' /\ Accounted'
    BY <1>1, <1>11 DEF MailedOnce, Accounted
  <1> QED
    BY <1>1, <1>10, <1>11, <1>12 DEF CampaignInv

(* The sender completes the campaign: it had a mail for everybody.         *)
LEMMA CompleteKeeps == ASSUME CampaignInv, NEW w \in Callers, Complete(w) PROVE CampaignInv'
  <1> DEFINE c == sender[w]
  <1>1. /\ c.pc = "mailing" /\ c.todo = {} /\ list' = list /\ call' = call /\ past' = past /\ mailbox' = mailbox
        /\ campaign' = IF campaign.st = "gone" THEN campaign ELSE [Counts(c) EXCEPT !.st = "completed"]
        /\ sender' = [sender EXCEPT ![w] = NoTask]
    BY DEF Complete, Finished, End
  <1>2. /\ campaign \in CampaignRow /\ sender \in [Callers -> Sender] /\ c \in Sender
    BY DEF CampaignInv, CampaignType
  <1>3. /\ sender' \in [Callers -> Sender] /\ sender'[w].pc = "none"
        /\ \A v \in Callers \ {w} : sender'[v] = sender[v]
    BY <1>1, <1>2, SenderEnds
  <1>4. Mails' = Mails
    BY <1>1 DEF Mails
  <1>5. /\ Counts(c) \in CampaignRow /\ Counts(c).total = campaign.total
        /\ campaign.sent = c.kept => Counts(c).sent = c.sent
        /\ campaign.failed = c.keptFailed => Counts(c).failed = c.failed
        /\ [Counts(c) EXCEPT !.st = "completed"] \in CampaignRow
    BY <1>2, CountsAre
  <1>6. campaign' \in CampaignRow /\ campaign'.st \in {"gone", "completed"}
    BY <1>1, <1>2, <1>5 DEF CampaignRow
  <1>7. CampaignType'
    BY <1>1, <1>3, <1>4, <1>6 DEF CampaignInv, CampaignType
  <1>8. ASSUME ~ past.twice PROVE OneSender' /\ NothingSent' /\ SenderCounts'
    BY <1>1, <1>3, <1>6, <1>8, OneSenderSteps
  <1>9. ASSUME ~ past.twice, campaign'.st = "completed"
        PROVE  campaign'.sent = Cardinality(Mails') /\ campaign'.sent + campaign'.failed = campaign'.total
    <2>1. campaign.st = "sending"
      BY <1>1, <1>9 DEF CampaignInv, OneSender
    <2>2. /\ c.sent = Cardinality(Mails) /\ campaign.total = Cardinality(c.todo) + c.sent + c.failed
          /\ campaign.sent = c.kept /\ campaign.failed = c.keptFailed
      BY <1>1, <1>9, <2>1 DEF CampaignInv, SenderCounts
    <2>3. Cardinality(c.todo) = 0 /\ c.sent \in Nat /\ c.failed \in Nat
      BY <1>1, <1>2, FS_EmptySet DEF Sender
    <2>4. campaign'.sent = c.sent /\ campaign'.failed = c.failed /\ campaign'.total = campaign.total
      BY <1>1, <1>5, <2>1, <2>2 DEF CampaignRow
    <2> QED
      BY <1>4, <2>2, <2>3, <2>4
  <1>10. MailedOnce' /\ Accounted'
    BY <1>1, <1>9 DEF CampaignInv, MailedOnce, Accounted
  <1> QED
    BY <1>1, <1>7, <1>8, <1>10 DEF CampaignInv

(* A change of the list of subscribers does not touch a sender's own.      *)
LEMMA ChangeKeeps == ASSUME CampaignInv, NEW s \in Subscribers, ChangeList(s) PROVE CampaignInv'
  <1>1. /\ list' \subseteq list \cup {s} /\ past' = [past EXCEPT !.changes = past.changes + 1]
        /\ campaign' = campaign /\ call' = call /\ sender' = sender /\ mailbox' = mailbox
    BY DEF ChangeList
  <1>2. past \in [twice : BOOLEAN, changes : Nat] /\ list \subseteq Subscribers
    BY DEF CampaignInv, CampaignType
  <1>3. past' \in [twice : BOOLEAN, changes : Nat] /\ past'.twice = past.twice /\ list' \subseteq Subscribers
    BY <1>1, <1>2
  <1>4. Mails' = Mails
    BY <1>1 DEF Mails
  <1>5. CampaignType'
    BY <1>1, <1>3, <1>4 DEF CampaignInv, CampaignType
  <1> QED
    BY <1>1, <1>3, <1>4, <1>5 DEF CampaignInv, OneSender, Active, NothingSent, SenderCounts, MailedOnce, Accounted

(* A restart ends the calls and the senders.                               *)
LEMMA CampaignRestartKeeps == ASSUME CampaignInv, CampaignRestart PROVE CampaignInv'
  <1>1. /\ call' = [w \in Callers |-> NoCall] /\ sender' = [w \in Callers |-> NoTask]
        /\ campaign' = campaign /\ list' = list /\ mailbox' = mailbox /\ past' = past
    BY DEF CampaignRestart
  <1>2. \A w \in Callers : call'[w].pc = "idle" /\ sender'[w].pc = "none"
    BY <1>1, SenderEnds
  <1>3. Mails' = Mails
    BY <1>1 DEF Mails
  <1>4. CampaignType'
    BY <1>1, <1>3, SenderEnds DEF CampaignInv, CampaignType
  <1>5. OneSender' /\ SenderCounts'
    BY <1>2 DEF OneSender, Active, SenderCounts
  <1>6. ~ past.twice => NothingSent'
    BY <1>1, <1>2 DEF CampaignInv, NothingSent
  <1> QED
    BY <1>1, <1>3, <1>4, <1>5, <1>6 DEF CampaignInv, MailedOnce, Accounted

(* Every step of the process keeps the invariant of the campaign.          *)
LEMMA CampaignStepKeeps == CampaignInv /\ [Next]_vars => CampaignInv'
  <1> SUFFICES ASSUME CampaignInv, [Next]_vars PROVE CampaignInv'
    OBVIOUS
  <1>1. CASE CampaignNext
    BY <1>1, CallSendKeeps, CommitSendKeeps, DeleteKeeps, BeginKeeps, MailKeeps, CompleteKeeps, ChangeKeeps
       DEF CampaignNext, SenderStep
  <1>2. CASE UNCHANGED campaignVars
    <2>1. UNCHANGED <<campaign, list, call, sender, mailbox, past>>
      BY <1>2 DEF campaignVars
    <2>2. Mails' = Mails
      BY <2>1 DEF Mails
    <2>3. CampaignType'
      BY <2>1, <2>2 DEF CampaignInv, CampaignType
    <2> QED
      BY <2>1, <2>2, <2>3
         DEF CampaignInv, OneSender, Active, NothingSent, SenderCounts, MailedOnce, Accounted
  <1>3. CASE Restart
    BY <1>3, CampaignRestartKeeps DEF Restart
  <1> QED
    BY <1>1, <1>2, <1>3 DEF Next, BusStep, CampaignStep, ChatStep, vars

(* routers/campaigns.py mails nobody twice, for any subscribers, callers   *)
(* and size of a batch, and wherever the process restarts, unless two      *)
(* calls start senders at the same time.                                   *)
THEOREM NobodyMailedTwice == Spec => []MailedOnce
  <1>1. Init => CampaignInv
    BY CampaignInitInv DEF Init
  <1>2. CampaignInv => MailedOnce
    BY DEF CampaignInv
  <1> QED
    BY <1>1, <1>2, CampaignStepKeeps, PTL DEF Spec

(* The counts of a completed campaign are those of the mails that went     *)
(* out, and leave nobody out: _send_campaign_job.                          *)
THEOREM CountsAreTrue == Spec => []Accounted
  <1>1. Init => CampaignInv
    BY CampaignInitInv DEF Init
  <1>2. CampaignInv => Accounted
    BY DEF CampaignInv
  <1> QED
    BY <1>1, <1>2, CampaignStepKeeps, PTL DEF Spec

-----------------------------------------------------------------------------
(* The support chat.                                                       *)

ChatRow == [pk : Nat, open : BOOLEAN, forAdmin : Nat, forCustomer : Nat]
Frame   == [pc   : {"idle", "find", "insert", "history", "reset", "greet", "send", "sent", "sending",
                    "read", "unread", "close"},
            goal : {"none", "history", "send", "read", "unread", "close"},
            row  : ChatRow, m : Nat, list : SUBSET Nat, todo : SUBSET Tabs]

ChatType ==
    /\ conv \in ChatRow
    /\ ids \in [session : Nat, message : Nat] /\ messages \subseteq 1..ids.message
    /\ tab \in [Tabs -> {"closed", "joined", "live"}]
    /\ task \in [Workers -> Frame]
    /\ seen \in [Tabs -> SUBSET Nat]
    /\ chatPast \in [joined : [Tabs -> Nat], cut : [Tabs -> SUBSET Nat]]

(* A frame that has a row knows it by its id; only what is being sent has  *)
(* tabs left; a connection that is not greeted yet is in the pool.         *)
Fits(f, where) ==
    /\ f.pc # "sending" => f.todo = {}
    /\ f.pc \in {"find", "insert"} => f.goal # "none"
    /\ f.pc \in {"history", "reset", "greet", "send", "read", "unread", "close"} => f.row.pk # 0
    /\ f.pc \in {"history", "reset", "greet"} \/ (f.pc \in {"find", "insert"} /\ f.goal = "history")
          => where = "joined"

FramesFit ==
    /\ \A t \in Tabs : Fits(task[t], tab[t])
    /\ \A w \in Desks : Fits(task[w], "joined")

(* No conversation, no messages; and none that was there when a tab joined *)
(* is there once the conversation it has read is gone.                     *)
RowsFit ==
    /\ conv.pk = 0 => messages = {}
    /\ \A t \in Tabs : /\ chatPast.joined[t] <= ids.message
                       /\ task[t].pc = "history" /\ Gone(t) => \A m \in messages : m > chatPast.joined[t]

(* What was there when the tab joined is in its history.                   *)
HistoryHeld ==
    \A t \in Tabs, m \in messages :
        m <= chatPast.joined[t] /\ m \notin chatPast.cut[t] =>
            /\ tab[t] = "live" => m \in seen[t]
            /\ task[t].pc \in {"reset", "greet"} => m \in task[t].list

(* What came later has come to the tab, or will.                           *)
LiveHeld ==
    \A t \in Tabs : tab[t] # "closed" =>
        \A m \in messages : m > chatPast.joined[t] => m \in seen[t] \/ OnItsWay(m, t)

ChatInv == ChatType /\ FramesFit /\ RowsFit /\ HistoryHeld /\ LiveHeld

-----------------------------------------------------------------------------
(* Fields of the frames that steps write.                                  *)
LEMMA NoFrameIs ==
    /\ NoFrame \in Frame /\ NoFrame.pc = "idle" /\ NoFrame.todo = {} /\ NoRow \in ChatRow /\ NoRow.pk = 0
    /\ \A where : Fits(NoFrame, where)
  BY DEF NoFrame, NoRow, Frame, ChatRow, Fits

(* What is on its way stays so when one worker that sends nothing takes a  *)
(* step.                                                                   *)
LEMMA OnItsWayStays ==
    ASSUME NEW w \in Workers, task[w].pc # "sent", task[w].todo = {},
           \A v \in Workers \ {w} : task'[v] = task[v],
           NEW m, NEW t, OnItsWay(m, t)
    PROVE  OnItsWay(m, t)'
  <1>1. PICK v \in Workers : task[v].m = m /\ (task[v].pc = "sent" \/ t \in task[v].todo)
    BY DEF OnItsWay
  <1>2. v # w
    BY <1>1
  <1> QED
    BY <1>1, <1>2 DEF OnItsWay

(* A worker that sends nothing goes on with its frame: most of the calls   *)
(* of routers/chat.py.                                                     *)
LEMMA FrameStep ==
    ASSUME ChatInv, NEW w \in Workers, NEW f \in Frame, task' = [task EXCEPT ![w] = f],
           task[w].pc # "sent", task[w].todo = {},
           conv' \in ChatRow, conv'.pk = conv.pk, UNCHANGED <<messages, ids, tab, seen, chatPast>>,
           Fits(f, IF w \in Tabs THEN tab[w] ELSE "joined"),
           w \in Tabs /\ f.pc = "history" => f.row.pk = conv.pk,
           w \in Tabs /\ f.pc \in {"reset", "greet"} => task[w].pc \in {"reset", "greet"} /\ f.list = task[w].list
    PROVE  ChatInv'
  <1>1. task \in [Workers -> Frame]
    BY DEF ChatInv, ChatType
  <1>2. task' \in [Workers -> Frame] /\ task'[w] = f /\ \A v \in Workers \ {w} : task'[v] = task[v]
    BY <1>1
  <1>3. Tabs \subseteq Workers /\ Desks \subseteq Workers /\ \A v \in Desks : v \notin Tabs
    BY ChatAssumption DEF Workers
  <1>4. ChatType'
    BY <1>2 DEF ChatInv, ChatType
  <1>5. FramesFit'
    <2>1. ASSUME NEW t \in Tabs PROVE Fits(task'[t], tab'[t])
      BY <1>2, <1>3 DEF ChatInv, FramesFit
    <2>2. ASSUME NEW v \in Desks PROVE Fits(task'[v], "joined")
      BY <1>2, <1>3 DEF ChatInv, FramesFit
    <2> QED
      BY <2>1, <2>2 DEF FramesFit
  <1>6. RowsFit'
    BY <1>2, <1>3 DEF ChatInv, RowsFit, Gone
  <1>7. HistoryHeld'
    <2> SUFFICES ASSUME NEW t \in Tabs, NEW m \in messages, m \notin chatPast.cut[t], m <= chatPast.joined[t]
                 PROVE  /\ tab[t] = "live" => m \in seen[t]
                        /\ task'[t].pc \in {"reset", "greet"} => m \in task'[t].list
      BY DEF HistoryHeld
    <2>1. /\ tab[t] = "live" => m \in seen[t]
          /\ task[t].pc \in {"reset", "greet"} => m \in task[t].list
      BY DEF ChatInv, HistoryHeld
    <2> QED
      BY <1>2, <1>3, <2>1
  <1>8. LiveHeld'
    BY <1>2, OnItsWayStays DEF ChatInv, LiveHeld
  <1> QED
    BY <1>4, <1>5, <1>6, <1>7, <1>8 DEF ChatInv

(* An exception ends the connection of a tab.                              *)
LEMMA FailStep ==
    ASSUME ChatInv, NEW w \in Workers, Fail(w), task[w].pc # "sent", task[w].todo = {},
           UNCHANGED <<conv, messages, ids, chatPast>>
    PROVE  ChatInv'
  <1>1. /\ task' = [task EXCEPT ![w] = NoFrame]
        /\ tab' = IF w \in Tabs THEN [tab EXCEPT ![w] = "closed"] ELSE tab
        /\ seen' = IF w \in Tabs THEN [seen EXCEPT ![w] = {}] ELSE seen
    BY DEF Fail
  <1>2. task \in [Workers -> Frame] /\ tab \in [Tabs -> {"closed", "joined", "live"}] /\ seen \in [Tabs -> SUBSET Nat]
    BY DEF ChatInv, ChatType
  <1>3. task' \in [Workers -> Frame] /\ task'[w] = NoFrame /\ \A v \in Workers \ {w} : task'[v] = task[v]
    BY <1>1, <1>2, NoFrameIs
  <1>4. /\ tab' \in [Tabs -> {"closed", "joined", "live"}] /\ seen' \in [Tabs -> SUBSET Nat]
        /\ \A t \in Tabs : t # w => tab'[t] = tab[t] /\ seen'[t] = seen[t]
        /\ w \in Tabs => tab'[w] = "closed"
    BY <1>1, <1>2
  <1>5. Tabs \subseteq Workers /\ Desks \subseteq Workers /\ \A v \in Desks : v \notin Tabs
    BY ChatAssumption DEF Workers
  <1>6. ChatType'
    BY <1>3, <1>4 DEF ChatInv, ChatType
  <1>7. FramesFit'
    <2>1. ASSUME NEW t \in Tabs PROVE Fits(task'[t], tab'[t])
      BY <1>3, <1>4, <1>5, NoFrameIs DEF ChatInv, FramesFit
    <2>2. ASSUME NEW v \in Desks PROVE Fits(task'[v], "joined")
      BY <1>3, <1>5, NoFrameIs DEF ChatInv, FramesFit
    <2> QED
      BY <2>1, <2>2 DEF FramesFit
  <1>8. RowsFit'
    BY <1>3, <1>5, NoFrameIs DEF ChatInv, RowsFit, Gone
  <1>9. HistoryHeld'
    <2> SUFFICES ASSUME NEW t \in Tabs, NEW m \in messages, m \notin chatPast.cut[t], m <= chatPast.joined[t]
                 PROVE  /\ tab'[t] = "live" => m \in seen'[t]
                        /\ task'[t].pc \in {"reset", "greet"} => m \in task'[t].list
      BY DEF HistoryHeld
    <2>1. /\ tab[t] = "live" => m \in seen[t]
          /\ task[t].pc \in {"reset", "greet"} => m \in task[t].list
      BY DEF ChatInv, HistoryHeld
    <2> QED
      BY <1>3, <1>4, <1>5, <2>1, NoFrameIs
  <1>10. LiveHeld'
    <2> SUFFICES ASSUME NEW t \in Tabs, tab'[t] # "closed", NEW m \in messages, m > chatPast.joined[t]
                 PROVE  m \in seen'[t] \/ OnItsWay(m, t)'
      BY DEF LiveHeld
    <2>1. m \in seen[t] \/ OnItsWay(m, t)
      BY <1>4 DEF ChatInv, LiveHeld
    <2> QED
      BY <1>3, <1>4, <2>1, OnItsWayStays
  <1> QED
    BY <1>6, <1>7, <1>8, <1>9, <1>10 DEF ChatInv

(* A frame fits the connection of its worker.                              *)
LEMMA FitsHere ==
    ASSUME ChatInv, NEW w \in Workers
    PROVE  /\ Fits(task[w], IF w \in Tabs THEN tab[w] ELSE "joined") /\ task[w] \in Frame
           /\ task[w].pc # "sending" => task[w].todo = {}
  BY DEF ChatInv, FramesFit, ChatType, Workers, Fits

(* A frame arrives: the loops of the two web sockets.                      *)
LEMMA ReceiveKeeps == ASSUME ChatInv, NEW w \in Workers, NEW goal \in Goals(w), Receive(w, goal) PROVE ChatInv'
  <1> DEFINE f == [task[w] EXCEPT !.pc = "find", !.goal = goal]
  <1>1. /\ task[w].pc = "idle" /\ task' = [task EXCEPT ![w] = f]
        /\ UNCHANGED <<conv, messages, ids, tab, seen, chatPast>>
    BY DEF Receive
  <1>2. goal \in {"send", "read", "unread", "close"}
    BY DEF Goals
  <1>3. task[w] \in Frame /\ task[w].todo = {}
    BY <1>1, FitsHere
  <1>4. f \in Frame /\ f.pc = "find" /\ f.goal = goal /\ f.todo = {}
    BY <1>2, <1>3 DEF Frame
  <1> HIDE DEF f
  <1>5. Fits(f, IF w \in Tabs THEN tab[w] ELSE "joined")
    BY <1>2, <1>4 DEF Fits
  <1> QED
    BY <1>1, <1>3, <1>4, <1>5, FrameStep DEF ChatInv, ChatType

(* A call reads the row, or finds that there is none.                      *)
LEMMA FindKeeps == ASSUME ChatInv, NEW w \in Workers, Find(w) PROVE ChatInv'
  <1> DEFINE c == task[w]
  <1>1. /\ c.pc = "find" /\ UNCHANGED <<conv, messages, ids, tab, seen, chatPast>>
        /\ \/ conv.pk # 0 /\ task' = [task EXCEPT ![w] = [c EXCEPT !.pc = c.goal, !.row = conv]]
           \/ task' = [task EXCEPT ![w] = [c EXCEPT !.pc = "insert"]]
           \/ task' = [task EXCEPT ![w] = NoFrame]
    BY DEF Find
  <1>2. /\ c \in Frame /\ c.todo = {} /\ Fits(c, IF w \in Tabs THEN tab[w] ELSE "joined")
        /\ conv \in ChatRow
    BY <1>1, FitsHere DEF ChatInv, ChatType
  <1>3. c.goal \in {"history", "send", "read", "unread", "close"}
    BY <1>1, <1>2 DEF Fits, Frame
  <1>4. CASE conv.pk # 0 /\ task' = [task EXCEPT ![w] = [c EXCEPT !.pc = c.goal, !.row = conv]]
    <2> DEFINE f == [c EXCEPT !.pc = c.goal, !.row = conv]
    <2>1. f \in Frame /\ f.pc = c.goal /\ f.row = conv /\ f.todo = {} /\ f.goal = c.goal
      BY <1>2, <1>3 DEF Frame
    <2> HIDE DEF f
    <2>2. Fits(f, IF w \in Tabs THEN tab[w] ELSE "joined")
      BY <1>1, <1>2, <1>3, <1>4, <2>1 DEF Fits
    <2> QED
      BY <1>1, <1>2, <1>3, <1>4, <2>1, <2>2, FrameStep DEF f
  <1>5. CASE task' = [task EXCEPT ![w] = [c EXCEPT !.pc = "insert"]]
    <2> DEFINE f == [c EXCEPT !.pc = "insert"]
    <2>1. f \in Frame /\ f.pc = "insert" /\ f.todo = {} /\ f.goal = c.goal
      BY <1>2 DEF Frame
    <2> HIDE DEF f
    <2>2. Fits(f, IF w \in Tabs THEN tab[w] ELSE "joined")
      BY <1>1, <1>2, <1>3, <2>1 DEF Fits
    <2> QED
      BY <1>1, <1>2, <1>5, <2>1, <2>2, FrameStep DEF f
  <1>6. CASE task' = [task EXCEPT ![w] = NoFrame]
    BY <1>1, <1>2, <1>6, NoFrameIs, FrameStep
  <1> QED
    BY <1>1, <1>4, <1>5, <1>6

(* The calls of a desk that read and close.                                *)
LEMMA DeskKeeps == ASSUME ChatInv, NEW w \in Workers, AdminRead(w) \/ CloseSession(w) PROVE ChatInv'
  <1>1. /\ task[w].pc \in {"unread", "close"} /\ task' = [task EXCEPT ![w] = NoFrame]
        /\ conv' \in {conv, [conv EXCEPT !.forAdmin = 0], [conv EXCEPT !.open = FALSE]}
        /\ UNCHANGED <<messages, ids, tab, seen, chatPast>>
    BY DEF AdminRead, CloseSession
  <1>2. conv \in ChatRow /\ task[w].todo = {}
    BY <1>1, FitsHere DEF ChatInv, ChatType
  <1>3. conv' \in ChatRow /\ conv'.pk = conv.pk
    <2>1. [conv EXCEPT !.forAdmin = 0] \in ChatRow /\ [conv EXCEPT !.forAdmin = 0].pk = conv.pk
      BY <1>2 DEF ChatRow
    <2>2. [conv EXCEPT !.open = FALSE] \in ChatRow /\ [conv EXCEPT !.open = FALSE].pk = conv.pk
      BY <1>2 DEF ChatRow
    <2> QED
      BY <1>1, <1>2, <2>1, <2>2
  <1> QED
    BY <1>1, <1>2, <1>3, NoFrameIs, FrameStep

(* mark_read of a tab.                                                     *)
LEMMA CustomerReadKeeps == ASSUME ChatInv, NEW t \in Tabs, CustomerRead(t) PROVE ChatInv'
  <1> DEFINE c == task[t]
  <1>1. t \in Workers
    BY DEF Workers
  <1>2. /\ c.pc \in {"read", "reset"} /\ UNCHANGED <<messages, ids, chatPast>>
        /\ \/ Fail(t) /\ UNCHANGED conv
           \/ /\ task' = [task EXCEPT ![t] = IF c.pc = "reset" THEN [c EXCEPT !.pc = "greet"] ELSE NoFrame]
              /\ conv' \in {conv, [conv EXCEPT !.forCustomer = 0]} /\ UNCHANGED <<tab, seen>>
    BY DEF CustomerRead
  <1>3. c \in Frame /\ c.todo = {} /\ Fits(c, tab[t]) /\ conv \in ChatRow
    BY <1>1, <1>2, FitsHere DEF ChatInv, ChatType
  <1>4. CASE Fail(t) /\ UNCHANGED conv
    BY <1>1, <1>2, <1>3, <1>4, FailStep
  <1>5. CASE /\ task' = [task EXCEPT ![t] = IF c.pc = "reset" THEN [c EXCEPT !.pc = "greet"] ELSE NoFrame]
             /\ conv' \in {conv, [conv EXCEPT !.forCustomer = 0]} /\ UNCHANGED <<tab, seen>>
    <2>1. conv' \in ChatRow /\ conv'.pk = conv.pk
      <3>1. [conv EXCEPT !.forCustomer = 0] \in ChatRow /\ [conv EXCEPT !.forCustomer = 0].pk = conv.pk
        BY <1>3 DEF ChatRow
      <3> QED
        BY <1>3, <1>5, <3>1
    <2>2. CASE c.pc = "reset"
      <3> DEFINE f == [c EXCEPT !.pc = "greet"]
      <3>1. f \in Frame /\ f.pc = "greet" /\ f.todo = {} /\ f.row = c.row /\ f.list = c.list
        BY <1>3 DEF Frame
      <3> HIDE DEF f
      <3>2. Fits(f, tab[t])
        BY <1>3, <2>2, <3>1 DEF Fits
      <3> QED
        BY <1>1, <1>2, <1>3, <1>5, <2>1, <2>2, <3>1, <3>2, FrameStep DEF f
    <2>3. CASE c.pc # "reset"
      BY <1>1, <1>2, <1>3, <1>5, <2>1, <2>3, NoFrameIs, FrameStep
    <2> QED
      BY <2>2, <2>3
  <1> QED
    BY <1>2, <1>4, <1>5

(* A worker that has sent its message to all.                              *)
LEMMA FinishKeeps == ASSUME ChatInv, NEW w \in Workers, FinishSend(w) PROVE ChatInv'
  <1>1. /\ task[w].pc = "sending" /\ task[w].todo = {} /\ task' = [task EXCEPT ![w] = NoFrame]
        /\ UNCHANGED <<conv, messages, ids, tab, seen, chatPast>>
    BY DEF FinishSend
  <1> QED
    BY <1>1, NoFrameIs, FrameStep DEF ChatInv, ChatType

(* A tab is greeted with its history.                                      *)
LEMMA GreetKeeps == ASSUME ChatInv, NEW t \in Tabs, Greet(t) PROVE ChatInv'
  <1>1. /\ task[t].pc = "greet" /\ seen' = [seen EXCEPT ![t] = seen[t] \cup task[t].list]
        /\ tab' = [tab EXCEPT ![t] = "live"] /\ task' = [task EXCEPT ![t] = NoFrame]
        /\ UNCHANGED <<conv, messages, ids, chatPast>>
    BY DEF Greet
  <1>2. /\ task \in [Workers -> Frame] /\ tab \in [Tabs -> {"closed", "joined", "live"}]
        /\ seen \in [Tabs -> SUBSET Nat] /\ Tabs \subseteq Workers
    BY DEF ChatInv, ChatType, Workers
  <1>3. task[t] \in Frame /\ task[t].todo = {} /\ tab[t] = "joined" /\ task[t].list \subseteq Nat
    <2>1. Fits(task[t], tab[t]) /\ task[t] \in Frame
      BY <1>2 DEF ChatInv, FramesFit
    <2> QED
      BY <1>1, <2>1 DEF Fits, Frame
  <1>4. /\ task' \in [Workers -> Frame] /\ task'[t] = NoFrame /\ \A v \in Workers \ {t} : task'[v] = task[v]
        /\ tab' \in [Tabs -> {"closed", "joined", "live"}] /\ \A u \in Tabs \ {t} : tab'[u] = tab[u]
        /\ seen' \in [Tabs -> SUBSET Nat] /\ \A u \in Tabs \ {t} : seen'[u] = seen[u]
        /\ seen'[t] = seen[t] \cup task[t].list
    BY <1>1, <1>2, <1>3, NoFrameIs
  <1>5. Tabs \subseteq Workers /\ Desks \subseteq Workers /\ \A v \in Desks : v \notin Tabs
    BY ChatAssumption DEF Workers
  <1>6. ChatType'
    BY <1>1, <1>4 DEF ChatInv, ChatType
  <1>7. FramesFit'
    BY <1>4, <1>5, NoFrameIs DEF ChatInv, FramesFit
  <1>8. RowsFit'
    BY <1>1, <1>4, <1>5, NoFrameIs DEF ChatInv, RowsFit, Gone
  <1>9. HistoryHeld'
    <2> SUFFICES ASSUME NEW u \in Tabs, NEW m \in messages, m \notin chatPast.cut[u], m <= chatPast.joined[u]
                 PROVE  /\ tab'[u] = "live" => m \in seen'[u]
                        /\ task'[u].pc \in {"reset", "greet"} => m \in task'[u].list
      BY <1>1 DEF HistoryHeld
    <2>1. /\ tab[u] = "live" => m \in seen[u]
          /\ task[u].pc \in {"reset", "greet"} => m \in task[u].list
      BY DEF ChatInv, HistoryHeld
    <2>2. CASE u = t
      BY <1>1, <1>4, <2>1, <2>2, NoFrameIs
    <2>3. CASE u # t
      BY <1>4, <1>5, <2>1, <2>3
    <2> QED
      BY <2>2, <2>3
  <1>10. LiveHeld'
    <2> SUFFICES ASSUME NEW u \in Tabs, tab'[u] # "closed", NEW m \in messages, m > chatPast.joined[u]
                 PROVE  m \in seen'[u] \/ OnItsWay(m, u)'
      BY <1>1 DEF LiveHeld
    <2>1. m \in seen[u] \/ OnItsWay(m, u)
      BY <1>3, <1>4 DEF ChatInv, LiveHeld
    <2> QED
      BY <1>1, <1>2, <1>3, <1>4, <2>1, OnItsWayStays
  <1> QED
    BY <1>6, <1>7, <1>8, <1>9, <1>10 DEF ChatInv

(* A message with fewer older ones than the limit is in the history: the   *)
(* select in ascending order with a limit when a tab connects.             *)
LEMMA HistoryIs ==
    ASSUME messages \subseteq 1..ids.message, ids.message \in Nat
    PROVE  /\ History \subseteq messages /\ Beyond \subseteq messages
           /\ messages \ Beyond \subseteq History
  <1>1. IsFiniteSet(1..ids.message)
    BY FS_Interval
  <1>2. IsFiniteSet(messages)
    BY <1>1, FS_Subset
  <1>3. ASSUME NEW m \in messages, m \notin Beyond PROVE m \in History
    <2> DEFINE older == {n \in messages : n < m}
               till  == {n \in messages : n <= m}
    <2>1. older \subseteq messages
      OBVIOUS
    <2>2. IsFiniteSet(older)
      BY <1>2, <2>1, FS_Subset
    <2>3. messages \subseteq Int
      OBVIOUS
    <2>4. m \notin older /\ till = older \cup {m}
      <3>1. \A n \in messages : n <= m <=> (n < m \/ n = m)
        BY <2>3
      <3>2. ~ (m < m)
        BY <2>3
      <3> QED
        BY <3>1, <3>2
    <2>5. Cardinality(older) \in Nat
      BY <2>2, FS_CardinalityType
    <2>6. Cardinality(till) = Cardinality(older) + 1
      BY <2>2, <2>4, FS_AddElement
    <2>7. ~ (Cardinality(older) >= HistoryLimit)
      BY <1>3 DEF Beyond
    <2> HIDE DEF older
    <2>8. Cardinality(till) <= HistoryLimit
      BY <2>5, <2>6, <2>7, ChatAssumption
    <2> QED
      BY <2>8 DEF History
  <1> QED
    BY <1>3 DEF History, Beyond

(* The history is read: nothing of it is missing, even if the row is gone. *)
LEMMA HistoryKeeps == ASSUME ChatInv, NEW t \in Tabs, ReadHistory(t) PROVE ChatInv'
  <1> DEFINE h == IF Gone(t) THEN {} ELSE History
             b == IF Gone(t) THEN {} ELSE Beyond
             pc == IF task[t].row.forCustomer > 0 THEN "reset" ELSE "greet"
             f == [task[t] EXCEPT !.pc = pc, !.list = h]
  <1>1. /\ task[t].pc = "history" /\ task' = [task EXCEPT ![t] = f]
        /\ chatPast' = [chatPast EXCEPT !.cut[t] = b]
        /\ UNCHANGED <<conv, messages, ids, tab, seen>>
    BY DEF ReadHistory
  <1>2. /\ task \in [Workers -> Frame] /\ chatPast \in [joined : [Tabs -> Nat], cut : [Tabs -> SUBSET Nat]]
        /\ t \in Workers /\ messages \subseteq 1..ids.message /\ ids.message \in Nat
    BY DEF ChatInv, ChatType, Workers
  <1>3. task[t] \in Frame /\ task[t].todo = {} /\ Fits(task[t], tab[t])
    <2>1. Fits(task[t], tab[t]) /\ task[t] \in Frame
      BY <1>2 DEF ChatInv, FramesFit
    <2> QED
      BY <1>1, <2>1 DEF Fits
  <1>4. b \subseteq Nat /\ pc \in {"reset", "greet"}
    <2>1. Beyond \subseteq messages /\ messages \subseteq Nat
      BY <1>2 DEF Beyond
    <2> QED
      BY <2>1
  <1>5. h \subseteq messages /\ h \subseteq Nat
    <2>1. History \subseteq messages
      BY DEF History
    <2>2. messages \subseteq Nat
      BY <1>2
    <2> QED
      BY <2>1, <2>2
  <1>6. \A m \in messages : m <= chatPast.joined[t] /\ m \notin b => m \in h
    <2>1. CASE Gone(t)
      <3>1. \A m \in messages : m > chatPast.joined[t]
        BY <1>1, <2>1 DEF ChatInv, RowsFit
      <3>2. chatPast.joined[t] \in Nat /\ messages \subseteq Nat
        BY <1>2
      <3> QED
        BY <3>1, <3>2
    <2>2. CASE ~ Gone(t)
      BY <1>2, <2>2, HistoryIs
    <2> QED
      BY <2>1, <2>2
  <1> HIDE DEF h, b, pc
  <1>7. f \in Frame /\ f.pc = pc /\ f.list = h /\ f.todo = {} /\ f.row = task[t].row /\ f.goal = task[t].goal
    BY <1>3, <1>4, <1>5 DEF Frame
  <1> HIDE DEF f
  <1>8. Fits(f, tab[t])
    BY <1>1, <1>3, <1>4, <1>7 DEF Fits
  <1>9. task' \in [Workers -> Frame] /\ task'[t] = f /\ \A v \in Workers \ {t} : task'[v] = task[v]
    BY <1>1, <1>2, <1>7
  <1>10. /\ chatPast' \in [joined : [Tabs -> Nat], cut : [Tabs -> SUBSET Nat]] /\ chatPast'.joined = chatPast.joined
         /\ chatPast'.cut[t] = b /\ \A u \in Tabs \ {t} : chatPast'.cut[u] = chatPast.cut[u]
    BY <1>1, <1>2, <1>4
  <1>11. Tabs \subseteq Workers /\ Desks \subseteq Workers /\ \A v \in Desks : v \notin Tabs
    BY ChatAssumption DEF Workers
  <1>12. ChatType'
    BY <1>1, <1>9, <1>10 DEF ChatInv, ChatType
  <1>13. FramesFit'
    BY <1>1, <1>8, <1>9, <1>11 DEF ChatInv, FramesFit
  <1>14. RowsFit'
    BY <1>1, <1>4, <1>7, <1>9, <1>10, <1>11 DEF ChatInv, RowsFit, Gone
  <1>15. HistoryHeld'
    <2> SUFFICES ASSUME NEW u \in Tabs, NEW m \in messages, m \notin chatPast'.cut[u], m <= chatPast.joined[u]
                 PROVE  /\ tab[u] = "live" => m \in seen[u]
                        /\ task'[u].pc \in {"reset", "greet"} => m \in task'[u].list
      BY <1>1, <1>10 DEF HistoryHeld
    <2>1. CASE u = t
      <3>1. tab[t] # "live"
        BY <1>1, <1>3 DEF Fits
      <3> QED
        BY <1>6, <1>7, <1>9, <1>10, <2>1, <3>1
    <2>2. CASE u # t
      <3>1. /\ tab[u] = "live" => m \in seen[u]
            /\ task[u].pc \in {"reset", "greet"} => m \in task[u].list
        BY <1>10, <2>2 DEF ChatInv, HistoryHeld
      <3> QED
        BY <1>9, <1>11, <2>2, <3>1
    <2> QED
      BY <2>1, <2>2
  <1>16. LiveHeld'
    <2> SUFFICES ASSUME NEW u \in Tabs, tab[u] # "closed", NEW m \in messages, m > chatPast.joined[u]
                 PROVE  m \in seen[u] \/ OnItsWay(m, u)'
      BY <1>1, <1>10 DEF LiveHeld
    <2>1. m \in seen[u] \/ OnItsWay(m, u)
      BY DEF ChatInv, LiveHeld
    <2> QED
      BY <1>1, <1>2, <1>3, <1>9, <2>1, OnItsWayStays
  <1> QED
    BY <1>12, <1>13, <1>14, <1>15, <1>16 DEF ChatInv

(* A tab connects: what is there already is history to it.                 *)
LEMMA ConnectTabKeeps == ASSUME ChatInv, NEW t \in Tabs, ConnectTab(t) PROVE ChatInv'
  <1> DEFINE f == [NoFrame EXCEPT !.pc = "find", !.goal = "history"]
  <1>1. /\ tab[t] = "closed" /\ task[t].pc = "idle" /\ tab' = [tab EXCEPT ![t] = "joined"]
        /\ task' = [w \in Workers |-> IF w = t THEN f ELSE [task[w] EXCEPT !.todo = task[w].todo \ {t}]]
        /\ chatPast' = [chatPast EXCEPT !.joined[t] = ids.message, !.cut[t] = {}]
        /\ UNCHANGED <<conv, messages, ids, seen>>
    BY DEF ConnectTab, ConnectCustomer
  <1>2. /\ task \in [Workers -> Frame] /\ chatPast \in [joined : [Tabs -> Nat], cut : [Tabs -> SUBSET Nat]]
        /\ tab \in [Tabs -> {"closed", "joined", "live"}] /\ messages \subseteq 1..ids.message /\ ids.message \in Nat
    BY DEF ChatInv, ChatType
  <1>3. Tabs \subseteq Workers /\ Desks \subseteq Workers /\ \A v \in Desks : v \notin Tabs
    BY ChatAssumption DEF Workers
  <1>4. f \in Frame /\ f.pc = "find" /\ f.goal = "history" /\ f.todo = {}
    BY DEF NoFrame, Frame, NoRow, ChatRow
  <1> HIDE DEF f
  <1>5. ASSUME NEW w \in Workers, w # t
        PROVE  /\ task'[w] \in Frame /\ task'[w].todo = task[w].todo \ {t} /\ task'[w].pc = task[w].pc
               /\ task'[w].goal = task[w].goal /\ task'[w].row = task[w].row /\ task'[w].m = task[w].m
               /\ task'[w].list = task[w].list
    <2>1. task'[w] = [task[w] EXCEPT !.todo = task[w].todo \ {t}] /\ task[w] \in Frame
      BY <1>1, <1>2, <1>5
    <2> QED
      BY <2>1 DEF Frame
  <1>6. task'[t] = f /\ task' \in [Workers -> Frame]
    BY <1>1, <1>3, <1>4, <1>5
  <1>7. /\ tab' \in [Tabs -> {"closed", "joined", "live"}] /\ tab'[t] = "joined"
        /\ \A u \in Tabs \ {t} : tab'[u] = tab[u]
    BY <1>1, <1>2
  <1>8. /\ chatPast' \in [joined : [Tabs -> Nat], cut : [Tabs -> SUBSET Nat]]
        /\ chatPast'.joined[t] = ids.message
        /\ \A u \in Tabs \ {t} : chatPast'.cut[u] = chatPast.cut[u] /\ chatPast'.joined[u] = chatPast.joined[u]
    <2>1. chatPast' = [joined |-> [chatPast.joined EXCEPT ![t] = ids.message],
                       cut |-> [chatPast.cut EXCEPT ![t] = {}]]
      BY <1>1, <1>2
    <2> QED
      BY <1>2, <2>1
  <1>9. ChatType'
    BY <1>1, <1>6, <1>7, <1>8 DEF ChatInv, ChatType
  <1>10. FramesFit'
    <2>1. ASSUME NEW w \in Workers, w # t, NEW where, Fits(task[w], where) PROVE Fits(task'[w], where)
      BY <1>5, <2>1 DEF Fits
    <2>2. Fits(f, "joined")
      BY <1>4 DEF Fits
    <2>3. ASSUME NEW u \in Tabs PROVE Fits(task'[u], tab'[u])
      BY <1>3, <1>6, <1>7, <2>1, <2>2 DEF ChatInv, FramesFit
    <2>4. ASSUME NEW w \in Desks PROVE Fits(task'[w], "joined")
      BY <1>3, <2>1 DEF ChatInv, FramesFit
    <2> QED
      BY <2>3, <2>4 DEF FramesFit
  <1>11. RowsFit'
    <2>1. conv'.pk = 0 => messages' = {}
      BY <1>1 DEF ChatInv, RowsFit
    <2>2. ASSUME NEW u \in Tabs
          PROVE  /\ chatPast'.joined[u] <= ids'.message
                 /\ task'[u].pc = "history" /\ Gone(u)' => \A m \in messages' : m > chatPast'.joined[u]
      <3>1. CASE u = t
        BY <1>1, <1>2, <1>4, <1>6, <1>8, <3>1
      <3>2. CASE u # t
        <4>1. task'[u].pc = task[u].pc /\ task'[u].row = task[u].row
          BY <1>3, <1>5, <3>2
        <4> QED
          BY <1>1, <1>8, <3>2, <4>1 DEF ChatInv, RowsFit, Gone
      <3> QED
        BY <3>1, <3>2
    <2> QED
      BY <2>1, <2>2 DEF RowsFit
  <1>12. HistoryHeld'
    <2> SUFFICES ASSUME NEW u \in Tabs, NEW m \in messages, m \notin chatPast'.cut[u], m <= chatPast'.joined[u]
                 PROVE  /\ tab'[u] = "live" => m \in seen[u]
                        /\ task'[u].pc \in {"reset", "greet"} => m \in task'[u].list
      BY <1>1 DEF HistoryHeld
    <2>1. CASE u = t
      BY <1>4, <1>6, <1>7, <2>1
    <2>2. CASE u # t
      <3>1. /\ tab[u] = "live" => m \in seen[u]
            /\ task[u].pc \in {"reset", "greet"} => m \in task[u].list
        BY <1>8, <2>2 DEF ChatInv, HistoryHeld
      <3>2. task'[u].pc = task[u].pc /\ task'[u].list = task[u].list
        BY <1>3, <1>5, <2>2
      <3> QED
        BY <1>7, <2>2, <3>1, <3>2
    <2> QED
      BY <2>1, <2>2
  <1>13. LiveHeld'
    <2> SUFFICES ASSUME NEW u \in Tabs, tab'[u] # "closed", NEW m \in messages, m > chatPast'.joined[u]
                 PROVE  m \in seen[u] \/ OnItsWay(m, u)'
      BY <1>1 DEF LiveHeld
    <2>1. u # t
      BY <1>2, <1>8
    <2>2. m \in seen[u] \/ OnItsWay(m, u)
      BY <1>7, <1>8, <2>1 DEF ChatInv, LiveHeld
    <2>3. ASSUME OnItsWay(m, u) PROVE OnItsWay(m, u)'
      <3>1. PICK w \in Workers : task[w].m = m /\ (task[w].pc = "sent" \/ u \in task[w].todo)
        BY <2>3 DEF OnItsWay
      <3>2. w # t
        BY <1>1, <1>3, <3>1, FitsHere
      <3>3. task'[w].m = m /\ (task'[w].pc = "sent" \/ u \in task'[w].todo)
        BY <1>5, <2>1, <3>1, <3>2
      <3> QED
        BY <3>3 DEF OnItsWay
    <2> QED
      BY <2>2, <2>3
  <1> QED
    BY <1>9, <1>10, <1>11, <1>12, <1>13 DEF ChatInv

(* A tab leaves.                                                           *)
LEMMA LeaveKeeps == ASSUME ChatInv, NEW t \in Tabs, Leave(t) PROVE ChatInv'
  <1>1. /\ tab[t] = "live" /\ task[t].pc = "idle" /\ tab' = [tab EXCEPT ![t] = "closed"]
        /\ seen' = [seen EXCEPT ![t] = {}] /\ UNCHANGED <<conv, messages, ids, task, chatPast>>
    BY DEF Leave
  <1>2. tab \in [Tabs -> {"closed", "joined", "live"}] /\ seen \in [Tabs -> SUBSET Nat]
    BY DEF ChatInv, ChatType
  <1>3. /\ tab' \in [Tabs -> {"closed", "joined", "live"}] /\ seen' \in [Tabs -> SUBSET Nat] /\ tab'[t] = "closed"
        /\ \A u \in Tabs \ {t} : tab'[u] = tab[u] /\ seen'[u] = seen[u]
    BY <1>1, <1>2
  <1>4. ChatType'
    BY <1>1, <1>3 DEF ChatInv, ChatType
  <1>5. FramesFit'
    <2>1. Fits(task[t], "closed")
      BY <1>1 DEF ChatInv, FramesFit, Fits
    <2> QED
      BY <1>1, <1>3, <2>1 DEF ChatInv, FramesFit
  <1>6. RowsFit'
    BY <1>1 DEF ChatInv, RowsFit, Gone
  <1>7. HistoryHeld'
    BY <1>1, <1>3 DEF ChatInv, HistoryHeld
  <1>8. LiveHeld'
    BY <1>1, <1>3 DEF ChatInv, LiveHeld, OnItsWay
  <1> QED
    BY <1>4, <1>5, <1>6, <1>7, <1>8 DEF ChatInv

(* The first call makes the row of the conversation; a second one fails.   *)
LEMMA InsertKeeps == ASSUME ChatInv, NEW w \in Workers, Insert(w) PROVE ChatInv'
  <1>1. task[w].pc = "insert" /\ UNCHANGED <<messages, chatPast>>
    BY DEF Insert
  <1>2. /\ task \in [Workers -> Frame] /\ conv \in ChatRow /\ ids \in [session : Nat, message : Nat]
        /\ task[w] \in Frame /\ task[w].todo = {} /\ Fits(task[w], IF w \in Tabs THEN tab[w] ELSE "joined")
    BY <1>1, FitsHere DEF ChatInv, ChatType
  <1>3. CASE conv.pk # 0
    BY <1>1, <1>2, <1>3, FailStep DEF Insert
  <1>4. CASE conv.pk = 0
    <2> DEFINE c == task[w]
               f == [c EXCEPT !.pc = c.goal, !.row = NewRow]
    <2>1. /\ conv' = NewRow /\ ids' = [ids EXCEPT !.session = ids.session + 1]
          /\ task' = [task EXCEPT ![w] = f] /\ UNCHANGED <<tab, seen>>
      BY <1>4 DEF Insert
    <2>2. NewRow \in ChatRow /\ NewRow.pk # 0
      BY <1>2 DEF NewRow, ChatRow
    <2>3. c.goal \in {"history", "send", "read", "unread", "close"}
      BY <1>1, <1>2 DEF Fits, Frame
    <2>4. f \in Frame /\ f.pc = c.goal /\ f.row = NewRow /\ f.todo = {} /\ f.goal = c.goal
      BY <1>2, <2>2, <2>3 DEF Frame
    <2> HIDE DEF f
    <2>5. Fits(f, IF w \in Tabs THEN tab[w] ELSE "joined")
      BY <1>1, <1>2, <2>2, <2>3, <2>4 DEF Fits
    <2>6. task' \in [Workers -> Frame] /\ task'[w] = f /\ \A v \in Workers \ {w} : task'[v] = task[v]
      BY <1>2, <2>1, <2>4
    <2>7. ids' \in [session : Nat, message : Nat] /\ ids'.message = ids.message
      BY <1>2, <2>1
    <2>8. messages = {}
      BY <1>4 DEF ChatInv, RowsFit
    <2>9. Tabs \subseteq Workers /\ Desks \subseteq Workers /\ \A v \in Desks : v \notin Tabs
      BY ChatAssumption DEF Workers
    <2>10. ChatType'
      BY <1>1, <2>1, <2>2, <2>6, <2>7 DEF ChatInv, ChatType
    <2>11. FramesFit'
      <3>1. ASSUME NEW t \in Tabs PROVE Fits(task'[t], tab'[t])
        BY <2>1, <2>5, <2>6, <2>9 DEF ChatInv, FramesFit
      <3>2. ASSUME NEW v \in Desks PROVE Fits(task'[v], "joined")
        BY <2>1, <2>5, <2>6, <2>9 DEF ChatInv, FramesFit
      <3> QED
        BY <3>1, <3>2 DEF FramesFit
    <2>12. RowsFit'
      BY <1>1, <2>7, <2>8 DEF ChatInv, RowsFit
    <2>13. HistoryHeld' /\ LiveHeld'
      BY <1>1, <2>8 DEF HistoryHeld, LiveHeld
    <2> QED
      BY <2>10, <2>11, <2>12, <2>13 DEF ChatInv
  <1> QED
    BY <1>3, <1>4

(* A message is committed, and is on its way to the tabs of the pool.      *)
LEMMA CommitMessageKeeps == ASSUME ChatInv, NEW w \in Workers, CommitMessage(w) PROVE ChatInv'
  <1> DEFINE id == ids.message + 1
             row == task[w].row
             f == [NoFrame EXCEPT !.pc = "sent", !.m = id]
  <1>1. task[w].pc = "send" /\ UNCHANGED chatPast
    BY DEF CommitMessage
  <1>2. /\ task \in [Workers -> Frame] /\ conv \in ChatRow /\ ids \in [session : Nat, message : Nat]
        /\ task[w] \in Frame /\ task[w].todo = {} /\ row.pk # 0 /\ row \in ChatRow
        /\ messages \subseteq 1..ids.message /\ id \in Nat
    <2>1. Fits(task[w], IF w \in Tabs THEN tab[w] ELSE "joined") /\ task[w] \in Frame
      BY FitsHere
    <2> QED
      BY <1>1, <2>1 DEF ChatInv, ChatType, Fits, Frame
  <1>3. CASE Gone(w)
    BY <1>1, <1>2, <1>3, FailStep DEF CommitMessage
  <1>4. CASE ~ Gone(w)
    <2>1. /\ conv' = [Counted(w, row) EXCEPT !.open = @ \/ ~ row.open]
          /\ messages' = messages \cup {id} /\ ids' = [ids EXCEPT !.message = id]
          /\ task' = [task EXCEPT ![w] = f] /\ UNCHANGED <<tab, seen>>
      BY <1>4 DEF CommitMessage
    <2>2. conv' \in ChatRow /\ conv'.pk = conv.pk
      <3>1. Counted(w, row) \in ChatRow /\ Counted(w, row).pk = conv.pk
        <4>1. row.forAdmin + 1 \in Nat /\ row.forCustomer + 1 \in Nat
          BY <1>2 DEF ChatRow
        <4> QED
          BY <1>2, <4>1 DEF Counted, ChatRow
      <3> DEFINE c == Counted(w, row)
      <3> HIDE DEF c
      <3>2. conv' = [c EXCEPT !.open = c.open \/ ~ row.open] /\ c \in ChatRow /\ c.pk = conv.pk
        BY <2>1, <3>1 DEF c
      <3>3. (c.open \/ ~ row.open) \in BOOLEAN
        OBVIOUS
      <3> QED
        BY <3>2, <3>3 DEF ChatRow
    <2>3. conv.pk # 0
      BY <1>2, <1>4 DEF Gone
    <2>4. f \in Frame /\ f.pc = "sent" /\ f.m = id /\ f.todo = {}
      BY <1>2 DEF NoFrame, Frame, NoRow, ChatRow
    <2> HIDE DEF f
    <2>5. task' \in [Workers -> Frame] /\ task'[w] = f /\ \A v \in Workers \ {w} : task'[v] = task[v]
      BY <1>2, <2>1, <2>4
    <2>6. ids' \in [session : Nat, message : Nat] /\ ids'.message = id /\ messages' \subseteq 1..id
      BY <1>2, <2>1
    <2>7. Tabs \subseteq Workers /\ Desks \subseteq Workers /\ \A v \in Desks : v \notin Tabs
      BY ChatAssumption DEF Workers
    <2>8. \A t \in Tabs : chatPast.joined[t] \in Nat /\ chatPast.joined[t] < id
      BY <1>2 DEF ChatInv, ChatType, RowsFit
    <2>9. ChatType'
      BY <1>1, <2>1, <2>2, <2>5, <2>6 DEF ChatInv, ChatType
    <2>10. FramesFit'
      <3>1. \A where : Fits(f, where)
        BY <2>4 DEF Fits
      <3>2. ASSUME NEW t \in Tabs PROVE Fits(task'[t], tab'[t])
        BY <2>1, <2>5, <2>7, <3>1 DEF ChatInv, FramesFit
      <3>3. ASSUME NEW v \in Desks PROVE Fits(task'[v], "joined")
        BY <2>5, <2>7, <3>1 DEF ChatInv, FramesFit
      <3> QED
        BY <3>2, <3>3 DEF FramesFit
    <2> HIDE DEF id
    <2>11. RowsFit'
      <3>1. ASSUME NEW t \in Tabs, task'[t].pc = "history", Gone(t)', NEW m \in messages'
            PROVE  m > chatPast.joined[t]
        <4>1. t # w /\ task'[t] = task[t]
          BY <2>4, <2>5, <2>7, <3>1
        <4>2. task[t].pc = "history" /\ Gone(t)
          BY <2>2, <3>1, <4>1 DEF Gone
        <4> QED
          BY <2>1, <2>8, <4>2 DEF ChatInv, RowsFit
      <3>2. \A t \in Tabs : chatPast.joined[t] <= id
        BY <2>8, <1>2
      <3> QED
        BY <1>1, <2>2, <2>3, <2>6, <3>1, <3>2 DEF RowsFit
    <2>12. HistoryHeld'
      <3> SUFFICES ASSUME NEW t \in Tabs, NEW m \in messages', m \notin chatPast.cut[t], m <= chatPast.joined[t]
                   PROVE  /\ tab[t] = "live" => m \in seen[t]
                          /\ task'[t].pc \in {"reset", "greet"} => m \in task'[t].list
        BY <1>1, <2>1 DEF HistoryHeld
      <3>1. m \in messages
        BY <1>2, <2>1, <2>8
      <3>2. /\ tab[t] = "live" => m \in seen[t]
            /\ task[t].pc \in {"reset", "greet"} => m \in task[t].list
        BY <3>1 DEF ChatInv, HistoryHeld
      <3> QED
        BY <2>4, <2>5, <2>7, <3>2
    <2>13. LiveHeld'
      <3> SUFFICES ASSUME NEW t \in Tabs, tab[t] # "closed", NEW m \in messages', m > chatPast.joined[t]
                   PROVE  m \in seen[t] \/ OnItsWay(m, t)'
        BY <1>1, <2>1 DEF LiveHeld
      <3>1. CASE m = id
        BY <2>4, <2>5, <3>1 DEF OnItsWay
      <3>2. CASE m \in messages
        <4>1. m \in seen[t] \/ OnItsWay(m, t)
          BY <3>2 DEF ChatInv, LiveHeld
        <4> QED
          BY <1>1, <1>2, <2>5, <4>1, OnItsWayStays
      <3> QED
        BY <2>1, <3>1, <3>2
    <2> QED
      BY <2>9, <2>10, <2>11, <2>12, <2>13 DEF ChatInv
  <1> QED
    BY <1>3, <1>4

(* send_to_customer takes the tabs of the pool.                            *)
LEMMA StartSendKeeps == ASSUME ChatInv, NEW w \in Workers, StartSend(w) PROVE ChatInv'
  <1> DEFINE pool == {t \in Tabs : tab[t] \in {"joined", "live"}}
             f == [task[w] EXCEPT !.pc = "sending", !.todo = pool]
  <1>1. /\ task[w].pc = "sent" /\ task' = [task EXCEPT ![w] = f]
        /\ UNCHANGED <<conv, messages, ids, tab, seen, chatPast>>
    BY DEF StartSend
  <1>2. task \in [Workers -> Frame] /\ task[w] \in Frame /\ tab \in [Tabs -> {"closed", "joined", "live"}]
    BY DEF ChatInv, ChatType
  <1>3. pool \subseteq Tabs /\ \A t \in Tabs : tab[t] # "closed" => t \in pool
    BY <1>2
  <1> HIDE DEF pool
  <1>4. f \in Frame /\ f.pc = "sending" /\ f.todo = pool /\ f.m = task[w].m
    BY <1>2, <1>3 DEF Frame
  <1> HIDE DEF f
  <1>5. task' \in [Workers -> Frame] /\ task'[w] = f /\ \A v \in Workers \ {w} : task'[v] = task[v]
    BY <1>1, <1>2, <1>4
  <1>6. Tabs \subseteq Workers /\ Desks \subseteq Workers /\ \A v \in Desks : v \notin Tabs
    BY ChatAssumption DEF Workers
  <1>7. ChatType'
    BY <1>1, <1>5 DEF ChatInv, ChatType
  <1>8. FramesFit'
    <2>1. \A where : Fits(f, where)
      BY <1>4 DEF Fits
    <2>2. ASSUME NEW t \in Tabs PROVE Fits(task'[t], tab'[t])
      BY <1>1, <1>5, <1>6, <2>1 DEF ChatInv, FramesFit
    <2>3. ASSUME NEW v \in Desks PROVE Fits(task'[v], "joined")
      BY <1>5, <1>6, <2>1 DEF ChatInv, FramesFit
    <2> QED
      BY <2>2, <2>3 DEF FramesFit
  <1>9. RowsFit'
    BY <1>1, <1>4, <1>5, <1>6 DEF ChatInv, RowsFit, Gone
  <1>10. HistoryHeld'
    BY <1>1, <1>4, <1>5, <1>6 DEF ChatInv, HistoryHeld
  <1>11. LiveHeld'
    <2> SUFFICES ASSUME NEW t \in Tabs, tab[t] # "closed", NEW m \in messages, m > chatPast.joined[t]
                 PROVE  m \in seen[t] \/ OnItsWay(m, t)'
      BY <1>1 DEF LiveHeld
    <2>1. m \in seen[t] \/ OnItsWay(m, t)
      BY DEF ChatInv, LiveHeld
    <2>2. ASSUME NEW v \in Workers, task[v].m = m, task[v].pc = "sent" \/ t \in task[v].todo
          PROVE  task'[v].m = m /\ (task'[v].pc = "sent" \/ t \in task'[v].todo)
      BY <1>3, <1>4, <1>5, <2>2
    <2> QED
      BY <2>1, <2>2 DEF OnItsWay
  <1> QED
    BY <1>7, <1>8, <1>9, <1>10, <1>11 DEF ChatInv

(* A tab gets the message, unless it is closed by now.                     *)
LEMMA SendFrameKeeps == ASSUME ChatInv, NEW w \in Workers, NEW t \in Tabs, SendFrame(w, t) PROVE ChatInv'
  <1> DEFINE f == [task[w] EXCEPT !.todo = task[w].todo \ {t}]
  <1>1. /\ task[w].pc = "sending" /\ task' = [task EXCEPT ![w] = f]
        /\ seen' = IF tab[t] = "closed" THEN seen ELSE [seen EXCEPT ![t] = seen[t] \cup {task[w].m}]
        /\ UNCHANGED <<conv, messages, ids, tab, chatPast>>
    BY DEF SendFrame
  <1>2. task \in [Workers -> Frame] /\ task[w] \in Frame /\ seen \in [Tabs -> SUBSET Nat]
    BY DEF ChatInv, ChatType
  <1>3. f \in Frame /\ f.pc = "sending" /\ f.todo = task[w].todo \ {t} /\ f.m = task[w].m
    BY <1>1, <1>2 DEF Frame
  <1> HIDE DEF f
  <1>4. task' \in [Workers -> Frame] /\ task'[w] = f /\ \A v \in Workers \ {w} : task'[v] = task[v]
    BY <1>1, <1>2, <1>3
  <1>5. /\ seen' \in [Tabs -> SUBSET Nat] /\ \A u \in Tabs : seen[u] \subseteq seen'[u]
        /\ tab[t] # "closed" => task[w].m \in seen'[t]
    <2>1. task[w].m \in Nat
      BY <1>2 DEF Frame
    <2> QED
      BY <1>1, <1>2, <2>1
  <1>6. Tabs \subseteq Workers /\ Desks \subseteq Workers /\ \A v \in Desks : v \notin Tabs
    BY ChatAssumption DEF Workers
  <1>7. ChatType'
    BY <1>1, <1>4, <1>5 DEF ChatInv, ChatType
  <1>8. FramesFit'
    <2>1. \A where : Fits(f, where)
      BY <1>3 DEF Fits
    <2>2. ASSUME NEW u \in Tabs PROVE Fits(task'[u], tab'[u])
      BY <1>1, <1>4, <1>6, <2>1 DEF ChatInv, FramesFit
    <2>3. ASSUME NEW v \in Desks PROVE Fits(task'[v], "joined")
      BY <1>4, <1>6, <2>1 DEF ChatInv, FramesFit
    <2> QED
      BY <2>2, <2>3 DEF FramesFit
  <1>9. RowsFit'
    BY <1>1, <1>3, <1>4, <1>6 DEF ChatInv, RowsFit, Gone
  <1>10. HistoryHeld'
    <2> SUFFICES ASSUME NEW u \in Tabs, NEW m \in messages, m \notin chatPast.cut[u], m <= chatPast.joined[u]
                 PROVE  /\ tab[u] = "live" => m \in seen'[u]
                        /\ task'[u].pc \in {"reset", "greet"} => m \in task'[u].list
      BY <1>1 DEF HistoryHeld
    <2>1. /\ tab[u] = "live" => m \in seen[u]
          /\ task[u].pc \in {"reset", "greet"} => m \in task[u].list
      BY DEF ChatInv, HistoryHeld
    <2> QED
      BY <1>3, <1>4, <1>5, <1>6, <2>1
  <1>11. LiveHeld'
    <2> SUFFICES ASSUME NEW u \in Tabs, tab[u] # "closed", NEW m \in messages, m > chatPast.joined[u]
                 PROVE  m \in seen'[u] \/ OnItsWay(m, u)'
      BY <1>1 DEF LiveHeld
    <2>1. m \in seen[u] \/ OnItsWay(m, u)
      BY DEF ChatInv, LiveHeld
    <2>2. ASSUME NEW v \in Workers, task[v].m = m, task[v].pc = "sent" \/ u \in task[v].todo
          PROVE  m \in seen'[u] \/ (task'[v].m = m /\ (task'[v].pc = "sent" \/ u \in task'[v].todo))
      BY <1>1, <1>3, <1>4, <1>5, <2>2
    <2> QED
      BY <1>5, <2>1, <2>2 DEF OnItsWay
  <1> QED
    BY <1>7, <1>8, <1>9, <1>10, <1>11 DEF ChatInv

(* Messages are deleted, or all with the conversation.                     *)
LEMMA DeletionKeeps ==
    ASSUME ChatInv, DeleteSession \/ \E m \in messages : DeleteMessage(m) PROVE ChatInv'
  <1>1. /\ messages' \subseteq messages /\ UNCHANGED <<ids, tab, task, seen, chatPast>>
        /\ (conv' = NoRow /\ messages' = {}) \/ conv' = conv
    BY DEF DeleteSession, DeleteMessage
  <1>2. ChatType'
    BY <1>1, NoFrameIs DEF ChatInv, ChatType
  <1>3. FramesFit'
    BY <1>1 DEF ChatInv, FramesFit
  <1>4. RowsFit'
    BY <1>1, NoFrameIs DEF ChatInv, RowsFit, Gone
  <1>5. HistoryHeld'
    BY <1>1 DEF ChatInv, HistoryHeld
  <1>6. LiveHeld'
    BY <1>1 DEF ChatInv, LiveHeld, OnItsWay
  <1> QED
    BY <1>2, <1>3, <1>4, <1>5, <1>6 DEF ChatInv

(* A restart ends the connections.                                         *)
LEMMA ChatRestartKeeps == ASSUME ChatInv, ChatRestart PROVE ChatInv'
  <1>1. /\ tab' = [t \in Tabs |-> "closed"] /\ task' = [w \in Workers |-> NoFrame]
        /\ seen' = [t \in Tabs |-> {}] /\ UNCHANGED <<conv, messages, ids, chatPast>>
    BY DEF ChatRestart
  <1>2. Tabs \subseteq Workers /\ Desks \subseteq Workers
    BY DEF Workers
  <1>3. ChatType'
    BY <1>1, NoFrameIs DEF ChatInv, ChatType
  <1>4. FramesFit'
    BY <1>1, <1>2, NoFrameIs DEF FramesFit
  <1>5. RowsFit'
    BY <1>1, <1>2, NoFrameIs DEF ChatInv, RowsFit
  <1>6. HistoryHeld' /\ LiveHeld'
    BY <1>1, <1>2, NoFrameIs DEF HistoryHeld, LiveHeld
  <1> QED
    BY <1>3, <1>4, <1>5, <1>6 DEF ChatInv

(* The first state: no conversation.                                       *)
LEMMA ChatInitInv == ChatInit => ChatInv
  <1> SUFFICES ASSUME ChatInit PROVE ChatInv
    OBVIOUS
  <1>1. /\ conv = NoRow /\ messages = {} /\ ids = [session |-> 0, message |-> 0]
        /\ tab = [t \in Tabs |-> "closed"] /\ task = [w \in Workers |-> NoFrame]
        /\ seen = [t \in Tabs |-> {}] /\ chatPast = ChatObserved
    BY DEF ChatInit
  <1>2. Tabs \subseteq Workers /\ Desks \subseteq Workers
    BY DEF Workers
  <1>3. ChatType
    BY <1>1, NoFrameIs DEF ChatType, ChatObserved
  <1>4. FramesFit
    BY <1>1, <1>2, NoFrameIs DEF FramesFit
  <1>5. RowsFit /\ HistoryHeld /\ LiveHeld
    BY <1>1 DEF RowsFit, HistoryHeld, LiveHeld, ChatObserved
  <1> QED
    BY <1>3, <1>4, <1>5 DEF ChatInv

(* Every step of the process keeps the invariant of the chat.              *)
LEMMA ChatStepKeeps == ChatInv /\ [Next]_vars => ChatInv'
  <1> SUFFICES ASSUME ChatInv, [Next]_vars PROVE ChatInv'
    OBVIOUS
  <1>1. CASE ChatNext
    <2>1. CASE \E t \in Tabs : ConnectTab(t) \/ Leave(t) \/ ReadHistory(t) \/ Greet(t) \/ CustomerRead(t)
      BY <2>1, ConnectTabKeeps, LeaveKeeps, HistoryKeeps, GreetKeeps, CustomerReadKeeps
    <2>2. CASE \E w \in Workers, goal \in {"send", "read", "unread", "close"} : goal \in Goals(w) /\ Receive(w, goal)
      BY <2>2, ReceiveKeeps
    <2>3. CASE \E w \in Workers : Find(w) \/ Insert(w) \/ AdminRead(w) \/ CommitMessage(w)
      BY <2>3, FindKeeps, InsertKeeps, DeskKeeps, CommitMessageKeeps
    <2>4. CASE \E w \in Workers : \/ StartSend(w) \/ FinishSend(w) \/ CloseSession(w)
                                  \/ \E t \in Tabs : SendFrame(w, t)
      BY <2>4, StartSendKeeps, FinishKeeps, DeskKeeps, SendFrameKeeps
    <2>5. CASE DeleteSession \/ \E m \in messages : DeleteMessage(m)
      BY <2>5, DeletionKeeps
    <2> QED
      BY <1>1, <2>1, <2>2, <2>3, <2>4, <2>5 DEF ChatNext, Goals
  <1>2. CASE UNCHANGED chatVars
    <2>1. UNCHANGED <<conv, messages, ids, tab, task, seen, chatPast>>
      BY <1>2 DEF chatVars
    <2>2. ChatType' /\ FramesFit' /\ RowsFit'
      BY <2>1 DEF ChatInv, ChatType, FramesFit, RowsFit, Gone
    <2>3. HistoryHeld' /\ LiveHeld'
      BY <2>1 DEF ChatInv, HistoryHeld, LiveHeld, OnItsWay
    <2> QED
      BY <2>2, <2>3 DEF ChatInv
  <1>3. CASE Restart
    BY <1>3, ChatRestartKeeps DEF Restart
  <1> QED
    BY <1>1, <1>2, <1>3 DEF Next, BusStep, CampaignStep, ChatStep, vars

(* A live tab of the support chat has every message committed since it     *)
(* connected, or is about to get it, and every earlier one among the first *)
(* of the conversation, as many as the limit, for any tabs, desks and      *)
(* limit, although history and live messages overlap.  Those behind the    *)
(* limit it never gets: routers/chat.py:333-348.                           *)
THEOREM NoMessageMissed == Spec => []NoneMissed
  <1>1. Init => ChatInv
    BY ChatInitInv DEF Init
  <1>2. ChatInv => NoneMissed
    <2> SUFFICES ASSUME ChatInv, NEW t \in Tabs, tab[t] = "live", NEW m \in messages,
                        m > chatPast.joined[t] \/ m \notin chatPast.cut[t]
                 PROVE  m \in seen[t] \/ OnItsWay(m, t)
      BY DEF NoneMissed
    <2>1. CASE m > chatPast.joined[t]
      BY <2>1 DEF ChatInv, LiveHeld
    <2>2. CASE ~ (m > chatPast.joined[t])
      <3>1. m <= chatPast.joined[t]
        BY <2>2 DEF ChatInv, ChatType
      <3> QED
        BY <2>2, <3>1 DEF ChatInv, HistoryHeld
    <2> QED
      BY <2>1, <2>2
  <1> QED
    BY <1>1, <1>2, ChatStepKeeps, PTL DEF Spec


-----------------------------------------------------------------------------
(* Tracking.                                                               *)

(* A session that starts anew, or that is over, has nothing to explain.    *)
LEMMA IdleOK ==
    /\ Idle \in JobType
    /\ SessionOK(Idle)
  BY DEF Idle, Session, Blank, JobType, SessionOK, SessionKnown, MovedExplained, PollWhole, WebhookTail,
         Told, Applied, Statuses, Unread

(* What a status asks for is a status, or nothing.                         *)
LEMMA EventStatusType ==
    ASSUME NEW c
    PROVE  EventStatus(c) \in (Statuses \ {"processing"}) \cup {"none"}
  BY DEF EventStatus, Statuses

(* A session that was told happened events has a current one.              *)
LEMMA CurrentKnown ==
    ASSUME NEW w \in Sessions, job[w] \in JobType, SessionKnown(job[w]),
           Busy(w) \/ job[w].pc \in {"insert", "align"}
    PROVE  /\ job[w].at \in DOMAIN job[w].events
           /\ Current(job[w]) \in Happened
           /\ Current(job[w]) \in Event /\ Current(job[w])[1] \in Orders
  <1>1. job[w].at \in DOMAIN job[w].events
    BY DEF JobType, SessionKnown, Busy
  <1>2. Current(job[w]) \in Told(job[w])
    BY <1>1 DEF Current, Told
  <1> QED
    BY <1>1, <1>2 DEF SessionKnown, Happened, Event

(* The carrier's answer is a sequence of events that happened.             *)
LEMMA AnswerKnown ==
    ASSUME TrackingTypeOK, HistoryKnown, NEW o \in Orders,
           NEW a \in {[k \in 1..Len(history[o]) |-> <<o, k>>], <<>>}
    PROVE  a \in Seq(Event) /\ \A i \in DOMAIN a : a[i] \in Happened
  <1>0. /\ TrackingAssumption /\ Len(history[o]) \in Nat /\ Len(history[o]) <= MaxScans
    BY TrackingAssumption DEF TrackingTypeOK, HistoryKnown, TrackingAssumption
  <1>1. CASE a = <<>>
    BY <1>1
  <1>2. CASE a = [k \in 1..Len(history[o]) |-> <<o, k>>]
    <2>1. \A k \in 1..Len(history[o]) : <<o, k>> \in Event
      BY <1>0 DEF Event, TrackingAssumption
    <2>2. a \in [1..Len(history[o]) -> Event]
      BY <1>2, <2>1
    <2>3. a \in Seq(Event)
      BY <1>0, <2>2
    <2> QED
      BY <1>0, <1>2, <2>1, <2>3 DEF Happened
  <1> QED
    BY <1>1, <1>2

(* A body is a sequence of one or two events.                              *)
LEMMA BatchKnown ==
    ASSUME NEW b \in Batches
    PROVE  /\ b \in Seq(Event) /\ Len(b) > 0
           /\ \A i \in DOMAIN b : b[i] \in Happened
           /\ \A i, k \in DOMAIN b : b[i] = b[k] => i = k
  <1>1. CASE \E e \in Happened : b = <<e>>
    BY <1>1 DEF Happened
  <1>2. CASE b \in {p \in Happened \X Happened : p[1] # p[2]}
    <2>1. PICK e \in Happened, f \in Happened : b = <<e, f>> /\ e # f
      BY <1>2
    <2>2. e \in Event /\ f \in Event
      BY DEF Happened
    <2> QED
      BY <2>1, <2>2
  <1> QED
    BY <1>1, <1>2 DEF Batches

-----------------------------------------------------------------------------
(* A step of one session that leaves the tables alone keeps the invariant  *)
(* when the session it leads to is in order.                               *)
LEMMA SessionStep ==
    ASSUME TrackingTypeOK, TrackingInv, NEW w \in Sessions, NEW j \in JobType,
           UNCHANGED <<history, order, stored>>, job' = [job EXCEPT ![w] = j], SessionOK(j),
           spent' \in [events : Nat, calls : Nat, fail : Nat], spent'.events = spent.events
    PROVE  TrackingTypeOK' /\ TrackingInv'
  <1>1. TrackingTypeOK'
    BY DEF TrackingTypeOK
  <1>2. Happened' = Happened /\ \A e : Code(e)' = Code(e)
    BY DEF Happened, Code
  <1>3. HistoryKnown' /\ StatusExplained'
    BY <1>2 DEF TrackingInv, HistoryKnown, StatusExplained, Explained
  <1>4. \A i \in JobType : SessionOK(i) => SessionOK(i)'
    BY <1>2 DEF SessionOK, SessionKnown, MovedExplained, PollWhole, WebhookTail, Told, Applied
  <1>5. \A v \in Sessions : job'[v] \in JobType /\ SessionOK(job'[v])
    BY DEF TrackingTypeOK, TrackingInv
  <1>6. \A v \in Sessions : SessionOK(job[v])'
    BY <1>4, <1>5
  <1> QED
    BY <1>1, <1>3, <1>6 DEF TrackingInv

(* A bound is used up one at a time.                                       *)
LEMMA SpentOne ==
    ASSUME spent \in [events : Nat, calls : Nat, fail : Nat],
           NEW b \in {"events", "calls", "fail"}, Spend(b)
    PROVE  /\ spent' \in [events : Nat, calls : Nat, fail : Nat]
           /\ spent'.events = IF b = "events" THEN spent.events + 1 ELSE spent.events
  <1>1. CASE b = "events"
    BY <1>1 DEF Spend
  <1>2. CASE b = "calls"
    BY <1>2 DEF Spend
  <1>3. CASE b = "fail"
    BY <1>3 DEF Spend
  <1> QED
    BY <1>1, <1>2, <1>3

(* A call begins.                                                          *)
LEMMA CallStarts ==
    ASSUME TrackingTypeOK, TrackingInv, NEW w \in Sessions,
           NEW k \in {"webhook", "sync", "poll"}, NEW T \in SUBSET Orders,
           NEW s \in [Orders -> Statuses \cup {Unread}],
           NEW b \in Seq(Event), \A i \in DOMAIN b : b[i] \in Happened,
           k = "webhook" => T = {} /\ b \in Batches, k # "webhook" => b = <<>>
    PROVE  /\ Session(k, "next", T, b, s) \in JobType
           /\ SessionOK(Session(k, "next", T, b, s))
  <1> DEFINE j == Session(k, "next", T, b, s)
  <1>1. j \in JobType /\ j.ins = {} /\ j.moved = {} /\ j.at = 1 /\ j.events = b
        /\ j.kind = k /\ j.pc = "next" /\ j.todo = T
    BY DEF Session, JobType
  <1> HIDE DEF j
  <1>2. SessionKnown(j)
    BY <1>1 DEF SessionKnown, Told, Applied
  <1>3. MovedExplained(j)
    BY <1>1 DEF MovedExplained
  <1>4. PollWhole(j)
    BY <1>1 DEF PollWhole, Applied
  <1>5. WebhookTail(j)
    BY <1>1, BatchKnown DEF WebhookTail
  <1>6. SessionOK(j)
    BY <1>2, <1>3, <1>4, <1>5 DEF SessionOK
  <1> QED
    BY <1>1, <1>6 DEF j

LEMMA Starts ==
    ASSUME TrackingTypeOK, TrackingInv, NEW w \in Sessions,
           \/ \E b \in Batches : CarrierWebhook(w, b)
           \/ \E o \in Orders : SyncOrder(w, o)
           \/ ShipmentPoll(w)
    PROVE  TrackingTypeOK' /\ TrackingInv'
  <1>1. /\ spent \in [events : Nat, calls : Nat, fail : Nat]
        /\ \A S : LoadedFor(S) \in [Orders -> Statuses \cup {Unread}]
        /\ Blank \in [Orders -> Statuses \cup {Unread}]
        /\ <<>> \in Seq(Event)
    BY DEF TrackingTypeOK, LoadedFor, Blank
  <1>2. CASE \E b \in Batches : CarrierWebhook(w, b)
    <2>1. PICK b \in Batches : CarrierWebhook(w, b)
      BY <1>2
    <2> DEFINE j == Session("webhook", "next", {}, b, Blank)
    <2>2. j \in JobType /\ SessionOK(j)
      BY <1>1, BatchKnown, CallStarts
    <2>3. job' = [job EXCEPT ![w] = j]
      BY <2>1 DEF CarrierWebhook
    <2> HIDE DEF j
    <2> QED
      BY <1>1, <2>1, <2>2, <2>3, SpentOne, SessionStep DEF CarrierWebhook
  <1>3. CASE \E o \in Orders : SyncOrder(w, o)
    <2>1. PICK o \in Orders : SyncOrder(w, o)
      BY <1>3
    <2> DEFINE j == Session("sync", "next", {o}, <<>>, LoadedFor({o}))
    <2>2. j \in JobType /\ SessionOK(j)
      BY <1>1, CallStarts, {o} \in SUBSET Orders, DOMAIN <<>> = {}
    <2>3. job' = [job EXCEPT ![w] = j]
      BY <2>1 DEF SyncOrder
    <2> HIDE DEF j
    <2> QED
      BY <1>1, <2>1, <2>2, <2>3, SpentOne, SessionStep DEF SyncOrder
  <1>4. CASE ShipmentPoll(w)
    <2> DEFINE j == Session("poll", "next", Polled, <<>>, LoadedFor(Polled))
    <2>1. j \in JobType /\ SessionOK(j)
      BY <1>1, CallStarts, Polled \in SUBSET Orders, DOMAIN <<>> = {} DEF Polled
    <2>2. job' = [job EXCEPT ![w] = j]
      BY <1>4 DEF ShipmentPoll
    <2> HIDE DEF j
    <2> QED
      BY <1>1, <1>4, <2>1, <2>2, SessionStep DEF ShipmentPoll
  <1> QED
    BY <1>2, <1>3, <1>4

(* An answer of the carrier is appended behind what has been applied.      *)
LEMMA Fetches ==
    ASSUME TrackingTypeOK, TrackingInv, NEW w \in Sessions, NEW o \in Orders, Fetch(w, o)
    PROVE  TrackingTypeOK' /\ TrackingInv'
  <1> DEFINE g == job[w]
  <1>1. g \in JobType /\ SessionOK(g)
        /\ spent \in [events : Nat, calls : Nat, fail : Nat]
    BY DEF TrackingTypeOK, TrackingInv
  <1>2. PICK a \in {[k \in 1..Len(history[o]) |-> <<o, k>>], <<>>} :
            job' = [job EXCEPT ![w] = Answered(job[w], o, a)]
    BY DEF Fetch
  <1>3. a \in Seq(Event) /\ \A i \in DOMAIN a : a[i] \in Happened
    BY <1>2, AnswerKnown DEF TrackingInv
  <1> DEFINE es == g.events \o a
             j  == Answered(g, o, a)
  <1>4. /\ es \in Seq(Event)
        /\ Len(es) = Len(g.events) + Len(a) /\ Len(g.events) \in Nat /\ Len(a) \in Nat
        /\ DOMAIN es = 1..Len(es) /\ DOMAIN g.events = 1..Len(g.events)
        /\ \A i \in 1..Len(g.events) : es[i] = g.events[i]
        /\ \A i \in DOMAIN es : i <= Len(g.events) \/ es[i] \in {a[n] : n \in DOMAIN a}
    BY <1>1, <1>3 DEF JobType
  <1>5. /\ g.pc = "next" /\ g.at = Len(g.events) + 1 /\ ~ Expired(g) /\ g.kind # "webhook"
        /\ g.at \in Nat
    <2>1. g.pc = "next" /\ g.at > Len(g.events) /\ ~ Expired(g) /\ g.todo # {}
      BY DEF Fetch, AllRead
    <2>2. g.at <= Len(g.events) + 1 /\ g.at \in Nat
      BY <1>1 DEF SessionOK, SessionKnown, JobType
    <2>3. g.kind # "webhook"
      BY <1>1, <2>1 DEF SessionOK, WebhookTail
    <2> QED
      BY <1>4, <2>1, <2>2, <2>3
  <1>6. j \in JobType /\ j.pc = "next" /\ j.at = g.at /\ j.ins = g.ins /\ j.moved = g.moved
        /\ j.seen = g.seen /\ j.kind = g.kind /\ j.events = es
    BY <1>1, <1>4, <1>5 DEF JobType, Answered
  <1> HIDE DEF j, es
  <1>7. Told(j) \subseteq Happened
    <2>1. Told(j) = {es[i] : i \in 1..Len(es)}
      BY <1>4, <1>6 DEF Told
    <2>3. {g.events[i] : i \in 1..Len(g.events)} \subseteq Happened
      BY <1>1, <1>4 DEF Told, SessionOK, SessionKnown
    <2>4. ASSUME NEW i \in 1..Len(es) PROVE es[i] \in Happened
      <3>1. CASE i <= Len(g.events)
        <4>1. i \in 1..Len(g.events)
          BY <1>4, <3>1
        <4> QED
          BY <1>4, <2>3, <4>1
      <3>2. CASE ~ (i <= Len(g.events))
        <4>1. es[i] \in {a[n] : n \in DOMAIN a}
          BY <1>4, <3>2
        <4> QED
          BY <1>3, <4>1
      <3> QED
        BY <3>1, <3>2
    <2>2. \A i \in 1..Len(es) : es[i] \in Happened
      BY <2>4
    <2> QED
      BY <2>1, <2>2
  <1>8. Applied(j) = Applied(g)
    <2>1. {n \in DOMAIN es : n < g.at \/ (n = g.at /\ g.pc = "align")} = DOMAIN g.events
      BY <1>4, <1>5
    <2>2. {n \in DOMAIN g.events : n < g.at \/ (n = g.at /\ g.pc = "align")} = DOMAIN g.events
      BY <1>4, <1>5
    <2> QED
      BY <1>4, <1>5, <1>6, <2>1, <2>2 DEF Applied
  <1>9. SessionOK(j)
    BY <1>1, <1>4, <1>5, <1>6, <1>7, <1>8
    DEF SessionOK, SessionKnown, MovedExplained, PollWhole, WebhookTail, Expired, JobType
  <1>10. job' = [job EXCEPT ![w] = j]
    BY <1>2 DEF j
  <1> QED
    BY <1>1, <1>6, <1>9, <1>10, SessionStep DEF Fetch

(* The session at w, and what the invariant says of it.                    *)
LEMMA AtSession ==
    ASSUME TrackingTypeOK, TrackingInv, NEW w \in Sessions
    PROVE  /\ job[w] \in JobType /\ SessionOK(job[w])
           /\ spent \in [events : Nat, calls : Nat, fail : Nat]
           /\ DOMAIN job[w].events = 1..Len(job[w].events) /\ Len(job[w].events) \in Nat
           /\ job[w].at \in Nat \ {0}
  BY DEF TrackingTypeOK, TrackingInv, JobType

(* The select changes neither what was inserted nor what was moved.        *)
LEMMA Takes ==
    ASSUME TrackingTypeOK, TrackingInv, NEW w \in Sessions, Take(w)
    PROVE  TrackingTypeOK' /\ TrackingInv'
  <1> DEFINE g == job[w]
             j == Selected(g)
             o == Current(g)[1]
  <1>1. /\ g \in JobType /\ SessionOK(g) /\ g.at \in Nat \ {0}
        /\ DOMAIN g.events = 1..Len(g.events) /\ Len(g.events) \in Nat
        /\ spent \in [events : Nat, calls : Nat, fail : Nat]
    BY AtSession
  <1>2. Busy(w) /\ (g.kind = "webhook" \/ ~ Expired(g))
    BY DEF Take
  <1>3. o \in Orders /\ g.at \in DOMAIN g.events
    BY <1>1, <1>2, CurrentKnown DEF SessionOK
  <1>4. o \in g.moved => g.seen[o] # Unread
    BY <1>1, EventStatusType DEF SessionOK, MovedExplained, Statuses, Unread
  <1>5. /\ j \in JobType /\ j.pc = "insert" /\ j.at = g.at /\ j.ins = g.ins
        /\ j.moved = g.moved /\ j.kind = g.kind /\ j.events = g.events
        /\ j.todo = g.todo
        /\ \A p \in Orders : p # o \/ g.seen[o] # Unread => j.seen[p] = g.seen[p]
        /\ j.seen[o] # Unread
    <2>1. order[o].status \in Statuses
      BY <1>3 DEF TrackingTypeOK
    <2> QED
      BY <1>1, <1>3, <2>1 DEF Selected, JobType, Statuses, Unread
  <1> HIDE DEF j, o
  <1>6. Told(j) = Told(g) /\ Applied(j) = Applied(g)
    BY <1>2, <1>5 DEF Told, Applied, Busy
  <1>7. SessionKnown(j)
    BY <1>1, <1>2, <1>5, <1>6 DEF SessionOK, SessionKnown, Busy
  <1>8. MovedExplained(j)
    BY <1>1, <1>4, <1>5 DEF SessionOK, MovedExplained, JobType
  <1>9. Expired(j) => Expired(g)
    <2> SUFFICES ASSUME Expired(j), NEW p \in Orders PROVE g.seen[p] = Unread
      BY <1>1 DEF Expired, Blank, JobType
    <2> QED
      BY <1>1, <1>3, <1>5 DEF Expired, Blank
  <1>10. PollWhole(j) /\ WebhookTail(j)
    BY <1>1, <1>2, <1>5, <1>6, <1>9 DEF SessionOK, PollWhole, WebhookTail, Busy
  <1>11. SessionOK(j) /\ job' = [job EXCEPT ![w] = j]
    BY <1>7, <1>8, <1>10 DEF SessionOK, Take, j
  <1> QED
    BY <1>1, <1>5, <1>11, SessionStep DEF Take

(* The inserted event is the one the session is about to put behind it.    *)
LEMMA Inserts ==
    ASSUME TrackingTypeOK, TrackingInv, NEW w \in Sessions, InsertEvent(w)
    PROVE  TrackingTypeOK' /\ TrackingInv'
  <1> DEFINE g == job[w]
             j == Inserted(g)
  <1>1. /\ g \in JobType /\ SessionOK(g) /\ g.at \in Nat \ {0} /\ g.pc = "insert"
        /\ DOMAIN g.events = 1..Len(g.events) /\ Len(g.events) \in Nat
        /\ spent \in [events : Nat, calls : Nat, fail : Nat]
    BY AtSession DEF InsertEvent
  <1>2. g.at \in DOMAIN g.events /\ Current(g) \in Event
    BY <1>1, CurrentKnown DEF SessionOK
  <1>3. /\ j \in JobType /\ j.pc = "align" /\ j.at = g.at /\ j.ins = g.ins \cup {Current(g)}
        /\ j.moved = g.moved /\ j.kind = g.kind /\ j.events = g.events
        /\ j.todo = g.todo /\ j.seen = g.seen
    BY <1>1, <1>2 DEF Inserted, JobType
  <1> HIDE DEF j
  <1>4. Told(j) = Told(g) /\ Applied(j) = Applied(g) \cup {Current(g)}
    BY <1>1, <1>2, <1>3 DEF Told, Applied, Current
  <1>5. SessionKnown(j)
    BY <1>1, <1>2, <1>3, <1>4 DEF SessionOK, SessionKnown, Current
  <1>6. MovedExplained(j)
    BY <1>1, <1>3 DEF SessionOK, MovedExplained
  <1>7. PollWhole(j) /\ WebhookTail(j)
    BY <1>1, <1>3, <1>4 DEF SessionOK, PollWhole, WebhookTail
  <1>8. SessionOK(j) /\ job' = [job EXCEPT ![w] = j]
    BY <1>5, <1>6, <1>7 DEF SessionOK, InsertEvent, j
  <1> QED
    BY <1>1, <1>3, <1>8, SessionStep DEF InsertEvent

(* A rolled back session has nothing left; a webhook's duplicate is stored *)
(* by somebody else, since its events differ.                              *)
LEMMA Duplicates ==
    ASSUME TrackingTypeOK, TrackingInv, NEW w \in Sessions, Duplicate(w)
    PROVE  TrackingTypeOK' /\ TrackingInv'
  <1> DEFINE g == job[w]
             j == RolledBack(g)
  <1>1. /\ g \in JobType /\ SessionOK(g) /\ g.at \in Nat \ {0} /\ g.pc = "insert"
        /\ DOMAIN g.events = 1..Len(g.events) /\ Len(g.events) \in Nat
        /\ spent \in [events : Nat, calls : Nat, fail : Nat]
        /\ Current(g) \in stored \cup g.ins
    BY AtSession DEF Duplicate
  <1>2. g.at \in DOMAIN g.events
    BY <1>1, CurrentKnown DEF SessionOK
  <1>3. /\ j \in JobType /\ j.pc = "next" /\ j.at = g.at + 1 /\ j.ins = {}
        /\ j.moved = {} /\ j.kind = g.kind /\ j.events = g.events
        /\ j.todo = g.todo /\ Expired(j)
    <2>1. Blank \in [Orders -> Statuses \cup {Unread}]
      BY DEF Blank
    <2>2. j = [kind |-> g.kind, pc |-> "next", todo |-> g.todo, events |-> g.events,
                  at |-> g.at + 1, ins |-> {}, seen |-> Blank, moved |-> {},
                  locked |-> {}]
      BY DEF RolledBack, Session
    <2> QED
      BY <1>1, <2>1, <2>2 DEF JobType, Expired
  <1> HIDE DEF j
  <1>4. SessionKnown(j) /\ MovedExplained(j) /\ PollWhole(j)
    BY <1>1, <1>2, <1>3 DEF SessionOK, SessionKnown, MovedExplained, PollWhole, Told
  <1>5. g.kind = "webhook" => Current(g) \in stored
    <2> SUFFICES ASSUME g.kind = "webhook", Current(g) \in g.ins PROVE FALSE
      BY <1>1
    <2>1. PICK i \in DOMAIN g.events : g.events[i] = Current(g) /\ i < g.at
      BY <1>1 DEF SessionOK, SessionKnown, Applied
    <2> QED
      BY <1>1, <1>2, <2>1 DEF SessionOK, WebhookTail, Current
  <1>6. WebhookTail(j)
    <2>1. j.at - 1 = g.at
      BY <1>1, <1>3
    <2> QED
      BY <1>1, <1>3, <1>5, <2>1 DEF SessionOK, WebhookTail, Current
  <1>7. SessionOK(j) /\ job' = [job EXCEPT ![w] = j]
    BY <1>4, <1>6 DEF SessionOK, Duplicate, j
  <1> QED
    BY <1>1, <1>3, <1>7, SessionStep DEF Duplicate

(* The event that moves an order was inserted before.                      *)
LEMMA Aligns ==
    ASSUME TrackingTypeOK, TrackingInv, NEW w \in Sessions, Align(w)
    PROVE  TrackingTypeOK' /\ TrackingInv'
  <1> DEFINE g == job[w]
             j == Aligned(g)
             o == Current(g)[1]
             s == EventStatus(Code(Current(g)))
  <1>1. /\ g \in JobType /\ SessionOK(g) /\ g.at \in Nat \ {0} /\ g.pc = "align"
        /\ DOMAIN g.events = 1..Len(g.events) /\ Len(g.events) \in Nat
        /\ spent \in [events : Nat, calls : Nat, fail : Nat]
    BY AtSession DEF Align
  <1>2. g.at \in DOMAIN g.events /\ o \in Orders /\ Current(g) \in g.ins
    BY <1>1, CurrentKnown DEF SessionOK, SessionKnown, Current
  <1>3. s \in Statuses \/ ~ Forward(g)
    BY EventStatusType DEF Forward
  <1>4. /\ j \in JobType /\ j.pc = "next" /\ j.at = g.at + 1 /\ j.ins = g.ins
        /\ j.kind = g.kind /\ j.events = g.events /\ j.todo = g.todo
        /\ \/ j.moved = g.moved /\ j.seen = g.seen
           \/ j.moved = g.moved \cup {o} /\ j.seen = [g.seen EXCEPT ![o] = s] /\ s \in Statuses
    <2>1. CASE Forward(g)
      <3>1. j = [kind |-> g.kind, pc |-> "next", todo |-> g.todo, events |-> g.events,
                    at |-> g.at + 1, ins |-> g.ins, seen |-> [g.seen EXCEPT ![o] = s], moved |-> g.moved \cup {o},
                    locked |-> g.locked \cup {o}]
        BY <1>1, <2>1 DEF Aligned, JobType
      <3> HIDE DEF j, o, s
      <3> QED
        BY <1>1, <1>2, <1>3, <2>1, <3>1 DEF JobType
    <2>2. CASE ~ Forward(g)
      <3>1. j = [kind |-> g.kind, pc |-> "next", todo |-> g.todo, events |-> g.events,
                    at |-> g.at + 1, ins |-> g.ins, seen |-> g.seen, moved |-> g.moved,
                    locked |-> g.locked \cup {o}]
        BY <1>1, <2>2 DEF Aligned, JobType
      <3> HIDE DEF j, o, s
      <3> QED
        BY <1>1, <1>2, <2>2, <3>1 DEF JobType
    <2> QED
      BY <2>1, <2>2
  <1> HIDE DEF j
  <1>5. Told(j) = Told(g) /\ Applied(j) = Applied(g)
    <2>1. {n \in DOMAIN g.events : n < g.at + 1} = {n \in DOMAIN g.events : n < g.at \/ n = g.at}
      BY <1>1
    <2> QED
      BY <1>1, <1>4, <2>1 DEF Told, Applied
  <1>6. SessionKnown(j)
    BY <1>1, <1>2, <1>4, <1>5 DEF SessionOK, SessionKnown
  <1>7. MovedExplained(j)
    BY <1>1, <1>2, <1>4 DEF SessionOK, MovedExplained, JobType
  <1>8. Expired(j) => Expired(g)
    <2> SUFFICES ASSUME Expired(j), j.seen = [g.seen EXCEPT ![o] = s], s \in Statuses
                 PROVE  FALSE
      BY <1>4 DEF Expired
    <2> QED
      BY <1>1, <1>2 DEF Expired, Blank, JobType, Statuses, Unread
  <1>9. PollWhole(j) /\ WebhookTail(j)
    <2>1. j.at - 1 = g.at
      BY <1>1, <1>4
    <2> QED
      BY <1>1, <1>2, <1>4, <1>5, <1>8, <2>1 DEF SessionOK, PollWhole, WebhookTail, Current
  <1>10. SessionOK(j) /\ job' = [job EXCEPT ![w] = j]
    BY <1>6, <1>7, <1>9 DEF SessionOK, Align, j
  <1> QED
    BY <1>1, <1>4, <1>10, SessionStep DEF Align

(* A call that fails leaves nothing behind.                                *)
LEMMA FailsClean ==
    ASSUME TrackingTypeOK, TrackingInv, NEW w \in Sessions, Fails(w)
    PROVE  TrackingTypeOK' /\ TrackingInv'
  <1>1. /\ UNCHANGED <<history, order, stored>> /\ job' = [job EXCEPT ![w] = Idle]
        /\ spent' = spent \/ Spend("fail")
    BY DEF Fails, Raise, Victim, Outage, Finish
  <1>2. spent \in [events : Nat, calls : Nat, fail : Nat]
    BY DEF TrackingTypeOK
  <1> QED
    BY <1>1, <1>2, IdleOK, SpentOne, SessionStep

(* A commit writes only what the session can explain, and the other        *)
(* sessions only gain by more stored events.                               *)
LEMMA Commits ==
    ASSUME TrackingTypeOK, TrackingInv, NEW w \in Sessions, Commit(w)
    PROVE  TrackingTypeOK' /\ TrackingInv'
  <1> DEFINE g == job[w]
  <1>1. /\ g \in JobType /\ SessionOK(g)
        /\ UNCHANGED <<history, spent>> /\ stored' = stored \cup g.ins
        /\ order' = [o \in Orders |-> Updated(o, g)] /\ job' = [job EXCEPT ![w] = Idle]
    BY AtSession DEF Commit, Finish
  <1>2. Happened' = Happened /\ \A e : Code(e)' = Code(e)
    BY <1>1 DEF Happened, Code
  <1>3. g.ins \subseteq Happened
    BY <1>1 DEF SessionOK, SessionKnown, Applied, Told
  <1>4. \A o \in g.moved : /\ g.seen[o] \in Statuses
                           /\ \E e \in g.ins : e[1] = o /\ EventStatus(Code(e)) = g.seen[o]
    BY <1>1, EventStatusType DEF SessionOK, MovedExplained, JobType, Statuses, Unread
  <1>5. order' \in [Orders -> [status : Statuses, carrier : BOOLEAN,
                               shippedAt : {"unset", "recent", "old"}]]
    <2> SUFFICES ASSUME NEW o \in Orders
                 PROVE  Updated(o, g) \in [status : Statuses, carrier : BOOLEAN,
                                           shippedAt : {"unset", "recent", "old"}]
      BY <1>1
    <2>1. order[o] \in [status : Statuses, carrier : BOOLEAN,
                        shippedAt : {"unset", "recent", "old"}]
      BY DEF TrackingTypeOK
    <2> QED
      BY <1>4, <2>1 DEF Updated
  <1>6. TrackingTypeOK'
    BY <1>1, <1>3, <1>5, IdleOK DEF TrackingTypeOK, Happened
  <1>7. HistoryKnown'
    BY <1>1, <1>2, <1>3 DEF TrackingInv, HistoryKnown
  <1>8. StatusExplained'
    <2> SUFFICES ASSUME NEW o \in Orders PROVE Explained(o, order[o].status)'
      BY DEF StatusExplained
    <2>1. order'[o].status = IF o \in g.moved THEN g.seen[o] ELSE order[o].status
      BY <1>1 DEF Updated
    <2>2. CASE o \in g.moved
      BY <1>1, <1>2, <1>4, <2>1, <2>2 DEF Explained
    <2>3. CASE o \notin g.moved
      BY <1>1, <1>2, <2>1, <2>3 DEF TrackingInv, StatusExplained, Explained
    <2> QED
      BY <2>2, <2>3
  <1>9. \A j \in JobType : SessionOK(j) => SessionOK(j)'
    BY <1>1, <1>2 DEF SessionOK, SessionKnown, MovedExplained, PollWhole, WebhookTail, Told,
                      Applied
  <1>10. \A v \in Sessions : SessionOK(job[v])'
    BY <1>1, <1>9, IdleOK DEF TrackingTypeOK, TrackingInv
  <1> QED
    BY <1>6, <1>7, <1>8, <1>10 DEF TrackingInv

(* The history only grows, so what happened stays as it was.               *)
LEMMA Happens ==
    ASSUME TrackingTypeOK, TrackingInv, NEW o \in Orders, NEW c \in Codes, Happen(o, c)
    PROVE  TrackingTypeOK' /\ TrackingInv'
  <1>1. /\ history \in [Orders -> Seq(Codes)] /\ stored \subseteq Event
        /\ history' = [history EXCEPT ![o] = Append(@, c)]
        /\ UNCHANGED <<order, stored, job>> /\ spent.events < MaxScans
        /\ spent \in [events : Nat, calls : Nat, fail : Nat] /\ Spend("events")
    BY DEF TrackingTypeOK, Happen
  <1>2. /\ spent' \in [events : Nat, calls : Nat, fail : Nat]
        /\ spent'.events = spent.events + 1 /\ MaxScans \in Nat
    BY <1>1, SpentOne, TrackingAssumption DEF TrackingAssumption
  <1>3. \A p \in Orders : /\ history'[p] \in Seq(Codes)
                          /\ Len(history[p]) \in Nat /\ Len(history'[p]) \in Nat
                          /\ Len(history[p]) <= Len(history'[p])
                          /\ Len(history'[p]) <= Len(history[p]) + 1
                          /\ \A k \in 1..Len(history[p]) : history'[p][k] = history[p][k]
    BY <1>1
  <1>4. Happened \subseteq Happened'
    BY <1>3 DEF Happened, Event
  <1>5. \A e \in Happened : Code(e)' = Code(e)
    BY <1>3 DEF Happened, Event, Code
  <1>6. TrackingTypeOK'
    BY <1>1, <1>2, <1>3 DEF TrackingTypeOK
  <1>7. HistoryKnown'
    BY <1>1, <1>2, <1>3, <1>4 DEF TrackingInv, HistoryKnown
  <1>8. StatusExplained'
    BY <1>1, <1>5 DEF TrackingInv, HistoryKnown, StatusExplained, Explained
  <1>9. ASSUME NEW v \in Sessions PROVE SessionOK(job[v])'
    <2>1. SessionOK(job[v]) /\ job[v].ins \subseteq Happened
      BY DEF TrackingInv, SessionOK, SessionKnown, Applied, Told
    <2>2. MovedExplained(job[v])'
      <3>1. \A p \in job[v].moved :
               \E e \in job[v].ins : e[1] = p /\ EventStatus(Code(e)) = job[v].seen[p]
        BY <2>1 DEF SessionOK, MovedExplained
      <3>2. \A e \in job[v].ins : Code(e)' = Code(e)
        BY <1>5, <2>1
      <3>3. job' = job
        BY <1>1
      <3>4. \A e \in job[v].ins : EventStatus(Code(e))' = EventStatus(Code(e))
        BY <3>2 DEF EventStatus
      <3> QED
        BY <3>1, <3>3, <3>4 DEF MovedExplained
    <2>3. SessionKnown(job[v])'
      BY <1>1, <1>4, <2>1 DEF SessionOK, SessionKnown, Told, Applied
    <2>4. PollWhole(job[v])' /\ WebhookTail(job[v])'
      BY <1>1, <2>1 DEF SessionOK, PollWhole, WebhookTail, Expired, Applied
    <2> QED
      BY <2>2, <2>3, <2>4 DEF SessionOK
  <1> QED
    BY <1>6, <1>7, <1>8, <1>9 DEF TrackingInv

(* An administrator or the clock changes no status.                        *)
LEMMA Assigns ==
    ASSUME TrackingTypeOK, TrackingInv, NEW o \in Orders, AssignCarrier(o) \/ AgeOut(o)
    PROVE  TrackingTypeOK' /\ TrackingInv'
  <1>1. /\ UNCHANGED <<history, stored, job, spent>>
        /\ order' \in [Orders -> [status : Statuses, carrier : BOOLEAN,
                                  shippedAt : {"unset", "recent", "old"}]]
        /\ \A p \in Orders : order'[p].status = order[p].status
    <2>1. order \in [Orders -> [status : Statuses, carrier : BOOLEAN,
                                shippedAt : {"unset", "recent", "old"}]]
      BY DEF TrackingTypeOK
    <2>2. CASE AgeOut(o)
      BY <2>1, <2>2 DEF AgeOut
    <2>3. CASE AssignCarrier(o)
      BY <2>1, <2>3 DEF AssignCarrier
    <2> QED
      BY <2>2, <2>3
  <1>2. TrackingTypeOK'
    BY <1>1 DEF TrackingTypeOK
  <1>3. Happened' = Happened /\ \A e : Code(e)' = Code(e)
    BY <1>1 DEF Happened, Code
  <1>4. HistoryKnown' /\ StatusExplained'
    BY <1>1, <1>3 DEF TrackingInv, HistoryKnown, StatusExplained, Explained
  <1>5. ASSUME NEW v \in Sessions PROVE SessionOK(job[v])'
    BY <1>1, <1>3 DEF TrackingInv, SessionOK, SessionKnown, MovedExplained, PollWhole,
                      WebhookTail, Told, Applied, Expired
  <1> QED
    BY <1>2, <1>4, <1>5 DEF TrackingInv

(* A new process has no sessions.                                          *)
LEMMA Restarts ==
    ASSUME TrackingTypeOK, TrackingInv, RestartTracks
    PROVE  TrackingTypeOK' /\ TrackingInv'
  <1>1. /\ UNCHANGED <<history, order, stored>> /\ job' = [w \in Sessions |-> Idle]
        /\ Spend("fail") /\ spent \in [events : Nat, calls : Nat, fail : Nat]
    BY DEF RestartTracks, TrackingTypeOK
  <1>2. TrackingTypeOK' /\ spent'.events = spent.events
    BY <1>1, IdleOK, SpentOne DEF TrackingTypeOK
  <1>3. Happened' = Happened /\ \A e : Code(e)' = Code(e)
    BY <1>1 DEF Happened, Code
  <1>4. HistoryKnown' /\ StatusExplained'
    BY <1>1, <1>2, <1>3 DEF TrackingInv, HistoryKnown, StatusExplained, Explained
  <1>5. SessionOK(Idle) => SessionOK(Idle)'
    BY <1>1, <1>3 DEF SessionOK, SessionKnown, MovedExplained, PollWhole, WebhookTail, Told,
                      Applied, Idle, Session, Expired, Blank
  <1>6. ASSUME NEW v \in Sessions PROVE SessionOK(job[v])'
    BY <1>1, <1>5, IdleOK
  <1> QED
    BY <1>2, <1>4, <1>6 DEF TrackingInv

-----------------------------------------------------------------------------
LEMMA InitTracks == TracksInit => TrackingTypeOK /\ TrackingInv
  <1> SUFFICES ASSUME TracksInit PROVE TrackingTypeOK /\ TrackingInv
    OBVIOUS
  <1>1. TrackingTypeOK
    BY IdleOK DEF TracksInit, TrackingTypeOK, Statuses, Event
  <1>2. HistoryKnown /\ StatusExplained
    BY TrackingAssumption
    DEF TracksInit, HistoryKnown, StatusExplained, Explained, TrackingAssumption
  <1> QED
    BY <1>1, <1>2, IdleOK DEF TracksInit, TrackingInv

LEMMA NextTracks == TrackingTypeOK /\ TrackingInv /\ [TracksNext]_tvars => (TrackingTypeOK /\ TrackingInv)'
  <1> SUFFICES ASSUME TrackingTypeOK, TrackingInv, [TracksNext]_tvars
               PROVE  TrackingTypeOK' /\ TrackingInv'
    OBVIOUS
  <1>1. ASSUME NEW w \in Sessions, Proceed(w) \/ Commit(w) \/ Fails(w)
        PROVE  TrackingTypeOK' /\ TrackingInv'
    BY <1>1, Fetches, Takes, Inserts, Duplicates, Aligns, Commits, FailsClean
    DEF Proceed, Apply
  <1>2. ASSUME NEW w \in Requesters, Http(w) PROVE TrackingTypeOK' /\ TrackingInv'
    BY <1>1, <1>2, Starts DEF Http, Sessions
  <1>3. CASE Outside
    BY <1>3, Assigns, Happens DEF Outside
  <1>4. CASE Polling
    BY <1>1, <1>4, Starts DEF Polling, Sessions
  <1>5. CASE RestartTracks
    BY <1>5, Restarts
  <1>6. CASE UNCHANGED tvars
    <2>1. Happened' = Happened /\ \A e : Code(e)' = Code(e)
      BY <1>6 DEF tvars, Happened, Code
    <2>2. HistoryKnown' /\ StatusExplained' /\ TrackingTypeOK'
      BY <1>6, <2>1 DEF tvars, TrackingInv, HistoryKnown, StatusExplained, Explained,
                        TrackingTypeOK
    <2>3. ASSUME NEW v \in Sessions PROVE SessionOK(job[v])'
      BY <1>6, <2>1 DEF tvars, TrackingInv, SessionOK, SessionKnown, MovedExplained, PollWhole,
                        WebhookTail, Told, Applied, Expired
    <2> QED
      BY <2>2, <2>3 DEF TrackingInv
  <1> QED
    BY <1>2, <1>3, <1>4, <1>5, <1>6 DEF TracksNext

LEMMA TracksInv == Tracks => [](TrackingTypeOK /\ TrackingInv)
  BY InitTracks, NextTracks, PTL DEF Tracks

(* Tracking is well typed.                                                 *)
THEOREM TrackingTyped == Tracks => []TrackingTypeOK
  BY TracksInv, PTL

(* A status set by the carrier has a stored event that asks for it.        *)
THEOREM StatusComesFromEvent == Tracks => []StatusExplained
  <1>1. TrackingInv => StatusExplained
    BY DEF TrackingInv
  <1> QED
    BY <1>1, TracksInv, PTL

(* A sync or a poll that meets a stored event loses all it was told, not a *)
(* part of it.                                                             *)
THEOREM PollStoresAllOrNothing == Tracks => PollAllOrNothing
  <1> DEFINE A == \A w \in Sessions : Commit(w) /\ job[w].kind # "webhook" =>
                      job[w].ins = Told(job[w]) \/ stored' = stored
  <1>1. TrackingTypeOK /\ TrackingInv /\ [TracksNext]_tvars => [A]_tvars
    <2> SUFFICES ASSUME TrackingTypeOK, TrackingInv, NEW w \in Sessions, Commit(w),
                        job[w].kind # "webhook"
                 PROVE  job[w].ins = Told(job[w]) \/ stored' = stored
      OBVIOUS
    <2> DEFINE g == job[w]
    <2>1. /\ g \in JobType /\ SessionOK(g) /\ g.pc = "next" /\ g.at > Len(g.events)
          /\ DOMAIN g.events = 1..Len(g.events) /\ Len(g.events) \in Nat /\ g.at \in Nat
          /\ stored' = stored \cup g.ins
      BY AtSession DEF Commit, AllRead
    <2>2. Applied(g) = Told(g)
      <3>1. {n \in DOMAIN g.events : n < g.at \/ (n = g.at /\ g.pc = "align")} = DOMAIN g.events
        BY <2>1
      <3> QED
        BY <3>1 DEF Applied, Told
    <2> QED
      BY <2>1, <2>2 DEF SessionOK, PollWhole
  <1> QED
    BY <1>1, TracksInv, PTL DEF Tracks, PollAllOrNothing

(* The last event of an acknowledged webhook is stored.                    *)
THEOREM WebhookStoresLast == Tracks => LastEventStored
  <1> DEFINE A == \A w \in Sessions : Commit(w) /\ job[w].kind = "webhook" =>
                      job[w].events[Len(job[w].events)] \in stored'
  <1>1. TrackingTypeOK /\ TrackingInv /\ [TracksNext]_tvars => [A]_tvars
    <2> SUFFICES ASSUME TrackingTypeOK, TrackingInv, NEW w \in Sessions, Commit(w),
                        job[w].kind = "webhook"
                 PROVE  job[w].events[Len(job[w].events)] \in stored'
      OBVIOUS
    <2> DEFINE g == job[w]
    <2>1. /\ g \in JobType /\ SessionOK(g) /\ g.pc = "next" /\ g.at > Len(g.events)
          /\ Len(g.events) \in Nat /\ g.at \in Nat /\ stored' = stored \cup g.ins
      BY AtSession DEF Commit, AllRead
    <2>2. g.at - 1 = Len(g.events) /\ g.at > 1
      BY <2>1 DEF SessionOK, SessionKnown, WebhookTail
    <2> QED
      BY <2>1, <2>2 DEF SessionOK, WebhookTail
  <1> QED
    BY <1>1, TracksInv, PTL DEF Tracks, LastEventStored

-----------------------------------------------------------------------------
(* Scheduler.                                                              *)

(* Everything the loop does to a session is a step of the Poller.          *)
THEOREM SchedulerTracks == SchedSpec => TracksEvents
  <1>1. SchedInit => TracksInit
    BY DEF SchedInit
  <1>2. [SchedNext]_schedulerVars => [TracksNext]_tvars
    <2> SUFFICES ASSUME SchedNext PROVE TracksNext \/ UNCHANGED tvars
      BY DEF schedulerVars, tvars
    <2>1. CASE ProcessRestarts
      BY <2>1 DEF ProcessRestarts, TracksNext
    <2>2. CASE Requests
      BY <2>2 DEF Requests, TracksNext
    <2>3. CASE PollStarts \/ PollProceeds \/ PollEnds \/ PollFails
      BY <2>3 DEF PollStarts, PollProceeds, PollEnds, PollFails, Polling, TracksNext
    <2>4. CASE LowStockAlert \/ DropshipSync \/ RunDbBackup \/ Sleep
      BY <2>4 DEF LowStockAlert, DropshipSync, RunDbBackup, Sleep
    <2>5. CASE \E t \in Tasks : TaskFails(t)
      BY <2>5 DEF TaskFails
    <2> QED
      BY <2>1, <2>2, <2>3, <2>4, <2>5 DEF SchedNext, Tick
  <1> QED
    BY <1>1, <1>2, PTL DEF SchedSpec, TracksEvents, Tracks

-----------------------------------------------------------------------------
(* The variables of the loop are well typed.                               *)
LoopType ==
    /\ phase \in Tasks \cup {"polling", "sleep"}
    /\ counter \in [Tasks -> Nat]
    /\ since \in [alert : Nat, backup : Nat]
    /\ raised \in BOOLEAN

(* The loop never goes to a task whose turn it is not, and goes to sleep   *)
(* before the backup only when the backup has no turn.                     *)
LEMMA NextTurn ==
    ASSUME NEW i \in 1..5
    PROVE  /\ From(i) \in Tasks \cup {"sleep"}
           /\ From(i) \in Tasks => Turn(From(i))
           /\ From(i) = "alert" => i = 1
           /\ From(i) = "sleep" /\ i <= 4 => counter["backup"] # 0
           /\ i = 1 /\ counter["alert"] = 0 => From(i) = "alert"
  <1> DEFINE due == {k \in i..4 : Turn(TickOrder[k])}
             m == CHOOSE k \in due : \A l \in due : k <= l
  <1>1. CASE due = {}
    <2>1. From(i) = "sleep"
      BY <1>1 DEF From
    <2>2. i <= 4 => 4 \in i..4
      OBVIOUS
    <2>3. i = 1 => 1 \in i..4
      OBVIOUS
    <2> QED
      BY <1>1, <2>1, <2>2, <2>3 DEF Turn, TickOrder, Tasks
  <1>2. CASE due # {}
    <2>1. \E k \in due : \A l \in due : k <= l
      <3>1. due \subseteq {1, 2, 3, 4}
        OBVIOUS
      <3> HIDE DEF due
      <3>2. CASE 1 \in due
        BY <3>1, <3>2
      <3>3. CASE 1 \notin due /\ 2 \in due
        BY <3>1, <3>3
      <3>4. CASE 1 \notin due /\ 2 \notin due /\ 3 \in due
        BY <3>1, <3>4
      <3>5. CASE due \subseteq {4}
        <4>1. 4 \in due /\ \A l \in due : 4 <= l
          <5>1. \A l \in due : l = 4
            BY <3>5
          <5>2. 4 \in due
            BY <1>2, <5>1
          <5> QED
            BY <5>1, <5>2
        <4> QED
          BY <4>1
      <3> QED
        BY <3>1, <3>2, <3>3, <3>4, <3>5
    <2>2. m \in due /\ \A l \in due : m <= l
      BY <2>1
    <2>3. From(i) = TickOrder[m]
      BY <1>2 DEF From
    <2>4. m \in i..4 /\ Turn(TickOrder[m])
      BY <2>2
    <2>5. counter["alert"] = 0 /\ i = 1 => m = 1
      <3>1. counter["alert"] = 0 /\ i = 1 => 1 \in due
        BY DEF Turn, TickOrder
      <3> QED
        BY <2>2, <2>4, <3>1
    <2> HIDE DEF m, due
    <2>6. m \in {1, 2, 3, 4}
      BY <2>4
    <2> QED
      BY <2>3, <2>4, <2>5, <2>6 DEF TickOrder, Tasks
  <1> QED
    BY <1>1, <1>2

LEMMA FirstTurn ==
    /\ From(1) \in Tasks \cup {"sleep"}
    /\ From(1) \in Tasks => Turn(From(1))
    /\ From(1) = "sleep" => counter["backup"] # 0
  BY NextTurn

LEMMA RestAfter ==
    /\ Rest("alert") = From(2) /\ Rest("poll") = From(3)
    /\ Rest("dropship") = From(4) /\ Rest("backup") = From(5)
    /\ From(5) = "sleep"
  <1>1. ASSUME NEW n \in 1..4
        PROVE  (CHOOSE k \in 1..4 : TickOrder[k] = TickOrder[n]) = n
    <2>1. \A k \in 1..4 : TickOrder[k] = TickOrder[n] => k = n
      BY DEF TickOrder
    <2> QED
      BY <2>1
  <1>2. /\ Rest(TickOrder[1]) = From(2) /\ Rest(TickOrder[2]) = From(3)
        /\ Rest(TickOrder[3]) = From(4) /\ Rest(TickOrder[4]) = From(5)
    <2>1. ASSUME NEW n \in 1..4 PROVE Rest(TickOrder[n]) = From(1 + n)
      BY <1>1 DEF Rest
    <2>2. 1 + 1 = 2 /\ 1 + 2 = 3 /\ 1 + 3 = 4 /\ 1 + 4 = 5
      OBVIOUS
    <2> QED
      BY <2>1, <2>2
  <1>3. From(5) = "sleep"
    BY DEF From
  <1> QED
    BY <1>2, <1>3 DEF TickOrder

(* How a counter advances.                                                 *)
LEMMA AdvancedCounter ==
    ASSUME NEW t \in Tasks, NEW c \in Nat, NEW P \in Nat \ {0}, c < P
    PROVE  /\ (c + 1) % P \in Nat /\ (c + 1) % P < P
           /\ (c + 1) % P = IF c + 1 = P THEN 0 ELSE c + 1
  <1>1. CASE c + 1 = P
    BY <1>1
  <1>2. CASE c + 1 < P
    BY <1>2
  <1> QED
    BY <1>1, <1>2

LEMMA PeriodType ==
    /\ Period \in [Tasks -> Nat \ {0}]
    /\ Period["alert"] = LowStockPeriod /\ Period["backup"] = BackupPeriod
    /\ LowStockPeriod \in Nat \ {0} /\ BackupPeriod \in Nat \ {0} /\ DayTicks \in Nat
  BY SchedulerAssumption DEF SchedulerAssumption, Period, Tasks

LoopInv == LoopType /\ TurnsInv

LEMMA InitTurns == SchedInit => LoopInv
  <1> SUFFICES ASSUME SchedInit PROVE LoopInv
    OBVIOUS
  <1>1. LoopType
    BY PeriodType DEF SchedInit, LoopType, Tasks
  <1>2. BackupCounted /\ AlertCounted
    BY PeriodType DEF SchedInit, BackupCounted, AlertCounted, Tasks
  <1>3. /\ \A t \in Tasks : counter[t] < Period[t]
        /\ phase \in Tasks => Turn(phase)
    BY PeriodType DEF SchedInit, Turn
  <1> QED
    BY <1>1, <1>2, <1>3 DEF LoopInv, TurnsInv

(* A step inside of a tick: the counters stay, a task is over.             *)
LEMMA TaskOver ==
    ASSUME LoopInv, NEW i \in 2..5, counter' = counter, phase' = From(i),
           raised' \in BOOLEAN, since' \in [alert : Nat, backup : Nat],
           since'.alert \in {counter.alert, LowStockPeriod},
           \/ since'.backup = 0
           \/ since'.backup = since.backup /\ raised' = raised /\ i <= 4 /\ phase # "sleep"
    PROVE  LoopInv'
  <1>1. /\ phase' \in Tasks \cup {"sleep"} /\ phase' # "alert"
        /\ phase' \in Tasks => Turn(phase')
        /\ phase' = "sleep" /\ i <= 4 => counter["backup"] # 0
    BY NextTurn
  <1>2. LoopType'
    BY <1>1 DEF LoopInv, LoopType
  <1>3. \A t \in Tasks : counter'[t] < Period[t]
    BY DEF LoopInv, TurnsInv
  <1>4. (phase \in Tasks => Turn(phase))'
    BY <1>1 DEF Turn
  <1>5. AlertCounted'
    BY <1>1 DEF AlertCounted
  <1>6. BackupCounted'
    BY <1>1, PeriodType DEF LoopInv, LoopType, TurnsInv, BackupCounted, Tasks
  <1> QED
    BY <1>2, <1>3, <1>4, <1>5, <1>6 DEF LoopInv, TurnsInv

LEMMA TickStep ==
    ASSUME LoopInv, Tick PROVE LoopInv'
  <1>0. /\ since \in [alert : Nat, backup : Nat] /\ counter \in [Tasks -> Nat]
        /\ raised \in BOOLEAN /\ since.alert \in {counter.alert, LowStockPeriod}
        /\ phase \in Tasks => counter[phase] = 0
    BY DEF LoopInv, LoopType, TurnsInv, AlertCounted, Turn
  <1>1. CASE LowStockAlert
    <2>1. counter.alert = 0
      BY <1>0, <1>1 DEF LowStockAlert, Tasks
    <2> QED
      BY <1>0, <1>1, <2>1, TaskOver, RestAfter DEF LowStockAlert
  <1>2. CASE DropshipSync
    BY <1>0, <1>2, TaskOver, RestAfter DEF DropshipSync
  <1>3. CASE RunDbBackup
    <2>1. /\ counter' = counter /\ phase' = From(5) /\ raised' \in BOOLEAN
          /\ since' \in [alert : Nat, backup : Nat]
          /\ since'.alert = since.alert /\ since'.backup = 0
      BY <1>0, <1>3, RestAfter DEF RunDbBackup
    <2> QED
      BY <1>0, <2>1, TaskOver
  <1>4. CASE PollEnds
    BY <1>0, <1>4, TaskOver, RestAfter DEF PollEnds
  <1>5. CASE PollStarts
    BY <1>5 DEF PollStarts, LoopInv, LoopType, TurnsInv, AlertCounted, BackupCounted, Turn,
                Tasks
  <1>6. CASE PollProceeds
    BY <1>6 DEF PollProceeds, LoopInv, LoopType, TurnsInv, AlertCounted, BackupCounted, Turn
  <1>7. CASE TickFails
    BY <1>7 DEF TickFails, LoopInv, LoopType, TurnsInv, AlertCounted, BackupCounted, Turn,
                Tasks
  <1>8. CASE Sleep
    <2>1. /\ counter' = [t \in Tasks |-> (counter[t] + 1) % Period[t]]
          /\ phase = "sleep" /\ raised' = raised /\ phase' = From(1)'
          /\ since' = [alert  |-> IF since.alert < LowStockPeriod THEN since.alert + 1
                                  ELSE since.alert,
                       backup |-> IF since.backup <= DayTicks THEN since.backup + 1
                                  ELSE since.backup]
      BY <1>8 DEF Sleep, Advanced
    <2>2. \A t \in Tasks :
              /\ counter'[t] \in Nat /\ counter'[t] < Period[t]
              /\ counter'[t] = IF counter[t] + 1 = Period[t] THEN 0 ELSE counter[t] + 1
      BY <1>0, <2>1, AdvancedCounter, PeriodType DEF LoopInv, TurnsInv
    <2>3. /\ (phase \in Tasks \cup {"sleep"})'
          /\ (phase \in Tasks => Turn(phase))'
          /\ (phase = "sleep" => counter["backup"] # 0)'
      <3>1. (/\ From(1) \in Tasks \cup {"sleep"}
             /\ From(1) \in Tasks => Turn(From(1))
             /\ From(1) = "sleep" => counter["backup"] # 0)'
        BY FirstTurn, PTL
      <3> QED
        BY <2>1, <3>1 DEF Turn
    <2>4. LoopType'
      BY <1>0, <2>1, <2>2, <2>3 DEF LoopType
    <2>5. AlertCounted'
      BY <1>0, <2>1, <2>2, <2>3, PeriodType
      DEF AlertCounted, LoopInv, TurnsInv, Turn, Tasks
    <2>6. BackupCounted'
      BY <1>0, <2>1, <2>2, <2>3, PeriodType
      DEF BackupCounted, LoopInv, TurnsInv, Tasks
    <2> QED
      BY <2>2, <2>3, <2>4, <2>5, <2>6 DEF LoopInv, TurnsInv
  <1> QED
    BY <1>1, <1>2, <1>3, <1>4, <1>5, <1>6, <1>7, <1>8 DEF Tick, PollFails, TaskFails

LEMMA NextTurns == LoopInv /\ [SchedNext]_schedulerVars => LoopInv'
  <1> SUFFICES ASSUME LoopInv, [SchedNext]_schedulerVars PROVE LoopInv'
    OBVIOUS
  <1>1. CASE Requests \/ UNCHANGED schedulerVars
    BY <1>1 DEF Requests, schedulerVars, LoopInv, LoopType, TurnsInv, AlertCounted, BackupCounted, Turn
  <1>2. CASE ProcessRestarts
    BY <1>2, PeriodType DEF ProcessRestarts, LoopInv, LoopType, TurnsInv, AlertCounted,
                            BackupCounted, Turn, Tasks
  <1> QED
    BY <1>1, <1>2, TickStep DEF SchedNext

(* Only a tick that was cut short makes a backup late.                     *)
THEOREM BackupsOnTime == SchedSpec => []BackupOnTime
  <1>1. LoopInv => BackupOnTime
    BY PeriodType DEF LoopInv, LoopType, TurnsInv, BackupCounted, BackupOnTime
  <1> QED
    BY <1>1, InitTurns, NextTurns, PTL DEF SchedSpec

(* The alert is sent once in a period.                                     *)
THEOREM AlertsSpaced == SchedSpec => AlertOncePerPeriod
  <1>1. LoopInv /\ [SchedNext]_schedulerVars => [LowStockAlert => since.alert = LowStockPeriod]_schedulerVars
    BY DEF LoopInv, TurnsInv, AlertCounted, LowStockAlert
  <1> QED
    BY <1>1, InitTurns, NextTurns, PTL DEF SchedSpec, AlertOncePerPeriod
=============================================================================
