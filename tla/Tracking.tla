------------------------------ MODULE Tracking ------------------------------
(***************************************************************************)
(* Parcel tracking: services/carriers/dispatch.py, routers/shipping.py and *)
(* the poll of services/scheduled.py.                                      *)
(*                                                                         *)
(* A webhook, a sync by an administrator and the poll bring events of the  *)
(* carrier into table shipment_events, one by one, in one transaction.  An *)
(* event that is stored already violates the unique constraint, and then   *)
(* the whole session is rolled back: what came before it in the same call  *)
(* is gone, and the objects the session had loaded are expired.  A webhook *)
(* selects the order of its next event again; sync and poll go on with the *)
(* expired one, and the first attribute they touch raises.                 *)
(***************************************************************************)
EXTENDS Integers, Sequences, FiniteSets, Relation

CONSTANTS
    Orders,        \* orders with a tracking number
    Requesters,    \* concurrent HTTP calls
    Poller,        \* the scheduler task of scheduled.py
    Shipped,       \* orders an administrator has set to shipped
    Aging,         \* orders that may outlast the poll's window of some weeks
    Codes,         \* event codes the carrier reports
    MaxScans,      \* bound: events of the carrier, over all orders
    MaxCalls,      \* bound: webhooks and syncs
    MaxFail        \* bound: outages of the database and restarts of the process

(* One code of EVENT_CODES for each effect: picked_up and out_for_delivery *)
(* act like in_transit, failed_attempt like created, cancelled like        *)
(* returned.                                                               *)
AllCodes == {"created", "in_transit", "delivered", "returned"}

ASSUME TrackingAssumption ==
    /\ Poller \notin Requesters
    /\ Shipped \subseteq Orders /\ Aging \subseteq Orders
    /\ Codes \subseteq AllCodes
    /\ MaxScans \in Nat /\ MaxCalls \in Nat /\ MaxFail \in Nat

VARIABLES
    history,   \* history[o]: codes of what happened to the parcel, old to new
    order,     \* order[o]: columns status, carrier (is it set) and shipped_at
    stored,    \* rows of shipment_events: <<o, k>> is event k of history[o]
    job,       \* job[w]: what call w is doing
    spent      \* how much of each bound is used up

tvars == <<history, order, stored, job, spent>>

Sessions == Requesters \cup {Poller}
Event    == Orders \X (1..MaxScans)
Statuses == {"processing", "shipped", "delivered", "cancelled"}
Rank     == [processing |-> 1, shipped |-> 2, delivered |-> 3, cancelled |-> 3]

(* The status an event asks for; "created" asks for none.                  *)
EventStatus(c) ==
    CASE c = "in_transit" -> "shipped"
      [] c = "delivered"  -> "delivered"
      [] c = "returned"   -> "cancelled"
      [] OTHER            -> "none"

Code(e) == history[e[1]][e[2]]

(* A session.  seen is the status of the orders it has loaded, moved the   *)
(* ones whose status it changed, locked the rows it has updated, ins the   *)
(* events it has inserted; events[at] is the event it is about to apply.   *)
Unread == "unread"
Session(kind, pc, todo, events, seen) ==
    [kind |-> kind, pc |-> pc, todo |-> todo, events |-> events, at |-> 1, ins |-> {},
     seen |-> seen, moved |-> {}, locked |-> {}]
Blank == [o \in Orders |-> Unread]
Expired(j) == j.seen = Blank
Idle  == Session("none", "idle", {}, <<>>, Blank)

TracksInit ==
    /\ history = [o \in Orders |-> <<>>]
    /\ order = [o \in Orders |->
                   [status |-> IF o \in Shipped THEN "shipped" ELSE "processing",
                    carrier |-> FALSE, shippedAt |-> "unset"]]
    /\ stored = {}
    /\ job = [w \in Sessions |-> Idle]
    /\ spent = [events |-> 0, calls |-> 0, fail |-> 0]

Spend(b)  == spent' = [spent EXCEPT ![b] = @ + 1]
Finish(w) == job' = [job EXCEPT ![w] = Idle]
Current(j) == j.events[j.at]
LoadedFor(S) == [o \in Orders |-> IF o \in S THEN order[o].status ELSE Unread]

-----------------------------------------------------------------------------
(* The carrier.                                                            *)

Happen(o, c) ==
    /\ spent.events < MaxScans
    /\ Spend("events")
    /\ history' = [history EXCEPT ![o] = Append(@, c)]
    /\ UNCHANGED <<order, stored, job>>

Happened == {e \in Event : e[2] <= Len(history[e[1]])}

(* A webhook carries an event or two, new or old, in any order.            *)
Batches == {<<e>> : e \in Happened} \cup {p \in Happened \X Happened : p[1] # p[2]}

-----------------------------------------------------------------------------
(* How the calls start.                                                    *)

CarrierWebhook(w, batch) ==
    /\ job[w].pc = "idle"
    /\ spent.calls < MaxCalls
    /\ Spend("calls")
    /\ job' = [job EXCEPT ![w] = Session("webhook", "next", {}, batch, Blank)]
    /\ UNCHANGED <<history, order, stored>>

SyncOrder(w, o) ==
    /\ job[w].pc = "idle"
    /\ spent.calls < MaxCalls
    /\ Spend("calls")
    /\ job' = [job EXCEPT ![w] = Session("sync", "next", {o}, <<>>, LoadedFor({o}))]
    /\ UNCHANGED <<history, order, stored>>

(* The poll takes the shipped orders of the last weeks.                    *)
Polled == {o \in Orders : /\ order[o].status = "shipped"
                          /\ order[o].carrier
                          /\ order[o].shippedAt = "recent"}

ShipmentPoll(w) ==
    /\ job[w].pc = "idle"
    /\ job' = [job EXCEPT ![w] = Session("poll", "next", Polled, <<>>, LoadedFor(Polled))]
    /\ UNCHANGED <<history, order, stored, spent>>

Busy(w) == job[w].pc = "next" /\ job[w].at <= Len(job[w].events)
AllRead(w) == job[w].pc = "next" /\ job[w].at > Len(job[w].events)

Answered(j, o, answer) == [j EXCEPT !.todo = @ \ {o}, !.events = @ \o answer]

(* The carrier answers with the whole history, or not at all.              *)
Fetch(w, o) ==
    /\ AllRead(w)
    /\ o \in job[w].todo
    /\ ~ Expired(job[w])
    /\ \E answer \in {[k \in 1..Len(history[o]) |-> <<o, k>>], <<>>} :
           job' = [job EXCEPT ![w] = Answered(@, o, answer)]
    /\ UNCHANGED <<history, order, stored, spent>>

-----------------------------------------------------------------------------
(* apply_event, once for every event of a call.                            *)

(* The select refreshes an order only if the session does not have it.     *)
Selected(j) ==
    LET o == Current(j)[1]
    IN  [j EXCEPT !.pc = "insert",
                  !.seen[o] = IF @ = Unread THEN order[o].status ELSE @]

(* The webhook selects the order; the others must not have lost theirs.    *)
Take(w) ==
    /\ Busy(w)
    /\ job[w].kind = "webhook" \/ ~ Expired(job[w])
    /\ job' = [job EXCEPT ![w] = Selected(@)]
    /\ UNCHANGED <<history, order, stored, spent>>

(* Another transaction has inserted the event and is not over, or has      *)
(* updated the order.                                                      *)
InsertWaits(w, v) == v # w /\ job[w].pc = "insert" /\ Current(job[w]) \in job[v].ins
AlignWaits(w, v)  == v # w /\ job[w].pc = "align" /\ Current(job[w])[1] \in job[v].locked
WaitsFor(w, v)    == InsertWaits(w, v) \/ AlignWaits(w, v)
Waiting(w)        == \E v \in Sessions : WaitsFor(w, v)

Inserted(j) == [j EXCEPT !.pc = "align", !.ins = @ \cup {Current(j)}]

InsertEvent(w) ==
    /\ job[w].pc = "insert"
    /\ ~ Waiting(w)
    /\ Current(job[w]) \notin stored \cup job[w].ins
    /\ job' = [job EXCEPT ![w] = Inserted(@)]
    /\ UNCHANGED <<history, order, stored, spent>>

(* Faulty variant of RolledBack: the events are undone but the changes of  *)
(* orders are not.                                                         *)
RolledBackEvents(j) == [j EXCEPT !.pc = "next", !.at = @ + 1, !.ins = {}]

(* db.rollback(): the transaction is undone, the objects are expired.      *)
RolledBack(j) ==
    [Session(j.kind, "next", j.todo, j.events, Blank) EXCEPT !.at = j.at + 1]

Duplicate(w) ==
    /\ job[w].pc = "insert"
    /\ ~ Waiting(w)
    /\ Current(job[w]) \in stored \cup job[w].ins
    /\ job' = [job EXCEPT ![w] = RolledBack(@)]
    /\ UNCHANGED <<history, order, stored, spent>>

(* The order is updated in any case (last_tracking_sync_at); its status    *)
(* only moves on from the one the session has seen.                        *)
Forward(j) ==
    LET s == EventStatus(Code(Current(j)))
    IN  s # "none" /\ Rank[s] > Rank[j.seen[Current(j)[1]]]

Aligned(j) ==
    LET o == Current(j)[1]
        next == [j EXCEPT !.pc = "next", !.at = @ + 1, !.locked = @ \cup {o}]
    IN  IF Forward(j)
        THEN [next EXCEPT !.moved = @ \cup {o}, !.seen[o] = EventStatus(Code(Current(j)))]
        ELSE next

Align(w) ==
    /\ job[w].pc = "align"
    /\ ~ Waiting(w)
    /\ job' = [job EXCEPT ![w] = Aligned(@)]
    /\ UNCHANGED <<history, order, stored, spent>>

-----------------------------------------------------------------------------
(* How the calls end.                                                      *)

(* shipped_at is set with the first move to shipped.                       *)
Updated(o, j) ==
    [status    |-> IF o \in j.moved THEN j.seen[o] ELSE order[o].status,
     carrier   |-> order[o].carrier \/ o \in j.locked,
     shippedAt |-> IF o \in j.moved /\ j.seen[o] = "shipped" /\ order[o].shippedAt = "unset"
                   THEN "recent" ELSE order[o].shippedAt]

Commit(w) ==
    /\ AllRead(w)
    /\ job[w].todo = {}
    /\ job[w].kind = "sync" => ~ Expired(job[w])
    /\ stored' = stored \cup job[w].ins
    /\ order' = [o \in Orders |-> Updated(o, job[w])]
    /\ Finish(w)
    /\ UNCHANGED <<history, spent>>

(* An attribute of an expired object: of the order for the next event, of  *)
(* the next order of the poll, of the user for the audit log of a sync.    *)
Raise(w) ==
    /\ job[w].kind \in {"sync", "poll"}
    /\ Expired(job[w])
    /\ Busy(w) \/ (AllRead(w) /\ (job[w].todo # {} \/ job[w].kind = "sync"))
    /\ Finish(w)
    /\ UNCHANGED <<history, order, stored, spent>>

(* Postgres ends one of the transactions that wait in a circle; the error  *)
(* is not an IntegrityError, so the call fails.                            *)
InCircle(w) ==
    TransitiveClosure([p \in Sessions \X Sessions |-> WaitsFor(p[1], p[2])], Sessions)[w, w]

Victim(w) ==
    /\ Waiting(w)
    /\ InCircle(w)
    /\ Finish(w)
    /\ UNCHANGED <<history, order, stored, spent>>

Outage(w) ==
    /\ job[w].pc # "idle"
    /\ spent.fail < MaxFail
    /\ Spend("fail")
    /\ Finish(w)
    /\ UNCHANGED <<history, order, stored>>

RestartTracks ==
    /\ spent.fail < MaxFail
    /\ Spend("fail")
    /\ job' = [w \in Sessions |-> Idle]
    /\ UNCHANGED <<history, order, stored>>

-----------------------------------------------------------------------------
(* POST /api/shipping/assign; and the poll's window passes.                *)

AssignCarrier(o) ==
    /\ ~ \E w \in Sessions : o \in job[w].locked
    /\ order' = [order EXCEPT ![o].carrier = TRUE,
                              ![o].shippedAt = IF @ = "unset" THEN "recent" ELSE @]
    /\ UNCHANGED <<history, stored, job, spent>>

AgeOut(o) ==
    /\ o \in Aging
    /\ order[o].shippedAt = "recent"
    /\ order' = [order EXCEPT ![o].shippedAt = "old"]
    /\ UNCHANGED <<history, stored, job, spent>>

-----------------------------------------------------------------------------
Apply(w) == Take(w) \/ InsertEvent(w) \/ Duplicate(w) \/ Align(w)

Proceed(w) == (\E o \in Orders : Fetch(w, o)) \/ Apply(w)

Fails(w) == Raise(w) \/ Victim(w) \/ Outage(w)

Http(w) ==
    \/ \E batch \in Batches : CarrierWebhook(w, batch)
    \/ \E o \in Orders : SyncOrder(w, o)
    \/ Proceed(w) \/ Commit(w) \/ Fails(w)

Outside ==
    \E o \in Orders : AssignCarrier(o) \/ AgeOut(o) \/ (\E c \in Codes : Happen(o, c))

Polling == ShipmentPoll(Poller) \/ Proceed(Poller) \/ Commit(Poller) \/ Fails(Poller)

TracksNext == (\E w \in Requesters : Http(w)) \/ Outside \/ Polling \/ RestartTracks

Tracks == TracksInit /\ [][TracksNext]_tvars

-----------------------------------------------------------------------------
(* Properties.                                                             *)

JobType ==
    [kind   : {"none", "webhook", "sync", "poll"},
     pc     : {"idle", "next", "insert", "align"},
     todo   : SUBSET Orders,
     events : Seq(Event),
     at     : Nat \ {0},
     ins    : SUBSET Event,
     seen   : [Orders -> Statuses \cup {Unread}],
     moved  : SUBSET Orders,
     locked : SUBSET Orders]

TrackingTypeOK ==
    /\ history \in [Orders -> Seq(Codes)]
    /\ order \in [Orders -> [status : Statuses, carrier : BOOLEAN,
                             shippedAt : {"unset", "recent", "old"}]]
    /\ stored \subseteq Event
    /\ job \in [Sessions -> JobType]
    /\ spent \in [events : Nat, calls : Nat, fail : Nat]

(* A status the carrier has set is explained by a stored event, whatever   *)
(* was rolled back: dispatch.py:97-128 writes both or neither.             *)
Explained(o, s) ==
    \/ \E e \in stored : e[1] = o /\ EventStatus(Code(e)) = s
    \/ s = "processing"
    \/ s = "shipped" /\ o \in Shipped
StatusExplained == \A o \in Orders : Explained(o, order[o].status)

(* What dispatch.py:3-5 says: an event that is stored already is swallowed *)
(* silently, so every call that commits leaves all it was told stored.     *)
(* The rollback of dispatch.py:99-101 undoes the events before it too.     *)
Told(j) == {j.events[i] : i \in DOMAIN j.events}
DuplicatesSwallowed ==
    [][\A w \in Sessions : Commit(w) => Told(job[w]) \subseteq stored']_tvars

(* What is left of it for a sync or a poll: what it loses is never a part, *)
(* it stores all it was told or nothing (scheduled.py:179-182).            *)
PollAllOrNothing ==
    [][\A w \in Sessions : Commit(w) /\ job[w].kind # "webhook" =>
           job[w].ins = Told(job[w]) \/ stored' = stored]_tvars

(* A webhook goes on behind a duplicate: the last event of a body that was *)
(* acknowledged is stored (shipping.py:53-58).                             *)
LastEventStored ==
    [][\A w \in Sessions : Commit(w) /\ job[w].kind = "webhook" =>
           job[w].events[Len(job[w].events)] \in stored']_tvars

(* Why they hold.  Applied(j) is what a session has put behind it.         *)
Applied(j) == {j.events[i] : i \in {n \in DOMAIN j.events :
                                     n < j.at \/ (n = j.at /\ j.pc = "align")}}

HistoryKnown ==
    /\ \A o \in Orders : Len(history[o]) <= spent.events
    /\ spent.events <= MaxScans
    /\ stored \subseteq Happened

SessionKnown(j) ==
    /\ Told(j) \subseteq Happened
    /\ j.at <= Len(j.events) + 1
    /\ j.pc \in {"insert", "align"} => j.at <= Len(j.events)
    /\ j.ins \subseteq Applied(j)
    /\ j.pc = "align" => j.events[j.at] \in j.ins

(* What a session will write is explained by what it will store.           *)
MovedExplained(j) ==
    \A o \in j.moved : \E e \in j.ins : e[1] = o /\ EventStatus(Code(e)) = j.seen[o]

(* A sync or a poll has all it was told so far, or has lost everything.    *)
PollWhole(j) ==
    j.kind # "webhook" =>
        IF Expired(j) THEN j.ins = {} /\ j.pc \in {"idle", "next"} ELSE j.ins = Applied(j)

WebhookTail(j) ==
    j.kind = "webhook" =>
        /\ j.todo = {} /\ Len(j.events) > 0
        /\ \A i, k \in DOMAIN j.events : j.events[i] = j.events[k] => i = k
        /\ j.at > 1 /\ j.pc # "align" => j.events[j.at - 1] \in j.ins \cup stored

SessionOK(j) == SessionKnown(j) /\ MovedExplained(j) /\ PollWhole(j) /\ WebhookTail(j)

TrackingInv ==
    HistoryKnown /\ StatusExplained /\ \A w \in Sessions : SessionOK(job[w])
=============================================================================
