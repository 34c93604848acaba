------------------------------ MODULE Timeline ------------------------------
(***************************************************************************)
(* What a customer is shown of an order: services/tracking.py, on top of   *)
(* the calls that move an order and write the audit log.                   *)
(*                                                                         *)
(* A call is a transaction: it reads the order, and what it changes shows  *)
(* at its commit, stamped with the time the transaction began.  What a     *)
(* call does to the stock is in OrderStock and left out here.              *)
(***************************************************************************)
EXTENDS Integers, FiniteSets

CONSTANTS
    Numbers,       \* counters of the orders, such as 17 of TT-2026-0017
    Clerks,        \* concurrent calls
    ReturnDays,    \* how long a return is offered
    MaxClock       \* bound: instants

ASSUME TimelineAssumption ==
    Numbers \subseteq 1..99999 /\ ReturnDays \in Nat /\ MaxClock \in Nat

VARIABLES
    order,    \* order[n]: columns status, payment_status, created_at, updated_at; any return
    log,      \* audit_logs with action order-status
    call,     \* call[c]: the call clerk c is in
    clock,
    past      \* observed only: when n entered each status, and whether every
              \* change went forward and overlapped with no other call

timelineVars == <<order, log, call, clock, past>>

Statuses == {"pending", "processing", "shipped", "delivered", "cancelled"}
Fulfil   == {"processing", "shipped", "delivered"}
Rank     == [pending |-> 0, processing |-> 1, shipped |-> 2, delivered |-> 3, cancelled |-> 3]

NoCall == [kind |-> "none", n |-> 0, to |-> "pending", saw |-> "pending", paid |-> FALSE, at |-> 0]

TimelineInit ==
    /\ order = [n \in Numbers |-> [st |-> "pending", paid |-> FALSE, created |-> 0, updated |-> 0,
                                   return |-> FALSE]]
    /\ log = {} /\ clock = 0
    /\ call = [c \in Clerks |-> NoCall]
    /\ past = [n \in Numbers |-> [entered |-> [s \in Statuses |-> {}], smooth |-> TRUE]]

Exists(n) == order[n].created > 0
Now       == clock + 1
Tick      == clock < MaxClock /\ clock' = Now

-----------------------------------------------------------------------------
(* The calls.                                                              *)

CreateOrder(n) ==
    /\ ~ Exists(n) /\ Tick /\ \A m \in Numbers : m < n => Exists(m)
    /\ order' = [order EXCEPT ![n].created = Now, ![n].updated = Now]
    /\ UNCHANGED <<log, call, past>>

BeginCall(c, n, kind, to) ==
    /\ call[c] = NoCall /\ Exists(n) /\ Tick
    /\ call' = [call EXCEPT ![c] = [kind |-> kind, n |-> n, to |-> to, saw |-> order[n].st,
                                    paid |-> order[n].paid, at |-> Now]]
    /\ past' = IF \E d \in Clerks : call[d].n = n THEN [past EXCEPT ![n].smooth = FALSE] ELSE past
    /\ UNCHANGED <<order, log>>

UpdateStatus(c, n, s) == BeginCall(c, n, "status", s)
Callback(c, n, s)     == ~ order[n].paid /\ s \in {"processing", "cancelled"} /\ BeginCall(c, n, "payment", s)
CarrierEvent(c, n, s) == s \in {"shipped", "delivered", "cancelled"} /\ BeginCall(c, n, "carrier", s)
PatchOrder(c, n)      == BeginCall(c, n, "patch", order[n].st)

(* A carrier moves an order forward only.                                  *)
Moves(k)  == k.kind \in {"status", "payment"} \/ (k.kind = "carrier" /\ Rank[k.to] > Rank[k.saw])
Logs(k)   == k.kind \in {"status", "carrier"} /\ Moves(k)
Pays(k)   == \/ k.kind = "status" /\ k.to \in Fulfil /\ k.saw \notin Fulfil
             \/ k.kind = "payment" /\ k.to = "processing"

(* Only the columns that differ from what was read are written, and        *)
(* updated_at along with them.                                             *)
CommitCall(c) ==
    LET k == call[c]  n == k.n  moved == Moves(k) /\ k.to # k.saw  paid == Pays(k) /\ ~ k.paid IN
    /\ k.kind # "none"
    /\ order' = [order EXCEPT ![n].st = IF moved THEN k.to ELSE @,
                              ![n].paid = @ \/ paid,
                              ![n].updated = IF moved \/ paid \/ k.kind \in {"carrier", "patch"} THEN k.at ELSE @]
    /\ log' = IF Logs(k) THEN log \cup {[n |-> n, to |-> k.to, at |-> k.at]} ELSE log
    /\ call' = [call EXCEPT ![c] = NoCall]
    /\ past' = IF ~ Moves(k) THEN past
               ELSE [past EXCEPT ![n].entered[k.to] = @ \cup {k.at},
                                 ![n].smooth = @ /\ Rank[k.to] > Rank[order[n].st]]
    /\ UNCHANGED clock

Return(n) ==
    /\ order[n].st \in Fulfil /\ ~ order[n].return
    /\ order' = [order EXCEPT ![n].return = TRUE]
    /\ UNCHANGED <<log, call, clock, past>>

(* clear_audit.                                                            *)
ClearAudit ==
    /\ log # {} /\ log' = {}
    /\ UNCHANGED <<order, call, clock, past>>

Wait == Tick /\ UNCHANGED <<order, log, call, past>>

TimelineNext ==
    \/ \E n \in Numbers : CreateOrder(n) \/ Return(n)
    \/ \E c \in Clerks, n \in Numbers :
          PatchOrder(c, n) \/ \E s \in Statuses : UpdateStatus(c, n, s) \/ Callback(c, n, s) \/ CarrierEvent(c, n, s)
    \/ \E c \in Clerks : CommitCall(c)
    \/ ClearAudit \/ Wait

TimelineSpec == TimelineInit /\ [][TimelineNext]_timelineVars

-----------------------------------------------------------------------------
(* What is shown.  0: no time.                                             *)

(* Faulty variant of Width: the number is written without leading zeros.   *)
WidthUnpadded(n) == CHOOSE w \in 1..5 : 10 ^ (w - 1) <= n /\ n < 10 ^ w

(* Digits of an order's number.                                            *)
Width(n) == IF n < 10000 THEN 4 ELSE 5

(* The log is searched for messages that begin with the number.            *)
Begins(n, m) == LET more == Width(m) - Width(n) IN more >= 0 /\ m \div 10 ^ more = n

Latest(S) == IF S = {} THEN 0 ELSE CHOOSE t \in S : \A u \in S : u <= t

Transition(n, s) == Latest({r.at : r \in {q \in log : q.to = s /\ Begins(n, q.n)}})

Steps == <<"pending", "paid", "processing", "shipped", "delivered">>

StepTime(n, s) ==
    CASE s = "pending" -> order[n].created
      [] s = "paid"    -> IF Transition(n, "processing") # 0 THEN Transition(n, "processing")
                          ELSE IF order[n].paid THEN order[n].updated ELSE 0
      [] OTHER         -> Transition(n, s)

StepNumber(s) == CHOOSE i \in 1..5 : Steps[i] = s

(* The step the order is at.                                               *)
Active(n) == IF order[n].paid /\ order[n].st = "pending" THEN 2 ELSE StepNumber(order[n].st)

(* The steps that are reached and have a time.                             *)
Reached(n) == {i \in 1..Active(n) : StepTime(n, Steps[i]) # 0}

CanRequestReturn(n) ==
    order[n].st = "delivered" /\ ~ order[n].return /\ clock - order[n].updated <= ReturnDays

-----------------------------------------------------------------------------
(* Properties.                                                             *)

Shown == {n \in Numbers : Exists(n) /\ order[n].st # "cancelled"}

OwnTimes ==
    \A n \in Shown, s \in Fulfil : StepTime(n, s) # 0 => StepTime(n, s) \in past[n].entered[s]

(* The time of a payment is a guess when no move to processing is logged.  *)
InOrder ==
    \A n \in Shown : past[n].smooth =>
        \A i, j \in Reached(n) :
            i < j /\ (Transition(n, "processing") # 0 \/ 2 \notin {i, j})
                => StepTime(n, Steps[i]) <= StepTime(n, Steps[j])

OfferStands ==
    \A n \in Shown :
        /\ past[n].smooth /\ order[n].st = "delivered" /\ ~ order[n].return
        /\ clock - Latest(past[n].entered["delivered"]) <= ReturnDays
        => CanRequestReturn(n)

(* The times a customer sees are of moves of this order and no other; they *)
(* are in order, and a return is offered for the whole period after        *)
(* delivery, as long as the order only went forward and no two calls on it *)
(* overlapped (tracking.py:125-147, 157-229, 321-326).                     *)
TimelineTrue == OwnTimes /\ InOrder /\ OfferStands
=============================================================================
