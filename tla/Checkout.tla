------------------------------ MODULE Checkout ------------------------------
(***************************************************************************)
(* What POST /checkout computes and in which order: coupon, loyalty        *)
(* points, totals and order number (routers/orders.py, services/loyalty.py,*)
(* routers/coupons.py).  Stock and payment calls are in OrderStock; here   *)
(* an order is an amount that is paid, cancelled, revived or deleted.      *)
(*                                                                         *)
(* One customer, one coupon code and one year.  Amounts are in kurus, the  *)
(* hundredth of a lira.  A checkout is cut after each of its reads: the    *)
(* coupon, the points, the counter row, which it locks up to its commit.   *)
(***************************************************************************)
EXTENDS Integers, Sequences, FiniteSets, Functions, Money

CONSTANTS
    Orders, Workers,
    Basket,        \* Basket[o]: subtotal of the order's lines
    Ask,           \* Ask[o]: points the customer wants to spend
    Forms,         \* what an administrator may save as the coupon
    Fee, Free,     \* settings: the shipping fee, and the basket it ends at
    MaxCrash,      \* bound: checkouts that die
    MaxEdits,      \* bound: changes of the coupon
    MaxDesk,       \* bound: changes of committed orders
    NoWorker, NoOrder

ASSUME PartiesAssumption == NoWorker \notin Workers /\ NoOrder \notin Orders
ASSUME AmountsAssumption ==
    /\ IsFiniteSet(Orders)
    /\ Basket \in [Orders -> Nat \ {0}]
    /\ Ask \in [Orders -> Nat]
    /\ Forms \subseteq [kind : {"percent", "fixed"}, value : Nat, min : Nat, active : BOOLEAN]
    /\ Fee \in Nat /\ Free \in Nat
    /\ MaxCrash \in Nat /\ MaxEdits \in Nat /\ MaxDesk \in Nat

VARIABLES
    order,       \* order[o]: row of table orders
    coupon,      \* row of table coupons, or NoCoupon
    counter,     \* column seq of the year's order_counters row, 0 before it exists
    lock,        \* the transaction that holds that row
    job,         \* job[w]: the checkout worker w is in
    spent        \* how much of each bound is used up

vars == <<order, coupon, counter, lock, job, spent>>

-----------------------------------------------------------------------------
(* Totals of an order.                                                     *)

NoCoupon == [kind |-> "none", value |-> 0, min |-> 0, active |-> FALSE]

(* Hundredths of a kurus the coupon takes off a subtotal s.                *)
Discount(s, c) ==
    CASE ~ c.active -> 0
      [] c.active /\ c.kind = "percent" -> s * c.value
      [] c.active /\ c.kind = "fixed" -> 100 * Lesser(c.value, s)

(* _calc_totals and the amounts of the order row: 20 per cent tax on what  *)
(* is left of the subtotal, shipping below the threshold.                  *)
Bill(s, c, pts, loy) ==
    LET taxable  == Atleast0(100 * s - Discount(s, c) - 100 * loy)
        shipping == IF taxable > 0 /\ taxable < 100 * Free THEN Fee ELSE 0
    IN  [subtotal |-> s, discount |-> Stored(Discount(s, c), 100),
         points |-> pts, loyalty |-> loy, tax |-> Stored(taxable, 500),
         shipping |-> shipping, total |-> Stored(6 * taxable, 500) + shipping]

NoBill == [subtotal |-> 0, discount |-> 0, points |-> 0, loyalty |-> 0,
           tax |-> 0, shipping |-> 0, total |-> 0]

-----------------------------------------------------------------------------
(* services/loyalty.py.                                                    *)

Live == {o \in Orders : order[o].row = "live"}

(* One point per lira of a paid order of the last twelve months that was   *)
(* not paid with points; Python rounds halves of a lira to even.           *)
PointsFor(b) ==
    LET net == Atleast0(b.subtotal - b.discount - b.loyalty)
        low == net \div 100
        odd == net % 100
    IN  IF odd > 50 \/ (odd = 50 /\ low % 2 = 1) THEN low + 1 ELSE low

Paying == {o \in Live : order[o].pay = "success"}
Earned == SumFunctionOnSet([o \in Orders |-> PointsFor(order[o].bill)], {o \in Paying : order[o].recent})

(* Points of every order that is not cancelled count as used, paid or not. *)
Points == [o \in Orders |-> order[o].bill.points]
Used   == SumFunctionOnSet(Points, {o \in Live : order[o].status # "cancelled"})

(* Faulty variant of Balance: only paid orders have used their points.     *)
BalanceOfPaid ==
    Atleast0(Earned - SumFunctionOnSet(Points, {o \in Paying : order[o].status # "cancelled"}))

Balance == IF Paying = {} THEN 0 ELSE Atleast0(Earned - Used)

(* Faulty variant of Redeem: the share of the basket is not enforced.      *)
RedeemAll(pts, rest) == IF pts = 0 THEN {0} ELSE {10 * pts}

(* redeem_points_to_discount: ten points are one lira, at most 20 per cent *)
(* of a basket worth rest hundredths.  A basket of zero is not capped.     *)
Redeem(pts, rest) ==
    IF pts = 0 THEN {0}
    ELSE IF rest > 0 /\ 5000 * pts > rest THEN Rounded(rest, 500)
    ELSE {10 * pts}

(* The bills a checkout that found a balance of b points may arrive at.    *)
Bills(o, c, b) ==
    LET s    == Basket[o]
        rest == Atleast0(100 * s - Discount(s, c))
    IN  UNION {IF loy = 0 THEN {Bill(s, c, 0, 0)}
               ELSE {Bill(s, c, pts, loy) : pts \in Rounded(loy, 10)} :
                  loy \in Redeem(Lesser(Ask[o], b), rest)}

-----------------------------------------------------------------------------
Row(r, st, pay, recent, no, bill) ==
    [row |-> r, status |-> st, pay |-> pay, recent |-> recent, no |-> no, bill |-> bill]
NoRow == Row("absent", "pending", "initiated", TRUE, 0, NoBill)

(* fresh is observed only: no order has changed since the points were read. *)
Job(pc, o, c, fresh, bill) ==
    [pc |-> pc, o |-> o, coupon |-> c, fresh |-> fresh, bill |-> bill, no |-> 0]
Idle == Job("idle", NoOrder, NoCoupon, FALSE, NoBill)

Overtaken   == [w \in Workers |-> [job[w] EXCEPT !.fresh = FALSE]]
Finish(w)   == job' = [job EXCEPT ![w] = Idle]
Spend(what) == spent' = [spent EXCEPT ![what] = @ + 1]

Init ==
    /\ order = [o \in Orders |-> NoRow]
    /\ coupon = NoCoupon
    /\ counter = 0
    /\ lock = NoWorker
    /\ job = [w \in Workers |-> Idle]
    /\ spent = [crash |-> 0, edits |-> 0, desk |-> 0]

(* The basket is priced and the coupon read.  A coupon that is not active  *)
(* is kept, takes nothing off, and its minimum is still asked for.         *)
Begin(w, o) ==
    /\ job[w].pc = "idle"
    /\ order[o].row = "absent"
    /\ \A v \in Workers : job[v].o # o
    /\ \E c \in {NoCoupon, coupon} :
          /\ Basket[o] >= c.min
          /\ job' = [job EXCEPT ![w] = Job("points", o, c, FALSE, NoBill)]
    /\ UNCHANGED <<order, coupon, counter, lock, spent>>

(* The balance is read without a lock, and the totals are settled.         *)
Quote(w) ==
    LET j == job[w]
        b == IF Ask[j.o] = 0 THEN 0 ELSE Balance
    IN
    /\ j.pc = "points"
    /\ \E bill \in Bills(j.o, j.coupon, b) :
          job' = [job EXCEPT ![w] = Job("number", j.o, j.coupon, TRUE, bill)]
    /\ UNCHANGED <<order, coupon, counter, lock, spent>>

(* Faulty variant of the row lock of the counter.                          *)
NeverLocked(w) == TRUE

CounterFree(w) == lock = NoWorker

(* _next_order_no: the year's row is locked, or it is not there yet and    *)
(* will be inserted.                                                       *)
LockCounter(w) ==
    /\ job[w].pc = "number"
    /\ counter > 0
    /\ CounterFree(w)
    /\ lock' = w
    /\ job' = [job EXCEPT ![w].pc = "commit", ![w].no = counter + 1]
    /\ UNCHANGED <<order, coupon, counter, spent>>

NoCounter(w) ==
    /\ job[w].pc = "number"
    /\ counter = 0
    /\ job' = [job EXCEPT ![w].pc = "insert"]
    /\ UNCHANGED <<order, coupon, counter, lock, spent>>

(* The insert waits for another one that is not committed yet, and fails   *)
(* when that one commits: the year is the primary key.                     *)
InsertCounter(w) ==
    /\ job[w].pc = "insert"
    /\ CounterFree(w)
    /\ counter = 0
    /\ lock' = w
    /\ job' = [job EXCEPT ![w].pc = "commit", ![w].no = counter + 1]
    /\ UNCHANGED <<order, coupon, counter, spent>>

InsertRefused(w) ==
    /\ job[w].pc = "insert"
    /\ CounterFree(w)
    /\ counter > 0
    /\ Finish(w)
    /\ UNCHANGED <<order, coupon, counter, lock, spent>>

(* Counter, order and lines become visible together.                       *)
Commit(w) ==
    LET j == job[w] IN
    /\ j.pc = "commit"
    /\ counter' = j.no
    /\ order' = [order EXCEPT ![j.o] = Row("live", "pending", "initiated", TRUE, j.no, j.bill)]
    /\ lock' = NoWorker
    /\ job' = [Overtaken EXCEPT ![w] = Idle]
    /\ UNCHANGED <<coupon, spent>>

Crash(w) ==
    /\ job[w].pc # "idle"
    /\ spent.crash < MaxCrash
    /\ Spend("crash")
    /\ lock' = IF lock = w THEN NoWorker ELSE lock
    /\ Finish(w)
    /\ UNCHANGED <<order, coupon, counter>>

-----------------------------------------------------------------------------
(* What changes the balance of the customer: payment, cancellation, a      *)
(* cancelled order put back to work, deletion, the passing of a year.      *)

Desk(o, row) ==
    /\ order[o].row = "live"
    /\ spent.desk < MaxDesk
    /\ Spend("desk")
    /\ order' = [order EXCEPT ![o] = row]
    /\ job' = Overtaken
    /\ UNCHANGED <<coupon, counter, lock>>

Approve(o) ==
    /\ order[o].status # "processing"
    /\ Desk(o, [order[o] EXCEPT !.status = "processing", !.pay = "success"])
Cancel(o) ==
    /\ order[o].status # "cancelled"
    /\ Desk(o, [order[o] EXCEPT !.status = "cancelled"])
DeleteOrder(o) == Desk(o, [order[o] EXCEPT !.row = "deleted"])
YearPasses(o) ==
    /\ order[o].recent
    /\ Desk(o, [order[o] EXCEPT !.recent = FALSE])

(* The coupon is created, edited, deleted, or runs out of its time; a code *)
(* that is gone or expired is ignored by a checkout.                       *)
SaveCoupon ==
    /\ spent.edits < MaxEdits
    /\ Spend("edits")
    /\ coupon' \in Forms \cup {NoCoupon}
    /\ UNCHANGED <<order, counter, lock, job>>

Next ==
    \/ \E w \in Workers, o \in Orders : Begin(w, o)
    \/ \E w \in Workers :
          \/ Quote(w) \/ LockCounter(w) \/ NoCounter(w)
          \/ InsertCounter(w) \/ InsertRefused(w) \/ Commit(w) \/ Crash(w)
    \/ \E o \in Orders : Approve(o) \/ Cancel(o) \/ DeleteOrder(o) \/ YearPasses(o)
    \/ SaveCoupon

Spec == Init /\ [][Next]_vars

-----------------------------------------------------------------------------
(* Properties.                                                             *)

Numbered == {o \in Orders : order[o].row # "absent"}

(* Order numbers are a register: whatever overlaps, dies or is deleted,    *)
(* every committed order takes the number after the last one, and no       *)
(* number is skipped, shared or used again (orders.py:60-71).              *)
HolderOf(n) ==
    IF \E o \in Numbered : order[o].no = n
    THEN CHOOSE o \in Numbered : order[o].no = n ELSE NoOrder
R == INSTANCE Register WITH
        Holders <- Orders,
        issued  <- [n \in 1..Cardinality(Numbered) |-> HolderOf(n)]
ImplementsRegister == R!RSpec

(* What the customer is charged is the rest of the basket plus tax and     *)
(* shipping, to the one kurus that rounding each of them separately may    *)
(* cost (orders.py:74-101; payments.py:88 compares the charge with it).    *)
AddsUp(b) ==
    Distance(b.total, Atleast0(b.subtotal - b.discount - b.loyalty) + b.tax + b.shipping) <= 1

(* Points and the discount they bought agree to half a point, and the      *)
(* discount is at most a fifth of what the coupon left of the basket,      *)
(* unless the coupon left nothing (loyalty.py:131-143, orders.py:195-203). *)
PointsWorth(b) ==
    /\ Distance(b.loyalty, 10 * b.points) <= 5
    /\ b.discount < b.subtotal => 5 * b.loyalty <= b.subtotal - b.discount + 5

(* The amounts of an order row agree with one another, whichever coupon,   *)
(* points and rounding they come from.                                     *)
BillHolds == \A o \in Numbered : AddsUp(order[o].bill) /\ PointsWorth(order[o].bill)

(* A checkout whose reading of the balance is still true when it commits   *)
(* never spends points the customer does not have: points of unpaid        *)
(* orders are kept for them (loyalty.py:98-111).  Two checkouts that       *)
(* overlap do overdraw the account.                                        *)
PointsCovered ==
    [][\A w \in Workers :
          Commit(w) /\ job[w].fresh /\ job[w].bill.points > 0 => Earned' >= Used']_vars

(* What orders.py:180-181 says: the server clips the points to the balance,*)
(* so no checkout overdraws it.                                            *)
PointsClipped ==
    [][\A w \in Workers : Commit(w) /\ job[w].bill.points > 0 => Earned' >= Used']_vars
=============================================================================
