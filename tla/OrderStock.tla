----------------------------- MODULE OrderStock -----------------------------
(***************************************************************************)
(* Orders, their payment and the stock they take: routers/orders.py,       *)
(* routers/payments.py, services/stock.py, and the status changes of       *)
(* services/carriers/dispatch.py.                                          *)
(*                                                                         *)
(* Every HTTP call is a worker with a database session of its own.  The    *)
(* database is Postgres at READ COMMITTED: a call first reads the order    *)
(* without a lock, decides on what it read, and only later takes the row   *)
(* lock of the order, so other calls commit in between.  The ORM flushes   *)
(* only the columns whose value differs from the one that was read; they   *)
(* are the "dirty" part of a job.                                          *)
(***************************************************************************)
EXTENDS Integers, FiniteSets, Functions

CONSTANTS
    Orders,        \* the orders that may be created
    Targets,       \* rows that carry stock: products and product variants
    Workers,       \* concurrent HTTP calls
    Qty,           \* Qty[o][t]: quantity of t ordered by o, 0 when o has no such line
    InitStock,     \* stock of each target at the start
    Methods,       \* manual payment methods the shop settings have open
    Providers,     \* card gateways in use
    Deletable,     \* targets an administrator may delete
    Couriers,      \* statuses carrier events may report
    MaxAdmin,      \* bound: status changes by administrators
    MaxCarrier,    \* bound: carrier events
    MaxCrash,      \* bound: calls cut short by a crash or a lost connection
    NoOrder, NoWorker

ASSUME OrdersAssumption ==
    /\ IsFiniteSet(Orders)
    /\ NoOrder \notin Orders
    /\ NoWorker \notin Workers
ASSUME LinesAssumption ==
    /\ IsFiniteSet(Targets)
    /\ Qty \in [Orders -> [Targets -> Nat]]
    /\ \A o \in Orders : \E t \in Targets : Qty[o][t] > 0
    /\ InitStock \in [Targets -> Nat]
    /\ Deletable \subseteq Targets
ASSUME BoundsAssumption ==
    /\ Methods \subseteq {"wire", "cod"}
    /\ Providers \subseteq {"paytr", "stripe"}
    /\ Couriers \subseteq {"shipped", "delivered", "cancelled"}
    /\ MaxAdmin \in Nat /\ MaxCarrier \in Nat /\ MaxCrash \in Nat

VARIABLES
    order,     \* order[o]: the row of table orders
    stock,     \* stock[t]: column stock of the target's row
    listed,    \* targets whose row still exists
    rows,      \* rows[o]: number of stock_movements rows of o, per reason
    lock,      \* lock[o]: the worker that holds the row lock of o
    job,       \* job[w]: what worker w is doing
    gateway,   \* gateway[o]: the payment provider's side of o
    spent      \* how much of each bound is used up

vars == <<order, stock, listed, rows, lock, job, gateway, spent>>

Statuses == {"pending", "processing", "shipped", "delivered", "cancelled"}
Pays     == {"initiated", "pending", "success", "failed"}
Fulfil   == {"processing", "shipped", "delivered"}
Cards    == {"paytr", "stripe"}
Notices  == {"success", "failed"}
Amounts  == {"asked", "other"}
Calls    == Cards \cup Notices \cup {"wire", "cod", "admin", "carrier", "none"}

-----------------------------------------------------------------------------
(* The ledger: how services/stock.py tells whether an order holds stock.   *)

Lines(o)  == {t \in Targets : Qty[o][t] > 0}
Net(o)    == rows[o].sale - rows[o].cancel - rows[o].return

(* The whole of an order's stock is out, or none of it.                    *)
Held(o)   == Net(o) = Cardinality(Lines(o))
Free(o)   == Net(o) = 0

(* Faulty variant of Decide: the simple check for a sale movement that the *)
(* ledger replaced.                                                        *)
DecideBySale(op, o) ==
    CASE op = "deduct"  /\ rows[o].sale = 0 -> "deduct"
      [] op = "restore" /\ rows[o].sale > 0 /\ rows[o].cancel = 0 -> "restore"
      [] OTHER -> "none"

(* What deduct_stock_once and restore_stock_once do once the row is        *)
(* locked and the movements are counted.                                   *)
Decide(op, o) ==
    CASE op = "deduct"  /\ Net(o) <= 0 -> "deduct"
      [] op = "restore" /\ Net(o) > 0  -> "restore"
      [] OTHER -> "none"

Larger(a, b) == IF a >= b THEN a ELSE b

(* Stock of t after a line of quantity q is applied to the value seen.     *)
Shelve(op, seen, q) ==
    CASE op = "deduct"  -> Larger(0, seen - q)
      [] op = "restore" -> seen + q
      [] OTHER -> seen

-----------------------------------------------------------------------------
(* Jobs.                                                                   *)

Clean   == "clean"                               \* a column the flush leaves alone
NoDirt  == [status |-> Clean, pay |-> Clean]
NoShelf == [t \in Targets |-> 0]

Job(call, o, pc, dirty, op, shelf) ==
    [call |-> call, o |-> o, pc |-> pc, dirty |-> dirty, op |-> op, shelf |-> shelf]

Idle == Job("none", NoOrder, "idle", NoDirt, "none", NoShelf)

(* Faulty variants: every column is flushed, nobody waits for a row lock.  *)
ChangedAll(o, s, p)   == [status |-> s, pay |-> p]
RowNeverBusy(o)       == TRUE

(* The columns a call that read order o and assigns s and p will flush.    *)
Changed(o, s, p) ==
    [status |-> IF order[o].status = s THEN Clean ELSE s,
     pay    |-> IF order[o].pay = p THEN Clean ELSE p]

Flushed(row, dirty) ==
    [row EXCEPT !.status = IF dirty.status = Clean THEN @ ELSE dirty.status,
                !.pay    = IF dirty.pay = Clean THEN @ ELSE dirty.pay]

RowLive(o) == order[o].row = "live"
RowFree(o) == lock[o] = NoWorker

Finish(w) == job' = [job EXCEPT ![w] = Idle]

Spend(what) == spent' = [spent EXCEPT ![what] = @ + 1]

Init ==
    /\ order = [o \in Orders |-> [row |-> "absent", status |-> "pending", pay |-> "initiated"]]
    /\ stock = InitStock
    /\ listed = Targets
    /\ rows = [o \in Orders |-> [sale |-> 0, cancel |-> 0, return |-> 0]]
    /\ lock = [o \in Orders |-> NoWorker]
    /\ job = [w \in Workers |-> Idle]
    /\ gateway = [o \in Orders |-> [provider |-> "none", charged |-> FALSE, amount |-> "asked",
                                notices |-> {}]]
    /\ spent = [admin |-> 0, carrier |-> 0, crash |-> 0]

-----------------------------------------------------------------------------
(* POST /checkout.                                                         *)

(* The products are read and must cover the order; nothing is reserved.    *)
(* A cash-on-delivery call keeps the product objects it read here for its  *)
(* whole session: expire_on_commit is off and a later SELECT FOR UPDATE    *)
(* does not refresh an object the session already holds.                   *)
Checkout(w, o, m) ==
    /\ job[w].pc = "idle"
    /\ order[o].row = "absent"
    /\ \A v \in Workers : job[v].o # o
    /\ \A t \in Lines(o) : t \in listed /\ stock[t] >= Qty[o][t]
    /\ job' = [job EXCEPT ![w] =
          Job(m, o, "create", NoDirt, "none", IF m = "cod" THEN stock ELSE NoShelf)]
    /\ UNCHANGED <<order, stock, listed, rows, lock, gateway, spent>>

(* What the call does after the order is committed.  A manual method that  *)
(* is closed in the settings is refused only now, and the order stays.     *)
ToPay == [status |-> Clean, pay |-> "pending"]
AfterCreate(m, o, shelf) ==
    CASE m \in Cards -> Job(m, o, "gateway", NoDirt, "none", NoShelf)
      [] m = "wire" /\ m \in Methods -> Job(m, o, "write", ToPay, "none", NoShelf)
      [] m = "cod" /\ m \in Methods -> Job(m, o, "lock", ToPay, "deduct", shelf)
      [] OTHER -> Idle

CreateOrder(w) ==
    LET o == job[w].o IN
    /\ job[w].pc = "create"
    /\ order[o].row = "absent"                     \* order_no is unique
    /\ Lines(o) \subseteq listed
    /\ order' = [order EXCEPT ![o] =
          [row |-> "live", status |-> "pending", pay |-> "initiated"]]
    /\ job' = [job EXCEPT ![w] = AfterCreate(@.call, o, @.shelf)]
    /\ UNCHANGED <<stock, listed, rows, lock, gateway, spent>>

(* A product of the basket was deleted: the foreign key refuses the items. *)
CreateRefused(w) ==
    /\ job[w].pc = "create"
    /\ ~ (Lines(job[w].o) \subseteq listed)
    /\ Finish(w)
    /\ UNCHANGED <<order, stock, listed, rows, lock, gateway, spent>>

(* A card order gets its PayTR token or its Stripe session, or the gateway *)
(* refuses and the committed order is left behind.                         *)
OpenGateway(w) ==
    LET o == job[w].o IN
    /\ job[w].pc = "gateway"
    /\ \/ gateway' = [gateway EXCEPT ![o].provider = job[w].call]
       \/ UNCHANGED gateway
    /\ Finish(w)
    /\ UNCHANGED <<order, stock, listed, rows, lock, spent>>

-----------------------------------------------------------------------------
(* The payment provider (not part of the repository): it may decline any   *)
(* number of attempts, charges an order at most once, not always with the  *)
(* total of the order, and repeats every notice until the shop answers it. *)

Pending(o, ns) == gateway' = [gateway EXCEPT ![o].notices = ns]

GatewayDeclines(o) ==
    /\ gateway[o].provider \in Cards
    /\ ~ gateway[o].charged
    /\ "failed" \notin gateway[o].notices
    /\ Pending(o, gateway[o].notices \cup {"failed"})
    /\ UNCHANGED <<order, stock, listed, rows, lock, job, spent>>

GatewayCharges(o) ==
    /\ gateway[o].provider \in Cards
    /\ ~ gateway[o].charged
    /\ \E m \in Amounts :
          gateway' = [gateway EXCEPT ![o] =
             [gateway[o] EXCEPT !.charged = TRUE, !.amount = m, !.notices = @ \cup {"success"}]]
    /\ UNCHANGED <<order, stock, listed, rows, lock, job, spent>>

-----------------------------------------------------------------------------
(* paytr_callback and stripe_webhook.                                      *)

(* Faulty variant: a failed order is taken to be settled.                  *)
SettledOrFailed(o) == ~ RowLive(o) \/ order[o].pay \in {"success", "failed"}

(* Notices that are answered without an effect: the order is gone, or is   *)
(* already paid.                                                           *)
Settled(o) == ~ RowLive(o) \/ order[o].pay = "success"

AcknowledgeNotice(o, n) ==
    /\ n \in gateway[o].notices
    /\ Settled(o)
    /\ Pending(o, gateway[o].notices \ {n})
    /\ UNCHANGED <<order, stock, listed, rows, lock, job, spent>>

(* The amount of a notice against the total of the order.  PayTR's must be *)
(* equal to it; Stripe's is converted at the rate of the moment, so that   *)
(* either amount may pass the tolerance or not.                            *)
Fits(o)    == gateway[o].provider = "paytr" => gateway[o].amount = "asked"
Differs(o) == gateway[o].provider = "paytr" => gateway[o].amount = "other"

(* A charge of another amount is not booked: only an audit entry is        *)
(* written, and the notice is answered and not repeated.                   *)
AmountMismatch(o) ==
    /\ Differs(o)
    /\ "success" \in gateway[o].notices
    /\ ~ Settled(o)
    /\ Pending(o, gateway[o].notices \ {"success"})
    /\ UNCHANGED <<order, stock, listed, rows, lock, job, spent>>

ReceiveSuccess(w, o) ==
    /\ job[w].pc = "idle"
    /\ "success" \in gateway[o].notices
    /\ ~ Settled(o)
    /\ Fits(o)
    /\ job' = [job EXCEPT ![w] =
          Job("success", o, "lock", Changed(o, "processing", "success"), "deduct", NoShelf)]
    /\ UNCHANGED <<order, stock, listed, rows, lock, gateway, spent>>

ReceiveFailure(w, o) ==
    /\ job[w].pc = "idle"
    /\ "failed" \in gateway[o].notices
    /\ ~ Settled(o)
    /\ job' = [job EXCEPT ![w] =
          Job("failed", o, "write", Changed(o, "cancelled", "failed"), "none", NoShelf)]
    /\ UNCHANGED <<order, stock, listed, rows, lock, gateway, spent>>

-----------------------------------------------------------------------------
(* PATCH /{order_no}/status and DELETE /{order_no} by administrators.      *)

(* A status equal to the one read flushes nothing and is left out.         *)
UpdateStatus(w, o, new) ==
    LET old      == order[o].status
        approves == new \in Fulfil /\ old \notin Fulfil
        cancels  == new = "cancelled"
    IN
    /\ job[w].pc = "idle"
    /\ RowLive(o)
    /\ new # old
    /\ spent.admin < MaxAdmin
    /\ Spend("admin")
    /\ job' = [job EXCEPT ![w] =
          Job("admin", o,
              IF approves \/ cancels THEN "lock" ELSE "write",
              Changed(o, new, IF approves THEN "success" ELSE order[o].pay),
              IF approves THEN "deduct" ELSE IF cancels THEN "restore" ELSE "none",
              NoShelf)]
    /\ UNCHANGED <<order, stock, listed, rows, lock, gateway>>

DeleteOrder(o) ==
    /\ RowLive(o)
    /\ RowFree(o)
    /\ order' = [order EXCEPT ![o].row = "deleted"]
    /\ UNCHANGED <<stock, listed, rows, lock, job, gateway, spent>>

(* DELETE /products/{id}: the lines of past orders lose their target.      *)
DeleteProduct(t) ==
    /\ t \in listed \cap Deletable
    /\ listed' = listed \ {t}
    /\ UNCHANGED <<order, stock, rows, lock, job, gateway, spent>>

-----------------------------------------------------------------------------
(* Carrier events: the status only moves forward from the one that was     *)
(* read, and stock is not touched.                                         *)

Rank == [pending |-> 0, processing |-> 1, shipped |-> 2, delivered |-> 3, cancelled |-> 3]

ApplyEvent(w, o, new) ==
    /\ job[w].pc = "idle"
    /\ RowLive(o)
    /\ Rank[new] > Rank[order[o].status]
    /\ spent.carrier < MaxCarrier
    /\ Spend("carrier")
    /\ job' = [job EXCEPT ![w] =
          Job("carrier", o, "write", Changed(o, new, order[o].pay), "none", NoShelf)]
    /\ UNCHANGED <<order, stock, listed, rows, lock, gateway>>

-----------------------------------------------------------------------------
(* Steps every call takes once it knows what it wants to write.            *)

(* An answered notice is not sent again; an answer may be lost.            *)
Answer(w) ==
    \/ UNCHANGED gateway
    \/ /\ job[w].call \in Notices
       /\ Pending(job[w].o, gateway[job[w].o].notices \ {job[w].call})

(* A call that leaves stock alone: its UPDATE waits for the row lock and   *)
(* is committed at once.                                                   *)
Write(w) ==
    LET o == job[w].o IN
    /\ job[w].pc = "write"
    /\ RowLive(o)
    /\ RowFree(o)
    /\ order' = [order EXCEPT ![o] = Flushed(@, job[w].dirty)]
    /\ Answer(w)
    /\ Finish(w)
    /\ UNCHANGED <<stock, listed, rows, lock, spent>>

(* deduct_stock_once and restore_stock_once: lock the row of the order     *)
(* (the flush of the dirty columns already does), count the movements.     *)
LockOrder(w) ==
    LET o == job[w].o IN
    /\ job[w].pc = "lock"
    /\ RowLive(o)
    /\ RowFree(o)
    /\ lock' = [lock EXCEPT ![o] = w]
    /\ job' = [job EXCEPT ![w].pc = "counted", ![w].op = Decide(@, o)]
    /\ UNCHANGED <<order, stock, listed, rows, gateway, spent>>

(* _apply: one movement per line whose target still exists, then commit.   *)
(* The target rows are locked and read here, except that a                 *)
(* cash-on-delivery checkout writes over the values it read at its start.  *)
Applied(o) == Lines(o) \cap listed

Commit(w) ==
    LET o == job[w].o
        n == Cardinality(Applied(o))
        seen == IF job[w].call = "cod" THEN job[w].shelf ELSE stock
    IN
    /\ job[w].pc = "counted"
    /\ stock' = IF job[w].op = "none" THEN stock
                ELSE [t \in Targets |->
                        IF t \in Applied(o) THEN Shelve(job[w].op, seen[t], Qty[o][t])
                        ELSE stock[t]]
    /\ rows' = [rows EXCEPT ![o].sale   = IF job[w].op = "deduct" THEN @ + n ELSE @,
                            ![o].cancel = IF job[w].op = "restore" THEN @ + n ELSE @]
    /\ order' = [order EXCEPT ![o] = Flushed(@, job[w].dirty)]
    /\ lock' = [lock EXCEPT ![o] = NoWorker]
    /\ Answer(w)
    /\ Finish(w)
    /\ UNCHANGED <<listed, spent>>

(* Faulty variant of StaleRow: a call that waits for the lock is forgotten. *)
StaleWrite(w) ==
    /\ job[w].pc = "write"
    /\ ~ RowLive(job[w].o)
    /\ Finish(w)
    /\ UNCHANGED <<order, stock, listed, rows, lock, gateway, spent>>

(* The row was deleted after it was read: the UPDATE matches nothing and   *)
(* the ORM raises, the transaction is rolled back.                         *)
StaleRow(w) ==
    /\ job[w].pc \in {"lock", "write"}
    /\ ~ RowLive(job[w].o)
    /\ Finish(w)
    /\ UNCHANGED <<order, stock, listed, rows, lock, gateway, spent>>

(* The process or the connection dies: what was not committed is rolled    *)
(* back, and a notice stays unanswered.                                    *)
Crash(w) ==
    /\ job[w].pc # "idle"
    /\ spent.crash < MaxCrash
    /\ Spend("crash")
    /\ lock' = [o \in Orders |-> IF lock[o] = w THEN NoWorker ELSE lock[o]]
    /\ Finish(w)
    /\ UNCHANGED <<order, stock, listed, rows, gateway>>

-----------------------------------------------------------------------------
Environment ==
    \/ \E o \in Orders : GatewayDeclines(o) \/ GatewayCharges(o)
    \/ \E o \in Orders, n \in Notices : AcknowledgeNotice(o, n)
    \/ \E o \in Orders : AmountMismatch(o) \/ DeleteOrder(o)
    \/ \E t \in Targets : DeleteProduct(t)

Start(w) ==
    \E o \in Orders :
        \/ \E m \in Providers \cup {"wire", "cod"} : Checkout(w, o, m)
        \/ ReceiveSuccess(w, o) \/ ReceiveFailure(w, o)
        \/ \E s \in Statuses : UpdateStatus(w, o, s)
        \/ \E s \in Couriers : ApplyEvent(w, o, s)

Step(w) ==
    \/ CreateOrder(w) \/ CreateRefused(w) \/ OpenGateway(w)
    \/ Write(w) \/ LockOrder(w) \/ Commit(w) \/ StaleRow(w) \/ Crash(w)

Next == Environment \/ \E w \in Workers : Start(w) \/ Step(w)

Spec == Init /\ [][Next]_vars

-----------------------------------------------------------------------------
(* Properties.                                                             *)

RowType     == [row : {"absent", "live", "deleted"}, status : Statuses, pay : Pays]
LedgerType  == [sale : Nat, cancel : Nat, return : Nat]
GatewayType == [provider : Cards \cup {"none"}, charged : BOOLEAN, amount : Amounts,
                notices : SUBSET Notices]
DirtType    == [status : Statuses \cup {Clean}, pay : Pays \cup {Clean}]
JobFields   == [call  : Calls,
                o     : Orders \cup {NoOrder},
                pc    : {"idle", "create", "gateway", "write", "lock", "counted"},
                dirty : DirtType,
                op    : {"deduct", "restore", "none"},
                shelf : [Targets -> Nat]]
JobType     == {j \in JobFields : /\ j.pc # "idle" => j.o \in Orders
                                  /\ j.pc = "gateway" => j.call \in Cards}

(* Type invariant; in particular no stock and no movement count is ever    *)
(* negative, whatever stale value a call writes back (stock.py:107).       *)
TypeOK ==
    /\ order \in [Orders -> RowType]
    /\ stock \in [Targets -> Nat]
    /\ listed \subseteq Targets
    /\ rows \in [Orders -> LedgerType]
    /\ lock \in [Orders -> Workers \cup {NoWorker}]
    /\ job \in [Workers -> JobType]
    /\ gateway \in [Orders -> GatewayType]
    /\ spent \in [admin : Nat, carrier : Nat, crash : Nat]

(* The stock of an order is never taken a second time while it is out:     *)
(* the net number of sale movements never exceeds the order's lines, under *)
(* any overlap of notices, approvals, cancellations, retries and crashes,  *)
(* and even when products are deleted in between (stock.py:122-133).       *)
NeverDeductedTwice == \A o \in Orders : Net(o) <= Cardinality(Lines(o))

(* As long as no product is deleted the ledger is all or nothing: every    *)
(* line of an order is out exactly once or not at all (stock.py:4-8).      *)
AllOrNothing == \A o \in Orders : Free(o) \/ Held(o)

(* Why they hold.  A call that has counted the movements of an order owns  *)
(* the row lock of that order, so nobody else counts or applies until it   *)
(* is done, and what it decided on stays true up to its commit.            *)
LockHeld == \A w \in Workers : job[w].pc = "counted" => lock[job[w].o] = w
CountFresh ==
    \A w \in Workers :
        job[w].pc = "counted" /\ job[w].op = "deduct" => Net(job[w].o) <= 0
CountExact ==
    \A w \in Workers :
        job[w].pc = "counted" =>
            /\ job[w].op = "deduct" => Free(job[w].o)
            /\ job[w].op = "restore" => Held(job[w].o)

(* A call that is about to book a payment goes through the ledger, and     *)
(* finds the stock free to be taken or taken already; a call that is about *)
(* to give stock back does not touch the payment.                          *)
Books(j) ==
    /\ j.op = "restore" => j.dirty.pay = Clean
    /\ j.dirty.pay = "success" =>
        /\ j.pc # "write"
        /\ j.pc = "lock" => j.op = "deduct"
        /\ j.pc = "counted" => j.op = "deduct" \/ Held(j.o)
BookingTakes == \A w \in Workers : Books(job[w])

(* Only rows that exist are written, a locked row cannot be deleted, and   *)
(* an order that was not created yet is not paid.                          *)
RowsKept ==
    /\ \A w \in Workers : job[w].pc = "counted" => RowLive(job[w].o)
    /\ \A o \in Orders : order[o].row = "absent" => order[o].pay = "initiated"

LedgerInv == LockHeld /\ CountFresh /\ NeverDeductedTwice
StrictInv ==
    /\ LockHeld /\ CountExact /\ AllOrNothing /\ BookingTakes /\ RowsKept
    /\ listed = Targets

(* An order becomes paid only in a transaction that leaves all of its      *)
(* stock taken: after a cancellation a late notice or a second approval    *)
(* deducts again, after a cash-on-delivery deduction it does not           *)
(* (payments.py:107-112, orders.py:504-513).                               *)
PaymentTakesStock ==
    [][\A o \in Orders :
          order[o].pay # "success" /\ order'[o].pay = "success" => Held(o)']_vars

(* Nothing a call still has in flight for a deleted order takes effect:    *)
(* its row, its movements and the stock of its lines stay as they are      *)
(* (orders.py:541-556 against every call that read the order before).      *)
DeletedStaysDeleted ==
    [][\A o \in Orders :
          order[o].row = "deleted" => order'[o] = order[o] /\ rows'[o] = rows[o]]_vars

(* What is on the shelf and what is out with orders never adds up to less  *)
(* than the initial stock: no interleaving of deductions and restorations  *)
(* makes units disappear.  It may add up to more, because a deduction of a *)
(* target that is short stops at zero (stock.py:106-109); for a target     *)
(* that is never short the sum is exact (stock.py:10-15, "lost update").   *)
Out(t)    == SumFunctionOnSet([o \in Orders |-> IF Net(o) > 0 THEN Qty[o][t] ELSE 0], Orders)
Demand(t) == SumFunctionOnSet([o \in Orders |-> Qty[o][t]], Orders)
UnitsAccounted ==
    \A t \in listed :
        /\ stock[t] + Out(t) >= InitStock[t]
        /\ Demand(t) <= InitStock[t] => stock[t] + Out(t) = InitStock[t]

(* Giving stock back is idempotent (stock.py:1): a target that can never  *)
(* be short never has more on the shelf than at the start.  The code does  *)
(* not keep this once a product of a sold order is deleted.                *)
NeverRestoredTwice ==
    \A t \in listed : Demand(t) <= InitStock[t] => stock[t] <= InitStock[t]

(* An order in an approved status holds its stock (orders.py:495-498).     *)
ApprovedHoldsStock ==
    \A o \in Orders : RowLive(o) /\ order[o].status \in Fulfil => Held(o)

(* Carrier events only move the status forward, and never back from        *)
(* delivered (dispatch.py:5-6, 107-110): no event lowers the rank of the   *)
(* status it overwrites, whichever was committed since it read the order.  *)
(* The code does not keep this: the rank is compared with what was read.   *)
CouriersMoveForward ==
    [][\A w \in Workers :
          job[w].call = "carrier" /\ job'[w] # job[w]
              => Rank[order'[job[w].o].status] >= Rank[order[job[w].o].status]]_vars

(* A failed payment leaves the stock untouched (backend/README.md:118).  The*)
(* code does not keep this: a failure read earlier is written later.       *)
FailedHoldsNothing == \A o \in Orders : order[o].pay = "failed" => Free(o)

(* OrderStock implements Fulfilment.                                       *)
Share(o) == IF Free(o) THEN "none" ELSE IF Held(o) THEN "all" ELSE "some"
F == INSTANCE Fulfilment WITH
        held   <- [o \in Orders |-> Share(o)],
        paid   <- {o \in Orders : order[o].pay = "success"},
        closed <- {o \in Orders : order[o].row = "deleted"}
ImplementsFulfilment == F!FSpec

(* Fairness.  A started call goes on; uvicorn schedules every call, and    *)
(* lock waits end because the holder commits or dies.  PayTR repeats a     *)
(* notice until it reads OK, so that a call that keeps dying is the only   *)
(* way to lose one: strong fairness says it does not die every time.       *)
Progress ==
    /\ \A o \in Orders : SF_vars(\E w \in Workers : ReceiveSuccess(w, o))
    /\ \A w \in Workers : SF_vars(LockOrder(w)) /\ SF_vars(Commit(w)) /\ SF_vars(Write(w))
    /\ \A w \in Workers : WF_vars(StaleRow(w)) /\ WF_vars(OpenGateway(w))
    /\ \A w \in Workers : WF_vars(CreateOrder(w)) /\ WF_vars(CreateRefused(w))

FairSpec == Spec /\ Progress

(* Money PayTR has taken is booked: a charge of what the order costs makes *)
(* the order paid, as long as PayTR repeats its notice and unless an       *)
(* administrator deletes it, however the notice is overtaken by failures,  *)
(* approvals and crashes (payments.py:59).  A charge of another amount is  *)
(* left to be looked at by hand (payments.py:86-106,                       *)
(* tests/test_payments.py:33-57).  Booked once, the payment may still be   *)
(* overwritten by a failure notice: see FailedHoldsNothing.                *)
ChargeIsBooked ==
    \A o \in Orders :
        gateway[o].provider = "paytr" /\ gateway[o].amount = "asked"
            /\ "success" \in gateway[o].notices
                ~> order[o].pay = "success" \/ order[o].row = "deleted"

(* No call waits for ever: every call that started returns.                *)
CallsReturn == \A w \in Workers : job[w].pc # "idle" ~> job[w].pc = "idle"
=============================================================================
