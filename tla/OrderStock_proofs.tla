-------------------------- MODULE OrderStock_proofs --------------------------
(***************************************************************************)
(* Proofs about OrderStock, for any orders, targets, workers and bounds.   *)
(***************************************************************************)
EXTENDS OrderStock, Totals, FiniteSetTheorems, TLAPS

-----------------------------------------------------------------------------
(* Facts about the operators.                                              *)

(* An order has finitely many lines and at least one, and the lines that   *)
(* still have a target are no more than that (stock.py:96-105).            *)
LEMMA LineCount ==
    ASSUME NEW o \in Orders
    PROVE  /\ Cardinality(Lines(o)) \in Nat \ {0}
           /\ Cardinality(Applied(o)) \in 0 .. Cardinality(Lines(o))
<1>1. IsFiniteSet(Lines(o))
  BY FS_Subset, LinesAssumption DEF Lines
<1>2. Lines(o) # {}
  BY LinesAssumption DEF Lines
<1>3. Cardinality(Lines(o)) \in Nat /\ Cardinality(Lines(o)) # 0
  BY <1>1, <1>2, FS_CardinalityType, FS_EmptySet
<1>4. IsFiniteSet(Applied(o)) /\ Cardinality(Applied(o)) <= Cardinality(Lines(o))
  BY <1>1, FS_Subset DEF Applied
<1>5. Cardinality(Applied(o)) \in Nat
  BY <1>4, FS_CardinalityType
<1> QED BY <1>3, <1>4, <1>5

(* A shelf never goes below zero, from whatever value the call starts.     *)
LEMMA ShelveType ==
    ASSUME NEW op \in {"deduct", "restore", "none"}, NEW seen \in Nat, NEW q \in Nat
    PROVE  Shelve(op, seen, q) \in Nat
BY DEF Shelve, Larger

LEMMA FlushedType ==
    ASSUME NEW row \in RowType,
           NEW dirty \in DirtType
    PROVE  Flushed(row, dirty) \in RowType
BY DEF Flushed, DirtType, RowType, Statuses, Pays, Clean

LEMMA IdleType == Idle \in JobType
BY DEF Idle, Job, JobType, JobFields, NoDirt, NoShelf, Clean, DirtType, Calls, Cards, Notices

(* A job built for an order of the model is well typed; only a checkout    *)
(* with a card ever waits for a gateway.                                   *)
LEMMA NewJobType ==
    ASSUME NEW c \in Calls, NEW o \in Orders,
           NEW p \in {"create", "gateway", "write", "lock", "counted"},
           p = "gateway" => c \in Cards,
           NEW d \in DirtType,
           NEW op \in {"deduct", "restore", "none"},
           NEW s \in [Targets -> Nat]
    PROVE  Job(c, o, p, d, op, s) \in JobType
BY DEF Job, JobType, JobFields

LEMMA ChangedType ==
    ASSUME TypeOK, NEW o \in Orders, NEW s \in Statuses, NEW p \in Pays
    PROVE  Changed(o, s, p) \in DirtType
BY DEF Changed, DirtType

LEMMA DefaultsType ==
    NoDirt \in DirtType /\ ToPay \in DirtType /\ NoShelf \in [Targets -> Nat]
BY DEF NoDirt, ToPay, Pays, Clean, NoShelf, DirtType

(* Changing the notices of one order keeps the gateway's type.             *)
LEMMA PendingType ==
    ASSUME TypeOK, NEW o \in Orders, NEW ns \in SUBSET Notices, Pending(o, ns)
    PROVE  gateway' \in [Orders -> GatewayType]
BY DEF TypeOK, Pending, GatewayType

LEMMA AfterCreateType ==
    ASSUME NEW m \in Calls, NEW o \in Orders, NEW s \in [Targets -> Nat]
    PROVE  AfterCreate(m, o, s) \in JobType
BY NewJobType, DefaultsType, IdleType DEF AfterCreate

-----------------------------------------------------------------------------
(* Type correctness.                                                       *)

(* The types hold at the start.                                            *)
LEMMA InitType == Init => TypeOK
<1> SUFFICES ASSUME Init PROVE TypeOK
  OBVIOUS
<1>1. order \in [Orders -> RowType]
  BY DEF Init, RowType, Statuses, Pays
<1>2. job \in [Workers -> JobType]
  BY IdleType DEF Init
<1> QED
  BY <1>1, <1>2, LinesAssumption DEF Init, TypeOK, LedgerType, GatewayType, Amounts

(* Every step keeps the types: no stale write and no order of calls makes  *)
(* a stock or a movement count negative.                                   *)
LEMMA NextType == TypeOK /\ [Next]_vars => TypeOK'
<1> SUFFICES ASSUME TypeOK, [Next]_vars PROVE TypeOK'
  OBVIOUS
<1> USE IdleType, DefaultsType
<1>1. ASSUME NEW w \in Workers, NEW o \in Orders,
             NEW m \in Providers \cup {"wire", "cod"}, Checkout(w, o, m)
      PROVE  TypeOK'
  <2>1. m \in Calls
    BY BoundsAssumption DEF Calls, Cards
  <2>2. (IF m = "cod" THEN stock ELSE NoShelf) \in [Targets -> Nat]
    BY DEF TypeOK
  <2> QED
    BY <1>1, <2>1, <2>2, NewJobType DEF Checkout, TypeOK
<1>2. ASSUME NEW w \in Workers, CreateOrder(w) PROVE TypeOK'
  <2>1. job[w].o \in Orders /\ job[w].call \in Calls /\ job[w].shelf \in [Targets -> Nat]
    BY <1>2 DEF CreateOrder, TypeOK, JobType, JobFields
  <2>2. job' \in [Workers -> JobType]
    BY <1>2, <2>1, AfterCreateType DEF CreateOrder, TypeOK
  <2>3. order' \in [Orders -> RowType]
    BY <1>2, <2>1 DEF CreateOrder, TypeOK, RowType, Statuses, Pays
  <2> QED
    BY <1>2, <2>2, <2>3 DEF CreateOrder, TypeOK
<1>3. ASSUME NEW w \in Workers, CreateRefused(w) \/ StaleRow(w) PROVE TypeOK'
  BY <1>3 DEF CreateRefused, StaleRow, Finish, TypeOK
<1>4. ASSUME NEW w \in Workers, OpenGateway(w) PROVE TypeOK'
  <2>1. job[w].call \in Cards
    BY <1>4 DEF OpenGateway, TypeOK, JobType
  <2>2. job[w].o \in Orders /\ gateway[job[w].o] \in GatewayType
    BY <1>4 DEF OpenGateway, TypeOK, JobType
  <2>3. [gateway[job[w].o] EXCEPT !.provider = job[w].call] \in GatewayType
    BY <2>1, <2>2 DEF GatewayType
  <2>4. gateway' \in [Orders -> GatewayType]
    BY <1>4, <2>2, <2>3 DEF OpenGateway, TypeOK
  <2> QED
    BY <1>4, <2>4 DEF OpenGateway, Finish, TypeOK
<1>5. ASSUME NEW o \in Orders, GatewayDeclines(o) \/ AmountMismatch(o) PROVE TypeOK'
  <2>1. /\ gateway[o].notices \cup {"failed"} \in SUBSET Notices
        /\ gateway[o].notices \ {"success"} \in SUBSET Notices
    BY DEF TypeOK, GatewayType, Notices
  <2>2. gateway' \in [Orders -> GatewayType]
    BY <1>5, <2>1, PendingType DEF GatewayDeclines, AmountMismatch
  <2> QED
    BY <1>5, <2>2 DEF GatewayDeclines, AmountMismatch, TypeOK
<1>18. ASSUME NEW o \in Orders, NEW n \in Notices, AcknowledgeNotice(o, n)
       PROVE  TypeOK'
  <2>1. gateway[o].notices \ {n} \in SUBSET Notices
    BY DEF TypeOK, GatewayType
  <2> QED
    BY <1>18, <2>1, PendingType DEF AcknowledgeNotice, TypeOK
<1>19. ASSUME NEW o \in Orders, GatewayCharges(o) PROVE TypeOK'
  <2>1. gateway[o] \in GatewayType /\ gateway[o].notices \cup {"success"} \in SUBSET Notices
    BY DEF TypeOK, GatewayType, Notices
  <2>2. ASSUME NEW m \in Amounts
        PROVE  [gateway[o] EXCEPT !.charged = TRUE, !.amount = m,
                                  !.notices = @ \cup {"success"}] \in GatewayType
    BY <2>1 DEF GatewayType
  <2>3. gateway' \in [Orders -> GatewayType]
    BY <1>19, <2>2 DEF GatewayCharges, TypeOK
  <2> QED
    BY <1>19, <2>3 DEF GatewayCharges, TypeOK
<1>6. ASSUME NEW o \in Orders, DeleteOrder(o) PROVE TypeOK'
  BY <1>6 DEF DeleteOrder, TypeOK, RowType
<1>7. ASSUME NEW t \in Targets, DeleteProduct(t) PROVE TypeOK'
  BY <1>7 DEF DeleteProduct, TypeOK
<1>8. ASSUME NEW w \in Workers, NEW o \in Orders, ReceiveSuccess(w, o) \/ ReceiveFailure(w, o)
      PROVE  TypeOK'
  <2>1. /\ Changed(o, "processing", "success") \in DirtType
        /\ Changed(o, "cancelled", "failed") \in DirtType
    BY ChangedType DEF Statuses, Pays
  <2>2. "success" \in Calls /\ "failed" \in Calls
    BY DEF Calls, Notices
  <2>3. CASE ReceiveSuccess(w, o)
    BY <2>1, <2>2, <2>3, NewJobType DEF ReceiveSuccess, TypeOK
  <2>4. CASE ReceiveFailure(w, o)
    BY <2>1, <2>2, <2>4, NewJobType DEF ReceiveFailure, TypeOK
  <2> QED
    BY <1>8, <2>3, <2>4
<1>9. ASSUME NEW w \in Workers, NEW o \in Orders, NEW s \in Statuses, UpdateStatus(w, o, s)
      PROVE  TypeOK'
  <2>1. order[o].pay \in Pays
    BY DEF TypeOK, RowType
  <2>2. Changed(o, s, "success") \in DirtType /\ Changed(o, s, order[o].pay) \in DirtType
    BY <2>1, ChangedType DEF Pays
  <2>3. job' \in [Workers -> JobType]
    BY <1>9, <2>2, NewJobType DEF UpdateStatus, TypeOK, Calls
  <2> QED
    BY <1>9, <2>3 DEF UpdateStatus, Spend, TypeOK
<1>10. ASSUME NEW w \in Workers, NEW o \in Orders, NEW s \in Couriers, ApplyEvent(w, o, s)
       PROVE  TypeOK'
  <2>1. order[o].pay \in Pays /\ s \in Statuses
    BY BoundsAssumption DEF TypeOK, RowType, Statuses
  <2>2. Changed(o, s, order[o].pay) \in DirtType
    BY <2>1, ChangedType
  <2>3. job' \in [Workers -> JobType]
    BY <1>10, <2>2, NewJobType DEF ApplyEvent, TypeOK, Calls
  <2> QED
    BY <1>10, <2>3 DEF ApplyEvent, Spend, TypeOK
<1>11. ASSUME NEW w \in Workers, Write(w) \/ Commit(w)
       PROVE  gateway' \in [Orders -> GatewayType]
  <2>1. job[w].o \in Orders
    BY <1>11 DEF Write, Commit, TypeOK, JobType
  <2>2. gateway[job[w].o].notices \ {job[w].call} \in SUBSET Notices
    BY <2>1 DEF TypeOK, GatewayType
  <2> QED
    BY <1>11, <2>1, <2>2, PendingType DEF Write, Commit, Answer, TypeOK
<1>12. ASSUME NEW w \in Workers, Write(w) \/ Commit(w)
       PROVE  order' \in [Orders -> RowType]
  <2>1. job[w].dirty \in DirtType /\ job[w].o \in Orders
    BY <1>12 DEF Write, Commit, TypeOK, JobType, JobFields
  <2>2. Flushed(order[job[w].o], job[w].dirty) \in RowType
    BY <2>1, FlushedType DEF TypeOK
  <2> QED
    BY <1>12, <2>1, <2>2 DEF Write, Commit, TypeOK
<1>13. ASSUME NEW w \in Workers, Write(w) PROVE TypeOK'
  BY <1>11, <1>12, <1>13 DEF Write, Finish, TypeOK
<1>14. ASSUME NEW w \in Workers, LockOrder(w) PROVE TypeOK'
  <2>1. job[w].o \in Orders
    BY <1>14 DEF LockOrder, TypeOK, JobType
  <2>2. Decide(job[w].op, job[w].o) \in {"deduct", "restore", "none"}
    BY DEF Decide
  <2> DEFINE next == [job[w] EXCEPT !.pc = "counted", !.op = Decide(job[w].op, job[w].o)]
  <2>4. job[w] \in JobFields
    BY DEF TypeOK, JobType
  <2>5. next \in JobType
    BY <2>1, <2>2, <2>4 DEF JobType, JobFields
  <2>6. job' = [job EXCEPT ![w] = next]
    BY <1>14 DEF LockOrder, TypeOK
  <2> HIDE DEF next
  <2>3. job' \in [Workers -> JobType]
    BY <2>5, <2>6 DEF TypeOK
  <2> QED
    BY <1>14, <2>1, <2>3 DEF LockOrder, TypeOK
<1>15. ASSUME NEW w \in Workers, Commit(w) PROVE TypeOK'
  <2> DEFINE o == job[w].o
             n == Cardinality(Applied(o))
             seen == IF job[w].call = "cod" THEN job[w].shelf ELSE stock
  <2>1. o \in Orders /\ job[w].op \in {"deduct", "restore", "none"} /\ seen \in [Targets -> Nat]
    BY <1>15 DEF Commit, TypeOK, JobType, JobFields
  <2>2. n \in Nat
    BY <2>1, LineCount
  <2>3. \A t \in Targets : Shelve(job[w].op, seen[t], Qty[o][t]) \in Nat
    BY <2>1, ShelveType, LinesAssumption
  <2>4. stock' \in [Targets -> Nat]
    BY <1>15, <2>3 DEF Commit, TypeOK
  <2>5. rows' \in [Orders -> LedgerType]
    <3>1. rows[o] \in LedgerType
      BY <2>1 DEF TypeOK
    <3> HIDE DEF n
    <3> QED
      BY <1>15, <2>1, <2>2, <3>1 DEF Commit, TypeOK, LedgerType, n
  <2>6. job' \in [Workers -> JobType] /\ lock' \in [Orders -> Workers \cup {NoWorker}]
    BY <1>15, <2>1 DEF Commit, Finish, TypeOK
  <2> QED
    BY <1>11, <1>12, <1>15, <2>4, <2>5, <2>6 DEF Commit, TypeOK
<1>16. ASSUME NEW w \in Workers, Crash(w) PROVE TypeOK'
  BY <1>16 DEF Crash, Spend, Finish, TypeOK
<1>17. CASE UNCHANGED vars
  BY <1>17 DEF vars, TypeOK
<1> QED
  BY <1>1, <1>2, <1>3, <1>4, <1>5, <1>6, <1>7, <1>8, <1>9, <1>10, <1>13, <1>14, <1>15,
     <1>16, <1>17, <1>18, <1>19 DEF Next, Environment, Start, Step

(* Whatever the orders, the stock and the number of concurrent calls, the  *)
(* state stays well typed.                                                 *)
THEOREM TypeCorrect == Spec => []TypeOK
BY InitType, NextType, PTL DEF Spec

-----------------------------------------------------------------------------
(* Which steps touch the ledger.                                           *)

(* A job that was just started, or was dropped: it has counted nothing yet *)
(* and if it is to book a payment it is on its way to the ledger.          *)
Fresh(j) ==
    /\ j.pc # "counted"
    /\ j.op = "restore" => j.dirty.pay = Clean
    /\ j.dirty.pay = "success" => j.pc = "lock" /\ j.op = "deduct"

Untouched == rows' = rows /\ lock' = lock

LEMMA IdleFresh == Fresh(Idle)
BY DEF Fresh, Idle, Job, NoDirt, Clean

LEMMA CreateFresh ==
    ASSUME NEW m \in Calls, NEW o \in Orders, NEW s \in [Targets -> Nat]
    PROVE  Fresh(AfterCreate(m, o, s))
BY IdleFresh DEF AfterCreate, Fresh, Job, NoDirt, ToPay, Clean

(* Only counting, committing and crashing reach the movements and the row  *)
(* locks; every other step leaves both alone and replaces at most one job  *)
(* by a fresh one (stock.py:27-39, 90-120).                                *)
LEMMA QuietSteps ==
    ASSUME TypeOK, [Next]_vars
    PROVE  \/ \E w \in Workers : LockOrder(w) \/ Commit(w) \/ Crash(w)
           \/ /\ Untouched
              /\ \A v \in Workers : job'[v] = job[v] \/ Fresh(job'[v])
<1> DEFINE Quiet == /\ Untouched
                    /\ \A v \in Workers : job'[v] = job[v] \/ Fresh(job'[v])
<1>j. job \in [Workers -> JobType]
  BY DEF TypeOK
<1>1. ASSUME NEW w \in Workers, NEW o \in Orders,
             NEW m \in Providers \cup {"wire", "cod"}, Checkout(w, o, m)
      PROVE  Quiet
  BY <1>1, <1>j DEF Checkout, Untouched, Fresh, Job, NoDirt, Clean
<1>2. ASSUME NEW w \in Workers, CreateOrder(w) PROVE Quiet
  <2>1. job[w].o \in Orders /\ job[w].call \in Calls /\ job[w].shelf \in [Targets -> Nat]
    BY <1>2, <1>j DEF CreateOrder, JobType, JobFields
  <2>2. Fresh(AfterCreate(job[w].call, job[w].o, job[w].shelf))
    BY <2>1, CreateFresh
  <2> QED
    BY <1>2, <1>j, <2>2 DEF CreateOrder, Untouched
<1>3. ASSUME NEW w \in Workers,
             CreateRefused(w) \/ StaleRow(w) \/ OpenGateway(w) \/ Write(w)
      PROVE  Quiet
  BY <1>3, <1>j, IdleFresh DEF CreateRefused, StaleRow, OpenGateway, Write, Finish, Untouched
<1>4. ASSUME NEW w \in Workers, NEW o \in Orders, ReceiveSuccess(w, o) \/ ReceiveFailure(w, o)
      PROVE  Quiet
  <2>1. CASE ReceiveSuccess(w, o)
    BY <1>j, <2>1 DEF ReceiveSuccess, Untouched, Fresh, Job
  <2>2. CASE ReceiveFailure(w, o)
    BY <1>j, <2>2 DEF ReceiveFailure, Untouched, Fresh, Job, Changed, Clean
  <2> QED
    BY <1>4, <2>1, <2>2
<1>5. ASSUME NEW w \in Workers, NEW o \in Orders, NEW s \in Statuses, UpdateStatus(w, o, s)
      PROVE  Quiet
  <2>1. Changed(o, s, order[o].pay).pay = Clean
    BY DEF Changed
  <2> QED
    BY <1>5, <1>j, <2>1 DEF UpdateStatus, Untouched, Fresh, Job, Clean
<1>6. ASSUME NEW w \in Workers, NEW o \in Orders, NEW s \in Couriers, ApplyEvent(w, o, s)
      PROVE  Quiet
  <2>1. Changed(o, s, order[o].pay).pay = Clean
    BY DEF Changed
  <2> QED
    BY <1>6, <1>j, <2>1 DEF ApplyEvent, Untouched, Fresh, Job, Clean
<1>7. ASSUME Environment \/ UNCHANGED vars PROVE Quiet
  BY <1>7 DEF Environment, GatewayDeclines, GatewayCharges, AcknowledgeNotice, AmountMismatch,
              DeleteOrder, DeleteProduct, Untouched, vars
<1> QED
  BY <1>1, <1>2, <1>3, <1>4, <1>5, <1>6, <1>7 DEF Next, Start, Step

-----------------------------------------------------------------------------
(* The row lock.                                                           *)

(* A call between its count and its commit holds the lock of its order,    *)
(* and no two such calls are at the same order (stock.py:10-12).           *)
LEMMA LockStep == TypeOK /\ LockHeld /\ [Next]_vars => LockHeld'
<1> SUFFICES ASSUME TypeOK, LockHeld, [Next]_vars PROVE LockHeld'
  OBVIOUS
<1>j. /\ job \in [Workers -> JobType]
      /\ lock \in [Orders -> Workers \cup {NoWorker}]
      /\ \A w \in Workers : job[w].pc # "idle" => job[w].o \in Orders
  BY DEF TypeOK, JobType
<1>1. ASSUME NEW w \in Workers, LockOrder(w) PROVE LockHeld'
  BY <1>1, <1>j, OrdersAssumption DEF LockOrder, LockHeld, RowFree, JobType, JobFields
<1>2. ASSUME NEW w \in Workers, Commit(w) PROVE LockHeld'
  BY <1>2, <1>j, IdleFresh DEF Commit, Finish, LockHeld, Fresh
<1>3. ASSUME NEW w \in Workers, Crash(w) PROVE LockHeld'
  BY <1>3, <1>j, IdleFresh DEF Crash, Finish, LockHeld, Fresh
<1>4. ASSUME Untouched, \A v \in Workers : job'[v] = job[v] \/ Fresh(job'[v])
      PROVE  LockHeld'
  BY <1>4 DEF LockHeld, Untouched, Fresh
<1> QED
  BY <1>1, <1>2, <1>3, <1>4, QuietSteps

LEMMA LockAlone ==
    ASSUME LockHeld, NEW v \in Workers, NEW w \in Workers,
           job[v].pc = "counted", job[w].pc = "counted", job[v].o = job[w].o
    PROVE  v = w
BY DEF LockHeld

-----------------------------------------------------------------------------
(* The ledger.                                                             *)

(* What a commit adds to the net number of sale movements of an order: one *)
(* per line that still has a target when it deducts, minus one when it     *)
(* restores (stock.py:96-119).                                             *)
LEMMA CommitNet ==
    ASSUME TypeOK, NEW w \in Workers, Commit(w), NEW x \in Orders
    PROVE  /\ Net(x) \in Int
           /\ Net(x)' =
                IF x # job[w].o THEN Net(x)
                ELSE CASE job[w].op = "deduct"  -> Net(x) + Cardinality(Applied(x))
                       [] job[w].op = "restore" -> Net(x) - Cardinality(Applied(x))
                       [] OTHER -> Net(x)
<1>1. /\ rows \in [Orders -> LedgerType]
      /\ job[w].o \in Orders /\ job[w].op \in {"deduct", "restore", "none"}
  BY DEF Commit, TypeOK, JobType, JobFields
<1>2. Cardinality(Applied(x)) \in Nat
  BY LineCount
<1>3. rows[x].sale \in Nat /\ rows[x].cancel \in Nat /\ rows[x].return \in Nat
  BY <1>1 DEF LedgerType
<1>4. CASE x # job[w].o
  <2>1. rows'[x] = rows[x]
    BY <1>1, <1>4 DEF Commit
  <2> QED
    BY <1>3, <1>4, <2>1 DEF Net
<1>5. CASE x = job[w].o
  <2> DEFINE n == Cardinality(Applied(x))
  <2>1. /\ rows'[x].sale = IF job[w].op = "deduct" THEN rows[x].sale + n ELSE rows[x].sale
        /\ rows'[x].cancel = IF job[w].op = "restore" THEN rows[x].cancel + n ELSE rows[x].cancel
        /\ rows'[x].return = rows[x].return
    BY <1>1, <1>5 DEF Commit, LedgerType
  <2> HIDE DEF n
  <2>2. n \in Nat
    BY <1>2 DEF n
  <2>3. CASE job[w].op = "deduct"
    <3>1. Net(x)' = Net(x) + n
      BY <1>3, <2>1, <2>2, <2>3 DEF Net
    <3> QED
      BY <1>3, <1>5, <2>3, <3>1 DEF Net, n
  <2>4. CASE job[w].op = "restore"
    <3>1. Net(x)' = Net(x) - n
      BY <1>3, <2>1, <2>2, <2>4 DEF Net
    <3> QED
      BY <1>3, <1>5, <2>4, <3>1 DEF Net, n
  <2>5. CASE job[w].op = "none"
    <3>1. Net(x)' = Net(x)
      BY <1>3, <2>1, <2>2, <2>5 DEF Net
    <3> QED
      BY <1>3, <1>5, <2>5, <3>1 DEF Net
  <2> QED
    BY <1>1, <2>3, <2>4, <2>5
<1> QED
  BY <1>4, <1>5

LEMMA NetSame ==
    ASSUME rows' = rows, NEW x PROVE Net(x)' = Net(x)
BY DEF Net

(* Between count and commit the ledger of an order cannot rise above what  *)
(* the deduction was decided on, and no commit lifts it above the lines.   *)
LEMMA LedgerStep == TypeOK /\ LedgerInv /\ [Next]_vars => LedgerInv'
<1> SUFFICES ASSUME TypeOK, LedgerInv, [Next]_vars PROVE LedgerInv'
  OBVIOUS
<1>l. LockHeld'
  BY LockStep DEF LedgerInv
<1>j. /\ job \in [Workers -> JobType]
      /\ \A v \in Workers : job[v].pc # "idle" => job[v].o \in Orders
  BY DEF TypeOK, JobType
<1>n. \A x \in Orders : Net(x) \in Int
  BY DEF TypeOK, LedgerType, Net
<1>1. ASSUME NEW w \in Workers, LockOrder(w) PROVE CountFresh' /\ NeverDeductedTwice'
  <2>1. \A x \in Orders : Net(x)' = Net(x)
    BY <1>1, NetSame DEF LockOrder
  <2>2. NeverDeductedTwice'
    BY <2>1 DEF LedgerInv, NeverDeductedTwice, Lines
  <2>3. ASSUME NEW v \in Workers, job'[v].pc = "counted", job'[v].op = "deduct"
        PROVE  Net(job[v].o)' <= 0
    <3>1. job'[v].o = job[v].o /\ job[v].o \in Orders
      BY <1>1, <1>j, <2>3 DEF LockOrder, JobType, JobFields
    <3>2. Net(job[v].o) <= 0
      BY <1>1, <1>j, <2>3 DEF LockOrder, Decide, LedgerInv, CountFresh, JobType, JobFields
    <3> QED
      BY <2>1, <3>1, <3>2 DEF Net
  <2> QED
    BY <2>2, <2>3 DEF CountFresh
<1>2. ASSUME NEW w \in Workers, Commit(w) PROVE CountFresh' /\ NeverDeductedTwice'
  <2>1. ASSUME NEW x \in Orders PROVE Net(x)' <= Cardinality(Lines(x))
    <3>1. Net(x) <= Cardinality(Lines(x))
      BY DEF LedgerInv, NeverDeductedTwice
    <3>2. x = job[w].o /\ job[w].op = "deduct" => Net(x) <= 0
      BY <1>2 DEF Commit, LedgerInv, CountFresh
    <3>3. Cardinality(Lines(x)) \in Nat /\ Cardinality(Applied(x)) \in 0 .. Cardinality(Lines(x))
      BY LineCount
    <3> QED
      BY <1>2, <1>n, <3>1, <3>2, <3>3, CommitNet
  <2>2. ASSUME NEW v \in Workers, job'[v].pc = "counted", job'[v].op = "deduct"
        PROVE  Net(job[v].o)' <= 0
    <3>1. v # w /\ job'[v] = job[v]
      BY <1>2, <1>j, <2>2, IdleFresh DEF Commit, Finish, Fresh
    <3>2. job[v].o \in Orders /\ job[v].o # job[w].o
      BY <1>2, <1>j, <2>2, <3>1, LockAlone DEF Commit, LedgerInv
    <3>3. \A x \in Orders : x # job[w].o => Net(x)' = Net(x)
      BY <1>2, CommitNet
    <3>4. Net(job[v].o) <= 0
      BY <2>2, <3>1 DEF LedgerInv, CountFresh
    <3> QED
      BY <3>1, <3>2, <3>3, <3>4 DEF Net
  <2> QED
    BY <2>1, <2>2 DEF CountFresh, NeverDeductedTwice, Lines
<1>3. ASSUME NEW w \in Workers, Crash(w) PROVE CountFresh' /\ NeverDeductedTwice'
  <2>1. rows' = rows /\ \A v \in Workers : job'[v] = job[v] \/ Fresh(job'[v])
    BY <1>3, <1>j, IdleFresh DEF Crash, Finish
  <2> QED
    BY <2>1 DEF LedgerInv, CountFresh, NeverDeductedTwice, Net, Lines, Fresh
<1>4. ASSUME Untouched, \A v \in Workers : job'[v] = job[v] \/ Fresh(job'[v])
      PROVE  CountFresh' /\ NeverDeductedTwice'
  BY <1>4 DEF LedgerInv, CountFresh, NeverDeductedTwice, Net, Lines, Fresh, Untouched
<1> QED
  BY <1>l, <1>1, <1>2, <1>3, <1>4, QuietSteps DEF LedgerInv

LEMMA LedgerInit == Init => LedgerInv
<1> SUFFICES ASSUME Init PROVE LedgerInv
  OBVIOUS
<1>1. \A w \in Workers : job[w].pc # "counted"
  BY IdleFresh DEF Init, Fresh
<1>2. \A o \in Orders : Net(o) = 0
  BY DEF Init, Net
<1> QED
  BY <1>1, <1>2, LineCount DEF LedgerInv, LockHeld, CountFresh, NeverDeductedTwice

(* The stock of an order is never taken twice: for any number of orders,   *)
(* products and concurrent calls, with retries, crashes, deletions of      *)
(* products and orders at any moment.                                      *)
THEOREM DeductedAtMostOnce == Spec => []NeverDeductedTwice
<1>1. Spec => [](TypeOK /\ LedgerInv)
  BY InitType, NextType, LedgerInit, LedgerStep, PTL DEF Spec
<1>2. LedgerInv => NeverDeductedTwice
  BY DEF LedgerInv
<1> QED
  BY <1>1, <1>2, PTL

-----------------------------------------------------------------------------
(* All or nothing, as long as no product is deleted.                       *)

(* Products stay where they are when none may be deleted.                  *)
LEMMA ListedStep ==
    ASSUME [Next]_vars, Deletable = {}
    PROVE  listed' = listed
<1>1. ASSUME Environment \/ UNCHANGED vars PROVE listed' = listed
  BY <1>1 DEF Environment, GatewayDeclines, GatewayCharges, AcknowledgeNotice, AmountMismatch,
              DeleteOrder, DeleteProduct, vars
<1>2. ASSUME NEW w \in Workers, Start(w) PROVE listed' = listed
  BY <1>2 DEF Start, Checkout, ReceiveSuccess, ReceiveFailure, UpdateStatus, ApplyEvent
<1>3. ASSUME NEW w \in Workers, Step(w) PROVE listed' = listed
  BY <1>3 DEF Step, CreateOrder, CreateRefused, OpenGateway, Write, LockOrder, Commit,
              StaleRow, Crash
<1> QED
  BY <1>1, <1>2, <1>3 DEF Next

(* With every target in place a deduction takes all the lines of a free    *)
(* order, a restoration gives all of them back, and both leave every other *)
(* order alone (stock.py:90-145).                                          *)
LEMMA CommitMoves ==
    ASSUME TypeOK, StrictInv, NEW w \in Workers, Commit(w), NEW x \in Orders
    PROVE  /\ x # job[w].o \/ job[w].op = "none" =>
                (Free(x)' <=> Free(x)) /\ (Held(x)' <=> Held(x))
           /\ x = job[w].o /\ job[w].op = "deduct"  => Free(x) /\ Held(x)'
           /\ x = job[w].o /\ job[w].op = "restore" => Held(x) /\ Free(x)'
<1> DEFINE n == Cardinality(Lines(x))
<1>1. Applied(x) = Lines(x) /\ n \in Nat
  BY LineCount DEF StrictInv, Applied, Lines
<1>2. /\ Net(x) \in Int
      /\ Net(x)' = IF x # job[w].o THEN Net(x)
                   ELSE CASE job[w].op = "deduct"  -> Net(x) + n
                          [] job[w].op = "restore" -> Net(x) - n
                          [] OTHER -> Net(x)
  BY <1>1, CommitNet
<1>3. /\ x = job[w].o /\ job[w].op = "deduct"  => Net(x) = 0
      /\ x = job[w].o /\ job[w].op = "restore" => Net(x) = n
  BY DEF Commit, StrictInv, CountExact, Free, Held
<1>4. /\ Free(x) <=> Net(x) = 0
      /\ Held(x) <=> Net(x) = n
      /\ Free(x)' <=> Net(x)' = 0
      /\ Held(x)' <=> Net(x)' = n
  BY DEF Free, Held, Lines
<1> HIDE DEF n
<1> QED
  BY <1>1, <1>2, <1>3, <1>4

LEMMA Exclusive ==
    ASSUME NEW x \in Orders
    PROVE  ~ (Free(x) /\ Held(x)) /\ ~ (Free(x)' /\ Held(x)')
<1>1. Cardinality(Lines(x)) \in Nat \ {0}
  BY LineCount
<1> QED
  BY <1>1 DEF Free, Held, Lines

(* With every target in place a deduction and a restoration move all the   *)
(* lines of the order.                                                     *)
LEMMA ExactStep ==
    TypeOK /\ StrictInv /\ [Next]_vars /\ Deletable = {}
        => /\ LockHeld' /\ CountExact' /\ AllOrNothing' /\ BookingTakes'
           /\ listed' = Targets
<1> SUFFICES ASSUME TypeOK, StrictInv, [Next]_vars, Deletable = {}
             PROVE  /\ LockHeld' /\ CountExact' /\ AllOrNothing' /\ BookingTakes'
                    /\ listed' = Targets
  OBVIOUS
<1> DEFINE Rest == CountExact /\ AllOrNothing /\ BookingTakes
<1>l. LockHeld'
  BY LockStep DEF StrictInv
<1>t. listed' = Targets
  BY ListedStep DEF StrictInv
<1>j. /\ job \in [Workers -> JobType]
      /\ \A v \in Workers : job[v].pc # "idle" => job[v].o \in Orders
  BY DEF TypeOK, JobType
<1>n. \A x \in Orders : Net(x) \in Int
  BY DEF TypeOK, LedgerType, Net
<1>c. \A x \in Orders : /\ Applied(x) = Lines(x)
                        /\ Cardinality(Lines(x)) \in Nat \ {0}
  BY LineCount DEF StrictInv, Applied, Lines
<1>1. ASSUME NEW w \in Workers, LockOrder(w) PROVE Rest'
  <2>1. \A x \in Orders : (Free(x)' <=> Free(x)) /\ (Held(x)' <=> Held(x))
    BY <1>1 DEF LockOrder, Free, Held, Net, Lines
  <2>2. job[w].o \in Orders /\ (Free(job[w].o) \/ Held(job[w].o))
    BY <1>1, <1>j DEF LockOrder, StrictInv, AllOrNothing
  <2>3. /\ job'[w].op = Decide(job[w].op, job[w].o) /\ job'[w].o = job[w].o
        /\ job'[w].dirty = job[w].dirty /\ job'[w].pc = "counted"
    BY <1>1, <1>j DEF LockOrder, JobType, JobFields
  <2>4. /\ job'[w].op = "deduct" => Free(job[w].o)
        /\ job'[w].op = "restore" => Held(job[w].o)
        /\ job'[w].op = "restore" => job[w].dirty.pay = Clean
        /\ job[w].dirty.pay = "success" => job'[w].op = "deduct" \/ Held(job[w].o)
    <3>1. Books(job[w])
      BY DEF StrictInv, BookingTakes
    <3> QED
      BY <1>1, <1>n, <1>c, <2>2, <2>3, <3>1 DEF LockOrder, Decide, Books, Free, Held
  <2>5. \A v \in Workers : v # w => job'[v] = job[v]
    BY <1>1, <1>j DEF LockOrder
  <2>6. \A v \in Workers : job'[v].o = job[v].o
    BY <2>3, <2>5
  <2>7. \A v \in Workers : job[v].pc = "counted" => job[v].o \in Orders
    BY <1>j
  <2>8. CountExact'
    <3> SUFFICES ASSUME NEW v \in Workers, job'[v].pc = "counted"
                 PROVE  /\ job'[v].op = "deduct" => Free(job[v].o)
                        /\ job'[v].op = "restore" => Held(job[v].o)
      BY <1>1, <2>6 DEF CountExact, LockOrder, Free, Held, Net, Lines
    <3> QED
      BY <2>4, <2>5 DEF StrictInv, CountExact
  <2>9. BookingTakes'
    <3> SUFFICES ASSUME NEW v \in Workers
                 PROVE  /\ job'[v].op = "restore" => job'[v].dirty.pay = Clean
                        /\ job'[v].dirty.pay = "success" =>
                            /\ job'[v].pc # "write"
                            /\ job'[v].pc = "lock" => job'[v].op = "deduct"
                            /\ job'[v].pc = "counted" => job'[v].op = "deduct" \/ Held(job[v].o)
      BY <1>1, <2>6 DEF BookingTakes, Books, LockOrder, Held, Net, Lines
    <3>1. Books(job[v])
      BY DEF StrictInv, BookingTakes
    <3>2. CASE v = w
      BY <2>3, <2>4, <3>2
    <3>3. CASE v # w
      BY <2>5, <3>1, <3>3 DEF Books
    <3> QED
      BY <3>2, <3>3
  <2> QED
    BY <2>1, <2>8, <2>9 DEF StrictInv, AllOrNothing
<1>2. ASSUME NEW w \in Workers, Commit(w) PROVE Rest'
  <2>1. job[w].o \in Orders /\ job[w].pc = "counted" /\ job[w].op \in {"deduct", "restore", "none"}
    BY <1>2, <1>j DEF Commit, JobType, JobFields
  <2>3. ASSUME NEW x \in Orders, x # job[w].o
        PROVE  (Free(x)' <=> Free(x)) /\ (Held(x)' <=> Held(x))
    BY <1>2, <2>3, CommitMoves
  <2>4. ASSUME NEW x \in Orders, x = job[w].o PROVE (Free(x) \/ Held(x))'
    BY <1>2, <2>1, <2>4, CommitMoves DEF StrictInv, AllOrNothing
  <2>5. AllOrNothing'
    BY <2>3, <2>4 DEF StrictInv, AllOrNothing
  <2>6. \A v \in Workers : job'[v] = Idle \/ (v # w /\ job'[v] = job[v])
    BY <1>2, <1>j DEF Commit, Finish
  <2>7. ASSUME NEW v \in Workers, job'[v].pc = "counted"
        PROVE  /\ job'[v] = job[v] /\ job[v].o \in Orders
               /\ Free(job[v].o)' <=> Free(job[v].o)
               /\ Held(job[v].o)' <=> Held(job[v].o)
    <3>1. v # w /\ job'[v] = job[v] /\ job[v].pc = "counted"
      BY <2>6, <2>7, IdleFresh DEF Fresh
    <3>2. job[v].o \in Orders /\ job[v].o # job[w].o
      BY <1>j, <2>1, <3>1, LockAlone DEF StrictInv
    <3>3. PICK x \in Orders : x = job[v].o
      BY <3>2
    <3>4. (Free(x)' <=> Free(x)) /\ (Held(x)' <=> Held(x))
      BY <2>3, <3>2, <3>3
    <3> QED
      BY <3>1, <3>2, <3>3, <3>4 DEF Free, Held, Net, Lines
  <2>8. CountExact'
    BY <2>7 DEF StrictInv, CountExact
  <2>9. BookingTakes'
    <3> SUFFICES ASSUME NEW v \in Workers PROVE Books(job[v])'
      BY DEF BookingTakes
    <3>1. CASE job'[v] = Idle
      BY <3>1, IdleFresh DEF Books, Fresh
    <3>2. CASE job'[v] = job[v]
      BY <2>7, <3>2 DEF StrictInv, BookingTakes, Books
    <3> QED
      BY <2>6, <3>1, <3>2
  <2> QED
    BY <2>5, <2>8, <2>9
<1>3. ASSUME rows' = rows, \A v \in Workers : job'[v] = job[v] \/ Fresh(job'[v])
      PROVE  Rest'
  <2>1. AllOrNothing'
    BY <1>3 DEF StrictInv, AllOrNothing, Free, Held, Net, Lines
  <2>2. CountExact'
    <3> SUFFICES ASSUME NEW v \in Workers, job'[v].pc = "counted"
                 PROVE  /\ job'[v].op = "deduct" => Free(job[v].o)'
                        /\ job'[v].op = "restore" => Held(job[v].o)'
      BY DEF CountExact
    <3>1. job'[v] = job[v]
      BY <1>3 DEF Fresh
    <3> QED
      BY <1>3, <3>1 DEF StrictInv, CountExact, Free, Held, Net, Lines
  <2>3. BookingTakes'
    <3> SUFFICES ASSUME NEW v \in Workers PROVE Books(job[v])'
      BY DEF BookingTakes
    <3>1. CASE job'[v] = job[v]
      BY <1>3, <3>1 DEF StrictInv, BookingTakes, Books, Held, Net, Lines
    <3>2. CASE Fresh(job'[v])
      BY <3>2 DEF Fresh, Books
    <3> QED
      BY <1>3, <3>1, <3>2
  <2> QED
    BY <2>1, <2>2, <2>3
<1>4. ASSUME NEW w \in Workers, Crash(w) PROVE Rest'
  <2>1. rows' = rows /\ \A v \in Workers : job'[v] = job[v] \/ Fresh(job'[v])
    BY <1>4, <1>j, IdleFresh DEF Crash, Finish
  <2> QED
    BY <1>3, <2>1
<1> QED
  BY <1>l, <1>t, <1>1, <1>2, <1>3, <1>4, QuietSteps DEF Untouched

-----------------------------------------------------------------------------
(* The rows of orders.                                                     *)

(* Every way in which the row of an order changes: it is created, deleted  *)
(* while no call holds its lock, or flushed by a call that is at it.       *)
LEMMA RowMoves ==
    ASSUME TypeOK, [Next]_vars, NEW o \in Orders
    PROVE  \/ order'[o] = order[o]
           \/ /\ order[o].row = "absent"
              /\ order'[o].row = "live" /\ order'[o].pay = "initiated"
              /\ rows' = rows
           \/ /\ DeleteOrder(o)
              /\ order'[o].row = "deleted" /\ order'[o].pay = order[o].pay
           \/ \E w \in Workers :
                 /\ job[w].o = o
                 /\ Write(w) \/ Commit(w)
                 /\ order'[o] = Flushed(order[o], job[w].dirty)
<1>o. order \in [Orders -> RowType] /\ order[o] \in RowType
  BY DEF TypeOK
<1>1. ASSUME NEW w \in Workers, CreateOrder(w)
      PROVE  \/ order'[o] = order[o]
             \/ /\ order[o].row = "absent"
                /\ order'[o].row = "live" /\ order'[o].pay = "initiated"
                /\ rows' = rows
  BY <1>o, <1>1 DEF CreateOrder
<1>2. ASSUME NEW x \in Orders, DeleteOrder(x)
      PROVE  \/ order'[o] = order[o]
             \/ /\ DeleteOrder(o)
                /\ order'[o].row = "deleted" /\ order'[o].pay = order[o].pay
  BY <1>o, <1>2 DEF DeleteOrder, RowType
<1>3. ASSUME NEW w \in Workers, Write(w) \/ Commit(w)
      PROVE  \/ order'[o] = order[o]
             \/ job[w].o = o /\ order'[o] = Flushed(order[o], job[w].dirty)
  BY <1>o, <1>3 DEF Write, Commit
<1>4. ASSUME Environment \/ UNCHANGED vars, \A x \in Orders : ~ DeleteOrder(x)
      PROVE  order'[o] = order[o]
  BY <1>4 DEF Environment, GatewayDeclines, GatewayCharges, AcknowledgeNotice, AmountMismatch,
              DeleteProduct, vars
<1>5. ASSUME NEW w \in Workers, Start(w) PROVE order'[o] = order[o]
  BY <1>5 DEF Start, Checkout, ReceiveSuccess, ReceiveFailure, UpdateStatus, ApplyEvent
<1>6. ASSUME NEW w \in Workers,
             CreateRefused(w) \/ OpenGateway(w) \/ LockOrder(w) \/ StaleRow(w) \/ Crash(w)
      PROVE  order'[o] = order[o]
  BY <1>6 DEF CreateRefused, OpenGateway, LockOrder, StaleRow, Crash
<1> QED
  BY <1>1, <1>2, <1>3, <1>4, <1>5, <1>6 DEF Next, Step

LEMMA FlushKeepsRow ==
    ASSUME NEW r \in RowType, NEW d \in DirtType
    PROVE  /\ Flushed(r, d).row = r.row
           /\ Flushed(r, d).pay = IF d.pay = Clean THEN r.pay ELSE d.pay
BY DEF Flushed, RowType, DirtType

(* A call that has counted works on a row that exists.                     *)
LEMMA RowsStep == TypeOK /\ LockHeld /\ RowsKept /\ [Next]_vars => RowsKept'
<1> SUFFICES ASSUME TypeOK, LockHeld, RowsKept, [Next]_vars PROVE RowsKept'
  OBVIOUS
<1>j. /\ job \in [Workers -> JobType] /\ order \in [Orders -> RowType]
      /\ \A v \in Workers : /\ job[v].dirty \in DirtType
                            /\ job[v].pc # "idle" => job[v].o \in Orders
  BY DEF TypeOK, JobType, JobFields
<1>1. ASSUME NEW o \in Orders, RowLive(o), ~ RowFree(o) PROVE RowLive(o)'
  <2>1. CASE \E w \in Workers : /\ job[w].o = o
                                /\ Write(w) \/ Commit(w)
                                /\ order'[o] = Flushed(order[o], job[w].dirty)
    <3>1. PICK w \in Workers : order'[o] = Flushed(order[o], job[w].dirty)
      BY <2>1
    <3>2. order'[o].row = order[o].row
      BY <1>j, <3>1, FlushKeepsRow
    <3> QED
      BY <1>1, <3>2 DEF RowLive
  <2> QED
    BY <1>1, <2>1, RowMoves DEF RowLive, DeleteOrder
<1>2. ASSUME NEW o \in Orders, order'[o].row = "absent" PROVE order'[o].pay = "initiated"
  <2>1. CASE \E w \in Workers : /\ job[w].o = o
                                /\ Write(w) \/ Commit(w)
                                /\ order'[o] = Flushed(order[o], job[w].dirty)
    <3>1. PICK w \in Workers : /\ job[w].o = o
                               /\ Write(w) \/ Commit(w)
                               /\ order'[o] = Flushed(order[o], job[w].dirty)
      BY <2>1
    <3>2. RowLive(o)
      BY <3>1 DEF Write, Commit, RowsKept, RowLive
    <3>3. order'[o].row = order[o].row
      BY <1>j, <3>1, FlushKeepsRow
    <3> QED
      BY <1>2, <3>2, <3>3 DEF RowLive
  <2> QED
    BY <1>2, <2>1, RowMoves DEF RowsKept
<1>3. ASSUME NEW v \in Workers, job'[v].pc = "counted" PROVE RowLive(job[v].o)'
  <2>1. CASE job'[v] = job[v]
    <3>1. job[v].o \in Orders /\ RowLive(job[v].o) /\ ~ RowFree(job[v].o)
      BY <1>j, <1>3, <2>1, OrdersAssumption DEF LockHeld, RowsKept, RowFree, RowLive
    <3>2. PICK o \in Orders : o = job[v].o
      BY <3>1
    <3>3. RowLive(o)'
      BY <1>1, <3>1, <3>2
    <3> QED
      BY <2>1, <3>2, <3>3 DEF RowLive
  <2>2. CASE job'[v] # job[v]
    <3>1. ASSUME NEW w \in Workers, Commit(w) \/ Crash(w) PROVE FALSE
      BY <1>3, <1>j, <2>2, <3>1, IdleFresh DEF Commit, Crash, Finish, Fresh
    <3>2. ASSUME NEW w \in Workers, LockOrder(w) PROVE RowLive(job[v].o)'
      BY <1>j, <2>2, <3>2 DEF LockOrder, RowLive, JobType, JobFields
    <3> QED
      BY <1>3, <2>2, <3>1, <3>2, QuietSteps DEF Fresh
  <2> QED
    BY <2>1, <2>2
<1> QED
  BY <1>2, <1>3 DEF RowsKept

(* A deleted order stays as it was, whatever calls were still in flight    *)
(* for it.                                                                 *)
THEOREM DeletedIsFinal == Spec => DeletedStaysDeleted
<1> DEFINE Kept == \A o \in Orders :
                      order[o].row = "deleted" => order'[o] = order[o] /\ rows'[o] = rows[o]
<1>1. TypeOK /\ LockHeld /\ RowsKept /\ [Next]_vars => Kept
  <2> SUFFICES ASSUME TypeOK, RowsKept, [Next]_vars, NEW o \in Orders, order[o].row = "deleted"
               PROVE  order'[o] = order[o] /\ rows'[o] = rows[o]
    OBVIOUS
  <2>1. \A w \in Workers : job[w].o = o => ~ Write(w) /\ ~ Commit(w)
    BY DEF Write, Commit, RowsKept, RowLive
  <2>2. order'[o] = order[o]
    BY <2>1, RowMoves DEF RowLive, DeleteOrder
  <2>3. ASSUME NEW w \in Workers, Commit(w) PROVE rows'[o] = rows[o]
    BY <2>1, <2>3 DEF Commit, TypeOK
  <2>4. ASSUME NEW w \in Workers, LockOrder(w) \/ Crash(w) PROVE rows'[o] = rows[o]
    BY <2>4 DEF LockOrder, Crash
  <2> QED
    BY <2>2, <2>3, <2>4, QuietSteps DEF Untouched
<1>2. Init => LockHeld /\ RowsKept
  <2> SUFFICES ASSUME Init PROVE LockHeld /\ RowsKept
    OBVIOUS
  <2>1. \A w \in Workers : job[w].pc # "counted"
    BY IdleFresh DEF Init, Fresh
  <2> QED
    BY <2>1 DEF Init, LockHeld, RowsKept
<1>3. Spec => [](TypeOK /\ LockHeld /\ RowsKept)
  BY <1>2, InitType, NextType, LockStep, RowsStep, PTL DEF Spec
<1>4. Kept => [Kept]_vars
  OBVIOUS
<1> QED
  BY <1>1, <1>3, PTL DEF Spec, DeletedStaysDeleted

-----------------------------------------------------------------------------
(* The theorems about shops whose products are kept.                       *)

LEMMA StrictInit == Init => StrictInv
<1> SUFFICES ASSUME Init PROVE StrictInv
  OBVIOUS
<1>1. \A w \in Workers : job[w] = Idle
  BY DEF Init
<1>2. \A o \in Orders : Free(o)
  BY DEF Init, Free, Net
<1>3. \A w \in Workers : Books(job[w]) /\ job[w].pc # "counted"
  BY <1>1, IdleFresh DEF Fresh, Books
<1> QED
  BY <1>2, <1>3 DEF Init, StrictInv, LockHeld, CountExact, AllOrNothing, BookingTakes, RowsKept

LEMMA StrictStep == TypeOK /\ StrictInv /\ [Next]_vars /\ Deletable = {} => StrictInv'
<1> SUFFICES ASSUME TypeOK, StrictInv, [Next]_vars, Deletable = {} PROVE StrictInv'
  OBVIOUS
<1>1. /\ LockHeld' /\ CountExact' /\ AllOrNothing' /\ BookingTakes'
      /\ listed' = Targets
  BY ExactStep
<1>2. RowsKept'
  BY RowsStep DEF StrictInv
<1> QED
  BY <1>1, <1>2 DEF StrictInv

LEMMA StrictInvariant == ASSUME Deletable = {} PROVE Spec => [](TypeOK /\ StrictInv)
<1>1. TypeOK /\ StrictInv /\ [Next]_vars => StrictInv'
  BY StrictStep
<1> QED
  BY <1>1, InitType, NextType, StrictInit, PTL DEF Spec

(* Either all lines of an order are out or none is, whatever overlaps.     *)
THEOREM LedgerAllOrNothing == ASSUME Deletable = {} PROVE Spec => []AllOrNothing
<1>1. StrictInv => AllOrNothing
  BY DEF StrictInv
<1> QED
  BY <1>1, StrictInvariant, PTL

(* What a call may flush into the payment of an order: a call that books a *)
(* payment takes the stock in the same transaction or finds it taken.      *)
LEMMA BookingCommit ==
    ASSUME TypeOK, StrictInv, NEW w \in Workers, NEW o \in Orders, o = job[w].o,
           Write(w) \/ Commit(w), job[w].dirty.pay = "success"
    PROVE  Commit(w) /\ Held(o)'
<1>1. Books(job[w])
  BY DEF StrictInv, BookingTakes
<1>2. Commit(w) /\ job[w].pc = "counted"
  BY <1>1 DEF Books, Write, Commit
<1>3. job[w].op \in {"deduct", "restore", "none"} /\ job[w].op # "restore"
  BY <1>1 DEF Books, Clean, TypeOK, JobType, JobFields
<1>4. job[w].op = "deduct" \/ Held(o)
  BY <1>1, <1>2 DEF Books
<1> QED
  BY <1>2, <1>3, <1>4, CommitMoves

(* No order becomes paid without its stock.                                *)
THEOREM NoPaymentWithoutStock == ASSUME Deletable = {} PROVE Spec => PaymentTakesStock
<1> DEFINE Taken == \A o \in Orders :
                order[o].pay # "success" /\ order'[o].pay = "success" => Held(o)'
<1>1. TypeOK /\ StrictInv /\ [Next]_vars => Taken
  <2> SUFFICES ASSUME TypeOK, StrictInv, [Next]_vars, NEW o \in Orders,
                      order[o].pay # "success", order'[o].pay = "success"
               PROVE  Held(o)'
    OBVIOUS
  <2>1. PICK w \in Workers : /\ job[w].o = o
                             /\ Write(w) \/ Commit(w)
                             /\ order'[o] = Flushed(order[o], job[w].dirty)
    BY RowMoves
  <2>2. order[o] \in RowType /\ job[w].dirty \in DirtType
    BY DEF TypeOK, JobType, JobFields
  <2>3. job[w].dirty.pay = "success"
    BY <2>1, <2>2, FlushKeepsRow
  <2> QED
    BY <2>1, <2>3, BookingCommit
<1>2. Taken => [Taken]_vars
  OBVIOUS
<1> QED
  BY <1>1, <1>2, StrictInvariant, PTL DEF Spec, PaymentTakesStock

-----------------------------------------------------------------------------
(* OrderStock implements Fulfilment.                                       *)

LEMMA ShareSame ==
    ASSUME NEW x, (Free(x)' <=> Free(x)) /\ (Held(x)' <=> Held(x))
    PROVE  Share(x)' = Share(x)
BY DEF Share

LEMMA ShareKept == ASSUME rows' = rows, NEW x PROVE Share(x)' = Share(x)
BY DEF Share, Free, Held, Net, Lines

Paid   == {o \in Orders : order[o].pay = "success"}
Closed == {o \in Orders : order[o].row = "deleted"}
Shares == [o \in Orders |-> Share(o)]

LEMMA InitImplements == Init => F!FInit
<1> SUFFICES ASSUME Init PROVE F!FInit
  OBVIOUS
<1>1. \A o \in Orders : Share(o) = "none"
  BY DEF Init, Share, Free, Net
<1> QED
  BY <1>1 DEF Init, F!FInit

(* A write without the ledger can only withdraw a booking.                 *)
LEMMA WriteImplements ==
    ASSUME TypeOK, StrictInv, NEW w \in Workers, NEW o \in Orders, o = job[w].o, Write(w)
    PROVE  [F!FNext]_F!fvars
<1> DEFINE p == job[w].dirty.pay
<1>1. o \in Orders /\ order[o] \in RowType /\ job[w].dirty \in DirtType /\ order[o].row = "live"
  BY DEF Write, RowLive, TypeOK, JobType, JobFields
<1>2. rows' = rows /\ order' = [order EXCEPT ![o] = Flushed(order[o], job[w].dirty)]
  BY DEF Write
<1>3. p # "success"
  BY DEF StrictInv, BookingTakes, Books, Write
<1>4. order'[o].row = "live" /\ order'[o].pay = IF p = Clean THEN order[o].pay ELSE p
  BY <1>1, <1>2, FlushKeepsRow DEF TypeOK
<1>5. \A x \in Orders : x # o => order'[x] = order[x]
  BY <1>2 DEF TypeOK
<1>6. Shares' = Shares
  BY <1>2, ShareKept DEF Shares
<1> HIDE DEF p
<1>7. Closed' = Closed
  BY <1>1, <1>4, <1>5 DEF Closed
<1>8. CASE order'[o].pay = order[o].pay
  <2>1. Paid' = Paid
    BY <1>5, <1>8 DEF Paid
  <2> QED
    BY <1>6, <1>7, <2>1 DEF F!fvars, Shares, Paid, Closed
<1>9. CASE order'[o].pay # order[o].pay
  <2>1. order'[o].pay # "success"
    BY <1>3, <1>4, <1>9
  <2>2. CASE order[o].pay = "success"
    <3>1. o \in Paid \ Closed /\ Paid' = Paid \ {o}
      BY <1>1, <1>5, <2>1, <2>2 DEF Paid, Closed
    <3>2. F!Withdraw(o)
      BY <1>6, <1>7, <3>1 DEF F!Withdraw, Shares, Paid, Closed
    <3> QED
      BY <1>1, <3>2 DEF F!FNext
  <2>3. CASE order[o].pay # "success"
    <3>1. Paid' = Paid
      BY <1>5, <2>1, <2>3 DEF Paid
    <3> QED
      BY <1>6, <1>7, <3>1 DEF F!fvars, Shares, Paid, Closed
  <2> QED
    BY <2>2, <2>3
<1> QED
  BY <1>8, <1>9

(* A commit books, holds, releases, withdraws, or changes nothing.         *)
LEMMA CommitImplements ==
    ASSUME TypeOK, StrictInv, NEW w \in Workers, NEW o \in Orders, o = job[w].o, Commit(w)
    PROVE  [F!FNext]_F!fvars
<1> DEFINE p == job[w].dirty.pay
           op == job[w].op
<1>1. /\ o \in Orders /\ order[o] \in RowType /\ job[w].dirty \in DirtType
      /\ op \in {"deduct", "restore", "none"}
      /\ order[o].row = "live"
  BY DEF Commit, RowLive, TypeOK, JobType, JobFields, StrictInv, RowsKept
<1>2. order' = [order EXCEPT ![o] = Flushed(order[o], job[w].dirty)]
  BY DEF Commit
<1>3. order'[o].row = "live" /\ order'[o].pay = IF p = Clean THEN order[o].pay ELSE p
  BY <1>1, <1>2, FlushKeepsRow DEF TypeOK
<1>4. \A x \in Orders : x # o => order'[x] = order[x]
  BY <1>2 DEF TypeOK
<1>5. \A x \in Orders : x # o => Share(x)' = Share(x)
  BY CommitMoves, ShareSame
<1>6. /\ op = "none" => Share(o)' = Share(o)
      /\ op = "deduct" => Share(o) = "none" /\ Share(o)' = "all"
      /\ op = "restore" => Share(o) = "all" /\ Share(o)' = "none" /\ p = Clean
      /\ p = "success" => Share(o)' = "all"
  <2>2. ~ (Free(o) /\ Held(o)) /\ ~ (Free(o)' /\ Held(o)')
    BY <1>1, Exclusive
  <2>3. p = "success" => Held(o)'
    BY <1>1, BookingCommit
  <2>4. op = "restore" => p = Clean
    BY DEF StrictInv, BookingTakes, Books
  <2>5. /\ op = "none" => (Free(o)' <=> Free(o)) /\ (Held(o)' <=> Held(o))
        /\ op = "deduct"  => Free(o) /\ Held(o)'
        /\ op = "restore" => Held(o) /\ Free(o)'
    BY <1>1, CommitMoves
  <2> HIDE DEF p, op
  <2> QED
    BY <2>2, <2>3, <2>4, <2>5 DEF Share
<1> HIDE DEF p, op
<1>7. Closed' = Closed
  BY <1>1, <1>3, <1>4 DEF Closed
<1>8. Shares' = [Shares EXCEPT ![o] = Share(o)'] /\ Shares[o] = Share(o)
  BY <1>1, <1>5 DEF Shares
<1>9. CASE order[o].pay # "success" /\ order'[o].pay = "success"
  <2>1. o \notin Paid \cup Closed /\ Paid' = Paid \cup {o}
    BY <1>1, <1>4, <1>9 DEF Paid, Closed
  <2>2. Shares' = [Shares EXCEPT ![o] = "all"]
    BY <1>3, <1>6, <1>8, <1>9
  <2>3. F!Book(o)
    BY <1>7, <2>1, <2>2 DEF F!Book, F!SetAside, Shares, Paid, Closed
  <2> QED
    BY <1>1, <2>3 DEF F!FNext
<1>10. CASE order[o].pay = "success" /\ order'[o].pay # "success"
  <2>1. o \in Paid \ Closed /\ Paid' = Paid \ {o}
    BY <1>1, <1>4, <1>10 DEF Paid, Closed
  <2>2. op # "restore"
    BY <1>3, <1>6, <1>10
  <2>3. Shares' = [Shares EXCEPT ![o] = "all"] \/ Shares' = Shares
    BY <1>1, <1>6, <1>8, <2>2 DEF Shares
  <2>4. F!Withdraw(o)
    BY <1>7, <2>1, <2>3 DEF F!Withdraw, F!SetAside, Shares, Paid, Closed
  <2> QED
    BY <1>1, <2>4 DEF F!FNext
<1>11. CASE order[o].pay = "success" <=> order'[o].pay = "success"
  <2>1. Paid' = Paid
    BY <1>4, <1>11 DEF Paid
  <2>2. o \notin Closed
    BY <1>1 DEF Closed
  <2>3. CASE op = "deduct"
    <3>1. Shares[o] = "none" /\ Shares' = [Shares EXCEPT ![o] = "all"]
      BY <1>6, <1>8, <2>3
    <3>2. F!Hold(o)
      BY <1>7, <2>1, <2>2, <3>1 DEF F!Hold, F!SetAside, Shares, Paid, Closed
    <3> QED
      BY <1>1, <3>2 DEF F!FNext
  <2>4. CASE op = "restore"
    <3>1. Shares[o] = "all" /\ Shares' = [Shares EXCEPT ![o] = "none"]
      BY <1>6, <1>8, <2>4
    <3>2. F!Release(o)
      BY <1>7, <2>1, <2>2, <3>1 DEF F!Release, Shares, Paid, Closed
    <3> QED
      BY <1>1, <3>2 DEF F!FNext
  <2>5. CASE op = "none"
    <3>1. Shares' = Shares
      BY <1>1, <1>6, <1>8, <2>5 DEF Shares
    <3> QED
      BY <1>7, <2>1, <3>1 DEF F!fvars, Shares, Paid, Closed
  <2> QED
    BY <1>1, <2>3, <2>4, <2>5
<1> QED
  BY <1>9, <1>10, <1>11

LEMMA DeleteImplements ==
    ASSUME TypeOK, NEW o \in Orders, DeleteOrder(o)
    PROVE  F!Close(o)
<1>1. order[o] \in RowType /\ order[o].row = "live"
  BY DEF DeleteOrder, RowLive, TypeOK
<1>2. /\ rows' = rows
      /\ order'[o].row = "deleted" /\ order'[o].pay = order[o].pay
      /\ \A x \in Orders : x # o => order'[x] = order[x]
  BY <1>1 DEF DeleteOrder, TypeOK, RowType
<1>3. Shares' = Shares
  BY <1>2, ShareKept DEF Shares
<1>4. Paid' = Paid /\ o \notin Closed /\ Closed' = Closed \cup {o}
  BY <1>1, <1>2 DEF Paid, Closed
<1> QED
  BY <1>3, <1>4 DEF F!Close, Shares, Paid, Closed

LEMMA StepImplements ==
    TypeOK /\ StrictInv /\ [Next]_vars => [F!FNext]_F!fvars
<1> SUFFICES ASSUME TypeOK, StrictInv, [Next]_vars PROVE [F!FNext]_F!fvars
  OBVIOUS
<1>1. CASE \E w \in Workers : Write(w) \/ Commit(w)
  <2>1. PICK w \in Workers : Write(w) \/ Commit(w)
    BY <1>1
  <2>2. job[w].o \in Orders
    BY <2>1 DEF Write, Commit, TypeOK, JobType
  <2>3. PICK o \in Orders : o = job[w].o
    BY <2>2
  <2> QED
    BY <2>1, <2>3, WriteImplements, CommitImplements
<1>2. CASE \E o \in Orders : DeleteOrder(o)
  BY <1>2, DeleteImplements DEF F!FNext
<1>3. CASE /\ \A w \in Workers : ~ Write(w) /\ ~ Commit(w)
           /\ \A o \in Orders : ~ DeleteOrder(o)
  <2>1. \A o \in Orders :
           \/ order'[o] = order[o]
           \/ /\ order[o].row = "absent"
              /\ order'[o].row = "live" /\ order'[o].pay = "initiated"
    BY <1>3, RowMoves
  <2>2. rows' = rows
    BY <1>3, QuietSteps DEF LockOrder, Crash, Untouched
  <2>3. Shares' = Shares
    BY <2>2, ShareKept DEF Shares
  <2>4. Paid' = Paid /\ Closed' = Closed
    BY <2>1 DEF Paid, Closed, StrictInv, RowsKept
  <2> QED
    BY <2>3, <2>4 DEF F!fvars, Shares, Paid, Closed
<1> QED
  BY <1>1, <1>2, <1>3

(* Calls, locks, retries and crashes add nothing an observer of payments,  *)
(* holds and deletions could see.                                          *)
THEOREM Implementation == ASSUME Deletable = {} PROVE Spec => ImplementsFulfilment
BY InitImplements, StepImplements, StrictInvariant, PTL
   DEF Spec, ImplementsFulfilment, F!FSpec

-----------------------------------------------------------------------------
(* No unit of stock disappears.                                            *)

(* A shop that is closed for cash on delivery has no call that writes back *)
(* a value it read before it held a lock (orders.py, cash on delivery).    *)
NoStale == \A w \in Workers : job[w].call = "cod" => job[w].pc \in {"idle", "create"}

(* No step takes a cash on delivery call past its creation.                *)
LEMMA StaleStep ==
    ASSUME TypeOK, NoStale, [Next]_vars, "cod" \notin Methods
    PROVE  NoStale'
<1>j. job \in [Workers -> JobType] /\ \A w \in Workers : job[w] \in JobFields
  BY DEF TypeOK, JobType
<1>i. Idle.pc = "idle"
  BY DEF Idle, Job
<1>1. ASSUME NEW w \in Workers, NEW j, job' = [job EXCEPT ![w] = j],
             j.call = "cod" => j.pc \in {"idle", "create"}
      PROVE  NoStale'
  BY <1>1, <1>j DEF NoStale
<1>2. ASSUME NEW w \in Workers, Finish(w) PROVE NoStale'
  BY <1>1, <1>2, <1>i DEF Finish
<1>3. ASSUME NEW w \in Workers, NEW o \in Orders,
             NEW m \in Providers \cup {"wire", "cod"}, Checkout(w, o, m)
      PROVE  NoStale'
  BY <1>1, <1>3 DEF Checkout, Job
<1>4. ASSUME NEW w \in Workers, CreateOrder(w) PROVE NoStale'
  <2> DEFINE j == AfterCreate(job[w].call, job[w].o, job[w].shelf)
  <2>1. j.call = "cod" => j.pc \in {"idle", "create"}
    BY <1>i DEF AfterCreate, Job, Cards
  <2>2. job' = [job EXCEPT ![w] = j]
    BY <1>4 DEF CreateOrder
  <2> HIDE DEF j
  <2> QED
    BY <1>1, <2>1, <2>2
<1>5. ASSUME NEW w \in Workers, NEW o \in Orders, ReceiveSuccess(w, o) \/ ReceiveFailure(w, o)
      PROVE  NoStale'
  BY <1>1, <1>5 DEF ReceiveSuccess, ReceiveFailure, Job
<1>6. ASSUME NEW w \in Workers, NEW o \in Orders, NEW s \in Statuses, UpdateStatus(w, o, s)
      PROVE  NoStale'
  BY <1>1, <1>6 DEF UpdateStatus, Job
<1>7. ASSUME NEW w \in Workers, NEW o \in Orders, NEW s \in Couriers, ApplyEvent(w, o, s)
      PROVE  NoStale'
  BY <1>1, <1>7 DEF ApplyEvent, Job
<1>8. ASSUME NEW w \in Workers,
             \/ CreateRefused(w) \/ OpenGateway(w) \/ Write(w) \/ Commit(w)
             \/ StaleRow(w) \/ Crash(w)
      PROVE  NoStale'
  BY <1>2, <1>8 DEF CreateRefused, OpenGateway, Write, Commit, StaleRow, Crash
<1>9. ASSUME NEW w \in Workers, LockOrder(w) PROVE NoStale'
  <2>1. job[w].pc = "lock" /\ job'[w].call = job[w].call /\ \A v \in Workers : v # w => job'[v] = job[v]
    BY <1>9, <1>j DEF LockOrder, JobFields
  <2> QED
    BY <2>1 DEF NoStale
<1>10. ASSUME Environment \/ UNCHANGED vars PROVE NoStale'
  BY <1>10 DEF Environment, GatewayDeclines, GatewayCharges, AcknowledgeNotice, AmountMismatch,
               DeleteOrder, DeleteProduct, vars, NoStale
<1> QED
  BY <1>3, <1>4, <1>5, <1>6, <1>7, <1>8, <1>9, <1>10 DEF Next, Start, Step

(* Only a commit moves stock or movements.                                 *)
LEMMA StockMoves ==
    ASSUME [Next]_vars
    PROVE  (stock' = stock /\ rows' = rows) \/ \E w \in Workers : Commit(w)
<1>1. ASSUME Environment \/ UNCHANGED vars PROVE stock' = stock /\ rows' = rows
  BY <1>1 DEF Environment, GatewayDeclines, GatewayCharges, AcknowledgeNotice, AmountMismatch,
              DeleteOrder, DeleteProduct, vars
<1>2. ASSUME NEW w \in Workers, Start(w) PROVE stock' = stock /\ rows' = rows
  BY <1>2 DEF Start, Checkout, ReceiveSuccess, ReceiveFailure, UpdateStatus, ApplyEvent
<1>3. ASSUME NEW w \in Workers, Step(w), ~ Commit(w) PROVE stock' = stock /\ rows' = rows
  BY <1>3 DEF Step, CreateOrder, CreateRefused, OpenGateway, Write, LockOrder, StaleRow, Crash
<1> QED
  BY <1>1, <1>2, <1>3 DEF Next

(* What the orders hold of a target, as a function of the order.           *)
Takes(t) == [o \in Orders |-> IF Net(o) > 0 THEN Qty[o][t] ELSE 0]

(* The sums over the orders are natural, and no order holds more than it   *)
(* asked for.                                                              *)
LEMMA TakesIs ==
    ASSUME TypeOK, NEW t \in Targets
    PROVE  /\ Out(t) = SumFunctionOnSet(Takes(t), Orders)
           /\ \A o \in Orders : /\ Takes(t)[o] = IF Net(o) > 0 THEN Qty[o][t] ELSE 0
                                /\ Takes(t)[o] \in Nat /\ Qty[o][t] \in Nat /\ Takes(t)[o] <= Qty[o][t]
           /\ Out(t) \in Int /\ Out(t) >= 0 /\ Out(t) <= Demand(t) /\ Demand(t) \in Int
<1> DEFINE wanted == [o \in Orders |-> Qty[o][t]]
<1>1. \A o \in Orders : Qty[o][t] \in Nat
  BY LinesAssumption
<1>2. \A o \in Orders : /\ Takes(t)[o] = IF Net(o) > 0 THEN Qty[o][t] ELSE 0
                        /\ Takes(t)[o] \in Nat /\ Takes(t)[o] <= Qty[o][t]
  BY <1>1 DEF Takes
<1>3. Out(t) = SumFunctionOnSet(Takes(t), Orders)
  BY DEF Out, Takes
<1>4. \A o \in Orders : wanted[o] = Qty[o][t]
  OBVIOUS
<1>5. Demand(t) = SumFunctionOnSet(wanted, Orders)
  BY DEF Demand
<1> HIDE DEF wanted
<1>6. \A o \in Orders : /\ Takes(t)[o] \in Int /\ Takes(t)[o] >= 0
                        /\ wanted[o] \in Int /\ Takes(t)[o] <= wanted[o]
  BY <1>1, <1>2, <1>4
<1>7. SumFunctionOnSet(Takes(t), Orders) \in Int /\ SumFunctionOnSet(Takes(t), Orders) >= 0
      /\ SumFunctionOnSet(wanted, Orders) \in Int
  BY <1>6, OrdersAssumption, SumInt
<1>8. SumFunctionOnSet(Takes(t), Orders) <= SumFunctionOnSet(wanted, Orders)
  BY <1>6, OrdersAssumption, SumLeq
<1> QED
  BY <1>1, <1>2, <1>3, <1>5, <1>7, <1>8

(* A commit moves the units it takes off the shelf to the order, or back.  *)
LEMMA UnitsCommit ==
    ASSUME TypeOK, TypeOK', StrictInv, NoStale, UnitsAccounted, NEW w \in Workers, Commit(w), listed' = Targets,
           NEW o \in Orders, o = job[w].o
    PROVE  UnitsAccounted'
<1> SUFFICES ASSUME NEW t \in Targets
             PROVE  /\ stock'[t] + Out(t)' >= InitStock[t]
                    /\ Demand(t) <= InitStock[t] => stock'[t] + Out(t)' = InitStock[t]
  BY DEF UnitsAccounted, Demand
<1> DEFINE q == Qty[o][t]
           f == Takes(t)
           g == Takes(t)'
           A == Out(t)
           B == Out(t)'
           D == Demand(t)
           s == stock[t]
           r == stock'[t]
           I == InitStock[t]
<1>1. job[w].op \in {"deduct", "restore", "none"} /\ job[w].call # "cod" /\ job[w].pc = "counted"
  BY DEF Commit, TypeOK, JobType, JobFields, NoStale
<1>2. /\ A = SumFunctionOnSet(f, Orders) /\ A \in Int /\ A <= D /\ D \in Int
      /\ \A x \in Orders : f[x] = (IF Net(x) > 0 THEN Qty[x][t] ELSE 0) /\ f[x] \in Nat /\ Qty[x][t] \in Nat
  BY TakesIs
<1>3. /\ B = SumFunctionOnSet(g, Orders) /\ B <= D
      /\ \A x \in Orders : g[x] = (IF Net(x)' > 0 THEN Qty[x][t] ELSE 0) /\ g[x] \in Nat
  <2>1. \A x \in Orders : Qty[x][t] \in Nat
    BY LinesAssumption
  <2>2. \A x \in Orders : g[x] = (IF Net(x)' > 0 THEN Qty[x][t] ELSE 0)
    BY DEF Takes
  <2>3. B = SumFunctionOnSet(g, Orders)
    BY DEF Out, Takes
  <2> DEFINE wanted == [x \in Orders |-> Qty[x][t]]
  <2>4. D = SumFunctionOnSet(wanted, Orders) /\ \A x \in Orders : wanted[x] = Qty[x][t]
    BY DEF Demand
  <2> HIDE DEF wanted, g
  <2>5. \A x \in Orders : g[x] \in Int /\ wanted[x] \in Int /\ g[x] <= wanted[x] /\ g[x] \in Nat
    BY <2>1, <2>2, <2>4
  <2>6. SumFunctionOnSet(g, Orders) <= SumFunctionOnSet(wanted, Orders)
    BY <2>5, OrdersAssumption, SumLeq
  <2> QED
    BY <2>2, <2>3, <2>4, <2>5, <2>6
<1>4. \A x \in Orders : x # o => f[x] = g[x]
  BY <1>2, <1>3, CommitNet
<1>5. B = A - f[o] + g[o] /\ B \in Int
  <2>1. \A x \in Orders : f[x] \in Int /\ g[x] \in Int /\ (x # o => f[x] = g[x])
    BY <1>2, <1>3, <1>4
  <2> HIDE DEF f, g
  <2> QED
    BY <1>1, <1>2, <1>3, <2>1, OrdersAssumption, SumChange
<1>6. q \in Nat /\ s \in Nat /\ I \in Nat /\ f[o] = (IF Net(o) > 0 THEN q ELSE 0) /\ g[o] = (IF Net(o)' > 0 THEN q ELSE 0)
  BY <1>1, <1>2, <1>3, LinesAssumption DEF TypeOK
<1>7. r = IF job[w].op # "none" /\ q > 0 THEN Shelve(job[w].op, s, q) ELSE s
  <2>1. t \in Applied(o) <=> q > 0
    BY DEF Applied, Lines, StrictInv
  <2> QED
    BY <1>1, <2>1 DEF Commit, TypeOK
<1>8. /\ s + A >= I /\ (D <= I => s + A = I)
  BY DEF UnitsAccounted, StrictInv
<1>9. Net(o) \in Int /\ Cardinality(Lines(o)) \in Nat \ {0}
  BY <1>1, CommitNet, LineCount
<1>10. CASE job[w].op = "none"
  <2>1. Net(o)' = Net(o)
    BY <1>1, <1>10, CommitNet
  <2>2. r = s /\ f[o] = g[o]
    BY <1>6, <1>7, <1>10, <2>1
  <2> HIDE DEF A, B, D, s, r, I, f, g, q
  <2>3. B = A
    BY <1>2, <1>5, <1>6, <2>2
  <2> QED
    BY <1>8, <2>2, <2>3 DEF A, B, D, s, r, I
<1>11. CASE job[w].op = "deduct"
  <2>1. Net(o) = 0 /\ Net(o)' > 0
    <3>1. Free(o) /\ Held(o)'
      BY <1>1, <1>11, CommitMoves
    <3> QED
      BY <1>9, <3>1 DEF Free, Held, Lines
  <2>2. f[o] = 0 /\ g[o] = q
    BY <1>6, <2>1
  <2>3. r = IF s - q >= 0 THEN s - q ELSE 0
    BY <1>6, <1>7, <1>11 DEF Shelve, Larger
  <2> HIDE DEF A, B, D, s, r, I, f, g, q
  <2>4. B = A + q
    BY <1>2, <1>5, <1>6, <2>2
  <2>5. r + B >= I /\ (D <= I => r + B = I)
    BY <1>2, <1>3, <1>6, <1>8, <2>3, <2>4
  <2> QED
    BY <2>5 DEF B, D, r, I
<1>12. CASE job[w].op = "restore"
  <2>1. Net(o) > 0 /\ Net(o)' = 0
    <3>1. Held(o) /\ Free(o)'
      BY <1>1, <1>12, CommitMoves
    <3> QED
      BY <1>9, <3>1 DEF Free, Held
  <2>2. f[o] = q /\ g[o] = 0
    BY <1>6, <2>1
  <2>3. r = s + q
    BY <1>6, <1>7, <1>12 DEF Shelve
  <2> HIDE DEF A, B, D, s, r, I, f, g, q
  <2>4. B = A - q
    BY <1>2, <1>5, <1>6, <2>2
  <2>5. r + B >= I /\ (D <= I => r + B = I)
    BY <1>2, <1>6, <1>8, <2>3, <2>4
  <2> QED
    BY <2>5 DEF B, D, r, I
<1> QED
  BY <1>1, <1>10, <1>11, <1>12

(* At the start nothing is out.                                            *)
LEMMA UnitsInit == Init => UnitsAccounted /\ NoStale
<1> SUFFICES ASSUME Init PROVE UnitsAccounted /\ NoStale
  OBVIOUS
<1>1. TypeOK
  BY InitType
<1>2. \A o \in Orders : Net(o) = 0
  BY DEF Init, Net
<1>3. ASSUME NEW t \in Targets PROVE stock[t] + Out(t) = InitStock[t]
  <2> DEFINE f == Takes(t)
             zero == [o \in Orders |-> 0]
  <2>1. \A o \in Orders : f[o] = 0
    BY <1>2 DEF Takes
  <2>2. Out(t) = SumFunctionOnSet(f, Orders)
    BY DEF Out, Takes
  <2> HIDE DEF f
  <2>3. SumFunctionOnSet(f, Orders) = 0
    BY <2>1, OrdersAssumption, SumZero
  <2>4. stock[t] = InitStock[t] /\ InitStock[t] \in Nat
    BY LinesAssumption DEF Init
  <2> QED
    BY <2>2, <2>3, <2>4
<1>4. \A t \in Targets : InitStock[t] \in Nat
  BY LinesAssumption
<1>5. UnitsAccounted
  BY <1>3, <1>4 DEF UnitsAccounted, Init
<1>6. NoStale
  BY DEF Init, NoStale, Idle, Job
<1> QED
  BY <1>5, <1>6

(* No interleaving of deductions and restorations makes units disappear,   *)
(* and a target that can never be short is counted exactly.                *)
THEOREM NoUnitLost ==
    ASSUME Deletable = {}, "cod" \notin Methods PROVE Spec => []UnitsAccounted
<1>1. TypeOK /\ StrictInv /\ NoStale /\ [Next]_vars => NoStale'
  BY StaleStep
<1>2. TypeOK /\ TypeOK' /\ StrictInv /\ NoStale /\ UnitsAccounted /\ [Next]_vars => UnitsAccounted'
  <2> SUFFICES ASSUME TypeOK, TypeOK', StrictInv, NoStale, UnitsAccounted, [Next]_vars PROVE UnitsAccounted'
    OBVIOUS
  <2>1. listed' = Targets /\ listed = Targets
    BY ListedStep DEF StrictInv
  <2>2. CASE stock' = stock /\ rows' = rows
    BY <2>1, <2>2 DEF UnitsAccounted, Out, Demand, Net
  <2>3. CASE \E w \in Workers : Commit(w)
    <3>1. \A w \in Workers : job[w].o \in Orders \/ job[w].pc = "idle"
      BY DEF TypeOK, JobType, JobFields
    <3>2. \A w \in Workers : Commit(w) => job[w].pc # "idle"
      BY DEF Commit
    <3> QED
      BY <2>1, <2>3, <3>1, <3>2, UnitsCommit
  <2> QED
    BY <2>2, <2>3, StockMoves
<1> QED
  BY <1>1, <1>2, UnitsInit, StrictInvariant, PTL DEF Spec
=============================================================================
