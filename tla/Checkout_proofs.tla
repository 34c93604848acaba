--------------------------- MODULE Checkout_proofs ---------------------------
(***************************************************************************)
(* Proofs about Checkout, for any number of orders and overlapping         *)
(* checkouts, any baskets, coupons, settings and wishes for points: the    *)
(* amounts of an order agree with one another, order numbers implement     *)
(* Register, and points that were read right are covered.                  *)
(***************************************************************************)
EXTENDS Checkout, Totals, FiniteSetTheorems, TLAPS

-----------------------------------------------------------------------------
(* Amounts.                                                                *)

Bill7 == [subtotal : Nat, discount : Nat, points : Nat, loyalty : Nat,
          tax : Nat, shipping : Nat, total : Nat]
Coupons == {NoCoupon} \cup [kind : {"percent", "fixed"}, value : Nat, min : Nat, active : BOOLEAN]

(* The coupon in force is one that may be saved, or none.                  *)
LEMMA CouponsSaved == Forms \cup {NoCoupon} \subseteq Coupons
BY AmountsAssumption DEF Coupons

(* What the database stores is the nearest kurus.                          *)
LEMMA StoredBounds ==
    ASSUME NEW n \in Nat
    PROVE  /\ Stored(n, 100) \in Nat
           /\ 200 * Stored(n, 100) <= 2 * n + 100 /\ 2 * n + 100 < 200 * Stored(n, 100) + 200
           /\ Stored(n, 500) \in Nat
           /\ 1000 * Stored(n, 500) <= 2 * n + 500 /\ 2 * n + 500 < 1000 * Stored(n, 500) + 1000
<1>1. Stored(n, 100) = (2 * n + 100) \div 200 /\ Stored(n, 500) = (2 * n + 500) \div 1000
  BY DEF Stored
<1> QED
  BY <1>1

(* A discount is stored to the kurus.                                      *)
LEMMA DiscountStored ==
    ASSUME NEW n \in Nat
    PROVE  Stored(n, 100) \in Nat /\ 200 * Stored(n, 100) <= 2 * n + 100 /\ 2 * n + 100 < 200 * Stored(n, 100) + 200
BY StoredBounds

(* What Python rounds is at most half a unit away.                         *)
LEMMA RoundedBounds ==
    ASSUME NEW n \in Nat
    PROVE  /\ \A k \in Rounded(n, 10) : k \in Nat /\ 20 * k <= 2 * n + 10 /\ 2 * n <= 20 * k + 10
           /\ \A k \in Rounded(n, 500) : k \in Nat /\ 1000 * k <= 2 * n + 500 /\ 2 * n <= 1000 * k + 500
<1>1. ASSUME NEW k \in Rounded(n, 10) PROVE k \in Nat /\ 20 * k <= 2 * n + 10 /\ 2 * n <= 20 * k + 10
  <2>1. k \in {n \div 10, n \div 10 + 1} /\ 2 * Distance(k * 10, n) <= 10
    BY <1>1 DEF Rounded
  <2> QED
    BY <2>1 DEF Distance
<1>2. ASSUME NEW k \in Rounded(n, 500) PROVE k \in Nat /\ 1000 * k <= 2 * n + 500 /\ 2 * n <= 1000 * k + 500
  <2>1. k \in {n \div 500, n \div 500 + 1} /\ 2 * Distance(k * 500, n) <= 500
    BY <1>2 DEF Rounded
  <2> QED
    BY <2>1 DEF Distance
<1> QED
  BY <1>1, <1>2

(* A discount is a natural number of hundredths of a kurus.                *)
LEMMA DiscountNat ==
    ASSUME NEW s \in Nat, NEW c \in Coupons
    PROVE  Discount(s, c) \in Nat
<1>1. c.value \in Nat /\ (c.active => c.kind \in {"percent", "fixed"})
  <2>1. CASE c = NoCoupon
    <3>1. NoCoupon.value \in Nat /\ ~ NoCoupon.active
      BY DEF NoCoupon
    <3>2. c.value \in Nat
      BY <2>1, <3>1
    <3>3. ~ c.active
      BY <2>1, <3>1
    <3> QED
      BY <3>2, <3>3
  <2>2. CASE c \in [kind : {"percent", "fixed"}, value : Nat, min : Nat, active : BOOLEAN]
    BY <2>2
  <2> QED
    BY <2>1, <2>2 DEF Coupons
<1> DEFINE v == c.value
<1>2. s * v \in Nat
  <2> HIDE DEF v
  <2> SUFFICES ASSUME v \in Nat PROVE s * v \in Nat
    BY <1>1 DEF v
  <2> QED
    OBVIOUS
<1>3. 100 * Lesser(v, s) \in Nat
  BY <1>1 DEF Lesser
<1> QED
  BY <1>1, <1>2, <1>3 DEF Discount

(* A bill is one of natural numbers that add up.                           *)
LEMMA BillAdds ==
    ASSUME NEW s \in Nat, NEW c \in Coupons, NEW pts \in Nat, NEW loy \in Nat
    PROVE  Bill(s, c, pts, loy) \in Bill7 /\ AddsUp(Bill(s, c, pts, loy))
<1> DEFINE d == Discount(s, c)
           n == 100 * s - d - 100 * loy
           x == Atleast0(n)
           sh == IF x > 0 /\ x < 100 * Free THEN Fee ELSE 0
           A == Stored(d, 100)
           B == Stored(x, 500)
           C == Stored(6 * x, 500)
           b == Bill(s, c, pts, loy)
<1>1. d \in Nat
  BY DiscountNat
<1>2. b = [subtotal |-> s, discount |-> A, points |-> pts, loyalty |-> loy, tax |-> B,
           shipping |-> sh, total |-> C + sh]
  BY DEF Bill
<1> HIDE DEF d, b
<1>3. n \in Int /\ x = (IF n > 0 THEN n ELSE 0)
  BY <1>1 DEF Atleast0
<1>4. x \in Nat /\ 6 * x \in Nat
  <2> HIDE DEF n, x
  <2> QED
    BY <1>3
<1>5. sh \in Nat
  BY AmountsAssumption
<1> HIDE DEF x, sh
<1>6. /\ A \in Nat /\ 200 * A <= 2 * d + 100 /\ 2 * d + 100 < 200 * A + 200
      /\ B \in Nat /\ 1000 * B <= 2 * x + 500 /\ 2 * x + 500 < 1000 * B + 1000
      /\ C \in Nat /\ 1000 * C <= 2 * (6 * x) + 500 /\ 2 * (6 * x) + 500 < 1000 * C + 1000
  BY <1>1, <1>4, StoredBounds
<1> HIDE DEF A, B, C
<1>7. b \in Bill7
  BY <1>2, <1>5, <1>6 DEF Bill7
<1>8. /\ b.total = C + sh /\ b.subtotal = s /\ b.discount = A /\ b.loyalty = loy
      /\ b.tax = B /\ b.shipping = sh
  BY <1>2
<1> DEFINE net == Atleast0(s - A - loy)
<1>9. net = IF s - A - loy > 0 THEN s - A - loy ELSE 0
  BY DEF Atleast0
<1>10. C - net - B <= 1 /\ net + B - C <= 1 /\ net \in Nat
  <2> HIDE DEF net
  <2>1. CASE n > 0
    BY <1>1, <1>3, <1>6, <1>9, <2>1
  <2>2. CASE ~ n > 0
    BY <1>1, <1>3, <1>6, <1>9, <2>2
  <2> QED
    BY <2>1, <2>2
<1>11. Distance(C + sh, net + B + sh) <= 1
  <2> HIDE DEF net
  <2> QED
    BY <1>5, <1>6, <1>10 DEF Distance
<1>12. AddsUp(b)
  BY <1>8, <1>11 DEF AddsUp
<1> QED
  BY <1>7, <1>12 DEF b

(* What a number of points may buy, and what is booked for it.             *)
LEMMA RedeemBounds ==
    ASSUME NEW p \in Nat, NEW rest \in Nat, NEW loy \in Redeem(p, rest)
    PROVE  /\ loy \in Nat /\ loy <= 10 * p
           /\ rest > 0 => 1000 * loy <= 2 * rest + 500
           /\ \A k \in Rounded(loy, 10) : k \in Nat /\ k <= p /\ Distance(loy, 10 * k) <= 5
<1>1. loy \in Nat /\ loy <= 10 * p /\ (rest > 0 => 1000 * loy <= 2 * rest + 500)
  <2>1. CASE p = 0
    BY <2>1 DEF Redeem
  <2>2. CASE p # 0 /\ rest > 0 /\ 5000 * p > rest
    <3>1. loy \in Rounded(rest, 500)
      BY <2>2 DEF Redeem
    <3> QED
      BY <2>2, <3>1, RoundedBounds
  <2>3. CASE p # 0 /\ ~ (rest > 0 /\ 5000 * p > rest)
    <3>1. loy = 10 * p
      BY <2>3 DEF Redeem
    <3> QED
      BY <2>3, <3>1
  <2> QED
    BY <2>1, <2>2, <2>3
<1>2. ASSUME NEW k \in Rounded(loy, 10) PROVE k \in Nat /\ k <= p /\ Distance(loy, 10 * k) <= 5
  <2>1. k \in Nat /\ 20 * k <= 2 * loy + 10 /\ 2 * loy <= 20 * k + 10
    BY <1>1, RoundedBounds
  <2>2. k <= p
    <3>1. 20 * k <= 20 * p + 10
      BY <1>1, <2>1
    <3> QED
      BY <2>1, <3>1
  <2> QED
    BY <1>1, <2>1, <2>2 DEF Distance
<1> QED
  BY <1>1, <1>2

Good(b) == b \in Bill7 /\ AddsUp(b) /\ PointsWorth(b)

(* Every bill a checkout arrives at is good, and spends no more points     *)
(* than the balance it found.                                              *)
LEMMA BillsGood ==
    ASSUME NEW o \in Orders, NEW c \in Coupons, NEW b \in Nat, NEW bill \in Bills(o, c, b)
    PROVE  Good(bill) /\ bill.points <= b
<1> DEFINE s == Basket[o]
           d == Discount(s, c)
           rest == Atleast0(100 * s - d)
           p == Lesser(Ask[o], b)
           A == Stored(d, 100)
<1>1. s \in Nat /\ d \in Nat /\ p \in Nat /\ p <= b
  <2>1. s \in Nat /\ Ask[o] \in Nat
    BY AmountsAssumption
  <2> HIDE DEF s
  <2>2. d \in Nat
    BY <2>1, DiscountNat
  <2> QED
    BY <2>1, <2>2 DEF Lesser
<1>4. A \in Nat /\ 200 * A <= 2 * d + 100 /\ 2 * d + 100 < 200 * A + 200
  <2> HIDE DEF d, s, rest, p
  <2>1. d \in Nat
    BY <1>1
  <2> QED
    BY <2>1, DiscountStored
<1>2. PICK loy \in Redeem(p, rest) :
         bill \in IF loy = 0 THEN {Bill(s, c, 0, 0)} ELSE {Bill(s, c, k, loy) : k \in Rounded(loy, 10)}
  BY DEF Bills
<1> HIDE DEF s, d, p, rest, A
<1>3. rest \in Nat /\ rest = IF 100 * s - d > 0 THEN 100 * s - d ELSE 0
  <2>1. 100 * s - d \in Int /\ rest = IF 100 * s - d > 0 THEN 100 * s - d ELSE 0
    BY <1>1 DEF rest, Atleast0
  <2> QED
    BY <2>1
<1>5. /\ loy \in Nat /\ loy <= 10 * p
      /\ rest > 0 => 1000 * loy <= 2 * rest + 500
      /\ \A k \in Rounded(loy, 10) : k \in Nat /\ k <= p /\ Distance(loy, 10 * k) <= 5
  BY <1>1, <1>3, RedeemBounds
<1>6. PICK k \in Nat : bill = Bill(s, c, k, loy) /\ k <= p /\ Distance(loy, 10 * k) <= 5
  <2>1. CASE loy = 0
    <3>1. bill = Bill(s, c, 0, loy) /\ Distance(loy, 10 * 0) <= 5
      BY <1>2, <2>1 DEF Distance
    <3> QED
      BY <1>1, <3>1
  <2>2. CASE loy # 0
    BY <1>2, <1>5, <2>2
  <2> QED
    BY <2>1, <2>2
<1>7. bill \in Bill7 /\ AddsUp(bill)
  BY <1>1, <1>5, <1>6, BillAdds
<1>8. bill.points = k /\ bill.loyalty = loy /\ bill.subtotal = s /\ bill.discount = A
  BY <1>6 DEF Bill, A, d
<1>9. A < s => 5 * loy <= s - A + 5
  BY <1>1, <1>3, <1>4, <1>5
<1>10. PointsWorth(bill)
  BY <1>6, <1>8, <1>9 DEF PointsWorth
<1> QED
  BY <1>1, <1>6, <1>7, <1>8, <1>10 DEF Good

-----------------------------------------------------------------------------
(* The inductive invariant.                                                *)

RowType == [row : {"absent", "live", "deleted"}, status : {"pending", "processing", "cancelled"},
            pay : {"initiated", "success"}, recent : BOOLEAN, no : Nat, bill : Bill7]
JobType == [pc : {"idle", "points", "number", "insert", "commit"}, o : Orders \cup {NoOrder},
            coupon : Coupons, fresh : BOOLEAN, bill : Bill7, no : Nat]

CheckoutType ==
    /\ order \in [Orders -> RowType]
    /\ coupon \in Coupons
    /\ counter \in Nat
    /\ lock \in Workers \cup {NoWorker}
    /\ job \in [Workers -> JobType]
    /\ spent \in [crash : Nat, edits : Nat, desk : Nat]

(* Every checkout works on an order of its own that is not there yet.      *)
OwnOrders ==
    \A w \in Workers : job[w].pc # "idle" =>
        /\ job[w].o \in Orders
        /\ order[job[w].o].row = "absent"
        /\ \A v \in Workers : v # w /\ job[v].pc # "idle" => job[v].o # job[w].o

(* Who is about to commit holds the counter, and the next number.          *)
Holding == \A w \in Workers : job[w].pc = "commit" => lock = w /\ job[w].no = counter + 1

(* The counter is the number of orders ever committed, each with one of    *)
(* the numbers up to it, and no two with the same.                         *)
Counts   == counter = Cardinality(Numbered)
OneOwner ==
    \A o \in Numbered :
        /\ order[o].no \in 1..counter
        /\ \A p \in Numbered : order[p].no = order[o].no => p = o

(* The amounts agree from the moment they are computed.                    *)
GoodBills == (\A o \in Orders : Good(order[o].bill)) /\ (\A w \in Workers : Good(job[w].bill))

(* A true reading of the balance covers the points it was read for.        *)
Covers(b) == b.points > 0 => Paying # {} /\ b.points <= Earned - Used
Covered   == \A w \in Workers : job[w].fresh => Covers(job[w].bill)

CheckoutInv == CheckoutType /\ OwnOrders /\ Holding /\ Counts /\ OneOwner /\ GoodBills /\ Covered

-----------------------------------------------------------------------------
(* Steps that leave the orders alone.                                      *)

(* The points an order earns, as a function of the order.                  *)
Gains == [o \in Orders |-> PointsFor(order[o].bill)]

(* What an order earns is a natural number of points.                      *)
LEMMA PointsInt ==
    ASSUME NEW b \in Bill7
    PROVE  PointsFor(b) \in Nat
<1> DEFINE n == b.subtotal - b.discount - b.loyalty
           m == Atleast0(n)
           low == m \div 100
<1>1. b.subtotal \in Nat /\ b.discount \in Nat /\ b.loyalty \in Nat
  BY DEF Bill7
<1>2. n \in Int
  BY <1>1
<1> HIDE DEF n
<1>3. m \in Nat
  BY <1>2 DEF Atleast0
<1> HIDE DEF m
<1>4. low \in Nat
  BY <1>3
<1>5. PointsFor(b) = low \/ PointsFor(b) = low + 1
  BY DEF PointsFor, m, n
<1> HIDE DEF low
<1> QED
  BY <1>4, <1>5

(* Earned and used points are whole numbers.                               *)
LEMMA BalanceInt ==
    ASSUME CheckoutType
    PROVE  Earned \in Int /\ Used \in Int /\ Balance \in Nat
           /\ (Balance > 0 => Paying # {} /\ Balance = Earned - Used)
<1>1. \A o \in Orders : order[o] \in RowType /\ order[o].bill \in Bill7 /\ order[o].bill.points \in Nat
  BY DEF CheckoutType, RowType, Bill7
<1>2. \A o \in Orders : Gains[o] \in Int /\ Points[o] \in Int
  BY <1>1, PointsInt DEF Gains, Points
<1> DEFINE S == {o \in Paying : order[o].recent}
           T == {o \in Live : order[o].status # "cancelled"}
<1>3. S \subseteq Orders /\ T \subseteq Orders
  BY DEF Paying, Live
<1>4. Earned = SumFunctionOnSet(Gains, S) /\ Used = SumFunctionOnSet(Points, T)
  BY DEF Earned, Used, Gains
<1> HIDE DEF S, T
<1>5. IsFiniteSet(S) /\ IsFiniteSet(T)
  BY <1>3, AmountsAssumption, FS_Subset
<1>6. (\A o \in S : Gains[o] \in Int) /\ (\A o \in T : Points[o] \in Int)
  BY <1>2, <1>3
<1>7. Earned \in Int /\ Used \in Int
  BY <1>4, <1>5, <1>6, SumInt
<1> QED
  BY <1>7 DEF Balance, Atleast0

(* What a step that leaves the orders alone must see to.                   *)
LEMMA JobStep ==
    ASSUME CheckoutInv, NEW w \in Workers,
           order' = order, counter' = counter, coupon' \in Coupons,
           lock' \in Workers \cup {NoWorker}, spent' \in [crash : Nat, edits : Nat, desk : Nat],
           job' \in [Workers -> JobType], \A v \in Workers : v # w => job'[v] = job[v],
           lock' = lock \/ lock = NoWorker \/ lock = w,
           job'[w].pc # "idle" =>
               /\ job'[w].o \in Orders
               /\ order[job'[w].o].row = "absent"
               /\ \A v \in Workers : v # w /\ job[v].pc # "idle" => job[v].o # job'[w].o,
           job'[w].pc = "commit" => lock' = w /\ job'[w].no = counter + 1,
           Good(job'[w].bill), job'[w].fresh => Covers(job'[w].bill)
    PROVE  CheckoutInv'
<1>1. CheckoutType'
  BY DEF CheckoutInv, CheckoutType
<1>2. OwnOrders'
  BY DEF CheckoutInv, OwnOrders
<1>3. Holding'
  BY PartiesAssumption DEF CheckoutInv, Holding
<1>4. Numbered' = Numbered /\ Live' = Live
  BY DEF Numbered, Live
<1>5. Counts' /\ OneOwner'
  BY <1>4 DEF CheckoutInv, Counts, OneOwner
<1>6. GoodBills'
  BY DEF CheckoutInv, GoodBills
<1>7. Paying' = Paying /\ Earned' = Earned /\ Used' = Used
  BY <1>4 DEF Paying, Earned, Used, Points
<1>8. Covered'
  BY <1>7 DEF CheckoutInv, Covered, Covers
<1> QED
  BY <1>1, <1>2, <1>3, <1>5, <1>6, <1>8 DEF CheckoutInv

(* The bill of nothing agrees with itself.                                 *)
LEMMA NothingAgrees == NoBill \in Bill7 /\ Good(NoBill) /\ Covers(NoBill)
<1>1. NoBill \in Bill7 /\ NoBill.points = 0 /\ NoBill.total = 0 /\ NoBill.subtotal = 0
      /\ NoBill.discount = 0 /\ NoBill.loyalty = 0 /\ NoBill.tax = 0 /\ NoBill.shipping = 0
  BY DEF NoBill, Bill7
<1> QED
  BY <1>1 DEF Good, AddsUp, PointsWorth, Covers, Distance, Atleast0

(* A step of a checkout that does not commit.                              *)
LEMMA CheckoutStep ==
    ASSUME CheckoutInv, NEW w \in Workers,
           \/ \E o \in Orders : Begin(w, o)
           \/ Quote(w) \/ LockCounter(w) \/ NoCounter(w) \/ InsertCounter(w) \/ InsertRefused(w) \/ Crash(w)
    PROVE  CheckoutInv'
<1>t. /\ order \in [Orders -> RowType] /\ coupon \in Coupons /\ counter \in Nat
      /\ lock \in Workers \cup {NoWorker} /\ job \in [Workers -> JobType]
      /\ spent \in [crash : Nat, edits : Nat, desk : Nat]
  BY DEF CheckoutInv, CheckoutType
<1>j. /\ job[w] \in JobType
      /\ job[w].pc \in {"idle", "points", "number", "insert", "commit"} /\ job[w].o \in Orders \cup {NoOrder}
      /\ job[w].coupon \in Coupons /\ job[w].fresh \in BOOLEAN /\ job[w].bill \in Bill7 /\ job[w].no \in Nat
  BY <1>t DEF JobType
<1>o. job[w].pc # "idle" =>
          /\ job[w].o \in Orders /\ order[job[w].o].row = "absent"
          /\ \A v \in Workers : v # w /\ job[v].pc # "idle" => job[v].o # job[w].o
  BY DEF CheckoutInv, OwnOrders
<1>g. Good(job[w].bill) /\ (job[w].fresh => Covers(job[w].bill)) /\ (job[w].pc = "commit" => lock = w)
  BY DEF CheckoutInv, GoodBills, Covered, Holding
<1>c. NoCoupon \in Coupons
  BY DEF Coupons
<1>i. Idle \in JobType /\ Idle.pc = "idle" /\ Idle.fresh = FALSE /\ Idle.bill = NoBill
  <2>1. NoBill \in Bill7
    BY NothingAgrees
  <2> QED
    BY <1>c, <2>1 DEF Idle, Job, JobType
<1>n. NoBill \in Bill7 /\ Good(NoBill) /\ Covers(NoBill)
  BY NothingAgrees
<1>1. ASSUME NEW j \in JobType, job' = [job EXCEPT ![w] = j]
      PROVE  /\ job' \in [Workers -> JobType] /\ job'[w] = j
             /\ \A v \in Workers : v # w => job'[v] = job[v]
  BY <1>1, <1>t
<1>2. ASSUME NEW o \in Orders, Begin(w, o) PROVE CheckoutInv'
  <2>1. PICK c \in {NoCoupon, coupon} : job' = [job EXCEPT ![w] = Job("points", o, c, FALSE, NoBill)]
    BY <1>2 DEF Begin
  <2> DEFINE j == Job("points", o, c, FALSE, NoBill)
  <2>2. c \in Coupons
    BY <1>t, <1>c
  <2>3. j \in JobType /\ j.pc = "points" /\ j.o = o /\ j.fresh = FALSE /\ j.bill = NoBill
    BY <1>n, <2>2 DEF Job, JobType
  <2>4. job' = [job EXCEPT ![w] = j]
    BY <2>1
  <2> HIDE DEF j
  <2>5. /\ job' \in [Workers -> JobType] /\ job'[w] = j
        /\ \A v \in Workers : v # w => job'[v] = job[v]
    BY <1>1, <2>3, <2>4
  <2>6. /\ order[o].row = "absent" /\ \A v \in Workers : job[v].o # o
        /\ order' = order /\ coupon' = coupon /\ counter' = counter /\ lock' = lock /\ spent' = spent
    BY <1>2 DEF Begin
  <2> QED
    BY <1>t, <1>n, <2>3, <2>5, <2>6, JobStep
<1>3. ASSUME Quote(w) PROVE CheckoutInv'
  <2> DEFINE b == IF Ask[job[w].o] = 0 THEN 0 ELSE Balance
  <2>1. PICK bill \in Bills(job[w].o, job[w].coupon, b) :
            job' = [job EXCEPT ![w] = Job("number", job[w].o, job[w].coupon, TRUE, bill)]
    BY <1>3 DEF Quote
  <2>2. /\ job[w].pc = "points"
        /\ order' = order /\ coupon' = coupon /\ counter' = counter /\ lock' = lock /\ spent' = spent
    BY <1>3 DEF Quote
  <2>3. /\ Balance \in Nat /\ Earned \in Int /\ Used \in Int
        /\ (Balance > 0 => Paying # {} /\ Balance = Earned - Used)
    BY BalanceInt DEF CheckoutInv
  <2>4. b \in Nat /\ b <= Balance
    BY <2>3
  <2> HIDE DEF b
  <2>5. Good(bill) /\ bill.points <= b
    BY <1>j, <1>o, <2>2, <2>4, BillsGood
  <2>6. bill \in Bill7 /\ bill.points \in Nat
    BY <2>5 DEF Good, Bill7
  <2>7. Covers(bill)
    BY <2>3, <2>4, <2>5, <2>6 DEF Covers
  <2> DEFINE j == Job("number", job[w].o, job[w].coupon, TRUE, bill)
  <2>8. j \in JobType /\ j.pc = "number" /\ j.o = job[w].o /\ j.bill = bill
    BY <1>j, <2>6 DEF Job, JobType
  <2>9. job' = [job EXCEPT ![w] = j]
    BY <2>1
  <2> HIDE DEF j
  <2>10. /\ job' \in [Workers -> JobType] /\ job'[w] = j
         /\ \A v \in Workers : v # w => job'[v] = job[v]
    BY <1>1, <2>8, <2>9
  <2> QED
    BY <1>t, <1>o, <2>2, <2>5, <2>7, <2>8, <2>10, JobStep
<1>4. ASSUME LockCounter(w) \/ InsertCounter(w) PROVE CheckoutInv'
  <2> DEFINE j == [job[w] EXCEPT !.pc = "commit", !.no = counter + 1]
  <2>1. /\ job[w].pc # "idle" /\ lock = NoWorker /\ lock' = w
        /\ order' = order /\ coupon' = coupon /\ counter' = counter /\ spent' = spent
    BY <1>4 DEF LockCounter, InsertCounter, CounterFree
  <2>2. job' = [job EXCEPT ![w] = j]
    BY <1>4, <1>t DEF LockCounter, InsertCounter
  <2>3. /\ j \in JobType /\ j.pc = "commit" /\ j.no = counter + 1
        /\ j.o = job[w].o /\ j.fresh = job[w].fresh /\ j.bill = job[w].bill
    <3>1. job[w] \in JobType /\ counter + 1 \in Nat
      BY <1>t
    <3> QED
      BY <3>1 DEF JobType
  <2> HIDE DEF j
  <2>4. /\ job' \in [Workers -> JobType] /\ job'[w] = j
        /\ \A v \in Workers : v # w => job'[v] = job[v]
    BY <1>1, <2>2, <2>3
  <2> QED
    BY <1>t, <1>o, <1>g, <2>1, <2>3, <2>4, JobStep
<1>5. ASSUME NoCounter(w) PROVE CheckoutInv'
  <2> DEFINE j == [job[w] EXCEPT !.pc = "insert"]
  <2>1. /\ job[w].pc # "idle" /\ lock' = lock
        /\ order' = order /\ coupon' = coupon /\ counter' = counter /\ spent' = spent
    BY <1>5 DEF NoCounter
  <2>2. job' = [job EXCEPT ![w] = j]
    BY <1>5, <1>t DEF NoCounter
  <2>3. /\ j \in JobType /\ j.pc = "insert"
        /\ j.o = job[w].o /\ j.fresh = job[w].fresh /\ j.bill = job[w].bill
    BY <1>t, <1>j DEF JobType
  <2> HIDE DEF j
  <2>4. /\ job' \in [Workers -> JobType] /\ job'[w] = j
        /\ \A v \in Workers : v # w => job'[v] = job[v]
    BY <1>1, <2>2, <2>3
  <2> QED
    BY <1>t, <1>o, <1>g, <2>1, <2>3, <2>4, JobStep
<1>6. ASSUME InsertRefused(w) \/ Crash(w) PROVE CheckoutInv'
  <2>1. /\ job' = [job EXCEPT ![w] = Idle]
        /\ lock' = lock \/ (lock = w /\ lock' = NoWorker)
        /\ order' = order /\ coupon' = coupon /\ counter' = counter
    BY <1>6 DEF InsertRefused, Crash, Finish
  <2>2. spent' \in [crash : Nat, edits : Nat, desk : Nat]
    BY <1>6, <1>t DEF InsertRefused, Crash, Spend
  <2>3. /\ job' \in [Workers -> JobType] /\ job'[w] = Idle
        /\ \A v \in Workers : v # w => job'[v] = job[v]
    BY <1>1, <1>i, <2>1
  <2> QED
    BY <1>t, <1>i, <1>n, <2>1, <2>2, <2>3, JobStep
<1> QED
  BY <1>2, <1>3, <1>4, <1>5, <1>6

-----------------------------------------------------------------------------
(* Steps that change the orders.                                           *)

(* A checkout whose reading is no longer true.                             *)
LEMMA OvertakenIs ==
    ASSUME job \in [Workers -> JobType]
    PROVE  /\ Overtaken \in [Workers -> JobType]
           /\ \A v \in Workers :
                 /\ Overtaken[v].pc = job[v].pc /\ Overtaken[v].o = job[v].o /\ Overtaken[v].no = job[v].no
                 /\ Overtaken[v].bill = job[v].bill /\ ~ Overtaken[v].fresh
<1>1. ASSUME NEW v \in Workers
      PROVE  /\ Overtaken[v] \in JobType
             /\ Overtaken[v].pc = job[v].pc /\ Overtaken[v].o = job[v].o /\ Overtaken[v].no = job[v].no
             /\ Overtaken[v].bill = job[v].bill /\ ~ Overtaken[v].fresh
  <2>1. Overtaken[v] = [job[v] EXCEPT !.fresh = FALSE] /\ job[v] \in JobType
    BY DEF Overtaken
  <2> QED
    BY <2>1 DEF JobType
<1>2. Overtaken = [v \in Workers |-> Overtaken[v]]
  BY DEF Overtaken
<1> QED
  BY <1>1, <1>2

(* The committed order takes the number after the last one.                *)
LEMMA CommitIs ==
    ASSUME CheckoutInv, NEW w \in Workers, Commit(w), NEW o, o = job[w].o
    PROVE  /\ o \in Orders /\ o \notin Numbered /\ Numbered' = Numbered \cup {o}
           /\ job[w].pc = "commit" /\ lock = w /\ counter' = counter + 1
           /\ order' \in [Orders -> RowType] /\ order'[o] = Row("live", "pending", "initiated", TRUE, counter + 1, job[w].bill)
           /\ \A p \in Orders : p # o => order'[p] = order[p]
           /\ Cardinality(Numbered') = Cardinality(Numbered) + 1
<1>1. /\ job[w].pc = "commit" /\ counter' = job[w].no
      /\ order' = [order EXCEPT ![o] = Row("live", "pending", "initiated", TRUE, job[w].no, job[w].bill)]
  BY DEF Commit
<1>2. /\ order \in [Orders -> RowType] /\ counter \in Nat /\ job[w] \in JobType /\ job[w].bill \in Bill7
  BY DEF CheckoutInv, CheckoutType, JobType
<1>3. lock = w /\ job[w].no = counter + 1 /\ o \in Orders /\ order[o].row = "absent"
  BY <1>1 DEF CheckoutInv, Holding, OwnOrders
<1> DEFINE r == Row("live", "pending", "initiated", TRUE, counter + 1, job[w].bill)
<1>4. r \in RowType /\ r.row = "live"
  BY <1>2 DEF Row, RowType
<1>5. order' = [order EXCEPT ![o] = r]
  BY <1>1, <1>3
<1> HIDE DEF r
<1>6. order' \in [Orders -> RowType] /\ order'[o] = r /\ \A p \in Orders : p # o => order'[p] = order[p]
  BY <1>2, <1>3, <1>4, <1>5
<1>7. o \notin Numbered /\ Numbered' = Numbered \cup {o}
  BY <1>3, <1>4, <1>6 DEF Numbered
<1>8. IsFiniteSet(Numbered)
  BY AmountsAssumption, FS_Subset DEF Numbered
<1>9. Cardinality(Numbered \cup {o}) = Cardinality(Numbered) + 1
  BY <1>7, <1>8, FS_AddElement
<1> QED
  BY <1>1, <1>3, <1>6, <1>7, <1>9 DEF r

(* A commit.                                                               *)
LEMMA CommitStep ==
    ASSUME CheckoutInv, NEW w \in Workers, Commit(w)
    PROVE  CheckoutInv'
<1> DEFINE o == job[w].o
<1> SUFFICES ASSUME NEW p \in Orders, p = o PROVE CheckoutInv'
  BY CommitIs
<1>1. /\ p \notin Numbered /\ Numbered' = Numbered \cup {p}
      /\ job[w].pc = "commit" /\ lock = w /\ counter' = counter + 1
      /\ order' \in [Orders -> RowType]
      /\ order'[p] = Row("live", "pending", "initiated", TRUE, counter + 1, job[w].bill)
      /\ \A q \in Orders : q # p => order'[q] = order[q]
      /\ Cardinality(Numbered') = Cardinality(Numbered) + 1
  BY CommitIs
<1>2. /\ order \in [Orders -> RowType] /\ coupon \in Coupons /\ counter \in Nat /\ job \in [Workers -> JobType]
      /\ spent \in [crash : Nat, edits : Nat, desk : Nat]
  BY DEF CheckoutInv, CheckoutType
<1>3. /\ lock' = NoWorker /\ coupon' = coupon /\ spent' = spent /\ job' = [Overtaken EXCEPT ![w] = Idle]
  BY DEF Commit
<1>4. Idle \in JobType /\ Idle.pc = "idle" /\ Idle.fresh = FALSE /\ Idle.bill = NoBill
  <2>1. NoBill \in Bill7 /\ NoCoupon \in Coupons
    BY NothingAgrees DEF Coupons
  <2> QED
    BY <2>1 DEF Idle, Job, JobType
<1>5. /\ job' \in [Workers -> JobType] /\ job'[w] = Idle
      /\ \A v \in Workers : v # w => job'[v] = Overtaken[v]
  BY <1>2, <1>3, <1>4, OvertakenIs
<1>6. \A v \in Workers : v # w =>
          /\ job'[v].pc = job[v].pc /\ job'[v].o = job[v].o /\ job'[v].no = job[v].no
          /\ job'[v].bill = job[v].bill /\ ~ job'[v].fresh
  BY <1>2, <1>5, OvertakenIs
<1>7. order'[p].no = counter + 1 /\ order'[p].bill = job[w].bill /\ order'[p].row = "live"
  BY <1>1 DEF Row
<1>8. CheckoutType'
  BY <1>1, <1>2, <1>3, <1>5 DEF CheckoutType
<1>9. OwnOrders'
  <2> SUFFICES ASSUME NEW v \in Workers, job'[v].pc # "idle"
               PROVE  /\ job'[v].o \in Orders /\ order'[job'[v].o].row = "absent"
                      /\ \A u \in Workers : u # v /\ job'[u].pc # "idle" => job'[u].o # job'[v].o
    BY DEF OwnOrders
  <2>1. v # w /\ job[v].pc # "idle" /\ job'[v].o = job[v].o
    BY <1>4, <1>5, <1>6
  <2>2. job[v].o \in Orders /\ order[job[v].o].row = "absent" /\ job[w].o # job[v].o
    BY <1>1, <2>1 DEF CheckoutInv, OwnOrders
  <2>3. order'[job[v].o].row = "absent"
    BY <1>1, <2>2
  <2>4. \A u \in Workers : u # v /\ job'[u].pc # "idle" => job'[u].o # job[v].o
    BY <1>4, <1>5, <1>6, <2>1 DEF CheckoutInv, OwnOrders
  <2> QED
    BY <2>1, <2>2, <2>3, <2>4
<1>10. Holding'
  BY <1>1, <1>4, <1>5, <1>6 DEF CheckoutInv, Holding
<1>11. Counts'
  BY <1>1 DEF CheckoutInv, Counts
<1>12. OneOwner'
  <2>1. \A q \in Numbered : order[q].no \in 1..counter
                            /\ \A u \in Numbered : order[u].no = order[q].no => u = q
    BY DEF CheckoutInv, OneOwner
  <2>2. \A q \in Numbered : q # p /\ order'[q] = order[q]
    BY <1>1 DEF Numbered
  <2>3. \A q \in Numbered : order'[q].no \in 1..counter /\ order'[q].no # counter + 1
    BY <1>2, <2>1, <2>2
  <2>4. \A q \in Numbered' : order'[q].no \in 1..counter'
    <3>1. SUFFICES ASSUME NEW q \in Numbered' PROVE order'[q].no \in 1..counter'
      OBVIOUS
    <3>2. CASE q = p
      <4>1. order'[q].no = counter + 1 /\ counter' = counter + 1 /\ counter + 1 \in 1..(counter + 1)
        <5>1. counter + 1 \in 1..(counter + 1)
          BY <1>2
        <5> QED
          BY <1>1, <1>7, <3>2, <5>1
      <4> QED
        BY <4>1
    <3>3. CASE q # p
      <4>1. order'[q].no \in 1..counter
        BY <1>1, <2>3, <3>3
      <4> QED
        BY <1>1, <1>2, <4>1
    <3> QED
      BY <3>2, <3>3
  <2>5. ASSUME NEW q \in Numbered', NEW u \in Numbered', order'[u].no = order'[q].no PROVE u = q
    <3>1. CASE q = p \/ u = p
      BY <1>1, <1>7, <2>3, <2>5, <3>1
    <3>2. CASE q # p /\ u # p
      BY <1>1, <2>1, <2>2, <2>5, <3>2
    <3> QED
      BY <3>1, <3>2
  <2> QED
    BY <2>4, <2>5 DEF OneOwner
<1>13. GoodBills'
  <2>1. (\A q \in Orders : Good(order[q].bill)) /\ (\A v \in Workers : Good(job[v].bill))
    BY DEF CheckoutInv, GoodBills
  <2>2. \A q \in Orders : Good(order'[q].bill)
    BY <1>1, <1>7, <2>1
  <2>3. \A v \in Workers : Good(job'[v].bill)
    BY <1>4, <1>5, <1>6, <2>1, NothingAgrees
  <2> QED
    BY <2>2, <2>3 DEF GoodBills
<1>14. Covered'
  BY <1>4, <1>5, <1>6 DEF Covered
<1> QED
  BY <1>8, <1>9, <1>10, <1>11, <1>12, <1>13, <1>14 DEF CheckoutInv

(* What the desk does keeps numbers and amounts.                           *)
LEMMA DeskIs ==
    ASSUME CheckoutType, NEW o \in Orders,
           Approve(o) \/ Cancel(o) \/ DeleteOrder(o) \/ YearPasses(o)
    PROVE  /\ order[o].row = "live" /\ order'[o].row # "absent"
           /\ order'[o].no = order[o].no /\ order'[o].bill = order[o].bill
           /\ order' \in [Orders -> RowType] /\ \A p \in Orders : p # o => order'[p] = order[p]
           /\ job' = Overtaken /\ UNCHANGED <<coupon, counter, lock>>
           /\ spent' \in [crash : Nat, edits : Nat, desk : Nat]
<1>1. order \in [Orders -> RowType] /\ order[o] \in RowType /\ spent \in [crash : Nat, edits : Nat, desk : Nat]
  BY DEF CheckoutType
<1>2. ASSUME NEW r \in RowType, r.row # "absent", r.no = order[o].no, r.bill = order[o].bill, Desk(o, r)
      PROVE  /\ order[o].row = "live" /\ order'[o].row # "absent"
             /\ order'[o].no = order[o].no /\ order'[o].bill = order[o].bill
             /\ order' \in [Orders -> RowType] /\ \A p \in Orders : p # o => order'[p] = order[p]
             /\ job' = Overtaken /\ UNCHANGED <<coupon, counter, lock>>
             /\ spent' \in [crash : Nat, edits : Nat, desk : Nat]
  <2>1. /\ order[o].row = "live" /\ order' = [order EXCEPT ![o] = r]
        /\ job' = Overtaken /\ UNCHANGED <<coupon, counter, lock>>
        /\ spent' = [spent EXCEPT !["desk"] = @ + 1]
    BY <1>2 DEF Desk, Spend
  <2>2. spent' \in [crash : Nat, edits : Nat, desk : Nat]
    BY <1>1, <2>1
  <2>3. order' \in [Orders -> RowType] /\ order'[o] = r /\ \A p \in Orders : p # o => order'[p] = order[p]
    BY <1>1, <1>2, <2>1
  <2> QED
    BY <1>2, <2>1, <2>2, <2>3
<1>3. CASE Approve(o)
  <2> DEFINE r == [order[o] EXCEPT !.status = "processing", !.pay = "success"]
  <2>1. Desk(o, r) /\ order[o].row = "live"
    BY <1>3 DEF Approve, Desk
  <2>2. r \in RowType /\ r.row = order[o].row /\ r.no = order[o].no /\ r.bill = order[o].bill
    BY <1>1 DEF RowType
  <2> HIDE DEF r
  <2> QED
    BY <1>2, <2>1, <2>2
<1>4. CASE Cancel(o)
  <2> DEFINE r == [order[o] EXCEPT !.status = "cancelled"]
  <2>1. Desk(o, r) /\ order[o].row = "live"
    BY <1>4 DEF Cancel, Desk
  <2>2. r \in RowType /\ r.row = order[o].row /\ r.no = order[o].no /\ r.bill = order[o].bill
    BY <1>1 DEF RowType
  <2> HIDE DEF r
  <2> QED
    BY <1>2, <2>1, <2>2
<1>5. CASE DeleteOrder(o)
  <2> DEFINE r == [order[o] EXCEPT !.row = "deleted"]
  <2>1. Desk(o, r)
    BY <1>5 DEF DeleteOrder
  <2>2. r \in RowType /\ r.row = "deleted" /\ r.no = order[o].no /\ r.bill = order[o].bill
    BY <1>1 DEF RowType
  <2> HIDE DEF r
  <2> QED
    BY <1>2, <2>1, <2>2
<1>6. CASE YearPasses(o)
  <2> DEFINE r == [order[o] EXCEPT !.recent = FALSE]
  <2>1. Desk(o, r) /\ order[o].row = "live"
    BY <1>6 DEF YearPasses, Desk
  <2>2. r \in RowType /\ r.row = order[o].row /\ r.no = order[o].no /\ r.bill = order[o].bill
    BY <1>1 DEF RowType
  <2> HIDE DEF r
  <2> QED
    BY <1>2, <2>1, <2>2
<1> QED
  BY <1>3, <1>4, <1>5, <1>6

(* What the desk does.                                                     *)
LEMMA DeskStep ==
    ASSUME CheckoutInv, NEW o \in Orders,
           Approve(o) \/ Cancel(o) \/ DeleteOrder(o) \/ YearPasses(o)
    PROVE  CheckoutInv'
<1>1. /\ order[o].row = "live" /\ order'[o].row # "absent"
      /\ order'[o].no = order[o].no /\ order'[o].bill = order[o].bill
      /\ order' \in [Orders -> RowType] /\ \A p \in Orders : p # o => order'[p] = order[p]
      /\ job' = Overtaken /\ UNCHANGED <<coupon, counter, lock>>
      /\ spent' \in [crash : Nat, edits : Nat, desk : Nat]
  BY DeskIs DEF CheckoutInv
<1>2. /\ order \in [Orders -> RowType] /\ coupon \in Coupons /\ counter \in Nat /\ job \in [Workers -> JobType]
      /\ lock \in Workers \cup {NoWorker}
  BY DEF CheckoutInv, CheckoutType
<1>3. job' \in [Workers -> JobType]
      /\ \A v \in Workers :
          /\ job'[v].pc = job[v].pc /\ job'[v].o = job[v].o /\ job'[v].no = job[v].no
          /\ job'[v].bill = job[v].bill /\ ~ job'[v].fresh
  BY <1>1, <1>2, OvertakenIs
<1>4. \A p \in Orders : order'[p].no = order[p].no /\ order'[p].bill = order[p].bill
                        /\ (order'[p].row = "absent" <=> order[p].row = "absent")
  BY <1>1
<1>5. Numbered' = Numbered
  BY <1>4 DEF Numbered
<1>6. \A p \in Numbered : order'[p].no = order[p].no
  BY <1>4 DEF Numbered
<1>7. CheckoutType'
  BY <1>1, <1>2, <1>3 DEF CheckoutType
<1>8. OwnOrders'
  BY <1>3, <1>4 DEF CheckoutInv, OwnOrders
<1>9. Holding'
  BY <1>1, <1>3 DEF CheckoutInv, Holding
<1>10. Counts' /\ OneOwner'
  BY <1>1, <1>5, <1>6 DEF CheckoutInv, Counts, OneOwner
<1>11. GoodBills'
  BY <1>3, <1>4 DEF CheckoutInv, GoodBills
<1>12. Covered'
  BY <1>3 DEF Covered
<1> QED
  BY <1>7, <1>8, <1>9, <1>10, <1>11, <1>12 DEF CheckoutInv

(* A saved coupon, and no step at all.                                     *)
LEMMA CouponStep ==
    ASSUME CheckoutInv, SaveCoupon \/ UNCHANGED vars
    PROVE  CheckoutInv'
<1>1. UNCHANGED <<order, counter, lock, job>>
  BY DEF SaveCoupon, vars
<1>2. CheckoutType'
  <2>1. coupon' \in Coupons
    BY CouponsSaved DEF SaveCoupon, vars, CheckoutInv, CheckoutType
  <2>2. spent' \in [crash : Nat, edits : Nat, desk : Nat]
    BY DEF SaveCoupon, Spend, vars, CheckoutInv, CheckoutType
  <2> QED
    BY <1>1, <2>1, <2>2 DEF CheckoutInv, CheckoutType
<1>3. Numbered' = Numbered /\ Paying' = Paying /\ Earned' = Earned /\ Used' = Used
  BY <1>1 DEF Numbered, Paying, Live, Earned, Used, Points
<1> QED
  BY <1>1, <1>2, <1>3 DEF CheckoutInv, OwnOrders, Holding, Counts, OneOwner, GoodBills, Covered, Covers

(* Nothing is numbered, bought or spent at first.                          *)
LEMMA CheckoutInit == Init => CheckoutInv
<1> SUFFICES ASSUME Init PROVE CheckoutInv
  OBVIOUS
<1>1. NoBill \in Bill7 /\ Good(NoBill) /\ NoCoupon \in Coupons
  BY NothingAgrees DEF Coupons
<1>2. Idle \in JobType /\ Idle.pc = "idle" /\ Idle.fresh = FALSE /\ Idle.bill = NoBill
  BY <1>1 DEF Idle, Job, JobType
<1>3. NoRow \in RowType /\ NoRow.row = "absent" /\ NoRow.bill = NoBill
  BY <1>1 DEF NoRow, Row, RowType
<1>4. /\ \A o \in Orders : order[o] = NoRow
      /\ \A w \in Workers : job[w] = Idle
  BY DEF Init
<1>5. CheckoutType
  BY <1>1, <1>2, <1>3 DEF Init, CheckoutType
<1>6. Numbered = {} /\ counter = 0
  BY <1>3, <1>4 DEF Numbered, Init
<1>7. Counts /\ OneOwner
  BY <1>6, FS_EmptySet DEF Counts, OneOwner
<1>8. GoodBills /\ OwnOrders /\ Holding /\ Covered
  BY <1>1, <1>2, <1>3, <1>4 DEF GoodBills, OwnOrders, Holding, Covered
<1> QED
  BY <1>5, <1>7, <1>8 DEF CheckoutInv

(* Every step.                                                             *)
LEMMA CheckoutNext == CheckoutInv /\ [Next]_vars => CheckoutInv'
<1> SUFFICES ASSUME CheckoutInv, [Next]_vars PROVE CheckoutInv'
  OBVIOUS
<1>1. ASSUME NEW w \in Workers, NEW o \in Orders, Begin(w, o) PROVE CheckoutInv'
  BY <1>1, CheckoutStep
<1>2. ASSUME NEW w \in Workers,
             \/ Quote(w) \/ LockCounter(w) \/ NoCounter(w) \/ InsertCounter(w) \/ InsertRefused(w) \/ Crash(w)
      PROVE  CheckoutInv'
  BY <1>2, CheckoutStep
<1>3. ASSUME NEW w \in Workers, Commit(w) PROVE CheckoutInv'
  BY <1>3, CommitStep
<1>4. ASSUME NEW o \in Orders, Approve(o) \/ Cancel(o) \/ DeleteOrder(o) \/ YearPasses(o) PROVE CheckoutInv'
  BY <1>4, DeskStep
<1>5. CASE SaveCoupon \/ UNCHANGED vars
  BY <1>5, CouponStep
<1> QED
  BY <1>1, <1>2, <1>3, <1>4, <1>5 DEF Next

(* CheckoutInv holds for ever.                                             *)
THEOREM CheckoutHolds == Spec => []CheckoutInv
BY CheckoutInit, CheckoutNext, PTL DEF Spec

(* Whatever coupon, points and settings an order is made with, its amounts *)
(* agree with one another.                                                 *)
THEOREM AmountsAgree == Spec => []BillHolds
<1>1. CheckoutInv => BillHolds
  BY DEF CheckoutInv, GoodBills, Good, BillHolds, Numbered
<1> QED
  BY <1>1, CheckoutHolds, PTL

-----------------------------------------------------------------------------
(* Order numbers.                                                          *)

Issued == [n \in 1..Cardinality(Numbered) |-> HolderOf(n)]

(* The order that owns a number holds it.                                  *)
LEMMA HolderIs ==
    ASSUME OneOwner, NEW o \in Numbered, NEW n, order[o].no = n
    PROVE  HolderOf(n) = o
<1> DEFINE h == CHOOSE p \in Numbered : order[p].no = n
<1>1. h \in Numbered /\ order[h].no = n
  OBVIOUS
<1>2. h = o
  BY <1>1 DEF OneOwner
<1> QED
  BY <1>2 DEF HolderOf

(* It does after a step, too.                                              *)
LEMMA HolderIsNext ==
    ASSUME OneOwner', NEW o \in Numbered', NEW n, order'[o].no = n
    PROVE  HolderOf(n)' = o
<1> DEFINE h == CHOOSE p \in Numbered' : order'[p].no = n
<1>1. h \in Numbered' /\ order'[h].no = n
  OBVIOUS
<1>2. h = o
  BY <1>1 DEF OneOwner
<1> QED
  BY <1>2 DEF HolderOf

(* A number that nobody owns has no holder.                                *)
LEMMA NoHolder ==
    ASSUME NEW n
    PROVE  /\ (\A o \in Numbered : order[o].no # n) => HolderOf(n) = NoOrder
           /\ (\A o \in Numbered' : order'[o].no # n) => HolderOf(n)' = NoOrder
BY DEF HolderOf

(* A number keeps its holder.                                              *)
LEMMA HolderKept ==
    ASSUME OneOwner, OneOwner', NEW n,
           \A o \in Numbered : o \in Numbered' /\ order'[o].no = order[o].no,
           \A o \in Numbered' : o \in Numbered \/ order'[o].no # n
    PROVE  HolderOf(n)' = HolderOf(n)
<1>1. CASE \E o \in Numbered : order[o].no = n
  <2>1. PICK o \in Numbered : order[o].no = n
    BY <1>1
  <2>2. o \in Numbered' /\ order'[o].no = n
    BY <2>1
  <2>3. HolderOf(n) = o /\ HolderOf(n)' = o
    BY <2>1, <2>2, HolderIs, HolderIsNext
  <2> QED
    BY <2>3
<1>2. CASE \A o \in Numbered : order[o].no # n
  <2>1. \A o \in Numbered' : order'[o].no # n
    BY <1>2
  <2> QED
    BY <1>2, <2>1, NoHolder
<1> QED
  BY <1>1, <1>2

(* Who holds the numbers up to the counter, after the step of a call that  *)
(* commits no order.                                                       *)
LEMMA IssuedKept ==
    ASSUME CheckoutInv, CheckoutInv', Numbered' = Numbered,
           \A o \in Numbered : order'[o].no = order[o].no
    PROVE  Issued' = Issued
<1>1. \A n \in 1..Cardinality(Numbered) : HolderOf(n)' = HolderOf(n)
  BY HolderKept DEF CheckoutInv
<1> QED
  BY <1>1 DEF Issued

(* A commit appends its order to the register.                             *)
LEMMA CommitIssues ==
    ASSUME CheckoutInv, CheckoutInv', NEW w \in Workers, Commit(w)
    PROVE  \E h \in Orders : /\ \A n \in DOMAIN Issued : Issued[n] # h
                             /\ Issued' = Append(Issued, h)
<1> SUFFICES ASSUME NEW p \in Orders, p = job[w].o, NEW c, c = Cardinality(Numbered)
             PROVE  (\A n \in DOMAIN Issued : Issued[n] # p) /\ Issued' = Append(Issued, p)
  BY CommitIs
<1>1. /\ p \notin Numbered /\ Numbered' = Numbered \cup {p}
      /\ order'[p].no = counter + 1 /\ \A q \in Orders : q # p => order'[q] = order[q]
      /\ Cardinality(Numbered') = c + 1
  <2>1. order'[p] = Row("live", "pending", "initiated", TRUE, counter + 1, job[w].bill)
    BY CommitIs
  <2>2. order'[p].no = counter + 1
    BY <2>1 DEF Row
  <2> QED
    BY <2>2, CommitIs
<1>2. counter = c /\ c \in Nat
  BY DEF CheckoutInv, Counts, CheckoutType
<1>3. OneOwner /\ OneOwner'
  BY DEF CheckoutInv
<1>4. ASSUME NEW n \in 1..c PROVE HolderOf(n) # p /\ HolderOf(n)' = HolderOf(n)
  <2>1. HolderOf(n) \in Numbered \/ HolderOf(n) = NoOrder
    BY DEF HolderOf
  <2>2. HolderOf(n) # p
    BY <1>1, <2>1, PartiesAssumption
  <2>3. \A o \in Numbered : o \in Numbered' /\ order'[o].no = order[o].no
    BY <1>1 DEF Numbered
  <2>4. \A o \in Numbered' : o \in Numbered \/ order'[o].no # n
    BY <1>1, <1>2, <1>4
  <2> QED
    BY <1>3, <2>2, <2>3, <2>4, HolderKept
<1>5. HolderOf(c + 1)' = p
  BY <1>1, <1>2, <1>3, HolderIsNext
<1>6. Issued = [n \in 1..c |-> HolderOf(n)] /\ Issued' = [n \in 1..(c + 1) |-> HolderOf(n)']
  BY <1>1 DEF Issued
<1>7. Len(Issued) = c /\ DOMAIN Issued = 1..c /\ \A n \in 1..c : Issued[n] = HolderOf(n)
  BY <1>2, <1>6
<1>8. Append(Issued, p) = [n \in 1..(c + 1) |-> IF n = c + 1 THEN p ELSE Issued[n]]
  <2>1. Issued \in Seq(Orders \cup {NoOrder})
    <3>1. \A n \in 1..c : HolderOf(n) \in Orders \cup {NoOrder}
      BY DEF HolderOf, Numbered
    <3> QED
      BY <1>2, <1>6, <3>1
  <2> QED
    BY <1>7, <2>1
<1>9. \A n \in 1..(c + 1) : HolderOf(n)' = IF n = c + 1 THEN p ELSE Issued[n]
  <2> SUFFICES ASSUME NEW n \in 1..(c + 1) PROVE HolderOf(n)' = IF n = c + 1 THEN p ELSE Issued[n]
    OBVIOUS
  <2>1. CASE n = c + 1
    BY <1>5, <2>1
  <2>2. CASE n # c + 1
    <3>1. n \in 1..c
      BY <1>2, <2>2
    <3> QED
      BY <1>4, <1>7, <2>2, <3>1
  <2> QED
    BY <2>1, <2>2
<1>10. Issued' = Append(Issued, p)
  BY <1>6, <1>8, <1>9
<1> QED
  BY <1>4, <1>7, <1>10

(* Order numbers implement a register, for every interleaving of           *)
(* checkouts, crash, cancellation and deletion.                            *)
THEOREM NumbersAreRegister == Spec => ImplementsRegister
<1>1. CheckoutInv /\ CheckoutInv' /\ [Next]_vars => [\E h \in Orders : R!Issue(h)]_Issued
  <2> SUFFICES ASSUME CheckoutInv, CheckoutInv', [Next]_vars
               PROVE  Issued' = Issued \/ \E h \in Orders : R!Issue(h)
    OBVIOUS
  <2>1. CASE UNCHANGED <<order>>
    <3>1. Numbered' = Numbered /\ \A o \in Numbered : order'[o].no = order[o].no
      BY <2>1 DEF Numbered
    <3> QED
      BY <3>1, IssuedKept
  <2>2. ASSUME NEW w \in Workers, Commit(w) PROVE \E h \in Orders : R!Issue(h)
    <3>1. PICK h \in Orders : (\A n \in DOMAIN Issued : Issued[n] # h) /\ Issued' = Append(Issued, h)
      BY <2>2, CommitIssues
    <3> QED
      BY <3>1 DEF R!Issue, R!ToSet, Issued
  <2>3. ASSUME NEW o \in Orders, Approve(o) \/ Cancel(o) \/ DeleteOrder(o) \/ YearPasses(o)
        PROVE  Issued' = Issued
    <3>1. /\ order[o].row = "live" /\ order'[o].row # "absent" /\ order'[o].no = order[o].no
          /\ \A p \in Orders : p # o => order'[p] = order[p]
      BY <2>3, DeskIs DEF CheckoutInv
    <3>2. Numbered' = Numbered /\ \A p \in Numbered : order'[p].no = order[p].no
      BY <3>1 DEF Numbered
    <3> QED
      BY <3>2, IssuedKept
  <2>4. ASSUME NEW w \in Workers,
               \/ \E o \in Orders : Begin(w, o)
               \/ Quote(w) \/ LockCounter(w) \/ NoCounter(w) \/ InsertCounter(w) \/ InsertRefused(w) \/ Crash(w)
        PROVE  UNCHANGED <<order>>
    BY <2>4 DEF Begin, Quote, LockCounter, NoCounter, InsertCounter, InsertRefused, Crash
  <2>5. SaveCoupon \/ UNCHANGED vars => UNCHANGED <<order>>
    BY DEF SaveCoupon, vars
  <2> QED
    BY <2>1, <2>2, <2>3, <2>4, <2>5 DEF Next
<1>2. Init => Issued = <<>>
  <2>1. Init => Numbered = {}
    BY DEF Init, Numbered, NoRow, Row
  <2> QED
    BY <2>1, FS_EmptySet DEF Issued
<1> QED
  BY <1>1, <1>2, CheckoutHolds, PTL DEF Spec, ImplementsRegister, R!RSpec, R!RInit, Issued

-----------------------------------------------------------------------------
(* Points.                                                                 *)

(* Points that were read right are covered when the order commits.         *)
LEMMA CommitCovers ==
    ASSUME CheckoutInv, CheckoutInv', NEW w \in Workers, Commit(w), job[w].fresh, job[w].bill.points > 0
    PROVE  Earned' >= Used'
<1> SUFFICES ASSUME NEW p \in Orders, p = job[w].o PROVE Earned' >= Used'
  BY CommitIs
<1>1. /\ p \notin Numbered
      /\ order'[p] = Row("live", "pending", "initiated", TRUE, counter + 1, job[w].bill)
      /\ \A q \in Orders : q # p => order'[q] = order[q]
  BY CommitIs
<1>2. order'[p].row = "live" /\ order'[p].status = "pending" /\ order'[p].pay = "initiated" /\ order'[p].bill = job[w].bill
  BY <1>1 DEF Row
<1>3. order[p].row = "absent"
  BY <1>1 DEF Numbered
<1>4. Earned \in Int /\ Used \in Int
  BY BalanceInt DEF CheckoutInv
<1>5. job[w].bill.points <= Earned - Used
  BY DEF CheckoutInv, Covered, Covers
<1>6. \A o \in Orders : order[o].bill \in Bill7 /\ order[o].bill.points \in Int /\ order'[o].bill.points \in Int
  <2>1. order \in [Orders -> RowType] /\ order' \in [Orders -> RowType]
    BY DEF CheckoutInv, CheckoutType
  <2> QED
    BY <2>1 DEF RowType, Bill7
<1> DEFINE S == {o \in Paying : order[o].recent}
           T == {o \in Live : order[o].status # "cancelled"}
           U == {o \in Live' : order'[o].status # "cancelled"}
           f == Points
           g == Points'
           x == job[w].bill.points
<1>7. Earned' = Earned
  <2>1. {o \in Paying' : order'[o].recent} = S
    BY <1>1, <1>2, <1>3 DEF Paying, Live
  <2>2. Earned' = SumFunctionOnSet(Gains', S) /\ Earned = SumFunctionOnSet(Gains, S)
    BY <2>1 DEF Earned, Gains
  <2>3. \A o \in S : Gains[o] = (Gains')[o]
    BY <1>1, <1>3 DEF Gains, Paying, Live
  <2>4. IsFiniteSet(S)
    BY AmountsAssumption, FS_Subset DEF Paying, Live
  <2> HIDE DEF S
  <2> DEFINE a == Gains
             b == Gains'
  <2> HIDE DEF a, b
  <2>5. SumFunctionOnSet(a, S) = SumFunctionOnSet(b, S)
    BY <2>3, <2>4, SumSame DEF a, b
  <2> QED
    BY <2>2, <2>5 DEF a, b
<1>8. Used = SumFunctionOnSet(f, T) /\ Used' = SumFunctionOnSet(g, U)
  BY DEF Used
<1>9. U = T \cup {p} /\ p \notin T /\ T \subseteq Orders
  BY <1>1, <1>2, <1>3 DEF Live
<1>10. (\A o \in Orders : g[o] \in Int) /\ (\A o \in T : f[o] = g[o]) /\ g[p] = x
  <2>1. \A o \in Orders : g[o] = order'[o].bill.points /\ f[o] = order[o].bill.points
    BY DEF Points
  <2>2. g[p] = x
    BY <1>2, <2>1
  <2>3. \A o \in Orders : g[o] \in Int
    BY <1>6, <2>1
  <2>4. \A o \in T : o \in Orders /\ o # p
    BY <1>9
  <2>5. \A o \in Orders : o # p => f[o] = g[o]
    BY <1>1, <2>1
  <2> HIDE DEF f, g, T
  <2> QED
    BY <2>2, <2>3, <2>4, <2>5
<1>11. IsFiniteSet(T) /\ IsFiniteSet(U) /\ U \ {p} = T
  <2>1. U \subseteq Orders
    BY <1>9
  <2> HIDE DEF T, U
  <2> QED
    BY <1>9, <2>1, AmountsAssumption, FS_Subset
<1> HIDE DEF f, g, T, U
<1>12. SumFunctionOnSet(g, U) = g[p] + SumFunctionOnSet(g, T)
  <2>1. \A o \in U : g[o] \in Int
    BY <1>9, <1>10
  <2> QED
    BY <1>9, <1>11, <2>1, SumRemove
<1>13. SumFunctionOnSet(f, T) = SumFunctionOnSet(g, T)
  BY <1>10, <1>11, SumSame
<1>14. x \in Int
  BY <1>10
<1> HIDE DEF x
<1> QED
  BY <1>4, <1>5, <1>7, <1>8, <1>10, <1>12, <1>13, <1>14 DEF x

(* A checkout whose reading of the balance is still true never spends      *)
(* points the customer does not have.                                      *)
THEOREM PointsAreCovered == Spec => PointsCovered
<1>1. CheckoutInv /\ CheckoutInv' /\ [Next]_vars =>
          [\A w \in Workers :
              Commit(w) /\ job[w].fresh /\ job[w].bill.points > 0 => Earned' >= Used']_vars
  BY CommitCovers
<1> QED
  BY <1>1, CheckoutHolds, PTL DEF Spec, PointsCovered
=============================================================================
