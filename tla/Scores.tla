------------------------------- MODULE Scores -------------------------------
(***************************************************************************)
(* Pure computations: tax numbers (services/gib.py), customers             *)
(* (services/segmentation.py), stock (services/forecasting.py), risk       *)
(* (services/risk.py) and delivery fees (services/shipping.py).  A         *)
(* behaviour is one input.  Where the code divides, both sides are         *)
(* multiplied; amounts are whole units.                                    *)
(***************************************************************************)
EXTENDS Integers, Sequences, FiniteSets, Functions

CONSTANTS
    Fill,          \* digits around the one in question
    MaxCustomers,  \* bound: customers that are compared
    MaxProducts,   \* bound: products that are compared
    Revenues,      \* what products bring in
    Spread         \* values of the other inputs

ASSUME ScoresAssumption ==
    /\ Fill \subseteq 0..9
    /\ MaxCustomers \in Nat \ {0} /\ MaxProducts \in Nat \ {0}
    /\ Revenues \subseteq Nat /\ Spread \subseteq Nat

VARIABLE sample      \* the input

Seqs(S, n) == UNION {[1..k -> S] : k \in 1..n}

(* Customers by the days since their first and their last order.           *)
Ages  == {0, 90, 91, 180, 181, 270, 365, 455, 456}
Buyers == {c \in [kind : {"life"}, first : Ages, last : Ages, orders : 1..3, money : Spread] :
              c.last <= c.first /\ (c.orders = 1 => c.first = c.last)}

ScoresInit ==
    sample \in
        [kind : {"tax"}, length : {10, 11}, at : 1..9, digit : 0..9, rest : Fill]
        \cup [kind : {"customers"}, value : Seqs(1..4, MaxCustomers)]
        \cup [kind : {"segment"}, r : 1..5, f : 1..5, m : 1..5]
        \cup Buyers
        \cup [kind : {"products"}, revenue : Seqs(Revenues, MaxProducts)]
        \cup [kind : {"shelf"}, stock : Spread, velocity : Spread, safety : Spread, lead : {1, 7}]
        \cup [kind : {"order"}, recent : 0..3, failed : 0..2, total : Spread, average : Spread,
              trash : BOOLEAN, dear : 0..3, qty : {1, 4, 5}]
        \cup [kind : {"parcel"}, subtotal : Spread, threshold : Spread, base : Spread, heavy : 0..2]

ScoresSpec == ScoresInit /\ [][FALSE]_sample

-----------------------------------------------------------------------------
(* Tax numbers: a number is the sequence of its digits.                    *)

ValidTckn(d) ==
    LET odd  == SumFunctionOnSet(d, {1, 3, 5, 7, 9})
        even == SumFunctionOnSet(d, {2, 4, 6, 8})
    IN  /\ d[1] # 0
        /\ (odd * 7 - even) % 10 = d[10]
        /\ SumFunctionOnSet(d, 1..10) % 10 = d[11]

Weighed(v, i) ==
    LET shifted == (v + 10 - i) % 10  power == (shifted * 2 ^ (10 - i)) % 9
    IN  IF shifted # 0 /\ power = 0 THEN 9 ELSE power

ValidVkn(d) == (10 - (SumFunctionOnSet([i \in 1..9 |-> Weighed(d[i], i)], 1..9) % 10)) % 10 = d[10]

Classify(d) ==
    IF Len(d) = 11 /\ ValidTckn(d) THEN "tckn" ELSE IF Len(d) = 10 /\ ValidVkn(d) THEN "vkn" ELSE "invalid"

-----------------------------------------------------------------------------
(* Customers.                                                              *)

(* The score of a place among n: by fifths.                                *)
Fifth(pos, n) == CHOOSE s \in 1..5 : (5 * pos <= s * n \/ s = 5) /\ (s = 1 \/ 5 * pos > (s - 1) * n)

Quintile(values, i, reverse) ==
    LET n == Len(values)  pos == Cardinality({k \in 1..n : values[k] <= values[i]})
    IN  Fifth(IF reverse THEN n - pos ELSE pos, n)

(* fm: f and m together.                                                   *)
Segment(r, f, m) ==
    LET fm == f + m IN
    CASE r >= 4 /\ fm >= 8            -> "Champions"
      [] r = 3 /\ fm >= 8             -> "Loyal"
      [] r >= 4 /\ fm <= 4            -> "New / Promising"
      [] r >= 3 /\ f <= 2 /\ m >= 4   -> "Big Spender"
      [] r <= 2 /\ fm >= 6            -> "At Risk"
      [] r <= 2 /\ fm <= 4            -> "Hibernating"
      [] r = 1 /\ fm = 5              -> "Lost"
      [] OTHER                        -> "Needs Attention"

(* From the first order to the last, a day at least.                       *)
Span(c) == IF c.first = c.last THEN 1 ELSE c.first - c.last

Lifetime(c) ==
    IF c.last <= 90 /\ c.orders * 365 >= 3 * Span(c) THEN 3 ELSE IF c.last <= 180 THEN 2 ELSE 1

(* customer_clv, times the span.                                           *)
Value(c) == c.money * 365 * Lifetime(c)

-----------------------------------------------------------------------------
(* Stock.                                                                  *)

(* Products by revenue; those before i, and i.                             *)
UpTo(revenue, i) ==
    {k \in DOMAIN revenue : revenue[k] > revenue[i] \/ (revenue[k] = revenue[i] /\ k <= i)}
Total(revenue, S) == SumFunctionOnSet(revenue, S)

(* Faulty variant of Class: a product's own revenue is not counted in.     *)
ClassBefore(revenue, i) ==
    LET share == 100 * Total(revenue, UpTo(revenue, i) \ {i})  all == Total(revenue, DOMAIN revenue)
    IN  IF share <= 80 * all THEN "A" ELSE IF share <= 95 * all THEN "B" ELSE "C"

Class(revenue, i) ==
    LET share == 100 * Total(revenue, UpTo(revenue, i))  all == Total(revenue, DOMAIN revenue)
    IN  IF share <= 80 * all THEN "A" ELSE IF share <= 95 * all THEN "B" ELSE "C"

(* stock_forecast; velocity and safety stock in tenths.                    *)
ReorderPoint(p) == p.velocity * p.lead + p.safety
BelowPoint(p)   == 10 * p.stock < ReorderPoint(p)
Suggested(p)    ==
    IF BelowPoint(p) THEN (ReorderPoint(p) - 10 * p.stock + p.velocity * p.lead + 9) \div 10 ELSE 0

-----------------------------------------------------------------------------
(* Orders.                                                                 *)

Risk(o) ==
    LET points(cond, n) == IF cond THEN n ELSE 0
    IN    points(o.recent >= 3, 25) + points(o.failed >= 2, 15)
        + points(o.average > 0 /\ o.total >= 5 * o.average, 15)
        + points(o.trash, 5) + points(o.dear >= 3, 10) + points(o.qty >= 5, 5)

Level(o) == IF Risk(o) >= 70 THEN 2 ELSE IF Risk(o) >= 40 THEN 1 ELSE 0

IsFree(q)    == q.subtotal >= q.threshold /\ q.subtotal > 0
Fee(q)       == IF IsFree(q) THEN 0 ELSE q.base + 25 * q.heavy
Remaining(q) == IF q.subtotal >= q.threshold THEN 0 ELSE q.threshold - q.subtotal

-----------------------------------------------------------------------------
(* Properties.                                                             *)

Prefix(s) == [i \in 1..9 |-> IF i = s.at THEN s.digit ELSE s.rest]

(* Of a tax number that is accepted, no other is one digit away.           *)
WrongDigitFound ==
    sample.kind = "tax" =>
        \A check \in [1..(sample.length - 9) -> 0..9] :
            LET d == Prefix(sample) \o check IN
            Classify(d) # "invalid" =>
                \A i \in DOMAIN d, x \in 0..9 : x # d[i] => Classify([d EXCEPT ![i] = x]) = "invalid"

FairQuintiles ==
    sample.kind = "customers" =>
        \A i, k \in DOMAIN sample.value :
            sample.value[i] <= sample.value[k] =>
                /\ Quintile(sample.value, i, FALSE) <= Quintile(sample.value, k, FALSE)
                /\ Quintile(sample.value, i, TRUE) >= Quintile(sample.value, k, TRUE)

FairSegments ==
    sample.kind = "segment" =>
        \A r \in sample.r .. 5, f \in sample.f .. 5, m \in sample.m .. 5 :
            /\ Segment(sample.r, sample.f, sample.m) = "Champions" => Segment(r, f, m) = "Champions"
            /\ Segment(sample.r, sample.f, sample.m) = "Loyal" => Segment(r, f, m) \in {"Loyal", "Champions"}

(* A longer span divides the same money by more days, so a further order   *)
(* can lower the value; customers of one span can be compared.             *)
FairValues ==
    sample.kind = "life" =>
        \A c \in Buyers :
            Span(c) = Span(sample) /\ c.last <= sample.last /\ c.orders >= sample.orders
                /\ c.money >= sample.money => Value(c) >= Value(sample)

FairClasses ==
    sample.kind = "products" =>
        LET rev == sample.revenue
            in(classes) == Total(rev, {i \in DOMAIN rev : Class(rev, i) \in classes})
            all == Total(rev, DOMAIN rev)
        IN  /\ 100 * in({"A"}) <= 80 * all /\ 100 * in({"A", "B"}) <= 95 * all
            /\ \A i, k \in DOMAIN rev : rev[i] > rev[k] =>
                   (Class(rev, k) = "A" => Class(rev, i) = "A") /\ (Class(rev, i) = "C" => Class(rev, k) = "C")

(* What is ordered lasts for a second delivery time.                       *)
FairReorders ==
    sample.kind = "shelf" /\ BelowPoint(sample) =>
        /\ Suggested(sample) > 0
        /\ 10 * (sample.stock + Suggested(sample)) >= ReorderPoint(sample) + sample.velocity * sample.lead

FairRisks ==
    sample.kind = "order" =>
        \A total \in Spread, qty \in {1, 4, 5}, recent \in 0..3 :
            total >= sample.total /\ qty >= sample.qty /\ recent >= sample.recent =>
                Level([sample EXCEPT !.total = total, !.qty = qty, !.recent = recent]) >= Level(sample)

FairFees ==
    sample.kind = "parcel" =>
        /\ sample.subtotal > 0 => (IsFree(sample) <=> Remaining(sample) = 0)
        /\ \A more \in Spread : more >= sample.subtotal => Fee([sample EXCEPT !.subtotal = more]) <= Fee(sample)

(* Who orders more recently, more often or for more is in no lower fifth   *)
(* for it; a Champion or Loyal customer who gains in a score remains one   *)
(* of the two; of two customers whose orders span the same days, the one   *)
(* who ordered later, no less often and for no less is worth no less; a    *)
(* product that sells better is in no worse class, and classes A and A,B   *)
(* stay within 80 and 95 % of what is sold; what is reordered is enough; a *)
(* more suspicious order is at no lower risk level, and a fuller cart pays *)
(* no higher fee (segmentation.py, forecasting.py, risk.py, shipping.py);  *)
(* a tax number with one digit mistyped is refused (gib.py:56-112).        *)
FairScores ==
    /\ WrongDigitFound
    /\ FairQuintiles /\ FairSegments /\ FairValues
    /\ FairClasses /\ FairReorders
    /\ FairRisks /\ FairFees
=============================================================================
