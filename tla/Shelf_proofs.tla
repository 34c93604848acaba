---------------------------- MODULE Shelf_proofs ----------------------------
(***************************************************************************)
(* Proofs about Shelf, for any orders, forms, files, quotes, price rules,  *)
(* return requests, customers and any number of overlapping calls: stock   *)
(* and ledger agree until a call writes a stock over a newer one, prices   *)
(* settle, a request is decided by the first call only, and whoever waits  *)
(* is mailed once unless rounds overlap or die.                            *)
(***************************************************************************)
EXTENDS Shelf, Totals, FiniteSetTheorems, TLAPS

-----------------------------------------------------------------------------
(* The ledger and the types.                                               *)

(* What movements, calls and rows may say.                                 *)
Decisions == {"approved"} \cup Terminal
Statuses == {"absent", "requested"} \cup Decisions
Kinds == {"none", "manual", "import", "dropship-sync", "price"} \cup Decisions
Whys == {"init", "dropship-import", "sale", "cancel", "return"} \cup Kinds
Moves == [o : Orders \cup {"none"}, why : Whys, delta : Int]

(* A movement moves a whole number of units.                               *)
LEMMA DeltaInt ==
  ASSUME NEW m \in Seq(Moves)
  PROVE  Len(m) \in Nat /\ DOMAIN m = 1..Len(m) /\ \A i \in DOMAIN m : m[i] \in Moves /\ m[i].delta \in Int
<1>1. Len(m) \in Nat /\ DOMAIN m = 1..Len(m) /\ \A i \in DOMAIN m : m[i] \in Moves
  OBVIOUS
<1>2. \A x \in Moves : x.delta \in Int
  BY DEF Moves
<1> QED
  BY <1>1, <1>2

(* The sum of the movements is a whole number.                             *)
LEMMA TotalInt ==
  ASSUME NEW m \in Seq(Moves)
  PROVE  /\ Total(m) \in Int
         /\ m = <<>> => Total(m) = 0
<1> DEFINE f == [i \in DOMAIN m |-> m[i].delta]
           S == DOMAIN m
<1>1. \A i \in S : f[i] \in Int
  BY DeltaInt
<1>2. S = 1..Len(m) /\ Len(m) \in Nat
  OBVIOUS
<1>3. Total(m) = SumFunctionOnSet(f, S)
  BY DEF Total
<1> HIDE DEF f, S
<1>4. IsFiniteSet(S)
  BY <1>2, FS_Interval
<1>5. m = <<>> => S = {}
  BY DEF S
<1> QED
  BY <1>1, <1>3, <1>4, <1>5, SumInt, SumStep

(* A movement added to the ledger adds its units to the sum.               *)
LEMMA TotalAppend ==
  ASSUME NEW m \in Seq(Moves), NEW x \in Moves
  PROVE  Append(m, x) \in Seq(Moves) /\ Total(Append(m, x)) = Total(m) + x.delta
<1> DEFINE e == Append(m, x)
           n == Len(m) + 1
           f == [i \in DOMAIN m |-> m[i].delta]
           g == [i \in DOMAIN e |-> e[i].delta]
           S == DOMAIN m
           T == DOMAIN e
<1>1. e \in Seq(Moves) /\ S = 1..Len(m) /\ T = 1..n /\ Len(m) \in Nat /\ e[n] = x /\ \A i \in S : e[i] = m[i]
  OBVIOUS
<1>2. Total(m) = SumFunctionOnSet(f, S) /\ Total(e) = SumFunctionOnSet(g, T)
  BY DEF Total
<1>3. (\A i \in T : g[i] \in Int) /\ (\A i \in S : f[i] = g[i]) /\ g[n] = x.delta
  <2>1. \A i \in DOMAIN e : e[i].delta \in Int
    <3> HIDE DEF e
    <3> QED
      BY <1>1, DeltaInt
  <2>2. n \in DOMAIN e /\ \A i \in DOMAIN m : i \in DOMAIN e
    BY <1>1
  <2> HIDE DEF e, n
  <2> QED
    BY <1>1, <2>1, <2>2
<1>4. IsFiniteSet(T) /\ IsFiniteSet(S) /\ n \in T /\ T \ {n} = S
  <2>1. IsFiniteSet(1..n) /\ IsFiniteSet(1..Len(m))
    BY <1>1, FS_Interval
  <2>2. n \in 1..n /\ (1..n) \ {n} = 1..Len(m)
    BY <1>1
  <2> HIDE DEF e, n, S, T
  <2> QED
    BY <1>1, <2>1, <2>2
<1> HIDE DEF f, g, S, T
<1>5. SumFunctionOnSet(g, T) = g[n] + SumFunctionOnSet(g, S)
  BY <1>3, <1>4, SumRemove
<1>6. SumFunctionOnSet(f, S) = SumFunctionOnSet(g, S)
  BY <1>3, <1>4, SumSame
<1>7. Total(m) \in Int
  BY TotalInt
<1> QED
  BY <1>1, <1>2, <1>3, <1>5, <1>6, <1>7 DEF Moves

(* The ledger without one of its movements (delete_stock_movement).        *)
LEMMA RemovedIs ==
  ASSUME NEW m \in Seq(Moves), NEW i \in DOMAIN m
  PROVE  /\ RemoveAt(m, i) \in Seq(Moves)
         /\ DOMAIN RemoveAt(m, i) = 1..(Len(m) - 1)
         /\ \A k \in 1..(Len(m) - 1) : RemoveAt(m, i)[k] = IF k < i THEN m[k] ELSE m[k + 1]
<1> DEFINE a == SubSeq(m, 1, i - 1)
           b == SubSeq(m, i + 1, Len(m))
<1>1. i \in 1..Len(m) /\ Len(m) \in Nat
  OBVIOUS
<1>2. a \in Seq(Moves) /\ Len(a) = i - 1 /\ \A k \in 1..(i - 1) : a[k] = m[k]
  BY <1>1
<1>3. b \in Seq(Moves) /\ Len(b) = Len(m) - i /\ \A k \in 1..(Len(m) - i) : b[k] = m[k + i]
  BY <1>1
<1> HIDE DEF a, b
<1> DEFINE c == a \o b
<1>4. c \in Seq(Moves) /\ Len(c) = Len(m) - 1 /\ DOMAIN c = 1..(Len(m) - 1)
  BY <1>1, <1>2, <1>3
<1>5. \A k \in 1..(Len(m) - 1) : c[k] = IF k < i THEN m[k] ELSE m[k + 1]
  <2> SUFFICES ASSUME NEW k \in 1..(Len(m) - 1) PROVE c[k] = IF k < i THEN m[k] ELSE m[k + 1]
    OBVIOUS
  <2>1. CASE k < i
    BY <1>1, <1>2, <1>3, <2>1
  <2>2. CASE ~ k < i
    <3>1. c[k] = b[k - (i - 1)]
      BY <1>1, <1>2, <1>3, <2>2
    <3>4. k - (i - 1) \in 1..(Len(m) - i)
      BY <1>1, <2>2
    <3>2. k - (i - 1) + i = k + 1
      BY <1>1
    <3> QED
      BY <1>3, <2>2, <3>1, <3>2, <3>4
  <2> QED
    BY <2>1, <2>2
<1>6. RemoveAt(m, i) = c
  BY DEF RemoveAt, a, b
<1> HIDE DEF c
<1> QED
  BY <1>4, <1>5, <1>6

(* A movement taken out of the ledger takes its units out of the sum.      *)
LEMMA TotalRemove ==
  ASSUME NEW m \in Seq(Moves), NEW i \in DOMAIN m
  PROVE  RemoveAt(m, i) \in Seq(Moves) /\ Total(RemoveAt(m, i)) = Total(m) - m[i].delta
<1> DEFINE e == RemoveAt(m, i)
           n == Len(m)
           f == [k \in DOMAIN m |-> m[k].delta]
           g == [k \in DOMAIN e |-> e[k].delta]
           S == 1..(n - 1)
           T == (1..n) \ {i}
           h == [k \in S |-> IF k < i THEN k ELSE k + 1]
<1>1. /\ n \in Nat /\ DOMAIN m = 1..n /\ i \in 1..n /\ DOMAIN e = S /\ e \in Seq(Moves)
      /\ \A k \in S : e[k] = IF k < i THEN m[k] ELSE m[k + 1]
  BY RemovedIs, DeltaInt
<1>2. Total(m) = SumFunctionOnSet(f, 1..n) /\ Total(e) = SumFunctionOnSet(g, S)
  <2> HIDE DEF e, n, S
  <2> QED
    BY <1>1 DEF Total
<1> HIDE DEF e, n
<1>3. \A k \in 1..n : f[k] = m[k].delta /\ m[k].delta \in Int
  BY <1>1, DeltaInt DEF n
<1>4. \A k \in S : h[k] = IF k < i THEN k ELSE k + 1
  OBVIOUS
<1>5. \A k \in S : g[k] = e[k].delta
  BY <1>1
<1> HIDE DEF f, g
<1>6. h \in [S -> T]
  BY <1>1
<1>7. \A x, y \in S : h[x] = h[y] => x = y
  <2> HIDE DEF h
  <2> QED
    BY <1>1, <1>4
<1>8. \A t \in T : \E x \in S : h[x] = t
  <2> SUFFICES ASSUME NEW t \in T PROVE \E x \in S : h[x] = t
    OBVIOUS
  <2>1. CASE t < i
    <3>1. t \in S /\ h[t] = t
      BY <1>1, <1>4, <2>1
    <3> QED
      BY <3>1
  <2>2. CASE ~ t < i
    <3>1. t - 1 \in S /\ h[t - 1] = t
      BY <1>1, <1>4, <2>2
    <3> QED
      BY <3>1
  <2> QED
    BY <2>1, <2>2
<1>9. \A x \in S : g[x] = f[h[x]]
  <2> SUFFICES ASSUME NEW x \in S PROVE g[x] = f[h[x]]
    OBVIOUS
  <2> HIDE DEF h
  <2>1. h[x] \in 1..n
    BY <1>6
  <2> QED
    BY <1>1, <1>3, <1>4, <1>5, <2>1
<1>10. \A t \in T : f[t] \in Int
  BY <1>3
<1>11. IsFiniteSet(1..n) /\ IsFiniteSet(S) /\ IsFiniteSet(T) /\ T = (1..n) \ {i}
  <2>1. IsFiniteSet(1..n) /\ IsFiniteSet(S)
    BY <1>1, FS_Interval
  <2> QED
    BY <2>1, FS_Subset
<1> HIDE DEF S, T, h
<1>12. SumFunctionOnSet(g, S) = SumFunctionOnSet(f, T)
  BY <1>6, <1>7, <1>8, <1>9, <1>10, <1>11, SumRenamed
<1>13. SumFunctionOnSet(f, 1..n) = f[i] + SumFunctionOnSet(f, T)
  <2>1. \A x \in 1..n : f[x] \in Int
    BY <1>3
  <2>2. SumFunctionOnSet(f, 1..n) = f[i] + SumFunctionOnSet(f, (1..n) \ {i})
    <3>1. i \in 1..n /\ IsFiniteSet(1..n)
      BY <1>1, <1>11
    <3> DEFINE U == 1..n
    <3>2. i \in U /\ IsFiniteSet(U) /\ \A x \in U : f[x] \in Int
      BY <2>1, <3>1
    <3> HIDE DEF U
    <3>3. SumFunctionOnSet(f, U) = f[i] + SumFunctionOnSet(f, U \ {i})
      BY <3>2, SumRemove
    <3> QED
      BY <3>3 DEF U
  <2> QED
    BY <1>11, <2>2
<1>14. Total(e) \in Int /\ f[i] = m[i].delta /\ m[i].delta \in Int
  BY <1>1, <1>3, TotalInt
<1> QED
  BY <1>1, <1>2, <1>12, <1>13, <1>14 DEF e

(* Rows, calls and what is observed of them.                               *)
Rows == [live : BOOLEAN, base : Nat, variant : Nat, price : Nat,
         cost : Nat \cup {None}, supplied : Nat \cup {None}]
Steps == {"idle", "asked", "ready", "restocked", "mailing"}
Jobs == [pc : Steps, kind : Kinds, r : Requests \cup {NoRequest}, from : Rows, to : Rows,
         rule : Rules \cup {NoRule}, waiting : SUBSET Emails, sent : SUBSET Emails,
         fresh : BOOLEAN, first : BOOLEAN]
Returns == [status : Statuses, o : Orders \cup {"none"}, qty : Nat]
Notes == [unbooked : Int, stale : BOOLEAN, mails : [Emails -> Nat], twice : BOOLEAN,
          by : Rules \cup {NoRule}]

(* A call about a request decides it; one that has not read the row is     *)
(* about a request; only a round of mails has lists.                       *)
About(j) == /\ j.r # NoRequest => j.kind \in Decisions
            /\ j.pc = "asked" => j.r # NoRequest /\ j.rule = NoRule
            /\ j.pc # "mailing" => j.waiting = {} /\ j.sent = {}
            /\ j.pc \notin {"asked", "ready"} => /\ j.r = NoRequest /\ j.rule = NoRule
                                                /\ j.from = NoProduct /\ j.to = NoProduct

ShelfType ==
    /\ product \in Rows
    /\ moves \in Seq(Moves)
    /\ order \in [Orders -> {"new", "active", "cancelled"}]
    /\ request \in [Requests -> Returns]
    /\ notice \in [Emails -> {"none", "waiting", "mailed"}]
    /\ job \in [Workers -> Jobs]
    /\ \A w \in Workers : About(job[w])
    /\ seen \in Notes

(* Amounts of money and units are natural numbers.                         *)
LEMMA MoneyTypes ==
    ASSUME NEW a \in Int, NEW b \in Int
    PROVE  Atleast0(a) \in Nat /\ Lesser(a, b) \in Int /\ Greater(a, b) \in Int
  BY DEF Atleast0, Lesser, Greater

(* Either rounding of a quotient is a whole number.                        *)
LEMMA RoundedInt ==
    ASSUME NEW n \in Int, NEW d \in Nat \ {0}
    PROVE  Rounded(n, d) \subseteq Int
<1>1. n \div d \in Int
  OBVIOUS
<1> QED
  BY <1>1 DEF Rounded

(* A price rule gives no price below zero (compute_new_price).             *)
LEMMA NewPriceType ==
    ASSUME NEW rule \in Rules, NEW price \in Nat, NEW cost \in Nat \cup {None}
    PROVE  NewPrice(rule, price, cost) \subseteq Nat
<1>1. rule \in ValidRules
  BY ShelfAssumption
<1>2. /\ rule.strategy \in {"percent", "margin", "round_99"} /\ rule.value \in Int /\ rule.plus \in Int
      /\ rule.floor \in Nat /\ rule.cap \in Nat
  BY <1>1 DEF ValidRules
<1>3. CASE rule.strategy = "margin" /\ cost = None
  BY <1>3 DEF NewPrice
<1>4. CASE ~ (rule.strategy = "margin" /\ cost = None)
  <2>1. Target(rule, price, cost) \subseteq Int
    <3>1. CASE rule.strategy = "percent"
      <4>1. price * (100 + rule.value) \in Int
        BY <1>2
      <4>2. Rounded(price * (100 + rule.value), 100) \subseteq Int
        BY <4>1, RoundedInt
      <4> QED
        BY <1>2, <3>1, <4>2 DEF Target
    <3>2. CASE rule.strategy = "margin"
      <4>0. cost \in Nat
        BY <1>4, <3>2
      <4>1. cost * (100 + rule.value) \in Int
        BY <1>2, <4>0
      <4>2. Rounded(cost * (100 + rule.value), 100) \subseteq Int
        BY <4>1, RoundedInt
      <4> QED
        BY <3>2, <4>2 DEF Target
    <3>3. CASE rule.strategy = "round_99"
      BY <3>3 DEF Target
    <3> QED
      BY <1>2, <3>1, <3>2, <3>3
  <2>2. NewPrice(rule, price, cost) = {Atleast0(Lesser(Greater(n, rule.floor), rule.cap)) : n \in Target(rule, price, cost)}
    BY <1>4 DEF NewPrice
  <2>3. \A n \in Int : Atleast0(Lesser(Greater(n, rule.floor), rule.cap)) \in Nat
    <3> SUFFICES ASSUME NEW n \in Int PROVE Atleast0(Lesser(Greater(n, rule.floor), rule.cap)) \in Nat
      OBVIOUS
    <3>1. rule.floor \in Int /\ rule.cap \in Int
      BY <1>2
    <3>2. Greater(n, rule.floor) \in Int
      BY <3>1, MoneyTypes
    <3>3. Lesser(Greater(n, rule.floor), rule.cap) \in Int
      BY <3>1, <3>2, MoneyTypes
    <3> QED
      BY <3>3, MoneyTypes
  <2> QED
    BY <2>1, <2>2, <2>3
<1> QED
  BY <1>3, <1>4

(* The price of a supplied product is not below zero (compute_sale_price). *)
LEMMA SalePriceType ==
    ASSUME NEW cost \in Nat
    PROVE  SalePrice(cost) \in Nat
<1>1. (18 * cost) \div 1000 \in Nat
  OBVIOUS
<1> DEFINE n == (18 * cost) \div 1000
<1>2. SalePrice(cost) = 100 * n + 90 \/ SalePrice(cost) = 100 * n + 90 + 100
  BY DEF SalePrice
<1> HIDE DEF n
<1> QED
  BY <1>1, <1>2 DEF n

(* What a form, a file or a supplier says.                                 *)
LEMMA FormTypes ==
    ASSUME NEW f \in Forms, NEW old \in Nat
    PROVE  /\ f.base \in Nat /\ f.price \in Nat /\ f.cost \in Nat \cup {None}
           /\ VariantOf(f, old) \in Nat
<1>1. f \in ValidForms
  BY ShelfAssumption
<1>2. f \in [base : Nat, variants : SUBSET Nat, price : Nat, cost : Nat \cup {None}]
  BY <1>1 DEF ValidForms
<1>3. f.variants # {} => (CHOOSE n \in f.variants : TRUE) \in f.variants
  OBVIOUS
<1> QED
  BY <1>2, <1>3 DEF VariantOf

(* What a supplier answers.                                                *)
LEMMA QuoteTypes ==
    ASSUME NEW q \in Quotes
    PROVE  q.base \in Nat /\ q.cost \in Nat /\ SalePrice(q.cost) \in Nat
<1>1. q \in [base : Nat, cost : Nat]
  BY ShelfAssumption
<1>2. q.base \in Nat /\ q.cost \in Nat
  BY <1>1
<1> QED
  BY <1>2, SalePriceType

(* The row as a commit leaves it.                                          *)
LEMMA FlushIs ==
    ASSUME NEW row \in Rows, NEW from \in Rows, NEW to \in Rows
    PROVE  /\ Flush(row, from, to) \in Rows
           /\ Flush(row, from, to).live = IF to.live # from.live THEN to.live ELSE row.live
           /\ Flush(row, from, to).base = IF to.base # from.base THEN to.base ELSE row.base
           /\ Flush(row, from, to).variant = IF to.variant # from.variant THEN to.variant ELSE row.variant
           /\ Flush(row, from, to).price = IF to.price # from.price THEN to.price ELSE row.price
           /\ Flush(row, from, to).cost = IF to.cost # from.cost THEN to.cost ELSE row.cost
           /\ from = row => Flush(row, from, to) = to
<1> DEFINE C == {"live", "base", "variant", "price", "cost", "supplied"}
           f == [c \in C |-> IF to[c] # from[c] THEN to[c] ELSE row[c]]
<1>1. DOMAIN row = C /\ DOMAIN to = C
  BY DEF Rows
<1>2. Flush(row, from, to) = f
  BY <1>1 DEF Flush
<1>3. \A c \in C : f[c] = IF to[c] # from[c] THEN to[c] ELSE row[c]
  OBVIOUS
<1>4. f = [live |-> f.live, base |-> f.base, variant |-> f.variant, price |-> f.price, cost |-> f.cost,
           supplied |-> f.supplied]
  OBVIOUS
<1>5. /\ f.live = IF to.live # from.live THEN to.live ELSE row.live
      /\ f.base = IF to.base # from.base THEN to.base ELSE row.base
      /\ f.variant = IF to.variant # from.variant THEN to.variant ELSE row.variant
      /\ f.price = IF to.price # from.price THEN to.price ELSE row.price
      /\ f.cost = IF to.cost # from.cost THEN to.cost ELSE row.cost
      /\ f.supplied = IF to.supplied # from.supplied THEN to.supplied ELSE row.supplied
  BY <1>3
<1>6. from = row => f = to
  <2>1. SUFFICES ASSUME from = row PROVE f = to
    OBVIOUS
  <2>2. to = [live |-> to.live, base |-> to.base, variant |-> to.variant, price |-> to.price, cost |-> to.cost,
              supplied |-> to.supplied]
    BY DEF Rows
  <2>3. f.live = to.live /\ f.base = to.base /\ f.variant = to.variant /\ f.price = to.price /\ f.cost = to.cost /\ f.supplied = to.supplied
    BY <1>5, <2>1
  <2> HIDE DEF f
  <2> QED
    BY <1>4, <2>2, <2>3
<1> HIDE DEF f
<1>7. f \in Rows
  BY <1>4, <1>5 DEF Rows
<1> QED
  BY <1>2, <1>5, <1>6, <1>7

-----------------------------------------------------------------------------
(* Calls that begin, or read the row.                                      *)

(* An idle worker's record.                                                *)
LEMMA IdleIs ==
  /\ NoProduct \in Rows /\ Idle \in Jobs /\ About(Idle)
  /\ Idle.pc = "idle" /\ Idle.r = NoRequest /\ Idle.from = NoProduct /\ Idle.to = NoProduct /\ Idle.rule = NoRule
  /\ Idle.waiting = {} /\ Idle.sent = {} /\ Idle.fresh /\ Idle.first
<1>1. NoProduct \in Rows
  BY DEF NoProduct, Rows, None
<1> QED
  BY <1>1 DEF Idle, Jobs, Steps, About, Kinds

(* What a call that begins, or reads the row, does.                        *)
Takes(w, j) ==
    /\ j \in Jobs /\ About(j) /\ j.pc \in {"asked", "ready"} /\ job[w].pc \in {"idle", "asked"}
    /\ j.pc = "ready" => j.from = product /\ (product.live \/ job[w].pc = "asked")
    /\ j.to.live = j.from.live
    /\ j.rule # NoRule => /\ j.to.price \in NewPrice(j.rule, j.from.price, j.from.cost)
                          /\ j.to.cost = j.from.cost
    /\ j.r # NoRequest => Open(j.r) \/ (job[w].pc = "asked" /\ j.r = job[w].r /\ j.first = job[w].first)
    /\ job' = [job EXCEPT ![w] = j]
    /\ UNCHANGED <<product, moves, order, request, notice, seen>>

(* A call that has read the row and decided what to write (Ready).         *)
LEMMA ReadyTakes ==
    ASSUME ShelfType, NEW w \in Workers, NEW kind \in Kinds, NEW to \in Rows, to.live = product.live, Ready(w, kind, to)
    PROVE  \E j : Takes(w, j)
<1> DEFINE j == [Idle EXCEPT !.pc = "ready", !.kind = kind, !.from = product, !.to = to]
<1>1. /\ j \in Jobs /\ j.pc = "ready" /\ j.kind = kind /\ j.r = NoRequest /\ j.from = product /\ j.to = to
      /\ j.rule = NoRule /\ j.waiting = {} /\ j.sent = {}
  BY IdleIs DEF ShelfType, Jobs, Steps
<1>2. /\ job[w].pc = "idle" /\ product.live /\ job' = [job EXCEPT ![w] = j]
      /\ UNCHANGED <<product, moves, order, request, notice, seen>>
  BY DEF Ready, Call
<1> HIDE DEF j
<1>3. About(j)
  BY <1>1 DEF About
<1> QED
  BY <1>1, <1>2, <1>3 DEF Takes

(* The columns of a row.                                                   *)
LEMMA RowFields ==
    ASSUME NEW p \in Rows
    PROVE  p.live \in BOOLEAN /\ p.base \in Nat /\ p.variant \in Nat /\ p.price \in Nat /\ p.cost \in Nat \cup {None}
BY DEF Rows

(* A form or a file: update_product, import_products.                      *)
LEMMA FormTakes ==
    ASSUME ShelfType, NEW w \in Workers, NEW f \in Forms, SaveForm(w, f) \/ Import(w, f)
    PROVE  \E j : Takes(w, j)
<1>0. product \in Rows /\ product.variant \in Nat
  BY RowFields DEF ShelfType
<1>1. f.base \in Nat /\ f.price \in Nat /\ f.cost \in Nat \cup {None} /\ VariantOf(f, product.variant) \in Nat
  BY <1>0, FormTypes
<1>2. CASE SaveForm(w, f)
  <2> DEFINE n == VariantOf(f, product.variant)
             to == [product EXCEPT !.base = f.base, !.price = f.price, !.cost = f.cost, !.variant = n]
  <2>1. to = [product EXCEPT !.base = f.base, !.price = f.price, !.cost = f.cost, !.variant = VariantOf(f, @)]
    OBVIOUS
  <2>2. Ready(w, "manual", to)
    BY <1>2, <2>1 DEF SaveForm
  <2>3. n \in Nat
    BY <1>1
  <2> HIDE DEF n
  <2>4. to \in Rows /\ to.live = product.live
    BY <1>0, <1>1, <2>3 DEF Rows
  <2>5. "manual" \in Kinds /\ "import" \in Kinds
    BY DEF Kinds
  <2> HIDE DEF to
  <2> QED
    BY <2>2, <2>4, <2>5, ReadyTakes
<1>3. CASE Import(w, f)
  <2> DEFINE to == [product EXCEPT !.base = f.base, !.price = f.price, !.cost = f.cost]
  <2>2. Ready(w, "import", to)
    BY <1>3 DEF Import
  <2>4. to \in Rows /\ to.live = product.live
    BY <1>0, <1>1 DEF Rows
  <2>5. "manual" \in Kinds /\ "import" \in Kinds
    BY DEF Kinds
  <2> HIDE DEF to
  <2> QED
    BY <2>2, <2>4, <2>5, ReadyTakes
<1> QED
  BY <1>2, <1>3

(* A supplier synchronisation.                                             *)
LEMMA SyncTakes ==
    ASSUME ShelfType, NEW w \in Workers, NEW q \in Quotes, NEW reprice \in BOOLEAN, Sync(w, q, reprice)
    PROVE  \E j : Takes(w, j)
<1>0. product \in Rows /\ product.cost \in Nat \cup {None} /\ product.price \in Nat
  BY RowFields DEF ShelfType
<1>1. q.base \in Nat /\ q.cost \in Nat /\ SalePrice(q.cost) \in Nat
  BY QuoteTypes
<1> DEFINE cost == IF q.cost = product.supplied THEN product.cost ELSE q.cost
           price == IF reprice THEN SalePrice(q.cost) ELSE product.price
           to == [product EXCEPT !.base = q.base, !.supplied = q.cost, !.cost = cost, !.price = price]
<1>2. to = [product EXCEPT !.base = q.base, !.supplied = q.cost,
                                   !.cost = IF q.cost = product.supplied THEN @ ELSE q.cost,
                                   !.price = IF reprice THEN SalePrice(q.cost) ELSE @]
  OBVIOUS
<1>3. Ready(w, "dropship-sync", to)
  BY <1>2 DEF Sync
<1>4. cost \in Nat \cup {None} /\ price \in Nat
  BY <1>0, <1>1
<1> HIDE DEF cost, price
<1>5. to \in Rows /\ to.live = product.live
  BY <1>0, <1>1, <1>4 DEF Rows
<1>6. "dropship-sync" \in Kinds
  BY DEF Kinds
<1> HIDE DEF to
<1> QED
  BY <1>3, <1>5, <1>6, ReadyTakes

(* A pricing rule or a bulk change of prices.                              *)
LEMMA PriceTakes ==
    ASSUME ShelfType, NEW w \in Workers, NEW how \in Rules, NEW rule \in {how, NoRule}, Reprice(w, how, rule)
    PROVE  \E j : Takes(w, j)
<1>0. product \in Rows /\ product.cost \in Nat \cup {None} /\ product.price \in Nat
  BY RowFields DEF ShelfType
<1>1. PICK n \in NewPrice(how, product.price, product.cost) :
        job' = [job EXCEPT ![w] = [Idle EXCEPT !.pc = "ready", !.kind = "price", !.from = product,
                                        !.to = [product EXCEPT !.price = n], !.rule = rule]]
  BY DEF Reprice
<1>2. n \in Nat
  BY <1>0, NewPriceType
<1> DEFINE to == [product EXCEPT !.price = n]
           j == [Idle EXCEPT !.pc = "ready", !.kind = "price", !.from = product, !.to = to, !.rule = rule]
<1>3. to \in Rows /\ to.live = product.live /\ to.price = n /\ to.cost = product.cost
  BY <1>0, <1>2 DEF Rows
<1>4. job' = [job EXCEPT ![w] = j]
  BY <1>1
<1> HIDE DEF to
<1>5. /\ j \in Jobs /\ j.pc = "ready" /\ j.r = NoRequest /\ j.from = product /\ j.to = to
      /\ j.rule = rule /\ j.waiting = {} /\ j.sent = {}
  BY <1>0, <1>3, IdleIs DEF Jobs, Steps, Kinds
<1> HIDE DEF j
<1>6. About(j)
  BY <1>5 DEF About
<1>7. job[w].pc = "idle" /\ product.live /\ UNCHANGED <<product, moves, order, request, notice, seen>>
  BY DEF Reprice, Call, Matches
<1>8. j.rule # NoRule => j.rule = how
  BY <1>5
<1> QED
  BY <1>1, <1>3, <1>4, <1>5, <1>6, <1>7, <1>8 DEF Takes

(* A decision on a return begins.                                          *)
LEMMA DecideTakes ==
    ASSUME ShelfType, NEW w \in Workers, NEW r \in Requests, NEW status \in Decisions, Decide(w, r, status)
    PROVE  \E j : Takes(w, j)
<1> DEFINE j == [Idle EXCEPT !.pc = "asked", !.kind = status, !.r = r]
<1>1. /\ j \in Jobs /\ j.pc = "asked" /\ j.kind = status /\ j.r = r /\ j.from = NoProduct /\ j.to = NoProduct
      /\ j.rule = NoRule /\ j.waiting = {} /\ j.sent = {}
  BY IdleIs DEF Jobs, Steps, Kinds
<1>2. /\ job[w].pc = "idle" /\ Open(r) /\ job' = [job EXCEPT ![w] = j]
      /\ UNCHANGED <<product, moves, order, request, notice, seen>>
  BY DEF Decide, Call
<1> HIDE DEF j
<1>3. r # NoRequest
  BY ShelfAssumption
<1>4. About(j)
  BY <1>1, <1>3 DEF About
<1> QED
  BY <1>1, <1>2, <1>4 DEF Takes

(* A decision on a return reads the row.                                   *)
LEMMA ShelfTakes ==
    ASSUME ShelfType, NEW w \in Workers, ReadShelf(w)
    PROVE  \E j : Takes(w, j)
<1> DEFINE k == job[w]
           to == IF k.kind = "refunded" THEN [product EXCEPT !.base = product.base + request[k.r].qty] ELSE product
           j == [k EXCEPT !.pc = "ready", !.from = product, !.fresh = TRUE, !.to = to]
<1>0. product \in Rows /\ product.base \in Nat /\ k \in Jobs /\ About(k) /\ k.pc = "asked"
  BY RowFields DEF ShelfType, ReadShelf
<1>1. k.r # NoRequest /\ k.r \in Requests /\ k.rule = NoRule /\ k.waiting = {} /\ k.sent = {} /\ k.kind \in Decisions
  BY <1>0 DEF About, Jobs
<1>2. request[k.r].qty \in Nat
  BY <1>1 DEF ShelfType, Returns
<1>3. to \in Rows /\ to.live = product.live
  <2> DEFINE n == product.base + request[k.r].qty
  <2>1. n \in Nat
    BY <1>0, <1>2
  <2>2. to = [product EXCEPT !.base = n] \/ to = product
    OBVIOUS
  <2> HIDE DEF n, k
  <2>3. [product EXCEPT !.base = n] \in Rows /\ [product EXCEPT !.base = n].live = product.live
    BY <1>0, <2>1 DEF Rows
  <2> QED
    BY <1>0, <2>2, <2>3
<1>4. job' = [job EXCEPT ![w] = j] /\ UNCHANGED <<product, moves, order, request, notice, seen>>
  BY DEF ReadShelf, ShelfType
<1> HIDE DEF to, k
<1>5. /\ j \in Jobs /\ j.pc = "ready" /\ j.kind = k.kind /\ j.r = k.r /\ j.from = product /\ j.to = to
      /\ j.rule = k.rule /\ j.waiting = k.waiting /\ j.sent = k.sent /\ j.first = k.first
  BY <1>0, <1>3 DEF Jobs, Steps
<1> HIDE DEF j
<1>6. About(j)
  BY <1>1, <1>5 DEF About
<1>7. job[w].pc = "asked" /\ j.r = job[w].r /\ j.first = job[w].first
  BY <1>0, <1>5 DEF k
<1> QED
  BY <1>1, <1>3, <1>4, <1>5, <1>6, <1>7 DEF Takes

-----------------------------------------------------------------------------
(* A commit.                                                               *)

(* Two records of a call that differ at most in what it knows of others.   *)
Same(j, k) ==
    /\ k.pc = j.pc /\ k.kind = j.kind /\ k.r = j.r /\ k.from = j.from /\ k.to = j.to
    /\ k.rule = j.rule /\ k.waiting = j.waiting /\ k.sent = j.sent

(* What is observed.                                                       *)
LEMMA SeenFields ==
    ASSUME ShelfType
    PROVE  /\ seen.unbooked \in Int /\ seen.stale \in BOOLEAN /\ seen.twice \in BOOLEAN
           /\ seen.mails \in [Emails -> Nat] /\ seen.by \in Rules \cup {NoRule}
  BY DEF ShelfType, Notes

(* What a call knows.                                                      *)
LEMMA JobFields ==
    ASSUME NEW j \in Jobs
    PROVE  /\ j.pc \in Steps /\ j.kind \in Kinds /\ j.r \in Requests \cup {NoRequest}
           /\ j.from \in Rows /\ j.to \in Rows /\ j.rule \in Rules \cup {NoRule}
           /\ j.waiting \in SUBSET Emails /\ j.sent \in SUBSET Emails
           /\ j.fresh \in BOOLEAN /\ j.first \in BOOLEAN
           /\ j.from.live \in BOOLEAN /\ j.to.live \in BOOLEAN
           /\ j.from.base \in Nat /\ j.to.base \in Nat
           /\ j.from.variant \in Nat /\ j.to.variant \in Nat
           /\ j.from.price \in Nat /\ j.to.price \in Nat
<1>1. /\ j.pc \in Steps /\ j.kind \in Kinds /\ j.r \in Requests \cup {NoRequest}
      /\ j.from \in Rows /\ j.to \in Rows /\ j.rule \in Rules \cup {NoRule}
      /\ j.waiting \in SUBSET Emails /\ j.sent \in SUBSET Emails
      /\ j.fresh \in BOOLEAN /\ j.first \in BOOLEAN
  BY DEF Jobs
<1> QED
  BY <1>1, RowFields

(* A commit, field by field.                                               *)
LEMMA CommitIs ==
    ASSUME ShelfType, NEW w \in Workers, Commit(w)
    PROVE  /\ job[w].pc = "ready"
           /\ product' = Flush(product, job[w].from, job[w].to) /\ product' \in Rows
           /\ moves' \in Seq(Moves)
           /\ Total(moves') = Total(moves) + (job[w].to.base - job[w].from.base)
           /\ request' = IF job[w].r = NoRequest THEN request ELSE [request EXCEPT ![job[w].r].status = job[w].kind]
           /\ request' \in [Requests -> Returns]
           /\ job' \in [Workers -> Jobs]
           /\ \E j \in {Idle, [Idle EXCEPT !.pc = "restocked"]} : job'[w] = j
           /\ \A v \in Workers \ {w} :
                 /\ Same(job[v], job'[v])
                 /\ job'[v].fresh = (job[v].fresh /\ product' = product)
                 /\ job'[v].first = (job[v].first /\ ~ (job[v].r = job[w].r /\ request' # request))
           /\ seen' \in Notes /\ seen'.mails = seen.mails /\ seen'.twice = seen.twice
           /\ seen'.unbooked = seen.unbooked + (job[w].to.variant - job[w].from.variant)
           /\ seen'.stale = (seen.stale \/ (~ job[w].fresh /\ <<job[w].to.base, job[w].to.variant>> # <<job[w].from.base, job[w].from.variant>>))
           /\ seen'.by = IF job[w].rule # NoRule /\ job[w].fresh THEN job[w].rule
                         ELSE IF product' # product /\ (job[w].to.price # job[w].from.price \/ job[w].to.cost # job[w].from.cost)
                              THEN NoRule ELSE seen.by
           /\ UNCHANGED <<order, notice, spent>>
<1> DEFINE j == job[w]
           delta == j.to.base - j.from.base
           about == IF j.r = NoRequest THEN "none" ELSE request[j.r].o
           next == IF Restocked(j) THEN [Idle EXCEPT !.pc = "restocked"] ELSE Idle
           others == [v \in Workers |-> [job[v] EXCEPT
               !.fresh = job[v].fresh /\ product' = product,
               !.first = job[v].first /\ ~ (job[v].r = job[w].r /\ request' # request)]]
<1>1. j \in Jobs /\ product \in Rows /\ moves \in Seq(Moves) /\ request \in [Requests -> Returns] /\ About(j)
  BY DEF ShelfType
<1>2. /\ j.pc = "ready"
      /\ product' = Flush(product, j.from, j.to)
      /\ moves' = IF delta # 0 THEN Append(moves, Move(about, Why(j.kind), delta)) ELSE moves
      /\ request' = IF j.r = NoRequest THEN request ELSE [request EXCEPT ![j.r].status = j.kind]
      /\ UNCHANGED <<order, notice, spent>>
  BY DEF Commit
<1>3. job' = [others EXCEPT ![w] = next]
  BY DEF Commit, Decided
<1>4. product' \in Rows
  BY <1>1, <1>2, FlushIs, JobFields
<1>5. moves' \in Seq(Moves) /\ Total(moves') = Total(moves) + delta
  <2>0. delta \in Int
    BY <1>1, JobFields
  <2>1. about \in Orders \cup {"none"}
    <3>1. j.r # NoRequest => j.r \in Requests
      BY <1>1, JobFields
    <3> QED
      BY <1>1, <3>1 DEF Returns
  <2>2. Why(j.kind) \in Whys
    BY <1>1, JobFields DEF Why, Whys
  <2> DEFINE m == Move(about, Why(j.kind), delta)
  <2>3. m \in Moves /\ m.delta = delta
    BY <2>0, <2>1, <2>2 DEF Move, Moves
  <2>5. moves' = IF delta # 0 THEN Append(moves, m) ELSE moves
    BY <1>2
  <2> HIDE DEF m, delta
  <2>4. CASE delta = 0
    BY <1>1, <2>5, <2>4, TotalInt
  <2>6. CASE delta # 0
    BY <1>1, <2>3, <2>5, <2>6, TotalAppend
  <2> QED
    BY <2>4, <2>6
<1>6. request' \in [Requests -> Returns]
  <2>1. CASE j.r = NoRequest
    BY <1>1, <1>2, <2>1
  <2>2. CASE j.r # NoRequest
    <3>1. j.r \in Requests /\ j.kind \in Statuses
      BY <1>1, <2>2, JobFields DEF About, Statuses
    <3>2. [request[j.r] EXCEPT !.status = j.kind] \in Returns
      BY <1>1, <3>1 DEF Returns
    <3>3. request' = [request EXCEPT ![j.r] = [request[j.r] EXCEPT !.status = j.kind]]
      BY <1>2, <2>2
    <3> QED
      BY <1>1, <3>1, <3>2, <3>3
  <2> QED
    BY <2>1, <2>2
<1>7. next \in Jobs /\ next \in {Idle, [Idle EXCEPT !.pc = "restocked"]}
  BY IdleIs DEF Jobs, Steps
<1>8. \A v \in Workers : /\ others[v] \in Jobs /\ Same(job[v], others[v])
                         /\ others[v].fresh = (job[v].fresh /\ product' = product)
                         /\ others[v].first = (job[v].first /\ ~ (job[v].r = job[w].r /\ request' # request))
  <2> SUFFICES ASSUME NEW v \in Workers
               PROVE  /\ others[v] \in Jobs /\ Same(job[v], others[v])
                      /\ others[v].fresh = (job[v].fresh /\ product' = product)
                      /\ others[v].first = (job[v].first /\ ~ (job[v].r = job[w].r /\ request' # request))
    OBVIOUS
  <2> DEFINE a == (job[v].fresh /\ product' = product)
             b == (job[v].first /\ ~ (job[v].r = job[w].r /\ request' # request))
             k == job[v]
  <2>1. others[v] = [k EXCEPT !.fresh = a, !.first = b] /\ a \in BOOLEAN /\ b \in BOOLEAN
    BY JobFields DEF ShelfType
  <2>2. k \in Jobs
    BY DEF ShelfType
  <2> HIDE DEF a, b, k, others
  <2>3. [k EXCEPT !.fresh = a, !.first = b] \in Jobs /\ Same(k, [k EXCEPT !.fresh = a, !.first = b])
        /\ [k EXCEPT !.fresh = a, !.first = b].fresh = a /\ [k EXCEPT !.fresh = a, !.first = b].first = b
    BY <2>1, <2>2 DEF Jobs, Same
  <2> QED
    BY <2>1, <2>3 DEF k, a, b
<1>9. others \in [Workers -> Jobs]
  <2>1. others = [v \in Workers |-> others[v]]
    OBVIOUS
  <2> HIDE DEF others
  <2> QED
    BY <1>8, <2>1
<1>10. job' \in [Workers -> Jobs] /\ job'[w] = next /\ \A v \in Workers \ {w} : job'[v] = others[v]
  <2> HIDE DEF others, next
  <2> QED
    BY <1>3, <1>7, <1>9
<1>11. /\ seen' = [seen EXCEPT
              !.unbooked = seen.unbooked + (j.to.variant - j.from.variant),
              !.stale    = seen.stale \/ (~ j.fresh /\ <<j.to.base, j.to.variant>> # <<j.from.base, j.from.variant>>),
              !.by       = IF j.rule # NoRule /\ j.fresh THEN j.rule
                           ELSE IF product' # product /\ (j.to.price # j.from.price \/ j.to.cost # j.from.cost)
                                THEN NoRule ELSE seen.by]
  BY DEF Commit, ShelfType
<1>12. /\ seen' \in Notes /\ seen'.mails = seen.mails /\ seen'.twice = seen.twice
       /\ seen'.unbooked = seen.unbooked + (j.to.variant - j.from.variant)
       /\ seen'.stale = (seen.stale \/ (~ j.fresh /\ <<j.to.base, j.to.variant>> # <<j.from.base, j.from.variant>>))
       /\ seen'.by = IF j.rule # NoRule /\ j.fresh THEN j.rule
                         ELSE IF product' # product /\ (j.to.price # j.from.price \/ j.to.cost # j.from.cost)
                              THEN NoRule ELSE seen.by
  <2> DEFINE a == seen.unbooked + (j.to.variant - j.from.variant)
             b == (seen.stale \/ (~ j.fresh /\ <<j.to.base, j.to.variant>> # <<j.from.base, j.from.variant>>))
             c == IF j.rule # NoRule /\ j.fresh THEN j.rule
                           ELSE IF product' # product /\ (j.to.price # j.from.price \/ j.to.cost # j.from.cost)
                                THEN NoRule ELSE seen.by
  <2>1. a \in Int /\ b \in BOOLEAN /\ c \in Rules \cup {NoRule}
    BY <1>1, JobFields, SeenFields
  <2>2. seen' = [seen EXCEPT !.unbooked = a, !.stale = b, !.by = c] /\ seen \in Notes
    BY <1>11 DEF ShelfType
  <2> HIDE DEF a, b, c
  <2>3. seen' \in Notes /\ seen'.mails = seen.mails /\ seen'.twice = seen.twice /\ seen'.unbooked = a /\ seen'.stale = b /\ seen'.by = c
    BY <2>1, <2>2 DEF Notes
  <2> QED
    BY <2>3 DEF a, b, c
<1> QED
  <2> HIDE DEF next, others
  <2>1. \E k \in {Idle, [Idle EXCEPT !.pc = "restocked"]} : job'[w] = k
    BY <1>7, <1>10
  <2>2. \A v \in Workers \ {w} :
                 /\ Same(job[v], job'[v])
                 /\ job'[v].fresh = (job[v].fresh /\ product' = product)
                 /\ job'[v].first = (job[v].first /\ ~ (job[v].r = job[w].r /\ request' # request))
    BY <1>8, <1>10
  <2> QED
    BY <1>2, <1>4, <1>5, <1>6, <1>10, <1>12, <2>1, <2>2

-----------------------------------------------------------------------------
(* New products and locked writers.                                        *)

(* A new product.                                                          *)
Born(row, why) ==
    /\ ~ product.live /\ product' \in Rows /\ product'.live
    /\ moves' \in Seq(Moves)
    /\ moves = <<>> => product'.base + product'.variant = Total(moves') + seen'.unbooked
    /\ seen' \in Notes /\ seen'.mails = seen.mails /\ seen'.twice = seen.twice /\ seen'.by = seen.by
    /\ seen'.stale = seen.stale
    /\ UNCHANGED <<order, request, notice, job>>

(* Create, field by field.                                                 *)
LEMMA CreateIs ==
    ASSUME ShelfType, NEW row \in Rows, row.live, NEW why \in Whys, Create(row, why)
    PROVE  Born(row, why)
<1> DEFINE m == Move("none", why, row.base)
<1>1. m \in Moves /\ m.delta = row.base /\ row.base \in Nat /\ row.variant \in Nat
  BY RowFields DEF Move, Moves
<1>2. moves \in Seq(Moves) /\ seen \in Notes
  BY DEF ShelfType
<1>3. /\ ~ product.live /\ product' = row
      /\ moves' = IF row.base > 0 THEN Append(moves, m) ELSE moves
      /\ seen' = [seen EXCEPT !.unbooked = row.variant]
      /\ UNCHANGED <<order, request, notice, job, spent>>
  BY DEF Create
<1>4. /\ seen' \in Notes /\ seen'.mails = seen.mails /\ seen'.twice = seen.twice /\ seen'.by = seen.by
      /\ seen'.stale = seen.stale /\ seen'.unbooked = row.variant
  <2> DEFINE n == row.variant
  <2>1. n \in Int /\ seen' = [seen EXCEPT !.unbooked = n]
    BY <1>1, <1>3
  <2> HIDE DEF n
  <2>2. /\ seen' \in Notes /\ seen'.mails = seen.mails /\ seen'.twice = seen.twice /\ seen'.by = seen.by
        /\ seen'.stale = seen.stale /\ seen'.unbooked = n
    BY <1>2, <2>1 DEF Notes
  <2> QED
    BY <2>2 DEF n
<1> HIDE DEF m
<1>5. moves' \in Seq(Moves)
  BY <1>1, <1>2, <1>3
<1>6. ASSUME moves = <<>> PROVE Total(moves') = row.base
  <2>1. Total(moves) = 0
    BY <1>2, <1>6, TotalInt
  <2>2. CASE row.base > 0
    BY <1>1, <1>2, <1>3, <2>1, <2>2, TotalAppend
  <2>3. CASE ~ row.base > 0
    BY <1>1, <1>3, <2>1, <2>3
  <2> QED
    BY <2>2, <2>3
<1> QED
  BY <1>1, <1>3, <1>4, <1>5, <1>6 DEF Born

(* create_product, an import of an unknown product, import_one.            *)
LEMMA BirthIs ==
    ASSUME ShelfType, (\E f \in Forms : CreateProduct(f) \/ ImportNew(f)) \/ (\E q \in Quotes : ImportOne(q))
    PROVE  \E row, why : Born(row, why)
<1>0. "init" \in Whys /\ "import" \in Whys /\ "dropship-import" \in Whys
  BY DEF Whys, Kinds
<1>1. ASSUME NEW f \in Forms, CreateProduct(f) PROVE \E row, why : Born(row, why)
  <2> DEFINE row == [live |-> TRUE, base |-> f.base, variant |-> VariantOf(f, 0),
            price |-> f.price, cost |-> f.cost, supplied |-> None]
  <2>1. row \in Rows /\ row.live
    BY FormTypes DEF Rows, None
  <2>2. Create(row, "init")
    BY <1>1 DEF CreateProduct
  <2> HIDE DEF row
  <2> QED
    BY <1>0, <2>1, <2>2, CreateIs
<1>2. ASSUME NEW f \in Forms, ImportNew(f) PROVE \E row, why : Born(row, why)
  <2> DEFINE row == [live |-> TRUE, base |-> f.base, variant |-> 0,
            price |-> f.price, cost |-> f.cost, supplied |-> None]
  <2>1. row \in Rows /\ row.live
    BY FormTypes DEF Rows, None
  <2>2. Create(row, "import")
    BY <1>2 DEF ImportNew
  <2> HIDE DEF row
  <2> QED
    BY <1>0, <2>1, <2>2, CreateIs
<1>3. ASSUME NEW q \in Quotes, ImportOne(q) PROVE \E row, why : Born(row, why)
  <2> DEFINE row == [live |-> TRUE, base |-> q.base, variant |-> 0,
            price |-> SalePrice(q.cost), cost |-> q.cost, supplied |-> q.cost]
  <2>1. row \in Rows /\ row.live
    BY QuoteTypes DEF Rows, None
  <2>2. Create(row, "dropship-import")
    BY <1>3 DEF ImportOne
  <2> HIDE DEF row
  <2> QED
    BY <1>0, <2>1, <2>2, CreateIs
<1> QED
  BY <1>1, <1>2, <1>3

(* What a locked writer, or the removal of movements, does.                *)
Writes ==
    /\ product' \in Rows /\ product'.live = product.live
    /\ product'.price = product.price /\ product'.cost = product.cost
    /\ moves' \in Seq(Moves)
    /\ ~ product.live /\ moves = <<>> => moves' = <<>>
    /\ product'.base + product'.variant - Total(moves') - seen'.unbooked
         = product.base + product.variant - Total(moves) - seen.unbooked
    /\ order' \in [Orders -> {"new", "active", "cancelled"}]
    /\ order' # order => product.live
    /\ job' \in [Workers -> Jobs]
    /\ \A v \in Workers : /\ Same(job[v], job'[v]) /\ job'[v].first = job[v].first
                          /\ job'[v].fresh => job[v].fresh /\ product' = product
    /\ seen' \in Notes /\ seen'.mails = seen.mails /\ seen'.twice = seen.twice /\ seen'.by = seen.by
    /\ seen'.stale = seen.stale
    /\ UNCHANGED <<request, notice>>

(* The calls under way when the row is changed.                            *)
LEMMA OvertakenIs ==
    ASSUME ShelfType
    PROVE  /\ Overtaken \in [Workers -> Jobs]
           /\ \A v \in Workers : Same(job[v], Overtaken[v]) /\ Overtaken[v].first = job[v].first /\ ~ Overtaken[v].fresh
<1>1. ASSUME NEW v \in Workers PROVE Overtaken[v] \in Jobs /\ Same(job[v], Overtaken[v]) /\ Overtaken[v].first = job[v].first /\ ~ Overtaken[v].fresh
  <2> DEFINE k == job[v]
  <2>1. Overtaken[v] = [k EXCEPT !.fresh = FALSE]
    BY DEF Overtaken
  <2>2. k \in Jobs
    BY DEF ShelfType
  <2> HIDE DEF k
  <2>3. [k EXCEPT !.fresh = FALSE] \in Jobs /\ Same(k, [k EXCEPT !.fresh = FALSE])
         /\ [k EXCEPT !.fresh = FALSE].first = k.first /\ ~ [k EXCEPT !.fresh = FALSE].fresh
    BY <2>2 DEF Jobs, Same
  <2> QED
    BY <2>1, <2>3 DEF k
<1>2. Overtaken = [v \in Workers |-> Overtaken[v]]
  BY DEF Overtaken
<1> QED
  BY <1>1, <1>2

(* An order has at least one unit.                                         *)
LEMMA OrderTypes ==
    ASSUME NEW o \in Orders
    PROVE  Bought[o] \in Nat \ {0}
  BY ShelfAssumption

(* A row with another stock.                                               *)
LEMMA StockSet ==
    ASSUME NEW p \in Rows, NEW n \in Nat
    PROVE  /\ [p EXCEPT !.base = n] \in Rows /\ [p EXCEPT !.variant = n] \in Rows
           /\ [p EXCEPT !.base = n].base = n /\ [p EXCEPT !.base = n].variant = p.variant
           /\ [p EXCEPT !.variant = n].variant = n /\ [p EXCEPT !.variant = n].base = p.base
           /\ [p EXCEPT !.base = n].live = p.live /\ [p EXCEPT !.variant = n].live = p.live
           /\ [p EXCEPT !.base = n].price = p.price /\ [p EXCEPT !.variant = n].price = p.price
           /\ [p EXCEPT !.base = n].cost = p.cost /\ [p EXCEPT !.variant = n].cost = p.cost
  BY DEF Rows

(* Units that move with a movement, or are noted, keep the account.        *)
LEMMA SameBalance ==
    ASSUME NEW b \in Int, NEW v \in Int, NEW b2 \in Int, NEW v2 \in Int, NEW t \in Int, NEW t2 \in Int,
           NEW u \in Int, NEW u2 \in Int, NEW x \in Int, NEW y \in Int,
           b2 + v2 = b + v + x, t2 = t + y, u2 = u + x - y
    PROVE  b2 + v2 - t2 - u2 = b + v - t - u
  OBVIOUS

(* A sale, with the ledger's clamp at zero.                                *)
LEMMA SellWrites ==
    ASSUME ShelfType, NEW o \in Orders, Sell(o)
    PROVE  Writes
<1> DEFINE left  == IF o \in OfVariant THEN product.variant ELSE product.base
           rest  == Atleast0(left - Bought[o])
           taken == ~ Sold(o)
           m == Move(o, "sale", - Bought[o])
<1>0. product \in Rows /\ moves \in Seq(Moves) /\ seen \in Notes /\ order \in [Orders -> {"new", "active", "cancelled"}] /\ job \in [Workers -> Jobs]
      /\ product.base \in Nat /\ product.variant \in Nat
  BY RowFields DEF ShelfType
<1>1. left \in Nat /\ Bought[o] \in Nat /\ rest \in Nat
  <2>1. left \in Nat /\ Bought[o] \in Nat
    BY <1>0, OrderTypes
  <2> HIDE DEF left
  <2>2. left - Bought[o] \in Int
    BY <2>1
  <2> QED
    BY <2>1, <2>2, MoneyTypes
<1>2. "sale" \in Whys /\ m \in Moves /\ m.delta = - Bought[o]
  BY <1>1 DEF Move, Moves, Whys
<1>3. /\ product.live
      /\ order' = [order EXCEPT ![o] = "active"]
      /\ product' = CASE ~ taken -> product
                        [] taken /\ o \in OfVariant -> [product EXCEPT !.variant = rest]
                        [] taken /\ o \notin OfVariant -> [product EXCEPT !.base = rest]
      /\ moves' = IF taken THEN Append(moves, m) ELSE moves
      /\ job' = IF taken THEN Overtaken ELSE job
      /\ UNCHANGED <<request, notice>>
  BY DEF Sell
<1>4. seen' = IF taken THEN [seen EXCEPT !.unbooked = seen.unbooked + Bought[o] - (left - rest)] ELSE seen
  BY DEF Sell
<1>6. Total(moves) \in Int /\ seen.unbooked \in Int
  BY <1>0, TotalInt, SeenFields
<1> HIDE DEF taken, rest, m
<1>7. order' \in [Orders -> {"new", "active", "cancelled"}]
  BY <1>0, <1>3
<1>8. \A v \in Workers : Same(job[v], job[v])
  BY DEF Same
<1>9. CASE ~ taken
  <2>1. product' = product /\ moves' = moves /\ job' = job /\ seen' = seen
    BY <1>3, <1>4, <1>9
  <2> QED
    BY <1>0, <1>3, <1>6, <1>7, <1>8, <2>1 DEF Writes
<1>10. CASE taken
  <2>1. /\ product' = IF o \in OfVariant THEN [product EXCEPT !.variant = rest] ELSE [product EXCEPT !.base = rest]
        /\ moves' = Append(moves, m) /\ job' = Overtaken
        /\ seen' = [seen EXCEPT !.unbooked = seen.unbooked + Bought[o] - (left - rest)]
    BY <1>3, <1>4, <1>10
  <2>2. /\ seen' \in Notes /\ seen'.mails = seen.mails /\ seen'.twice = seen.twice /\ seen'.by = seen.by
        /\ seen'.stale = seen.stale /\ seen'.unbooked = seen.unbooked + Bought[o] - (left - rest)
    <3> DEFINE n == seen.unbooked + Bought[o] - (left - rest)
    <3>1. n \in Int /\ seen' = [seen EXCEPT !.unbooked = n]
      BY <1>1, <1>6, <2>1
    <3> HIDE DEF n
    <3>2. /\ seen' \in Notes /\ seen'.mails = seen.mails /\ seen'.twice = seen.twice /\ seen'.by = seen.by
          /\ seen'.stale = seen.stale /\ seen'.unbooked = n
      BY <1>0, <3>1 DEF Notes
    <3> QED
      BY <3>2 DEF n
  <2>3. moves' \in Seq(Moves) /\ Total(moves') = Total(moves) - Bought[o]
    <3>1. Append(moves, m) \in Seq(Moves) /\ Total(Append(moves, m)) = Total(moves) + m.delta
      BY <1>0, <1>2, TotalAppend
    <3> QED
      BY <1>1, <1>2, <1>6, <2>1, <3>1
  <2>4. job' \in [Workers -> Jobs] /\ \A v \in Workers : Same(job[v], job'[v]) /\ job'[v].first = job[v].first /\ ~ job'[v].fresh
    BY <2>1, OvertakenIs
  <2>5. /\ product' \in Rows /\ product'.live = product.live
        /\ product'.price = product.price /\ product'.cost = product.cost
        /\ product'.base + product'.variant = product.base + product.variant - (left - rest)
    <3>1. CASE o \in OfVariant
      <4>1. product' = [product EXCEPT !.variant = rest] /\ left = product.variant
        BY <2>1, <3>1
      <4>2. /\ product' \in Rows /\ product'.live = product.live /\ product'.price = product.price /\ product'.cost = product.cost
            /\ product'.base = product.base /\ product'.variant = rest
        BY <1>0, <1>1, <4>1, StockSet
      <4> HIDE DEF left
      <4> QED
        BY <1>0, <1>1, <4>1, <4>2
    <3>2. CASE o \notin OfVariant
      <4>1. product' = [product EXCEPT !.base = rest] /\ left = product.base
        BY <2>1, <3>2
      <4>2. /\ product' \in Rows /\ product'.live = product.live /\ product'.price = product.price /\ product'.cost = product.cost
            /\ product'.variant = product.variant /\ product'.base = rest
        BY <1>0, <1>1, <4>1, StockSet
      <4> HIDE DEF left
      <4> QED
        BY <1>0, <1>1, <4>1, <4>2
    <3> QED
      BY <3>1, <3>2
  <2> HIDE DEF left
  <2>6. product'.base + product'.variant - Total(moves') - seen'.unbooked
         = product.base + product.variant - Total(moves) - seen.unbooked
    <3> DEFINE x == - (left - rest)
               y == - Bought[o]
    <3>1. product'.base \in Int /\ product'.variant \in Int
      BY <2>5, RowFields
    <3>2. x \in Int /\ y \in Int /\ Total(moves') \in Int /\ seen'.unbooked \in Int
      BY <1>1, <1>6, <2>2, <2>3
    <3>3. product'.base + product'.variant = product.base + product.variant + x
      BY <1>0, <1>1, <2>5
    <3>4. Total(moves') = Total(moves) + y
      BY <1>1, <1>6, <2>3
    <3>5. seen'.unbooked = seen.unbooked + x - y
      BY <1>1, <1>6, <2>2
    <3> HIDE DEF x, y
    <3> DEFINE b2 == product'.base
               v2 == product'.variant
               t1 == Total(moves)
               t2 == Total(moves')
               u == seen.unbooked
               u2 == seen'.unbooked
               b == product.base
               v == product.variant
    <3>6. b2 \in Int /\ v2 \in Int /\ t1 \in Int /\ t2 \in Int /\ u \in Int /\ u2 \in Int /\ b \in Int /\ v \in Int
      BY <1>0, <1>6, <3>1, <3>2
    <3>7. b2 + v2 = b + v + x /\ t2 = t1 + y /\ u2 = u + x - y
      BY <3>3, <3>4, <3>5
    <3> HIDE DEF b2, v2, t1, t2, u, u2, b, v
    <3>8. b2 + v2 - t2 - u2 = b + v - t1 - u
      BY <3>2, <3>6, <3>7, SameBalance
    <3> QED
      BY <3>8 DEF b2, v2, t1, t2, u, u2, b, v
  <2> QED
    BY <1>3, <1>7, <2>2, <2>3, <2>4, <2>5, <2>6 DEF Writes
<1> QED
  BY <1>9, <1>10

(* A cancellation gives the units back.                                    *)
LEMMA CancelWrites ==
    ASSUME ShelfType, NEW o \in Orders, CancelOrder(o), product.live
    PROVE  Writes
<1> DEFINE m == Move(o, "cancel", Bought[o])
<1>0. product \in Rows /\ moves \in Seq(Moves) /\ seen \in Notes /\ order \in [Orders -> {"new", "active", "cancelled"}] /\ job \in [Workers -> Jobs]
      /\ product.base \in Nat /\ product.variant \in Nat
  BY RowFields DEF ShelfType
<1>1. Bought[o] \in Nat /\ product.base + Bought[o] \in Nat /\ product.variant + Bought[o] \in Nat
  BY <1>0, OrderTypes
<1>2. "cancel" \in Whys /\ m \in Moves /\ m.delta = Bought[o]
  BY <1>1 DEF Move, Moves, Whys
<1>3. /\ order' = [order EXCEPT ![o] = "cancelled"]
      /\ UNCHANGED <<request, notice, seen>>
      /\ IF Sold(o)
         THEN /\ product' = IF o \in OfVariant THEN [product EXCEPT !.variant = product.variant + Bought[o]]
                                                ELSE [product EXCEPT !.base = product.base + Bought[o]]
              /\ moves' = Append(moves, m)
              /\ job' = Overtaken
         ELSE UNCHANGED <<product, moves, job>>
  BY DEF CancelOrder
<1>6. Total(moves) \in Int /\ seen.unbooked \in Int
  BY <1>0, TotalInt, SeenFields
<1> HIDE DEF m
<1>7. order' \in [Orders -> {"new", "active", "cancelled"}]
  BY <1>0, <1>3
<1>8. \A v \in Workers : Same(job[v], job[v])
  BY DEF Same
<1>9. CASE ~ Sold(o)
  <2>1. product' = product /\ moves' = moves /\ job' = job /\ seen' = seen
    BY <1>3, <1>9
  <2> QED
    BY <1>0, <1>3, <1>6, <1>7, <1>8, <2>1 DEF Writes
<1>10. CASE Sold(o)
  <2>1. /\ product' = IF o \in OfVariant THEN [product EXCEPT !.variant = product.variant + Bought[o]]
                                                ELSE [product EXCEPT !.base = product.base + Bought[o]]
        /\ moves' = Append(moves, m) /\ job' = Overtaken /\ seen' = seen
    BY <1>3, <1>10
  <2>3. moves' \in Seq(Moves) /\ Total(moves') = Total(moves) + Bought[o]
    BY <1>0, <1>2, <2>1, TotalAppend
  <2>4. job' \in [Workers -> Jobs] /\ \A v \in Workers : Same(job[v], job'[v]) /\ job'[v].first = job[v].first /\ ~ job'[v].fresh
    BY <2>1, OvertakenIs
  <2>5. /\ product' \in Rows /\ product'.live = product.live
        /\ product'.price = product.price /\ product'.cost = product.cost
        /\ product'.base + product'.variant = product.base + product.variant + Bought[o]
    <3>1. CASE o \in OfVariant
      <4>2. /\ product' \in Rows /\ product'.live = product.live /\ product'.price = product.price /\ product'.cost = product.cost
            /\ product'.base = product.base /\ product'.variant = product.variant + Bought[o]
        BY <1>0, <1>1, <2>1, <3>1, StockSet
      <4> QED
        BY <1>0, <1>1, <4>2
    <3>2. CASE o \notin OfVariant
      <4>2. /\ product' \in Rows /\ product'.live = product.live /\ product'.price = product.price /\ product'.cost = product.cost
            /\ product'.variant = product.variant /\ product'.base = product.base + Bought[o]
        BY <1>0, <1>1, <2>1, <3>2, StockSet
      <4> QED
        BY <1>0, <1>1, <4>2
    <3> QED
      BY <3>1, <3>2
  <2>6. product'.base + product'.variant - Total(moves') - seen'.unbooked
         = product.base + product.variant - Total(moves) - seen.unbooked
    <3> DEFINE x == Bought[o]
    <3>1. product'.base \in Int /\ product'.variant \in Int
      BY <2>5, RowFields
    <3>2. x \in Int /\ Total(moves') \in Int /\ seen'.unbooked \in Int
      BY <1>1, <1>6, <2>1, <2>3
    <3>3. product'.base + product'.variant = product.base + product.variant + x
      BY <2>5
    <3>4. Total(moves') = Total(moves) + x
      BY <2>3
    <3> HIDE DEF x
    <3>5. seen'.unbooked = seen.unbooked + x - x
      BY <1>6, <2>1, <3>2
    <3> DEFINE b2 == product'.base
               v2 == product'.variant
               t1 == Total(moves)
               t2 == Total(moves')
               u == seen.unbooked
               u2 == seen'.unbooked
               b == product.base
               v == product.variant
    <3>6. b2 \in Int /\ v2 \in Int /\ t1 \in Int /\ t2 \in Int /\ u \in Int /\ u2 \in Int /\ b \in Int /\ v \in Int
      BY <1>0, <1>6, <3>1, <3>2
    <3>7. b2 + v2 = b + v + x /\ t2 = t1 + x /\ u2 = u + x - x
      BY <3>3, <3>4, <3>5
    <3> HIDE DEF b2, v2, t1, t2, u, u2, b, v
    <3>8. b2 + v2 - t2 - u2 = b + v - t1 - u
      BY <3>2, <3>6, <3>7, SameBalance
    <3> QED
      BY <3>8 DEF b2, v2, t1, t2, u, u2, b, v
  <2> QED
    BY <1>0, <1>3, <1>7, <2>1, <2>3, <2>4, <2>5, <2>6 DEF Writes
<1> QED
  BY <1>9, <1>10

(* The removal of one movement, or of all, is noted.                       *)
LEMMA RemoveWrites ==
    ASSUME ShelfType, (\E i \in DOMAIN moves : RemoveMovement(i)) \/ ClearMovements
    PROVE  Writes
<1>0. /\ product \in Rows /\ moves \in Seq(Moves) /\ seen \in Notes /\ order \in [Orders -> {"new", "active", "cancelled"}] /\ job \in [Workers -> Jobs]
      /\ product.base \in Nat /\ product.variant \in Nat
  BY RowFields DEF ShelfType
<1>1. Total(moves) \in Int /\ seen.unbooked \in Int
  BY <1>0, TotalInt, SeenFields
<1>2. \A v \in Workers : Same(job[v], job[v])
  BY DEF Same
<1>3. PICK n \in Int : /\ moves' \in Seq(Moves) /\ Total(moves') = Total(moves) - n
                       /\ seen' = [seen EXCEPT !.unbooked = seen.unbooked + n]
                       /\ moves # <<>>
  <2>1. ASSUME NEW i \in DOMAIN moves, RemoveMovement(i)
        PROVE \E n \in Int : /\ moves' \in Seq(Moves) /\ Total(moves') = Total(moves) - n
                       /\ seen' = [seen EXCEPT !.unbooked = seen.unbooked + n]
                       /\ moves # <<>>
    <3>1. moves' = RemoveAt(moves, i) /\ seen' = [seen EXCEPT !.unbooked = seen.unbooked + moves[i].delta]
      BY <2>1 DEF RemoveMovement
    <3>2. moves[i].delta \in Int
      BY <1>0, DeltaInt
    <3>3. moves' \in Seq(Moves) /\ Total(moves') = Total(moves) - moves[i].delta
      BY <1>0, <3>1, TotalRemove
    <3>4. moves # <<>>
      BY <1>0
    <3> QED
      BY <3>1, <3>2, <3>3, <3>4
  <2>2. ASSUME ClearMovements
        PROVE \E n \in Int : /\ moves' \in Seq(Moves) /\ Total(moves') = Total(moves) - n
                       /\ seen' = [seen EXCEPT !.unbooked = seen.unbooked + n]
                       /\ moves # <<>>
    <3>1. moves' = <<>> /\ seen' = [seen EXCEPT !.unbooked = seen.unbooked + Total(moves)] /\ moves # <<>>
      BY <2>2 DEF ClearMovements, Booked
    <3>2. <<>> \in Seq(Moves)
      OBVIOUS
    <3>3. Total(moves') = 0
      BY <3>1, <3>2, TotalInt
    <3> QED
      BY <1>1, <3>1, <3>2, <3>3
  <2> QED
    BY <2>1, <2>2
<1>4. UNCHANGED <<product, order, request, notice, job>>
  BY DEF RemoveMovement, ClearMovements
<1>6. /\ seen' \in Notes /\ seen'.mails = seen.mails /\ seen'.twice = seen.twice /\ seen'.by = seen.by
      /\ seen'.stale = seen.stale /\ seen'.unbooked = seen.unbooked + n
  <2> DEFINE k == seen.unbooked + n
  <2>1. k \in Int /\ seen' = [seen EXCEPT !.unbooked = k]
    BY <1>1, <1>3
  <2> HIDE DEF k
  <2>2. /\ seen' \in Notes /\ seen'.mails = seen.mails /\ seen'.twice = seen.twice /\ seen'.by = seen.by
        /\ seen'.stale = seen.stale /\ seen'.unbooked = k
    BY <1>0, <2>1 DEF Notes
  <2> QED
    BY <2>2 DEF k
<1>7. product'.base + product'.variant - Total(moves') - seen'.unbooked
         = product.base + product.variant - Total(moves) - seen.unbooked
  BY <1>0, <1>1, <1>3, <1>4, <1>6
<1> QED
  BY <1>0, <1>2, <1>3, <1>4, <1>6, <1>7 DEF Writes

-----------------------------------------------------------------------------
(* What a step can be; before the product exists.                          *)

(* Before the product exists there is nothing that speaks of it.           *)
OnShelf ==
    /\ ~ product.live => moves = <<>> /\ seen.by = NoRule
    /\ \A w \in Workers : job[w].pc = "ready" => product.live
    /\ \A w \in Workers : job[w].to.live = job[w].from.live
    /\ \A w \in Workers : job[w].r # NoRequest => request[job[w].r].status # "absent"
    /\ \A r \in Requests : request[r].status # "absent" => product.live
    /\ \A o \in Orders : order[o] # "new" => product.live

(* A step of a round of mails, or the end of a call.                       *)
Rounds(w) == Gather(w) \/ CommitNotices(w) \/ Crash(w) \/ \E e \in Emails, ok \in BOOLEAN : Mail(w, e, ok)

(* What a step can be.                                                     *)
LEMMA ShelfStep ==
    ASSUME ShelfType, OnShelf, Next
    PROVE  \/ \E row, why : Born(row, why)
           \/ Writes
           \/ \E r \in Requests, o \in Orders : \E qty \in 1..Bought[o] : OpenReturn(r, o, qty)
           \/ \E e \in Emails : Subscribe(e)
           \/ \E w \in Workers : \/ \E j : Takes(w, j)
                                 \/ Commit(w) \/ Rounds(w)
<1>1. CASE \E f \in Forms : CreateProduct(f) \/ ImportNew(f)
  BY <1>1, BirthIs
<1>2. CASE \E q \in Quotes : ImportOne(q)
  BY <1>2, BirthIs
<1>3. ASSUME NEW o \in Orders, Sell(o) \/ CancelOrder(o) PROVE Writes
  <2>1. CASE Sell(o)
    BY <2>1, SellWrites
  <2>2. CASE CancelOrder(o)
    <3>1. product.live
      BY <2>2 DEF CancelOrder, OnShelf
    <3> QED
      BY <2>2, <3>1, CancelWrites
  <2> QED
    BY <1>3, <2>1, <2>2
<1>4. CASE (\E i \in DOMAIN moves : RemoveMovement(i)) \/ ClearMovements
  BY <1>4, RemoveWrites
<1>5. ASSUME NEW w \in Workers,
             \/ \E f \in Forms : SaveForm(w, f) \/ Import(w, f)
             \/ \E q \in Quotes, reprice \in BOOLEAN : Sync(w, q, reprice)
             \/ \E rule \in Rules : ApplyRule(w, rule) \/ BulkPrice(w, rule)
             \/ \E r \in Requests : \/ Withdraw(w, r)
                                    \/ \E s \in {"approved", "rejected", "refunded", "cancelled"} : Decide(w, r, s)
             \/ ReadShelf(w)
      PROVE  \E j : Takes(w, j)
  <2>1. CASE \E f \in Forms : SaveForm(w, f) \/ Import(w, f)
    BY <2>1, FormTakes
  <2>2. CASE \E q \in Quotes, reprice \in BOOLEAN : Sync(w, q, reprice)
    BY <2>2, SyncTakes
  <2>3. ASSUME NEW rule \in Rules, ApplyRule(w, rule) \/ BulkPrice(w, rule) PROVE \E j : Takes(w, j)
    <3>1. Reprice(w, rule, rule) \/ Reprice(w, rule, NoRule)
      BY <2>3 DEF ApplyRule, BulkPrice
    <3> QED
      BY <3>1, PriceTakes
  <2>4. ASSUME NEW r \in Requests, \/ Withdraw(w, r)
                                   \/ \E s \in {"approved", "rejected", "refunded", "cancelled"} : Decide(w, r, s)
        PROVE \E j : Takes(w, j)
    <3>1. \E s \in Decisions : Decide(w, r, s)
      BY <2>4 DEF Withdraw, Decisions, Terminal
    <3> QED
      BY <3>1, DecideTakes
  <2>5. CASE ReadShelf(w)
    BY <2>5, ShelfTakes
  <2> QED
    BY <1>5, <2>1, <2>2, <2>3, <2>4, <2>5
<1> QED
  BY <1>1, <1>2, <1>3, <1>4, <1>5 DEF Next, Rounds

(* A record that takes the place of another.                               *)
LEMMA JobSet ==
    ASSUME ShelfType, NEW w \in Workers, NEW j \in Jobs, About(j), job' = [job EXCEPT ![w] = j]
    PROVE  /\ job' \in [Workers -> Jobs] /\ job'[w] = j
           /\ \A v \in Workers \ {w} : job'[v] = job[v]
           /\ \A v \in Workers : About(job'[v])
<1>1. job \in [Workers -> Jobs] /\ \A v \in Workers : About(job[v])
  BY DEF ShelfType
<1>2. job' \in [Workers -> Jobs] /\ job'[w] = j /\ \A v \in Workers \ {w} : job'[v] = job[v]
  BY <1>1
<1> QED
  BY <1>1, <1>2

(* Kinds of calls do not change with what a call knows of others.          *)
LEMMA SameAbout ==
    ASSUME NEW j, NEW k, Same(j, k), About(j)
    PROVE  About(k)
  BY DEF Same, About

(* A round of mails, step by step.                                         *)
LEMMA RoundIs ==
    ASSUME ShelfType, NEW w \in Workers, Rounds(w)
    PROVE  \E j \in Jobs :
              /\ About(j) /\ j.pc \in {"idle", "mailing"} /\ job' = [job EXCEPT ![w] = j]
              /\ j.r = NoRequest /\ j.rule = NoRule /\ j.from = NoProduct /\ j.to = NoProduct
              /\ UNCHANGED <<product, moves, order, request>>
              /\ seen' \in Notes /\ seen'.unbooked = seen.unbooked /\ seen'.stale = seen.stale /\ seen'.by = seen.by
              /\ notice' \in [Emails -> {"none", "waiting", "mailed"}]
<1>0. job[w] \in Jobs /\ About(job[w]) /\ seen \in Notes /\ notice \in [Emails -> {"none", "waiting", "mailed"}]
  BY DEF ShelfType
<1>1. CASE Gather(w)
  <2> DEFINE j == IF Waiting = {} THEN Idle ELSE [Idle EXCEPT !.pc = "mailing", !.waiting = Waiting]
             t == (seen.twice \/ \E v \in Workers :
                                  job[v].pc = "mailing" /\ Waiting \cap (job[v].waiting \cup job[v].sent) # {})
  <2>1. job' = [job EXCEPT ![w] = j] /\ UNCHANGED <<product, moves, order, request, notice>>
    BY <1>1 DEF Gather
  <2>2. seen' = [seen EXCEPT !.twice = t]
    BY <1>1 DEF Gather
  <2>3. Waiting \in SUBSET Emails
    BY DEF Waiting
  <2>4. /\ j \in Jobs /\ About(j) /\ j.pc \in {"idle", "mailing"}
        /\ j.r = NoRequest /\ j.rule = NoRule /\ j.from = NoProduct /\ j.to = NoProduct
    <3>1. CASE Waiting = {}
      BY <3>1, IdleIs
    <3>2. CASE Waiting # {}
      <4>1. j = [Idle EXCEPT !.pc = "mailing", !.waiting = Waiting]
        BY <3>2
      <4> HIDE DEF j
      <4>2. /\ j \in Jobs /\ j.pc = "mailing" /\ j.r = NoRequest /\ j.rule = NoRule /\ j.from = NoProduct /\ j.to = NoProduct
        BY <2>3, <4>1, IdleIs DEF Jobs, Steps
      <4> QED
        BY <4>2 DEF About
    <3> QED
      BY <3>1, <3>2
  <2>5. seen' \in Notes /\ seen'.unbooked = seen.unbooked /\ seen'.stale = seen.stale /\ seen'.by = seen.by
    <3>1. t \in BOOLEAN
      BY <1>0, SeenFields
    <3> HIDE DEF t
    <3> QED
      BY <1>0, <2>2, <3>1 DEF Notes
  <2> HIDE DEF j, t
  <2> QED
    BY <1>0, <2>1, <2>4, <2>5
<1>2. CASE CommitNotices(w)
  <2>1. /\ notice' = [e \in Emails |-> IF e \in Marked(w) THEN "mailed" ELSE notice[e]]
        /\ job' = [job EXCEPT ![w] = Idle]
        /\ UNCHANGED <<product, moves, order, request, seen>>
    BY <1>2 DEF CommitNotices
  <2>2. notice' \in [Emails -> {"none", "waiting", "mailed"}]
    BY <1>0, <2>1
  <2> QED
    BY <1>0, <2>1, <2>2, IdleIs
<1>3. CASE Crash(w)
  <2> DEFINE t == (seen.twice \/ job[w].sent # {})
  <2>1. /\ seen' = [seen EXCEPT !.twice = t]
        /\ job' = [job EXCEPT ![w] = Idle]
        /\ UNCHANGED <<product, moves, order, request, notice>>
    BY <1>3 DEF Crash
  <2>2. seen' \in Notes /\ seen'.unbooked = seen.unbooked /\ seen'.stale = seen.stale /\ seen'.by = seen.by
    <3>1. t \in BOOLEAN
      BY <1>0, SeenFields
    <3> HIDE DEF t
    <3> QED
      BY <1>0, <2>1, <3>1 DEF Notes
  <2> HIDE DEF t
  <2> QED
    BY <1>0, <2>1, <2>2, IdleIs
<1>4. ASSUME NEW e \in Emails, NEW ok \in BOOLEAN, Mail(w, e, ok)
      PROVE  \E j \in Jobs :
              /\ About(j) /\ j.pc \in {"idle", "mailing"} /\ job' = [job EXCEPT ![w] = j]
              /\ j.r = NoRequest /\ j.rule = NoRule /\ j.from = NoProduct /\ j.to = NoProduct
              /\ UNCHANGED <<product, moves, order, request>>
              /\ seen' \in Notes /\ seen'.unbooked = seen.unbooked /\ seen'.stale = seen.stale /\ seen'.by = seen.by
              /\ notice' \in [Emails -> {"none", "waiting", "mailed"}]
  <2> DEFINE k == job[w]
             a == k.waiting \ {e}
             b == IF ok THEN k.sent \cup {e} ELSE k.sent
             j == [k EXCEPT !.waiting = a, !.sent = b]
  <2>1. job' = [job EXCEPT ![w] = j] /\ UNCHANGED <<product, moves, order, request, notice>> /\ k.pc = "mailing"
    BY <1>0, <1>4 DEF Mail, ShelfType
  <2>2. a \in SUBSET Emails /\ b \in SUBSET Emails
    BY <1>0, JobFields
  <2>3. k \in Jobs /\ About(k)
    BY <1>0
  <2> HIDE DEF a, b, k
  <2>4. j \in Jobs /\ j.pc = "mailing" /\ j.r = k.r /\ j.rule = k.rule /\ j.from = k.from /\ j.to = k.to
    BY <2>1, <2>2, <2>3 DEF Jobs
  <2> HIDE DEF j
  <2>5. About(j) /\ j.r = NoRequest /\ j.rule = NoRule /\ j.from = NoProduct /\ j.to = NoProduct
    BY <2>1, <2>3, <2>4 DEF About
  <2>6. seen' \in Notes /\ seen'.unbooked = seen.unbooked /\ seen'.stale = seen.stale /\ seen'.by = seen.by
    <3>1. CASE ok
      <4>1. seen' = [seen EXCEPT !.mails[e] = seen.mails[e] + 1]
        BY <1>4, <3>1 DEF Mail
      <4> DEFINE n == [seen.mails EXCEPT ![e] = seen.mails[e] + 1]
      <4>2. n \in [Emails -> Nat]
        BY SeenFields
      <4>3. seen' = [seen EXCEPT !.mails = n]
        BY <4>1
      <4> HIDE DEF n
      <4> QED
        BY <1>0, <4>2, <4>3 DEF Notes
    <3>2. CASE ~ ok
      BY <1>0, <1>4, <3>2 DEF Mail
    <3> QED
      BY <3>1, <3>2
  <2> QED
    BY <1>0, <2>1, <2>4, <2>5, <2>6
<1> QED
  BY <1>1, <1>2, <1>3, <1>4 DEF Rounds

-----------------------------------------------------------------------------
(* Types, and who has been overtaken; the account of the units.            *)

(* The records that a commit, or a locked writer, leaves.                  *)
LEMMA TypeStep ==
    ASSUME ShelfType, OnShelf, Next
    PROVE  ShelfType'
<1>0. /\ product \in Rows /\ moves \in Seq(Moves) /\ order \in [Orders -> {"new", "active", "cancelled"}]
      /\ request \in [Requests -> Returns] /\ notice \in [Emails -> {"none", "waiting", "mailed"}]
      /\ job \in [Workers -> Jobs] /\ seen \in Notes /\ \A w \in Workers : About(job[w])
  BY DEF ShelfType
<1>1. ASSUME NEW row, NEW why, Born(row, why) PROVE ShelfType'
  BY <1>0, <1>1 DEF Born, ShelfType
<1>2. CASE Writes
  <2>1. \A w \in Workers : About(job'[w])
    BY <1>0, <1>2, SameAbout DEF Writes
  <2> QED
    BY <1>0, <1>2, <2>1 DEF Writes, ShelfType
<1>3. ASSUME NEW r \in Requests, NEW o \in Orders, NEW qty \in 1..Bought[o], OpenReturn(r, o, qty)
      PROVE  ShelfType'
  <2>1. Bought[o] \in Nat
    BY OrderTypes
  <2>2. [status |-> "requested", o |-> o, qty |-> qty] \in Returns
    BY <2>1 DEF Returns, Statuses
  <2>3. request' \in [Requests -> Returns]
    BY <1>0, <1>3, <2>2 DEF OpenReturn
  <2> QED
    BY <1>0, <1>3, <2>3 DEF OpenReturn, ShelfType
<1>4. ASSUME NEW e \in Emails, Subscribe(e) PROVE ShelfType'
  <2>1. notice' \in [Emails -> {"none", "waiting", "mailed"}]
    BY <1>0, <1>4 DEF Subscribe
  <2> QED
    BY <1>0, <1>4, <2>1 DEF Subscribe, ShelfType
<1>5. ASSUME NEW w \in Workers, NEW j, Takes(w, j) PROVE ShelfType'
  <2>1. job' \in [Workers -> Jobs] /\ \A v \in Workers : About(job'[v])
    BY <1>5, JobSet DEF Takes
  <2>2. UNCHANGED <<product, moves, order, request, notice, seen>>
    BY <1>5 DEF Takes
  <2> QED
    BY <1>0, <2>1, <2>2 DEF ShelfType
<1>6. ASSUME NEW w \in Workers, Commit(w) PROVE ShelfType'
  <2>1. /\ product' \in Rows /\ moves' \in Seq(Moves) /\ request' \in [Requests -> Returns]
        /\ job' \in [Workers -> Jobs] /\ seen' \in Notes /\ UNCHANGED <<order, notice>>
        /\ \E j \in {Idle, [Idle EXCEPT !.pc = "restocked"]} : job'[w] = j
        /\ \A v \in Workers \ {w} : Same(job[v], job'[v])
    BY <1>6, CommitIs
  <2>2. About(Idle) /\ About([Idle EXCEPT !.pc = "restocked"])
    BY IdleIs DEF About, Jobs
  <2>3. \A v \in Workers : About(job'[v])
    BY <1>0, <2>1, <2>2, SameAbout
  <2> QED
    BY <1>0, <2>1, <2>3 DEF ShelfType
<1>7. ASSUME NEW w \in Workers, Rounds(w) PROVE ShelfType'
  <2>1. PICK j \in Jobs :
              /\ About(j) /\ job' = [job EXCEPT ![w] = j]
              /\ UNCHANGED <<product, moves, order, request>>
              /\ seen' \in Notes
              /\ notice' \in [Emails -> {"none", "waiting", "mailed"}]
    BY <1>7, RoundIs
  <2>2. job' \in [Workers -> Jobs] /\ \A v \in Workers : About(job'[v])
    BY <2>1, JobSet
  <2> QED
    BY <1>0, <2>1, <2>2 DEF ShelfType
<1> QED
  BY <1>1, <1>2, <1>3, <1>4, <1>5, <1>6, <1>7, ShelfStep

(* Every step keeps OnShelf.                                               *)
LEMMA ShelfKept ==
    ASSUME ShelfType, OnShelf, Next
    PROVE  OnShelf'
<1>0. /\ product \in Rows /\ product.live \in BOOLEAN /\ moves \in Seq(Moves)
      /\ job \in [Workers -> Jobs] /\ \A w \in Workers : About(job[w])
  BY RowFields DEF ShelfType
<1>s. /\ ~ product.live => moves = <<>> /\ seen.by = NoRule
      /\ \A w \in Workers : job[w].pc = "ready" => product.live
      /\ \A w \in Workers : job[w].to.live = job[w].from.live
      /\ \A w \in Workers : job[w].r # NoRequest => request[job[w].r].status # "absent"
      /\ \A r \in Requests : request[r].status # "absent" => product.live
      /\ \A o \in Orders : order[o] # "new" => product.live
  BY DEF OnShelf
<1>1. ASSUME NEW row, NEW why, Born(row, why) PROVE OnShelf'
  BY <1>s, <1>1 DEF Born, OnShelf
<1>2. CASE Writes
  <2>1. \A w \in Workers : job'[w].pc = job[w].pc /\ job'[w].r = job[w].r /\ job'[w].from = job[w].from /\ job'[w].to = job[w].to
    BY <1>2 DEF Writes, Same
  <2>2. /\ product'.live = product.live /\ request' = request /\ seen'.by = seen.by
        /\ ~ product.live /\ moves = <<>> => moves' = <<>>
        /\ order' # order => product.live
    BY <1>2 DEF Writes
  <2> QED
    BY <1>s, <2>1, <2>2 DEF OnShelf
<1>3. ASSUME NEW r \in Requests, NEW o \in Orders, NEW qty \in 1..Bought[o], OpenReturn(r, o, qty)
      PROVE  OnShelf'
  <2>1. /\ order[o] = "active" /\ UNCHANGED <<product, moves, order, job, seen>>
        /\ request' = [request EXCEPT ![r] = [status |-> "requested", o |-> o, qty |-> qty]]
    BY <1>3 DEF OpenReturn
  <2>2. product.live
    BY <1>s, <2>1
  <2>3. \A x \in Requests : request[x].status # "absent" => request'[x].status # "absent"
    BY <2>1 DEF ShelfType
  <2>4. \A w \in Workers : job[w].r \in Requests \cup {NoRequest}
    BY <1>0, JobFields
  <2> QED
    BY <1>s, <2>1, <2>2, <2>3, <2>4 DEF OnShelf
<1>4. ASSUME NEW e \in Emails, Subscribe(e) PROVE OnShelf'
  BY <1>s, <1>4 DEF Subscribe, OnShelf
<1>5. ASSUME NEW w \in Workers, NEW j, Takes(w, j) PROVE OnShelf'
  <2>1. /\ job'[w] = j /\ \A v \in Workers \ {w} : job'[v] = job[v]
    BY <1>5, JobSet DEF Takes
  <2>2. /\ UNCHANGED <<product, moves, order, request, notice, seen>>
        /\ j.pc = "ready" => product.live \/ job[w].pc = "asked"
        /\ j.to.live = j.from.live
        /\ j.r # NoRequest => Open(j.r) \/ j.r = job[w].r
    BY <1>5 DEF Takes
  <2>3. job[w].pc = "asked" => product.live
    <3>1. job[w].pc = "asked" => job[w].r # NoRequest /\ job[w].r \in Requests
      BY <1>0, JobFields DEF About
    <3> QED
      BY <1>s, <3>1
  <2>4. \A r : Open(r) => request[r].status # "absent"
    BY DEF Open
  <2>5. j.r # NoRequest => request[j.r].status # "absent"
    BY <1>s, <2>2, <2>4
  <2> QED
    BY <1>s, <2>1, <2>2, <2>3, <2>5 DEF OnShelf
<1>6. ASSUME NEW w \in Workers, Commit(w) PROVE OnShelf'
  <2> DEFINE j == job[w]
  <2>1. /\ product' = Flush(product, j.from, j.to) /\ j.pc = "ready"
        /\ request' = IF j.r = NoRequest THEN request ELSE [request EXCEPT ![j.r].status = j.kind]
        /\ UNCHANGED <<order, notice>>
        /\ \E k \in {Idle, [Idle EXCEPT !.pc = "restocked"]} : job'[w] = k
        /\ \A v \in Workers \ {w} : Same(job[v], job'[v])
    BY <1>6, CommitIs
  <2>2. product.live /\ j.to.live = j.from.live /\ j.from \in Rows /\ j.to \in Rows
    BY <1>s, <1>0, <2>1, JobFields
  <2>3. product'.live
    BY <1>0, <2>1, <2>2, FlushIs
  <2>4. \A x \in Requests : request[x].status # "absent" => request'[x].status # "absent"
    <3>1. j.r # NoRequest => j.r \in Requests /\ j.kind \in Decisions
      BY <1>0, JobFields DEF About
    <3>2. \A s \in Decisions : s # "absent"
      BY DEF Decisions, Terminal
    <3>3. request \in [Requests -> Returns]
      BY DEF ShelfType
    <3> HIDE DEF j
    <3>4. CASE j.r = NoRequest
      BY <2>1, <3>4
    <3>5. CASE j.r # NoRequest
      <4>1. request' = [request EXCEPT ![j.r] = [request[j.r] EXCEPT !.status = j.kind]]
        BY <2>1, <3>5
      <4>2. request[j.r] \in Returns
        BY <3>1, <3>3, <3>5
      <4>3. [request[j.r] EXCEPT !.status = j.kind].status = j.kind
        BY <4>2 DEF Returns
      <4> QED
        BY <3>1, <3>2, <3>3, <3>5, <4>1, <4>3
    <3> QED
      BY <3>4, <3>5
  <2>5. /\ Idle.pc # "ready" /\ Idle.to.live = Idle.from.live /\ Idle.r = NoRequest
        /\ [Idle EXCEPT !.pc = "restocked"].pc # "ready" /\ [Idle EXCEPT !.pc = "restocked"].r = NoRequest
        /\ [Idle EXCEPT !.pc = "restocked"].to.live = [Idle EXCEPT !.pc = "restocked"].from.live
    BY IdleIs DEF Jobs
  <2>6. job'[w].pc # "ready" /\ job'[w].to.live = job'[w].from.live /\ job'[w].r = NoRequest
    BY <2>1, <2>5
  <2>7. \A v \in Workers \ {w} : job'[v].pc = job[v].pc /\ job'[v].r = job[v].r /\ job'[v].from = job[v].from /\ job'[v].to = job[v].to
    BY <2>1 DEF Same
  <2>8. \A v \in Workers : job[v].r \in Requests \cup {NoRequest}
    BY <1>0, JobFields
  <2> HIDE DEF j
  <2> QED
    BY <1>s, <2>3, <2>4, <2>6, <2>7, <2>8 DEF OnShelf
<1>7. ASSUME NEW w \in Workers, Rounds(w) PROVE OnShelf'
  <2>1. PICK j \in Jobs :
              /\ About(j) /\ j.pc \in {"idle", "mailing"} /\ job' = [job EXCEPT ![w] = j]
              /\ j.r = NoRequest /\ j.from = NoProduct /\ j.to = NoProduct
              /\ UNCHANGED <<product, moves, order, request>>
              /\ seen'.by = seen.by
    BY <1>7, RoundIs
  <2>2. job'[w] = j /\ \A v \in Workers \ {w} : job'[v] = job[v]
    BY <2>1, JobSet
  <2> QED
    BY <1>s, <2>1, <2>2 DEF OnShelf
<1> QED
  BY <1>1, <1>2, <1>3, <1>4, <1>5, <1>6, <1>7, ShelfStep

(* While nobody has overtaken a call, the row is as the call read it.      *)
Fresh(w) == job[w].pc = "ready" /\ job[w].fresh => job[w].from = product

(* Every step keeps Fresh: who changes the row marks the calls it overtakes.*)
LEMMA FreshKept ==
    ASSUME ShelfType, OnShelf, \A w \in Workers : Fresh(w), Next
    PROVE  \A w \in Workers : Fresh(w)'
<1>0. /\ product \in Rows /\ job \in [Workers -> Jobs]
  BY RowFields DEF ShelfType
<1>s. \A w \in Workers : job[w].pc = "ready" /\ job[w].fresh => job[w].from = product
  BY DEF Fresh
<1>1. ASSUME NEW row, NEW why, Born(row, why) PROVE \A w \in Workers : Fresh(w)'
  <2>1. \A w \in Workers : job[w].pc # "ready"
    BY <1>1 DEF Born, OnShelf
  <2> QED
    BY <1>1, <2>1 DEF Born, Fresh
<1>2. CASE Writes
  <2>1. \A w \in Workers : /\ job'[w].pc = job[w].pc /\ job'[w].from = job[w].from
                           /\ job'[w].fresh => job[w].fresh /\ product' = product
    BY <1>2 DEF Writes, Same
  <2> QED
    BY <1>s, <2>1 DEF Fresh
<1>3. ASSUME NEW r \in Requests, NEW o \in Orders, NEW qty \in 1..Bought[o], OpenReturn(r, o, qty)
      PROVE  \A w \in Workers : Fresh(w)'
  BY <1>s, <1>3 DEF OpenReturn, Fresh
<1>4. ASSUME NEW e \in Emails, Subscribe(e) PROVE \A w \in Workers : Fresh(w)'
  BY <1>s, <1>4 DEF Subscribe, Fresh
<1>5. ASSUME NEW w \in Workers, NEW j, Takes(w, j) PROVE \A v \in Workers : Fresh(v)'
  <2>1. /\ job'[w] = j /\ \A v \in Workers \ {w} : job'[v] = job[v]
    BY <1>5, JobSet DEF Takes
  <2>2. product' = product /\ (j.pc = "ready" => j.from = product)
    BY <1>5 DEF Takes
  <2> QED
    BY <1>s, <2>1, <2>2 DEF Fresh
<1>6. ASSUME NEW w \in Workers, Commit(w) PROVE \A v \in Workers : Fresh(v)'
  <2>1. /\ \E k \in {Idle, [Idle EXCEPT !.pc = "restocked"]} : job'[w] = k
        /\ \A v \in Workers \ {w} : Same(job[v], job'[v]) /\ job'[v].fresh = (job[v].fresh /\ product' = product)
    BY <1>6, CommitIs
  <2>2. Idle.pc # "ready" /\ [Idle EXCEPT !.pc = "restocked"].pc # "ready"
    BY IdleIs DEF Jobs
  <2>3. job'[w].pc # "ready"
    BY <2>1, <2>2
  <2>4. \A v \in Workers \ {w} : /\ job'[v].pc = job[v].pc /\ job'[v].from = job[v].from
                                 /\ job'[v].fresh = (job[v].fresh /\ product' = product)
    BY <2>1 DEF Same
  <2> QED
    BY <1>s, <2>3, <2>4 DEF Fresh
<1>7. ASSUME NEW w \in Workers, Rounds(w) PROVE \A v \in Workers : Fresh(v)'
  <2>1. PICK j \in Jobs :
              /\ About(j) /\ j.pc \in {"idle", "mailing"} /\ job' = [job EXCEPT ![w] = j]
              /\ UNCHANGED <<product, moves, order, request>>
    BY <1>7, RoundIs
  <2>2. job'[w] = j /\ \A v \in Workers \ {w} : job'[v] = job[v]
    BY <2>1, JobSet
  <2> QED
    BY <1>s, <2>1, <2>2 DEF Fresh
<1> QED
  BY <1>1, <1>2, <1>3, <1>4, <1>5, <1>6, <1>7, ShelfStep

(* A step keeps the account of the units, or notes that a stock was        *)
(* written over a newer one.                                               *)
LEMMA StockKept ==
    ASSUME ShelfType, OnShelf, \A w \in Workers : Fresh(w), StockAccounted, Next
    PROVE  StockAccounted'
<1>0. /\ product \in Rows /\ moves \in Seq(Moves) /\ job \in [Workers -> Jobs]
      /\ product.base \in Nat /\ product.variant \in Nat /\ Total(moves) \in Int /\ seen.unbooked \in Int
  BY RowFields, TotalInt, SeenFields DEF ShelfType
<1>s. seen.stale \/ product.base + product.variant = Total(moves) + seen.unbooked
  BY DEF StockAccounted, Booked
<1>g. ASSUME seen'.stale \/ product'.base + product'.variant = Total(moves') + seen'.unbooked
      PROVE  StockAccounted'
  BY <1>g DEF StockAccounted, Booked
<1>1. ASSUME NEW row, NEW why, Born(row, why) PROVE StockAccounted'
  BY <1>1, <1>g DEF Born, OnShelf
<1>2. CASE Writes
  <2>1. /\ product'.base + product'.variant - Total(moves') - seen'.unbooked
             = product.base + product.variant - Total(moves) - seen.unbooked
        /\ seen'.stale = seen.stale
        /\ product'.base \in Int /\ product'.variant \in Int /\ Total(moves') \in Int /\ seen'.unbooked \in Int
    <3>1. product' \in Rows /\ moves' \in Seq(Moves) /\ seen' \in Notes
      BY <1>2 DEF Writes
    <3>2. product'.base \in Int /\ product'.variant \in Int /\ Total(moves') \in Int /\ seen'.unbooked \in Int
      BY <3>1, RowFields, TotalInt DEF Notes
    <3> QED
      BY <1>2, <3>2 DEF Writes
  <2> DEFINE b2 == product'.base
             v2 == product'.variant
             t2 == Total(moves')
             u2 == seen'.unbooked
             b == product.base
             v == product.variant
             t == Total(moves)
             u == seen.unbooked
  <2>2. /\ b2 \in Int /\ v2 \in Int /\ t2 \in Int /\ u2 \in Int /\ b \in Int /\ v \in Int /\ t \in Int /\ u \in Int
        /\ b2 + v2 - t2 - u2 = b + v - t - u
        /\ seen.stale \/ b + v = t + u
    BY <1>0, <1>s, <2>1
  <2> HIDE DEF b2, v2, t2, u2, b, v, t, u
  <2>3. seen.stale \/ b2 + v2 = t2 + u2
    BY <2>2
  <2> QED
    BY <1>g, <2>1, <2>3 DEF b2, v2, t2, u2
<1>3. ASSUME NEW r \in Requests, NEW o \in Orders, NEW qty \in 1..Bought[o], OpenReturn(r, o, qty)
      PROVE  StockAccounted'
  <2>1. UNCHANGED <<product, moves, seen>>
    BY <1>3 DEF OpenReturn
  <2> QED
    BY <1>s, <1>g, <2>1
<1>4. ASSUME NEW e \in Emails, Subscribe(e) PROVE StockAccounted'
  <2>1. UNCHANGED <<product, moves, seen>>
    BY <1>4 DEF Subscribe
  <2> QED
    BY <1>s, <1>g, <2>1
<1>5. ASSUME NEW w \in Workers, NEW j, Takes(w, j) PROVE StockAccounted'
  <2>1. UNCHANGED <<product, moves, seen>>
    BY <1>5 DEF Takes
  <2> QED
    BY <1>s, <1>g, <2>1
<1>6. ASSUME NEW w \in Workers, Commit(w) PROVE StockAccounted'
  <2> DEFINE j == job[w]
             f == Flush(product, j.from, j.to)
  <2>1. /\ product' = f /\ j.pc = "ready"
        /\ Total(moves') = Total(moves) + (j.to.base - j.from.base)
        /\ seen'.unbooked = seen.unbooked + (j.to.variant - j.from.variant)
        /\ seen'.stale = (seen.stale \/ (~ j.fresh /\ <<j.to.base, j.to.variant>> # <<j.from.base, j.from.variant>>))
    BY <1>6, CommitIs
  <2>2. j \in Jobs /\ j.from \in Rows /\ j.to \in Rows /\ (j.fresh => j.from = product)
    BY <1>0, <2>1, JobFields DEF Fresh
  <2>3. /\ f.base = IF j.to.base # j.from.base THEN j.to.base ELSE product.base
        /\ f.variant = IF j.to.variant # j.from.variant THEN j.to.variant ELSE product.variant
    BY <1>0, <2>2, FlushIs
  <2> DEFINE b == product.base
             v == product.variant
             b0 == j.from.base
             v0 == j.from.variant
             b1 == j.to.base
             v1 == j.to.variant
             t == Total(moves)
             t2 == Total(moves')
             u == seen.unbooked
             u2 == seen'.unbooked
             b2 == f.base
             v2 == f.variant
  <2>4. /\ b \in Int /\ v \in Int /\ b0 \in Int /\ v0 \in Int /\ b1 \in Int /\ v1 \in Int /\ t \in Int /\ u \in Int
        /\ b2 = IF b1 # b0 THEN b1 ELSE b
        /\ v2 = IF v1 # v0 THEN v1 ELSE v
        /\ t2 = t + (b1 - b0) /\ u2 = u + (v1 - v0)
        /\ j.fresh => b0 = b /\ v0 = v
    BY <1>0, <2>1, <2>2, <2>3, RowFields
  <2>5. seen.stale \/ b + v = t + u
    BY <1>s
  <2>6. seen'.stale = (seen.stale \/ (~ j.fresh /\ (b1 # b0 \/ v1 # v0)))
    BY <2>1
  <2> HIDE DEF b, v, b0, v0, b1, v1, t, t2, u, u2, b2, v2, f, j
  <2>7. ASSUME ~ seen.stale, j.fresh \/ (b1 = b0 /\ v1 = v0) PROVE b2 + v2 = t2 + u2
    <3>1. b + v = t + u
      BY <2>5, <2>7
    <3>2. CASE j.fresh
      <4>1. b0 = b /\ v0 = v /\ b2 = b1 /\ v2 = v1
        BY <2>4, <3>2
      <4> QED
        BY <2>4, <3>1, <4>1
    <3>3. CASE b1 = b0 /\ v1 = v0
      BY <2>4, <3>1, <3>3
    <3> QED
      BY <2>7, <3>2, <3>3
  <2>8. seen'.stale \/ b2 + v2 = t2 + u2
    <3>1. CASE seen.stale
      BY <2>6, <3>1
    <3>2. CASE ~ j.fresh /\ (b1 # b0 \/ v1 # v0)
      BY <2>6, <3>2
    <3> QED
      BY <2>7, <3>1, <3>2
  <2> QED
    BY <1>g, <2>1, <2>8 DEF b2, v2, t2, u2
<1>7. ASSUME NEW w \in Workers, Rounds(w) PROVE StockAccounted'
  <2>1. /\ UNCHANGED <<product, moves, order, request>>
        /\ seen'.unbooked = seen.unbooked /\ seen'.stale = seen.stale
    BY <1>7, RoundIs
  <2> QED
    BY <1>s, <1>g, <2>1
<1> QED
  BY <1>1, <1>2, <1>3, <1>4, <1>5, <1>6, <1>7, ShelfStep

-----------------------------------------------------------------------------
(* Prices that settle; requests that are decided.                          *)

(* The price a call is about to write is one the rule gives for the row    *)
(* the call has read.                                                      *)
Priced(w) ==
    job[w].rule # NoRule =>
        /\ job[w].to.price \in NewPrice(job[w].rule, job[w].from.price, job[w].from.cost)
        /\ job[w].to.cost = job[w].from.cost

(* The rules that settle: a margin, and x.99 without a floor.              *)
Settling(rule) == rule.strategy = "margin" \/ (rule.strategy = "round_99" /\ rule.floor = 0)

(* Hundreds of a price that ends in 99.                                    *)
LEMMA Division ==
    ASSUME NEW q \in Nat, NEW n \in Nat
    PROVE  /\ n \div 100 \in Nat
           /\ n <= 100 * (n \div 100) + 99
           /\ n = 100 * q + 99 => n \div 100 = q
  OBVIOUS

(* A margin, or x.99 without a floor, applied to the price it has given.   *)
LEMMA Settles ==
    ASSUME NEW rule \in Rules, Settling(rule), NEW price \in Nat, NEW cost \in Nat \cup {None},
           NEW n \in NewPrice(rule, price, cost)
    PROVE  n \in NewPrice(rule, n, cost)
<1>1. rule.strategy \in {"percent", "margin", "round_99"} /\ rule.cap \in Nat
  BY ShelfAssumption DEF ValidRules
<1>2. CASE rule.strategy = "margin"
  <2>1. CASE cost = None
    BY <1>2, <2>1 DEF NewPrice
  <2>2. CASE cost # None
    <3>1. Target(rule, price, cost) = Target(rule, n, cost)
      BY <1>2 DEF Target
    <3> QED
      BY <1>2, <2>2, <3>1 DEF NewPrice
  <2> QED
    BY <2>1, <2>2
<1>3. CASE rule.strategy = "round_99" /\ rule.floor = 0
  <2> DEFINE q == price \div 100
             T == 100 * q + 99
             cap == rule.cap
             Cut(t) == Atleast0(Lesser(Greater(t, 0), cap))
  <2>1. q \in Nat
    BY Division
  <2>2. n = Cut(T)
    <3>1. Target(rule, price, cost) = {T}
      BY <1>3 DEF Target
    <3>2. NewPrice(rule, price, cost) = {Cut(t) : t \in {T}}
      BY <1>3, <3>1 DEF NewPrice
    <3> HIDE DEF Cut, T
    <3> QED
      BY <3>2
  <2>3. NewPrice(rule, n, cost) = {Cut(100 * (n \div 100) + 99)}
    <3> DEFINE U == 100 * (n \div 100) + 99
    <3>1. Target(rule, n, cost) = {U}
      BY <1>3 DEF Target
    <3>2. NewPrice(rule, n, cost) = {Cut(t) : t \in {U}}
      BY <1>3, <3>1 DEF NewPrice
    <3> HIDE DEF Cut, U
    <3>3. NewPrice(rule, n, cost) = {Cut(U)}
      BY <3>2
    <3> QED
      BY <3>3 DEF U
  <2>4. \A t \in Nat : Cut(t) = IF t <= cap THEN t ELSE cap
    <3> SUFFICES ASSUME NEW t \in Nat PROVE Cut(t) = IF t <= cap THEN t ELSE cap
      OBVIOUS
    <3> QED
      BY <1>1 DEF Atleast0, Lesser, Greater
  <2> HIDE DEF Cut, q
  <2>5. T \in Nat /\ n \in Nat /\ cap \in Nat
    BY <1>1, <2>1, <2>2, <2>4
  <2> DEFINE U == 100 * (n \div 100) + 99
  <2>6. U \in Nat /\ n <= U
    BY <2>5, Division
  <2>7. n = T => U = T
    BY <2>1, <2>5, Division
  <2> HIDE DEF U, T, cap
  <2>8. Cut(U) = n
    <3>1. CASE T <= cap
      BY <2>2, <2>4, <2>5, <2>7, <3>1
    <3>2. CASE ~ T <= cap
      <4>1. n = cap
        BY <2>2, <2>4, <2>5, <3>2
      <4> QED
        BY <2>4, <2>5, <2>6, <4>1
    <3> QED
      BY <3>1, <3>2
  <2> QED
    BY <2>3, <2>8 DEF U
<1> QED
  BY <1>2, <1>3 DEF Settling

(* Every step keeps the prices settled.                                    *)
LEMMA PriceKept ==
    ASSUME ShelfType, OnShelf, \A w \in Workers : Fresh(w), \A w \in Workers : Priced(w), RuleSettles, Next
    PROVE  RuleSettles' /\ \A w \in Workers : Priced(w)'
<1>0. /\ product \in Rows /\ product.price \in Nat /\ product.cost \in Nat \cup {None}
      /\ job \in [Workers -> Jobs] /\ seen.by \in Rules \cup {NoRule}
  BY RowFields, SeenFields DEF ShelfType
<1>s. seen.by # NoRule /\ Settling(seen.by) => product.price \in NewPrice(seen.by, product.price, product.cost)
  BY DEF RuleSettles, Settling
<1>g. ASSUME seen'.by # NoRule /\ Settling(seen'.by) => product'.price \in NewPrice(seen'.by, product'.price, product'.cost)
      PROVE  RuleSettles'
  BY <1>g DEF RuleSettles, Settling
<1>p. \A w \in Workers : job[w].rule # NoRule =>
        /\ job[w].to.price \in NewPrice(job[w].rule, job[w].from.price, job[w].from.cost)
        /\ job[w].to.cost = job[w].from.cost
  BY DEF Priced
<1>q. ASSUME NEW w \in Workers, job'[w].rule = job[w].rule, job'[w].to = job[w].to, job'[w].from = job[w].from
      PROVE  Priced(w)'
  BY <1>p, <1>q DEF Priced
<1>r. ASSUME NEW w \in Workers, job'[w].rule = NoRule
      PROVE  Priced(w)'
  BY <1>r DEF Priced
<1>1. ASSUME NEW row, NEW why, Born(row, why) PROVE RuleSettles' /\ \A w \in Workers : Priced(w)'
  <2>1. seen'.by = NoRule /\ job' = job
    BY <1>1 DEF Born, OnShelf
  <2> QED
    BY <1>g, <1>q, <2>1
<1>2. CASE Writes
  <2>1. \A w \in Workers : job'[w].rule = job[w].rule /\ job'[w].from = job[w].from /\ job'[w].to = job[w].to
    BY <1>2 DEF Writes, Same
  <2>2. product'.price = product.price /\ product'.cost = product.cost /\ seen'.by = seen.by
    BY <1>2 DEF Writes
  <2> QED
    BY <1>g, <1>q, <1>s, <2>1, <2>2
<1>3. ASSUME NEW r \in Requests, NEW o \in Orders, NEW qty \in 1..Bought[o], OpenReturn(r, o, qty)
      PROVE  RuleSettles' /\ \A w \in Workers : Priced(w)'
  <2>1. UNCHANGED <<product, job, seen>>
    BY <1>3 DEF OpenReturn
  <2> QED
    BY <1>g, <1>q, <1>s, <2>1
<1>4. ASSUME NEW e \in Emails, Subscribe(e) PROVE RuleSettles' /\ \A w \in Workers : Priced(w)'
  <2>1. UNCHANGED <<product, job, seen>>
    BY <1>4 DEF Subscribe
  <2> QED
    BY <1>g, <1>q, <1>s, <2>1
<1>5. ASSUME NEW w \in Workers, NEW j, Takes(w, j) PROVE RuleSettles' /\ \A v \in Workers : Priced(v)'
  <2>1. /\ job'[w] = j /\ \A v \in Workers \ {w} : job'[v] = job[v]
    BY <1>5, JobSet DEF Takes
  <2>2. /\ UNCHANGED <<product, seen>>
        /\ j.rule # NoRule => /\ j.to.price \in NewPrice(j.rule, j.from.price, j.from.cost)
                              /\ j.to.cost = j.from.cost
    BY <1>5 DEF Takes
  <2>3. Priced(w)'
    BY <2>1, <2>2 DEF Priced
  <2> QED
    BY <1>g, <1>q, <1>s, <2>1, <2>2, <2>3
<1>6. ASSUME NEW w \in Workers, Commit(w) PROVE RuleSettles' /\ \A v \in Workers : Priced(v)'
  <2> DEFINE j == job[w]
             f == Flush(product, j.from, j.to)
  <2>1. /\ product' = f /\ j.pc = "ready"
        /\ \E k \in {Idle, [Idle EXCEPT !.pc = "restocked"]} : job'[w] = k
        /\ \A v \in Workers \ {w} : Same(job[v], job'[v])
        /\ seen'.by = IF j.rule # NoRule /\ j.fresh THEN j.rule
                         ELSE IF product' # product /\ (j.to.price # j.from.price \/ j.to.cost # j.from.cost)
                              THEN NoRule ELSE seen.by
    BY <1>6, CommitIs
  <2>2. /\ j \in Jobs /\ j.from \in Rows /\ j.to \in Rows /\ (j.fresh => j.from = product)
        /\ j.rule \in Rules \cup {NoRule}
    BY <1>0, <2>1, JobFields DEF Fresh
  <2>3. /\ f.price = IF j.to.price # j.from.price THEN j.to.price ELSE product.price
        /\ f.cost = IF j.to.cost # j.from.cost THEN j.to.cost ELSE product.cost
        /\ j.from = product => f = j.to
    BY <1>0, <2>2, FlushIs
  <2>4. j.rule # NoRule => /\ j.to.price \in NewPrice(j.rule, j.from.price, j.from.cost)
                           /\ j.to.cost = j.from.cost
    BY <1>p
  <2>5. Idle.rule = NoRule /\ [Idle EXCEPT !.pc = "restocked"].rule = NoRule
    BY IdleIs DEF Jobs
  <2>6. Priced(w)'
    BY <1>r, <2>1, <2>5
  <2>7. \A v \in Workers \ {w} : Priced(v)'
    BY <1>q, <2>1 DEF Same
  <2> HIDE DEF j, f
  <2>8. CASE j.rule # NoRule /\ j.fresh
    <3>1. seen'.by = j.rule /\ product' = j.to /\ j.from = product
      BY <2>1, <2>2, <2>3, <2>8
    <3>2. j.to.price \in NewPrice(j.rule, product.price, product.cost) /\ j.to.cost = product.cost
      BY <2>4, <2>8, <3>1
    <3>3. Settling(j.rule) => j.to.price \in NewPrice(j.rule, j.to.price, product.cost)
      BY <1>0, <2>2, <2>8, <3>2, Settles
    <3> QED
      BY <1>g, <2>6, <2>7, <3>1, <3>2, <3>3
  <2>9. CASE ~ (j.rule # NoRule /\ j.fresh)
    <3>1. CASE product' # product /\ (j.to.price # j.from.price \/ j.to.cost # j.from.cost)
      BY <1>g, <2>1, <2>6, <2>7, <2>9, <3>1
    <3>2. CASE product' = product \/ (j.to.price = j.from.price /\ j.to.cost = j.from.cost)
      <4>1. product'.price = product.price /\ product'.cost = product.cost /\ seen'.by = seen.by
        BY <2>1, <2>3, <2>9, <3>2
      <4> QED
        BY <1>g, <1>s, <2>6, <2>7, <4>1
    <3> QED
      BY <3>1, <3>2
  <2> QED
    BY <2>8, <2>9
<1>7. ASSUME NEW w \in Workers, Rounds(w) PROVE RuleSettles' /\ \A v \in Workers : Priced(v)'
  <2>1. PICK j \in Jobs :
              /\ About(j) /\ j.rule = NoRule /\ job' = [job EXCEPT ![w] = j]
              /\ UNCHANGED <<product, moves, order, request>>
              /\ seen'.by = seen.by
    BY <1>7, RoundIs
  <2>2. job'[w] = j /\ \A v \in Workers \ {w} : job'[v] = job[v]
    BY <2>1, JobSet
  <2> QED
    BY <1>g, <1>q, <1>r, <1>s, <2>1, <2>2
<1> QED
  BY <1>1, <1>2, <1>3, <1>4, <1>5, <1>6, <1>7, ShelfStep

(* A call that is the first to decide its request has an open one.         *)
Asked(w) == job[w].r # NoRequest /\ job[w].first => Open(job[w].r)

(* Every step keeps Asked: who decides a request marks the calls on it.    *)
LEMMA AskedKept ==
    ASSUME ShelfType, OnShelf, \A w \in Workers : Asked(w), Next
    PROVE  \A w \in Workers : Asked(w)'
<1>0. /\ job \in [Workers -> Jobs] /\ \A w \in Workers : job[w].r \in Requests \cup {NoRequest}
  BY JobFields DEF ShelfType
<1>s. \A w \in Workers : job[w].r # NoRequest /\ job[w].first => Open(job[w].r)
  BY DEF Asked
<1>1. ASSUME NEW row, NEW why, Born(row, why) PROVE \A w \in Workers : Asked(w)'
  BY <1>s, <1>1 DEF Born, Asked, Open
<1>2. CASE Writes
  <2>1. \A w \in Workers : job'[w].r = job[w].r /\ job'[w].first = job[w].first
    BY <1>2 DEF Writes, Same
  <2>2. request' = request
    BY <1>2 DEF Writes
  <2> QED
    BY <1>s, <2>1, <2>2 DEF Asked, Open
<1>3. ASSUME NEW r \in Requests, NEW o \in Orders, NEW qty \in 1..Bought[o], OpenReturn(r, o, qty)
      PROVE  \A w \in Workers : Asked(w)'
  <2>1. job' = job /\ request' = [request EXCEPT ![r] = [status |-> "requested", o |-> o, qty |-> qty]] /\ request \in [Requests -> Returns]
    BY <1>3 DEF OpenReturn, ShelfType
  <2>2. \A x \in Requests : Open(x) => Open(x)'
    BY <2>1 DEF Open
  <2> QED
    BY <1>0, <1>s, <2>1, <2>2 DEF Asked, Open
<1>4. ASSUME NEW e \in Emails, Subscribe(e) PROVE \A w \in Workers : Asked(w)'
  BY <1>s, <1>4 DEF Subscribe, Asked, Open
<1>5. ASSUME NEW w \in Workers, NEW j, Takes(w, j) PROVE \A v \in Workers : Asked(v)'
  <2>1. /\ job'[w] = j /\ \A v \in Workers \ {w} : job'[v] = job[v]
    BY <1>5, JobSet DEF Takes
  <2>2. /\ request' = request
        /\ j.r # NoRequest => Open(j.r) \/ (j.r = job[w].r /\ j.first = job[w].first)
    BY <1>5 DEF Takes
  <2> QED
    BY <1>s, <2>1, <2>2 DEF Asked, Open
<1>6. ASSUME NEW w \in Workers, Commit(w) PROVE \A v \in Workers : Asked(v)'
  <2>1. /\ \E k \in {Idle, [Idle EXCEPT !.pc = "restocked"]} : job'[w] = k
        /\ \A v \in Workers \ {w} : Same(job[v], job'[v]) /\
              job'[v].first = (job[v].first /\ ~ (job[v].r = job[w].r /\ request' # request))
        /\ request' = IF job[w].r = NoRequest THEN request ELSE [request EXCEPT ![job[w].r].status = job[w].kind]
    BY <1>6, CommitIs
  <2>2. Idle.r = NoRequest /\ [Idle EXCEPT !.pc = "restocked"].r = NoRequest
    BY IdleIs DEF Jobs
  <2>3. Asked(w)'
    BY <2>1, <2>2 DEF Asked
  <2>4. ASSUME NEW v \in Workers \ {w} PROVE Asked(v)'
    <3>1. /\ job'[v].r = job[v].r
          /\ job'[v].first = (job[v].first /\ ~ (job[v].r = job[w].r /\ request' # request))
      BY <2>1 DEF Same
    <3>2. CASE request' = request
      BY <1>s, <3>1, <3>2 DEF Asked, Open
    <3>3. CASE request' # request /\ job[v].r # NoRequest /\ job'[v].first
      <4>1. job[v].r # job[w].r /\ job[v].first
        BY <3>1, <3>3
      <4>2. request'[job[v].r] = request[job[v].r]
        BY <1>0, <2>1, <3>3, <4>1 DEF ShelfType
      <4>3. Open(job[v].r)
        BY <1>s, <3>3, <4>1
      <4> QED
        BY <3>1, <4>2, <4>3 DEF Asked, Open
    <3> QED
      BY <3>1, <3>2, <3>3 DEF Asked
  <2> QED
    BY <2>3, <2>4
<1>7. ASSUME NEW w \in Workers, Rounds(w) PROVE \A v \in Workers : Asked(v)'
  <2>1. PICK j \in Jobs :
              /\ About(j) /\ job' = [job EXCEPT ![w] = j] /\ j.r = NoRequest
              /\ UNCHANGED <<product, moves, order, request>>
    BY <1>7, RoundIs
  <2>2. job'[w] = j /\ \A v \in Workers \ {w} : job'[v] = job[v]
    BY <2>1, JobSet
  <2> QED
    BY <1>s, <2>1, <2>2 DEF Asked, Open
<1> QED
  BY <1>1, <1>2, <1>3, <1>4, <1>5, <1>6, <1>7, ShelfStep

-----------------------------------------------------------------------------
(* The mails to customers who wait.                                        *)

(* Whom a round of mails has still to mail, or has mailed.                 *)
Lists(w) == job[w].waiting \cup job[w].sent

(* Who is on a list has subscribed; who was sent a mail has been mailed.   *)
Listed(w) ==
    /\ \A e \in Lists(w) : notice[e] # "none"
    /\ \A e \in job[w].sent : seen.mails[e] > 0

(* A customer whose notice says so was mailed.                             *)
Told(e) ==
    /\ notice[e] = "mailed" => seen.mails[e] > 0
    /\ notice[e] = "none" => seen.mails[e] = 0

(* While no round was repeated or lost its record: one mail each, and who  *)
(* was mailed and still waits is on the list of a round that will say so.  *)
OneMail ==
    \A e \in Emails : /\ seen.mails[e] <= 1
                      /\ seen.mails[e] > 0 /\ notice[e] = "waiting" => \E w \in Workers : e \in job[w].sent
NotYet == \A w \in Workers : \A e \in job[w].waiting : seen.mails[e] = 0
Apart  == \A v, w \in Workers : v # w => Lists(v) \cap Lists(w) = {}
Once   == ~ seen.twice => OneMail /\ NotYet /\ Apart

(* What is known of the mails.                                             *)
MailInv == (\A w \in Workers : Listed(w)) /\ (\A e \in Emails : Told(e)) /\ Once

(* A step that leaves lists, mails and notices alone.                      *)
LEMMA MailQuiet ==
    ASSUME MailInv, notice' = notice, seen'.mails = seen.mails, seen'.twice = seen.twice,
           \A w \in Workers : job'[w].waiting = job[w].waiting /\ job'[w].sent = job[w].sent
    PROVE  MailInv'
<1>1. \A w \in Workers : Lists(w)' = Lists(w)
  BY DEF Lists
<1>2. \A w \in Workers : Listed(w)'
  BY <1>1 DEF Listed, MailInv
<1>3. \A e \in Emails : Told(e)'
  BY DEF Told, MailInv
<1>4. Once'
  BY <1>1 DEF Once, OneMail, NotYet, Apart, MailInv
<1> QED
  BY <1>2, <1>3, <1>4 DEF MailInv

(* A round of mails begins: notify_restocked reads who waits.              *)
LEMMA GatherKept ==
    ASSUME ShelfType, MailInv, NEW w \in Workers, Gather(w)
    PROVE  MailInv'
<1> DEFINE j == IF Waiting = {} THEN Idle ELSE [Idle EXCEPT !.pc = "mailing", !.waiting = Waiting]
           t == (seen.twice \/ \E v \in Workers :
                                  job[v].pc = "mailing" /\ Waiting \cap (job[v].waiting \cup job[v].sent) # {})
<1>0. job \in [Workers -> Jobs] /\ seen \in Notes /\ seen.mails \in [Emails -> Nat] /\ \A v \in Workers : About(job[v])
  BY SeenFields DEF ShelfType
<1>1. job' = [job EXCEPT ![w] = j] /\ notice' = notice
  BY DEF Gather
<1>2. seen' = [seen EXCEPT !.twice = t]
  BY DEF Gather
<1>3. seen'.mails = seen.mails /\ (seen'.twice <=> t)
  <2>1. t \in BOOLEAN
    BY SeenFields
  <2> HIDE DEF t
  <2> QED
    BY <1>0, <1>2, <2>1 DEF Notes
<1>4. j.waiting = Waiting /\ j.sent = {}
  BY IdleIs DEF Jobs
<1> HIDE DEF j
<1>5. job'[w] = j /\ \A v \in Workers \ {w} : job'[v] = job[v]
  BY <1>0, <1>1
<1>6. Lists(w)' = Waiting /\ \A v \in Workers \ {w} : Lists(v)' = Lists(v)
  BY <1>4, <1>5 DEF Lists
<1>7. \A e \in Waiting : notice[e] = "waiting" /\ e \in Emails
  BY DEF Waiting
<1>8. \A v \in Workers : Listed(v)'
  BY <1>1, <1>3, <1>4, <1>5, <1>6, <1>7 DEF Listed, MailInv
<1>9. \A e \in Emails : Told(e)'
  BY <1>1, <1>3 DEF Told, MailInv
<1>10. ASSUME ~ seen'.twice
       PROVE  OneMail' /\ NotYet' /\ Apart'
  <2>1. ~ seen.twice /\ \A v \in Workers : job[v].pc = "mailing" => Waiting \cap Lists(v) = {}
    BY <1>3, <1>10 DEF Lists
  <2>2. /\ \A e \in Emails : /\ seen.mails[e] <= 1
                             /\ seen.mails[e] > 0 /\ notice[e] = "waiting" => \E v \in Workers : e \in job[v].sent
        /\ \A v \in Workers : \A e \in job[v].waiting : seen.mails[e] = 0
        /\ \A u, v \in Workers : u # v => Lists(u) \cap Lists(v) = {}
    BY <2>1 DEF MailInv, Once, OneMail, NotYet, Apart
  <2>3. \A v \in Workers : job[v].pc # "mailing" => Lists(v) = {} /\ job[v].sent = {}
    BY <1>0 DEF About, Lists
  <2>4. \A v \in Workers : Waiting \cap Lists(v) = {}
    BY <2>1, <2>3
  <2>5. \A e \in Waiting : seen.mails[e] = 0
    <3> SUFFICES ASSUME NEW e \in Waiting, seen.mails[e] # 0 PROVE FALSE
      OBVIOUS
    <3>1. seen.mails[e] > 0 /\ notice[e] = "waiting" /\ e \in Emails
      BY <1>0, <1>7
    <3>2. PICK v \in Workers : e \in job[v].sent
      BY <2>2, <3>1
    <3> QED
      BY <2>4, <3>2 DEF Lists
  <2>6. job[w].sent = {}
    <3>1. job[w].pc = "restocked"
      BY DEF Gather
    <3> QED
      BY <2>3, <3>1
  <2>7. \A v \in Workers : job'[v].sent = job[v].sent
    BY <1>4, <1>5, <2>6
  <2>8. \A v \in Workers : \A e \in job'[v].waiting : seen'.mails[e] = 0
    BY <1>3, <1>4, <1>5, <2>2, <2>5
  <2>9. \A u, v \in Workers : u # v => Lists(u)' \cap Lists(v)' = {}
    BY <1>6, <2>2, <2>4
  <2>10. \A e \in Emails : /\ seen'.mails[e] <= 1
                           /\ seen'.mails[e] > 0 /\ notice'[e] = "waiting" => \E v \in Workers : e \in job'[v].sent
    BY <1>1, <1>3, <2>2, <2>7
  <2> QED
    BY <2>8, <2>9, <2>10 DEF OneMail, NotYet, Apart
<1>11. Once'
  BY <1>10 DEF Once
<1> QED
  BY <1>8, <1>9, <1>11 DEF MailInv

(* A call dies: its round loses the record of the mails it has sent.       *)
LEMMA CrashKept ==
    ASSUME ShelfType, MailInv, NEW w \in Workers, Crash(w)
    PROVE  MailInv'
<1> DEFINE t == (seen.twice \/ job[w].sent # {})
<1>0. job \in [Workers -> Jobs] /\ seen \in Notes
  BY DEF ShelfType
<1>1. job' = [job EXCEPT ![w] = Idle] /\ notice' = notice /\ seen' = [seen EXCEPT !.twice = t]
  BY DEF Crash
<1>3. seen'.mails = seen.mails /\ (seen'.twice <=> t)
  <2>1. t \in BOOLEAN
    BY SeenFields
  <2> HIDE DEF t
  <2> QED
    BY <1>0, <1>1, <2>1 DEF Notes
<1>5. job'[w].waiting = {} /\ job'[w].sent = {} /\ \A v \in Workers \ {w} : job'[v] = job[v]
  BY <1>0, <1>1, IdleIs
<1>6. \A v \in Workers : Lists(v)' \subseteq Lists(v) /\ job'[v].sent \subseteq job[v].sent /\ job'[v].waiting \subseteq job[v].waiting
  BY <1>5 DEF Lists
<1>8. \A v \in Workers : Listed(v)'
  BY <1>1, <1>3, <1>6 DEF Listed, MailInv
<1>9. \A e \in Emails : Told(e)'
  BY <1>1, <1>3 DEF Told, MailInv
<1>10. ASSUME ~ seen'.twice
       PROVE  OneMail' /\ NotYet' /\ Apart'
  <2>1. ~ seen.twice /\ job[w].sent = {}
    BY <1>3, <1>10
  <2>2. /\ \A e \in Emails : /\ seen.mails[e] <= 1
                             /\ seen.mails[e] > 0 /\ notice[e] = "waiting" => \E v \in Workers : e \in job[v].sent
        /\ \A v \in Workers : \A e \in job[v].waiting : seen.mails[e] = 0
        /\ \A u, v \in Workers : u # v => Lists(u) \cap Lists(v) = {}
    BY <2>1 DEF MailInv, Once, OneMail, NotYet, Apart
  <2>7. \A v \in Workers : job'[v].sent = job[v].sent
    BY <1>5, <2>1
  <2>8. \A v \in Workers : \A e \in job'[v].waiting : seen'.mails[e] = 0
    BY <1>3, <1>6, <2>2
  <2>9. \A u, v \in Workers : u # v => Lists(u)' \cap Lists(v)' = {}
    BY <1>6, <2>2
  <2>10. \A e \in Emails : /\ seen'.mails[e] <= 1
                           /\ seen'.mails[e] > 0 /\ notice'[e] = "waiting" => \E v \in Workers : e \in job'[v].sent
    BY <1>1, <1>3, <2>2, <2>7
  <2> QED
    BY <2>8, <2>9, <2>10 DEF OneMail, NotYet, Apart
<1>11. Once'
  BY <1>10 DEF Once
<1> QED
  BY <1>8, <1>9, <1>11 DEF MailInv

(* A round commits its notices.                                            *)
LEMMA NoticesKept ==
    ASSUME ShelfType, MailInv, NEW w \in Workers, CommitNotices(w)
    PROVE  MailInv'
<1>0. job \in [Workers -> Jobs] /\ notice \in [Emails -> {"none", "waiting", "mailed"}] /\ seen.mails \in [Emails -> Nat]
  BY SeenFields DEF ShelfType
<1>1. /\ notice' = [e \in Emails |-> IF e \in job[w].sent THEN "mailed" ELSE notice[e]]
      /\ job' = [job EXCEPT ![w] = Idle] /\ seen' = seen
  BY DEF CommitNotices, Marked
<1>5. job'[w].waiting = {} /\ job'[w].sent = {} /\ \A v \in Workers \ {w} : job'[v] = job[v]
  BY <1>0, <1>1, IdleIs
<1>6. \A v \in Workers : Lists(v)' \subseteq Lists(v) /\ job'[v].sent \subseteq job[v].sent /\ job'[v].waiting \subseteq job[v].waiting
                         /\ Lists(v) \subseteq Emails
  <2>1. \A v \in Workers : Lists(v) \subseteq Emails
    BY <1>0, JobFields DEF Lists
  <2> QED
    BY <1>5, <2>1 DEF Lists
<1>7. \A e \in Emails : /\ notice[e] # "none" <=> notice'[e] # "none"
                        /\ notice'[e] = "mailed" => notice[e] = "mailed" \/ e \in job[w].sent
                        /\ notice'[e] = "waiting" => notice[e] = "waiting" /\ e \notin job[w].sent
  <2>1. \A e \in job[w].sent : notice[e] # "none"
    BY DEF MailInv, Listed, Lists
  <2> QED
    BY <1>0, <1>1, <2>1
<1>8. \A v \in Workers : Listed(v)'
  BY <1>1, <1>6, <1>7 DEF Listed, MailInv
<1>9. \A e \in Emails : Told(e)'
  <2>1. \A e \in job[w].sent : seen.mails[e] > 0
    BY DEF MailInv, Listed
  <2> QED
    BY <1>1, <1>7, <2>1 DEF Told, MailInv
<1>10. ASSUME ~ seen'.twice
       PROVE  OneMail' /\ NotYet' /\ Apart'
  <2>2. /\ \A e \in Emails : /\ seen.mails[e] <= 1
                             /\ seen.mails[e] > 0 /\ notice[e] = "waiting" => \E v \in Workers : e \in job[v].sent
        /\ \A v \in Workers : \A e \in job[v].waiting : seen.mails[e] = 0
        /\ \A u, v \in Workers : u # v => Lists(u) \cap Lists(v) = {}
    BY <1>1, <1>10 DEF MailInv, Once, OneMail, NotYet, Apart
  <2>8. \A v \in Workers : \A e \in job'[v].waiting : seen'.mails[e] = 0
    BY <1>1, <1>6, <2>2
  <2>9. \A u, v \in Workers : u # v => Lists(u)' \cap Lists(v)' = {}
    BY <1>6, <2>2
  <2>10. \A e \in Emails : /\ seen'.mails[e] <= 1
                           /\ seen'.mails[e] > 0 /\ notice'[e] = "waiting" => \E v \in Workers : e \in job'[v].sent
    <3> SUFFICES ASSUME NEW e \in Emails
                 PROVE  /\ seen'.mails[e] <= 1
                        /\ seen'.mails[e] > 0 /\ notice'[e] = "waiting" => \E v \in Workers : e \in job'[v].sent
      OBVIOUS
    <3>1. seen'.mails[e] <= 1
      BY <1>1, <2>2
    <3>2. ASSUME seen'.mails[e] > 0, notice'[e] = "waiting" PROVE \E v \in Workers : e \in job'[v].sent
      <4>1. notice[e] = "waiting" /\ e \notin job[w].sent /\ seen.mails[e] > 0
        BY <1>1, <1>7, <3>2
      <4>2. PICK v \in Workers : e \in job[v].sent
        BY <2>2, <4>1
      <4>3. v # w
        BY <4>1, <4>2
      <4> QED
        BY <1>5, <4>2, <4>3
    <3> QED
      BY <3>1, <3>2
  <2> QED
    BY <2>8, <2>9, <2>10 DEF OneMail, NotYet, Apart
<1>11. Once'
  BY <1>10 DEF Once
<1> QED
  BY <1>8, <1>9, <1>11 DEF MailInv

(* A round sends a mail, or fails to.                                      *)
LEMMA MailKept ==
    ASSUME ShelfType, MailInv, NEW w \in Workers, NEW m \in Emails, NEW ok \in BOOLEAN, Mail(w, m, ok)
    PROVE  MailInv'
<1> DEFINE k == job[w]
           a == k.waiting \ {m}
           b == IF ok THEN k.sent \cup {m} ELSE k.sent
           j == [k EXCEPT !.waiting = a, !.sent = b]
           n == IF ok THEN [seen.mails EXCEPT ![m] = seen.mails[m] + 1] ELSE seen.mails
<1>0. job \in [Workers -> Jobs] /\ notice \in [Emails -> {"none", "waiting", "mailed"}] /\ seen.mails \in [Emails -> Nat] /\ seen \in Notes
  BY SeenFields DEF ShelfType
<1>1. job' = [job EXCEPT ![w] = j] /\ m \in k.waiting /\ notice' = notice
  BY <1>0 DEF Mail
<1>2. seen'.mails = n /\ seen'.twice = seen.twice
  <2>1. CASE ok
    <3>1. seen' = [seen EXCEPT !.mails[m] = seen.mails[m] + 1]
      BY <2>1 DEF Mail
    <3>2. n = [seen.mails EXCEPT ![m] = seen.mails[m] + 1]
      BY <2>1
    <3>3. seen' = [seen EXCEPT !.mails = n]
      BY <3>1, <3>2
    <3> HIDE DEF n
    <3> QED
      BY <1>0, <3>3 DEF Notes
  <2>2. CASE ~ ok
    BY <2>2 DEF Mail
  <2> QED
    BY <2>1, <2>2
<1>3. j.waiting = a /\ j.sent = b
  <2>1. k \in Jobs
    BY <1>0
  <2> HIDE DEF k, a, b
  <2> QED
    BY <2>1 DEF Jobs
<1>4. job'[w].waiting = a /\ job'[w].sent = b /\ \A v \in Workers \ {w} : job'[v] = job[v]
  <2> HIDE DEF j, a, b
  <2> QED
    BY <1>0, <1>1, <1>3
<1> HIDE DEF j
<1>5. /\ \A e \in Emails : seen.mails[e] \in Nat /\ seen'.mails[e] = IF ok /\ e = m THEN seen.mails[e] + 1 ELSE seen.mails[e]
  BY <1>0, <1>2
<1>6. \A v \in Workers : Lists(v)' \subseteq Lists(v) /\ Lists(v) \subseteq Emails
  <2>1. \A v \in Workers : Lists(v) \subseteq Emails
    BY <1>0, JobFields DEF Lists
  <2> QED
    BY <1>1, <1>4, <2>1 DEF Lists
<1>7. \A v \in Workers : \A e \in job'[v].sent : e \in job[v].sent \/ (ok /\ e = m)
  BY <1>4
<1>8. notice[m] # "none"
  BY <1>1 DEF MailInv, Listed, Lists
<1>9. \A v \in Workers : Listed(v)'
  <2> SUFFICES ASSUME NEW v \in Workers PROVE Listed(v)'
    OBVIOUS
  <2>1. \A e \in Lists(v)' : notice'[e] # "none"
    BY <1>1, <1>6 DEF MailInv, Listed
  <2>2. ASSUME NEW e \in job'[v].sent PROVE seen'.mails[e] > 0
    <3>1. e \in job[v].sent => seen.mails[e] > 0 /\ e \in Emails
      BY <1>6 DEF MailInv, Listed, Lists
    <3> QED
      BY <1>5, <1>7, <2>2, <3>1
  <2> QED
    BY <2>1, <2>2 DEF Listed
<1>10. \A e \in Emails : Told(e)'
  <2> SUFFICES ASSUME NEW e \in Emails PROVE Told(e)'
    OBVIOUS
  <2>1. Told(e)
    BY DEF MailInv
  <2> QED
    BY <1>1, <1>5, <1>8, <2>1 DEF Told
<1>11. ASSUME ~ seen'.twice
       PROVE  OneMail' /\ NotYet' /\ Apart'
  <2>2. /\ \A e \in Emails : /\ seen.mails[e] <= 1
                             /\ seen.mails[e] > 0 /\ notice[e] = "waiting" => \E v \in Workers : e \in job[v].sent
        /\ \A v \in Workers : \A e \in job[v].waiting : seen.mails[e] = 0
        /\ \A u, v \in Workers : u # v => Lists(u) \cap Lists(v) = {}
    BY <1>2, <1>11 DEF MailInv, Once, OneMail, NotYet, Apart
  <2>3. seen.mails[m] = 0
    BY <1>1, <2>2
  <2>4. \A v \in Workers \ {w} : m \notin job[v].waiting
    BY <1>1, <2>2 DEF Lists
  <2>8. \A v \in Workers : \A e \in job'[v].waiting : seen'.mails[e] = 0
    <3>1. \A v \in Workers : \A e \in job'[v].waiting : e \in job[v].waiting /\ e # m /\ e \in Emails
      BY <1>4, <1>6, <2>4 DEF Lists
    <3> QED
      BY <1>5, <2>2, <3>1
  <2>9. \A u, v \in Workers : u # v => Lists(u)' \cap Lists(v)' = {}
    BY <1>6, <2>2
  <2>10. ASSUME NEW e \in Emails
         PROVE  /\ seen'.mails[e] <= 1
                /\ seen'.mails[e] > 0 /\ notice'[e] = "waiting" => \E v \in Workers : e \in job'[v].sent
    <3>1. CASE e = m /\ ok
      <4>1. m \in job'[w].sent
        BY <1>4, <3>1
      <4> QED
        BY <1>5, <2>3, <3>1, <4>1
    <3>2. CASE ~ (e = m /\ ok)
      <4>1. seen'.mails[e] = seen.mails[e]
        BY <1>5, <3>2
      <4>2. \A v \in Workers : e \in job[v].sent => e \in job'[v].sent
        BY <1>4
      <4> QED
        BY <1>1, <2>2, <4>1, <4>2
    <3> QED
      BY <3>1, <3>2
  <2> QED
    BY <2>8, <2>9, <2>10 DEF OneMail, NotYet, Apart
<1>12. Once'
  BY <1>11 DEF Once
<1> QED
  BY <1>9, <1>10, <1>12 DEF MailInv

(* A customer asks to be told.                                             *)
LEMMA SubscribeKept ==
    ASSUME ShelfType, MailInv, NEW m \in Emails, Subscribe(m)
    PROVE  MailInv'
<1>0. notice \in [Emails -> {"none", "waiting", "mailed"}]
  BY DEF ShelfType
<1>1. notice' = [notice EXCEPT ![m] = "waiting"] /\ notice[m] = "none" /\ job' = job /\ seen' = seen
  BY DEF Subscribe
<1>2. \A e \in Emails : notice'[e] = IF e = m THEN "waiting" ELSE notice[e]
  BY <1>0, <1>1
<1>3. \A w \in Workers : Lists(w)' = Lists(w) /\ Lists(w) \subseteq Emails
  BY <1>1, JobFields DEF Lists, ShelfType
<1>4. seen.mails[m] = 0
  BY <1>1 DEF MailInv, Told
<1>5. \A w \in Workers : Listed(w)'
  BY <1>1, <1>2, <1>3 DEF MailInv, Listed
<1>6. \A e \in Emails : Told(e)'
  BY <1>1, <1>2 DEF MailInv, Told
<1>7. Once'
  BY <1>1, <1>2, <1>3, <1>4 DEF MailInv, Once, OneMail, NotYet, Apart
<1> QED
  BY <1>5, <1>6, <1>7 DEF MailInv

(* Every step keeps what is known of the mails.                            *)
LEMMA MailsKept ==
    ASSUME ShelfType, OnShelf, MailInv, Next
    PROVE  MailInv'
<1>0. job \in [Workers -> Jobs] /\ \A w \in Workers : About(job[w])
  BY DEF ShelfType
<1>1. ASSUME NEW row, NEW why, Born(row, why) PROVE MailInv'
  BY <1>1, MailQuiet DEF Born
<1>2. CASE Writes
  BY <1>2, MailQuiet DEF Writes, Same
<1>3. ASSUME NEW r \in Requests, NEW o \in Orders, NEW qty \in 1..Bought[o], OpenReturn(r, o, qty)
      PROVE  MailInv'
  BY <1>3, MailQuiet DEF OpenReturn
<1>4. ASSUME NEW e \in Emails, Subscribe(e) PROVE MailInv'
  BY <1>4, SubscribeKept
<1>5. ASSUME NEW w \in Workers, NEW j, Takes(w, j) PROVE MailInv'
  <2>1. /\ job'[w] = j /\ \A v \in Workers \ {w} : job'[v] = job[v]
    BY <1>5, JobSet DEF Takes
  <2>2. /\ j.waiting = {} /\ j.sent = {} /\ job[w].waiting = {} /\ job[w].sent = {}
        /\ notice' = notice /\ seen' = seen
    BY <1>0, <1>5 DEF Takes, About
  <2> QED
    BY <2>1, <2>2, MailQuiet
<1>6. ASSUME NEW w \in Workers, Commit(w) PROVE MailInv'
  <2>1. /\ \E k \in {Idle, [Idle EXCEPT !.pc = "restocked"]} : job'[w] = k
        /\ \A v \in Workers \ {w} : Same(job[v], job'[v])
        /\ notice' = notice /\ seen'.mails = seen.mails /\ seen'.twice = seen.twice /\ job[w].pc = "ready"
    BY <1>6, CommitIs
  <2>2. /\ Idle.waiting = {} /\ [Idle EXCEPT !.pc = "restocked"].waiting = {}
        /\ Idle.sent = {} /\ [Idle EXCEPT !.pc = "restocked"].sent = {}
    BY IdleIs DEF Jobs
  <2>3. job[w].waiting = {} /\ job[w].sent = {}
    BY <1>0, <2>1 DEF About
  <2>4. \A v \in Workers : job'[v].waiting = job[v].waiting /\ job'[v].sent = job[v].sent
    BY <2>1, <2>2, <2>3 DEF Same
  <2> QED
    BY <2>1, <2>4, MailQuiet
<1>7. ASSUME NEW w \in Workers, Rounds(w) PROVE MailInv'
  BY <1>7, GatherKept, CrashKept, NoticesKept, MailKept DEF Rounds
<1> QED
  BY <1>1, <1>2, <1>3, <1>4, <1>5, <1>6, <1>7, ShelfStep

-----------------------------------------------------------------------------
(* The inductive invariant.                                                *)
ShelfInv ==
    /\ ShelfType /\ OnShelf
    /\ \A w \in Workers : Fresh(w) /\ Priced(w) /\ Asked(w)
    /\ StockAccounted /\ RuleSettles /\ MailInv

(* The first state: no product, no movement, nobody waits.                 *)
LEMMA ShelfInitInv == Init => ShelfInv
<1> SUFFICES ASSUME Init PROVE ShelfInv
  OBVIOUS
<1>0. /\ product = NoProduct /\ moves = <<>> /\ order = [o \in Orders |-> "new"]
      /\ request = [r \in Requests |-> NoReturn] /\ notice = [e \in Emails |-> "none"]
      /\ job = [w \in Workers |-> Idle] /\ seen = Observed
  BY DEF Init
<1>1. /\ seen \in Notes /\ seen.unbooked = 0 /\ seen.by = NoRule /\ ~ seen.twice /\ ~ seen.stale
      /\ \A e \in Emails : seen.mails[e] = 0
  BY <1>0 DEF Observed, Notes
<1>2. NoReturn \in Returns /\ NoReturn.status = "absent"
  BY DEF NoReturn, Returns, Statuses
<1>3. ShelfType
  BY <1>0, <1>1, <1>2, IdleIs DEF ShelfType
<1>4. OnShelf
  BY <1>0, <1>1, <1>2, IdleIs DEF OnShelf
<1>5. \A w \in Workers : Fresh(w) /\ Priced(w) /\ Asked(w)
  BY <1>0, IdleIs DEF Fresh, Priced, Asked
<1>6. StockAccounted /\ RuleSettles
  <2>1. Total(moves) = 0
    BY <1>3, <1>0, TotalInt DEF ShelfType
  <2>2. product.base = 0 /\ product.variant = 0
    BY <1>0 DEF NoProduct
  <2> QED
    BY <1>1, <2>1, <2>2 DEF StockAccounted, RuleSettles, Booked
<1>7. MailInv
  BY <1>0, <1>1, IdleIs DEF MailInv, Listed, Lists, Told, Once, OneMail, NotYet, Apart
<1> QED
  BY <1>3, <1>4, <1>5, <1>6, <1>7 DEF ShelfInv

(* Every step keeps the invariant.                                         *)
LEMMA ShelfInvStep == ShelfInv /\ [Next]_vars => ShelfInv'
<1> SUFFICES ASSUME ShelfInv, [Next]_vars PROVE ShelfInv'
  OBVIOUS
<1>1. CASE Next
  <2>1. ShelfType /\ OnShelf /\ StockAccounted /\ RuleSettles /\ MailInv
        /\ (\A w \in Workers : Fresh(w)) /\ (\A w \in Workers : Priced(w)) /\ (\A w \in Workers : Asked(w))
    BY DEF ShelfInv
  <2>2. ShelfType' /\ OnShelf' /\ MailInv'
    BY <1>1, <2>1, TypeStep, ShelfKept, MailsKept
  <2>3. StockAccounted' /\ RuleSettles'
    BY <1>1, <2>1, StockKept, PriceKept
  <2>4. (\A w \in Workers : Fresh(w)') /\ (\A w \in Workers : Priced(w)') /\ (\A w \in Workers : Asked(w)')
    BY <1>1, <2>1, FreshKept, PriceKept, AskedKept
  <2> QED
    BY <2>2, <2>3, <2>4 DEF ShelfInv
<1>2. CASE UNCHANGED vars
  BY <1>2 DEF vars, ShelfInv, ShelfType, OnShelf, Fresh, Priced, Asked, Open, StockAccounted, RuleSettles, Booked,
              MailInv, Listed, Lists, Told, Once, OneMail, NotYet, Apart
<1> QED
  BY <1>1, <1>2

(* ShelfInv is an invariant of Shelf, for any orders, forms, quotes, rules,*)
(* requests and customers and any number of overlapping calls.             *)
THEOREM ShelfHolds == Spec => []ShelfInv
<1>1. ShelfInv /\ [Next]_vars => ShelfInv'
  BY ShelfInvStep
<1> QED
  BY <1>1, ShelfInitInv, PTL DEF Spec

(* Stock is what the movements and the changes made without a movement add *)
(* up to, as long as no call has written a stock over a newer one: whatever*)
(* forms, imports, synchronisations, sales, cancellations and refunds overlap*)
(* (products.py, imports.py, sync.py, returns.py, stock.py).               *)
THEOREM StockIsAccounted == Spec => []StockAccounted
<1>1. ShelfInv => StockAccounted
  BY DEF ShelfInv
<1> QED
  BY <1>1, ShelfHolds, PTL

(* A margin, or x.99 without a floor, applied twice gives the price it gave*)
(* once, as long as nothing else has written the price (pricing_rules.py). *)
THEOREM RulesSettle == Spec => []RuleSettles
<1>1. ShelfInv => RuleSettles
  BY DEF ShelfInv
<1> QED
  BY <1>1, ShelfHolds, PTL

(* A customer who waits is mailed at most once unless two rounds overlap or*)
(* one lost its record, and a notice that says mailed was                  *)
(* (stock_notifications.py).                                               *)
THEOREM WaitingToldOnce == Spec => []ToldOnce
<1>1. ShelfInv => ToldOnce
  <2> SUFFICES ASSUME ShelfInv PROVE ToldOnce
    OBVIOUS
  <2>1. \A e \in Emails : seen.mails[e] \in Nat
    BY SeenFields DEF ShelfInv
  <2>2. \A e \in Emails : seen.twice \/ seen.mails[e] <= 1
    BY DEF ShelfInv, MailInv, Once, OneMail
  <2>3. \A e \in Emails : notice[e] = "mailed" => seen.mails[e] > 0
    BY DEF ShelfInv, MailInv, Told
  <2> QED
    BY <2>1, <2>2, <2>3 DEF ToldOnce
<1> QED
  BY <1>1, ShelfHolds, PTL

(* A request that is closed is decided again, or restocks again, only by a *)
(* call that another decision has overtaken (returns.py).                  *)
THEOREM ReturnsDecidedOnce == Spec => DecidedOnce
<1> DEFINE Step == \A w \in Workers : job[w].pc = "ready" /\ job[w].r # NoRequest /\ job'[w] = Idle
            /\ request[job[w].r].status \in Terminal
            /\ (request' # request \/ moves' # moves)
          => ~ job[w].first
<1>1. ShelfInv => Step
  BY DEF ShelfInv, Asked, Open, Terminal
<1>2. ShelfInv /\ [Next]_vars => [Step]_vars
  BY <1>1
<1> QED
  BY <1>2, ShelfHolds, PTL DEF Spec, DecidedOnce
=============================================================================
