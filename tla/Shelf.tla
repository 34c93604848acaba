------------------------------- MODULE Shelf --------------------------------
(***************************************************************************)
(* One product with one variant, the ledger of its stock movements, and    *)
(* the calls that write the row without locking it: product form, file     *)
(* import, supplier synchronisation, price rules and refunds.  Sales and   *)
(* cancellations lock the row (OrderStock) and are one step each here.     *)
(*                                                                         *)
(* An unlocked call reads the row, works on its copy and, at its commit,   *)
(* writes the columns its copy has changed; anything may happen between.   *)
(* A form that takes the product from none to some goes on to mail the     *)
(* customers who wait for it.                                              *)
(***************************************************************************)
EXTENDS Integers, Sequences, FiniteSets, SequencesExt, Functions, Money

CONSTANTS
    Workers, Orders, Requests, Emails,
    Bought,        \* Bought[o]: units in the order's only line
    OfVariant,     \* the orders whose line names the variant
    Forms,         \* rows a product form or a file may carry
    Quotes,        \* what the supplier may answer: stock and cost
    Rules,         \* pricing rules and bulk changes
    MaxCalls,      \* bound: unlocked calls
    MaxDesk,       \* bound: sales, cancellations, removals of movements
    NoRequest, NoRule

None == -1         \* NULL in column cost

(* ProductIn: what a form must satisfy.  No variants: leave them alone.    *)
ValidForms == {f \in [base : Nat, variants : SUBSET Nat, price : Nat, cost : Nat \cup {None}] :
                  Cardinality(f.variants) <= 1}

(* RuleIn and _validate.  A rule without a floor or a ceiling has 0 or a   *)
(* price above all others.                                                 *)
ValidRules == [strategy : {"percent", "margin", "round_99"}, value : Int,
               plus : Int, floor : Nat, cap : Nat, instock : BOOLEAN]

ASSUME ShelfAssumption ==
    /\ Bought \in [Orders -> Nat \ {0}] /\ OfVariant \subseteq Orders
    /\ Forms \subseteq ValidForms
    /\ Quotes \subseteq [base : Nat, cost : Nat]
    /\ Rules \subseteq ValidRules
    /\ MaxCalls \in Nat /\ MaxDesk \in Nat
    /\ NoRequest \notin Requests /\ NoRule \notin Rules

VARIABLES
    product,     \* the product's row, with the stock of its variant
    moves,       \* table stock_movements, oldest first
    order,       \* order[o]: "new", "active", "cancelled"
    request,     \* request[r]: row of table return_requests
    notice,      \* notice[e]: row of table stock_notifications
    job,         \* job[w]: the unlocked call worker w is in
    spent,       \* how much of each bound is used up
    seen         \* observed only; see Observed below

vars == <<product, moves, order, request, notice, job, spent, seen>>

-----------------------------------------------------------------------------
(* Prices.                                                                 *)

(* Faulty variant of Target: x.99 is the next lira's, whatever the price.  *)
TargetAbove(rule, price, cost) ==
    CASE rule.strategy = "percent"  -> {n + rule.plus : n \in Rounded(price * (100 + rule.value), 100)}
      [] rule.strategy = "margin"   -> Rounded(cost * (100 + rule.value), 100)
      [] rule.strategy = "round_99" -> {100 * (price \div 100) + 199}

(* The price a strategy aims at.  "percent" stands for percent, fixed and  *)
(* the bulk change, which adds a percentage and then an amount.            *)
Target(rule, price, cost) ==
    CASE rule.strategy = "percent"  -> {n + rule.plus : n \in Rounded(price * (100 + rule.value), 100)}
      [] rule.strategy = "margin"   -> Rounded(cost * (100 + rule.value), 100)
      [] rule.strategy = "round_99" -> {100 * (price \div 100) + 99}

(* compute_new_price: floor, then ceiling, never below zero; a margin on   *)
(* an unknown cost leaves the price alone.                                 *)
NewPrice(rule, price, cost) ==
    IF rule.strategy = "margin" /\ cost = None THEN {price}
    ELSE {Atleast0(Lesser(Greater(n, rule.floor), rule.cap)) : n \in Target(rule, price, cost)}

(* compute_sale_price: cost times 1.8, rounded up to the next x.90.        *)
SalePrice(cost) ==
    LET ending == 100 * ((18 * cost) \div 1000) + 90
    IN  IF 10 * ending < 18 * cost THEN ending + 100 ELSE ending

-----------------------------------------------------------------------------
(* The ledger.                                                             *)

Move(o, why, n) == [o |-> o, why |-> why, delta |-> n]
Total(m) == SumFunctionOnSet([i \in DOMAIN m |-> m[i].delta], DOMAIN m)
Booked == Total(moves)
Count(o, whys) == Cardinality({i \in DOMAIN moves : moves[i].o = o /\ moves[i].why \in whys})
Sold(o) == Count(o, {"sale"}) > Count(o, {"cancel", "return"})

NoProduct == [live |-> FALSE, base |-> 0, variant |-> 0, price |-> 0,
              cost |-> None, supplied |-> None]
NoReturn  == [status |-> "absent", o |-> "none", qty |-> 0]
Idle == [pc |-> "idle", kind |-> "none", r |-> NoRequest, from |-> NoProduct,
         to |-> NoProduct, rule |-> NoRule, waiting |-> {}, sent |-> {},
         fresh |-> TRUE, first |-> TRUE]

(* What no column of the database holds.  unbooked: units that came or     *)
(* went without a movement; stale: a stock was written over a newer one;   *)
(* mails[e]: mails sent; twice: a round of mails was repeated or lost its  *)
(* record; by: the rule the price was last computed by.                    *)
(* In a job, fresh: the row is as the job read it; first: nobody has       *)
(* decided the job's request since the job read it.                        *)
Observed == [unbooked |-> 0, stale |-> FALSE, mails |-> [e \in Emails |-> 0],
             twice |-> FALSE, by |-> NoRule]

Init ==
    /\ product = NoProduct
    /\ moves = <<>>
    /\ order = [o \in Orders |-> "new"]
    /\ request = [r \in Requests |-> NoReturn]
    /\ notice = [e \in Emails |-> "none"]
    /\ job = [w \in Workers |-> Idle]
    /\ spent = [calls |-> 0, desk |-> 0]
    /\ seen = Observed

Desk == spent.desk < MaxDesk /\ spent' = [spent EXCEPT !.desk = @ + 1]
Call(w) == job[w].pc = "idle" /\ spent.calls < MaxCalls /\ spent' = [spent EXCEPT !.calls = @ + 1]

(* The row has changed under every call that has read it.                  *)
Overtaken == [w \in Workers |-> [job[w] EXCEPT !.fresh = FALSE]]

-----------------------------------------------------------------------------
(* Locked writers and the desk.                                            *)

(* A form's variant, or the old one if the form does not speak of it.      *)
VariantOf(f, old) == IF f.variants = {} THEN old ELSE CHOOSE n \in f.variants : TRUE

(* A new product starts with a movement, its variant without one.          *)
Create(row, why) ==
    /\ ~ product.live
    /\ product' = row
    /\ moves' = IF row.base > 0 THEN Append(moves, Move("none", why, row.base)) ELSE moves
    /\ seen' = [seen EXCEPT !.unbooked = row.variant]
    /\ UNCHANGED <<order, request, notice, job, spent>>

(* create_product; a row of a file that matches no product (it names no    *)
(* variant); import_one, which prices the product from the quote.          *)
CreateProduct(f) ==
    Create([live |-> TRUE, base |-> f.base, variant |-> VariantOf(f, 0),
            price |-> f.price, cost |-> f.cost, supplied |-> None], "init")

ImportNew(f) ==
    Create([live |-> TRUE, base |-> f.base, variant |-> 0,
            price |-> f.price, cost |-> f.cost, supplied |-> None], "import")

ImportOne(q) ==
    Create([live |-> TRUE, base |-> q.base, variant |-> 0,
            price |-> SalePrice(q.cost), cost |-> q.cost, supplied |-> q.cost], "dropship-import")

(* deduct_stock_once under its locks: nothing if the order holds stock,    *)
(* else the line's units, and never below zero.                            *)
Sell(o) ==
    LET left  == IF o \in OfVariant THEN product.variant ELSE product.base
        rest  == Atleast0(left - Bought[o])
        taken == ~ Sold(o)
    IN  /\ Desk /\ product.live /\ order[o] # "active"
        /\ order' = [order EXCEPT ![o] = "active"]
        /\ product' = CASE ~ taken -> product
                        [] taken /\ o \in OfVariant -> [product EXCEPT !.variant = rest]
                        [] taken /\ o \notin OfVariant -> [product EXCEPT !.base = rest]
        /\ moves' = IF taken THEN Append(moves, Move(o, "sale", - Bought[o])) ELSE moves
        /\ seen' = IF taken THEN [seen EXCEPT !.unbooked = @ + Bought[o] - (left - rest)] ELSE seen
        /\ job' = IF taken THEN Overtaken ELSE job
        /\ UNCHANGED <<request, notice>>

(* restore_stock_once of an order that is cancelled.                       *)
CancelOrder(o) ==
    /\ Desk /\ order[o] = "active"
    /\ order' = [order EXCEPT ![o] = "cancelled"]
    /\ IF Sold(o)
       THEN /\ product' = IF o \in OfVariant THEN [product EXCEPT !.variant = @ + Bought[o]]
                                              ELSE [product EXCEPT !.base = @ + Bought[o]]
            /\ moves' = Append(moves, Move(o, "cancel", Bought[o]))
            /\ job' = Overtaken
       ELSE UNCHANGED <<product, moves, job>>
    /\ UNCHANGED <<request, notice, seen>>

(* delete_stock_movement and clear_stock_movements.                        *)
RemoveMovement(i) ==
    /\ Desk
    /\ seen' = [seen EXCEPT !.unbooked = @ + moves[i].delta]
    /\ moves' = RemoveAt(moves, i)
    /\ UNCHANGED <<product, order, request, notice, job>>

ClearMovements ==
    /\ Desk /\ moves # <<>>
    /\ seen' = [seen EXCEPT !.unbooked = @ + Booked]
    /\ moves' = <<>>
    /\ UNCHANGED <<product, order, request, notice, job>>

(* create_return_request: each request alone is checked against the line.  *)
OpenReturn(r, o, qty) ==
    /\ request[r].status = "absent" /\ order[o] = "active"
    /\ request' = [request EXCEPT ![r] = [status |-> "requested", o |-> o, qty |-> qty]]
    /\ UNCHANGED <<product, moves, order, notice, job, spent, seen>>

(* subscribe_restock: one row for an e-mail and a product, ever.           *)
Subscribe(e) ==
    /\ product.live /\ notice[e] = "none"
    /\ notice' = [notice EXCEPT ![e] = "waiting"]
    /\ UNCHANGED <<product, moves, order, request, job, spent, seen>>

-----------------------------------------------------------------------------
(* Unlocked calls.                                                         *)

Ready(w, kind, to) ==
    /\ Call(w) /\ product.live
    /\ job' = [job EXCEPT ![w] = [Idle EXCEPT !.pc = "ready", !.kind = kind,
                                              !.from = product, !.to = to]]
    /\ UNCHANGED <<product, moves, order, request, notice, seen>>

(* update_product: the values of a form an administrator opened earlier.   *)
SaveForm(w, f) ==
    Ready(w, "manual", [product EXCEPT !.base = f.base, !.price = f.price, !.cost = f.cost,
                                       !.variant = VariantOf(f, @)])

(* import_products, an existing row.                                       *)
Import(w, f) ==
    Ready(w, "import", [product EXCEPT !.base = f.base, !.price = f.price, !.cost = f.cost])

(* sync_one: the row is read before the supplier is asked.  The cost is    *)
(* taken over when the supplier has changed it.                            *)
Sync(w, q, reprice) ==
    Ready(w, "dropship-sync", [product EXCEPT !.base = q.base, !.supplied = q.cost,
                                   !.cost = IF q.cost = product.supplied THEN @ ELSE q.cost,
                                   !.price = IF reprice THEN SalePrice(q.cost) ELSE @])

Matches(rule) == product.live /\ (rule.instock => product.base > 0)

(* The price is computed when the row is read; rule is NoRule for a bulk   *)
(* change, which nobody expects to settle.                                 *)
Reprice(w, how, rule) ==
    /\ Call(w) /\ Matches(how)
    /\ \E n \in NewPrice(how, product.price, product.cost) :
          job' = [job EXCEPT ![w] = [Idle EXCEPT !.pc = "ready", !.kind = "price", !.from = product,
                                        !.to = [product EXCEPT !.price = n], !.rule = rule]]
    /\ UNCHANGED <<product, moves, order, request, notice, seen>>

ApplyRule(w, rule) == Reprice(w, rule, rule)

(* A percentage, then an amount, then nothing below zero.                  *)
BulkPrice(w, rule) == rule.strategy = "percent" /\ Reprice(w, rule, NoRule)

Terminal == {"rejected", "refunded", "cancelled"}

(* Faulty variant of Open: any request may be decided.                     *)
AnyRequest(r) == request[r].status # "absent"

(* The requests update_return_status goes on with.                         *)
Open(r) == request[r].status \in {"requested", "approved"}

(* update_return_status by an administrator, and cancel_my_return by the   *)
(* customer, who may only withdraw what nobody has looked at.  Deciding    *)
(* what a request already is writes none of the columns kept here.         *)
Decide(w, r, status) ==
    /\ Call(w)
    /\ Open(r) /\ status # request[r].status
    /\ job' = [job EXCEPT ![w] = [Idle EXCEPT !.pc = "asked", !.kind = status, !.r = r]]
    /\ UNCHANGED <<product, moves, order, request, notice, seen>>

Withdraw(w, r) == request[r].status = "requested" /\ Decide(w, r, "cancelled")

(* A refund adds the units to the product, also if the line was a variant. *)
ReadShelf(w) ==
    /\ job[w].pc = "asked"
    /\ job' = [job EXCEPT ![w].pc = "ready", ![w].from = product, ![w].fresh = TRUE,
                          ![w].to = IF job[w].kind = "refunded"
                                    THEN [product EXCEPT !.base = product.base + request[job[w].r].qty]
                                    ELSE product]
    /\ UNCHANGED <<product, moves, order, request, notice, spent, seen>>

(* Faulty variant of Flush: the whole row is written back.                 *)
FlushRow(row, from, to) == to

(* The unit of work writes the columns that differ from what was read.     *)
Flush(row, from, to) == [c \in DOMAIN row |-> IF to[c] # from[c] THEN to[c] ELSE row[c]]

Why(kind) == IF kind = "refunded" THEN "return" ELSE kind

Restocked(j) == j.kind = "manual" /\ j.from.base <= 0 /\ j.to.base > 0

Decided(w) ==
    [v \in Workers |-> [job[v] EXCEPT
        !.fresh = @ /\ product' = product,
        !.first = @ /\ ~ (job[v].r = job[w].r /\ request' # request)]]

Commit(w) ==
    LET j     == job[w]
        delta == j.to.base - j.from.base
        about == IF j.r = NoRequest THEN "none" ELSE request[j.r].o
        stock(p) == <<p.base, p.variant>>
    IN  /\ j.pc = "ready"
        /\ product' = Flush(product, j.from, j.to)
        /\ moves' = IF delta # 0 THEN Append(moves, Move(about, Why(j.kind), delta)) ELSE moves
        /\ request' = IF j.r = NoRequest THEN request ELSE [request EXCEPT ![j.r].status = j.kind]
        /\ job' = [Decided(w) EXCEPT ![w] = IF Restocked(j) THEN [Idle EXCEPT !.pc = "restocked"] ELSE Idle]
        /\ seen' = [seen EXCEPT
              !.unbooked = @ + (j.to.variant - j.from.variant),
              !.stale    = @ \/ (~ j.fresh /\ stock(j.to) # stock(j.from)),
              !.by       = IF j.rule # NoRule /\ j.fresh THEN j.rule
                           ELSE IF product' # product /\ (j.to.price # j.from.price \/ j.to.cost # j.from.cost)
                                THEN NoRule ELSE @]
        /\ UNCHANGED <<order, notice, spent>>

-----------------------------------------------------------------------------
(* notify_restocked, after the form's commit.                              *)

Waiting == {e \in Emails : notice[e] = "waiting"}

Gather(w) ==
    /\ job[w].pc = "restocked"
    /\ job' = [job EXCEPT ![w] = IF Waiting = {} THEN Idle
                                 ELSE [Idle EXCEPT !.pc = "mailing", !.waiting = Waiting]]
    /\ seen' = [seen EXCEPT !.twice = @ \/ \E v \in Workers :
                                  job[v].pc = "mailing" /\ Waiting \cap (job[v].waiting \cup job[v].sent) # {}]
    /\ UNCHANGED <<product, moves, order, request, notice, spent>>

(* send_email answers whether the mail went out; a failure is skipped.     *)
Mail(w, e, ok) ==
    /\ job[w].pc = "mailing" /\ e \in job[w].waiting
    /\ job' = [job EXCEPT ![w].waiting = @ \ {e}, ![w].sent = IF ok THEN @ \cup {e} ELSE @]
    /\ seen' = IF ok THEN [seen EXCEPT !.mails[e] = @ + 1] ELSE seen
    /\ UNCHANGED <<product, moves, order, request, notice, spent>>

(* Faulty variant of Marked: whoever was on the list counts as told.       *)
MarkedAll(w) == {e \in Emails : notice[e] = "waiting"}

Marked(w) == job[w].sent

CommitNotices(w) ==
    /\ job[w].pc = "mailing" /\ job[w].waiting = {}
    /\ notice' = [e \in Emails |-> IF e \in Marked(w) THEN "mailed" ELSE notice[e]]
    /\ job' = [job EXCEPT ![w] = Idle]
    /\ UNCHANGED <<product, moves, order, request, spent, seen>>

(* The process ends in the middle of a call: its transaction is undone.    *)
Crash(w) ==
    /\ job[w].pc # "idle"
    /\ seen' = [seen EXCEPT !.twice = @ \/ job[w].sent # {}]
    /\ job' = [job EXCEPT ![w] = Idle]
    /\ UNCHANGED <<product, moves, order, request, notice, spent>>

-----------------------------------------------------------------------------
Next ==
    \/ \E f \in Forms : CreateProduct(f) \/ ImportNew(f)
    \/ \E q \in Quotes : ImportOne(q)
    \/ \E o \in Orders : Sell(o) \/ CancelOrder(o)
    \/ \E i \in DOMAIN moves : RemoveMovement(i)
    \/ ClearMovements
    \/ \E r \in Requests, o \in Orders : \E qty \in 1..Bought[o] : OpenReturn(r, o, qty)
    \/ \E e \in Emails : Subscribe(e)
    \/ \E w \in Workers :
          \/ \E f \in Forms : SaveForm(w, f) \/ Import(w, f)
          \/ \E q \in Quotes, reprice \in BOOLEAN : Sync(w, q, reprice)
          \/ \E rule \in Rules : ApplyRule(w, rule) \/ BulkPrice(w, rule)
          \/ \E r \in Requests : \/ Withdraw(w, r)
                                 \/ \E s \in {"approved", "rejected", "refunded", "cancelled"} : Decide(w, r, s)
          \/ ReadShelf(w) \/ Commit(w)
          \/ Gather(w) \/ CommitNotices(w) \/ Crash(w)
          \/ \E e \in Emails, ok \in BOOLEAN : Mail(w, e, ok)

Spec == Init /\ [][Next]_vars

-----------------------------------------------------------------------------
(* Properties.                                                             *)

(* The stock of a product and its variant is the sum of its movements, but *)
(* for the units that are known to have no movement: the variant's own     *)
(* changes, units sold below zero, movements an administrator removed.     *)
(* Only a call that writes a stock over a newer one breaks the account     *)
(* (stock.py, products.py, returns.py, sync.py, misc.py); a change of      *)
(* prices alone never does, however long it overlaps a sale.               *)
StockAccounted == seen.stale \/ product.base + product.variant = Booked + seen.unbooked

(* A return that was rejected, refunded or cancelled is decided again, and *)
(* a refund restocks again, only by a call that was already under way when *)
(* that decision was committed (returns.py, TERMINAL_STATUSES).            *)
DecidedOnce ==
    [][\A w \in Workers : job[w].pc = "ready" /\ job[w].r # NoRequest /\ job'[w] = Idle
            /\ request[job[w].r].status \in Terminal
            /\ (request' # request \/ moves' # moves)
          => ~ job[w].first]_vars

(* Whoever is marked as told was mailed, and nobody is mailed twice unless *)
(* two rounds overlap or a round dies with its record unsaved              *)
(* (stock_notifications.py, notified_at).                                  *)
ToldOnce ==
    \A e \in Emails : /\ notice[e] = "mailed" => seen.mails[e] > 0
                      /\ seen.mails[e] > 1 => seen.twice

(* A margin rule, or a rule that rounds to x.99 without a floor, leaves    *)
(* the price it has computed alone when it is applied again                *)
(* (models.py:917, "margin/round_99 idempotenttir").                       *)
RuleSettles ==
    seen.by # NoRule /\ (seen.by.strategy = "margin"
                            \/ (seen.by.strategy = "round_99" /\ seen.by.floor = 0))
        => product.price \in NewPrice(seen.by, product.price, product.cost)
=============================================================================
