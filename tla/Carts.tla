------------------------------- MODULE Carts -------------------------------
(***************************************************************************)
(* Reservations of carts: routers/reservations.py, and the stock that is   *)
(* left for others (routers/products.py).                                  *)
(*                                                                         *)
(* A sync is one transaction: it deletes what has expired, deletes the     *)
(* rows of its cart, and inserts what the cart asks for.  A statement sees *)
(* the rows committed when it starts; a delete waits for rows that another *)
(* transaction is deleting, an insert for a key that another has inserted. *)
(***************************************************************************)
EXTENDS Integers, FiniteSets, Functions

CONSTANTS
    Carts,       \* browser sessions
    Products,
    Syncs,       \* concurrent calls
    OnShelf,     \* stock of every product
    Varied,      \* products with active variants
    OfVariants,  \* stock of the active variants of one, together
    MaxQty,      \* bound: units asked for
    MaxSyncs     \* bound: calls

ASSUME CartsAssumption == {OnShelf, OfVariants, MaxQty, MaxSyncs} \subseteq Nat /\ Varied \subseteq Products

VARIABLES
    reserved,   \* table reservations
    sync,       \* sync[w]: the call w is in
    served,     \* calls begun
    held,       \* observed only: held[c]: what the last sync of c left it, by product
    mixed       \* observed only: carts whose syncs overlapped since one ran on its own

cartVars == <<reserved, sync, served, held, mixed>>

NoSync   == [pc |-> "idle", cart |-> {}, want |-> {}, targets |-> {}, gone |-> {}, new |-> {}, alone |-> TRUE]
Grant(p, q) == [product |-> p, qty |-> q]

CartsInit ==
    /\ reserved = {} /\ served = 0 /\ mixed = {}
    /\ sync = [w \in Syncs |-> NoSync]
    /\ held = [c \in Carts |-> {}]

Live(rows)   == {r \in rows : ~ r.expired}
Rows(c)      == {r \in reserved : r.cart = c}
Deleting(r, w) == \E v \in Syncs \ {w} : r \in sync[v].gone
Least(a, b)  == IF a < b THEN a ELSE b

(* No more than there is of a product, and no empty rows.                  *)
Capped(want) == {g \in {Grant(x.product, Least(x.qty, OnShelf)) : x \in want} : g.qty > 0}

(* Sets of wishes with one quantity for each product.                      *)
Wishes == {want \in SUBSET {Grant(p, q) : p \in Products, q \in 1..MaxQty} :
              \A x, y \in want : x.product = y.product => x = y}

BeginSync(w, c, pc, want) ==
    LET others == {v \in Syncs : sync[v].cart = {c}} IN
    /\ sync[w].pc = "idle" /\ served < MaxSyncs
    /\ served' = served + 1
    /\ sync' = [v \in Syncs |->
                   IF v = w THEN [NoSync EXCEPT !.pc = pc, !.cart = {c}, !.want = want, !.alone = others = {}]
                   ELSE IF v \in others THEN [sync[v] EXCEPT !.alone = FALSE] ELSE sync[v]]
    /\ mixed' = IF others = {} THEN mixed ELSE mixed \cup {c}
    /\ UNCHANGED <<reserved, held>>

SyncReservations(w, c, want) == BeginSync(w, c, "clean", want)
ReleaseReservations(w, c)    == BeginSync(w, c, "own", {})

(* A delete finds its rows, and takes those that are still there once no   *)
(* other transaction is deleting them.                                     *)
Find(w, pc, next, rows) ==
    /\ sync[w].pc = pc
    /\ sync' = [sync EXCEPT ![w].pc = next, ![w].targets = rows \ sync[w].gone]
    /\ UNCHANGED <<reserved, served, held, mixed>>

(* Faulty variant of Own: only products the cart still asks for.           *)
OwnWanted(j) == {r \in reserved : j.cart = {r.cart} /\ \E g \in j.want : g.product = r.product}

Own(j) == {r \in reserved : j.cart = {r.cart}}

FindExpired(w) == Find(w, "clean", "cleaning", reserved \ Live(reserved))
FindOwn(w)     == Find(w, "own", "owning", Own(sync[w]))

Delete(w, pc, next) ==
    /\ sync[w].pc = pc
    /\ \A r \in sync[w].targets : ~ Deleting(r, w)
    /\ sync' = [sync EXCEPT ![w].pc = next, ![w].targets = {},
                            ![w].gone = @ \cup (sync[w].targets \cap reserved)]
    /\ UNCHANGED <<reserved, served, held, mixed>>

DeleteExpired(w) == Delete(w, "cleaning", "own")
DeleteOwn(w)     == Delete(w, "owning", "insert")

Key(r) == <<r.cart, r.product>>

(* A key of a row that is still there violates the unique constraint.      *)
Insert(w) ==
    LET new == {[cart |-> c, product |-> g.product, qty |-> g.qty, expired |-> FALSE, id |-> served] :
                   c \in sync[w].cart, g \in Capped(sync[w].want)}
        keys == {Key(r) : r \in new}
    IN  /\ sync[w].pc = "insert"
        /\ \A r \in reserved \ sync[w].gone : Key(r) \notin keys
        /\ \A v \in Syncs \ {w} : \A r \in sync[v].new : Key(r) \notin keys
        /\ sync' = [sync EXCEPT ![w].pc = "commit", ![w].new = new]
        /\ UNCHANGED <<reserved, served, held, mixed>>

CommitSync(w) ==
    LET j == sync[w] IN
    /\ j.pc = "commit"
    /\ reserved' = (reserved \ j.gone) \cup j.new
    /\ held' = [c \in Carts |-> IF j.cart = {c} THEN {Grant(r.product, r.qty) : r \in j.new} ELSE held[c]]
    /\ mixed' = IF j.alone THEN mixed \ j.cart ELSE mixed
    /\ sync' = [sync EXCEPT ![w] = NoSync]
    /\ UNCHANGED served

(* The unique constraint, a lost connection: rolled back.                  *)
Abort(w) ==
    /\ sync[w].pc # "idle"
    /\ sync' = [sync EXCEPT ![w] = NoSync]
    /\ UNCHANGED <<reserved, served, held, mixed>>

(* Twenty minutes pass for what is reserved now.                           *)
Expire ==
    /\ Live(reserved) # {}
    /\ reserved' = {[r EXCEPT !.expired = TRUE] : r \in reserved}
    /\ sync' = [w \in Syncs |-> [sync[w] EXCEPT
                   !.targets = {[r EXCEPT !.expired = TRUE] : r \in @},
                   !.gone = {[r EXCEPT !.expired = TRUE] : r \in @}]]
    /\ held' = [c \in Carts |-> {}]
    /\ UNCHANGED <<served, mixed>>

CartsNext ==
    \/ \E w \in Syncs :
          \/ \E c \in Carts : ReleaseReservations(w, c) \/ \E want \in Wishes : SyncReservations(w, c, want)
          \/ FindExpired(w) \/ DeleteExpired(w) \/ FindOwn(w) \/ DeleteOwn(w)
          \/ Insert(w) \/ CommitSync(w) \/ Abort(w)
    \/ Expire

CartsSpec == CartsInit /\ [][CartsNext]_cartVars

(* What a cart is told is left of a product: reservations name a product,  *)
(* not a variant, and lower the stock of products without variants only.   *)
EffectiveStock(c, p) ==
    LET others == {r \in Live(reserved) : r.product = p /\ r.cart # c}
        left   == OnShelf - SumFunctionOnSet([r \in others |-> r.qty], others)
    IN  IF p \in Varied THEN OfVariants ELSE IF left > 0 THEN left ELSE 0

-----------------------------------------------------------------------------
(* A cart holds what its last sync asked for, as far as there was stock,   *)
(* until it expires; it never keeps rows of an earlier one, unless two     *)
(* calls for it overlapped and none ran on its own since.  A cart alone in *)
(* the shop is told of the whole stock (reservations.py:22-71,             *)
(* products.py:22-67).                                                     *)
CartHeld ==
    \A c \in Carts :
        /\ c \notin mixed => {Grant(r.product, r.qty) : r \in Live(Rows(c))} = held[c]
        /\ \A p \in Products :
              /\ \A r \in Rows(c) : r.product = p => r.qty <= OnShelf
              /\ Live(reserved) \subseteq Rows(c) =>
                    EffectiveStock(c, p) = IF p \in Varied THEN OfVariants ELSE OnShelf
=============================================================================
