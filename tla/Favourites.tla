----------------------------- MODULE Favourites -----------------------------
(***************************************************************************)
(* The favourites of members (routers/wishlist.py) and the mails that a    *)
(* lower price brings them (notify_price_drop, called by the product form  *)
(* in routers/products.py).  Calls read and commit later, without locks.   *)
(***************************************************************************)
EXTENDS Integers

CONSTANTS
    Members, Wares,
    Unblocked,      \* members that are not blocked; the program itself blocks none
    Prices,         \* prices a form may set
    Clients,        \* calls that are under way at the same time
    Forms,          \* product forms that are open at the same time
    MaxCalls        \* bound: calls, and forms

ASSUME FavouritesAssumption == Prices \subseteq Nat \ {0} /\ MaxCalls \in Nat /\ Unblocked \subseteq Members

VARIABLES
    favourites,  \* table wishlist_items: pairs of a member and a ware
    price,       \* price[p]; 0: the product is deleted
    client,      \* client[w]: the call of a member
    form,        \* form[f]: a product form that is being saved
    letters,     \* mails sent
    favPast      \* observed only; see FavouritesObserved below

favouriteVars == <<favourites, price, client, form, letters, favPast>>

(* met: what the call has read was changed since.  Observed only: met,     *)
(* asked: what the call is to add, dropped: what was removed meanwhile,    *)
(* was: the price the form has replaced.                                   *)
NoClient == [pc |-> "idle", rows |-> {}, asked |-> {}, dropped |-> {}, met |-> FALSE]
NoForm   == [pc |-> "idle", ware |-> CHOOSE p \in Wares : TRUE, old |-> 0, new |-> 0, was |-> 0, todo |-> {},
             met |-> FALSE]

(* lost: a call has confirmed a favourite that is not there, nor removed;  *)
(* refused: a call was refused that met no other; calls, forms: counts.    *)
FavouritesObserved == [lost |-> FALSE, refused |-> FALSE, calls |-> 0, forms |-> 0]

FavouritesInit ==
    /\ favourites = {}
    /\ \E n \in Prices : price = [p \in Wares |-> n]
    /\ client = [w \in Clients |-> NoClient]
    /\ form = [f \in Forms |-> NoForm]
    /\ letters = {}
    /\ favPast = FavouritesObserved

-----------------------------------------------------------------------------
(* Rows change under the calls that have read them.                        *)
Meeting(calls, rows, removed) ==
    [w \in Clients |-> LET c == calls[w] IN
        [c EXCEPT !.met = @ \/ c.rows \cap rows # {}, !.dropped = @ \cup (c.asked \cap removed)]]

(* merge_wishlist: the products that exist, then the rows not yet there.   *)
MergeWishlist(w, m, wares) ==
    LET rows == {<<m, p>> : p \in {p \in wares : price[p] # 0}} IN
    /\ client[w].pc = "idle" /\ favPast.calls < MaxCalls /\ m \in Unblocked
    /\ client' = [client EXCEPT ![w] = [NoClient EXCEPT !.pc = "find", !.rows = rows, !.asked = rows]]
    /\ favPast' = [favPast EXCEPT !.calls = @ + 1]
    /\ UNCHANGED <<favourites, price, form, letters>>

(* add_wishlist: the same for one product.                                 *)
AddWishlist(w, m, p) == price[p] # 0 /\ MergeWishlist(w, m, {p})

(* Faulty variant of Missing: what another member has is not added.        *)
MissingToAll(rows) == {r \in rows : \A m \in Members : <<m, r[2]>> \notin favourites}

Missing(rows) == rows \ favourites

Assured(w, there) ==
    favPast' = [favPast EXCEPT !.lost = @ \/ ~ client[w].asked \subseteq there \cup client[w].dropped]

FindExisting(w) ==
    LET rows == Missing(client[w].rows) IN
    /\ client[w].pc = "find"
    /\ IF rows = {} THEN client' = [client EXCEPT ![w] = NoClient] /\ Assured(w, favourites)
       ELSE client' = [client EXCEPT ![w].pc = "insert", ![w].rows = rows] /\ UNCHANGED favPast
    /\ UNCHANGED <<favourites, price, form, letters>>

(* All rows or none: when one is there by now, or its product is gone, the *)
(* database refuses them all.                                              *)
CommitWishes(w) ==
    LET c == client[w] IN
    /\ c.pc = "insert"
    /\ IF c.rows \cap favourites # {} \/ \E r \in c.rows : price[r[2]] = 0
       THEN /\ client' = [client EXCEPT ![w] = NoClient]
            /\ favPast' = [favPast EXCEPT !.refused = @ \/ ~ c.met]
            /\ UNCHANGED favourites
       ELSE /\ favourites' = favourites \cup c.rows
            /\ client' = Meeting([client EXCEPT ![w] = NoClient], c.rows, {})
            /\ Assured(w, favourites')
    /\ UNCHANGED <<price, form, letters>>

RemoveWishlist(m, p) ==
    /\ <<m, p>> \in favourites /\ m \in Unblocked
    /\ favourites' = favourites \ {<<m, p>>}
    /\ client' = Meeting(client, {<<m, p>>}, {<<m, p>>})
    /\ UNCHANGED <<price, form, letters, favPast>>

(* The rows of a product are deleted with it.                              *)
DeleteProduct(p) ==
    LET gone == Members \X {p} IN
    /\ price[p] # 0 /\ price' = [price EXCEPT ![p] = 0]
    /\ favourites' = favourites \ gone
    /\ client' = Meeting(client, gone, gone)
    /\ UNCHANGED <<form, letters, favPast>>

-----------------------------------------------------------------------------
(* The product form: the price it has read is the one the mails quote.     *)
OpenForm(f, p, new) ==
    /\ form[f].pc = "idle" /\ favPast.forms < MaxCalls /\ price[p] # 0
    /\ form' = [form EXCEPT ![f] = [NoForm EXCEPT !.pc = "commit", !.ware = p, !.old = price[p], !.new = new]]
    /\ favPast' = [favPast EXCEPT !.forms = @ + 1]
    /\ UNCHANGED <<favourites, price, client, letters>>

(* A price that is the one read is not written; a product that is gone     *)
(* answers with an error.                                                  *)
SaveForm(f) ==
    LET c == form[f]  was == price[c.ware] IN
    /\ c.pc = "commit"
    /\ price' = IF was = 0 \/ c.new = c.old THEN price ELSE [price EXCEPT ![c.ware] = c.new]
    /\ form' = [g \in Forms |->
           IF g = f THEN IF was # 0 /\ c.new < c.old THEN [c EXCEPT !.pc = "mail", !.was = was] ELSE NoForm
           ELSE IF form[g].ware = c.ware THEN [form[g] EXCEPT !.met = TRUE] ELSE form[g]]
    /\ UNCHANGED <<favourites, client, letters, favPast>>

(* The active members who have the product among their favourites now.     *)
Recipients(f) ==
    /\ form[f].pc = "mail"
    /\ form' = [form EXCEPT ![f].pc = "send", ![f].todo = {m \in Unblocked : <<m, form[f].ware>> \in favourites}]
    /\ UNCHANGED <<favourites, price, client, letters, favPast>>

NotifyPriceDrop(f) ==
    LET c == form[f] IN
    /\ c.pc = "send"
    /\ form' = [form EXCEPT ![f] = NoForm]
    /\ letters' = letters \cup {[to |-> m, ware |-> c.ware, new |-> c.new, was |-> c.was, met |-> c.met,
                                 now |-> price[c.ware]] : m \in c.todo}
    /\ UNCHANGED <<favourites, price, client, favPast>>

FavouritesNext ==
    \/ \E w \in Clients :
          \/ \E m \in Members : (\E wares \in SUBSET Wares : MergeWishlist(w, m, wares))
                                \/ \E p \in Wares : AddWishlist(w, m, p)
          \/ FindExisting(w) \/ CommitWishes(w)
    \/ \E f \in Forms :
          \/ \E p \in Wares, new \in Prices : OpenForm(f, p, new)
          \/ SaveForm(f) \/ Recipients(f) \/ NotifyPriceDrop(f)
    \/ \E p \in Wares : DeleteProduct(p) \/ \E m \in Members : RemoveWishlist(m, p)

FavouritesSpec == FavouritesInit /\ [][FavouritesNext]_favouriteVars

-----------------------------------------------------------------------------
(* Properties.                                                             *)

(* A member who is told of a lower price finds it: it replaced a higher    *)
(* one and still stands, unless another form was saved meanwhile, or the   *)
(* product is gone.                                                        *)
DropsTold == \A l \in letters : l.met \/ (l.new < l.was /\ l.now \in {l.new, 0})

(* What a member is told is kept is kept, until it is removed; a call is   *)
(* refused only when another has changed the rows it read; and mails tell  *)
(* of prices that have dropped (wishlist.py:70-112, 130-174).              *)
FavouritesKept == ~ favPast.lost /\ ~ favPast.refused /\ DropsTold
=============================================================================
