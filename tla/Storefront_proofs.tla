-------------------------- MODULE Storefront_proofs --------------------------
(***************************************************************************)
(* Proofs about what the shop shows next to the calls that change it: the  *)
(* exchange rates (Rates), carts (Carts), ratings (Reviews), favourites    *)
(* and price mails (Favourites) and timelines (Timeline); about what it    *)
(* keeps of its customers (Privacy), for any number of calls, carts,       *)
(* products, members, orders and requests; and about what it computes      *)
(* without a state: scores (Scores), distances of texts (Search) and lists *)
(* of products (Suggestions), for inputs of any size.                      *)
(***************************************************************************)
EXTENDS Timeline, Reviews, Carts, Favourites, Rates, Privacy, Scores, Suggestions, Totals,
        FiniteSetTheorems, SequenceTheorems, TLAPS

-----------------------------------------------------------------------------
(* Exchange rates.                                                         *)

Pcs == {"idle", "waiting", "fetching"}

RatesTyped ==
    /\ time \in Nat
    /\ cache \in [Bases -> [rates : Nat, at : Nat]]
    /\ asker \in [Askers -> [pc : Pcs, base : Bases \cup {NoAsk.base}, now : Nat]]
    /\ \A a \in Askers : asker[a].pc # "idle" => asker[a].base \in Bases
    /\ ratesPast \in [told : [Bases -> Nat], ok : BOOLEAN]

(* What is kept is not older than its stamp, nor than what was told of it, *)
(* unless the service last answered without the currency.                  *)
KeptInOrder ==
    \A b \in Bases : /\ cache[b].rates # 0 => cache[b].at <= cache[b].rates
                     /\ cache[b].rates <= time /\ ratesPast.told[b] <= time
                     /\ ratesPast.told[b] <= cache[b].rates \/ AnsweredSo(cache[b])

CallsInPast ==
    /\ time > 0
    /\ \A a \in Askers : asker[a].now <= time /\ (asker[a].pc # "idle" => asker[a].now > 0)

(* One call fetches at a time, and until it is done what it found to be    *)
(* old is what is kept.                                                    *)
OneFetch ==
    /\ \A a, d \in Askers : asker[a].pc = "fetching" /\ asker[d].pc = "fetching" => a = d
    /\ \A a \in Askers : asker[a].pc = "fetching" => ~ Young(asker[a])

RatesInv == RatesTyped /\ KeptInOrder /\ CallsInPast /\ OneFetch /\ ratesPast.ok

-----------------------------------------------------------------------------
(* The first state: nothing is kept, nothing told.                         *)
LEMMA RatesInitInv == RatesInit => RatesInv
  <1> SUFFICES ASSUME RatesInit PROVE RatesInv
      OBVIOUS
  <1>1. NoAsk = [pc |-> "idle", base |-> NoAsk.base, now |-> 0]
      BY DEF NoAsk
  <1>2. RatesTyped
      BY <1>1 DEF RatesInit, RatesTyped, RatesObserved, Empty, Pcs
  <1>3. KeptInOrder /\ CallsInPast /\ OneFetch /\ ratesPast.ok
      BY <1>1 DEF RatesInit, KeptInOrder, CallsInPast, OneFetch, RatesObserved, Empty
  <1> QED
      BY <1>2, <1>3 DEF RatesInv

(* A call that answers leaves the rest alone: get_rate returns.            *)
LEMMA AnswerKeeps ==
    ASSUME RatesInv, NEW a \in Askers, asker[a].pc # "idle", NEW kept \in [rates : Nat, at : Nat],
           NEW fine \in BOOLEAN, Answer(a, kept, fine), fine, kept.rates <= time,
           kept.rates >= ratesPast.told[asker[a].base] \/ AnsweredSo(kept)
    PROVE  /\ asker' = [asker EXCEPT ![a] = NoAsk]
           /\ asker' \in [Askers -> [pc : Pcs, base : Bases \cup {NoAsk.base}, now : Nat]]
           /\ \A d \in Askers : asker'[d].pc # "idle" => d # a /\ asker'[d] = asker[d] /\ asker[d].base \in Bases
           /\ ratesPast' \in [told : [Bases -> Nat], ok : BOOLEAN] /\ ratesPast'.ok
           /\ ratesPast'.told[asker[a].base] <= time
           /\ ratesPast'.told[asker[a].base] <= kept.rates \/ AnsweredSo(kept)
           /\ \A b \in Bases \ {asker[a].base} : ratesPast'.told[b] = ratesPast.told[b]
  <1> DEFINE newer == kept.rates >= ratesPast.told[asker[a].base]
             told  == IF newer THEN [ratesPast.told EXCEPT ![asker[a].base] = kept.rates] ELSE ratesPast.told
  <1>1. /\ asker' = [asker EXCEPT ![a] = NoAsk]
        /\ ratesPast' = [told |-> told, ok |-> ratesPast.ok /\ fine /\ (newer \/ AnsweredSo(kept))]
      BY DEF Answer
  <1>2. /\ asker \in [Askers -> [pc : Pcs, base : Bases \cup {NoAsk.base}, now : Nat]]
        /\ \A d \in Askers : asker[d].pc # "idle" => asker[d].base \in Bases
        /\ ratesPast.told \in [Bases -> Nat] /\ ratesPast.ok /\ time \in Nat
        /\ \A b \in Bases : ratesPast.told[b] <= time
      BY DEF RatesInv, RatesTyped, KeptInOrder
  <1>3. NoAsk \in [pc : Pcs, base : Bases \cup {NoAsk.base}, now : Nat] /\ NoAsk.pc = "idle"
      BY DEF NoAsk, Pcs
  <1>4. asker' \in [Askers -> [pc : Pcs, base : Bases \cup {NoAsk.base}, now : Nat]]
      BY <1>1, <1>2, <1>3
  <1>5. \A d \in Askers : asker'[d].pc # "idle" => d # a /\ asker'[d] = asker[d] /\ asker[d].base \in Bases
      BY <1>1, <1>2, <1>3
  <1>6. ratesPast'.ok = TRUE
      BY <1>1, <1>2
  <1>7. /\ told \in [Bases -> Nat] /\ told[asker[a].base] <= time
        /\ told[asker[a].base] <= kept.rates \/ AnsweredSo(kept)
        /\ \A b \in Bases \ {asker[a].base} : told[b] = ratesPast.told[b]
      BY <1>2
  <1>8. ratesPast'.told = told /\ ratesPast' \in [told : [Bases -> Nat], ok : BOOLEAN]
    <2> HIDE DEF told, newer
    <2> QED
        BY <1>1, <1>2, <1>6, <1>7
  <1> QED
      BY <1>1, <1>4, <1>5, <1>6, <1>7, <1>8

-----------------------------------------------------------------------------
(* A call arrives and takes the time.                                      *)
LEMMA AskKeeps == ASSUME RatesInv, NEW a \in Askers, NEW b \in Bases, AskRate(a, b) PROVE RatesInv'
  <1> DEFINE new == [pc |-> "waiting", base |-> b, now |-> time]
  <1>1. asker' = [asker EXCEPT ![a] = new] /\ UNCHANGED <<time, cache, ratesPast>>
      BY DEF AskRate
  <1>2. \A d \in Askers : asker'[d] = IF d = a THEN new ELSE asker[d]
      BY <1>1 DEF RatesInv, RatesTyped
  <1>3. RatesTyped'
      BY <1>1, <1>2 DEF RatesInv, RatesTyped, Pcs
  <1>4. KeptInOrder'
      BY <1>1 DEF RatesInv, KeptInOrder, AnsweredSo
  <1>5. CallsInPast'
      BY <1>1, <1>2 DEF RatesInv, RatesTyped, CallsInPast
  <1>6. OneFetch'
      BY <1>1, <1>2 DEF RatesInv, OneFetch, Young
  <1> QED
      BY <1>1, <1>3, <1>4, <1>5, <1>6 DEF RatesInv

(* A call gets the lock, and answers from what is kept or fetches.         *)
LEMMA EnterKeeps == ASSUME RatesInv, NEW a \in Askers, Enter(a) PROVE RatesInv'
  <1> DEFINE c == asker[a]
  <1>1. c.pc = "waiting" /\ LockFree /\ UNCHANGED <<time, cache>>
      BY DEF Enter
  <1>2. /\ c.base \in Bases /\ cache[c.base] \in [rates : Nat, at : Nat] /\ cache[c.base].rates <= time
        /\ cache[c.base].rates >= ratesPast.told[c.base] \/ AnsweredSo(cache[c.base])
      BY <1>1 DEF RatesInv, RatesTyped, KeptInOrder
  <1>3. CASE Young(c)
    <2>1. Answer(a, cache[c.base], TRUE)
        BY <1>3 DEF Enter
    <2>2. /\ asker' = [asker EXCEPT ![a] = NoAsk]
          /\ asker' \in [Askers -> [pc : Pcs, base : Bases \cup {NoAsk.base}, now : Nat]]
          /\ \A d \in Askers : asker'[d].pc # "idle" => d # a /\ asker'[d] = asker[d] /\ asker[d].base \in Bases
          /\ ratesPast' \in [told : [Bases -> Nat], ok : BOOLEAN] /\ ratesPast'.ok
          /\ ratesPast'.told[c.base] <= time
          /\ ratesPast'.told[c.base] <= cache[c.base].rates \/ AnsweredSo(cache[c.base])
          /\ \A b \in Bases \ {c.base} : ratesPast'.told[b] = ratesPast.told[b]
        BY <1>1, <1>2, <2>1, AnswerKeeps
    <2>3. RatesTyped'
        BY <1>1, <2>2 DEF RatesInv, RatesTyped
    <2>4. KeptInOrder'
        BY <1>1, <1>2, <2>2 DEF RatesInv, RatesTyped, KeptInOrder, AnsweredSo
    <2>5. CallsInPast'
        BY <1>1, <2>2 DEF RatesInv, RatesTyped, CallsInPast, NoAsk
    <2>6. OneFetch'
        BY <1>1, <2>2 DEF RatesInv, OneFetch, Young
    <2> QED
        BY <2>2, <2>3, <2>4, <2>5, <2>6 DEF RatesInv
  <1>4. CASE ~ Young(c)
    <2>1. asker' = [asker EXCEPT ![a].pc = "fetching"] /\ UNCHANGED ratesPast
        BY <1>4 DEF Enter
    <2>2. /\ asker' \in [Askers -> [pc : Pcs, base : Bases \cup {NoAsk.base}, now : Nat]]
          /\ \A d \in Askers : /\ asker'[d].base = asker[d].base /\ asker'[d].now = asker[d].now
                               /\ d # a => asker'[d].pc = asker[d].pc
                               /\ d = a => asker'[d].pc = "fetching"
        BY <2>1 DEF RatesInv, RatesTyped, Pcs
    <2>3. RatesTyped'
        BY <1>1, <1>2, <2>1, <2>2 DEF RatesInv, RatesTyped
    <2>4. KeptInOrder' /\ CallsInPast'
        BY <1>1, <2>1, <2>2 DEF RatesInv, KeptInOrder, CallsInPast, AnsweredSo
    <2>5. OneFetch'
        BY <1>1, <1>4, <2>1, <2>2 DEF RatesInv, OneFetch, Young, LockFree
    <2> QED
        BY <2>1, <2>3, <2>4, <2>5 DEF RatesInv
  <1> QED
      BY <1>3, <1>4

(* The fetch succeeds: what it replaces was at least TTL old; it brings    *)
(* the newest rates, or says that there are none.                          *)
LEMMA FetchedKeeps == ASSUME RatesInv, NEW a \in Askers, Fetched(a) PROVE RatesInv'
  <1> DEFINE c == asker[a]
             old == cache[c.base]
             fine == old.at # 0 => c.now - old.at >= TTL
             new(rates) == [rates |-> rates, at |-> c.now]
  <1>1. c.pc = "fetching" /\ UNCHANGED time
      BY DEF Fetched
  <1>2. PICK rates \in {time, 0} : cache' = [cache EXCEPT ![c.base] = new(rates)] /\ Answer(a, new(rates), fine)
      BY DEF Fetched
  <1>3. c.base \in Bases /\ time \in Nat /\ c.now \in Nat /\ c.now <= time /\ c.now > 0
      BY <1>1 DEF RatesInv, RatesTyped, CallsInPast
  <1>4. old.at \in Nat /\ ratesPast.told[c.base] \in Nat /\ ratesPast.told[c.base] <= time
      BY <1>3 DEF RatesInv, RatesTyped, KeptInOrder
  <1>5. fine /\ fine \in BOOLEAN
      BY <1>1, <1>3, <1>4, RatesAssumption DEF RatesInv, OneFetch, Young
  <1>6. /\ new(rates) \in [rates : Nat, at : Nat] /\ new(rates).rates <= time
        /\ new(rates).rates # 0 => new(rates).at <= new(rates).rates
        /\ new(rates).rates >= ratesPast.told[c.base] \/ AnsweredSo(new(rates))
      BY <1>3, <1>4 DEF AnsweredSo
  <1>7. /\ asker' = [asker EXCEPT ![a] = NoAsk]
        /\ asker' \in [Askers -> [pc : Pcs, base : Bases \cup {NoAsk.base}, now : Nat]]
        /\ \A d \in Askers : asker'[d].pc # "idle" => d # a /\ asker'[d] = asker[d] /\ asker[d].base \in Bases
        /\ ratesPast' \in [told : [Bases -> Nat], ok : BOOLEAN] /\ ratesPast'.ok
        /\ ratesPast'.told[c.base] <= time
        /\ ratesPast'.told[c.base] <= new(rates).rates \/ AnsweredSo(new(rates))
        /\ \A b \in Bases \ {c.base} : ratesPast'.told[b] = ratesPast.told[b]
    <2> HIDE DEF fine, new
    <2>1. asker[a].pc # "idle"
        BY <1>1
    <2>2. Answer(a, new(rates), fine) /\ fine /\ fine \in BOOLEAN
        BY <1>2, <1>5
    <2> QED
        BY <1>6, <2>1, <2>2, AnswerKeeps, Zenon
  <1>8. /\ cache' \in [Bases -> [rates : Nat, at : Nat]]
        /\ cache'[c.base] = new(rates)
        /\ \A b \in Bases \ {c.base} : cache'[b] = cache[b]
    <2> HIDE DEF new
    <2> QED
        BY <1>2, <1>3, <1>6 DEF RatesInv, RatesTyped
  <1>9. RatesTyped'
      BY <1>1, <1>7, <1>8 DEF RatesInv, RatesTyped
  <1>10. KeptInOrder'
    <2> HIDE DEF new
    <2> QED
        BY <1>1, <1>6, <1>7, <1>8 DEF RatesInv, KeptInOrder, AnsweredSo
  <1>11. CallsInPast'
      BY <1>1, <1>7 DEF RatesInv, RatesTyped, CallsInPast, NoAsk
  <1>12. \A d \in Askers : asker'[d].pc # "fetching"
      BY <1>1, <1>7 DEF RatesInv, OneFetch
  <1> QED
      BY <1>7, <1>9, <1>10, <1>11, <1>12 DEF RatesInv, OneFetch

(* The fetch fails: what is kept is told once more.                        *)
LEMMA FetchFailsKeeps == ASSUME RatesInv, NEW a \in Askers, FetchFails(a) PROVE RatesInv'
  <1> DEFINE c == asker[a]
  <1>1. c.pc = "fetching" /\ UNCHANGED <<time, cache>> /\ Answer(a, cache[c.base], TRUE)
      BY DEF FetchFails
  <1>2. /\ c.base \in Bases /\ cache[c.base] \in [rates : Nat, at : Nat] /\ cache[c.base].rates <= time
        /\ cache[c.base].rates >= ratesPast.told[c.base] \/ AnsweredSo(cache[c.base])
      BY <1>1 DEF RatesInv, RatesTyped, KeptInOrder
  <1>3. /\ asker' = [asker EXCEPT ![a] = NoAsk]
        /\ asker' \in [Askers -> [pc : Pcs, base : Bases \cup {NoAsk.base}, now : Nat]]
        /\ \A d \in Askers : asker'[d].pc # "idle" => d # a /\ asker'[d] = asker[d] /\ asker[d].base \in Bases
        /\ ratesPast' \in [told : [Bases -> Nat], ok : BOOLEAN] /\ ratesPast'.ok
        /\ ratesPast'.told[c.base] <= time
        /\ ratesPast'.told[c.base] <= cache[c.base].rates \/ AnsweredSo(cache[c.base])
        /\ \A b \in Bases \ {c.base} : ratesPast'.told[b] = ratesPast.told[b]
      BY <1>1, <1>2, AnswerKeeps
  <1>4. RatesTyped'
      BY <1>1, <1>3 DEF RatesInv, RatesTyped
  <1>5. KeptInOrder'
      BY <1>1, <1>2, <1>3 DEF RatesInv, RatesTyped, KeptInOrder, AnsweredSo
  <1>6. CallsInPast'
      BY <1>1, <1>3 DEF RatesInv, RatesTyped, CallsInPast, NoAsk
  <1>7. OneFetch'
      BY <1>1, <1>3 DEF RatesInv, OneFetch, Young
  <1> QED
      BY <1>3, <1>4, <1>5, <1>6, <1>7 DEF RatesInv

(* Time passes.                                                            *)
LEMMA LaterKeeps == ASSUME RatesInv, Later PROVE RatesInv'
  <1>1. time' = time + 1 /\ UNCHANGED <<cache, asker, ratesPast>>
      BY DEF Later
  <1>2. RatesTyped' /\ OneFetch'
      BY <1>1 DEF RatesInv, RatesTyped, OneFetch, Young
  <1>3. KeptInOrder' /\ CallsInPast'
      BY <1>1 DEF RatesInv, RatesTyped, KeptInOrder, CallsInPast, AnsweredSo
  <1> QED
      BY <1>1, <1>2, <1>3 DEF RatesInv

LEMMA RatesStep == RatesInv /\ [RatesNext]_ratesVars => RatesInv'
  <1> SUFFICES ASSUME RatesInv, [RatesNext]_ratesVars PROVE RatesInv'
      OBVIOUS
  <1>1. CASE UNCHANGED ratesVars
      BY <1>1 DEF ratesVars, RatesInv, RatesTyped, KeptInOrder, CallsInPast, OneFetch, Young, AnsweredSo
  <1>2. CASE RatesNext
      BY <1>2, AskKeeps, EnterKeeps, FetchedKeeps, FetchFailsKeeps, LaterKeeps DEF RatesNext
  <1> QED
      BY <1>1, <1>2

(* One fetch serves all calls of a period; rates told of a currency never  *)
(* go back to older ones, and to no conversion only while the service's    *)
(* last answer was one without it; and a stamp never makes them younger    *)
(* than they are (currency.py:36-66).                                      *)
THEOREM RatesHold == RatesSpec => []RatesTrue
  <1>1. RatesInv => RatesTrue
    <2> SUFFICES ASSUME RatesInv PROVE RatesTrue
        OBVIOUS
    <2>1. \A b \in Bases : cache[b].rates \in Nat /\ ratesPast.told[b] \in Nat /\ time \in Nat
        BY DEF RatesInv, RatesTyped
    <2> QED
        BY <2>1 DEF RatesInv, KeptInOrder, RatesTrue
  <1> QED
      BY <1>1, RatesInitInv, RatesStep, PTL DEF RatesSpec

-----------------------------------------------------------------------------
(* Carts.                                                                  *)

CartRows == [cart : Carts, product : Products, qty : Nat, expired : BOOLEAN, id : Nat]
Owners   == {{}} \cup {{c} : c \in Carts}
SyncJobs == [pc : {"idle", "clean", "cleaning", "own", "owning", "insert", "commit"},
             cart : Owners, want : {{}} \cup Wishes, targets : SUBSET CartRows,
             gone : SUBSET CartRows, new : SUBSET CartRows, alone : BOOLEAN]

CartsTyped ==
    /\ reserved \in SUBSET CartRows /\ served \in Nat
    /\ sync \in [Syncs -> SyncJobs]
    /\ held \in [Carts -> SUBSET [product : Products, qty : Nat]]

(* A call that is alone has the only sync of its cart; a cart with calls   *)
(* that met others is mixed.                                               *)
Alone(w) ==
    sync[w].pc # "idle" =>
        /\ sync[w].cart # {}
        /\ sync[w].alone => \A v \in Syncs \ {w} : sync[v].cart # sync[w].cart
        /\ ~ sync[w].alone => sync[w].cart \subseteq mixed

(* Of other carts a call deletes only what has expired.                    *)
OfOthers(w) == \A r \in sync[w].targets \cup sync[w].gone : r.expired \/ sync[w].cart = {r.cart}

(* A call that is alone leaves no row of its cart.                         *)
Cleared(w) ==
    sync[w].alone =>
        /\ sync[w].pc = "owning" => \A r \in reserved : sync[w].cart = {r.cart} => r \in sync[w].targets \cup sync[w].gone
        /\ sync[w].pc \in {"insert", "commit"} => \A r \in reserved : sync[w].cart = {r.cart} => r \in sync[w].gone

(* What is about to be inserted is the cart's own, live, and in stock.     *)
Inserts(w) == \A r \in sync[w].new : sync[w].cart = {r.cart} /\ ~ r.expired /\ r.qty <= OnShelf

HeldTrue == \A c \in Carts \ mixed : {Grant(r.product, r.qty) : r \in Live(Rows(c))} = held[c]

InStock == \A r \in reserved : r.qty <= OnShelf

CartsInv ==
    /\ CartsTyped /\ HeldTrue /\ InStock
    /\ \A w \in Syncs : Alone(w) /\ OfOthers(w) /\ Cleared(w) /\ Inserts(w)

(* A call that is over has nothing.                                        *)
LEMMA NoSyncIs ==
    /\ NoSync \in SyncJobs /\ NoSync.pc = "idle" /\ NoSync.cart = {} /\ NoSync.alone
    /\ NoSync.targets = {} /\ NoSync.gone = {} /\ NoSync.new = {}
  BY DEF NoSync, SyncJobs, Owners

(* What a call knows.                                                      *)
LEMMA SyncFields ==
    ASSUME NEW j \in SyncJobs
    PROVE  /\ j.pc \in {"idle", "clean", "cleaning", "own", "owning", "insert", "commit"}
           /\ j.cart \in Owners /\ j.want \in {{}} \cup Wishes /\ j.alone \in BOOLEAN
           /\ j.targets \in SUBSET CartRows /\ j.gone \in SUBSET CartRows /\ j.new \in SUBSET CartRows
  BY DEF SyncJobs

(* A record that takes the place of a call's, when nothing else changes.   *)
LEMMA SyncSet ==
    ASSUME CartsInv, NEW w \in Syncs, NEW j \in SyncJobs, sync' = [sync EXCEPT ![w] = j],
           UNCHANGED <<reserved, served, held, mixed>>,
           j.cart = sync[w].cart /\ j.alone = sync[w].alone /\ sync[w].pc # "idle" /\ j.pc # "idle",
           \A r \in j.targets \cup j.gone : r.expired \/ j.cart = {r.cart},
           j.alone => /\ j.pc = "owning" => \A r \in reserved : j.cart = {r.cart} => r \in j.targets \cup j.gone
                      /\ j.pc \in {"insert", "commit"} => \A r \in reserved : j.cart = {r.cart} => r \in j.gone,
           \A r \in j.new : j.cart = {r.cart} /\ ~ r.expired /\ r.qty <= OnShelf
    PROVE  CartsInv'
  <1>1. sync' \in [Syncs -> SyncJobs] /\ sync'[w] = j /\ \A v \in Syncs \ {w} : sync'[v] = sync[v]
    BY DEF CartsInv, CartsTyped
  <1>2. CartsTyped' /\ HeldTrue' /\ InStock'
    BY <1>1 DEF CartsInv, CartsTyped, HeldTrue, InStock, Live, Rows
  <1>3. ASSUME NEW v \in Syncs PROVE Alone(v)'
    <2>1. \A u \in Syncs : sync'[u].cart = sync[u].cart /\ sync'[u].alone = sync[u].alone
                           /\ (sync'[u].pc # "idle" => sync[u].pc # "idle")
      BY <1>1
    <2> QED
      BY <2>1 DEF CartsInv, Alone
  <1>4. ASSUME NEW v \in Syncs PROVE OfOthers(v)' /\ Cleared(v)' /\ Inserts(v)'
    <2>1. CASE v = w
      BY <1>1, <2>1 DEF OfOthers, Cleared, Inserts
    <2>2. CASE v # w
      BY <1>1, <2>2 DEF CartsInv, OfOthers, Cleared, Inserts
    <2> QED
      BY <2>1, <2>2
  <1> QED
    BY <1>2, <1>3, <1>4 DEF CartsInv

(* A call begins: sync_reservations, release_reservations.                 *)
LEMMA BeginKept ==
    ASSUME CartsInv, NEW w \in Syncs, NEW c \in Carts, NEW pc \in {"clean", "own"}, NEW want \in {{}} \cup Wishes,
           BeginSync(w, c, pc, want)
    PROVE  CartsInv'
  <1> DEFINE others == {v \in Syncs : sync[v].cart = {c}}
             j == [NoSync EXCEPT !.pc = pc, !.cart = {c}, !.want = want, !.alone = others = {}]
  <1>1. /\ served' = served + 1 /\ UNCHANGED <<reserved, held>>
        /\ sync' = [v \in Syncs |-> IF v = w THEN j
                                    ELSE IF v \in others THEN [sync[v] EXCEPT !.alone = FALSE] ELSE sync[v]]
        /\ mixed' = IF others = {} THEN mixed ELSE mixed \cup {c}
    BY DEF BeginSync
  <1>2. /\ j \in SyncJobs /\ j.pc = pc /\ j.cart = {c} /\ j.alone = (others = {})
        /\ j.targets = {} /\ j.gone = {} /\ j.new = {}
    BY DEF NoSync, SyncJobs, Owners
  <1> HIDE DEF j
  <1>3. \A v \in Syncs \ {w} :
           /\ sync'[v] \in SyncJobs /\ sync'[v].pc = sync[v].pc /\ sync'[v].cart = sync[v].cart
           /\ sync'[v].targets = sync[v].targets /\ sync'[v].gone = sync[v].gone /\ sync'[v].new = sync[v].new
           /\ sync'[v].alone = (sync[v].alone /\ v \notin others)
    <2> SUFFICES ASSUME NEW v \in Syncs \ {w}
                 PROVE  /\ sync'[v] \in SyncJobs /\ sync'[v].pc = sync[v].pc /\ sync'[v].cart = sync[v].cart
                        /\ sync'[v].targets = sync[v].targets /\ sync'[v].gone = sync[v].gone /\ sync'[v].new = sync[v].new
                        /\ sync'[v].alone = (sync[v].alone /\ v \notin others)
      OBVIOUS
    <2> DEFINE k == sync[v]
    <2>1. k \in SyncJobs /\ k.alone \in BOOLEAN
      BY SyncFields DEF CartsInv, CartsTyped
    <2>2. sync'[v] = IF v \in others THEN [k EXCEPT !.alone = FALSE] ELSE k
      BY <1>1
    <2> HIDE DEF k, others
    <2>3. [k EXCEPT !.alone = FALSE] \in SyncJobs
      BY <2>1 DEF SyncJobs
    <2>4. /\ sync'[v] \in SyncJobs /\ sync'[v].pc = k.pc /\ sync'[v].cart = k.cart
          /\ sync'[v].targets = k.targets /\ sync'[v].gone = k.gone /\ sync'[v].new = k.new
          /\ sync'[v].alone = (k.alone /\ v \notin others)
      BY <2>1, <2>2, <2>3 DEF SyncJobs
    <2> QED
      BY <2>4 DEF k
  <1>4. sync' \in [Syncs -> SyncJobs] /\ sync'[w] = j
    <2> HIDE DEF others
    <2>1. sync' = [v \in Syncs |-> sync'[v]] /\ sync'[w] = j
      BY <1>1
    <2> QED
      BY <1>2, <1>3, <2>1
  <1>5. CartsTyped'
    BY <1>1, <1>4 DEF CartsInv, CartsTyped
  <1>6. HeldTrue' /\ InStock'
    BY <1>1 DEF CartsInv, HeldTrue, InStock, Live, Rows
  <1>7. ASSUME NEW v \in Syncs PROVE Alone(v)'
    <2>1. CASE v = w
      BY <1>1, <1>2, <1>3, <1>4, <2>1 DEF Alone
    <2>2. CASE v # w
      <3>1. mixed \subseteq mixed' /\ (v \in others => c \in mixed') /\ (v \in others <=> sync[v].cart = {c})
        BY <1>1
      <3> HIDE DEF others
      <3>2. \A u \in Syncs \ {w} : sync'[u].cart = sync[u].cart
        BY <1>3
      <3>3. Alone(v)
        BY DEF CartsInv
      <3>4. sync'[v].pc = sync[v].pc /\ sync'[v].alone = (sync[v].alone /\ v \notin others) /\ sync'[w].cart = {c}
        BY <1>2, <1>3, <1>4, <2>2
      <3> QED
        BY <2>2, <3>1, <3>2, <3>3, <3>4 DEF Alone
    <2> QED
      BY <2>1, <2>2
  <1>8. ASSUME NEW v \in Syncs PROVE OfOthers(v)' /\ Cleared(v)' /\ Inserts(v)'
    <2>1. CASE v = w
      BY <1>2, <1>4, <2>1 DEF OfOthers, Cleared, Inserts
    <2>2. CASE v # w
      BY <1>1, <1>3, <2>2 DEF CartsInv, OfOthers, Cleared, Inserts
    <2> QED
      BY <2>1, <2>2
  <1> QED
    BY <1>5, <1>6, <1>7, <1>8 DEF CartsInv

(* A delete finds its rows.                                                *)
LEMMA FindKept ==
    ASSUME CartsInv, NEW w \in Syncs, FindExpired(w) \/ FindOwn(w)
    PROVE  CartsInv'
  <1> DEFINE k == sync[w]
  <1>1. k \in SyncJobs /\ reserved \in SUBSET CartRows
    BY DEF CartsInv, CartsTyped
  <1>2. (\A r \in k.gone : r.expired \/ k.cart = {r.cart}) /\ (\A r \in k.new : k.cart = {r.cart} /\ ~ r.expired /\ r.qty <= OnShelf)
    BY DEF CartsInv, OfOthers, Inserts
  <1>3. CASE FindExpired(w)
    <2> DEFINE t == (reserved \ Live(reserved)) \ k.gone
               j == [k EXCEPT !.pc = "cleaning", !.targets = t]
    <2>1. k.pc = "clean" /\ sync' = [sync EXCEPT ![w] = j] /\ UNCHANGED <<reserved, served, held, mixed>>
      BY <1>3 DEF FindExpired, Find
    <2>2. t \in SUBSET CartRows /\ \A r \in t : r.expired
      BY <1>1 DEF Live
    <2> HIDE DEF t, k
    <2>3. /\ j \in SyncJobs /\ j.pc = "cleaning" /\ j.cart = k.cart /\ j.alone = k.alone /\ j.targets = t
          /\ j.gone = k.gone /\ j.new = k.new
      BY <1>1, <2>2 DEF SyncJobs
    <2> HIDE DEF j
    <2>4. \A r \in j.targets \cup j.gone : r.expired \/ j.cart = {r.cart}
      BY <1>2, <2>2, <2>3
    <2> QED
      BY <1>2, <2>1, <2>3, <2>4, SyncSet DEF k
  <1>4. CASE FindOwn(w)
    <2> DEFINE t == Own(k) \ k.gone
               j == [k EXCEPT !.pc = "owning", !.targets = t]
    <2>1. k.pc = "own" /\ sync' = [sync EXCEPT ![w] = j] /\ UNCHANGED <<reserved, served, held, mixed>>
      BY <1>4 DEF FindOwn, Find
    <2>2. t \in SUBSET CartRows /\ (\A r \in t : k.cart = {r.cart}) /\ \A r \in reserved : k.cart = {r.cart} => r \in t \cup k.gone
      BY <1>1 DEF Own
    <2> HIDE DEF t, k
    <2>3. /\ j \in SyncJobs /\ j.pc = "owning" /\ j.cart = k.cart /\ j.alone = k.alone /\ j.targets = t
          /\ j.gone = k.gone /\ j.new = k.new
      BY <1>1, <2>2 DEF SyncJobs
    <2> HIDE DEF j
    <2>4. \A r \in j.targets \cup j.gone : r.expired \/ j.cart = {r.cart}
      BY <1>2, <2>2, <2>3
    <2> QED
      BY <1>2, <2>1, <2>2, <2>3, <2>4, SyncSet DEF k
  <1> QED
    BY <1>3, <1>4

(* A delete takes its rows.                                                *)
LEMMA DeleteKept ==
    ASSUME CartsInv, NEW w \in Syncs, DeleteExpired(w) \/ DeleteOwn(w)
    PROVE  CartsInv'
  <1> DEFINE k == sync[w]
             g == k.gone \cup (k.targets \cap reserved)
  <1>1. k \in SyncJobs /\ reserved \in SUBSET CartRows
    BY DEF CartsInv, CartsTyped
  <1>2. /\ \A r \in k.targets \cup k.gone : r.expired \/ k.cart = {r.cart}
        /\ \A r \in k.new : k.cart = {r.cart} /\ ~ r.expired /\ r.qty <= OnShelf
        /\ k.alone /\ k.pc = "owning" => \A r \in reserved : k.cart = {r.cart} => r \in k.targets \cup k.gone
    BY DEF CartsInv, OfOthers, Inserts, Cleared
  <1>3. g \in SUBSET CartRows /\ \A r \in g : r \in k.targets \cup k.gone
    BY <1>1, SyncFields
  <1>4. k.alone /\ k.pc = "owning" => \A r \in reserved : k.cart = {r.cart} => r \in g
    BY <1>2
  <1>5. CASE DeleteExpired(w)
    <2> DEFINE j == [k EXCEPT !.pc = "own", !.targets = {}, !.gone = g]
    <2>1. k.pc = "cleaning" /\ sync' = [sync EXCEPT ![w] = j] /\ UNCHANGED <<reserved, served, held, mixed>>
      BY <1>5 DEF DeleteExpired, Delete
    <2> HIDE DEF g, k
    <2>3. /\ j \in SyncJobs /\ j.pc = "own" /\ j.cart = k.cart /\ j.alone = k.alone /\ j.targets = {}
          /\ j.gone = g /\ j.new = k.new
      BY <1>1, <1>3 DEF SyncJobs
    <2> HIDE DEF j
    <2>4. \A r \in j.targets \cup j.gone : r.expired \/ j.cart = {r.cart}
      BY <1>2, <1>3, <2>3
    <2> QED
      BY <1>2, <2>1, <2>3, <2>4, SyncSet DEF k
  <1>6. CASE DeleteOwn(w)
    <2> DEFINE j == [k EXCEPT !.pc = "insert", !.targets = {}, !.gone = g]
    <2>1. k.pc = "owning" /\ sync' = [sync EXCEPT ![w] = j] /\ UNCHANGED <<reserved, served, held, mixed>>
      BY <1>6 DEF DeleteOwn, Delete
    <2> HIDE DEF g, k
    <2>3. /\ j \in SyncJobs /\ j.pc = "insert" /\ j.cart = k.cart /\ j.alone = k.alone /\ j.targets = {}
          /\ j.gone = g /\ j.new = k.new
      BY <1>1, <1>3 DEF SyncJobs
    <2> HIDE DEF j
    <2>4. \A r \in j.targets \cup j.gone : r.expired \/ j.cart = {r.cart}
      BY <1>2, <1>3, <2>3
    <2>5. j.alone => \A r \in reserved : j.cart = {r.cart} => r \in j.gone
      BY <1>4, <2>1, <2>3
    <2> QED
      BY <1>2, <2>1, <2>3, <2>4, <2>5, SyncSet DEF k
  <1> QED
    BY <1>5, <1>6

(* The rows of a cart are inserted, capped by the stock.                   *)
LEMMA InsertKept ==
    ASSUME CartsInv, NEW w \in Syncs, Insert(w)
    PROVE  CartsInv'
  <1> DEFINE k == sync[w]
             new == {[cart |-> c, product |-> g.product, qty |-> g.qty, expired |-> FALSE, id |-> served] :
                        c \in k.cart, g \in Capped(k.want)}
             j == [k EXCEPT !.pc = "commit", !.new = new]
  <1>1. k \in SyncJobs /\ served \in Nat
    BY DEF CartsInv, CartsTyped
  <1>2. k.pc = "insert" /\ sync' = [sync EXCEPT ![w] = j] /\ UNCHANGED <<reserved, served, held, mixed>>
    <2>1. new = {[cart |-> c, product |-> g.product, qty |-> g.qty, expired |-> FALSE, id |-> served] :
                        c \in sync[w].cart, g \in Capped(sync[w].want)}
      OBVIOUS
    <2>2. sync' = [sync EXCEPT ![w].pc = "commit", ![w].new =
                {[cart |-> c, product |-> g.product, qty |-> g.qty, expired |-> FALSE, id |-> served] :
                        c \in sync[w].cart, g \in Capped(sync[w].want)}]
      BY DEF Insert
    <2> HIDE DEF new
    <2>3. sync' = [sync EXCEPT ![w].pc = "commit", ![w].new = new]
      BY <2>1, <2>2
    <2>4. sync' = [sync EXCEPT ![w] = j]
      BY <2>3 DEF CartsInv, CartsTyped
    <2> QED
      BY <2>4 DEF Insert
  <1>3. k.cart \in Owners /\ k.want \in {{}} \cup Wishes
    BY <1>1, SyncFields
  <1>4. \A x \in k.want : x.product \in Products /\ x.qty \in Nat
    <2>1. \A x \in k.want : \E p \in Products, q \in 1..MaxQty : x = Grant(p, q)
      BY <1>3 DEF Wishes
    <2>2. \A q \in 1..MaxQty : q \in Nat
      BY CartsAssumption
    <2> QED
      BY <2>1, <2>2 DEF Grant
  <1>5. \A g \in Capped(k.want) : g.product \in Products /\ g.qty \in Nat /\ g.qty <= OnShelf
    <2> HIDE DEF k
    <2> SUFFICES ASSUME NEW g \in Capped(k.want) PROVE g.product \in Products /\ g.qty \in Nat /\ g.qty <= OnShelf
      OBVIOUS
    <2>1. PICK x \in k.want : g = Grant(x.product, Least(x.qty, OnShelf))
      BY DEF Capped
    <2>2. g.product = x.product /\ g.qty = Least(x.qty, OnShelf) /\ x.qty \in Nat /\ OnShelf \in Nat
      BY <1>4, <2>1, CartsAssumption DEF Grant
    <2> QED
      BY <1>4, <2>2 DEF Least
  <1>6. new \in SUBSET CartRows /\ \A r \in new : k.cart = {r.cart} /\ ~ r.expired /\ r.qty <= OnShelf
    <2> HIDE DEF k
    <2> SUFFICES ASSUME NEW c \in k.cart, NEW g \in Capped(k.want), NEW r,
                        r = [cart |-> c, product |-> g.product, qty |-> g.qty, expired |-> FALSE, id |-> served]
                 PROVE  r \in CartRows /\ k.cart = {r.cart} /\ ~ r.expired /\ r.qty <= OnShelf
      OBVIOUS
    <2>1. c \in Carts /\ k.cart = {c}
      BY <1>3 DEF Owners
    <2> QED
      BY <1>1, <1>5, <2>1 DEF CartRows
  <1>7. /\ \A r \in k.targets \cup k.gone : r.expired \/ k.cart = {r.cart}
        /\ k.alone => \A r \in reserved : k.cart = {r.cart} => r \in k.gone
    BY <1>2 DEF CartsInv, OfOthers, Cleared
  <1> HIDE DEF k, new
  <1>8. /\ j \in SyncJobs /\ j.pc = "commit" /\ j.cart = k.cart /\ j.alone = k.alone /\ j.targets = k.targets
        /\ j.gone = k.gone /\ j.new = new
    BY <1>1, <1>6 DEF SyncJobs
  <1> HIDE DEF j
  <1> QED
    BY <1>2, <1>6, <1>7, <1>8, SyncSet DEF k

(* A call ends without a trace.                                            *)
LEMMA AbortKept ==
    ASSUME CartsInv, NEW w \in Syncs, Abort(w)
    PROVE  CartsInv'
  <1>1. sync' = [sync EXCEPT ![w] = NoSync] /\ UNCHANGED <<reserved, served, held, mixed>>
    BY DEF Abort
  <1>2. sync' \in [Syncs -> SyncJobs] /\ sync'[w] = NoSync /\ \A v \in Syncs \ {w} : sync'[v] = sync[v]
    BY <1>1, NoSyncIs DEF CartsInv, CartsTyped
  <1>3. CartsTyped' /\ HeldTrue' /\ InStock'
    BY <1>1, <1>2 DEF CartsInv, CartsTyped, HeldTrue, InStock, Live, Rows
  <1>4. ASSUME NEW v \in Syncs PROVE Alone(v)' /\ OfOthers(v)' /\ Cleared(v)' /\ Inserts(v)'
    <2>1. CASE v = w
      BY <1>2, <2>1, NoSyncIs DEF Alone, OfOthers, Cleared, Inserts
    <2>2. CASE v # w
      <3>1. Alone(v)'
        BY <1>1, <1>2, <2>2, NoSyncIs DEF CartsInv, Alone
      <3> QED
        BY <1>1, <1>2, <2>2, <3>1 DEF CartsInv, OfOthers, Cleared, Inserts
    <2> QED
      BY <2>1, <2>2
  <1> QED
    BY <1>3, <1>4 DEF CartsInv

(* A call commits: of other carts only expired rows go, and a cart whose   *)
(* call was alone has the rows of that call.                               *)
LEMMA CommitKept ==
    ASSUME CartsInv, NEW w \in Syncs, CommitSync(w)
    PROVE  CartsInv'
  <1> DEFINE j == sync[w]
  <1>1. /\ j.pc = "commit" /\ reserved' = (reserved \ j.gone) \cup j.new
        /\ held' = [c \in Carts |-> IF j.cart = {c} THEN {Grant(r.product, r.qty) : r \in j.new} ELSE held[c]]
        /\ mixed' = IF j.alone THEN mixed \ j.cart ELSE mixed
        /\ sync' = [sync EXCEPT ![w] = NoSync] /\ served' = served
    BY DEF CommitSync
  <1>2. sync' \in [Syncs -> SyncJobs] /\ sync'[w] = NoSync /\ \A v \in Syncs \ {w} : sync'[v] = sync[v]
    BY <1>1, NoSyncIs DEF CartsInv, CartsTyped
  <1>3. /\ j \in SyncJobs /\ j.cart \in Owners /\ j.new \in SUBSET CartRows /\ j.gone \in SUBSET CartRows /\ j.alone \in BOOLEAN
        /\ reserved \in SUBSET CartRows /\ held \in [Carts -> SUBSET [product : Products, qty : Nat]]
    BY SyncFields DEF CartsInv, CartsTyped
  <1>4. /\ j.cart # {}
        /\ j.alone => \A v \in Syncs \ {w} : sync[v].cart # j.cart
        /\ ~ j.alone => j.cart \subseteq mixed
        /\ \A r \in j.gone : r.expired \/ j.cart = {r.cart}
        /\ j.alone => \A r \in reserved : j.cart = {r.cart} => r \in j.gone
        /\ \A r \in j.new : j.cart = {r.cart} /\ ~ r.expired /\ r.qty <= OnShelf
    BY <1>1 DEF CartsInv, Alone, OfOthers, Cleared, Inserts
  <1>5. PICK b \in Carts : j.cart = {b}
    BY <1>3, <1>4 DEF Owners
  <1> HIDE DEF j
  <1>6. \A r \in j.new : Grant(r.product, r.qty) \in [product : Products, qty : Nat]
    BY <1>3 DEF CartRows, Grant
  <1>7. CartsTyped'
    <2> DEFINE s == {Grant(r.product, r.qty) : r \in j.new}
    <2>1. s \in SUBSET [product : Products, qty : Nat]
      BY <1>6
    <2>2. held' = [c \in Carts |-> IF j.cart = {c} THEN s ELSE held[c]]
      BY <1>1
    <2> HIDE DEF s
    <2>3. held' \in [Carts -> SUBSET [product : Products, qty : Nat]]
      BY <1>3, <2>1, <2>2
    <2>4. reserved' \in SUBSET CartRows
      BY <1>1, <1>3
    <2> QED
      BY <1>1, <1>2, <2>3, <2>4 DEF CartsInv, CartsTyped
  <1>8. HeldTrue'
    <2> SUFFICES ASSUME NEW c \in Carts, c \notin mixed'
                 PROVE  {Grant(r.product, r.qty) : r \in Live(Rows(c))'} = held'[c]
      BY DEF HeldTrue
    <2>1. CASE c = b
      <3>1. j.alone
        BY <1>1, <1>4, <1>5, <2>1
      <3>2. Live(Rows(c))' = j.new
        BY <1>1, <1>4, <1>5, <2>1, <3>1 DEF Live, Rows
      <3>3. held'[c] = {Grant(r.product, r.qty) : r \in j.new}
        BY <1>1, <1>5, <2>1
      <3> QED
        BY <3>2, <3>3
    <2>2. CASE c # b
      <3>1. Live(Rows(c))' = Live(Rows(c))
        BY <1>1, <1>4, <1>5, <2>2 DEF Live, Rows
      <3>2. held'[c] = held[c] /\ c \notin mixed
        BY <1>1, <1>5, <2>2
      <3> QED
        BY <3>1, <3>2 DEF CartsInv, HeldTrue
    <2> QED
      BY <2>1, <2>2
  <1>9. InStock'
    BY <1>1, <1>4 DEF CartsInv, InStock
  <1>10. ASSUME NEW v \in Syncs PROVE Alone(v)' /\ OfOthers(v)' /\ Cleared(v)' /\ Inserts(v)'
    <2>1. CASE v = w
      BY <1>2, <2>1, NoSyncIs DEF Alone, OfOthers, Cleared, Inserts
    <2>2. CASE v # w
      <3>0. Alone(v) /\ OfOthers(v) /\ Cleared(v) /\ Inserts(v) /\ sync[v] \in SyncJobs
        BY DEF CartsInv, CartsTyped
      <3>1. Alone(v)'
        <4>1. ~ sync[v].alone /\ sync[v].pc # "idle" => sync[v].cart \subseteq mixed'
          <5> SUFFICES ASSUME ~ sync[v].alone, sync[v].pc # "idle" PROVE sync[v].cart \subseteq mixed'
            OBVIOUS
          <5>1. sync[v].cart \subseteq mixed /\ sync[v].cart # {} /\ sync[v].cart \in Owners
            BY <3>0, SyncFields DEF Alone
          <5>2. j.alone => sync[v].cart # {b}
            BY <1>4, <1>5, <2>2
          <5> QED
            BY <1>1, <1>5, <5>1, <5>2 DEF Owners
        <4> QED
          BY <1>2, <2>2, <3>0, <4>1, NoSyncIs DEF Alone
      <3>2. OfOthers(v)' /\ Inserts(v)'
        BY <1>2, <2>2, <3>0 DEF OfOthers, Inserts
      <3>3. Cleared(v)'
        <4>1. sync[v].alone /\ sync[v].pc # "idle" => sync[v].cart # j.cart
          BY <2>2, <3>0 DEF Alone, j
        <4>2. sync[v].alone /\ sync[v].pc # "idle" => \A r \in reserved' : sync[v].cart = {r.cart} => r \in reserved
          BY <1>1, <1>4, <4>1
        <4> QED
          BY <1>2, <2>2, <3>0, <4>2 DEF Cleared
      <3> QED
        BY <3>1, <3>2, <3>3
    <2> QED
      BY <2>1, <2>2
  <1> QED
    BY <1>7, <1>8, <1>9, <1>10 DEF CartsInv

(* What is reserved expires, and so do the rows that calls have in hand.   *)
LEMMA ExpireKept ==
    ASSUME CartsInv, Expire
    PROVE  CartsInv'
  <1> DEFINE X(S) == {[r EXCEPT !.expired = TRUE] : r \in S}
  <1>1. /\ reserved' = X(reserved)
        /\ sync' = [w \in Syncs |-> [sync[w] EXCEPT !.targets = X(sync[w].targets), !.gone = X(sync[w].gone)]]
        /\ held' = [c \in Carts |-> {}] /\ UNCHANGED <<served, mixed>>
    BY DEF Expire
  <1>2. \A r \in CartRows : /\ [r EXCEPT !.expired = TRUE] \in CartRows /\ [r EXCEPT !.expired = TRUE].expired
                            /\ [r EXCEPT !.expired = TRUE].cart = r.cart /\ [r EXCEPT !.expired = TRUE].qty = r.qty
    BY DEF CartRows
  <1>3. \A S \in SUBSET CartRows :
           /\ X(S) \in SUBSET CartRows
           /\ \A x \in X(S) : x.expired /\ \E r \in S : x.cart = r.cart /\ x.qty = r.qty /\ x = [r EXCEPT !.expired = TRUE]
           /\ \A r \in S : [r EXCEPT !.expired = TRUE] \in X(S)
    BY <1>2
  <1> HIDE DEF X
  <1>4. \A w \in Syncs :
           /\ sync'[w] \in SyncJobs /\ sync'[w].pc = sync[w].pc /\ sync'[w].cart = sync[w].cart
           /\ sync'[w].alone = sync[w].alone /\ sync'[w].new = sync[w].new
           /\ sync'[w].targets = X(sync[w].targets) /\ sync'[w].gone = X(sync[w].gone)
    <2> SUFFICES ASSUME NEW w \in Syncs
                 PROVE  /\ sync'[w] \in SyncJobs /\ sync'[w].pc = sync[w].pc /\ sync'[w].cart = sync[w].cart
                        /\ sync'[w].alone = sync[w].alone /\ sync'[w].new = sync[w].new
                        /\ sync'[w].targets = X(sync[w].targets) /\ sync'[w].gone = X(sync[w].gone)
      OBVIOUS
    <2> DEFINE k == sync[w]
               t == X(k.targets)
               g == X(k.gone)
    <2>1. k \in SyncJobs /\ t \in SUBSET CartRows /\ g \in SUBSET CartRows
      BY <1>3, SyncFields DEF CartsInv, CartsTyped
    <2>2. sync'[w] = [k EXCEPT !.targets = t, !.gone = g]
      BY <1>1
    <2> HIDE DEF k, t, g
    <2>3. /\ sync'[w] \in SyncJobs /\ sync'[w].pc = k.pc /\ sync'[w].cart = k.cart
          /\ sync'[w].alone = k.alone /\ sync'[w].new = k.new
          /\ sync'[w].targets = t /\ sync'[w].gone = g
      BY <2>1, <2>2 DEF SyncJobs
    <2> QED
      BY <2>3 DEF k, t, g
  <1>5. sync' \in [Syncs -> SyncJobs]
    <2>1. sync' = [w \in Syncs |-> sync'[w]]
      BY <1>1
    <2> QED
      BY <1>4, <2>1
  <1>6. CartsTyped'
    BY <1>1, <1>3, <1>5 DEF CartsInv, CartsTyped
  <1>7. reserved \in SUBSET CartRows
    BY DEF CartsInv, CartsTyped
  <1>r. \A x \in reserved' : \E r \in reserved : x.cart = r.cart /\ x.qty = r.qty /\ x = [r EXCEPT !.expired = TRUE]
    <2>1. \A x \in X(reserved) : \E r \in reserved : x.cart = r.cart /\ x.qty = r.qty /\ x = [r EXCEPT !.expired = TRUE]
      BY <1>3, <1>7
    <2> QED
      BY <1>1, <2>1
  <1>8. HeldTrue' /\ InStock'
    <2>1. \A c \in Carts : Live(Rows(c))' = {}
      BY <1>1, <1>3, <1>7 DEF Live, Rows
    <2>2. HeldTrue'
      BY <1>1, <2>1 DEF HeldTrue
    <2> QED
      BY <1>r, <2>2 DEF CartsInv, InStock
  <1>9. ASSUME NEW v \in Syncs PROVE Alone(v)' /\ OfOthers(v)' /\ Cleared(v)' /\ Inserts(v)'
    <2>0. /\ Alone(v) /\ OfOthers(v) /\ Cleared(v) /\ Inserts(v)
          /\ sync[v].targets \in SUBSET CartRows /\ sync[v].gone \in SUBSET CartRows
      BY SyncFields DEF CartsInv, CartsTyped
    <2>1. Alone(v)'
      BY <1>1, <1>4, <2>0 DEF Alone
    <2>2. OfOthers(v)' /\ Inserts(v)'
      BY <1>3, <1>4, <2>0 DEF OfOthers, Inserts
    <2>3. Cleared(v)'
      <3>1. \A x \in reserved' : \E r \in reserved : x.cart = r.cart /\ x = [r EXCEPT !.expired = TRUE]
        BY <1>r
      <3>2. /\ \A r \in sync[v].targets : [r EXCEPT !.expired = TRUE] \in sync'[v].targets
            /\ \A r \in sync[v].gone : [r EXCEPT !.expired = TRUE] \in sync'[v].gone
        BY <1>3, <1>4, <2>0
      <3> QED
        BY <1>4, <2>0, <3>1, <3>2 DEF Cleared
    <2> QED
      BY <2>1, <2>2, <2>3
  <1> QED
    BY <1>6, <1>8, <1>9 DEF CartsInv

(* The first state: nothing is reserved.                                   *)
LEMMA CartsInitInv == CartsInit => CartsInv
  <1> SUFFICES ASSUME CartsInit PROVE CartsInv
    OBVIOUS
  <1>1. /\ reserved = {} /\ served = 0 /\ mixed = {} /\ sync = [w \in Syncs |-> NoSync] /\ held = [c \in Carts |-> {}]
    BY DEF CartsInit
  <1>2. CartsTyped
    BY <1>1, NoSyncIs DEF CartsTyped
  <1>3. HeldTrue /\ InStock
    BY <1>1 DEF HeldTrue, InStock, Live, Rows
  <1>4. ASSUME NEW v \in Syncs PROVE Alone(v) /\ OfOthers(v) /\ Cleared(v) /\ Inserts(v)
    BY <1>1, NoSyncIs DEF Alone, OfOthers, Cleared, Inserts
  <1> QED
    BY <1>2, <1>3, <1>4 DEF CartsInv

(* Every step keeps the invariant.                                         *)
LEMMA CartsStep == CartsInv /\ [CartsNext]_cartVars => CartsInv'
  <1> SUFFICES ASSUME CartsInv, [CartsNext]_cartVars PROVE CartsInv'
    OBVIOUS
  <1>1. CASE UNCHANGED cartVars
    BY <1>1 DEF cartVars, CartsInv, CartsTyped, HeldTrue, InStock, Live, Rows, Alone, OfOthers, Cleared, Inserts
  <1>2. CASE CartsNext
    <2>1. ASSUME NEW w \in Syncs, NEW c \in Carts, ReleaseReservations(w, c) PROVE CartsInv'
      BY <2>1, BeginKept DEF ReleaseReservations
    <2>2. ASSUME NEW w \in Syncs, NEW c \in Carts, NEW want \in Wishes, SyncReservations(w, c, want) PROVE CartsInv'
      BY <2>2, BeginKept DEF SyncReservations
    <2> QED
      BY <1>2, <2>1, <2>2, FindKept, DeleteKept, InsertKept, CommitKept, AbortKept, ExpireKept DEF CartsNext
  <1> QED
    BY <1>1, <1>2

(* A cart holds what its last call asked for, as far as there was stock,   *)
(* however the calls of other carts, expiry and failures fall between      *)
(* (reservations.py:22-71, products.py:22-67).                             *)
THEOREM CartsHold == CartsSpec => []CartHeld
  <1>1. CartsInv => CartHeld
    <2> SUFFICES ASSUME CartsInv, NEW c \in Carts, NEW p \in Products
                 PROVE  /\ c \notin mixed => {Grant(r.product, r.qty) : r \in Live(Rows(c))} = held[c]
                        /\ \A r \in Rows(c) : r.product = p => r.qty <= OnShelf
                        /\ Live(reserved) \subseteq Rows(c) => EffectiveStock(c, p) = IF p \in Varied THEN OfVariants ELSE OnShelf
      BY DEF CartsInv, HeldTrue, CartHeld
    <2>1. c \notin mixed => {Grant(r.product, r.qty) : r \in Live(Rows(c))} = held[c]
      BY DEF CartsInv, HeldTrue
    <2>2. \A r \in Rows(c) : r.product = p => r.qty <= OnShelf
      BY DEF CartsInv, InStock, Rows
    <2>3. ASSUME Live(reserved) \subseteq Rows(c)
          PROVE  EffectiveStock(c, p) = IF p \in Varied THEN OfVariants ELSE OnShelf
      <3> DEFINE others == {r \in Live(reserved) : r.product = p /\ r.cart # c}
                 f == [r \in others |-> r.qty]
      <3>1. others = {}
        BY <2>3 DEF Rows
      <3>2. SumFunctionOnSet(f, {}) = 0
        BY FS_EmptySet, SumStep
      <3>3. EffectiveStock(c, p) = IF p \in Varied THEN OfVariants ELSE
                                   IF OnShelf - SumFunctionOnSet(f, others) > 0
                                   THEN OnShelf - SumFunctionOnSet(f, others) ELSE 0
        BY DEF EffectiveStock
      <3> HIDE DEF f
      <3>4. SumFunctionOnSet(f, others) = 0
        BY <3>1, <3>2
      <3> QED
        BY <3>3, <3>4, CartsAssumption
    <2> QED
      BY <2>1, <2>2, <2>3
  <1> QED
    BY <1>1, CartsInitInv, CartsStep, PTL DEF CartsSpec

-----------------------------------------------------------------------------
(* Reviews.                                                                *)

States  == {"waiting", "approved", "gone"}
ReviewRows   == [stars : Stars, st : States]
RatingPairs == Int \X Int
EditCalls   == [pc : {"idle", "read", "flushed"}, r : Nat, to : States, saw : States, from : RatingPairs,
            rating : RatingPairs, alone : BOOLEAN]

ReviewsTyped ==
    /\ review \in Seq(ReviewRows) /\ stale \in BOOLEAN /\ rating \in RatingPairs
    /\ edit \in [Editors -> EditCalls]
    /\ \A c \in Editors : edit[c].pc # "idle" => edit[c].r \in DOMAIN review

(* A call that is alone is the only one, and its rating is what it will    *)
(* leave; that a call met another, or an erasure, is noted.                *)
Sole(c) ==
    edit[c].pc # "idle" =>
        /\ edit[c].alone => \A d \in Editors \ {c} : edit[d].pc = "idle"
        /\ ~ edit[c].alone => stale
Ready(c) ==
    edit[c].pc = "flushed" /\ edit[c].alone =>
        edit[c].from = rating /\ edit[c].rating = Average(Changed(edit[c]))

ReviewsInv == ReviewsTyped /\ RatingTrue /\ \A c \in Editors : Sole(c) /\ Ready(c)

(* What an editor's call knows.                                            *)
LEMMA EditFields ==
    ASSUME NEW j \in EditCalls
    PROVE  /\ j.pc \in {"idle", "read", "flushed"} /\ j.r \in Nat /\ j.to \in States /\ j.saw \in States
           /\ j.from \in RatingPairs /\ j.rating \in RatingPairs /\ j.alone \in BOOLEAN
  BY DEF EditCalls

(* A call that is over.                                                    *)
LEMMA NoEditIs == NoEdit \in EditCalls /\ NoEdit.pc = "idle" /\ NoEdit.alone
  BY DEF NoEdit, EditCalls, RatingPairs, States

(* A rating is a pair of whole numbers.                                    *)
LEMMA AverageType ==
    ASSUME NEW s \in Seq(ReviewRows)
    PROVE  Average(s) \in RatingPairs
  <1> DEFINE S == {r \in DOMAIN s : s[r].st = "approved"}
             f == [r \in S |-> s[r].stars]
  <1>1. IsFiniteSet(S)
    <2>1. DOMAIN s = 1..Len(s) /\ Len(s) \in Nat
      OBVIOUS
    <2>2. IsFiniteSet(1..Len(s))
      BY <2>1, FS_Interval
    <2> QED
      BY <2>1, <2>2, FS_Subset
  <1>2. \A r \in S : f[r] \in Int
    <2>1. \A r \in DOMAIN s : s[r] \in ReviewRows
      OBVIOUS
    <2>2. \A x \in ReviewRows : x.stars \in Int
      <3>1. \A x \in ReviewRows : x.stars \in Stars
        BY DEF ReviewRows
      <3>2. \A i \in Stars : i \in Int
        BY ReviewsAssumption
      <3> QED
        BY <3>1, <3>2
    <2> QED
      BY <2>1, <2>2
  <1>3. Average(s) = <<SumFunctionOnSet(f, S), Cardinality(S)>>
    BY DEF Average
  <1> HIDE DEF S, f
  <1>4. SumFunctionOnSet(f, S) \in Int /\ Cardinality(S) \in Nat
    BY <1>1, <1>2, SumInt, FS_CardinalityType
  <1> QED
    BY <1>3, <1>4 DEF RatingPairs

(* Only approved reviews count.                                            *)
LEMMA AverageSame ==
    ASSUME NEW a, NEW b,
           {r \in DOMAIN a : a[r].st = "approved"} = {r \in DOMAIN b : b[r].st = "approved"},
           \A r \in DOMAIN a : a[r].st = "approved" => a[r].stars = b[r].stars
    PROVE  Average(a) = Average(b)
  <1> DEFINE S == {r \in DOMAIN a : a[r].st = "approved"}
             T == {r \in DOMAIN b : b[r].st = "approved"}
  <1>1. S = T /\ [r \in S |-> a[r].stars] = [r \in T |-> b[r].stars]
    OBVIOUS
  <1>2. /\ Average(a) = <<SumFunctionOnSet([r \in S |-> a[r].stars], S), Cardinality(S)>>
        /\ Average(b) = <<SumFunctionOnSet([r \in T |-> b[r].stars], T), Cardinality(T)>>
    BY DEF Average
  <1> HIDE DEF S, T
  <1> QED
    BY <1>1, <1>2

(* A review gets another status.                                           *)
LEMMA ChangedIs ==
    ASSUME NEW s \in Seq(ReviewRows), NEW r \in DOMAIN s, NEW to \in States
    PROVE  /\ [s EXCEPT ![r].st = to] \in Seq(ReviewRows) /\ DOMAIN [s EXCEPT ![r].st = to] = DOMAIN s
           /\ \A q \in DOMAIN s : /\ [s EXCEPT ![r].st = to][q].stars = s[q].stars
                                  /\ [s EXCEPT ![r].st = to][q].st = IF q = r THEN to ELSE s[q].st
  <1>1. s[r] \in ReviewRows
    OBVIOUS
  <1>2. [s[r] EXCEPT !.st = to] \in ReviewRows /\ [s[r] EXCEPT !.st = to].stars = s[r].stars /\ [s[r] EXCEPT !.st = to].st = to
    BY <1>1 DEF ReviewRows
  <1> DEFINE x == [s[r] EXCEPT !.st = to]
             e == [s EXCEPT ![r] = x]
  <1>3. [s EXCEPT ![r].st = to] = e
    OBVIOUS
  <1> HIDE DEF x
  <1>4. e \in Seq(ReviewRows) /\ DOMAIN e = DOMAIN s /\ \A q \in DOMAIN s : e[q] = IF q = r THEN x ELSE s[q]
    BY <1>2 DEF x
  <1> HIDE DEF e
  <1> QED
    BY <1>2, <1>3, <1>4 DEF x

(* What a call leaves of the reviews.                                      *)
LEMMA ChangedType ==
    ASSUME NEW j \in EditCalls, review \in Seq(ReviewRows), j.r \in DOMAIN review
    PROVE  Changed(j) \in Seq(ReviewRows) /\ DOMAIN Changed(j) = DOMAIN review
  BY EditFields, ChangedIs DEF Changed

(* A new review counts for nothing before it is approved.                  *)
LEMMA AppendedIs ==
    ASSUME NEW s \in Seq(ReviewRows), NEW x \in ReviewRows, x.st = "waiting"
    PROVE  /\ Append(s, x) \in Seq(ReviewRows) /\ DOMAIN s \subseteq DOMAIN Append(s, x)
           /\ Average(Append(s, x)) = Average(s)
           /\ \A r \in DOMAIN s, to \in States :
                 Average([Append(s, x) EXCEPT ![r].st = to]) = Average([s EXCEPT ![r].st = to])
  <1> DEFINE a == Append(s, x)
             n == Len(s) + 1
  <1>1. /\ a \in Seq(ReviewRows) /\ DOMAIN s \subseteq DOMAIN a /\ DOMAIN a = DOMAIN s \cup {n} /\ n \notin DOMAIN s
        /\ a[n] = x /\ \A r \in DOMAIN s : a[r] = s[r]
    OBVIOUS
  <1> HIDE DEF a, n
  <1>2. Average(a) = Average(s)
    BY <1>1, AverageSame
  <1>3. ASSUME NEW r \in DOMAIN s, NEW to \in States
        PROVE  Average([a EXCEPT ![r].st = to]) = Average([s EXCEPT ![r].st = to])
    <2> DEFINE b == [a EXCEPT ![r].st = to]
               c == [s EXCEPT ![r].st = to]
    <2>1. /\ DOMAIN b = DOMAIN a
          /\ \A q \in DOMAIN a : b[q].stars = a[q].stars /\ b[q].st = IF q = r THEN to ELSE a[q].st
      BY <1>1, ChangedIs
    <2>2. /\ DOMAIN c = DOMAIN s
          /\ \A q \in DOMAIN s : c[q].stars = s[q].stars /\ c[q].st = IF q = r THEN to ELSE s[q].st
      BY ChangedIs
    <2> HIDE DEF b, c
    <2>3. /\ {q \in DOMAIN b : b[q].st = "approved"} = {q \in DOMAIN c : c[q].st = "approved"}
          /\ \A q \in DOMAIN c : b[q].stars = c[q].stars
      BY <1>1, <2>1, <2>2
    <2> QED
      BY <2>3, AverageSame DEF b, c
  <1> QED
    BY <1>1, <1>2, <1>3 DEF a

(* A review is written.                                                    *)
LEMMA CreateKept ==
    ASSUME ReviewsInv, NEW stars \in Stars, CreateReview(stars)
    PROVE  ReviewsInv'
  <1> DEFINE x == [stars |-> stars, st |-> "waiting"]
  <1>1. review' = Append(review, x) /\ UNCHANGED <<rating, edit, stale>>
    BY DEF CreateReview
  <1>2. x \in ReviewRows /\ x.st = "waiting" /\ review \in Seq(ReviewRows) /\ edit \in [Editors -> EditCalls]
    BY DEF ReviewRows, States, ReviewsInv, ReviewsTyped
  <1> HIDE DEF x
  <1>3. /\ review' \in Seq(ReviewRows) /\ DOMAIN review \subseteq DOMAIN review' /\ Average(review') = Average(review)
        /\ \A r \in DOMAIN review, to \in States :
              Average([review' EXCEPT ![r].st = to]) = Average([review EXCEPT ![r].st = to])
    <2>1. /\ Append(review, x) \in Seq(ReviewRows) /\ DOMAIN review \subseteq DOMAIN Append(review, x)
          /\ Average(Append(review, x)) = Average(review)
          /\ \A r \in DOMAIN review, to \in States :
                 Average([Append(review, x) EXCEPT ![r].st = to]) = Average([review EXCEPT ![r].st = to])
      BY <1>2, AppendedIs
    <2> QED
      BY <1>1, <2>1
  <1>4. ReviewsTyped'
    BY <1>1, <1>3 DEF ReviewsInv, ReviewsTyped
  <1>5. RatingTrue'
    BY <1>1, <1>3 DEF ReviewsInv, RatingTrue
  <1>6. ASSUME NEW c \in Editors PROVE Sole(c)' /\ Ready(c)'
    <2>1. Sole(c)'
      BY <1>1 DEF ReviewsInv, Sole
    <2>2. edit[c].pc = "flushed" => Average(Changed(edit[c]))' = Average(Changed(edit[c]))
      <3> DEFINE j == edit[c]
      <3> SUFFICES ASSUME j.pc = "flushed" PROVE Average(Changed(j))' = Average(Changed(j))
        OBVIOUS
      <3>1. j.r \in DOMAIN review /\ j.to \in States /\ edit'[c] = j
        BY <1>1, <1>2, EditFields DEF ReviewsInv, ReviewsTyped
      <3> HIDE DEF j
      <3>2. /\ Average(IF Writes(j) THEN [review' EXCEPT ![j.r].st = j.to] ELSE review')
               = Average(IF Writes(j) THEN [review EXCEPT ![j.r].st = j.to] ELSE review)
        BY <1>3, <3>1
      <3> QED
        BY <1>1, <3>1, <3>2 DEF Changed, Writes, j
    <2>3. Ready(c)'
      BY <1>1, <2>2 DEF ReviewsInv, Ready
    <2> QED
      BY <2>1, <2>3
  <1> QED
    BY <1>4, <1>5, <1>6 DEF ReviewsInv

(* An administrator's call begins.                                         *)
LEMMA OpenKept ==
    ASSUME ReviewsInv, NEW c \in Editors, NEW r \in DOMAIN review, NEW to \in States, Open(c, r, to)
    PROVE  ReviewsInv'
  <1> DEFINE others == {d \in Editors : edit[d].pc # "idle"}
             j == [NoEdit EXCEPT !.pc = "read", !.r = r, !.to = to, !.saw = review[r].st, !.alone = others = {}]
  <1>1. /\ edit' = [d \in Editors |-> IF d = c THEN j
                                      ELSE IF d \in others THEN [edit[d] EXCEPT !.alone = FALSE] ELSE edit[d]]
        /\ stale' = (stale \/ others # {}) /\ edit[c].pc = "idle" /\ UNCHANGED <<review, rating>>
    BY DEF Open
  <1>2. review \in Seq(ReviewRows) /\ edit \in [Editors -> EditCalls] /\ stale \in BOOLEAN
    BY DEF ReviewsInv, ReviewsTyped
  <1>3. r \in Nat /\ review[r].st \in States
    <2>1. r \in 1..Len(review) /\ review[r] \in ReviewRows
      BY <1>2
    <2> QED
      BY <2>1 DEF ReviewRows
  <1>4. j \in EditCalls /\ j.pc = "read" /\ j.r = r /\ j.alone = (others = {})
    <2> DEFINE s == review[r].st
               o == others = {}
               k == [NoEdit EXCEPT !.pc = "read", !.r = r, !.to = to, !.saw = s, !.alone = o]
    <2>1. s \in States /\ o \in BOOLEAN
      BY <1>3
    <2> HIDE DEF s, o
    <2>2. k \in EditCalls /\ k.pc = "read" /\ k.r = r /\ k.alone = o
      BY <1>3, <2>1, NoEditIs DEF EditCalls
    <2> QED
      BY <2>2 DEF s, o
  <1> HIDE DEF j
  <1>5. \A d \in Editors \ {c} :
           /\ edit'[d] \in EditCalls /\ edit'[d].pc = edit[d].pc /\ edit'[d].r = edit[d].r
           /\ edit'[d].pc # "idle" => ~ edit'[d].alone
    <2> SUFFICES ASSUME NEW d \in Editors \ {c}
                 PROVE  /\ edit'[d] \in EditCalls /\ edit'[d].pc = edit[d].pc /\ edit'[d].r = edit[d].r
                        /\ edit'[d].pc # "idle" => ~ edit'[d].alone
      OBVIOUS
    <2> DEFINE k == edit[d]
    <2>1. k \in EditCalls /\ edit'[d] = IF k.pc # "idle" THEN [k EXCEPT !.alone = FALSE] ELSE k
      BY <1>1, <1>2
    <2> HIDE DEF k
    <2>2. /\ edit'[d] \in EditCalls /\ edit'[d].pc = k.pc /\ edit'[d].r = k.r
          /\ edit'[d].pc # "idle" => ~ edit'[d].alone
      BY <2>1 DEF EditCalls
    <2> QED
      BY <2>2 DEF k
  <1>6. edit' \in [Editors -> EditCalls] /\ edit'[c] = j
    <2> HIDE DEF others
    <2>1. edit' = [d \in Editors |-> edit'[d]] /\ edit'[c] = j
      BY <1>1
    <2> QED
      BY <1>4, <1>5, <2>1
  <1>7. (\A d \in Editors \ {c} : edit[d].pc # "idle" => stale') /\ (~ j.alone => stale') /\ (stale => stale') /\ stale' \in BOOLEAN
        /\ (j.alone => \A d \in Editors \ {c} : edit[d].pc = "idle")
    BY <1>1, <1>2, <1>4
  <1> HIDE DEF others
  <1>8. ReviewsTyped'
    BY <1>1, <1>4, <1>5, <1>6, <1>7 DEF ReviewsInv, ReviewsTyped
  <1>9. RatingTrue'
    BY <1>1, <1>7 DEF ReviewsInv, RatingTrue
  <1>10. ASSUME NEW d \in Editors PROVE Sole(d)' /\ Ready(d)'
    <2>1. CASE d = c
      BY <1>4, <1>5, <1>6, <1>7, <2>1 DEF Sole, Ready
    <2>2. CASE d # c
      BY <1>5, <1>7, <2>2 DEF Sole, Ready
    <2> QED
      BY <2>1, <2>2
  <1> QED
    BY <1>8, <1>9, <1>10 DEF ReviewsInv

(* The rating is computed.                                                 *)
LEMMA RecalcKept ==
    ASSUME ReviewsInv, NEW c \in Editors, Recalc(c)
    PROVE  ReviewsInv'
  <1> DEFINE j == edit[c]
             a == Average(Changed(j))
             k == [j EXCEPT !.pc = "flushed", !.from = rating, !.rating = a]
  <1>1. j.pc = "read" /\ edit' = [edit EXCEPT ![c] = k] /\ UNCHANGED <<review, rating, stale>>
    BY DEF Recalc, Counted
  <1>2. j \in EditCalls /\ rating \in RatingPairs /\ review \in Seq(ReviewRows) /\ j.r \in DOMAIN review /\ edit \in [Editors -> EditCalls]
    BY <1>1 DEF ReviewsInv, ReviewsTyped
  <1>3. a \in RatingPairs
    BY <1>2, ChangedType, AverageType
  <1>4. ASSUME NEW e, e.r = j.r, e.to = j.to, e.saw = j.saw PROVE Changed(e) = Changed(j)
    BY <1>4 DEF Changed, Writes
  <1> HIDE DEF j
  <1>5. k \in EditCalls /\ k.pc = "flushed" /\ k.r = j.r /\ k.to = j.to /\ k.saw = j.saw /\ k.alone = j.alone
        /\ k.from = rating /\ k.rating = a
    <2> HIDE DEF a
    <2> QED
      BY <1>2, <1>3 DEF EditCalls
  <1> HIDE DEF k
  <1>6. edit' \in [Editors -> EditCalls] /\ edit'[c] = k /\ \A d \in Editors \ {c} : edit'[d] = edit[d]
    BY <1>1, <1>2, <1>5
  <1>7. ReviewsTyped' /\ RatingTrue'
    BY <1>1, <1>2, <1>5, <1>6 DEF ReviewsInv, ReviewsTyped, RatingTrue
  <1>8. ASSUME NEW d \in Editors PROVE Sole(d)' /\ Ready(d)'
    <2>1. Sole(d)'
      BY <1>1, <1>5, <1>6 DEF ReviewsInv, Sole, j
    <2>2. Ready(d)'
      <3>1. CASE d = c
        <4>1. Changed(k) = Changed(j)
          BY <1>4, <1>5
        <4>2. Changed(edit[c])' = Changed(k)
          BY <1>1, <1>6 DEF Changed, Writes
        <4>3. edit'[c].rating = a /\ a = Average(Changed(j))
          BY <1>5, <1>6
        <4> HIDE DEF a
        <4>4. (edit[c].rating = Average(Changed(edit[c])))'
          BY <4>1, <4>2, <4>3
        <4> QED
          BY <1>1, <1>5, <1>6, <3>1, <4>4 DEF Ready
      <3>2. CASE d # c
        BY <1>1, <1>6, <3>2 DEF ReviewsInv, Ready, Changed, Writes
      <3> QED
        BY <3>1, <3>2
    <2> QED
      BY <2>1, <2>2
  <1> QED
    BY <1>7, <1>8 DEF ReviewsInv

(* A call commits review and rating together.                              *)
LEMMA CommitEditKept ==
    ASSUME ReviewsInv, NEW c \in Editors, CommitEdit(c)
    PROVE  ReviewsInv'
  <1> DEFINE j == edit[c]
  <1>1. /\ j.pc = "flushed" /\ review' = Changed(j) /\ rating' = IF j.rating = j.from THEN rating ELSE j.rating
        /\ stale' = (stale /\ ~ j.alone) /\ edit' = [edit EXCEPT ![c] = NoEdit]
    BY DEF CommitEdit
  <1>2. /\ j \in EditCalls /\ rating \in RatingPairs /\ review \in Seq(ReviewRows) /\ j.r \in DOMAIN review
        /\ edit \in [Editors -> EditCalls] /\ stale \in BOOLEAN /\ j.rating \in RatingPairs
    BY <1>1, EditFields DEF ReviewsInv, ReviewsTyped
  <1>3. review' \in Seq(ReviewRows) /\ DOMAIN review' = DOMAIN review
    BY <1>1, <1>2, ChangedType
  <1>4. edit' \in [Editors -> EditCalls] /\ edit'[c].pc = "idle" /\ \A d \in Editors \ {c} : edit'[d] = edit[d]
    BY <1>1, <1>2, NoEditIs
  <1>5. /\ j.alone => \A d \in Editors \ {c} : edit[d].pc = "idle"
        /\ ~ j.alone => stale
        /\ j.alone => j.from = rating /\ j.rating = Average(review')
    BY <1>1 DEF ReviewsInv, Sole, Ready
  <1>6. \A d \in Editors \ {c} : edit[d].pc # "idle" => ~ edit[d].alone /\ stale
    BY <1>1 DEF ReviewsInv, Sole
  <1> HIDE DEF j
  <1>7. rating' = IF j.alone THEN Average(review') ELSE rating'
    BY <1>1, <1>5
  <1>8. ReviewsTyped'
    BY <1>1, <1>2, <1>3, <1>4 DEF ReviewsInv, ReviewsTyped
  <1>9. RatingTrue'
    BY <1>1, <1>5, <1>7 DEF RatingTrue
  <1>10. ASSUME NEW d \in Editors PROVE Sole(d)' /\ Ready(d)'
    BY <1>1, <1>4, <1>5, <1>6 DEF Sole, Ready
  <1> QED
    BY <1>8, <1>9, <1>10 DEF ReviewsInv

(* A call fails.                                                           *)
LEMMA FailEditKept ==
    ASSUME ReviewsInv, NEW c \in Editors, FailEdit(c)
    PROVE  ReviewsInv'
  <1>1. edit' = [edit EXCEPT ![c] = NoEdit] /\ UNCHANGED <<review, rating, stale>>
    BY DEF FailEdit
  <1>2. edit' \in [Editors -> EditCalls] /\ edit'[c].pc = "idle" /\ \A d \in Editors \ {c} : edit'[d] = edit[d]
    BY <1>1, NoEditIs DEF ReviewsInv, ReviewsTyped
  <1>3. ReviewsTyped' /\ RatingTrue'
    BY <1>1, <1>2 DEF ReviewsInv, ReviewsTyped, RatingTrue
  <1>4. ASSUME NEW d \in Editors PROVE Sole(d)' /\ Ready(d)'
    BY <1>1, <1>2 DEF ReviewsInv, Sole, Ready, Changed, Writes
  <1> QED
    BY <1>3, <1>4 DEF ReviewsInv

(* An erasure takes a review and leaves the rating.                        *)
LEMMA EraseReviewKept ==
    ASSUME ReviewsInv, NEW r \in DOMAIN review, EraseReview(r)
    PROVE  ReviewsInv'
  <1>1. /\ review' = [review EXCEPT ![r].st = "gone"] /\ stale' = TRUE /\ rating' = rating
        /\ edit' = [c \in Editors |-> [edit[c] EXCEPT !.alone = FALSE]]
    BY DEF EraseReview
  <1>2. review \in Seq(ReviewRows) /\ edit \in [Editors -> EditCalls]
    BY DEF ReviewsInv, ReviewsTyped
  <1>3. review' \in Seq(ReviewRows) /\ DOMAIN review' = DOMAIN review
    BY <1>1, <1>2, ChangedIs DEF States
  <1>4. \A c \in Editors : edit'[c] \in EditCalls /\ edit'[c].pc = edit[c].pc /\ edit'[c].r = edit[c].r /\ ~ edit'[c].alone
    <2> SUFFICES ASSUME NEW c \in Editors
                 PROVE  edit'[c] \in EditCalls /\ edit'[c].pc = edit[c].pc /\ edit'[c].r = edit[c].r /\ ~ edit'[c].alone
      OBVIOUS
    <2> DEFINE k == edit[c]
    <2>1. k \in EditCalls /\ edit'[c] = [k EXCEPT !.alone = FALSE]
      BY <1>1, <1>2
    <2> HIDE DEF k
    <2>2. edit'[c] \in EditCalls /\ edit'[c].pc = k.pc /\ edit'[c].r = k.r /\ ~ edit'[c].alone
      BY <2>1 DEF EditCalls
    <2> QED
      BY <2>2 DEF k
  <1>5. edit' \in [Editors -> EditCalls]
    <2>1. edit' = [c \in Editors |-> edit'[c]]
      BY <1>1
    <2> QED
      BY <1>4, <2>1
  <1>6. ReviewsTyped' /\ RatingTrue'
    BY <1>1, <1>3, <1>4, <1>5 DEF ReviewsInv, ReviewsTyped, RatingTrue
  <1> QED
    BY <1>1, <1>4, <1>6 DEF ReviewsInv, Sole, Ready

(* The first state: no reviews.                                            *)
LEMMA ReviewsInitInv == ReviewsInit => ReviewsInv
  <1> SUFFICES ASSUME ReviewsInit PROVE ReviewsInv
    OBVIOUS
  <1>1. review = <<>> /\ rating = <<0, 0>> /\ stale = FALSE /\ edit = [c \in Editors |-> NoEdit]
    BY DEF ReviewsInit
  <1>2. review \in Seq(ReviewRows) /\ rating \in RatingPairs
    BY <1>1 DEF RatingPairs
  <1>3. Average(review) = <<0, 0>>
    <2> DEFINE S == {r \in DOMAIN review : review[r].st = "approved"}
               f == [r \in S |-> review[r].stars]
    <2>1. S = {} /\ Average(review) = <<SumFunctionOnSet(f, S), Cardinality(S)>>
      BY <1>1 DEF Average
    <2> HIDE DEF S, f
    <2>2. SumFunctionOnSet(f, S) = 0 /\ Cardinality(S) = 0
      BY <2>1, FS_EmptySet, SumStep
    <2> QED
      BY <2>1, <2>2
  <1>4. ReviewsTyped
    BY <1>1, <1>2, NoEditIs DEF ReviewsTyped
  <1> QED
    BY <1>1, <1>3, <1>4, NoEditIs DEF ReviewsInv, RatingTrue, Sole, Ready

(* Every step keeps the invariant.                                         *)
LEMMA ReviewsStep == ReviewsInv /\ [ReviewsNext]_reviewVars => ReviewsInv'
  <1> SUFFICES ASSUME ReviewsInv, [ReviewsNext]_reviewVars PROVE ReviewsInv'
    OBVIOUS
  <1>1. CASE UNCHANGED reviewVars
    BY <1>1 DEF reviewVars, ReviewsInv, ReviewsTyped, RatingTrue, Sole, Ready, Changed, Writes
  <1>2. CASE ReviewsNext
    BY <1>2, CreateKept, OpenKept, RecalcKept, CommitEditKept, FailEditKept, EraseReviewKept DEF ReviewsNext, States
  <1> QED
    BY <1>1, <1>2

(* The rating of a product is the average of its approved reviews, unless  *)
(* calls overlapped or an erasure took one and no call on its own has      *)
(* computed it since (reviews.py:1-13, 52-65).                             *)
THEOREM RatingsHold == ReviewsSpec => []RatingTrue
  <1>1. ReviewsInv => RatingTrue
    BY DEF ReviewsInv
  <1> QED
    BY <1>1, ReviewsInitInv, ReviewsStep, PTL DEF ReviewsSpec

-----------------------------------------------------------------------------
(* Favourites.                                                             *)

WishRows == Members \X Wares
WishCalls == [pc : {"idle", "find", "insert"}, rows : SUBSET WishRows, asked : SUBSET WishRows,
              dropped : SUBSET WishRows, met : BOOLEAN]
PriceForms == [pc : {"idle", "commit", "mail", "send"}, ware : Wares \cup {NoForm.ware}, old : Nat, new : Nat,
               was : Nat, todo : SUBSET Members, met : BOOLEAN]

FavouritesTyped ==
    /\ favourites \subseteq WishRows /\ price \in [Wares -> Nat]
    /\ client \in [Clients -> WishCalls] /\ form \in [Forms -> PriceForms]
    /\ favPast \in [lost : BOOLEAN, refused : BOOLEAN, calls : Nat, forms : Nat]

(* A call that met no other inserts rows that are not there, of products   *)
(* that are; what it is to keep is its to insert, there, or removed.       *)
WishKept(w) ==
    LET c == client[w] IN
    /\ c.pc = "find" => c.rows = c.asked
    /\ c.pc = "insert" => c.asked \subseteq c.rows \cup favourites \cup c.dropped
    /\ c.pc # "idle" /\ ~ c.met => \A r \in c.rows : price[r[2]] # 0
    /\ c.pc = "insert" /\ ~ c.met => c.rows \cap favourites = {}

(* A form that met no other saves the price over the one it read, and      *)
(* mails of the price that stands.                                         *)
FormTrue(f) ==
    LET c == form[f] IN
    /\ c.pc # "idle" => c.ware \in Wares /\ c.new # 0
    /\ c.pc = "commit" /\ ~ c.met => price[c.ware] \in {c.old, 0}
    /\ c.pc \in {"mail", "send"} /\ ~ c.met => c.new < c.was /\ price[c.ware] \in {c.new, 0}

FavouritesInv ==
    /\ FavouritesTyped /\ FavouritesKept
    /\ \A w \in Clients : WishKept(w)
    /\ \A f \in Forms : FormTrue(f)

(* A call that is over, and a form that is closed.                         *)
LEMMA NoWishCall ==
    /\ NoClient \in WishCalls /\ NoClient.pc = "idle" /\ NoClient.rows = {} /\ NoClient.asked = {}
    /\ NoForm \in PriceForms /\ NoForm.pc = "idle"
  <1>1. NoClient \in WishCalls /\ NoClient.pc = "idle" /\ NoClient.rows = {} /\ NoClient.asked = {}
    BY DEF NoClient, WishCalls
  <1>2. NoForm \in PriceForms /\ NoForm.pc = "idle"
    <2> DEFINE p == CHOOSE p \in Wares : TRUE
    <2>1. NoForm = [pc |-> "idle", ware |-> p, old |-> 0, new |-> 0, was |-> 0, todo |-> {}, met |-> FALSE]
      BY DEF NoForm
    <2> HIDE DEF p
    <2>2. NoForm.ware = p
      BY <2>1
    <2> QED
      BY <2>1, <2>2 DEF PriceForms
  <1> QED
    BY <1>1, <1>2

(* What a call knows after rows have changed under it.                     *)
LEMMA MeetingIs ==
    ASSUME NEW calls \in [Clients -> WishCalls], NEW rows \in SUBSET WishRows, NEW removed \in SUBSET WishRows
    PROVE  /\ Meeting(calls, rows, removed) \in [Clients -> WishCalls]
           /\ \A w \in Clients :
                 LET c == calls[w]  m == Meeting(calls, rows, removed)[w] IN
                 /\ m.pc = c.pc /\ m.rows = c.rows /\ m.asked = c.asked
                 /\ m.dropped = c.dropped \cup (c.asked \cap removed)
                 /\ ~ m.met => ~ c.met /\ c.rows \cap rows = {}
  <1> DEFINE M == Meeting(calls, rows, removed)
  <1>1. ASSUME NEW w \in Clients
        PROVE  LET c == calls[w]  m == M[w] IN
               /\ m \in WishCalls /\ m.pc = c.pc /\ m.rows = c.rows /\ m.asked = c.asked
               /\ m.dropped = c.dropped \cup (c.asked \cap removed)
               /\ ~ m.met => ~ c.met /\ c.rows \cap rows = {}
    <2> DEFINE c == calls[w]
               x == c.met \/ c.rows \cap rows # {}
               y == c.dropped \cup (c.asked \cap removed)
    <2>1. c \in WishCalls /\ M[w] = [c EXCEPT !.met = x, !.dropped = y]
      BY DEF Meeting
    <2>2. x \in BOOLEAN /\ y \in SUBSET WishRows
      BY <2>1 DEF WishCalls
    <2> HIDE DEF c, x, y, M
    <2>3. /\ M[w] \in WishCalls /\ M[w].pc = c.pc /\ M[w].rows = c.rows /\ M[w].asked = c.asked
          /\ M[w].dropped = y /\ M[w].met = x
      BY <2>1, <2>2 DEF WishCalls
    <2> QED
      BY <2>3 DEF c, x, y
  <1>2. M = [w \in Clients |-> M[w]]
    BY DEF Meeting
  <1> HIDE DEF M
  <1>3. M \in [Clients -> WishCalls]
    BY <1>1, <1>2
  <1> QED
    BY <1>1, <1>3 DEF M

(* A member merges a list, or adds one product.                            *)
LEMMA MergeKept ==
    ASSUME FavouritesInv, NEW w \in Clients, NEW m \in Members, NEW wares \in SUBSET Wares, MergeWishlist(w, m, wares)
    PROVE  FavouritesInv'
  <1> DEFINE rows == {<<m, p>> : p \in {p \in wares : price[p] # 0}}
             j == [NoClient EXCEPT !.pc = "find", !.rows = rows, !.asked = rows]
  <1>1. /\ client' = [client EXCEPT ![w] = j] /\ favPast' = [favPast EXCEPT !.calls = @ + 1]
        /\ UNCHANGED <<favourites, price, form, letters>>
    BY DEF MergeWishlist
  <1>2. rows \in SUBSET WishRows /\ \A r \in rows : price[r[2]] # 0
    BY DEF WishRows
  <1> HIDE DEF rows
  <1>3. j \in WishCalls /\ j.pc = "find" /\ j.rows = rows /\ j.asked = rows
    BY <1>2 DEF NoClient, WishCalls
  <1> HIDE DEF j
  <1>4. client' \in [Clients -> WishCalls] /\ client'[w] = j /\ \A v \in Clients \ {w} : client'[v] = client[v]
    BY <1>1, <1>3 DEF FavouritesInv, FavouritesTyped
  <1>5. FavouritesTyped'
    BY <1>1, <1>4 DEF FavouritesInv, FavouritesTyped
  <1>6. FavouritesKept'
    BY <1>1 DEF FavouritesInv, FavouritesTyped, FavouritesKept, DropsTold
  <1>7. ASSUME NEW v \in Clients PROVE WishKept(v)'
    <2>1. CASE v = w
      BY <1>1, <1>2, <1>3, <1>4, <2>1 DEF WishKept
    <2>2. CASE v # w
      BY <1>1, <1>4, <2>2 DEF FavouritesInv, WishKept
    <2> QED
      BY <2>1, <2>2
  <1> QED
    BY <1>1, <1>5, <1>6, <1>7 DEF FavouritesInv, FormTrue

(* What a call has found to be there is there.                             *)
LEMMA FindExistingKept ==
    ASSUME FavouritesInv, NEW w \in Clients, FindExisting(w)
    PROVE  FavouritesInv'
  <1> DEFINE c == client[w]
             rows == Missing(c.rows)
             k == [c EXCEPT !.pc = "insert", !.rows = rows]
  <1>1. c.pc = "find" /\ UNCHANGED <<favourites, price, form, letters>>
    BY DEF FindExisting
  <1>2. c \in WishCalls /\ favPast \in [lost : BOOLEAN, refused : BOOLEAN, calls : Nat, forms : Nat]
        /\ client \in [Clients -> WishCalls]
    BY DEF FavouritesInv, FavouritesTyped
  <1>3. rows = c.rows \ favourites /\ c.rows = c.asked /\ (~ c.met => \A r \in c.rows : price[r[2]] # 0)
    BY <1>1 DEF FavouritesInv, WishKept, Missing
  <1>4. CASE rows = {}
    <2>1. client' = [client EXCEPT ![w] = NoClient]
          /\ favPast' = [favPast EXCEPT !.lost = @ \/ ~ c.asked \subseteq favourites \cup c.dropped]
      BY <1>4 DEF FindExisting, Assured
    <2>2. c.asked \subseteq favourites
      BY <1>3, <1>4
    <2>3. client' \in [Clients -> WishCalls] /\ client'[w].pc = "idle" /\ \A v \in Clients \ {w} : client'[v] = client[v]
      BY <1>2, <2>1, NoWishCall
    <2>4. favPast' = [favPast EXCEPT !.lost = favPast.lost]
      <3>1. (favPast.lost \/ ~ c.asked \subseteq favourites \cup c.dropped) = favPast.lost
        BY <1>2, <2>2
      <3> QED
        BY <2>1, <3>1
    <2>5. favPast' = favPast
      BY <1>2, <2>4
    <2>6. FavouritesTyped' /\ FavouritesKept'
      BY <1>1, <2>3, <2>5 DEF FavouritesInv, FavouritesTyped, FavouritesKept, DropsTold
    <2> QED
      BY <1>1, <2>3, <2>6 DEF FavouritesInv, WishKept, FormTrue
  <1>5. CASE rows # {}
    <2>1. client' = [client EXCEPT ![w] = k] /\ favPast' = favPast
      BY <1>5 DEF FindExisting
    <2>2. rows \in SUBSET WishRows
      BY <1>2, <1>3 DEF WishCalls
    <2> HIDE DEF rows, c
    <2>3. k \in WishCalls /\ k.pc = "insert" /\ k.rows = rows /\ k.asked = c.asked /\ k.dropped = c.dropped /\ k.met = c.met
      BY <1>2, <2>2 DEF WishCalls
    <2> HIDE DEF k
    <2>4. client' \in [Clients -> WishCalls] /\ client'[w] = k /\ \A v \in Clients \ {w} : client'[v] = client[v]
      BY <1>2, <2>1, <2>3
    <2>5. FavouritesTyped' /\ FavouritesKept'
      BY <1>1, <2>1, <2>4 DEF FavouritesInv, FavouritesTyped, FavouritesKept, DropsTold
    <2>6. ASSUME NEW v \in Clients PROVE WishKept(v)'
      <3>1. CASE v = w
        BY <1>1, <1>3, <2>3, <2>4, <3>1 DEF WishKept
      <3>2. CASE v # w
        BY <1>1, <2>4, <3>2 DEF FavouritesInv, WishKept
      <3> QED
        BY <3>1, <3>2
    <2> QED
      BY <1>1, <2>5, <2>6 DEF FavouritesInv, FormTrue
  <1> QED
    BY <1>4, <1>5

(* Rows that are inserted or removed leave every other call what it needs. *)
LEMMA RowsKept ==
    ASSUME FavouritesInv, NEW calls \in [Clients -> WishCalls], NEW rows \in SUBSET WishRows, NEW removed \in SUBSET WishRows,
           client' = Meeting(calls, rows, removed),
           \A v \in Clients : calls[v] = client[v] \/ calls[v].pc = "idle",
           favourites \ removed \subseteq favourites', favourites' \subseteq favourites \cup rows,
           \A r \in WishRows : price[r[2]] # 0 /\ price'[r[2]] = 0 => r \in rows
    PROVE  client' \in [Clients -> WishCalls] /\ \A v \in Clients : WishKept(v)'
  <1>1. client' \in [Clients -> WishCalls]
    BY MeetingIs
  <1>2. ASSUME NEW v \in Clients PROVE WishKept(v)'
    <2> DEFINE c == calls[v]
               m == client'[v]
               n == Meeting(calls, rows, removed)[v]
    <2>0. /\ n.pc = c.pc /\ n.rows = c.rows /\ n.asked = c.asked
          /\ n.dropped = c.dropped \cup (c.asked \cap removed)
          /\ ~ n.met => ~ c.met /\ c.rows \cap rows = {}
      BY MeetingIs
    <2>1. /\ m.pc = c.pc /\ m.rows = c.rows /\ m.asked = c.asked
          /\ m.dropped = c.dropped \cup (c.asked \cap removed)
          /\ ~ m.met => ~ c.met /\ c.rows \cap rows = {}
      BY <2>0
    <2>2. CASE c.pc = "idle"
      BY <2>1, <2>2 DEF WishKept
    <2>3. CASE c = client[v]
      <3>1. /\ c.pc = "find" => c.rows = c.asked
            /\ c.pc = "insert" => c.asked \subseteq c.rows \cup favourites \cup c.dropped
            /\ c.pc # "idle" /\ ~ c.met => \A r \in c.rows : price[r[2]] # 0
            /\ c.pc = "insert" /\ ~ c.met => c.rows \cap favourites = {}
        BY <2>3 DEF FavouritesInv, WishKept
      <3>2. c.rows \subseteq WishRows
        BY DEF WishCalls
      <3> HIDE DEF c, m
      <3>3. m.pc = "insert" => m.asked \subseteq m.rows \cup favourites' \cup m.dropped
        BY <2>1, <3>1
      <3>4. m.pc # "idle" /\ ~ m.met => \A r \in m.rows : price'[r[2]] # 0
        BY <2>1, <3>1, <3>2
      <3>5. m.pc = "insert" /\ ~ m.met => m.rows \cap favourites' = {}
        BY <2>1, <3>1
      <3>6. m.pc = "find" => m.rows = m.asked
        BY <2>1, <3>1
      <3> QED
        BY <3>3, <3>4, <3>5, <3>6 DEF WishKept, m
    <2> QED
      BY <2>2, <2>3
  <1> QED
    BY <1>1, <1>2

(* A call inserts its rows, or is refused.                                 *)
LEMMA CommitWishesKept ==
    ASSUME FavouritesInv, NEW w \in Clients, CommitWishes(w)
    PROVE  FavouritesInv'
  <1> DEFINE c == client[w]
             taken == c.rows \cap favourites # {} \/ \E r \in c.rows : price[r[2]] = 0
             calls == [client EXCEPT ![w] = NoClient]
  <1>1. c.pc = "insert" /\ UNCHANGED <<price, form, letters>>
    BY DEF CommitWishes
  <1>2. c \in WishCalls /\ favPast \in [lost : BOOLEAN, refused : BOOLEAN, calls : Nat, forms : Nat]
        /\ client \in [Clients -> WishCalls] /\ favourites \subseteq WishRows /\ ~ favPast.lost /\ ~ favPast.refused
    BY DEF FavouritesInv, FavouritesTyped, FavouritesKept
  <1>3. calls \in [Clients -> WishCalls] /\ calls[w].pc = "idle" /\ \A v \in Clients \ {w} : calls[v] = client[v]
    BY <1>2, NoWishCall
  <1>4. /\ c.asked \subseteq c.rows \cup favourites \cup c.dropped
        /\ ~ c.met => ~ taken
    BY <1>1 DEF FavouritesInv, WishKept
  <1>5. CASE taken
    <2>1. client' = calls /\ favourites' = favourites /\ favPast' = [favPast EXCEPT !.refused = @ \/ ~ c.met]
      BY <1>5 DEF CommitWishes
    <2>2. c.met = TRUE
      BY <1>2, <1>4, <1>5 DEF WishCalls
    <2>3. favPast' \in [lost : BOOLEAN, refused : BOOLEAN, calls : Nat, forms : Nat] /\ ~ favPast'.lost /\ ~ favPast'.refused
      BY <1>2, <2>1, <2>2
    <2> HIDE DEF calls, taken
    <2>4. FavouritesTyped' /\ FavouritesKept'
      BY <1>1, <1>3, <2>1, <2>3 DEF FavouritesInv, FavouritesTyped, FavouritesKept, DropsTold
    <2>5. \A v \in Clients : WishKept(v)'
      BY <1>1, <1>3, <2>1 DEF FavouritesInv, WishKept
    <2> QED
      BY <1>1, <2>4, <2>5 DEF FavouritesInv, FormTrue
  <1>6. CASE ~ taken
    <2>1. client' = Meeting(calls, c.rows, {}) /\ favourites' = favourites \cup c.rows
          /\ favPast' = [favPast EXCEPT !.lost = @ \/ ~ c.asked \subseteq favourites' \cup c.dropped]
      BY <1>6 DEF CommitWishes, Assured
    <2>2. c.rows \in SUBSET WishRows /\ c.asked \subseteq favourites' \cup c.dropped
      BY <1>2, <1>4, <2>1 DEF WishCalls
    <2>3. favPast' \in [lost : BOOLEAN, refused : BOOLEAN, calls : Nat, forms : Nat] /\ ~ favPast'.lost /\ ~ favPast'.refused
      BY <1>2, <2>1, <2>2
    <2> HIDE DEF calls, taken, c
    <2>4. client' \in [Clients -> WishCalls] /\ \A v \in Clients : WishKept(v)'
      <3> DEFINE rows == c.rows
      <3>1. \A v \in Clients : calls[v] = client[v] \/ calls[v].pc = "idle"
        BY <1>3
      <3>2. rows \in SUBSET WishRows /\ {} \in SUBSET WishRows /\ client' = Meeting(calls, rows, {})
            /\ favourites \ {} \subseteq favourites' /\ favourites' \subseteq favourites \cup rows
        BY <2>1, <2>2
      <3>3. \A r \in WishRows : price[r[2]] # 0 /\ price'[r[2]] = 0 => r \in rows
        BY <1>1
      <3> HIDE DEF rows
      <3> QED
        BY <1>3, <3>1, <3>2, <3>3, RowsKept
    <2>5. FavouritesTyped' /\ FavouritesKept'
      BY <1>1, <1>2, <2>1, <2>2, <2>3, <2>4 DEF FavouritesInv, FavouritesTyped, FavouritesKept, DropsTold
    <2> QED
      BY <1>1, <2>4, <2>5 DEF FavouritesInv, FormTrue
  <1> QED
    BY <1>5, <1>6

(* A member removes a favourite.                                           *)
LEMMA RemoveKept ==
    ASSUME FavouritesInv, NEW m \in Members, NEW p \in Wares, RemoveWishlist(m, p)
    PROVE  FavouritesInv'
  <1> DEFINE gone == {<<m, p>>}
  <1>1. favourites' = favourites \ gone /\ client' = Meeting(client, gone, gone)
        /\ UNCHANGED <<price, form, letters, favPast>>
    BY DEF RemoveWishlist
  <1>2. gone \in SUBSET WishRows /\ client \in [Clients -> WishCalls]
    BY DEF WishRows, FavouritesInv, FavouritesTyped
  <1> HIDE DEF gone
  <1>3. client' \in [Clients -> WishCalls] /\ \A v \in Clients : WishKept(v)'
    BY <1>1, <1>2, RowsKept
  <1>4. FavouritesTyped' /\ FavouritesKept'
    BY <1>1, <1>3 DEF FavouritesInv, FavouritesTyped, FavouritesKept, DropsTold
  <1> QED
    BY <1>1, <1>3, <1>4 DEF FavouritesInv, FormTrue

(* A product is deleted, with the rows that name it.                       *)
LEMMA DeleteProductKept ==
    ASSUME FavouritesInv, NEW p \in Wares, DeleteProduct(p)
    PROVE  FavouritesInv'
  <1> DEFINE gone == Members \X {p}
  <1>1. favourites' = favourites \ gone /\ client' = Meeting(client, gone, gone)
        /\ price' = [price EXCEPT ![p] = 0] /\ UNCHANGED <<form, letters, favPast>>
    BY DEF DeleteProduct
  <1>2. gone \in SUBSET WishRows /\ client \in [Clients -> WishCalls] /\ price \in [Wares -> Nat]
    BY DEF WishRows, FavouritesInv, FavouritesTyped
  <1>3. \A r \in WishRows : price[r[2]] # 0 /\ price'[r[2]] = 0 => r \in gone
    BY <1>1, <1>2 DEF WishRows
  <1>4. price' \in [Wares -> Nat] /\ \A q \in Wares : price'[q] = price[q] \/ price'[q] = 0
    BY <1>1, <1>2
  <1> HIDE DEF gone
  <1>5. client' \in [Clients -> WishCalls] /\ \A v \in Clients : WishKept(v)'
    BY <1>1, <1>2, <1>3, RowsKept
  <1>6. FavouritesTyped' /\ FavouritesKept'
    BY <1>1, <1>4, <1>5 DEF FavouritesInv, FavouritesTyped, FavouritesKept, DropsTold
  <1>7. \A f \in Forms : FormTrue(f)'
    BY <1>1, <1>4 DEF FavouritesInv, FormTrue
  <1> QED
    BY <1>5, <1>6, <1>7 DEF FavouritesInv

(* A form is opened.                                                       *)
LEMMA OpenFormKept ==
    ASSUME FavouritesInv, NEW f \in Forms, NEW p \in Wares, NEW new \in Prices, OpenForm(f, p, new)
    PROVE  FavouritesInv'
  <1> DEFINE old == price[p]
             k == [NoForm EXCEPT !.pc = "commit", !.ware = p, !.old = old, !.new = new]
  <1>1. /\ form' = [form EXCEPT ![f] = k] /\ favPast' = [favPast EXCEPT !.forms = @ + 1]
        /\ UNCHANGED <<favourites, price, client, letters>>
    BY DEF OpenForm
  <1>2. old \in Nat /\ new \in Nat /\ new # 0
    BY FavouritesAssumption DEF FavouritesInv, FavouritesTyped
  <1> HIDE DEF old
  <1>3. k \in PriceForms /\ k.pc = "commit" /\ k.ware = p /\ k.old = old /\ k.new = new
    <2> DEFINE x == NoForm
    <2>1. x \in PriceForms
      BY NoWishCall
    <2> HIDE DEF x
    <2>2. [x EXCEPT !.pc = "commit", !.ware = p, !.old = old, !.new = new] \in PriceForms
      BY <1>2, <2>1 DEF PriceForms
    <2>3. LET e == [x EXCEPT !.pc = "commit", !.ware = p, !.old = old, !.new = new]
          IN  e.pc = "commit" /\ e.ware = p /\ e.old = old /\ e.new = new
      BY <2>1 DEF PriceForms
    <2> QED
      BY <2>2, <2>3 DEF x
  <1> HIDE DEF k
  <1>4. form' \in [Forms -> PriceForms] /\ form'[f] = k /\ \A g \in Forms \ {f} : form'[g] = form[g]
    BY <1>1, <1>3 DEF FavouritesInv, FavouritesTyped
  <1>5. FavouritesTyped' /\ FavouritesKept'
    BY <1>1, <1>4 DEF FavouritesInv, FavouritesTyped, FavouritesKept, DropsTold
  <1>6. ASSUME NEW g \in Forms PROVE FormTrue(g)'
    <2>1. CASE g = f
      BY <1>1, <1>2, <1>3, <1>4, <2>1 DEF FormTrue, old
    <2>2. CASE g # f
      BY <1>1, <1>4, <2>2 DEF FavouritesInv, FormTrue
    <2> QED
      BY <2>1, <2>2
  <1> QED
    BY <1>1, <1>5, <1>6 DEF FavouritesInv, WishKept

(* A form is saved; other forms of the product have met it.                *)
LEMMA SaveFormKept ==
    ASSUME FavouritesInv, NEW f \in Forms, SaveForm(f)
    PROVE  FavouritesInv'
  <1> DEFINE c == form[f]
             was == price[c.ware]
             low == was # 0 /\ c.new < c.old
             k == [c EXCEPT !.pc = "mail", !.was = was]
  <1>1. /\ c.pc = "commit" /\ UNCHANGED <<favourites, client, letters, favPast>>
        /\ price' = IF was = 0 \/ c.new = c.old THEN price ELSE [price EXCEPT ![c.ware] = c.new]
        /\ form' = [g \in Forms |-> IF g = f THEN IF low THEN k ELSE NoForm
                                    ELSE IF form[g].ware = c.ware THEN [form[g] EXCEPT !.met = TRUE] ELSE form[g]]
    BY DEF SaveForm
  <1>2. /\ c \in PriceForms /\ c.ware \in Wares /\ price \in [Wares -> Nat] /\ form \in [Forms -> PriceForms]
        /\ c.new \in Nat /\ c.old \in Nat /\ was \in Nat
    BY <1>1 DEF FavouritesInv, FavouritesTyped, FormTrue, PriceForms
  <1>3. c.new # 0 /\ (~ c.met => was \in {c.old, 0})
    BY <1>1 DEF FavouritesInv, FormTrue
  <1>4. /\ price' \in [Wares -> Nat] /\ \A q \in Wares \ {c.ware} : price'[q] = price[q]
        /\ \A q \in Wares : price'[q] = 0 => price[q] = 0 \/ c.new = 0
        /\ low => price'[c.ware] = c.new
    BY <1>1, <1>2
  <1> HIDE DEF was
  <1>5. k \in PriceForms /\ k.pc = "mail" /\ k.ware = c.ware /\ k.new = c.new /\ k.was = was /\ k.met = c.met
    <2> HIDE DEF c
    <2> QED
      BY <1>2 DEF PriceForms
  <1> HIDE DEF k
  <1>6. ASSUME NEW g \in Forms PROVE form'[g] \in PriceForms /\ FormTrue(g)'
    <2>1. CASE g = f
      <3>1. CASE low
        <4>1. form'[g] = k
          BY <1>1, <2>1, <3>1
        <4>2. ~ c.met => c.new < was
          BY <1>2, <1>3, <3>1
        <4> HIDE DEF low
        <4> QED
          BY <1>2, <1>3, <1>4, <1>5, <3>1, <4>1, <4>2 DEF FormTrue
      <3>2. CASE ~ low
        BY <1>1, <2>1, <3>2, NoWishCall DEF FormTrue
      <3> QED
        BY <3>1, <3>2
    <2>2. CASE g # f
      <3> DEFINE d == form[g]
      <3>1. d \in PriceForms /\ form'[g] = IF d.ware = c.ware THEN [d EXCEPT !.met = TRUE] ELSE d
        BY <1>1, <1>2, <2>2
      <3>2. /\ d.pc # "idle" => d.ware \in Wares /\ d.new # 0
            /\ d.pc = "commit" /\ ~ d.met => price[d.ware] \in {d.old, 0}
            /\ d.pc \in {"mail", "send"} /\ ~ d.met => d.new < d.was /\ price[d.ware] \in {d.new, 0}
        BY DEF FavouritesInv, FormTrue
      <3> HIDE DEF d
      <3>3. CASE d.ware = c.ware
        <4>1. form'[g] \in PriceForms /\ form'[g].pc = d.pc /\ form'[g].ware = d.ware /\ form'[g].new = d.new /\ form'[g].met
          BY <3>1, <3>3 DEF PriceForms
        <4> QED
          BY <3>2, <4>1 DEF FormTrue
      <3>4. CASE d.ware # c.ware
        <4>1. form'[g] = d
          BY <3>1, <3>4
        <4>2. d.pc # "idle" => price'[d.ware] = price[d.ware]
          BY <1>4, <3>2, <3>4
        <4>3. d.pc \in {"commit", "mail", "send"} => d.pc # "idle"
          OBVIOUS
        <4> QED
          BY <3>1, <3>2, <4>1, <4>2, <4>3 DEF FormTrue
      <3> QED
        BY <3>3, <3>4
    <2> QED
      BY <2>1, <2>2
  <1>7. form' \in [Forms -> PriceForms]
    <2>1. form' = [g \in Forms |-> form'[g]]
      BY <1>1
    <2> QED
      BY <1>6, <2>1
  <1>8. \A v \in Clients : WishKept(v)'
    <2>1. c.new # 0 => \A q \in Wares : price'[q] = 0 => price[q] = 0
      BY <1>4
    <2>2. \A r \in WishRows : r[2] \in Wares
      BY DEF WishRows
    <2>3. \A v \in Clients : client[v].rows \subseteq WishRows
      BY DEF FavouritesInv, FavouritesTyped, WishCalls
    <2>4. c.new # 0
      BY <1>1 DEF FavouritesInv, FormTrue
    <2> QED
      BY <1>1, <2>1, <2>2, <2>3, <2>4 DEF FavouritesInv, WishKept
  <1>9. FavouritesTyped' /\ FavouritesKept'
    BY <1>1, <1>4, <1>7 DEF FavouritesInv, FavouritesTyped, FavouritesKept, DropsTold
  <1> QED
    BY <1>6, <1>8, <1>9 DEF FavouritesInv

(* The members a mail goes to are looked up.                               *)
LEMMA RecipientsKept ==
    ASSUME FavouritesInv, NEW f \in Forms, Recipients(f)
    PROVE  FavouritesInv'
  <1> DEFINE c == form[f]
             todo == {m \in Unblocked : <<m, c.ware>> \in favourites}
             k == [c EXCEPT !.pc = "send", !.todo = todo]
  <1>1. c.pc = "mail" /\ form' = [form EXCEPT ![f] = k] /\ UNCHANGED <<favourites, price, client, letters, favPast>>
    BY DEF Recipients
  <1>2. c \in PriceForms /\ form \in [Forms -> PriceForms] /\ todo \in SUBSET Members
    BY FavouritesAssumption DEF FavouritesInv, FavouritesTyped
  <1>3. c.ware \in Wares /\ c.new # 0 /\ (~ c.met => c.new < c.was /\ price[c.ware] \in {c.new, 0})
    BY <1>1 DEF FavouritesInv, FormTrue
  <1> HIDE DEF todo, c
  <1>4. k \in PriceForms /\ k.pc = "send" /\ k.ware = c.ware /\ k.new = c.new /\ k.was = c.was /\ k.met = c.met
    BY <1>2 DEF PriceForms
  <1> HIDE DEF k
  <1>5. form' \in [Forms -> PriceForms] /\ form'[f] = k /\ \A g \in Forms \ {f} : form'[g] = form[g]
    BY <1>1, <1>2, <1>4
  <1>6. FavouritesTyped' /\ FavouritesKept'
    BY <1>1, <1>5 DEF FavouritesInv, FavouritesTyped, FavouritesKept, DropsTold
  <1>7. ASSUME NEW g \in Forms PROVE FormTrue(g)'
    <2>1. CASE g = f
      BY <1>1, <1>3, <1>4, <1>5, <2>1 DEF FormTrue
    <2>2. CASE g # f
      BY <1>1, <1>5, <2>2 DEF FavouritesInv, FormTrue
    <2> QED
      BY <2>1, <2>2
  <1> QED
    BY <1>1, <1>6, <1>7 DEF FavouritesInv, WishKept

(* The mails are sent.                                                     *)
LEMMA NotifyKept ==
    ASSUME FavouritesInv, NEW f \in Forms, NotifyPriceDrop(f)
    PROVE  FavouritesInv'
  <1> DEFINE c == form[f]
  <1>1. /\ c.pc = "send" /\ form' = [form EXCEPT ![f] = NoForm] /\ UNCHANGED <<favourites, price, client, favPast>>
        /\ letters' = letters \cup {[to |-> m, ware |-> c.ware, new |-> c.new, was |-> c.was, met |-> c.met,
                                     now |-> price[c.ware]] : m \in c.todo}
    BY DEF NotifyPriceDrop
  <1>2. form' \in [Forms -> PriceForms] /\ form'[f].pc = "idle" /\ \A g \in Forms \ {f} : form'[g] = form[g]
    BY <1>1, NoWishCall DEF FavouritesInv, FavouritesTyped
  <1>3. ~ c.met => c.new < c.was /\ price[c.ware] \in {c.new, 0}
    BY <1>1 DEF FavouritesInv, FormTrue
  <1> HIDE DEF c
  <1>4. ASSUME NEW l \in letters' PROVE l.met \/ (l.new < l.was /\ l.now \in {l.new, 0})
    <2>1. CASE l \in letters
      BY <2>1 DEF FavouritesInv, FavouritesKept, DropsTold
    <2>2. CASE l \notin letters
      <3>1. l.new = c.new /\ l.was = c.was /\ l.met = c.met /\ l.now = price[c.ware]
        BY <1>1, <2>2
      <3> QED
        BY <1>3, <3>1
    <2> QED
      BY <2>1, <2>2
  <1>5. FavouritesKept'
    BY <1>1, <1>4 DEF FavouritesInv, FavouritesKept, DropsTold
  <1>6. FavouritesTyped'
    BY <1>1, <1>2 DEF FavouritesInv, FavouritesTyped
  <1> QED
    BY <1>1, <1>2, <1>5, <1>6 DEF FavouritesInv, WishKept, FormTrue

(* The first state: no favourites, no forms.                               *)
LEMMA FavouritesInitInv == FavouritesInit => FavouritesInv
  <1> SUFFICES ASSUME FavouritesInit PROVE FavouritesInv
    OBVIOUS
  <1>1. /\ favourites = {} /\ letters = {} /\ favPast = FavouritesObserved
        /\ client = [w \in Clients |-> NoClient] /\ form = [f \in Forms |-> NoForm]
    BY DEF FavouritesInit
  <1>2. price \in [Wares -> Nat]
    BY FavouritesAssumption DEF FavouritesInit
  <1>3. favPast \in [lost : BOOLEAN, refused : BOOLEAN, calls : Nat, forms : Nat] /\ ~ favPast.lost /\ ~ favPast.refused
    BY <1>1 DEF FavouritesObserved
  <1> QED
    BY <1>1, <1>2, <1>3, NoWishCall
       DEF FavouritesInv, FavouritesTyped, FavouritesKept, DropsTold, WishKept, FormTrue

(* Every step keeps the invariant.                                         *)
LEMMA FavouritesStep == FavouritesInv /\ [FavouritesNext]_favouriteVars => FavouritesInv'
  <1> SUFFICES ASSUME FavouritesInv, [FavouritesNext]_favouriteVars PROVE FavouritesInv'
    OBVIOUS
  <1>1. CASE UNCHANGED favouriteVars
    BY <1>1 DEF favouriteVars, FavouritesInv, FavouritesTyped, FavouritesKept, DropsTold, WishKept, FormTrue
  <1>2. CASE FavouritesNext
    <2>1. ASSUME NEW w \in Clients, NEW m \in Members, NEW p \in Wares, AddWishlist(w, m, p) PROVE FavouritesInv'
      BY <2>1, MergeKept DEF AddWishlist
    <2> QED
      BY <1>2, <2>1, MergeKept, FindExistingKept, CommitWishesKept, RemoveKept, DeleteProductKept, OpenFormKept,
         SaveFormKept, RecipientsKept, NotifyKept DEF FavouritesNext
  <1> QED
    BY <1>1, <1>2

(* What a member is told is kept is kept until it is removed, a call is    *)
(* refused only when another has changed the rows it read, and mails tell  *)
(* of prices that have dropped (wishlist.py:70-112, 130-174).              *)
THEOREM FavouritesHold == FavouritesSpec => []FavouritesKept
  <1>1. FavouritesInv => FavouritesKept
    BY DEF FavouritesInv
  <1> QED
    BY <1>1, FavouritesInitInv, FavouritesStep, PTL DEF FavouritesSpec

-----------------------------------------------------------------------------
(* Timelines.                                                              *)

Tracked   == [st : Statuses, paid : BOOLEAN, created : Nat, updated : Nat, return : BOOLEAN]
LogRows   == [n : Numbers, to : Statuses, at : Nat]
Calls     == [kind : {"none", "status", "payment", "carrier", "patch"}, n : Numbers \cup {0}, to : Statuses,
              saw : Statuses, paid : BOOLEAN, at : Nat]
Histories == [entered : [Statuses -> SUBSET Nat], smooth : BOOLEAN]

TimelineTyped ==
    /\ order \in [Numbers -> Tracked] /\ log \subseteq LogRows /\ clock \in Nat
    /\ call \in [Clerks -> Calls] /\ past \in [Numbers -> Histories]

(* What is logged of an order is in its history; moves come after its      *)
(* creation.                                                               *)
Logged == \A r \in log : r.at \in past[r.n].entered[r.to]
Dated  == \A n \in Numbers : /\ order[n].created <= clock
                             /\ \A s \in Statuses : \A t \in past[n].entered[s] :
                                    Exists(n) /\ order[n].created <= t /\ t <= clock

(* A call that is under way began after the order.                         *)
CallDated(c) ==
    LET k == call[c] IN
    k.kind # "none" => k.n \in Numbers /\ Exists(k.n) /\ order[k.n].created <= k.at /\ k.at <= clock

(* As long as calls on an order follow one another, each has read its      *)
(* status and is later than all moves before it, and these went up.        *)
Following(c) ==
    LET k == call[c] IN
    k.kind # "none" /\ past[k.n].smooth =>
        /\ k.saw = order[k.n].st
        /\ \A d \in Clerks \ {c} : call[d].kind # "none" => call[d].n # k.n
        /\ \A s \in Statuses : \A t \in past[k.n].entered[s] : t < k.at
Rising(n) ==
    past[n].smooth =>
        \A s \in Statuses : \A t \in past[n].entered[s] :
            /\ Rank[s] <= Rank[order[n].st] /\ t <= order[n].updated
            /\ \A r \in Statuses : \A u \in past[n].entered[r] :
                  /\ Rank[s] < Rank[r] => t <= u
                  /\ s = r => t = u

TimelineInv ==
    /\ TimelineTyped /\ Logged /\ Dated
    /\ \A c \in Clerks : CallDated(c) /\ Following(c)
    /\ \A n \in Numbers : Rising(n)

(* Ranks are whole numbers.                                                *)
LEMMA RankIs == \A s \in Statuses : Rank[s] \in Nat
  BY DEF Statuses, Rank

(* A call that is over.                                                    *)
LEMMA NoCallIs == NoCall \in Calls /\ NoCall.kind = "none" /\ NoCall.n = 0
  BY DEF NoCall, Calls, Statuses

(* An order is placed.                                                     *)
LEMMA CreateOrderKept ==
    ASSUME TimelineInv, NEW n \in Numbers, CreateOrder(n)
    PROVE  TimelineInv'
  <1> DEFINE o == [order[n] EXCEPT !.created = clock + 1, !.updated = clock + 1]
  <1>1. /\ order[n].created <= 0 /\ clock' = clock + 1 /\ order' = [order EXCEPT ![n] = o]
        /\ UNCHANGED <<log, call, past>>
    <2>1. order[n] \in Tracked /\ order \in [Numbers -> Tracked]
      BY DEF TimelineInv, TimelineTyped
    <2>2. order[n].created <= 0
      BY <2>1 DEF CreateOrder, Exists, Tracked
    <2>3. order' = [order EXCEPT ![n].created = clock + 1, ![n].updated = clock + 1]
      BY DEF CreateOrder, Now
    <2>4. order' = [order EXCEPT ![n] = o]
      BY <2>1, <2>3
    <2> HIDE DEF o
    <2> QED
      BY <2>2, <2>4 DEF CreateOrder, Now, Tick
  <1>2. order[n] \in Tracked /\ clock \in Nat /\ order \in [Numbers -> Tracked]
    BY DEF TimelineInv, TimelineTyped
  <1>3. o \in Tracked /\ o.st = order[n].st /\ o.created = clock + 1 /\ o.updated = clock + 1
    <2> DEFINE x == order[n]
               y == [x EXCEPT !.created = clock + 1, !.updated = clock + 1]
    <2>1. x \in Tracked /\ clock + 1 \in Nat
      BY <1>2
    <2> HIDE DEF x
    <2>2. y \in Tracked /\ y.st = x.st /\ y.created = clock + 1 /\ y.updated = clock + 1
      BY <2>1 DEF Tracked
    <2> QED
      BY <2>2 DEF x
  <1> HIDE DEF o
  <1>4. order' \in [Numbers -> Tracked] /\ order'[n] = o /\ \A m \in Numbers \ {n} : order'[m] = order[m]
    BY <1>1, <1>2, <1>3
  <1>5. \A s \in Statuses : past[n].entered[s] = {}
    BY <1>1, <1>2 DEF TimelineInv, Dated, Exists, Tracked
  <1>6. TimelineTyped' /\ Logged'
    BY <1>1, <1>2, <1>4 DEF TimelineInv, TimelineTyped, Logged
  <1>7. Dated'
    <2> SUFFICES ASSUME NEW m \in Numbers
                 PROVE  /\ order'[m].created <= clock'
                        /\ \A s \in Statuses : \A t \in past[m].entered[s] :
                               order'[m].created > 0 /\ order'[m].created <= t /\ t <= clock'
      BY <1>1 DEF Dated, Exists
    <2>1. CASE m = n
      BY <1>1, <1>2, <1>3, <1>4, <1>5, <2>1
    <2>2. CASE m # n
      <3>1. order[m].created \in Nat /\ past[m] \in Histories
        BY DEF TimelineInv, TimelineTyped, Tracked
      <3>2. \A s \in Statuses : \A t \in past[m].entered[s] : t \in Nat
        BY <3>1 DEF Histories
      <3>3. /\ order[m].created <= clock
            /\ \A s \in Statuses : \A t \in past[m].entered[s] :
                   order[m].created > 0 /\ order[m].created <= t /\ t <= clock
        BY DEF TimelineInv, Dated, Exists
      <3>4. order'[m] = order[m]
        BY <1>4, <2>2
      <3> QED
        BY <1>1, <1>2, <3>1, <3>2, <3>3, <3>4
    <2> QED
      BY <2>1, <2>2
  <1>8. ASSUME NEW c \in Clerks, call[c].kind # "none" PROVE call[c].n # n
    BY <1>1, <1>2, <1>8 DEF TimelineInv, CallDated, Exists, Tracked
  <1>9. ASSUME NEW c \in Clerks PROVE CallDated(c)' /\ Following(c)'
    <2> DEFINE k == call[c]
    <2>1. k \in Calls
      BY DEF TimelineInv, TimelineTyped
    <2>2. CASE k.kind = "none"
      BY <1>1, <2>2 DEF CallDated, Following
    <2>3. CASE k.kind # "none"
      <3>1. order'[k.n] = order[k.n] /\ k.n \in Numbers /\ Exists(k.n) /\ order[k.n].created <= k.at /\ k.at <= clock
        BY <1>4, <1>8, <2>3 DEF TimelineInv, CallDated
      <3>2. k.at <= clock + 1
        BY <1>2, <2>1, <3>1 DEF Calls
      <3>3. CallDated(c)'
        BY <1>1, <3>1, <3>2 DEF CallDated, Exists
      <3>4. Following(c)'
        BY <1>1, <3>1 DEF TimelineInv, Following
      <3> QED
        BY <3>3, <3>4
    <2> QED
      BY <2>2, <2>3
  <1>10. ASSUME NEW m \in Numbers PROVE Rising(m)'
    BY <1>1, <1>4, <1>5, <1>10 DEF TimelineInv, Rising
  <1> QED
    BY <1>6, <1>7, <1>9, <1>10 DEF TimelineInv

(* A call begins: it reads the order.                                      *)
LEMMA BeginCallKept ==
    ASSUME TimelineInv, NEW c \in Clerks, NEW n \in Numbers, NEW kind \in {"status", "payment", "carrier", "patch"},
           NEW to \in Statuses, BeginCall(c, n, kind, to)
    PROVE  TimelineInv'
  <1> DEFINE k == [kind |-> kind, n |-> n, to |-> to, saw |-> order[n].st, paid |-> order[n].paid, at |-> clock + 1]
             met == \E d \in Clerks : call[d].n = n
  <1>1. /\ call[c] = NoCall /\ Exists(n) /\ clock' = clock + 1 /\ call' = [call EXCEPT ![c] = k]
        /\ past' = IF met THEN [past EXCEPT ![n].smooth = FALSE] ELSE past
        /\ UNCHANGED <<order, log>>
    BY DEF BeginCall, Now, Tick
  <1>2. /\ clock \in Nat /\ order[n] \in Tracked /\ past \in [Numbers -> Histories] /\ call \in [Clerks -> Calls]
        /\ order[n].created <= clock /\ order[n].created \in Nat
    BY DEF TimelineInv, TimelineTyped, Tracked, Dated
  <1>3. /\ k \in Calls /\ k.kind # "none" /\ k.n = n /\ k.saw = order[n].st /\ k.at = clock + 1
    BY <1>2 DEF Calls, Tracked
  <1> HIDE DEF k
  <1>4. call' \in [Clerks -> Calls] /\ call'[c] = k /\ \A d \in Clerks \ {c} : call'[d] = call[d]
    BY <1>1, <1>2, <1>3
  <1>5. /\ past' \in [Numbers -> Histories] /\ \A m \in Numbers : past'[m].entered = past[m].entered
        /\ \A m \in Numbers : past'[m].smooth => past[m].smooth
        /\ past'[n].smooth => ~ met
    <2> DEFINE h == [past[n] EXCEPT !.smooth = FALSE]
    <2>1. past[n] \in Histories /\ past' = IF met THEN [past EXCEPT ![n] = h] ELSE past
      BY <1>1, <1>2
    <2>2. h \in Histories /\ h.entered = past[n].entered /\ ~ h.smooth
      BY <2>1 DEF Histories
    <2> HIDE DEF h, met
    <2>3. CASE met
      BY <1>2, <2>1, <2>2, <2>3
    <2>4. CASE ~ met
      BY <1>2, <2>1, <2>4
    <2> QED
      BY <2>3, <2>4
  <1> HIDE DEF met
  <1>6. TimelineTyped'
    BY <1>1, <1>2, <1>4, <1>5 DEF TimelineInv, TimelineTyped
  <1>7. Logged'
    BY <1>1, <1>5 DEF TimelineInv, Logged, TimelineTyped, LogRows
  <1>8. \A m \in Numbers : \A s \in Statuses : \A t \in past[m].entered[s] : t \in Nat /\ t <= clock
    <2>1. \A m \in Numbers : \A s \in Statuses : past[m].entered[s] \subseteq Nat
      BY <1>2 DEF Histories
    <2> QED
      BY <2>1 DEF TimelineInv, Dated
  <1>9. Dated'
    <2>1. \A m \in Numbers : order[m].created \in Nat /\ order[m].created <= clock
      BY DEF TimelineInv, TimelineTyped, Dated, Tracked
    <2>2. \A m \in Numbers : order[m].created <= clock + 1
      BY <1>2, <2>1
    <2>3. \A m \in Numbers : \A s \in Statuses : \A t \in past[m].entered[s] : t <= clock + 1
      BY <1>2, <1>8
    <2> QED
      BY <1>1, <1>5, <2>2, <2>3 DEF TimelineInv, Dated, Exists
  <1>10. CallDated(c)' /\ Following(c)'
    <2>1. CallDated(c)'
      BY <1>1, <1>2, <1>3, <1>4 DEF CallDated, Exists
    <2>2. \A s \in Statuses : \A t \in past[n].entered[s] : t < clock + 1
      BY <1>2, <1>8
    <2>3. past'[n].smooth => \A d \in Clerks \ {c} : call[d].n # n
      BY <1>5 DEF met
    <2> QED
      BY <1>1, <1>3, <1>4, <1>5, <2>1, <2>2, <2>3 DEF Following
  <1>11. ASSUME NEW d \in Clerks \ {c} PROVE CallDated(d)' /\ Following(d)'
    <2> DEFINE j == call[d]
    <2>1. j \in Calls /\ call'[d] = j
      BY <1>2, <1>4
    <2>2. CASE j.kind = "none"
      BY <2>1, <2>2 DEF CallDated, Following
    <2>3. CASE j.kind # "none"
      <3>1. j.n \in Numbers /\ Exists(j.n) /\ order[j.n].created <= j.at /\ j.at <= clock
        BY <2>3 DEF TimelineInv, CallDated
      <3>2. j.at <= clock + 1
        BY <1>2, <2>1, <3>1 DEF Calls
      <3>3. CallDated(d)'
        BY <1>1, <2>1, <3>1, <3>2 DEF CallDated, Exists
      <3>4. past'[j.n].smooth => j.n # n
        BY <1>5 DEF met
      <3>5. Following(d)'
        BY <1>1, <1>3, <1>4, <1>5, <2>1, <3>1, <3>4 DEF TimelineInv, Following
      <3> QED
        BY <3>3, <3>5
    <2> QED
      BY <2>2, <2>3
  <1>12. ASSUME NEW m \in Numbers PROVE Rising(m)'
    BY <1>1, <1>5 DEF TimelineInv, Rising
  <1> QED
    BY <1>6, <1>7, <1>9, <1>10, <1>11, <1>12 DEF TimelineInv

(* What a commit writes: the order, and its history.                       *)
LEMMA CommitIs ==
    ASSUME TimelineInv, NEW c \in Clerks, CommitCall(c)
    PROVE  LET k == call[c]  n == k.n  st == order[n].st IN
           /\ k \in Calls /\ k.kind # "none" /\ n \in Numbers
           /\ order' \in [Numbers -> Tracked] /\ \A m \in Numbers \ {n} : order'[m] = order[m]
           /\ order'[n].created = order[n].created
           /\ order'[n].st = IF Moves(k) /\ k.to # k.saw THEN k.to ELSE st
           /\ order'[n].updated \in {order[n].updated, k.at}
           /\ Moves(k) /\ k.to # k.saw => order'[n].updated = k.at
           /\ past' \in [Numbers -> Histories] /\ \A m \in Numbers \ {n} : past'[m] = past[m]
           /\ past'[n].smooth = (past[n].smooth /\ (Moves(k) => Rank[k.to] > Rank[st]))
           /\ \A s \in Statuses :
                 past'[n].entered[s] = past[n].entered[s] \cup IF Moves(k) /\ s = k.to THEN {k.at} ELSE {}
           /\ log' \in {log, log \cup {[n |-> n, to |-> k.to, at |-> k.at]}}
           /\ log' # log => Moves(k)
           /\ call' = [call EXCEPT ![c] = NoCall] /\ clock' = clock
  <1> DEFINE k == call[c]
             n == k.n
             moved == Moves(k) /\ k.to # k.saw
             paid == Pays(k) /\ ~ k.paid
             x == order[n]
             st == IF moved THEN k.to ELSE x.st
             pd == x.paid \/ paid
             up == IF moved \/ paid \/ k.kind \in {"carrier", "patch"} THEN k.at ELSE x.updated
             o == [x EXCEPT !.st = st, !.paid = pd, !.updated = up]
  <1>1. /\ k \in Calls /\ k.kind # "none" /\ n \in Numbers
        /\ order \in [Numbers -> Tracked] /\ past \in [Numbers -> Histories]
    BY DEF CommitCall, TimelineInv, TimelineTyped, CallDated
  <1>2. order' = [order EXCEPT ![n] = o]
    <2>1. order' = [order EXCEPT ![n].st = IF moved THEN k.to ELSE @, ![n].paid = @ \/ paid,
                                 ![n].updated = IF moved \/ paid \/ k.kind \in {"carrier", "patch"} THEN k.at ELSE @]
      BY DEF CommitCall
    <2> HIDE DEF moved, paid, k
    <2> QED
      BY <1>1, <2>1
  <1>3. k.to \in Statuses /\ k.at \in Nat /\ x \in Tracked
    BY <1>1 DEF Calls
  <1>4. st \in Statuses /\ pd \in BOOLEAN /\ up \in Nat
    <2> HIDE DEF moved, paid, k, x
    <2> QED
      BY <1>3 DEF Tracked
  <1>5. o \in Tracked /\ o.created = x.created /\ o.st = st /\ o.updated = up
    <2> HIDE DEF st, pd, up, x
    <2> QED
      BY <1>3, <1>4 DEF Tracked
  <1>6. /\ order' \in [Numbers -> Tracked] /\ order'[n] = o /\ \A m \in Numbers \ {n} : order'[m] = order[m]
    <2> HIDE DEF o, n
    <2> QED
      BY <1>1, <1>2, <1>5
  <1> DEFINE e == past[n].entered
             b == past[n].smooth /\ Rank[k.to] > Rank[x.st]
             g == [e EXCEPT ![k.to] = @ \cup {k.at}]
             h == [past[n] EXCEPT !.entered = g, !.smooth = b]
  <1>7. past[n] \in Histories /\ e \in [Statuses -> SUBSET Nat] /\ past[n].smooth \in BOOLEAN
    BY <1>1 DEF Histories
  <1>8. past' = IF Moves(k) THEN [past EXCEPT ![n] = h] ELSE past
    <2>1. past' = IF ~ Moves(k) THEN past
                  ELSE [past EXCEPT ![n].entered[k.to] = @ \cup {k.at}, ![n].smooth = @ /\ Rank[k.to] > Rank[order[n].st]]
      BY DEF CommitCall
    <2>2. [past EXCEPT ![n].entered[k.to] = @ \cup {k.at}, ![n].smooth = @ /\ Rank[k.to] > Rank[order[n].st]]
          = [past EXCEPT ![n] = h]
      <3> HIDE DEF k, n
      <3> QED
        BY <1>1
    <2> HIDE DEF h, k
    <2> QED
      BY <2>1, <2>2
  <1>9. h \in Histories /\ h.smooth = b
        /\ \A s \in Statuses : h.entered[s] = e[s] \cup IF s = k.to THEN {k.at} ELSE {}
    <2> DEFINE p == past[n]
    <2>1. b \in BOOLEAN /\ p \in Histories
      BY <1>7
    <2>2. g \in [Statuses -> SUBSET Nat] /\ \A s \in Statuses : g[s] = e[s] \cup IF s = k.to THEN {k.at} ELSE {}
      <3> HIDE DEF e
      <3> QED
        BY <1>3, <1>7
    <2> HIDE DEF b, e, g, p
    <2>3. [p EXCEPT !.entered = g, !.smooth = b] \in Histories /\ [p EXCEPT !.entered = g, !.smooth = b].smooth = b
          /\ [p EXCEPT !.entered = g, !.smooth = b].entered = g
      BY <2>1, <2>2 DEF Histories
    <2> QED
      BY <2>2, <2>3 DEF p
  <1>10. /\ past' \in [Numbers -> Histories] /\ \A m \in Numbers \ {n} : past'[m] = past[m]
         /\ past'[n] = IF Moves(k) THEN h ELSE past[n]
    <2> HIDE DEF h, k, n
    <2> QED
      BY <1>1, <1>8, <1>9 DEF n
  <1>11. past'[n].smooth = (past[n].smooth /\ (Moves(k) => Rank[k.to] > Rank[order[n].st]))
    <2> HIDE DEF h, k, n
    <2>1. CASE Moves(k)
      BY <1>9, <1>10, <2>1
    <2>2. CASE ~ Moves(k)
      BY <1>7, <1>10, <2>2
    <2> QED
      BY <2>1, <2>2
  <1>12. \A s \in Statuses : past'[n].entered[s] = past[n].entered[s] \cup IF Moves(k) /\ s = k.to THEN {k.at} ELSE {}
    <2> HIDE DEF h, k, n
    <2>1. CASE Moves(k)
      BY <1>9, <1>10, <2>1
    <2>2. CASE ~ Moves(k)
      BY <1>10, <2>2
    <2> QED
      BY <2>1, <2>2
  <1>13. /\ log' \in {log, log \cup {[n |-> n, to |-> k.to, at |-> k.at]}}
         /\ log' # log => Moves(k)
         /\ call' = [call EXCEPT ![c] = NoCall] /\ clock' = clock
    BY DEF CommitCall, Logs
  <1>14. /\ order'[n].created = order[n].created /\ order'[n].st = st /\ order'[n].updated = up
    BY <1>5, <1>6
  <1> QED
    BY <1>1, <1>6, <1>10, <1>11, <1>12, <1>13, <1>14

(* A call commits.                                                         *)
LEMMA CommitCallKept ==
    ASSUME TimelineInv, NEW c \in Clerks, CommitCall(c)
    PROVE  TimelineInv'
  <1> DEFINE k == call[c]
             n == k.n
             moves == Moves(k)
  <1>1. /\ k \in Calls /\ k.kind # "none" /\ n \in Numbers
        /\ order' \in [Numbers -> Tracked] /\ \A m \in Numbers \ {n} : order'[m] = order[m]
        /\ order'[n].created = order[n].created
        /\ order'[n].st = IF moves /\ k.to # k.saw THEN k.to ELSE order[n].st
        /\ order'[n].updated \in {order[n].updated, k.at}
        /\ moves /\ k.to # k.saw => order'[n].updated = k.at
        /\ past' \in [Numbers -> Histories] /\ \A m \in Numbers \ {n} : past'[m] = past[m]
        /\ past'[n].smooth = (past[n].smooth /\ (moves => Rank[k.to] > Rank[order[n].st]))
        /\ \A s \in Statuses :
              past'[n].entered[s] = past[n].entered[s] \cup IF moves /\ s = k.to THEN {k.at} ELSE {}
        /\ log' \in {log, log \cup {[n |-> n, to |-> k.to, at |-> k.at]}}
        /\ log' # log => moves
        /\ call' = [call EXCEPT ![c] = NoCall] /\ clock' = clock
    BY CommitIs
  <1>2. /\ k.to \in Statuses /\ k.at \in Nat /\ clock \in Nat /\ call \in [Clerks -> Calls] /\ log \subseteq LogRows
        /\ Exists(n) /\ order[n].created <= k.at /\ k.at <= clock /\ order[n].st \in Statuses /\ order[n].updated \in Nat
    <2>1. k.to \in Statuses /\ k.at \in Nat
      BY <1>1 DEF Calls
    <2>2. order[n].st \in Statuses /\ order[n].updated \in Nat
      BY <1>1 DEF TimelineInv, TimelineTyped, Tracked
    <2> QED
      BY <1>1, <2>1, <2>2 DEF TimelineInv, TimelineTyped, CallDated
  <1>3. call' \in [Clerks -> Calls] /\ call'[c].kind = "none" /\ \A d \in Clerks \ {c} : call'[d] = call[d]
    BY <1>1, <1>2, NoCallIs
  <1>4. past[n].smooth =>
           /\ k.saw = order[n].st
           /\ \A d \in Clerks \ {c} : call[d].kind # "none" => call[d].n # n
           /\ \A s \in Statuses : \A t \in past[n].entered[s] : t < k.at
    BY <1>1 DEF TimelineInv, Following
  <1> HIDE DEF k, n, moves
  <1>5. TimelineTyped'
    <2>1. [n |-> n, to |-> k.to, at |-> k.at] \in LogRows
      BY <1>1, <1>2 DEF LogRows
    <2> QED
      BY <1>1, <1>2, <1>3, <2>1 DEF TimelineTyped
  <1>6. \A m \in Numbers : /\ \A s \in Statuses : past[m].entered[s] \subseteq past'[m].entered[s]
                           /\ past'[m].smooth => past[m].smooth
                           /\ order'[m].created = order[m].created
    <2> SUFFICES ASSUME NEW m \in Numbers
                 PROVE  /\ \A s \in Statuses : past[m].entered[s] \subseteq past'[m].entered[s]
                        /\ past'[m].smooth => past[m].smooth
                        /\ order'[m].created = order[m].created
      OBVIOUS
    <2> QED
      BY <1>1
  <1>7. Logged'
    <2> SUFFICES ASSUME NEW r \in log' PROVE r.at \in past'[r.n].entered[r.to]
      BY DEF Logged
    <2>1. CASE r \in log
      BY <1>2, <1>6, <2>1 DEF TimelineInv, Logged, LogRows
    <2>2. CASE r \notin log
      <3>1. r.n = n /\ r.to = k.to /\ r.at = k.at /\ moves
        BY <1>1, <2>2
      <3> QED
        BY <1>1, <1>2, <3>1
    <2> QED
      BY <2>1, <2>2
  <1>8. Dated'
    <2> SUFFICES ASSUME NEW m \in Numbers
                 PROVE  /\ order[m].created <= clock
                        /\ \A s \in Statuses : \A t \in past'[m].entered[s] :
                               order[m].created > 0 /\ order[m].created <= t /\ t <= clock
      BY <1>1, <1>6 DEF Dated, Exists
    <2>1. /\ order[m].created <= clock
          /\ \A s \in Statuses : \A t \in past[m].entered[s] :
                 order[m].created > 0 /\ order[m].created <= t /\ t <= clock
      BY DEF TimelineInv, Dated, Exists
    <2>2. \A s \in Statuses : past'[m].entered[s] \subseteq past[m].entered[s] \cup IF m = n THEN {k.at} ELSE {}
      BY <1>1
    <2> QED
      BY <1>2, <2>1, <2>2 DEF Exists
  <1>9. ASSUME NEW d \in Clerks PROVE CallDated(d)' /\ Following(d)'
    <2> DEFINE j == call[d]
    <2>1. CASE d = c
      BY <1>3, <2>1 DEF CallDated, Following
    <2>2. CASE d # c /\ j.kind = "none"
      BY <1>3, <2>2 DEF CallDated, Following
    <2>3. CASE d # c /\ j.kind # "none"
      <3>1. j.n \in Numbers /\ Exists(j.n) /\ order[j.n].created <= j.at /\ j.at <= clock /\ call'[d] = j
        BY <1>3, <2>3 DEF TimelineInv, CallDated
      <3>2. CallDated(d)'
        BY <1>1, <1>6, <3>1 DEF CallDated, Exists
      <3>3. past'[j.n].smooth => j.n # n
        BY <1>4, <1>6, <2>3, <3>1
      <3>4. past'[j.n].smooth => order'[j.n] = order[j.n] /\ past'[j.n] = past[j.n]
        BY <1>1, <3>1, <3>3
      <3>5. past[j.n].smooth =>
               /\ j.saw = order[j.n].st
               /\ \A e \in Clerks \ {d} : call[e].kind # "none" => call[e].n # j.n
               /\ \A s \in Statuses : \A t \in past[j.n].entered[s] : t < j.at
        BY <2>3 DEF TimelineInv, Following
      <3>6. \A e \in Clerks \ {d} : call'[e].kind # "none" => call'[e] = call[e]
        BY <1>3
      <3> HIDE DEF j
      <3>7. Following(d)'
        BY <3>1, <3>4, <3>5, <3>6 DEF Following
      <3> QED
        BY <3>2, <3>7
    <2> QED
      BY <2>1, <2>2, <2>3
  <1>10. ASSUME NEW m \in Numbers PROVE Rising(m)'
    <2>1. CASE m # n
      BY <1>1, <2>1 DEF TimelineInv, Rising
    <2>2. CASE m = n
      <3> DEFINE st == order[n].st
                 e == past[n].entered
                 f == past'[n].entered
                 up == order'[n].updated
      <3> SUFFICES ASSUME past'[n].smooth
                   PROVE  \A s \in Statuses : \A t \in f[s] :
                             /\ Rank[s] <= Rank[order'[n].st] /\ t <= up
                             /\ \A r \in Statuses : \A u \in f[r] : /\ Rank[s] < Rank[r] => t <= u
                                                                    /\ s = r => t = u
        BY <2>2 DEF Rising
      <3>1. /\ past[n].smooth /\ k.saw = st /\ (moves => Rank[k.to] > Rank[st])
            /\ \A s \in Statuses : \A t \in e[s] : t < k.at
        BY <1>1, <1>4
      <3>2. \A s \in Statuses : \A t \in e[s] :
               /\ Rank[s] <= Rank[st] /\ t <= order[n].updated
               /\ \A r \in Statuses : \A u \in e[r] : /\ Rank[s] < Rank[r] => t <= u
                                                      /\ s = r => t = u
        BY <1>1, <3>1 DEF TimelineInv, Rising
      <3>3. \A s \in Statuses : e[s] \subseteq Nat /\ Rank[s] \in Nat
        BY <1>1, RankIs DEF TimelineInv, TimelineTyped, Histories
      <3>4. CASE ~ moves
        <4>1. order'[n].st = st /\ \A s \in Statuses : f[s] = e[s]
          BY <1>1, <3>4
        <4>2. \A s \in Statuses : \A t \in e[s] : t <= up
          BY <1>1, <1>2, <3>1, <3>2, <3>3
        <4> HIDE DEF st, e, f, up
        <4> QED
          BY <3>2, <4>1, <4>2
      <3>5. CASE moves
        <4>1. Rank[k.to] > Rank[st] /\ k.to # st
          BY <1>2, <3>1, <3>3, <3>5
        <4>2. order'[n].st = k.to /\ up = k.at
          BY <1>1, <3>1, <3>5, <4>1
        <4>3. \A s \in Statuses : f[s] = e[s] \cup IF s = k.to THEN {k.at} ELSE {}
          BY <1>1, <3>5
        <4>4. e[k.to] = {}
          BY <1>2, <3>2, <3>3, <4>1
        <4> HIDE DEF st, e, f, up
        <4>5. \A s \in Statuses : \A t \in f[s] : (s = k.to /\ t = k.at) \/ (s # k.to /\ t \in e[s])
          BY <4>3, <4>4
        <4>6. \A s \in Statuses : \A t \in f[s] : Rank[s] <= Rank[k.to] /\ t <= k.at
          <5>1. \A s \in Statuses : \A t \in e[s] : Rank[s] <= Rank[k.to]
            BY <1>2, <3>2, <3>3, <4>1 DEF st
          <5>2. \A s \in Statuses : \A t \in e[s] : t <= k.at
            BY <1>2, <3>1, <3>3
          <5> QED
            BY <1>2, <3>3, <4>5, <5>1, <5>2
        <4>7. \A s \in Statuses : \A t \in f[s] : \A r \in Statuses : \A u \in f[r] :
                 /\ Rank[s] < Rank[r] => t <= u
                 /\ s = r => t = u
          <5> SUFFICES ASSUME NEW s \in Statuses, NEW t \in f[s], NEW r \in Statuses, NEW u \in f[r]
                       PROVE  /\ Rank[s] < Rank[r] => t <= u
                              /\ s = r => t = u
            OBVIOUS
          <5>1. CASE r = k.to
            BY <3>3, <4>5, <4>6, <5>1
          <5>2. CASE r # k.to /\ s = k.to
            <6>1. u \in e[r] /\ Rank[r] <= Rank[k.to] /\ Rank[r] \in Nat /\ Rank[k.to] \in Nat
              BY <1>2, <3>3, <4>5, <4>6, <5>2
            <6> QED
              BY <5>2, <6>1
          <5>3. CASE r # k.to /\ s # k.to
            BY <3>2, <4>5, <5>3
          <5> QED
            BY <5>1, <5>2, <5>3
        <4> QED
          BY <4>2, <4>6, <4>7
      <3> QED
        BY <3>4, <3>5
    <2> QED
      BY <2>1, <2>2
  <1> QED
    BY <1>5, <1>7, <1>8, <1>9, <1>10 DEF TimelineInv

(* A return is asked for.                                                  *)
LEMMA ReturnKept ==
    ASSUME TimelineInv, NEW n \in Numbers, Return(n)
    PROVE  TimelineInv'
  <1> DEFINE x == order[n]
             o == [x EXCEPT !.return = TRUE]
  <1>1. order' = [order EXCEPT ![n] = o] /\ UNCHANGED <<log, call, clock, past>>
    BY DEF Return
  <1>2. x \in Tracked /\ order \in [Numbers -> Tracked]
    BY DEF TimelineInv, TimelineTyped
  <1> HIDE DEF x
  <1>3. o \in Tracked /\ o.st = x.st /\ o.created = x.created /\ o.updated = x.updated
    BY <1>2 DEF Tracked
  <1> HIDE DEF o
  <1>4. order' \in [Numbers -> Tracked] /\ order'[n] = o /\ \A m \in Numbers \ {n} : order'[m] = order[m]
    BY <1>1, <1>2, <1>3
  <1>5. \A m \in Numbers : /\ order'[m].st = order[m].st /\ order'[m].created = order[m].created
                           /\ order'[m].updated = order[m].updated
    BY <1>3, <1>4 DEF x
  <1>6. TimelineTyped' /\ Logged' /\ Dated'
    BY <1>1, <1>4, <1>5 DEF TimelineInv, TimelineTyped, Logged, Dated, Exists
  <1>7. \A c \in Clerks : CallDated(c)' /\ Following(c)'
    BY <1>1, <1>5 DEF TimelineInv, CallDated, Following, Exists
  <1>8. \A m \in Numbers : Rising(m)'
    BY <1>1, <1>5 DEF TimelineInv, Rising
  <1> QED
    BY <1>6, <1>7, <1>8 DEF TimelineInv

(* The log is cleared, or time passes.                                     *)
LEMMA ClearAuditKept ==
    ASSUME TimelineInv, ClearAudit
    PROVE  TimelineInv'
  BY DEF ClearAudit, TimelineInv, TimelineTyped, Logged, Dated, CallDated, Following, Rising, Exists

LEMMA WaitKept ==
    ASSUME TimelineInv, Wait
    PROVE  TimelineInv'
  <1>1. clock' = clock + 1 /\ clock \in Nat /\ UNCHANGED <<order, log, call, past>>
    BY DEF Wait, Tick, Now, TimelineInv, TimelineTyped
  <1>2. TimelineTyped' /\ Logged'
    BY <1>1 DEF TimelineInv, TimelineTyped, Logged
  <1>3. \A n \in Numbers : /\ order[n].created \in Nat /\ order[n].created <= clock
                           /\ \A s \in Statuses : \A t \in past[n].entered[s] :
                                  t \in Nat /\ Exists(n) /\ order[n].created <= t /\ t <= clock
    <2>1. \A n \in Numbers : order[n].created \in Nat /\ \A s \in Statuses : past[n].entered[s] \subseteq Nat
      BY DEF TimelineInv, TimelineTyped, Tracked, Histories
    <2> QED
      BY <2>1 DEF TimelineInv, Dated
  <1>4. Dated'
    <2>1. \A n \in Numbers : order[n].created <= clock + 1
      BY <1>1, <1>3
    <2>2. \A n \in Numbers : \A s \in Statuses : \A t \in past[n].entered[s] : t <= clock + 1
      BY <1>1, <1>3
    <2> QED
      BY <1>1, <1>3, <2>1, <2>2 DEF Dated, Exists
  <1>5. ASSUME NEW c \in Clerks PROVE CallDated(c)' /\ Following(c)'
    <2> DEFINE k == call[c]
    <2>1. k \in Calls
      BY DEF TimelineInv, TimelineTyped
    <2>2. k.at \in Nat
      BY <2>1 DEF Calls
    <2>3. k.kind # "none" => k.n \in Numbers /\ Exists(k.n) /\ order[k.n].created <= k.at /\ k.at <= clock
      BY DEF TimelineInv, CallDated
    <2>4. k.kind # "none" => k.at <= clock + 1
      BY <1>1, <2>2, <2>3
    <2>5. CallDated(c)'
      BY <1>1, <2>3, <2>4 DEF CallDated, Exists
    <2>6. Following(c)'
      BY <1>1 DEF TimelineInv, Following
    <2> QED
      BY <2>5, <2>6
  <1>6. \A n \in Numbers : Rising(n)'
    BY <1>1 DEF TimelineInv, Rising
  <1> QED
    BY <1>2, <1>4, <1>5, <1>6 DEF TimelineInv

(* The first state: no order is placed.                                    *)
LEMMA TimelineInitInv == TimelineInit => TimelineInv
  <1> SUFFICES ASSUME TimelineInit PROVE TimelineInv
    OBVIOUS
  <1> DEFINE o == [st |-> "pending", paid |-> FALSE, created |-> 0, updated |-> 0, return |-> FALSE]
             none == [s \in Statuses |-> {}]
             h == [entered |-> none, smooth |-> TRUE]
  <1>1. /\ order = [n \in Numbers |-> o] /\ log = {} /\ clock = 0 /\ call = [c \in Clerks |-> NoCall]
        /\ past = [n \in Numbers |-> h]
    BY DEF TimelineInit
  <1>2. o \in Tracked /\ h \in Histories /\ o.created = 0 /\ \A s \in Statuses : h.entered[s] = {}
    BY DEF Tracked, Histories, Statuses
  <1> HIDE DEF o, h
  <1>3. TimelineTyped
    BY <1>1, <1>2, NoCallIs DEF TimelineTyped
  <1>4. Logged /\ Dated
    BY <1>1, <1>2 DEF Logged, Dated
  <1>5. \A c \in Clerks : CallDated(c) /\ Following(c)
    BY <1>1, NoCallIs DEF CallDated, Following
  <1>6. \A n \in Numbers : Rising(n)
    BY <1>1, <1>2 DEF Rising
  <1> QED
    BY <1>3, <1>4, <1>5, <1>6 DEF TimelineInv

(* Every step keeps the invariant.                                         *)
LEMMA TimelineStep == TimelineInv /\ [TimelineNext]_timelineVars => TimelineInv'
  <1> SUFFICES ASSUME TimelineInv, [TimelineNext]_timelineVars PROVE TimelineInv'
    OBVIOUS
  <1>1. CASE UNCHANGED timelineVars
    BY <1>1 DEF timelineVars, TimelineInv, TimelineTyped, Logged, Dated, CallDated, Following, Rising, Exists
  <1>2. ASSUME NEW c \in Clerks, NEW n \in Numbers, PatchOrder(c, n) PROVE TimelineInv'
    <2>1. order[n].st \in Statuses
      BY DEF TimelineInv, TimelineTyped, Tracked
    <2> QED
      BY <1>2, <2>1, BeginCallKept DEF PatchOrder
  <1>3. ASSUME NEW c \in Clerks, NEW n \in Numbers, NEW s \in Statuses,
               UpdateStatus(c, n, s) \/ Callback(c, n, s) \/ CarrierEvent(c, n, s)
        PROVE  TimelineInv'
    <2>1. BeginCall(c, n, "status", s) \/ BeginCall(c, n, "payment", s) \/ BeginCall(c, n, "carrier", s)
      BY <1>3 DEF UpdateStatus, Callback, CarrierEvent
    <2> QED
      BY <2>1, BeginCallKept
  <1>4. CASE TimelineNext
    BY <1>2, <1>3, <1>4, CreateOrderKept, ReturnKept, CommitCallKept, ClearAuditKept, WaitKept DEF TimelineNext
  <1> QED
    BY <1>1, <1>4

(* The latest of some times is one of them.                                *)
LEMMA LatestIs ==
    ASSUME NEW b \in Nat, NEW S \in SUBSET (0..b), S # {}
    PROVE  Latest(S) \in S /\ \A u \in S : u <= Latest(S)
  <1>1. IsFiniteSet(0..b)
    BY FS_Interval
  <1>2. IsFiniteSet(S)
    BY <1>1, FS_Subset
  <1>3. S \subseteq Nat
    OBVIOUS
  <1>4. \E t \in S : \A u \in S : u <= t
    BY <1>2, <1>3, Greatest
  <1> QED
    BY <1>4 DEF Latest

(* The status a customer's order is at is a step.                          *)
LEMMA StepNumberIs ==
    ASSUME NEW s \in {"pending", "processing", "shipped", "delivered"}
    PROVE  StepNumber(s) \in 1..5
  <1>1. Steps[1] = "pending" /\ Steps[3] = "processing" /\ Steps[4] = "shipped" /\ Steps[5] = "delivered"
    BY DEF Steps
  <1>2. \E i \in 1..5 : Steps[i] = s
    BY <1>1
  <1> QED
    BY <1>2 DEF StepNumber

(* When no number begins another, a time that is found is of a move of     *)
(* this order.                                                             *)
LEMMA TransitionIs ==
    ASSUME TimelineInv, \A n, m \in Numbers : Begins(n, m) => n = m,
           NEW n \in Numbers, NEW s \in Statuses, Transition(n, s) # 0
    PROVE  Transition(n, s) \in past[n].entered[s] /\ order[n].created <= Transition(n, s)
  <1> DEFINE S == {r.at : r \in {q \in log : q.to = s /\ Begins(n, q.n)}}
  <1>1. log \subseteq LogRows /\ clock \in Nat /\ past[n].entered[s] \subseteq Nat
    BY DEF TimelineInv, TimelineTyped, Histories
  <1>2. S \subseteq past[n].entered[s]
    <2> SUFFICES ASSUME NEW q \in log, q.to = s, Begins(n, q.n) PROVE q.at \in past[n].entered[s]
      OBVIOUS
    <2>1. q.n = n
      BY <1>1 DEF LogRows
    <2> QED
      BY <2>1 DEF TimelineInv, Logged
  <1>3. \A t \in past[n].entered[s] : t <= clock /\ order[n].created <= t
    BY DEF TimelineInv, Dated
  <1>4. Transition(n, s) = Latest(S)
    BY DEF Transition
  <1> HIDE DEF S
  <1>5. S # {}
    BY <1>4 DEF Latest
  <1>6. S \in SUBSET (0..clock)
    BY <1>1, <1>2, <1>3
  <1>7. Latest(S) \in S
    BY <1>1, <1>5, <1>6, LatestIs
  <1> QED
    BY <1>2, <1>3, <1>4, <1>7

(* The times of the steps.                                                 *)
LEMMA StepTimes ==
    ASSUME NEW n
    PROVE  /\ StepTime(n, Steps[1]) = order[n].created
           /\ Transition(n, "processing") # 0 => StepTime(n, Steps[2]) = Transition(n, "processing")
           /\ Steps[3] = "processing" /\ Steps[4] = "shipped" /\ Steps[5] = "delivered"
           /\ \A s \in Fulfil : StepTime(n, s) = Transition(n, s)
  <1>1. /\ Steps[1] = "pending" /\ Steps[2] = "paid" /\ Steps[3] = "processing" /\ Steps[4] = "shipped"
        /\ Steps[5] = "delivered"
    BY DEF Steps
  <1>2. \A s \in Fulfil : s # "pending" /\ s # "paid"
    BY DEF Fulfil
  <1> QED
    BY <1>1, <1>2 DEF StepTime

(* The steps of an order that only went forward are in order.              *)
LEMMA StepsInOrder ==
    ASSUME TimelineInv, \A n, m \in Numbers : Begins(n, m) => n = m, NEW n \in Shown, past[n].smooth,
           NEW i \in Reached(n), NEW j \in Reached(n), i < j,
           Transition(n, "processing") # 0 \/ 2 \notin {i, j}
    PROVE  StepTime(n, Steps[i]) <= StepTime(n, Steps[j])
  <1> DEFINE P == Transition(n, "processing")
             X == Transition(n, "shipped")
             D == Transition(n, "delivered")
             e == past[n].entered
  <1>1. n \in Numbers /\ order[n].st \in Statuses /\ order[n].st # "cancelled"
    BY DEF Shown, TimelineInv, TimelineTyped, Tracked
  <1>2. i \in 1..5 /\ j \in 1..5 /\ StepTime(n, Steps[i]) # 0 /\ StepTime(n, Steps[j]) # 0
    <2>1. order[n].st \in {"pending", "processing", "shipped", "delivered"}
      BY <1>1 DEF Statuses
    <2>2. Active(n) \in 1..5
      BY <2>1, StepNumberIs DEF Active
    <2> QED
      BY <2>2 DEF Reached
  <1>3. /\ StepTime(n, Steps[1]) = order[n].created /\ (P # 0 => StepTime(n, Steps[2]) = P)
        /\ StepTime(n, Steps[3]) = P /\ StepTime(n, Steps[4]) = X /\ StepTime(n, Steps[5]) = D
    BY StepTimes DEF Fulfil
  <1>4. /\ "processing" \in Statuses /\ "shipped" \in Statuses /\ "delivered" \in Statuses
        /\ Rank["processing"] = 1 /\ Rank["shipped"] = 2 /\ Rank["delivered"] = 3
    BY DEF Statuses, Rank
  <1>5. /\ P # 0 => P \in e["processing"] /\ order[n].created <= P
        /\ X # 0 => X \in e["shipped"] /\ order[n].created <= X
        /\ D # 0 => D \in e["delivered"] /\ order[n].created <= D
    BY <1>1, <1>4, TransitionIs
  <1>6. \A s \in Statuses : \A t \in e[s] : t \in Nat
    BY <1>1 DEF TimelineInv, TimelineTyped, Histories
  <1>7. \A s, r \in Statuses : \A t \in e[s] : \A u \in e[r] : Rank[s] < Rank[r] => t <= u
    BY <1>1 DEF TimelineInv, Rising
  <1> HIDE DEF P, X, D, e
  <1>8. /\ P # 0 => P \in Nat /\ order[n].created <= P
        /\ X # 0 => X \in Nat /\ order[n].created <= X
        /\ D # 0 => D \in Nat /\ order[n].created <= D
    BY <1>4, <1>5, <1>6
  <1>9. /\ P # 0 /\ X # 0 => P <= X
        /\ P # 0 /\ D # 0 => P <= D
        /\ X # 0 /\ D # 0 => X <= D
    BY <1>4, <1>5, <1>7
  <1>10. (i = 2 \/ j = 2) => P # 0
    BY DEF P
  <1>11. CASE i = 1
    BY <1>2, <1>3, <1>8, <1>10, <1>11
  <1>12. CASE i = 2
    BY <1>2, <1>3, <1>8, <1>9, <1>10, <1>12
  <1>13. CASE i \in 3..5
    BY <1>2, <1>3, <1>8, <1>9, <1>13
  <1> QED
    BY <1>2, <1>11, <1>12, <1>13

(* A delivery is the last thing that happened, or something was since.     *)
LEMMA DeliveredIs ==
    ASSUME TimelineInv, NEW n \in Numbers, past[n].smooth
    PROVE  Latest(past[n].entered["delivered"]) <= order[n].updated /\ Latest(past[n].entered["delivered"]) \in Nat
  <1> DEFINE S == past[n].entered["delivered"]
  <1>1. S \subseteq Nat /\ clock \in Nat /\ order[n].updated \in Nat
    BY DEF TimelineInv, TimelineTyped, Histories, Tracked, Statuses
  <1>2. \A t \in S : t <= clock /\ t <= order[n].updated
    BY DEF TimelineInv, Dated, Rising, Statuses
  <1> HIDE DEF S
  <1>3. CASE S = {}
    BY <1>1, <1>3 DEF Latest, S
  <1>4. CASE S # {}
    <2>1. S \in SUBSET (0..clock)
      BY <1>1, <1>2
    <2>2. Latest(S) \in S
      BY <1>1, <1>4, <2>1, LatestIs
    <2> QED
      BY <1>1, <1>2, <2>2 DEF S
  <1> QED
    BY <1>3, <1>4

(* What the invariant says of what is shown.                               *)
LEMMA ShownTrue ==
    ASSUME TimelineInv, \A n, m \in Numbers : Begins(n, m) => n = m
    PROVE  TimelineTrue
  <1>1. OwnTimes
    <2> SUFFICES ASSUME NEW n \in Shown, NEW s \in Fulfil, StepTime(n, s) # 0
                 PROVE  StepTime(n, s) \in past[n].entered[s]
      BY DEF OwnTimes
    <2>1. n \in Numbers /\ s \in Statuses
      BY DEF Shown, Fulfil, Statuses
    <2>2. StepTime(n, s) = Transition(n, s)
      BY StepTimes
    <2> QED
      BY <2>1, <2>2, TransitionIs
  <1>2. InOrder
    BY StepsInOrder DEF InOrder
  <1>3. OfferStands
    <2> SUFFICES ASSUME NEW n \in Shown, past[n].smooth, order[n].st = "delivered", ~ order[n].return,
                        clock - Latest(past[n].entered["delivered"]) <= ReturnDays
                 PROVE  CanRequestReturn(n)
      BY DEF OfferStands
    <2>1. n \in Numbers
      BY DEF Shown
    <2>2. clock \in Nat /\ order[n].updated \in Nat
      BY <2>1 DEF TimelineInv, TimelineTyped, Tracked
    <2>3. Latest(past[n].entered["delivered"]) <= order[n].updated /\ Latest(past[n].entered["delivered"]) \in Nat
      BY <2>1, DeliveredIs
    <2>4. clock - order[n].updated <= ReturnDays
      <3> DEFINE t == Latest(past[n].entered["delivered"])
                 u == order[n].updated
      <3>1. clock - t <= ReturnDays /\ t <= u /\ t \in Nat /\ u \in Nat /\ ReturnDays \in Nat
        BY <2>2, <2>3, TimelineAssumption
      <3> HIDE DEF t, u
      <3>2. clock - u <= ReturnDays
        BY <2>2, <3>1
      <3> QED
        BY <3>2 DEF u
    <2> QED
      BY <2>4 DEF CanRequestReturn
  <1> QED
    BY <1>1, <1>2, <1>3 DEF TimelineTrue

(* The times a customer sees are of moves of this order, in order, and a   *)
(* return is offered for the whole period, while orders only go forward    *)
(* and calls do not overlap - whenever no number of an order begins with   *)
(* another (tracking.py:125-147, 157-229, 321-326).                        *)
THEOREM TimelineHolds ==
    ASSUME \A n, m \in Numbers : Begins(n, m) => n = m
    PROVE  TimelineSpec => []TimelineTrue
  <1>1. TimelineInv => TimelineTrue
    BY ShownTrue
  <1> QED
    BY <1>1, TimelineInitInv, TimelineStep, PTL DEF TimelineSpec

(* So it is for the first 9999 orders of a year, whose numbers are padded  *)
(* to the same width (orders.py:71).                                       *)
COROLLARY PaddedNumbers ==
    ASSUME Numbers \subseteq 1..9999
    PROVE  TimelineSpec => []TimelineTrue
  <1>1. ASSUME NEW n \in Numbers, NEW m \in Numbers, Begins(n, m) PROVE n = m
    <2>1. n \in 1..9999 /\ m \in 1..9999
      OBVIOUS
    <2>2. Width(n) = 4 /\ Width(m) = 4
      BY <2>1 DEF Width
    <2>3. m \div 10 ^ 0 = n
      BY <1>1, <2>2 DEF Begins
    <2>4. 10 ^ 0 = 1 /\ m \div 1 = m
      BY <2>1
    <2> QED
      BY <2>3, <2>4
  <1> QED
    BY <1>1, TimelineHolds

-----------------------------------------------------------------------------
(* Erasures.                                                               *)

Stages   == {"orders", "invoices", "returns", "reviews", "chat", "misc", "erase"}
OnOne    == {"cancel", "confirm", "lookup"} \cup Stages
Kinds    == {"order", "invoice", "return", "review", "subscription", "chat"}
Answers  == {"pending", "confirmed", "cancelled", "completed"}
DataRows == [kind : Kinds, e : Emails, cust : Nat, st : {"personal", "masked", "gone"}, open : BOOLEAN,
             turn : Nat, epoch : Nat, spared : BOOLEAN]
Requests == [cust : Nat, e : Emails, st : Answers, link : BOOLEAN, turn : Nat, erased : BOOLEAN,
             raced : BOOLEAN, took : SUBSET Nat]
Jobs     == [pc : {"idle", "order", "invoice", "return", "ask"} \cup OnOne, e : Emails \cup {NoEmail}, a : Nat,
             r : Nat, d : Nat, was : Answers \cup {"none"}, byDesk : BOOLEAN, targets : SUBSET Nat, turn : Nat,
             epoch : Nat, spared : BOOLEAN]

(* What an erasure has been through before each of its stages.             *)
Covered == [orders   |-> {}, invoices |-> {"order"}, returns |-> {"order", "invoice"},
            reviews  |-> {"order", "invoice", "return"}, chat |-> {"order", "invoice", "return", "review"},
            misc     |-> {"order", "invoice", "return", "review", "chat"}, erase |-> Kinds]

JobTyped(w) ==
    LET j == job[w] IN
    /\ j \in Jobs
    /\ j.pc # "idle" => j.e \in Emails
    /\ j.pc \in OnOne => j.r \in DOMAIN request /\ request[j.r].e = j.e
    /\ j.pc \notin OnOne => j.r = 0
    /\ j.pc \in Stages => j.a # 0 /\ j.targets \subseteq DOMAIN row
    /\ j.pc \notin Stages => j.targets = {}
PrivacyTyped ==
    /\ account \in [Emails -> Nat] /\ row \in Seq(DataRows) /\ request \in Seq(Requests) /\ desk \in Nat
    /\ job \in [Workers -> Jobs] /\ \A w \in Workers : JobTyped(w)
    /\ seen \in [keys : Nat, asked : Nat, runs : [Emails -> Nat]]

(* Who has had a key: keys are given once.                                 *)
Owned == {<<account[e], e>> : e \in Emails} \cup {<<row[d].cust, row[d].e>> : d \in DOMAIN row}
         \cup {<<job[w].a, job[w].e>> : w \in {v \in Workers : job[v].pc # "idle"}}
KeysOnce ==
    /\ \A p \in Owned : p[1] <= seen.keys
    /\ \A p, q \in Owned : p[1] = q[1] /\ p[1] # 0 => p[2] = q[2]

(* Rows the properties are about.                                          *)
Lives(d) == row[d].st = "personal" /\ ~ row[d].spared
LifeTrue(d) ==
    Lives(d) => /\ row[d].epoch >= seen.runs[row[d].e]
                /\ row[d].kind = "chat" => row[d].cust = account[row[d].e] /\ row[d].cust # 0

(* A call that an erasure met is marked, and so are the rows it writes: an *)
(* erasure takes all that is not.                                          *)
CallTrue(w) == job[w].pc # "idle" /\ ~ job[w].spared => job[w].epoch >= seen.runs[job[w].e]
ErasureTrue(w) ==
    LET j == job[w] IN
    j.pc \in Stages =>
        /\ \A v \in Workers \ {w} : job[v].pc # "idle" /\ job[v].e = j.e => job[v].spared
        /\ \A d \in DOMAIN row :
              Lives(d) /\ row[d].e = j.e => /\ row[d].kind = "chat" => account[j.e] = j.a
                                            /\ row[d].kind \in Covered[j.pc] => d \in j.targets
        /\ \A d \in j.targets : row[d].kind = "order" /\ row[d].open => row[d].turn >= request[j.r].turn

(* An order that is open was opened after the request of its customer.     *)
LaterThan(rows, asked, t, e) ==
    /\ t <= asked
    /\ \A d \in DOMAIN rows :
          rows[d].kind = "order" /\ rows[d].st = "personal" /\ rows[d].open /\ rows[d].e = e => rows[d].turn >= t
AskTrue(w) == job[w].pc = "ask" => LaterThan(row, seen.asked, job[w].turn, job[w].e)
RequestTrue(r) ==
    LET q == request[r] IN
    /\ LaterThan(row, seen.asked, q.turn, q.e) /\ q.took = {}
    /\ q.erased /\ ~ q.raced => q.st = "completed" /\ \A w \in Workers : job[w].r # r
    /\ ~ q.raced => \A v, w \in Workers : job[v].r = r /\ job[w].r = r => v = w

PrivacyInv ==
    /\ PrivacyTyped /\ KeysOnce
    /\ \A d \in DOMAIN row : LifeTrue(d)
    /\ \A w \in Workers : CallTrue(w) /\ ErasureTrue(w) /\ AskTrue(w)
    /\ \A r \in DOMAIN request : RequestTrue(r)

-----------------------------------------------------------------------------
(* What a step may do to the tables: rows and requests stay in their       *)
(* place, a row never gets personal again nor loses a mark, and what is    *)
(* opened is opened now.                                                   *)
Grown ==
    /\ DOMAIN row \subseteq DOMAIN row' /\ DOMAIN request \subseteq DOMAIN request'
    /\ \A r \in DOMAIN request : request'[r].e = request[r].e /\ request'[r].turn = request[r].turn
RowsAge ==
    /\ \A d \in DOMAIN row :
          /\ row'[d].kind = row[d].kind /\ row'[d].e = row[d].e
          /\ row'[d].st = "personal" => row[d].st = "personal"
          /\ row[d].spared => row'[d].spared
          /\ row'[d].open => row'[d].turn = seen.asked \/ (row[d].open /\ row'[d].turn = row[d].turn)
    /\ \A d \in DOMAIN row' \ DOMAIN row : row'[d].turn = seen.asked

(* A call that is over, and one that begins.                               *)
LEMMA IdleIs ==
    /\ Idle \in Jobs /\ Idle.pc = "idle" /\ Idle.r = 0 /\ Idle.targets = {}
  BY DEF Idle, Jobs, OnOne, Stages

LEMMA StartIs ==
    ASSUME PrivacyInv, NEW w, NEW e \in Emails,
           NEW pc \in {"order", "invoice", "return", "ask", "cancel", "confirm"}
    PROVE  LET n == Start(w, pc, e) IN
           /\ n \in Jobs /\ n.pc = pc /\ n.e = e /\ n.a = account[e] /\ n.r = 0 /\ n.targets = {}
           /\ n.epoch = seen.runs[e] /\ n.spared = Erasing(e)
  <1> DEFINE a == account[e]
             x == seen.runs[e]
             b == Erasing(e)
             n == [Idle EXCEPT !.pc = pc, !.e = e, !.a = a, !.epoch = x, !.spared = b]
  <1>1. a \in Nat /\ x \in Nat
    BY DEF PrivacyInv, PrivacyTyped
  <1>2. b \in BOOLEAN
    BY DEF Erasing
  <1> HIDE DEF a, x, b
  <1>3. /\ n \in Jobs /\ n.pc = pc /\ n.e = e /\ n.a = a /\ n.r = 0 /\ n.targets = {} /\ n.epoch = x /\ n.spared = b
    BY <1>1, <1>2 DEF Idle, Jobs, OnOne, Stages
  <1>4. Start(w, pc, e) = n
    BY DEF Start, a, x, b
  <1> QED
    BY <1>3, <1>4 DEF a, x, b

(* Rows, requests and calls are of their types.                            *)
LEMMA RowIs ==
    ASSUME PrivacyInv, NEW d \in DOMAIN row
    PROVE  row[d] \in DataRows /\ row[d].e \in Emails /\ row[d].kind \in Kinds /\ row[d].turn \in Nat
           /\ row[d].epoch \in Nat /\ d \in Nat
  <1>1. row[d] \in DataRows /\ d \in Nat
    BY DEF PrivacyInv, PrivacyTyped
  <1> DEFINE q == row[d]
  <1>2. q.e \in Emails /\ q.kind \in Kinds /\ q.turn \in Nat /\ q.epoch \in Nat
    <2>1. q \in DataRows
      BY <1>1
    <2> HIDE DEF q
    <2> QED
      BY <2>1 DEF DataRows
  <1> QED
    BY <1>1, <1>2

LEMMA RequestIs ==
    ASSUME PrivacyInv, NEW r \in DOMAIN request
    PROVE  request[r] \in Requests /\ request[r].turn \in Nat
  <1>1. request[r] \in Requests
    BY DEF PrivacyInv, PrivacyTyped
  <1> DEFINE q == request[r]
  <1>2. q.turn \in Nat
    <2>1. q \in Requests
      BY <1>1
    <2> HIDE DEF q
    <2> QED
      BY <2>1 DEF Requests
  <1> QED
    BY <1>1, <1>2

LEMMA JobIs ==
    ASSUME PrivacyInv, NEW w \in Workers
    PROVE  /\ job[w] \in Jobs /\ JobTyped(w) /\ CallTrue(w) /\ ErasureTrue(w) /\ AskTrue(w)
           /\ job[w].turn \in Nat /\ job[w].epoch \in Nat
  <1>1. job[w] \in Jobs /\ JobTyped(w) /\ CallTrue(w) /\ ErasureTrue(w) /\ AskTrue(w)
    BY DEF PrivacyInv, PrivacyTyped
  <1> DEFINE j == job[w]
  <1>2. j.turn \in Nat /\ j.epoch \in Nat
    <2>1. j \in Jobs
      BY <1>1
    <2> HIDE DEF j
    <2> QED
      BY <2>1 DEF Jobs
  <1> QED
    BY <1>1, <1>2

(* An erasure under way is seen.                                           *)
LEMMA ErasingIs ==
    ASSUME NEW w \in Workers, job[w].pc \in Stages
    PROVE  Erasing(job[w].e)
  BY DEF Erasing, Stages

(* Who has had a key, again.                                               *)
LEMMA KeysKept ==
    ASSUME PrivacyInv, seen'.keys = seen.keys,
           \A e \in Emails : account'[e] = 0 \/ <<account'[e], e>> \in Owned,
           \A d \in DOMAIN row' : row'[d].cust = 0 \/ <<row'[d].cust, row'[d].e>> \in Owned,
           \A w \in Workers : job'[w].pc # "idle" => job'[w].a = 0 \/ <<job'[w].a, job'[w].e>> \in Owned
    PROVE  KeysOnce'
  <1>1. KeysOnce /\ seen.keys \in Nat
    BY DEF PrivacyInv, PrivacyTyped
  <1>2. \A p \in Owned' : p[1] = 0 \/ p \in Owned
    BY DEF Owned
  <1> DEFINE O == Owned
             P == Owned'
  <1>3. \A p \in O : p[1] <= seen.keys
    BY <1>1 DEF KeysOnce
  <1>4. \A p, q \in O : p[1] = q[1] /\ p[1] # 0 => p[2] = q[2]
    BY <1>1 DEF KeysOnce
  <1> HIDE DEF O, P
  <1>5. \A p \in P : p[1] = 0 \/ p \in O
    BY <1>2 DEF O, P
  <1>6. \A p \in P : p[1] <= seen'.keys
    BY <1>1, <1>3, <1>5
  <1>7. \A p, q \in P : p[1] = q[1] /\ p[1] # 0 => p[2] = q[2]
    BY <1>4, <1>5
  <1> QED
    BY <1>6, <1>7 DEF KeysOnce, P

(* Orders opened after a request stay so.                                  *)
LEMMA LaterKept ==
    ASSUME PrivacyInv, RowsAge, seen'.asked \in Nat, seen'.asked >= seen.asked,
           NEW t \in Nat, NEW e, LaterThan(row, seen.asked, t, e)
    PROVE  LaterThan(row', seen'.asked, t, e)
  <1>1. /\ t <= seen.asked /\ seen.asked \in Nat
        /\ \A d \in DOMAIN row :
              row[d].kind = "order" /\ row[d].st = "personal" /\ row[d].open /\ row[d].e = e => row[d].turn >= t
    BY DEF LaterThan, PrivacyInv, PrivacyTyped
  <1>2. t <= seen'.asked
    BY <1>1
  <1>3. seen.asked >= t
    BY <1>1
  <1>4. ASSUME NEW d \in DOMAIN row', row'[d].kind = "order", row'[d].st = "personal", row'[d].open, row'[d].e = e
        PROVE  row'[d].turn >= t
    <2>1. CASE d \in DOMAIN row
      BY <1>1, <1>3, <1>4, <2>1 DEF RowsAge
    <2>2. CASE d \notin DOMAIN row
      BY <1>3, <2>2 DEF RowsAge
    <2> QED
      BY <2>1, <2>2
  <1> QED
    BY <1>2, <1>4 DEF LaterThan

(* A call that goes on is what it was.                                     *)
LEMMA JobTypedKept ==
    ASSUME Grown, NEW w \in Workers, JobTyped(w), job'[w] \in Jobs,
           job'[w].pc = job[w].pc, job'[w].e = job[w].e, job'[w].a = job[w].a, job'[w].r = job[w].r,
           job'[w].targets = job[w].targets
    PROVE  JobTyped(w)'
  BY DEF JobTyped, Grown

(* An erasure that goes on still has what it needs.                        *)
LEMMA ErasureKept ==
    ASSUME PrivacyInv, Grown, RowsAge, NEW w \in Workers, job[w].pc \in Stages,
           job'[w].pc = job[w].pc, job'[w].e = job[w].e, job'[w].a = job[w].a, job'[w].r = job[w].r,
           job'[w].targets = job[w].targets,
           \A v \in Workers \ {w} : job'[v].pc # "idle" /\ job'[v].e = job[w].e => job'[v].spared,
           \A d \in DOMAIN row' :
              row'[d].st = "personal" /\ ~ row'[d].spared /\ row'[d].e = job[w].e =>
                  /\ d \in DOMAIN row
                  /\ row'[d].kind = "chat" => account'[job[w].e] = account[job[w].e]
    PROVE  ErasureTrue(w)'
  <1> DEFINE j == job[w]
  <1>1. JobTyped(w) /\ ErasureTrue(w)
    BY DEF PrivacyInv, PrivacyTyped
  <1>2. j.r \in DOMAIN request /\ request'[j.r].turn = request[j.r].turn /\ j.targets \subseteq DOMAIN row
    BY <1>1 DEF JobTyped, Grown, OnOne
  <1>3. request[j.r].turn \in Nat /\ seen.asked \in Nat /\ request[j.r].turn <= seen.asked
    BY <1>2, RequestIs DEF PrivacyInv, PrivacyTyped, RequestTrue, LaterThan
  <1>4. /\ \A d \in DOMAIN row :
              row[d].st = "personal" /\ ~ row[d].spared /\ row[d].e = j.e =>
                  /\ row[d].kind = "chat" => account[j.e] = j.a
                  /\ row[d].kind \in Covered[j.pc] => d \in j.targets
        /\ \A d \in j.targets : row[d].kind = "order" /\ row[d].open => row[d].turn >= request[j.r].turn
    BY <1>1 DEF ErasureTrue, Lives
  <1> HIDE DEF j
  <1>5. ASSUME NEW d \in DOMAIN row', row'[d].st = "personal", ~ row'[d].spared, row'[d].e = j.e
        PROVE  /\ row'[d].kind = "chat" => account'[j.e] = j.a
               /\ row'[d].kind \in Covered[j.pc] => d \in j.targets
    <2>1. d \in DOMAIN row /\ (row'[d].kind = "chat" => account'[j.e] = account[j.e])
      BY <1>5 DEF j
    <2>2. row[d].st = "personal" /\ ~ row[d].spared /\ row[d].e = j.e /\ row'[d].kind = row[d].kind
      BY <1>5, <2>1 DEF RowsAge
    <2> QED
      BY <1>4, <2>1, <2>2
  <1>6. ASSUME NEW d \in j.targets, row'[d].kind = "order", row'[d].open
        PROVE  row'[d].turn >= request'[j.r].turn
    <2>1. d \in DOMAIN row
      BY <1>2
    <2>2. row'[d].turn = seen.asked \/ (row[d].open /\ row'[d].turn = row[d].turn /\ row[d].kind = "order")
      BY <1>6, <2>1 DEF RowsAge
    <2> QED
      BY <1>2, <1>3, <1>4, <2>2
  <1> QED
    BY <1>5, <1>6 DEF ErasureTrue, Lives, j

(* A request that a step leaves alone.                                     *)
LEMMA RequestKept ==
    ASSUME PrivacyInv, Grown, RowsAge, seen'.asked \in Nat, seen'.asked >= seen.asked, NEW r \in DOMAIN request,
           request'[r].took = {}, request[r].raced => request'[r].raced,
           \A w \in Workers : job'[w].r = r => job[w].r = r,
           request'[r].erased /\ ~ request'[r].raced =>
               request[r].erased /\ request'[r].st = request[r].st
    PROVE  RequestTrue(r)'
  <1> DEFINE q == request[r]
  <1>1. RequestTrue(r)
    BY DEF PrivacyInv
  <1>2. q.turn \in Nat
    BY RequestIs
  <1>3. LaterThan(row, seen.asked, q.turn, q.e)
    BY <1>1 DEF RequestTrue
  <1>4. LaterThan(row', seen'.asked, q.turn, q.e)
    <2> HIDE DEF q
    <2> QED
      BY <1>2, <1>3, LaterKept
  <1>5. LaterThan(row', seen'.asked, request'[r].turn, request'[r].e)
    BY <1>4 DEF Grown
  <1>6. request'[r].erased /\ ~ request'[r].raced =>
           request'[r].st = "completed" /\ \A w \in Workers : job'[w].r # r
    BY <1>1 DEF RequestTrue
  <1>7. ~ request'[r].raced => \A v, w \in Workers : job'[v].r = r /\ job'[w].r = r => v = w
    BY <1>1 DEF RequestTrue
  <1> QED
    BY <1>5, <1>6, <1>7 DEF RequestTrue

(* Steps of one call that leave rows and accounts alone.                   *)
LEMMA CallsKept ==
    ASSUME PrivacyInv, Grown, row' = row, account' = account, desk' = desk,
           seen' \in [keys : Nat, asked : Nat, runs : [Emails -> Nat]],
           seen'.keys = seen.keys, seen'.runs = seen.runs, seen'.asked >= seen.asked,
           request' \in Seq(Requests), \A r \in DOMAIN request' : RequestTrue(r)',
           NEW w \in Workers, job' \in [Workers -> Jobs],
           \A v \in Workers \ {w} :
              /\ job'[v].pc = job[v].pc /\ job'[v].e = job[v].e /\ job'[v].a = job[v].a /\ job'[v].r = job[v].r
              /\ job'[v].targets = job[v].targets /\ job'[v].turn = job[v].turn /\ job'[v].epoch = job[v].epoch
              /\ job[v].spared => job'[v].spared
              /\ job[v].pc \in Stages /\ job'[w].pc # "idle" /\ job'[w].e = job[v].e => job'[w].spared,
           JobTyped(w)', CallTrue(w)', ErasureTrue(w)', AskTrue(w)',
           job'[w].pc # "idle" => job'[w].a = 0 \/ <<job'[w].a, job'[w].e>> \in Owned
    PROVE  PrivacyInv'
  <1>1. RowsAge
    BY DEF RowsAge
  <1>2. ASSUME NEW v \in Workers PROVE JobTyped(v)'
    <2>1. CASE v = w
      BY <2>1
    <2>2. CASE v # w
      <3>1. JobTyped(v) /\ job'[v] \in Jobs
        BY DEF PrivacyInv, PrivacyTyped
      <3> QED
        BY <2>2, <3>1, JobTypedKept
    <2> QED
      BY <2>1, <2>2
  <1>3. PrivacyTyped'
    BY <1>2 DEF PrivacyInv, PrivacyTyped
  <1>4. KeysOnce'
    <2>1. \A e \in Emails : <<account[e], e>> \in Owned
      BY DEF Owned
    <2>2. \A d \in DOMAIN row : <<row[d].cust, row[d].e>> \in Owned
      BY DEF Owned
    <2>3. \A v \in Workers : job[v].pc # "idle" => <<job[v].a, job[v].e>> \in Owned
      BY DEF Owned
    <2> QED
      BY <2>1, <2>2, <2>3, KeysKept
  <1>5. \A d \in DOMAIN row' : LifeTrue(d)'
    BY DEF PrivacyInv, LifeTrue, Lives
  <1>6. ASSUME NEW v \in Workers PROVE CallTrue(v)' /\ ErasureTrue(v)' /\ AskTrue(v)'
    <2>1. CASE v = w
      BY <2>1
    <2>2. CASE v # w
      <3>1. CallTrue(v)'
        BY <2>2 DEF PrivacyInv, CallTrue
      <3>2. ErasureTrue(v)'
        <4>1. CASE job[v].pc \in Stages
          <5>1. \A u \in Workers \ {v} : job'[u].pc # "idle" /\ job'[u].e = job[v].e => job'[u].spared
            BY <2>2, <4>1 DEF PrivacyInv, ErasureTrue
          <5>2. \A d \in DOMAIN row' :
                   row'[d].st = "personal" /\ ~ row'[d].spared /\ row'[d].e = job[v].e =>
                       /\ d \in DOMAIN row
                       /\ row'[d].kind = "chat" => account'[job[v].e] = account[job[v].e]
            OBVIOUS
          <5>3. /\ job'[v].pc = job[v].pc /\ job'[v].e = job[v].e /\ job'[v].a = job[v].a /\ job'[v].r = job[v].r
                /\ job'[v].targets = job[v].targets
            BY <2>2
          <5> QED
            BY <1>1, <4>1, <5>1, <5>2, <5>3, ErasureKept
        <4>2. CASE job[v].pc \notin Stages
          <5>1. job'[v].pc \notin Stages
            BY <2>2, <4>2
          <5> QED
            BY <5>1 DEF ErasureTrue
        <4> QED
          BY <4>1, <4>2
      <3>3. AskTrue(v)'
        <4> SUFFICES ASSUME job[v].pc = "ask"
                     PROVE  LaterThan(row', seen'.asked, job'[v].turn, job'[v].e)
          BY <2>2 DEF AskTrue
        <4> DEFINE j == job[v]
        <4>1. j.turn \in Nat /\ LaterThan(row, seen.asked, j.turn, j.e) /\ seen'.asked \in Nat
          BY JobIs DEF AskTrue
        <4>2. job'[v].turn = j.turn /\ job'[v].e = j.e
          BY <2>2
        <4> HIDE DEF j
        <4>3. LaterThan(row', seen'.asked, j.turn, j.e)
          BY <1>1, <4>1, LaterKept
        <4> QED
          BY <4>2, <4>3
      <3> QED
        BY <3>1, <3>2, <3>3
    <2> QED
      BY <2>1, <2>2
  <1> QED
    BY <1>3, <1>4, <1>5, <1>6 DEF PrivacyInv

(* Steps that change rows or accounts, and end a call at most.             *)
LEMMA TablesKept ==
    ASSUME PrivacyInv, Grown, RowsAge, row' \in Seq(DataRows), request' \in Seq(Requests),
           account' \in [Emails -> Nat], desk' \in Nat,
           seen' \in [keys : Nat, asked : Nat, runs : [Emails -> Nat]], seen'.asked = seen.asked,
           KeysOnce', job' \in [Workers -> Jobs],
           \A v \in Workers : job'[v] = job[v] \/ job'[v] = Idle,
           \A v \in Workers : job'[v].pc # "idle" => job'[v].spared \/ seen'.runs[job'[v].e] = seen.runs[job'[v].e],
           \A d \in DOMAIN row' : LifeTrue(d)',
           \A v \in Workers : job'[v].pc \in Stages =>
              \A d \in DOMAIN row' :
                 row'[d].st = "personal" /\ ~ row'[d].spared /\ row'[d].e = job'[v].e =>
                     /\ d \in DOMAIN row
                     /\ row'[d].kind = "chat" => account'[job'[v].e] = account[job'[v].e],
           \A r \in DOMAIN request' : RequestTrue(r)'
    PROVE  PrivacyInv'
  <1>1. ASSUME NEW v \in Workers PROVE JobTyped(v)' /\ CallTrue(v)' /\ ErasureTrue(v)' /\ AskTrue(v)'
    <2>1. CASE job'[v] = Idle
      BY <2>1, IdleIs DEF JobTyped, CallTrue, ErasureTrue, AskTrue, OnOne, Stages
    <2>2. CASE job'[v] = job[v] /\ job[v] # Idle
      <3>1. JobTyped(v)'
        BY <2>2, JobIs, JobTypedKept
      <3>2. CallTrue(v)'
        BY <2>2, JobIs DEF CallTrue
      <3>3. ErasureTrue(v)'
        <4>1. CASE job[v].pc \in Stages
          <5>1. \A u \in Workers \ {v} : job'[u].pc # "idle" /\ job'[u].e = job[v].e => job'[u].spared
            BY <4>1, JobIs, IdleIs DEF ErasureTrue
          <5>2. \A d \in DOMAIN row' :
                   row'[d].st = "personal" /\ ~ row'[d].spared /\ row'[d].e = job[v].e =>
                       /\ d \in DOMAIN row
                       /\ row'[d].kind = "chat" => account'[job[v].e] = account[job[v].e]
            BY <2>2, <4>1
          <5>3. /\ job'[v].pc = job[v].pc /\ job'[v].e = job[v].e /\ job'[v].a = job[v].a /\ job'[v].r = job[v].r
                /\ job'[v].targets = job[v].targets
            BY <2>2
          <5> QED
            BY <4>1, <5>1, <5>2, <5>3, ErasureKept
        <4>2. CASE job[v].pc \notin Stages
          BY <2>2, <4>2 DEF ErasureTrue
        <4> QED
          BY <4>1, <4>2
      <3>4. AskTrue(v)'
        <4> SUFFICES ASSUME job[v].pc = "ask"
                     PROVE  LaterThan(row', seen'.asked, job'[v].turn, job'[v].e)
          BY <2>2 DEF AskTrue
        <4> DEFINE j == job[v]
        <4>1. j.turn \in Nat /\ LaterThan(row, seen.asked, j.turn, j.e)
          BY JobIs DEF AskTrue
        <4>2. seen'.asked \in Nat /\ seen'.asked >= seen.asked
          OBVIOUS
        <4>3. job'[v].turn = j.turn /\ job'[v].e = j.e
          BY <2>2
        <4> HIDE DEF j
        <4>4. LaterThan(row', seen'.asked, j.turn, j.e)
          BY <4>1, <4>2, LaterKept
        <4> QED
          BY <4>3, <4>4
      <3> QED
        BY <3>1, <3>2, <3>3, <3>4
    <2> QED
      BY <2>1, <2>2
  <1>2. PrivacyTyped'
    BY <1>1 DEF PrivacyTyped
  <1> QED
    BY <1>1, <1>2 DEF PrivacyInv

(* Requests that a step does not touch.                                    *)
LEMMA RequestsKept ==
    ASSUME PrivacyInv, Grown, RowsAge, seen'.asked \in Nat, seen'.asked >= seen.asked, request' = request,
           \A v \in Workers : job'[v].r = job[v].r \/ job'[v].r = 0
    PROVE  request' \in Seq(Requests) /\ \A r \in DOMAIN request' : RequestTrue(r)'
  <1>1. request' \in Seq(Requests)
    BY DEF PrivacyInv, PrivacyTyped
  <1>2. ASSUME NEW r \in DOMAIN request PROVE RequestTrue(r)'
    <2>1. r # 0
      BY DEF PrivacyInv, PrivacyTyped
    <2>2. \A v \in Workers : job'[v].r = r => job[v].r = r
      BY <2>1
    <2>3. request'[r].took = {}
      BY DEF PrivacyInv, RequestTrue
    <2> QED
      BY <2>2, <2>3, RequestKept
  <1> QED
    BY <1>1, <1>2

(* A call begins.                                                          *)
LEMMA Begun ==
    ASSUME PrivacyInv, Grown, row' = row, account' = account, desk' = desk,
           seen' \in [keys : Nat, asked : Nat, runs : [Emails -> Nat]],
           seen'.keys = seen.keys, seen'.runs = seen.runs, seen'.asked >= seen.asked,
           request' \in Seq(Requests), \A r \in DOMAIN request' : RequestTrue(r)',
           NEW w \in Workers, NEW n \in Jobs, NEW e \in Emails, job' = [job EXCEPT ![w] = n],
           n.pc \in {"order", "invoice", "return", "ask", "cancel", "confirm"},
           n.e = e, n.a = account[e], n.epoch = seen.runs[e], n.spared = Erasing(e),
           n.pc \in OnOne => n.r \in DOMAIN request' /\ request'[n.r].e = e,
           n.pc \notin OnOne => n.r = 0, n.targets = {},
           n.pc = "ask" => LaterThan(row', seen'.asked, n.turn, e)
    PROVE  PrivacyInv'
  <1>1. job \in [Workers -> Jobs] /\ job' \in [Workers -> Jobs] /\ job'[w] = n
    BY DEF PrivacyInv, PrivacyTyped
  <1>2. \A v \in Workers \ {w} : job'[v] = job[v]
    BY <1>1
  <1>3. n.pc \notin Stages
    BY DEF Stages
  <1>4. JobTyped(w)'
    BY <1>1, <1>3 DEF JobTyped
  <1>5. CallTrue(w)'
    <2>1. seen'.runs[e] \in Nat /\ seen'.runs[e] = n.epoch
      BY DEF PrivacyInv, PrivacyTyped
    <2> QED
      BY <1>1, <2>1 DEF CallTrue
  <1>6. ErasureTrue(w)' /\ AskTrue(w)'
    BY <1>1, <1>3 DEF ErasureTrue, AskTrue
  <1>7. \A v \in Workers \ {w} :
           job[v].pc \in Stages /\ job'[w].pc # "idle" /\ job'[w].e = job[v].e => job'[w].spared
    BY <1>1 DEF Erasing, Stages
  <1>8. <<job'[w].a, job'[w].e>> \in Owned
    BY <1>1 DEF Owned
  <1>9. \A v \in Workers \ {w} :
           /\ job'[v].pc = job[v].pc /\ job'[v].e = job[v].e /\ job'[v].a = job[v].a /\ job'[v].r = job[v].r
           /\ job'[v].targets = job[v].targets /\ job'[v].turn = job[v].turn /\ job'[v].epoch = job[v].epoch
           /\ job[v].spared => job'[v].spared
           /\ job[v].pc \in Stages /\ job'[w].pc # "idle" /\ job'[w].e = job[v].e => job'[w].spared
    BY <1>2, <1>7
  <1> QED
    BY <1>1, <1>4, <1>5, <1>6, <1>8, <1>9, CallsKept

(* create_order, begun.                                                    *)
LEMMA PlaceOrderKeeps ==
    ASSUME PrivacyInv, NEW w \in Workers, NEW e \in Emails, PlaceOrder(w, e)
    PROVE  PrivacyInv'
  <1> DEFINE n == Start(w, "order", e)
  <1>1. /\ n \in Jobs /\ n.pc = "order" /\ n.e = e /\ n.a = account[e] /\ n.r = 0 /\ n.targets = {}
        /\ n.epoch = seen.runs[e] /\ n.spared = Erasing(e)
    BY StartIs
  <1>2. job' = [job EXCEPT ![w] = n]
    BY DEF PlaceOrder
  <1> HIDE DEF n
  <1>3. /\ row' = row /\ account' = account /\ desk' = desk /\ request' = request /\ seen' = seen
        /\ seen \in [keys : Nat, asked : Nat, runs : [Emails -> Nat]] /\ job \in [Workers -> Jobs]
    BY DEF PlaceOrder, PrivacyInv, PrivacyTyped
  <1>4. Grown /\ RowsAge
    BY <1>3 DEF Grown, RowsAge
  <1>5. \A v \in Workers : job'[v].r = job[v].r \/ job'[v].r = 0
    BY <1>1, <1>2, <1>3
  <1>6. request' \in Seq(Requests) /\ \A r \in DOMAIN request' : RequestTrue(r)'
    BY <1>3, <1>4, <1>5, RequestsKept
  <1>7. n.pc \notin OnOne
    BY <1>1 DEF OnOne, Stages
  <1>8. n.pc \in {"order", "invoice", "return", "ask", "cancel", "confirm"} /\ n.pc # "ask"
    BY <1>1
  <1>9. seen'.keys = seen.keys /\ seen'.runs = seen.runs /\ seen'.asked >= seen.asked
    BY <1>3
  <1> QED
    BY <1>1, <1>2, <1>3, <1>4, <1>6, <1>7, <1>8, <1>9, Begun

(* issue_invoice and create_return_request, begun.                         *)
LEMMA CopyKeeps ==
    ASSUME PrivacyInv, NEW w \in Workers, NEW d \in DOMAIN row, NEW kind \in {"invoice", "return"}, Copy(w, d, kind)
    PROVE  PrivacyInv'
  <1> DEFINE e == row[d].e
             s == Start(w, kind, e)
             n == [s EXCEPT !.d = d]
  <1>1. e \in Emails /\ d \in Nat
    BY RowIs
  <1>2. job' = [job EXCEPT ![w] = n]
    BY DEF Copy
  <1> HIDE DEF e
  <1>3. /\ s \in Jobs /\ s.pc = kind /\ s.e = e /\ s.a = account[e] /\ s.r = 0 /\ s.targets = {}
        /\ s.epoch = seen.runs[e] /\ s.spared = Erasing(e)
    BY <1>1, StartIs
  <1> HIDE DEF s
  <1>4. /\ n \in Jobs /\ n.pc = kind /\ n.e = e /\ n.a = account[e] /\ n.r = 0 /\ n.targets = {}
        /\ n.epoch = seen.runs[e] /\ n.spared = Erasing(e)
    BY <1>1, <1>3 DEF Jobs
  <1> HIDE DEF n
  <1>5. /\ row' = row /\ account' = account /\ desk' = desk /\ request' = request /\ seen' = seen
        /\ seen \in [keys : Nat, asked : Nat, runs : [Emails -> Nat]] /\ job \in [Workers -> Jobs]
    BY DEF Copy, PrivacyInv, PrivacyTyped
  <1>6. Grown /\ RowsAge
    BY <1>5 DEF Grown, RowsAge
  <1>7. \A v \in Workers : job'[v].r = job[v].r \/ job'[v].r = 0
    BY <1>2, <1>4, <1>5
  <1>8. request' \in Seq(Requests) /\ \A r \in DOMAIN request' : RequestTrue(r)'
    BY <1>5, <1>6, <1>7, RequestsKept
  <1>9. /\ n.pc \notin OnOne
        /\ n.pc \in {"order", "invoice", "return", "ask", "cancel", "confirm"} /\ n.pc # "ask"
    BY <1>4 DEF OnOne, Stages
  <1>10. seen'.keys = seen.keys /\ seen'.runs = seen.runs /\ seen'.asked >= seen.asked
    BY <1>5
  <1> QED
    BY <1>1, <1>2, <1>4, <1>5, <1>6, <1>8, <1>9, <1>10, Begun

(* A request for erasure, begun: the customer has no open order, so all    *)
(* that are open later are opened later.                                   *)
LEMMA AskErasureKeeps ==
    ASSUME PrivacyInv, NEW w \in Workers, NEW e \in Emails, Ask(w, e)
    PROVE  PrivacyInv'
  <1> DEFINE s == Start(w, "ask", e)
             t == seen.asked + 1
             n == [s EXCEPT !.turn = t]
  <1>1. /\ seen \in [keys : Nat, asked : Nat, runs : [Emails -> Nat]] /\ seen.asked \in Nat
        /\ job \in [Workers -> Jobs]
    BY DEF PrivacyInv, PrivacyTyped
  <1>2. job' = [job EXCEPT ![w] = n]
    BY DEF Ask
  <1>3. /\ s \in Jobs /\ s.pc = "ask" /\ s.e = e /\ s.a = account[e] /\ s.r = 0 /\ s.targets = {}
        /\ s.epoch = seen.runs[e] /\ s.spared = Erasing(e)
    BY StartIs
  <1>4. seen' = [seen EXCEPT !.asked = t] /\ t \in Nat /\ t >= seen.asked
    BY <1>1 DEF Ask
  <1> HIDE DEF s, t
  <1>5. /\ n \in Jobs /\ n.pc = "ask" /\ n.e = e /\ n.a = account[e] /\ n.r = 0 /\ n.turn = t /\ n.targets = {}
        /\ n.epoch = seen.runs[e] /\ n.spared = Erasing(e)
    BY <1>3, <1>4 DEF Jobs
  <1> HIDE DEF n
  <1>6. /\ row' = row /\ account' = account /\ desk' = desk /\ request' = request
        /\ seen' \in [keys : Nat, asked : Nat, runs : [Emails -> Nat]]
        /\ seen'.keys = seen.keys /\ seen'.runs = seen.runs /\ seen'.asked = t
    BY <1>1, <1>4 DEF Ask
  <1>7. Grown /\ RowsAge
    BY <1>6 DEF Grown, RowsAge
  <1>8. \A v \in Workers : job'[v].r = job[v].r \/ job'[v].r = 0
    BY <1>1, <1>2, <1>5
  <1>9. request' \in Seq(Requests) /\ \A r \in DOMAIN request' : RequestTrue(r)'
    BY <1>4, <1>6, <1>7, <1>8, RequestsKept
  <1>10. /\ n.pc \notin OnOne
         /\ n.pc \in {"order", "invoice", "return", "ask", "cancel", "confirm"}
    BY <1>5 DEF OnOne, Stages
  <1>11. LaterThan(row', seen'.asked, n.turn, e)
    <2>1. NoneOpen(e)
      BY DEF Ask
    <2> QED
      BY <1>4, <1>5, <1>6, <2>1 DEF LaterThan, NoneOpen
  <1> QED
    BY <1>4, <1>2, <1>5, <1>6, <1>7, <1>9, <1>10, <1>11, Begun

(* A call on a request begins; one that is under way is marked.            *)
LEMMA TakeKeeps ==
    ASSUME PrivacyInv, NEW w \in Workers, NEW r \in DOMAIN request, NEW pc \in {"cancel", "confirm"},
           NEW byDesk \in BOOLEAN, request[r].st # "completed", Take(w, r, pc, byDesk)
    PROVE  PrivacyInv'
  <1> DEFINE e == request[r].e
             x == request[r].st
             s == Start(w, pc, e)
             b == request[r].raced \/ \E v \in Workers : job[v].r = r
             n == [s EXCEPT !.r = r, !.was = x, !.byDesk = byDesk]
             q == [request[r] EXCEPT !.raced = b]
  <1>1. request \in Seq(Requests) /\ r \in Nat /\ job \in [Workers -> Jobs]
    BY DEF PrivacyInv, PrivacyTyped
  <1>2. job' = [job EXCEPT ![w] = n] /\ request' = [request EXCEPT ![r] = q]
    BY <1>1 DEF Take
  <1>3. b \in BOOLEAN /\ (~ b => ~ request[r].raced /\ \A v \in Workers : job[v].r # r)
    <2> DEFINE o == request[r]
    <2>1. o \in Requests
      BY RequestIs
    <2>2. o.raced \in BOOLEAN
      <3> HIDE DEF o
      <3> QED
        BY <2>1 DEF Requests
    <2> QED
      BY <2>2
  <1>4. e \in Emails /\ x \in Answers /\ q \in Requests /\ q.raced = b /\ q.took = request[r].took /\ q.st = x
        /\ q.erased = request[r].erased /\ q.e = e /\ q.turn = request[r].turn /\ x # "completed"
    <2> DEFINE o == request[r]
    <2>1. o \in Requests
      BY RequestIs
    <2> HIDE DEF b
    <2>2. o.e \in Emails /\ o.st \in Answers /\ [o EXCEPT !.raced = b] \in Requests
          /\ [o EXCEPT !.raced = b].raced = b /\ [o EXCEPT !.raced = b].took = o.took
          /\ [o EXCEPT !.raced = b].st = o.st /\ [o EXCEPT !.raced = b].erased = o.erased
          /\ [o EXCEPT !.raced = b].e = o.e /\ [o EXCEPT !.raced = b].turn = o.turn
      <3> HIDE DEF o
      <3> QED
        BY <1>3, <2>1 DEF Requests
    <2> QED
      BY <2>2
  <1> HIDE DEF e, x, b, q
  <1>5. /\ s \in Jobs /\ s.pc = pc /\ s.e = e /\ s.a = account[e] /\ s.targets = {}
        /\ s.epoch = seen.runs[e] /\ s.spared = Erasing(e)
    BY <1>4, StartIs
  <1> HIDE DEF s
  <1>6. /\ n \in Jobs /\ n.pc = pc /\ n.e = e /\ n.a = account[e] /\ n.r = r /\ n.targets = {}
        /\ n.epoch = seen.runs[e] /\ n.spared = Erasing(e)
    BY <1>1, <1>4, <1>5 DEF Jobs
  <1> HIDE DEF n
  <1>7. /\ row' = row /\ account' = account /\ desk' = desk /\ seen' = seen
        /\ seen \in [keys : Nat, asked : Nat, runs : [Emails -> Nat]] /\ seen'.asked >= seen.asked
    BY DEF Take, PrivacyInv, PrivacyTyped
  <1>8. request' \in Seq(Requests) /\ DOMAIN request' = DOMAIN request
        /\ request'[r] = q /\ \A o \in DOMAIN request \ {r} : request'[o] = request[o]
    BY <1>1, <1>2, <1>4
  <1>9. Grown /\ RowsAge
    BY <1>4, <1>7, <1>8 DEF Grown, RowsAge, e
  <1>10. /\ job'[w] = n /\ \A v \in Workers \ {w} : job'[v] = job[v]
    BY <1>1, <1>2
  <1>11. ASSUME NEW o \in DOMAIN request' PROVE RequestTrue(o)'
    <2>1. CASE o # r
      <3>1. request'[o] = request[o] /\ o \in DOMAIN request
        BY <1>8, <2>1
      <3>2. \A v \in Workers : job'[v].r = o => job[v].r = o
        BY <1>6, <1>10, <2>1
      <3>3. request'[o].took = {}
        BY <3>1 DEF PrivacyInv, RequestTrue
      <3> QED
        BY <1>7, <1>9, <3>1, <3>2, <3>3, RequestKept
    <2>2. CASE o = r
      <3>1. RequestTrue(r) /\ request'[r] = q
        BY <1>8 DEF PrivacyInv
      <3>2. LaterThan(row', seen'.asked, q.turn, q.e) /\ q.took = {}
        BY <1>4, <1>7, <3>1 DEF RequestTrue, e
      <3>3. q.erased => q.raced
        BY <1>3, <1>4, <3>1 DEF RequestTrue, x
      <3>4. ~ q.raced => \A u, v \in Workers : job'[u].r = r /\ job'[v].r = r => u = v
        BY <1>3, <1>4, <1>10
      <3> QED
        BY <2>2, <3>1, <3>2, <3>3, <3>4 DEF RequestTrue
    <2> QED
      BY <2>1, <2>2
  <1>12. /\ n.pc \in OnOne /\ n.pc # "ask" /\ n.r \in DOMAIN request' /\ request'[n.r].e = e
         /\ n.pc \in {"order", "invoice", "return", "ask", "cancel", "confirm"}
    BY <1>4, <1>6, <1>8 DEF OnOne
  <1>13. seen' \in [keys : Nat, asked : Nat, runs : [Emails -> Nat]]
         /\ seen'.keys = seen.keys /\ seen'.runs = seen.runs
    BY <1>7
  <1> QED
    BY <1>2, <1>4, <1>6, <1>7, <1>8, <1>9, <1>11, <1>12, <1>13, Begun

(* A call that ends.                                                       *)
LEMMA Ended ==
    ASSUME PrivacyInv, Grown, row' = row, account' = account, desk' = desk, seen' = seen,
           NEW w \in Workers, job' = [job EXCEPT ![w] = Idle],
           request' \in Seq(Requests), \A r \in DOMAIN request' : RequestTrue(r)'
    PROVE  PrivacyInv'
  <1>1. job \in [Workers -> Jobs] /\ job' \in [Workers -> Jobs] /\ job'[w] = Idle
        /\ seen \in [keys : Nat, asked : Nat, runs : [Emails -> Nat]]
    BY IdleIs DEF PrivacyInv, PrivacyTyped
  <1>2. \A v \in Workers \ {w} : job'[v] = job[v]
    BY <1>1
  <1>3. JobTyped(w)' /\ CallTrue(w)' /\ ErasureTrue(w)' /\ AskTrue(w)'
    BY <1>1, IdleIs DEF JobTyped, CallTrue, ErasureTrue, AskTrue, OnOne, Stages
  <1>4. seen' \in [keys : Nat, asked : Nat, runs : [Emails -> Nat]]
        /\ seen'.keys = seen.keys /\ seen'.runs = seen.runs /\ seen'.asked >= seen.asked
    BY <1>1
  <1>5. job'[w].pc = "idle"
    BY <1>1, IdleIs
  <1>6. \A v \in Workers \ {w} :
           /\ job'[v].pc = job[v].pc /\ job'[v].e = job[v].e /\ job'[v].a = job[v].a /\ job'[v].r = job[v].r
           /\ job'[v].targets = job[v].targets /\ job'[v].turn = job[v].turn /\ job'[v].epoch = job[v].epoch
           /\ job[v].spared => job'[v].spared
           /\ job[v].pc \in Stages /\ job'[w].pc # "idle" /\ job'[w].e = job[v].e => job'[w].spared
    BY <1>2, <1>5
  <1> QED
    BY <1>1, <1>3, <1>4, <1>5, <1>6, CallsKept

LEMMA FailKeeps ==
    ASSUME PrivacyInv, NEW w \in Workers, Fail(w)
    PROVE  PrivacyInv'
  <1>1. /\ row' = row /\ account' = account /\ desk' = desk /\ request' = request /\ seen' = seen
        /\ job' = [job EXCEPT ![w] = Idle] /\ job \in [Workers -> Jobs] /\ seen.asked \in Nat
    BY DEF Fail, Finish, PrivacyInv, PrivacyTyped
  <1>2. Grown /\ RowsAge
    BY <1>1 DEF Grown, RowsAge
  <1>3. \A v \in Workers : job'[v].r = job[v].r \/ job'[v].r = 0
    BY <1>1, IdleIs
  <1>4. request' \in Seq(Requests) /\ \A r \in DOMAIN request' : RequestTrue(r)'
    BY <1>1, <1>2, <1>3, RequestsKept
  <1> QED
    BY <1>1, <1>2, <1>4, Ended

(* A request is stored: no open order of its customer is older.            *)
LEMMA CommitAskKeeps ==
    ASSUME PrivacyInv, NEW w \in Workers, CommitAsk(w)
    PROVE  PrivacyInv'
  <1> DEFINE j == job[w]
             a == j.a
             e == j.e
             t == j.turn
             q == [cust |-> a, e |-> e, st |-> "pending", link |-> TRUE, turn |-> t, erased |-> FALSE,
                   raced |-> FALSE, took |-> {}]
  <1>1. /\ row' = row /\ account' = account /\ desk' = desk /\ seen' = seen
        /\ job' = [job EXCEPT ![w] = Idle] /\ job \in [Workers -> Jobs] /\ request \in Seq(Requests)
        /\ seen \in [keys : Nat, asked : Nat, runs : [Emails -> Nat]] /\ seen'.asked >= seen.asked
    BY DEF CommitAsk, Finish, PrivacyInv, PrivacyTyped
  <1>2. request' = request \/ request' = Append(request, q)
    BY DEF CommitAsk
  <1>3. /\ a \in Nat /\ e \in Emails /\ t \in Nat
    <2>1. j \in Jobs /\ e \in Emails /\ t \in Nat
      BY JobIs DEF JobTyped, CommitAsk
    <2>2. j.a \in Nat
      <3> HIDE DEF j
      <3> QED
        BY <2>1 DEF Jobs
    <2> QED
      BY <2>1, <2>2
  <1>4. LaterThan(row, seen.asked, t, e)
    BY JobIs DEF AskTrue, CommitAsk
  <1> HIDE DEF a, e, t
  <1>5. q \in Requests
    BY <1>3 DEF Requests, Answers
  <1>6. /\ request' \in Seq(Requests) /\ DOMAIN request \subseteq DOMAIN request'
        /\ \A r \in DOMAIN request : request'[r] = request[r]
        /\ \A r \in DOMAIN request' : r \in DOMAIN request \/ (r = Len(request) + 1 /\ request'[r] = q)
    <2>1. CASE request' = request
      BY <1>1, <2>1
    <2>2. CASE request' = Append(request, q)
      <3> HIDE DEF q
      <3> QED
        BY <1>1, <1>5, <2>2
    <2> QED
      BY <1>2, <2>1, <2>2
  <1>7. Grown /\ RowsAge
    BY <1>1, <1>6 DEF Grown, RowsAge
  <1>8. \A v \in Workers : job'[v].r = job[v].r \/ job'[v].r = 0
    BY <1>1, IdleIs
  <1>9. ASSUME NEW r \in DOMAIN request' PROVE RequestTrue(r)'
    <2>1. CASE r \in DOMAIN request
      <3>1. request'[r] = request[r] /\ r # 0
        BY <1>1, <1>6, <2>1
      <3>2. \A v \in Workers : job'[v].r = r => job[v].r = r
        BY <1>8, <3>1
      <3>3. request'[r].took = {}
        BY <2>1, <3>1 DEF PrivacyInv, RequestTrue
      <3> QED
        BY <1>1, <1>7, <2>1, <3>1, <3>2, <3>3, RequestKept
    <2>2. CASE r \notin DOMAIN request
      <3>1. r = Len(request) + 1 /\ request'[r] = q
        BY <1>6, <2>2
      <3>2. \A v \in Workers : job[v].r = 0 \/ job[v].r \in DOMAIN request
        BY JobIs DEF JobTyped
      <3>3. \A v \in Workers : job'[v].r # r
        <4>1. r # 0
          BY <1>1, <3>1
        <4> QED
          BY <1>8, <2>2, <3>2, <4>1
      <3> QED
        BY <1>1, <1>4, <3>1, <3>3 DEF RequestTrue
    <2> QED
      BY <2>1, <2>2
  <1> QED
    BY <1>1, <1>6, <1>7, <1>9, Ended

(* The commit of a request's status.                                       *)
LEMMA SettleIs ==
    ASSUME PrivacyInv, NEW w \in Workers, job[w].pc \in {"cancel", "confirm"}, NEW st \in {"cancelled", "confirmed"},
           Settle(w, st)
    PROVE  /\ request' \in Seq(Requests) /\ DOMAIN request' = DOMAIN request
           /\ \A r \in DOMAIN request :
                 /\ request'[r].e = request[r].e /\ request'[r].turn = request[r].turn
                 /\ request'[r].took = request[r].took /\ request'[r].erased = request[r].erased
                 /\ request'[r].raced = request[r].raced
                 /\ request'[r].erased /\ ~ request'[r].raced => request'[r] = request[r]
  <1> DEFINE k == job[w].r
             o == request[k]
             x == IF job[w].was = st THEN o.st ELSE st
             q == [o EXCEPT !.st = x, !.link = FALSE]
  <1>1. k \in DOMAIN request /\ request \in Seq(Requests)
    BY JobIs DEF JobTyped, OnOne, PrivacyInv, PrivacyTyped
  <1>2. o \in Requests
    BY <1>1, RequestIs
  <1>3. request' = [request EXCEPT ![k] = q]
    BY <1>1 DEF Settle
  <1>4. o.erased /\ ~ o.raced => FALSE
    BY <1>1 DEF PrivacyInv, RequestTrue
  <1> HIDE DEF k, o
  <1>5. x \in Answers
    BY <1>2 DEF Requests, Answers
  <1> HIDE DEF x
  <1>6. q \in Requests /\ q.e = o.e /\ q.turn = o.turn /\ q.took = o.took /\ q.erased = o.erased /\ q.raced = o.raced
    BY <1>2, <1>5 DEF Requests
  <1> HIDE DEF q
  <1>7. request' \in Seq(Requests) /\ DOMAIN request' = DOMAIN request
        /\ \A r \in DOMAIN request : request'[r] = IF r = k THEN q ELSE request[r]
    BY <1>1, <1>3, <1>6
  <1> QED
    BY <1>4, <1>6, <1>7 DEF o

LEMMA CommitCancelKeeps ==
    ASSUME PrivacyInv, NEW w \in Workers, CommitCancel(w)
    PROVE  PrivacyInv'
  <1>1. /\ row' = row /\ account' = account /\ desk' = desk /\ seen' = seen /\ job' = [job EXCEPT ![w] = Idle]
        /\ job \in [Workers -> Jobs] /\ seen.asked \in Nat /\ Settle(w, "cancelled")
        /\ job[w].pc \in {"cancel", "confirm"} /\ request \in Seq(Requests)
    BY DEF CommitCancel, Finish, PrivacyInv, PrivacyTyped
  <1>2. /\ request' \in Seq(Requests) /\ DOMAIN request' = DOMAIN request
        /\ \A r \in DOMAIN request :
              /\ request'[r].e = request[r].e /\ request'[r].turn = request[r].turn
              /\ request'[r].took = request[r].took /\ request'[r].erased = request[r].erased
              /\ request'[r].raced = request[r].raced
              /\ request'[r].erased /\ ~ request'[r].raced => request'[r] = request[r]
    BY <1>1, SettleIs
  <1>3. Grown /\ RowsAge
    BY <1>1, <1>2 DEF Grown, RowsAge
  <1>4. \A v \in Workers : job'[v].r = job[v].r \/ job'[v].r = 0
    BY <1>1, IdleIs
  <1>5. ASSUME NEW r \in DOMAIN request' PROVE RequestTrue(r)'
    <2>1. r \in DOMAIN request /\ r # 0
      BY <1>1, <1>2
    <2>2. \A v \in Workers : job'[v].r = r => job[v].r = r
      BY <1>4, <2>1
    <2>3. request'[r].took = {}
      BY <1>2, <2>1 DEF PrivacyInv, RequestTrue
    <2>4. /\ request[r].raced => request'[r].raced
          /\ request'[r].erased /\ ~ request'[r].raced => request[r].erased /\ request'[r].st = request[r].st
      BY <1>2, <2>1
    <2>5. seen'.asked \in Nat /\ seen'.asked >= seen.asked
      BY <1>1
    <2> QED
      BY <1>3, <2>1, <2>2, <2>3, <2>4, <2>5, RequestKept
  <1> QED
    BY <1>1, <1>2, <1>3, <1>5, Ended

(* A call on a request goes on with the erasure.                           *)
LEMMA CommitConfirmKeeps ==
    ASSUME PrivacyInv, NEW w \in Workers, CommitConfirm(w)
    PROVE  PrivacyInv'
  <1> DEFINE j == job[w]
             n == [j EXCEPT !.pc = "lookup"]
  <1>1. /\ row' = row /\ account' = account /\ desk' = desk /\ seen' = seen /\ job' = [job EXCEPT ![w] = n]
        /\ job \in [Workers -> Jobs] /\ Settle(w, "confirmed")
        /\ seen \in [keys : Nat, asked : Nat, runs : [Emails -> Nat]]
        /\ job[w].pc \in {"cancel", "confirm"} /\ j.pc = "confirm" /\ request \in Seq(Requests)
    BY DEF CommitConfirm, PrivacyInv, PrivacyTyped
  <1>2. /\ request' \in Seq(Requests) /\ DOMAIN request' = DOMAIN request
        /\ \A r \in DOMAIN request :
              /\ request'[r].e = request[r].e /\ request'[r].turn = request[r].turn
              /\ request'[r].took = request[r].took /\ request'[r].erased = request[r].erased
              /\ request'[r].raced = request[r].raced
              /\ request'[r].erased /\ ~ request'[r].raced => request'[r] = request[r]
    BY <1>1, SettleIs
  <1>3. Grown /\ RowsAge
    BY <1>1, <1>2 DEF Grown, RowsAge
  <1>4. j \in Jobs /\ JobTyped(w) /\ CallTrue(w)
    BY JobIs
  <1>5. j.e \in Emails /\ j.r \in DOMAIN request /\ request[j.r].e = j.e /\ j.targets = {}
    BY <1>1, <1>4 DEF JobTyped, OnOne, Stages
  <1>6. ~ j.spared => j.epoch >= seen.runs[j.e]
    BY <1>1, <1>4 DEF CallTrue
  <1>7. \A v \in Workers \ {w} : job[v].pc \in Stages /\ j.e = job[v].e => j.spared
    BY <1>1, JobIs DEF ErasureTrue
  <1>8. <<j.a, j.e>> \in Owned
    BY <1>1 DEF Owned
  <1> HIDE DEF j
  <1>9. /\ n \in Jobs /\ n.pc = "lookup" /\ n.e = j.e /\ n.a = j.a /\ n.r = j.r /\ n.targets = {}
        /\ n.epoch = j.epoch /\ n.spared = j.spared
    BY <1>4, <1>5 DEF Jobs, OnOne
  <1> HIDE DEF n
  <1>10. /\ job' \in [Workers -> Jobs] /\ job'[w] = n /\ \A v \in Workers \ {w} : job'[v] = job[v]
    BY <1>1, <1>9
  <1>11. \A v \in Workers : job'[v].r = job[v].r
    BY <1>9, <1>10 DEF j
  <1>12. ASSUME NEW r \in DOMAIN request' PROVE RequestTrue(r)'
    <2>1. r \in DOMAIN request
      BY <1>2
    <2>2. \A v \in Workers : job'[v].r = r => job[v].r = r
      BY <1>11
    <2>3. request'[r].took = {}
      BY <1>2, <2>1 DEF PrivacyInv, RequestTrue
    <2>4. /\ request[r].raced => request'[r].raced
          /\ request'[r].erased /\ ~ request'[r].raced => request[r].erased /\ request'[r].st = request[r].st
      BY <1>2, <2>1
    <2>5. seen'.asked \in Nat /\ seen'.asked >= seen.asked
      BY <1>1
    <2> QED
      BY <1>3, <2>1, <2>2, <2>3, <2>4, <2>5, RequestKept
  <1>13. JobTyped(w)'
    BY <1>2, <1>5, <1>9, <1>10 DEF JobTyped, OnOne, Stages
  <1>14. CallTrue(w)'
    BY <1>1, <1>6, <1>9, <1>10 DEF CallTrue
  <1>15. ErasureTrue(w)' /\ AskTrue(w)'
    BY <1>9, <1>10 DEF ErasureTrue, AskTrue, Stages
  <1>16. \A v \in Workers \ {w} :
           /\ job'[v].pc = job[v].pc /\ job'[v].e = job[v].e /\ job'[v].a = job[v].a /\ job'[v].r = job[v].r
           /\ job'[v].targets = job[v].targets /\ job'[v].turn = job[v].turn /\ job'[v].epoch = job[v].epoch
           /\ job[v].spared => job'[v].spared
           /\ job[v].pc \in Stages /\ job'[w].pc # "idle" /\ job'[w].e = job[v].e => job'[w].spared
    BY <1>7, <1>9, <1>10
  <1>17. <<job'[w].a, job'[w].e>> \in Owned
    BY <1>8, <1>9, <1>10
  <1>18. seen' \in [keys : Nat, asked : Nat, runs : [Emails -> Nat]]
         /\ seen'.keys = seen.keys /\ seen'.runs = seen.runs /\ seen'.asked >= seen.asked
    BY <1>1
  <1> QED
    BY <1>1, <1>2, <1>3, <1>10, <1>12, <1>13, <1>14, <1>15, <1>16, <1>17, <1>18, CallsKept

(* The erasure begins: every other call of the customer is marked.         *)
LEMMA LookupKeeps ==
    ASSUME PrivacyInv, NEW w \in Workers, Lookup(w)
    PROVE  PrivacyInv'
  <1> DEFINE j == job[w]
             e == j.e
             a == account[e]
             n == [j EXCEPT !.pc = "orders", !.a = a]
             M(v) == [job[v] EXCEPT !.spared = TRUE]
  <1>1. /\ row' = row /\ account' = account /\ desk' = desk /\ seen' = seen /\ request' = request
        /\ job' = [v \in Workers |-> IF v = w THEN n ELSE IF job[v].e = e THEN M(v) ELSE job[v]]
        /\ job \in [Workers -> Jobs] /\ seen \in [keys : Nat, asked : Nat, runs : [Emails -> Nat]]
        /\ j.pc = "lookup" /\ a # 0
    BY DEF Lookup, PrivacyInv, PrivacyTyped
  <1>2. j \in Jobs /\ JobTyped(w) /\ CallTrue(w)
    BY JobIs
  <1>3. e \in Emails /\ j.r \in DOMAIN request /\ request[j.r].e = e /\ j.targets = {}
    BY <1>1, <1>2 DEF JobTyped, OnOne, Stages
  <1>4. ~ j.spared => j.epoch >= seen.runs[e]
    BY <1>1, <1>2 DEF CallTrue
  <1>5. \A v \in Workers \ {w} : job[v].pc \in Stages /\ e = job[v].e => j.spared
    BY <1>1, JobIs DEF ErasureTrue
  <1>6. a \in Nat /\ <<a, e>> \in Owned
    BY <1>3 DEF Owned, PrivacyInv, PrivacyTyped
  <1>7. \A v \in Workers : M(v) \in Jobs /\ M(v).pc = job[v].pc /\ M(v).e = job[v].e /\ M(v).a = job[v].a
           /\ M(v).r = job[v].r /\ M(v).targets = job[v].targets /\ M(v).turn = job[v].turn
           /\ M(v).epoch = job[v].epoch /\ M(v).spared
    <2> SUFFICES ASSUME NEW v \in Workers
                 PROVE  M(v) \in Jobs /\ M(v).pc = job[v].pc /\ M(v).e = job[v].e /\ M(v).a = job[v].a
                        /\ M(v).r = job[v].r /\ M(v).targets = job[v].targets /\ M(v).turn = job[v].turn
                        /\ M(v).epoch = job[v].epoch /\ M(v).spared
      OBVIOUS
    <2> DEFINE i == job[v]
    <2>1. i \in Jobs
      BY <1>1
    <2>2. /\ [i EXCEPT !.spared = TRUE] \in Jobs
          /\ [i EXCEPT !.spared = TRUE].pc = i.pc /\ [i EXCEPT !.spared = TRUE].e = i.e
          /\ [i EXCEPT !.spared = TRUE].a = i.a /\ [i EXCEPT !.spared = TRUE].r = i.r
          /\ [i EXCEPT !.spared = TRUE].targets = i.targets /\ [i EXCEPT !.spared = TRUE].turn = i.turn
          /\ [i EXCEPT !.spared = TRUE].epoch = i.epoch /\ [i EXCEPT !.spared = TRUE].spared
      <3> HIDE DEF i
      <3> QED
        BY <2>1 DEF Jobs
    <2> QED
      BY <2>2
  <1> HIDE DEF j, e, a, M
  <1>8. /\ n \in Jobs /\ n.pc = "orders" /\ n.e = e /\ n.a = a /\ n.r = j.r /\ n.targets = {}
        /\ n.epoch = j.epoch /\ n.spared = j.spared
    BY <1>2, <1>3, <1>6 DEF Jobs, OnOne, Stages, e
  <1> HIDE DEF n
  <1>9. /\ job' \in [Workers -> Jobs] /\ job'[w] = n
        /\ \A v \in Workers \ {w} : job'[v] = IF job[v].e = e THEN M(v) ELSE job[v]
    BY <1>1, <1>7, <1>8
  <1>10. \A v \in Workers \ {w} :
           /\ job'[v].pc = job[v].pc /\ job'[v].e = job[v].e /\ job'[v].a = job[v].a /\ job'[v].r = job[v].r
           /\ job'[v].targets = job[v].targets /\ job'[v].turn = job[v].turn /\ job'[v].epoch = job[v].epoch
           /\ job[v].spared => job'[v].spared
           /\ job[v].pc \in Stages /\ job'[w].pc # "idle" /\ job'[w].e = job[v].e => job'[w].spared
    BY <1>5, <1>7, <1>8, <1>9
  <1>11. \A v \in Workers : job'[v].r = job[v].r
    BY <1>8, <1>9, <1>10 DEF j
  <1>12. Grown /\ RowsAge /\ seen'.asked \in Nat /\ seen'.asked >= seen.asked
    BY <1>1 DEF Grown, RowsAge
  <1>13. request' \in Seq(Requests) /\ \A r \in DOMAIN request' : RequestTrue(r)'
    BY <1>1, <1>11, <1>12, RequestsKept
  <1>14. JobTyped(w)'
    BY <1>1, <1>3, <1>8, <1>9 DEF JobTyped, OnOne, Stages
  <1>15. CallTrue(w)'
    BY <1>1, <1>4, <1>8, <1>9 DEF CallTrue
  <1>16. AskTrue(w)'
    BY <1>8, <1>9 DEF AskTrue
  <1>17. ErasureTrue(w)'
    <2>1. \A v \in Workers \ {w} : job'[v].pc # "idle" /\ job'[v].e = n.e => job'[v].spared
      BY <1>7, <1>8, <1>9, <1>10
    <2>2. n.pc = "orders" /\ Covered["orders"] = {} /\ n.targets = {} /\ account'[n.e] = n.a
      BY <1>1, <1>8 DEF Covered, a
    <2> QED
      BY <1>9, <2>1, <2>2 DEF ErasureTrue
  <1>18. <<job'[w].a, job'[w].e>> \in Owned
    BY <1>6, <1>8, <1>9
  <1>19. seen' \in [keys : Nat, asked : Nat, runs : [Emails -> Nat]]
         /\ seen'.keys = seen.keys /\ seen'.runs = seen.runs
    BY <1>1
  <1> QED
    BY <1>1, <1>9, <1>10, <1>12, <1>13, <1>14, <1>15, <1>16, <1>17, <1>18, <1>19, CallsKept

(* A statement of the erasure.                                             *)
LEMMA Selected ==
    ASSUME PrivacyInv, NEW w \in Workers, NEW pc \in Stages, NEW next \in Stages, NEW rows \in SUBSET DOMAIN row,
           Select(w, pc, next, rows),
           \A d \in rows : row[d].kind = "order" => row[d].st = "personal" /\ row[d].e = job[w].e,
           \A d \in DOMAIN row :
              Lives(d) /\ row[d].e = job[w].e /\ row[d].kind \in Covered[next] =>
                  row[d].kind \in Covered[pc] \/ d \in rows
    PROVE  PrivacyInv'
  <1> DEFINE j == job[w]
             t == j.targets \cup rows
             n == [j EXCEPT !.pc = next, !.targets = t]
  <1>1. /\ row' = row /\ account' = account /\ desk' = desk /\ seen' = seen /\ request' = request
        /\ job' = [job EXCEPT ![w] = n]
        /\ job \in [Workers -> Jobs] /\ seen \in [keys : Nat, asked : Nat, runs : [Emails -> Nat]]
        /\ j.pc = pc /\ row \in Seq(DataRows)
    BY DEF Select, PrivacyInv, PrivacyTyped
  <1>2. j \in Jobs /\ JobTyped(w) /\ CallTrue(w) /\ ErasureTrue(w)
    BY JobIs
  <1>3. j.e \in Emails /\ j.r \in DOMAIN request /\ request[j.r].e = j.e /\ j.a # 0 /\ j.targets \subseteq DOMAIN row
    BY <1>1, <1>2 DEF JobTyped, OnOne, Stages
  <1>4. j.pc # "idle" /\ next # "idle" /\ next # "ask" /\ next \in OnOne
    BY <1>1 DEF Stages, OnOne
  <1>5. ~ j.spared => j.epoch >= seen.runs[j.e]
    BY <1>2, <1>4 DEF CallTrue
  <1>6. \A v \in Workers \ {w} : job[v].pc \in Stages /\ j.e = job[v].e => j.spared
    BY <1>4, JobIs DEF ErasureTrue
  <1>7. <<j.a, j.e>> \in Owned
    BY <1>4 DEF Owned
  <1>8. t \subseteq DOMAIN row /\ t \subseteq Nat
    BY <1>1, <1>3
  <1>9. /\ \A v \in Workers \ {w} : job[v].pc # "idle" /\ job[v].e = j.e => job[v].spared
        /\ \A d \in DOMAIN row :
              Lives(d) /\ row[d].e = j.e => /\ row[d].kind = "chat" => account[j.e] = j.a
                                            /\ row[d].kind \in Covered[pc] => d \in j.targets
        /\ \A d \in j.targets : row[d].kind = "order" /\ row[d].open => row[d].turn >= request[j.r].turn
    BY <1>1, <1>2 DEF ErasureTrue
  <1>10. \A d \in t : row[d].kind = "order" /\ row[d].open => row[d].turn >= request[j.r].turn
    <2>1. LaterThan(row, seen.asked, request[j.r].turn, j.e)
      BY <1>3 DEF PrivacyInv, RequestTrue
    <2>2. \A d \in rows : row[d].kind = "order" /\ row[d].open => row[d].turn >= request[j.r].turn
      BY <2>1 DEF LaterThan
    <2> QED
      BY <1>9, <2>2
  <1>11. \A d \in DOMAIN row : Lives(d) /\ row[d].e = j.e /\ row[d].kind \in Covered[next] => d \in t
    BY <1>9
  <1> HIDE DEF j, t
  <1>12. /\ n \in Jobs /\ n.pc = next /\ n.e = j.e /\ n.a = j.a /\ n.r = j.r /\ n.targets = t
         /\ n.epoch = j.epoch /\ n.spared = j.spared
    BY <1>2, <1>4, <1>8 DEF Jobs
  <1> HIDE DEF n
  <1>13. /\ job' \in [Workers -> Jobs] /\ job'[w] = n /\ \A v \in Workers \ {w} : job'[v] = job[v]
    BY <1>1, <1>12
  <1>14. \A v \in Workers : job'[v].r = job[v].r
    BY <1>12, <1>13 DEF j
  <1>15. Grown /\ RowsAge /\ seen'.asked \in Nat /\ seen'.asked >= seen.asked
    BY <1>1 DEF Grown, RowsAge
  <1>16. request' \in Seq(Requests) /\ \A r \in DOMAIN request' : RequestTrue(r)'
    BY <1>1, <1>14, <1>15, RequestsKept
  <1>17. JobTyped(w)'
    BY <1>1, <1>3, <1>4, <1>8, <1>12, <1>13 DEF JobTyped
  <1>18. CallTrue(w)'
    BY <1>1, <1>5, <1>12, <1>13 DEF CallTrue
  <1>19. AskTrue(w)'
    BY <1>4, <1>12, <1>13 DEF AskTrue
  <1>20. ErasureTrue(w)'
    <2>1. \A v \in Workers \ {w} : job'[v].pc # "idle" /\ job'[v].e = n.e => job'[v].spared
      BY <1>9, <1>12, <1>13
    <2>2. \A d \in DOMAIN row' :
             Lives(d)' /\ row'[d].e = n.e => /\ row'[d].kind = "chat" => account'[n.e] = n.a
                                             /\ row'[d].kind \in Covered[n.pc] => d \in n.targets
      BY <1>1, <1>9, <1>11, <1>12 DEF Lives
    <2>3. \A d \in n.targets : row'[d].kind = "order" /\ row'[d].open => row'[d].turn >= request'[n.r].turn
      BY <1>1, <1>10, <1>12
    <2> QED
      BY <1>13, <2>1, <2>2, <2>3 DEF ErasureTrue
  <1>21. <<job'[w].a, job'[w].e>> \in Owned
    BY <1>7, <1>12, <1>13
  <1>22. seen' \in [keys : Nat, asked : Nat, runs : [Emails -> Nat]]
         /\ seen'.keys = seen.keys /\ seen'.runs = seen.runs
    BY <1>1
  <1>23. \A v \in Workers \ {w} :
           /\ job'[v].pc = job[v].pc /\ job'[v].e = job[v].e /\ job'[v].a = job[v].a /\ job'[v].r = job[v].r
           /\ job'[v].targets = job[v].targets /\ job'[v].turn = job[v].turn /\ job'[v].epoch = job[v].epoch
           /\ job[v].spared => job'[v].spared
           /\ job[v].pc \in Stages /\ job'[w].pc # "idle" /\ job'[w].e = job[v].e => job'[w].spared
    BY <1>6, <1>12, <1>13
  <1> QED
    BY <1>1, <1>13, <1>15, <1>16, <1>17, <1>18, <1>19, <1>20, <1>21, <1>22, <1>23, CallsKept

(* The statements of the erasure, in order.                                *)
LEMMA StatementsKeep ==
    ASSUME PrivacyInv, NEW w \in Workers,
           \/ AnonymizeOrders(w) \/ AnonymizeInvoices(w) \/ AnonymizeReturns(w)
           \/ AnonymizeReviews(w) \/ DeleteChat(w) \/ DeleteMisc(w)
    PROVE  PrivacyInv'
  <1>1. \A d \in DOMAIN row : row[d].kind \in Kinds
    <2> SUFFICES ASSUME NEW d \in DOMAIN row PROVE row[d].kind \in Kinds
      OBVIOUS
    <2> DEFINE q == row[d]
    <2>1. q \in DataRows
      BY RowIs
    <2>2. q.kind \in Kinds
      <3> HIDE DEF q
      <3> QED
        BY <2>1 DEF DataRows
    <2> QED
      BY <2>2
  <1>2. /\ Covered["orders"] = {} /\ Covered["invoices"] = {"order"} /\ Covered["returns"] = {"order", "invoice"}
        /\ Covered["reviews"] = {"order", "invoice", "return"}
        /\ Covered["chat"] = {"order", "invoice", "return", "review"}
        /\ Covered["misc"] = {"order", "invoice", "return", "review", "chat"} /\ Covered["erase"] = Kinds
    BY DEF Covered
  <1>3. {"orders", "invoices", "returns", "reviews", "chat", "misc", "erase"} = Stages
    BY DEF Stages
  <1>4. CASE AnonymizeOrders(w)
    <2> DEFINE rows == OfEmail(w, "order") \cup OfKey(w, "order")
    <2>1. rows \in SUBSET DOMAIN row /\ Select(w, "orders", "invoices", rows)
      BY <1>4 DEF AnonymizeOrders, OfEmail, OfKey
    <2>2. \A d \in rows : row[d].kind = "order" => row[d].st = "personal" /\ row[d].e = job[w].e
      <3>1. <<job[w].a, job[w].e>> \in Owned /\ job[w].a # 0
        BY <1>3, <2>1, JobIs DEF Owned, Select, JobTyped
      <3>2. \A d \in DOMAIN row : <<row[d].cust, row[d].e>> \in Owned
        BY DEF Owned
      <3>3. \A d \in DOMAIN row : row[d].cust = job[w].a => row[d].e = job[w].e
        BY <3>1, <3>2 DEF PrivacyInv, KeysOnce
      <3> QED
        BY <3>3 DEF OfEmail, OfKey
    <2>3. \A d \in DOMAIN row :
             Lives(d) /\ row[d].e = job[w].e /\ row[d].kind \in Covered["invoices"] =>
                 row[d].kind \in Covered["orders"] \/ d \in rows
      BY <1>2 DEF Lives, OfEmail
    <2> QED
      BY <1>3, <2>1, <2>2, <2>3, Selected
  <1>5. CASE AnonymizeInvoices(w)
    <2> DEFINE rows == OfEmail(w, "invoice")
    <2>1. rows \in SUBSET DOMAIN row /\ Select(w, "invoices", "returns", rows)
      BY <1>5 DEF AnonymizeInvoices, OfEmail
    <2>2. \A d \in rows : row[d].kind = "order" => row[d].st = "personal" /\ row[d].e = job[w].e
      BY DEF OfEmail
    <2>3. \A d \in DOMAIN row :
             Lives(d) /\ row[d].e = job[w].e /\ row[d].kind \in Covered["returns"] =>
                 row[d].kind \in Covered["invoices"] \/ d \in rows
      BY <1>2 DEF Lives, OfEmail
    <2> QED
      BY <1>3, <2>1, <2>2, <2>3, Selected
  <1>6. CASE AnonymizeReturns(w)
    <2> DEFINE rows == OfEmail(w, "return")
    <2>1. rows \in SUBSET DOMAIN row /\ Select(w, "returns", "reviews", rows)
      BY <1>6 DEF AnonymizeReturns, OfEmail
    <2>2. \A d \in rows : row[d].kind = "order" => row[d].st = "personal" /\ row[d].e = job[w].e
      BY DEF OfEmail
    <2>3. \A d \in DOMAIN row :
             Lives(d) /\ row[d].e = job[w].e /\ row[d].kind \in Covered["reviews"] =>
                 row[d].kind \in Covered["returns"] \/ d \in rows
      BY <1>2 DEF Lives, OfEmail
    <2> QED
      BY <1>3, <2>1, <2>2, <2>3, Selected
  <1>7. CASE AnonymizeReviews(w)
    <2> DEFINE rows == OfEmail(w, "review")
    <2>1. rows \in SUBSET DOMAIN row /\ Select(w, "reviews", "chat", rows)
      BY <1>7 DEF AnonymizeReviews, OfEmail
    <2>2. \A d \in rows : row[d].kind = "order" => row[d].st = "personal" /\ row[d].e = job[w].e
      BY DEF OfEmail
    <2>3. \A d \in DOMAIN row :
             Lives(d) /\ row[d].e = job[w].e /\ row[d].kind \in Covered["chat"] =>
                 row[d].kind \in Covered["reviews"] \/ d \in rows
      BY <1>2 DEF Lives, OfEmail
    <2> QED
      BY <1>3, <2>1, <2>2, <2>3, Selected
  <1>8. CASE DeleteChat(w)
    <2> DEFINE rows == OfKey(w, "chat")
    <2>1. rows \in SUBSET DOMAIN row /\ Select(w, "chat", "misc", rows)
      BY <1>8 DEF DeleteChat, OfKey
    <2>2. \A d \in rows : row[d].kind = "order" => row[d].st = "personal" /\ row[d].e = job[w].e
      BY DEF OfKey
    <2>3. \A d \in DOMAIN row :
             Lives(d) /\ row[d].e = job[w].e /\ row[d].kind = "chat" => row[d].cust = job[w].a
      BY <1>3, <2>1, JobIs DEF PrivacyInv, LifeTrue, ErasureTrue, Select
    <2>4. \A d \in DOMAIN row :
             Lives(d) /\ row[d].e = job[w].e /\ row[d].kind \in Covered["misc"] =>
                 row[d].kind \in Covered["chat"] \/ d \in rows
      BY <1>2, <2>3 DEF Lives, OfKey
    <2> QED
      BY <1>3, <2>1, <2>2, <2>4, Selected
  <1>9. CASE DeleteMisc(w)
    <2> DEFINE rows == OfEmail(w, "subscription")
    <2>1. rows \in SUBSET DOMAIN row /\ Select(w, "misc", "erase", rows)
      BY <1>9 DEF DeleteMisc, OfEmail
    <2>2. \A d \in rows : row[d].kind = "order" => row[d].st = "personal" /\ row[d].e = job[w].e
      BY DEF OfEmail
    <2>3. \A d \in DOMAIN row :
             Lives(d) /\ row[d].e = job[w].e /\ row[d].kind \in Covered["erase"] =>
                 row[d].kind \in Covered["misc"] \/ d \in rows
      BY <1>1, <1>2 DEF Lives, OfEmail, Kinds
    <2> QED
      BY <1>3, <2>1, <2>2, <2>3, Selected
  <1> QED
    BY <1>4, <1>5, <1>6, <1>7, <1>8, <1>9

(* Unlinking a customer changes keys only.                                 *)
LEMMA UnlinkIs ==
    ASSUME NEW rows \in Seq(DataRows), NEW a \in Nat
    PROVE  LET u == Unlink(rows, a) IN
           /\ u \in Seq(DataRows) /\ DOMAIN u = DOMAIN rows
           /\ \A d \in DOMAIN rows :
                 /\ u[d].kind = rows[d].kind /\ u[d].e = rows[d].e /\ u[d].st = rows[d].st /\ u[d].open = rows[d].open
                 /\ u[d].turn = rows[d].turn /\ u[d].epoch = rows[d].epoch /\ u[d].spared = rows[d].spared
                 /\ u[d].cust = IF rows[d].cust = a THEN 0 ELSE rows[d].cust
  <1> DEFINE u == Unlink(rows, a)
  <1>1. u = [d \in DOMAIN rows |-> IF rows[d].cust = a THEN [rows[d] EXCEPT !.cust = 0] ELSE rows[d]]
    BY DEF Unlink
  <1> HIDE DEF u
  <1>2. ASSUME NEW d \in DOMAIN rows
        PROVE  /\ u[d] \in DataRows
               /\ u[d].kind = rows[d].kind /\ u[d].e = rows[d].e /\ u[d].st = rows[d].st /\ u[d].open = rows[d].open
               /\ u[d].turn = rows[d].turn /\ u[d].epoch = rows[d].epoch /\ u[d].spared = rows[d].spared
               /\ u[d].cust = IF rows[d].cust = a THEN 0 ELSE rows[d].cust
    <2> DEFINE q == rows[d]
    <2>1. q \in DataRows /\ u[d] = IF q.cust = a THEN [q EXCEPT !.cust = 0] ELSE q
      BY <1>1
    <2>2. /\ u[d] \in DataRows
          /\ u[d].kind = q.kind /\ u[d].e = q.e /\ u[d].st = q.st /\ u[d].open = q.open
          /\ u[d].turn = q.turn /\ u[d].epoch = q.epoch /\ u[d].spared = q.spared
          /\ u[d].cust = IF q.cust = a THEN 0 ELSE q.cust
      <3>1. CASE q.cust = a
        <4>1. u[d] = [q EXCEPT !.cust = 0]
          BY <2>1, <3>1
        <4>2. q \in DataRows
          BY <2>1
        <4> DEFINE z == [q EXCEPT !.cust = 0]
        <4> HIDE DEF q
        <4>3. z \in DataRows /\ z.cust = 0
              /\ z.kind = q.kind /\ z.e = q.e /\ z.st = q.st /\ z.open = q.open /\ z.turn = q.turn /\ z.epoch = q.epoch /\ z.spared = q.spared
          BY <4>2 DEF DataRows
        <4> HIDE DEF z
        <4>4. u[d] = z
          BY <4>1 DEF z
        <4> QED
          BY <3>1, <4>3, <4>4
      <3>2. CASE q.cust # a
        <4>1. u[d] = q
          BY <2>1, <3>2
        <4> QED
          BY <2>1, <3>2, <4>1
      <3> QED
        BY <3>1, <3>2
    <2> QED
      BY <2>2
  <1>3. u \in Seq(DataRows) /\ DOMAIN u = DOMAIN rows
    <2>1. u = [d \in DOMAIN rows |-> u[d]]
      BY <1>1
    <2> QED
      BY <1>2, <2>1, RowByRow
  <1> QED
    BY <1>2, <1>3 DEF u

LEMMA ForgetIs ==
    ASSUME NEW reqs \in Seq(Requests), NEW a \in Nat
    PROVE  LET u == Forget(reqs, a) IN
           /\ u \in Seq(Requests) /\ DOMAIN u = DOMAIN reqs
           /\ \A r \in DOMAIN reqs :
                 /\ u[r].e = reqs[r].e /\ u[r].st = reqs[r].st /\ u[r].turn = reqs[r].turn
                 /\ u[r].erased = reqs[r].erased /\ u[r].raced = reqs[r].raced /\ u[r].took = reqs[r].took
  <1> DEFINE u == Forget(reqs, a)
  <1>1. u = [r \in DOMAIN reqs |-> IF reqs[r].cust = a THEN [reqs[r] EXCEPT !.cust = 0] ELSE reqs[r]]
    BY DEF Forget
  <1> HIDE DEF u
  <1>2. ASSUME NEW r \in DOMAIN reqs
        PROVE  /\ u[r] \in Requests
               /\ u[r].e = reqs[r].e /\ u[r].st = reqs[r].st /\ u[r].turn = reqs[r].turn
               /\ u[r].erased = reqs[r].erased /\ u[r].raced = reqs[r].raced /\ u[r].took = reqs[r].took
    <2> DEFINE q == reqs[r]
    <2>1. q \in Requests /\ u[r] = IF q.cust = a THEN [q EXCEPT !.cust = 0] ELSE q
      BY <1>1
    <2>2. /\ u[r] \in Requests
          /\ u[r].e = q.e /\ u[r].st = q.st /\ u[r].turn = q.turn
          /\ u[r].erased = q.erased /\ u[r].raced = q.raced /\ u[r].took = q.took
      <3>1. CASE q.cust = a
        <4>1. u[r] = [q EXCEPT !.cust = 0]
          BY <2>1, <3>1
        <4>2. q \in Requests
          BY <2>1
        <4> DEFINE z == [q EXCEPT !.cust = 0]
        <4> HIDE DEF q
        <4>3. z \in Requests /\ z.cust = 0
              /\ z.e = q.e /\ z.st = q.st /\ z.turn = q.turn /\ z.erased = q.erased /\ z.raced = q.raced /\ z.took = q.took
          BY <4>2 DEF Requests
        <4> HIDE DEF z
        <4>4. u[r] = z
          BY <4>1 DEF z
        <4> QED
          BY <3>1, <4>3, <4>4
      <3>2. CASE q.cust # a
        <4>1. u[r] = q
          BY <2>1, <3>2
        <4> QED
          BY <2>1, <3>2, <4>1
      <3> QED
        BY <3>1, <3>2
    <2> QED
      BY <2>2
  <1>3. u \in Seq(Requests) /\ DOMAIN u = DOMAIN reqs
    <2>1. u = [r \in DOMAIN reqs |-> u[r]]
      BY <1>1
    <2> QED
      BY <1>2, <2>1, RowByRow
  <1> QED
    BY <1>2, <1>3 DEF u

(* A key that is given: nobody has had it.                                 *)
LEMMA KeysNew ==
    ASSUME PrivacyInv, NEW x \in Emails, seen'.keys = seen.keys + 1,
           \A e \in Emails : <<account'[e], e>> \in Owned \/ (account'[e] = seen.keys + 1 /\ e = x),
           \A d \in DOMAIN row' :
              <<row'[d].cust, row'[d].e>> \in Owned \/ (row'[d].cust = seen.keys + 1 /\ row'[d].e = x),
           \A w \in Workers : job'[w].pc # "idle" => <<job'[w].a, job'[w].e>> \in Owned
    PROVE  KeysOnce'
  <1> DEFINE O == Owned
             P == Owned'
             k == seen.keys
  <1>1. KeysOnce /\ k \in Nat
    BY DEF PrivacyInv, PrivacyTyped
  <1>2. \A p \in P : p \in O \/ (p[1] = k + 1 /\ p[2] = x)
    BY DEF Owned
  <1>3. \A p \in O : p[1] \in Nat
    <2>1. \A e \in Emails : account[e] \in Nat
      BY DEF PrivacyInv, PrivacyTyped
    <2>2. ASSUME NEW d \in DOMAIN row PROVE row[d].cust \in Nat
      <3> DEFINE q == row[d]
      <3>1. q \in DataRows
        BY RowIs
      <3>2. q.cust \in Nat
        <4> HIDE DEF q
        <4> QED
          BY <3>1 DEF DataRows
      <3> QED
        BY <3>2
    <2>3. ASSUME NEW w \in Workers PROVE job[w].a \in Nat
      <3> DEFINE j == job[w]
      <3>1. j \in Jobs
        BY JobIs
      <3>2. j.a \in Nat
        <4> HIDE DEF j
        <4> QED
          BY <3>1 DEF Jobs
      <3> QED
        BY <3>2
    <2> QED
      BY <2>1, <2>2, <2>3 DEF Owned
  <1>4. \A p \in O : p[1] <= k
    BY <1>1 DEF KeysOnce
  <1>5. \A p, q \in O : p[1] = q[1] /\ p[1] # 0 => p[2] = q[2]
    BY <1>1 DEF KeysOnce
  <1>6. seen'.keys = k + 1
    OBVIOUS
  <1> HIDE DEF O, P, k
  <1>7. \A p \in P : p[1] <= k + 1
    BY <1>1, <1>2, <1>3, <1>4
  <1>8. \A p, q \in P : p[1] = q[1] /\ p[1] # 0 => p[2] = q[2]
    BY <1>1, <1>2, <1>3, <1>4, <1>5
  <1> QED
    BY <1>6, <1>7, <1>8 DEF KeysOnce, P

(* A row is written: one of a call that an erasure of the customer met is  *)
(* marked.                                                                 *)
LEMMA RowAdded ==
    ASSUME PrivacyInv, NEW n \in DataRows, row' = Append(row, n), n.turn = seen.asked, request' = request, desk' = desk,
           seen' \in [keys : Nat, asked : Nat, runs : [Emails -> Nat]], seen'.asked = seen.asked, seen'.runs = seen.runs,
           account' \in [Emails -> Nat], \A e \in Emails : account'[e] = account[e] \/ account[e] = 0,
           KeysOnce', job' \in [Workers -> Jobs], \A v \in Workers : job'[v] = job[v] \/ job'[v] = Idle,
           ~ n.spared =>
              /\ n.epoch >= seen.runs[n.e]
              /\ n.kind = "chat" => n.cust = account'[n.e] /\ n.cust # 0
              /\ \A v \in Workers : job'[v].pc \in Stages => job'[v].e # n.e
    PROVE  PrivacyInv'
  <1>1. /\ row \in Seq(DataRows) /\ row' \in Seq(DataRows) /\ DOMAIN row \subseteq DOMAIN row'
        /\ \A d \in DOMAIN row : row'[d] = row[d]
        /\ \A d \in DOMAIN row' : d \in DOMAIN row \/ row'[d] = n
    BY DEF PrivacyInv, PrivacyTyped
  <1>2. Grown /\ RowsAge
    BY <1>1 DEF Grown, RowsAge
  <1>3. \A v \in Workers : job'[v].r = job[v].r \/ job'[v].r = 0
    BY IdleIs
  <1>4. seen'.asked \in Nat /\ seen'.asked >= seen.asked
    OBVIOUS
  <1>5. request' \in Seq(Requests) /\ \A r \in DOMAIN request' : RequestTrue(r)'
    BY <1>2, <1>3, <1>4, RequestsKept
  <1>6. \A d \in DOMAIN row :
           row[d].st = "personal" /\ ~ row[d].spared /\ row[d].kind = "chat" => account'[row[d].e] = account[row[d].e]
    BY RowIs DEF PrivacyInv, LifeTrue, Lives
  <1>7. ASSUME NEW d \in DOMAIN row' PROVE LifeTrue(d)'
    <2>1. CASE d \in DOMAIN row
      <3>1. LifeTrue(d) /\ row'[d] = row[d]
        BY <1>1, <2>1 DEF PrivacyInv
      <3> QED
        BY <1>6, <2>1, <3>1 DEF LifeTrue, Lives
    <2>2. CASE row'[d] = n
      BY <2>2 DEF LifeTrue, Lives
    <2> QED
      BY <1>1, <2>1, <2>2
  <1>8. \A v \in Workers : job'[v].pc \in Stages =>
           \A d \in DOMAIN row' :
              row'[d].st = "personal" /\ ~ row'[d].spared /\ row'[d].e = job'[v].e =>
                  /\ d \in DOMAIN row
                  /\ row'[d].kind = "chat" => account'[job'[v].e] = account[job'[v].e]
    BY <1>1, <1>6
  <1>9. desk' \in Nat
    BY DEF PrivacyInv, PrivacyTyped
  <1> QED
    BY <1>1, <1>2, <1>5, <1>7, <1>8, <1>9, TablesKept

(* A row as a call writes it.                                              *)
LEMMA FreshIs ==
    ASSUME PrivacyInv, NEW e \in Emails, NEW x \in Nat, NEW b \in BOOLEAN, NEW j, j.e = e, j.epoch = x, j.spared = b,
           NEW kind \in Kinds, NEW cust \in Nat
    PROVE  LET n == Fresh(j, kind, cust) IN
           /\ n \in DataRows /\ n.kind = kind /\ n.e = e /\ n.cust = cust /\ n.turn = seen.asked
           /\ n.epoch = x /\ n.spared = b
  <1>1. seen.asked \in Nat
    BY DEF PrivacyInv, PrivacyTyped
  <1> QED
    BY <1>1 DEF Fresh, DataRows

(* No call on another row ends with this one's customer unmarked.          *)
LEMMA MarkedIs ==
    ASSUME PrivacyInv, NEW w \in Workers, job[w].pc # "idle", ~ job[w].spared,
           NEW v \in Workers, v # w, job[v].pc \in Stages
    PROVE  job[v].e # job[w].e
  BY JobIs DEF ErasureTrue

(* create_order: the order has the customer's key, a new one if she has    *)
(* none.                                                                   *)
LEMMA CommitOrderKeeps ==
    ASSUME PrivacyInv, NEW w \in Workers, CommitOrder(w)
    PROVE  PrivacyInv'
  <1> DEFINE j == job[w]
             k == seen.keys
             a == IF j.a = 0 THEN k + 1 ELSE j.a
             n == Fresh(j, "order", a)
  <1>1. /\ job' = [job EXCEPT ![w] = Idle] /\ job \in [Workers -> Jobs] /\ request' = request /\ desk' = desk
        /\ seen \in [keys : Nat, asked : Nat, runs : [Emails -> Nat]] /\ account \in [Emails -> Nat]
        /\ j.pc = "order" /\ k \in Nat /\ row \in Seq(DataRows)
    BY DEF CommitOrder, Finish, PrivacyInv, PrivacyTyped
  <1>2. \A v \in Workers : job'[v].r = job[v].r \/ job'[v].r = 0
    BY <1>1, IdleIs
  <1>3. CASE account[j.e] # j.a
    <2>1. row' = row /\ account' = account /\ seen' = seen
      BY <1>3 DEF CommitOrder
    <2>2. Grown /\ RowsAge
      BY <1>1, <2>1 DEF Grown, RowsAge
    <2>3. request' \in Seq(Requests) /\ \A r \in DOMAIN request' : RequestTrue(r)'
      BY <1>1, <1>2, <2>1, <2>2, RequestsKept
    <2> QED
      BY <1>1, <2>1, <2>2, <2>3, Ended
  <1>4. CASE account[j.e] = j.a
    <2>1. /\ account' = [account EXCEPT ![j.e] = a]
          /\ seen' = (IF j.a = 0 THEN [seen EXCEPT !.keys = a] ELSE seen)
          /\ row' = Append(row, n)
      BY <1>4 DEF CommitOrder
    <2>2. j \in Jobs /\ j.e \in Emails /\ (~ j.spared => j.epoch >= seen.runs[j.e])
      BY <1>1, JobIs DEF JobTyped, CallTrue
    <2>3. j.epoch \in Nat /\ j.a \in Nat /\ j.spared \in BOOLEAN
      <3> HIDE DEF j
      <3> QED
        BY <2>2 DEF Jobs
    <2>4. a \in Nat
      BY <1>1, <2>3
    <2> DEFINE e == j.e
    <2>5. /\ n \in DataRows /\ n.kind = "order" /\ n.e = e /\ n.cust = a /\ n.turn = seen.asked
          /\ n.epoch = j.epoch /\ n.spared = j.spared
      <3> HIDE DEF a, j
      <3>1. "order" \in Kinds
        BY DEF Kinds
      <3> QED
        BY <2>2, <2>3, <2>4, <3>1, FreshIs
    <2> HIDE DEF n, a
    <2>6. /\ DOMAIN row' = DOMAIN row \cup {Len(row) + 1} /\ \A d \in DOMAIN row : row'[d] = row[d]
          /\ \A d \in DOMAIN row' : d \in DOMAIN row \/ row'[d] = n
      BY <1>1, <2>1, <2>5
    <2>7. /\ \A f \in Emails : account'[f] = IF f = e THEN a ELSE account[f]
          /\ account' \in [Emails -> Nat]
      BY <1>1, <2>1, <2>2, <2>4
    <2>8. /\ \A f \in Emails : <<account[f], f>> \in Owned
          /\ \A d \in DOMAIN row : <<row[d].cust, row[d].e>> \in Owned
          /\ \A v \in Workers : job[v].pc # "idle" => <<job[v].a, job[v].e>> \in Owned
      BY DEF Owned
    <2>9. job' \in [Workers -> Jobs] /\ \A v \in Workers : job'[v] = IF v = w THEN Idle ELSE job[v]
      BY <1>1, IdleIs
    <2>10. \A v \in Workers : job'[v].pc # "idle" => <<job'[v].a, job'[v].e>> \in Owned
      BY <2>8, <2>9, IdleIs
    <2>11. KeysOnce' /\ seen' \in [keys : Nat, asked : Nat, runs : [Emails -> Nat]]
           /\ seen'.asked = seen.asked /\ seen'.runs = seen.runs
      <3>1. CASE j.a = 0
        <4>1. a = k + 1 /\ seen' = [seen EXCEPT !.keys = a]
          BY <2>1, <3>1 DEF a
        <4>2. seen' \in [keys : Nat, asked : Nat, runs : [Emails -> Nat]] /\ seen'.keys = k + 1
              /\ seen'.asked = seen.asked /\ seen'.runs = seen.runs
          BY <1>1, <2>4, <4>1
        <4>3. \A f \in Emails : <<account'[f], f>> \in Owned \/ (account'[f] = k + 1 /\ f = e)
          BY <2>7, <2>8, <4>1
        <4>4. \A d \in DOMAIN row' :
                 <<row'[d].cust, row'[d].e>> \in Owned \/ (row'[d].cust = k + 1 /\ row'[d].e = e)
          BY <2>5, <2>6, <2>8, <4>1
        <4> HIDE DEF e
        <4>5. e \in Emails
          BY <2>2 DEF e
        <4> QED
          BY <2>10, <4>2, <4>3, <4>4, <4>5, KeysNew
      <3>2. CASE j.a # 0
        <4>1. a = j.a /\ seen' = seen
          BY <2>1, <3>2 DEF a
        <4>2. <<a, e>> \in Owned
          BY <1>1, <2>8, <4>1
        <4>3. \A f \in Emails : account'[f] = 0 \/ <<account'[f], f>> \in Owned
          BY <2>7, <2>8, <4>2
        <4>4. \A d \in DOMAIN row' : row'[d].cust = 0 \/ <<row'[d].cust, row'[d].e>> \in Owned
          BY <2>5, <2>6, <2>8, <4>2
        <4>5. KeysOnce'
          BY <2>10, <4>1, <4>3, <4>4, KeysKept
        <4> QED
          BY <1>1, <4>1, <4>5
      <3> QED
        BY <3>1, <3>2
    <2>12. \A f \in Emails : account'[f] = account[f] \/ account[f] = 0
      BY <1>4, <2>7 DEF a
    <2>13. \A v \in Workers : job'[v] = job[v] \/ job'[v] = Idle
      BY <2>9
    <2>14. ~ n.spared => \A v \in Workers : job'[v].pc \in Stages => job'[v].e # n.e
      <3>1. ASSUME ~ n.spared, NEW v \in Workers, job'[v].pc \in Stages PROVE job'[v].e # n.e
        <4>1. v # w /\ job'[v] = job[v]
          BY <2>9, <3>1, IdleIs DEF Stages
        <4> QED
          BY <1>1, <2>5, <3>1, <4>1, MarkedIs
      <3> QED
        BY <3>1
    <2>15. ~ n.spared => /\ n.epoch >= seen.runs[n.e]
                         /\ n.kind = "chat" => n.cust = account'[n.e] /\ n.cust # 0
                         /\ \A v \in Workers : job'[v].pc \in Stages => job'[v].e # n.e
      BY <2>2, <2>5, <2>14
    <2> QED
      BY <1>1, <2>1, <2>5, <2>7, <2>9, <2>11, <2>12, <2>13, <2>15, RowAdded
  <1> QED
    BY <1>3, <1>4

(* issue_invoice and create_return_request.                                *)
LEMMA CommitCopyKeeps ==
    ASSUME PrivacyInv, NEW w \in Workers, CommitCopy(w)
    PROVE  PrivacyInv'
  <1> DEFINE j == job[w]
             kind == j.pc
             n == Fresh(j, kind, 0)
  <1>1. /\ job' = [job EXCEPT ![w] = Idle] /\ job \in [Workers -> Jobs] /\ request' = request /\ desk' = desk
        /\ seen \in [keys : Nat, asked : Nat, runs : [Emails -> Nat]] /\ account \in [Emails -> Nat]
        /\ seen' = seen /\ account' = account /\ row' = Append(row, n)
        /\ kind \in {"invoice", "return"} /\ row \in Seq(DataRows)
    BY DEF CommitCopy, Finish, PrivacyInv, PrivacyTyped
  <1>2. j \in Jobs /\ j.e \in Emails /\ (~ j.spared => j.epoch >= seen.runs[j.e])
    BY <1>1, JobIs DEF JobTyped, CallTrue
  <1>3. j.epoch \in Nat /\ j.spared \in BOOLEAN
    <2> HIDE DEF j
    <2> QED
      BY <1>2 DEF Jobs
  <1>4. kind \in Kinds
    BY <1>1 DEF Kinds
  <1>5. /\ n \in DataRows /\ n.kind # "chat" /\ n.e = j.e /\ n.cust = 0 /\ n.turn = seen.asked
        /\ n.epoch = j.epoch /\ n.spared = j.spared
    <2> HIDE DEF j, kind
    <2> QED
      BY <1>1, <1>2, <1>3, <1>4, FreshIs
  <1> HIDE DEF n
  <1>6. /\ \A d \in DOMAIN row : row'[d] = row[d]
        /\ \A d \in DOMAIN row' : d \in DOMAIN row \/ row'[d] = n
    BY <1>1, <1>5
  <1>7. job' \in [Workers -> Jobs] /\ \A v \in Workers : job'[v] = IF v = w THEN Idle ELSE job[v]
    BY <1>1, IdleIs
  <1>8. KeysOnce'
    <2>1. /\ \A f \in Emails : <<account[f], f>> \in Owned
          /\ \A d \in DOMAIN row : <<row[d].cust, row[d].e>> \in Owned
          /\ \A v \in Workers : job[v].pc # "idle" => <<job[v].a, job[v].e>> \in Owned
      BY DEF Owned
    <2>2. \A d \in DOMAIN row' : row'[d].cust = 0 \/ <<row'[d].cust, row'[d].e>> \in Owned
      BY <1>5, <1>6, <2>1
    <2>3. \A v \in Workers : job'[v].pc # "idle" => job'[v].a = 0 \/ <<job'[v].a, job'[v].e>> \in Owned
      BY <1>7, <2>1, IdleIs
    <2> QED
      BY <1>1, <2>1, <2>2, <2>3, KeysKept
  <1>9. \A v \in Workers : job'[v] = job[v] \/ job'[v] = Idle
    BY <1>7
  <1>10. ~ n.spared => \A v \in Workers : job'[v].pc \in Stages => job'[v].e # n.e
    <2>1. ASSUME ~ n.spared, NEW v \in Workers, job'[v].pc \in Stages PROVE job'[v].e # n.e
      <3>1. v # w /\ job'[v] = job[v] /\ job[w].pc # "idle"
        BY <1>1, <1>7, <2>1, IdleIs DEF Stages
      <3> QED
        BY <1>5, <2>1, <3>1, MarkedIs
    <2> QED
      BY <2>1
  <1>11. ~ n.spared => /\ n.epoch >= seen.runs[n.e]
                       /\ n.kind = "chat" => n.cust = account'[n.e] /\ n.cust # 0
                       /\ \A v \in Workers : job'[v].pc \in Stages => job'[v].e # n.e
    BY <1>2, <1>5, <1>10
  <1>12. seen' \in [keys : Nat, asked : Nat, runs : [Emails -> Nat]] /\ seen'.asked = seen.asked /\ seen'.runs = seen.runs
         /\ account' \in [Emails -> Nat] /\ \A f \in Emails : account'[f] = account[f] \/ account[f] = 0
    BY <1>1
  <1> QED
    BY <1>1, <1>5, <1>7, <1>8, <1>9, <1>11, <1>12, RowAdded

(* A row that is written at once.                                          *)
LEMMA WriteKeeps ==
    ASSUME PrivacyInv, NEW e \in Emails, NEW kind \in Kinds, NEW cust \in Nat, Write(e, kind, cust),
           cust = 0 \/ cust = account[e], kind = "chat" => cust # 0
    PROVE  PrivacyInv'
  <1> DEFINE x == seen.runs[e]
             b == Erasing(e)
             j == [e |-> e, epoch |-> x, spared |-> b]
             n == Fresh(j, kind, cust)
  <1>1. /\ job' = job /\ job \in [Workers -> Jobs] /\ request' = request /\ desk' = desk
        /\ seen \in [keys : Nat, asked : Nat, runs : [Emails -> Nat]] /\ account \in [Emails -> Nat]
        /\ seen' = seen /\ account' = account /\ row' = Append(row, n) /\ row \in Seq(DataRows) /\ x \in Nat
    BY DEF Write, PrivacyInv, PrivacyTyped
  <1>2. b \in BOOLEAN /\ (~ b => \A v \in Workers : job[v].pc \in Stages => job[v].e # e)
    BY DEF Erasing, Stages
  <1>3. /\ n \in DataRows /\ n.kind = kind /\ n.e = e /\ n.cust = cust /\ n.turn = seen.asked
        /\ n.epoch = x /\ n.spared = b
    <2>1. j.e = e /\ j.epoch = x /\ j.spared = b
      OBVIOUS
    <2> HIDE DEF j, x, b
    <2> QED
      BY <1>1, <1>2, <2>1, FreshIs
  <1> HIDE DEF n, b
  <1>4. /\ \A d \in DOMAIN row : row'[d] = row[d]
        /\ \A d \in DOMAIN row' : d \in DOMAIN row \/ row'[d] = n
    BY <1>1, <1>3
  <1>5. KeysOnce'
    <2>1. /\ \A f \in Emails : <<account[f], f>> \in Owned
          /\ \A d \in DOMAIN row : <<row[d].cust, row[d].e>> \in Owned
          /\ \A v \in Workers : job[v].pc # "idle" => <<job[v].a, job[v].e>> \in Owned
      BY DEF Owned
    <2>2. \A d \in DOMAIN row' : row'[d].cust = 0 \/ <<row'[d].cust, row'[d].e>> \in Owned
      BY <1>3, <1>4, <2>1
    <2> QED
      BY <1>1, <2>1, <2>2, KeysKept
  <1>6. ~ n.spared => /\ n.epoch >= seen.runs[n.e]
                      /\ n.kind = "chat" => n.cust = account'[n.e] /\ n.cust # 0
                      /\ \A v \in Workers : job'[v].pc \in Stages => job'[v].e # n.e
    BY <1>1, <1>2, <1>3
  <1>7. seen' \in [keys : Nat, asked : Nat, runs : [Emails -> Nat]] /\ seen'.asked = seen.asked /\ seen'.runs = seen.runs
        /\ account' \in [Emails -> Nat] /\ \A f \in Emails : account'[f] = account[f] \/ account[f] = 0
    BY <1>1
  <1>8. job' \in [Workers -> Jobs] /\ \A v \in Workers : job'[v] = job[v] \/ job'[v] = Idle
    BY <1>1
  <1> QED
    BY <1>1, <1>3, <1>5, <1>6, <1>7, <1>8, RowAdded

(* update_status: what is opened is opened after the requests there are.   *)
LEMMA SetOpenKeeps ==
    ASSUME PrivacyInv, NEW d \in DOMAIN row, NEW on \in BOOLEAN, SetOpen(d, on)
    PROVE  PrivacyInv'
  <1> DEFINE o == row[d]
             t == IF on THEN seen.asked ELSE o.turn
             n == [o EXCEPT !.open = on, !.turn = t]
  <1>1. /\ job' = job /\ job \in [Workers -> Jobs] /\ request' = request /\ desk' \in Nat
        /\ seen \in [keys : Nat, asked : Nat, runs : [Emails -> Nat]] /\ account \in [Emails -> Nat]
        /\ seen' = seen /\ account' = account /\ row \in Seq(DataRows)
    BY DEF SetOpen, Desk, PrivacyInv, PrivacyTyped
  <1>2. o \in DataRows /\ seen.asked \in Nat
    BY <1>1, RowIs
  <1>3. on => t = seen.asked
    OBVIOUS
  <1>4. ~ on => t = o.turn
    OBVIOUS
  <1>5. o.turn \in Nat
    <2> HIDE DEF o
    <2> QED
      BY <1>2 DEF DataRows
  <1>6. t \in Nat
    BY <1>2, <1>5
  <1>7. row' = [row EXCEPT ![d] = n]
    <2> DEFINE x == [o EXCEPT !.open = on]
    <2>1. row' = [row EXCEPT ![d] = [x EXCEPT !.turn = IF on THEN seen.asked ELSE x.turn]]
      BY <1>1 DEF SetOpen
    <2>2. x.turn = o.turn
      <3> HIDE DEF o
      <3> QED
        BY <1>2 DEF DataRows
    <2>3. n = [x EXCEPT !.turn = t]
      <3> HIDE DEF o, t
      <3> QED
        BY <1>2 DEF DataRows
    <2>4. (IF on THEN seen.asked ELSE x.turn) = t
      BY <2>2
    <2> HIDE DEF x, n, t
    <2> QED
      BY <2>1, <2>3, <2>4
  <1> HIDE DEF o, t
  <1>8. /\ n \in DataRows /\ n.kind = o.kind /\ n.e = o.e /\ n.cust = o.cust /\ n.st = o.st /\ n.epoch = o.epoch
        /\ n.spared = o.spared /\ n.open = on /\ n.turn = t
    BY <1>2, <1>6 DEF DataRows
  <1> HIDE DEF n
  <1>9. /\ row' \in Seq(DataRows) /\ DOMAIN row' = DOMAIN row
        /\ \A i \in DOMAIN row : row'[i] = IF i = d THEN n ELSE row[i]
    BY <1>1, <1>8, <1>7
  <1>10. \A i \in DOMAIN row :
           /\ row'[i].kind = row[i].kind /\ row'[i].e = row[i].e /\ row'[i].cust = row[i].cust
           /\ row'[i].st = row[i].st /\ row'[i].epoch = row[i].epoch /\ row'[i].spared = row[i].spared
    BY <1>8, <1>9 DEF o
  <1>11. \A i \in DOMAIN row :
           row'[i].open => row'[i].turn = seen.asked \/ (row[i].open /\ row'[i].turn = row[i].turn)
    BY <1>3, <1>8, <1>9
  <1>12. Grown /\ RowsAge
    BY <1>1, <1>9, <1>10, <1>11 DEF Grown, RowsAge
  <1>13. request' \in Seq(Requests) /\ \A r \in DOMAIN request' : RequestTrue(r)'
    <2>1. seen'.asked \in Nat /\ seen'.asked >= seen.asked
      BY <1>1, <1>2
    <2>2. \A v \in Workers : job'[v].r = job[v].r \/ job'[v].r = 0
      BY <1>1
    <2> QED
      BY <1>1, <1>12, <2>1, <2>2, RequestsKept
  <1>14. KeysOnce'
    <2>1. /\ \A f \in Emails : <<account[f], f>> \in Owned
          /\ \A i \in DOMAIN row : <<row[i].cust, row[i].e>> \in Owned
          /\ \A v \in Workers : job[v].pc # "idle" => <<job[v].a, job[v].e>> \in Owned
      BY DEF Owned
    <2>2. \A i \in DOMAIN row' : <<row'[i].cust, row'[i].e>> \in Owned
      BY <1>9, <1>10, <2>1
    <2> QED
      BY <1>1, <2>1, <2>2, KeysKept
  <1>15. ASSUME NEW i \in DOMAIN row' PROVE LifeTrue(i)'
    <2>1. i \in DOMAIN row /\ LifeTrue(i)
      BY <1>9 DEF PrivacyInv
    <2> QED
      BY <1>1, <1>10, <2>1 DEF LifeTrue, Lives
  <1>16. \A v \in Workers : job'[v].pc \in Stages =>
           \A i \in DOMAIN row' :
              row'[i].st = "personal" /\ ~ row'[i].spared /\ row'[i].e = job'[v].e =>
                  /\ i \in DOMAIN row
                  /\ row'[i].kind = "chat" => account'[job'[v].e] = account[job'[v].e]
    BY <1>1, <1>9
  <1>17. /\ seen' \in [keys : Nat, asked : Nat, runs : [Emails -> Nat]] /\ seen'.asked = seen.asked
         /\ account' \in [Emails -> Nat] /\ job' \in [Workers -> Jobs]
         /\ \A v \in Workers : job'[v] = job[v] \/ job'[v] = Idle
         /\ \A v \in Workers : job'[v].pc # "idle" => job'[v].spared \/ seen'.runs[job'[v].e] = seen.runs[job'[v].e]
    BY <1>1
  <1> QED
    BY <1>1, <1>9, <1>12, <1>13, <1>14, <1>15, <1>16, <1>17, TablesKept

(* delete_customer: her chats are marked, no other row has her key.        *)
LEMMA DeleteCustomerKeeps ==
    ASSUME PrivacyInv, NEW e \in Emails, DeleteCustomer(e)
    PROVE  PrivacyInv'
  <1> DEFINE a == account[e]
             rows == [d \in DOMAIN row |-> IF row[d].kind = "chat" /\ row[d].cust = a
                                           THEN [row[d] EXCEPT !.spared = TRUE] ELSE row[d]]
  <1>1. /\ job' = job /\ job \in [Workers -> Jobs] /\ desk' \in Nat
        /\ seen \in [keys : Nat, asked : Nat, runs : [Emails -> Nat]] /\ account \in [Emails -> Nat]
        /\ seen' = seen /\ account' = [account EXCEPT ![e] = 0] /\ row \in Seq(DataRows) /\ request \in Seq(Requests)
        /\ row' = Unlink(rows, a) /\ request' = Forget(request, a) /\ a # 0 /\ a \in Nat
    BY DEF DeleteCustomer, Desk, PrivacyInv, PrivacyTyped
  <1>2. ASSUME NEW d \in DOMAIN row
        PROVE  /\ rows[d] \in DataRows
               /\ rows[d].kind = row[d].kind /\ rows[d].e = row[d].e /\ rows[d].st = row[d].st
               /\ rows[d].open = row[d].open /\ rows[d].turn = row[d].turn /\ rows[d].epoch = row[d].epoch
               /\ rows[d].cust = row[d].cust /\ (row[d].spared => rows[d].spared)
               /\ row[d].kind = "chat" /\ row[d].cust = a => rows[d].spared
    <2> DEFINE q == row[d]
               z == [q EXCEPT !.spared = TRUE]
    <2>1. q \in DataRows
      BY RowIs
    <2>2. rows[d] = IF q.kind = "chat" /\ q.cust = a THEN z ELSE q
      OBVIOUS
    <2> HIDE DEF rows, q
    <2>3. /\ z \in DataRows /\ z.kind = q.kind /\ z.e = q.e /\ z.st = q.st /\ z.open = q.open /\ z.turn = q.turn
          /\ z.epoch = q.epoch /\ z.cust = q.cust /\ z.spared
      BY <2>1 DEF DataRows
    <2> HIDE DEF z
    <2>4. /\ rows[d] \in DataRows
          /\ rows[d].kind = q.kind /\ rows[d].e = q.e /\ rows[d].st = q.st
          /\ rows[d].open = q.open /\ rows[d].turn = q.turn /\ rows[d].epoch = q.epoch
          /\ rows[d].cust = q.cust /\ (q.spared => rows[d].spared)
          /\ q.kind = "chat" /\ q.cust = a => rows[d].spared
      BY <2>1, <2>2, <2>3
    <2> QED
      BY <2>4 DEF q
  <1>3. rows \in Seq(DataRows) /\ DOMAIN rows = DOMAIN row
    <2>1. rows = [d \in DOMAIN row |-> rows[d]]
      OBVIOUS
    <2>2. \A d \in DOMAIN row : rows[d] \in DataRows
      BY <1>2
    <2> HIDE DEF rows
    <2> QED
      BY <1>1, <2>1, <2>2, RowByRow
  <1> HIDE DEF rows, a
  <1>4. /\ row' \in Seq(DataRows) /\ DOMAIN row' = DOMAIN rows
        /\ \A d \in DOMAIN rows :
              /\ row'[d].kind = rows[d].kind /\ row'[d].e = rows[d].e /\ row'[d].st = rows[d].st
              /\ row'[d].open = rows[d].open /\ row'[d].turn = rows[d].turn /\ row'[d].epoch = rows[d].epoch
              /\ row'[d].spared = rows[d].spared /\ row'[d].cust = IF rows[d].cust = a THEN 0 ELSE rows[d].cust
    <2> DEFINE u == Unlink(rows, a)
    <2>1. /\ u \in Seq(DataRows) /\ DOMAIN u = DOMAIN rows
          /\ \A d \in DOMAIN rows :
                /\ u[d].kind = rows[d].kind /\ u[d].e = rows[d].e /\ u[d].st = rows[d].st /\ u[d].open = rows[d].open
                /\ u[d].turn = rows[d].turn /\ u[d].epoch = rows[d].epoch /\ u[d].spared = rows[d].spared
                /\ u[d].cust = IF rows[d].cust = a THEN 0 ELSE rows[d].cust
      BY <1>1, <1>3, UnlinkIs
    <2> HIDE DEF u
    <2>2. row' = u
      BY <1>1 DEF u
    <2> QED
      BY <2>1, <2>2
  <1>5. /\ DOMAIN row' = DOMAIN row
        /\ \A d \in DOMAIN row :
              /\ row'[d].kind = row[d].kind /\ row'[d].e = row[d].e /\ row'[d].st = row[d].st
              /\ row'[d].open = row[d].open /\ row'[d].turn = row[d].turn /\ row'[d].epoch = row[d].epoch
              /\ row[d].spared => row'[d].spared
    BY <1>2, <1>3, <1>4
  <1>6. \A d \in DOMAIN row :
           /\ row'[d].cust = IF row[d].cust = a THEN 0 ELSE row[d].cust
           /\ row[d].kind = "chat" /\ row[d].cust = a => row'[d].spared
    BY <1>2, <1>3, <1>4
  <1>7. /\ request' \in Seq(Requests) /\ DOMAIN request' = DOMAIN request
        /\ \A r \in DOMAIN request :
              /\ request'[r].e = request[r].e /\ request'[r].st = request[r].st /\ request'[r].turn = request[r].turn
              /\ request'[r].erased = request[r].erased /\ request'[r].raced = request[r].raced
              /\ request'[r].took = request[r].took
    BY <1>1, ForgetIs
  <1>8. Grown /\ RowsAge
    BY <1>5, <1>7 DEF Grown, RowsAge
  <1>9. seen'.asked \in Nat /\ seen'.asked >= seen.asked
    BY <1>1
  <1>10. ASSUME NEW r \in DOMAIN request' PROVE RequestTrue(r)'
    <2>1. r \in DOMAIN request
      BY <1>7
    <2>2. request'[r].took = {}
      BY <1>7, <2>1 DEF PrivacyInv, RequestTrue
    <2>3. /\ request[r].raced => request'[r].raced
          /\ request'[r].erased /\ ~ request'[r].raced => request[r].erased /\ request'[r].st = request[r].st
      BY <1>7, <2>1
    <2>4. \A v \in Workers : job'[v].r = r => job[v].r = r
      BY <1>1
    <2> QED
      BY <1>8, <1>9, <2>1, <2>2, <2>3, <2>4, RequestKept
  <1>11. /\ \A f \in Emails : <<account[f], f>> \in Owned
         /\ \A d \in DOMAIN row : <<row[d].cust, row[d].e>> \in Owned
         /\ \A v \in Workers : job[v].pc # "idle" => <<job[v].a, job[v].e>> \in Owned
    BY DEF Owned
  <1>12. \A f \in Emails : account'[f] = IF f = e THEN 0 ELSE account[f]
    BY <1>1
  <1>13. KeysOnce'
    <2>1. \A f \in Emails : account'[f] = 0 \/ <<account'[f], f>> \in Owned
      BY <1>11, <1>12
    <2>2. \A d \in DOMAIN row' : row'[d].cust = 0 \/ <<row'[d].cust, row'[d].e>> \in Owned
      BY <1>5, <1>6, <1>11
    <2> QED
      BY <1>1, <1>11, <2>1, <2>2, KeysKept
  <1>14. \A d \in DOMAIN row : row[d].cust = a => row[d].e = e
    <2>1. <<a, e>> \in Owned
      BY <1>11 DEF a
    <2> QED
      BY <1>1, <1>11, <2>1 DEF PrivacyInv, KeysOnce
  <1>15. ASSUME NEW d \in DOMAIN row, row'[d].st = "personal", ~ row'[d].spared, row'[d].kind = "chat"
         PROVE  row'[d].e # e /\ row'[d].cust = row[d].cust /\ account'[row[d].e] = account[row[d].e]
    <2>1. row[d].st = "personal" /\ ~ row[d].spared /\ row[d].kind = "chat" /\ row'[d].e = row[d].e
      BY <1>5, <1>15
    <2>2. row[d].cust = account[row[d].e] /\ row[d].e \in Emails
      BY <2>1, RowIs DEF PrivacyInv, LifeTrue, Lives
    <2>3. row[d].cust # a
      BY <1>6, <1>15, <2>1
    <2> QED
      BY <1>6, <1>12, <2>1, <2>2, <2>3 DEF a
  <1>16. ASSUME NEW d \in DOMAIN row' PROVE LifeTrue(d)'
    <2>1. d \in DOMAIN row /\ LifeTrue(d)
      BY <1>5 DEF PrivacyInv
    <2>2. row'[d].epoch = row[d].epoch /\ row'[d].e = row[d].e /\ row'[d].kind = row[d].kind
          /\ row'[d].st = row[d].st /\ (row[d].spared => row'[d].spared)
      BY <1>5, <2>1
    <2> QED
      BY <1>1, <1>15, <2>1, <2>2 DEF LifeTrue, Lives
  <1>17. \A v \in Workers : job'[v].pc \in Stages =>
           \A d \in DOMAIN row' :
              row'[d].st = "personal" /\ ~ row'[d].spared /\ row'[d].e = job'[v].e =>
                  /\ d \in DOMAIN row
                  /\ row'[d].kind = "chat" => account'[job'[v].e] = account[job'[v].e]
    BY <1>5, <1>15
  <1>18. /\ seen' \in [keys : Nat, asked : Nat, runs : [Emails -> Nat]] /\ seen'.asked = seen.asked
         /\ account' \in [Emails -> Nat] /\ job' \in [Workers -> Jobs]
         /\ \A v \in Workers : job'[v] = job[v] \/ job'[v] = Idle
         /\ \A v \in Workers : job'[v].pc # "idle" => job'[v].spared \/ seen'.runs[job'[v].e] = seen.runs[job'[v].e]
    BY <1>1
  <1> QED
    BY <1>1, <1>4, <1>7, <1>8, <1>10, <1>13, <1>16, <1>17, <1>18, TablesKept

(* A request that is done: its call, the only one unless it is marked, is  *)
(* over.                                                                   *)
LEMMA RequestDone ==
    ASSUME PrivacyInv, Grown, RowsAge, seen'.asked \in Nat, seen'.asked >= seen.asked,
           NEW w \in Workers, NEW k \in DOMAIN request, job[w].r = k, k # 0,
           \A v \in Workers : job'[v] = IF v = w THEN Idle ELSE job[v],
           request'[k].took = {}, request'[k].st = "completed", request'[k].raced = request[k].raced
    PROVE  RequestTrue(k)'
  <1> DEFINE q == request[k]
  <1>1. RequestTrue(k) /\ q.turn \in Nat
    BY RequestIs DEF PrivacyInv
  <1>2. LaterThan(row, seen.asked, q.turn, q.e)
    BY <1>1 DEF RequestTrue
  <1>3. LaterThan(row', seen'.asked, q.turn, q.e)
    <2> HIDE DEF q
    <2> QED
      BY <1>1, <1>2, LaterKept
  <1>4. LaterThan(row', seen'.asked, request'[k].turn, request'[k].e)
    BY <1>3 DEF Grown
  <1>5. ~ request'[k].raced => \A v \in Workers : job'[v].r # k
    BY <1>1, IdleIs DEF RequestTrue
  <1> QED
    BY <1>4, <1>5 DEF RequestTrue

(* run_deletion without a customer.                                        *)
LEMMA EraseGoneKeeps ==
    ASSUME PrivacyInv, NEW w \in Workers, EraseGone(w)
    PROVE  PrivacyInv'
  <1> DEFINE j == job[w]
             e == j.e
             k == j.r
             o == request[k]
             q == [o EXCEPT !.st = "completed", !.erased = TRUE]
  <1>1. /\ job' = [job EXCEPT ![w] = Idle] /\ job \in [Workers -> Jobs] /\ desk' = desk /\ desk \in Nat
        /\ seen \in [keys : Nat, asked : Nat, runs : [Emails -> Nat]] /\ account \in [Emails -> Nat]
        /\ seen' = seen /\ account' = account /\ row \in Seq(DataRows) /\ request \in Seq(Requests)
        /\ j.pc = "lookup"
    BY DEF EraseGone, Finish, PrivacyInv, PrivacyTyped
  <1>2. k \in DOMAIN request /\ k # 0
    <2>1. k \in DOMAIN request
      BY <1>1, JobIs DEF JobTyped, OnOne
    <2> QED
      BY <1>1, <2>1
  <1>3. /\ row' = [d \in DOMAIN row |-> IF row[d].kind = "order" /\ row[d].e = e
                                        THEN [row[d] EXCEPT !.st = "masked", !.cust = 0] ELSE row[d]]
        /\ request' = [request EXCEPT ![k].st = "completed", ![k].erased = TRUE]
    BY DEF EraseGone
  <1>4. o \in Requests
    BY <1>2, RequestIs
  <1>5. o.took = {}
    BY <1>2 DEF PrivacyInv, RequestTrue
  <1> HIDE DEF k, o
  <1>6. /\ q \in Requests /\ q.e = o.e /\ q.turn = o.turn /\ q.took = o.took /\ q.raced = o.raced
        /\ q.st = "completed"
    BY <1>4 DEF Requests, Answers
  <1> HIDE DEF q
  <1>7. /\ request' \in Seq(Requests) /\ DOMAIN request' = DOMAIN request
        /\ \A r \in DOMAIN request : request'[r] = IF r = k THEN q ELSE request[r]
    <2>1. request' = [request EXCEPT ![k] = q]
      BY <1>2, <1>3 DEF o, q
    <2> QED
      BY <1>1, <1>2, <1>6, <2>1
  <1>8. ASSUME NEW d \in DOMAIN row
        PROVE  /\ row'[d] \in DataRows
               /\ row'[d].kind = row[d].kind /\ row'[d].e = row[d].e /\ row'[d].open = row[d].open
               /\ row'[d].turn = row[d].turn /\ row'[d].spared = row[d].spared
               /\ row'[d].cust = row[d].cust \/ row'[d].cust = 0
               /\ row'[d].st = "personal" => row'[d] = row[d]
    <2> DEFINE p == row[d]
               z == [p EXCEPT !.st = "masked", !.cust = 0]
    <2>1. p \in DataRows
      BY RowIs
    <2>2. row'[d] = IF p.kind = "order" /\ p.e = e THEN z ELSE p
      BY <1>3
    <2> HIDE DEF p
    <2>3. /\ z \in DataRows /\ z.kind = p.kind /\ z.e = p.e /\ z.st = "masked" /\ z.open = p.open /\ z.turn = p.turn
          /\ z.spared = p.spared /\ z.cust = 0
      BY <2>1 DEF DataRows
    <2> HIDE DEF z
    <2>4. row'[d] = z \/ row'[d] = p
      BY <2>2
    <2> QED
      BY <2>1, <2>3, <2>4 DEF p
  <1>9. row' \in Seq(DataRows) /\ DOMAIN row' = DOMAIN row
    <2>1. row' = [d \in DOMAIN row |-> row'[d]]
      BY <1>3
    <2>2. \A d \in DOMAIN row : row'[d] \in DataRows
      BY <1>8
    <2> QED
      BY <1>1, <2>1, <2>2, RowByRow
  <1>10. \A r \in DOMAIN request : request'[r].e = request[r].e /\ request'[r].turn = request[r].turn
    BY <1>6, <1>7 DEF o
  <1>11. Grown /\ RowsAge
    BY <1>7, <1>8, <1>9, <1>10 DEF Grown, RowsAge
  <1>12. seen'.asked \in Nat /\ seen'.asked >= seen.asked
    BY <1>1
  <1>13. job' \in [Workers -> Jobs] /\ \A v \in Workers : job'[v] = IF v = w THEN Idle ELSE job[v]
    BY <1>1, IdleIs
  <1>14. ASSUME NEW r \in DOMAIN request' PROVE RequestTrue(r)'
    <2>1. CASE r # k
      <3>1. request'[r] = request[r] /\ r \in DOMAIN request /\ r # 0
        BY <1>1, <1>7, <2>1
      <3>2. request'[r].took = {}
        BY <3>1 DEF PrivacyInv, RequestTrue
      <3>3. \A v \in Workers : job'[v].r = r => job[v].r = r
        BY <1>13, <3>1, IdleIs
      <3> QED
        BY <1>11, <1>12, <3>1, <3>2, <3>3, RequestKept
    <2>2. CASE r = k
      <3>1. /\ request'[r].took = {} /\ request'[r].st = "completed" /\ request'[r].raced = request[r].raced
            /\ job[w].r = r /\ r # 0 /\ r \in DOMAIN request
        BY <1>2, <1>5, <1>6, <1>7, <2>2 DEF o, k
      <3> QED
        BY <1>11, <1>12, <1>13, <3>1, RequestDone
    <2> QED
      BY <2>1, <2>2
  <1>15. KeysOnce'
    <2>1. /\ \A f \in Emails : <<account[f], f>> \in Owned
          /\ \A d \in DOMAIN row : <<row[d].cust, row[d].e>> \in Owned
          /\ \A v \in Workers : job[v].pc # "idle" => <<job[v].a, job[v].e>> \in Owned
      BY DEF Owned
    <2>2. \A d \in DOMAIN row' : row'[d].cust = 0 \/ <<row'[d].cust, row'[d].e>> \in Owned
      BY <1>8, <1>9, <2>1
    <2>3. \A v \in Workers : job'[v].pc # "idle" => job'[v].a = 0 \/ <<job'[v].a, job'[v].e>> \in Owned
      BY <1>13, <2>1, IdleIs
    <2> QED
      BY <1>1, <2>1, <2>2, <2>3, KeysKept
  <1>16. ASSUME NEW d \in DOMAIN row' PROVE LifeTrue(d)'
    <2>1. d \in DOMAIN row /\ LifeTrue(d)
      BY <1>9 DEF PrivacyInv
    <2>2. CASE row'[d].st = "personal"
      <3>1. row'[d] = row[d]
        BY <1>8, <2>1, <2>2
      <3> QED
        BY <1>1, <2>1, <3>1 DEF LifeTrue, Lives
    <2>3. CASE row'[d].st # "personal"
      BY <2>3 DEF LifeTrue, Lives
    <2> QED
      BY <2>2, <2>3
  <1>17. \A v \in Workers : job'[v].pc \in Stages =>
           \A d \in DOMAIN row' :
              row'[d].st = "personal" /\ ~ row'[d].spared /\ row'[d].e = job'[v].e =>
                  /\ d \in DOMAIN row
                  /\ row'[d].kind = "chat" => account'[job'[v].e] = account[job'[v].e]
    BY <1>1, <1>9
  <1>18. /\ seen' \in [keys : Nat, asked : Nat, runs : [Emails -> Nat]] /\ seen'.asked = seen.asked
         /\ account' \in [Emails -> Nat] /\ desk' \in Nat
         /\ \A v \in Workers : job'[v] = job[v] \/ job'[v] = Idle
         /\ \A v \in Workers : job'[v].pc # "idle" => job'[v].spared \/ seen'.runs[job'[v].e] = seen.runs[job'[v].e]
    BY <1>1, <1>13
  <1> QED
    BY <1>7, <1>9, <1>11, <1>13, <1>14, <1>15, <1>16, <1>17, <1>18, TablesKept

(* The commit of an erasure: every row of the customer that is not marked  *)
(* is among its targets, and none of them was open when she asked.         *)
LEMMA EraseKeeps ==
    ASSUME PrivacyInv, NEW w \in Workers, Erase(w)
    PROVE  PrivacyInv'
  <1> DEFINE j == job[w]
             e == j.e
             a == j.a
             t == j.targets
             k == j.r
             runs == seen.runs
             early == {d \in t : row[d].kind = "order" /\ row[d].open /\ row[d].turn < request[k].turn}
             rows == [d \in DOMAIN row |-> IF d \notin t THEN row[d]
                                           ELSE [row[d] EXCEPT !.st = IF row[d].kind \in Retained
                                                                      THEN "masked" ELSE "gone", !.cust = 0]]
             reqs == Forget(request, a)
  <1>1. /\ job' = [job EXCEPT ![w] = Idle] /\ job \in [Workers -> Jobs] /\ desk' = desk /\ desk \in Nat
        /\ seen \in [keys : Nat, asked : Nat, runs : [Emails -> Nat]] /\ account \in [Emails -> Nat]
        /\ row \in Seq(DataRows) /\ request \in Seq(Requests) /\ j.pc = "erase"
    BY DEF Erase, Finish, PrivacyInv, PrivacyTyped
  <1>2. /\ account' = [account EXCEPT ![e] = IF account[e] = a THEN 0 ELSE account[e]]
        /\ row' = Unlink(rows, a)
        /\ seen' = [seen EXCEPT !.runs[e] = @ + 1]
    BY DEF Erase
  <1>3. request' = [reqs EXCEPT ![k].st = "completed", ![k].cust = 0, ![k].erased = TRUE,
                                ![k].took = IF j.byDesk THEN @ ELSE @ \cup early]
    BY DEF Erase
  <1>4. /\ e \in Emails /\ k \in DOMAIN request /\ request[k].e = e /\ a # 0 /\ t \subseteq DOMAIN row
        /\ j \in Jobs
    BY <1>1, JobIs DEF JobTyped, OnOne, Stages
  <1>5. a \in Nat /\ k # 0 /\ runs \in [Emails -> Nat]
    <2>1. j.a \in Nat
      <3> HIDE DEF j
      <3> QED
        BY <1>4 DEF Jobs
    <2> QED
      BY <1>1, <1>4, <2>1
  <1>6. /\ \A v \in Workers \ {w} : job[v].pc # "idle" /\ job[v].e = e => job[v].spared
        /\ \A d \in DOMAIN row : Lives(d) /\ row[d].e = e => d \in t
        /\ \A d \in t : row[d].kind = "order" /\ row[d].open => row[d].turn >= request[k].turn
    <2>1. "erase" \in Stages /\ Covered["erase"] = Kinds
      BY DEF Stages, Covered
    <2>2. \A d \in DOMAIN row : row[d].kind \in Kinds
      BY RowIs
    <2> QED
      BY <1>1, <2>1, <2>2, JobIs DEF ErasureTrue
  <1>7. early = {}
    <2>1. request[k].turn \in Nat
      BY <1>4, RequestIs
    <2>2. \A d \in t : row[d].turn \in Nat
      BY <1>4, RowIs
    <2> QED
      BY <1>6, <2>1, <2>2
  <1>8. <<a, e>> \in Owned
    BY <1>1 DEF Owned
  <1> HIDE DEF early, rows, reqs, runs
  <1>9. /\ reqs \in Seq(Requests) /\ DOMAIN reqs = DOMAIN request
        /\ \A r \in DOMAIN request :
              /\ reqs[r].e = request[r].e /\ reqs[r].st = request[r].st /\ reqs[r].turn = request[r].turn
              /\ reqs[r].erased = request[r].erased /\ reqs[r].raced = request[r].raced
              /\ reqs[r].took = request[r].took
    BY <1>1, <1>5, ForgetIs DEF reqs
  <1>10. /\ request' \in Seq(Requests) /\ DOMAIN request' = DOMAIN request
         /\ \A r \in DOMAIN request :
               /\ request'[r].e = request[r].e /\ request'[r].turn = request[r].turn
               /\ request'[r].raced = request[r].raced /\ request'[r].took = {}
               /\ IF r = k THEN request'[r].st = "completed"
                  ELSE request'[r].st = request[r].st /\ request'[r].erased = request[r].erased
    <2> DEFINE o == reqs[k]
               x == IF j.byDesk THEN o.took ELSE o.took \cup early
               q == [o EXCEPT !.st = "completed", !.cust = 0, !.erased = TRUE, !.took = x]
    <2>1. o \in Requests /\ \A r \in DOMAIN request : request[r].took = {}
      BY <1>4, <1>9 DEF PrivacyInv, RequestTrue
    <2>2. x = {}
      BY <1>4, <1>7, <1>9, <2>1
    <2>3. request' = [reqs EXCEPT ![k] = q]
      <3> DEFINE z == [o EXCEPT !.st = "completed", !.cust = 0, !.erased = TRUE]
      <3>1. request' = [reqs EXCEPT ![k] = [z EXCEPT !.took = IF j.byDesk THEN z.took ELSE z.took \cup early]]
        BY <1>3, <1>4, <1>9
      <3>2. z.took = o.took
        <4> HIDE DEF o
        <4> QED
          BY <2>1 DEF Requests
      <3>3. q = [z EXCEPT !.took = x]
        <4> HIDE DEF o, x
        <4> QED
          BY <2>1 DEF Requests
      <3>4. (IF j.byDesk THEN z.took ELSE z.took \cup early) = x
        BY <3>2
      <3> HIDE DEF z, q, x
      <3> QED
        BY <3>1, <3>3, <3>4
    <2> HIDE DEF o, x
    <2>4. /\ q \in Requests /\ q.e = o.e /\ q.turn = o.turn /\ q.raced = o.raced /\ q.took = {}
          /\ q.st = "completed"
      BY <2>1, <2>2 DEF Requests, Answers
    <2> HIDE DEF q
    <2>5. /\ request' \in Seq(Requests) /\ DOMAIN request' = DOMAIN request
          /\ \A r \in DOMAIN request : request'[r] = IF r = k THEN q ELSE reqs[r]
      BY <1>4, <1>9, <2>3, <2>4
    <2> QED
      BY <1>9, <2>1, <2>4, <2>5 DEF o
  <1>11. ASSUME NEW d \in DOMAIN row
         PROVE  /\ rows[d] \in DataRows
                /\ rows[d].kind = row[d].kind /\ rows[d].e = row[d].e /\ rows[d].open = row[d].open
                /\ rows[d].turn = row[d].turn /\ rows[d].spared = row[d].spared /\ rows[d].epoch = row[d].epoch
                /\ rows[d].cust = row[d].cust \/ (d \in t /\ rows[d].cust = 0)
                /\ rows[d].st = "personal" => row[d].st = "personal" /\ d \notin t
    <2> DEFINE p == row[d]
               m == IF p.kind \in Retained THEN "masked" ELSE "gone"
               z == [p EXCEPT !.st = m, !.cust = 0]
    <2>1. p \in DataRows /\ m \in {"masked", "gone"}
      BY RowIs
    <2>2. rows[d] = IF d \notin t THEN p ELSE z
      BY DEF rows
    <2> HIDE DEF p, m
    <2>3. /\ z \in DataRows /\ z.kind = p.kind /\ z.e = p.e /\ z.st = m /\ z.open = p.open /\ z.turn = p.turn
          /\ z.spared = p.spared /\ z.cust = 0 /\ z.epoch = p.epoch
      BY <2>1 DEF DataRows
    <2> HIDE DEF z
    <2>4. (d \in t /\ rows[d] = z) \/ (d \notin t /\ rows[d] = p)
      BY <2>2
    <2> QED
      BY <2>1, <2>3, <2>4 DEF p
  <1>12. rows \in Seq(DataRows) /\ DOMAIN rows = DOMAIN row
    <2>1. rows = [d \in DOMAIN row |-> rows[d]]
      BY DEF rows
    <2>2. \A d \in DOMAIN row : rows[d] \in DataRows
      BY <1>11
    <2> QED
      BY <1>1, <2>1, <2>2, RowByRow
  <1>13. /\ row' \in Seq(DataRows) /\ DOMAIN row' = DOMAIN rows
         /\ \A d \in DOMAIN rows :
               /\ row'[d].kind = rows[d].kind /\ row'[d].e = rows[d].e /\ row'[d].st = rows[d].st
               /\ row'[d].open = rows[d].open /\ row'[d].turn = rows[d].turn /\ row'[d].epoch = rows[d].epoch
               /\ row'[d].spared = rows[d].spared /\ row'[d].cust = IF rows[d].cust = a THEN 0 ELSE rows[d].cust
    <2> DEFINE u == Unlink(rows, a)
    <2>1. /\ u \in Seq(DataRows) /\ DOMAIN u = DOMAIN rows
          /\ \A d \in DOMAIN rows :
                /\ u[d].kind = rows[d].kind /\ u[d].e = rows[d].e /\ u[d].st = rows[d].st /\ u[d].open = rows[d].open
                /\ u[d].turn = rows[d].turn /\ u[d].epoch = rows[d].epoch /\ u[d].spared = rows[d].spared
                /\ u[d].cust = IF rows[d].cust = a THEN 0 ELSE rows[d].cust
      <3> HIDE DEF a
      <3> QED
        BY <1>5, <1>12, UnlinkIs
    <2> HIDE DEF u
    <2>2. row' = u
      BY <1>2 DEF u
    <2> QED
      BY <2>1, <2>2
  <1>14. /\ DOMAIN row' = DOMAIN row
         /\ \A d \in DOMAIN row :
               /\ row'[d].kind = row[d].kind /\ row'[d].e = row[d].e /\ row'[d].open = row[d].open
               /\ row'[d].turn = row[d].turn /\ row'[d].spared = row[d].spared /\ row'[d].epoch = row[d].epoch
               /\ row'[d].st = "personal" => row[d].st = "personal" /\ d \notin t
    BY <1>11, <1>12, <1>13
  <1>15. \A d \in DOMAIN row :
            /\ row'[d].cust = row[d].cust \/ row'[d].cust = 0
            /\ d \notin t /\ row[d].cust # a => row'[d].cust = row[d].cust
    BY <1>11, <1>12, <1>13
  <1>16. Grown /\ RowsAge
    BY <1>10, <1>14 DEF Grown, RowsAge
  <1>17. /\ seen' \in [keys : Nat, asked : Nat, runs : [Emails -> Nat]] /\ seen'.asked = seen.asked
         /\ seen'.keys = seen.keys /\ \A f \in Emails : f # e => seen'.runs[f] = runs[f]
         /\ seen.asked \in Nat /\ seen'.asked >= seen.asked
    <2>1. seen' = [seen EXCEPT !.runs = [runs EXCEPT ![e] = @ + 1]]
      BY <1>2 DEF runs
    <2>2. [runs EXCEPT ![e] = @ + 1] \in [Emails -> Nat]
      BY <1>4, <1>5
    <2> DEFINE u == [runs EXCEPT ![e] = @ + 1]
    <2>3. \A f \in Emails : f # e => u[f] = runs[f]
      BY <1>5
    <2> HIDE DEF u
    <2>4. u \in [Emails -> Nat] /\ seen' = [seen EXCEPT !.runs = u]
      BY <2>1, <2>2 DEF u
    <2>5. /\ seen' \in [keys : Nat, asked : Nat, runs : [Emails -> Nat]] /\ seen'.asked = seen.asked
          /\ seen'.keys = seen.keys /\ seen'.runs = u
      BY <1>1, <2>4
    <2>6. seen.asked \in Nat
      BY <1>1
    <2> QED
      BY <2>3, <2>5, <2>6
  <1>18. job' \in [Workers -> Jobs] /\ \A v \in Workers : job'[v] = IF v = w THEN Idle ELSE job[v]
    BY <1>1, IdleIs
  <1>19. ASSUME NEW r \in DOMAIN request' PROVE RequestTrue(r)'
    <2>1. r \in DOMAIN request /\ r # 0
      BY <1>1, <1>10
    <2>2. CASE r # k
      <3>1. /\ request'[r].took = {} /\ (request[r].raced => request'[r].raced)
            /\ request'[r].erased /\ ~ request'[r].raced => request[r].erased /\ request'[r].st = request[r].st
        BY <1>10, <2>1, <2>2
      <3>2. \A v \in Workers : job'[v].r = r => job[v].r = r
        BY <1>18, <2>1, IdleIs
      <3> QED
        BY <1>16, <1>17, <2>1, <3>1, <3>2, RequestKept
    <2>3. CASE r = k
      <3>1. /\ request'[r].took = {} /\ request'[r].st = "completed" /\ request'[r].raced = request[r].raced
            /\ job[w].r = r
        BY <1>10, <2>1, <2>3
      <3> QED
        BY <1>16, <1>17, <1>18, <2>1, <3>1, RequestDone
    <2> QED
      BY <2>2, <2>3
  <1>20. /\ \A f \in Emails : <<account[f], f>> \in Owned
         /\ \A d \in DOMAIN row : <<row[d].cust, row[d].e>> \in Owned
         /\ \A v \in Workers : job[v].pc # "idle" => <<job[v].a, job[v].e>> \in Owned
    BY DEF Owned
  <1>21. /\ account' \in [Emails -> Nat]
         /\ \A f \in Emails : account'[f] = account[f] \/ (f = e /\ account'[f] = 0)
    BY <1>1, <1>2, <1>4
  <1>22. KeysOnce'
    <2>1. \A f \in Emails : account'[f] = 0 \/ <<account'[f], f>> \in Owned
      BY <1>20, <1>21
    <2>2. \A d \in DOMAIN row' : row'[d].cust = 0 \/ <<row'[d].cust, row'[d].e>> \in Owned
      BY <1>14, <1>15, <1>20
    <2>3. \A v \in Workers : job'[v].pc # "idle" => job'[v].a = 0 \/ <<job'[v].a, job'[v].e>> \in Owned
      BY <1>18, <1>20, IdleIs
    <2> QED
      BY <1>17, <2>1, <2>2, <2>3, KeysKept
  <1>23. \A d \in DOMAIN row : row[d].cust = a => row[d].e = e
    BY <1>4, <1>8, <1>20 DEF PrivacyInv, KeysOnce
  <1>24. ASSUME NEW d \in DOMAIN row, row'[d].st = "personal", ~ row'[d].spared
         PROVE  /\ row[d].st = "personal" /\ ~ row[d].spared /\ row[d].e # e /\ row'[d].cust = row[d].cust
                /\ account'[row[d].e] = account[row[d].e] /\ seen'.runs[row[d].e] = seen.runs[row[d].e]
    <2>1. row[d].st = "personal" /\ ~ row[d].spared /\ d \notin t
      BY <1>14, <1>24
    <2>2. row[d].e # e /\ row[d].e \in Emails
      BY <1>6, <2>1, RowIs DEF Lives
    <2>3. row'[d].cust = row[d].cust
      BY <1>15, <1>23, <2>1, <2>2
    <2> QED
      BY <1>17, <1>21, <2>1, <2>2, <2>3 DEF runs
  <1>25. ASSUME NEW d \in DOMAIN row' PROVE LifeTrue(d)'
    <2>1. d \in DOMAIN row /\ LifeTrue(d)
      BY <1>14 DEF PrivacyInv
    <2>2. row'[d].epoch = row[d].epoch /\ row'[d].e = row[d].e /\ row'[d].kind = row[d].kind
      BY <1>14, <2>1
    <2> QED
      BY <1>24, <2>1, <2>2 DEF LifeTrue, Lives
  <1>26. \A v \in Workers : job'[v].pc \in Stages =>
           \A d \in DOMAIN row' :
              row'[d].st = "personal" /\ ~ row'[d].spared /\ row'[d].e = job'[v].e =>
                  /\ d \in DOMAIN row
                  /\ row'[d].kind = "chat" => account'[job'[v].e] = account[job'[v].e]
    BY <1>14, <1>24
  <1>27. ASSUME NEW v \in Workers, job'[v].pc # "idle"
         PROVE  job'[v].spared \/ seen'.runs[job'[v].e] = seen.runs[job'[v].e]
    <2>1. v # w /\ job'[v] = job[v] /\ job[v].e \in Emails
      BY <1>18, <1>27, IdleIs, JobIs DEF JobTyped
    <2> QED
      BY <1>6, <1>17, <1>27, <2>1 DEF runs
  <1>28. desk' \in Nat /\ \A v \in Workers : job'[v] = job[v] \/ job'[v] = Idle
    BY <1>1, <1>18
  <1> QED
    BY <1>10, <1>13, <1>16, <1>17, <1>18, <1>19, <1>21, <1>22, <1>25, <1>26, <1>27, <1>28, TablesKept

LEMMA PrivacyInit ==
    ASSUME Init
    PROVE  PrivacyInv
  <1>1. /\ account = [e \in Emails |-> 0] /\ row = <<>> /\ request = <<>> /\ desk = 0
        /\ job = [w \in Workers |-> Idle] /\ seen = [keys |-> 0, asked |-> 0, runs |-> [e \in Emails |-> 0]]
    BY DEF Init, Observed
  <1>2. DOMAIN row = {} /\ DOMAIN request = {} /\ row \in Seq(DataRows) /\ request \in Seq(Requests)
    BY <1>1
  <1>3. /\ job \in [Workers -> Jobs]
        /\ \A w \in Workers : job[w].pc = "idle" /\ job[w].r = 0 /\ job[w].targets = {}
    BY <1>1, IdleIs
  <1>4. seen \in [keys : Nat, asked : Nat, runs : [Emails -> Nat]] /\ seen.keys = 0
    BY <1>1
  <1>5. \A w \in Workers : JobTyped(w) /\ CallTrue(w) /\ ErasureTrue(w) /\ AskTrue(w)
    BY <1>3 DEF JobTyped, CallTrue, ErasureTrue, AskTrue, OnOne, Stages
  <1>6. PrivacyTyped
    BY <1>1, <1>2, <1>3, <1>4, <1>5 DEF PrivacyTyped
  <1>7. KeysOnce
    <2>1. \A p \in Owned : p[1] = 0
      BY <1>1, <1>2, <1>3 DEF Owned
    <2> QED
      BY <1>4, <2>1 DEF KeysOnce
  <1> QED
    BY <1>2, <1>5, <1>6, <1>7 DEF PrivacyInv

LEMMA PrivacyStep ==
    ASSUME PrivacyInv, [Next]_vars
    PROVE  PrivacyInv'
  <1>1. CASE UNCHANGED vars
    <2>1. /\ row' = row /\ account' = account /\ desk' = desk /\ seen' = seen /\ request' = request /\ job' = job
      BY <1>1 DEF vars
    <2> QED
      BY <2>1 DEF PrivacyInv, PrivacyTyped, JobTyped, KeysOnce, Owned, LifeTrue, Lives, CallTrue, ErasureTrue, AskTrue,
                  RequestTrue
  <1>2. CASE \E w \in Workers, e \in Emails : PlaceOrder(w, e) \/ Ask(w, e)
    BY <1>2, PlaceOrderKeeps, AskErasureKeeps
  <1>3. CASE \E w \in Workers, d \in DOMAIN row : IssueInvoice(w, d) \/ OpenReturn(w, d)
    BY <1>3, CopyKeeps DEF IssueInvoice, OpenReturn
  <1>4. CASE \E w \in Workers, r \in DOMAIN request : Confirm(w, r) \/ Run(w, r) \/ Cancel(w, r)
    <2> PICK w \in Workers, r \in DOMAIN request : Confirm(w, r) \/ Run(w, r) \/ Cancel(w, r)
      BY <1>4
    <2>1. CASE Confirm(w, r)
      BY <2>1, TakeKeeps DEF Confirm
    <2>2. CASE Run(w, r)
      BY <2>2, TakeKeeps DEF Run
    <2>3. CASE Cancel(w, r)
      BY <2>3, TakeKeeps DEF Cancel, MayCancel
    <2> QED
      BY <2>1, <2>2, <2>3
  <1>5. CASE \E w \in Workers : CommitOrder(w) \/ CommitCopy(w) \/ CommitAsk(w) \/ CommitCancel(w) \/ CommitConfirm(w)
    BY <1>5, CommitOrderKeeps, CommitCopyKeeps, CommitAskKeeps, CommitCancelKeeps, CommitConfirmKeeps
  <1>6. CASE \E w \in Workers : Lookup(w) \/ EraseGone(w) \/ Erase(w) \/ Fail(w)
    BY <1>6, LookupKeeps, EraseGoneKeeps, EraseKeeps, FailKeeps
  <1>7. CASE \E w \in Workers :
           \/ AnonymizeOrders(w) \/ AnonymizeInvoices(w) \/ AnonymizeReturns(w)
           \/ AnonymizeReviews(w) \/ DeleteChat(w) \/ DeleteMisc(w)
    BY <1>7, StatementsKeep
  <1>8. CASE \E e \in Emails : WriteReview(e) \/ Subscribe(e) \/ OpenChat(e)
    <2> PICK e \in Emails : WriteReview(e) \/ Subscribe(e) \/ OpenChat(e)
      BY <1>8
    <2>1. 0 \in Nat /\ account[e] \in Nat /\ {"review", "subscription", "chat"} \subseteq Kinds
      BY DEF PrivacyInv, PrivacyTyped, Kinds
    <2>2. CASE WriteReview(e)
      BY <2>1, <2>2, WriteKeeps DEF WriteReview
    <2>3. CASE Subscribe(e)
      BY <2>1, <2>3, WriteKeeps DEF Subscribe
    <2>4. CASE OpenChat(e)
      BY <2>1, <2>4, WriteKeeps DEF OpenChat
    <2> QED
      BY <2>2, <2>3, <2>4
  <1>9. CASE \E e \in Emails : DeleteCustomer(e)
    BY <1>9, DeleteCustomerKeeps
  <1>10. CASE \E d \in DOMAIN row, on \in BOOLEAN : SetOpen(d, on)
    BY <1>10, SetOpenKeeps
  <1> QED
    BY <1>1, <1>2, <1>3, <1>4, <1>5, <1>6, <1>7, <1>8, <1>9, <1>10 DEF Next

LEMMA PrivacyHolds == Spec => []PrivacyInv
  <1>1. Init => PrivacyInv
    BY PrivacyInit
  <1>2. PrivacyInv /\ [Next]_vars => PrivacyInv'
    BY PrivacyStep
  <1> QED
    BY <1>1, <1>2, PTL DEF Spec

(* After an erasure no row from before it holds a name, an e-mail, a phone *)
(* or an address of the customer, but those that met it: every erasure,    *)
(* whatever else is under way, ends with all of the customer's unmarked    *)
(* rows among its targets.  Masked orders and invoices keep the tax number *)
(* and the company, orders the note as well; no other row keeps anything   *)
(* (privacy.py:223-326).                                                   *)
THEOREM ErasuresComplete == Spec => []NothingLeft
  <1>1. PrivacyInv => NothingLeft
    <2> SUFFICES ASSUME PrivacyInv, NEW d \in DOMAIN row,
                        row[d].epoch < seen.runs[row[d].e], ~ row[d].spared
                 PROVE  Holds(d) \subseteq Stays(row[d].kind)
      BY DEF NothingLeft
    <2>1. row[d].epoch \in Nat /\ seen.runs[row[d].e] \in Nat
      BY RowIs DEF PrivacyInv, PrivacyTyped
    <2>2. row[d].st # "personal"
      <3> SUFFICES ASSUME row[d].st = "personal" PROVE FALSE
        OBVIOUS
      <3>1. row[d].epoch >= seen.runs[row[d].e]
        BY DEF PrivacyInv, LifeTrue, Lives
      <3> QED
        BY <2>1, <3>1
    <2>3. Holds(d) = Stays(row[d].kind) \/ Holds(d) = {}
      BY <2>2 DEF Holds
    <2> QED
      BY <2>3
  <1> QED
    BY <1>1, PrivacyHolds, PTL

(* No erasure a customer confirms takes an order that was open when she    *)
(* asked for it.                                                           *)
THEOREM OpenOrdersStay == Spec => []OpenOnlyIfLater
  <1>1. PrivacyInv => OpenOnlyIfLater
    BY DEF PrivacyInv, RequestTrue, OpenOnlyIfLater
  <1> QED
    BY <1>1, PrivacyHolds, PTL

(* A cancelled request has erased nothing, unless calls on it overlapped.  *)
THEOREM CancelledKeeps == Spec => []CancelledMeansKept
  <1>1. PrivacyInv => CancelledMeansKept
    BY DEF PrivacyInv, RequestTrue, CancelledMeansKept
  <1> QED
    BY <1>1, PrivacyHolds, PTL

(* A member's export shows every row with her e-mail, but the chats of a   *)
(* customer that was deleted.                                              *)
THEOREM ExportsComplete == Spec => []ExportComplete
  <1>1. PrivacyInv => ExportComplete
    <2> SUFFICES ASSUME PrivacyInv, NEW e \in Emails, NEW d \in DOMAIN row, account[e] # 0, row[d].e = e,
                        row[d].st = "personal", ~ row[d].spared
                 PROVE  d \in Exported(e)
      BY DEF ExportComplete, PrivacyInv, PrivacyTyped
    <2>1. row[d].kind = "chat" => row[d].cust = account[e]
      BY DEF PrivacyInv, LifeTrue, Lives
    <2> QED
      BY <2>1 DEF Exported
  <1> QED
    BY <1>1, PrivacyHolds, PTL

-----------------------------------------------------------------------------
(* Scores.                                                                 *)

(* Multiples of a power of two differ modulo nine, but those of 0 and 9.   *)
LEMMA Powers ==
    ASSUME NEW i \in 1..9
    PROVE  2 ^ (10 - i) \in {2, 4, 8, 16, 32, 64, 128, 256, 512}
  <1>1. i = 1 \/ i = 2 \/ i = 3 \/ i = 4 \/ i = 5 \/ i = 6 \/ i = 7 \/ i = 8 \/ i = 9
    OBVIOUS
  <1>2. CASE i = 1 BY <1>2
  <1>3. CASE i = 2 BY <1>3
  <1>4. CASE i = 3 BY <1>4
  <1>5. CASE i = 4 BY <1>5
  <1>6. CASE i = 5 BY <1>6
  <1>7. CASE i = 6 BY <1>7
  <1>8. CASE i = 7 BY <1>8
  <1>9. CASE i = 8 BY <1>9
  <1>10. CASE i = 9 BY <1>10
  <1> QED
    BY <1>1, <1>2, <1>3, <1>4, <1>5, <1>6, <1>7, <1>8, <1>9, <1>10

(* At every place of a tax number two digits weigh differently: that is    *)
(* what the 9 for a 0 is for (gib.py).                                     *)
LEMMA WeighedTells ==
    ASSUME NEW i \in 1..9, NEW v \in 0..9, NEW w \in 0..9
    PROVE  Weighed(v, i) \in 0..9 /\ (Weighed(v, i) = Weighed(w, i) => v = w)
  <1> DEFINE m == 2 ^ (10 - i)
             s == (v + 10 - i) % 10
             t == (w + 10 - i) % 10
  <1>1. m \in {2, 4, 8, 16, 32, 64, 128, 256, 512}
    BY Powers
  <1>2. s \in 0..9 /\ t \in 0..9 /\ (s = t => v = w)
    OBVIOUS
  <1>3. /\ Weighed(v, i) = IF s # 0 /\ (s * m) % 9 = 0 THEN 9 ELSE (s * m) % 9
        /\ Weighed(w, i) = IF t # 0 /\ (t * m) % 9 = 0 THEN 9 ELSE (t * m) % 9
    BY DEF Weighed
  <1> HIDE DEF m, s, t
  <1>4. (s * m) % 9 \in 0..8 /\ (t * m) % 9 \in 0..8 /\ (s = 0 => (s * m) % 9 = 0) /\ (t = 0 => (t * m) % 9 = 0)
    BY <1>1, <1>2
  <1> QED
    BY <1>1, <1>2, <1>3, <1>4, Times

(* A personal tax number with a wrong digit is refused.                    *)
LEMMA TcknTells ==
    ASSUME NEW d \in [1..11 -> 0..9], NEW i, i \in 1..11, NEW x \in 0..9, x # d[i], ValidTckn(d)
    PROVE  ~ ValidTckn([d EXCEPT ![i] = x])
  <1> DEFINE e == [d EXCEPT ![i] = x]
             Odd == {1, 3, 5, 7, 9}
             Even == {2, 4, 6, 8}
             o == SumFunctionOnSet(d, Odd)
             n == SumFunctionOnSet(d, Even)
             t == SumFunctionOnSet(d, 1..10)
             p == SumFunctionOnSet(e, Odd)
             m == SumFunctionOnSet(e, Even)
             u == SumFunctionOnSet(e, 1..10)
  <1>1. IsFiniteSet(Odd) /\ IsFiniteSet(Even) /\ IsFiniteSet(1..10)
        /\ Odd \in SUBSET (1..11) /\ Even \in SUBSET (1..11) /\ 1..10 \in SUBSET (1..11)
    <2>1. IsFiniteSet(1..10)
      BY 1 \in Int, 10 \in Int, FS_Interval
    <2>2. Odd \subseteq 1..10 /\ Even \subseteq 1..10
      OBVIOUS
    <2>3. IsFiniteSet(Odd) /\ IsFiniteSet(Even)
      <3> HIDE DEF Odd, Even
      <3> QED
        BY <2>1, <2>2, FS_Subset
    <2> QED
      BY <2>1, <2>3
  <1>0. /\ e \in [1..11 -> 0..9] /\ e[i] = x /\ (\A k \in 1..11 : k # i => e[k] = d[k])
        /\ d[i] \in 0..9 /\ d[10] \in 0..9 /\ d[11] \in 0..9
    OBVIOUS
  <1> HIDE DEF e, Odd, Even
  <1>2. o \in Int /\ (i \in Odd => p = o - d[i] + e[i]) /\ (i \notin Odd => p = o)
    <2>1. IsFiniteSet(Odd) /\ \A k \in Odd : d[k] \in Int /\ e[k] \in Int /\ (k # i => d[k] = e[k])
      BY <1>0, <1>1
    <2>2. o \in Int
      BY ONLY <2>1, SumInt
    <2>3. i \in Odd => p = o - d[i] + e[i]
      BY ONLY <2>1, SumChange
    <2>4. i \notin Odd => p = o
      <3>1. i \notin Odd => \A k \in Odd : e[k] = d[k]
        BY <2>1
      <3> QED
        BY ONLY <2>1, <3>1, SumSame
    <2> QED
      BY <2>2, <2>3, <2>4
  <1>3. n \in Int /\ (i \in Even => m = n - d[i] + e[i]) /\ (i \notin Even => m = n)
    <2>1. IsFiniteSet(Even) /\ \A k \in Even : d[k] \in Int /\ e[k] \in Int /\ (k # i => d[k] = e[k])
      BY <1>0, <1>1
    <2>2. n \in Int
      BY ONLY <2>1, SumInt
    <2>3. i \in Even => m = n - d[i] + e[i]
      BY ONLY <2>1, SumChange
    <2>4. i \notin Even => m = n
      <3>1. i \notin Even => \A k \in Even : e[k] = d[k]
        BY <2>1
      <3> QED
        BY ONLY <2>1, <3>1, SumSame
    <2> QED
      BY <2>2, <2>3, <2>4
  <1>4. t \in Int /\ (i \in 1..10 => u = t - d[i] + e[i]) /\ (i \notin 1..10 => u = t)
    <2> DEFINE Ten == 1..10
    <2>1. IsFiniteSet(Ten) /\ \A k \in Ten : d[k] \in Int /\ e[k] \in Int /\ (k # i => d[k] = e[k])
      BY <1>0, <1>1
    <2> HIDE DEF Ten
    <2>2. SumFunctionOnSet(d, Ten) \in Int
      BY ONLY <2>1, SumInt
    <2>3. i \in Ten => SumFunctionOnSet(e, Ten) = SumFunctionOnSet(d, Ten) - d[i] + e[i]
      BY ONLY <2>1, SumChange
    <2>4. i \notin Ten => SumFunctionOnSet(e, Ten) = SumFunctionOnSet(d, Ten)
      <3>1. i \notin Ten => \A k \in Ten : e[k] = d[k]
        BY <2>1
      <3> QED
        BY ONLY <2>1, <3>1, SumSame
    <2> QED
      BY <2>2, <2>3, <2>4 DEF Ten
  <1>5. /\ (o * 7 - n) % 10 = d[10] /\ t % 10 = d[11]
        /\ ValidTckn(e) => (p * 7 - m) % 10 = e[10] /\ u % 10 = e[11]
    BY DEF ValidTckn, Odd, Even
  <1> SUFFICES ASSUME ValidTckn(e) PROVE FALSE
    BY DEF e
  <1> HIDE DEF o, n, t, p, m, u
  <1>7. CASE i \in Odd
    <2>1. i \notin Even /\ i # 10
      BY <1>7 DEF Odd, Even
    <2>2. (o * 7 - n + 7 * (e[i] - d[i])) % 10 = (o * 7 - n) % 10 /\ o * 7 - n \in Int
      BY <1>0, <1>2, <1>3, <1>5, <1>7, <2>1
    <2> QED
      BY <1>0, <2>2, TimesSeven
  <1>8. CASE i \in Even
    <2>1. i \notin Odd /\ i # 10
      BY <1>8 DEF Odd, Even
    <2>2. (o * 7 - n + d[i] - e[i]) % 10 = (o * 7 - n) % 10 /\ o * 7 - n \in Int
      BY <1>0, <1>2, <1>3, <1>5, <1>8, <2>1
    <2> QED
      BY <1>0, <2>2
  <1>9. CASE i = 10
    <2>1. i \notin Odd /\ i \notin Even
      BY <1>9 DEF Odd, Even
    <2> QED
      BY <1>0, <1>2, <1>3, <1>5, <1>9, <2>1
  <1>10. CASE i = 11
    BY <1>0, <1>4, <1>5, <1>10
  <1> QED
    BY <1>7, <1>8, <1>9, <1>10 DEF Odd, Even

(* A company's tax number with a wrong digit is refused.                   *)
LEMMA VknTells ==
    ASSUME NEW d \in [1..10 -> 0..9], NEW i, i \in 1..10, NEW x \in 0..9, x # d[i], ValidVkn(d)
    PROVE  ~ ValidVkn([d EXCEPT ![i] = x])
  <1> DEFINE e == [d EXCEPT ![i] = x]
             f == [k \in 1..9 |-> Weighed(d[k], k)]
             g == [k \in 1..9 |-> Weighed(e[k], k)]
             s == SumFunctionOnSet(f, 1..9)
             t == SumFunctionOnSet(g, 1..9)
  <1>1. e[i] = x /\ (\A k \in 1..10 : e[k] \in 0..9 /\ d[k] \in 0..9 /\ (k # i => e[k] = d[k]))
    OBVIOUS
  <1>2. \A k \in 1..9 : /\ f[k] \in 0..9 /\ g[k] \in 0..9 /\ (k # i => f[k] = g[k])
                        /\ k = i => f[k] # g[k]
    <2> SUFFICES ASSUME NEW k \in 1..9
                 PROVE  /\ Weighed(d[k], k) \in 0..9 /\ Weighed(e[k], k) \in 0..9
                        /\ k # i => Weighed(d[k], k) = Weighed(e[k], k)
                        /\ k = i => Weighed(d[k], k) # Weighed(e[k], k)
      OBVIOUS
    <2>1. d[k] \in 0..9 /\ e[k] \in 0..9 /\ (k # i => e[k] = d[k]) /\ (k = i => e[k] # d[k])
      BY <1>1
    <2> HIDE DEF e
    <2> QED
      BY <2>1, WeighedTells
  <1>3. (10 - (s % 10)) % 10 = d[10] /\ (ValidVkn(e) => (10 - (t % 10)) % 10 = e[10])
    BY DEF ValidVkn
  <1>4. IsFiniteSet(1..9)
    BY 1 \in Int, 9 \in Int, FS_Interval
  <1> SUFFICES ASSUME ValidVkn(e) PROVE FALSE
    OBVIOUS
  <1> HIDE DEF e, f, g
  <1>5. s \in Int /\ (i \in 1..9 => t = s - f[i] + g[i]) /\ (i = 10 => t = s)
    <2>1. s \in Int
      BY <1>2, <1>4, SumInt
    <2>2. i \in 1..9 => t = s - f[i] + g[i]
      <3>1. \A k \in 1..9 : f[k] \in Int /\ g[k] \in Int /\ (k # i => f[k] = g[k])
        BY <1>2
      <3> DEFINE N == 1..9
      <3>2. IsFiniteSet(N) /\ \A k \in N : f[k] \in Int /\ g[k] \in Int /\ (k # i => f[k] = g[k])
        BY <1>4, <3>1
      <3>3. i \in N => SumFunctionOnSet(g, N) = SumFunctionOnSet(f, N) - f[i] + g[i]
        <4> HIDE DEF N
        <4> QED
          BY ONLY <3>2, SumChange
      <3> QED
        BY <3>3
    <2>3. i = 10 => t = s
      BY <1>2, <1>4, SumSame
    <2> QED
      BY <2>1, <2>2, <2>3
  <1> HIDE DEF s, t
  <1>6. CASE i = 10
    BY <1>1, <1>3, <1>5, <1>6
  <1>7. CASE i \in 1..9
    <2>1. f[i] \in 0..9 /\ g[i] \in 0..9 /\ f[i] # g[i] /\ d[10] = e[10]
      BY <1>1, <1>2, <1>7
    <2>2. t = s - f[i] + g[i] /\ s \in Int /\ (10 - (s % 10)) % 10 = (10 - (t % 10)) % 10
      BY <1>3, <1>5, <1>7, <2>1
    <2> QED
      BY <2>1, <2>2
  <1> QED
    BY <1>6, <1>7

(* What is said of any two accepted numbers is said of a sample.           *)
THEOREM TaxNumbers ==
    ASSUME NEW n \in {10, 11}, NEW d \in [1..n -> 0..9], Len(d) = n, Classify(d) # "invalid",
           NEW i \in 1..n, NEW x \in 0..9, x # d[i]
    PROVE  Classify([d EXCEPT ![i] = x]) = "invalid"
  <1> DEFINE e == [d EXCEPT ![i] = x]
  <1>1. Len(e) = n
    <2>1. e \in Seq(0..9) /\ DOMAIN e = 1..n
      OBVIOUS
    <2> QED
      BY <2>1
  <1>2. CASE n = 11
    <2>1. ValidTckn(d)
      BY <1>2 DEF Classify
    <2>2. ~ ValidTckn(e)
      BY <1>2, <2>1, TcknTells
    <2> HIDE DEF e
    <2>3. Classify(e) = "invalid"
      BY <1>1, <1>2, <2>2 DEF Classify
    <2> QED
      BY <2>3 DEF e
  <1>3. CASE n = 10
    <2>1. ValidVkn(d)
      BY <1>3 DEF Classify
    <2>2. ~ ValidVkn(e)
      BY <1>3, <2>1, VknTells
    <2> HIDE DEF e
    <2>3. Classify(e) = "invalid"
      BY <1>1, <1>3, <2>2 DEF Classify
    <2> QED
      BY <2>3 DEF e
  <1> QED
    BY <1>2, <1>3

LEMMA WrongDigits ==
    ASSUME ScoresInit
    PROVE  WrongDigitFound
  <1> SUFFICES ASSUME sample.kind = "tax", NEW check \in [1..(sample.length - 9) -> 0..9]
               PROVE  LET d == Prefix(sample) \o check IN
                      Classify(d) # "invalid" =>
                          \A i \in DOMAIN d, x \in 0..9 : x # d[i] => Classify([d EXCEPT ![i] = x]) = "invalid"
    BY DEF WrongDigitFound
  <1> DEFINE d == Prefix(sample) \o check
             n == sample.length
  <1>1. n \in {10, 11} /\ sample.digit \in 0..9 /\ sample.rest \in 0..9
    BY ScoresAssumption DEF ScoresInit, Buyers
  <1>2. Prefix(sample) \in [1..9 -> 0..9]
    BY <1>1 DEF Prefix
  <1>3. d \in [1..n -> 0..9] /\ Len(d) = n
    <2> DEFINE k == n - 9
               p == Prefix(sample)
    <2>1. k \in Nat /\ 9 + k = n /\ check \in [1..k -> 0..9] /\ p \in [1..9 -> 0..9] /\ d = p \o check
      BY <1>1, <1>2
    <2> HIDE DEF n, d, k, p
    <2>2. p \o check \in [1..(9 + k) -> 0..9] /\ Len(p \o check) = 9 + k
      BY ONLY <2>1, Joined
    <2> QED
      BY <2>1, <2>2
  <1> HIDE DEF d, n
  <1>4. DOMAIN d = 1..n
    BY <1>3
  <1> QED
    BY <1>1, <1>3, <1>4, TaxNumbers DEF d

-----------------------------------------------------------------------------
(* A place further on is in no lower fifth.                                *)
LEMMA Fifths ==
    ASSUME NEW n \in Nat \ {0}, NEW p \in 0..n, NEW q \in 0..n, p <= q
    PROVE  Fifth(p, n) \in 1..5 /\ Fifth(p, n) <= Fifth(q, n)
  <1> DEFINE In(k, s) == (5 * k <= s * n \/ s = 5) /\ (s = 1 \/ 5 * k > (s - 1) * n)
  <1>1. ASSUME NEW k \in 0..n
        PROVE  Fifth(k, n) \in 1..5 /\ In(k, Fifth(k, n))
    <2>1. \E s \in 1..5 : In(k, s)
      <3>1. In(k, 1) \/ In(k, 2) \/ In(k, 3) \/ In(k, 4) \/ In(k, 5)
        OBVIOUS
      <3> QED
        BY <3>1
    <2> QED
      BY <2>1 DEF Fifth
  <1> DEFINE a == Fifth(p, n)
             b == Fifth(q, n)
  <1>2. a \in 1..5 /\ b \in 1..5 /\ In(p, a) /\ In(q, b)
    BY <1>1
  <1> HIDE DEF a, b
  <1>3. (a = 1 \/ a = 2 \/ a = 3 \/ a = 4 \/ a = 5) /\ (b = 1 \/ b = 2 \/ b = 3 \/ b = 4 \/ b = 5)
    BY <1>2
  <1>4. a <= b
    <2>1. CASE a = 1 BY <1>2, <2>1
    <2>2. CASE a = 2 BY <1>2, <1>3, <2>2
    <2>3. CASE a = 3 BY <1>2, <1>3, <2>3
    <2>4. CASE a = 4 BY <1>2, <1>3, <2>4
    <2>5. CASE a = 5 BY <1>2, <1>3, <2>5
    <2> QED
      BY <1>3, <2>1, <2>2, <2>3, <2>4, <2>5
  <1> QED
    BY <1>2, <1>4 DEF a, b

LEMMA Quintiles ==
    ASSUME ScoresInit
    PROVE  FairQuintiles
  <1> DEFINE v == sample.value
             n == Len(v)
             Below(i) == {k \in 1..n : v[k] <= v[i]}
             pos(i) == Cardinality(Below(i))
  <1> SUFFICES ASSUME sample.kind = "customers", NEW i \in DOMAIN v, NEW k \in DOMAIN v, v[i] <= v[k]
               PROVE  Quintile(v, i, FALSE) <= Quintile(v, k, FALSE) /\ Quintile(v, i, TRUE) >= Quintile(v, k, TRUE)
    BY DEF FairQuintiles
  <1>1. v \in Seqs(1..4, MaxCustomers)
    BY DEF ScoresInit, Buyers
  <1>2. n \in Nat \ {0} /\ DOMAIN v = 1..n /\ \A x \in 1..n : v[x] \in 1..4
    <2>1. PICK m \in 1..MaxCustomers : v \in [1..m -> 1..4]
      BY <1>1 DEF Seqs
    <2>2. m \in Nat \ {0} /\ Len(v) = m
      BY <2>1, ScoresAssumption
    <2> QED
      BY <2>1, <2>2
  <1> HIDE DEF v
  <1>3. IsFiniteSet(1..n) /\ Cardinality(1..n) = n
    <2>1. 1 \in Int /\ n \in Int /\ n - 1 + 1 = n /\ ~ (1 > n)
      BY <1>2
    <2> HIDE DEF n
    <2> QED
      BY <2>1, FS_Interval
  <1>4. Below(i) \in SUBSET Below(k) /\ Below(i) \in SUBSET (1..n) /\ Below(k) \in SUBSET (1..n)
    BY <1>2
  <1>5. pos(i) <= pos(k) /\ pos(i) \in 0..n /\ pos(k) \in 0..n
    <2> DEFINE D == 1..n
    <2>0. IsFiniteSet(D) /\ Cardinality(D) = n /\ Below(i) \in SUBSET D /\ Below(k) \in SUBSET D
      BY <1>3, <1>4
    <2> HIDE DEF D, Below, n
    <2>1. IsFiniteSet(Below(i)) /\ IsFiniteSet(Below(k)) /\ pos(i) <= n /\ pos(k) <= n
      BY <2>0, FS_Subset
    <2>2. pos(i) \in Nat /\ pos(k) \in Nat
      BY <2>1, FS_CardinalityType
    <2>3. pos(i) <= pos(k)
      BY <1>4, <2>1, FS_Subset
    <2> QED
      BY <1>2, <2>1, <2>2, <2>3
  <1>6. /\ Quintile(v, i, FALSE) = Fifth(pos(i), n) /\ Quintile(v, k, FALSE) = Fifth(pos(k), n)
        /\ Quintile(v, i, TRUE) = Fifth(n - pos(i), n) /\ Quintile(v, k, TRUE) = Fifth(n - pos(k), n)
    BY DEF Quintile
  <1> HIDE DEF n, pos
  <1>7. n - pos(i) \in 0..n /\ n - pos(k) \in 0..n /\ n - pos(k) <= n - pos(i)
    BY <1>2, <1>5
  <1>8. Fifth(pos(i), n) <= Fifth(pos(k), n)
    BY <1>2, <1>5, Fifths
  <1>9. /\ Fifth(n - pos(k), n) <= Fifth(n - pos(i), n)
        /\ Fifth(n - pos(i), n) \in 1..5 /\ Fifth(n - pos(k), n) \in 1..5
    BY <1>2, <1>7, Fifths
  <1> QED
    BY <1>6, <1>8, <1>9

LEMMA Segments ==
    ASSUME ScoresInit
    PROVE  FairSegments
  <1> SUFFICES ASSUME sample.kind = "segment",
                      NEW r \in sample.r .. 5, NEW f \in sample.f .. 5, NEW m \in sample.m .. 5
               PROVE  /\ Segment(sample.r, sample.f, sample.m) = "Champions" => Segment(r, f, m) = "Champions"
                      /\ Segment(sample.r, sample.f, sample.m) = "Loyal" => Segment(r, f, m) \in {"Loyal", "Champions"}
    BY DEF FairSegments
  <1>1. sample.r \in 1..5 /\ sample.f \in 1..5 /\ sample.m \in 1..5
    BY DEF ScoresInit, Buyers
  <1> DEFINE a == sample.r
             b == sample.f
             c == sample.m
  <1> HIDE DEF a, b, c
  <1>2. ASSUME NEW x \in 1..5, NEW y \in 1..5, NEW z \in 1..5
        PROVE  /\ Segment(x, y, z) = "Champions" <=> x >= 4 /\ y + z >= 8
               /\ Segment(x, y, z) = "Loyal" <=> x = 3 /\ y + z >= 8
    BY DEF Segment
  <1>3. r \in 1..5 /\ f \in 1..5 /\ m \in 1..5 /\ r >= a /\ f >= b /\ m >= c
    BY <1>1 DEF a, b, c
  <1>4. a \in 1..5 /\ b \in 1..5 /\ c \in 1..5
    BY <1>1 DEF a, b, c
  <1>5. /\ Segment(a, b, c) = "Champions" => Segment(r, f, m) = "Champions"
        /\ Segment(a, b, c) = "Loyal" => Segment(r, f, m) \in {"Loyal", "Champions"}
    BY <1>2, <1>3, <1>4
  <1> QED
    BY <1>5 DEF a, b, c

LEMMA Values ==
    ASSUME ScoresInit
    PROVE  FairValues
  <1> SUFFICES ASSUME sample.kind = "life", NEW t \in Buyers, Span(t) = Span(sample), t.last <= sample.last,
                      t.orders >= sample.orders, t.money >= sample.money
               PROVE  Value(t) >= Value(sample)
    BY DEF FairValues
  <1>1. sample \in Buyers
    BY DEF ScoresInit, Buyers
  <1>2. \A c \in Buyers : /\ c.last \in Nat /\ c.orders \in Nat /\ c.money \in Nat
                         /\ c.first \in Nat /\ c.last <= c.first
    <2> SUFFICES ASSUME NEW c \in Buyers
                 PROVE  c.last \in Nat /\ c.orders \in Nat /\ c.money \in Nat /\ c.first \in Nat /\ c.last <= c.first
      OBVIOUS
    <2>1. c.last \in Ages /\ c.first \in Ages /\ c.orders \in 1..3 /\ c.money \in Spread /\ c.last <= c.first
      BY DEF Buyers
    <2>2. \A x \in Ages : x \in Nat
      BY DEF Ages
    <2>3. c.orders \in Nat
      BY <2>1
    <2>4. c.money \in Nat
      BY <2>1, ScoresAssumption
    <2> QED
      BY <2>1, <2>2, <2>3, <2>4, Zenon
  <1>3. Span(sample) \in Nat
    BY <1>1, <1>2 DEF Span
  <1>4. Lifetime(t) \in {1, 2, 3} /\ Lifetime(sample) \in {1, 2, 3} /\ Lifetime(t) >= Lifetime(sample)
    BY <1>1, <1>2, <1>3 DEF Lifetime
  <1> DEFINE a == Lifetime(t)
             b == Lifetime(sample)
             x == sample.money
             y == t.money
  <1>5. a \in {1, 2, 3} /\ b \in {1, 2, 3} /\ a >= b /\ y \in Nat /\ x \in Nat /\ y >= x
    BY <1>1, <1>2, <1>4
  <1> HIDE DEF a, b, x, y
  <1>6. y * 365 * a >= x * 365 * b
    <2>1. CASE a = 1 BY <1>5, <2>1
    <2>2. CASE a = 2 BY <1>5, <2>2
    <2>3. CASE a = 3 BY <1>5, <2>3
    <2> QED
      BY <1>5, <2>1, <2>2, <2>3
  <1> QED
    BY <1>6 DEF Value, a, b, x, y

(* Products that sell better come earlier, and share no more than later    *)
(* ones.                                                                   *)
LEMMA Ordered ==
    ASSUME NEW rev, \A k \in DOMAIN rev : rev[k] \in Nat, DOMAIN rev \in SUBSET Nat
    PROVE  /\ \A i \in DOMAIN rev : UpTo(rev, i) \in SUBSET (DOMAIN rev) /\ i \in UpTo(rev, i)
           /\ \A i, k \in DOMAIN rev : k \notin UpTo(rev, i) => i \in UpTo(rev, k) /\ UpTo(rev, i) \subseteq UpTo(rev, k)
           /\ \A i, k \in DOMAIN rev : rev[i] > rev[k] => UpTo(rev, i) \subseteq UpTo(rev, k)
  <1>1. \A k \in DOMAIN rev : k \in Nat /\ rev[k] \in Nat
    OBVIOUS
  <1>2. \A i \in DOMAIN rev : UpTo(rev, i) \in SUBSET (DOMAIN rev) /\ i \in UpTo(rev, i)
    BY <1>1 DEF UpTo
  <1>3. \A i, k \in DOMAIN rev : k \notin UpTo(rev, i) => i \in UpTo(rev, k)
    BY <1>1 DEF UpTo
  <1>4. \A i, k \in DOMAIN rev : k \notin UpTo(rev, i) => UpTo(rev, i) \subseteq UpTo(rev, k)
    BY <1>1 DEF UpTo
  <1>5. \A i, k \in DOMAIN rev : rev[i] > rev[k] => UpTo(rev, i) \subseteq UpTo(rev, k)
    BY <1>1 DEF UpTo
  <1> QED
    BY <1>2, <1>3, <1>4, <1>5

(* Of some products, one is the last by revenue.                           *)
LEMMA LastOne ==
    ASSUME NEW rev, \A k \in DOMAIN rev : rev[k] \in Nat, DOMAIN rev \in SUBSET Nat, IsFiniteSet(DOMAIN rev),
           NEW A \in SUBSET (DOMAIN rev), A # {}
    PROVE  \E i \in A : A \subseteq UpTo(rev, i)
  <1> DEFINE D == DOMAIN rev
             After == {D \ UpTo(rev, i) : i \in A}
  <1>1. After \in SUBSET SUBSET D /\ After # {}
    OBVIOUS
  <1>2. PICK s \in After : \A t \in SUBSET s : t # s => t \notin After
    <2> HIDE DEF D, After
    <2>1. IsFiniteSet(D)
      BY DEF D
    <2> QED
      BY <1>1, <2>1, LeastSubset
  <1>3. PICK i \in A : s = D \ UpTo(rev, i)
    BY <1>2
  <1>4. ASSUME NEW k \in A, k \notin UpTo(rev, i)
        PROVE  FALSE
    <2>1. UpTo(rev, i) \subseteq UpTo(rev, k) /\ k \in UpTo(rev, k) /\ k \in D /\ i \in D
      BY <1>4, Ordered
    <2>2. D \ UpTo(rev, k) \in SUBSET s /\ k \in s /\ k \notin D \ UpTo(rev, k)
      BY <1>3, <1>4, <2>1
    <2>3. D \ UpTo(rev, k) \in After
      OBVIOUS
    <2> QED
      BY <1>2, <2>2, <2>3
  <1> QED
    BY <1>4

(* Of products each of which ends within a share, all are within it.       *)
LEMMA WithinShare ==
    ASSUME NEW rev, \A k \in DOMAIN rev : rev[k] \in Nat, DOMAIN rev \in SUBSET Nat, IsFiniteSet(DOMAIN rev),
           NEW A \in SUBSET (DOMAIN rev), NEW share \in Nat,
           \A i \in A : 100 * Total(rev, UpTo(rev, i)) <= share
    PROVE  100 * Total(rev, A) <= share
  <1>1. CASE A = {}
    <2>1. SumFunctionOnSet(rev, {}) = 0
      BY FS_EmptySet, SumZero
    <2> QED
      BY <1>1, <2>1 DEF Total
  <1>2. CASE A # {}
    <2>1. PICK i \in A : A \subseteq UpTo(rev, i)
      BY <1>2, LastOne
    <2> DEFINE S == UpTo(rev, i)
    <2>2. S \in SUBSET (DOMAIN rev) /\ A \in SUBSET S
      BY <2>1, Ordered
    <2>3. 100 * SumFunctionOnSet(rev, S) <= share
      BY <2>1 DEF Total
    <2> HIDE DEF S
    <2>4. IsFiniteSet(S) /\ IsFiniteSet(A) /\ (\A x \in S : rev[x] \in Nat) /\ (\A x \in S : rev[x] \in Int)
          /\ (\A x \in A : rev[x] \in Int)
      BY <2>2, FS_Subset
    <2>5. SumFunctionOnSet(rev, A) <= SumFunctionOnSet(rev, S)
      BY <2>2, <2>4, SumSubset
    <2>6. SumFunctionOnSet(rev, A) \in Int /\ SumFunctionOnSet(rev, S) \in Int
      BY <2>4, SumInt
    <2> QED
      BY <2>3, <2>5, <2>6 DEF Total
  <1> QED
    BY <1>1, <1>2

LEMMA Classes ==
    ASSUME ScoresInit
    PROVE  FairClasses
  <1> SUFFICES ASSUME sample.kind = "products" PROVE FairClasses
    BY DEF FairClasses
  <1> DEFINE rev == sample.revenue
             D == DOMAIN rev
             all == Total(rev, D)
             In(classes) == {i \in D : Class(rev, i) \in classes}
             part(i) == Total(rev, UpTo(rev, i))
  <1>1. rev \in Seqs(Revenues, MaxProducts)
    BY DEF ScoresInit, Buyers
  <1>2. PICK m \in 1..MaxProducts : rev \in [1..m -> Revenues]
    BY <1>1 DEF Seqs
  <1> HIDE DEF rev
  <1>3. D = 1..m /\ m \in Nat /\ \A k \in D : rev[k] \in Nat
    <2>1. m \in Nat /\ Revenues \subseteq Nat
      BY ScoresAssumption
    <2> QED
      BY <1>2, <2>1
  <1>4. IsFiniteSet(D) /\ D \in SUBSET Nat
    <2>1. 1 \in Int /\ m \in Int
      BY <1>3
    <2>2. IsFiniteSet(1..m)
      BY <2>1, FS_Interval
    <2> QED
      BY <1>3, <2>2
  <1>5. ASSUME NEW S \in SUBSET D
        PROVE  IsFiniteSet(S) /\ Total(rev, S) \in Nat
    <2>1. IsFiniteSet(S) /\ (\A x \in S : rev[x] \in Int) /\ (\A x \in S : rev[x] >= 0)
      BY <1>3, <1>4, FS_Subset
    <2>2. SumFunctionOnSet(rev, S) \in Int /\ SumFunctionOnSet(rev, S) >= 0
      BY <2>1, SumInt
    <2> QED
      BY <2>1, <2>2 DEF Total
  <1>6. all \in Nat
    <2> HIDE DEF D
    <2> QED
      BY <1>5
  <1>7. \A i \in D : UpTo(rev, i) \in SUBSET D /\ part(i) \in Nat
    <2>1. \A i \in D : UpTo(rev, i) \in SUBSET D
      BY <1>3, <1>4, Ordered
    <2> HIDE DEF D
    <2> QED
      BY <1>5, <2>1
  <1> HIDE DEF D, all, part
  <1>8. \A i \in D : /\ Class(rev, i) = "A" <=> 100 * part(i) <= 80 * all
                     /\ Class(rev, i) = "B" <=> ~ (100 * part(i) <= 80 * all) /\ 100 * part(i) <= 95 * all
                     /\ Class(rev, i) = "C" <=> ~ (100 * part(i) <= 80 * all) /\ ~ (100 * part(i) <= 95 * all)
    BY DEF Class, D, all, part
  <1>9. 100 * Total(rev, In({"A"})) <= 80 * all
    <2> DEFINE A == In({"A"})
    <2>1. A \in SUBSET D /\ \A i \in A : 100 * part(i) <= 80 * all
      BY <1>8
    <2>2. 80 * all \in Nat
      BY <1>6
    <2> HIDE DEF A, In
    <2>3. 100 * Total(rev, A) <= 80 * all
      BY <1>3, <1>4, <2>1, <2>2, WithinShare DEF D, part
    <2> QED
      BY <2>3 DEF A
  <1>10. 100 * Total(rev, In({"A", "B"})) <= 95 * all
    <2> DEFINE A == In({"A", "B"})
    <2>1. A \in SUBSET D /\ \A i \in A : 100 * part(i) <= 95 * all
      BY <1>6, <1>7, <1>8
    <2>2. 95 * all \in Nat
      BY <1>6
    <2> HIDE DEF A, In
    <2>3. 100 * Total(rev, A) <= 95 * all
      BY <1>3, <1>4, <2>1, <2>2, WithinShare DEF D, part
    <2> QED
      BY <2>3 DEF A
  <1>11. ASSUME NEW i \in D, NEW k \in D, rev[i] > rev[k]
         PROVE  (Class(rev, k) = "A" => Class(rev, i) = "A") /\ (Class(rev, i) = "C" => Class(rev, k) = "C")
    <2>1. UpTo(rev, i) \in SUBSET UpTo(rev, k) /\ UpTo(rev, k) \in SUBSET D
      BY <1>3, <1>4, <1>7, <1>11, Ordered DEF D
    <2> DEFINE S == UpTo(rev, k)
               T == UpTo(rev, i)
    <2>2. part(i) <= part(k)
      <3>1. IsFiniteSet(S) /\ (\A x \in S : rev[x] \in Nat) /\ T \in SUBSET S
        BY <1>3, <1>5, <2>1
      <3> HIDE DEF S, T
      <3>2. SumFunctionOnSet(rev, T) <= SumFunctionOnSet(rev, S)
        BY <3>1, SumSubset
      <3> QED
        BY <3>2 DEF Total, S, T, part
    <2>3. part(i) \in Nat /\ part(k) \in Nat
      BY <1>7
    <2> QED
      BY <1>6, <1>8, <2>2, <2>3
  <1> HIDE DEF In
  <1>12. FairClasses <=> (sample.kind = "products" =>
             /\ 100 * Total(rev, In({"A"})) <= 80 * all /\ 100 * Total(rev, In({"A", "B"})) <= 95 * all
             /\ \A i, k \in D : rev[i] > rev[k] =>
                    (Class(rev, k) = "A" => Class(rev, i) = "A") /\ (Class(rev, i) = "C" => Class(rev, k) = "C"))
    BY Zenon DEF FairClasses, In, all, D, rev
  <1> QED
    BY <1>9, <1>10, <1>11, <1>12

-----------------------------------------------------------------------------
(* What is ordered is enough.                                              *)
LEMMA Reorders ==
    ASSUME ScoresInit
    PROVE  FairReorders
  <1> SUFFICES ASSUME sample.kind = "shelf", BelowPoint(sample)
               PROVE  /\ Suggested(sample) > 0
                      /\ 10 * (sample.stock + Suggested(sample)) >= ReorderPoint(sample) + sample.velocity * sample.lead
    BY DEF FairReorders
  <1>1. sample.stock \in Spread /\ sample.velocity \in Spread /\ sample.safety \in Spread /\ sample.lead \in {1, 7}
    BY DEF ScoresInit, Buyers
  <1> DEFINE s == sample.stock
             f == sample.safety
             n == sample.velocity * sample.lead
  <1>2. s \in Nat /\ f \in Nat /\ sample.velocity \in Nat
    BY <1>1, ScoresAssumption
  <1>3. n \in Nat
    <2>1. CASE sample.lead = 1 BY <1>2, <2>1
    <2>2. CASE sample.lead = 7 BY <1>2, <2>2
    <2> QED
      BY <1>1, <2>1, <2>2
  <1>4. /\ ReorderPoint(sample) = n + f /\ 10 * s < n + f
        /\ Suggested(sample) = (n + f - 10 * s + n + 9) \div 10
    <2>1. ReorderPoint(sample) = n + f
      BY DEF ReorderPoint
    <2>2. 10 * s < ReorderPoint(sample)
      BY DEF BelowPoint
    <2>3. Suggested(sample) = (ReorderPoint(sample) - 10 * s + n + 9) \div 10
      BY DEF Suggested
    <2> HIDE DEF s, f, n
    <2> QED
      BY <1>2, <1>3, <2>1, <2>2, <2>3
  <1> HIDE DEF s, f, n
  <1> DEFINE w == n + f - 10 * s + n + 9
             x == w \div 10
  <1>5. w \in Nat /\ w >= 10 /\ x \in Int /\ 10 * x + 9 >= w /\ x > 0
    BY <1>2, <1>3, <1>4
  <1>6. x > 0 /\ 10 * (s + x) >= n + f + n
    <2> HIDE DEF x
    <2> QED
      BY <1>2, <1>3, <1>5
  <1> QED
    BY <1>4, <1>6 DEF s, n

(* Points are only added.                                                  *)
LEMMA Risks ==
    ASSUME ScoresInit
    PROVE  FairRisks
  <1> DEFINE More(total, qty, recent) == [sample EXCEPT !.total = total, !.qty = qty, !.recent = recent]
  <1> SUFFICES ASSUME sample.kind = "order", NEW total \in Spread, NEW qty \in {1, 4, 5}, NEW recent \in 0..3,
                      total >= sample.total, qty >= sample.qty, recent >= sample.recent
               PROVE  Level(More(total, qty, recent)) >= Level(sample)
    <2> HIDE DEF More
    <2>1. FairRisks <=> (sample.kind = "order" =>
              \A total \in Spread, qty \in {1, 4, 5}, recent \in 0..3 :
                  total >= sample.total /\ qty >= sample.qty /\ recent >= sample.recent =>
                      Level(More(total, qty, recent)) >= Level(sample))
      BY DEF FairRisks, More
    <2> QED
      BY <2>1
  <1> DEFINE t == More(total, qty, recent)
  <1>1. sample \in [kind : {"order"}, recent : 0..3, failed : 0..2, total : Spread, average : Spread,
                    trash : BOOLEAN, dear : 0..3, qty : {1, 4, 5}]
    BY DEF ScoresInit, Buyers
  <1>2. /\ t.total = total /\ t.qty = qty /\ t.recent = recent /\ t.failed = sample.failed
        /\ t.average = sample.average /\ t.trash = sample.trash /\ t.dear = sample.dear
    BY <1>1
  <1>3. /\ sample.recent \in 0..3 /\ sample.failed \in 0..2 /\ sample.dear \in 0..3 /\ sample.qty \in {1, 4, 5}
        /\ sample.total \in Spread /\ sample.average \in Spread /\ sample.trash \in BOOLEAN
    BY <1>1
  <1>4. sample.total \in Nat /\ sample.average \in Nat /\ total \in Nat
    BY <1>3, ScoresAssumption
  <1> HIDE DEF t
  <1>5. Risk(t) \in Nat /\ Risk(sample) \in Nat /\ Risk(t) >= Risk(sample)
    BY <1>2, <1>3, <1>4 DEF Risk
  <1>6. Level(t) >= Level(sample)
    BY <1>5 DEF Level
  <1> QED
    BY <1>6 DEF t

(* A fuller cart pays no more.                                             *)
LEMMA Fees ==
    ASSUME ScoresInit
    PROVE  FairFees
  <1> DEFINE Fuller(more) == [sample EXCEPT !.subtotal = more]
  <1> SUFFICES ASSUME sample.kind = "parcel"
               PROVE  /\ sample.subtotal > 0 => (IsFree(sample) <=> Remaining(sample) = 0)
                      /\ \A more \in Spread : more >= sample.subtotal => Fee(Fuller(more)) <= Fee(sample)
    BY Zenon DEF FairFees
  <1>1. sample \in [kind : {"parcel"}, subtotal : Spread, threshold : Spread, base : Spread, heavy : 0..2]
    BY DEF ScoresInit, Buyers
  <1>2. /\ sample.subtotal \in Nat /\ sample.threshold \in Nat /\ sample.base \in Nat /\ sample.heavy \in 0..2
        /\ \A more \in Spread : more \in Nat
    BY <1>1, ScoresAssumption
  <1>3. sample.subtotal > 0 => (IsFree(sample) <=> Remaining(sample) = 0)
    BY <1>2 DEF IsFree, Remaining
  <1>4. ASSUME NEW more \in Spread, more >= sample.subtotal
        PROVE  Fee(Fuller(more)) <= Fee(sample)
    <2> DEFINE t == Fuller(more)
    <2>1. t.subtotal = more /\ t.threshold = sample.threshold /\ t.base = sample.base /\ t.heavy = sample.heavy
      BY <1>1
    <2> HIDE DEF t
    <2>2. Fee(t) <= Fee(sample)
      BY <1>2, <1>4, <2>1 DEF Fee, IsFree
    <2> QED
      BY <2>2 DEF t
  <1> QED
    BY <1>3, <1>4

(* Who orders more recently, more often or for more is in no lower fifth   *)
(* for it; a Champion or Loyal customer who gains in a score remains one   *)
(* of the two; of two customers whose orders span the same days, the one   *)
(* who ordered later, no less often and for no less is worth no less; a    *)
(* product that sells better is in no worse class, and classes A and A,B   *)
(* stay within 80 and 95 % of what is sold, however many products there    *)
(* are; what is reordered is enough; a more suspicious order is at no      *)
(* lower risk level, and a fuller cart pays no higher fee                  *)
(* (segmentation.py, forecasting.py, risk.py, shipping.py); a tax number   *)
(* with one digit mistyped is refused (gib.py:56-112).                     *)
THEOREM ScoresAreFair == ScoresSpec => []FairScores
<1>1. ScoresInit => FairScores
  BY WrongDigits, Quintiles, Segments, Values, Classes, Reorders, Risks, Fees DEF FairScores
<1>2. ScoresInit /\ [FALSE]_sample => ScoresInit'
  BY DEF ScoresInit
<1> QED
  BY <1>1, <1>2, PTL DEF ScoresSpec

-----------------------------------------------------------------------------
(* Rows of the table of distances.                                         *)

LEMMA MinIs ==
    ASSUME NEW x \in Nat, NEW y \in Nat, NEW z \in Nat
    PROVE  /\ Min({x, y, z}) \in {x, y, z}
           /\ Min({x, y, z}) <= x /\ Min({x, y, z}) <= y /\ Min({x, y, z}) <= z
  <1>1. \E m \in {x, y, z} : \A n \in {x, y, z} : m <= n
    <2>1. CASE x <= y /\ x <= z BY <2>1
    <2>2. CASE y <= x /\ y <= z BY <2>2
    <2>3. CASE z <= x /\ z <= y BY <2>3
    <2> QED
      BY <2>1, <2>2, <2>3
  <1> QED
    BY <1>1 DEF Min

(* What a row is of the row before it.                                     *)
Cost(a, letter, i) == IF a[i] = letter THEN 0 ELSE 1

RowAfter(a, n, letter, j, prev, line) ==
    /\ prev \in [0..n -> Nat] /\ line \in [0..n -> Nat] /\ line[0] = j
    /\ \A i \in 1..n : /\ line[i] <= line[i - 1] + 1 /\ line[i] <= prev[i] + 1
                       /\ line[i] <= prev[i - 1] + Cost(a, letter, i)
                       /\ \/ line[i] = line[i - 1] + 1 \/ line[i] = prev[i] + 1
                          \/ line[i] = prev[i - 1] + Cost(a, letter, i)

LEMMA RowComputed ==
    ASSUME NEW a, NEW letter, NEW j, j \in Nat, Len(a) \in Nat, NEW prev \in [0..Len(a) -> Nat]
    PROVE  RowAfter(a, Len(a), letter, j, prev, NextRow(a, letter, j, prev))
  <1> DEFINE n == Len(a)
             cost(i) == Cost(a, letter, i)
             Entry(i, x) == Min({x + 1, prev[i] + 1, prev[i - 1] + cost(i)})
             step == [i \in Nat |-> [x \in Nat |-> IF i \in 0..(n - 1) THEN Entry(i + 1, x) ELSE 0]]
  <1>0. \A i : cost(i) \in 0..1
    BY DEF Cost
  <1> HIDE DEF n, cost
  <1>a. n \in Nat /\ prev \in [0..n -> Nat]
    BY DEF n
  <1>1. \A i \in 1..n, x \in Nat : /\ Entry(i, x) \in Nat
                                   /\ Entry(i, x) <= x + 1 /\ Entry(i, x) <= prev[i] + 1 /\ Entry(i, x) <= prev[i - 1] + cost(i)
                                   /\ \/ Entry(i, x) = x + 1 \/ Entry(i, x) = prev[i] + 1 \/ Entry(i, x) = prev[i - 1] + cost(i)
    <2> SUFFICES ASSUME NEW i \in 1..n, NEW x \in Nat
                 PROVE  /\ Entry(i, x) \in Nat
                        /\ Entry(i, x) <= x + 1 /\ Entry(i, x) <= prev[i] + 1 /\ Entry(i, x) <= prev[i - 1] + cost(i)
                        /\ \/ Entry(i, x) = x + 1 \/ Entry(i, x) = prev[i] + 1 \/ Entry(i, x) = prev[i - 1] + cost(i)
      OBVIOUS
    <2> DEFINE y == prev[i] + 1
               z == prev[i - 1] + cost(i)
    <2>1. x + 1 \in Nat /\ y \in Nat /\ z \in Nat
      <3>1. i \in 0..n /\ i - 1 \in 0..n
        BY <1>a
      <3>2. prev[i] \in Nat /\ prev[i - 1] \in Nat
        BY <1>a, <3>1
      <3> QED
        BY <1>0, <3>2
    <2> HIDE DEF y, z
    <2>2. /\ Min({x + 1, y, z}) \in {x + 1, y, z}
          /\ Min({x + 1, y, z}) <= x + 1 /\ Min({x + 1, y, z}) <= y /\ Min({x + 1, y, z}) <= z
      BY <2>1, MinIs
    <2> QED
      BY <2>1, <2>2 DEF y, z
  <1> HIDE DEF Entry
  <1>2. step \in [Nat -> [Nat -> Nat]]
    <2>1. \A i \in 0..(n - 1) : i + 1 \in 1..n
      BY <1>a
    <2>2. \A i \in Nat, x \in Nat : (IF i \in 0..(n - 1) THEN Entry(i + 1, x) ELSE 0) \in Nat
      BY <1>1, <2>1
    <2> QED
      BY <2>2
  <1>3. PICK f \in [Nat -> Nat] : f[0] = j /\ \A k \in Nat : f[k + 1] = step[k][f[k]]
    <2>1. Stepwise(Nat, j, step)
      BY <1>2 DEF Stepwise
    <2>2. PICK f : Runs(Nat, j, step, f)
      <3> HIDE DEF step
      <3> QED
        BY <2>1, Recursion
    <2> QED
      BY <2>2 DEF Runs
  <1> DEFINE g == [i \in 0..n |-> f[i]]
             Is(r) == r = [i \in 0..n |-> IF i = 0 THEN j ELSE Entry(i, r[i - 1])]
  <1>4. Is(g)
    <2>1. ASSUME NEW i \in 0..n, i # 0
          PROVE  g[i] = Entry(i, g[i - 1])
      <3>0. i - 1 \in Nat /\ i - 1 \in 0..(n - 1) /\ i - 1 + 1 = i /\ i - 1 \in 0..n
        BY <1>a, <2>1
      <3>1. i - 1 \in Nat /\ i - 1 \in 0..(n - 1) /\ i - 1 + 1 = i /\ i - 1 \in 0..n /\ f[i - 1] \in Nat
        BY <1>3, <3>0
      <3>2. f[i] = step[i - 1][f[i - 1]]
        BY <1>3, <3>1
      <3>3. step[i - 1][f[i - 1]] = Entry(i, f[i - 1])
        BY <3>1
      <3> QED
        BY <3>1, <3>2, <3>3
    <2>2. g[0] = j
      BY <1>a, <1>3
    <2> QED
      BY <2>1, <2>2
  <1>5. NextRow(a, letter, j, prev) = CHOOSE r : Is(r)
    BY DEF NextRow, Entry, n, cost, Cost
  <1> DEFINE r == NextRow(a, letter, j, prev)
  <1>6. Is(r)
    <2> HIDE DEF Is
    <2> QED
      BY <1>4, <1>5
  <1> HIDE DEF r, g, step
  <1>7. r[0] = j /\ DOMAIN r = 0..n /\ \A i \in 1..n : r[i] = Entry(i, r[i - 1])
    <2>1. 0 \in 0..n /\ \A i \in 1..n : i \in 0..n /\ i # 0
      BY <1>a
    <2>2. DOMAIN r = 0..n /\ \A i \in 0..n : r[i] = IF i = 0 THEN j ELSE Entry(i, r[i - 1])
      BY <1>6
    <2> QED
      BY <2>1, <2>2
  <1>8. \A i \in 0..n : r[i] \in Nat
    <2> DEFINE B == {i \in Nat : i <= n /\ r[i] \notin Nat}
    <2> SUFFICES ASSUME NEW i \in 0..n, r[i] \notin Nat PROVE FALSE
      OBVIOUS
    <2>1. PICK k \in B : \A l \in B : k <= l
      <3>1. i \in Nat /\ i <= n
        BY <1>a
      <3>2. B \in SUBSET Nat /\ i \in B
        BY <3>1
      <3> HIDE DEF B
      <3> QED
        BY <3>2, LeastNat
    <2>2. k \in Nat /\ k <= n /\ r[k] \notin Nat
      BY <2>1
    <2>3. k # 0
      BY <1>7, <2>2
    <2>4. k - 1 \in Nat /\ k - 1 <= n /\ k \in 1..n /\ ~ (k <= k - 1)
      BY <1>a, <2>2, <2>3
    <2>5. k - 1 \notin B
      <3> HIDE DEF B
      <3> QED
        BY <2>1, <2>4
    <2>6. r[k - 1] \in Nat
      BY <2>4, <2>5
    <2> QED
      BY <1>1, <1>7, <2>2, <2>4, <2>6
  <1>9. r \in [0..n -> Nat]
    BY <1>6, <1>7, <1>8
  <1>10. ASSUME NEW i \in 1..n
         PROVE  /\ r[i] <= r[i - 1] + 1 /\ r[i] <= prev[i] + 1 /\ r[i] <= prev[i - 1] + cost(i)
                /\ \/ r[i] = r[i - 1] + 1 \/ r[i] = prev[i] + 1 \/ r[i] = prev[i - 1] + cost(i)
    <2>1. r[i - 1] \in Nat
      BY <1>a, <1>8
    <2> QED
      BY <1>1, <1>7, <2>1
  <1> QED
    BY <1>a, <1>7, <1>9, <1>10 DEF RowAfter, r, n, cost

(* The table, by the rows it has.                                          *)
Filled(a, n, b, m, T) ==
    /\ T \in [0..m -> [0..n -> Nat]] /\ T[0] = [i \in 0..n |-> i]
    /\ \A j \in 1..m : /\ RowAfter(a, n, b[j], j, T[j - 1], T[j])
                       /\ T[j] = NextRow(a, b[j], j, T[j - 1])

LEMMA TableIs ==
    ASSUME NEW a, NEW b, Len(a) \in Nat, Len(b) \in Nat
    PROVE  Filled(a, Len(a), b, Len(b), Table(a, b))
  <1> DEFINE n == Len(a)
             m == Len(b)
             S == [0..n -> Nat]
             base == [i \in 0..n |-> i]
             step == [k \in Nat |-> [prev \in S |-> NextRow(a, b[k + 1], k + 1, prev)]]
             Is(T) == T = [j \in 0..m |-> IF j = 0 THEN base ELSE NextRow(a, b[j], j, T[j - 1])]
  <1>1. \A j \in Nat, prev \in S : RowAfter(a, n, b[j], j, prev, NextRow(a, b[j], j, prev))
    BY RowComputed
  <1>2. Stepwise(S, base, step)
    <2>1. base \in S
      OBVIOUS
    <2>2. \A k \in Nat, prev \in S : NextRow(a, b[k + 1], k + 1, prev) \in S
      BY <1>1 DEF RowAfter
    <2> HIDE DEF S, base
    <2> QED
      BY <2>1, <2>2 DEF Stepwise
  <1>3. PICK f : Runs(S, base, step, f)
    <2> HIDE DEF S, base, step
    <2> QED
      BY <1>2, Recursion
  <1>4. /\ f \in [Nat -> S] /\ f[0] = base
        /\ \A k \in Nat : f[k + 1] = NextRow(a, b[k + 1], k + 1, f[k])
    <2> HIDE DEF S, base
    <2> QED
      BY <1>3 DEF Runs
  <1> DEFINE g == [j \in 0..m |-> f[j]]
  <1> HIDE DEF S, base, step
  <1>5. Is(g)
    <2>1. ASSUME NEW j \in 0..m, j # 0
          PROVE  f[j] = NextRow(a, b[j], j, g[j - 1])
      <3>1. j - 1 \in Nat /\ j - 1 + 1 = j /\ j - 1 \in 0..m
        BY <2>1
      <3>2. g[j - 1] = f[j - 1]
        BY <3>1
      <3> HIDE DEF g
      <3> QED
        BY <1>4, <3>1, <3>2
    <2> QED
      BY <1>4, <2>1
  <1>6. Table(a, b) = CHOOSE T : Is(T)
    BY DEF Table, base
  <1> DEFINE T == Table(a, b)
  <1>7. Is(T)
    <2> HIDE DEF Is
    <2> QED
      BY <1>5, <1>6
  <1> HIDE DEF T, g
  <1>8. DOMAIN T = 0..m /\ T[0] = base /\ \A j \in 1..m : T[j] = NextRow(a, b[j], j, T[j - 1])
    <2>1. 0 \in 0..m /\ \A j \in 1..m : j \in 0..m /\ j # 0
      OBVIOUS
    <2>2. DOMAIN T = 0..m /\ \A j \in 0..m : T[j] = IF j = 0 THEN base ELSE NextRow(a, b[j], j, T[j - 1])
      BY <1>7
    <2> QED
      BY <2>1, <2>2
  <1>9. \A j \in 0..m : T[j] \in S
    <2> DEFINE B == {j \in Nat : j <= m /\ T[j] \notin S}
    <2> SUFFICES ASSUME NEW i \in 0..m, T[i] \notin S PROVE FALSE
      OBVIOUS
    <2>1. PICK k \in B : \A l \in B : k <= l
      <3>1. i \in Nat /\ i <= m
        OBVIOUS
      <3>2. B \in SUBSET Nat /\ i \in B
        BY <3>1
      <3> HIDE DEF B
      <3> QED
        BY <3>2, LeastNat
    <2>2. k \in Nat /\ k <= m /\ T[k] \notin S
      BY <2>1
    <2>3. k # 0
      BY <1>2, <1>8, <2>2 DEF Stepwise
    <2>4. k - 1 \in Nat /\ k - 1 <= m /\ k \in 1..m /\ ~ (k <= k - 1)
      BY <2>2, <2>3
    <2>5. k - 1 \notin B
      <3> HIDE DEF B
      <3> QED
        BY <2>1, <2>4
    <2>6. T[k - 1] \in S
      BY <2>4, <2>5
    <2>7. NextRow(a, b[k], k, T[k - 1]) \in S
      BY <1>1, <2>2, <2>6 DEF RowAfter, S
    <2> QED
      BY <1>8, <2>2, <2>4, <2>7
  <1>10. \A j \in 1..m : RowAfter(a, n, b[j], j, T[j - 1], T[j])
    <2>1. \A j \in 1..m : j - 1 \in 0..m /\ j \in Nat
      OBVIOUS
    <2> QED
      BY <1>1, <1>8, <1>9, <2>1
  <1>11. T \in [0..m -> [0..n -> Nat]] /\ T[0] = [i \in 0..n |-> i]
    <2>1. T \in [0..m -> S]
      BY <1>7, <1>8, <1>9
    <2> QED
      BY <1>8, <2>1 DEF S, base
  <1> QED
    BY <1>8, <1>10, <1>11 DEF Filled, T

-----------------------------------------------------------------------------
(* Rows.                                                                   *)

LEMMA RowParts ==
    ASSUME NEW a, NEW n \in Nat, NEW c, NEW j, NEW P, NEW Q, RowAfter(a, n, c, j, P, Q)
    PROVE  \A i \in 1..n :
           /\ Q[0] = j /\ Q[i] \in Nat /\ Q[i - 1] \in Nat /\ P[i] \in Nat /\ P[i - 1] \in Nat
           /\ Q[i] <= Q[i - 1] + 1 /\ Q[i] <= P[i] + 1 /\ Q[i] <= P[i - 1] + Cost(a, c, i) /\ Cost(a, c, i) \in 0..1
           /\ Q[i] = Q[i - 1] + 1 \/ Q[i] = P[i] + 1 \/ Q[i] = P[i - 1] + Cost(a, c, i)
  <1>1. \A i \in 1..n : i \in 0..n /\ i - 1 \in 0..n
    OBVIOUS
  <1>2. \A i : Cost(a, c, i) \in 0..1
    BY DEF Cost
  <1> QED
    BY <1>1, <1>2 DEF RowAfter

(* Rows next to each other, at each place.                                 *)
Near(n, R, Q) == \A i \in 0..n : R[i] <= Q[i] + 1

(* Neighbours in a row.                                                    *)
Gentle(n, P) == \A i \in 1..n : P[i] <= P[i - 1] + 1

(* A letter less.                                                          *)
LEMMA RowLess ==
    ASSUME NEW a, NEW n \in Nat, NEW c, NEW j, NEW P, NEW Q, RowAfter(a, n, c, j, P, Q),
           Gentle(n, P), P[0] <= j + 1
    PROVE  Near(n, P, Q)
  <1> DEFINE G == {i \in 0..n : P[i] <= Q[i] + 1}
  <1>1. 0 \in G
    BY DEF RowAfter
  <1>2. ASSUME NEW i \in 1..n, i - 1 \in G PROVE i \in G
    <2>1. P[i] <= P[i - 1] + 1 /\ P[i - 1] <= Q[i - 1] + 1
      BY <1>2 DEF Gentle
    <2>2. /\ Q[i] \in Nat /\ Q[i - 1] \in Nat /\ P[i] \in Nat /\ P[i - 1] \in Nat /\ Cost(a, c, i) \in 0..1
          /\ Q[i] = Q[i - 1] + 1 \/ Q[i] = P[i] + 1 \/ Q[i] = P[i - 1] + Cost(a, c, i)
      BY RowParts
    <2>3. P[i] <= Q[i] + 1
      BY <2>1, <2>2
    <2> QED
      BY <2>3
  <1>3. \A i \in 0..n : i \in G
    <2> HIDE DEF G
    <2> QED
      BY <1>1, <1>2, Along
  <1> QED
    BY <1>3 DEF Near

(* A letter more.                                                          *)
LEMMA RowMore ==
    ASSUME NEW a, NEW n \in Nat, NEW c, NEW j, NEW P, NEW Q, RowAfter(a, n, c, j, P, Q),
           j <= P[0] + 1
    PROVE  Near(n, Q, P)
  <1>1. Q[0] <= P[0] + 1
    BY DEF RowAfter
  <1>2. ASSUME NEW i \in 1..n PROVE Q[i] <= P[i] + 1
    BY RowParts
  <1>3. \A i \in 0..n : i = 0 \/ i \in 1..n
    OBVIOUS
  <1> QED
    BY <1>1, <1>2, <1>3 DEF Near

(* Another letter.                                                         *)
LEMMA RowOther ==
    ASSUME NEW a, NEW n \in Nat, NEW c, NEW d, NEW j, NEW P, NEW Q, NEW R,
           RowAfter(a, n, c, j, P, Q), RowAfter(a, n, d, j, P, R), j \in Nat
    PROVE  Near(n, R, Q)
  <1> DEFINE G == {i \in 0..n : R[i] <= Q[i] + 1}
  <1>1. 0 \in G
    BY DEF RowAfter
  <1>2. ASSUME NEW i \in 1..n, i - 1 \in G PROVE i \in G
    <2>1. R[i - 1] <= Q[i - 1] + 1
      BY <1>2
    <2>2. /\ Q[i] \in Nat /\ Q[i - 1] \in Nat /\ P[i] \in Nat /\ P[i - 1] \in Nat /\ Cost(a, c, i) \in 0..1
          /\ Q[i] = Q[i - 1] + 1 \/ Q[i] = P[i] + 1 \/ Q[i] = P[i - 1] + Cost(a, c, i)
      BY RowParts
    <2>3. /\ R[i] \in Nat /\ R[i - 1] \in Nat /\ Cost(a, d, i) \in 0..1
          /\ R[i] <= R[i - 1] + 1 /\ R[i] <= P[i] + 1 /\ R[i] <= P[i - 1] + Cost(a, d, i)
      BY RowParts
    <2>4. R[i] <= Q[i] + 1
      BY <2>1, <2>2, <2>3
    <2> QED
      BY <2>4
  <1>3. \A i \in 0..n : i \in G
    <2> HIDE DEF G
    <2> QED
      BY <1>1, <1>2, Along
  <1> QED
    BY <1>3 DEF Near

(* The same letter after rows that are near.                               *)
LEMMA RowKeeps ==
    ASSUME NEW a, NEW n \in Nat, NEW c, NEW j, NEW k, NEW P, NEW Q, NEW O, NEW R,
           RowAfter(a, n, c, j, P, Q), RowAfter(a, n, c, k, O, R),
           Near(n, O, P), j \in Nat, k \in Nat, k <= j + 1
    PROVE  Near(n, R, Q)
  <1> DEFINE G == {i \in 0..n : R[i] <= Q[i] + 1}
  <1>1. 0 \in G
    BY DEF RowAfter
  <1>2. ASSUME NEW i \in 1..n, i - 1 \in G PROVE i \in G
    <2>1. R[i - 1] <= Q[i - 1] + 1
      BY <1>2
    <2>2. /\ Q[i] \in Nat /\ Q[i - 1] \in Nat /\ P[i] \in Nat /\ P[i - 1] \in Nat /\ Cost(a, c, i) \in 0..1
          /\ Q[i] = Q[i - 1] + 1 \/ Q[i] = P[i] + 1 \/ Q[i] = P[i - 1] + Cost(a, c, i)
      BY RowParts
    <2>3. /\ R[i] \in Nat /\ R[i - 1] \in Nat /\ O[i] \in Nat /\ O[i - 1] \in Nat
          /\ R[i] <= R[i - 1] + 1 /\ R[i] <= O[i] + 1 /\ R[i] <= O[i - 1] + Cost(a, c, i)
      BY RowParts
    <2>4. O[i] <= P[i] + 1 /\ O[i - 1] <= P[i - 1] + 1
      BY DEF Near
    <2>5. R[i] <= Q[i] + 1
      BY <2>1, <2>2, <2>3, <2>4
    <2> QED
      BY <2>5
  <1>3. \A i \in 0..n : i \in G
    <2> HIDE DEF G
    <2> QED
      BY <1>1, <1>2, Along
  <1> QED
    BY <1>3 DEF Near

(* A row above the cut is followed by rows above it.                       *)
Above(n, P, cut) == \A i \in 0..n : P[i] > cut

LEMMA RowAbove ==
    ASSUME NEW a, NEW n \in Nat, NEW c, NEW j, NEW P, NEW Q, RowAfter(a, n, c, j, P, Q),
           NEW cut, cut \in Nat, j \in Nat, j > cut, Above(n, P, cut)
    PROVE  Above(n, Q, cut)
  <1> DEFINE G == {i \in 0..n : Q[i] > cut}
  <1>1. 0 \in G
    BY DEF RowAfter
  <1>2. ASSUME NEW i \in 1..n, i - 1 \in G PROVE i \in G
    <2>1. Q[i - 1] > cut /\ P[i] > cut /\ P[i - 1] > cut
      BY <1>2 DEF Above
    <2>2. /\ Q[i] \in Nat /\ Q[i - 1] \in Nat /\ P[i] \in Nat /\ P[i - 1] \in Nat /\ Cost(a, c, i) \in 0..1
          /\ Q[i] = Q[i - 1] + 1 \/ Q[i] = P[i] + 1 \/ Q[i] = P[i - 1] + Cost(a, c, i)
      BY RowParts
    <2>3. Q[i] > cut
      BY <2>1, <2>2
    <2> QED
      BY <2>3
  <1>3. \A i \in 0..n : i \in G
    <2> HIDE DEF G
    <2> QED
      BY <1>1, <1>2, Along
  <1> QED
    BY <1>3 DEF Above

-----------------------------------------------------------------------------
(* Tables.                                                                 *)

GentleRows(n, m, T) ==
    \A j \in 0..m : T[j] \in [0..n -> Nat] /\ T[j][0] = j /\ Gentle(n, T[j])

LEMMA FilledRows ==
    ASSUME NEW a, NEW n \in Nat, NEW b, NEW m \in Nat, NEW T, Filled(a, n, b, m, T)
    PROVE  GentleRows(n, m, T)
  <1> SUFFICES ASSUME NEW j \in 0..m
               PROVE  T[j] \in [0..n -> Nat] /\ T[j][0] = j /\ Gentle(n, T[j])
    BY DEF GentleRows
  <1>1. T[j] \in [0..n -> Nat]
    BY DEF Filled
  <1>2. CASE j = 0
    <2>1. T[0] = [i \in 0..n |-> i]
      BY DEF Filled
    <2>2. 0 \in 0..n /\ \A i \in 1..n : i \in 0..n /\ i - 1 \in 0..n /\ i <= i - 1 + 1
      OBVIOUS
    <2> QED
      BY <1>1, <1>2, <2>1, <2>2 DEF Gentle
  <1>3. CASE j \in 1..m
    <2>1. RowAfter(a, n, b[j], j, T[j - 1], T[j])
      BY <1>3 DEF Filled
    <2> QED
      BY <1>1, <2>1 DEF RowAfter, Gentle
  <1> QED
    BY <1>2, <1>3

(* The same letters give the same rows.                                    *)
AgreeOn(S, f, g) == \A x \in S : f[x] = g[x]

LEMMA FilledAlike ==
    ASSUME NEW a, NEW n \in Nat, NEW b, NEW m \in Nat, NEW T, Filled(a, n, b, m, T),
           NEW c, NEW l \in Nat, NEW R, Filled(a, n, c, l, R),
           NEW k \in Nat, k <= m, k <= l, AgreeOn(1..k, b, c)
    PROVE  AgreeOn(0..k, T, R)
  <1> DEFINE G == {j \in 0..k : T[j] = R[j]}
  <1>1. 0 \in G
    BY DEF Filled
  <1>2. ASSUME NEW j \in 1..k, j - 1 \in G PROVE j \in G
    <2>1. T[j - 1] = R[j - 1] /\ b[j] = c[j]
      BY <1>2 DEF AgreeOn
    <2>2. j \in 1..m /\ j \in 1..l
      OBVIOUS
    <2>3. T[j] = NextRow(a, b[j], j, T[j - 1]) /\ R[j] = NextRow(a, c[j], j, R[j - 1])
      BY <2>2 DEF Filled
    <2> QED
      BY <2>1, <2>3
  <1>3. \A j \in 0..k : j \in G
    <2> HIDE DEF G
    <2> QED
      BY <1>1, <1>2, Along
  <1> QED
    BY <1>3 DEF AgreeOn

(* A row above the cut means a distance above the cut.                     *)
LEMMA FilledAbove ==
    ASSUME NEW a, NEW n \in Nat, NEW b, NEW m \in Nat, NEW T, Filled(a, n, b, m, T), NEW cut, cut \in Nat,
           NEW j \in 1..m, Above(n, T[j], cut)
    PROVE  T[m][n] > cut
  <1> DEFINE G == {l \in 0..(m - j) : Above(n, T[j + l], cut)}
  <1>0. j > cut
    <2>0. GentleRows(n, m, T)
      BY FilledRows
    <2>1. \A l \in 0..m : T[l][0] = l
      BY <2>0 DEF GentleRows
    <2>2. j \in 0..m /\ 0 \in 0..n /\ T[j][0] > cut
      BY DEF Above
    <2> QED
      BY <2>1, <2>2
  <1>1. 0 \in G
    OBVIOUS
  <1>2. ASSUME NEW l \in 1..(m - j), l - 1 \in G PROVE l \in G
    <2> DEFINE k == j + l
    <2>1. k \in 1..m /\ k - 1 = j + (l - 1) /\ k \in Nat /\ k > cut
      BY <1>0
    <2>2. Above(n, T[k - 1], cut)
      BY <1>2, <2>1
    <2> HIDE DEF k
    <2>3. RowAfter(a, n, b[k], k, T[k - 1], T[k])
      BY <2>1 DEF Filled
    <2>4. Above(n, T[k], cut)
      BY <2>1, <2>2, <2>3, RowAbove
    <2> QED
      BY <2>4 DEF k
  <1>3. \A l \in 0..(m - j) : l \in G
    <2>1. m - j \in Nat
      OBVIOUS
    <2> HIDE DEF G
    <2> QED
      BY <1>1, <1>2, <2>1, Along
  <1>4. m - j \in 0..(m - j) /\ j + (m - j) = m /\ n \in 0..n
    OBVIOUS
  <1> QED
    BY <1>3, <1>4 DEF Above

(* A text is at no distance from itself.                                   *)
LEMMA FilledSame ==
    ASSUME NEW a, NEW n \in Nat, NEW T, Filled(a, n, a, n, T)
    PROVE  T[n][n] = 0
  <1> DEFINE G == {j \in 0..n : T[j][j] = 0}
  <1>1. 0 \in G
    BY DEF Filled
  <1>2. ASSUME NEW j \in 1..n, j - 1 \in G PROVE j \in G
    <2>1. RowAfter(a, n, a[j], j, T[j - 1], T[j])
      BY DEF Filled
    <2>2. T[j][j] \in Nat /\ T[j][j] <= T[j - 1][j - 1] + Cost(a, a[j], j)
      BY <2>1, RowParts
    <2>3. Cost(a, a[j], j) = 0 /\ T[j - 1][j - 1] = 0
      BY <1>2 DEF Cost
    <2> QED
      BY <2>2, <2>3
  <1>3. \A j \in 0..n : j \in G
    <2> HIDE DEF G
    <2> QED
      BY <1>1, <1>2, Along
  <1> QED
    BY <1>3

(* Texts of which one is the other with a letter less or another letter.   *)
Shortened(s, t, p) ==
    /\ p \in 1..Len(s) /\ Len(t) = Len(s) - 1
    /\ \A j \in 1..(p - 1) : t[j] = s[j]
    /\ \A j \in p..Len(t) : t[j] = s[j + 1]

Replaced(s, t, p) ==
    p \in 1..Len(s) /\ Len(t) = Len(s) /\ \A j \in 1..Len(s) : j # p => t[j] = s[j]

LEMMA FilledShortened ==
    ASSUME NEW a, NEW n \in Nat, NEW s, NEW t, NEW p, Len(s) \in Nat, Len(t) \in Nat, Shortened(s, t, p),
           NEW T, Filled(a, n, s, Len(s), T), NEW R, Filled(a, n, t, Len(t), R)
    PROVE  Near(n, R[Len(t)], T[Len(s)]) /\ Near(n, T[Len(s)], R[Len(t)])
  <1> DEFINE m == Len(t)
             G == {l \in 0..(m - p + 1) : Near(n, R[p - 1 + l], T[p + l]) /\ Near(n, T[p + l], R[p - 1 + l])}
  <1>0. /\ m \in Nat /\ Len(s) = m + 1 /\ p \in 1..(m + 1) /\ p - 1 \in Nat /\ p - 1 <= m /\ p - 1 <= Len(s)
        /\ \A j \in 1..(p - 1) : s[j] = t[j]
        /\ \A j \in p..m : t[j] = s[j + 1]
    BY DEF Shortened
  <1> HIDE DEF m
  <1>1. 0 \in G
    <2>1. T[p - 1] = R[p - 1]
      <3> DEFINE k == p - 1
                 l == Len(s)
      <3>1. /\ Filled(a, n, s, l, T) /\ Filled(a, n, t, m, R) /\ k <= l /\ k <= m /\ k \in Nat /\ l \in Nat /\ k \in 0..k
            /\ AgreeOn(1..k, s, t)
        BY <1>0 DEF m, AgreeOn
      <3>2. AgreeOn(0..k, T, R)
        <4> HIDE DEF k, l
        <4> QED
          BY <1>0, <3>1, FilledAlike
      <3> QED
        BY <3>1, <3>2 DEF AgreeOn
    <2>2. RowAfter(a, n, s[p], p, T[p - 1], T[p]) /\ p \in Nat /\ Gentle(n, T[p - 1]) /\ T[p - 1][0] = p - 1
      <3>1. p \in 1..Len(s) /\ p - 1 \in 0..Len(s) /\ p \in Nat
        BY <1>0
      <3>0. GentleRows(n, Len(s), T)
        <4> DEFINE l == Len(s)
        <4> HIDE DEF l
        <4>1. l \in Nat /\ Filled(a, n, s, l, T)
          BY DEF l
        <4>2. GentleRows(n, l, T)
          BY <4>1, FilledRows
        <4> QED
          BY <4>2 DEF l
      <3>2. \A j \in 0..Len(s) : T[j][0] = j /\ Gentle(n, T[j])
        BY <3>0 DEF GentleRows
      <3>3. RowAfter(a, n, s[p], p, T[p - 1], T[p])
        BY <3>1 DEF Filled
      <3> QED
        BY <3>1, <3>2, <3>3
    <2>3. Near(n, T[p - 1], T[p])
      BY <1>0, <2>2, RowLess
    <2>4. Near(n, T[p], T[p - 1])
      BY <1>0, <2>2, RowMore
    <2>5. p - 1 + 0 = p - 1 /\ p + 0 = p /\ 0 \in 0..(m - p + 1)
      BY <1>0
    <2> QED
      BY <2>1, <2>3, <2>4, <2>5
  <1>2. ASSUME NEW l \in 1..(m - p + 1), l - 1 \in G PROVE l \in G
    <2> DEFINE k == p - 1 + l
    <2>1. /\ k \in 1..m /\ k + 1 \in 1..Len(s) /\ k \in p..m /\ k + 1 = p + l /\ k - 1 = p - 1 + (l - 1) /\ k = p + (l - 1)
          /\ k \in Nat /\ k + 1 \in Nat /\ k + 1 - 1 = k
      BY <1>0
    <2>2. Near(n, R[k - 1], T[k]) /\ Near(n, T[k], R[k - 1])
      BY <1>2, <2>1
    <2> HIDE DEF k
    <2>3. RowAfter(a, n, t[k], k, R[k - 1], R[k]) /\ RowAfter(a, n, s[k + 1], k + 1, T[k], T[k + 1])
      <3>1. \A i \in 1..m : RowAfter(a, n, t[i], i, R[i - 1], R[i])
        BY DEF Filled, m
      <3>2. \A i \in 1..Len(s) : RowAfter(a, n, s[i], i, T[i - 1], T[i])
        BY DEF Filled
      <3>3. RowAfter(a, n, s[k + 1], k + 1, T[k + 1 - 1], T[k + 1])
        BY <2>1, <3>2
      <3> QED
        BY <2>1, <3>1, <3>3
    <2>4. t[k] = s[k + 1]
      BY <1>0, <2>1
    <2>5. Near(n, R[k], T[k + 1])
      <3>1. k <= k + 1 + 1
        BY <2>1
      <3> QED
        BY <2>1, <2>2, <2>3, <2>4, <3>1, RowKeeps
    <2>6. Near(n, T[k + 1], R[k])
      <3>1. k + 1 <= k + 1
        BY <2>1
      <3> QED
        BY <2>1, <2>2, <2>3, <2>4, <3>1, RowKeeps
    <2> QED
      BY <2>1, <2>5, <2>6 DEF k
  <1>3. \A l \in 0..(m - p + 1) : l \in G
    <2>1. m - p + 1 \in Nat
      BY <1>0
    <2> HIDE DEF G
    <2> QED
      BY <1>1, <1>2, <2>1, Along
  <1>4. m - p + 1 \in 0..(m - p + 1) /\ p - 1 + (m - p + 1) = m /\ p + (m - p + 1) = Len(s)
    BY <1>0
  <1> QED
    BY <1>3, <1>4 DEF m

LEMMA FilledReplaced ==
    ASSUME NEW a, NEW n \in Nat, NEW s, NEW t, NEW p, Len(s) \in Nat, Replaced(s, t, p),
           NEW T, Filled(a, n, s, Len(s), T), NEW R, Filled(a, n, t, Len(t), R)
    PROVE  Near(n, R[Len(t)], T[Len(s)])
  <1> DEFINE m == Len(s)
             G == {l \in 0..(m - p) : Near(n, R[p + l], T[p + l])}
  <1>0. /\ m \in Nat /\ Len(t) = m /\ p \in 1..m /\ p - 1 \in Nat /\ p - 1 <= m
        /\ \A j \in 1..(p - 1) : s[j] = t[j]
        /\ \A j \in (p + 1)..m : t[j] = s[j]
    BY DEF Replaced
  <1> HIDE DEF m
  <1>1. 0 \in G
    <2>1. T[p - 1] = R[p - 1]
      <3> DEFINE k == p - 1
      <3>1. /\ Filled(a, n, s, m, T) /\ Filled(a, n, t, m, R) /\ k <= m /\ k \in Nat /\ k \in 0..k
            /\ AgreeOn(1..k, s, t)
        BY <1>0 DEF m, AgreeOn
      <3>2. AgreeOn(0..k, T, R)
        <4> HIDE DEF k
        <4> QED
          BY <1>0, <3>1, FilledAlike
      <3> QED
        BY <3>1, <3>2 DEF AgreeOn
    <2>2. RowAfter(a, n, s[p], p, T[p - 1], T[p]) /\ RowAfter(a, n, t[p], p, R[p - 1], R[p]) /\ p \in Nat
      BY <1>0 DEF Filled, m
    <2>3. Near(n, R[p], T[p])
      BY <2>1, <2>2, RowOther
    <2>4. p + 0 = p /\ 0 \in 0..(m - p)
      BY <1>0
    <2> QED
      BY <2>3, <2>4
  <1>2. ASSUME NEW l \in 1..(m - p), l - 1 \in G PROVE l \in G
    <2> DEFINE k == p + l
    <2>1. k \in 1..m /\ k \in (p + 1)..m /\ k - 1 = p + (l - 1) /\ k \in Nat /\ k <= k + 1
      BY <1>0
    <2>2. Near(n, R[k - 1], T[k - 1])
      BY <1>2, <2>1
    <2> HIDE DEF k
    <2>3. RowAfter(a, n, t[k], k, R[k - 1], R[k]) /\ RowAfter(a, n, s[k], k, T[k - 1], T[k]) /\ t[k] = s[k]
      BY <1>0, <2>1 DEF Filled, m
    <2>4. Near(n, R[k], T[k])
      BY <2>1, <2>2, <2>3, RowKeeps
    <2> QED
      BY <2>4 DEF k
  <1>3. \A l \in 0..(m - p) : l \in G
    <2>1. m - p \in Nat
      BY <1>0
    <2> HIDE DEF G
    <2> QED
      BY <1>1, <1>2, <2>1, Along
  <1>4. m - p \in 0..(m - p) /\ p + (m - p) = m
    BY <1>0
  <1> QED
    BY <1>0, <1>3, <1>4 DEF m

-----------------------------------------------------------------------------
(* Edits of texts.                                                         *)

Words == Seq(Letters)

LEMMA SameWord ==
    ASSUME NEW s, NEW t, s \in Words, t \in Words, Len(s) = Len(t), AgreeOn(1..Len(s), s, t)
    PROVE  s = t
  <1>1. \A i \in 1..Len(s) : s[i] = t[i]
    BY DEF AgreeOn
  <1> QED
    BY <1>1, SeqEqual DEF Words

LEMMA WordIs ==
    ASSUME NEW s, s \in Words
    PROVE  Len(s) \in Nat /\ s \in [1..Len(s) -> Letters] /\ DOMAIN s = 1..Len(s)
  BY LenProperties DEF Words

(* A part of a text.                                                       *)
PartOf(s, i, j, t) == t \in Words /\ Len(t) = j - i + 1 /\ \A k \in 1..(j - i + 1) : t[k] = s[i + k - 1]

LEMMA PartIs ==
    ASSUME NEW s, s \in Words, NEW i, NEW j, i \in Nat \ {0}, j \in Nat, j <= Len(s), i <= j + 1
    PROVE  PartOf(s, i, j, SubSeq(s, i, j))
  <1>1. Len(s) \in Nat /\ s \in [1..Len(s) -> Letters]
    BY WordIs
  <1>2. \A k \in i..j : s[k] \in Letters
    BY <1>1
  <1>3. i \in Int /\ j \in Int
    OBVIOUS
  <1>4. /\ SubSeq(s, i, j) \in Seq(Letters)
        /\ Len(SubSeq(s, i, j)) = IF i <= j THEN j - i + 1 ELSE 0
        /\ \A k \in 1..(j - i + 1) : SubSeq(s, i, j)[k] = s[i + k - 1]
    BY <1>2, <1>3, SubSeqProperties
  <1> QED
    BY <1>4 DEF PartOf, Words

(* One text after the other.                                               *)
JoinOf(s, t, u) ==
    /\ u \in Words /\ Len(u) = Len(s) + Len(t)
    /\ \A k \in 1..(Len(s) + Len(t)) : u[k] = IF k <= Len(s) THEN s[k] ELSE t[k - Len(s)]

LEMMA JoinIs ==
    ASSUME NEW s, NEW t, s \in Words, t \in Words
    PROVE  JoinOf(s, t, s \o t)
  <1>1. /\ s \o t \in Seq(Letters) /\ Len(s \o t) = Len(s) + Len(t)
        /\ \A i \in 1..(Len(s) + Len(t)) : (s \o t)[i] = IF i <= Len(s) THEN s[i] ELSE t[i - Len(s)]
    BY ConcatProperties DEF Words
  <1> QED
    BY <1>1 DEF JoinOf, Words

LEMMA RemoveIs ==
    ASSUME NEW s, s \in Words, NEW i, i \in 1..Len(s)
    PROVE  RemoveAt(s, i) \in Words /\ Shortened(s, RemoveAt(s, i), i)
  <1> DEFINE l == SubSeq(s, 1, i - 1)
             r == SubSeq(s, i + 1, Len(s))
             n == Len(s)
  <1>0. n \in Nat /\ i \in Nat \ {0} /\ i <= n
    BY WordIs
  <1>1. PartOf(s, 1, i - 1, l) /\ PartOf(s, i + 1, n, r)
    <2> DEFINE h == i - 1
               k == i + 1
    <2>1. /\ 1 \in Nat \ {0} /\ h \in Nat /\ h <= n /\ 1 <= h + 1
          /\ k \in Nat \ {0} /\ k <= n + 1 /\ n <= n
      BY <1>0
    <2> HIDE DEF h, k
    <2>2. PartOf(s, 1, h, SubSeq(s, 1, h)) /\ PartOf(s, k, n, SubSeq(s, k, n))
      BY <1>0, <2>1, PartIs
    <2> QED
      BY <2>2 DEF h, k
  <1>2. RemoveAt(s, i) = l \o r
    BY DEF RemoveAt
  <1> HIDE DEF l, r, n
  <1>3. JoinOf(l, r, l \o r)
    BY <1>1, JoinIs DEF PartOf
  <1> DEFINE t == l \o r
  <1> HIDE DEF t
  <1>4. /\ t \in Words /\ Len(t) = n - 1 /\ Len(l) = i - 1
        /\ \A k \in 1..(n - 1) : t[k] = IF k <= i - 1 THEN l[k] ELSE r[k - (i - 1)]
    <2>1. Len(l) = i - 1 /\ Len(r) = n - i
      BY <1>0, <1>1 DEF PartOf
    <2>2. Len(l) + Len(r) = n - 1
      BY <1>0, <2>1
    <2> QED
      BY <1>3, <2>1, <2>2 DEF JoinOf, t
  <1>5. ASSUME NEW k \in 1..(i - 1) PROVE t[k] = s[k]
    <2>1. k \in 1..(n - 1) /\ k <= i - 1 /\ k \in 1..(i - 1 - 1 + 1) /\ 1 + k - 1 = k
      BY <1>0
    <2>2. l[k] = s[1 + k - 1]
      BY <1>1, <2>1 DEF PartOf
    <2> QED
      BY <1>4, <2>1, <2>2
  <1>6. ASSUME NEW k \in i..(n - 1) PROVE t[k] = s[k + 1]
    <2> DEFINE h == k - (i - 1)
    <2>1. k \in 1..(n - 1) /\ ~ (k <= i - 1) /\ h \in 1..(n - (i + 1) + 1) /\ i + 1 + h - 1 = k + 1
      BY <1>0
    <2> HIDE DEF h
    <2>2. r[h] = s[i + 1 + h - 1]
      BY <1>1, <2>1 DEF PartOf
    <2> QED
      BY <1>4, <2>1, <2>2 DEF h
  <1>7. Shortened(s, t, i)
    BY <1>4, <1>5, <1>6 DEF Shortened, n
  <1> QED
    BY <1>2, <1>4, <1>7 DEF t

LEMMA InsertIs ==
    ASSUME NEW s, s \in Words, NEW i, i \in 1..(Len(s) + 1), NEW c, c \in Letters
    PROVE  /\ InsertAt(s, i, c) \in Words /\ Shortened(InsertAt(s, i, c), s, i)
           /\ InsertAt(s, i, c)[i] = c
  <1> DEFINE l == SubSeq(s, 1, i - 1)
             r == SubSeq(s, i, Len(s))
             n == Len(s)
             m == <<c>>
  <1>0. n \in Nat /\ i \in Nat \ {0} /\ i <= n + 1
    BY WordIs
  <1>1. PartOf(s, 1, i - 1, l) /\ PartOf(s, i, n, r)
    <2> DEFINE h == i - 1
    <2>1. 1 \in Nat \ {0} /\ h \in Nat /\ h <= n /\ 1 <= h + 1 /\ n <= n
      BY <1>0
    <2> HIDE DEF h
    <2>2. PartOf(s, 1, h, SubSeq(s, 1, h)) /\ PartOf(s, i, n, SubSeq(s, i, n))
      BY <1>0, <2>1, PartIs
    <2> QED
      BY <2>2 DEF h
  <1>2. InsertAt(s, i, c) = (l \o m) \o r
    BY DEF InsertAt
  <1>m. m \in Words /\ Len(m) = 1 /\ m[1] = c
    BY DEF Words
  <1> HIDE DEF l, r, n, m
  <1> DEFINE u == l \o m
             t == u \o r
  <1>3. JoinOf(l, m, u)
    BY <1>1, <1>m, JoinIs DEF PartOf
  <1>4. Len(l) = i - 1 /\ Len(r) = n - i + 1
    BY <1>0, <1>1 DEF PartOf
  <1>5. u \in Words /\ Len(u) = i /\ u[i] = c /\ \A k \in 1..(i - 1) : u[k] = s[k]
    <2>1. Len(l) + Len(m) = i
      BY <1>0, <1>4, <1>m
    <2>2. u \in Words /\ Len(u) = i /\ \A k \in 1..i : u[k] = IF k <= i - 1 THEN l[k] ELSE m[k - (i - 1)]
      BY <1>3, <1>4, <2>1 DEF JoinOf
    <2>3. i \in 1..i /\ ~ (i <= i - 1) /\ i - (i - 1) = 1
      BY <1>0
    <2>4. u[i] = c
      BY <1>m, <2>2, <2>3
    <2>5. ASSUME NEW k \in 1..(i - 1) PROVE u[k] = s[k]
      <3>1. k \in 1..i /\ k <= i - 1 /\ k \in 1..(i - 1 - 1 + 1) /\ 1 + k - 1 = k
        BY <1>0
      <3>2. l[k] = s[1 + k - 1]
        BY <1>1, <3>1 DEF PartOf
      <3> QED
        BY <2>2, <3>1, <3>2
    <2> QED
      BY <2>2, <2>4, <2>5
  <1> HIDE DEF u
  <1>6. JoinOf(u, r, t)
    BY <1>1, <1>5, JoinIs DEF PartOf
  <1> HIDE DEF t
  <1>7. /\ t \in Words /\ Len(t) = n + 1
        /\ \A k \in 1..(n + 1) : t[k] = IF k <= i THEN u[k] ELSE r[k - i]
    <2>1. Len(u) + Len(r) = n + 1
      BY <1>0, <1>4, <1>5
    <2> QED
      BY <1>5, <1>6, <2>1 DEF JoinOf
  <1>8. t[i] = c
    <2>1. i \in 1..(n + 1) /\ i <= i
      BY <1>0
    <2> QED
      BY <1>5, <1>7, <2>1
  <1>9. ASSUME NEW k \in 1..(i - 1) PROVE s[k] = t[k]
    <2>1. k \in 1..(n + 1) /\ k <= i
      BY <1>0
    <2> QED
      BY <1>5, <1>7, <2>1
  <1>10. ASSUME NEW k \in i..n PROVE s[k] = t[k + 1]
    <2> DEFINE h == k + 1 - i
    <2>1. k + 1 \in 1..(n + 1) /\ ~ (k + 1 <= i) /\ h \in 1..(n - i + 1) /\ i + h - 1 = k
      BY <1>0
    <2> HIDE DEF h
    <2>2. r[h] = s[i + h - 1]
      BY <1>1, <2>1 DEF PartOf
    <2> QED
      BY <1>7, <2>1, <2>2 DEF h
  <1>11. Shortened(t, s, i)
    <2>1. i \in 1..Len(t) /\ Len(s) = Len(t) - 1
      BY <1>0, <1>7 DEF n
    <2> QED
      BY <2>1, <1>9, <1>10 DEF Shortened, n
  <1> QED
    BY <1>2, <1>7, <1>8, <1>11 DEF t, u

(* The edits, by what they do.                                             *)
EditTo(s, t) == \E p : Shortened(s, t, p) \/ Replaced(s, t, p) \/ Shortened(t, s, p)

LEMMA EditIs ==
    ASSUME NEW s, s \in Words, NEW t, t \in Edits(s)
    PROVE  t \in Words /\ EditTo(s, t)
  <1>0. Len(s) \in Nat /\ s \in [1..Len(s) -> Letters] /\ DOMAIN s = 1..Len(s)
    BY WordIs
  <1>1. ASSUME NEW i \in DOMAIN s, t = RemoveAt(s, i)
        PROVE  t \in Words /\ EditTo(s, t)
    <2>1. i \in 1..Len(s)
      BY <1>0
    <2>2. t \in Words /\ Shortened(s, t, i)
      BY <1>1, <2>1, RemoveIs
    <2> QED
      BY <2>2 DEF EditTo
  <1>2. ASSUME NEW i \in DOMAIN s, NEW c \in Letters, t = [s EXCEPT ![i] = c]
        PROVE  t \in Words /\ EditTo(s, t)
    <2>1. i \in 1..Len(s)
      BY <1>0
    <2>2. t \in Words /\ Len(t) = Len(s) /\ \A j \in 1..Len(s) : t[j] = IF j = i THEN c ELSE s[j]
      BY <1>2, <2>1, ExceptSeq DEF Words
    <2>3. Replaced(s, t, i)
      BY <2>1, <2>2 DEF Replaced
    <2> QED
      BY <2>2, <2>3 DEF EditTo
  <1>3. ASSUME NEW i \in 1..(Len(s) + 1), NEW c \in Letters, t = InsertAt(s, i, c)
        PROVE  t \in Words /\ EditTo(s, t)
    <2>1. t \in Words /\ Shortened(t, s, i)
      BY <1>3, InsertIs
    <2> QED
      BY <2>1 DEF EditTo
  <1> QED
    BY <1>1, <1>2, <1>3 DEF Edits

LEMMA EditMade ==
    ASSUME NEW s, s \in Words, NEW t, t \in Words, EditTo(s, t)
    PROVE  t \in Edits(s)
  <1>0. /\ Len(s) \in Nat /\ s \in [1..Len(s) -> Letters] /\ DOMAIN s = 1..Len(s)
        /\ Len(t) \in Nat /\ t \in [1..Len(t) -> Letters]
    BY WordIs
  <1>1. PICK p : Shortened(s, t, p) \/ Replaced(s, t, p) \/ Shortened(t, s, p)
    BY DEF EditTo
  <1>2. CASE Shortened(s, t, p)
    <2> DEFINE u == RemoveAt(s, p)
    <2>1. p \in 1..Len(s) /\ p \in DOMAIN s
      BY <1>0, <1>2 DEF Shortened
    <2>2. u \in Words /\ Shortened(s, u, p)
      BY <2>1, RemoveIs
    <2> HIDE DEF u
    <2>3. Len(u) = Len(t) /\ AgreeOn(1..Len(u), u, t)
      <3>1. Len(u) = Len(t) /\ \A j \in 1..Len(t) : j \in 1..(p - 1) \/ j \in p..Len(t)
        BY <1>0, <1>2, <2>1, <2>2 DEF Shortened
      <3> QED
        BY <1>2, <2>2, <3>1 DEF Shortened, AgreeOn
    <2>4. u = t
      BY <2>2, <2>3, SameWord
    <2> QED
      BY <2>1, <2>4 DEF Edits, u
  <1>3. CASE Replaced(s, t, p)
    <2> DEFINE u == [s EXCEPT ![p] = t[p]]
    <2>1. p \in 1..Len(s) /\ p \in DOMAIN s /\ Len(t) = Len(s) /\ t[p] \in Letters
      BY <1>0, <1>3 DEF Replaced
    <2>2. u \in Words /\ Len(u) = Len(s) /\ \A j \in 1..Len(s) : u[j] = IF j = p THEN t[p] ELSE s[j]
      BY <2>1, ExceptSeq DEF Words
    <2> HIDE DEF u
    <2>3. AgreeOn(1..Len(u), u, t)
      BY <1>3, <2>2 DEF Replaced, AgreeOn
    <2>4. u = t
      BY <2>1, <2>2, <2>3, SameWord
    <2> QED
      BY <2>1, <2>4 DEF Edits, u
  <1>4. CASE Shortened(t, s, p)
    <2> DEFINE c == t[p]
               u == InsertAt(s, p, c)
    <2>1. p \in 1..(Len(s) + 1) /\ Len(t) = Len(s) + 1 /\ c \in Letters
      BY <1>0, <1>4 DEF Shortened
    <2> HIDE DEF c
    <2>2. u \in Words /\ Shortened(u, s, p) /\ u[p] = c
      BY <2>1, InsertIs
    <2> HIDE DEF u
    <2>3. Len(u) = Len(t) /\ AgreeOn(1..Len(u), u, t)
      <3>0. Len(u) \in Nat
        BY <2>2, WordIs
      <3>1. Len(u) = Len(t)
        BY <1>0, <2>1, <2>2, <3>0 DEF Shortened
      <3>2. ASSUME NEW j \in 1..Len(t) PROVE u[j] = t[j]
        <4>1. CASE j = p
          BY <2>2, <4>1 DEF c
        <4>2. CASE j \in 1..(p - 1)
          BY <1>4, <2>2, <4>2 DEF Shortened
        <4>3. CASE j \in (p + 1)..Len(t)
          <5>1. j - 1 \in p..Len(s) /\ j - 1 + 1 = j
            BY <1>0, <2>1, <4>3
          <5>2. s[j - 1] = u[j - 1 + 1] /\ s[j - 1] = t[j - 1 + 1]
            BY <1>4, <2>2, <5>1 DEF Shortened
          <5> QED
            BY <5>1, <5>2
        <4> QED
          BY <1>0, <2>1, <4>1, <4>2, <4>3
      <3> QED
        BY <3>1, <3>2 DEF AgreeOn
    <2>4. u = t
      BY <2>2, <2>3, SameWord
    <2> QED
      BY <2>1, <2>4 DEF Edits, u, c
  <1> QED
    BY <1>1, <1>2, <1>3, <1>4

LEMMA EditBack ==
    ASSUME NEW s, s \in Words, NEW t, t \in Edits(s)
    PROVE  t \in Words /\ s \in Edits(t)
  <1>1. t \in Words /\ EditTo(s, t)
    BY EditIs
  <1>2. PICK p : Shortened(s, t, p) \/ Replaced(s, t, p) \/ Shortened(t, s, p)
    BY <1>1 DEF EditTo
  <1>3. CASE Replaced(s, t, p)
    <2>1. Replaced(t, s, p)
      BY <1>3 DEF Replaced
    <2> QED
      BY <1>1, <2>1, EditMade DEF EditTo
  <1>4. CASE Shortened(s, t, p) \/ Shortened(t, s, p)
    BY <1>1, <1>4, EditMade DEF EditTo
  <1> QED
    BY <1>2, <1>3, <1>4

(* A letter at the end of both.                                            *)
LEMMA EditAppended ==
    ASSUME NEW s, s \in Words, NEW t, t \in Edits(s), NEW c, c \in Letters
    PROVE  Append(t, c) \in Edits(Append(s, c))
  <1>0. /\ t \in Words /\ EditTo(s, t) /\ Len(s) \in Nat /\ Len(t) \in Nat
    BY EditIs, WordIs
  <1> DEFINE sc == Append(s, c)
             tc == Append(t, c)
  <1>1. /\ sc \in Words /\ Len(sc) = Len(s) + 1 /\ sc[Len(s) + 1] = c
        /\ \A i \in 1..Len(s) : sc[i] = s[i]
    BY AppendProperties DEF Words
  <1>2. /\ tc \in Words /\ Len(tc) = Len(t) + 1 /\ tc[Len(t) + 1] = c
        /\ \A i \in 1..Len(t) : tc[i] = t[i]
    BY <1>0, AppendProperties DEF Words
  <1> HIDE DEF sc, tc
  <1>3. PICK p : Shortened(s, t, p) \/ Replaced(s, t, p) \/ Shortened(t, s, p)
    BY <1>0 DEF EditTo
  <1>4. CASE Shortened(s, t, p)
    <2>1. p \in 1..Len(s) /\ Len(t) = Len(s) - 1 /\ Len(tc) = Len(s)
      BY <1>0, <1>2, <1>4 DEF Shortened
    <2>2. ASSUME NEW j \in 1..(p - 1) PROVE tc[j] = sc[j]
      <3>1. j \in 1..Len(t) /\ j \in 1..Len(s)
        BY <1>0, <2>1
      <3> QED
        BY <1>1, <1>2, <1>4, <3>1 DEF Shortened
    <2>3. ASSUME NEW j \in p..Len(tc) PROVE tc[j] = sc[j + 1]
      <3>1. CASE j \in p..Len(t)
        <4>1. j \in 1..Len(t) /\ j + 1 \in 1..Len(s)
          BY <1>0, <2>1, <3>1
        <4>2. t[j] = s[j + 1]
          BY <1>4, <3>1 DEF Shortened
        <4> QED
          BY <1>1, <1>2, <4>1, <4>2
      <3>2. CASE j = Len(t) + 1
        BY <1>0, <1>1, <1>2, <2>1, <3>2
      <3> QED
        BY <1>0, <2>1, <3>1, <3>2
    <2>4. Shortened(sc, tc, p)
      <3>1. p \in 1..Len(sc) /\ Len(tc) = Len(sc) - 1
        BY <1>0, <1>1, <2>1
      <3> QED
        BY <2>2, <2>3, <3>1 DEF Shortened
    <2> QED
      BY <1>1, <1>2, <2>4, EditMade DEF EditTo, sc, tc
  <1>5. CASE Replaced(s, t, p)
    <2>1. p \in 1..Len(s) /\ Len(t) = Len(s) /\ \A j \in 1..Len(s) : j # p => t[j] = s[j]
      BY <1>5 DEF Replaced
    <2>2. p \in 1..Len(sc) /\ Len(tc) = Len(sc)
      BY <1>0, <1>1, <1>2, <2>1
    <2>3. ASSUME NEW j \in 1..Len(sc), j # p PROVE tc[j] = sc[j]
      <3>1. CASE j \in 1..Len(s)
        BY <1>1, <1>2, <2>1, <2>3, <3>1
      <3>2. CASE j = Len(s) + 1
        BY <1>1, <1>2, <2>1, <3>2
      <3> QED
        BY <1>0, <1>1, <3>1, <3>2
    <2>4. Replaced(sc, tc, p)
      BY <2>2, <2>3 DEF Replaced
    <2> QED
      BY <1>1, <1>2, <2>4, EditMade DEF EditTo, sc, tc
  <1>6. CASE Shortened(t, s, p)
    <2>1. p \in 1..Len(t) /\ Len(s) = Len(t) - 1 /\ Len(sc) = Len(t)
      BY <1>0, <1>1, <1>6 DEF Shortened
    <2>2. ASSUME NEW j \in 1..(p - 1) PROVE sc[j] = tc[j]
      <3>1. j \in 1..Len(t) /\ j \in 1..Len(s)
        BY <1>0, <2>1
      <3> QED
        BY <1>1, <1>2, <1>6, <3>1 DEF Shortened
    <2>3. ASSUME NEW j \in p..Len(sc) PROVE sc[j] = tc[j + 1]
      <3>1. CASE j \in p..Len(s)
        <4>1. j \in 1..Len(s) /\ j + 1 \in 1..Len(t)
          BY <1>0, <2>1, <3>1
        <4>2. s[j] = t[j + 1]
          BY <1>6, <3>1 DEF Shortened
        <4> QED
          BY <1>1, <1>2, <4>1, <4>2
      <3>2. CASE j = Len(s) + 1
        BY <1>0, <1>1, <1>2, <2>1, <3>2
      <3> QED
        BY <1>0, <2>1, <3>1, <3>2
    <2>4. Shortened(tc, sc, p)
      <3>1. p \in 1..Len(tc) /\ Len(sc) = Len(tc) - 1
        BY <1>0, <1>2, <2>1
      <3> QED
        BY <2>2, <2>3, <3>1 DEF Shortened
    <2> QED
      BY <1>1, <1>2, <2>4, EditMade DEF EditTo, sc, tc
  <1> QED
    BY <1>3, <1>4, <1>5, <1>6

(* A letter more at the end, and another last letter.                      *)
LEMMA EditLonger ==
    ASSUME NEW s, s \in Words, NEW c, c \in Letters, NEW d, d \in Letters
    PROVE  /\ Append(s, c) \in Words /\ Append(s, c) \in Edits(s) /\ s \in Edits(Append(s, c))
           /\ Append(s, d) \in Edits(Append(s, c))
  <1> DEFINE sc == Append(s, c)
             sd == Append(s, d)
  <1>0. Len(s) \in Nat
    BY WordIs
  <1>1. /\ sc \in Words /\ Len(sc) = Len(s) + 1 /\ \A i \in 1..Len(s) : sc[i] = s[i]
    BY AppendProperties DEF Words
  <1>2. /\ sd \in Words /\ Len(sd) = Len(s) + 1 /\ \A i \in 1..Len(s) : sd[i] = s[i]
    BY AppendProperties DEF Words
  <1> HIDE DEF sc, sd
  <1> DEFINE p == Len(s) + 1
  <1>3. p \in 1..Len(sc) /\ Len(s) = Len(sc) - 1 /\ p - 1 = Len(s) /\ p..Len(s) = {}
    BY <1>0, <1>1
  <1>4. Shortened(sc, s, p)
    <2> HIDE DEF p
    <2> QED
      BY <1>1, <1>3 DEF Shortened
  <1>5. Replaced(sc, sd, p)
    <2>1. \A j \in 1..Len(sc) : j # p => j \in 1..Len(s)
      BY <1>0, <1>1
    <2>2. Len(sd) = Len(sc)
      BY <1>1, <1>2
    <2> HIDE DEF p
    <2> QED
      BY <1>1, <1>2, <1>3, <2>1, <2>2 DEF Replaced
  <1> HIDE DEF p
  <1>6. sc \in Edits(s)
    BY <1>1, <1>4, EditMade DEF EditTo
  <1>7. s \in Edits(sc)
    BY <1>1, <1>4, EditMade DEF EditTo
  <1>8. sd \in Edits(sc)
    BY <1>1, <1>2, <1>5, EditMade DEF EditTo
  <1> QED
    BY <1>1, <1>6, <1>7, <1>8 DEF sc, sd

-----------------------------------------------------------------------------
(* Balls of edits.                                                         *)

Balls(s) ==
    /\ Within(s, 0) = {s}
    /\ \A k \in Nat : /\ Within(s, k) \subseteq Words
                      /\ Within(s, k + 1) = UNION {{t} \cup Edits(t) : t \in Within(s, k)}

LEMMA WithinIs ==
    ASSUME NEW s, s \in Words
    PROVE  Balls(s)
  <1> DEFINE S == SUBSET Words
             Wider(B) == UNION {{t} \cup Edits(t) : t \in B}
             step == [k \in Nat |-> [B \in S |-> Wider(B)]]
             Is(ball) == ball = [k \in Nat |-> IF k = 0 THEN {s} ELSE Wider(ball[k - 1])]
             ball == CHOOSE f : Is(f)
  <1>1. \A B \in S : Wider(B) \in S
    BY EditIs
  <1> HIDE DEF Wider
  <1>2. Stepwise(S, {s}, step)
    <2>1. {s} \in S
      OBVIOUS
    <2> HIDE DEF S
    <2> QED
      BY <1>1, <2>1 DEF Stepwise
  <1>3. PICK f : Runs(S, {s}, step, f)
    <2> HIDE DEF S, step
    <2> QED
      BY <1>2, Recursion
  <1>4. f \in [Nat -> S] /\ f[0] = {s} /\ \A k \in Nat : f[k + 1] = Wider(f[k])
    <2> HIDE DEF S
    <2> QED
      BY <1>3 DEF Runs
  <1> HIDE DEF S, step
  <1>5. Is(f)
    <2>1. \A k \in Nat : k # 0 => k - 1 \in Nat /\ k - 1 + 1 = k
      OBVIOUS
    <2> QED
      BY <1>4, <2>1
  <1>6. Is(ball)
    <2> HIDE DEF Is
    <2> QED
      BY <1>5
  <1> HIDE DEF ball
  <1>7. ball[0] = {s} /\ \A k \in Nat : ball[k + 1] = Wider(ball[k])
    <2>1. \A k \in Nat : k + 1 \in Nat /\ k + 1 # 0 /\ k + 1 - 1 = k
      OBVIOUS
    <2> QED
      BY <1>6, <2>1
  <1> DEFINE G == {k \in Nat : ball[k] = f[k]}
  <1>8. \A k \in Nat : k \in G
    <2>1. 0 \in G
      BY <1>4, <1>7
    <2>2. \A k \in Nat : k \in G => k + 1 \in G
      BY <1>4, <1>7
    <2> HIDE DEF G
    <2> QED
      BY <2>1, <2>2, Induct
  <1>9. \A k \in Nat : ball[k] \subseteq Words
    BY <1>4, <1>8 DEF S
  <1>10. \A k : Within(s, k) = ball[k]
    BY DEF Within, ball, Wider
  <1> QED
    BY <1>7, <1>9, <1>10 DEF Balls, Wider

(* An edit at the end of the way, and none.                                *)
Reaches(s, k, t) == t \in Within(s, k)

LEMMA ReachNone ==
    ASSUME NEW s, s \in Words
    PROVE  Reaches(s, 0, s)
  BY WithinIs DEF Balls, Reaches

LEMMA ReachLast ==
    ASSUME NEW s, s \in Words, NEW k, k \in Nat, NEW u, Reaches(s, k, u), NEW t, t = u \/ t \in Edits(u)
    PROVE  Reaches(s, k + 1, t) /\ u \in Words /\ t \in Words
  <1>1. Balls(s)
    BY WithinIs
  <1>2. /\ Within(s, k + 1) = UNION {{v} \cup Edits(v) : v \in Within(s, k)}
        /\ u \in Within(s, k) /\ u \in Words
    BY <1>1 DEF Balls, Reaches
  <1>3. t \in Within(s, k + 1)
    BY <1>2
  <1>4. t \in Words
    BY <1>2, EditIs
  <1> QED
    BY <1>2, <1>3, <1>4 DEF Reaches

LEMMA ReachWhence ==
    ASSUME NEW s, s \in Words, NEW k, k \in Nat, NEW t, Reaches(s, k + 1, t)
    PROVE  \E u : Reaches(s, k, u) /\ (t = u \/ t \in Edits(u))
  BY WithinIs DEF Balls, Reaches

LEMMA ReachStay ==
    ASSUME NEW s, s \in Words, NEW t, Reaches(s, 0, t)
    PROVE  t = s
  BY WithinIs DEF Balls, Reaches

LEMMA ReachWord ==
    ASSUME NEW s, s \in Words, NEW k, k \in Nat, NEW t, Reaches(s, k, t)
    PROVE  t \in Words
  BY WithinIs DEF Balls, Reaches

(* An edit at the beginning of the way.                                    *)
LEMMA ReachFirst ==
    ASSUME NEW s, s \in Words, NEW u, u \in Edits(s), NEW k, k \in Nat, NEW t, Reaches(u, k, t)
    PROVE  Reaches(s, k + 1, t)
  <1> DEFINE G == {j \in Nat : \A v : Reaches(u, j, v) => Reaches(s, j + 1, v)}
  <1>0. u \in Words
    BY EditIs
  <1>1. 0 \in G
    <2>1. ASSUME NEW v, Reaches(u, 0, v) PROVE Reaches(s, 0 + 1, v)
      <3>1. v = u
        BY <1>0, <2>1, ReachStay
      <3>2. Reaches(s, 0, s) /\ 0 \in Nat
        BY ReachNone
      <3> QED
        BY <3>1, <3>2, ReachLast
    <2> QED
      BY <2>1
  <1>2. ASSUME NEW j \in Nat, j \in G PROVE j + 1 \in G
    <2>1. ASSUME NEW v, Reaches(u, j + 1, v) PROVE Reaches(s, j + 1 + 1, v)
      <3>1. PICK w : Reaches(u, j, w) /\ (v = w \/ v \in Edits(w))
        BY <1>0, <2>1, ReachWhence
      <3>2. Reaches(s, j + 1, w) /\ j + 1 \in Nat
        BY <1>2, <3>1
      <3> QED
        BY <3>1, <3>2, ReachLast
    <2> QED
      BY <2>1
  <1>3. \A j \in Nat : j \in G
    <2> HIDE DEF G
    <2> QED
      BY <1>1, <1>2, Induct
  <1> QED
    BY <1>3

(* The way back.                                                           *)
LEMMA ReachBack ==
    ASSUME NEW s, s \in Words, NEW k, k \in Nat, NEW t, Reaches(s, k, t)
    PROVE  Reaches(t, k, s)
  <1> DEFINE G == {j \in Nat : \A v : Reaches(s, j, v) => Reaches(v, j, s)}
  <1>1. 0 \in G
    <2>1. ASSUME NEW v, Reaches(s, 0, v) PROVE Reaches(v, 0, s)
      BY <2>1, ReachStay
    <2> QED
      BY <2>1
  <1>2. ASSUME NEW j \in Nat, j \in G PROVE j + 1 \in G
    <2>1. ASSUME NEW v, Reaches(s, j + 1, v) PROVE Reaches(v, j + 1, s)
      <3>1. PICK w : Reaches(s, j, w) /\ (v = w \/ v \in Edits(w))
        BY <2>1, ReachWhence
      <3>2. Reaches(w, j, s)
        BY <1>2, <3>1
      <3>3. w \in Words
        BY <3>1, ReachWord
      <3>4. CASE v = w
        BY <3>2, <3>3, <3>4, ReachLast
      <3>5. CASE v \in Edits(w)
        <4>1. v \in Words /\ w \in Edits(v)
          BY <3>3, <3>5, EditBack
        <4> QED
          BY <3>2, <4>1, ReachFirst
      <3> QED
        BY <3>1, <3>4, <3>5
    <2> QED
      BY <2>1
  <1>3. \A j \in Nat : j \in G
    <2> HIDE DEF G
    <2> QED
      BY <1>1, <1>2, Induct
  <1> QED
    BY <1>3

(* A letter at the end of both.                                            *)
LEMMA ReachAppended ==
    ASSUME NEW s, s \in Words, NEW k, k \in Nat, NEW t, Reaches(s, k, t), NEW c, c \in Letters
    PROVE  Reaches(Append(s, c), k, Append(t, c))
  <1> DEFINE G == {j \in Nat : \A v : Reaches(s, j, v) => Reaches(Append(s, c), j, Append(v, c))}
  <1>0. Append(s, c) \in Words
    BY EditLonger
  <1>1. 0 \in G
    <2>1. ASSUME NEW v, Reaches(s, 0, v) PROVE Reaches(Append(s, c), 0, Append(v, c))
      BY <1>0, <2>1, ReachStay, ReachNone
    <2> QED
      BY <2>1
  <1>2. ASSUME NEW j \in Nat, j \in G PROVE j + 1 \in G
    <2>1. ASSUME NEW v, Reaches(s, j + 1, v) PROVE Reaches(Append(s, c), j + 1, Append(v, c))
      <3>1. PICK w : Reaches(s, j, w) /\ (v = w \/ v \in Edits(w))
        BY <2>1, ReachWhence
      <3>2. Reaches(Append(s, c), j, Append(w, c))
        BY <1>2, <3>1
      <3>3. w \in Words
        BY <3>1, ReachWord
      <3>4. Append(v, c) = Append(w, c) \/ Append(v, c) \in Edits(Append(w, c))
        BY <3>1, <3>3, EditAppended
      <3> QED
        BY <1>0, <3>2, <3>4, ReachLast
    <2> QED
      BY <2>1
  <1>3. \A j \in Nat : j \in G
    <2> HIDE DEF G
    <2> QED
      BY <1>1, <1>2, Induct
  <1> QED
    BY <1>3

(* Whoever gets there with fewer edits gets there with more.               *)
LEMMA ReachMore ==
    ASSUME NEW s, s \in Words, NEW k, k \in Nat, NEW t, Reaches(s, k, t), NEW l, l \in Nat, k <= l
    PROVE  Reaches(s, l, t)
  <1> DEFINE G == {j \in Nat : Reaches(s, k + j, t)}
  <1>1. 0 \in G
    OBVIOUS
  <1>2. ASSUME NEW j \in Nat, j \in G PROVE j + 1 \in G
    <2>1. k + j \in Nat /\ k + (j + 1) = (k + j) + 1
      OBVIOUS
    <2>2. Reaches(s, k + j, t)
      BY <1>2
    <2>3. Reaches(s, (k + j) + 1, t)
      BY <2>1, <2>2, ReachLast
    <2> QED
      BY <2>1, <2>3
  <1>3. \A j \in Nat : j \in G
    <2> HIDE DEF G
    <2> QED
      BY <1>1, <1>2, Induct
  <1>4. l - k \in Nat /\ k + (l - k) = l
    OBVIOUS
  <1> QED
    BY <1>3, <1>4

-----------------------------------------------------------------------------
(* The table and the balls.                                                *)

(* The beginnings of a text.                                               *)
LEMMA Beginnings ==
    ASSUME NEW s, s \in Words
    PROVE  /\ SubSeq(s, 1, 0) = <<>> /\ SubSeq(s, 1, Len(s)) = s
           /\ \A i \in 0..Len(s) : SubSeq(s, 1, i) \in Words
           /\ \A i \in 1..Len(s) : SubSeq(s, 1, i) = Append(SubSeq(s, 1, i - 1), s[i]) /\ s[i] \in Letters
  <1>0. Len(s) \in Nat /\ s \in [1..Len(s) -> Letters]
    BY WordIs
  <1>1. SubSeq(s, 1, 0) = <<>>
    <2>1. 1 \in Int /\ 0 \in Int /\ 0 < 1
      OBVIOUS
    <2> QED
      BY <2>1, SubSeqEmpty
  <1>2. SubSeq(s, 1, Len(s)) = s
    BY SubSeqFull DEF Words
  <1>3. ASSUME NEW i \in 0..Len(s) PROVE SubSeq(s, 1, i) \in Words
    <2>1. 1 \in Nat \ {0} /\ i \in Nat /\ i <= Len(s) /\ 1 <= i + 1
      BY <1>0
    <2> QED
      BY <2>1, PartIs DEF PartOf
  <1>4. ASSUME NEW i \in 1..Len(s)
        PROVE  SubSeq(s, 1, i) = Append(SubSeq(s, 1, i - 1), s[i]) /\ s[i] \in Letters
    <2>1. 1 \in 1..Len(s) /\ i \in 1..Len(s) /\ i - 1 \in 0..Len(s) /\ s[i] \in Letters
      BY <1>0
    <2>2. SubSeq(s, 1, i) = SubSeq(s, 1, i - 1) \o <<s[i]>>
      BY <2>1, SubSeqRecursiveSecond DEF Words
    <2>3. SubSeq(s, 1, i - 1) \in Words
      BY <1>3, <2>1
    <2>4. Append(SubSeq(s, 1, i - 1), s[i]) = SubSeq(s, 1, i - 1) \o <<s[i]>>
      BY <2>1, <2>3, AppendIsConcat DEF Words
    <2> QED
      BY <2>1, <2>2, <2>4
  <1> QED
    BY <1>1, <1>2, <1>3, <1>4

(* An entry of the table is the length of a way.                           *)
Up(a, b, T, i, j) == Reaches(SubSeq(a, 1, i), T[j][i], SubSeq(b, 1, j))

LEMMA UpAll ==
    ASSUME NEW a, NEW b, a \in Words, b \in Words, NEW T, Filled(a, Len(a), b, Len(b), T)
    PROVE  \A i \in 0..Len(a), j \in 0..Len(b) : Up(a, b, T, i, j)
  <1> DEFINE n == Len(a)
             m == Len(b)
             A(i) == SubSeq(a, 1, i)
             B(j) == SubSeq(b, 1, j)
             G == {w \in Nat : \A i \in 0..n, j \in 0..m : i + j <= w => Up(a, b, T, i, j)}
  <1>0. n \in Nat /\ m \in Nat /\ Filled(a, n, b, m, T)
    BY WordIs
  <1>a. /\ A(0) = <<>> /\ \A i \in 0..n : A(i) \in Words
        /\ \A i \in 1..n : A(i) = Append(A(i - 1), a[i]) /\ a[i] \in Letters
    BY Beginnings
  <1>b. /\ B(0) = <<>> /\ \A i \in 0..m : B(i) \in Words
        /\ \A i \in 1..m : B(i) = Append(B(i - 1), b[i]) /\ b[i] \in Letters
    BY Beginnings
  <1>u. \A i, j : Up(a, b, T, i, j) <=> Reaches(A(i), T[j][i], B(j))
    BY DEF Up
  <1> HIDE DEF n, m, A, B
  <1>t. GentleRows(n, m, T)
    BY <1>0, FilledRows
  <1>v. /\ \A i \in 0..n : T[0][i] = i
        /\ \A j \in 0..m : T[j][0] = j /\ \A i \in 0..n : T[j][i] \in Nat
    BY <1>0, <1>t DEF Filled, GentleRows
  <1>1. 0 \in G
    <2>1. ASSUME NEW i \in 0..n, NEW j \in 0..m, i + j <= 0 PROVE Up(a, b, T, i, j)
      <3>1. i = 0 /\ j = 0
        BY <1>0, <2>1
      <3>2. T[j][i] = 0 /\ B(j) = A(i) /\ A(i) \in Words
        BY <1>a, <1>b, <1>v, <3>1
      <3>3. Reaches(A(i), 0, A(i))
        BY <3>2, ReachNone
      <3> QED
        BY <1>u, <3>2, <3>3
    <2> QED
      BY <2>1
  <1>2. ASSUME NEW w \in Nat, w \in G PROVE w + 1 \in G
    <2>1. ASSUME NEW i \in 0..n, NEW j \in 0..m, i + j <= w + 1 PROVE Up(a, b, T, i, j)
      <3>0. /\ A(i) \in Words /\ B(j) \in Words /\ T[j][i] \in Nat
            /\ i = 0 \/ i \in 1..n
            /\ j = 0 \/ j \in 1..m
        BY <1>a, <1>b, <1>v
      <3>l. ASSUME i \in 1..n PROVE Reaches(A(i - 1), T[j][i - 1], B(j)) /\ T[j][i - 1] \in Nat
        <4>1. i - 1 \in 0..n /\ i - 1 + j <= w
          BY <1>0, <2>1, <3>l
        <4>2. Up(a, b, T, i - 1, j)
          BY <1>2, <4>1
        <4> QED
          BY <1>u, <1>v, <4>1, <4>2
      <3>d. ASSUME j \in 1..m PROVE Reaches(A(i), T[j - 1][i], B(j - 1)) /\ T[j - 1][i] \in Nat
        <4>1. j - 1 \in 0..m /\ i + (j - 1) <= w
          BY <1>0, <2>1, <3>d
        <4>2. Up(a, b, T, i, j - 1)
          BY <1>2, <4>1
        <4> QED
          BY <1>u, <1>v, <4>1, <4>2
      <3>i. ASSUME i \in 1..n
            PROVE  A(i - 1) \in Words /\ A(i) = Append(A(i - 1), a[i]) /\ a[i] \in Letters /\ A(i - 1) \in Edits(A(i))
        <4>1. i - 1 \in 0..n
          BY <1>0, <3>i
        <4>2. A(i - 1) \in Words /\ A(i) = Append(A(i - 1), a[i]) /\ a[i] \in Letters
          BY <1>a, <3>i, <4>1
        <4> QED
          BY <4>2, EditLonger
      <3>j. ASSUME j \in 1..m
            PROVE  B(j - 1) \in Words /\ B(j) = Append(B(j - 1), b[j]) /\ b[j] \in Letters /\ B(j) \in Edits(B(j - 1))
        <4>1. j - 1 \in 0..m
          BY <1>0, <3>j
        <4>2. B(j - 1) \in Words /\ B(j) = Append(B(j - 1), b[j]) /\ b[j] \in Letters
          BY <1>b, <3>j, <4>1
        <4> QED
          BY <4>2, EditLonger
      <3>1. CASE i \in 1..n /\ T[j][i] = T[j][i - 1] + 1
        <4>1. Reaches(A(i), T[j][i - 1] + 1, B(j))
          BY <3>0, <3>1, <3>l, <3>i, ReachFirst
        <4> QED
          BY <1>u, <3>1, <4>1
      <3>2. CASE j \in 1..m /\ T[j][i] = T[j - 1][i] + 1
        <4>1. Reaches(A(i), T[j - 1][i] + 1, B(j))
          BY <3>0, <3>2, <3>d, <3>j, ReachLast
        <4> QED
          BY <1>u, <3>2, <4>1
      <3>3. CASE i \in 1..n /\ j \in 1..m /\ T[j][i] = T[j - 1][i - 1] + Cost(a, b[j], i)
        <4> DEFINE k == T[j - 1][i - 1]
                   v == Append(B(j - 1), a[i])
        <4>1. i - 1 \in 0..n /\ j - 1 \in 0..m /\ k \in Nat
          <5>1. i - 1 \in 0..n /\ j - 1 \in 0..m
            BY <1>0, <3>3
          <5> QED
            BY <1>v, <5>1
        <4>2. Reaches(A(i - 1), k, B(j - 1))
          <5>1. (i - 1) + (j - 1) <= w
            BY <1>0, <2>1, <3>3
          <5>2. Up(a, b, T, i - 1, j - 1)
            BY <1>2, <4>1, <5>1
          <5> QED
            BY <1>u, <5>2
        <4> HIDE DEF k
        <4>3. Reaches(A(i), k, v)
          BY <3>3, <3>i, <4>1, <4>2, ReachAppended
        <4>4. CASE a[i] = b[j]
          <5>1. v = B(j) /\ T[j][i] = k
            BY <3>3, <3>j, <4>1, <4>4 DEF Cost, k
          <5> QED
            BY <1>u, <4>3, <5>1
        <4>5. CASE a[i] # b[j]
          <5>1. B(j) \in Edits(v) /\ T[j][i] = k + 1
            BY <3>3, <3>i, <3>j, <4>5, EditLonger DEF Cost, k
          <5> HIDE DEF v
          <5>2. Reaches(A(i), k + 1, B(j))
            BY <3>0, <4>1, <4>3, <5>1, ReachLast
          <5> QED
            BY <1>u, <5>1, <5>2
        <4> QED
          BY <4>4, <4>5
      <3>4. CASE i \in 1..n /\ j = 0
        <4>1. T[j][i] = T[j][i - 1] + 1
          <5>1. i - 1 \in 0..n
            BY <1>0, <3>4
          <5> QED
            BY <1>v, <3>4, <5>1
        <4> QED
          BY <3>1, <3>4, <4>1
      <3>5. CASE i = 0 /\ j \in 1..m
        <4>1. T[j][i] = T[j - 1][i] + 1
          <5>1. j - 1 \in 0..m /\ j \in 0..m
            BY <1>0, <3>5
          <5>2. T[j][0] = j /\ T[j - 1][0] = j - 1
            BY <1>v, <5>1
          <5> QED
            BY <3>5, <5>2
        <4> QED
          BY <3>2, <3>5, <4>1
      <3>6. CASE i \in 1..n /\ j \in 1..m
        <4>1. RowAfter(a, n, b[j], j, T[j - 1], T[j])
          BY <1>0, <3>6 DEF Filled
        <4>2. \/ T[j][i] = T[j][i - 1] + 1 \/ T[j][i] = T[j - 1][i] + 1
              \/ T[j][i] = T[j - 1][i - 1] + Cost(a, b[j], i)
          BY <3>6, <4>1 DEF RowAfter
        <4> QED
          BY <3>1, <3>2, <3>3, <3>6, <4>2
      <3>7. CASE i = 0 /\ j = 0
        BY <1>0, <1>1, <3>7
      <3> QED
        BY <3>0, <3>4, <3>5, <3>6, <3>7
    <2> QED
      BY <2>1
  <1>3. \A w \in Nat : w \in G
    <2> HIDE DEF G
    <2> QED
      BY <1>1, <1>2, Induct
  <1>4. ASSUME NEW i \in 0..n, NEW j \in 0..m PROVE Up(a, b, T, i, j)
    <2>1. i + j \in Nat
      BY <1>0
    <2>2. i + j \in G
      BY <1>3, <2>1
    <2> QED
      BY <2>2
  <1> QED
    BY <1>4 DEF n, m

(* The distance of a text at the end of a way is no longer than the way.   *)
LEMMA DownAll ==
    ASSUME NEW a, a \in Words, NEW k, k \in Nat, NEW t, Reaches(a, k, t),
           NEW T, Filled(a, Len(a), t, Len(t), T)
    PROVE  T[Len(t)][Len(a)] <= k
  <1> DEFINE n == Len(a)
             Less(j, v, R) == R[Len(v)][n] <= j
             G == {j \in Nat : \A v, R : Reaches(a, j, v) /\ Filled(a, n, v, Len(v), R) => Less(j, v, R)}
  <1>0. n \in Nat
    BY WordIs
  <1>1. 0 \in G
    <2>1. ASSUME NEW v, NEW R, Reaches(a, 0, v), Filled(a, n, v, Len(v), R) PROVE Less(0, v, R)
      <3>1. v = a
        BY <2>1, ReachStay
      <3>2. Filled(a, n, a, n, R)
        BY <2>1, <3>1
      <3> HIDE DEF n
      <3>3. R[n][n] = 0
        BY <1>0, <3>2, FilledSame
      <3> QED
        BY <3>1, <3>3 DEF n
    <2> QED
      BY <2>1
  <1>2. ASSUME NEW j \in Nat, j \in G PROVE j + 1 \in G
    <2>1. ASSUME NEW v, NEW R, Reaches(a, j + 1, v), Filled(a, n, v, Len(v), R) PROVE Less(j + 1, v, R)
      <3>1. PICK w : Reaches(a, j, w) /\ (v = w \/ v \in Edits(w))
        BY <2>1, ReachWhence
      <3>2. w \in Words /\ Len(w) \in Nat
        BY <3>1, ReachWord, WordIs
      <3>3. PICK Q : Filled(a, n, w, Len(w), Q)
        BY <1>0, <3>2, TableIs
      <3>4. Less(j, w, Q)
        BY <1>2, <3>1, <3>3
      <3>5. v \in Words /\ Len(v) \in Nat
        BY <3>1, <3>2, EditIs, WordIs
      <3> HIDE DEF n
      <3> DEFINE x == R[Len(v)]
                 y == Q[Len(w)]
      <3>6. x \in [0..n -> Nat] /\ y \in [0..n -> Nat]
        <4>1. GentleRows(n, Len(v), R)
          BY <1>0, <2>1, <3>5, FilledRows
        <4>2. GentleRows(n, Len(w), Q)
          BY <1>0, <3>2, <3>3, FilledRows
        <4>3. Len(v) \in 0..Len(v) /\ Len(w) \in 0..Len(w)
          BY <3>2, <3>5
        <4> QED
          BY <4>1, <4>2, <4>3 DEF GentleRows
      <3>7. Near(n, x, y)
        <4>1. CASE v = w
          <5>1. AgreeOn(0..Len(v), R, Q)
            <6> DEFINE l == Len(v)
            <6>1. l \in Nat /\ l <= l /\ Filled(a, n, v, l, R) /\ Filled(a, n, v, l, Q) /\ AgreeOn(1..l, v, v)
              BY <2>1, <3>3, <3>5, <4>1 DEF AgreeOn
            <6> HIDE DEF l
            <6>2. AgreeOn(0..l, R, Q)
              BY <1>0, <6>1, FilledAlike
            <6> QED
              BY <6>2 DEF l
          <5>2. x = y
            BY <3>5, <4>1, <5>1 DEF AgreeOn
          <5> HIDE DEF x, y
          <5>3. \A i \in 0..n : x[i] \in Nat
            BY <3>6
          <5>4. \A i \in 0..n : x[i] <= x[i] + 1
            BY <5>3
          <5> QED
            BY <5>2, <5>4 DEF Near
        <4>2. CASE v \in Edits(w)
          <5>1. PICK p : Shortened(w, v, p) \/ Replaced(w, v, p) \/ Shortened(v, w, p)
            BY <3>2, <4>2, EditIs DEF EditTo
          <5>2. CASE Shortened(w, v, p)
            BY <1>0, <2>1, <3>2, <3>3, <3>5, <5>2, FilledShortened
          <5>3. CASE Replaced(w, v, p)
            BY <1>0, <2>1, <3>2, <3>3, <5>3, FilledReplaced
          <5>4. CASE Shortened(v, w, p)
            BY <1>0, <2>1, <3>2, <3>3, <3>5, <5>4, FilledShortened
          <5> QED
            BY <5>1, <5>2, <5>3, <5>4
        <4> QED
          BY <3>1, <4>1, <4>2
      <3>8. x[n] <= y[n] + 1 /\ x[n] \in Nat /\ y[n] \in Nat
        <4>1. n \in 0..n
          BY <1>0
        <4> QED
          BY <3>6, <3>7, <4>1 DEF Near
      <3>9. y[n] <= j
        BY <3>4
      <3> HIDE DEF x, y
      <3>10. x[n] <= j + 1
        BY <3>8, <3>9
      <3> QED
        BY <3>10 DEF x
    <2> QED
      BY <2>1
  <1>3. \A j \in Nat : j \in G
    <2> HIDE DEF G
    <2> QED
      BY <1>1, <1>2, Induct
  <1>4. k \in G
    BY <1>3
  <1>5. Less(k, t, T)
    BY <1>4
  <1> QED
    BY <1>5

(* The last entry of the table is the least number of edits.               *)
FewestEdits(s, t, d) == d \in Nat /\ \A k \in Nat : Reaches(s, k, t) <=> d <= k

LEMMA TableLeast ==
    ASSUME NEW a, NEW b, a \in Words, b \in Words, NEW T, Filled(a, Len(a), b, Len(b), T)
    PROVE  FewestEdits(a, b, T[Len(b)][Len(a)])
  <1> DEFINE n == Len(a)
             m == Len(b)
             d == T[m][n]
  <1>0. n \in Nat /\ m \in Nat /\ n \in 0..n /\ m \in 0..m
    BY WordIs
  <1>1. d \in Nat
    <2>1. GentleRows(n, m, T)
      BY <1>0, FilledRows
    <2> QED
      BY <1>0, <2>1 DEF GentleRows
  <1>2. Reaches(a, d, b)
    <2>1. Up(a, b, T, n, m)
      BY <1>0, UpAll
    <2>2. SubSeq(a, 1, n) = a /\ SubSeq(b, 1, m) = b
      BY Beginnings
    <2> QED
      BY <2>1, <2>2 DEF Up
  <1>3. ASSUME NEW k \in Nat, Reaches(a, k, b) PROVE d <= k
    BY <1>3, DownAll
  <1> HIDE DEF d
  <1>4. ASSUME NEW k \in Nat, d <= k PROVE Reaches(a, k, b)
    BY <1>1, <1>2, <1>4, ReachMore
  <1>5. FewestEdits(a, b, d)
    BY <1>1, <1>3, <1>4 DEF FewestEdits
  <1> QED
    BY <1>5 DEF d

LEMMA LeastBack ==
    ASSUME NEW s, NEW t, s \in Words, t \in Words, NEW d, FewestEdits(s, t, d)
    PROVE  FewestEdits(t, s, d)
  <1>1. ASSUME NEW k \in Nat PROVE Reaches(s, k, t) <=> Reaches(t, k, s)
    BY ReachBack
  <1> QED
    BY <1>1 DEF FewestEdits

(* What levenshtein answers, by the least number of edits.                 *)
LEMMA DistanceIs ==
    ASSUME NEW x, NEW y, x \in Words, y \in Words, NEW cut, cut \in Nat
    PROVE  \E d : FewestEdits(x, y, d) /\ IF d <= cut THEN Levenshtein(x, y, cut) = d ELSE ~ (Levenshtein(x, y, cut) <= cut)
  <1> DEFINE a == IF Len(x) > Len(y) THEN y ELSE x
             b == IF Len(x) > Len(y) THEN x ELSE y
             T == Table(a, b)
             n == Len(a)
             m == Len(b)
             d == T[m][n]
             r == Levenshtein(x, y, cut)
  <1>0. a \in Words /\ b \in Words /\ n \in Nat /\ m \in Nat
    BY WordIs
  <1>1. Filled(a, n, b, m, T)
    BY <1>0, TableIs
  <1>2. FewestEdits(a, b, d)
    BY <1>0, <1>1, TableLeast
  <1>3. FewestEdits(x, y, d)
    BY <1>2, LeastBack
  <1>4. r = IF x = y THEN 0
            ELSE IF a = <<>> THEN m
            ELSE IF \E j \in 1..m : \A i \in 0..n : T[j][i] > cut THEN cut + 1
            ELSE d
    BY DEF Levenshtein
  <1> HIDE DEF T, r
  <1>5. CASE x = y
    <2>1. Reaches(x, 0, y)
      BY <1>5, ReachNone
    <2> HIDE DEF d
    <2>2. d = 0 /\ d <= cut
      BY <1>3, <2>1 DEF FewestEdits
    <2>3. r = 0
      BY <1>4, <1>5
    <2> QED
      BY <1>3, <2>2, <2>3 DEF r
  <1> HIDE DEF a, b
  <1>6. CASE x # y /\ a = <<>>
    <2>1. n = 0
      BY <1>6
    <2>2. GentleRows(n, m, T)
      BY <1>0, <1>1, FilledRows
    <2>3. d = m
      BY <1>0, <2>1, <2>2 DEF GentleRows
    <2>4. r = d
      BY <1>4, <1>6, <2>3
    <2>5. d <= cut \/ d > cut
      BY <1>0, <2>3
    <2> QED
      BY <1>3, <2>4, <2>5 DEF r
  <1> HIDE DEF n, m
  <1>7. ASSUME NEW j \in 1..m, \A i \in 0..n : T[j][i] > cut
        PROVE  d > cut
    <2>1. Above(n, T[j], cut)
      BY <1>7 DEF Above
    <2> QED
      BY <1>0, <1>1, <2>1, FilledAbove
  <1> HIDE DEF d
  <1>8. d \in Nat
    BY <1>3 DEF FewestEdits
  <1>9. CASE x # y /\ a # <<>> /\ \E j \in 1..m : \A i \in 0..n : T[j][i] > cut
    <2>1. d > cut /\ r = cut + 1
      BY <1>4, <1>7, <1>9
    <2> QED
      BY <1>3, <1>8, <2>1 DEF r
  <1>10. CASE x # y /\ a # <<>> /\ ~ \E j \in 1..m : \A i \in 0..n : T[j][i] > cut
    <2>1. r = d
      BY <1>4, <1>10
    <2> QED
      BY <1>3, <1>8, <2>1 DEF r
  <1> QED
    BY <1>5, <1>6, <1>9, <1>10

(* The distance is the least number of edits, or more than the cut when    *)
(* that is (text_utils.py:89-118), for texts of any length.                *)
THEOREM Distances ==
    \A x, y \in Words, cut \in Nat :
        LET d == Levenshtein(x, y, cut) IN
        IF d <= cut
        THEN d \in Nat /\ y \in Within(x, d) /\ (d > 0 => y \notin Within(x, d - 1))
        ELSE y \notin Within(x, cut)
  <1> SUFFICES ASSUME NEW x, NEW y, NEW cut, x \in Words, y \in Words, cut \in Nat
               PROVE  LET d == Levenshtein(x, y, cut) IN
                      IF d <= cut
                      THEN d \in Nat /\ y \in Within(x, d) /\ (d > 0 => y \notin Within(x, d - 1))
                      ELSE y \notin Within(x, cut)
    OBVIOUS
  <1> DEFINE r == Levenshtein(x, y, cut)
  <1>1. PICK d : FewestEdits(x, y, d) /\ IF d <= cut THEN r = d ELSE ~ (r <= cut)
    BY DistanceIs
  <1> HIDE DEF r
  <1>2. d \in Nat /\ \A k \in Nat : y \in Within(x, k) <=> d <= k
    BY <1>1 DEF FewestEdits, Reaches
  <1>3. CASE d <= cut
    <2>1. r = d /\ y \in Within(x, d)
      BY <1>1, <1>2, <1>3
    <2>2. ASSUME d > 0 PROVE y \notin Within(x, d - 1)
      <3>1. d - 1 \in Nat /\ ~ (d <= d - 1)
        BY <1>2, <2>2
      <3> QED
        BY <1>2, <3>1
    <2> QED
      BY <1>2, <1>3, <2>1, <2>2 DEF r
  <1>4. CASE ~ (d <= cut)
    <2>1. ~ (r <= cut) /\ y \notin Within(x, cut)
      BY <1>1, <1>2, <1>4
    <2> QED
      BY <2>1 DEF r
  <1> QED
    BY <1>3, <1>4

-----------------------------------------------------------------------------
(* Scores of texts.                                                        *)

LEMMA TrigramsAre ==
    ASSUME NEW s, s \in Words
    PROVE  IsFiniteSet(Trigrams(s)) /\ Trigrams(s) # {}
  <1> DEFINE padded == <<Blank, Blank>> \o s \o <<Blank, Blank>>
             D == 1..(Len(padded) - 2)
             f == [i \in D |-> SubSeq(padded, i, i + 2)]
  <1>1. Blank \in Letters
    BY SearchAssumption
  <1>2. Len(padded) \in Nat /\ Len(padded) >= 4
    <2> DEFINE e == <<Blank, Blank>>
    <2>1. e \in Words /\ Len(e) = 2 /\ Len(s) \in Nat
      BY <1>1, WordIs DEF Words
    <2> HIDE DEF e
    <2>2. JoinOf(e, s, e \o s)
      BY <2>1, JoinIs
    <2>3. e \o s \in Words /\ Len(e \o s) = 2 + Len(s)
      BY <2>1, <2>2 DEF JoinOf
    <2>4. JoinOf(e \o s, e, (e \o s) \o e)
      BY <2>1, <2>3, JoinIs
    <2>5. Len((e \o s) \o e) = 4 + Len(s)
      BY <2>1, <2>3, <2>4 DEF JoinOf
    <2>6. padded = (e \o s) \o e
      BY DEF e
    <2> QED
      BY <2>1, <2>5, <2>6
  <1>3. Trigrams(s) = {SubSeq(padded, i, i + 2) : i \in D}
    BY DEF Trigrams
  <1> HIDE DEF padded
  <1>4. IsFiniteSet(D) /\ 1 \in D
    <2>1. 1 \in Int /\ Len(padded) - 2 \in Int
      BY <1>2
    <2> QED
      BY <1>2, <2>1, FS_Interval
  <1> HIDE DEF D
  <1>5. f \in Surjection(D, Trigrams(s))
    BY <1>3 DEF Surjection
  <1> HIDE DEF f
  <1> QED
    BY <1>3, <1>4, <1>5, FS_Surjection

LEMMA JaccardIs ==
    ASSUME NEW s, NEW t, s \in Words, t \in Words
    PROVE  Jaccard(s, t).n \in Nat /\ Jaccard(s, t).d \in Nat \ {0} /\ Jaccard(s, t).n <= Jaccard(s, t).d
  <1> DEFINE A == Trigrams(s)
             B == Trigrams(t)
  <1>1. IsFiniteSet(A) /\ A # {} /\ IsFiniteSet(B)
    BY TrigramsAre
  <1> HIDE DEF A, B
  <1>2. IsFiniteSet(A \cup B) /\ A \cup B # {}
    BY <1>1, FS_Union
  <1>3. A \cap B \in SUBSET (A \cup B)
    OBVIOUS
  <1>4. IsFiniteSet(A \cap B) /\ Cardinality(A \cap B) <= Cardinality(A \cup B)
    BY <1>2, <1>3, FS_Subset
  <1>5. Cardinality(A \cap B) \in Nat /\ Cardinality(A \cup B) \in Nat /\ Cardinality(A \cup B) # 0
    BY <1>2, <1>4, FS_CardinalityType, FS_EmptySet
  <1> QED
    BY <1>4, <1>5 DEF Jaccard, A, B

(* The first place of some.                                                *)
LEMMA FirstFound ==
    ASSUME NEW S, S \in SUBSET (Nat \ {0}), S # {}
    PROVE  Min(S) \in S /\ \A j \in S : Min(S) <= j
  <1>1. S \in SUBSET Nat
    OBVIOUS
  <1>2. \E k \in S : \A j \in S : k <= j
    BY <1>1, LeastNat
  <1> QED
    BY <1>2 DEF Min

(* What a score tells.                                                     *)
ScoreTells(a, b, f) ==
    /\ f.n \in Nat /\ f.d \in Nat \ {0} /\ f.n <= f.d
    /\ a # <<>> /\ Found(a, b) # {} =>
          /\ 100 * f.n >= 70 * f.d
          /\ StartsWord(a, b) => 100 * f.n >= 85 * f.d
          /\ 1 \in Found(a, b) => 100 * f.n >= 90 * f.d
          /\ ~ StartsWord(a, b) => ~ (100 * f.n >= 80 * f.d) \/ 1 \in Found(a, b)

LEMMA ScoreIs ==
    ASSUME NEW a, NEW b, a \in Words, b \in Words
    PROVE  ScoreTells(a, b, FuzzyScore(a, b))
  <1> DEFINE F == Found(a, b)
             W == StartsWord(a, b)
             m == Len(a)
             n == Len(b)
             f == FuzzyScore(a, b)
             low == Min(F)
  <1>0. m \in Nat /\ n \in Nat
    BY WordIs
  <1>1. F \in SUBSET (1..(n - m + 1)) /\ (W => F # {})
    BY DEF Found, StartsWord
  <1>2. f = IF a = <<>> \/ b = <<>> THEN [n |-> 0, d |-> 1]
            ELSE IF a = b THEN [n |-> 1, d |-> 1]
            ELSE IF 1 \in F THEN [n |-> 90 * n + 10 * m, d |-> 100 * n]
            ELSE IF W THEN [n |-> 85, d |-> 100]
            ELSE IF F # {} THEN [n |-> 80 * n - 10 * (low - 1), d |-> 100 * n]
            ELSE Jaccard(a, b)
    BY DEF FuzzyScore
  <1>3. (a = <<>> <=> m = 0) /\ (b = <<>> <=> n = 0)
    <2>1. a # <<>> => m \in Nat \ {0}
      BY EmptySeq DEF Words
    <2>2. b # <<>> => n \in Nat \ {0}
      BY EmptySeq DEF Words
    <2> QED
      BY <2>1, <2>2
  <1>4. ASSUME a = b, a # <<>> PROVE 1 \in F
    <2>1. SubSeq(b, 1, 1 + m - 1) = a
      BY <1>0, <1>4, Beginnings
    <2>2. 1 \in 1..(n - m + 1)
      BY <1>0, <1>4
    <2> QED
      BY <2>1, <2>2 DEF Found
  <1>j. Jaccard(a, b).n \in Nat /\ Jaccard(a, b).d \in Nat \ {0} /\ Jaccard(a, b).n <= Jaccard(a, b).d
    BY JaccardIs
  <1> HIDE DEF F, W, f, m, n
  <1>5. CASE a = <<>> \/ b = <<>>
    <2>1. f.n = 0 /\ f.d = 1
      BY <1>2, <1>5
    <2>2. a # <<>> => F = {}
      BY <1>0, <1>1, <1>3, <1>5
    <2> QED
      BY <2>1, <2>2 DEF ScoreTells, F, f
  <1>6. CASE a # <<>> /\ b # <<>> /\ a = b
    <2>1. f.n = 1 /\ f.d = 1
      BY <1>2, <1>6
    <2> QED
      BY <1>4, <1>6, <2>1 DEF ScoreTells, F, f
  <1>7. CASE a # <<>> /\ b # <<>> /\ a # b /\ 1 \in F
    <2>1. f.n = 90 * n + 10 * m /\ f.d = 100 * n /\ 1 <= m /\ m <= n
      <3>1. f = [n |-> 90 * n + 10 * m, d |-> 100 * n]
        BY <1>2, <1>7
      <3>2. 1 <= m /\ m <= n
        BY <1>0, <1>1, <1>3, <1>7
      <3> QED
        BY <3>1, <3>2
    <2>2. /\ f.n \in Nat /\ f.d \in Nat \ {0} /\ f.n <= f.d /\ 100 * f.n >= 90 * f.d /\ 100 * f.n >= 85 * f.d
          /\ 100 * f.n >= 70 * f.d
      BY <1>0, <2>1
    <2> QED
      BY <1>7, <2>2 DEF ScoreTells, F, f
  <1>8. CASE a # <<>> /\ b # <<>> /\ a # b /\ 1 \notin F /\ W
    <2>1. f.n = 85 /\ f.d = 100
      BY <1>2, <1>8
    <2> QED
      BY <1>8, <2>1 DEF ScoreTells, F, W, f
  <1>9. CASE a # <<>> /\ b # <<>> /\ a # b /\ 1 \notin F /\ ~ W /\ F # {}
    <2>1. low \in F /\ low \in 1..(n - m + 1) /\ low # 1
      <3>1. F \in SUBSET (Nat \ {0})
        BY <1>0, <1>1
      <3> HIDE DEF low
      <3>2. low \in F
        BY <1>9, <3>1, FirstFound DEF low
      <3> QED
        BY <1>1, <1>9, <3>2
    <2> HIDE DEF low
    <2>2. f.n = 80 * n - 10 * (low - 1) /\ f.d = 100 * n
      <3>1. f = [n |-> 80 * n - 10 * (low - 1), d |-> 100 * n]
        BY <1>2, <1>9
      <3> QED
        BY <3>1
    <2>3. m >= 1 /\ n >= 1 /\ low >= 2 /\ low <= n
      BY <1>0, <1>3, <1>9, <2>1
    <2>4. /\ f.n \in Nat /\ f.d \in Nat \ {0} /\ f.n <= f.d /\ 100 * f.n >= 70 * f.d
          /\ ~ (100 * f.n >= 80 * f.d)
      BY <1>0, <2>1, <2>2, <2>3
    <2> QED
      BY <1>9, <2>4 DEF ScoreTells, F, W, f
  <1>10. CASE a # <<>> /\ b # <<>> /\ a # b /\ F = {}
    <2>1. f = Jaccard(a, b)
      BY <1>1, <1>2, <1>10
    <2> QED
      BY <1>j, <1>10, <2>1 DEF ScoreTells, F, f
  <1> QED
    BY <1>5, <1>6, <1>7, <1>8, <1>9, <1>10

(* Whoever is found at the first place is how the other begins.            *)
LEMMA PrefixFound ==
    ASSUME NEW a, NEW b, a \in Words, b \in Words
    PROVE  IsPrefix(a, b) <=> 1 \in Found(a, b)
  <1>1. SubSeq(a, 1, Len(a)) = a /\ Len(a) \in Nat /\ Len(b) \in Nat
    BY Beginnings, WordIs
  <1>2. 1 + Len(a) - 1 = Len(a) /\ (1 \in 1..(Len(b) - Len(a) + 1) <=> Len(a) <= Len(b))
    BY <1>1
  <1> QED
    BY <1>1, <1>2 DEF IsPrefix, Found

(* Where the query is found decides the range of the score, and the score  *)
(* is a share (text_utils.py:121-147), for texts of any length.            *)
THEOREM TextScores ==
    \A a, b \in Words :
        LET score == FuzzyScore(a, b) IN
        /\ 0 <= score.n /\ score.n <= score.d
        /\ a # <<>> /\ Found(a, b) # {} =>
              /\ AtLeast(score, 70)
              /\ StartsWord(a, b) => AtLeast(score, 85)
              /\ IsPrefix(a, b) => AtLeast(score, 90)
              /\ ~ StartsWord(a, b) => ~ AtLeast(score, 80) \/ IsPrefix(a, b)
  <1> SUFFICES ASSUME NEW a, NEW b, a \in Words, b \in Words
               PROVE  LET score == FuzzyScore(a, b) IN
                      /\ 0 <= score.n /\ score.n <= score.d
                      /\ a # <<>> /\ Found(a, b) # {} =>
                            /\ AtLeast(score, 70)
                            /\ StartsWord(a, b) => AtLeast(score, 85)
                            /\ IsPrefix(a, b) => AtLeast(score, 90)
                            /\ ~ StartsWord(a, b) => ~ AtLeast(score, 80) \/ IsPrefix(a, b)
    OBVIOUS
  <1> DEFINE f == FuzzyScore(a, b)
  <1>1. ScoreTells(a, b, f)
    BY ScoreIs
  <1>2. IsPrefix(a, b) <=> 1 \in Found(a, b)
    BY PrefixFound
  <1> HIDE DEF f
  <1>3. 0 <= f.n /\ f.n <= f.d
    BY <1>1 DEF ScoreTells
  <1>4. ASSUME a # <<>>, Found(a, b) # {}
        PROVE  /\ AtLeast(f, 70)
               /\ StartsWord(a, b) => AtLeast(f, 85)
               /\ IsPrefix(a, b) => AtLeast(f, 90)
               /\ ~ StartsWord(a, b) => ~ AtLeast(f, 80) \/ IsPrefix(a, b)
    BY <1>1, <1>2, <1>4 DEF ScoreTells, AtLeast
  <1> QED
    BY <1>3, <1>4 DEF f

-----------------------------------------------------------------------------
(* Products bought together.                                               *)

(* Two products are related both ways; a score is a share, and full only   *)
(* for two that are always bought together (recommendations.py:25-88), for *)
(* any number of baskets and products.                                     *)
THEOREM TogetherMeasure ==
    \A n \in Nat : \A bs \in [1..n -> SUBSET Goods] : \A p \in Goods : \A q \in Related(bs, p) :
        LET score == CosineSquared(bs, p, q) IN
        /\ p # q /\ p \in Related(bs, q) /\ score.n \in Nat /\ score.d \in Nat /\ score.n <= score.d
        /\ score.n = score.d <=> \A k \in DOMAIN bs : p \in bs[k] <=> q \in bs[k]
  <1> SUFFICES ASSUME NEW n, n \in Nat, NEW bs \in [1..n -> SUBSET Goods], NEW p \in Goods, NEW q \in Related(bs, p)
               PROVE  LET score == CosineSquared(bs, p, q) IN
                      /\ p # q /\ p \in Related(bs, q) /\ score.n \in Nat /\ score.d \in Nat /\ score.n <= score.d
                      /\ score.n = score.d <=> \A k \in DOMAIN bs : p \in bs[k] <=> q \in bs[k]
    OBVIOUS
  <1> DEFINE D == 1..n
             P == {k \in D : p \in bs[k]}
             Q == {k \in D : q \in bs[k]}
             B == {k \in D : p # q /\ {p, q} \subseteq bs[k]}
             t == Cardinality(B)
             x == Cardinality(P)
             y == Cardinality(Q)
  <1>1. DOMAIN bs = D
    OBVIOUS
  <1>2. Together(bs, p, q) = t /\ Popularity(bs, p) = x /\ Popularity(bs, q) = y
    BY <1>1 DEF Together, Popularity
  <1>3. Together(bs, q, p) = t
    <2>1. {k \in D : q # p /\ {q, p} \subseteq bs[k]} = B
      OBVIOUS
    <2> QED
      BY <1>1, <2>1 DEF Together
  <1>4. q \in Goods /\ t > 0
    BY <1>2 DEF Related
  <1>5. p \in Related(bs, q)
    BY <1>3, <1>4 DEF Related
  <1>6. IsFiniteSet(D)
    <2>1. 1 \in Int /\ n \in Int
      OBVIOUS
    <2> QED
      BY <2>1, FS_Interval
  <1> HIDE DEF D
  <1>7. IsFiniteSet(P) /\ IsFiniteSet(Q) /\ IsFiniteSet(B)
    <2>1. P \in SUBSET D /\ Q \in SUBSET D /\ B \in SUBSET D
      OBVIOUS
    <2> HIDE DEF P, Q, B
    <2> QED
      BY <1>6, <2>1, FS_Subset
  <1>8. B # {}
    <2> HIDE DEF B
    <2>1. B = {} => t = 0
      BY FS_EmptySet
    <2> QED
      BY <1>4, <2>1
  <1>9. p # q /\ B = P \cap Q
    <2>1. p # q
      BY <1>8
    <2> QED
      BY <2>1
  <1> HIDE DEF B
  <1>10. (\A k \in D : p \in bs[k] <=> q \in bs[k]) <=> P = Q
    OBVIOUS
  <1> HIDE DEF P, Q
  <1>11. B \in SUBSET P /\ B \in SUBSET Q
    BY <1>9
  <1>12. t <= x /\ t <= y /\ (x = t => P = B) /\ (y = t => Q = B)
    BY <1>7, <1>11, FS_Subset
  <1>13. t \in Nat /\ x \in Nat /\ y \in Nat
    BY <1>7, FS_CardinalityType
  <1> DEFINE s == t * t
             d == x * y
  <1>c. CosineSquared(bs, p, q).n = s /\ CosineSquared(bs, p, q).d = d
    BY <1>2 DEF CosineSquared
  <1>14. s <= d /\ s \in Nat /\ d \in Nat /\ (s = d => t = x /\ t = y)
    <2> HIDE DEF t, x, y
    <2> QED
      BY <1>4, <1>12, <1>13, Product
  <1>15. s = d <=> P = Q
    <2>1. ASSUME s = d PROVE P = Q
      BY <1>12, <1>14, <2>1
    <2>2. ASSUME P = Q PROVE s = d
      <3>1. B = P
        BY <1>9, <2>2
      <3> QED
        BY <2>2, <3>1
    <2> QED
      BY <2>1, <2>2
  <1> HIDE DEF s, d
  <1> QED
    BY <1>1, <1>c, <1>5, <1>9, <1>10, <1>14, <1>15

-----------------------------------------------------------------------------
(* Lists that hold nothing twice.                                          *)

Lists(S, s) ==
    /\ s \in Seq(S) /\ Len(s) \in Nat /\ DOMAIN s = 1..Len(s)
    /\ \A i \in 1..Len(s) : s[i] \in S
    /\ \A i, j \in 1..Len(s) : s[i] = s[j] => i = j

LEMMA ListsIs ==
    ASSUME NEW S, NEW s, Lists(S, s)
    PROVE  IsInjective(s) /\ Range(s) \subseteq S /\ \A x : x \in Range(s) <=> \E i \in 1..Len(s) : s[i] = x
  BY DEF Lists, IsInjective, Range

LEMMA ListsMade ==
    ASSUME NEW S, NEW s, s \in Seq(S), IsInjective(s)
    PROVE  Lists(S, s)
  <1>1. Len(s) \in Nat /\ s \in [1..Len(s) -> S] /\ DOMAIN s = 1..Len(s)
    BY LenProperties
  <1> QED
    BY <1>1 DEF Lists, IsInjective

(* A finite set in some order.                                             *)
Arranged(S, n, s) == Lists(S, s) /\ Len(s) = n /\ Range(s) = S

LEMMA OrderIs ==
    ASSUME NEW S, IsFiniteSet(S), NEW s, s \in [1..Cardinality(S) -> S], IsInjective(s)
    PROVE  Arranged(S, Cardinality(S), s)
  <1> DEFINE n == Cardinality(S)
  <1>1. n \in Nat
    BY FS_CardinalityType
  <1>2. s \in Injection(1..n, S)
    BY DEF Injection
  <1>3. Cardinality(1..n) = n
    <2>1. 1 \in Int /\ n \in Int
      BY <1>1
    <2>2. Cardinality(1..n) = IF 1 > n THEN 0 ELSE n - 1 + 1
      BY <2>1, FS_Interval
    <2> QED
      BY <1>1, <2>2
  <1>4. s \in Surjection(1..n, S)
    BY <1>2, <1>3, FS_Injection
  <1>5. Range(s) = S
    BY <1>4 DEF Surjection, Range
  <1> HIDE DEF n
  <1>6. s \in Seq(S) /\ Len(s) = n
    <2>1. s \in [1..n -> S]
      BY <1>2 DEF Injection
    <2> QED
      BY <1>1, <2>1
  <1>7. Lists(S, s)
    BY <1>6, ListsMade
  <1> QED
    BY <1>5, <1>6, <1>7 DEF Arranged, n

LEMMA SetToSeqIs ==
    ASSUME NEW S, IsFiniteSet(S)
    PROVE  Arranged(S, Cardinality(S), SetToSeq(S))
  <1>1. Bijection(1..Cardinality(S), S) # {}
    BY FS_CardinalityType DEF ExistsBijection
  <1>2. \E f \in [1..Cardinality(S) -> S] : IsInjective(f)
    BY <1>1 DEF Bijection, Injection
  <1>3. SetToSeq(S) \in [1..Cardinality(S) -> S] /\ IsInjective(SetToSeq(S))
    BY <1>2 DEF SetToSeq
  <1> QED
    BY <1>3, OrderIs

-----------------------------------------------------------------------------
(* Sorting.                                                                *)

LEMMA BestIs ==
    ASSUME NEW S, IsFiniteSet(S), NEW score, Scored(S, score)
    PROVE  Arranged(S, Cardinality(S), Best(S, score)) /\ Falling(score, Best(S, score))
  <1>1. SomeBest(S, score)
    BY BestExists
  <1>2. Best(S, score) = CHOOSE s \in [1..Cardinality(S) -> S] : IsInjective(s) /\ Falling(score, s)
    BY DEF Best, Falling
  <1>3. /\ Best(S, score) \in [1..Cardinality(S) -> S] /\ IsInjective(Best(S, score))
        /\ Falling(score, Best(S, score))
    BY <1>1, <1>2 DEF SomeBest
  <1> QED
    BY <1>3, OrderIs

-----------------------------------------------------------------------------
(* The beginning of a list.                                                *)

LEMMA Smaller ==
    ASSUME NEW x, NEW y, x \in Nat, y \in Nat
    PROVE  Min({x, y}) = IF x <= y THEN x ELSE y
  <1>1. CASE x <= y
    <2>1. \E z \in {x, y} : \A w \in {x, y} : z <= w
      BY <1>1
    <2> QED
      BY <1>1, <2>1 DEF Min
  <1>2. CASE ~ (x <= y)
    <2>1. \E z \in {x, y} : \A w \in {x, y} : z <= w
      BY <1>2
    <2> QED
      BY <1>2, <2>1 DEF Min
  <1> QED
    BY <1>1, <1>2

CutAt(s, n, t) ==
    /\ Len(t) = (IF n <= Len(s) THEN n ELSE Len(s)) /\ (Len(s) <= n => t = s)
    /\ \A i \in 1..Len(t) : t[i] = s[i]

LEMMA FirstIs ==
    ASSUME NEW S, NEW s, Lists(S, s), NEW n, n \in Nat
    PROVE  Lists(S, First(s, n)) /\ CutAt(s, n, First(s, n))
  <1> DEFINE k == IF n <= Len(s) THEN n ELSE Len(s)
             t == First(s, n)
  <1>1. Len(s) \in Nat /\ s \in Seq(S) /\ \A i \in 1..Len(s) : s[i] \in S
    BY DEF Lists
  <1>2. k \in Nat /\ k <= Len(s) /\ k <= n
    BY <1>1
  <1>3. t = SubSeq(s, 1, k)
    <2>1. Min({n, Len(s)}) = k
      BY <1>1, Smaller
    <2> QED
      BY <2>1 DEF First
  <1>4. t \in Seq(S) /\ Len(t) = k /\ \A i \in 1..k : t[i] = s[i]
    <2> HIDE DEF k, t
    <2>1. 1 \in Int /\ k \in Int /\ \A i \in 1..k : s[i] \in S
      BY <1>1, <1>2
    <2>2. /\ SubSeq(s, 1, k) \in Seq(S) /\ Len(SubSeq(s, 1, k)) = IF 1 <= k THEN k - 1 + 1 ELSE 0
          /\ \A i \in 1..(k - 1 + 1) : SubSeq(s, 1, k)[i] = s[1 + i - 1]
      BY <2>1, SubSeqProperties
    <2>3. k - 1 + 1 = k /\ \A i \in 1..k : 1 + i - 1 = i
      BY <1>2
    <2>4. Len(SubSeq(s, 1, k)) = k
      BY <1>2, <2>2
    <2> QED
      BY <1>3, <2>2, <2>3, <2>4
  <1>5. Len(s) <= n => t = s
    <2>1. ASSUME Len(s) <= n PROVE k = Len(s)
      BY <1>1, <2>1
    <2> QED
      BY <1>1, <1>3, <2>1, SubSeqFull
  <1>6. CutAt(s, n, t)
    <2> HIDE DEF t
    <2> QED
      BY <1>4, <1>5 DEF CutAt
  <1> HIDE DEF t, k
  <1>7. Lists(S, t)
    <2>1. DOMAIN t = 1..k /\ \A i \in 1..k : i \in 1..Len(s)
      BY <1>1, <1>2, <1>4, LenProperties
    <2>2. \A i \in 1..k : t[i] \in S
      BY <1>1, <1>4, <2>1
    <2>3. ASSUME NEW i \in 1..k, NEW j \in 1..k, t[i] = t[j] PROVE i = j
      BY <1>4, <2>1, <2>3 DEF Lists
    <2> QED
      BY <1>2, <1>4, <2>1, <2>2, <2>3 DEF Lists
  <1> QED
    BY <1>6, <1>7 DEF t

(* What the beginning holds.                                               *)
Presented(s, n, t) ==
    /\ Len(t) <= n /\ Range(t) \subseteq Range(s)
    /\ Len(t) < n => t = s

LEMMA FirstShows ==
    ASSUME NEW S, NEW s, Lists(S, s), NEW n, n \in Nat
    PROVE  Presented(s, n, First(s, n))
  <1> DEFINE t == First(s, n)
  <1>1. Lists(S, t) /\ CutAt(s, n, t)
    BY FirstIs
  <1> HIDE DEF t
  <1>2. Len(s) \in Nat /\ Len(t) \in Nat /\ Len(t) <= Len(s) /\ Len(t) <= n
    BY <1>1 DEF CutAt, Lists
  <1>3. ASSUME Len(t) < n PROVE t = s
    BY <1>1, <1>2, <1>3 DEF CutAt
  <1>4. ASSUME NEW x \in Range(t) PROVE x \in Range(s)
    <2>1. PICK i \in 1..Len(t) : t[i] = x
      BY <1>1, ListsIs
    <2>2. i \in 1..Len(s) /\ s[i] = x
      BY <1>1, <1>2, <2>1 DEF CutAt
    <2> QED
      BY <2>2, ListsIs
  <1> QED
    BY <1>2, <1>3, <1>4 DEF Presented, t

(* The beginning is in the order of the whole.                             *)
LEMMA FirstFalls ==
    ASSUME NEW S, NEW s, Lists(S, s), NEW n, n \in Nat, NEW score, Falling(score, s)
    PROVE  Falling(score, First(s, n))
  <1> DEFINE t == First(s, n)
  <1>1. Lists(S, t) /\ CutAt(s, n, t)
    BY FirstIs
  <1> HIDE DEF t
  <1>2. DOMAIN t = 1..Len(t) /\ DOMAIN s = 1..Len(s) /\ Len(t) <= Len(s) /\ Len(t) \in Nat /\ Len(s) \in Nat
    BY <1>1 DEF CutAt, Lists
  <1>3. \A i \in DOMAIN t : i \in DOMAIN s /\ t[i] = s[i]
    BY <1>1, <1>2 DEF CutAt
  <1>4. Falling(score, t)
    BY <1>3 DEF Falling
  <1> QED
    BY <1>4 DEF t

-----------------------------------------------------------------------------
(* Lists without what is taken.                                            *)

(* The first k of s without what is taken.                                 *)
Keeps(S, s, taken, k, o) ==
    /\ Lists(S, o) /\ Len(o) <= k
    /\ \A x : x \in Range(o) <=> x \notin taken /\ \E i \in 1..k : s[i] = x

LEMMA KeepsNone ==
    ASSUME NEW S, NEW s, NEW taken
    PROVE  Keeps(S, s, taken, 0, <<>>)
  <1>1. <<>> \in Seq(S) /\ Len(<<>>) = 0 /\ DOMAIN <<>> = {} /\ 1..0 = {}
    OBVIOUS
  <1>2. Lists(S, <<>>)
    BY <1>1 DEF Lists
  <1>3. Range(<<>>) = {}
    BY <1>1 DEF Range
  <1> QED
    BY <1>1, <1>2, <1>3 DEF Keeps

LEMMA KeepsNext ==
    ASSUME NEW S, NEW s, Lists(S, s), NEW taken, NEW k, k \in 1..Len(s), NEW o, Keeps(S, s, taken, k - 1, o)
    PROVE  Keeps(S, s, taken, k, IF s[k] \in taken THEN o ELSE Append(o, s[k]))
  <1> DEFINE c == s[k]
  <1>1. /\ Len(s) \in Nat /\ k \in Nat /\ c \in S
        /\ Lists(S, o) /\ Len(o) <= k - 1 /\ Len(o) \in Nat /\ o \in Seq(S)
    BY DEF Lists, Keeps
  <1>2. \A x : x \in Range(o) <=> x \notin taken /\ \E i \in 1..(k - 1) : s[i] = x
    BY DEF Keeps
  <1>3. \A x : (\E i \in 1..k : s[i] = x) <=> (\E i \in 1..(k - 1) : s[i] = x) \/ x = c
    <2>1. (\A i \in 1..k : i = k \/ i \in 1..(k - 1)) /\ (\A i \in 1..(k - 1) : i \in 1..k) /\ k \in 1..k
      BY <1>1
    <2> QED
      BY <2>1
  <1> HIDE DEF c
  <1>4. CASE c \in taken
    <2>1. \A x : x \in Range(o) <=> x \notin taken /\ \E i \in 1..k : s[i] = x
      BY <1>2, <1>3, <1>4
    <2>2. Len(o) <= k
      BY <1>1
    <2>3. Keeps(S, s, taken, k, o)
      BY <1>1, <2>1, <2>2 DEF Keeps
    <2> QED
      BY <1>4, <2>3 DEF c
  <1>5. CASE c \notin taken
    <2> DEFINE p == Append(o, c)
    <2>1. p \in Seq(S) /\ Len(p) = Len(o) + 1 /\ p[Len(o) + 1] = c /\ \A i \in 1..Len(o) : p[i] = o[i]
      BY <1>1, AppendProperties
    <2> HIDE DEF p
    <2>2. DOMAIN p = 1..Len(p) /\ \A i \in 1..Len(p) : p[i] \in S
      BY <2>1, LenProperties
    <2>3. c \notin Range(o)
      <3>1. ASSUME NEW i \in 1..(k - 1), s[i] = c PROVE FALSE
        <4>1. i \in 1..Len(s) /\ i # k
          BY <1>1
        <4> QED
          BY <3>1, <4>1 DEF Lists, c
      <3> QED
        BY <1>2, <3>1
    <2>4. \A i \in 1..Len(o) : o[i] # c
      BY <1>1, <2>3, ListsIs
    <2>5. \A i \in 1..Len(p) : i = Len(p) \/ i \in 1..Len(o)
      BY <1>1, <2>1
    <2>6. ASSUME NEW i \in 1..Len(p), NEW j \in 1..Len(p), p[i] = p[j] PROVE i = j
      BY <1>1, <2>1, <2>4, <2>5, <2>6 DEF Lists
    <2>7. Lists(S, p)
      BY <1>1, <2>1, <2>2, <2>6 DEF Lists
    <2>8. \A x : x \in Range(p) <=> x \in Range(o) \/ x = c
      <3>1. \A x : x \in Range(p) <=> \E i \in 1..Len(p) : p[i] = x
        BY <2>7, ListsIs
      <3>2. \A x : x \in Range(o) <=> \E i \in 1..Len(o) : o[i] = x
        BY <1>1, ListsIs
      <3>3. (\A i \in 1..Len(o) : i \in 1..Len(p)) /\ Len(o) + 1 \in 1..Len(p)
        BY <1>1, <2>1
      <3> QED
        BY <2>1, <2>5, <3>1, <3>2, <3>3
    <2>9. \A x : x \in Range(p) <=> x \notin taken /\ \E i \in 1..k : s[i] = x
      BY <1>2, <1>3, <1>5, <2>8
    <2>10. Len(p) <= k
      BY <1>1, <2>1
    <2>11. Keeps(S, s, taken, k, p)
      BY <2>7, <2>9, <2>10 DEF Keeps
    <2> QED
      BY <1>5, <2>11 DEF c, p
  <1> QED
    BY <1>4, <1>5

LEMMA WithoutIs ==
    ASSUME NEW S, NEW s, Lists(S, s), NEW taken
    PROVE  /\ Lists(S, Without(s, taken)) /\ Len(Without(s, taken)) <= Len(s)
           /\ Range(Without(s, taken)) = Range(s) \ taken
  <1> DEFINE n == Len(s)
             Q == Seq(S)
             Step(k, o) == IF s[k] \in taken THEN o ELSE Append(o, s[k])
             step == [k \in Nat |-> [o \in Q |-> IF k \in 0..(n - 1) THEN Step(k + 1, o) ELSE <<>>]]
             Is(out) == out = [k \in 0..n |-> IF k = 0 THEN <<>> ELSE Step(k, out[k - 1])]
             out == CHOOSE f : Is(f)
  <1>1. n \in Nat /\ \A k \in 1..n : s[k] \in S
    BY DEF Lists
  <1>2. \A k \in 1..n, o \in Q : Step(k, o) \in Q
    BY <1>1, AppendProperties
  <1>3. \A k \in 1..n : \A o : Keeps(S, s, taken, k - 1, o) => Keeps(S, s, taken, k, Step(k, o))
    BY KeepsNext
  <1> HIDE DEF n, Step
  <1>4. Stepwise(Q, <<>>, step)
    <2>1. \A k \in 0..(n - 1) : k + 1 \in 1..n
      BY <1>1
    <2>2. <<>> \in Q
      OBVIOUS
    <2> HIDE DEF Q
    <2> QED
      BY <1>2, <2>1, <2>2 DEF Stepwise
  <1>5. PICK f : Runs(Q, <<>>, step, f)
    <2> HIDE DEF Q, step
    <2> QED
      BY <1>4, Recursion
  <1>6. f \in [Nat -> Q] /\ f[0] = <<>> /\ \A k \in 0..(n - 1) : f[k + 1] = Step(k + 1, f[k])
    <2>1. \A k \in 0..(n - 1) : k \in Nat
      BY <1>1
    <2> HIDE DEF Q
    <2> QED
      BY <1>5, <2>1 DEF Runs
  <1> HIDE DEF Q, step
  <1> DEFINE g == [k \in 0..n |-> f[k]]
  <1>7. Is(g)
    <2>1. ASSUME NEW k \in 0..n, k # 0 PROVE f[k] = Step(k, g[k - 1])
      <3>1. k - 1 \in 0..(n - 1) /\ k - 1 \in 0..n /\ k - 1 + 1 = k
        BY <1>1, <2>1
      <3> QED
        BY <1>6, <3>1
    <2> QED
      BY <1>6, <2>1
  <1>8. Is(out)
    <2> HIDE DEF Is
    <2> QED
      BY <1>7
  <1> HIDE DEF out, g
  <1>9. out[0] = <<>> /\ \A k \in 1..n : out[k] = Step(k, out[k - 1])
    <2>1. 0 \in 0..n /\ \A k \in 1..n : k \in 0..n /\ k # 0
      BY <1>1
    <2> QED
      BY <1>8, <2>1
  <1> DEFINE G == {k \in 0..n : Keeps(S, s, taken, k, out[k])}
  <1>10. \A k \in 0..n : k \in G
    <2>1. 0 \in G
      BY <1>1, <1>9, KeepsNone
    <2>2. \A k \in 1..n : k - 1 \in G => k \in G
      <3>1. \A k \in 1..n : k \in 0..n
        BY <1>1
      <3> QED
        BY <1>3, <1>9, <3>1
    <2> HIDE DEF G
    <2> QED
      BY <1>1, <2>1, <2>2, Along
  <1>11. Keeps(S, s, taken, n, out[n])
    <2>1. n \in 0..n
      BY <1>1
    <2> QED
      BY <1>10, <2>1
  <1>12. Without(s, taken) = out[n]
    BY DEF Without, out, n, Step
  <1> DEFINE w == Without(s, taken)
  <1>13. Keeps(S, s, taken, n, w)
    BY <1>11, <1>12
  <1> HIDE DEF w
  <1>14. Lists(S, w) /\ Len(w) <= n /\ \A x : x \in Range(w) <=> x \notin taken /\ \E i \in 1..n : s[i] = x
    BY <1>13 DEF Keeps
  <1>15. \A x : x \in Range(s) <=> \E i \in 1..n : s[i] = x
    BY ListsIs DEF n
  <1>16. Range(w) = Range(s) \ taken
    BY <1>14, <1>15
  <1> QED
    BY <1>14, <1>16 DEF w, n

-----------------------------------------------------------------------------
(* One list after another that shares nothing with it.                     *)

LEMMA JoinedLists ==
    ASSUME NEW S, NEW s, NEW t, Lists(S, s), Lists(S, t), Range(s) \cap Range(t) = {}
    PROVE  Lists(S, s \o t) /\ Len(s \o t) = Len(s) + Len(t) /\ Range(s \o t) = Range(s) \cup Range(t)
  <1> DEFINE u == s \o t
             m == Len(s)
             n == Len(t)
  <1>1. m \in Nat /\ n \in Nat /\ s \in Seq(S) /\ t \in Seq(S)
    BY DEF Lists
  <1>2. u \in Seq(S) /\ Len(u) = m + n /\ \A i \in 1..(m + n) : u[i] = IF i <= m THEN s[i] ELSE t[i - m]
    BY <1>1, ConcatProperties
  <1>3. Range(u) = Range(s) \cup Range(t)
    BY <1>1, RangeConcatenation
  <1>4. /\ \A i, j \in 1..m : s[i] = s[j] => i = j
        /\ \A i, j \in 1..n : t[i] = t[j] => i = j
        /\ \A i \in 1..m, j \in 1..n : s[i] # t[j]
    <2>1. (\A i \in 1..m : s[i] \in Range(s)) /\ (\A j \in 1..n : t[j] \in Range(t))
      BY ListsIs
    <2> QED
      BY <2>1 DEF Lists
  <1> HIDE DEF u, m, n
  <1>5. ASSUME NEW i \in 1..(m + n), NEW j \in 1..(m + n), u[i] = u[j] PROVE i = j
    <2> DEFINE In(k) == k \in 1..m /\ u[k] = s[k]
               After(k) == k - m \in 1..n /\ u[k] = t[k - m]
    <2>1. \A k \in 1..(m + n) : In(k) \/ After(k)
      BY <1>1, <1>2
    <2>2. CASE In(i) /\ In(j)
      BY <1>4, <1>5, <2>2
    <2>3. CASE In(i) /\ After(j)
      BY <1>4, <1>5, <2>3
    <2>4. CASE After(i) /\ In(j)
      BY <1>4, <1>5, <2>4
    <2>5. CASE After(i) /\ After(j)
      <3>1. i - m = j - m
        BY <1>4, <1>5, <2>5
      <3> QED
        BY <1>1, <3>1
    <2> QED
      BY <2>1, <2>2, <2>3, <2>4, <2>5
  <1>6. IsInjective(u)
    <2>1. DOMAIN u = 1..(m + n)
      BY <1>2, LenProperties
    <2> QED
      BY <1>5, <2>1 DEF IsInjective
  <1>7. Lists(S, u)
    BY <1>2, <1>6, ListsMade
  <1> QED
    BY <1>2, <1>3, <1>7 DEF u, m, n

-----------------------------------------------------------------------------
(* The best of a set.                                                      *)

Ranked(S, score, n, out) ==
    /\ Lists(S, out) /\ Len(out) <= n /\ Falling(score, out)
    /\ Len(out) < n => Range(out) = S

LEMMA RankedIs ==
    ASSUME NEW S, IsFiniteSet(S), NEW score, Scored(S, score), NEW n, n \in Nat
    PROVE  Ranked(S, score, n, First(Best(S, score), n))
  <1> DEFINE s == Best(S, score)
  <1>1. Lists(S, s) /\ Range(s) = S /\ Falling(score, s)
    BY BestIs DEF Arranged
  <1> HIDE DEF s
  <1>2. Lists(S, First(s, n))
    BY <1>1, FirstIs
  <1>3. Falling(score, First(s, n))
    BY <1>1, FirstFalls
  <1>4. Presented(s, n, First(s, n))
    BY <1>1, FirstShows
  <1> QED
    BY <1>1, <1>2, <1>3, <1>4 DEF Ranked, Presented, s

LEMMA RankedBefore ==
    ASSUME NEW S, NEW score, NEW n, NEW out, Ranked(S, score, n, out), NEW p, NEW q, Before(out, p, q)
    PROVE  p \in S /\ q \in S /\ score[p] >= score[q]
  <1>1. Lists(S, out) /\ Falling(score, out)
    BY DEF Ranked
  <1>2. PICK i \in DOMAIN out, j \in DOMAIN out : i < j /\ out[i] = p /\ out[j] = q
    BY DEF Before
  <1>3. out[i] \in S /\ out[j] \in S
    BY <1>1 DEF Lists
  <1> QED
    BY <1>1, <1>2, <1>3 DEF Falling

-----------------------------------------------------------------------------
(* Searches.                                                               *)

LEMMA TextsAreWords ==
    ASSUME NEW t, t \in Texts
    PROVE  t \in Words
  <1>1. PICK n \in 0..MaxText : t \in [1..n -> Letters]
    BY DEF Texts
  <1>2. n \in Nat
    BY SearchAssumption
  <1> QED
    BY <1>1, <1>2 DEF Words

LEMMA TextIs ==
    ASSUME NEW q, NEW t, q \in Words, t \in Words
    PROVE  Text(q, t) \in Int
  <1> DEFINE f == FuzzyScore(q, t)
  <1>1. f.n \in Nat /\ f.d \in Nat \ {0}
    BY ScoreIs DEF ScoreTells
  <1>2. Text(q, t) = (10000 * f.n) \div f.d
    BY DEF Text
  <1> HIDE DEF f
  <1> DEFINE x == f.n
             y == f.d
  <1>3. x \in Nat /\ y \in Nat \ {0}
    BY <1>1
  <1> HIDE DEF x, y
  <1>4. (10000 * x) \div y \in Int
    BY <1>3
  <1> QED
    BY <1>2, <1>4 DEF x, y

LEMMA CompletesIs ==
    ASSUME NEW q, NEW t
    PROVE  /\ Completes(q, t) \in {0, 70, 100}
           /\ Completes(q, t) = 100 <=> 1 \in Found(q, t)
           /\ Completes(q, t) = 0 <=> Found(q, t) = {}
  BY DEF Completes, StartsWord

(* What a search and a completion are asked.                               *)
Asked(l) ==
    /\ l.text \in Words /\ \A p \in Listed : l.name[p] \in Words /\ l.rating[p] \in 0..5
    /\ l.floor \in Int /\ l.limit \in Nat

Completing(l) == l.rows \in SUBSET Listed /\ l.limit \in Nat

LEMMA AskedIs ==
    ASSUME SuggestionsInit, list.kind = "search"
    PROVE  Asked(list)
  <1> DEFINE names == {t \in Texts \ {<<>>} : Blank \notin {t[1], t[Len(t)]}}
             A == [kind : {"search"}, text : names, name : [Listed -> names], rating : [Listed -> Ratings],
                   floor : Floors, limit : 1..MaxLimit]
             C == [kind : {"completion"}, text : names, name : [Listed -> names], rows : RowsRead, limit : 1..MaxLimit]
             B == [kind : {"session"}, shelf : [Goods -> Shelves], baskets : [DOMAIN Weights -> SUBSET Goods],
                   viewed : SeqOf(Goods, MaxViewed), basket : Few(Goods), limit : 1..MaxLimit]
  <1>1. list \in A \cup C \cup B
    BY DEF SuggestionsInit
  <1>2. \A t \in names : t \in Words
    BY TextsAreWords
  <1> HIDE DEF names
  <1>3. list \notin B /\ list \notin C
    OBVIOUS
  <1> HIDE DEF B, C
  <1>4. list \in A
    BY <1>1, <1>3
  <1>5. /\ list.text \in names /\ list.name \in [Listed -> names] /\ list.rating \in [Listed -> Ratings]
        /\ list.floor \in Floors /\ list.limit \in 1..MaxLimit
    BY <1>4
  <1>6. Ratings \subseteq 0..5 /\ Floors \subseteq 0..100 /\ MaxLimit \in Nat
    BY SuggestionsAssumption
  <1>7. list.text \in Words /\ list.floor \in Int /\ list.limit \in Nat
    <2>1. list.text \in Words
      BY <1>2, <1>5
    <2>2. list.floor \in 0..100
      BY <1>5, <1>6
    <2>3. list.limit \in 1..MaxLimit
      BY <1>5
    <2> QED
      BY <2>1, <2>2, <2>3
  <1>8. \A p \in Listed : list.name[p] \in names /\ list.rating[p] \in Ratings
    BY <1>5
  <1>9. \A p \in Listed : list.name[p] \in Words /\ list.rating[p] \in 0..5
    BY <1>2, <1>6, <1>8
  <1> QED
    BY <1>7, <1>9 DEF Asked

LEMMA CompletingIs ==
    ASSUME SuggestionsInit, list.kind = "completion"
    PROVE  Completing(list)
  <1> DEFINE names == {t \in Texts \ {<<>>} : Blank \notin {t[1], t[Len(t)]}}
             A == [kind : {"search"}, text : names, name : [Listed -> names], rating : [Listed -> Ratings],
                   floor : Floors, limit : 1..MaxLimit]
             C == [kind : {"completion"}, text : names, name : [Listed -> names], rows : RowsRead, limit : 1..MaxLimit]
             B == [kind : {"session"}, shelf : [Goods -> Shelves], baskets : [DOMAIN Weights -> SUBSET Goods],
                   viewed : SeqOf(Goods, MaxViewed), basket : Few(Goods), limit : 1..MaxLimit]
  <1>1. list \in A \cup C \cup B
    BY DEF SuggestionsInit
  <1> HIDE DEF names
  <1>2. list \notin A /\ list \notin B
    OBVIOUS
  <1> HIDE DEF A, B
  <1>3. list \in C
    BY <1>1, <1>2
  <1>4. list.rows \in RowsRead /\ list.limit \in 1..MaxLimit
    BY <1>3
  <1>5. list.rows \in SUBSET Listed
    BY <1>4 DEF RowsRead
  <1>6. list.limit \in Nat
    BY <1>4, SuggestionsAssumption
  <1> QED
    BY <1>5, <1>6 DEF Completing

(* The lists of a search and of a completion.                              *)
LEMMA FuzzyRanks ==
    ASSUME NEW l, Asked(l)
    PROVE  Range(SearchFuzzy(l)) \subseteq Listed /\ \A p, q \in Listed :
           /\ p \in Range(SearchFuzzy(l)) => Text(l.text, l.name[p]) + 500 >= 100 * l.floor
           /\ Before(SearchFuzzy(l), p, q) =>
                /\ Text(l.text, l.name[q]) - Text(l.text, l.name[p]) <= 500
                /\ Text(l.text, l.name[p]) = Text(l.text, l.name[q]) => l.rating[p] >= l.rating[q]
  <1> DEFINE text(p) == Text(l.text, l.name[p])
             score == [p \in Listed |-> text(p) + 100 * l.rating[p]]
             S == {p \in Listed : score[p] >= 100 * l.floor}
             out == First(Best(S, score), l.limit)
  <1>1. \A p \in Listed : text(p) \in Int /\ l.rating[p] \in 0..5
    BY TextIs DEF Asked
  <1>2. SearchFuzzy(l) = out
    BY DEF SearchFuzzy
  <1> HIDE DEF text
  <1>3. \A p \in Listed : score[p] \in Int /\ score[p] = text(p) + 100 * l.rating[p]
    BY <1>1
  <1>4. IsFiniteSet(S)
    <2>1. S \in SUBSET Listed /\ IsFiniteSet(Listed)
      BY SuggestionsAssumption
    <2> HIDE DEF S
    <2> QED
      BY <2>1, FS_Subset
  <1>5. Scored(S, score)
    BY <1>3 DEF Scored
  <1>6. S \subseteq Listed /\ \A p \in S : score[p] >= 100 * l.floor
    OBVIOUS
  <1> HIDE DEF score, S
  <1>7. Ranked(S, score, l.limit, out)
    BY <1>4, <1>5, RankedIs DEF Asked
  <1> HIDE DEF out
  <1>8. ASSUME NEW p \in Listed, p \in Range(out) PROVE text(p) + 500 >= 100 * l.floor
    <2>1. p \in S
      BY <1>7, <1>8, ListsIs DEF Ranked
    <2> QED
      BY <1>1, <1>3, <1>6, <2>1 DEF Asked
  <1>9. ASSUME NEW p \in Listed, NEW q \in Listed, Before(out, p, q)
        PROVE  text(q) - text(p) <= 500 /\ (text(p) = text(q) => l.rating[p] >= l.rating[q])
    <2>1. score[p] >= score[q]
      BY <1>7, <1>9, RankedBefore
    <2> QED
      BY <1>1, <1>3, <2>1
  <1>10. Range(out) \subseteq Listed
    BY <1>6, <1>7, ListsIs DEF Ranked
  <1> QED
    BY <1>2, <1>8, <1>9, <1>10 DEF text

LEMMA CompletionIs ==
    ASSUME NEW l, Completing(l)
    PROVE  Range(Autocomplete(l)) \subseteq Listed /\ \A p, q \in Listed :
           /\ p \in Range(Autocomplete(l)) => p \in l.rows /\ Found(l.text, l.name[p]) # {}
           /\ Before(Autocomplete(l), p, q) /\ 1 \in Found(l.text, l.name[q]) => 1 \in Found(l.text, l.name[p])
           /\ p \in l.rows /\ Found(l.text, l.name[p]) # {} /\ p \notin Range(Autocomplete(l)) => Len(Autocomplete(l)) = l.limit
  <1> DEFINE fit(p) == Completes(l.text, l.name[p])
             score == [p \in Listed |-> fit(p)]
             S == {p \in l.rows : score[p] >= 50}
             out == First(Best(S, score), l.limit)
  <1>1. \A p \in Listed : /\ fit(p) \in {0, 70, 100} /\ (fit(p) = 100 <=> 1 \in Found(l.text, l.name[p]))
                          /\ (fit(p) = 0 <=> Found(l.text, l.name[p]) = {})
    BY CompletesIs
  <1>2. Autocomplete(l) = out
    BY DEF Autocomplete
  <1> HIDE DEF fit
  <1>3. \A p \in Listed : score[p] \in Int /\ score[p] = fit(p)
    BY <1>1
  <1>4. IsFiniteSet(S)
    <2>1. S \in SUBSET Listed /\ IsFiniteSet(Listed)
      BY SuggestionsAssumption DEF Completing
    <2> HIDE DEF S
    <2> QED
      BY <2>1, FS_Subset
  <1>5. Scored(S, score)
    BY <1>3 DEF Scored, Completing
  <1>6. /\ \A p \in Listed : p \in S <=> p \in l.rows /\ Found(l.text, l.name[p]) # {}
        /\ S \subseteq Listed
    BY <1>1, <1>3 DEF Completing
  <1> HIDE DEF score, S
  <1>7. Ranked(S, score, l.limit, out)
    BY <1>4, <1>5, RankedIs DEF Completing
  <1> HIDE DEF out
  <1>8. ASSUME NEW p \in Listed, p \in Range(out) PROVE p \in l.rows /\ Found(l.text, l.name[p]) # {}
    <2>1. p \in S
      BY <1>7, <1>8, ListsIs DEF Ranked
    <2> QED
      BY <1>6, <2>1
  <1>9. ASSUME NEW p \in Listed, NEW q \in Listed, Before(out, p, q), 1 \in Found(l.text, l.name[q])
        PROVE  1 \in Found(l.text, l.name[p])
    <2>1. score[p] >= score[q]
      BY <1>7, <1>9, RankedBefore
    <2> QED
      BY <1>1, <1>3, <1>9, <2>1
  <1>10. ASSUME NEW p \in Listed, p \in l.rows, Found(l.text, l.name[p]) # {}, p \notin Range(out)
         PROVE  Len(out) = l.limit
    <2>1. p \in S
      BY <1>6, <1>10
    <2>2. ~ (Len(out) < l.limit) /\ Len(out) <= l.limit /\ Len(out) \in Nat
      BY <1>7, <1>10, <2>1 DEF Ranked, Lists
    <2> QED
      BY <2>2 DEF Completing
  <1>11. Range(out) \subseteq Listed
    BY <1>6, <1>7, ListsIs DEF Ranked
  <1> QED
    BY <1>2, <1>8, <1>9, <1>10, <1>11

LEMMA SearchesRank ==
    ASSUME SuggestionsInit
    PROVE  SearchRanks
  <1> SUFFICES ASSUME list.kind = "search" PROVE SearchRanks
    BY DEF SearchRanks
  <1> DEFINE found == SearchFuzzy(list)
             text == [p \in Listed |-> Text(list.text, list.name[p])]
  <1>1. Asked(list)
    BY AskedIs
  <1>2. \A p, q \in Listed :
           /\ p \in Range(found) => text[p] + 500 >= 100 * list.floor
           /\ Before(found, p, q) => text[q] - text[p] <= 500 /\ (text[p] = text[q] => list.rating[p] >= list.rating[q])
    <2>1. \A p \in Listed : text[p] = Text(list.text, list.name[p])
      OBVIOUS
    <2> HIDE DEF text
    <2> QED
      BY <1>1, <2>1, FuzzyRanks
  <1>3. Range(found) \subseteq Listed
    BY <1>1, FuzzyRanks
  <1> HIDE DEF found, text
  <1>4. /\ \A p, q \in Listed : Before(found, p, q) =>
              /\ text[q] - text[p] <= 500
              /\ text[p] = text[q] => list.rating[p] >= list.rating[q]
        /\ \A p \in Range(found) : text[p] + 500 >= 100 * list.floor
    BY <1>2, <1>3
  <1> QED
    BY <1>4 DEF SearchRanks, found, text

LEMMA CompletionsRank ==
    ASSUME SuggestionsInit
    PROVE  CompletionRanks
  <1> SUFFICES ASSUME list.kind = "completion" PROVE CompletionRanks
    BY DEF CompletionRanks
  <1> DEFINE offered == Autocomplete(list)
             inside == [p \in Listed |-> Found(list.text, list.name[p])]
  <1>1. Completing(list) /\ list.rows \subseteq Listed
    BY CompletingIs DEF Completing
  <1>2. \A p, q \in Listed :
           /\ p \in Range(offered) => p \in list.rows /\ inside[p] # {}
           /\ Before(offered, p, q) /\ 1 \in inside[q] => 1 \in inside[p]
           /\ p \in list.rows /\ inside[p] # {} /\ p \notin Range(offered) => Len(offered) = list.limit
    <2>1. \A p \in Listed : inside[p] = Found(list.text, list.name[p])
      OBVIOUS
    <2> HIDE DEF inside
    <2> QED
      BY <1>1, <2>1, CompletionIs
  <1>3. Range(offered) \subseteq Listed
    BY <1>1, CompletionIs
  <1> HIDE DEF offered, inside
  <1>4. /\ \A p, q \in Listed : Before(offered, p, q) /\ 1 \in inside[q] => 1 \in inside[p]
        /\ \A p \in Range(offered) : p \in list.rows /\ inside[p] # {}
        /\ \A p \in list.rows : inside[p] # {} /\ p \notin Range(offered) => Len(offered) = list.limit
    BY <1>1, <1>2, <1>3
  <1> QED
    BY <1>4 DEF CompletionRanks, offered, inside

-----------------------------------------------------------------------------
(* Recommendations.                                                        *)

(* What the suggestions of a session are made of.                          *)
Given(l) ==
    /\ l.baskets \in [DOMAIN Weights -> SUBSET Goods] /\ l.viewed \in Seq(Goods)
    /\ l.basket \in SUBSET Goods /\ l.limit \in Nat

LEMMA GivenIs ==
    ASSUME SuggestionsInit, list.kind = "session"
    PROVE  Given(list)
  <1> DEFINE names == {t \in Texts \ {<<>>} : Blank \notin {t[1], t[Len(t)]}}
             A == [kind : {"search"}, text : names, name : [Listed -> names], rating : [Listed -> Ratings],
                   floor : Floors, limit : 1..MaxLimit]
             C == [kind : {"completion"}, text : names, name : [Listed -> names], rows : RowsRead, limit : 1..MaxLimit]
             B == [kind : {"session"}, shelf : [Goods -> Shelves], baskets : [DOMAIN Weights -> SUBSET Goods],
                   viewed : SeqOf(Goods, MaxViewed), basket : Few(Goods), limit : 1..MaxLimit]
  <1>1. list \in A \cup C \cup B
    BY DEF SuggestionsInit
  <1> HIDE DEF names
  <1>2. list \notin A /\ list \notin C
    OBVIOUS
  <1> HIDE DEF A, C
  <1>3. list \in B
    BY <1>1, <1>2
  <1>4. /\ list.baskets \in [DOMAIN Weights -> SUBSET Goods] /\ list.viewed \in SeqOf(Goods, MaxViewed)
        /\ list.basket \in Few(Goods) /\ list.limit \in 1..MaxLimit
    BY <1>3
  <1>5. list.viewed \in Seq(Goods)
    <2>1. PICK n \in 0..MaxViewed : list.viewed \in [1..n -> Goods]
      BY <1>4 DEF SeqOf
    <2>2. n \in Nat
      BY SuggestionsAssumption
    <2> QED
      BY <2>1, <2>2
  <1>6. list.basket \in SUBSET Goods
    BY <1>4 DEF Few
  <1>7. list.limit \in Nat
    BY <1>4
  <1> QED
    BY <1>4, <1>5, <1>6, <1>7 DEF Given

LEMMA GoodsFinite ==
    ASSUME NEW S, S \in SUBSET Goods
    PROVE  IsFiniteSet(S)
  BY FS_Subset, SuggestionsAssumption

LEMMA CosineIs ==
    ASSUME NEW l, Given(l), NEW p, NEW q
    PROVE  Cosine(l.baskets, p, q) \in Int
  <1> DEFINE c == CosineSquared(l.baskets, p, q)
             R == {r \in 1..100 : r * r * c.d <= 10000 * c.n}
  <1>1. IsFiniteSet(1..100)
    <2>1. 1 \in Int /\ 100 \in Int
      OBVIOUS
    <2> QED
      BY <2>1, FS_Interval
  <1>2. Cosine(l.baskets, p, q) = IF c.d = 0 THEN 0 ELSE Cardinality(R)
    BY DEF Cosine
  <1>3. R \in SUBSET (1..100)
    OBVIOUS
  <1> HIDE DEF R, c
  <1>4. Cardinality(R) \in Nat
    BY <1>1, <1>3, FS_Subset, FS_CardinalityType
  <1> QED
    BY <1>2, <1>4

(* A list of products, some of S, at most n.                               *)
Offer(S, n, s) == Lists(Goods, s) /\ Len(s) <= n /\ Range(s) \subseteq S

LEMMA ListsWider ==
    ASSUME NEW S, NEW s, Lists(S, s), S \in SUBSET Goods
    PROVE  Lists(Goods, s)
  <1>1. s \in Seq(S)
    BY DEF Lists
  <1>2. s \in Seq(Goods)
    BY <1>1, SeqMonotonic
  <1> QED
    BY <1>2 DEF Lists

LEMMA RankedOffer ==
    ASSUME NEW S, S \in SUBSET Goods, NEW score, Scored(S, score), NEW n, n \in Nat
    PROVE  Offer(S, n, First(Best(S, score), n))
  <1> DEFINE s == First(Best(S, score), n)
  <1>1. Ranked(S, score, n, s)
    BY GoodsFinite, RankedIs
  <1> HIDE DEF s
  <1>2. Lists(S, s) /\ Len(s) <= n /\ Range(s) \subseteq S
    BY <1>1, ListsIs DEF Ranked
  <1>3. Lists(Goods, s)
    BY <1>2, ListsWider
  <1> QED
    BY <1>2, <1>3 DEF Offer, s

LEMMA BoughtIs ==
    ASSUME NEW l, Given(l)
    PROVE  Offer(Goods, l.limit, FrequentlyBoughtTogether(l))
  <1> DEFINE cosine(q) == [p \in l.basket |-> Cosine(l.baskets, p, q)]
             others == UNION {Related(l.baskets, p) : p \in l.basket} \ l.basket
             score == [q \in others |-> SumFunctionOnSet(cosine(q), l.basket)]
             s == First(Best(others, score), l.limit)
  <1>1. others \in SUBSET Goods
    BY DEF Related
  <1>2. \A q : SumFunctionOnSet(cosine(q), l.basket) \in Int
    <2> SUFFICES ASSUME NEW q PROVE SumFunctionOnSet(cosine(q), l.basket) \in Int
      OBVIOUS
    <2>1. \A p \in l.basket : cosine(q)[p] \in Int
      BY CosineIs
    <2>2. IsFiniteSet(l.basket)
      BY GoodsFinite DEF Given
    <2> HIDE DEF cosine
    <2> QED
      BY <2>1, <2>2, SumInt
  <1>3. FrequentlyBoughtTogether(l) = s
    BY DEF FrequentlyBoughtTogether
  <1> HIDE DEF others, cosine
  <1>4. Scored(others, score)
    BY <1>2 DEF Scored
  <1> HIDE DEF score
  <1>5. Offer(others, l.limit, s)
    BY <1>1, <1>4, RankedOffer DEF Given
  <1> HIDE DEF s
  <1> QED
    BY <1>1, <1>3, <1>5 DEF Offer

LEMMA SimilarIs ==
    ASSUME NEW l, NEW p, NEW n, n \in Nat
    PROVE  Offer(Goods \ {p}, n, ContentSimilar(l, p, n))
  <1> DEFINE near == {q \in Goods \ {p} : /\ l.shelf[q].active /\ l.shelf[q].category = l.shelf[p].category
                                          /\ 4 * l.shelf[q].price \in 3 * l.shelf[p].price .. 5 * l.shelf[p].price}
             s == SetToSeq(near)
  <1>1. near \in SUBSET (Goods \ {p})
    OBVIOUS
  <1>2. ContentSimilar(l, p, n) = First(s, n)
    BY DEF ContentSimilar
  <1> HIDE DEF near
  <1>3. near \in SUBSET Goods
    BY <1>1
  <1>4. Lists(near, s) /\ Range(s) = near
    BY <1>3, GoodsFinite, SetToSeqIs DEF Arranged
  <1> HIDE DEF s
  <1>5. Lists(near, First(s, n)) /\ Presented(s, n, First(s, n))
    BY <1>4, FirstIs, FirstShows
  <1>6. Lists(Goods, First(s, n))
    BY <1>3, <1>5, ListsWider
  <1> QED
    BY <1>1, <1>2, <1>4, <1>5, <1>6 DEF Offer, Presented

LEMMA TrendingIs ==
    ASSUME NEW l, Given(l)
    PROVE  Offer(Goods, l.limit, Trending(l))
  <1> DEFINE D == DOMAIN Weights
             sold(p) == [k \in D |-> IF p \in l.baskets[k] THEN Weights[k] ELSE 0]
             score == [p \in Goods |-> SumFunctionOnSet(sold(p), D)]
             S == {p \in Goods : score[p] > 0}
             s == First(Best(S, score), l.limit)
  <1>1. IsFiniteSet(D) /\ \A k \in D : Weights[k] \in Nat
    <2>1. Len(Weights) \in Nat /\ DOMAIN Weights = 1..Len(Weights) /\ Weights \in [1..Len(Weights) -> Nat \ {0}]
      BY LenProperties, SuggestionsAssumption
    <2>2. 1 \in Int /\ Len(Weights) \in Int
      BY <2>1
    <2>3. IsFiniteSet(1..Len(Weights))
      BY <2>2, FS_Interval
    <2> QED
      BY <2>1, <2>3
  <1>2. \A p : SumFunctionOnSet(sold(p), D) \in Int
    <2> SUFFICES ASSUME NEW p PROVE SumFunctionOnSet(sold(p), D) \in Int
      OBVIOUS
    <2> HIDE DEF D
    <2>1. \A k \in D : sold(p)[k] \in Int
      BY <1>1
    <2> HIDE DEF sold
    <2> QED
      BY <1>1, <2>1, SumInt
  <1>3. Trending(l) = s
    BY DEF Trending
  <1>4. S \in SUBSET Goods
    OBVIOUS
  <1> HIDE DEF D, sold
  <1>5. \A p \in Goods : score[p] \in Int
    BY <1>2
  <1> HIDE DEF S
  <1>6. Scored(S, score)
    BY <1>4, <1>5 DEF Scored
  <1> HIDE DEF score
  <1>7. Offer(S, l.limit, s)
    BY <1>4, <1>6, RankedOffer DEF Given
  <1> HIDE DEF s
  <1> QED
    BY <1>3, <1>4, <1>7 DEF Offer

(* All sources are lists of products.                                      *)
LEMMA SourcesAre ==
    ASSUME NEW l, Given(l)
    PROVE  /\ Len(Sources(l)) \in Nat /\ DOMAIN Sources(l) = 1..Len(Sources(l))
           /\ \A i \in 1..Len(Sources(l)) : Lists(Goods, Sources(l)[i])
  <1> DEFINE Q == {s \in Seq(Goods) : Lists(Goods, s)}
             n == Len(l.viewed)
             low == Max({1, n - 2})
             recent == SubSeq(l.viewed, low, n)
             a == <<FrequentlyBoughtTogether(l)>>
             b == [i \in DOMAIN recent |-> ContentSimilar(l, recent[i], l.limit)]
             c == <<Trending(l)>>
  <1>q. \A s : Lists(Goods, s) <=> s \in Q
    BY DEF Lists
  <1> HIDE DEF Q
  <1>1. n \in Nat /\ \A i \in 1..n : l.viewed[i] \in Goods
    BY LenProperties DEF Given
  <1>2. low \in Nat \ {0}
    <2>1. \E x \in {1, n - 2} : \A y \in {1, n - 2} : x >= y
      <3>1. CASE n - 2 <= 1
        BY <1>1, <3>1
      <3>2. CASE ~ (n - 2 <= 1)
        BY <1>1, <3>2
      <3> QED
        BY <3>1, <3>2
    <2>2. low \in {1, n - 2} /\ low >= 1
      BY <2>1 DEF Max
    <2> QED
      BY <1>1, <2>2
  <1> HIDE DEF low, n
  <1>3. recent \in Seq(Goods)
    <2>1. low \in Int /\ n \in Int /\ \A i \in low..n : l.viewed[i] \in Goods
      BY <1>1, <1>2
    <2> QED
      BY <2>1, SubSeqProperties
  <1> HIDE DEF recent
  <1>4. a \in Seq(Q) /\ c \in Seq(Q)
    <2>1. FrequentlyBoughtTogether(l) \in Q /\ Trending(l) \in Q
      BY <1>q, BoughtIs, TrendingIs DEF Offer
    <2> QED
      BY <2>1
  <1>5. b \in Seq(Q)
    <2> DEFINE m == Len(recent)
               f(i) == ContentSimilar(l, recent[i], l.limit)
    <2>1. m \in Nat /\ DOMAIN recent = 1..m
      BY <1>3, LenProperties
    <2>2. \A i : f(i) \in Q
      BY <1>q, SimilarIs DEF Offer, Given
    <2>3. b = [i \in 1..m |-> f(i)]
      BY <2>1
    <2> HIDE DEF m, f, b
    <2>4. b \in [1..m -> Q]
      BY <2>2, <2>3
    <2> QED
      BY <2>1, <2>4
  <1>6. Sources(l) = (a \o b) \o c
    BY DEF Sources, recent, low, n
  <1> HIDE DEF a, b, c
  <1>7. Sources(l) \in Seq(Q)
    BY <1>4, <1>5, <1>6, ConcatProperties
  <1> DEFINE s == Sources(l)
  <1> HIDE DEF s
  <1>8. Len(s) \in Nat /\ DOMAIN s = 1..Len(s) /\ s \in [1..Len(s) -> Q]
    BY <1>7, LenProperties DEF s
  <1>9. \A i \in 1..Len(s) : Lists(Goods, s[i])
    BY <1>8, <1>q
  <1> QED
    BY <1>8, <1>9 DEF s

(* A customer is recommended nothing she has in front of her and nothing   *)
(* twice, and while there is room all that the first k sources had.        *)
Served(sources, before, limit, k, out) ==
    /\ Lists(Goods, out) /\ Range(out) \cap before = {} /\ Len(out) <= limit
    /\ Len(out) < limit => \A i \in 1..k : Range(sources[i]) \ before \subseteq Range(out)

LEMMA AddedServes ==
    ASSUME NEW sources, NEW before, NEW limit, limit \in Nat, NEW k, k \in Nat \ {0}, NEW out,
           Served(sources, before, limit, k - 1, out), Lists(Goods, sources[k])
    PROVE  Served(sources, before, limit, k, Added(out, sources[k], before, limit))
  <1> DEFINE s == sources[k]
             w == Without(s, before \cup Range(out))
             u == out \o w
             t == First(u, limit)
  <1>1. Lists(Goods, out) /\ Range(out) \cap before = {} /\ Len(out) <= limit /\ Len(out) \in Nat
    BY DEF Served, Lists
  <1>2. Added(out, s, before, limit) = t
    BY DEF Added
  <1>3. Lists(Goods, w) /\ Range(w) = Range(s) \ (before \cup Range(out)) /\ Len(w) \in Nat
    <2>1. Lists(Goods, w) /\ Range(w) = Range(s) \ (before \cup Range(out))
      BY WithoutIs
    <2> HIDE DEF w
    <2> QED
      BY <2>1 DEF Lists
  <1> HIDE DEF w
  <1>4. Lists(Goods, u) /\ Len(u) = Len(out) + Len(w) /\ Range(u) = Range(out) \cup Range(w)
    <2> HIDE DEF s
    <2>1. Range(out) \cap Range(w) = {} /\ Lists(Goods, out) /\ Lists(Goods, w)
      BY <1>1, <1>3
    <2> QED
      BY ONLY <2>1, JoinedLists
  <1> HIDE DEF u
  <1>5. Lists(Goods, t) /\ Presented(u, limit, t)
    BY <1>4, FirstIs, FirstShows
  <1> HIDE DEF t
  <1>6. Range(t) \cap before = {}
    BY <1>1, <1>3, <1>4, <1>5 DEF Presented
  <1>7. ASSUME Len(t) < limit, NEW i \in 1..k
        PROVE  Range(sources[i]) \ before \subseteq Range(t)
    <2>1. t = u
      BY <1>5, <1>7 DEF Presented
    <2>2. CASE i = k
      BY <1>3, <1>4, <2>1, <2>2 DEF s
    <2>3. CASE i \in 1..(k - 1)
      <3>1. Len(out) < limit
        BY <1>1, <1>3, <1>4, <1>7, <2>1
      <3>2. Range(sources[i]) \ before \subseteq Range(out)
        BY <2>3, <3>1 DEF Served
      <3> QED
        BY <1>4, <2>1, <3>2
    <2> QED
      BY <2>2, <2>3
  <1>8. Served(sources, before, limit, k, t)
    BY <1>5, <1>6, <1>7 DEF Served, Presented
  <1> QED
    BY <1>2, <1>8 DEF s

LEMMA RecommendIs ==
    ASSUME NEW l, Given(l)
    PROVE  Served(Sources(l), Seen(l), l.limit, Len(Sources(l)), RecommendForSession(l))
  <1> DEFINE sources == Sources(l)
             before == Seen(l)
             limit == l.limit
             n == Len(sources)
             Q == Seq(Goods)
             Step(k, o) == Added(o, sources[k], before, limit)
             Good(k, o) == Served(sources, before, limit, k, o)
             Is(out) == out = [k \in 0..n |-> IF k = 0 THEN <<>> ELSE Step(k, out[k - 1])]
             out == CHOOSE f : Is(f)
             step == [k \in Nat |-> [o \in Q |->
                         IF k \in 0..(n - 1) /\ Good(k, o) THEN Step(k + 1, o) ELSE <<>>]]
  <1>1. n \in Nat /\ limit \in Nat /\ \A k \in 1..n : Lists(Goods, sources[k])
    BY SourcesAre DEF Given
  <1> HIDE DEF sources, before, limit, n
  <1>2. \A k \in 1..n : \A o : Good(k - 1, o) => Good(k, Step(k, o))
    <2> SUFFICES ASSUME NEW k \in 1..n, NEW o, Good(k - 1, o) PROVE Good(k, Step(k, o))
      OBVIOUS
    <2>1. k \in Nat \ {0} /\ Lists(Goods, sources[k])
      BY <1>1
    <2> QED
      BY <1>1, <2>1, AddedServes
  <1>3. Good(0, <<>>)
    <2>1. Lists(Goods, <<>>) /\ Range(<<>>) = {} /\ Len(<<>>) = 0 /\ 1..0 = {}
      <3>1. Keeps(Goods, <<>>, {}, 0, <<>>)
        BY KeepsNone
      <3>2. DOMAIN <<>> = {}
        OBVIOUS
      <3> QED
        BY <3>1, <3>2 DEF Keeps, Range
    <2> QED
      BY <1>1, <2>1 DEF Served
  <1>4. \A k, o : Good(k, o) => o \in Q
    BY DEF Served, Lists
  <1> HIDE DEF Good, Step
  <1>5. Stepwise(Q, <<>>, step)
    <2>1. \A k \in 0..(n - 1) : k + 1 \in 1..n /\ k + 1 - 1 = k
      BY <1>1
    <2>2. <<>> \in Q
      OBVIOUS
    <2>3. \A k \in Nat, o \in Q : (IF k \in 0..(n - 1) /\ Good(k, o) THEN Step(k + 1, o) ELSE <<>>) \in Q
      <3> HIDE DEF Q
      <3>1. \A k \in 0..(n - 1) : \A o : Good(k, o) => Good(k + 1, Step(k + 1, o))
        BY <1>2, <2>1
      <3> QED
        BY <1>4, <2>2, <3>1
    <2> HIDE DEF Q
    <2> QED
      BY <2>2, <2>3 DEF Stepwise
  <1>6. PICK f : Runs(Q, <<>>, step, f)
    <2> HIDE DEF Q, step
    <2> QED
      BY <1>5, Recursion
  <1>7. /\ f \in [Nat -> Q] /\ f[0] = <<>>
        /\ \A k \in 0..(n - 1) : f[k + 1] = IF Good(k, f[k]) THEN Step(k + 1, f[k]) ELSE <<>>
    <2>1. \A k \in 0..(n - 1) : k \in Nat
      BY <1>1
    <2> HIDE DEF Q
    <2> QED
      BY <1>6, <2>1 DEF Runs
  <1> HIDE DEF Q, step
  <1> DEFINE G == {k \in 0..n : Good(k, f[k])}
  <1>8. \A k \in 0..n : k \in G
    <2>1. 0 \in G
      BY <1>1, <1>3, <1>7
    <2>2. ASSUME NEW k \in 1..n, k - 1 \in G PROVE k \in G
      <3>1. k \in 0..n /\ k - 1 \in 0..(n - 1) /\ k - 1 + 1 = k
        BY <1>1
      <3>2. Good(k - 1, f[k - 1])
        BY <2>2
      <3>3. f[k] = Step(k, f[k - 1])
        BY <1>7, <3>1, <3>2
      <3> QED
        BY <1>2, <3>1, <3>2, <3>3
    <2> HIDE DEF G
    <2> QED
      BY <1>1, <2>1, <2>2, Along
  <1> DEFINE g == [k \in 0..n |-> f[k]]
  <1>9. Is(g)
    <2>1. ASSUME NEW k \in 0..n, k # 0 PROVE f[k] = Step(k, g[k - 1])
      <3>1. k - 1 \in 0..(n - 1) /\ k - 1 \in 0..n /\ k - 1 + 1 = k
        BY <1>1, <2>1
      <3>2. Good(k - 1, f[k - 1])
        BY <1>8, <3>1
      <3> QED
        BY <1>7, <3>1, <3>2
    <2> QED
      BY <1>7, <2>1
  <1>10. Is(out)
    <2> HIDE DEF Is
    <2> QED
      BY <1>9
  <1> HIDE DEF out, g
  <1>11. out[0] = <<>> /\ \A k \in 1..n : out[k] = Step(k, out[k - 1])
    <2>1. 0 \in 0..n /\ \A k \in 1..n : k \in 0..n /\ k # 0
      BY <1>1
    <2> QED
      BY <1>10, <2>1
  <1> DEFINE H == {k \in 0..n : Good(k, out[k])}
  <1>12. \A k \in 0..n : k \in H
    <2>1. 0 \in H
      BY <1>1, <1>3, <1>11
    <2>2. ASSUME NEW k \in 1..n, k - 1 \in H PROVE k \in H
      <3>1. k \in 0..n
        BY <1>1
      <3> QED
        BY <1>2, <1>11, <2>2, <3>1
    <2> HIDE DEF H
    <2> QED
      BY <1>1, <2>1, <2>2, Along
  <1>13. Good(n, out[n])
    <2>1. n \in 0..n
      BY <1>1
    <2> QED
      BY <1>12, <2>1
  <1>14. RecommendForSession(l) = out[n]
    BY DEF RecommendForSession, out, n, sources, before, limit, Step
  <1> QED
    BY <1>13, <1>14 DEF Good, n, sources, before, limit

(* The page of a product.                                                  *)
Paged(p, limit, page) == Lists(Goods, page) /\ p \notin Range(page) /\ Len(page) <= limit

LEMMA PageIs ==
    ASSUME NEW l, Given(l), NEW p, p \in Goods
    PROVE  Paged(p, l.limit, RelatedPage(l, p))
  <1> DEFINE others == Related(l.baskets, p)
             score == [q \in others |-> Cosine(l.baskets, p, q)]
             related == First(Best(others, score), l.limit)
             room == l.limit - Len(related)
             similar == ContentSimilar(l, p, room)
             w == Without(similar, Range(related))
             page == related \o w
  <1>1. others \in SUBSET Goods
    BY DEF Related
  <1>2. p \notin others
    <2>1. Together(l.baskets, p, p) = Cardinality({})
      <3>1. {k \in DOMAIN l.baskets : p # p /\ {p, p} \subseteq l.baskets[k]} = {}
        OBVIOUS
      <3> QED
        BY <3>1 DEF Together
    <2>2. Cardinality({}) = 0
      BY FS_EmptySet
    <2>3. ~ (Together(l.baskets, p, p) > 0)
      BY <2>1, <2>2
    <2> QED
      BY <2>3 DEF Related
  <1>3. RelatedPage(l, p) = page
    BY DEF RelatedPage
  <1>4. \A q \in others : score[q] \in Int
    BY CosineIs
  <1> HIDE DEF others, score
  <1>5. Scored(others, score) /\ l.limit \in Nat
    BY <1>4 DEF Scored, Given
  <1>6. Offer(others, l.limit, related)
    BY <1>1, <1>5, RankedOffer
  <1> HIDE DEF related
  <1>7. Lists(Goods, related) /\ Len(related) \in Nat /\ Len(related) <= l.limit /\ p \notin Range(related)
    BY <1>2, <1>6 DEF Offer, Lists
  <1>8. room \in Nat
    BY <1>5, <1>7
  <1> HIDE DEF room
  <1>9. Offer(Goods \ {p}, room, similar)
    BY <1>8, SimilarIs
  <1> HIDE DEF similar
  <1>10. Lists(Goods, similar) /\ Len(similar) \in Nat /\ Len(similar) <= room /\ p \notin Range(similar)
    BY <1>9 DEF Offer, Lists
  <1>11. Lists(Goods, w) /\ Len(w) <= Len(similar) /\ Range(w) = Range(similar) \ Range(related)
    BY <1>10, WithoutIs
  <1> HIDE DEF w
  <1>12. /\ Lists(Goods, page) /\ Len(page) = Len(related) + Len(w)
         /\ Range(page) = Range(related) \cup Range(w)
    <2>1. Range(related) \cap Range(w) = {}
      BY <1>11
    <2> QED
      BY <1>7, <1>11, <2>1, JoinedLists
  <1>13. Len(w) \in Nat
    BY <1>11 DEF Lists
  <1>14. Len(page) <= l.limit
    BY <1>5, <1>7, <1>10, <1>11, <1>12, <1>13 DEF room
  <1> QED
    BY <1>3, <1>7, <1>10, <1>11, <1>12, <1>14 DEF Paged

LEMMA SessionIsServed ==
    ASSUME SuggestionsInit
    PROVE  SessionServed
  <1> SUFFICES ASSUME list.kind = "session" PROVE SessionServed
    BY DEF SessionServed
  <1> DEFINE out == RecommendForSession(list)
             sources == Sources(list)
  <1>1. Given(list)
    BY GivenIs
  <1>2. Served(sources, Seen(list), list.limit, Len(sources), out)
    BY <1>1, RecommendIs
  <1>3. DOMAIN sources = 1..Len(sources)
    BY <1>1, SourcesAre
  <1> HIDE DEF out, sources
  <1>4. /\ IsInjective(out) /\ Range(out) \cap Seen(list) = {} /\ Len(out) <= list.limit
        /\ Len(out) < list.limit =>
              \A i \in DOMAIN sources : Range(sources[i]) \ Seen(list) \subseteq Range(out)
    BY <1>2, <1>3, ListsIs DEF Served
  <1>5. ASSUME NEW p \in Goods
        PROVE  LET page == Hydrated(list, RelatedPage(list, p)) IN
               IsInjective(page) /\ p \notin Range(page) /\ Len(page) <= list.limit
    <2> DEFINE all == RelatedPage(list, p)
               away == {q \in Goods : ~ list.shelf[q].active}
               page == Without(all, away)
    <2>1. Paged(p, list.limit, all)
      BY <1>1, PageIs
    <2>2. Hydrated(list, all) = page
      BY DEF Hydrated
    <2> HIDE DEF all, away
    <2>3. Lists(Goods, page) /\ Len(page) <= Len(all) /\ Range(page) = Range(all) \ away
      BY <2>1, WithoutIs DEF Paged
    <2> HIDE DEF page
    <2>4. IsInjective(page) /\ p \notin Range(page)
      BY <2>1, <2>3, ListsIs DEF Paged
    <2>5. Len(page) <= list.limit
      <3>1. Len(page) \in Nat /\ Len(all) \in Nat /\ Len(all) <= list.limit /\ list.limit \in Nat
        BY <1>1, <2>1, <2>3 DEF Paged, Lists, Given
      <3> QED
        BY <2>3, <3>1
    <2> QED
      BY <2>2, <2>4, <2>5 DEF all
  <1> QED
    BY <1>4, <1>5 DEF SessionServed, out, sources

-----------------------------------------------------------------------------
(* All properties of the searches.                                         *)

LEMMA MeasuresAreTrue ==
    ASSUME SearchInit
    PROVE  MeasuresTrue
  <1> DEFINE A == [kind : {"texts"}, a : Texts, b : Texts, cut : 0..MaxText]
             B == [kind : {"baskets"}, baskets : [1..MaxBaskets -> SUBSET Goods]]
  <1>0. query \in A \cup B
    BY DEF SearchInit
  <1>1. ASSUME query.kind = "texts"
        PROVE  query.a \in Words /\ query.b \in Words /\ query.cut \in Nat
    <2>1. query \in A
      <3>1. query \notin B
        BY <1>1
      <3> HIDE DEF A, B
      <3> QED
        BY <1>0, <3>1
    <2>2. query.a \in Texts /\ query.b \in Texts /\ query.cut \in 0..MaxText
      BY <2>1
    <2> QED
      BY <2>2, TextsAreWords
  <1>2. ASSUME query.kind = "baskets"
        PROVE  query.baskets \in [1..MaxBaskets -> SUBSET Goods]
    <2>1. query \in B
      <3>1. query \notin A
        BY <1>2
      <3> HIDE DEF A, B
      <3> QED
        BY <1>0, <3>1
    <2> QED
      BY <2>1
  <1> HIDE DEF A, B
  <1>3. DistanceTrue
    <2> SUFFICES ASSUME query.kind = "texts" PROVE DistanceTrue
      BY DEF DistanceTrue
    <2> DEFINE d == Levenshtein(query.a, query.b, query.cut)
    <2>1. IF d <= query.cut
          THEN query.b \in Within(query.a, d) /\ (d > 0 => query.b \notin Within(query.a, d - 1))
          ELSE query.b \notin Within(query.a, query.cut)
      BY <1>1, Distances
    <2> HIDE DEF d
    <2> QED
      BY <2>1 DEF DistanceTrue, d
  <1>4. ScoreRanged
    BY <1>1, TextScores DEF ScoreRanged
  <1>5. TogetherTrue
    <2> SUFFICES ASSUME query.kind = "baskets" PROVE TogetherTrue
      BY DEF TogetherTrue
    <2>1. MaxBaskets \in Nat
      BY SearchAssumption
    <2>2. \A p \in Goods : \A q \in Related(query.baskets, p) :
             LET score == CosineSquared(query.baskets, p, q) IN
             /\ p \in Related(query.baskets, q) /\ score.n <= score.d
             /\ score.n = score.d <=> \A k \in DOMAIN query.baskets : p \in query.baskets[k] <=> q \in query.baskets[k]
      BY <1>2, <2>1, TogetherMeasure
    <2> QED
      BY <2>2 DEF TogetherTrue
  <1> QED
    BY <1>3, <1>4, <1>5 DEF MeasuresTrue

(* Distances, scores and relations agree with what they stand for, and the *)
(* lists made of them hold what they should, once, in their order          *)
(* (text_utils.py:89-147, recommendations.py:25-213, products.py:150-255,  *)
(* algorithms.py:62-121): for every alphabet, every length of texts, every *)
(* catalogue and every number of baskets.                                  *)
THEOREM SearchIsTrue == SuggestionsSpec => []SearchTrue
  <1> DEFINE Inputs == SearchInit /\ SuggestionsInit
  <1>1. Inputs => SearchTrue
    BY MeasuresAreTrue, SearchesRank, CompletionsRank, SessionIsServed DEF SearchTrue
  <1>2. Inputs /\ [FALSE]_<<query, list>> => Inputs'
    BY DEF SearchInit, SuggestionsInit
  <1> HIDE DEF Inputs
  <1>3. SuggestionsSpec => Inputs /\ [][FALSE]_<<query, list>>
    BY DEF SuggestionsSpec, Inputs
  <1> QED
    BY <1>1, <1>2, <1>3, PTL
=============================================================================
