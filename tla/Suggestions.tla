----------------------------- MODULE Suggestions -----------------------------
(***************************************************************************)
(* Lists of products the shop shows: search and completion                 *)
(* (routers/products.py), related and recommended products                 *)
(* (services/recommendations.py, routers/algorithms.py).  Each sorts what  *)
(* qualifies and cuts it at a limit; equal scores come in any order.  A    *)
(* behaviour is one input.                                                 *)
(***************************************************************************)
EXTENDS Search

CONSTANTS
    Ratings,       \* ratings of a product, 0..5
    Listed,        \* products a search looks through: those for sale
    Cuts,          \* rows a completion reads at most: 500
    Floors,        \* min_score of a search, in hundredths
    Shelves,       \* rows a product may have: category, price, active
    Weights,       \* what the sales of each paid order count for, by its age
    MaxViewed, MaxBasket, MaxLimit    \* bounds: what a client sends

ASSUME SuggestionsAssumption ==
    /\ Ratings \subseteq 0..5 /\ Floors \subseteq 0..100
    /\ Shelves \subseteq [category : Nat, price : Nat, active : BOOLEAN]
    /\ Weights \in Seq(Nat \ {0}) /\ Cuts \subseteq Nat
    /\ IsFiniteSet(Goods) /\ IsFiniteSet(Listed)
    /\ MaxViewed \in Nat /\ MaxBasket \in Nat /\ MaxLimit \in Nat \ {0}

VARIABLE list      \* the input

Few(S) == {T \in SUBSET S : Cardinality(T) <= MaxBasket}

(* The rows a completion reads, in no order: any as many as the cut allows. *)
RowsRead == {R \in SUBSET Listed : \E n \in Cuts : Cardinality(R) = Min({n, Cardinality(Listed)})}

(* A normalized text is stripped.                                          *)
SuggestionsInit ==
    LET names == {t \in Texts \ {<<>>} : Blank \notin {t[1], t[Len(t)]}} IN
    list \in
        [kind : {"search"}, text : names, name : [Listed -> names], rating : [Listed -> Ratings],
         floor : Floors, limit : 1..MaxLimit]
        \cup [kind : {"completion"}, text : names, name : [Listed -> names], rows : RowsRead, limit : 1..MaxLimit]
        \cup [kind : {"session"}, shelf : [Goods -> Shelves], baskets : [DOMAIN Weights -> SUBSET Goods],
              viewed : SeqOf(Goods, MaxViewed), basket : Few(Goods), limit : 1..MaxLimit]

SuggestionsSpec == SearchInit /\ SuggestionsInit /\ [][FALSE]_<<query, list>>

First(s, n) == SubSeq(s, 1, Min({n, Len(s)}))

(* Without what is taken.                                                  *)
Without(s, taken) ==
    LET out[k \in 0..Len(s)] ==
            IF k = 0 THEN <<>> ELSE IF s[k] \in taken THEN out[k - 1] ELSE Append(out[k - 1], s[k])
    IN  out[Len(s)]

(* Sorted by a score, the highest first.                                   *)
Best(S, score) ==
    CHOOSE s \in [1..Cardinality(S) -> S] :
        IsInjective(s) /\ \A i, j \in DOMAIN s : i < j => score[s[i]] >= score[s[j]]

-----------------------------------------------------------------------------
(* Searches; scores are in ten thousandths.                               *)

Text(q, name) == LET s == FuzzyScore(q, name) IN (10000 * s.n) \div s.d

SearchFuzzy(l) ==
    LET score == [p \in Listed |-> Text(l.text, l.name[p]) + 100 * l.rating[p]]
    IN  First(Best({p \in Listed : score[p] >= 100 * l.floor}, score), l.limit)

(* A word that begins with q contains it, so the last case never applies.  *)
Completes(q, name) ==
    IF 1 \in Found(q, name) THEN 100 ELSE IF Found(q, name) # {} THEN 70
    ELSE IF StartsWord(q, name) THEN 85 ELSE 0

Autocomplete(l) ==
    LET score == [p \in Listed |-> Completes(l.text, l.name[p])]
    IN  First(Best({p \in l.rows : score[p] >= 50}, score), l.limit)

-----------------------------------------------------------------------------
(* Recommendations.                                                        *)

(* The cosine in hundredths.                                               *)
Cosine(baskets, p, q) ==
    LET c == CosineSquared(baskets, p, q)
    IN  IF c.d = 0 THEN 0 ELSE Cardinality({r \in 1..100 : r * r * c.d <= 10000 * c.n})

FrequentlyBoughtTogether(l) ==
    LET others == UNION {Related(l.baskets, p) : p \in l.basket} \ l.basket
        score  == [q \in others |-> SumFunctionOnSet([p \in l.basket |-> Cosine(l.baskets, p, q)], l.basket)]
    IN  First(Best(others, score), l.limit)

(* The same category, a quarter dearer or cheaper at most.                 *)
ContentSimilar(l, p, limit) ==
    LET near == {q \in Goods \ {p} : /\ l.shelf[q].active /\ l.shelf[q].category = l.shelf[p].category
                                     /\ 4 * l.shelf[q].price \in 3 * l.shelf[p].price .. 5 * l.shelf[p].price}
    IN  First(SetToSeq(near), limit)

Trending(l) ==
    LET sold(p) == [k \in DOMAIN Weights |-> IF p \in l.baskets[k] THEN Weights[k] ELSE 0]
        score   == [p \in Goods |-> SumFunctionOnSet(sold(p), DOMAIN Weights)]
    IN  First(Best({p \in Goods : score[p] > 0}, score), l.limit)

(* What a source offers and is neither seen nor in the list yet.           *)
Added(out, offered, seen, limit) == First(out \o Without(offered, seen \cup Range(out)), limit)

(* The sources in their order; the last three viewed count.                *)
Sources(l) ==
    LET recent == SubSeq(l.viewed, Max({1, Len(l.viewed) - 2}), Len(l.viewed))
    IN  <<FrequentlyBoughtTogether(l)>> \o [i \in DOMAIN recent |-> ContentSimilar(l, recent[i], l.limit)]
        \o <<Trending(l)>>

Seen(l) == Range(l.viewed) \cup l.basket

RecommendForSession(l) ==
    LET sources == Sources(l)
        out[k \in 0..Len(sources)] ==
            IF k = 0 THEN <<>> ELSE Added(out[k - 1], sources[k], Seen(l), l.limit)
    IN  out[Len(sources)]

(* The page of a product: related ones, then similar ones.                 *)
RelatedPage(l, p) ==
    LET others  == Related(l.baskets, p)
        related == First(Best(others, [q \in others |-> Cosine(l.baskets, p, q)]), l.limit)
        similar == ContentSimilar(l, p, l.limit - Len(related))
    IN  related \o Without(similar, Range(related))

(* _hydrate_products: what is not for sale is left out after the cut.      *)
Hydrated(l, ids) == Without(ids, {p \in Goods : ~ l.shelf[p].active})

-----------------------------------------------------------------------------
(* Properties.                                                             *)

Before(s, p, q) == \E i, j \in DOMAIN s : i < j /\ s[i] = p /\ s[j] = q

(* A rating decides between equal texts, and never between texts more than *)
(* five hundredths apart.                                                  *)
SearchRanks ==
    list.kind = "search" =>
        LET found == SearchFuzzy(list)
            text == [p \in Listed |-> Text(list.text, list.name[p])]
        IN  /\ \A p, q \in Listed : Before(found, p, q) =>
                  /\ text[q] - text[p] <= 500
                  /\ text[p] = text[q] => list.rating[p] >= list.rating[q]
            /\ \A p \in Range(found) : text[p] + 500 >= 100 * list.floor

(* Who begins with the query is completed first, and of the rows that were *)
(* read none that contains it is left out for want of anything but room;   *)
(* those behind the cut are left out, whatever they contain.               *)
CompletionRanks ==
    list.kind = "completion" =>
        LET offered == Autocomplete(list)
            inside == [p \in Listed |-> Found(list.text, list.name[p])]
        IN  /\ \A p, q \in Listed : Before(offered, p, q) /\ 1 \in inside[q] => 1 \in inside[p]
            /\ \A p \in Range(offered) : p \in list.rows /\ inside[p] # {}
            /\ \A p \in list.rows : inside[p] # {} /\ p \notin Range(offered) => Len(offered) = list.limit

(* A customer is recommended nothing she has in front of her and nothing   *)
(* twice, and a list that is shorter than it could be holds all that its   *)
(* sources had.                                                            *)
SessionServed ==
    list.kind = "session" =>
        LET out == RecommendForSession(list)  sources == Sources(list) IN
        /\ IsInjective(out) /\ Range(out) \cap Seen(list) = {} /\ Len(out) <= list.limit
        /\ Len(out) < list.limit =>
              \A i \in DOMAIN sources : Range(sources[i]) \ Seen(list) \subseteq Range(out)
        /\ \A p \in Goods : LET page == Hydrated(list, RelatedPage(list, p)) IN
              IsInjective(page) /\ p \notin Range(page) /\ Len(page) <= list.limit

(* Distances, scores and relations agree with what they stand for, and the *)
(* lists made of them hold what they should, once, in their order          *)
(* (text_utils.py:89-147, recommendations.py:25-213, products.py:150-255,  *)
(* algorithms.py:62-121).                                                  *)
SearchTrue == MeasuresTrue /\ SearchRanks /\ CompletionRanks /\ SessionServed
=============================================================================
