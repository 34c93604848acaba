---------------------------- MODULE MCStorefront ----------------------------
(* Two orders of which one would begin with the number of the other; one   *)
(* product with its reviews; two carts; favourites and prices; exchange    *)
(* rates; the inputs of scores, searches and suggestions.  The parts share *)
(* no variable: each behaviour moves one of them.                          *)
EXTENDS Timeline, Reviews, Carts, Favourites, Rates, Scores, Suggestions, TLC

VARIABLE part

vars == <<timelineVars, reviewVars, cartVars, favouriteVars, ratesVars, sample, query, list, part>>

MCInit ==
    /\ part \in {"timeline", "reviews", "carts", "favourites", "rates", "scores", "search", "lists"}
    /\ TimelineInit /\ ReviewsInit /\ CartsInit /\ RatesInit
    /\ IF part = "favourites" THEN FavouritesInit ELSE FavouritesInit /\ price = [p \in Wares |-> Min(Prices)]
    /\ IF part = "scores" THEN ScoresInit ELSE sample = [kind |-> "none"]
    /\ IF part = "search" THEN SearchInit ELSE query = [kind |-> "none"]
    /\ IF part = "lists" THEN SuggestionsInit ELSE list = [kind |-> "none"]

MCNext ==
    /\ \/ part = "timeline" /\ TimelineNext
          /\ UNCHANGED <<reviewVars, cartVars, favouriteVars, ratesVars>>
       \/ part = "reviews" /\ ReviewsNext
          /\ UNCHANGED <<timelineVars, cartVars, favouriteVars, ratesVars>>
       \/ part = "carts" /\ CartsNext
          /\ UNCHANGED <<timelineVars, reviewVars, favouriteVars, ratesVars>>
       \/ part = "favourites" /\ FavouritesNext
          /\ UNCHANGED <<timelineVars, reviewVars, cartVars, ratesVars>>
       \/ part = "rates" /\ RatesNext
          /\ UNCHANGED <<timelineVars, reviewVars, cartVars, favouriteVars>>
    /\ UNCHANGED <<part, sample, query, list>>

MCSpec == MCInit /\ [][MCNext]_vars

(* Dearer and cheaper by a quarter is not symmetric: 100 is near 130, 130  *)
(* is not near 100.                                                        *)
MCShelves ==
    {[category |-> 1, price |-> 100, active |-> TRUE], [category |-> 1, price |-> 130, active |-> TRUE],
     [category |-> 2, price |-> 100, active |-> FALSE]}

(* The older of two paid orders is one half-life older.                   *)
MCWeights == <<1, 2>>

(* The calls of all parts have the same names, w1 and w2.                  *)
MCSymmetry == Permutations(Clerks)
=============================================================================
