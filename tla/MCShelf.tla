------------------------------ MODULE MCShelf -------------------------------
(* A product of two units with a variant, an order of each, two requests.  *)
EXTENDS Shelf, TLC

CONSTANTS o1, o2

MCBought == (o1 :> 2) @@ (o2 :> 1)
MCForms  == {[base |-> 0, variants |-> {1}, price |-> 14230, cost |-> None],
             [base |-> 2, variants |-> {}, price |-> 10000, cost |-> 8000]}
MCQuotes == {[base |-> 1, cost |-> 8000]}
MCRules  == {[strategy |-> "margin", value |-> 25, plus |-> 0, floor |-> 0, cap |-> 9500, instock |-> TRUE],
             [strategy |-> "percent", value |-> -15, plus |-> -20, floor |-> 0, cap |-> 1000000, instock |-> FALSE],
             [strategy |-> "round_99", value |-> 0, plus |-> 0, floor |-> 0, cap |-> 14250, instock |-> FALSE]}

MCSymmetry == Permutations(Workers) \cup Permutations(Requests)
=============================================================================
