---------------------------- MODULE MCOrderStock ----------------------------
(* Small instances of OrderStock for TLC.                                  *)
EXTENDS OrderStock, TLC

CONSTANTS o1, o2, a, b, w1, w2

MCWorkers == {w1, w2}
MCTargets == {a, b}

(* One order of two lines; stock for exactly one application of it.        *)
OneOrder  == {o1}
OneQty    == (o1 :> (a :> 1 @@ b :> 2))
OneStock  == (a :> 1 @@ b :> 2)

(* Two orders that share both targets: a is ample, b covers only one.      *)
TwoOrders == {o1, o2}
TwoQty    == (o1 :> (a :> 1 @@ b :> 1)) @@ (o2 :> (a :> 2 @@ b :> 1))
TwoStock  == (a :> 3 @@ b :> 1)

WorkerSymmetry == Permutations(MCWorkers)
=============================================================================
