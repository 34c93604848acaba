----------------------------- MODULE MCCheckout -----------------------------
(* Three orders of one customer: one to earn points, two that spend them.  *)
EXTENDS Checkout, TLC

CONSTANTS o1, o2, o3

MCBasket == (o1 :> 30050) @@ (o2 :> 9975) @@ (o3 :> 9975)
MCAsk    == (o1 :> 0) @@ (o2 :> 150) @@ (o3 :> 1000)
MCForms  == {[kind |-> "percent", value |-> 10, min |-> 5000, active |-> TRUE],
             [kind |-> "percent", value |-> 100, min |-> 0, active |-> TRUE],
             [kind |-> "fixed", value |-> 20000, min |-> 9000, active |-> TRUE]}
=============================================================================
