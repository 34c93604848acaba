----------------------------- MODULE MCSessions -----------------------------
(* One administrator and one customer.                                     *)
EXTENDS Sessions, TLC

MCSymmetry == Permutations(Workers)
=============================================================================
