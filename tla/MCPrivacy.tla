----------------------------- MODULE MCPrivacy -----------------------------
(* One customer, who may be deleted and come back.                         *)
EXTENDS Privacy, TLC

MCSymmetry == Permutations(Workers)
=============================================================================
