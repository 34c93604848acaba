------------------------------ MODULE Register ------------------------------
(***************************************************************************)
(* What a yearly register of numbers promises (orders are numbered         *)
(* TT-year-0001, TT-year-0002, ...): numbers are issued one after the      *)
(* other without a gap, each to one holder, and are never taken back,      *)
(* given again or changed.                                                 *)
(***************************************************************************)
EXTENDS Sequences, SequencesExt

CONSTANT Holders

VARIABLE issued       \* issued[n]: the holder of number n

RInit == issued = <<>>

Issue(h) ==
    /\ h \notin ToSet(issued)
    /\ issued' = Append(issued, h)

RSpec == RInit /\ [][\E h \in Holders : Issue(h)]_issued
=============================================================================
