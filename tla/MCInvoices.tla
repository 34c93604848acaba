----------------------------- MODULE MCInvoices -----------------------------
(* Small instances of Invoices for TLC.                                    *)
EXTENDS Invoices, TLC

CONSTANTS o1, o2, w1, w2, w3

MCOrders  == {o1, o2}
TrioWorkers == {w1, w2, w3}

TrioSymmetry == Permutations(TrioWorkers) \cup Permutations(MCOrders)
=============================================================================
