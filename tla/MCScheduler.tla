----------------------------- MODULE MCScheduler -----------------------------
(* Small instances of Scheduler and Tracking for TLC.                      *)
EXTENDS Scheduler, TLC

CONSTANTS o1, o2, w1

TwoOrders  == {o1, o2}
OneOrder   == {o1}
OneWorker == {w1}
=============================================================================
