----------------------------- MODULE Scheduler -----------------------------
(***************************************************************************)
(* The scheduler task of services/scheduled.py: a tick every half hour,    *)
(* with a counter for each task that does not run in every tick.  Its poll *)
(* is the Poller of module Tracking.  A task that raises ends the tick;    *)
(* the counters advance all the same.                                      *)
(***************************************************************************)
EXTENDS Tracking

CONSTANTS
    LowStockPeriod, ShipPeriod, DropshipPeriod, BackupPeriod,  \* in ticks
    DayTicks,                                                  \* ticks of a day
    Raising        \* tasks that may raise: the database or the storage is out

ASSUME SchedulerAssumption ==
    /\ LowStockPeriod \in Nat \ {0} /\ ShipPeriod \in Nat \ {0}
    /\ DropshipPeriod \in Nat \ {0} /\ BackupPeriod \in Nat \ {0}
    /\ DayTicks \in Nat
    /\ Raising \subseteq {"alert", "poll", "dropship", "backup"}

VARIABLES
    phase,     \* where in its tick the loop is
    counter,   \* counter[t]: ticks since the last turn of task t, 0 at its turn
    since,     \* ticks since the last alert and since a backup was last tried
    raised     \* has a tick been cut short since that backup

schedulerVars == <<tvars, phase, counter, since, raised>>

Tasks  == {"alert", "poll", "dropship", "backup"}
Period == [alert |-> LowStockPeriod, poll |-> ShipPeriod,
           dropship |-> DropshipPeriod, backup |-> BackupPeriod]
Turn(t) == counter[t] = 0

SchedInit ==
    /\ TracksInit
    /\ phase = "alert"
    /\ counter = [t \in Tasks |-> 0]
    /\ since = [alert |-> LowStockPeriod, backup |-> 0]
    /\ raised = FALSE

(* The tasks of a tick in their order; Rest(t) is where the loop goes when *)
(* it is over with task t: the next one that has its turn, or to sleep.    *)
TickOrder == <<"alert", "poll", "dropship", "backup">>
From(i) ==
    LET due == {k \in i..4 : Turn(TickOrder[k])}
    IN  IF due = {} THEN "sleep" ELSE TickOrder[CHOOSE k \in due : \A l \in due : k <= l]
Rest(t) == From(1 + CHOOSE k \in 1..4 : TickOrder[k] = t)

LowStockAlert ==
    /\ phase = "alert"
    /\ phase' = Rest("alert")
    /\ since' = [since EXCEPT !.alert = 0]
    /\ UNCHANGED <<tvars, counter, raised>>

PollStarts ==
    /\ phase = "poll"
    /\ ShipmentPoll(Poller)
    /\ phase' = "polling"
    /\ UNCHANGED <<counter, since, raised>>

PollProceeds ==
    /\ phase = "polling"
    /\ Proceed(Poller)
    /\ UNCHANGED <<phase, counter, since, raised>>

PollEnds ==
    /\ phase = "polling"
    /\ Commit(Poller)
    /\ phase' = Rest("poll")
    /\ UNCHANGED <<counter, since, raised>>

(* The except clause of the loop: what is left of the tick is dropped.     *)
TickFails ==
    /\ phase' = "sleep"
    /\ raised' = TRUE
    /\ UNCHANGED <<counter, since>>

PollFails == phase = "polling" /\ Fails(Poller) /\ TickFails

DropshipSync ==
    /\ phase = "dropship"
    /\ phase' = Rest("dropship")
    /\ UNCHANGED <<tvars, counter, since, raised>>

(* A task raises, or the report on carts that is made between alert and    *)
(* poll in every tick.                                                     *)
TaskFails(t) ==
    /\ phase = t /\ t \in Raising
    /\ UNCHANGED tvars
    /\ TickFails

(* It returns after a failed pg_dump too: the next try is a period away.    *)
RunDbBackup ==
    /\ phase = "backup"
    /\ phase' = Rest("backup")
    /\ since' = [since EXCEPT !.backup = 0]
    /\ raised' = FALSE
    /\ UNCHANGED <<tvars, counter>>

(* Faulty variant of Advanced: one counter too long.                       *)
AdvancedLate == [t \in Tasks |-> (counter[t] + 1) % (Period[t] + 1)]

Advanced == [t \in Tasks |-> (counter[t] + 1) % Period[t]]

Sleep ==
    /\ phase = "sleep"
    /\ counter' = Advanced
    /\ phase' = From(1)'
    /\ since' = [alert  |-> IF since.alert < LowStockPeriod THEN since.alert + 1 ELSE since.alert,
                 backup |-> IF since.backup <= DayTicks THEN since.backup + 1 ELSE since.backup]
    /\ UNCHANGED <<tvars, raised>>

(* The counters live in the process; a new one alerts at once.             *)
ProcessRestarts ==
    /\ RestartTracks
    /\ phase' = "alert"
    /\ counter' = [t \in Tasks |-> 0]
    /\ since' = [since EXCEPT !.alert = LowStockPeriod]
    /\ UNCHANGED raised

Tick ==
    \/ \E t \in Tasks : TaskFails(t)
    \/ LowStockAlert \/ DropshipSync \/ RunDbBackup \/ Sleep
    \/ PollStarts \/ PollProceeds \/ PollEnds \/ PollFails

Requests ==
    /\ (\E w \in Requesters : Http(w)) \/ Outside
    /\ UNCHANGED <<phase, counter, since, raised>>

SchedNext == Tick \/ Requests \/ ProcessRestarts

SchedSpec == SchedInit /\ [][SchedNext]_schedulerVars

-----------------------------------------------------------------------------
(* Properties.                                                             *)

TypeOK ==
    /\ TrackingTypeOK
    /\ phase \in Tasks \cup {"polling", "sleep"}
    /\ counter \in [Tasks -> Nat]
    /\ since \in [alert : Nat, backup : Nat]
    /\ raised \in BOOLEAN

(* The alert is sent once in a period, also when ticks fail in between     *)
(* (scheduled.py:202-203, 215-217).                                        *)
AlertOncePerPeriod == [][LowStockAlert => since.alert = LowStockPeriod]_schedulerVars

(* Only a tick that was cut short makes a backup late: the counter asks    *)
(* for one in every period (scheduled.py:209-212, 219).                    *)
BackupOnTime == since.backup > BackupPeriod => raised

(* The loop and the HTTP calls do nothing that Tracking does not allow.    *)
TracksEvents == Tracks

(* Why they hold.  Until a tick is cut short the backup counter bounds the *)
(* ticks since the last backup, except while its turn is pending; the      *)
(* alert counter is the ticks since the last alert, if it was sent.        *)
BackupCounted ==
    ~ raised =>
        /\ counter.backup # 0 \/ phase = "sleep" => since.backup <= counter.backup
        /\ since.backup <= BackupPeriod
AlertCounted ==
    /\ since.alert \in {counter.alert, LowStockPeriod}
    /\ phase = "alert" => counter.alert = 0 /\ since.alert = LowStockPeriod
TurnsInv ==
    /\ \A t \in Tasks : counter[t] < Period[t]
    /\ phase \in Tasks => Turn(phase)
    /\ BackupCounted /\ AlertCounted

(* A backup is tried every day (scheduled.py:25, backup.py:1).  The code   *)
(* does not keep this: a poll that raises skips the backup.                *)
BackedUpDaily == since.backup <= DayTicks
=============================================================================
