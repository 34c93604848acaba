----------------------------- MODULE Fulfilment -----------------------------
(***************************************************************************)
(* What order processing promises, without calls, locks or counters: an    *)
(* order holds all of its stock or none, money is booked only together     *)
(* with the stock, stock is set aside and given back in turns, and a       *)
(* deleted order stays as it was.  OrderStock implements it.               *)
(***************************************************************************)
CONSTANT Orders

VARIABLES
    held,      \* held[o]: "all" or "none" of the stock of o is set aside
    paid,      \* orders booked as paid
    closed     \* orders that were deleted

fvars == <<held, paid, closed>>

FInit ==
    /\ held = [o \in Orders |-> "none"]
    /\ paid = {}
    /\ closed = {}

(* Stock is set aside, or was already: at most once between two releases.  *)
SetAside(o) == held' = [held EXCEPT ![o] = "all"]

Book(o) ==
    /\ o \notin paid \cup closed
    /\ SetAside(o)
    /\ paid' = paid \cup {o}
    /\ UNCHANGED closed

Hold(o) ==
    /\ o \notin closed
    /\ held[o] = "none"
    /\ SetAside(o)
    /\ UNCHANGED <<paid, closed>>

Release(o) ==
    /\ o \notin closed
    /\ held[o] = "all"
    /\ held' = [held EXCEPT ![o] = "none"]
    /\ UNCHANGED <<paid, closed>>

(* A booking is withdrawn, by a late failure notice or by the second phase *)
(* of a manual checkout; the stock of the order is never given back by it. *)
Withdraw(o) ==
    /\ o \in paid \ closed
    /\ paid' = paid \ {o}
    /\ SetAside(o) \/ UNCHANGED held
    /\ UNCHANGED closed

Close(o) ==
    /\ o \notin closed
    /\ closed' = closed \cup {o}
    /\ UNCHANGED <<held, paid>>

FNext == \E o \in Orders :
    Book(o) \/ Hold(o) \/ Release(o) \/ Withdraw(o) \/ Close(o)

FSpec == FInit /\ [][FNext]_fvars
=============================================================================
