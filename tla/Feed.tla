-------------------------------- MODULE Feed --------------------------------
(***************************************************************************)
(* What the event bus promises a receiver (services/events.py): events     *)
(* come in the order of publication and none comes twice.  Events may be   *)
(* missing.                                                                *)
(***************************************************************************)
EXTENDS Integers, Sequences

CONSTANT Receivers

VARIABLES
    published,   \* number of events so far
    got          \* got[c]: numbers of the events c has received

Init == published = 0 /\ got = [c \in Receivers |-> <<>>]

Publish == published' = published + 1 /\ UNCHANGED got

Deliver(c) ==
    /\ \E n \in 1..published :
          /\ \A i \in DOMAIN got[c] : got[c][i] < n
          /\ got' = [got EXCEPT ![c] = Append(@, n)]
    /\ UNCHANGED published

Next == Publish \/ \E c \in Receivers : Deliver(c)

Spec == Init /\ [][Next]_<<published, got>>
=============================================================================
