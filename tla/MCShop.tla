------------------------------- MODULE MCShop -------------------------------
(* A small shop: either one order and calls of every kind, or two that     *)
(* compete for the shelf, one paid by wire and one by PayTR: overlapping   *)
(* cash-on-delivery checkouts overwrite each other's stock (README,        *)
(* section 7).                                                             *)
EXTENDS MCOrderStock

VARIABLE shop

Competing ==
    /\ \A w \in Workers :
          /\ job'[w].call \notin {"cod", "stripe", "carrier"}
          /\ job'[w].call = "wire" => job'[w].o = o1
          /\ job'[w].call = "paytr" => job'[w].o = o2
    /\ spent'.admin <= 3 /\ spent'.crash = 0

MCInit == Init /\ shop \in {"single", "competing"}

MCNext ==
    /\ Next
    /\ shop = "single" => \A w \in Workers : job'[w].o # o2
    /\ shop = "competing" => Competing
    /\ UNCHANGED shop

MCSpec == MCInit /\ [][MCNext]_<<vars, shop>>
=============================================================================
