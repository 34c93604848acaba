----------------------------- MODULE MCProcess -----------------------------
(* One campaign; one conversation of a visitor with an administrator; the  *)
(* bus under one stream, and under the sockets of a visitor and of an      *)
(* administrator.  The services share no variable, streams and the relay   *)
(* no queue, and a restart is all they have in common: each behaviour      *)
(* moves one part.  The sockets are shown three events, one more than the  *)
(* relay's queue holds; the stream MaxEvents.                              *)
EXTENDS Process, TLC

VARIABLE part

MCInit == Init /\ part \in {"campaign", "chat", "stream", "sockets"}

MCNext ==
    /\ \/ part = "campaign" /\ CampaignStep
       \/ part = "chat" /\ ChatStep
       \/ part \in {"stream", "sockets"} /\ BusStep
       \/ Restart
    /\ part = "stream"  => \A s \in Sockets : socket'[s] = "closed"
    /\ part = "sockets" => Len(log') <= 3 /\ \A c \in Streams : reader'[c] = "none"
    /\ UNCHANGED part

MCSpec == MCInit /\ [][MCNext]_<<vars, part>> /\ Fairness
=============================================================================
