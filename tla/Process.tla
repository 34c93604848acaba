------------------------------ MODULE Process ------------------------------
(***************************************************************************)
(* What lives in the memory of the one server process: the event bus with  *)
(* its streams and sockets, the senders of a newsletter campaign, and the  *)
(* connections of the support chat.  A restart ends them all (README.md: a *)
(* single instance, nothing of this is stored).                            *)
(***************************************************************************)
EXTENDS EventBus, Campaigns, Chat

CONSTANT MaxRestarts   \* bound: restarts of the process

ASSUME ProcessAssumption == MaxRestarts \in Nat

VARIABLE restarts

vars == <<busVars, campaignVars, chatVars, restarts>>

Init == BusInit /\ CampaignInit /\ ChatInit /\ restarts = 0

Restart ==
    /\ restarts < MaxRestarts /\ restarts' = restarts + 1
    /\ BusRestart /\ CampaignRestart /\ ChatRestart

BusStep      == BusNext /\ UNCHANGED <<campaignVars, chatVars, restarts>>
CampaignStep == CampaignNext /\ UNCHANGED <<busVars, chatVars, restarts>>
ChatStep     == ChatNext /\ UNCHANGED <<busVars, campaignVars, restarts>>

Next == BusStep \/ CampaignStep \/ ChatStep \/ Restart

(* The event loop runs a task that is ready.                               *)
Fairness == \A w \in Callers : WF_vars(SenderStep(w) /\ UNCHANGED <<busVars, chatVars, restarts>>)

Spec == Init /\ [][Next]_vars /\ Fairness

(* A campaign that is being sent is completed, unless the process is       *)
(* restarted: then nobody takes it up again (campaigns.py:112-114).        *)
SendingEnds ==
    (campaign.st = "sending" /\ \E w \in Callers : sender[w].pc # "none")
        ~> (campaign.st # "sending" \/ restarts > 0)
=============================================================================
