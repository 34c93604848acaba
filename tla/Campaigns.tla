----------------------------- MODULE Campaigns -----------------------------
(***************************************************************************)
(* One newsletter campaign: routers/campaigns.py.  A call of an            *)
(* administrator reads the campaign and commits later; a sender is a       *)
(* background task that mails the subscribers it found at its start and    *)
(* commits its counts after every Batch mails.                             *)
(***************************************************************************)
EXTENDS Integers, FiniteSets

CONSTANTS
    Subscribers, Callers,
    Batch,         \* mails between two commits (10 in the code)
    MaxList        \* bound: changes of the list of subscribers

ASSUME CampaignsAssumption == IsFiniteSet(Subscribers) /\ Batch \in Nat \ {0} /\ MaxList \in Nat

VARIABLES
    campaign,    \* the row of table newsletter_campaigns
    list,        \* table newsletter_subscribers
    call,        \* call[w]: the call of an administrator
    sender,      \* sender[w]: the background task call w has started
    mailbox,     \* mailbox[s]: copies of the campaign sent to s
    past         \* observed only; see CampaignObserved below

campaignVars == <<campaign, list, call, sender, mailbox, past>>

-----------------------------------------------------------------------------
Draft   == [st |-> "draft", total |-> 0, sent |-> 0, failed |-> 0]
NoCall  == [pc |-> "idle", was |-> "none"]
NoTask  == [pc |-> "none", todo |-> {}, sent |-> 0, failed |-> 0, kept |-> 0, keptFailed |-> 0]

(* twice: a sender was started while another, or another call to start     *)
(* one, was under way; changes: changes of the list.                       *)
CampaignObserved == [twice |-> FALSE, changes |-> 0]

CampaignInit ==
    /\ campaign = Draft
    /\ list = Subscribers
    /\ call = [w \in Callers |-> NoCall]
    /\ sender = [w \in Callers |-> NoTask]
    /\ mailbox = [s \in Subscribers |-> 0]
    /\ past = CampaignObserved

Others(w) == \E v \in Callers \ {w} : call[v].pc = "send" \/ sender[v].pc # "none"

-----------------------------------------------------------------------------
(* Calls.                                                                  *)

(* Faulty variant of Sendable: a completed campaign is sent again.         *)
SendableAgain(st) == st \in {"draft", "completed"}

(* send_campaign also takes failed campaigns, but nothing makes one.       *)
Sendable(st) == st \in {"draft", "failed"}

Send(w) ==
    /\ call[w].pc = "idle" /\ sender[w].pc = "none" /\ Sendable(campaign.st)
    /\ call' = [call EXCEPT ![w] = [pc |-> "send", was |-> campaign.st]]
    /\ past' = [past EXCEPT !.twice = @ \/ Others(w)]
    /\ UNCHANGED <<campaign, list, sender, mailbox>>

(* The counts were zero when read, and are not written.                    *)
CommitSend(w) ==
    /\ call[w].pc = "send"
    /\ call' = [call EXCEPT ![w] = NoCall]
    /\ IF campaign.st = "gone" THEN UNCHANGED <<campaign, sender>>
       ELSE /\ campaign' = [campaign EXCEPT !.st = "sending"]
            /\ sender' = [sender EXCEPT ![w] = [NoTask EXCEPT !.pc = "new"]]
    /\ UNCHANGED <<list, mailbox, past>>

Delete(w) ==
    /\ call[w].pc = "idle" /\ campaign.st \notin {"sending", "gone"}
    /\ call' = [call EXCEPT ![w] = [pc |-> "delete", was |-> campaign.st]]
    /\ UNCHANGED <<campaign, list, sender, mailbox, past>>

CommitDelete(w) ==
    /\ call[w].pc = "delete"
    /\ call' = [call EXCEPT ![w] = NoCall]
    /\ campaign' = [campaign EXCEPT !.st = "gone"]
    /\ UNCHANGED <<list, sender, mailbox, past>>

-----------------------------------------------------------------------------
(* The background task.                                                    *)

End(w) == sender' = [sender EXCEPT ![w] = NoTask]

Begin(w) ==
    /\ sender[w].pc = "new"
    /\ IF campaign.st # "sending" THEN End(w) /\ UNCHANGED campaign
       ELSE /\ sender' = [sender EXCEPT ![w] =
                  [pc |-> "mailing", todo |-> list, sent |-> campaign.sent, failed |-> campaign.failed,
                   kept |-> campaign.sent, keptFailed |-> campaign.failed]]
            /\ campaign' = [campaign EXCEPT !.total = Cardinality(list)]
    /\ UNCHANGED <<list, call, mailbox, past>>

(* Faulty variant of Done: a mail that was refused is left on the list.    *)
DoneIfSent(t, s, ok) ==
    [t EXCEPT !.todo = IF ok THEN @ \ {s} ELSE @, !.sent = @ + (IF ok THEN 1 ELSE 0),
              !.failed = @ + (IF ok THEN 0 ELSE 1)]

Done(t, s, ok) ==
    [t EXCEPT !.todo = @ \ {s}, !.sent = @ + (IF ok THEN 1 ELSE 0), !.failed = @ + (IF ok THEN 0 ELSE 1)]

(* A commit writes the counts that differ from those of the last one.      *)
Counts(t) == [campaign EXCEPT !.sent   = IF t.sent = t.kept THEN @ ELSE t.sent,
                              !.failed = IF t.failed = t.keptFailed THEN @ ELSE t.failed]

(* send_email answers true or false, and never raises.                     *)
Mail(w, s, ok) ==
    LET t == Done(sender[w], s, ok)
        due == (t.sent + t.failed) % Batch = 0
    IN  /\ sender[w].pc = "mailing" /\ s \in sender[w].todo
        /\ mailbox' = IF ok THEN [mailbox EXCEPT ![s] = @ + 1] ELSE mailbox
        /\ IF ~ due THEN sender' = [sender EXCEPT ![w] = t] /\ UNCHANGED campaign
           ELSE IF campaign.st = "gone" THEN End(w) /\ UNCHANGED campaign
           ELSE /\ campaign' = Counts(t)
                /\ sender' = [sender EXCEPT ![w] = [t EXCEPT !.kept = t.sent, !.keptFailed = t.failed]]
        /\ UNCHANGED <<list, call, past>>

(* Faulty variant of Finished: a refused mail keeps the campaign open.     *)
FinishedIfAllSent(t) == t.todo = {} /\ t.failed = 0

Finished(t) == t.todo = {}

Complete(w) ==
    /\ sender[w].pc = "mailing" /\ Finished(sender[w])
    /\ campaign' = IF campaign.st = "gone" THEN campaign
                   ELSE [Counts(sender[w]) EXCEPT !.st = "completed"]
    /\ End(w)
    /\ UNCHANGED <<list, call, mailbox, past>>

-----------------------------------------------------------------------------
(* A visitor subscribes, or is erased.                                     *)
ChangeList(s) ==
    /\ past.changes < MaxList
    /\ list' = IF s \in list THEN list \ {s} ELSE list \cup {s}
    /\ past' = [past EXCEPT !.changes = @ + 1]
    /\ UNCHANGED <<campaign, call, sender, mailbox>>

(* What a restart of the process leaves of a campaign: the row.            *)
CampaignRestart ==
    /\ call' = [w \in Callers |-> NoCall]
    /\ sender' = [w \in Callers |-> NoTask]
    /\ UNCHANGED <<campaign, list, mailbox, past>>

SenderStep(w) == Begin(w) \/ Complete(w) \/ \E s \in Subscribers, ok \in BOOLEAN : Mail(w, s, ok)

CampaignNext ==
    \/ \E w \in Callers : Send(w) \/ CommitSend(w) \/ Delete(w) \/ CommitDelete(w) \/ SenderStep(w)
    \/ \E s \in Subscribers : ChangeList(s)

-----------------------------------------------------------------------------
(* Properties.                                                             *)

(* What went out: <<s, n>> is the n-th copy to s.                          *)
Mails == UNION {{s} \X (1..mailbox[s]) : s \in Subscribers}

(* A campaign reaches a subscriber at most once, whatever happens to the   *)
(* process, unless two calls start senders at the same time                *)
(* (campaigns.py:150-153).                                                 *)
MailedOnce == ~ past.twice => \A s \in Subscribers : mailbox[s] <= 1

(* A completed campaign accounts for every subscriber it was sent to: what *)
(* was counted as sent is what went out, and nobody was left out           *)
(* (campaigns.py:117-128), with the same exception.                        *)
Accounted ==
    campaign.st = "completed" /\ ~ past.twice
        => campaign.sent = Cardinality(Mails) /\ campaign.sent + campaign.failed = campaign.total
=============================================================================
