-------------------------------- MODULE Chat --------------------------------
(***************************************************************************)
(* The support conversation of one member: routers/chat.py.  A tab is a    *)
(* web socket of the member, a desk a web socket of an administrator; they *)
(* take one frame after the other.  The administrators' HTTP calls that    *)
(* read and close are those of a desk.  A call reads the row of the        *)
(* session, and commits later what it computed from that; messages then go *)
(* to the tabs, one after the other.  What goes to the desks is left out.  *)
(***************************************************************************)
EXTENDS Integers, FiniteSets

CONSTANTS
    Tabs, Desks,
    HistoryLimit,    \* messages in a history (100 in the code)
    MaxMessages,     \* bound: messages
    MaxSessions      \* bound: rows of the session

Workers == Tabs \cup Desks

ASSUME ChatAssumption ==
    /\ Tabs \cap Desks = {}
    /\ HistoryLimit \in Nat \ {0} /\ MaxMessages \in Nat /\ MaxSessions \in Nat

VARIABLES
    conv,        \* the row of the conversation in table chat_sessions
    messages,    \* its rows in table chat_messages
    ids,         \* ids given out: sessions and messages
    tab,         \* tab[t]: where the connection t is
    task,        \* task[w]: the call worker w is in
    seen,        \* seen[t]: messages that came to t since it connected
    chatPast     \* observed only; see ChatObserved below

chatVars == <<conv, messages, ids, tab, task, seen, chatPast>>

-----------------------------------------------------------------------------
NoRow   == [pk |-> 0, open |-> FALSE, forAdmin |-> 0, forCustomer |-> 0]
NewRow  == [pk |-> ids.session + 1, open |-> TRUE, forAdmin |-> 0, forCustomer |-> 0]
NoFrame == [pc |-> "idle", goal |-> "none", row |-> NoRow, m |-> 0, list |-> {}, todo |-> {}]

(* joined[t]: the last message when t connected; cut[t]: the messages that *)
(* had the limit of older ones when its history was read.                  *)
ChatObserved == [joined |-> [t \in Tabs |-> 0], cut |-> [t \in Tabs |-> {}]]

ChatInit ==
    /\ conv = NoRow
    /\ messages = {}
    /\ ids = [session |-> 0, message |-> 0]
    /\ tab = [t \in Tabs |-> "closed"]
    /\ task = [w \in Workers |-> NoFrame]
    /\ seen = [t \in Tabs |-> {}]
    /\ chatPast = ChatObserved

-----------------------------------------------------------------------------
(* An exception ends the loop of a socket, and the connection with it.     *)
Fail(w) ==
    /\ task' = [task EXCEPT ![w] = NoFrame]
    /\ tab' = IF w \in Tabs THEN [tab EXCEPT ![w] = "closed"] ELSE tab
    /\ seen' = IF w \in Tabs THEN [seen EXCEPT ![w] = {}] ELSE seen

(* Faulty variant of ConnectCustomer: the tab joins the pool with its      *)
(* first frame.                                                            *)
ConnectLate(t) == tab' = [tab EXCEPT ![t] = "waiting"]

(* The tab is in the pool before its history is read.                      *)
ConnectCustomer(t) == tab' = [tab EXCEPT ![t] = "joined"]

(* What is being sent goes to the connection t had before.                 *)
ConnectTab(t) ==
    /\ tab[t] = "closed" /\ task[t].pc = "idle"
    /\ ConnectCustomer(t)
    /\ task' = [w \in Workers |-> IF w = t THEN [NoFrame EXCEPT !.pc = "find", !.goal = "history"]
                                  ELSE [task[w] EXCEPT !.todo = @ \ {t}]]
    /\ chatPast' = [chatPast EXCEPT !.joined[t] = ids.message, !.cut[t] = {}]
    /\ UNCHANGED <<conv, messages, ids, seen>>

Leave(t) ==
    /\ tab[t] = "live" /\ task[t].pc = "idle"
    /\ tab' = [tab EXCEPT ![t] = "closed"]
    /\ seen' = [seen EXCEPT ![t] = {}]
    /\ UNCHANGED <<conv, messages, ids, task, chatPast>>

(* The frames of a tab and of a desk.                                      *)
Goals(w) == IF w \in Tabs THEN {"send", "read"} ELSE {"send", "close", "unread"}

Receive(w, goal) ==
    /\ task[w].pc = "idle" /\ goal \in Goals(w) /\ (w \in Tabs => tab[w] = "live")
    /\ task' = [task EXCEPT ![w].pc = "find", ![w].goal = goal]
    /\ UNCHANGED <<conv, messages, ids, tab, seen, chatPast>>

-----------------------------------------------------------------------------
(* _get_or_create_session, and the select of the calls that do not create. *)
Creates(goal) == goal \in {"history", "send", "read"}

Find(w) ==
    LET c == task[w] IN
    /\ c.pc = "find"
    /\ task' = [task EXCEPT ![w] =
          IF conv.pk # 0 THEN [c EXCEPT !.pc = c.goal, !.row = conv]
          ELSE IF Creates(c.goal) THEN [c EXCEPT !.pc = "insert"]
          ELSE NoFrame]
    /\ UNCHANGED <<conv, messages, ids, tab, seen, chatPast>>

(* The column session_id is unique.                                        *)
Insert(w) ==
    /\ task[w].pc = "insert"
    /\ IF conv.pk # 0 THEN Fail(w) /\ UNCHANGED <<conv, ids>>
       ELSE /\ ids.session < MaxSessions
            /\ conv' = NewRow
            /\ ids' = [ids EXCEPT !.session = @ + 1]
            /\ task' = [task EXCEPT ![w].pc = task[w].goal, ![w].row = NewRow]
            /\ UNCHANGED <<tab, seen>>
    /\ UNCHANGED <<messages, chatPast>>

(* An update of a row that is gone raises.                                 *)
Gone(w) == conv.pk # task[w].row.pk

-----------------------------------------------------------------------------
(* What a tab gets first: the oldest messages, as many as the limit        *)
(* (ascending order, then the limit).                                      *)
History == {m \in messages : Cardinality({n \in messages : n <= m}) <= HistoryLimit}
Beyond  == {m \in messages : Cardinality({n \in messages : n < m}) >= HistoryLimit}

ReadHistory(t) ==
    LET unread == task[t].row.forCustomer > 0 IN
    /\ task[t].pc = "history"
    /\ task' = [task EXCEPT ![t].pc = IF unread THEN "reset" ELSE "greet",
                            ![t].list = IF Gone(t) THEN {} ELSE History]
    /\ chatPast' = [chatPast EXCEPT !.cut[t] = IF Gone(t) THEN {} ELSE Beyond]
    /\ UNCHANGED <<conv, messages, ids, tab, seen>>

Greet(t) ==
    /\ task[t].pc = "greet"
    /\ seen' = [seen EXCEPT ![t] = @ \cup task[t].list]
    /\ tab' = [tab EXCEPT ![t] = "live"]
    /\ task' = [task EXCEPT ![t] = NoFrame]
    /\ UNCHANGED <<conv, messages, ids, chatPast>>

(* mark_read of a tab, and the same for a tab that connects.               *)
CustomerRead(t) ==
    LET c == task[t] IN
    /\ c.pc \in {"read", "reset"}
    /\ IF c.row.forCustomer > 0 /\ Gone(t) THEN Fail(t) /\ UNCHANGED conv
       ELSE /\ task' = [task EXCEPT ![t] = IF c.pc = "reset" THEN [c EXCEPT !.pc = "greet"] ELSE NoFrame]
            /\ conv' = IF c.row.forCustomer = 0 THEN conv ELSE [conv EXCEPT !.forCustomer = 0]
            /\ UNCHANGED <<tab, seen>>
    /\ UNCHANGED <<messages, ids, chatPast>>

(* mark_read of a desk, and an administrator who opens the conversation.   *)
AdminRead(w) ==
    /\ task[w].pc = "unread"
    /\ task' = [task EXCEPT ![w] = NoFrame]
    /\ conv' = IF task[w].row.forAdmin = 0 \/ Gone(w) THEN conv ELSE [conv EXCEPT !.forAdmin = 0]
    /\ UNCHANGED <<messages, ids, tab, seen, chatPast>>

-----------------------------------------------------------------------------
(* The status is written only if the row was read as closed, the counter   *)
(* always.                                                                 *)
Counted(w, row) ==
    IF w \in Tabs THEN [conv EXCEPT !.forAdmin = row.forAdmin + 1]
    ELSE [conv EXCEPT !.forCustomer = row.forCustomer + 1]

CommitMessage(w) ==
    LET row == task[w].row
        id  == ids.message + 1
    IN  /\ task[w].pc = "send"
        /\ IF Gone(w) THEN Fail(w) /\ UNCHANGED <<conv, messages, ids>>
           ELSE /\ id <= MaxMessages
                /\ conv' = [Counted(w, row) EXCEPT !.open = @ \/ ~ row.open]
                /\ messages' = messages \cup {id}
                /\ ids' = [ids EXCEPT !.message = id]
                /\ task' = [task EXCEPT ![w] = [NoFrame EXCEPT !.pc = "sent", !.m = id]]
                /\ UNCHANGED <<tab, seen>>
        /\ UNCHANGED chatPast

(* send_to_customer: the tabs of the pool now, one after the other.        *)
StartSend(w) ==
    /\ task[w].pc = "sent"
    /\ task' = [task EXCEPT ![w].pc = "sending", ![w].todo = {t \in Tabs : tab[t] \in {"joined", "live"}}]
    /\ UNCHANGED <<conv, messages, ids, tab, seen, chatPast>>

SendFrame(w, t) ==
    /\ task[w].pc = "sending" /\ t \in task[w].todo
    /\ task' = [task EXCEPT ![w].todo = @ \ {t}]
    /\ seen' = IF tab[t] = "closed" THEN seen ELSE [seen EXCEPT ![t] = @ \cup {task[w].m}]
    /\ UNCHANGED <<conv, messages, ids, tab, chatPast>>

FinishSend(w) ==
    /\ task[w].pc = "sending" /\ task[w].todo = {}
    /\ task' = [task EXCEPT ![w] = NoFrame]
    /\ UNCHANGED <<conv, messages, ids, tab, seen, chatPast>>

-----------------------------------------------------------------------------
CloseSession(w) ==
    /\ task[w].pc = "close"
    /\ task' = [task EXCEPT ![w] = NoFrame]
    /\ conv' = IF Gone(w) \/ ~ task[w].row.open THEN conv ELSE [conv EXCEPT !.open = FALSE]
    /\ UNCHANGED <<messages, ids, tab, seen, chatPast>>

(* The messages go with the session.                                       *)
DeleteSession ==
    /\ conv.pk # 0
    /\ conv' = NoRow /\ messages' = {}
    /\ UNCHANGED <<ids, tab, task, seen, chatPast>>

DeleteMessage(m) ==
    /\ m \in messages
    /\ messages' = messages \ {m}
    /\ UNCHANGED <<conv, ids, tab, task, seen, chatPast>>

-----------------------------------------------------------------------------
(* What a restart of the process leaves: the tables.                       *)
ChatRestart ==
    /\ tab' = [t \in Tabs |-> "closed"]
    /\ task' = [w \in Workers |-> NoFrame]
    /\ seen' = [t \in Tabs |-> {}]
    /\ UNCHANGED <<conv, messages, ids, chatPast>>

ChatNext ==
    \/ \E t \in Tabs : ConnectTab(t) \/ Leave(t) \/ ReadHistory(t) \/ Greet(t) \/ CustomerRead(t)
    \/ \E w \in Workers :
          \/ \E goal \in Goals(w) : Receive(w, goal)
          \/ Find(w) \/ Insert(w) \/ AdminRead(w) \/ CommitMessage(w)
          \/ StartSend(w) \/ FinishSend(w) \/ CloseSession(w)
          \/ \E t \in Tabs : SendFrame(w, t)
    \/ DeleteSession \/ \E m \in messages : DeleteMessage(m)

-----------------------------------------------------------------------------
(* Properties.                                                             *)

OnItsWay(m, t) == \E w \in Workers : task[w].m = m /\ (task[w].pc = "sent" \/ t \in task[w].todo)

(* What was committed before a tab connected is in its history if it is    *)
(* among the first messages of the conversation, as many as the limit, and *)
(* what is committed from then on comes live, although the two overlap     *)
(* (chat.py:333-347).  Of a longer conversation the messages behind the    *)
(* limit never come to a tab that connects later.                          *)
NoneMissed ==
    \A t \in Tabs : tab[t] = "live" =>
        \A m \in messages :
            m > chatPast.joined[t] \/ m \notin chatPast.cut[t] => m \in seen[t] \/ OnItsWay(m, t)
=============================================================================
