------------------------------ MODULE Privacy ------------------------------
(***************************************************************************)
(* Erasure of a customer's data on request: routers/customer_auth.py,      *)
(* routers/privacy.py and services/privacy.py, next to the calls that      *)
(* write such data.                                                        *)
(*                                                                         *)
(* A run of an erasure is one transaction of several statements; each      *)
(* finds the rows that are committed when it is executed, and everything   *)
(* it changes shows at the commit.  A link that has expired is not used.   *)
(***************************************************************************)
EXTENDS Integers, Sequences, FiniteSets

CONSTANTS
    Emails,        \* e-mails as they were typed: each spelling is one of its own
    Workers,
    MaxRows,       \* bound: rows that hold a customer's data
    MaxRequests,   \* bound: requests for erasure
    MaxDesk,       \* bound: changes of administrators
    NoEmail

ASSUME PrivacyAssumption ==
    NoEmail \notin Emails /\ {MaxRows, MaxRequests, MaxDesk} \subseteq Nat

VARIABLES
    account,     \* account[e]: key of the customer with e-mail e, 0 for none
    row,         \* rows that hold an e-mail and a name, in order of insertion
    request,     \* table data_deletion_requests
    job,         \* job[w]: the call worker w is in
    desk,        \* how much of MaxDesk is used up
    seen         \* observed only; see Observed below

vars == <<account, row, request, job, desk, seen>>

-----------------------------------------------------------------------------
Idle == [pc |-> "idle", e |-> NoEmail, a |-> 0, r |-> 0, d |-> 0, was |-> "none",
         byDesk |-> FALSE, targets |-> {}, turn |-> 0, epoch |-> 0, spared |-> FALSE]

(* What no column holds.  keys: customers created; asked: requests begun;  *)
(* runs[e]: erasures done for e.  In a row, epoch: erasures done when the  *)
(* call that wrote it began; spared: one was under way during the call, or *)
(* the row lost its customer before; turn: requests begun when the order   *)
(* was last opened.  In a request, turn: its number; erased: its erasure   *)
(* is done; raced: two calls on it overlapped; took:                       *)
(* open orders it erased that were open when it was asked.                 *)
Observed == [keys |-> 0, asked |-> 0, runs |-> [e \in Emails |-> 0]]

Init ==
    /\ account = [e \in Emails |-> 0]
    /\ row = <<>> /\ request = <<>>
    /\ job = [w \in Workers |-> Idle]
    /\ desk = 0
    /\ seen = Observed

Erasing(e) == \E v \in Workers : job[v].e = e /\ job[v].pc \in
                 {"orders", "invoices", "returns", "reviews", "chat", "misc", "erase"}
Free(w)    == job[w].pc = "idle"
Finish(w)  == job' = [job EXCEPT ![w] = Idle]
Start(w, pc, e) == [Idle EXCEPT !.pc = pc, !.e = e, !.a = account[e],
                                !.epoch = seen.runs[e], !.spared = Erasing(e)]
Desk       == desk < MaxDesk /\ desk' = desk + 1

Fresh(j, kind, cust) ==
    [kind |-> kind, e |-> j.e, cust |-> cust, st |-> "personal", open |-> kind = "order",
     turn |-> seen.asked, epoch |-> j.epoch, spared |-> j.spared]

-----------------------------------------------------------------------------
(* Calls that write a customer's data.                                     *)

(* create_order: finds the customer by e-mail, or makes one.               *)
PlaceOrder(w, e) ==
    /\ Free(w) /\ Len(row) < MaxRows
    /\ job' = [job EXCEPT ![w] = Start(w, "order", e)]
    /\ UNCHANGED <<account, row, request, desk, seen>>

(* A customer that is gone fails the foreign key, one that has come the    *)
(* unique e-mail.                                                          *)
CommitOrder(w) ==
    LET j == job[w]  a == IF j.a = 0 THEN seen.keys + 1 ELSE j.a IN
    /\ j.pc = "order" /\ Len(row) < MaxRows
    /\ IF account[j.e] # j.a THEN UNCHANGED <<account, row, seen>>
       ELSE /\ account' = [account EXCEPT ![j.e] = a]
            /\ seen' = IF j.a = 0 THEN [seen EXCEPT !.keys = a] ELSE seen
            /\ row' = Append(row, Fresh(j, "order", a))
    /\ Finish(w)
    /\ UNCHANGED <<request, desk>>

(* issue_invoice and create_return_request copy e-mail and name from the   *)
(* order they have read.                                                   *)
Copy(w, d, kind) ==
    /\ Free(w) /\ Len(row) < MaxRows /\ row[d].kind = "order" /\ row[d].st = "personal"
    /\ job' = [job EXCEPT ![w] = [Start(w, kind, row[d].e) EXCEPT !.d = d]]
    /\ UNCHANGED <<account, row, request, desk, seen>>

IssueInvoice(w, d) == Copy(w, d, "invoice")
OpenReturn(w, d)   == ~ row[d].open /\ Copy(w, d, "return")

CommitCopy(w) ==
    /\ job[w].pc \in {"invoice", "return"} /\ Len(row) < MaxRows
    /\ row' = Append(row, Fresh(job[w], job[w].pc, 0))
    /\ Finish(w)
    /\ UNCHANGED <<account, request, desk, seen>>

(* One insert: nothing is read before that matters here.                   *)
Write(e, kind, cust) ==
    /\ Len(row) < MaxRows
    /\ row' = Append(row, Fresh([e |-> e, epoch |-> seen.runs[e], spared |-> Erasing(e)], kind, cust))
    /\ UNCHANGED <<account, request, job, desk, seen>>

WriteReview(e) == Write(e, "review", 0)
Subscribe(e)   == Write(e, "subscription", 0)
OpenChat(e)    == account[e] # 0 /\ Write(e, "chat", account[e])

(* update_status: from any status to any other.                            *)
SetOpen(d, on) ==
    /\ Desk /\ row[d].kind = "order" /\ row[d].open # on
    /\ row' = [row EXCEPT ![d].open = on, ![d].turn = IF on THEN seen.asked ELSE @]
    /\ UNCHANGED <<account, request, job, seen>>

(* ON DELETE SET NULL in orders, chats and requests.                       *)
Unlink(rows, a) == [d \in DOMAIN rows |-> IF rows[d].cust = a THEN [rows[d] EXCEPT !.cust = 0] ELSE rows[d]]
Forget(reqs, a) == [r \in DOMAIN reqs |-> IF reqs[r].cust = a THEN [reqs[r] EXCEPT !.cust = 0] ELSE reqs[r]]

(* delete_customer: orders, chats and reviews stay as they are.            *)
DeleteCustomer(e) ==
    /\ Desk /\ account[e] # 0
    /\ account' = [account EXCEPT ![e] = 0]
    /\ row' = Unlink([d \in DOMAIN row |->
                         IF row[d].kind = "chat" /\ row[d].cust = account[e]
                         THEN [row[d] EXCEPT !.spared = TRUE] ELSE row[d]], account[e])
    /\ request' = Forget(request, account[e])
    /\ UNCHANGED <<job, seen>>

-----------------------------------------------------------------------------
(* Requests.                                                               *)

(* Faulty variant of NoneOpen: looks at the last order only.               *)
NoneOpenLast(e) == row = <<>> \/ row[Len(row)].e # e \/ ~ row[Len(row)].open

NoneOpen(e) ==
    \A d \in DOMAIN row :
        row[d].kind = "order" /\ row[d].st = "personal" /\ (row[d].e = e \/ row[d].cust = account[e])
            => ~ row[d].open

Ask(w, e) ==
    /\ Free(w) /\ account[e] # 0 /\ NoneOpen(e) /\ seen.asked < MaxRequests
    /\ seen' = [seen EXCEPT !.asked = @ + 1]
    /\ job' = [job EXCEPT ![w] = [Start(w, "ask", e) EXCEPT !.turn = seen.asked + 1]]
    /\ UNCHANGED <<account, row, request, desk>>

CommitAsk(w) ==
    LET j == job[w] IN
    /\ j.pc = "ask"
    /\ request' = IF account[j.e] # j.a THEN request
                  ELSE Append(request, [cust |-> j.a, e |-> j.e, st |-> "pending", link |-> TRUE,
                                        turn |-> j.turn, erased |-> FALSE, raced |-> FALSE, took |-> {}])
    /\ Finish(w)
    /\ UNCHANGED <<account, row, desk, seen>>

(* The request is read without a lock; was: the status read.               *)
Take(w, r, pc, byDesk) ==
    /\ Free(w)
    /\ job' = [job EXCEPT ![w] = [Start(w, pc, request[r].e) EXCEPT
                                     !.r = r, !.was = request[r].st, !.byDesk = byDesk]]
    /\ request' = [request EXCEPT ![r].raced = @ \/ \E v \in Workers : job[v].r = r]
    /\ UNCHANGED <<account, row, desk, seen>>

Confirm(w, r) == request[r].link /\ request[r].st = "pending" /\ Take(w, r, "confirm", FALSE)
Run(w, r)     == request[r].st # "completed" /\ Take(w, r, "confirm", TRUE)

(* Faulty variant of MayCancel: a completed request is cancelled as well.  *)
MayCancelAny(r) == request[r].st # "cancelled"

MayCancel(r) == request[r].st # "completed"

Cancel(w, r)  == MayCancel(r) /\ Take(w, r, "cancel", TRUE)

(* A commit writes the status only if it changed the one it had read.      *)
Settle(w, st) ==
    request' = [request EXCEPT ![job[w].r].st = IF job[w].was = st THEN @ ELSE st, ![job[w].r].link = FALSE]

CommitCancel(w) ==
    /\ job[w].pc = "cancel"
    /\ Settle(w, "cancelled") /\ Finish(w)
    /\ UNCHANGED <<account, row, desk, seen>>

CommitConfirm(w) ==
    /\ job[w].pc = "confirm"
    /\ Settle(w, "confirmed") /\ job' = [job EXCEPT ![w].pc = "lookup"]
    /\ UNCHANGED <<account, row, desk, seen>>

-----------------------------------------------------------------------------
(* run_deletion.                                                           *)

(* The customer is looked up by key and, without one, by e-mail.           *)
Lookup(w) ==
    LET e == job[w].e IN
    /\ job[w].pc = "lookup" /\ account[e] # 0
    /\ job' = [v \in Workers |->
                  IF v = w THEN [job[w] EXCEPT !.pc = "orders", !.a = account[e]]
                  ELSE IF job[v].e = e THEN [job[v] EXCEPT !.spared = TRUE] ELSE job[v]]
    /\ UNCHANGED <<account, row, request, desk, seen>>

(* The customer is gone: the orders with the e-mail are masked, and        *)
(* nothing else.                                                           *)
EraseGone(w) ==
    LET e == job[w].e IN
    /\ job[w].pc = "lookup" /\ account[e] = 0
    /\ row' = [d \in DOMAIN row |-> IF row[d].kind = "order" /\ row[d].e = e
                                    THEN [row[d] EXCEPT !.st = "masked", !.cust = 0] ELSE row[d]]
    /\ request' = [request EXCEPT ![job[w].r].st = "completed", ![job[w].r].erased = TRUE]
    /\ Finish(w)
    /\ UNCHANGED <<account, desk, seen>>

(* One statement: pc and next are the stages before and after it.          *)
Select(w, pc, next, rows) ==
    /\ job[w].pc = pc
    /\ job' = [job EXCEPT ![w].pc = next, ![w].targets = @ \cup rows]
    /\ UNCHANGED <<account, row, request, desk, seen>>

OfEmail(w, kind) == {d \in DOMAIN row : row[d].kind = kind /\ row[d].st = "personal" /\ row[d].e = job[w].e}
OfKey(w, kind)   == {d \in DOMAIN row : row[d].kind = kind /\ row[d].st = "personal" /\ row[d].cust = job[w].a}

AnonymizeOrders(w)   == Select(w, "orders", "invoices", OfEmail(w, "order") \cup OfKey(w, "order"))

(* Faulty variant of AnonymizeInvoices: finds invoices by the customer's   *)
(* key, which they do not have.                                            *)
AnonymizeByKey(w)    == Select(w, "invoices", "returns", OfKey(w, "invoice"))

AnonymizeInvoices(w) == Select(w, "invoices", "returns", OfEmail(w, "invoice"))
AnonymizeReturns(w)  == Select(w, "returns", "reviews", OfEmail(w, "return"))
AnonymizeReviews(w)  == Select(w, "reviews", "chat", OfEmail(w, "review"))
DeleteChat(w)        == Select(w, "chat", "misc", OfKey(w, "chat"))
DeleteMisc(w)        == Select(w, "misc", "erase", OfEmail(w, "subscription"))

(* What the tax law keeps is masked, the rest is deleted.                  *)
Retained == {"order", "invoice", "return"}

(* What a row may be written with: name, e-mail, phone and address; tax    *)
(* number and company, as the checkout asks for them; the buyer's note.    *)
Written(kind) ==
    {"contact"} \cup {x \in {"billing"} : kind \in {"order", "invoice"}}
                \cup {x \in {"note"} : kind \in {"order", "return"}}

(* What a mask leaves of it.                                               *)
Stays(kind) ==
    {x \in {"billing"} : kind \in {"order", "invoice"}} \cup {x \in {"note"} : kind = "order"}

Holds(d) ==
    CASE row[d].st = "personal" -> Written(row[d].kind)
      [] row[d].st = "masked"   -> Stays(row[d].kind)
      [] OTHER                  -> {}

Erase(w) ==
    LET j == job[w]
        early == {d \in j.targets : row[d].kind = "order" /\ row[d].open /\ row[d].turn < request[j.r].turn}
    IN  /\ j.pc = "erase"
        /\ account' = [account EXCEPT ![j.e] = IF @ = j.a THEN 0 ELSE @]
        /\ row' = Unlink([d \in DOMAIN row |->
                             IF d \notin j.targets THEN row[d]
                             ELSE [row[d] EXCEPT !.st = IF row[d].kind \in Retained
                                                        THEN "masked" ELSE "gone", !.cust = 0]], j.a)
        /\ request' = [Forget(request, j.a) EXCEPT
                          ![j.r].st = "completed", ![j.r].cust = 0, ![j.r].erased = TRUE,
                          ![j.r].took = IF j.byDesk THEN @ ELSE @ \cup early]
        /\ seen' = [seen EXCEPT !.runs[j.e] = @ + 1]
        /\ Finish(w)
        /\ UNCHANGED desk

(* The process dies or the database refuses: rolled back.  The commit by   *)
(* which a failed run reports is refused too.                              *)
Fail(w) ==
    /\ job[w].pc # "idle"
    /\ Finish(w)
    /\ UNCHANGED <<account, row, request, desk, seen>>

-----------------------------------------------------------------------------
Next ==
    \/ \E w \in Workers :
          \/ \E e \in Emails : PlaceOrder(w, e) \/ Ask(w, e)
          \/ \E d \in DOMAIN row : IssueInvoice(w, d) \/ OpenReturn(w, d)
          \/ \E r \in DOMAIN request : Confirm(w, r) \/ Run(w, r) \/ Cancel(w, r)
          \/ CommitOrder(w) \/ CommitCopy(w) \/ CommitAsk(w) \/ CommitCancel(w) \/ CommitConfirm(w)
          \/ Lookup(w) \/ EraseGone(w) \/ AnonymizeOrders(w) \/ AnonymizeInvoices(w)
          \/ AnonymizeReturns(w) \/ AnonymizeReviews(w) \/ DeleteChat(w) \/ DeleteMisc(w) \/ Erase(w) \/ Fail(w)
    \/ \E e \in Emails : WriteReview(e) \/ Subscribe(e) \/ OpenChat(e) \/ DeleteCustomer(e)
    \/ \E d \in DOMAIN row, on \in BOOLEAN : SetOpen(d, on)

Spec == Init /\ [][Next]_vars

(* Faulty variant of Exported: the orders with the member's key only.      *)
ExportedByKey(e) ==
    {d \in DOMAIN row : /\ row[d].st = "personal"
                        /\ IF row[d].kind \in {"chat", "order"} THEN row[d].cust = account[e] ELSE row[d].e = e}

(* collect_customer_data: what the export of a member's data shows.        *)
Exported(e) ==
    {d \in DOMAIN row :
        /\ row[d].st = "personal"
        /\ \/ row[d].kind # "chat" /\ row[d].e = e
           \/ row[d].kind \in {"order", "chat"} /\ row[d].cust = account[e]}

-----------------------------------------------------------------------------
(* Properties.                                                             *)

(* After an erasure no row that was there before it, with the e-mail as    *)
(* the account spells it, holds a name, an e-mail, a phone or an address,  *)
(* in any of the tables the erasure goes through; a masked order keeps the *)
(* tax number, the company and the note, a masked invoice the first two,   *)
(* and no other row anything.  Excepted are rows of calls that overlapped  *)
(* with the erasure, and chats of a customer an administrator had deleted  *)
(* before (privacy.py:10-18, 223-326).                                     *)
NothingLeft ==
    \A d \in DOMAIN row :
        row[d].epoch < seen.runs[row[d].e] /\ ~ row[d].spared => Holds(d) \subseteq Stays(row[d].kind)

(* An erasure that the customer confirms takes no order that was open when *)
(* it was asked for (customer_auth.py:613-615); later ones it does.        *)
OpenOnlyIfLater == \A r \in DOMAIN request : request[r].took = {}

(* A request that says cancelled has erased nothing, unless two of the     *)
(* calls that move it on overlapped (routers/privacy.py:166).              *)
CancelledMeansKept ==
    \A r \in DOMAIN request : request[r].st = "cancelled" /\ request[r].erased => request[r].raced

(* A member's export shows every row that holds her e-mail, also those     *)
(* from before an account was deleted and opened anew, except the chats    *)
(* that NothingLeft excepts (privacy.py:74-135).                           *)
ExportComplete ==
    \A e \in Emails, d \in DOMAIN row :
        account[e] # 0 /\ row[d].e = e /\ row[d].st = "personal" => d \in Exported(e) \/ row[d].spared
=============================================================================
