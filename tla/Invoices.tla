------------------------------ MODULE Invoices ------------------------------
(***************************************************************************)
(* E-invoices: routers/invoices.py and the number counter of               *)
(* services/einvoice.py.                                                   *)
(*                                                                         *)
(* An invoice is issued in one transaction that asks whether the order has *)
(* an invoice, reads the counter without a lock, writes it (from then on   *)
(* the counter's row is locked), inserts the invoice, waits for the        *)
(* integrator's answer and commits.  Automatic issue after a payment and   *)
(* manual issue by an administrator only differ in what they do about an   *)
(* error.  A year has its own counter; this is one year.                   *)
(***************************************************************************)
EXTENDS Integers, Sequences, FiniteSets

CONSTANTS
    Orders,        \* paid orders
    Workers,       \* concurrent HTTP calls
    Deletable,     \* orders an administrator may delete
    MaxCalls,      \* bound: calls that issue or cancel
    MaxCrash,      \* bound: calls cut short by a crash or a lost connection
    NoOrder, NoWorker

ASSUME InvoicesAssumption ==
    /\ NoOrder \notin Orders
    /\ NoWorker \notin Workers
    /\ Deletable \subseteq Orders
    /\ MaxCalls \in Nat /\ MaxCrash \in Nat

VARIABLES
    provider,  \* EINVOICE_PROVIDER, fixed when the process starts
    live,      \* orders whose row exists
    counter,   \* seq of the year's row of invoice_counters, 0 while there is none
    holder,    \* the worker that holds the row lock of the counter
    invoices,  \* committed rows of table invoices
    docs,      \* documents the integrator has filed; their index is the ETTN
    job,       \* job[w]: what worker w is doing
    spent      \* how much of each bound is used up, and answers that were lost

vars == <<provider, live, counter, holder, invoices, docs, job, spent>>

Idle == [pc |-> "idle", o |-> NoOrder, no |-> 0, ettn |-> 0, status |-> "none"]

Init ==
    /\ provider \in {"mock", "foriba"}
    /\ live = Orders
    /\ counter = 0
    /\ holder = NoWorker
    /\ invoices = {}
    /\ docs = <<>>
    /\ job = [w \in Workers |-> Idle]
    /\ spent = [calls |-> 0, crash |-> 0, lost |-> 0]

Numbers    == {i.no : i \in invoices}
Sent(o)    == {i \in invoices : i.o = o /\ i.status = "sent"}
Finish(w)  == job' = [job EXCEPT ![w] = Idle]
Spend(b)   == spent' = [spent EXCEPT ![b] = @ + 1]
Release(w) == holder' = IF holder = w THEN NoWorker ELSE holder

-----------------------------------------------------------------------------
(* POST /orders/{order_no}/issue and maybe_auto_issue_invoice.             *)

(* The order exists and no sent invoice is found.  Rows in status pending  *)
(* are never committed, so both calls look for the same rows.              *)
Check(w, o) ==
    /\ job[w].pc = "idle"
    /\ spent.calls < MaxCalls
    /\ Spend("calls")
    /\ o \in live
    /\ Sent(o) = {}
    /\ job' = [job EXCEPT ![w].pc = "read", ![w].o = o]
    /\ UNCHANGED <<provider, live, counter, holder, invoices, docs>>

ReadCounter(w) ==
    /\ job[w].pc = "read"
    /\ job' = [job EXCEPT ![w].pc = "draw", ![w].no = counter]
    /\ UNCHANGED <<provider, live, counter, holder, invoices, docs, spent>>

(* The counter is written, or inserted if no row was read: both wait for   *)
(* the transaction that wrote it before.                                   *)
LockFree == holder = NoWorker

(* The constraints the two inserts meet: one counter row per year, unique  *)
(* invoice_no, and the order must still exist.                             *)
Insertable(j) ==
    /\ j.no = 0 => counter = 0
    /\ j.no + 1 \notin Numbers
    /\ j.o \in live

DrawNumber(w) ==
    /\ job[w].pc = "draw"
    /\ LockFree
    /\ Insertable(job[w])
    /\ holder' = w
    /\ job' = [job EXCEPT ![w].pc = "send", ![w].no = @ + 1]
    /\ UNCHANGED <<provider, live, counter, invoices, docs, spent>>

(* IntegrityError: rolled back; the automatic issue only logs it.          *)
DrawRefused(w) ==
    /\ job[w].pc = "draw"
    /\ LockFree
    /\ ~ Insertable(job[w])
    /\ Finish(w)
    /\ UNCHANGED <<provider, live, counter, holder, invoices, docs, spent>>

(* provider.create: the integrator files the document and answers.         *)
Filed(w) == docs' = Append(docs, [o |-> job[w].o, no |-> job[w].no, active |-> TRUE])

Answered(w, status, ettn) ==
    job' = [job EXCEPT ![w] = [@ EXCEPT !.pc = "commit", !.status = status, !.ettn = ettn]]

Accepted(w) ==
    /\ job[w].pc = "send"
    /\ Filed(w)
    /\ Answered(w, "sent", Len(docs) + 1)
    /\ UNCHANGED <<provider, live, counter, holder, invoices, spent>>

Rejected(w) ==
    /\ job[w].pc = "send"
    /\ provider = "foriba"
    /\ Answered(w, "failed", 0)
    /\ UNCHANGED <<provider, live, counter, holder, invoices, docs, spent>>

(* The document is filed but the answer times out or cannot be read: the   *)
(* adapter reports an error like any other.                                *)
AnswerLost(w) ==
    /\ job[w].pc = "send"
    /\ provider = "foriba"
    /\ Filed(w)
    /\ Answered(w, "failed", 0)
    /\ Spend("lost")
    /\ UNCHANGED <<provider, live, counter, holder, invoices>>

Row(j) == [no |-> j.no, o |-> j.o, status |-> j.status, ettn |-> j.ettn]

(* Faulty variant of Recorded: an invoice that failed is not kept.         *)
RecordedIfSent(j) == IF j.status = "sent" THEN {Row(j)} ELSE {}

(* Every answer is recorded, a failure as well.                            *)
Recorded(j) == {Row(j)}

CommitIssue(w) ==
    /\ job[w].pc = "commit"
    /\ invoices' = invoices \cup Recorded(job[w])
    /\ counter' = job[w].no
    /\ Release(w)
    /\ Finish(w)
    /\ UNCHANGED <<provider, live, docs, spent>>

-----------------------------------------------------------------------------
(* POST /{invoice_id}/cancel.  Foriba's cancel is a placeholder that       *)
(* refuses, which ends the call.                                           *)

CheckSent(w, i) ==
    /\ job[w].pc = "idle"
    /\ provider = "mock"
    /\ spent.calls < MaxCalls
    /\ Spend("calls")
    /\ i.status = "sent"
    /\ job' = [job EXCEPT ![w] =
                  [@ EXCEPT !.pc = "cancel", !.o = i.o, !.no = i.no, !.ettn = i.ettn]]
    /\ UNCHANGED <<provider, live, counter, holder, invoices, docs>>

(* Faulty variants of Withdrawn: the integrator's answer is not awaited;   *)
(* the documents are named by the order.                                   *)
WithdrawnNot(e) == docs' = docs
WithdrawnOrder(e) ==
    docs' = [d \in DOMAIN docs |->
                [docs[d] EXCEPT !.active = @ /\ docs[d].o # docs[e].o]]

Withdrawn(e) == docs' = [docs EXCEPT ![e].active = FALSE]

CancelDoc(w) ==
    /\ job[w].pc = "cancel"
    /\ Withdrawn(job[w].ettn)
    /\ job' = [job EXCEPT ![w].pc = "cancelled"]
    /\ UNCHANGED <<provider, live, counter, holder, invoices, spent>>

(* The row was deleted meanwhile: the UPDATE matches nothing and raises.   *)
CommitCancel(w) ==
    /\ job[w].pc = "cancelled"
    /\ invoices' = {IF i.ettn = job[w].ettn THEN [i EXCEPT !.status = "cancelled"] ELSE i :
                        i \in invoices}
    /\ Finish(w)
    /\ UNCHANGED <<provider, live, counter, holder, docs, spent>>

-----------------------------------------------------------------------------
(* DELETE /orders/{order_no}: the invoices go with the order.  An inserted *)
(* invoice keeps its order's key locked until it is committed.             *)
Inserting(o) == \E w \in Workers : job[w].pc \in {"send", "commit"} /\ job[w].o = o

DeleteOrder(o) ==
    /\ o \in live \cap Deletable
    /\ ~ Inserting(o)
    /\ live' = live \ {o}
    /\ invoices' = {i \in invoices : i.o # o}
    /\ UNCHANGED <<provider, counter, holder, docs, job, spent>>

Crash(w) ==
    /\ job[w].pc # "idle"
    /\ spent.crash < MaxCrash
    /\ Spend("crash")
    /\ Release(w)
    /\ Finish(w)
    /\ UNCHANGED <<provider, live, counter, invoices, docs>>

Issue(w) ==
    \/ \E o \in Orders : Check(w, o)
    \/ ReadCounter(w) \/ DrawNumber(w) \/ DrawRefused(w)
    \/ Accepted(w) \/ Rejected(w) \/ AnswerLost(w) \/ CommitIssue(w)

Cancel(w) == (\E i \in invoices : CheckSent(w, i)) \/ CancelDoc(w) \/ CommitCancel(w)

Next ==
    \/ \E w \in Workers : Issue(w) \/ Cancel(w) \/ Crash(w)
    \/ \E o \in Orders : DeleteOrder(o)

Spec == Init /\ [][Next]_vars

-----------------------------------------------------------------------------
(* Properties.                                                             *)

InvoiceType == [no : Nat \ {0}, o : Orders, status : {"sent", "failed", "cancelled"}, ettn : Nat]
DocType     == [o : Orders, no : Nat \ {0}, active : BOOLEAN]
JobFields   == [pc     : {"idle", "read", "draw", "send", "commit", "cancel", "cancelled"},
                o      : Orders \cup {NoOrder},
                no     : Nat,
                ettn   : Nat,
                status : {"sent", "failed", "none"}]
JobType     == {j \in JobFields : /\ j.pc # "idle" => j.o \in Orders
                                  /\ j.pc \in {"send", "commit"} => j.no > 0
                                  /\ j.pc = "commit" => j.status # "none"}

(* Type invariant: an invoice is committed only with an answer, so its     *)
(* status is never pending (routers/invoices.py:181-231).                  *)
TypeOK ==
    /\ provider \in {"mock", "foriba"}
    /\ live \subseteq Orders
    /\ counter \in Nat
    /\ holder \in Workers \cup {NoWorker}
    /\ invoices \subseteq InvoiceType
    /\ docs \in Seq(DocType)
    /\ job \in [Workers -> JobType]
    /\ spent \in [calls : Nat, crash : Nat, lost : Nat]

(* A number is given to one invoice only, however issues overlap and crash *)
(* and although the counter is read without a lock, and even after a       *)
(* deleted order freed its number (einvoice.py:220-232, models.py:613).    *)
NumberedOnce == \A i, j \in invoices : i.no = j.no => i = j

(* As long as no order is deleted the numbers are the counter's prefix     *)
(* without a gap, failures included: the counter and the invoice are       *)
(* committed together, and a stale counter value is rolled back with the   *)
(* invoice that meets the unique constraint.                               *)
Gapless == live = Orders => Numbers = 1..counter

(* What the shop shows agrees with the integrator: an invoice that is sent *)
(* has a document of its own with the same number and order, and the       *)
(* document of one that is cancelled was cancelled before.                 *)
ShopAgrees ==
    /\ \A i \in invoices :
        /\ i.status # "failed" =>
            /\ i.ettn \in DOMAIN docs
            /\ docs[i.ettn].no = i.no /\ docs[i.ettn].o = i.o
        /\ i.status = "cancelled" => ~ docs[i.ettn].active
    /\ \A i, j \in invoices : i.ettn = j.ettn /\ i.ettn # 0 => i = j

(* A valid document the shop does not know of is the trace of a crash or   *)
(* of a lost answer, one each: neither overlapping calls nor repeated      *)
(* issues nor cancellations leave one behind.                              *)
Known(d) ==
    \/ \E i \in invoices : i.ettn = d /\ i.status = "sent"
    \/ \E w \in Workers : job[w].pc = "commit" /\ job[w].ettn = d
Orphans == {d \in DOMAIN docs : docs[d].active /\ docs[d].o \in live /\ ~ Known(d)}
OrphansExplained == Cardinality(Orphans) <= spent.crash + spent.lost

(* The other way round: a cancelled document whose invoice the shop counts *)
(* as sent waits for the commit of a cancellation, or a crash lost that    *)
(* commit, one each (routers/invoices.py:392-407).                         *)
Cancelling(d) == \E w \in Workers : job[w].pc = "cancelled" /\ job[w].ettn = d
Believed(d)   == \E i \in invoices : i.ettn = d /\ i.status = "sent"
Strayed == {d \in DOMAIN docs : ~ docs[d].active /\ Believed(d) /\ ~ Cancelling(d)}
StrayedExplained == Cardinality(Strayed) <= spent.crash

(* Why they hold.  Whoever has drawn a number holds the counter's row, and *)
(* the number is the next one; an older reading is at most the counter.    *)
NumberHeld ==
    \A w \in Workers : job[w].pc \in {"send", "commit"} =>
        holder = w /\ job[w].no \notin Numbers
NumberNext ==
    live = Orders => \A w \in Workers :
        /\ job[w].pc = "draw" => job[w].no <= counter
        /\ job[w].pc \in {"send", "commit"} => job[w].no = counter + 1
RegisterInv == NumberHeld /\ NumberNext /\ NumberedOnce /\ Gapless

(* A call that is about to commit has a document of its own, or none; one  *)
(* that is about to cancel knows an existing document.                     *)
Answers(j) ==
    /\ j.status = "failed" => j.ettn = 0
    /\ j.status = "sent" =>
        /\ j.ettn \in DOMAIN docs
        /\ docs[j.ettn].no = j.no /\ docs[j.ettn].o = j.o
        /\ \A i \in invoices : i.ettn # j.ettn
Cancels(j) ==
    /\ j.ettn \in DOMAIN docs
    /\ j.pc = "cancelled" => ~ docs[j.ettn].active
DocsOwned ==
    /\ \A w \in Workers : job[w].pc = "commit" => Answers(job[w])
    /\ \A w \in Workers : job[w].pc \in {"cancel", "cancelled"} => Cancels(job[w])
    /\ \A i \in invoices : i.status = "failed" => i.ettn = 0
ShopInv == RegisterInv /\ DocsOwned /\ ShopAgrees

(* A document is not cancelled before its invoice is committed.            *)
NotYetCancelled ==
    \A v \in Workers : job[v].pc = "commit" /\ job[v].status = "sent" =>
        /\ docs[job[v].ettn].active
        /\ \A w \in Workers : job[w].pc \in {"cancel", "cancelled"} => job[w].ettn # job[v].ettn

(* Issue is idempotent, an order with an active invoice gets no other      *)
(* (routers/invoices.py:267 and 310).  The code does not keep this.        *)
InvoicedOnce == \A o \in Orders : Cardinality(Sent(o)) <= 1
=============================================================================
