--------------------------- MODULE Invoices_proofs ---------------------------
(***************************************************************************)
(* Proofs about Invoices, for any orders, workers, bounds and deletions.   *)
(***************************************************************************)
EXTENDS Invoices, SequenceTheorems, FiniteSetTheorems, TLAPS

-----------------------------------------------------------------------------
(* Facts about the operators.                                              *)

(* Filing a document keeps the earlier ones and their numbers.             *)
LEMMA FiledDoc ==
    ASSUME TypeOK, NEW w \in Workers, job[w].pc = "send", Filed(w)
    PROVE  /\ docs' \in Seq(DocType)
           /\ DOMAIN docs' = 1..(Len(docs) + 1)
           /\ \A e \in DOMAIN docs : docs'[e] = docs[e]
           /\ docs'[Len(docs) + 1] = [o |-> job[w].o, no |-> job[w].no, active |-> TRUE]
           /\ Len(docs) \in Nat /\ DOMAIN docs = 1..Len(docs)
<1> DEFINE d == [o |-> job[w].o, no |-> job[w].no, active |-> TRUE]
<1>1. job[w] \in JobType
  BY DEF TypeOK
<1>2. d \in DocType
  BY <1>1 DEF JobType, JobFields, DocType
<1>3. docs \in Seq(DocType) /\ docs' = Append(docs, d)
  BY DEF TypeOK, Filed
<1> QED BY <1>2, <1>3, AppendProperties, LenProperties

(* Cancelling a document changes nothing but its validity.                 *)
LEMMA WithdrawnDoc ==
    ASSUME TypeOK, NEW e \in Nat, Withdrawn(e)
    PROVE  /\ docs' \in Seq(DocType)
           /\ DOMAIN docs' = DOMAIN docs
           /\ \A f \in DOMAIN docs : /\ docs'[f].no = docs[f].no
                                     /\ docs'[f].o = docs[f].o
                                     /\ ~ docs[f].active => ~ docs'[f].active
           /\ e \in DOMAIN docs => ~ docs'[e].active
<1>1. docs \in Seq(DocType)
  BY DEF TypeOK
<1>2. DOMAIN docs = 1..Len(docs) /\ Len(docs) \in Nat
  BY <1>1, LenProperties
<1>3. docs' = [docs EXCEPT ![e].active = FALSE]
  BY DEF Withdrawn
<1>4. docs \in [1..Len(docs) -> DocType]
  BY <1>1, <1>2, SeqDef
<1>5. docs' \in [1..Len(docs) -> DocType]
  BY <1>3, <1>4 DEF DocType
<1>6. docs' \in Seq(DocType)
  BY <1>2, <1>5, SeqDef
<1> QED BY <1>2, <1>3, <1>4, <1>5, <1>6 DEF DocType

(* A call that has its answer is well typed.                               *)
LEMMA AnsweredType ==
    ASSUME TypeOK, NEW w \in Workers, job[w].pc = "send",
           NEW s \in {"sent", "failed"}, NEW e \in Nat, Answered(w, s, e)
    PROVE  job' \in [Workers -> JobType]
<1>1. job[w] \in JobFields /\ job[w].o \in Orders /\ job[w].no > 0
  BY DEF TypeOK, JobType
<1>2. [job[w] EXCEPT !.pc = "commit", !.status = s, !.ettn = e] \in JobType
  BY <1>1 DEF JobType, JobFields
<1> QED BY <1>2 DEF TypeOK, Answered

-----------------------------------------------------------------------------
(* Type correctness.                                                       *)

(* The types hold at the start.                                            *)
LEMMA InitType == Init => TypeOK
BY InvoicesAssumption, EmptySeq DEF Init, TypeOK, Idle, JobType, JobFields

(* What the steps of a call make of its record is a record again.          *)
LEMMA ReadType ==
    ASSUME NEW j \in JobType, NEW o \in Orders
    PROVE  [j EXCEPT !.pc = "read", !.o = o] \in JobType
BY DEF JobType, JobFields

LEMMA DrawType ==
    ASSUME NEW j \in JobType, j.pc = "read", NEW n \in Nat
    PROVE  [j EXCEPT !.pc = "draw", !.no = n] \in JobType
BY DEF JobType, JobFields

LEMMA DrawnType ==
    ASSUME NEW j \in JobType, j.pc = "draw", NEW n \in Nat, n > 0
    PROVE  [j EXCEPT !.pc = "send", !.no = n] \in JobType
<1> DEFINE k == [j EXCEPT !.pc = "send", !.no = n]
<1>1. j \in JobFields /\ j.o \in Orders
  BY DEF JobType
<1>2. k \in JobFields
  BY <1>1 DEF JobFields
<1>3. k.pc = "send" /\ k.o \in Orders /\ k.no > 0
  BY <1>1 DEF JobFields
<1> HIDE DEF k
<1>4. k \in JobType
  BY <1>2, <1>3 DEF JobType
<1> QED
  BY <1>4 DEF k

LEMMA WithdrawnType ==
    ASSUME NEW j \in JobType, j.pc = "cancel"
    PROVE  [j EXCEPT !.pc = "cancelled"] \in JobType
BY DEF JobType, JobFields

(* Every step keeps them.                                                  *)
LEMMA NextType == TypeOK /\ [Next]_vars => TypeOK'
<1> SUFFICES ASSUME TypeOK, [Next]_vars PROVE TypeOK'
  OBVIOUS
<1> USE DEF TypeOK
<1>0. Idle \in JobType
  BY DEF Idle, JobType, JobFields
<1>1. CASE UNCHANGED vars
  BY <1>1 DEF vars
<1>2. ASSUME NEW w \in Workers, NEW o \in Orders, Check(w, o) PROVE TypeOK'
  <2>3. [job[w] EXCEPT !.pc = "read", !.o = o] \in JobType
    BY ReadType
  <2>4. job' = [job EXCEPT ![w] = [job[w] EXCEPT !.pc = "read", !.o = o]]
    BY <1>2 DEF Check
  <2>1. job' \in [Workers -> JobType]
    BY <2>3, <2>4
  <2>2. spent' \in [calls : Nat, crash : Nat, lost : Nat]
    BY <1>2 DEF Check, Spend
  <2> QED BY <1>2, <2>1, <2>2 DEF Check
<1>3. ASSUME NEW w \in Workers, ReadCounter(w) PROVE TypeOK'
  <2>1. [job[w] EXCEPT !.pc = "draw", !.no = counter] \in JobType
    BY <1>3, DrawType DEF ReadCounter
  <2>2. job' = [job EXCEPT ![w] = [job[w] EXCEPT !.pc = "draw", !.no = counter]]
    BY <1>3 DEF ReadCounter
  <2>3. job' \in [Workers -> JobType]
    BY <2>1, <2>2
  <2> QED BY <1>3, <2>3 DEF ReadCounter
<1>4. ASSUME NEW w \in Workers, DrawNumber(w) PROVE TypeOK'
  <2>1. [job[w] EXCEPT !.pc = "send", !.no = job[w].no + 1] \in JobType
    <3>1. job[w] \in JobType /\ job[w].pc = "draw"
      BY <1>4 DEF DrawNumber
    <3>2. job[w].no \in Nat
      BY <3>1 DEF JobType, JobFields
    <3>3. job[w].no + 1 \in Nat /\ job[w].no + 1 > 0
      BY <3>2
    <3> QED BY <3>1, <3>3, DrawnType
  <2>2. job' = [job EXCEPT ![w] = [job[w] EXCEPT !.pc = "send", !.no = job[w].no + 1]]
    BY <1>4 DEF DrawNumber
  <2>3. job' \in [Workers -> JobType]
    BY <2>1, <2>2
  <2> QED BY <1>4, <2>3 DEF DrawNumber
<1>5. ASSUME NEW w \in Workers, DrawRefused(w) PROVE TypeOK'
  BY <1>0, <1>5 DEF DrawRefused, Finish
<1>6. ASSUME NEW w \in Workers, Accepted(w) PROVE TypeOK'
  <2>1. docs' \in Seq(DocType) /\ Len(docs) \in Nat
    BY <1>6, FiledDoc DEF Accepted
  <2>2. job' \in [Workers -> JobType]
    BY <1>6, <2>1, AnsweredType DEF Accepted
  <2> QED BY <1>6, <2>1, <2>2 DEF Accepted
<1>7. ASSUME NEW w \in Workers, Rejected(w) PROVE TypeOK'
  BY <1>7, AnsweredType DEF Rejected
<1>8. ASSUME NEW w \in Workers, AnswerLost(w) PROVE TypeOK'
  <2>1. docs' \in Seq(DocType)
    BY <1>8, FiledDoc DEF AnswerLost
  <2>2. job' \in [Workers -> JobType]
    BY <1>8, AnsweredType DEF AnswerLost
  <2> QED BY <1>8, <2>1, <2>2 DEF AnswerLost, Spend
<1>9. ASSUME NEW w \in Workers, CommitIssue(w) PROVE TypeOK'
  <2>1. Recorded(job[w]) \subseteq InvoiceType
    BY <1>9 DEF CommitIssue, Recorded, Row, InvoiceType, JobType, JobFields
  <2>2. counter' \in Nat
    BY <1>9 DEF CommitIssue, JobType, JobFields
  <2> QED BY <1>0, <1>9, <2>1, <2>2 DEF CommitIssue, Release, Finish
<1>10. ASSUME NEW w \in Workers, NEW i \in invoices, CheckSent(w, i) PROVE TypeOK'
  <2>1. job' \in [Workers -> JobType]
    <3>1. job[w] \in JobFields /\ i \in InvoiceType
      BY DEF JobType
    <3>2. [job[w] EXCEPT !.pc = "cancel", !.o = i.o, !.no = i.no, !.ettn = i.ettn] \in JobType
      BY <3>1 DEF JobType, JobFields, InvoiceType
    <3> QED BY <1>10, <3>2 DEF CheckSent
  <2>2. spent' \in [calls : Nat, crash : Nat, lost : Nat]
    BY <1>10 DEF CheckSent, Spend
  <2> QED BY <1>10, <2>1, <2>2 DEF CheckSent
<1>11. ASSUME NEW w \in Workers, CancelDoc(w) PROVE TypeOK'
  <2>1. docs' \in Seq(DocType)
    BY <1>11, WithdrawnDoc DEF CancelDoc, JobType, JobFields
  <2>2. job' \in [Workers -> JobType]
    <3>2. [job[w] EXCEPT !.pc = "cancelled"] \in JobType
      BY <1>11, WithdrawnType DEF CancelDoc
    <3> QED BY <1>11, <3>2 DEF CancelDoc
  <2> QED BY <1>11, <2>1, <2>2 DEF CancelDoc
<1>12. ASSUME NEW w \in Workers, CommitCancel(w) PROVE TypeOK'
  <2>1. invoices' \subseteq InvoiceType
    BY <1>12 DEF CommitCancel, InvoiceType
  <2> QED BY <1>0, <1>12, <2>1 DEF CommitCancel, Finish
<1>13. ASSUME NEW w \in Workers, Crash(w) PROVE TypeOK'
  BY <1>0, <1>13 DEF Crash, Spend, Release, Finish
<1>14. ASSUME NEW o \in Orders, DeleteOrder(o) PROVE TypeOK'
  BY <1>14 DEF DeleteOrder
<1> QED BY <1>1, <1>2, <1>3, <1>4, <1>5, <1>6, <1>7, <1>8, <1>9, <1>10, <1>11,
           <1>12, <1>13, <1>14 DEF Next, Issue, Cancel

(* Types of all variables are kept (routers/invoices.py, einvoice.py).     *)
THEOREM TypesCorrect == Spec => []TypeOK
BY InitType, NextType, PTL DEF Spec

-----------------------------------------------------------------------------
(* The register of numbers.                                                *)

(* The register is in order at the start.                                  *)
LEMMA InitRegister == Init => RegisterInv
BY DEF Init, RegisterInv, NumberHeld, NumberNext, NumberedOnce, Gapless, Numbers, Idle

(* A step of one call that leaves the rows, the counter and the lock alone *)
(* and does not hold a number afterwards, unless it held it before.        *)
LEMMA RegisterFrame ==
    ASSUME TypeOK, RegisterInv, NEW w \in Workers, NEW j \in JobType,
           job' = [job EXCEPT ![w] = j],
           UNCHANGED <<live, counter, holder, invoices>>,
           j.pc \in {"send", "commit"} =>
               job[w].pc \in {"send", "commit"} /\ j.no = job[w].no,
           j.pc = "draw" => j.no <= counter
    PROVE  RegisterInv'
<1>1. Numbers' = Numbers /\ NumberedOnce' /\ Gapless'
  BY DEF RegisterInv, NumberedOnce, Gapless, Numbers
<1>2. \A v \in Workers : job'[v] = IF v = w THEN j ELSE job[v]
  BY DEF TypeOK
<1>3. NumberHeld'
  BY <1>1, <1>2 DEF RegisterInv, NumberHeld
<1>4. NumberNext'
  BY <1>2 DEF RegisterInv, NumberNext
<1> QED BY <1>1, <1>3, <1>4 DEF RegisterInv

(* Every step keeps it in order.                                           *)
LEMMA NextRegister == TypeOK /\ RegisterInv /\ [Next]_vars => RegisterInv'
<1> SUFFICES ASSUME TypeOK, RegisterInv, [Next]_vars PROVE RegisterInv'
  OBVIOUS
<1> USE DEF RegisterInv
<1>0. Idle \in JobType /\ Idle.pc = "idle" /\ job \in [Workers -> JobType]
  BY DEF TypeOK, Idle, JobType, JobFields
<1>type. TypeOK'
  BY NextType
<1>1. CASE UNCHANGED vars
  BY <1>1 DEF vars, NumberHeld, NumberNext, NumberedOnce, Gapless, Numbers
<1>2. ASSUME NEW w \in Workers, NEW o \in Orders, Check(w, o) PROVE RegisterInv'
  <2> DEFINE j == job'[w]
  <2>1. j \in JobType /\ j.pc = "read" /\ job' = [job EXCEPT ![w] = j]
    BY <1>0, <1>2, <1>type DEF Check, TypeOK, JobType, JobFields
  <2> QED BY <1>2, <2>1, RegisterFrame DEF Check
<1>3. ASSUME NEW w \in Workers, ReadCounter(w) PROVE RegisterInv'
  <2> DEFINE j == job'[w]
  <2>1. /\ j \in JobType /\ j.pc = "draw" /\ j.no = counter
        /\ job' = [job EXCEPT ![w] = j]
    BY <1>0, <1>3, <1>type DEF ReadCounter, TypeOK, JobType, JobFields
  <2>2. j.no <= counter
    BY <2>1 DEF TypeOK
  <2> QED BY <1>3, <2>1, <2>2, RegisterFrame DEF ReadCounter
<1>4. ASSUME NEW w \in Workers, DrawNumber(w) PROVE RegisterInv'
  <2>1. Numbers' = Numbers /\ NumberedOnce' /\ Gapless'
    BY <1>4 DEF DrawNumber, NumberedOnce, Gapless, Numbers
  <2>2. holder = NoWorker /\ holder' = w /\ job[w].no + 1 \notin Numbers
    BY <1>4 DEF DrawNumber, LockFree, Insertable
  <2>3. \A v \in Workers : job[v].pc \notin {"send", "commit"}
    BY <2>2, InvoicesAssumption DEF NumberHeld
  <2>4. /\ job'[w].pc = "send" /\ job'[w].no = job[w].no + 1
        /\ \A v \in Workers : v # w => job'[v] = job[v]
    BY <1>0, <1>4 DEF DrawNumber, JobType, JobFields
  <2>5. NumberHeld'
    BY <2>1, <2>2, <2>3, <2>4 DEF NumberHeld
  <2>6. live = Orders => job[w].no + 1 = counter + 1
    <3>1. job[w].no \in Nat /\ counter \in Nat
      BY <1>0 DEF TypeOK, JobType, JobFields
    <3>2. live = Orders => job[w].no <= counter /\ Numbers = 1..counter
      BY <1>4 DEF DrawNumber, NumberNext, Gapless
    <3> QED BY <2>2, <3>1, <3>2
  <2>7. NumberNext'
    BY <1>4, <2>3, <2>4, <2>6 DEF DrawNumber, NumberNext
  <2> QED BY <2>1, <2>5, <2>7
<1>5. ASSUME NEW w \in Workers, DrawRefused(w) PROVE RegisterInv'
  BY <1>0, <1>5, RegisterFrame DEF DrawRefused, Finish
<1>6. ASSUME NEW w \in Workers, NEW s \in {"sent", "failed"}, NEW e \in Nat,
             job[w].pc = "send", Answered(w, s, e),
             UNCHANGED <<live, counter, holder, invoices>>
      PROVE  RegisterInv'
  <2> DEFINE j == job'[w]
  <2>1. /\ j \in JobType /\ j.pc = "commit" /\ j.no = job[w].no
        /\ job' = [job EXCEPT ![w] = j]
    BY <1>0, <1>6, <1>type DEF Answered, TypeOK, JobType, JobFields
  <2> QED BY <1>6, <2>1, RegisterFrame
<1>7. ASSUME NEW w \in Workers, Accepted(w) \/ Rejected(w) \/ AnswerLost(w)
      PROVE  RegisterInv'
  <2>1. Len(docs) + 1 \in Nat
    BY LenProperties DEF TypeOK
  <2> QED BY <1>6, <1>7, <2>1 DEF Accepted, Rejected, AnswerLost
<1>8. ASSUME NEW w \in Workers, CommitIssue(w) PROVE RegisterInv'
  <2>1. /\ holder = w /\ job[w].no \notin Numbers
        /\ live = Orders => job[w].no = counter + 1
    BY <1>8 DEF CommitIssue, NumberHeld, NumberNext
  <2>2. /\ invoices' = invoices \cup {Row(job[w])} /\ Row(job[w]).no = job[w].no
        /\ counter' = job[w].no /\ holder' = NoWorker /\ live' = live
    BY <1>8, <2>1 DEF CommitIssue, Recorded, Release, Row
  <2>3. Numbers' = Numbers \cup {job[w].no}
    BY <2>2 DEF Numbers
  <2>4. job'[w].pc = "idle" /\ \A v \in Workers : v # w => job'[v] = job[v]
    BY <1>0, <1>8 DEF CommitIssue, Finish
  <2>5. \A v \in Workers : job'[v].pc \notin {"send", "commit"}
    BY <2>1, <2>4 DEF NumberHeld
  <2>6. NumberHeld'
    BY <2>5 DEF NumberHeld
  <2>7. NumberNext'
    <3>1. counter \in Nat /\ \A v \in Workers : job[v].no \in Nat
      BY <1>0 DEF TypeOK, JobType, JobFields
    <3> QED BY <2>1, <2>2, <2>4, <2>5, <3>1 DEF NumberNext
  <2>8. NumberedOnce'
    BY <2>1, <2>2 DEF NumberedOnce, Numbers
  <2>9. Gapless'
    <3>1. counter \in Nat
      BY DEF TypeOK
    <3> QED BY <2>1, <2>2, <2>3, <3>1 DEF Gapless
  <2> QED BY <2>6, <2>7, <2>8, <2>9
<1>9. ASSUME NEW w \in Workers, NEW i \in invoices, CheckSent(w, i) PROVE RegisterInv'
  <2> DEFINE j == job'[w]
  <2>1. j \in JobType /\ j.pc = "cancel" /\ job' = [job EXCEPT ![w] = j]
    BY <1>0, <1>9, <1>type DEF CheckSent, TypeOK, JobType, JobFields
  <2> QED BY <1>9, <2>1, RegisterFrame DEF CheckSent
<1>10. ASSUME NEW w \in Workers, CancelDoc(w) PROVE RegisterInv'
  <2> DEFINE j == job'[w]
  <2>1. j \in JobType /\ j.pc = "cancelled" /\ job' = [job EXCEPT ![w] = j]
    BY <1>0, <1>10, <1>type DEF CancelDoc, TypeOK, JobType, JobFields
  <2> QED BY <1>10, <2>1, RegisterFrame DEF CancelDoc
<1>11. ASSUME NEW w \in Workers, CommitCancel(w) PROVE RegisterInv'
  <2> DEFINE C(i) == IF i.ettn = job[w].ettn THEN [i EXCEPT !.status = "cancelled"] ELSE i
  <2>1. \A i \in invoices : C(i).no = i.no
    BY DEF TypeOK, InvoiceType
  <2>2. invoices' = {C(i) : i \in invoices}
    BY <1>11 DEF CommitCancel
  <2>3. Numbers' = Numbers
    <3> HIDE DEF C
    <3>1. {i.no : i \in {C(k) : k \in invoices}} = {i.no : i \in invoices}
      BY <2>1
    <3> QED BY <2>2, <3>1 DEF Numbers
  <2>4. NumberedOnce'
    <3>1. \A i, k \in invoices : C(i).no = C(k).no => C(i) = C(k)
      <4> SUFFICES ASSUME NEW i \in invoices, NEW k \in invoices, C(i).no = C(k).no
                   PROVE  C(i) = C(k)
        OBVIOUS
      <4>1. i = k
        BY <2>1 DEF NumberedOnce
      <4> QED BY <4>1
    <3> HIDE DEF C
    <3> QED BY <2>2, <3>1 DEF NumberedOnce
  <2>5. /\ UNCHANGED <<live, counter, holder>>
        /\ \A v \in Workers : job'[v] = IF v = w THEN Idle ELSE job[v]
    BY <1>0, <1>11 DEF CommitCancel, Finish
  <2>6. NumberHeld' /\ NumberNext' /\ Gapless'
    BY <1>0, <2>3, <2>5 DEF NumberHeld, NumberNext, Gapless
  <2> QED BY <2>4, <2>6
<1>12. ASSUME NEW w \in Workers, Crash(w) PROVE RegisterInv'
  <2>1. /\ UNCHANGED <<live, counter, invoices>>
        /\ holder' = IF holder = w THEN NoWorker ELSE holder
        /\ \A v \in Workers : job'[v] = IF v = w THEN Idle ELSE job[v]
    BY <1>0, <1>12 DEF Crash, Release, Finish
  <2>2. Numbers' = Numbers /\ NumberedOnce' /\ Gapless'
    BY <2>1 DEF NumberedOnce, Gapless, Numbers
  <2>3. NumberHeld' /\ NumberNext'
    BY <1>0, <2>1, <2>2 DEF NumberHeld, NumberNext
  <2> QED BY <2>2, <2>3
<1>13. ASSUME NEW o \in Orders, DeleteOrder(o) PROVE RegisterInv'
  <2>1. live' # Orders /\ invoices' \subseteq invoices /\ UNCHANGED <<counter, holder, job>>
    BY <1>13 DEF DeleteOrder
  <2>2. Numbers' \subseteq Numbers /\ NumberedOnce'
    BY <2>1 DEF Numbers, NumberedOnce
  <2>3. NumberHeld' /\ NumberNext' /\ Gapless'
    BY <2>1, <2>2 DEF NumberHeld, NumberNext, Gapless
  <2> QED BY <2>2, <2>3
<1> QED BY <1>1, <1>2, <1>3, <1>4, <1>5, <1>7, <1>8, <1>9, <1>10, <1>11, <1>12,
           <1>13 DEF Next, Issue, Cancel

(* A number is given to one invoice only (einvoice.py:220-232).            *)
THEOREM NumbersUnique == Spec => []NumberedOnce
<1>1. RegisterInv => NumberedOnce
  BY DEF RegisterInv
<1> QED BY <1>1, InitType, NextType, InitRegister, NextRegister, PTL DEF Spec

(* The numbers are the counter's prefix until an order is deleted.         *)
THEOREM NumbersGapless == Spec => []Gapless
<1>1. RegisterInv => Gapless
  BY DEF RegisterInv
<1> QED BY <1>1, InitType, NextType, InitRegister, NextRegister, PTL DEF Spec

-----------------------------------------------------------------------------
(* The shop and the integrator.                                            *)

LEMMA InitShop == Init => ShopInv
<1> SUFFICES ASSUME Init PROVE ShopInv
  OBVIOUS
<1>1. RegisterInv
  BY InitRegister
<1>2. invoices = {} /\ \A w \in Workers : job[w].pc = "idle"
  BY DEF Init, Idle
<1> QED BY <1>1, <1>2 DEF ShopInv, DocsOwned, ShopAgrees

(* A step of one call that leaves the rows and the documents alone.        *)
LEMMA ShopFrame ==
    ASSUME TypeOK, ShopInv, NEW w \in Workers, NEW j \in JobType,
           job' = [job EXCEPT ![w] = j],
           UNCHANGED <<invoices, docs>>,
           j.pc = "commit" => Answers(j),
           j.pc \in {"cancel", "cancelled"} => Cancels(j)
    PROVE  DocsOwned' /\ ShopAgrees'
<1>1. \A v \in Workers : job'[v] = IF v = w THEN j ELSE job[v]
  BY DEF TypeOK
<1>2. DocsOwned'
  BY <1>1 DEF ShopInv, DocsOwned, Answers, Cancels
<1>3. ShopAgrees'
  BY DEF ShopInv, ShopAgrees
<1> QED BY <1>2, <1>3

LEMMA NextShop == TypeOK /\ ShopInv /\ [Next]_vars => ShopInv'
<1> SUFFICES ASSUME TypeOK, ShopInv, [Next]_vars PROVE DocsOwned' /\ ShopAgrees'
  BY NextRegister DEF ShopInv
<1> DEFINE Goal == DocsOwned' /\ ShopAgrees'
<1>0. Idle \in JobType /\ Idle.pc = "idle" /\ job \in [Workers -> JobType]
  BY DEF TypeOK, Idle, JobType, JobFields
<1>type. TypeOK'
  BY NextType
<1>len. Len(docs) \in Nat /\ DOMAIN docs = 1..Len(docs)
  BY LenProperties DEF TypeOK
(* Every invoice's document number is 0 or that of a filed document.       *)
<1>old. \A i \in invoices : i.ettn \in 0..Len(docs)
  <2>1. \A i \in invoices : i.ettn = 0 \/ i.ettn \in DOMAIN docs
    BY DEF ShopInv, DocsOwned, ShopAgrees
  <2> QED BY <2>1, <1>len
<1>1. CASE UNCHANGED vars
  BY <1>1 DEF vars, ShopInv, DocsOwned, ShopAgrees, Answers, Cancels
<1>2. ASSUME NEW w \in Workers, NEW o \in Orders, Check(w, o) PROVE Goal
  <2> DEFINE j == job'[w]
  <2>1. j \in JobType /\ j.pc = "read" /\ job' = [job EXCEPT ![w] = j]
    BY <1>0, <1>2, <1>type DEF Check, TypeOK, JobType, JobFields
  <2> QED BY <1>2, <2>1, ShopFrame DEF Check
<1>3. ASSUME NEW w \in Workers, ReadCounter(w) PROVE Goal
  <2> DEFINE j == job'[w]
  <2>1. j \in JobType /\ j.pc = "draw" /\ job' = [job EXCEPT ![w] = j]
    BY <1>0, <1>3, <1>type DEF ReadCounter, TypeOK, JobType, JobFields
  <2> QED BY <1>3, <2>1, ShopFrame DEF ReadCounter
<1>4. ASSUME NEW w \in Workers, DrawNumber(w) PROVE Goal
  <2> DEFINE j == job'[w]
  <2>1. j \in JobType /\ j.pc = "send" /\ job' = [job EXCEPT ![w] = j]
    BY <1>0, <1>4, <1>type DEF DrawNumber, TypeOK, JobType, JobFields
  <2> QED BY <1>4, <2>1, ShopFrame DEF DrawNumber
<1>5. ASSUME NEW w \in Workers, DrawRefused(w) PROVE Goal
  BY <1>0, <1>5, ShopFrame DEF DrawRefused, Finish
<1>6. ASSUME NEW w \in Workers, Rejected(w) PROVE Goal
  <2> DEFINE j == job'[w]
  <2>1. /\ j \in JobType /\ j.pc = "commit" /\ j.status = "failed" /\ j.ettn = 0
        /\ job' = [job EXCEPT ![w] = j]
    BY <1>0, <1>6, <1>type DEF Rejected, Answered, TypeOK, JobType, JobFields
  <2>2. Answers(j)
    BY <2>1 DEF Answers
  <2> QED BY <1>6, <2>1, <2>2, ShopFrame DEF Rejected
(* A filed document belongs to no invoice and to no other call yet.        *)
<1>7. ASSUME NEW w \in Workers, job[w].pc = "send", Filed(w), UNCHANGED invoices,
             NEW s \in {"sent", "failed"}, NEW e \in Nat, Answered(w, s, e),
             s = "sent" => e = Len(docs) + 1, s = "failed" => e = 0
      PROVE  Goal
  <2> DEFINE top == Len(docs) + 1
  <2>1. /\ DOMAIN docs' = 1..top
        /\ \A f \in DOMAIN docs : f \in DOMAIN docs' /\ docs'[f] = docs[f]
        /\ docs'[top].o = job[w].o /\ docs'[top].no = job[w].no
    <3>1. /\ DOMAIN docs' = 1..top
          /\ \A f \in DOMAIN docs : docs'[f] = docs[f]
          /\ docs'[top] = [o |-> job[w].o, no |-> job[w].no, active |-> TRUE]
      BY <1>7, FiledDoc
    <3>2. \A f \in DOMAIN docs : f \in DOMAIN docs'
      BY <1>len, <3>1
    <3> QED BY <3>1, <3>2
  <2>2. /\ job'[w].pc = "commit" /\ job'[w].status = s /\ job'[w].ettn = e
        /\ job'[w].no = job[w].no /\ job'[w].o = job[w].o
        /\ \A v \in Workers : v # w => job'[v] = job[v]
    BY <1>0, <1>7 DEF Answered, JobType, JobFields
  <2>3. Answers(job[w])'
    <3>1. s = "sent" => e \in DOMAIN docs' /\ docs'[e].no = job[w].no /\ docs'[e].o = job[w].o
      BY <1>7, <1>len, <2>1
    <3>2. s = "sent" => \A i \in invoices' : i.ettn # e
      BY <1>7, <1>len, <1>old
    <3> QED BY <1>7, <2>2, <3>1, <3>2 DEF Answers
  <2>4. \A v \in Workers : v # w /\ job'[v].pc = "commit" => Answers(job[v])'
    BY <1>7, <2>1, <2>2 DEF ShopInv, DocsOwned, Answers
  <2>5. \A v \in Workers : job'[v].pc \in {"cancel", "cancelled"} => Cancels(job[v])'
    BY <2>1, <2>2 DEF ShopInv, DocsOwned, Cancels
  <2>6. DocsOwned'
    BY <1>7, <2>3, <2>4, <2>5 DEF ShopInv, DocsOwned
  <2>7. ShopAgrees'
    BY <1>7, <2>1 DEF ShopInv, ShopAgrees
  <2> QED BY <2>6, <2>7
<1>8. ASSUME NEW w \in Workers, Accepted(w) \/ AnswerLost(w) PROVE Goal
  <2>1. Len(docs) + 1 \in Nat
    BY <1>len
  <2> QED BY <1>7, <1>8, <2>1 DEF Accepted, AnswerLost
<1>9. ASSUME NEW w \in Workers, CommitIssue(w) PROVE Goal
  <2> DEFINE r == Row(job[w])
  <2>1. /\ job[w].pc = "commit" /\ Answers(job[w])
        /\ invoices' = invoices \cup {r} /\ docs' = docs
    BY <1>9 DEF CommitIssue, Recorded, ShopInv, DocsOwned
  <2>2. /\ r.no = job[w].no /\ r.o = job[w].o /\ r.ettn = job[w].ettn
        /\ r.status = job[w].status /\ r.status \in {"sent", "failed"}
    BY <1>0, <2>1 DEF Row, JobType, JobFields
  <2>3. \A v \in Workers : job'[v] = IF v = w THEN Idle ELSE job[v]
    BY <1>0, <1>9 DEF CommitIssue, Finish
  <2>4. \A v \in Workers : job'[v].pc # "commit"
    BY <1>0, <2>1, <2>3 DEF ShopInv, RegisterInv, NumberHeld
  <2>5. DocsOwned'
    BY <1>0, <2>1, <2>2, <2>3, <2>4 DEF ShopInv, DocsOwned, Answers, Cancels
  <2>6. ShopAgrees'
    <3>1. \A i \in invoices : i.ettn = r.ettn => i.ettn = 0
      BY <2>1, <2>2 DEF Answers
    <3>2. r.status = "sent" =>
              r.ettn \in DOMAIN docs /\ docs[r.ettn].no = r.no /\ docs[r.ettn].o = r.o
      BY <2>1, <2>2 DEF Answers
    <3> QED BY <2>1, <2>2, <3>1, <3>2 DEF ShopInv, ShopAgrees
  <2> QED BY <2>5, <2>6
<1>10. ASSUME NEW w \in Workers, NEW i \in invoices, CheckSent(w, i) PROVE Goal
  <2> DEFINE j == job'[w]
  <2>1. /\ j \in JobType /\ j.pc = "cancel" /\ j.ettn = i.ettn /\ i.status = "sent"
        /\ job' = [job EXCEPT ![w] = j]
    BY <1>0, <1>10, <1>type DEF CheckSent, TypeOK, JobType, JobFields
  <2>2. Cancels(j)
    BY <2>1 DEF Cancels, ShopInv, ShopAgrees
  <2> QED BY <1>10, <2>1, <2>2, ShopFrame DEF CheckSent
<1>11. ASSUME NEW w \in Workers, CancelDoc(w) PROVE Goal
  <2> DEFINE e == job[w].ettn
  <2>1. job[w].pc = "cancel" /\ e \in Nat /\ e \in DOMAIN docs
    BY <1>0, <1>11 DEF CancelDoc, ShopInv, DocsOwned, Cancels, JobType, JobFields
  <2>2. /\ DOMAIN docs' = DOMAIN docs
        /\ \A f \in DOMAIN docs : /\ docs'[f].no = docs[f].no
                                  /\ docs'[f].o = docs[f].o
                                  /\ ~ docs[f].active => ~ docs'[f].active
        /\ ~ docs'[e].active
    BY <1>11, <2>1, WithdrawnDoc DEF CancelDoc
  <2>3. /\ job'[w].pc = "cancelled" /\ job'[w].ettn = e /\ UNCHANGED invoices
        /\ \A v \in Workers : v # w => job'[v] = job[v]
    BY <1>0, <1>11 DEF CancelDoc, JobType, JobFields
  <2>4. \A v \in Workers : job'[v].pc \in {"cancel", "cancelled"} => Cancels(job[v])'
    BY <2>1, <2>2, <2>3 DEF ShopInv, DocsOwned, Cancels
  <2>5. \A v \in Workers : job'[v].pc = "commit" => Answers(job[v])'
    BY <2>2, <2>3 DEF ShopInv, DocsOwned, Answers
  <2>6. DocsOwned'
    BY <2>3, <2>4, <2>5 DEF ShopInv, DocsOwned
  <2>7. ShopAgrees'
    BY <2>2, <2>3 DEF ShopInv, ShopAgrees
  <2> QED BY <2>6, <2>7
<1>12. ASSUME NEW w \in Workers, CommitCancel(w) PROVE Goal
  <2> DEFINE e == job[w].ettn
             C(i) == IF i.ettn = e THEN [i EXCEPT !.status = "cancelled"] ELSE i
  <2>1. e \in DOMAIN docs /\ ~ docs[e].active /\ e # 0
    BY <1>12, <1>len DEF CommitCancel, ShopInv, DocsOwned, Cancels
  <2>2. \A i \in invoices : /\ C(i).no = i.no /\ C(i).o = i.o /\ C(i).ettn = i.ettn
                            /\ C(i).status = IF i.ettn = e THEN "cancelled" ELSE i.status
    BY DEF TypeOK, InvoiceType
  <2>3. invoices' = {C(i) : i \in invoices} /\ docs' = docs
    BY <1>12 DEF CommitCancel
  <2>4. \A v \in Workers : job'[v] = IF v = w THEN Idle ELSE job[v]
    BY <1>0, <1>12 DEF CommitCancel, Finish
  <2> HIDE DEF C
  <2>5. DocsOwned'
    BY <1>0, <2>1, <2>2, <2>3, <2>4 DEF ShopInv, DocsOwned, Answers, Cancels
  <2>6. \A i, k \in invoices : C(i).ettn = C(k).ettn /\ C(i).ettn # 0 => C(i) = C(k)
    BY <2>2 DEF ShopInv, ShopAgrees
  <2>7. \A i \in invoices :
            /\ C(i).status # "failed" =>
                /\ C(i).ettn \in DOMAIN docs
                /\ docs[C(i).ettn].no = C(i).no /\ docs[C(i).ettn].o = C(i).o
            /\ C(i).status = "cancelled" => ~ docs[C(i).ettn].active
    <3> TAKE i \in invoices
    <3>1. CASE i.ettn = e
      <4>1. i.status # "failed"
        BY <2>1, <3>1 DEF ShopInv, DocsOwned
      <4> QED BY <2>1, <2>2, <3>1, <4>1 DEF ShopInv, ShopAgrees
    <3>2. CASE i.ettn # e
      BY <2>2, <3>2 DEF ShopInv, ShopAgrees
    <3> QED BY <3>1, <3>2
  <2>8. ShopAgrees'
    BY <2>3, <2>6, <2>7 DEF ShopAgrees
  <2> QED BY <2>5, <2>8
<1>13. ASSUME NEW w \in Workers, Crash(w) PROVE Goal
  BY <1>0, <1>13, ShopFrame DEF Crash, Finish
<1>14. ASSUME NEW o \in Orders, DeleteOrder(o) PROVE Goal
  <2>1. invoices' \subseteq invoices /\ UNCHANGED <<docs, job>>
    BY <1>14 DEF DeleteOrder
  <2> QED BY <2>1 DEF ShopInv, DocsOwned, ShopAgrees, Answers, Cancels
<1> QED BY <1>1, <1>2, <1>3, <1>4, <1>5, <1>6, <1>8, <1>9, <1>10, <1>11, <1>12,
           <1>13, <1>14 DEF Next, Issue, Cancel

(* What the shop shows agrees with the integrator, whatever overlaps,      *)
(* crashes or is deleted (routers/invoices.py:220-231 and 393-396).        *)
THEOREM ShopTellsTruth == Spec => []ShopAgrees
<1>1. ShopInv => ShopAgrees
  BY DEF ShopInv
<1> QED BY <1>1, InitType, NextType, InitShop, NextShop, PTL DEF Spec
-----------------------------------------------------------------------------
(* Documents the shop does not know of.                                    *)

(* There are finitely many documents, so the orphans can be counted.       *)
LEMMA OrphansCount ==
    ASSUME TypeOK
    PROVE  /\ IsFiniteSet(Orphans) /\ Cardinality(Orphans) \in Nat
           /\ spent.crash \in Nat /\ spent.lost \in Nat /\ spent.calls \in Nat
<1>1. docs \in Seq(DocType)
  BY DEF TypeOK
<1>2. DOMAIN docs = 1..Len(docs) /\ Len(docs) \in Nat
  BY <1>1, LenProperties
<1>3. IsFiniteSet(DOMAIN docs)
  BY <1>2, FS_Interval
<1>4. IsFiniteSet(Orphans)
  BY <1>3, FS_Subset DEF Orphans
<1>5. Cardinality(Orphans) \in Nat
  BY <1>4, FS_CardinalityType
<1>6. spent.crash \in Nat /\ spent.lost \in Nat /\ spent.calls \in Nat
  BY DEF TypeOK
<1> QED BY <1>4, <1>5, <1>6

(* A step that makes no orphan, and one that makes one and is counted.     *)
LEMMA OrphansFrame ==
    ASSUME TypeOK, OrphansExplained, NEW n \in {0, 1}, NEW x,
           Orphans' \subseteq Orphans \cup (IF n = 1 THEN {x} ELSE {}),
           spent'.crash + spent'.lost = spent.crash + spent.lost + n
    PROVE  OrphansExplained'
<1> DEFINE S == Orphans
           T == Orphans'
<1>1. /\ IsFiniteSet(S) /\ Cardinality(S) \in Nat /\ spent.crash \in Nat /\ spent.lost \in Nat
      /\ Cardinality(S) <= spent.crash + spent.lost
  BY OrphansCount DEF OrphansExplained
<1> HIDE DEF S, T
<1>2. CASE n = 0
  <2>1. T \subseteq S
    BY <1>2 DEF S, T
  <2>2. Cardinality(T) <= Cardinality(S) /\ IsFiniteSet(T)
    BY <1>1, <2>1, FS_Subset
  <2>3. Cardinality(T) \in Nat
    BY <2>2, FS_CardinalityType
  <2> QED
    BY <1>1, <1>2, <2>2, <2>3 DEF OrphansExplained, T
<1>3. CASE n = 1
  <2> DEFINE U == S \cup {x}
  <2>1. T \subseteq U
    BY <1>3 DEF S, T
  <2>2. IsFiniteSet(U) /\ (Cardinality(U) = Cardinality(S) \/ Cardinality(U) = Cardinality(S) + 1)
    BY <1>1, FS_AddElement
  <2> HIDE DEF U
  <2>3. Cardinality(T) <= Cardinality(U) /\ IsFiniteSet(T)
    BY <2>1, <2>2, FS_Subset
  <2>4. Cardinality(T) \in Nat /\ Cardinality(U) \in Nat
    BY <2>2, <2>3, FS_CardinalityType
  <2> QED
    BY <1>1, <1>3, <2>2, <2>3, <2>4 DEF OrphansExplained, T
<1> QED BY <1>2, <1>3

(* The steps of a call between its question and its answer, and the        *)
(* refusals: no document gets an owner, none loses one.                    *)
LEMMA OrphansStay ==
    ASSUME TypeOK, OrphansExplained, UNCHANGED <<live, invoices, docs>>,
           spent'.crash = spent.crash, spent'.lost = spent.lost,
           \A w \in Workers : job[w].pc = "commit" => job'[w] = job[w]
    PROVE  OrphansExplained'
<1>1. Orphans' \subseteq Orphans
  BY DEF Orphans, Known
<1>2. spent'.crash + spent'.lost = spent.crash + spent.lost + 0
  BY OrphansCount
<1> QED BY <1>1, <1>2, OrphansFrame

LEMMA NextOrphans == TypeOK /\ ShopInv /\ OrphansExplained /\ [Next]_vars => OrphansExplained'
<1> SUFFICES ASSUME TypeOK, ShopInv, OrphansExplained, [Next]_vars PROVE OrphansExplained'
  OBVIOUS
<1>0. job \in [Workers -> JobType] /\ Idle.pc = "idle"
  BY DEF TypeOK, Idle
<1>s. /\ spent.crash \in Nat /\ spent.lost \in Nat
      /\ \A k \in {"calls", "crash", "lost"} : Spend(k) =>
            /\ spent'.crash = IF k = "crash" THEN spent.crash + 1 ELSE spent.crash
            /\ spent'.lost = IF k = "lost" THEN spent.lost + 1 ELSE spent.lost
  BY OrphansCount DEF TypeOK, Spend
<1>len. Len(docs) \in Nat /\ DOMAIN docs = 1..Len(docs)
  BY LenProperties DEF TypeOK
<1>1. CASE UNCHANGED vars
  BY <1>1, OrphansStay DEF vars
<1>2. ASSUME NEW w \in Workers,
             (\E o \in Orders : Check(w, o)) \/ ReadCounter(w) \/ DrawNumber(w) \/ DrawRefused(w) \/ Rejected(w)
                 \/ (\E i \in invoices : CheckSent(w, i))
      PROVE  OrphansExplained'
  <2>1. /\ job[w].pc # "commit" /\ UNCHANGED <<live, invoices, docs>>
        /\ \A v \in Workers : v # w => job'[v] = job[v]
    BY <1>0, <1>2 DEF Check, ReadCounter, DrawNumber, DrawRefused, Rejected, CheckSent, Finish, Answered
  <2>2. spent'.crash = spent.crash /\ spent'.lost = spent.lost
    BY <1>s, <1>2 DEF Check, ReadCounter, DrawNumber, DrawRefused, Rejected, CheckSent
  <2> QED BY <2>1, <2>2, OrphansStay
(* The document of an answer that arrives is the call's own, the one of an *)
(* answer that is lost is nobody's.                                        *)
<1>3. ASSUME NEW w \in Workers, Accepted(w) \/ AnswerLost(w) PROVE OrphansExplained'
  <2> DEFINE top == Len(docs) + 1
  <2>1. /\ DOMAIN docs' = 1..top /\ \A e \in DOMAIN docs : docs'[e] = docs[e]
        /\ \A v \in Workers : v # w => job'[v] = job[v]
        /\ UNCHANGED <<live, invoices>> /\ job[w].pc = "send"
    BY <1>0, <1>3, FiledDoc DEF Accepted, AnswerLost, Answered
  <2>2. Orphans' \subseteq Orphans \cup {top}
    <3>1. \A e \in DOMAIN docs' : e \in DOMAIN docs \/ e = top
      BY <1>len, <2>1
    <3>2. \A e \in DOMAIN docs : Known(e) => Known(e)'
      BY <2>1 DEF Known
    <3> QED BY <2>1, <3>1, <3>2 DEF Orphans
  <2>3. CASE Accepted(w)
    <3>1. job'[w].pc = "commit" /\ job'[w].ettn = top /\ spent' = spent
      BY <1>0, <2>3 DEF Accepted, Answered, JobType, JobFields
    <3>2. \A d : d = top => Known(d)'
      BY <3>1 DEF Known
    <3>3. top \notin Orphans'
      BY <3>2 DEF Orphans
    <3>4. Orphans' \subseteq Orphans
      BY <2>2, <3>3
    <3>5. spent'.crash + spent'.lost = spent.crash + spent.lost + 0
      BY <1>s, <3>1
    <3> QED BY <3>4, <3>5, OrphansFrame
  <2>4. CASE AnswerLost(w)
    <3>1. spent'.crash + spent'.lost = spent.crash + spent.lost + 1
      BY <1>s, <2>4 DEF AnswerLost
    <3> QED BY <2>2, <3>1, OrphansFrame
  <2> QED BY <1>3, <2>3, <2>4
<1>4. ASSUME NEW w \in Workers, CommitIssue(w) PROVE OrphansExplained'
  <2> DEFINE r == Row(job[w])
  <2>1. /\ job[w].pc = "commit" /\ Answers(job[w]) /\ invoices' = invoices \cup {r}
        /\ UNCHANGED <<live, docs, spent>> /\ \A v \in Workers : v # w => job'[v] = job[v]
    BY <1>0, <1>4 DEF CommitIssue, Recorded, Finish, ShopInv, DocsOwned
  <2>2. r.ettn = job[w].ettn /\ r.status = job[w].status /\ (r.status = "sent" \/ r.ettn = 0)
    BY <1>0, <2>1 DEF Row, Answers, JobType, JobFields
  <2>3. \A d \in DOMAIN docs : Known(d) => Known(d)'
    BY <1>len, <2>1, <2>2 DEF Known
  <2>4. Orphans' \subseteq Orphans
    BY <2>1, <2>3 DEF Orphans
  <2>5. spent'.crash + spent'.lost = spent.crash + spent.lost + 0
    BY <1>s, <2>1
  <2> QED BY <2>4, <2>5, OrphansFrame
<1>5. ASSUME NEW w \in Workers, CancelDoc(w) PROVE OrphansExplained'
  <2> DEFINE e == job[w].ettn
  <2>1. job[w].pc = "cancel" /\ e \in Nat
    BY <1>0, <1>5 DEF CancelDoc, JobType, JobFields
  <2>2. /\ DOMAIN docs' = DOMAIN docs
        /\ \A f \in DOMAIN docs : docs'[f].o = docs[f].o
    BY <1>5, <2>1, WithdrawnDoc DEF CancelDoc
  <2>3. \A f \in DOMAIN docs : docs'[f].active => docs[f].active
    BY <1>5, <2>1, WithdrawnDoc DEF CancelDoc, TypeOK, DocType
  <2>4. UNCHANGED <<live, invoices, spent>> /\ \A v \in Workers : v # w => job'[v] = job[v]
    BY <1>0, <1>5 DEF CancelDoc
  <2>5. \A d \in DOMAIN docs : Known(d) => Known(d)'
    BY <2>1, <2>4 DEF Known
  <2>6. Orphans' \subseteq Orphans
    BY <2>2, <2>3, <2>4, <2>5 DEF Orphans
  <2>7. spent'.crash + spent'.lost = spent.crash + spent.lost + 0
    BY <1>s, <2>4
  <2> QED BY <2>6, <2>7, OrphansFrame
(* The invoice that is cancelled was the owner of a withdrawn document.    *)
<1>6. ASSUME NEW w \in Workers, CommitCancel(w) PROVE OrphansExplained'
  <2> DEFINE e == job[w].ettn
             C(i) == IF i.ettn = e THEN [i EXCEPT !.status = "cancelled"] ELSE i
  <2>1. job[w].pc = "cancelled" /\ ~ docs[e].active
    BY <1>6 DEF CommitCancel, ShopInv, DocsOwned, Cancels
  <2>2. /\ invoices' = {C(i) : i \in invoices} /\ UNCHANGED <<live, docs, spent>>
        /\ \A v \in Workers : v # w => job'[v] = job[v]
    BY <1>0, <1>6 DEF CommitCancel, Finish
  <2>3. \A i \in invoices : i.ettn # e => C(i) = i
    OBVIOUS
  <2> HIDE DEF C
  <2>4. ASSUME NEW d \in DOMAIN docs, Known(d), d # e PROVE Known(d)'
    <3>1. CASE \E i \in invoices : i.ettn = d /\ i.status = "sent"
      <4>1. PICK i \in invoices : i.ettn = d /\ i.status = "sent"
        BY <3>1
      <4>2. i \in invoices'
        BY <2>2, <2>3, <2>4, <4>1
      <4> QED BY <4>1, <4>2 DEF Known
    <3>2. CASE \E v \in Workers : job[v].pc = "commit" /\ job[v].ettn = d
      BY <2>1, <2>2, <3>2 DEF Known
    <3> QED BY <2>4, <3>1, <3>2 DEF Known
  <2>5. Orphans' \subseteq Orphans
    BY <2>1, <2>2, <2>4 DEF Orphans
  <2>6. spent'.crash + spent'.lost = spent.crash + spent.lost + 0
    BY <1>s, <2>2
  <2> QED BY <2>5, <2>6, OrphansFrame
(* A call that dies leaves the document it had been given.                 *)
<1>7. ASSUME NEW w \in Workers, Crash(w) PROVE OrphansExplained'
  <2> DEFINE e == job[w].ettn
  <2>1. UNCHANGED <<live, invoices, docs>> /\ \A v \in Workers : v # w => job'[v] = job[v]
    BY <1>0, <1>7 DEF Crash, Finish
  <2>2. \A d \in DOMAIN docs : Known(d) /\ d # e => Known(d)'
    BY <2>1 DEF Known
  <2>3. Orphans' \subseteq Orphans \cup {e}
    BY <2>1, <2>2 DEF Orphans
  <2>4. spent'.crash + spent'.lost = spent.crash + spent.lost + 1
    BY <1>s, <1>7 DEF Crash
  <2> QED BY <2>3, <2>4, OrphansFrame
(* With the order go its invoices, and the orphans it had.                 *)
<1>8. ASSUME NEW o \in Orders, DeleteOrder(o) PROVE OrphansExplained'
  <2>1. /\ live' = live \ {o} /\ invoices' = {i \in invoices : i.o # o} /\ UNCHANGED <<docs, job, spent>>
    BY <1>8 DEF DeleteOrder
  <2>2. ASSUME NEW d \in DOMAIN docs, docs[d].o # o, Known(d) PROVE Known(d)'
    <3>1. CASE \E i \in invoices : i.ettn = d /\ i.status = "sent"
      <4>1. PICK i \in invoices : i.ettn = d /\ i.status = "sent"
        BY <3>1
      <4>2. docs[d].o = i.o
        BY <4>1 DEF ShopInv, ShopAgrees
      <4> QED BY <2>1, <2>2, <4>1, <4>2 DEF Known
    <3>2. CASE \E v \in Workers : job[v].pc = "commit" /\ job[v].ettn = d
      BY <2>1, <3>2 DEF Known
    <3> QED BY <2>2, <3>1, <3>2 DEF Known
  <2>3. Orphans' \subseteq Orphans
    BY <2>1, <2>2 DEF Orphans
  <2>4. spent'.crash + spent'.lost = spent.crash + spent.lost + 0
    BY <1>s, <2>1
  <2> QED BY <2>3, <2>4, OrphansFrame
<1> QED BY <1>1, <1>2, <1>3, <1>4, <1>5, <1>6, <1>7, <1>8 DEF Next, Issue, Cancel

(* A valid document the shop does not know of is the trace of a crash or   *)
(* of a lost answer, one each, for any number of overlapping calls         *)
(* (routers/invoices.py:214-231).                                          *)
THEOREM OrphansAreTraces == Spec => []OrphansExplained
<1>1. Init => OrphansExplained
  <2> SUFFICES ASSUME Init PROVE OrphansExplained
    OBVIOUS
  <2>1. DOMAIN docs = {} /\ spent.crash = 0 /\ spent.lost = 0
    BY EmptySeq DEF Init
  <2>2. Orphans = {}
    BY <2>1 DEF Orphans
  <2> QED BY <2>1, <2>2, FS_EmptySet DEF OrphansExplained
<1> QED BY <1>1, InitType, NextType, InitShop, NextShop, NextOrphans, PTL DEF Spec
-----------------------------------------------------------------------------
(* Invoices whose document is cancelled.                                   *)

LEMMA StrayedCount ==
    ASSUME TypeOK
    PROVE  IsFiniteSet(Strayed) /\ Cardinality(Strayed) \in Nat
<1>1. docs \in Seq(DocType)
  BY DEF TypeOK
<1>2. DOMAIN docs = 1..Len(docs) /\ Len(docs) \in Nat
  BY <1>1, LenProperties
<1>3. IsFiniteSet(DOMAIN docs)
  BY <1>2, FS_Interval
<1>4. IsFiniteSet(Strayed)
  BY <1>3, FS_Subset DEF Strayed
<1> QED BY <1>4, FS_CardinalityType

(* A step after which no more is astray, and a crash.                      *)
LEMMA StrayedLess ==
    ASSUME TypeOK, StrayedExplained, Strayed' \subseteq Strayed, spent'.crash = spent.crash
    PROVE  StrayedExplained'
<1> DEFINE S == Strayed
           T == Strayed'
<1>1. IsFiniteSet(S) /\ Cardinality(S) <= spent.crash /\ T \subseteq S
  BY StrayedCount DEF StrayedExplained
<1>2. Cardinality(S) \in Nat /\ spent.crash \in Nat
  BY StrayedCount, OrphansCount
<1> HIDE DEF S, T
<1>3. Cardinality(T) <= Cardinality(S) /\ Cardinality(T) \in Nat
  BY <1>1, FS_Subset, FS_CardinalityType
<1> QED BY <1>1, <1>2, <1>3 DEF StrayedExplained, T

LEMMA StrayedMore ==
    ASSUME TypeOK, StrayedExplained, NEW x, Strayed' \subseteq Strayed \cup {x},
           spent'.crash = spent.crash + 1
    PROVE  StrayedExplained'
<1> DEFINE S == Strayed
           T == Strayed'
           U == S \cup {x}
<1>1. IsFiniteSet(S) /\ Cardinality(S) <= spent.crash /\ T \subseteq U
  BY StrayedCount DEF StrayedExplained
<1>2. Cardinality(S) \in Nat /\ spent.crash \in Nat
  BY StrayedCount, OrphansCount
<1> HIDE DEF S, T
<1>3. IsFiniteSet(U) /\ (Cardinality(U) = Cardinality(S) \/ Cardinality(U) = Cardinality(S) + 1)
  BY <1>1, FS_AddElement
<1> HIDE DEF U
<1>4. Cardinality(T) <= Cardinality(U) /\ Cardinality(T) \in Nat /\ Cardinality(U) \in Nat
  BY <1>1, <1>3, FS_Subset, FS_CardinalityType
<1> QED BY <1>1, <1>2, <1>3, <1>4 DEF StrayedExplained, T

StrayedInv == StrayedExplained /\ NotYetCancelled

LEMMA NextStrayed == TypeOK /\ ShopInv /\ StrayedInv /\ [Next]_vars => StrayedInv'
<1> SUFFICES ASSUME TypeOK, ShopInv, StrayedInv, [Next]_vars PROVE StrayedExplained' /\ NotYetCancelled'
  BY DEF StrayedInv
<1>0. job \in [Workers -> JobType] /\ Idle.pc = "idle" /\ StrayedExplained /\ NotYetCancelled
  BY DEF TypeOK, Idle, StrayedInv
<1>s. /\ spent.crash \in Nat
      /\ \A k \in {"calls", "crash", "lost"} : Spend(k) =>
            spent'.crash = IF k = "crash" THEN spent.crash + 1 ELSE spent.crash
  BY OrphansCount DEF TypeOK, Spend
<1>len. Len(docs) \in Nat /\ DOMAIN docs = 1..Len(docs)
  BY LenProperties DEF TypeOK
<1>1. CASE UNCHANGED vars
  <2>1. Strayed' = Strayed /\ spent' = spent
    BY <1>1 DEF vars, Strayed, Believed, Cancelling
  <2>2. NotYetCancelled'
    BY <1>0, <1>1 DEF vars, NotYetCancelled
  <2> QED BY <1>0, <2>1, <2>2, StrayedLess
(* The steps of an issue up to its answer, and refusals.                   *)
<1>2. ASSUME NEW w \in Workers,
             (\E o \in Orders : Check(w, o)) \/ ReadCounter(w) \/ DrawNumber(w) \/ DrawRefused(w) \/ Rejected(w)
      PROVE  StrayedExplained' /\ NotYetCancelled'
  <2>1. /\ job[w].pc \in {"idle", "read", "draw", "send"} /\ UNCHANGED <<invoices, docs>>
        /\ \A v \in Workers : v # w => job'[v] = job[v]
        /\ job'[w].pc \in {"idle", "read", "draw", "send"} \/ job'[w].status = "failed"
    BY <1>0, <1>2 DEF Check, ReadCounter, DrawNumber, DrawRefused, Rejected, Finish, Answered, JobType, JobFields
  <2>2. job'[w].pc \in {"idle", "read", "draw", "send", "commit"}
    BY <1>0, <1>2 DEF Check, ReadCounter, DrawNumber, DrawRefused, Rejected, Finish, Answered, JobType, JobFields
  <2>3. spent'.crash = spent.crash
    BY <1>s, <1>2 DEF Check, ReadCounter, DrawNumber, DrawRefused, Rejected
  <2>4. Strayed' \subseteq Strayed
    BY <2>1 DEF Strayed, Believed, Cancelling
  <2>5. NotYetCancelled'
    BY <1>0, <2>1, <2>2 DEF NotYetCancelled
  <2> QED BY <1>0, <2>3, <2>4, <2>5, StrayedLess
(* A cancellation begins with an invoice that is committed.                *)
<1>3. ASSUME NEW w \in Workers, NEW i \in invoices, CheckSent(w, i)
      PROVE  StrayedExplained' /\ NotYetCancelled'
  <2>1. /\ job[w].pc = "idle" /\ UNCHANGED <<invoices, docs>> /\ job'[w].pc = "cancel"
        /\ job'[w].ettn = i.ettn /\ \A v \in Workers : v # w => job'[v] = job[v]
    BY <1>0, <1>3 DEF CheckSent, JobType, JobFields
  <2>2. spent'.crash = spent.crash
    BY <1>s, <1>3 DEF CheckSent
  <2>3. Strayed' \subseteq Strayed
    BY <2>1 DEF Strayed, Believed, Cancelling
  <2>4. \A v \in Workers : job[v].pc = "commit" /\ job[v].status = "sent" => i.ettn # job[v].ettn
    BY DEF ShopInv, DocsOwned, Answers
  <2>5. NotYetCancelled'
    BY <1>0, <2>1, <2>4 DEF NotYetCancelled
  <2> QED BY <1>0, <2>2, <2>3, <2>5, StrayedLess
(* A document that is filed is new.                                        *)
<1>4. ASSUME NEW w \in Workers, Accepted(w) \/ AnswerLost(w) PROVE StrayedExplained' /\ NotYetCancelled'
  <2> DEFINE top == Len(docs) + 1
  <2>0. job[w].pc = "send" /\ Filed(w)
    BY <1>4 DEF Accepted, AnswerLost
  <2>1. /\ DOMAIN docs' = 1..top /\ \A e \in DOMAIN docs : docs'[e] = docs[e]
        /\ \A v \in Workers : v # w => job'[v] = job[v]
        /\ invoices' = invoices /\ job[w].pc = "send" /\ docs'[top].active
    <3>1. docs'[top] = [o |-> job[w].o, no |-> job[w].no, active |-> TRUE]
      BY <2>0, FiledDoc
    <3>2. docs'[top].active
      BY <3>1
    <3>3. DOMAIN docs' = 1..top /\ \A e \in DOMAIN docs : docs'[e] = docs[e]
      BY <2>0, FiledDoc
    <3> QED
      BY <1>0, <1>4, <2>0, <3>2, <3>3 DEF Accepted, AnswerLost, Answered
  <2>2. /\ job'[w].pc = "commit"
        /\ job'[w].status = "sent" => job'[w].ettn = top
    BY <1>0, <1>4 DEF Accepted, AnswerLost, Answered, JobType, JobFields
  <2>3. spent'.crash = spent.crash
    BY <1>s, <1>4 DEF Accepted, AnswerLost
  <2>4. \A e \in DOMAIN docs' : e \in DOMAIN docs \/ e = top
    BY <1>len, <2>1
  <2>5. Strayed' \subseteq Strayed
    BY <2>1, <2>4 DEF Strayed, Believed, Cancelling
  <2>6. \A v \in Workers : job[v].pc \in {"cancel", "cancelled"} => job[v].ettn \in DOMAIN docs /\ job[v].ettn # top
    BY <1>len DEF ShopInv, DocsOwned, Cancels
  <2>7. \A v \in Workers : job[v].pc = "commit" /\ job[v].status = "sent" => job[v].ettn \in DOMAIN docs
    BY DEF ShopInv, DocsOwned, Answers
  <2>8. NotYetCancelled'
    <3> SUFFICES ASSUME NEW v \in Workers, job'[v].pc = "commit", job'[v].status = "sent"
                 PROVE  /\ docs'[job'[v].ettn].active
                        /\ \A u \in Workers : job'[u].pc \in {"cancel", "cancelled"} => job'[u].ettn # job'[v].ettn
      BY DEF NotYetCancelled
    <3>1. CASE v = w
      BY <2>1, <2>2, <2>6, <3>1
    <3>2. CASE v # w
      BY <1>0, <2>1, <2>2, <2>7, <3>2 DEF NotYetCancelled
    <3> QED BY <3>1, <3>2
  <2> QED BY <1>0, <2>3, <2>5, <2>8, StrayedLess
<1>5. ASSUME NEW w \in Workers, CommitIssue(w) PROVE StrayedExplained' /\ NotYetCancelled'
  <2> DEFINE r == Row(job[w])
  <2>1. /\ job[w].pc = "commit" /\ Answers(job[w]) /\ invoices' = invoices \cup {r}
        /\ UNCHANGED <<docs, spent>> /\ job'[w] = Idle /\ \A v \in Workers : v # w => job'[v] = job[v]
    BY <1>0, <1>5 DEF CommitIssue, Recorded, Finish, ShopInv, DocsOwned
  <2>2. r.ettn = job[w].ettn /\ r.status = job[w].status
    BY DEF Row
  <2>3. r.status = "sent" => docs[r.ettn].active
    BY <1>0, <2>1, <2>2 DEF NotYetCancelled
  <2>4. Strayed' \subseteq Strayed
    BY <2>1, <2>3 DEF Strayed, Believed, Cancelling
  <2>5. NotYetCancelled'
    BY <1>0, <2>1 DEF NotYetCancelled
  <2> QED BY <1>0, <2>1, <2>4, <2>5, StrayedLess
(* The call that withdraws a document is the one that will say so.         *)
<1>6. ASSUME NEW w \in Workers, CancelDoc(w) PROVE StrayedExplained' /\ NotYetCancelled'
  <2> DEFINE e == job[w].ettn
  <2>1. /\ job[w].pc = "cancel" /\ e \in Nat /\ job'[w].pc = "cancelled" /\ job'[w].ettn = e
        /\ invoices' = invoices /\ spent' = spent /\ \A v \in Workers : v # w => job'[v] = job[v]
    BY <1>0, <1>6 DEF CancelDoc, JobType, JobFields
  <2>2. DOMAIN docs' = DOMAIN docs /\ \A f \in DOMAIN docs : f # e => docs'[f] = docs[f]
    BY <1>6 DEF CancelDoc, Withdrawn
  <2>3. e \notin Strayed'
    BY <2>1 DEF Strayed, Cancelling
  <2>4. Strayed' \subseteq Strayed
    BY <2>1, <2>2, <2>3 DEF Strayed, Believed, Cancelling
  <2>5. \A v \in Workers : job[v].pc = "commit" /\ job[v].status = "sent" => job[v].ettn \in DOMAIN docs
    BY DEF ShopInv, DocsOwned, Answers
  <2>6. NotYetCancelled'
    BY <1>0, <2>1, <2>2, <2>5 DEF NotYetCancelled
  <2> QED BY <1>0, <2>1, <2>4, <2>6, StrayedLess
<1>7. ASSUME NEW w \in Workers, CommitCancel(w) PROVE StrayedExplained' /\ NotYetCancelled'
  <2> DEFINE e == job[w].ettn
             C(i) == IF i.ettn = e THEN [i EXCEPT !.status = "cancelled"] ELSE i
  <2>1. /\ job[w].pc = "cancelled" /\ invoices' = {C(i) : i \in invoices} /\ UNCHANGED <<docs, spent>>
        /\ job'[w] = Idle /\ \A v \in Workers : v # w => job'[v] = job[v]
    BY <1>0, <1>7 DEF CommitCancel, Finish
  <2>2. \A i \in invoices : i \in InvoiceType
    BY DEF TypeOK
  <2>3. \A i \in invoices : C(i).status = "sent" => C(i) = i /\ i.ettn # e
    BY <2>2 DEF InvoiceType
  <2> HIDE DEF C
  <2>4. \A d : Believed(d)' => Believed(d) /\ d # e
    BY <2>1, <2>3 DEF Believed
  <2>5. Strayed' \subseteq Strayed
    BY <2>1, <2>4 DEF Strayed, Cancelling
  <2>6. NotYetCancelled'
    BY <1>0, <2>1 DEF NotYetCancelled
  <2> QED BY <1>0, <2>1, <2>5, <2>6, StrayedLess
<1>8. ASSUME NEW w \in Workers, Crash(w) PROVE StrayedExplained' /\ NotYetCancelled'
  <2> DEFINE e == job[w].ettn
  <2>1. /\ UNCHANGED <<invoices, docs>> /\ job'[w] = Idle /\ \A v \in Workers : v # w => job'[v] = job[v]
        /\ spent'.crash = spent.crash + 1
    BY <1>0, <1>s, <1>8 DEF Crash, Finish
  <2>2. Strayed' \subseteq Strayed \cup {e}
    BY <2>1 DEF Strayed, Believed, Cancelling
  <2>3. NotYetCancelled'
    BY <1>0, <2>1 DEF NotYetCancelled
  <2> QED BY <1>0, <2>1, <2>2, <2>3, StrayedMore
<1>9. ASSUME NEW o \in Orders, DeleteOrder(o) PROVE StrayedExplained' /\ NotYetCancelled'
  <2>1. invoices' \subseteq invoices /\ UNCHANGED <<docs, job, spent>>
    BY <1>9 DEF DeleteOrder
  <2>2. Strayed' \subseteq Strayed
    BY <2>1 DEF Strayed, Believed, Cancelling
  <2>3. NotYetCancelled'
    BY <1>0, <2>1 DEF NotYetCancelled
  <2> QED BY <1>0, <2>1, <2>2, <2>3, StrayedLess
<1> QED BY <1>1, <1>2, <1>3, <1>4, <1>5, <1>6, <1>7, <1>8, <1>9 DEF Next, Issue, Cancel

(* An invoice the shop counts as sent has a valid document, but while a    *)
(* cancellation is about to commit and for every crash that lost such a    *)
(* commit, one each (routers/invoices.py:392-407).                         *)
THEOREM StrayedAreTraces == Spec => []StrayedExplained
<1>1. Init => StrayedInv
  <2> SUFFICES ASSUME Init PROVE StrayedInv
    OBVIOUS
  <2>1. DOMAIN docs = {} /\ spent.crash = 0 /\ \A w \in Workers : job[w].pc = "idle"
    BY EmptySeq DEF Init, Idle
  <2>2. Strayed = {} /\ NotYetCancelled
    BY <2>1 DEF Strayed, NotYetCancelled
  <2> QED BY <2>1, <2>2, FS_EmptySet DEF StrayedInv, StrayedExplained
<1>2. StrayedInv => StrayedExplained
  BY DEF StrayedInv
<1> QED BY <1>1, <1>2, InitType, NextType, InitShop, NextShop, NextStrayed, PTL DEF Spec
=============================================================================
