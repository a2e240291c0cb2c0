-------------------------- MODULE PayablesProofs ----------------------------
(***************************************************************************)
(* Proofs about accounts payable, for any invoices, requests and amounts:  *)
(* first of Payables alone, then of the system it forms with the outbox,   *)
(* the ledger listener and the audit listener, for any number of faults.   *)
(***************************************************************************)
EXTENDS PayablesSystem, TLAPS

(***************************************************************************)
(* Payables.  What it promises is not inductive on its own: a payment      *)
(* between its read and its commit must have read no more than was paid,   *)
(* and a status beyond approval must come from an approval.                *)
(***************************************************************************)

Approved(i) == \E a \in Approvals : outbox[a].invoice = i

\* A payment between its read and its commit read a sum that can only have
\* grown since, and a status that an approval gave.
PaymentInFlightInv ==
  \A r \in Requests : req[r].pc = "pay" =>
    /\ TakenBack(req[r].inv) \/ req[r].prior <= paid[req[r].inv]
    /\ Approved(req[r].inv)

\* A status beyond approval comes from an approval.
StatusInv ==
  \A i \in Invoices : status[i] \in Payable => Approved(i)

IInv == TypeOK /\ PaidIsCovered /\ PaymentsAreApproved
        /\ PaymentInFlightInv /\ StatusInv

-----------------------------------------------------------------------------
\* Adding a row keeps the rows that were there and adds a well-typed one.
LEMMA AnnounceFacts ==
  ASSUME TypeOK, NEW r \in Requests, NEW e \in EventIds,
         NEW type \in {"invoice.approved", "payment.made"},
         NEW i \in Invoices, NEW a \in Int,
         Announce(r, e, type, i, a)
  PROVE  /\ DOMAIN outbox' = DOMAIN outbox \cup {e}
         /\ outbox' \in [DOMAIN outbox' -> Row]
         /\ \A x \in DOMAIN outbox : outbox'[x] = outbox[x]
         /\ outbox'[e] = [type |-> type, invoice |-> i, amount |-> a]
         /\ req' \in [Requests -> Request]
         /\ \A q \in Requests : req'[q].pc = "pay" => req'[q] = req[q]
  BY DEF Announce, TypeOK, Row, Request

\* Approvals are never taken back.
LEMMA ApprovedStays ==
  ASSUME \A x \in DOMAIN outbox : x \in DOMAIN outbox' /\ outbox'[x] = outbox[x],
         NEW i, Approved(i)
  PROVE  Approved(i)'
  BY DEF Approved, Approvals

\* What was taken back stays taken back.
LEMMA TakenBackStays ==
  ASSUME \A x \in DOMAIN outbox : x \in DOMAIN outbox' /\ outbox'[x] = outbox[x],
         NEW i, TakenBack(i)
  PROVE  TakenBack(i)'
  BY DEF TakenBack, Payments

\* What a payment's commit writes is a status of a payable invoice.
LEMMA StatusAfterType ==
  ASSUME PayablesAssumption, NEW p,
         p \in [pc : {"pay"}, inv : Invoices, amt : Int, prior : Int,
                from : Payable]
  PROVE  /\ StatusAfter(p) \in {"PAID", "APPROVED", "PARTIALLY_PAID"}
         /\ StatusAfter(p) = "PAID" => p.prior + p.amt >= Total[p.inv]
  BY DEF StatusAfter, Payable, PayablesAssumption

\* A request that is paying holds the local variables of a payment.
LEMMA PayRequest ==
  ASSUME TypeOK, NEW r \in Requests, req[r].pc = "pay"
  PROVE  req[r] \in [pc : {"pay"}, inv : Invoices, amt : Int, prior : Int,
                     from : Payable]
  BY DEF TypeOK, Request

LEMMA InitInv == PayablesAssumption /\ Init => IInv
  BY DEF PayablesAssumption, Init, IInv, TypeOK, PaidIsCovered,
         PaymentsAreApproved, PaymentInFlightInv, StatusInv, Payments, Idle,
         NoBatch, InvoiceStatus, Request, Payable, Row

\* The type invariant is inductive.
LEMMA TypeStep == PayablesAssumption /\ TypeOK /\ [Next]_vars => TypeOK'
<1> SUFFICES ASSUME PayablesAssumption, TypeOK, [Next]_vars PROVE TypeOK'
  OBVIOUS
<1> USE DEF PayablesAssumption
<1>1. ASSUME NEW r \in Requests, NEW e \in EventIds, NEW i \in Invoices,
             CreateMatchedInvoice(r, i, e) \/ ApproveInvoice(r, i, e)
      PROVE  TypeOK'
  <2>1. Announce(r, e, "invoice.approved", i, Total[i]) /\ Total[i] \in Int
    BY <1>1 DEF CreateMatchedInvoice, ApproveInvoice
  <2>2. status' \in [Invoices -> InvoiceStatus]
    BY <1>1 DEF CreateMatchedInvoice, ApproveInvoice, TypeOK, InvoiceStatus
  <2>3. UNCHANGED <<paid, batch>>
    BY <1>1 DEF CreateMatchedInvoice, ApproveInvoice
  <2>4. /\ DOMAIN outbox' = DOMAIN outbox \cup {e}
        /\ outbox' \in [DOMAIN outbox' -> Row]
        /\ req' \in [Requests -> Request]
    BY <2>1, AnnounceFacts
  <2>. QED
    BY <2>2, <2>3, <2>4 DEF TypeOK
<1>2. ASSUME NEW r \in Requests, NEW e \in EventIds, PayCommit(r, e)
      PROVE  TypeOK'
  <2>1. req[r] \in [pc : {"pay"}, inv : Invoices, amt : Int, prior : Int,
                    from : Payable]
    BY <1>2, PayRequest DEF PayCommit
  <2>2. Announce(r, e, "payment.made", req[r].inv, req[r].amt)
    BY <1>2 DEF PayCommit
  <2>3. status' \in [Invoices -> InvoiceStatus]
    BY <1>2, <2>1, StatusAfterType DEF PayCommit, TypeOK, InvoiceStatus
  <2>4. paid' \in [Invoices -> Int] /\ UNCHANGED batch
    BY <1>2, <2>1 DEF PayCommit, TypeOK
  <2>5. /\ DOMAIN outbox' = DOMAIN outbox \cup {e}
        /\ outbox' \in [DOMAIN outbox' -> Row]
        /\ req' \in [Requests -> Request]
    BY <2>1, <2>2, AnnounceFacts
  <2>. QED
    BY <2>3, <2>4, <2>5 DEF TypeOK
<1>3. ASSUME NEW r \in Requests, NEW i \in Invoices,
             CreateInvoice(r, i) \/ CancelRead(r, i)
      PROVE  TypeOK'
  <2>1. CASE CreateInvoice(r, i)
    BY <2>1 DEF CreateInvoice, TypeOK, InvoiceStatus
  <2>2. CASE CancelRead(r, i)
    <3>1. [pc |-> "cancel", inv |-> i] \in Request
      BY DEF Request
    <3>. QED
      BY <2>2, <3>1 DEF CancelRead, TypeOK
  <2>. QED
    BY <1>3, <2>1, <2>2
<1>4. ASSUME NEW r \in Requests, CancelWrite(r)
      PROVE  TypeOK'
  BY <1>4 DEF CancelWrite, TypeOK, InvoiceStatus, Request, Idle
<1>5. ASSUME NEW r \in Requests, NEW i \in Invoices, NEW a \in Amounts,
             RecordPayment(r, i, a)
      PROVE  TypeOK'
  BY <1>5 DEF RecordPayment, PayRead, TypeOK, Request
<1>6. ASSUME NEW r \in Requests, PayAbort(r) \/ Emit(r) \/ Enqueue(r)
      PROVE  TypeOK'
  <2>1. PICK s \in Request : req' = [req EXCEPT ![r] = s]
    <3>1. CASE PayAbort(r) \/ Enqueue(r)
      BY <3>1 DEF PayAbort, Enqueue, Request, Idle
    <3>2. CASE Emit(r)
      <4>1. req[r].ev \in EventIds
        BY <3>2 DEF Emit, TypeOK, Request
      <4> QED
        BY <3>2, <4>1 DEF Emit, Request
    <3> QED
      BY <1>6, <3>1, <3>2
  <2>2. UNCHANGED <<status, paid, outbox, batch>>
    BY <1>6 DEF PayAbort, Emit, Enqueue
  <2>. QED
    BY <2>1, <2>2 DEF TypeOK
<1>7. ASSUME NEW r \in Requests, NEW selected, RunPaymentBatch(r, selected)
      PROVE  TypeOK'
  <2>1. \A i \in Invoices : Balance(i, selected) \in Nat
    BY DEF Balance, TypeOK
  <2>. QED
    BY <1>7, <2>1 DEF RunPaymentBatch, TypeOK
<1>8. ASSUME NEW r \in Requests, NEW i \in Invoices,
             BatchPay(r, i) \/ BatchReject(r, i)
      PROVE  TypeOK'
  <2>1. batch' \in [Requests -> [Invoices -> Nat]]
    BY <1>8 DEF BatchPay, BatchReject, TypeOK
  <2>2. CASE BatchPay(r, i)
    <3>1. batch[r][i] \in Nat
      BY DEF TypeOK
    <3>2. req' \in [Requests -> Request] /\ UNCHANGED <<status, paid, outbox>>
      BY <2>2, <3>1 DEF BatchPay, PayRead, TypeOK, Request
    <3>. QED
      BY <2>1, <3>2 DEF TypeOK
  <2>3. CASE BatchReject(r, i)
    BY <2>1, <2>3 DEF BatchReject, TypeOK
  <2>. QED
    BY <1>8, <2>2, <2>3
<1>9. CASE Crash
  BY <1>9 DEF Crash, TypeOK, Request, Idle, NoBatch
<1>10. CASE UNCHANGED vars
  BY <1>10 DEF vars, TypeOK
<1>. QED
  BY <1>1, <1>2, <1>3, <1>4, <1>5, <1>6, <1>7, <1>8, <1>9, <1>10
     DEF Next, Commit, Local

\* Every variable of Payables keeps its type, for any constants.
THEOREM TypeCorrect == Spec => []TypeOK
<1>1. Init => TypeOK
  BY InitInv, PayablesAssumption DEF IInv
<1>2. TypeOK /\ [Next]_vars => TypeOK'
  BY TypeStep, PayablesAssumption
<1>. QED
  BY <1>1, <1>2, PTL DEF Spec

-----------------------------------------------------------------------------
\* The inductive invariant is preserved.  Only a commit touches the rows, the
\* payments or a status beyond approval; every other step either starts a
\* payment from what it reads or forgets one.
LEMMA InvStep == PayablesAssumption /\ IInv /\ [Next]_vars => IInv'
<1> SUFFICES ASSUME PayablesAssumption, IInv, [Next]_vars PROVE IInv'
  OBVIOUS
<1> USE DEF PayablesAssumption
<1>0. TypeOK /\ TypeOK'
  BY TypeStep DEF IInv
<1>1. ASSUME NEW r \in Requests, NEW e \in EventIds, NEW i \in Invoices,
             CreateMatchedInvoice(r, i, e) \/ ApproveInvoice(r, i, e)
      PROVE  IInv'
  <2>1. /\ Announce(r, e, "invoice.approved", i, Total[i])
        /\ Total[i] \in Int
        /\ status' = [status EXCEPT ![i] = "APPROVED"]
        /\ UNCHANGED paid
    BY <1>1 DEF CreateMatchedInvoice, ApproveInvoice
  <2>2. /\ DOMAIN outbox' = DOMAIN outbox \cup {e}
        /\ \A x \in DOMAIN outbox : outbox'[x] = outbox[x]
        /\ outbox'[e] = [type |-> "invoice.approved", invoice |-> i,
                         amount |-> Total[i]]
        /\ \A q \in Requests : req'[q].pc = "pay" => req'[q] = req[q]
    BY <1>0, <2>1 DEF Announce, TypeOK
  <2>3. Approved(i)'
    BY <2>2 DEF Approved, Approvals
  <2>4. \A j : Approved(j) => Approved(j)'
    BY <2>2, ApprovedStays
  <2>12. \A j : TakenBack(j) => TakenBack(j)'
    BY <2>2, TakenBackStays
  <2>5. PaidIsCovered'
    BY <1>0, <2>1, <2>12 DEF IInv, PaidIsCovered, TypeOK
  <2>6. PaymentsAreApproved'
    <3>1. Payments' = Payments
      BY <2>1, <2>2 DEF Payments, Announce
    <3>2. \A p \in Payments : Approved(outbox[p].invoice)
      BY DEF IInv, PaymentsAreApproved, Approved
    <3>. QED
      BY <2>2, <2>4, <3>1, <3>2 DEF PaymentsAreApproved, Approved, Payments
  <2>7. PaymentInFlightInv'
    BY <2>1, <2>2, <2>4, <2>12 DEF IInv, PaymentInFlightInv
  <2>8. StatusInv'
    BY <1>0, <2>1, <2>3, <2>4 DEF IInv, StatusInv, TypeOK
  <2>. QED
    BY <1>0, <2>5, <2>6, <2>7, <2>8 DEF IInv
<1>2. ASSUME NEW r \in Requests, NEW e \in EventIds, PayCommit(r, e)
      PROVE  IInv'
  <2>1. req[r] \in [pc : {"pay"}, inv : Invoices, amt : Int, prior : Int,
                    from : Payable]
    BY <1>0, <1>2, PayRequest DEF PayCommit
  <2>14. PICK i \in Invoices, a \in Int : i = req[r].inv /\ a = req[r].amt
    BY <2>1
  <2>2. /\ Announce(r, e, "payment.made", i, a)
        /\ status' = [status EXCEPT ![i] = StatusAfter(req[r])]
        /\ paid' = [paid EXCEPT ![i] = @ + a]
    BY <1>2, <2>14 DEF PayCommit
  <2>3. /\ DOMAIN outbox' = DOMAIN outbox \cup {e}
        /\ \A x \in DOMAIN outbox : outbox'[x] = outbox[x]
        /\ outbox'[e] = [type |-> "payment.made", invoice |-> i,
                         amount |-> a]
        /\ \A q \in Requests : req'[q].pc = "pay" => req'[q] = req[q]
    BY <1>0, <2>2 DEF Announce, TypeOK
  <2>12. \A j : TakenBack(j) => TakenBack(j)'
    BY <2>3, TakenBackStays
  <2>13. a < 0 => TakenBack(i)'
    BY <2>3 DEF TakenBack, Payments
  <2>4. (TakenBack(i) \/ req[r].prior <= paid[i]) /\ Approved(i)
    BY <1>2, <2>14 DEF IInv, PaymentInFlightInv, PayCommit
  <2>5. \A j : Approved(j) => Approved(j)'
    BY <2>3, ApprovedStays
  <2>6. \A j \in Invoices : TakenBack(j)' \/ paid'[j] >= paid[j]
    <3> SUFFICES ASSUME NEW j \in Invoices PROVE TakenBack(j)' \/ paid'[j] >= paid[j]
      OBVIOUS
    <3>1. paid[j] \in Int /\ a \in Int
      BY <1>0, <2>1 DEF TypeOK
    <3>2. CASE j = i
      <4>1. paid'[j] = paid[j] + a
        BY <1>0, <2>2, <3>2 DEF TypeOK
      <4> QED
        BY <2>13, <3>1, <3>2, <4>1
    <3>3. CASE j # i
      BY <1>0, <2>2, <3>1, <3>3 DEF TypeOK
    <3> QED
      BY <3>2, <3>3
  <2>7. StatusAfter(req[r]) = "PAID" => req[r].prior + a >= Total[i]
    BY <2>1, <2>14, StatusAfterType
  <2>8. PaidIsCovered'
    <3>1. SUFFICES ASSUME NEW j \in Invoices, status'[j] = "PAID", ~TakenBack(j)'
                   PROVE  paid'[j] >= Total[j]
      BY DEF PaidIsCovered
    <3>2. CASE j = i
      <4>1. StatusAfter(req[r]) = "PAID" /\ paid'[i] = paid[i] + a
        BY <1>0, <2>1, <2>2, <3>1, <3>2 DEF TypeOK
      <4>2. req[r].prior <= paid[i]
        BY <2>4, <2>12, <3>1, <3>2
      <4>3. req[r].prior \in Int /\ paid[i] \in Int /\ Total[i] \in Int
        BY <1>0, <2>1 DEF TypeOK
      <4>. QED
        BY <2>7, <3>2, <4>1, <4>2, <4>3
    <3>3. CASE j # i
      BY <1>0, <2>1, <2>2, <2>12, <3>1, <3>3 DEF IInv, PaidIsCovered, TypeOK
    <3>. QED
      BY <3>2, <3>3
  <2>9. PaymentsAreApproved'
    <3>1. SUFFICES ASSUME NEW p \in Payments'
                   PROVE  Approved(outbox[p].invoice)'
      BY DEF PaymentsAreApproved, Approved
    <3>2. CASE p = e
      BY <2>3, <2>4, <2>5, <3>2
    <3>3. CASE p # e
      <4>1. p \in Payments /\ outbox'[p] = outbox[p]
        BY <2>3, <3>1, <3>3 DEF Payments
      <4>2. Approved(outbox[p].invoice)
        BY <4>1 DEF IInv, PaymentsAreApproved, Approved
      <4>. QED
        BY <2>5, <4>1, <4>2
    <3>. QED
      BY <3>2, <3>3
  <2>10. PaymentInFlightInv'
    <3>1. SUFFICES ASSUME NEW q \in Requests, req'[q].pc = "pay"
                   PROVE  /\ TakenBack(req[q].inv)' \/ (req[q].prior <= paid[req[q].inv])'
                          /\ Approved(req[q].inv)'
      BY DEF PaymentInFlightInv
    <3>2. req'[q] = req[q] /\ req[q].pc = "pay"
      BY <2>3, <3>1
    <3>3. PICK j \in Invoices, n \in Int : j = req[q].inv /\ n = req[q].prior
      BY <1>0, <3>2, PayRequest
    <3>4. (TakenBack(j) \/ n <= paid[j]) /\ Approved(j)
      BY <3>2, <3>3 DEF IInv, PaymentInFlightInv
    <3>5. paid[j] \in Int /\ paid'[j] \in Int
      BY <1>0 DEF TypeOK
    <3>6. TakenBack(j)' \/ n <= paid'[j]
      BY <2>6, <2>12, <3>3, <3>4, <3>5
    <3>. QED
      BY <2>5, <3>2, <3>3, <3>4, <3>6
  <2>11. StatusInv'
    BY <1>0, <2>1, <2>2, <2>4, <2>5 DEF IInv, StatusInv, TypeOK
  <2>. QED
    BY <1>0, <2>8, <2>9, <2>10, <2>11 DEF IInv
<1>3. ASSUME NEW r \in Requests, NEW i \in Invoices, NEW a \in Int,
             PayRead(r, i, a)
      PROVE  IInv'
  <2>1. /\ status[i] \in Payable
        /\ req' = [req EXCEPT ![r] = [pc |-> "pay", inv |-> i, amt |-> a,
                                      prior |-> paid[i], from |-> status[i]]]
        /\ UNCHANGED <<status, paid, outbox>>
    BY <1>3 DEF PayRead
  <2>2. Approved(i) /\ paid[i] \in Int
    BY <1>0, <2>1 DEF IInv, StatusInv, TypeOK
  <2>3. PaymentInFlightInv'
    BY <1>0, <2>1, <2>2
       DEF IInv, PaymentInFlightInv, TypeOK, Approved, Approvals, TakenBack, Payments
  <2>. QED
    BY <1>0, <2>1, <2>3
       DEF IInv, PaidIsCovered, PaymentsAreApproved, StatusInv, Payments,
           Approved, Approvals, TakenBack
<1>4. ASSUME /\ UNCHANGED <<paid, outbox>>
             /\ \A i \in Invoices : status'[i] # status[i]
                  => status'[i] \in {"PENDING_MATCH", "CANCELLED"}
             /\ \A q \in Requests : req'[q].pc = "pay" => req'[q] = req[q]
      PROVE  IInv'
  BY <1>0, <1>4
     DEF IInv, PaidIsCovered, PaymentsAreApproved, PaymentInFlightInv,
         StatusInv, Payments, Approved, Approvals, Payable, TakenBack
<1>5. ASSUME NEW r \in Requests, NEW i \in Invoices,
             CreateInvoice(r, i) \/ CancelRead(r, i)
      PROVE  IInv'
  BY <1>0, <1>4, <1>5 DEF CreateInvoice, CancelRead, TypeOK
<1>6. ASSUME NEW r \in Requests, CancelWrite(r)
      PROVE  IInv'
  BY <1>0, <1>4, <1>6 DEF CancelWrite, TypeOK, Idle
<1>7. ASSUME NEW r \in Requests, PayAbort(r) \/ Emit(r) \/ Enqueue(r)
      PROVE  IInv'
  BY <1>0, <1>4, <1>7 DEF PayAbort, Emit, Enqueue, TypeOK, Idle
<1>8. ASSUME NEW r \in Requests, NEW selected, RunPaymentBatch(r, selected)
      PROVE  IInv'
  BY <1>4, <1>8 DEF RunPaymentBatch
<1>9. ASSUME NEW r \in Requests, NEW i \in Invoices, BatchPay(r, i)
      PROVE  IInv'
  <2>1. batch[r][i] \in Nat
    BY <1>0 DEF TypeOK
  <2>. QED
    BY <1>3, <1>9, <2>1 DEF BatchPay
<1>10. ASSUME NEW r \in Requests, NEW i \in Invoices, BatchReject(r, i)
       PROVE  IInv'
  BY <1>4, <1>10 DEF BatchReject
<1>11. ASSUME NEW r \in Requests, NEW i \in Invoices, NEW a \in Amounts,
              RecordPayment(r, i, a)
       PROVE  IInv'
  BY <1>3, <1>11 DEF RecordPayment
<1>12. CASE Crash
  BY <1>4, <1>12 DEF Crash, Idle
<1>13. CASE UNCHANGED vars
  BY <1>4, <1>13 DEF vars
<1>. QED
  BY <1>1, <1>2, <1>5, <1>6, <1>7, <1>8, <1>9, <1>10, <1>11, <1>12, <1>13
     DEF Next, Commit, Local

LEMMA InvCorrect == Spec => []IInv
<1>1. Init => IInv
  BY InitInv, PayablesAssumption
<1>2. IInv /\ [Next]_vars => IInv'
  BY InvStep, PayablesAssumption
<1>. QED
  BY <1>1, <1>2, PTL DEF Spec

\* recordPayment and runPaymentBatch: an invoice that says PAID has payments for its
\* whole total unless a negative one took some back, and money is only recorded
\* against an invoice some transaction approved, however payments, approvals and
\* cancellations race.
THEOREM PaymentsAlwaysHold == Spec => []PaymentsHold
<1>1. IInv => PaymentsHold
  BY DEF IInv, PaymentsHold
<1>. QED
  BY <1>1, InvCorrect, PTL

-----------------------------------------------------------------------------
(***************************************************************************)
(* PayablesSystem.  Each of its steps is a step of Payables and one of     *)
(* Delivery, or leaves the other's variables alone, so that the invariants *)
(* of both hold of it; what is particular to it is that an approval's      *)
(* event carries the invoice's total.                                      *)
(***************************************************************************)

DP == INSTANCE DeliveryProofs WITH event <- EventOf, handlers <- HandlersOf,
                                   Amounts <- Int

\* The amount of an approval is the invoice's total.
RowsInv ==
  \A e \in DOMAIN outbox :
    outbox[e].type = "invoice.approved" => outbox[e].amount = Total[outbox[e].invoice]

SystemIInv == TypeOK /\ RowsInv /\ DP!IInv /\ DP!AmountInv /\ DP!LandsInv

LEMMA Assumed == DP!DeliveryAssumption
BY SystemAssumption DEF DP!DeliveryAssumption

\* Each step of the system is one of Payables, ...
LEMMA StepOfPayables == [SystemNext]_systemVars => [Next]_vars
BY DEF SystemNext, systemVars, Next, SystemCommit, SystemEmit, SystemEnqueue

LEMMA BackgroundIs == ASSUME D!Background PROVE DP!Background
<1>1. ASSUME NEW t \in tasks, D!Listen(t) \/ D!ListenerFails(t)
      PROVE DP!Listen(t) \/ DP!ListenerFails(t)
  BY <1>1 DEF D!Listen, DP!Listen, D!ListenerFails, DP!ListenerFails, D!GlCheck, DP!GlCheck,
     D!FindPeriod, DP!FindPeriod, D!CreatePeriod, DP!CreatePeriod, D!GoesOn, DP!GoesOn,
     D!HasTenant, DP!HasTenant, D!GlPost, DP!GlPost, D!AuditRecord, DP!AuditRecord,
     D!Known, DP!Known, D!Source, DP!Source
<1>2. ASSUME NEW e \in EventIds, D!Process(e) PROVE DP!Process(e)
  BY <1>2 DEF D!Process, DP!Process, D!Deliveries, DP!Deliveries, D!Source, DP!Source
<1>3. ASSUME NEW j \in active, D!MarkProcessed(j) \/ D!Ack(j)
      PROVE  DP!MarkProcessed(j) \/ DP!Ack(j)
  BY <1>3 DEF D!MarkProcessed, DP!MarkProcessed, D!Ack, DP!Ack
<1>4. ASSUME NEW j \in active, D!MarkFailed(j) PROVE DP!MarkFailed(j)
  BY <1>4 DEF D!MarkFailed, DP!MarkFailed
<1>5. (D!ClosePeriod => DP!ClosePeriod) /\ (D!OpenFiscalPeriod => DP!OpenFiscalPeriod)
  BY DEF D!ClosePeriod, DP!ClosePeriod, D!OpenFiscalPeriod, DP!OpenFiscalPeriod
<1> QED
  BY <1>1, <1>2, <1>3, <1>4, <1>5 DEF D!Background, DP!Background, D!Work, DP!Work

\* A step of a request that is not at an event leaves those that are.
LEMMA LocalIsQuiet ==
  ASSUME TypeOK, NEW r \in Requests, Local(r)
  PROVE  UNCHANGED <<EventOf, HandlersOf>>
<1>1. UNCHANGED outbox
  BY DEF Local, CreateInvoice, CancelRead, CancelWrite, RecordPayment, PayRead, PayAbort,
         RunPaymentBatch, BatchPay, BatchReject
<1>2. UNCHANGED EventOf
  BY <1>1 DEF EventOf, SourceOf
<1>3. /\ req \in [Requests -> Request] /\ Idle.pc = "idle"
      /\ \A q \in Requests : Free(q) => req[q] = Idle
  BY DEF TypeOK, Idle, Free
<1>4. /\ \A q \in Requests \ {r} : req'[q] = req[q]
      /\ req' = req \/ (req[r].pc \notin {"emit", "enqueue"} /\ req'[r].pc \notin {"emit", "enqueue"})
  BY <1>3 DEF Local, CreateInvoice, CancelRead, CancelWrite, RecordPayment, PayRead, PayAbort,
         RunPaymentBatch, BatchPay, BatchReject
<1>5. UNCHANGED HandlersOf
  <2>1. CASE req' = req
    BY <2>1 DEF HandlersOf
  <2>2. CASE req' # req
    <3>1. PICK Q : Q = {q \in Requests : req[q].pc \in {"emit", "enqueue"}}
      OBVIOUS
    <3>2. Q = {q \in Requests : req'[q].pc \in {"emit", "enqueue"}} /\ r \notin Q
      BY <1>4, <2>2, <3>1
    <3>3. \A q \in Q : req'[q] = req[q]
      BY <1>4, <3>1, <3>2
    <3>4. HandlersOf = {req[q] : q \in Q} /\ HandlersOf' = {req'[q] : q \in Q}
      BY <3>1, <3>2 DEF HandlersOf
    <3> QED
      BY <3>3, <3>4
  <2> QED
    BY <2>1, <2>2
<1> QED
  BY <1>2, <1>5

\* What a commit writes of its event.
LEMMA CommitWrites ==
  ASSUME TypeOK, NEW r \in Requests, NEW e \in EventIds, Commit(r, e)
  PROVE  /\ e \notin DOMAIN outbox /\ DOMAIN outbox' = DOMAIN outbox \cup {e}
         /\ \A x \in DOMAIN outbox : outbox'[x] = outbox[x]
         /\ outbox'[e].invoice \in Invoices /\ outbox'[e].amount \in Int
         /\ outbox'[e].type \in {"invoice.approved", "payment.made"}
         /\ outbox'[e].type = "invoice.approved" => outbox'[e].amount = Total[outbox'[e].invoice]
         /\ req' = [req EXCEPT ![r] = [pc |-> "emit", ev |-> e]]
         /\ UNCHANGED batch
<1>1. ASSUME NEW i \in Invoices, CreateMatchedInvoice(r, i, e) \/ ApproveInvoice(r, i, e)
      PROVE  Announce(r, e, "invoice.approved", i, Total[i]) /\ UNCHANGED batch
  BY <1>1 DEF CreateMatchedInvoice, ApproveInvoice
<1>2. ASSUME PayCommit(r, e)
      PROVE  /\ Announce(r, e, "payment.made", req[r].inv, req[r].amt) /\ UNCHANGED batch
             /\ req[r].inv \in Invoices /\ req[r].amt \in Int
  BY <1>2, PayRequest DEF PayCommit
<1>3. ASSUME NEW type \in {"invoice.approved", "payment.made"}, NEW i \in Invoices,
             NEW a \in Int, Announce(r, e, type, i, a)
      PROVE  /\ e \notin DOMAIN outbox /\ DOMAIN outbox' = DOMAIN outbox \cup {e}
             /\ \A x \in DOMAIN outbox : outbox'[x] = outbox[x]
             /\ outbox'[e] = [type |-> type, invoice |-> i, amount |-> a]
             /\ req' = [req EXCEPT ![r] = [pc |-> "emit", ev |-> e]]
  BY <1>3 DEF Announce
<1>4. ASSUME PayCommit(r, e)
      PROVE  /\ outbox'[e] = [type |-> "payment.made", invoice |-> req[r].inv,
                              amount |-> req[r].amt]
             /\ e \notin DOMAIN outbox /\ DOMAIN outbox' = DOMAIN outbox \cup {e}
             /\ \A x \in DOMAIN outbox : outbox'[x] = outbox[x]
             /\ req' = [req EXCEPT ![r] = [pc |-> "emit", ev |-> e]]
             /\ UNCHANGED batch
             /\ req[r].inv \in Invoices /\ req[r].amt \in Int
  <2>1. PICK i \in Invoices : i = req[r].inv
    BY <1>2, <1>4
  <2>2. PICK a \in Int : a = req[r].amt
    BY <1>2, <1>4
  <2> QED
    BY <1>2, <1>3, <1>4, <2>1, <2>2
<1>5. ASSUME NEW i \in Invoices, CreateMatchedInvoice(r, i, e) \/ ApproveInvoice(r, i, e)
      PROVE  /\ outbox'[e] = [type |-> "invoice.approved", invoice |-> i, amount |-> Total[i]]
             /\ e \notin DOMAIN outbox /\ DOMAIN outbox' = DOMAIN outbox \cup {e}
             /\ \A x \in DOMAIN outbox : outbox'[x] = outbox[x]
             /\ req' = [req EXCEPT ![r] = [pc |-> "emit", ev |-> e]]
             /\ UNCHANGED batch /\ Total[i] \in Int
  BY <1>1, <1>3, <1>5, PayablesAssumption DEF PayablesAssumption
<1>6. CASE PayCommit(r, e)
  BY <1>4, <1>6
<1>7. CASE \E i \in Invoices : CreateMatchedInvoice(r, i, e) \/ ApproveInvoice(r, i, e)
  <2>1. PICK i \in Invoices : CreateMatchedInvoice(r, i, e) \/ ApproveInvoice(r, i, e)
    BY <1>7
  <2>2. PICK row : row = outbox'[e]
    OBVIOUS
  <2>3. row = [type |-> "invoice.approved", invoice |-> i, amount |-> Total[i]]
    BY <1>5, <2>1, <2>2
  <2>4. row.type = "invoice.approved" /\ row.invoice = i /\ row.amount = Total[i]
    BY <2>3
  <2> QED
    BY <1>5, <2>1, <2>2, <2>4
<1> QED
  BY <1>6, <1>7 DEF Commit

\* ... and one of Delivery, with the events and handlers that Payables has.
LEMMA StepOfDelivery ==
  ASSUME TypeOK, [SystemNext]_systemVars
  PROVE  [DP!Next]_(DP!vars)
<1>1. ASSUME NEW r \in Requests, NEW e \in EventIds, SystemCommit(r, e) PROVE DP!Next
  <2>1. D!Commit(e, EventOf'[e].source, EventOf'[e].amount) /\ Commit(r, e)
    BY <1>1 DEF SystemCommit
  <2>2. /\ EventOf'[e].source \in Sources
        /\ EventOf'[e].amount \in Int
    BY <2>1, CommitWrites DEF EventOf, SourceOf, Sources
  <2>3. PICK s \in Sources, a \in Int : s = EventOf'[e].source /\ a = EventOf'[e].amount
    BY <2>2
  <2>4. DP!Commit(e, s, a)
    BY <2>1, <2>3 DEF D!Commit, DP!Commit
  <2> QED
    BY <2>4 DEF DP!Next
<1>2. ASSUME NEW r \in Requests, SystemEmit(r) PROVE DP!Next
  <2>1. req[r].ev \in EventIds
    BY <1>2 DEF SystemEmit, Emit, TypeOK, Request
  <2>2. DP!Emit(req[r].ev)
    BY <1>2 DEF SystemEmit, D!Emit, DP!Emit, D!Deliveries, DP!Deliveries
  <2> QED
    BY <2>1, <2>2 DEF DP!Next, DP!Continue
<1>3. ASSUME NEW r \in Requests, SystemEnqueue(r) PROVE DP!Next
  <2>1. req[r].ev \in EventIds
    BY <1>3 DEF SystemEnqueue, Enqueue, TypeOK, Request
  <2>2. DP!Enqueue(req[r].ev) \/ DP!EnqueueFails(req[r].ev)
    BY <1>3 DEF SystemEnqueue, D!Enqueue, DP!Enqueue, D!EnqueueFails, DP!EnqueueFails
  <2> QED
    BY <2>1, <2>2 DEF DP!Next, DP!Continue
<1>4. ASSUME NEW r \in Requests, Local(r), UNCHANGED deliveryVars PROVE UNCHANGED DP!vars
  <2>1. UNCHANGED <<EventOf, HandlersOf>>
    BY <1>4, LocalIsQuiet
  <2> QED
    BY <1>4, <2>1 DEF DP!vars, deliveryVars
<1>5. ASSUME D!Background PROVE DP!Next
  BY <1>5, BackgroundIs DEF DP!Next
<1>6. ASSUME D!Crash PROVE DP!Next
  BY <1>6 DEF D!Crash, DP!Crash, DP!Next
<1>7. ASSUME UNCHANGED systemVars PROVE UNCHANGED DP!vars
  BY <1>7 DEF systemVars, vars, deliveryVars, DP!vars, EventOf, SourceOf, HandlersOf
<1> QED
  BY <1>1, <1>2, <1>3, <1>4, <1>5, <1>6, <1>7 DEF SystemNext

\* PayablesSystem: what Payables commits, emits and enqueues is delivered as
\* Delivery says.
LEMMA EventsAre ==
  /\ DOMAIN EventOf = DOMAIN outbox
  /\ \A x \in DOMAIN outbox : /\ EventOf[x].source = SourceOf(x)
                              /\ EventOf[x].amount = outbox[x].amount
BY DEF EventOf, SourceOf

LEMMA SystemStarts == ASSUME SystemInit PROVE DP!Init
BY DEF SystemInit, D!Init, DP!Init

LEMMA SystemInvInit == ASSUME SystemInit PROVE SystemIInv
<1>1. Init /\ DP!Init
  BY SystemStarts DEF SystemInit
<1>2. TypeOK
  BY <1>1, InitInv, PayablesAssumption DEF IInv
<1>3. DP!IInv /\ DP!AmountInv /\ DP!LandsInv
  BY <1>1, Assumed, DP!InitInv, DP!PostingInit
<1>4. RowsInv
  BY <1>1 DEF Init, RowsInv
<1> QED
  BY <1>2, <1>3, <1>4 DEF SystemIInv

LEMMA RowsStep ==
  ASSUME TypeOK, RowsInv, [SystemNext]_systemVars
  PROVE  RowsInv'
<1>1. ASSUME NEW r \in Requests, NEW e \in EventIds, Commit(r, e) PROVE RowsInv'
  <2>1. PICK row : row = outbox'[e]
    OBVIOUS
  <2>2. /\ DOMAIN outbox' = DOMAIN outbox \cup {e}
        /\ \A x \in DOMAIN outbox : outbox'[x] = outbox[x]
        /\ row.type = "invoice.approved" => row.amount = Total[row.invoice]
    BY <1>1, <2>1, CommitWrites
  <2> SUFFICES ASSUME NEW x \in DOMAIN outbox', outbox'[x].type = "invoice.approved"
               PROVE  outbox'[x].amount = Total[outbox'[x].invoice]
    BY DEF RowsInv
  <2>3. CASE x = e
    BY <2>1, <2>2, <2>3
  <2>4. CASE x # e
    BY <2>2, <2>4 DEF RowsInv
  <2> QED
    BY <2>3, <2>4
<1>2. ASSUME NEW r \in Requests, Local(r) \/ Emit(r) \/ Enqueue(r) PROVE UNCHANGED outbox
  BY <1>2 DEF Local, CreateInvoice, CancelRead, CancelWrite, RecordPayment, PayRead, PayAbort,
              RunPaymentBatch, BatchPay, BatchReject, Emit, Enqueue
<1>3. CASE UNCHANGED outbox
  BY <1>3 DEF RowsInv
<1> QED
  BY <1>1, <1>2, <1>3, StepOfPayables DEF Next, Crash, vars

LEMMA SystemInvStep == ASSUME SystemIInv, [SystemNext]_systemVars PROVE SystemIInv'
<1>1. TypeOK /\ RowsInv /\ DP!IInv /\ DP!AmountInv /\ DP!LandsInv
  BY DEF SystemIInv
<1>2. TypeOK' /\ RowsInv'
  BY <1>1, StepOfPayables, TypeStep, PayablesAssumption, RowsStep
<1>3. [DP!Next]_(DP!vars)
  BY <1>1, StepOfDelivery
<1>4. DP!IInv'
  BY <1>1, <1>3, Assumed, DP!InvStep
<1>5. DP!TypeOK /\ DP!TaskInv
  BY <1>1 DEF DP!IInv
<1>6. DP!AmountInv' /\ DP!LandsInv'
  BY <1>1, <1>3, <1>5, Assumed, DP!PostingStep
<1> QED
  BY <1>2, <1>4, <1>6 DEF SystemIInv

LEMMA InvImpliesFollows == ASSUME SystemIInv PROVE LedgerFollows
<1>1. TypeOK /\ RowsInv /\ DP!IInv /\ DP!AmountInv /\ DP!LandsInv
  BY DEF SystemIInv
<1>2. /\ DOMAIN EventOf = DOMAIN outbox /\ DOMAIN outbox \subseteq EventIds
      /\ \A e \in DOMAIN outbox : /\ EventOf[e].amount = outbox[e].amount
                                  /\ DP!Source(e) = SourceOf(e)
                                  /\ outbox[e] \in Row
  BY <1>1, EventsAre DEF DP!Source, TypeOK
<1>3. posts \in [Sources -> Nat] /\ Invoices \cap EventIds = {}
  BY <1>1, PayablesAssumption DEF DP!IInv, DP!TypeOK
<1>4. \A e \in DOMAIN outbox :
        /\ outbox[e].type = "payment.made" => e \in Payments /\ SourceOf(e) = e
        /\ outbox[e].type # "payment.made" => e \in Approvals /\ SourceOf(e) = outbox[e].invoice
        /\ outbox[e].invoice \in Invoices /\ outbox[e].amount \in Int
  BY <1>2 DEF Payments, Approvals, SourceOf, Row
<1>5. \A s \in Sources : posts[s] > 0 =>
        \E e \in DOMAIN outbox : SourceOf(e) = s /\ outbox[e].amount > 0
  BY <1>1, <1>2 DEF DP!AmountInv
<1>6. ASSUME NEW i \in Invoices, posts[i] > 0
      PROVE  \E a \in Approvals : outbox[a].invoice = i /\ outbox[a].amount > 0
  <2>1. PICK e \in DOMAIN outbox : SourceOf(e) = i /\ outbox[e].amount > 0
    BY <1>5, <1>6 DEF Sources
  <2>2. outbox[e].type # "payment.made"
    BY <1>2, <1>3, <1>4, <2>1
  <2> QED
    BY <1>4, <2>1, <2>2
<1>7. ASSUME NEW e \in EventIds, posts[e] > 0
      PROVE  e \in Payments /\ outbox[e].amount > 0 /\ posts[e] <= 1
  <2>1. PICK f \in DOMAIN outbox : SourceOf(f) = e /\ outbox[f].amount > 0
    BY <1>5, <1>7 DEF Sources
  <2>2. f = e /\ e \in Payments
    BY <1>3, <1>4, <2>1
  <2>3. DP!Unique(e)
    <3> SUFFICES ASSUME NEW g \in DOMAIN outbox, SourceOf(g) = SourceOf(e) PROVE g = e
      BY <1>2, <2>2 DEF DP!Unique
    <3> QED
      BY <1>3, <1>4, <2>1, <2>2
  <2>4. posts[e] <= 1
    BY <1>1, <1>2, <2>1, <2>2, <2>3 DEF DP!IInv, DP!SingleEventPostedOnce
  <2> QED
    BY <2>1, <2>2, <2>4
<1>8. LedgerIsBacked
  <2>1. \A e \in EventIds : posts[e] \in Nat
    BY <1>3 DEF Sources
  <2>2. ASSUME NEW i \in Invoices, posts[i] > 0
        PROVE  Total[i] > 0 /\ \E a \in Approvals : outbox[a].invoice = i
    <3>1. PICK a \in Approvals : outbox[a].invoice = i /\ outbox[a].amount > 0
      BY <1>6, <2>2
    <3>2. outbox[a].amount = Total[i]
      BY <1>1, <3>1 DEF RowsInv, Approvals
    <3> QED
      BY <3>1, <3>2
  <2> QED
    BY <1>7, <2>1, <2>2 DEF LedgerIsBacked
<1>9. ASSUME Quiet, faults = 0, period # "locked", NEW e \in DOMAIN outbox, outbox[e].amount > 0
      PROVE  posts[SourceOf(e)] > 0 \/ SourceOf(e) \in beaten
  <2>1. ~DP!Emitting(e) /\ \A t \in tasks : ~DP!Posting(t, e)
    BY <1>9 DEF Quiet, DP!Emitting, DP!Posting
  <2> QED
    BY <1>1, <1>2, <1>9, <2>1 DEF DP!LandsInv, DP!Landed
<1>10. LedgerTiesWhenQuiet
  <2> SUFFICES ASSUME Quiet, faults = 0, period # "locked"
               PROVE  /\ \A a \in Approvals :
                           LET i == outbox[a].invoice IN
                             Total[i] > 0 => posts[i] > 0 \/ i \in beaten
                      /\ \A p \in Payments :
                           outbox[p].amount > 0 => posts[p] = 1 \/ p \in beaten
    BY DEF LedgerTiesWhenQuiet
  <2>1. ASSUME NEW a \in Approvals
        PROVE  a \in DOMAIN outbox /\ outbox[a].amount = Total[outbox[a].invoice]
               /\ SourceOf(a) = outbox[a].invoice
    BY <1>1 DEF RowsInv, Approvals, SourceOf
  <2>2. ASSUME NEW a \in Approvals, Total[outbox[a].invoice] > 0
        PROVE  posts[outbox[a].invoice] > 0 \/ outbox[a].invoice \in beaten
    BY <1>9, <2>1, <2>2
  <2>3. ASSUME NEW p \in Payments, outbox[p].amount > 0 PROVE posts[p] = 1 \/ p \in beaten
    <3>1. p \in DOMAIN outbox /\ p \in EventIds /\ SourceOf(p) = p /\ posts[p] \in Nat
      BY <1>2, <1>3 DEF Payments, SourceOf, Sources
    <3>2. posts[p] > 0 \/ p \in beaten
      BY <1>9, <2>3, <3>1
    <3>3. posts[p] > 0 => posts[p] <= 1
      BY <1>7, <3>1
    <3> QED
      BY <3>1, <3>2, <3>3
  <2> QED
    BY <2>2, <2>3
<1> QED
  BY <1>8, <1>10 DEF LedgerFollows

\* ApService, the outbox and the listeners, for any invoices, requests and
\* number of faults: the ledger shows nothing the subledger does not back, and,
\* as long as nothing failed and the period is not closed, all of it once nothing
\* is under way, but for what found the month's period opened under it.
THEOREM LedgerAlwaysFollows == SystemSpec => []LedgerFollows
<1>1. SystemInit => SystemIInv
  BY SystemInvInit
<1>2. SystemIInv /\ [SystemNext]_systemVars => SystemIInv'
  BY SystemInvStep
<1>3. SystemIInv => LedgerFollows
  BY InvImpliesFollows
<1> QED
  BY <1>1, <1>2, <1>3, PTL DEF SystemSpec

\* The composition leaves Delivery as it is: with the events and handlers that
\* Payables has, the system is one.
THEOREM SystemDelivers == SystemSpec => DP!Spec
<1>1. SystemInit => SystemIInv /\ DP!Init
  BY SystemInvInit, SystemStarts
<1>2. SystemIInv /\ [SystemNext]_systemVars => SystemIInv'
  BY SystemInvStep
<1>3. SystemIInv /\ [SystemNext]_systemVars => [DP!Next]_(DP!vars)
  BY StepOfDelivery DEF SystemIInv
<1> QED
  BY <1>1, <1>2, <1>3, PTL DEF SystemSpec, DP!Spec
=============================================================================
