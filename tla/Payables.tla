------------------------------ MODULE Payables ------------------------------
(***************************************************************************)
(* Accounts payable: the requests ApService serves and the rows they read  *)
(* and write.  What happens to the events they announce is module          *)
(* Delivery; module PayablesSystem composes the two.                       *)
(*                                                                         *)
(* The database runs at READ COMMITTED, so a Prisma transaction is two     *)
(* steps when what it writes depends on what it read (PayRead, PayCommit)  *)
(* and one when it does not (ApproveInvoice).  After its commit a handler  *)
(* emits the event in process (Emit) and then adds a job to the queue      *)
(* (Enqueue).  Between two awaits any other request, or a crash, may step  *)
(* in.                                                                     *)
(*                                                                         *)
(* An outbox row stands for the event it announces; the row of a           *)
(* payment.made event also stands for the Payment row that the same        *)
(* transaction inserts, so the id of a payment is the id of its event.     *)
(***************************************************************************)
EXTENDS Integers

CONSTANTS
  Invoices,   \* ids of AP invoices
  EventIds,   \* ids of outbox rows; bounds the number of committed events
  Requests,   \* concurrent HTTP requests
  Amounts,    \* amounts a client asks to pay, negative ones too
  Total       \* invoice.totalAmount

ASSUME PayablesAssumption ==
  /\ Invoices \cap EventIds = {}
  /\ Amounts \subseteq Int
  /\ Total \in [Invoices -> Int]

VARIABLES
  status,   \* Invoice.status, "NONE" before the row exists
  paid,     \* sum of the amounts of the invoice's Payment rows
  outbox,   \* content of the OutboxEvent rows (and of the Payment rows)
  req,      \* where each request in flight stands, with its local variables
  batch     \* balances a payment run read and has not tried to pay yet

vars == <<status, paid, outbox, req, batch>>

InvoiceStatus == {"NONE", "PENDING_MATCH", "APPROVED", "PARTIALLY_PAID",
                  "PAID", "CANCELLED"}
Payable == {"APPROVED", "PARTIALLY_PAID"}

Row == [type : {"invoice.approved", "payment.made"}, invoice : Invoices,
        amount : Int]
Request == [pc : {"idle"}]
           \cup [pc : {"cancel"}, inv : Invoices]
           \cup [pc : {"pay"}, inv : Invoices, amt : Int, prior : Int,
                 from : Payable]
           \cup [pc : {"emit", "enqueue"}, ev : EventIds]

Idle == [pc |-> "idle"]
NoBatch == [i \in Invoices |-> 0]
Free(r) == req[r] = Idle /\ batch[r] = NoBatch

Payments  == {e \in DOMAIN outbox : outbox[e].type = "payment.made"}
Approvals == {e \in DOMAIN outbox : outbox[e].type = "invoice.approved"}

Init ==
  /\ status = [i \in Invoices |-> "NONE"]
  /\ paid = [i \in Invoices |-> 0]
  /\ outbox = [e \in {} |-> Idle]
  /\ req = [r \in Requests |-> Idle]
  /\ batch = [r \in Requests |-> NoBatch]

\* tx.outboxEvent.create in the committing transaction; the handler goes on
\* to emit the event.
Announce(r, e, type, i, a) ==
  /\ e \notin DOMAIN outbox
  /\ outbox' = [x \in DOMAIN outbox \cup {e} |->
                  IF x = e THEN [type |-> type, invoice |-> i, amount |-> a]
                           ELSE outbox[x]]
  /\ req' = [req EXCEPT ![r] = [pc |-> "emit", ev |-> e]]

-----------------------------------------------------------------------------
\* createInvoice without a three-way match, or with one that fails.
CreateInvoice(r, i) ==
  /\ Free(r)
  /\ status[i] = "NONE"
  /\ status' = [status EXCEPT ![i] = "PENDING_MATCH"]
  /\ UNCHANGED <<paid, outbox, req, batch>>

\* createInvoice whose three-way match succeeds: approved in the same commit.
CreateMatchedInvoice(r, i, e) ==
  /\ Free(r)
  /\ status[i] = "NONE"
  /\ status' = [status EXCEPT ![i] = "APPROVED"]
  /\ Announce(r, e, "invoice.approved", i, Total[i])
  /\ UNCHANGED <<paid, batch>>

\* manuallyApproveInvoice: nothing but the row's existence is tested.
ApproveInvoice(r, i, e) ==
  /\ Free(r)
  /\ status[i] # "NONE"
  /\ status' = [status EXCEPT ![i] = "APPROVED"]
  /\ Announce(r, e, "invoice.approved", i, Total[i])
  /\ UNCHANGED <<paid, batch>>

\* cancelInvoice up to its await of the update: the status test.
CancelRead(r, i) ==
  /\ Free(r)
  /\ status[i] = "PENDING_MATCH"
  /\ req' = [req EXCEPT ![r] = [pc |-> "cancel", inv |-> i]]
  /\ UNCHANGED <<status, paid, outbox, batch>>

\* cancelInvoice's update, which does not look at the status again.
CancelWrite(r) ==
  /\ req[r].pc = "cancel"
  /\ status' = [status EXCEPT ![req[r].inv] = "CANCELLED"]
  /\ req' = [req EXCEPT ![r] = Idle]
  /\ UNCHANGED <<paid, outbox, batch>>

\* The bound EventIds: no payment begins that could not be committed.
IdsLeft == DOMAIN outbox # EventIds

\* The read of recordPayment's transaction: guard, prior sum, status.
PayRead(r, i, a) ==
  /\ IdsLeft
  /\ status[i] \in Payable
  /\ req' = [req EXCEPT ![r] = [pc |-> "pay", inv |-> i, amt |-> a,
                                prior |-> paid[i], from |-> status[i]]]
  /\ UNCHANGED <<status, paid, outbox>>

\* recordPayment called by the payments endpoint.
RecordPayment(r, i, a) ==
  /\ Free(r)
  /\ PayRead(r, i, a)
  /\ UNCHANGED batch

\* A rule that takes the payment after a partial one for the last.
StatusAfterSecond(p) ==
  IF p.from = "PARTIALLY_PAID" \/ p.prior + p.amt >= Total[p.inv]
  THEN "PAID" ELSE "PARTIALLY_PAID"

\* The status recordPayment derives from what it read.
StatusAfter(p) ==
  CASE p.prior + p.amt >= Total[p.inv] -> "PAID"
    [] p.prior + p.amt < Total[p.inv] /\ p.prior + p.amt > 0 -> "PARTIALLY_PAID"
    [] OTHER -> p.from

\* The commit of recordPayment's transaction.
PayCommit(r, e) ==
  /\ req[r].pc = "pay"
  /\ status' = [status EXCEPT ![req[r].inv] = StatusAfter(req[r])]
  /\ paid' = [paid EXCEPT ![req[r].inv] = @ + req[r].amt]
  /\ Announce(r, e, "payment.made", req[r].inv, req[r].amt)
  /\ UNCHANGED batch

\* The transaction is rolled back (timeout, lost connection).
PayAbort(r) ==
  /\ req[r].pc = "pay"
  /\ req' = [req EXCEPT ![r] = Idle]
  /\ UNCHANGED <<status, paid, outbox, batch>>

\* The balance a payment run reads, 0 when it will report FAILED.
Balance(i, selected) ==
  IF i \in selected /\ status[i] \in Payable /\ Total[i] > paid[i]
  THEN Total[i] - paid[i] ELSE 0

\* runPaymentBatch reads every selected invoice once, up front.
RunPaymentBatch(r, selected) ==
  /\ Free(r) /\ IdsLeft
  /\ batch' = [batch EXCEPT ![r] = [i \in Invoices |-> Balance(i, selected)]]
  /\ UNCHANGED <<status, paid, outbox, req>>

\* One turn of its loop: recordPayment of the balance read at the start.
BatchPay(r, i) ==
  /\ req[r] = Idle
  /\ batch[r][i] > 0
  /\ PayRead(r, i, batch[r][i])
  /\ batch' = [batch EXCEPT ![r][i] = 0]

\* One turn whose recordPayment refuses the status: a FAILED result.
BatchReject(r, i) ==
  /\ req[r] = Idle
  /\ batch[r][i] > 0
  /\ status[i] \notin Payable
  /\ batch' = [batch EXCEPT ![r][i] = 0]
  /\ UNCHANGED <<status, paid, outbox, req>>

\* eventEmitter.emit after the commit.
Emit(r) ==
  /\ req[r].pc = "emit"
  /\ req' = [req EXCEPT ![r] = [pc |-> "enqueue", ev |-> req[r].ev]]
  /\ UNCHANGED <<status, paid, outbox, batch>>

\* await outboxQueue.add, whether it succeeds or rejects.
Enqueue(r) ==
  /\ req[r].pc = "enqueue"
  /\ req' = [req EXCEPT ![r] = Idle]
  /\ UNCHANGED <<status, paid, outbox, batch>>

\* The API process dies: requests vanish, open transactions roll back.
Crash ==
  /\ req' = [r \in Requests |-> Idle]
  /\ batch' = [r \in Requests |-> NoBatch]
  /\ UNCHANGED <<status, paid, outbox>>

-----------------------------------------------------------------------------
\* Steps that commit event e.
Commit(r, e) ==
  \/ \E i \in Invoices : CreateMatchedInvoice(r, i, e) \/ ApproveInvoice(r, i, e)
  \/ PayCommit(r, e)

\* Steps that neither commit, emit nor enqueue an event.
Local(r) ==
  \/ \E i \in Invoices : CreateInvoice(r, i) \/ CancelRead(r, i)
  \/ CancelWrite(r)
  \/ \E i \in Invoices, a \in Amounts : RecordPayment(r, i, a)
  \/ PayAbort(r)
  \/ \E selected \in (SUBSET Invoices) \ {{}} : RunPaymentBatch(r, selected)
  \/ \E i \in Invoices : BatchPay(r, i) \/ BatchReject(r, i)

Next ==
  \/ \E r \in Requests, e \in EventIds : Commit(r, e)
  \/ \E r \in Requests : Local(r) \/ Emit(r) \/ Enqueue(r)
  \/ Crash

Spec == Init /\ [][Next]_vars

-----------------------------------------------------------------------------
\* Every variable of the accounts-payable service stays in its type; a payment
\* run never holds a negative balance.
TypeOK ==
  /\ status \in [Invoices -> InvoiceStatus]
  /\ paid \in [Invoices -> Int]
  /\ DOMAIN outbox \subseteq EventIds
  /\ outbox \in [DOMAIN outbox -> Row]
  /\ req \in [Requests -> Request]
  /\ batch \in [Requests -> [Invoices -> Nat]]

\* recordPayment takes negative amounts: such a payment takes back others.
TakenBack(i) == \E p \in Payments : outbox[p].invoice = i /\ outbox[p].amount < 0

\* recordPayment and runPaymentBatch: whatever payments race on an invoice,
\* and whatever approvals and cancellations come between their read and their
\* commit, an invoice that says PAID has payments for its whole total, unless a
\* negative one took some of them back.
PaidIsCovered ==
  \A i \in Invoices : status[i] = "PAID" /\ ~TakenBack(i) => paid[i] >= Total[i]

\* recordPayment: no payment exists for an invoice that no transaction ever
\* approved, also when the approval, the cancellation and the payment overlap.
PaymentsAreApproved ==
  \A p \in Payments : \E a \in Approvals : outbox[a].invoice = outbox[p].invoice

\* Payments as a whole: what they cover and what they were made for.
PaymentsHold == PaidIsCovered /\ PaymentsAreApproved

\* Comment of runPaymentBatch: a run settles each invoice's remaining balance,
\* so when only runs pay, no invoice is paid more than its total.
NeverOverpaid == \A i \in Invoices : paid[i] <= Total[i]
=============================================================================
