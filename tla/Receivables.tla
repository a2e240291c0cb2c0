---------------------------- MODULE Receivables ----------------------------
(***************************************************************************)
(* Sales orders, AR invoices and the payments received for them, with the  *)
(* listener that posts their events to the ledger.                         *)
(*                                                                         *)
(* Unlike accounts payable, these handlers emit their event before the     *)
(* transaction commits.  The ledger listener reads the row by its id on a  *)
(* connection of its own and gives up when it is not there yet.  The       *)
(* outbox row adds nothing here: what OutboxProcessor relays is never      *)
(* posted, and the audit listener writes what the event says (Delivery).   *)
(***************************************************************************)
EXTENDS Integers, FiniteSetsExt

CONSTANTS
  SalesOrders,   \* ids of sales orders
  ArInvoices,    \* ids of AR invoices
  Receipts,      \* ids of Payment rows; bounds the number of payments
  SalesRequests, \* concurrent HTTP requests
  ReceivedAmounts, \* amounts of the payments
  ArTotal,       \* what an order, and so its invoice, is worth
  ArAborts       \* bound on rolled back transactions

Direct == "no order"

ASSUME ReceivablesAssumption ==
  /\ Direct \notin SalesOrders
  /\ ArInvoices \cap Receipts = {}
  /\ ReceivedAmounts \subseteq Nat \ {0}
  /\ ArTotal \in Nat \ {0}
  /\ ArAborts \in Nat

VARIABLES
  order,      \* SalesOrder.status, "NONE" before the row exists
  bill,       \* AR invoices: status and sales order; "NONE" before the row
  receipt,    \* committed payments: invoice and amount
  sale,       \* where each request stands
  heard,      \* sources whose event the ledger has heard and not looked up yet
  revenue,    \* sourceIds of the AR journal entries
  contested,  \* invoices of which two payments overlapped
  aborts      \* rolled back transactions so far

receivablesVars ==
  <<order, bill, receipt, sale, heard, revenue, contested, aborts>>

Waiting == [pc |-> "idle"]
NoBill == [status |-> "NONE", so |-> Direct]
Issued(i) == bill[i].status # "NONE"

ReceivedFor(i) ==
  MapThenSumSet(LAMBDA p : receipt[p].amt,
                {p \in DOMAIN receipt : receipt[p].inv = i})

ReceivablesInit ==
  /\ order = [o \in SalesOrders |-> "NONE"]
  /\ bill = [i \in ArInvoices |-> NoBill]
  /\ receipt = [p \in {} |-> Waiting]
  /\ sale = [r \in SalesRequests |-> Waiting]
  /\ heard = {}
  /\ revenue = {}
  /\ contested = {}
  /\ aborts = 0

-----------------------------------------------------------------------------
(* Orders and invoices                                                     *)

\* createSalesOrder
CreateSalesOrder(o) ==
  /\ order[o] = "NONE"
  /\ order' = [order EXCEPT ![o] = "CONFIRMED"]
  /\ UNCHANGED <<bill, receipt, sale, heard, revenue, contested, aborts>>

\* An invoice row that a transaction has inserted and not committed.
Drafted == {sale[r].inv : r \in {q \in SalesRequests : sale[q].pc = "issue"}}
Unused(i) == ~Issued(i) /\ i \notin Drafted

\* createInvoice up to its outbox row: the row is inserted, the event emitted.
CreateInvoice(r, i) ==
  /\ sale[r] = Waiting
  /\ Unused(i)
  /\ sale' = [sale EXCEPT ![r] = [pc |-> "issue", inv |-> i, so |-> Direct]]
  /\ heard' = heard \cup {i}
  /\ UNCHANGED <<order, bill, receipt, revenue, contested, aborts>>

\* createInvoiceFromOrder: the status test.
InvoiceOrderRead(r, o) ==
  /\ sale[r] = Waiting
  /\ order[o] = "CONFIRMED"
  /\ sale' = [sale EXCEPT ![r] = [pc |-> "order", so |-> o]]
  /\ UNCHANGED <<order, bill, receipt, heard, revenue, contested, aborts>>

\* The invoice number derives from the order's and is unique: an insert waits
\* for one that is not committed and fails after one that is.
NumberFree(o) ==
  /\ \A i \in ArInvoices : bill[i].so # o
  /\ \A q \in SalesRequests : sale[q].pc = "issue" => sale[q].so # o

\* Its insert, the update of the order and the emit.
InvoiceOrder(r, i) ==
  /\ sale[r].pc = "order"
  /\ NumberFree(sale[r].so)
  /\ Unused(i)
  /\ sale' = [sale EXCEPT ![r] = [pc |-> "issue", inv |-> i, so |-> sale[r].so]]
  /\ heard' = heard \cup {i}
  /\ UNCHANGED <<order, bill, receipt, revenue, contested, aborts>>

\* Its insert when the number is taken: the request fails.
InvoiceOrderFails(r) ==
  /\ sale[r].pc = "order"
  /\ \E i \in ArInvoices : bill[i].so = sale[r].so
  /\ sale' = [sale EXCEPT ![r] = Waiting]
  /\ UNCHANGED <<order, bill, receipt, heard, revenue, contested, aborts>>

\* The commit of either.
IssueCommit(r) ==
  /\ sale[r].pc = "issue"
  /\ bill' = [bill EXCEPT ![sale[r].inv] =
                [status |-> "APPROVED", so |-> sale[r].so]]
  /\ order' = [o \in SalesOrders |->
                 IF o = sale[r].so THEN "INVOICED" ELSE order[o]]
  /\ sale' = [sale EXCEPT ![r] = Waiting]
  /\ UNCHANGED <<receipt, heard, revenue, contested, aborts>>

-----------------------------------------------------------------------------
(* Payments                                                                *)

\* Requests between their read of invoice i and their commit.
Paying(i) == {q \in SalesRequests : sale[q].pc \in {"pay", "paid"} /\ sale[q].inv = i}

\* recordPayment reads the invoice with its payments; any status will do.
ReceivePaymentRead(r, i, a) ==
  /\ sale[r] = Waiting
  /\ Issued(i)
  /\ sale' = [sale EXCEPT ![r] = [pc |-> "pay", inv |-> i, amt |-> a,
                                  prior |-> ReceivedFor(i)]]
  /\ contested' = IF Paying(i) = {} THEN contested ELSE contested \cup {i}
  /\ UNCHANGED <<order, bill, receipt, heard, revenue, aborts>>

\* PAID as soon as the invoice has had a payment before.
NewStatusAfterSecond(s) ==
  IF s.prior > 0 \/ s.amt >= ArTotal THEN "PAID" ELSE "PARTIALLY_PAID"

\* The status recordPayment computes; amounts are positive.
NewStatus(s) ==
  IF s.prior + s.amt >= ArTotal THEN "PAID" ELSE "PARTIALLY_PAID"

\* Payment inserted, invoice updated (its row stays locked until the
\* transaction ends), order updated, event emitted.
ReceivePaymentWrite(r, p) ==
  /\ sale[r].pc = "pay"
  /\ p \notin DOMAIN receipt
  /\ \A q \in SalesRequests : sale[q].pc = "paid" =>
       sale[q].inv # sale[r].inv /\ sale[q].pay # p
  /\ sale' = [sale EXCEPT ![r] = [pc |-> "paid", inv |-> @.inv, amt |-> @.amt,
                                  pay |-> p, status |-> NewStatus(@)]]
  /\ heard' = heard \cup {p}
  /\ UNCHANGED <<order, bill, receipt, revenue, contested, aborts>>

ReceivePaymentCommit(r) ==
  LET s == sale[r] IN
  /\ s.pc = "paid"
  /\ receipt' = [p \in DOMAIN receipt \cup {s.pay} |->
                   IF p = s.pay THEN [inv |-> s.inv, amt |-> s.amt] ELSE receipt[p]]
  /\ bill' = [bill EXCEPT ![s.inv].status = s.status]
  /\ order' = [o \in SalesOrders |->
                 IF o = bill[s.inv].so /\ s.status = "PAID" THEN "FULFILLED"
                                                          ELSE order[o]]
  /\ sale' = [sale EXCEPT ![r] = Waiting]
  /\ UNCHANGED <<heard, revenue, contested, aborts>>

\* A transaction that was under way is rolled back; its event is out.
SaleAborts(r) ==
  /\ aborts < ArAborts
  /\ sale[r] # Waiting
  /\ sale' = [sale EXCEPT ![r] = Waiting]
  /\ aborts' = aborts + 1
  /\ UNCHANGED <<order, bill, receipt, heard, revenue, contested>>

-----------------------------------------------------------------------------
(* Listeners                                                               *)

\* The row the event is about, as another connection sees it.
Found(src) == IF src \in ArInvoices THEN Issued(src) ELSE src \in DOMAIN receipt

\* handleInvoiceIssued, handlePaymentReceived: each event is emitted once, so
\* the duplicate lookup finds nothing.
PostReceivable(src) ==
  /\ heard' = heard \ {src}
  /\ revenue' = IF Found(src) THEN revenue \cup {src} ELSE revenue
  /\ UNCHANGED <<order, bill, receipt, sale, contested, aborts>>

-----------------------------------------------------------------------------
ReceivablesNext ==
  \/ \E o \in SalesOrders : CreateSalesOrder(o)
  \/ \E r \in SalesRequests :
       \/ \E i \in ArInvoices : CreateInvoice(r, i) \/ InvoiceOrder(r, i)
       \/ \E o \in SalesOrders : InvoiceOrderRead(r, o)
       \/ InvoiceOrderFails(r) \/ IssueCommit(r)
       \/ \E i \in ArInvoices, a \in ReceivedAmounts : ReceivePaymentRead(r, i, a)
       \/ \E p \in Receipts : ReceivePaymentWrite(r, p)
       \/ ReceivePaymentCommit(r) \/ SaleAborts(r)
  \/ \E src \in heard : PostReceivable(src)

ReceivablesSpec == ReceivablesInit /\ [][ReceivablesNext]_receivablesVars

-----------------------------------------------------------------------------
\* createInvoiceFromOrder: requests that pass its status test together bill an
\* order once, and the order is INVOICED or FULFILLED exactly when its invoice
\* exists.
OrderBilledOnce ==
  \A o \in SalesOrders :
    LET bills == {i \in ArInvoices : bill[i].so = o} IN
    /\ \A i, j \in bills : i = j
    /\ order[o] \in {"INVOICED", "FULFILLED"} <=> bills # {}

\* recordPayment: an order is FULFILLED only once its invoice is paid in full,
\* and it stays so when a payment that read less commits later.
FulfilledIsPaid ==
  \A o \in SalesOrders : order[o] = "FULFILLED" =>
    \E i \in ArInvoices : bill[i].so = o /\ ReceivedFor(i) >= ArTotal

\* recordPayment and getReconciliation: as long as no two payments of an
\* invoice overlapped, however aborts and other invoices interleave with them,
\* the invoice's status and its order's say exactly what was received.
SerialPaymentsSettle ==
  \A i \in ArInvoices : Issued(i) /\ i \notin contested =>
    /\ bill[i].status = "APPROVED" <=> ReceivedFor(i) = 0
    /\ bill[i].status = "PAID" <=> ReceivedFor(i) >= ArTotal
    /\ bill[i].so # Direct =>
         (order[bill[i].so] = "FULFILLED" <=> bill[i].status = "PAID")

\* getAgingReport takes the whole total of each APPROVED invoice: nothing was
\* received for one, also after payments that raced or were rolled back.
AgedIsUnpaid ==
  \A i \in ArInvoices : bill[i].status = "APPROVED" => ReceivedFor(i) = 0

\* handleInvoiceIssued and handlePaymentReceived: although the event is out
\* before the commit, the ledger has no entry for a row that was rolled back.
RevenueIsCommitted ==
  revenue \subseteq DOMAIN receipt \cup {i \in ArInvoices : Issued(i)}

\* Comment of createInvoice, "AR Invoices emit an event when issued to post to
\* the GL": when no listener is at work and nothing was rolled back, every
\* invoice and payment has its entry.
IssuedIsPosted ==
  (heard = {} /\ aborts = 0) =>
    /\ \A i \in ArInvoices : Issued(i) => i \in revenue
    /\ DOMAIN receipt \subseteq revenue

\* ArService and SalesOrderService together: an order is billed once, statuses and
\* the aging report say what was received, and revenue is backed by invoices.
BillingTellsTruth ==
  /\ OrderBilledOnce
  /\ FulfilledIsPaid
  /\ SerialPaymentsSettle
  /\ AgedIsUnpaid
  /\ RevenueIsCommitted
=============================================================================
