--------------------------- MODULE PurchaseOrders ---------------------------
(***************************************************************************)
(* Purchase orders and goods receipts: PurchaseService, and the listener   *)
(* that turns a goods.received event into a payable invoice.  What a       *)
(* receipt does to stock is module Inventory.                              *)
(*                                                                         *)
(* receiveGoods decides everything on the order and the lines it reads at  *)
(* the start of its transaction (ReceiveRead) and writes at its end        *)
(* (ReceiveCommit): the database adds the increments of concurrent         *)
(* receipts under the row locks of the lines, the order's status is        *)
(* overwritten.                                                            *)
(***************************************************************************)
EXTENDS Integers, FiniteSetsExt

CONSTANTS
  Orders,
  Lines,        \* purchase order lines
  OrderOf,      \* line -> its order
  Ordered,      \* line -> ordered quantity
  Deliveries,   \* ReceiveGoodsDto.lines: what a request names of each line.  A
                \* request may name a line twice (at most: a bound of the model)
  Receipts,     \* ids of goods receipts; bounds the number of receipts
  Requests,     \* concurrent HTTP requests
  MaxFaults     \* bound on crashes and failed invoice creations

ASSUME PurchaseAssumption ==
  /\ OrderOf \in [Lines -> Orders]
  /\ Ordered \in [Lines -> Nat \ {0}]
  /\ Deliveries \subseteq [Lines -> Nat \X Nat]
  /\ MaxFaults \in Nat

VARIABLES
  status,     \* PurchaseOrder.status, "NONE" before the row exists
  received,   \* PurchaseOrderLine.receivedQuantity
  receipts,   \* GoodsReceipt rows: the order, the quantity of each line
  bill,       \* where the goods.received listener of each receipt stands
  invoiced,   \* receipts whose listener created an invoice
  req,        \* where each request stands, with its local variables
  faults

vars == <<status, received, receipts, bill, invoiced, req, faults>>

OrderStatus == {"NONE", "DRAFT", "SUBMITTED", "APPROVED", "PARTIALLY_RECEIVED",
                "RECEIVED", "CANCELLED"}
Receivable == {"APPROVED", "PARTIALLY_RECEIVED"}
Cancellable == {"DRAFT", "SUBMITTED", "APPROVED"}

Idle == [pc |-> "idle"]
Request == [pc : {"idle"}]
           \cup [pc : {"cancel"}, order : Orders]
           \cup [pc : {"receive"}, order : Orders, qty : [Lines -> Nat],
                 full : BOOLEAN]
           \cup [pc : {"emit"}, receipt : Receipts]

LinesOf(o) == {l \in Lines : OrderOf[l] = o}
Remaining(l) == Ordered[l] - received[l]
NoLines == [l \in Lines |-> <<0, 0>>]
Nothing == [l \in Lines |-> 0]

Init ==
  /\ status = [o \in Orders |-> "NONE"]
  /\ received = Nothing
  /\ receipts = [g \in {} |-> Idle]
  /\ bill = [g \in Receipts |-> "none"]
  /\ invoiced = {}
  /\ req = [r \in Requests |-> Idle]
  /\ faults = 0

Goto(r, t) == req' = [req EXCEPT ![r] = t]

-----------------------------------------------------------------------------
\* createPurchaseOrder (SUBMITTED), or the reorder automation (DRAFT).
CreateOrder(o) ==
  /\ status[o] = "NONE"
  /\ \E s \in {"DRAFT", "SUBMITTED"} : status' = [status EXCEPT ![o] = s]
  /\ UNCHANGED <<received, receipts, bill, invoiced, req, faults>>

\* approvePurchaseOrder, which asks for no status but that the order exists.
ApproveOrder(o) ==
  /\ status[o] # "NONE"
  /\ status' = [status EXCEPT ![o] = "APPROVED"]
  /\ UNCHANGED <<received, receipts, bill, invoiced, req, faults>>

\* cancelPurchaseOrder: the status is checked, then overwritten.
CancelRead(r, o) ==
  /\ req[r] = Idle
  /\ status[o] \in Cancellable
  /\ Goto(r, [pc |-> "cancel", order |-> o])
  /\ UNCHANGED <<status, received, receipts, bill, invoiced, faults>>

CancelWrite(r) ==
  /\ req[r].pc = "cancel"
  /\ status' = [status EXCEPT ![req[r].order] = "CANCELLED"]
  /\ Goto(r, Idle)
  /\ UNCHANGED <<received, receipts, bill, invoiced, faults>>

-----------------------------------------------------------------------------
\* A request without lines receives all that is outstanding ...
TakeAll(o) ==
  [l \in Lines |-> IF l \in LinesOf(o) /\ Remaining(l) > 0 THEN Remaining(l) ELSE 0]

\* ... and one with lines what it names, each entry checked on its own.
Named(d) == [l \in Lines |-> d[l][1] + d[l][2]]
Acceptable(o, d) ==
  \A l \in Lines : \A n \in {1, 2} :
    d[l][n] > 0 => l \in LinesOf(o) /\ d[l][n] <= Remaining(l)

\* The quantities kept for the status decision: the last entry of each line.
Kept(d) == [l \in Lines |-> IF d[l][2] > 0 THEN d[l][2] ELSE d[l][1]]

\* One complete line is taken for a complete order.
FullySome(o, k) == \E l \in LinesOf(o) : received[l] + k[l] >= Ordered[l]
Fully(o, k) == \A l \in LinesOf(o) : received[l] + k[l] >= Ordered[l]

ReceiveRead(r, o, d) ==
  /\ req[r] = Idle
  /\ status[o] \in Receivable
  /\ Acceptable(o, d)
  /\ LET qty  == IF d = NoLines THEN TakeAll(o) ELSE Named(d)
         kept == IF d = NoLines THEN qty ELSE Kept(d)
     IN /\ qty # Nothing
        /\ Goto(r, [pc |-> "receive", order |-> o, qty |-> qty,
                    full |-> Fully(o, kept)])
  /\ UNCHANGED <<status, received, receipts, bill, invoiced, faults>>

AddReceipt(g, o, qty) ==
  receipts' = [x \in DOMAIN receipts \cup {g} |->
                 IF x = g THEN [order |-> o, qty |-> qty] ELSE receipts[x]]

ReceiveCommit(r, g) ==
  /\ req[r].pc = "receive"
  /\ g \notin DOMAIN receipts
  /\ AddReceipt(g, req[r].order, req[r].qty)
  /\ received' = [l \in Lines |-> received[l] + req[r].qty[l]]
  /\ status' = [status EXCEPT ![req[r].order] =
                  IF req[r].full THEN "RECEIVED" ELSE "PARTIALLY_RECEIVED"]
  /\ Goto(r, [pc |-> "emit", receipt |-> g])
  /\ UNCHANGED <<bill, invoiced, faults>>

\* A failing step or the transaction's time limit rolls everything back.
ReceiveAbort(r) ==
  /\ req[r].pc = "receive"
  /\ Goto(r, Idle)
  /\ UNCHANGED <<status, received, receipts, bill, invoiced, faults>>

\* emit('goods.received') starts the finance listener.
Emit(r) ==
  /\ req[r].pc = "emit"
  /\ bill' = [bill EXCEPT ![req[r].receipt] = "check"]
  /\ Goto(r, Idle)
  /\ UNCHANGED <<status, received, receipts, invoiced, faults>>

-----------------------------------------------------------------------------
HasInvoice(o) == \E g \in invoiced : receipts[g].order = o

\* Only a completed order is invoiced.
InvoiceCheckOfComplete(g) ==
  /\ bill[g] = "check"
  /\ bill' = [bill EXCEPT ![g] = IF HasInvoice(receipts[g].order)
                                    \/ status[receipts[g].order] # "RECEIVED"
                                 THEN "done" ELSE "create"]
  /\ UNCHANGED <<status, received, receipts, invoiced, req, faults>>

\* createInvoiceFromGoodsReceipt looks for an invoice of the order ...
InvoiceCheck(g) ==
  /\ bill[g] = "check"
  /\ bill' = [bill EXCEPT ![g] = IF HasInvoice(receipts[g].order) THEN "done"
                                 ELSE "create"]
  /\ UNCHANGED <<status, received, receipts, invoiced, req, faults>>

\* ... and creates one when it found none.
InvoiceCreate(g) ==
  /\ bill[g] = "create"
  /\ bill' = [bill EXCEPT ![g] = "done"]
  /\ invoiced' = invoiced \cup {g}
  /\ UNCHANGED <<status, received, receipts, req, faults>>

\* The insert fails (the generated invoice number is a timestamp and unique);
\* the listener logs the error.
InvoiceFails(g) ==
  /\ bill[g] = "create"
  /\ faults < MaxFaults
  /\ faults' = faults + 1
  /\ bill' = [bill EXCEPT ![g] = "done"]
  /\ UNCHANGED <<status, received, receipts, invoiced, req>>

\* The API process dies with its requests and listeners.
Crash ==
  /\ faults < MaxFaults
  /\ faults' = faults + 1
  /\ req' = [r \in Requests |-> Idle]
  /\ bill' = [g \in Receipts |-> IF g \in DOMAIN receipts THEN "done" ELSE "none"]
  /\ UNCHANGED <<status, received, receipts, invoiced>>

-----------------------------------------------------------------------------
Invoice(g) == InvoiceCheck(g) \/ InvoiceCreate(g)

Next ==
  \/ \E o \in Orders : CreateOrder(o) \/ ApproveOrder(o)
  \/ \E r \in Requests :
       \/ \E o \in Orders :
            CancelRead(r, o) \/ \E d \in Deliveries : ReceiveRead(r, o, d)
       \/ \E g \in Receipts : ReceiveCommit(r, g)
       \/ CancelWrite(r) \/ ReceiveAbort(r) \/ Emit(r)
  \/ \E g \in Receipts : Invoice(g) \/ InvoiceFails(g)
  \/ Crash

Spec == Init /\ [][Next]_vars

\* Node runs the continuations of requests and listeners that were started.
FairSpec ==
  /\ Spec
  /\ \A r \in Requests : WF_vars(Emit(r))
  /\ \A g \in Receipts : WF_vars(Invoice(g))

-----------------------------------------------------------------------------
\* Every variable stays in its type; a request holds only quantities a
\* delivery can have, and only receipts that exist are billed.
TypeOK ==
  /\ status \in [Orders -> OrderStatus]
  /\ received \in [Lines -> Nat]
  /\ DOMAIN receipts \subseteq Receipts
  /\ receipts \in [DOMAIN receipts -> [order : Orders, qty : [Lines -> Nat]]]
  /\ bill \in [Receipts -> {"none", "check", "create", "done"}]
  /\ \A g \in Receipts : bill[g] # "none" => g \in DOMAIN receipts
  /\ invoiced \subseteq DOMAIN receipts
  /\ req \in [Requests -> Request]
  /\ \A r \in Requests : req[r].pc = "emit" => req[r].receipt \in DOMAIN receipts
  /\ faults \in 0 .. MaxFaults

\* receiveGoods: an order is marked RECEIVED only once every line of it is
\* fully received, although the decision is taken on a snapshot other
\* receipts have moved past and on the last entry of a line named twice.
ReceivedMeansFull ==
  \A o \in Orders : status[o] = "RECEIVED" =>
    \A l \in LinesOf(o) : received[l] >= Ordered[l]

\* receiveGoods: the running total of a line is the sum of its goods receipt
\* lines, whatever receipts run at the same time.
ReceiptLinesAddUp ==
  \A l \in Lines :
    received[l] = MapThenSumSet(LAMBDA g : receipts[g].qty[l], DOMAIN receipts)

\* Purchase orders and their receipts together: what is recorded is of its type and
\* adds up, for the lines as for the orders.
ReceiptsAddUp == TypeOK /\ ReceivedMeansFull /\ ReceiptLinesAddUp

\* onGoodsReceived: unless something fails, an order that received goods gets
\* an invoice.
ReceiptsAreInvoiced ==
  \A g \in Receipts :
    g \in DOMAIN receipts
      ~> (faults > 0 \/ (g \in DOMAIN receipts /\ HasInvoice(receipts[g].order)))

=============================================================================
