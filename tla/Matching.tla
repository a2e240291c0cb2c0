------------------------------ MODULE Matching ------------------------------
(***************************************************************************)
(* The three-way match of an invoice with a purchase order and its goods   *)
(* receipts (InvoiceMatchingService.performThreeWayMatch), which lets      *)
(* APService.createInvoice approve the invoice at once.  Amounts are in    *)
(* cents, so that 2% of them is a whole number.                            *)
(***************************************************************************)
EXTENDS Integers, Sequences, FiniteSetsExt

CONSTANTS
  Products,
  OrderLines,   \* lines of the purchase order: product, quantity, unitPrice
  Bills,        \* invoices that may arrive: lines (product, quantity, unitPrice), total
  NoProduct,    \* a line whose product the OCR did not resolve
  MaxBills      \* bound on the invoices of the order

ASSUME MatchingAssumption ==
  /\ OrderLines \in Seq({OrderLines[k] : k \in DOMAIN OrderLines})
  /\ \A k \in DOMAIN OrderLines : OrderLines[k].unitPrice \in Nat
  /\ \A b \in Bills : \A k \in DOMAIN b.lines :
       b.lines[k].quantity \in Nat /\ b.lines[k].unitPrice \in Nat
  /\ MaxBills \in Nat

VARIABLES
  received,  \* receivedQuantity of each line of the order
  receipts,  \* whether the order has a goods receipt
  billed     \* invoices of the order: bill, approved

matchVars == <<received, receipts, billed>>

LinesOf(b) == {b.lines[k] : k \in DOMAIN b.lines}
OrderTotal == MapThenSumSet(LAMBDA k : OrderLines[k].quantity * OrderLines[k].unitPrice,
                      DOMAIN OrderLines)

MatchInit ==
  /\ received = [k \in DOMAIN OrderLines |-> 0]
  /\ receipts = FALSE
  /\ billed = <<>>

-----------------------------------------------------------------------------
Distance(a, b) == IF a > b THEN a - b ELSE b - a
WithinTolerance(a, b) == b # 0 /\ 50 * Distance(a, b) <= b    \* TOLERANCE_PERCENT

\* po.lines.find: the first line of the order with the product.
FirstLine(p) ==
  CHOOSE k \in DOMAIN OrderLines :
    /\ OrderLines[k].product = p
    /\ \A j \in 1 .. k - 1 : OrderLines[j].product # p

\* The ordered quantity in the place of the received one.
LineMatchesOrder(l) ==
  /\ \E k \in DOMAIN OrderLines : OrderLines[k].product = l.product
  /\ l.quantity <= OrderLines[FirstLine(l.product)].quantity
  /\ WithinTolerance(l.unitPrice, OrderLines[FirstLine(l.product)].unitPrice)

LineMatches(l) ==
  /\ \E k \in DOMAIN OrderLines : OrderLines[k].product = l.product
  /\ l.quantity <= received[FirstLine(l.product)]
  /\ WithinTolerance(l.unitPrice, OrderLines[FirstLine(l.product)].unitPrice)

ByLines(b) == b.lines # <<>> /\ \A l \in LinesOf(b) : l.product # NoProduct

\* Of an invoice of the order's vendor that names one of the order's receipts.
ThreeWayMatch(b) ==
  /\ receipts
  /\ IF ByLines(b) THEN \A l \in LinesOf(b) : LineMatches(l)
     ELSE WithinTolerance(b.total, OrderTotal)

-----------------------------------------------------------------------------
\* A goods receipt of some units of one line (PurchaseService).
ReceiveUnits(k, n) ==
  /\ received[k] + n <= OrderLines[k].quantity
  /\ received' = [received EXCEPT ![k] = @ + n]
  /\ receipts' = TRUE
  /\ UNCHANGED billed

\* createInvoice with a purchase order and a goods receipt.
MatchInvoice(b) ==
  /\ Len(billed) < MaxBills
  /\ billed' = Append(billed, [bill |-> b, approved |-> ThreeWayMatch(b)])
  /\ UNCHANGED <<received, receipts>>

MatchNext ==
  \/ \E k \in DOMAIN OrderLines : \E n \in 1 .. OrderLines[k].quantity : ReceiveUnits(k, n)
  \/ \E b \in Bills : MatchInvoice(b)

MatchSpec == MatchInit /\ [][MatchNext]_matchVars

-----------------------------------------------------------------------------
OfProduct(p) == {k \in DOMAIN OrderLines : OrderLines[k].product = p}
ReceivedOf(p) == MapThenSumSet(LAMBDA k : received[k], OfProduct(p))
InvoicedBy(b, p) ==
  MapThenSumSet(LAMBDA k : b.lines[k].quantity, {k \in DOMAIN b.lines : b.lines[k].product = p})
Approved == {n \in DOMAIN billed : billed[n].approved /\ ByLines(billed[n].bill)}

NamesProductsOnce(b) ==
  \A j, k \in DOMAIN b.lines : b.lines[j].product = b.lines[k].product => j = k

\* performThreeWayMatch: one invoice approved line by line never asks for more than
\* 2% above the price of what had been received, if it names each product once;
\* also when the order names a product on two lines at two prices.
OneInvoiceIsCovered ==
  \A n \in Approved : NamesProductsOnce(billed[n].bill) =>
    \A p \in Products :
      /\ InvoicedBy(billed[n].bill, p) <= ReceivedOf(p)
      /\ \A l \in LinesOf(billed[n].bill) :
           l.product = p => \E k \in OfProduct(p) :
             50 * l.unitPrice <= 51 * OrderLines[k].unitPrice
=============================================================================
