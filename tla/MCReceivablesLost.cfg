SPECIFICATION ReceivablesSpec
CONSTANTS
  SalesOrders = {so1}
  ArInvoices = {i1, i2}
  Receipts = {p1, p2}
  SalesRequests = {r1, r2}
  ReceivedAmounts = {1, 2}
  ArTotal = 3
  ArAborts = 1
INVARIANT IssuedIsPosted
\* Every id is used once: then nothing is left to do.
CHECK_DEADLOCK FALSE
