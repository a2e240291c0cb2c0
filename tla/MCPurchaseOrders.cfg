\* Two requests receive an order of two lines in up to three receipts, one fault.
SPECIFICATION FairSpec
CONSTANTS
  o1 = o1
  l1 = l1
  l2 = l2
  Lines = {l1, l2}
  Ordered <- TwoAndOne
  Deliveries <- SomeDeliveries
  Orders = {o1}
  OrderOf <- OneOrder
  Receipts = {g1, g2, g3}
  Requests = {r1, r2}
  MaxFaults = 1
INVARIANT ReceiptsAddUp
PROPERTY ReceiptsAreInvoiced
