\* Two requests on two invoices: partial, empty and negative payments, payment runs,
\* approvals, cancellations and crashes in every order; two invoices of one order;
\* two requests that replenish a product with two rules and two vendors;
\* three audit entries; three calls on two requests of a subject; three trainings
\* and two reads of a forecast; one fault of each.
SPECIFICATION RecordsSpec
CONSTANTS
  Invoices = {i1, i2}
  EventIds = {1, 2, 3, 4}
  Requests = {r1, r2}
  Amounts <- SomeAmounts
  Total <- TotalOfTwo
  nut = nut
  Products = {nut}
  NoProduct = NoProduct
  OrderLines <- SomeOrder
  Bills <- SomeBills
  MaxBills = 2
  Entries = {q1, q2, q3}
  Genesis = Genesis
  AuditTicks = 3
  AuditFaults = 1
  MaxErased = 1
  Dsrs = {r1, r2}
  Fulfilments = {q1, q2, q3}
  GdprFaults = 1
  Trainings = {q1, q2, q3}
  Reads = {r1, r2}
  ForecastFaults = 1
  bolt = bolt
  Goods = {bolt}
  Vendors = {v1, v2}
  NoVendor = NoVendor
  Rules <- SomeRules
  BuyRequests = {r1, r2}
  MaxOrders = 2
  MaxOnHand = 1
SYMMETRY RecordSymmetry
INVARIANTS PaymentsHold SerialReplenishmentIsSingle OneInvoiceIsCovered TrailTellsTruth FulfilledIsDone ForecastIsLatest
\* requests are made once and an order has two invoices: then nothing is left to do
CHECK_DEADLOCK FALSE
