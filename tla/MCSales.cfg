\* Two requests on one order, two invoices and two payments; two on two
\* workflow definitions and one document; three on two products;
\* two reports with two runs, a deletion and a fault;
\* charts over three rows that change twice.
SPECIFICATION SalesSpec
CONSTANTS
  SalesOrders = {so1}
  ArInvoices = {d1, d2}
  Receipts = {p1, p2}
  SalesRequests = {r1, r2}
  ReceivedAmounts = {1, 2}
  ArTotal = 3
  ArAborts = 1
  WfDefinitions = {d1, d2}
  Contents <- MCContents
  StartState = "draft"
  Documents = {"po"}
  WfRoles = {"purchasing_manager", "CFO"}
  WfRequests = {r1, r2}
  a = a
  b = b
  Products = {a, b}
  Quantities = {1, 3}
  Deliveries <- SomeDeliveries
  Requests = {q1, q2, q3}
  None = None
  BiReportIds = {p1, p2}
  Recipients = 2
  MaxBooks = 2
  MaxRuns = 2
  MaxDeletions = 1
  BiFaults = 1
  ChartDepts = {"ops", "it"}
  ChartCrew = {"ann", "bob"}
  MaxChartRows = 3
  MaxChartSteps = 2
  TakeLimit <- MCTakeLimit
SYMMETRY SalesSymmetry
INVARIANTS  ApprovalsHold StockIsExact AnalyticsTells
PROPERTY KeepsContract
\* ids and requests are used once: then nothing is left to do
CHECK_DEADLOCK FALSE
