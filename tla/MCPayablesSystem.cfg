\* Crashes, lost jobs, database errors, payments that take back and a first posting
\* beaten to the month's period; without any of them the ledger has to tie.
SPECIFICATION SystemSpec
CONSTANTS
  Invoices = {i1}
  EventIds = {e1, e2}
  Requests = {r1, r2}
  Amounts <- TakenBackOnly
  Total <- TotalOfTwo
  MaxFaults = 1
  CanClose = FALSE
SYMMETRY IdSymmetry
INVARIANT LedgerFollows
\* all events committed and settled: no client has anything left to ask
CHECK_DEADLOCK FALSE
