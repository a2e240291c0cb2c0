\* Two payment runs select the same invoice.
SPECIFICATION SystemSpec
CONSTANTS
  Invoices = {i1}
  EventIds = {e1, e2, e3}
  Requests = {r1, r2}
  Amounts = {}
  Total <- TotalOfTwo
  MaxFaults = 0
  CanClose = FALSE
SYMMETRY IdSymmetry
INVARIANT NeverOverpaid
