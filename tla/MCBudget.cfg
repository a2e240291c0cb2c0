\* The reports of three payslips, two handlers, two budgets, one crash; two loads of
\* the settings page and two saves.
SPECIFICATION PagesSpec
CONSTANTS
  p1 = p1
  p2 = p2
  slip1 = slip1
  slip2 = slip2
  slip3 = slip3
  NetPay <- ThreePayslips
  Allocations <- FiveTasks
  Projects = {p1, p2}
  Reports <- LaborReports
  Budgets = {b1, b2}
  NoBudget = NoBudget
  Allowances = {0, 2}
  Handlers = {h1, h2}
  MaxCrashes = 1
  Loads = {1, 2}
  Sections = {"login", "smtp"}
  MaxSaves = 2
  MaxToggles = 1
INVARIANTS OverrunIsAlerted ChargesAddUp SaveIsWhatWasLoaded
PROPERTY CostsAndSavesLand
\* costs, budgets, loads and saves are used up: then nothing is left to do
CHECK_DEADLOCK FALSE
