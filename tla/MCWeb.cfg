\* Two calls and three tokens of a session; two filters, two pages, four changes
\* and a failing call of the workspace; an employee and a project of two
\* versions, a bulk load and a refused request.
SPECIFICATION WebSpec
CONSTANTS
  Calls = {c1, c2}
  MaxTokens = 3
  BiFilters = {"all", "overdue"}
  Unfiltered = "all"
  ReportPages = {sales, stock}
  Executive = Executive
  MaxChanges = 4
  BiFaults = 1
  emp = emp
  proj = proj
  Kinds <- MCKinds
  Reindexings = {x1}
  MaxVersions = 2
  IndexFaults = 1
INVARIANTS CallsHold  
 
\* calls, changes and versions are used up: then nothing is left to do
CHECK_DEADLOCK FALSE
