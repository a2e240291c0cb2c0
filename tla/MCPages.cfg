\* Crashes, failed adds and database errors around two events; two clicks and a
\* fault on each page with a list, over two rows and two projects or periods; a
\* draft of three tasks, a milestone and six changes, launched once; six changes of
\* the form of an employee; five changes of the search box; five clicks on
\* the training of two products.
SPECIFICATION PagesSpec
CONSTANTS
  EventIds = {e1, e2}
  Sources = {s1, s2}
  Amounts = {1}
  MaxFaults = 2
  CanClose = TRUE
  DeskPages <- AllPages
  Rows = {r1, r2}
  NoRow = NoRow
  Keys = {1, 2}
  NoPage = NoPage
  MaxClicks = 2
  DeskFaults = 1
  Crew = {w1}
  Nobody = Nobody
  MaxTasks = 3
  MaxMilestones = 1
  MaxLaunches = 1
  MaxEdits = 6
  WizardFaults = 1
  d1 = d1
  m1 = m1
  FormModules = {m1, m2}
  DeptModules <- OneDepartment
  NoDept = NoDept
  MaxFormEdits = 6
  FormFaults = 1
  Queries = {q1, q2}
  Short = Short
  NoQuery = NoQuery
  MaxHits = 2
  MaxKeys = 5
  BoxFaults = 1
  f1 = f1
  f2 = f2
  Products <- TwoProducts
  MaxTrainings = 5
  TrainFaults = 1
SYMMETRY PageSymmetry
INVARIANTS SingleEventPostedOnce DesksHold WizardHolds FormHolds SearchBoxHolds TrainingHolds
PROPERTY SettledRowsStay
\* events, clicks, changes and launches are used up: then nothing is left to do
CHECK_DEADLOCK FALSE
