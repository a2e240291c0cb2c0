\* Three requests on two people, two at a time, with a fault; a leave with two
\* approvers and two runs of the accrual; three calls on two days; three sign-ups
\* for two slugs and a fault; two requests on a realm of two users, one to a page;
\* two periods, three postings, one fault; two projects, three requests on tasks
\* and milestones, two days.
SPECIFICATION OfficeSpec
CONSTANTS
  People = {ann, bob}
  ErpRoles = {"TenantAdmin", "Employee"}
  Admin = "TenantAdmin"
  Salaried = {ann}
  HrRequests = {q1, q2, q3}
  HrConcurrency = 2
  HrFaults = 1
  MaxContracts = 3
  Leaves = {l1}
  LeaveStaff = {e1, e2}
  Approvers = {r1, r2}
  AccrualRuns = {r1, r2}
  LeaveFaults = 1
  ClockRequests = {q1, q2, q3}
  Hours = 5
  DayHours = 3
  ShiftHours = 1
  Slugs = {s1, s2}
  SignUps = {q1, q2, q3}
  SignUpFaults = 1
  Idps = {google}
  KcUsers = {1, 2}
  RealmRequests = {r1, r2}
  PageSize = 1
  RealmFaults = 1
  jan = jan
  feb = feb
  Periods = {jan, feb}
  Current = feb
  Drafts <- SomeDrafts
  Amount = 4
  Requests = {q1, q2, q3}
  MaxFaults = 1
  PlanProjects = {p1, p2}
  PlanRequests = {q1, q2, q3}
  NoMilestone = NoMilestone
  DayTicks = 2
  DueTicks = {2, 3}
  MaxTicks = 4
SYMMETRY OfficeSymmetry
INVARIANTS HiresAreWhole LeaveIsKept DayIsCountedOnce TenantIsWhole MfaSettles EntriesAlmostBalance PlansHold
PROPERTY FinalPeriodsStay
\* requests are made once: then nothing is left to do
CHECK_DEADLOCK FALSE
