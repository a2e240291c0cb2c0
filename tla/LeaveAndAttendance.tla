------------------------- MODULE LeaveAndAttendance -------------------------
(***************************************************************************)
(* Leave requests and their decisions, and the accrual of leave balances.  *)
(* A decision tests the status it read and then updates by id.  An accrual *)
(* run, monthly or on demand, remembers nothing of the runs before it.     *)
(***************************************************************************)
EXTENDS Integers, FiniteSets

CONSTANTS
  Leaves,        \* ids of leave requests
  LeaveStaff,    \* employees
  Approvers,     \* requests that approve or reject
  AccrualRuns,   \* runs of the accrual
  LeaveFaults    \* bound on runs and decisions cut short

ASSUME LeaveAssumption == LeaveFaults \in Nat

VARIABLES
  leave,      \* status of each request, NONE before the row
  announced,  \* leave.status.changed events that went out
  deciding,   \* per approver: the leave and status it is about to write
  balance,    \* grants on each employee's balance
  employed,   \* ACTIVE employees
  accrual,    \* per run: not begun, or the employees it still has to grant
  granted,    \* runs that granted each employee (not stored)
  disputed,   \* leaves on which decisions overlapped (not stored)
  leaveFaults

leaveVars == <<leave, announced, deciding, balance, employed, accrual, granted, disputed, leaveFaults>>

Verdicts == {"APPROVED", "REJECTED"}
Undecided == [pc |-> "none"]
NotBegun == [pc |-> "none"]

LeaveInit ==
  /\ leave = [l \in Leaves |-> "NONE"]
  /\ announced = [l \in Leaves |-> {}]
  /\ deciding = [a \in Approvers |-> Undecided]
  /\ balance = [e \in LeaveStaff |-> 0]
  /\ employed = LeaveStaff
  /\ accrual = [n \in AccrualRuns |-> NotBegun]
  /\ granted = [e \in LeaveStaff |-> {}]
  /\ disputed = {}
  /\ leaveFaults = 0

-----------------------------------------------------------------------------
\* createRequest
RequestLeave(l) ==
  /\ leave[l] = "NONE"
  /\ leave' = [leave EXCEPT ![l] = "PENDING"]
  /\ UNCHANGED <<announced, deciding, balance, employed, accrual, granted, disputed, leaveFaults>>

\* validateTransition: the status; who approves is not part of the state here.
Decidable(l) == leave[l] = "PENDING"

\* Decisions under way.
OnLeave(l) == {a \in Approvers : deciding[a].pc \in {"write", "emit"} /\ deciding[a].of = l}

\* approveOrReject: reads and validates
ReadLeave(a, l, v) ==
  /\ deciding[a] = Undecided
  /\ Decidable(l)
  /\ deciding' = [deciding EXCEPT ![a] = [pc |-> "write", of |-> l, verdict |-> v]]
  /\ disputed' = IF OnLeave(l) = {} THEN disputed ELSE disputed \cup {l}
  /\ UNCHANGED <<leave, announced, balance, employed, accrual, granted, leaveFaults>>

\* approveOrReject: update by id
DecideLeave(a) ==
  /\ deciding[a].pc = "write"
  /\ leave' = [leave EXCEPT ![deciding[a].of] = deciding[a].verdict]
  /\ deciding' = [deciding EXCEPT ![a].pc = "emit"]
  /\ UNCHANGED <<announced, balance, employed, accrual, granted, disputed, leaveFaults>>

\* approveOrReject: leave.status.changed
AnnounceLeave(a) ==
  /\ deciding[a].pc = "emit"
  /\ announced' = [announced EXCEPT ![deciding[a].of] = @ \cup {deciding[a].verdict}]
  /\ deciding' = [deciding EXCEPT ![a] = [pc |-> "done"]]
  /\ UNCHANGED <<leave, balance, employed, accrual, granted, disputed, leaveFaults>>

-----------------------------------------------------------------------------
\* runAccrual: who is active is read once.
BeginAccrual(n) ==
  /\ accrual[n] = NotBegun
  /\ accrual' = [accrual EXCEPT ![n] = [pc |-> "grant", left |-> employed]]
  /\ UNCHANGED <<leave, announced, deciding, balance, employed, granted, disputed, leaveFaults>>

\* An upsert that updates nothing.
GrantOnce(n, e) ==
  /\ accrual[n].pc = "grant" /\ e \in accrual[n].left
  /\ balance' = [balance EXCEPT ![e] = IF @ = 0 THEN 1 ELSE @]
  /\ granted' = [granted EXCEPT ![e] = @ \cup {n}]
  /\ accrual' = [accrual EXCEPT ![n].left = @ \ {e}]
  /\ UNCHANGED <<leave, announced, deciding, employed, disputed, leaveFaults>>

\* leaveBalance.upsert with an increment
Grant(n, e) ==
  /\ accrual[n].pc = "grant" /\ e \in accrual[n].left
  /\ balance' = [balance EXCEPT ![e] = @ + 1]
  /\ granted' = [granted EXCEPT ![e] = @ \cup {n}]
  /\ accrual' = [accrual EXCEPT ![n].left = @ \ {e}]
  /\ UNCHANGED <<leave, announced, deciding, employed, disputed, leaveFaults>>

\* A statement fails or the process dies: a run or a decision ends where it is.
LeaveCutShort ==
  /\ leaveFaults < LeaveFaults
  /\ \/ \E n \in AccrualRuns :
          /\ accrual[n].pc = "grant"
          /\ accrual' = [accrual EXCEPT ![n] = [pc |-> "cut"]]
          /\ UNCHANGED deciding
     \/ \E a \in Approvers :
          /\ deciding[a].pc \in {"write", "emit"}
          /\ deciding' = [deciding EXCEPT ![a] = [pc |-> "done"]]
          /\ UNCHANGED accrual
  /\ leaveFaults' = leaveFaults + 1
  /\ UNCHANGED <<leave, announced, balance, employed, granted, disputed>>

\* EmployeeService.remove and restore change who is ACTIVE.
Leaver(e) ==
  /\ employed' = IF e \in employed THEN employed \ {e} ELSE employed \cup {e}
  /\ UNCHANGED <<leave, announced, deciding, balance, accrual, granted, disputed, leaveFaults>>

-----------------------------------------------------------------------------
LeaveNext ==
  \/ \E l \in Leaves : RequestLeave(l)
  \/ \E a \in Approvers :
       \/ \E l \in Leaves, v \in Verdicts : ReadLeave(a, l, v)
       \/ DecideLeave(a) \/ AnnounceLeave(a)
  \/ \E n \in AccrualRuns : BeginAccrual(n) \/ \E e \in LeaveStaff : Grant(n, e)
  \/ LeaveCutShort
  \/ \E e \in LeaveStaff : Leaver(e)

LeaveSpec == LeaveInit /\ [][LeaveNext]_leaveVars

-----------------------------------------------------------------------------
\* approveOrReject, by the error text "Cannot change status. Leave is already":
\* unless decisions of a leave overlapped, no two are announced; and also when
\* they did, the status that stays is one that its employee was told.
DecisionStands ==
  \A l \in Leaves :
    /\ l \notin disputed => announced[l] \subseteq {leave[l]}
    /\ (leaveFaults = 0 /\ leave[l] \in Verdicts /\ OnLeave(l) = {}) => leave[l] \in announced[l]

\* runAccrual: overlapping and interrupted runs lose no grant of each other: a
\* balance is the number of runs that came to the employee, one grant each.
GrantsAddUp == \A e \in LeaveStaff : balance[e] = Cardinality(granted[e])

\* LeaveService and LeaveAccrualService together: a decision an employee was told
\* stands, and a balance is what was granted.
LeaveIsKept == DecisionStands /\ GrantsAddUp

-----------------------------------------------------------------------------
(***************************************************************************)
(* One employee's attendance.  Nothing in the schema makes the record of a *)
(* day unique: clockIn looks for one and inserts, clockOut takes any one   *)
(* of the day and updates it by id.  Hours pass between and within calls;  *)
(* a call uses the hour it began in.                                       *)
(***************************************************************************)
CONSTANTS
  ClockRequests,  \* HTTP requests, each made once
  Hours,          \* bound on time: hours 0 .. Hours
  DayHours,       \* hours of a day
  ShiftHours      \* hours without overtime (8)

ASSUME AttendanceAssumption ==
  Hours \in Nat /\ DayHours \in Nat \ {0} /\ ShiftHours \in Nat

VARIABLES
  hour,       \* the time
  clock,      \* where each request stands
  record,     \* attendance records by the request that inserted them
  entangled,  \* days on which calls overlapped (not stored)
  clockedOut  \* hours of the calls to clockOut that succeeded (not stored)

attendanceVars == <<hour, clock, record, entangled, clockedOut>>

Open == -1
NotCalled == [pc |-> "none"]
DayOf(h) == h \div DayHours
OfDay(d) == {q \in DOMAIN record : DayOf(record[q].clockIn) = d}
Calls(d) == {q \in ClockRequests : clock[q].pc \in {"in", "out"} /\ DayOf(clock[q].now) = d}
Mark(d) == entangled' = IF Calls(d) = {} THEN entangled ELSE entangled \cup {d}

AttendanceInit ==
  /\ hour = 0
  /\ clock = [r \in ClockRequests |-> NotCalled]
  /\ record = [q \in {} |-> NotCalled]
  /\ entangled = {}
  /\ clockedOut = {}

HourPasses ==
  /\ hour < Hours
  /\ hour' = hour + 1
  /\ UNCHANGED <<clock, record, entangled, clockedOut>>

\* A test for a record that is still open.
ClockedInOpen(d) == \E q \in OfDay(d) : record[q].clockOut = Open

\* clockIn: a record of today, open or not
ClockedIn(d) == OfDay(d) # {}

ClockInRead(r) ==
  /\ clock[r] = NotCalled
  /\ ~ClockedIn(DayOf(hour))
  /\ clock' = [clock EXCEPT ![r] = [pc |-> "in", now |-> hour]]
  /\ Mark(DayOf(hour))
  /\ UNCHANGED <<hour, record, clockedOut>>

ClockInWrite(r) ==
  /\ clock[r].pc = "in"
  /\ record' = [q \in DOMAIN record \cup {r} |->
                  IF q = r THEN [clockIn |-> clock[r].now, clockOut |-> Open, overtime |-> 0]
                  ELSE record[q]]
  /\ clock' = [clock EXCEPT ![r] = [pc |-> "done"]]
  /\ UNCHANGED <<hour, entangled, clockedOut>>

\* clockOut: any record of today, refused when it is closed
ClockOutRead(r, q) ==
  /\ clock[r] = NotCalled
  /\ q \in OfDay(DayOf(hour))
  /\ record[q].clockOut = Open
  /\ clock' = [clock EXCEPT ![r] = [pc |-> "out", now |-> hour, rec |-> q]]
  /\ Mark(DayOf(hour))
  /\ UNCHANGED <<hour, record, clockedOut>>

Overtime(worked) == IF worked > ShiftHours THEN worked - ShiftHours ELSE 0

ClockOutWrite(r) ==
  LET c == clock[r] IN
  /\ c.pc = "out"
  /\ record' = [record EXCEPT ![c.rec] = [@ EXCEPT
       !.clockOut = c.now, !.overtime = Overtime(c.now - record[c.rec].clockIn)]]
  /\ clockedOut' = clockedOut \cup {c.now}
  /\ clock' = [clock EXCEPT ![r] = [pc |-> "done"]]
  /\ UNCHANGED <<hour, entangled>>

AttendanceNext ==
  \/ HourPasses
  \/ \E r \in ClockRequests :
       \/ ClockInRead(r) \/ ClockInWrite(r) \/ ClockOutWrite(r)
       \/ \E q \in DOMAIN record : ClockOutRead(r, q)

AttendanceSpec == AttendanceInit /\ [][AttendanceNext]_attendanceVars

-----------------------------------------------------------------------------
\* clockIn, "Prevent double clock-ins on the exact same day", and clockOut,
\* "they can't clock out twice": on a day whose calls did not overlap payroll
\* finds one record, closed by the first call alone, and its overtime is what
\* was worked beyond the shift.
DayIsCountedOnce ==
  \A d \in 0..DayOf(Hours) \ entangled :
    /\ \A p, q \in OfDay(d) : p = q
    /\ \A q \in OfDay(d) :
         LET outs == {h \in clockedOut : DayOf(h) = d} IN
         /\ outs = {record[q].clockOut} \ {Open}
         /\ outs # {} => record[q].overtime = Overtime(record[q].clockOut - record[q].clockIn)
=============================================================================
