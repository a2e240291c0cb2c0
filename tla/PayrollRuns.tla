---------------------------- MODULE PayrollRuns ----------------------------
(***************************************************************************)
(* Payroll runs: the request that creates a run and queues its job, the    *)
(* worker that pays the active employees chunk by chunk, and the listener  *)
(* that posts the run's total to the ledger.                               *)
(*                                                                         *)
(* The chunks are pages of an unordered query: they come in the order of   *)
(* the rows, and an update writes a row anew at the end.  The job is added *)
(* without attempts: a failed one is not retried.  Only after a crash does *)
(* BullMQ hand it out again, once (maxStalledCount).  Worker and listener  *)
(* live in one process, which runs one job at a time.                      *)
(***************************************************************************)
EXTENDS Integers, Sequences, FiniteSetsExt

CONSTANTS
  PayrollRuns,    \* ids of runs
  Staff,          \* ids of employees
  FirstRoster,    \* their ids in the order of their rows
  NetPay,         \* what each is paid a month; 0 without a contract
  ChunkSize,
  PayrollFaults,  \* bound on crashes and failed statements
  RosterChanges   \* bound on updates of employees

ASSUME PayrollRunsAssumption ==
  /\ NetPay \in [Staff -> Nat] /\ FirstRoster \in Seq(Staff)
  /\ \A j, k \in DOMAIN FirstRoster : FirstRoster[j] = FirstRoster[k] => j = k
  /\ ChunkSize \in Nat \ {0} /\ PayrollFaults \in Nat /\ RosterChanges \in Nat

VARIABLES
  payrun,     \* PayrollRun: status and totalNetPay
  payjob,     \* the run's job: none, asked (row without job), waiting, active, done
  attempt,    \* where the worker stands in the run
  payslips,   \* number of payslips of each employee in each run
  roster,     \* rows of the ACTIVE employees in the order they are read
  completed,  \* runs whose payroll.completed the listener has not handled
  expense,    \* amounts of each run's journal entries
  stalled,    \* runs whose job was handed out again after a crash
  due,        \* employees on the roster when the attempt began (not stored)
  disturbed,  \* runs during which the roster changed (not stored)
  payTally    \* faults and roster changes so far

payrollVars == <<payrun, payjob, attempt, payslips, roster, completed, expense,
                 stalled, due, disturbed, payTally>>

Idle == [pc |-> "idle", skip |-> 0, sum |-> 0]
NoPayslips == [e \in Staff |-> 0]
PayOf(staff) == MapThenSumSet(LAMBDA e : NetPay[e], staff)
OnRoster == {roster[k] : k \in 1..Len(roster)}
MayFail == payTally.faults < PayrollFaults
OneFault == payTally' = [payTally EXCEPT !.faults = @ + 1]

PayrollInit ==
  /\ payrun = [r \in PayrollRuns |-> [status |-> "NONE", total |-> 0]]
  /\ payjob = [r \in PayrollRuns |-> "none"]
  /\ attempt = [r \in PayrollRuns |-> Idle]
  /\ payslips = [r \in PayrollRuns |-> NoPayslips]
  /\ roster = FirstRoster
  /\ completed = {} /\ stalled = {} /\ disturbed = {}
  /\ expense = [r \in PayrollRuns |-> <<>>]
  /\ due = [r \in PayrollRuns |-> {}]
  /\ payTally = [faults |-> 0, changes |-> 0]

-----------------------------------------------------------------------------
(* The request                                                             *)

\* enqueuePayrollRun: the row
CreateRun(r) ==
  /\ payjob[r] = "none"
  /\ payrun' = [payrun EXCEPT ![r].status = "PROCESSING"]
  /\ payjob' = [payjob EXCEPT ![r] = "asked"]
  /\ UNCHANGED <<attempt, payslips, roster, completed, expense, stalled, due, disturbed, payTally>>

\* enqueuePayrollRun: payrollQueue.add
QueueRun(r) ==
  /\ payjob[r] = "asked"
  /\ payjob' = [payjob EXCEPT ![r] = "waiting"]
  /\ UNCHANGED <<payrun, attempt, payslips, roster, completed, expense, stalled, due, disturbed, payTally>>

-----------------------------------------------------------------------------
(* The worker                                                              *)

Takes(r) == payjob[r] = "waiting" /\ \A q \in PayrollRuns : attempt[q] = Idle

\* An attempt that keeps what an earlier one inserted.
StartAttemptDirty(r) ==
  /\ Takes(r)
  /\ payjob' = [payjob EXCEPT ![r] = "active"]
  /\ attempt' = [attempt EXCEPT ![r].pc = "chunk"]
  /\ due' = [due EXCEPT ![r] = OnRoster]
  /\ UNCHANGED <<payrun, payslips, roster, completed, expense, stalled, disturbed, payTally>>

\* process: what an earlier attempt left is deleted.
StartAttempt(r) ==
  /\ Takes(r)
  /\ payjob' = [payjob EXCEPT ![r] = "active"]
  /\ attempt' = [attempt EXCEPT ![r].pc = "chunk"]
  /\ payslips' = [payslips EXCEPT ![r] = NoPayslips]
  /\ due' = [due EXCEPT ![r] = OnRoster]
  /\ UNCHANGED <<payrun, roster, completed, expense, stalled, disturbed, payTally>>

\* One page of employees; those with a contract get a payslip.
PayChunk(r) ==
  LET skip == attempt[r].skip
      last == IF skip + ChunkSize < Len(roster) THEN skip + ChunkSize ELSE Len(roster)
      paid == {e \in {roster[k] : k \in skip + 1..last} : NetPay[e] > 0}
  IN
  /\ attempt[r].pc = "chunk" /\ skip < Len(roster)
  /\ payslips' = [payslips EXCEPT ![r] = [e \in Staff |-> payslips[r][e] + IF e \in paid THEN 1 ELSE 0]]
  /\ attempt' = [attempt EXCEPT ![r] = [attempt[r] EXCEPT !.skip = @ + ChunkSize, !.sum = @ + PayOf(paid)]]
  /\ UNCHANGED <<payrun, payjob, roster, completed, expense, stalled, due, disturbed, payTally>>

\* The empty page ends the loop; the run is marked.
CompleteRun(r) ==
  /\ attempt[r].pc = "chunk" /\ attempt[r].skip >= Len(roster)
  /\ payrun' = [payrun EXCEPT ![r] = [status |-> "COMPLETED", total |-> attempt[r].sum]]
  /\ attempt' = [attempt EXCEPT ![r].pc = "emit"]
  /\ UNCHANGED <<payjob, payslips, roster, completed, expense, stalled, due, disturbed, payTally>>

EmitCompleted(r) ==
  /\ attempt[r].pc = "emit"
  /\ completed' = completed \cup {r}
  /\ attempt' = [attempt EXCEPT ![r].pc = "ack"]
  /\ UNCHANGED <<payrun, payjob, payslips, roster, expense, stalled, due, disturbed, payTally>>

\* A statement fails: the catch marks the run, the job fails for good.
AttemptFails(r) ==
  /\ MayFail
  /\ attempt[r].pc = "chunk"
  /\ payrun' = [payrun EXCEPT ![r].status = "FAILED"]
  /\ payjob' = [payjob EXCEPT ![r] = "done"]
  /\ attempt' = [attempt EXCEPT ![r] = Idle]
  /\ OneFault
  /\ UNCHANGED <<payslips, roster, completed, expense, stalled, due, disturbed>>

\* BullMQ removes the job.
AckRun(r) ==
  /\ attempt[r].pc = "ack"
  /\ payjob' = [payjob EXCEPT ![r] = "done"]
  /\ attempt' = [attempt EXCEPT ![r] = Idle]
  /\ UNCHANGED <<payrun, payslips, roster, completed, expense, stalled, due, disturbed, payTally>>

\* The process dies: requests, attempts and listeners with it.  A job that was
\* active waits again, unless it has stalled before.
PayrollCrash ==
  LET lost == {r \in PayrollRuns : payjob[r] = "active"} IN
  /\ MayFail
  /\ payjob' = [r \in PayrollRuns |->
       IF payjob[r] = "asked" \/ r \in lost \cap stalled THEN "done"
       ELSE IF r \in lost THEN "waiting" ELSE payjob[r]]
  /\ stalled' = stalled \cup lost
  /\ attempt' = [r \in PayrollRuns |-> Idle]
  /\ completed' = {}
  /\ OneFault
  /\ UNCHANGED <<payrun, payslips, roster, expense, due, disturbed>>

-----------------------------------------------------------------------------
(* The ledger listener                                                     *)

Posted(r) == expense[r] # <<>>

\* handlePayrollCompleted reads the run's total when it comes to it.
PostPayroll(r) ==
  /\ r \in completed
  /\ completed' = completed \ {r}
  /\ expense' = IF payrun[r].total = 0 \/ Posted(r) THEN expense
                ELSE [expense EXCEPT ![r] = Append(@, payrun[r].total)]
  /\ UNCHANGED <<payrun, payjob, attempt, payslips, roster, stalled, due, disturbed, payTally>>

\* The period is closed or the insert fails: logged.
PostPayrollFails(r) ==
  /\ MayFail
  /\ r \in completed
  /\ completed' = completed \ {r}
  /\ OneFault
  /\ UNCHANGED <<payrun, payjob, attempt, payslips, roster, expense, stalled, due, disturbed>>

-----------------------------------------------------------------------------
\* The employee of row k is updated, or leaves.
RosterChange(k) ==
  LET rest == [j \in 1 .. Len(roster) - 1 |-> roster[IF j < k THEN j ELSE j + 1]] IN
  /\ payTally.changes < RosterChanges
  /\ roster' \in {rest, Append(rest, roster[k])}
  /\ disturbed' = disturbed \cup {r \in PayrollRuns :
       payjob[r] = "active" \/ (payjob[r] = "waiting" /\ r \in stalled)}
  /\ payTally' = [payTally EXCEPT !.changes = @ + 1]
  /\ UNCHANGED <<payrun, payjob, attempt, payslips, completed, expense, stalled, due>>

PayrollSteps(r) ==
  \/ StartAttempt(r) \/ PayChunk(r) \/ CompleteRun(r) \/ EmitCompleted(r)
  \/ AckRun(r) \/ PostPayroll(r)

PayrollNext ==
  \/ \E r \in PayrollRuns : CreateRun(r) \/ QueueRun(r)
  \/ \E r \in PayrollRuns : PayrollSteps(r) \/ AttemptFails(r) \/ PostPayrollFails(r)
  \/ PayrollCrash
  \/ \E k \in DOMAIN roster : RosterChange(k)

\* The worker and the event loop go on as long as the process lives.
PayrollFairness == \A r \in PayrollRuns : WF_payrollVars(PayrollSteps(r))

PayrollSpec == PayrollInit /\ [][PayrollNext]_payrollVars /\ PayrollFairness

-----------------------------------------------------------------------------
\* process: wherever a crash makes the worker begin again, a run that is done
\* and COMPLETED holds one payslip for each employee with a contract, and its
\* total is their sum, unless the roster changed under it.  (A second crash
\* ends the job and may leave a COMPLETED run without its payslips.)
PaidExactlyOnce ==
  \A r \in PayrollRuns :
    (payTally.faults <= 1 /\ payjob[r] = "done" /\ payrun[r].status = "COMPLETED" /\ r \notin disturbed) =>
      /\ \A e \in Staff : payslips[r][e] = IF e \in due[r] /\ NetPay[e] > 0 THEN 1 ELSE 0
      /\ payrun[r].total = PayOf(due[r])

\* handlePayrollCompleted: the ledger holds a run at most once, also when its
\* completion is announced again after a crash, and with the pay of its
\* employees unless the roster changed under it.
ExpenseIsPay ==
  \A r \in PayrollRuns :
    /\ Len(expense[r]) <= 1
    /\ r \notin disturbed /\ payjob[r] = "done" => expense[r] \in {<<>>, <<PayOf(due[r])>>}

\* PayrollService, its processor and the posting listener together: employees are
\* paid once, and the expense is their pay.
PayrollHolds == PaidExactlyOnce /\ ExpenseIsPay

\* A queued run comes to an end that its row shows, and without a fault a
\* completed one reaches the ledger; a job lost twice is given up by BullMQ.
RunSettles ==
  \A r \in PayrollRuns :
    /\ payjob[r] = "waiting" ~>
         (payrun[r].status \in {"COMPLETED", "FAILED"} \/ payTally.faults > 1)
    /\ payrun[r].status = "COMPLETED" ~>
         (expense[r] # <<>> \/ payrun[r].total = 0 \/ payTally.faults > 0)
=============================================================================
