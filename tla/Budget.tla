------------------------------- MODULE Budget -------------------------------
(***************************************************************************)
(* Project budgets: BudgetService, fed with cost.reported events by the    *)
(* bridges from accounts payable and payroll.  A report may be delivered   *)
(* any number of times (an invoice approved twice, a payroll job run       *)
(* again), and every delivery runs handleCostReported as a task of its own *)
(* that awaits its lookups, its transaction and then decides on an alert.  *)
(* The duplicate lookup is outside the transaction; what keeps one line    *)
(* per source is the unique index of ProjectBudgetLine.                    *)
(***************************************************************************)
EXTENDS Integers, FiniteSetsExt

CONSTANTS
  Projects,
  Reports,      \* cost.reported payloads: [source, project, amount]
  Budgets,      \* ids of ProjectBudget rows; bounds setBudget
  NoBudget,     \* result of a lookup that finds no budget
  Allowances,   \* plannedAmount plus the overrun threshold of a new budget
  Handlers,     \* concurrent invocations of handleCostReported
  MaxCrashes    \* bound on crashes

ASSUME BudgetAssumption ==
  /\ \A c \in Reports : c.project \in Projects /\ c.amount \in Nat \ {0}
  /\ NoBudget \notin Budgets
  /\ Allowances \subseteq Nat
  /\ MaxCrashes \in Nat

VARIABLES
  budget,   \* ProjectBudget rows: project, allowance, actualAmount
  latest,   \* newest budget of each project, or NoBudget
  lines,    \* ProjectBudgetLine rows by (sourceModule, sourceId)
  task,     \* where each handler stands, with its local variables
  alerted,  \* budgets for which budget.overrun was emitted
  crashes

vars == <<budget, latest, lines, task, alerted, crashes>>

SourceIds == {c.source : c \in Reports}

Idle == [pc |-> "idle"]
Task == [pc : {"idle"}]
        \cup [pc : {"plan"}, cost : Reports]
        \cup [pc : {"commit"}, cost : Reports, budget : Budgets]
        \cup [pc : {"alert"}, budget : Budgets]

Init ==
  /\ budget = [b \in {} |-> 0]
  /\ latest = [p \in Projects |-> NoBudget]
  /\ lines = [s \in {} |-> 0]
  /\ task = [h \in Handlers |-> Idle]
  /\ alerted = {}
  /\ crashes = 0

Goto(h, t) == task' = [task EXCEPT ![h] = t]

-----------------------------------------------------------------------------
\* setBudget: a new row, which handlers prefer from now on.
SetBudget(p, b, allowed) ==
  /\ b \notin DOMAIN budget
  /\ budget' = [x \in DOMAIN budget \cup {b} |->
                  IF x = b THEN [project |-> p, allowed |-> allowed, actual |-> 0]
                           ELSE budget[x]]
  /\ latest' = [latest EXCEPT ![p] = b]
  /\ UNCHANGED <<lines, task, alerted, crashes>>

\* The duplicate lookup at the start of handleCostReported.
Receive(h, c) ==
  /\ task[h] = Idle
  /\ c.source \notin DOMAIN lines
  /\ Goto(h, [pc |-> "plan", cost |-> c])
  /\ UNCHANGED <<budget, latest, lines, alerted, crashes>>

\* The lookup takes no more costs once the budget is overrun.
PickWithinAllowance(h) ==
  /\ task[h].pc = "plan"
  /\ LET b == latest[task[h].cost.project] IN
       Goto(h, IF b = NoBudget \/ budget[b].actual > budget[b].allowed THEN Idle
               ELSE [pc |-> "commit", cost |-> task[h].cost, budget |-> b])
  /\ UNCHANGED <<budget, latest, lines, alerted, crashes>>

\* The lookup of the newest budget; without one the report is dropped.
PickBudget(h) ==
  /\ task[h].pc = "plan"
  /\ LET b == latest[task[h].cost.project] IN
       Goto(h, IF b = NoBudget THEN Idle
               ELSE [pc |-> "commit", cost |-> task[h].cost, budget |-> b])
  /\ UNCHANGED <<budget, latest, lines, alerted, crashes>>

AddLine(s, b, a) ==
  lines' = [x \in DOMAIN lines \cup {s} |->
              IF x = s THEN [budget |-> b, amount |-> a] ELSE lines[x]]

\* The transaction without the unique index on the source.
RecordUnindexed(h) ==
  /\ task[h].pc = "commit"
  /\ LET c == task[h].cost
         b == task[h].budget
         actual == budget[b].actual + c.amount
     IN /\ AddLine(c.source, b, c.amount)
        /\ budget' = [budget EXCEPT ![b].actual = actual]
        /\ Goto(h, IF actual > budget[b].allowed
                   THEN [pc |-> "alert", budget |-> b] ELSE Idle)
  /\ UNCHANGED <<latest, alerted, crashes>>

\* The sum is compared before this cost is added to it.
RecordComparedBefore(h) ==
  /\ task[h].pc = "commit"
  /\ task[h].cost.source \notin DOMAIN lines
  /\ LET c == task[h].cost
         b == task[h].budget
     IN /\ AddLine(c.source, b, c.amount)
        /\ budget' = [budget EXCEPT ![b].actual = @ + c.amount]
        /\ Goto(h, IF budget[b].actual > budget[b].allowed
                   THEN [pc |-> "alert", budget |-> b] ELSE Idle)
  /\ UNCHANGED <<latest, alerted, crashes>>

\* The transaction: the line, the increment under the row's lock, and the
\* comparison with the value the update returned.
Record(h) ==
  /\ task[h].pc = "commit"
  /\ task[h].cost.source \notin DOMAIN lines
  /\ LET c == task[h].cost
         b == task[h].budget
         actual == budget[b].actual + c.amount
     IN /\ AddLine(c.source, b, c.amount)
        /\ budget' = [budget EXCEPT ![b].actual = actual]
        /\ Goto(h, IF actual > budget[b].allowed
                   THEN [pc |-> "alert", budget |-> b] ELSE Idle)
  /\ UNCHANGED <<latest, alerted, crashes>>

\* The insert violates the unique index: the transaction rolls back and the
\* handler throws.
RecordRefused(h) ==
  /\ task[h].pc = "commit"
  /\ task[h].cost.source \in DOMAIN lines
  /\ Goto(h, Idle)
  /\ UNCHANGED <<budget, latest, lines, alerted, crashes>>

\* emit('budget.overrun')
Alert(h) ==
  /\ task[h].pc = "alert"
  /\ alerted' = alerted \cup {task[h].budget}
  /\ Goto(h, Idle)
  /\ UNCHANGED <<budget, latest, lines, crashes>>

\* The API process dies with every handler in it.
Crash ==
  /\ crashes < MaxCrashes
  /\ crashes' = crashes + 1
  /\ task' = [h \in Handlers |-> Idle]
  /\ UNCHANGED <<budget, latest, lines, alerted>>

-----------------------------------------------------------------------------
Handle(h) == PickBudget(h) \/ Record(h) \/ RecordRefused(h) \/ Alert(h)

Next ==
  \/ \E p \in Projects, b \in Budgets, a \in Allowances : SetBudget(p, b, a)
  \/ \E h \in Handlers : Handle(h) \/ \E c \in Reports : Receive(h, c)
  \/ Crash

Spec == Init /\ [][Next]_vars

\* Node runs the continuation of every handler that has been started.
BudgetFairness == \A h \in Handlers : WF_vars(Handle(h))
FairSpec == Spec /\ BudgetFairness

-----------------------------------------------------------------------------
\* Every variable of the budget service stays in its type.
TypeOK ==
  /\ DOMAIN budget \subseteq Budgets
  /\ budget \in [DOMAIN budget ->
                   [project : Projects, allowed : Allowances, actual : Nat]]
  /\ latest \in [Projects -> DOMAIN budget \cup {NoBudget}]
  /\ DOMAIN lines \subseteq SourceIds
  /\ lines \in [DOMAIN lines -> [budget : DOMAIN budget, amount : Nat]]
  /\ task \in [Handlers -> Task]
  /\ \A h \in Handlers :
       task[h].pc \in {"commit", "alert"} => task[h].budget \in DOMAIN budget
  /\ alerted \subseteq DOMAIN budget
  /\ crashes \in 0 .. MaxCrashes

\* handleCostReported: a budget's actualAmount is the sum of its lines, so a
\* cost is counted once however often and however concurrently it is reported,
\* and also when a handler dies on the way.
ActualIsLines ==
  \A b \in DOMAIN budget :
    budget[b].actual =
      MapThenSumSet(LAMBDA s : lines[s].amount,
                    {s \in DOMAIN lines : lines[s].budget = b})

\* handleCostReported: concurrent costs that only together exceed a budget
\* still raise the overrun alert: while no crash has lost a handler, a budget
\* over its allowance is alerted or about to be.
OverrunIsAlerted ==
  crashes = 0 =>
    \A b \in DOMAIN budget :
      budget[b].actual > budget[b].allowed =>
        b \in alerted \/ \E h \in Handlers : task[h] = [pc |-> "alert", budget |-> b]

\* handleCostReported: a reported cost of a project with a budget gets its
\* line, also when a concurrent delivery of the same source made this one fail;
\* only a crash can lose it.
ReportedCostLands ==
  \A h \in Handlers, c \in Reports :
    (task[h] = [pc |-> "plan", cost |-> c] /\ latest[c.project] # NoBudget)
      ~> (c.source \in DOMAIN lines \/ crashes > 0)

-----------------------------------------------------------------------------
(***************************************************************************)
(* LaborCostBridgeListener: when a payroll run completes, each payslip's   *)
(* net pay is spread over the employee's resource allocations by hours,    *)
(* and every share is reported to the budget service.  An employee may     *)
(* have several allocations to one project, one per task; the source id of *)
(* a report names only the payslip and the project.                        *)
(***************************************************************************)
CONSTANTS
  NetPay,       \* payslip id -> net pay of the payslip, below zero where the
                \* monthly deductions exceed the salary
  Allocations   \* payslip id -> its employee's allocations in the period,
                \* a set of [task, project, hours]

HoursOf(s) == MapThenSumSet(LAMBDA a : a.hours, Allocations[s])

\* The share by hours, rounded to the nearest unit of four decimals.
Share(s, a) == (2 * NetPay[s] * a.hours + HoursOf(s)) \div (2 * HoursOf(s))

\* The cost.reported events of one payroll.completed event.
LaborReports ==
  UNION {{[source |-> <<s, a.project>>, project |-> a.project, amount |-> Share(s, a)] :
            a \in {x \in Allocations[s] : HoursOf(s) > 0 /\ Share(s, x) > 0}} :
         s \in DOMAIN NetPay}

\* Only the bridge reports a cost under a payslip's id.
ASSUME LaborAssumption ==
  /\ NetPay \in [DOMAIN NetPay -> Int]
  /\ \A s \in DOMAIN NetPay :
       /\ IsFiniteSet(Allocations[s])
       /\ \A a \in Allocations[s] : a.hours \in Nat
       /\ \A c \in Reports, p \in Projects : c.source = <<s, p>> => c \in LaborReports

\* What a payslip pays out: nothing when its net pay is below zero.
Paid(s) == IF NetPay[s] > 0 THEN NetPay[s] ELSE 0

\* LaborCostBridgeListener and handleCostReported: the projects together are
\* never charged more for a payslip than its net pay, up to half a unit of
\* rounding per allocation, however often its run is completed and however
\* the deliveries interleave.
LaborIsWithinPay ==
  \A s \in DOMAIN NetPay :
    2 * MapThenSumSet(LAMBDA p : lines[<<s, p>>].amount,
                      {p \in Projects : <<s, p>> \in DOMAIN lines})
      <= 2 * Paid(s) + Cardinality(Allocations[s])

\* LaborCostBridgeListener and handleCostReported together: the actual amount of
\* a budget is the sum of its lines, and the lines of a payslip stay within it.
ChargesAddUp == ActualIsLines /\ LaborIsWithinPay
=============================================================================
