---------------------------- MODULE ProjectPlans ----------------------------
(***************************************************************************)
(* Tasks, dependencies and milestones of projects (ProjectService) and the *)
(* daily scan for overdue milestones.  A handler that inserts looks first  *)
(* and inserts later; what it found may be deleted in between, which the   *)
(* foreign keys of the inserted row notice, if it has any.  Deletions and  *)
(* updates are one step each: theirs is one transaction, and what they     *)
(* look up first is looked up again by it.                                 *)
(***************************************************************************)
EXTENDS Integers, FiniteSets

CONSTANTS
  PlanProjects,   \* projects
  PlanRequests,   \* HTTP requests, each made once; a row is named after its request
  NoMilestone,    \* milestoneId of a task without one
  DayTicks,       \* ticks from one scan to the next
  DueTicks,       \* due dates
  MaxTicks        \* bound on time

ASSUME PlanAssumption ==
  /\ NoMilestone \notin PlanRequests
  /\ DayTicks \in Nat \ {0} /\ DueTicks \subseteq Nat /\ MaxTicks \in Nat

VARIABLES
  deleted,    \* projects with a deletedAt
  planTasks,  \* Task rows: project, milestone
  depends,    \* TaskDependency rows: <<dependent, prerequisite>>
  milestone,  \* Milestone rows: project, due, achieved
  planReq,    \* where each request stands
  tick,       \* the time
  scanned,    \* time of the last scan
  alerts,     \* milestone.overdue events of each milestone's due date
  late        \* milestones that were overdue when they got it (not stored)

planVars == <<deleted, planTasks, depends, milestone, planReq, tick, scanned, alerts, late>>
taskVars == <<planTasks, depends>>
dueVars == <<milestone, alerts, late>>
timeVars == <<tick, scanned>>

NotSent == [pc |-> "none"]
Sent == [pc |-> "done"]
OnlyOf(f, S) == [x \in S |-> f[x]]
With(f, x, v) == [y \in DOMAIN f \cup {x} |-> IF y = x THEN v ELSE f[y]]
TasksOf(p) == {t \in DOMAIN planTasks : planTasks[t].project = p}
MilestonesOf(p) == {m \in DOMAIN milestone : milestone[m].project = p}

PlanInit ==
  /\ deleted = {}
  /\ planTasks = [t \in {} |-> NotSent] /\ depends = {}
  /\ milestone = [m \in {} |-> NotSent] /\ alerts = [m \in {} |-> 0] /\ late = {}
  /\ planReq = [r \in PlanRequests |-> NotSent]
  /\ tick = 0 /\ scanned = 0

-----------------------------------------------------------------------------

\* createTask looks up the prerequisites among the project's tasks.  The graph
\* it then searches for a cycle has no edge to the task that does not exist yet.
TaskCheck(r, p, m, ds) ==
  /\ planReq[r] = NotSent
  /\ ds \subseteq TasksOf(p)
  /\ planReq' = [planReq EXCEPT ![r] =
       [pc |-> "task", project |-> p, milestone |-> m, prereqs |-> ds]]
  /\ UNCHANGED <<deleted, taskVars, dueVars, timeVars>>

\* The nested insert, which the foreign keys refuse when a row is gone.
TaskInsert(r) ==
  LET q == planReq[r] IN
  /\ q.pc = "task"
  /\ planReq' = [planReq EXCEPT ![r] = Sent]
  /\ IF q.prereqs \subseteq DOMAIN planTasks
        /\ q.milestone \in DOMAIN milestone \cup {NoMilestone}
     THEN /\ planTasks' = With(planTasks, r, [project |-> q.project, milestone |-> q.milestone])
          /\ depends' = depends \cup {<<r, t>> : t \in q.prereqs}
     ELSE UNCHANGED taskVars
  /\ UNCHANGED <<deleted, dueVars, timeVars>>

\* deleteTask takes the dependencies in both directions along.
DeleteTask(t) ==
  /\ t \in DOMAIN planTasks
  /\ planTasks' = OnlyOf(planTasks, DOMAIN planTasks \ {t})
  /\ depends' = {d \in depends : t \notin {d[1], d[2]}}
  /\ UNCHANGED <<deleted, planReq, dueVars, timeVars>>

-----------------------------------------------------------------------------
MilestoneCheck(r, p, due) ==
  /\ planReq[r] = NotSent
  /\ p \notin deleted
  /\ planReq' = [planReq EXCEPT ![r] = [pc |-> "milestone", project |-> p, due |-> due]]
  /\ UNCHANGED <<deleted, taskVars, dueVars, timeVars>>

\* createMilestone itself announces one that is overdue already.
MilestoneInsert(r) ==
  LET overdue == planReq[r].due < tick IN
  /\ planReq[r].pc = "milestone"
  /\ milestone' = With(milestone, r,
       [project |-> planReq[r].project, due |-> planReq[r].due, achieved |-> FALSE])
  /\ alerts' = With(alerts, r, IF overdue THEN 1 ELSE 0)
  /\ late' = IF overdue THEN late \cup {r} ELSE late
  /\ planReq' = [planReq EXCEPT ![r] = Sent]
  /\ UNCHANGED <<deleted, taskVars, timeVars>>

\* updateMilestone announces nothing.
MoveMilestone(m, due) ==
  /\ m \in DOMAIN milestone
  /\ milestone' = [milestone EXCEPT ![m].due = due]
  /\ alerts' = [alerts EXCEPT ![m] = 0]
  /\ late' = IF due < tick THEN late \cup {m} ELSE late \ {m}
  /\ UNCHANGED <<deleted, planReq, taskVars, timeVars>>

AchieveMilestone(m) ==
  /\ m \in DOMAIN milestone
  /\ ~milestone[m].achieved
  /\ milestone' = [milestone EXCEPT ![m].achieved = TRUE]
  /\ UNCHANGED <<deleted, planReq, taskVars, alerts, late, timeVars>>

WithoutMilestones(ms) ==
  /\ milestone' = OnlyOf(milestone, DOMAIN milestone \ ms)
  /\ alerts' = OnlyOf(alerts, DOMAIN milestone \ ms)
  /\ late' = late \ ms

\* deleteMilestone keeps the tasks.
DeleteMilestone(m) ==
  /\ m \in DOMAIN milestone
  /\ WithoutMilestones({m})
  /\ planTasks' = [t \in DOMAIN planTasks |->
       IF planTasks[t].milestone = m THEN [planTasks[t] EXCEPT !.milestone = NoMilestone]
       ELSE planTasks[t]]
  /\ UNCHANGED <<deleted, depends, planReq, timeVars>>

\* deleteProject.  A task of another project that names one of the milestones
\* loses it (ON DELETE SET NULL).
DeleteProject(p) ==
  /\ p \notin deleted
  /\ deleted' = deleted \cup {p}
  /\ depends' = {d \in depends : {d[1], d[2]} \cap TasksOf(p) = {}}
  /\ planTasks' = [t \in DOMAIN planTasks \ TasksOf(p) |->
       IF planTasks[t].milestone \in MilestonesOf(p)
       THEN [planTasks[t] EXCEPT !.milestone = NoMilestone] ELSE planTasks[t]]
  /\ WithoutMilestones(MilestonesOf(p))
  /\ UNCHANGED <<planReq, timeVars>>

-----------------------------------------------------------------------------
\* A window without its lower end.
OverdueAfter(due) == due < tick /\ due > tick - DayTicks

\* dueDate: { lt: now, gte: since }
NewlyOverdue(due) == due < tick /\ due >= tick - DayTicks

\* MilestoneOverdueScheduler, every day at 8
ScanDue == scanned # tick /\ tick % DayTicks = 0

Scan ==
  /\ ScanDue
  /\ scanned' = tick
  /\ alerts' = [m \in DOMAIN alerts |->
       IF ~milestone[m].achieved /\ NewlyOverdue(milestone[m].due)
       THEN alerts[m] + 1 ELSE alerts[m]]
  /\ UNCHANGED <<deleted, planReq, taskVars, milestone, late, tick>>

\* Time passes; the process is up whenever a scan is due.
TickPasses ==
  /\ ~ScanDue
  /\ tick < MaxTicks
  /\ tick' = tick + 1
  /\ UNCHANGED <<deleted, planReq, taskVars, dueVars, scanned>>

PlanNext ==
  \/ \E r \in PlanRequests :
       \/ TaskInsert(r) \/ MilestoneInsert(r)
       \/ \E p \in PlanProjects :
            \/ \E m \in DOMAIN milestone \cup {NoMilestone}, ds \in SUBSET DOMAIN planTasks :
                 TaskCheck(r, p, m, ds)
            \/ \E due \in DueTicks : MilestoneCheck(r, p, due)
  \/ \E t \in DOMAIN planTasks : DeleteTask(t)
  \/ \E m \in DOMAIN milestone :
       \/ AchieveMilestone(m) \/ DeleteMilestone(m)
       \/ \E due \in DueTicks : MoveMilestone(m, due)
  \/ \E p \in PlanProjects : DeleteProject(p)
  \/ Scan \/ TickPasses

PlanSpec == PlanInit /\ [][PlanNext]_planVars

-----------------------------------------------------------------------------
\* createTask, deleteTask and the two deletions: whatever is deleted while a
\* task is being created, a dependency joins two existing tasks of one project
\* and a task's milestone exists.
DependenciesHold ==
  /\ \A d \in depends :
       \E p \in PlanProjects : d[1] \in TasksOf(p) /\ d[2] \in TasksOf(p)
  /\ \A t \in DOMAIN planTasks :
       planTasks[t].milestone \in DOMAIN milestone \cup {NoMilestone}

\* MilestoneOverdueScheduler, "scan for milestones that became overdue in the
\* last 24 hours": successive windows leave no gap and do not overlap.  While
\* scans are on time, a due date that lay ahead when it was set is announced by
\* exactly one scan once it is past, unless the milestone was achieved.
OverdueIsAlertedOnce ==
  \A m \in DOMAIN milestone \ late :
    ~milestone[m].achieved =>
      alerts[m] = IF milestone[m].due < scanned THEN 1 ELSE 0

\* ProjectService and MilestoneOverdueScheduler together: a plan refers to what
\* exists, and an overdue milestone is announced once.
PlansHold == DependenciesHold /\ OverdueIsAlertedOnce
=============================================================================
