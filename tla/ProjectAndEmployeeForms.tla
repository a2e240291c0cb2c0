---------------------- MODULE ProjectAndEmployeeForms -----------------------
(***************************************************************************)
(* Two forms of the web client that gather an entry over several steps     *)
(* before anything is sent: the one that creates a project and the one     *)
(* that adds or edits an employee.                                         *)
(***************************************************************************)
EXTENDS Naturals, Sequences, FiniteSets, SequencesExt

(***************************************************************************)
(* The page that creates a project: three steps gather a draft, and the    *)
(* launch replays it on the API, one call after another, translating the   *)
(* draft's own row numbers to the ids the API returns.  The draft can be   *)
(* edited while a launch is under way, and any call may fail before or     *)
(* after it took effect.                                                   *)
(***************************************************************************)

CONSTANTS
  Crew,            \* the employees that can be allocated
  Nobody,          \* the empty choice of an assignment
  MaxTasks,        \* bounds the tasks of a draft
  MaxMilestones,   \* bounds its milestones
  MaxLaunches,     \* bounds the launches
  MaxEdits,        \* bounds the user's changes and the renewals of the token
  WizardFaults     \* bounds the calls that fail

ASSUME WizardAssumption ==
  /\ {MaxTasks, MaxMilestones, MaxLaunches, MaxEdits, WizardFaults} \subseteq Nat
  /\ Nobody \notin Crew

VARIABLES
  page,       \* the step shown, "left" once the page was left
  filled,     \* whether the project's fields pass validateStep0
  draft,      \* tasks and milestones in order, and the assignments by task number
  roster,     \* whether the employees are loaded
  launch,     \* what the last launch sends, where it is and the ids it got
  projects,   \* the projects the API created, with what belongs to each
  wizTally    \* counters of the bounds

wizardVars == <<page, filled, draft, roster, launch, projects, wizTally>>

Numbers(rows) == {rows[k].id : k \in DOMAIN rows}
EmptyDraft == [tasks |-> <<>>, milestones |-> <<>>, assigned |-> <<>>]
NoLaunch == [at |-> "idle", sent |-> EmptyDraft, tasks |-> <<>>, milestones |-> <<>>]
NewProject == [budget |-> FALSE, milestones |-> 0, tasks |-> <<>>]
Submitting == launch.at \in {"project", "budget", "rows"}

\* A map in which n now stands for v.
Noted(map, n, v) == [m \in DOMAIN map \cup {n} |-> IF m = n THEN v ELSE map[m]]

WizardInit ==
  /\ page = "project" /\ filled = FALSE
  /\ draft = EmptyDraft
  /\ roster = "none"
  /\ launch = NoLaunch
  /\ projects = <<>>
  /\ wizTally = [launches |-> 0, edits |-> 0, faults |-> 0]

\* A change of the user, or a renewal of the token.
DraftEdit == wizTally.edits < MaxEdits /\ wizTally' = [wizTally EXCEPT !.edits = @ + 1]

Fault == wizTally.faults < WizardFaults /\ wizTally' = [wizTally EXCEPT !.faults = @ + 1]

\* The employees are loaded again whenever the token is renewed.
LoadRoster ==
  /\ page # "left" /\ roster # "loading"
  /\ roster' = "loading" /\ DraftEdit
  /\ UNCHANGED <<page, filled, draft, launch, projects>>

RosterAnswers ==
  /\ roster = "loading"
  /\ \/ roster' = "known" /\ UNCHANGED wizTally
     \/ roster' = "failed" /\ Fault
  /\ UNCHANGED <<page, filled, draft, launch, projects>>

FillProject ==
  /\ page = "project" /\ filled' = ~filled /\ DraftEdit
  /\ UNCHANGED <<page, draft, roster, launch, projects>>

NextStep ==
  /\ \/ page = "project" /\ filled /\ page' = "plan"
     \/ page = "plan" /\ page' = "crew"
  /\ UNCHANGED <<filled, draft, roster, launch, projects, wizTally>>

\* Nothing is disabled while a launch is under way but the launch itself.
Back ==
  /\ \/ page = "project" /\ page' = "left"
     \/ page = "plan" /\ page' = "project"
     \/ page = "crew" /\ page' = "plan"
  /\ UNCHANGED <<filled, draft, roster, launch, projects, wizTally>>

\* A new row is numbered by the length of its list.
AddMilestone ==
  /\ page = "plan" /\ Len(draft.milestones) < MaxMilestones /\ DraftEdit
  /\ draft' = [draft EXCEPT !.milestones = Append(@, Len(@) + 1)]
  /\ UNCHANGED <<page, filled, roster, launch, projects>>

AddTask ==
  /\ page = "plan" /\ Len(draft.tasks) < MaxTasks /\ DraftEdit
  /\ \E after \in {0} \cup Numbers(draft.tasks), m \in {0} \cup ToSet(draft.milestones) :
       draft' = [draft EXCEPT !.tasks =
                   Append(@, [id |-> Len(@) + 1, after |-> after, milestone |-> m])]
  /\ UNCHANGED <<page, filled, roster, launch, projects>>

RemoveRow ==
  /\ page = "plan" /\ DraftEdit
  /\ \/ \E k \in DOMAIN draft.tasks : draft' = [draft EXCEPT !.tasks = RemoveAt(@, k)]
     \/ \E k \in DOMAIN draft.milestones :
          draft' = [draft EXCEPT !.milestones = RemoveAt(@, k)]
  /\ UNCHANGED <<page, filled, roster, launch, projects>>

\* hasCycle: of rows with one number the last counts.
RowOf(rows, n) == rows[CHOOSE k \in DOMAIN rows :
                         rows[k].id = n /\ \A j \in DOMAIN rows : rows[j].id = n => j <= k]

HasCycle(rows) ==
  \E S \in (SUBSET Numbers(rows)) \ {{}} : \A n \in S : RowOf(rows, n).after \in S

\* An assignment is kept under the task's number, also when the task is removed.
Assign ==
  /\ page = "crew" /\ roster = "known" /\ DraftEdit
  /\ \E n \in Numbers(draft.tasks), e \in Crew \cup {Nobody} :
       draft' = [draft EXCEPT !.assigned = Noted(@, n, e)]
  /\ UNCHANGED <<page, filled, roster, launch, projects>>

-----------------------------------------------------------------------------
\* handleLaunch works on the draft as it was when the button was clicked.
Launch ==
  /\ page = "crew" /\ filled /\ ~Submitting /\ roster # "loading"
  /\ wizTally.launches < MaxLaunches
  /\ launch' = [NoLaunch EXCEPT !.at = "project", !.sent = draft]
  /\ wizTally' = [wizTally EXCEPT !.launches = @ + 1]
  /\ UNCHANGED <<page, filled, draft, roster, projects>>

Here == Len(projects)
Project == projects[Here]

\* The answer of a call that took effect arrives or is lost.
Answers(next) ==
  /\ \/ launch' = next /\ UNCHANGED wizTally
     \/ launch' = [launch EXCEPT !.at = "failed"] /\ Fault
  /\ UNCHANGED <<page, filled, draft, roster>>

CreateProject ==
  /\ launch.at = "project"
  /\ projects' = Append(projects, NewProject)
  /\ Answers([launch EXCEPT !.at = "budget"])

SetBudgetOfProject ==
  /\ launch.at = "budget"
  /\ projects' = [projects EXCEPT ![Here].budget = TRUE]
  /\ Answers([launch EXCEPT !.at = "rows"])

CreateMilestone ==
  /\ launch.at = "rows" /\ Project.milestones < Len(launch.sent.milestones)
  /\ LET k == Project.milestones + 1 IN
     /\ projects' = [projects EXCEPT ![Here].milestones = k]
     /\ Answers([launch EXCEPT !.milestones = Noted(@, launch.sent.milestones[k], k)])

\* milestoneIdMap and taskIdMap: a number that is not there yet is left out.
ResolvedByNumber(ids, n) == IF n = 0 THEN {} ELSE {n}
Resolved(ids, n) == IF n \in DOMAIN ids THEN {ids[n]} ELSE {}

MilestonesDone == launch.at = "rows" /\ Project.milestones = Len(launch.sent.milestones)

CreateTask ==
  /\ MilestonesDone /\ Len(Project.tasks) < Len(launch.sent.tasks)
  /\ LET k == Len(Project.tasks) + 1
         row == launch.sent.tasks[k]
     IN
     /\ projects' = [projects EXCEPT ![Here].tasks = Append(@,
          [after |-> Resolved(launch.tasks, row.after),
           milestone |-> Resolved(launch.milestones, row.milestone),
           crew |-> {}])]
     /\ Answers([launch EXCEPT !.tasks = Noted(@, row.id, k)])

\* The assigned numbers whose task was created and is not allocated yet.
Unallocated ==
  {n \in DOMAIN launch.sent.assigned \cap DOMAIN launch.tasks :
     /\ launch.sent.assigned[n] # Nobody
     /\ Project.tasks[launch.tasks[n]].crew = {}}

RowsDone == MilestonesDone /\ Len(Project.tasks) = Len(launch.sent.tasks)

AllocateCrew ==
  /\ RowsDone
  /\ \E n \in Unallocated :
       projects' = [projects EXCEPT ![Here].tasks[launch.tasks[n]].crew =
                      {launch.sent.assigned[n]}]
  /\ Answers(launch)

LaunchEnds ==
  /\ RowsDone /\ Unallocated = {}
  /\ launch' = [launch EXCEPT !.at = "done"]
  /\ UNCHANGED <<page, filled, draft, roster, projects, wizTally>>

\* The page that lists the projects has replaced this one.
LeaveWizard ==
  /\ launch.at = "done" /\ page # "left" /\ page' = "left"
  /\ UNCHANGED <<filled, draft, roster, launch, projects, wizTally>>

\* A call that fails takes no effect; the rest of the launch is given up.
LaunchFails ==
  /\ Submitting /\ Fault
  /\ launch' = [launch EXCEPT !.at = "failed"]
  /\ UNCHANGED <<page, filled, draft, roster, projects>>

LaunchStep ==
  \/ CreateProject
  \/ SetBudgetOfProject
  \/ CreateMilestone
  \/ CreateTask
  \/ AllocateCrew
  \/ LaunchEnds

WizardNext ==
  \/ LoadRoster
  \/ RosterAnswers
  \/ FillProject
  \/ NextStep
  \/ Back
  \/ AddMilestone
  \/ AddTask
  \/ RemoveRow
  \/ Assign
  \/ Launch
  \/ LaunchStep
  \/ LeaveWizard
  \/ LaunchFails

WizardSpec == WizardInit /\ [][WizardNext]_wizardVars

-----------------------------------------------------------------------------
\* The rows a draft holds when none was removed before another was added: their
\* numbers differ and each depends on one above it.
Orderly(d) ==
  /\ IsInjective(d.milestones)
  /\ \A j, k \in DOMAIN d.tasks : d.tasks[j].id = d.tasks[k].id => j = k
  /\ \A k \in DOMAIN d.tasks :
       /\ d.tasks[k].after \in {0} \cup {d.tasks[j].id : j \in 1 .. k - 1}
       /\ d.tasks[k].milestone \in {0} \cup ToSet(d.milestones)

\* handleLaunch: whatever is edited meanwhile, a launch that ends left the project
\* with its budget and every row of the draft; "validated as a DAG on save", a
\* task depends on tasks created before it; and an orderly draft is reproduced
\* exactly, also when rows were removed, renumbered or launched a second time.
LaunchIsTheDraft ==
  launch.at = "done" =>
    /\ Project.budget /\ Project.milestones = Len(launch.sent.milestones)
    /\ Len(Project.tasks) = Len(launch.sent.tasks)
    /\ \A k \in DOMAIN Project.tasks :
         LET row == launch.sent.tasks[k]
             task == Project.tasks[k]
         IN
         /\ task.after \subseteq 1 .. k - 1
         /\ Orderly(launch.sent) =>
              /\ task.after = {j \in DOMAIN Project.tasks : launch.sent.tasks[j].id = row.after}
              /\ task.milestone = {j \in 1 .. Project.milestones :
                                     launch.sent.milestones[j] = row.milestone}
              /\ task.crew = {e \in Crew : row.id \in DOMAIN launch.sent.assigned
                                           /\ launch.sent.assigned[row.id] = e}

\* hasCycle: an orderly draft is never reported as circular.
OrderlyIsNotWarned == Orderly(draft) => ~HasCycle(draft.tasks)

\* ProjectCreationFlow as a whole.
WizardHolds == LaunchIsTheDraft /\ OrderlyIsNotWarned

-----------------------------------------------------------------------------
(***************************************************************************)
(* The form that adds or edits an employee, in the two pages that host it. *)
(* It has three steps; the lists of its page are loaded again whenever the *)
(* token is renewed, and every load starts the form afresh.  Submitting    *)
(* hands the entry to the page, clears the form and leaves, all before the *)
(* call is answered.                                                       *)
(***************************************************************************)

CONSTANTS
  FormModules,     \* the modules of the ERP
  DeptModules,     \* the departments, with the modules each proposes
  NoDept,          \* no department chosen
  MaxFormEdits,    \* bounds the changes of the form and the loads of the lists
  FormFaults       \* bounds the calls that fail

FormDepts == DOMAIN DeptModules

ASSUME FormAssumption ==
  /\ {MaxFormEdits, FormFaults} \subseteq Nat /\ NoDept \notin FormDepts /\ FormModules # {}
  /\ \A d \in FormDepts : DeptModules[d] \subseteq FormModules

\* Of the roles; "none" stands for the empty choice.
Ordinary == {"Employee", "Manager", "Viewer"}

VARIABLES
  host,        \* the page, what it hosts the form for, its call and its lists
  entry,       \* the step and the entry
  handed,      \* the entries handed to the page, the last one's answer
  formTally    \* counters of the bounds

formVars == <<host, entry, handed, formTally>>

Blank == [step |-> 1, person |-> FALSE, job |-> FALSE, dept |-> NoDept,
          rank |-> "Employee", access |-> TRUE, role |-> "none", modules |-> {}]

\* The entry of the employee under edit: without role and modules, which the page
\* does not load.
Loaded(d) == [Blank EXCEPT !.person = TRUE, !.job = TRUE, !.dept = d, !.access = FALSE]

FormInit ==
  /\ host = [page |-> "list", edits |-> FALSE, lists |-> "none",
             known |-> FALSE, saving |-> FALSE, late |-> FALSE]
  /\ entry = Blank
  /\ handed = {}
  /\ formTally = [edits |-> 0, faults |-> 0]

FormEdit == formTally.edits < MaxFormEdits /\ formTally' = [formTally EXCEPT !.edits = @ + 1]

FormFault == formTally.faults < FormFaults /\ formTally' = [formTally EXCEPT !.faults = @ + 1]

\* The page opens; the form of a new employee is there at once, without departments.
OpenForm ==
  /\ host.page = "list" /\ FormEdit
  /\ \E e \in BOOLEAN :
       host' = [host EXCEPT !.page = IF e THEN "fetching" ELSE "form", !.edits = e,
                            !.lists = "loading", !.known = FALSE]
  /\ entry' = Blank
  /\ UNCHANGED handed

RenewToken ==
  /\ host.page \in {"form", "leaving"} /\ host.lists # "loading" /\ FormEdit
  /\ host' = [host EXCEPT !.lists = "loading"]
  /\ UNCHANGED <<entry, handed>>

\* The effect of [editEmployee, departments]: both are new objects after each load.
BlankInPlace == [Blank EXCEPT !.step = entry.step]
Refreshed == Blank

FormListsArrive ==
  /\ host.lists = "loading"
  /\ host' = [host EXCEPT !.lists = "loaded", !.known = TRUE,
                          !.page = IF @ = "fetching" THEN "form" ELSE @]
  /\ IF host.edits THEN \E d \in FormDepts \cup {NoDept} : entry' = Loaded(d)
                   ELSE entry' = Refreshed
  /\ UNCHANGED <<handed, formTally>>

\* Without the employee there is nothing to edit.
FormListsFail ==
  /\ host.lists = "loading" /\ FormFault
  /\ host' = [host EXCEPT !.lists = "failed", !.page = IF @ = "fetching" THEN "list" ELSE @]
  /\ UNCHANGED <<entry, handed>>

Proposed(d) == IF d \in FormDepts /\ host.known THEN DeptModules[d] ELSE {}

-----------------------------------------------------------------------------
Entering(step) == host.page \in {"form", "leaving"} /\ entry.step = step

EditPerson ==
  /\ Entering(1) /\ FormEdit
  /\ entry' = [entry EXCEPT !.person = ~@]
  /\ UNCHANGED <<host, handed>>

\* The departments on offer are those of the last load.
EditJob ==
  /\ Entering(2) /\ FormEdit
  /\ \/ entry' = [entry EXCEPT !.job = ~@]
     \/ \E d \in FormDepts \cup {NoDept} :
          host.known /\ entry' = [entry EXCEPT !.dept = d]
     \/ \E r \in {"Employee", "Manager", "TenantAdmin"} : entry' = [entry EXCEPT !.rank = r]
  /\ UNCHANGED <<host, handed>>

NextFromPerson ==
  /\ Entering(1) /\ entry.person
  /\ entry' = [entry EXCEPT !.step = 2]
  /\ UNCHANGED <<host, handed, formTally>>

\* Access is proposed again each time, with a role by the rank and the
\* department's modules, unless there were some.
NextFromJob ==
  /\ Entering(2) /\ entry.job /\ entry.dept # NoDept
  /\ LET role == IF entry.role = "none" THEN entry.rank ELSE entry.role IN
     entry' = [entry EXCEPT !.step = 3, !.access = TRUE, !.role = role,
                          !.modules = IF role = "TenantAdmin" THEN FormModules
                                      ELSE IF @ # {} THEN @ ELSE Proposed(entry.dept)]
  /\ UNCHANGED <<host, handed, formTally>>

HandleBack ==
  /\ Entering(2) \/ Entering(3)
  /\ entry' = [entry EXCEPT !.step = @ - 1]
  /\ UNCHANGED <<host, handed, formTally>>

SwitchAccess ==
  /\ Entering(3) /\ FormEdit
  /\ entry' = [entry EXCEPT !.access = ~@, !.role = "none"]
  /\ UNCHANGED <<host, handed>>

ChooseRole ==
  /\ Entering(3) /\ entry.access /\ FormEdit
  /\ \E r \in Ordinary \cup {"TenantAdmin", "none"} :
       entry' = [entry EXCEPT !.role = r,
                  !.modules = IF r = "TenantAdmin" THEN FormModules
                              ELSE IF entry.role = "TenantAdmin" \/ @ = {} THEN Proposed(entry.dept)
                              ELSE @]
  /\ UNCHANGED <<host, handed>>

ToggleModule ==
  /\ Entering(3) /\ entry.access /\ entry.role # "TenantAdmin" /\ FormEdit
  /\ \E m \in FormModules :
       entry' = [entry EXCEPT !.modules = IF m \in @ THEN @ \ {m} ELSE @ \cup {m}]
  /\ UNCHANGED <<host, handed>>

ResetModules ==
  /\ Entering(3) /\ entry.access /\ entry.role # "TenantAdmin" /\ FormEdit
  /\ entry' = [entry EXCEPT !.modules = Proposed(entry.dept)]
  /\ UNCHANGED <<host, handed>>

\* The entry is handed over, then the form is cleared and the page left.
HandleSubmit ==
  /\ Entering(3) /\ ~host.saving
  /\ entry.access => entry.role # "none" /\ (entry.role # "TenantAdmin" => entry.modules # {})
  /\ handed' = handed \cup {[entry EXCEPT !.modules = IF entry.access THEN @ ELSE {}]}
  /\ entry' = Blank
  /\ host' = [host EXCEPT !.page = "leaving", !.saving = TRUE]
  /\ UNCHANGED formTally

HandleClose ==
  /\ host.page = "form"
  /\ entry' = Blank /\ host' = [host EXCEPT !.page = "leaving"]
  /\ UNCHANGED <<handed, formTally>>

\* The list replaces the page, whatever the call and the loads are up to.
LeaveForm ==
  /\ host.page = "leaving" /\ ~(host.saving /\ host.late)
  /\ host' = [host EXCEPT !.page = "list", !.lists = "none", !.saving = FALSE,
                          !.late = @ \/ host.saving]
  /\ UNCHANGED <<entry, handed, formTally>>

\* On success the list is opened once more, also from a page that was opened since
\* the submission; on failure a message is shown.
SaveAnswered ==
  /\ \/ host.saving /\ UNCHANGED formTally
        /\ host' = [host EXCEPT !.saving = FALSE]
     \/ host.late /\ UNCHANGED formTally
        /\ host' = [host EXCEPT !.late = FALSE, !.page = IF @ = "list" THEN @ ELSE "leaving"]
     \/ host.saving /\ host' = [host EXCEPT !.saving = FALSE] /\ FormFault
     \/ host.late /\ host' = [host EXCEPT !.late = FALSE] /\ FormFault
  /\ UNCHANGED <<entry, handed>>

FormNext ==
  \/ OpenForm
  \/ RenewToken
  \/ FormListsArrive
  \/ FormListsFail
  \/ EditPerson
  \/ EditJob
  \/ NextFromPerson
  \/ NextFromJob
  \/ HandleBack
  \/ SwitchAccess
  \/ ChooseRole
  \/ ToggleModule
  \/ ResetModules
  \/ HandleSubmit
  \/ HandleClose
  \/ LeaveForm
  \/ SaveAnswered

FormSpec == FormInit /\ [][FormNext]_formVars

-----------------------------------------------------------------------------
\* handleNext, handleSubmit: an entry that is handed over names the person, the
\* hire date and the department, however the user went to and fro and whenever a
\* load started the form afresh.
HandedIsComplete == \A e \in handed : e.person /\ e.job /\ e.dept # NoDept

\* handleNext, handleSubmit and the access step: such an entry has a role and modules
\* if it has access, all modules if the role is TenantAdmin, and none otherwise.
HandedAccessIsWhole ==
  \A e \in handed :
    /\ e.access <=> e.role # "none"
    /\ e.access <=> e.modules # {}
    /\ e.role = "TenantAdmin" => e.modules = FormModules

\* EmployeeForm as a whole.
FormHolds == HandedIsComplete /\ HandedAccessIsWhole
=============================================================================
