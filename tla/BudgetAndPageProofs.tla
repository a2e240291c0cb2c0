------------------------ MODULE BudgetAndPageProofs -------------------------
(***************************************************************************)
(* Proofs about project budgets, for any number of projects, reports,      *)
(* handlers and crashes, and about pages of the web client, for any pages  *)
(* with a list, entries, answers and faults.                               *)
(***************************************************************************)
EXTENDS Desk, Budget, ProjectAndEmployeeForms, SearchAndTraining, SettingsPage,
        SequenceTheorems, Sums

(***************************************************************************)
(* Budget.  TypeOK is inductive; OverrunIsAlerted is inductive relative to *)
(* it: the only step that can raise a budget over its allowance is Record, *)
(* which leaves its own handler about to alert, and no other handler's     *)
(* step takes an alert away before it is emitted.  ChargesAddUp is about   *)
(* sums over the cost lines, which a step changes by one line or by all    *)
(* lines of a payslip.                                                     *)
(***************************************************************************)

\* Adding a row keeps a table a function into its row type.
LEMMA AddRow ==
  ASSUME NEW T, NEW f, f \in [DOMAIN f -> T], NEW k, NEW v \in T
  PROVE  LET g == [x \in DOMAIN f \cup {k} |-> IF x = k THEN v ELSE f[x]]
         IN  g \in [DOMAIN f \cup {k} -> T]
  OBVIOUS

LEMMA InitType == Init => TypeOK
<1> SUFFICES ASSUME Init PROVE TypeOK
  OBVIOUS
<1> USE BudgetAssumption DEF Init
<1>1. budget \in [DOMAIN budget -> [project : Projects, allowed : Allowances, actual : Nat]]
  OBVIOUS
<1>2. lines \in [DOMAIN lines -> [budget : DOMAIN budget, amount : Nat]]
  OBVIOUS
<1>3. task \in [Handlers -> Task] /\ \A h \in Handlers : task[h].pc = "idle"
  BY DEF Idle, Task
<1>4. latest \in [Projects -> DOMAIN budget \cup {NoBudget}]
  OBVIOUS
<1> QED
  BY <1>1, <1>2, <1>3, <1>4 DEF TypeOK

\* One lemma per action: the step keeps every variable in its type.
LEMMA SetBudgetType ==
  ASSUME TypeOK, NEW p \in Projects, NEW b \in Budgets, NEW a \in Allowances,
         SetBudget(p, b, a)
  PROVE  TypeOK'
<1> DEFINE row == [project |-> p, allowed |-> a, actual |-> 0]
<1>1. DOMAIN budget' = DOMAIN budget \cup {b}
  BY DEF SetBudget
<1>2. budget' \in [DOMAIN budget' ->
                     [project : Projects, allowed : Allowances, actual : Nat]]
  BY <1>1 DEF SetBudget, TypeOK
<1>3. latest' \in [Projects -> DOMAIN budget' \cup {NoBudget}]
  BY <1>1 DEF SetBudget, TypeOK
<1>4. lines' \in [DOMAIN lines' -> [budget : DOMAIN budget', amount : Nat]]
  BY <1>1 DEF SetBudget, TypeOK
<1> QED
  BY <1>1, <1>2, <1>3, <1>4 DEF SetBudget, TypeOK

LEMMA ReceiveType ==
  ASSUME TypeOK, NEW h \in Handlers, NEW c \in Reports, Receive(h, c)
  PROVE  TypeOK'
<1>1. [pc |-> "plan", cost |-> c] \in Task
  BY DEF Task
<1> QED
  BY <1>1 DEF Receive, Goto, TypeOK

\* What a handler about to record carries.
LEMMA CommitTask ==
  ASSUME TypeOK, NEW h \in Handlers, task[h].pc = "commit"
  PROVE  /\ task[h].cost \in Reports
         /\ task[h].cost.amount \in Nat
         /\ task[h].cost.source \in SourceIds
         /\ task[h].budget \in DOMAIN budget
<1>1. task[h] \in [pc : {"commit"}, cost : Reports, budget : Budgets]
  BY DEF TypeOK, Task
<1> QED
  BY <1>1, BudgetAssumption DEF TypeOK, SourceIds

LEMMA PickBudgetType ==
  ASSUME TypeOK, NEW h \in Handlers, PickBudget(h)
  PROVE  TypeOK'
<1> DEFINE c == task[h].cost
           b == latest[c.project]
<1>1. task[h] \in [pc : {"plan"}, cost : Reports]
  BY DEF TypeOK, Task, PickBudget
<1>2. b \in DOMAIN budget \cup {NoBudget}
  BY <1>1, BudgetAssumption DEF TypeOK
<1>3. task'[h] \in Task /\ (task'[h].pc \in {"commit", "alert"} => task'[h].budget \in DOMAIN budget)
  <2>1. CASE b = NoBudget
    BY <2>1 DEF PickBudget, Goto, TypeOK, Task, Idle
  <2>2. CASE b # NoBudget
    BY <2>2, <1>1, <1>2 DEF PickBudget, Goto, TypeOK, Task
  <2> QED
    BY <2>1, <2>2
<1>4. \A g \in Handlers : g # h => task'[g] = task[g]
  BY DEF PickBudget, Goto, TypeOK
<1>5. task' \in [Handlers -> Task]
  BY <1>3, <1>4 DEF PickBudget, Goto, TypeOK
<1> QED
  BY <1>3, <1>4, <1>5 DEF PickBudget, TypeOK

LEMMA RecordType ==
  ASSUME TypeOK, NEW h \in Handlers, Record(h)
  PROVE  TypeOK'
<1> DEFINE c == task[h].cost
           b == task[h].budget
           actual == budget[b].actual + c.amount
<1>1. /\ c \in Reports /\ c.amount \in Nat /\ c.source \in SourceIds
      /\ b \in DOMAIN budget
  BY CommitTask DEF Record
<1>2. actual \in Nat
  BY <1>1 DEF TypeOK
<1>3. /\ DOMAIN budget' = DOMAIN budget
      /\ budget' \in [DOMAIN budget ->
                        [project : Projects, allowed : Allowances, actual : Nat]]
  BY <1>1, <1>2 DEF Record, TypeOK
<1>4. /\ DOMAIN lines' = DOMAIN lines \cup {c.source}
      /\ lines' \in [DOMAIN lines' -> [budget : DOMAIN budget', amount : Nat]]
  BY <1>1, <1>3 DEF Record, AddLine, TypeOK
<1>5. task'[h] \in Task /\ (task'[h].pc \in {"commit", "alert"} => task'[h].budget \in DOMAIN budget')
  <2>1. CASE actual > budget[b].allowed
    BY <2>1, <1>1, <1>3 DEF Record, Goto, TypeOK, Task
  <2>2. CASE ~(actual > budget[b].allowed)
    BY <2>2, <1>3 DEF Record, Goto, TypeOK, Task, Idle
  <2> QED
    BY <2>1, <2>2
<1>6. \A g \in Handlers : g # h => task'[g] = task[g]
  BY DEF Record, Goto, TypeOK
<1>7. task' \in [Handlers -> Task]
  BY <1>5, <1>6 DEF Record, Goto, TypeOK
<1> QED
  BY <1>1, <1>3, <1>4, <1>5, <1>6, <1>7 DEF Record, TypeOK

LEMMA RefusedType ==
  ASSUME TypeOK, NEW h \in Handlers, RecordRefused(h)
  PROVE  TypeOK'
  BY DEF RecordRefused, Goto, TypeOK, Task, Idle

LEMMA AlertType ==
  ASSUME TypeOK, NEW h \in Handlers, Alert(h)
  PROVE  TypeOK'
  BY DEF Alert, Goto, TypeOK, Task, Idle

LEMMA CrashType ==
  ASSUME TypeOK, Crash
  PROVE  TypeOK'
  BY BudgetAssumption DEF Crash, TypeOK, Task, Idle

LEMMA TypeStep == TypeOK /\ [Next]_vars => TypeOK'
<1> SUFFICES ASSUME TypeOK, [Next]_vars PROVE TypeOK'
  OBVIOUS
<1>1. CASE Next
  BY <1>1, SetBudgetType, ReceiveType, PickBudgetType, RecordType, RefusedType,
     AlertType, CrashType DEF Next, Handle
<1>2. CASE UNCHANGED vars
  BY <1>2 DEF vars, TypeOK
<1> QED
  BY <1>1, <1>2

\* Every variable of the budget service stays in its type, for any constants
\* that satisfy the assumption.
THEOREM TypeCorrect == Spec => []TypeOK
  BY InitType, TypeStep, PTL DEF Spec

-----------------------------------------------------------------------------
\* The alert is emitted or pending.
Alerting(b) == b \in alerted \/ \E h \in Handlers : task[h] = [pc |-> "alert", budget |-> b]

LEMMA RecordAlerts ==
  ASSUME TypeOK, OverrunIsAlerted, NEW h \in Handlers, Record(h)
  PROVE  OverrunIsAlerted'
<1> DEFINE c == task[h].cost
           b == task[h].budget
           actual == budget[b].actual + c.amount
<1>1. c.amount \in Nat /\ b \in DOMAIN budget
  BY CommitTask DEF Record
<1>2. /\ DOMAIN budget' = DOMAIN budget
      /\ \A d \in DOMAIN budget : d # b => budget'[d] = budget[d]
      /\ budget'[b].actual = actual
      /\ budget'[b].allowed = budget[b].allowed
      /\ alerted' = alerted /\ crashes' = crashes
  BY <1>1 DEF Record, TypeOK
<1>3. /\ actual > budget[b].allowed => task'[h] = [pc |-> "alert", budget |-> b]
      /\ \A g \in Handlers : g # h => task'[g] = task[g]
  BY DEF Record, Goto, TypeOK
<1>4. ASSUME NEW d \in DOMAIN budget, crashes = 0, budget'[d].actual > budget'[d].allowed
      PROVE  Alerting(d)'
  <2>1. CASE d = b
    BY <2>1, <1>2, <1>3, <1>4 DEF Alerting
  <2>2. CASE d # b
    <3>1. Alerting(d)
      BY <2>2, <1>2, <1>4 DEF OverrunIsAlerted, Alerting
    <3>2. ASSUME NEW g \in Handlers, task[g] = [pc |-> "alert", budget |-> d]
          PROVE  task'[g] = task[g]
      BY <3>2, <1>3 DEF Record
    <3> QED
      BY <3>1, <3>2, <1>2 DEF Alerting
  <2> QED
    BY <2>1, <2>2
<1> QED
  BY <1>2, <1>4 DEF OverrunIsAlerted, Alerting

\* A step of handler h that records nothing and drops no pending alert.
LEMMA QuietStep ==
  ASSUME TypeOK, OverrunIsAlerted, NEW h \in Handlers,
         UNCHANGED <<budget, crashes>>, alerted \subseteq alerted',
         \A g \in Handlers : g # h => task'[g] = task[g],
         task[h].pc # "alert" \/ task[h].budget \in alerted'
  PROVE  OverrunIsAlerted'
<1>1. ASSUME NEW d, Alerting(d) PROVE Alerting(d)'
  BY <1>1 DEF Alerting
<1> QED
  BY <1>1 DEF OverrunIsAlerted, Alerting

LEMMA AlertedStep ==
  TypeOK /\ OverrunIsAlerted /\ [Next]_vars => OverrunIsAlerted'
<1> SUFFICES ASSUME TypeOK, OverrunIsAlerted, [Next]_vars PROVE OverrunIsAlerted'
  OBVIOUS
<1>1. ASSUME NEW p \in Projects, NEW b \in Budgets, NEW a \in Allowances, SetBudget(p, b, a)
      PROVE  OverrunIsAlerted'
  <2>1. ASSUME NEW d \in DOMAIN budget', budget'[d].actual > budget'[d].allowed
        PROVE  d \in DOMAIN budget /\ budget'[d] = budget[d]
    BY <1>1, <2>1, BudgetAssumption DEF SetBudget
  <2> QED
    BY <1>1, <2>1 DEF SetBudget, OverrunIsAlerted
<1>2. ASSUME NEW h \in Handlers, NEW c \in Reports, Receive(h, c)
      PROVE  OverrunIsAlerted'
  BY <1>2, QuietStep DEF Receive, Goto, TypeOK, Idle
<1>3. ASSUME NEW h \in Handlers, PickBudget(h)
      PROVE  OverrunIsAlerted'
  BY <1>3, QuietStep DEF PickBudget, Goto, TypeOK
<1>4. ASSUME NEW h \in Handlers, RecordRefused(h)
      PROVE  OverrunIsAlerted'
  BY <1>4, QuietStep DEF RecordRefused, Goto, TypeOK
<1>5. ASSUME NEW h \in Handlers, Alert(h)
      PROVE  OverrunIsAlerted'
  BY <1>5, QuietStep DEF Alert, Goto, TypeOK
<1>6. ASSUME Crash PROVE OverrunIsAlerted'
  BY <1>6 DEF Crash, TypeOK, OverrunIsAlerted
<1>7. CASE UNCHANGED vars
  BY <1>7 DEF vars, OverrunIsAlerted
<1> QED
  BY <1>1, <1>2, <1>3, <1>4, <1>5, <1>6, <1>7, RecordAlerts DEF Next, Handle

\* While no crash has lost a handler, a budget over its allowance is alerted
\* or about to be, for any number of concurrent cost reports.
THEOREM OverrunIsAlertedAlways == Spec => []OverrunIsAlerted
<1>1. Init => OverrunIsAlerted
  BY DEF Init, OverrunIsAlerted
<1> QED
  BY <1>1, InitType, TypeStep, AlertedStep, PTL DEF Spec

-----------------------------------------------------------------------------
\* A sum over the lines, as a sum of a function.
LEMMA LineSum ==
  ASSUME NEW l, NEW S
  PROVE  MapThenSumSet(LAMBDA s : l[s].amount, S) = SumOf([s \in S |-> l[s].amount], S)
<1> DEFINE Q(g) == g = [T \in SUBSET S |->
                          IF T = {} THEN 0 ELSE l[AnyOf(T)].amount + g[T \ {AnyOf(T)}]]
<1>1. MapThenSumSet(LAMBDA s : l[s].amount, S) = (CHOOSE g : Q(g))[S]
  BY DEF MapThenSumSet, MapThenFoldSet, AnyOf
<1>2. \A g : Q(g) <=> SumIter([s \in S |-> l[s].amount], S, g)
  BY DEF AnyOf, SumIter
<1> HIDE DEF Q
<1>3. (CHOOSE g : Q(g)) = (CHOOSE g : SumIter([s \in S |-> l[s].amount], S, g))
  BY <1>2
<1> QED
  BY <1>1, <1>3, SumUnfold

\* The lines l of budget b, and what they charge it.
LinesOf(l, b) == {s \in DOMAIN l : l[s].budget = b}
Charged(l, b) == SumOf([s \in LinesOf(l, b) |-> l[s].amount], LinesOf(l, b))

\* A new line charges its budget with its amount, and no other.
LEMMA NewLine ==
  ASSUME NEW l, IsFiniteSet(DOMAIN l), \A s \in DOMAIN l : l[s].amount \in Nat,
         NEW x, x \notin DOMAIN l, NEW b, NEW a \in Nat,
         NEW m, DOMAIN m = DOMAIN l \cup {x}, m[x] = [budget |-> b, amount |-> a],
         \A s \in DOMAIN l : m[s] = l[s]
  PROVE  \A d : Charged(m, d) = Charged(l, d) + IF d = b THEN a ELSE 0
<1> TAKE d
<1>1. PICK S : S = LinesOf(l, d)
  OBVIOUS
<1>2. PICK f : f = [s \in LinesOf(l, d) |-> l[s].amount]
  OBVIOUS
<1>3. PICK g : g = [s \in LinesOf(m, d) |-> m[s].amount]
  OBVIOUS
<1>4. IsFiniteSet(S) /\ x \notin S /\ \A s \in S : g[s] = f[s] /\ f[s] \in Nat
  <2>1. S \subseteq DOMAIN l
    BY <1>1 DEF LinesOf
  <2> QED
    BY <1>1, <1>2, <1>3, <2>1, FS_Subset DEF LinesOf
<1>5. SumOf(g, S) = SumOf(f, S) /\ SumOf(f, S) \in Nat
  BY <1>4, SumSame, SumType
<1>6. CASE d = b
  <2>1. LinesOf(m, d) = S \cup {x} /\ g[x] = a
    BY <1>1, <1>3, <1>6 DEF LinesOf
  <2>2. SumOf(g, S \cup {x}) = g[x] + SumOf(g, S)
    BY <1>4, <2>1, SumMore
  <2>3. Charged(m, d) = SumOf(g, S \cup {x}) /\ Charged(l, d) = SumOf(f, S)
    BY <1>1, <1>2, <1>3, <2>1 DEF Charged
  <2> QED
    BY <1>5, <1>6, <2>1, <2>2, <2>3
<1>7. CASE d # b
  <2>1. LinesOf(m, d) = S
    BY <1>1, <1>7 DEF LinesOf
  <2> QED
    BY <1>1, <1>2, <1>3, <1>5, <1>7, <2>1 DEF Charged
<1> QED
  BY <1>6, <1>7

\* Every line is that of a report.
LinesInv ==
  /\ IsFiniteSet(DOMAIN lines)
  /\ \A x \in DOMAIN lines : \E c \in Reports : c.source = x /\ lines[x].amount = c.amount
  /\ \A b \in DOMAIN budget : budget[b].actual = Charged(lines, b)

LEMMA RecordCharges ==
  ASSUME TypeOK, LinesInv, NEW h \in Handlers, Record(h)
  PROVE  LinesInv'
<1>1. PICK c \in Reports, b \in DOMAIN budget :
        c = task[h].cost /\ b = task[h].budget
  BY CommitTask DEF Record
<1>2. c.amount \in Nat /\ c.source \notin DOMAIN lines
  BY <1>1, BudgetAssumption DEF Record
<1>3. PICK m : m = [x \in DOMAIN lines \cup {c.source} |->
                      IF x = c.source THEN [budget |-> b, amount |-> c.amount] ELSE lines[x]]
  OBVIOUS
<1>4. lines' = m /\ DOMAIN m = DOMAIN lines \cup {c.source}
  BY <1>1, <1>3 DEF Record, AddLine
<1>5. IsFiniteSet(DOMAIN m)
  BY <1>4, FS_AddElement DEF LinesInv
<1>6. \A x \in DOMAIN m : \E e \in Reports : e.source = x /\ m[x].amount = e.amount
  BY <1>3, <1>4 DEF LinesInv
<1>7. \A d : Charged(m, d) = Charged(lines, d) + IF d = b THEN c.amount ELSE 0
  <2>1. PICK l : l = lines
    OBVIOUS
  <2>2. IsFiniteSet(DOMAIN l) /\ \A x \in DOMAIN l : l[x].amount \in Nat
    BY <2>1 DEF TypeOK, LinesInv
  <2>3. PICK k : k = c.source
    OBVIOUS
  <2>4. PICK a \in Nat : a = c.amount
    BY <1>2
  <2>5. /\ k \notin DOMAIN l /\ DOMAIN m = DOMAIN l \cup {k}
        /\ m[k] = [budget |-> b, amount |-> a]
        /\ \A s \in DOMAIN l : m[s] = l[s]
    BY <1>2, <1>3, <2>1, <2>3, <2>4
  <2>6. \A d : Charged(m, d) = Charged(l, d) + IF d = b THEN a ELSE 0
    BY <2>2, <2>5, NewLine
  <2> QED
    BY <2>1, <2>4, <2>6
<1>8. ASSUME NEW d \in DOMAIN budget'
      PROVE  budget'[d].actual = Charged(m, d)
  <2>1. /\ DOMAIN budget' = DOMAIN budget
        /\ budget'[d].actual = budget[d].actual + IF d = b THEN c.amount ELSE 0
    BY <1>1, <1>2 DEF Record, TypeOK
  <2> QED
    BY <1>7, <2>1 DEF LinesInv
<1> QED
  BY <1>4, <1>5, <1>6, <1>8 DEF LinesInv

LEMMA SetBudgetCharges ==
  ASSUME TypeOK, LinesInv, NEW p \in Projects, NEW b \in Budgets, NEW a \in Allowances,
         SetBudget(p, b, a)
  PROVE  LinesInv'
<1>1. PICK l : l = lines
  OBVIOUS
<1>2. lines' = l /\ lines = l
  BY <1>1 DEF SetBudget
<1>3. Charged(l, b) = 0
  <2>1. LinesOf(l, b) = {}
    BY <1>1 DEF LinesOf, TypeOK, SetBudget
  <2> QED
    BY <2>1, SumEmpty DEF Charged
<1>4. ASSUME NEW d \in DOMAIN budget' PROVE budget'[d].actual = Charged(l, d)
  BY <1>2, <1>3 DEF LinesInv, SetBudget
<1> QED
  BY <1>2, <1>4 DEF LinesInv

LEMMA LinesStep == TypeOK /\ LinesInv /\ [Next]_vars => LinesInv'
<1> SUFFICES ASSUME TypeOK, LinesInv, [Next]_vars PROVE LinesInv'
  OBVIOUS
<1>1. ASSUME UNCHANGED <<budget, lines>> PROVE LinesInv'
  BY <1>1 DEF LinesInv
<1>2. ASSUME NEW h \in Handlers, Handle(h) PROVE LinesInv'
  BY <1>1, <1>2, RecordCharges DEF Handle, PickBudget, RecordRefused, Alert
<1>3. ASSUME NEW h \in Handlers, NEW c \in Reports, Receive(h, c) PROVE LinesInv'
  BY <1>1, <1>3 DEF Receive
<1>4. CASE Crash
  BY <1>1, <1>4 DEF Crash
<1>5. CASE UNCHANGED vars
  BY <1>1, <1>5 DEF vars
<1> QED
  BY <1>2, <1>3, <1>4, <1>5, SetBudgetCharges DEF Next

LEMMA LinesInit == Init => LinesInv
  BY FS_EmptySet DEF Init, LinesInv

LEMMA LinesAreActual == LinesInv => ActualIsLines
<1> SUFFICES ASSUME LinesInv, NEW b \in DOMAIN budget
             PROVE  budget[b].actual =
                      MapThenSumSet(LAMBDA s : lines[s].amount,
                                    {s \in DOMAIN lines : lines[s].budget = b})
  BY DEF ActualIsLines
<1>1. MapThenSumSet(LAMBDA s : lines[s].amount, LinesOf(lines, b)) = Charged(lines, b)
  BY LineSum DEF Charged
<1> QED
  BY <1>1 DEF LinesInv, LinesOf

-----------------------------------------------------------------------------
LEMMA HoursSum ==
  ASSUME NEW s
  PROVE  HoursOf(s) = SumOf([a \in Allocations[s] |-> a.hours], Allocations[s])
<1> DEFINE S == Allocations[s]
           Q(g) == g = [T \in SUBSET S |->
                          IF T = {} THEN 0 ELSE AnyOf(T).hours + g[T \ {AnyOf(T)}]]
<1>1. HoursOf(s) = (CHOOSE g : Q(g))[S]
  BY DEF HoursOf, MapThenSumSet, MapThenFoldSet, AnyOf
<1>2. \A g : Q(g) <=> SumIter([a \in S |-> a.hours], S, g)
  BY DEF AnyOf, SumIter
<1> HIDE DEF Q
<1>3. (CHOOSE g : Q(g)) = (CHOOSE g : SumIter([a \in S |-> a.hours], S, g))
  BY <1>2
<1> QED
  BY <1>1, <1>3, SumUnfold

LEMMA ProjectSum ==
  ASSUME NEW l, NEW s, NEW S
  PROVE  MapThenSumSet(LAMBDA p : l[<<s, p>>].amount, S)
           = SumOf([p \in S |-> l[<<s, p>>].amount], S)
<1> DEFINE Q(g) == g = [T \in SUBSET S |->
                          IF T = {} THEN 0
                          ELSE l[<<s, AnyOf(T)>>].amount + g[T \ {AnyOf(T)}]]
<1>1. MapThenSumSet(LAMBDA p : l[<<s, p>>].amount, S) = (CHOOSE g : Q(g))[S]
  BY DEF MapThenSumSet, MapThenFoldSet, AnyOf
<1>2. \A g : Q(g) <=> SumIter([p \in S |-> l[<<s, p>>].amount], S, g)
  BY DEF AnyOf, SumIter
<1> HIDE DEF Q
<1>3. (CHOOSE g : Q(g)) = (CHOOSE g : SumIter([p \in S |-> l[<<s, p>>].amount], S, g))
  BY <1>2
<1> QED
  BY <1>1, <1>3, SumUnfold

\* What division by twice the hours rounds, undone.
LEMMA ShareBound ==
  ASSUME NEW n \in Int, NEW k \in Nat, NEW H \in Nat, H > 0
  PROVE  LET a == (2 * n * k + H) \div (2 * H)
         IN  /\ a \in Int
             /\ 2 * H * a <= 2 * n * k + H
             /\ a > 0 => n > 0
<1>1. PICK x \in Int : x = 2 * n * k + H
  OBVIOUS
<1>2. PICK d \in Nat : d = 2 * H /\ d > 0
  OBVIOUS
<1>3. PICK a \in Int : a = x \div d
  BY <1>2
<1>4. d * a <= x
  BY <1>2, <1>3
<1>5. ASSUME a > 0 PROVE n > 0
  <2>1. d * a >= d
    BY <1>2, <1>5
  <2>2. PICK y \in Int : y = n * k
    OBVIOUS
  <2>3. 2 * n * k = 2 * y
    BY <2>2
  <2>4. y > 0
    BY <1>1, <1>2, <1>4, <2>1, <2>3
  <2> QED
    BY <2>2, <2>4
<1> QED
  BY <1>1, <1>2, <1>3, <1>4, <1>5

\* The line of a payslip and a project is the share of one of its allocations.
LEMMA LineIsShare ==
  ASSUME LinesInv, NEW s \in DOMAIN NetPay, NEW p \in Projects, <<s, p>> \in DOMAIN lines
  PROVE  \E a \in Allocations[s] :
           /\ a.project = p /\ lines[<<s, p>>].amount = Share(s, a)
           /\ HoursOf(s) > 0 /\ Share(s, a) > 0
<1>1. PICK c \in Reports : c.source = <<s, p>> /\ lines[<<s, p>>].amount = c.amount
  BY DEF LinesInv
<1>2. c \in LaborReports
  BY <1>1, LaborAssumption
<1>3. PICK t \in DOMAIN NetPay :
        \E a \in Allocations[t] :
          /\ c = [source |-> <<t, a.project>>, project |-> a.project, amount |-> Share(t, a)]
          /\ HoursOf(t) > 0 /\ Share(t, a) > 0
  BY <1>2 DEF LaborReports
<1>4. t = s
  BY <1>1, <1>3
<1> QED
  BY <1>1, <1>3, <1>4

LEMMA LinesStayWithinPay == LinesInv => LaborIsWithinPay
<1> SUFFICES ASSUME LinesInv, NEW s \in DOMAIN NetPay
             PROVE  2 * MapThenSumSet(LAMBDA p : lines[<<s, p>>].amount,
                                      {p \in Projects : <<s, p>> \in DOMAIN lines})
                      <= 2 * Paid(s) + Cardinality(Allocations[s])
  BY DEF LaborIsWithinPay
<1>1. PICK P : P = {p \in Projects : <<s, p>> \in DOMAIN lines}
  OBVIOUS
<1>2. PICK g : g = [p \in P |-> lines[<<s, p>>].amount]
  OBVIOUS
<1>3. MapThenSumSet(LAMBDA p : lines[<<s, p>>].amount,
                    {p \in Projects : <<s, p>> \in DOMAIN lines}) = SumOf(g, P)
  BY <1>1, <1>2, ProjectSum
<1>4. PICK A : A = Allocations[s]
  OBVIOUS
<1>5. IsFiniteSet(A) /\ Cardinality(A) \in Nat /\ NetPay[s] \in Int
      /\ \A a \in A : a.hours \in Nat
  BY <1>4, LaborAssumption, FS_CardinalityType
<1>6. Paid(s) \in Nat
  BY <1>5 DEF Paid
<1>7. CASE P = {}
  <2>1. SumOf(g, P) = 0
    BY <1>7, SumEmpty
  <2> QED
    BY <1>3, <1>4, <1>5, <1>6, <2>1
<1>8. CASE P # {}
  <2>1. PICK H : H = HoursOf(s)
    OBVIOUS
  <2>2. PICK n : n = NetPay[s]
    OBVIOUS
  <2>3. PICK hr : hr = [a \in A |-> a.hours]
    OBVIOUS
  <2>4. H \in Nat /\ H = SumOf(hr, A)
    BY <1>4, <1>5, <2>1, <2>3, HoursSum, SumType
  <2>5. \A p \in P : \E a \in A :
          a.project = p /\ g[p] = Share(s, a) /\ H > 0 /\ Share(s, a) > 0
    BY <1>1, <1>2, <1>4, <2>1, LineIsShare
  <2>6. PICK w : w = [p \in P |-> CHOOSE a \in A :
                        a.project = p /\ g[p] = Share(s, a) /\ H > 0 /\ Share(s, a) > 0]
    OBVIOUS
  <2>7. \A p \in P : /\ w[p] \in A /\ w[p].project = p
                     /\ g[p] = Share(s, w[p]) /\ H > 0 /\ g[p] > 0
    BY <2>5, <2>6
  <2>8. \A p \in P : g[p] \in Int /\ 2 * H * g[p] <= 2 * n * w[p].hours + H /\ n > 0
    <3> TAKE p \in P
    <3>1. PICK k \in Nat : k = w[p].hours
      BY <1>5, <2>7
    <3>2. g[p] = (2 * n * k + H) \div (2 * H)
      BY <2>1, <2>2, <2>7, <3>1 DEF Share
    <3> QED
      BY <1>5, <2>2, <2>4, <2>7, <3>1, <3>2, ShareBound
  <2>9. H > 0 /\ n > 0 /\ n \in Nat
    BY <1>5, <1>8, <2>2, <2>7, <2>8
  <2>10. PICK f : f = [a \in A |-> 2 * n * hr[a] + H]
    OBVIOUS
  <2>11. PICK u : u = [p \in P |-> 2 * H * g[p] + 0]
    OBVIOUS
  <2>12. PICK N : N = 2 * n /\ N \in Nat
    BY <2>9
  <2>13. PICK M : M = 2 * H /\ M \in Nat
    BY <2>9, <2>4
  <2>14. SumOf(f, A) = N * H + H * Cardinality(A)
    <3>1. IsAffine(hr, f, A, N, H)
      BY <1>5, <2>3, <2>10, <2>12 DEF IsAffine
    <3>2. N \in Int /\ H \in Int /\ IsFiniteSet(A)
      BY <1>5, <2>4, <2>12
    <3>3. SumOf(f, A) = N * SumOf(hr, A) + H * Cardinality(A)
      BY <3>1, <3>2, SumAffine
    <3> QED
      BY <2>4, <3>3
  <2>15. IsFiniteSet(P) /\ SumOf(u, P) <= SumOf(f, A)
    <3>1. w \in [P -> A] /\ \A p, q \in P : w[p] = w[q] => p = q
      BY <2>6, <2>7
    <3>2. \A a \in A : f[a] \in Nat
      <4> TAKE a \in A
      <4>1. PICK k \in Nat : k = hr[a]
        BY <1>5, <2>3
      <4>2. N * k \in Nat
        BY <2>12
      <4> QED
        BY <2>4, <2>10, <2>12, <4>1, <4>2
    <3>3. \A p \in P : u[p] \in Int /\ u[p] <= f[w[p]]
      BY <2>3, <2>4, <2>7, <2>8, <2>10, <2>11
    <3> QED
      BY <1>5, <3>1, <3>2, <3>3, SumInject
  <2>16. SumOf(u, P) = M * SumOf(g, P) + 0 * Cardinality(P)
    <3>1. IsAffine(g, u, P, M, 0)
      BY <2>8, <2>11, <2>13 DEF IsAffine
    <3>2. M \in Int /\ 0 \in Int /\ IsFiniteSet(P)
      BY <2>13, <2>15
    <3> QED
      BY <3>1, <3>2, SumAffine
  <2>17. PICK x \in Int, m \in Nat : x = SumOf(g, P) /\ m = Cardinality(A)
    BY <1>5, <2>8, <2>15, SumType
  <2>18. Cardinality(P) \in Nat
    BY <2>15, FS_CardinalityType
  <2>19. M * x <= N * H + H * m
    <3>1. SumOf(u, P) = M * x
      <4>1. PICK q \in Int : q = M * x
        BY <2>13, <2>17
      <4> QED
        BY <2>16, <2>17, <2>18, <4>1
    <3> QED
      BY <2>14, <2>15, <2>17, <3>1
  <2>20. 2 * x <= N + m
    <3> SUFFICES ASSUME 2 * x > N + m PROVE FALSE
      BY <2>12, <2>17
    <3>1. PICK y \in Int : y = 2 * x - N - m
      BY <2>12, <2>17
    <3>2. y >= 1 /\ H >= 1
      BY <2>4, <2>9, <2>12, <2>17, <3>1
    <3>3. H * y >= 1
      BY <2>4, <3>2
    <3>4. M * x = H * (N + m + y)
      BY <2>4, <2>12, <2>13, <2>17, <3>1
    <3>5. H * (N + m + y) = N * H + H * m + H * y
      BY <2>4, <2>12, <2>17
    <3>6. N * H \in Int /\ H * m \in Int /\ H * y \in Int
      BY <2>4, <2>12, <2>17
    <3> QED
      BY <2>19, <3>3, <3>4, <3>5, <3>6
  <2> QED
    BY <1>3, <2>2, <2>9, <2>12, <2>17, <2>20, <1>4 DEF Paid
<1> QED
  BY <1>7, <1>8

\* The actual amount of a budget is the sum of its lines, and the lines of a
\* payslip stay within its net pay, for any number of payslips, allocations,
\* budgets and concurrent or repeated reports, and through every crash.
THEOREM ChargesAlwaysAddUp == Spec => []ChargesAddUp
<1>1. LinesInv => ChargesAddUp
  BY LinesAreActual, LinesStayWithinPay DEF ChargesAddUp
<1> QED
  BY <1>1, InitType, TypeStep, LinesInit, LinesStep, PTL DEF Spec

-----------------------------------------------------------------------------
(***************************************************************************)
(* EmployeeForm and GlobalSearch: what an entry holds at each step of the  *)
(* form, and which query the newest request asks for.                      *)
(***************************************************************************)

FormRoles == Ordinary \cup {"TenantAdmin", "none"}

Entries ==
  [step : 1 .. 3, person : BOOLEAN, job : BOOLEAN, dept : FormDepts \cup {NoDept},
   rank : {"Employee", "Manager", "TenantAdmin"}, access : BOOLEAN, role : FormRoles,
   modules : SUBSET FormModules]

\* What a step was left with, and what an entry without access or with all of it has.
FormInv ==
  /\ entry \in Entries
  /\ entry.step # 1 => entry.person = TRUE
  /\ entry.step = 3 => entry.job = TRUE /\ entry.dept # NoDept
  /\ entry.access = FALSE => entry.role = "none"
  /\ entry.role = "TenantAdmin" => entry.modules = FormModules
  /\ FormHolds

LEMMA BlankEntry ==
  /\ Blank \in Entries /\ Blank.step = 1 /\ Blank.role = "none"
  /\ \A d \in FormDepts \cup {NoDept} :
       Loaded(d) \in Entries /\ Loaded(d).step = 1 /\ Loaded(d).role = "none"
<1>1. Blank \in Entries /\ Blank.step = 1 /\ Blank.role = "none"
  BY DEF Blank, Entries, FormRoles
<1>2. ASSUME NEW d \in FormDepts \cup {NoDept}
      PROVE  Loaded(d) \in Entries /\ Loaded(d).step = 1 /\ Loaded(d).role = "none"
  BY <1>1 DEF Loaded, Entries
<1> QED
  BY <1>1, <1>2

LEMMA ProposedModules == \A d : Proposed(d) \subseteq FormModules
BY FormAssumption DEF Proposed, FormDepts

LEMMA FormInvInit == ASSUME FormInit PROVE FormInv
<1>1. entry = Blank /\ handed = {}
  BY DEF FormInit
<1> QED
  BY <1>1, BlankEntry DEF FormInv, FormHolds, HandedIsComplete, HandedAccessIsWhole, Blank

LEMMA FormInvStep == ASSUME FormInv, [FormNext]_formVars PROVE FormInv'
<1>1. /\ entry \in Entries
      /\ entry.step # 1 => entry.person = TRUE
      /\ entry.step = 3 => entry.job = TRUE /\ entry.dept # NoDept
      /\ entry.access = FALSE => entry.role = "none"
      /\ entry.role = "TenantAdmin" => entry.modules = FormModules
      /\ FormHolds
  BY DEF FormInv
<1>2. ASSUME UNCHANGED <<entry, handed>> PROVE FormInv'
  BY <1>2 DEF FormInv, FormHolds, HandedIsComplete, HandedAccessIsWhole
<1>3. ASSUME NEW d \in FormDepts \cup {NoDept}, entry' = Blank \/ entry' = Loaded(d),
             UNCHANGED handed
      PROVE  FormInv'
  <2>1. /\ entry' \in Entries
        /\ entry'.step = 1
        /\ entry'.role = "none"
    BY <1>3, BlankEntry
  <2> QED
    BY <1>1, <1>3, <2>1 DEF FormInv, FormHolds, HandedIsComplete, HandedAccessIsWhole
<1>4. ASSUME UNCHANGED handed,
             \/ EditPerson
             \/ EditJob
             \/ NextFromPerson
             \/ HandleBack
      PROVE  FormInv'
  <2>1. FormHolds'
    BY <1>1, <1>4 DEF FormHolds, HandedIsComplete, HandedAccessIsWhole
  <2>2. /\ entry' \in Entries
        /\ entry'.step # 1 => entry'.person = TRUE
        /\ entry'.step # 3
        /\ entry'.access = entry.access /\ entry'.role = entry.role
        /\ entry'.modules = entry.modules
    <3>1. CASE EditPerson
      <4>1. PICK f \in BOOLEAN : entry' = [entry EXCEPT !.person = f]
        BY <1>1, <3>1 DEF EditPerson, Entries
      <4> QED
        BY <1>1, <3>1, <4>1 DEF EditPerson, Entering, Entries
    <3>2. CASE EditJob
      <4>1. \/ \E f \in BOOLEAN : entry' = [entry EXCEPT !.job = f]
            \/ \E d \in FormDepts \cup {NoDept} : entry' = [entry EXCEPT !.dept = d]
            \/ \E r \in {"Employee", "Manager", "TenantAdmin"} : entry' = [entry EXCEPT !.rank = r]
        BY <1>1, <3>2 DEF EditJob, Entries
      <4> QED
        BY <1>1, <3>2, <4>1 DEF EditJob, Entering, Entries
    <3>3. CASE NextFromPerson
      BY <1>1, <3>3 DEF NextFromPerson, Entering, Entries
    <3>4. CASE HandleBack
      BY <1>1, <3>4 DEF HandleBack, Entering, Entries
    <3> QED
      BY <1>4, <3>1, <3>2, <3>3, <3>4
  <2> QED
    BY <1>1, <2>1, <2>2 DEF FormInv
<1>5. ASSUME NextFromJob PROVE FormInv'
  <2>1. FormHolds'
    BY <1>1, <1>5 DEF NextFromJob, FormHolds, HandedIsComplete, HandedAccessIsWhole
  <2>2. PICK role \in FormRoles, ms \in SUBSET FormModules :
          /\ role = "TenantAdmin" => ms = FormModules
          /\ entry' = [entry EXCEPT !.step = 3, !.access = TRUE, !.role = role, !.modules = ms]
    <3>1. PICK role : role = IF entry.role = "none" THEN entry.rank ELSE entry.role
      OBVIOUS
    <3>2. PICK ms : ms = IF role = "TenantAdmin" THEN FormModules
                         ELSE IF entry.modules # {} THEN entry.modules ELSE Proposed(entry.dept)
      OBVIOUS
    <3>3. role \in FormRoles /\ ms \in SUBSET FormModules
      BY <1>1, <3>1, <3>2, ProposedModules DEF Entries, FormRoles, Ordinary
    <3>4. entry' = [entry EXCEPT !.step = 3, !.access = TRUE, !.role = role, !.modules = ms]
      BY <1>5, <3>1, <3>2 DEF NextFromJob
    <3> QED
      BY <3>2, <3>3, <3>4
  <2>3. /\ entry' \in Entries
        /\ entry'.access = TRUE /\ entry'.role = role /\ entry'.modules = ms
        /\ entry'.person = entry.person /\ entry'.job = entry.job /\ entry'.dept = entry.dept
    <3>1. PICK yes \in BOOLEAN : yes = TRUE
      OBVIOUS
    <3>2. entry' = [entry EXCEPT !.step = 3, !.access = yes, !.role = role, !.modules = ms]
      BY <2>2, <3>1
    <3>3. /\ entry' \in Entries
          /\ entry'.access = yes /\ entry'.role = role /\ entry'.modules = ms
          /\ entry'.person = entry.person /\ entry'.job = entry.job /\ entry'.dept = entry.dept
      <4>1. PICK e : e = [entry EXCEPT !.step = 3]
        OBVIOUS
      <4>2. /\ e \in Entries
            /\ e.person = entry.person /\ e.job = entry.job /\ e.dept = entry.dept
        BY <1>1, <4>1 DEF Entries
      <4>3. entry' = [e EXCEPT !.access = yes, !.role = role, !.modules = ms]
        BY <1>1, <3>2, <4>1 DEF Entries
      <4> QED
        BY <4>2, <4>3 DEF Entries
    <3> QED
      BY <3>1, <3>3
  <2> QED
    BY <1>1, <1>5, <2>1, <2>2, <2>3 DEF FormInv, NextFromJob, Entering
<1>6. ASSUME NEW ms \in SUBSET FormModules, NEW access \in BOOLEAN, NEW role \in FormRoles,
             entry.step = 3, UNCHANGED handed,
             access \/ role = "none", role = "TenantAdmin" => ms = FormModules,
             entry' = [entry EXCEPT !.access = access, !.role = role, !.modules = ms]
      PROVE  FormInv'
  <2>1. FormHolds'
    BY <1>1, <1>6 DEF FormHolds, HandedIsComplete, HandedAccessIsWhole
  <2>2. /\ entry' \in Entries
        /\ entry'.access = access /\ entry'.role = role /\ entry'.modules = ms
        /\ entry'.person = entry.person /\ entry'.job = entry.job /\ entry'.dept = entry.dept
        /\ entry'.step = 3
    BY <1>1, <1>6 DEF Entries
  <2> QED
    BY <1>1, <1>6, <2>1, <2>2 DEF FormInv
<1>7. ASSUME SwitchAccess PROVE FormInv'
  <2>1. PICK ms \in SUBSET FormModules, access \in BOOLEAN :
          access = ~entry.access /\ ms = entry.modules
    BY <1>1 DEF Entries
  <2>2. entry' = [entry EXCEPT !.access = access, !.role = "none", !.modules = ms]
    BY <1>1, <1>7, <2>1 DEF SwitchAccess, Entries
  <2> QED
    BY <1>6, <1>7, <2>1, <2>2 DEF SwitchAccess, Entering, FormRoles
<1>8. ASSUME ChooseRole PROVE FormInv'
  <2>1. PICK role \in FormRoles :
          entry' = [entry EXCEPT !.role = role,
                     !.modules = IF role = "TenantAdmin" THEN FormModules
                                 ELSE IF entry.role = "TenantAdmin" \/ @ = {}
                                      THEN Proposed(entry.dept) ELSE @]
    BY <1>8 DEF ChooseRole, FormRoles
  <2>2. PICK ms : ms = IF role = "TenantAdmin" THEN FormModules
                       ELSE IF entry.role = "TenantAdmin" \/ entry.modules = {}
                            THEN Proposed(entry.dept) ELSE entry.modules
    OBVIOUS
  <2>3. ms \in SUBSET FormModules
    BY <1>1, <2>2, ProposedModules DEF Entries
  <2>4. entry' = [entry EXCEPT !.access = TRUE, !.role = role, !.modules = ms]
    BY <1>1, <1>8, <2>1, <2>2 DEF ChooseRole, Entries
  <2> QED
    BY <1>6, <1>8, <2>2, <2>3, <2>4 DEF ChooseRole, Entering
<1>9. ASSUME ToggleModule \/ ResetModules PROVE FormInv'
  <2>1. PICK ms \in SUBSET FormModules : entry' = [entry EXCEPT !.modules = ms]
    <3>1. CASE ToggleModule
      <4>1. PICK m \in FormModules :
              entry' = [entry EXCEPT !.modules = IF m \in @ THEN @ \ {m} ELSE @ \cup {m}]
        BY <3>1 DEF ToggleModule
      <4>2. PICK ms : ms = IF m \in entry.modules THEN entry.modules \ {m}
                           ELSE entry.modules \cup {m}
        OBVIOUS
      <4>3. ms \in SUBSET FormModules
        BY <1>1, <4>2 DEF Entries
      <4> QED
        BY <4>1, <4>2, <4>3
    <3>2. CASE ResetModules
      BY <3>2, ProposedModules DEF ResetModules
    <3> QED
      BY <1>9, <3>1, <3>2
  <2>2. /\ entry' = [entry EXCEPT !.access = entry.access, !.role = entry.role, !.modules = ms]
        /\ entry.access /\ entry.role # "TenantAdmin" /\ entry.step = 3 /\ UNCHANGED handed
        /\ entry.access \in BOOLEAN /\ entry.role \in FormRoles
    BY <1>1, <1>9, <2>1 DEF ToggleModule, ResetModules, Entering, Entries
  <2> QED
    BY <1>6, <2>2
<1>10. ASSUME HandleSubmit PROVE FormInv'
  <2>1. PICK e : e = [entry EXCEPT !.modules = IF entry.access THEN @ ELSE {}]
    OBVIOUS
  <2>2. handed' = handed \cup {e} /\ entry' = Blank
    BY <1>10, <2>1 DEF HandleSubmit
  <2>3. /\ e.person /\ e.job /\ e.dept # NoDept
        /\ e.access = entry.access /\ e.role = entry.role
        /\ e.modules = IF entry.access THEN entry.modules ELSE {}
    BY <1>1, <1>10, <2>1 DEF HandleSubmit, Entering, Entries
  <2>4. /\ e.access <=> e.role # "none"
        /\ e.access <=> e.modules # {}
        /\ e.role = "TenantAdmin" => e.modules = FormModules
    <3>1. entry.access => entry.role # "none" /\ (entry.role # "TenantAdmin" => entry.modules # {})
      BY <1>10 DEF HandleSubmit
    <3> QED
      BY <1>1, <2>3, <3>1, FormAssumption DEF Entries
  <2>5. FormHolds'
    BY <1>1, <2>2, <2>3, <2>4 DEF FormHolds, HandedIsComplete, HandedAccessIsWhole
  <2>6. entry' \in Entries /\ entry'.step = 1 /\ entry'.role = "none"
    BY <2>2, BlankEntry DEF Blank
  <2> QED
    BY <2>5, <2>6 DEF FormInv
<1>11. ASSUME OpenForm \/ FormListsArrive \/ HandleClose PROVE FormInv'
  <2>1. UNCHANGED handed
        /\ \E d \in FormDepts \cup {NoDept} : entry' = Blank \/ entry' = Loaded(d)
    BY <1>11 DEF OpenForm, FormListsArrive, HandleClose, Refreshed
  <2> QED
    BY <1>3, <2>1
<1>12. ASSUME RenewToken \/ FormListsFail \/ LeaveForm \/ SaveAnswered \/ UNCHANGED formVars
       PROVE  FormInv'
  BY <1>2, <1>12 DEF RenewToken, FormListsFail, LeaveForm, SaveAnswered, formVars
<1>13. ASSUME EditPerson \/ EditJob \/ NextFromPerson \/ HandleBack PROVE FormInv'
  BY <1>4, <1>13 DEF EditPerson, EditJob, NextFromPerson, HandleBack
<1> QED
  BY <1>5, <1>7, <1>8, <1>9, <1>10, <1>11, <1>12, <1>13 DEF FormNext

\* The employee form, for any departments, modules and number of edits: an entry
\* that is handed over is complete, and its role and modules agree with its access.
THEOREM FormAlwaysHolds == FormSpec => []FormHolds
<1>1. FormInit => FormInv
  BY FormInvInit
<1>2. FormInv /\ [FormNext]_formVars => FormInv'
  BY FormInvStep
<1>3. FormInv => FormHolds
  BY DEF FormInv
<1> QED
  BY <1>1, <1>2, <1>3, PTL DEF FormSpec

-----------------------------------------------------------------------------
Boxes == [open : BOOLEAN, query : Queries \cup {Short}, timer : Queries \cup {NoQuery},
          spins : BOOLEAN]
Founds == [of : Queries \cup {NoQuery}, hits : Nat, active : Nat, failed : BOOLEAN]

\* Every request has a number of its own, and the newest one that is under way asks
\* for what is typed, unless a pause runs or the box was emptied.
BoxInv ==
  /\ box \in Boxes /\ found \in Founds /\ asked \in Nat
  /\ asking \subseteq [id : 1 .. asked, query : Queries]
  /\ box.timer # NoQuery => box.timer = box.query
  /\ box.open = FALSE => box.query = Short
  /\ \A r, q \in asking : r.id = q.id => r = q
  /\ box.timer = NoQuery => \A r \in asking : r.id = asked => box.query \in {Short, r.query}
  /\ SearchBoxHolds

LEMMA BoxInvInit == ASSUME BoxInit PROVE BoxInv
<1>1. /\ box = [open |-> FALSE, query |-> Short, timer |-> NoQuery, spins |-> FALSE]
      /\ asked = 0 /\ asking = {}
      /\ found = [of |-> NoQuery, hits |-> 0, active |-> 0, failed |-> FALSE]
  BY DEF BoxInit, Nothing
<1>2. Short \notin Queries /\ NoQuery \notin Queries
  BY BoxAssumption
<1>3. box \in Boxes /\ found \in Founds
  BY <1>1 DEF Boxes, Founds
<1> QED
  BY <1>1, <1>2, <1>3 DEF BoxInv, SearchBoxHolds, ShownIsTyped, HighlightIsAHit, SpinnerHasACause

LEMMA BoxInvStep == ASSUME BoxInv, [BoxNext]_boxVars PROVE BoxInv'
<1>1. /\ box \in Boxes /\ found \in Founds /\ asked \in Nat
      /\ asking \subseteq [id : 1 .. asked, query : Queries]
      /\ box.timer # NoQuery => box.timer = box.query
      /\ box.open = FALSE => box.query = Short
      /\ \A r, q \in asking : r.id = q.id => r = q
      /\ box.timer = NoQuery => \A r \in asking : r.id = asked => box.query \in {Short, r.query}
      /\ ShownIsTyped /\ HighlightIsAHit /\ SpinnerHasACause
  BY DEF BoxInv, SearchBoxHolds
<1>2. Short \notin Queries /\ NoQuery \notin Queries /\ MaxHits \in Nat
  BY BoxAssumption
<1>3. ASSUME NEW a \in Nat
      PROVE  [Nothing EXCEPT !.active = a] \in Founds /\ [Nothing EXCEPT !.active = a].hits = 0
  BY DEF Nothing, Founds
<1>4. CASE OpenBox
  <2>1. /\ UNCHANGED <<asked, asking>>
        /\ box' = [box EXCEPT !.open = TRUE, !.timer = NoQuery, !.spins = FALSE]
        /\ found' = [Nothing EXCEPT !.active = found.active]
        /\ box.query = Short
    BY <1>1, <1>4 DEF OpenBox, Boxes
  <2>2. /\ box' \in Boxes /\ box'.query = Short /\ box'.timer = NoQuery
        /\ box'.open = TRUE /\ box'.spins = FALSE
    BY <1>1, <2>1 DEF Boxes
  <2>3. found' \in Founds /\ found'.hits = 0
    BY <1>1, <1>3, <2>1 DEF Founds
  <2> QED
    BY <1>1, <1>2, <2>1, <2>2, <2>3
       DEF BoxInv, SearchBoxHolds, ShownIsTyped, HighlightIsAHit, SpinnerHasACause
<1>5. CASE TypeQuery
  <2>1. PICK q \in Queries \cup {Short} :
          /\ box' = [box EXCEPT !.query = q, !.spins = q # Short,
                                !.timer = IF q = Short THEN NoQuery ELSE q]
          /\ found' = IF q = Short THEN [Nothing EXCEPT !.active = found.active]
                                   ELSE [found EXCEPT !.failed = FALSE]
    BY <1>5 DEF TypeQuery
  <2>2. UNCHANGED <<asked, asking>> /\ box.open = TRUE
    BY <1>1, <1>5 DEF TypeQuery, Boxes
  <2>3. /\ box' \in Boxes /\ box'.query = q
        /\ box'.timer = IF q = Short THEN NoQuery ELSE q
        /\ box'.open = TRUE /\ box'.spins = (q # Short)
    BY <1>1, <2>1, <2>2 DEF Boxes
  <2>4. /\ found' \in Founds
        /\ found'.hits > 0 => found'.hits = found.hits /\ found'.active = found.active
    <3>1. CASE q = Short
      BY <1>1, <1>3, <2>1, <3>1 DEF Founds
    <3>2. CASE q # Short
      BY <1>1, <2>1, <3>2 DEF Founds
    <3> QED
      BY <3>1, <3>2
  <2> QED
    BY <1>1, <1>2, <2>2, <2>3, <2>4
       DEF BoxInv, SearchBoxHolds, ShownIsTyped, HighlightIsAHit, SpinnerHasACause
<1>6. CASE SendQuery
  <2>1. PICK r : r = [id |-> asked + 1, query |-> box.timer]
    OBVIOUS
  <2>2. /\ asked' = asked + 1 /\ asking' = asking \cup {r}
        /\ box' = [box EXCEPT !.timer = NoQuery] /\ UNCHANGED found
        /\ box.timer # NoQuery
    BY <1>6, <2>1 DEF SendQuery
  <2>3. /\ box' \in Boxes /\ box'.timer = NoQuery /\ box'.query = box.query
        /\ box'.open = box.open /\ box'.spins = box.spins
    BY <1>1, <2>2 DEF Boxes
  <2>4. /\ r.id = asked + 1 /\ r.query = box.query /\ r \in [id : 1 .. asked', query : Queries]
        /\ \A q \in asking : q.id \in 1 .. asked /\ q.query \in Queries
                              /\ q \in [id : 1 .. asked', query : Queries]
    BY <1>1, <2>1, <2>2 DEF Boxes
  <2> QED
    BY <1>1, <1>2, <2>2, <2>3, <2>4
       DEF BoxInv, SearchBoxHolds, ShownIsTyped, HighlightIsAHit, SpinnerHasACause
<1>7. ASSUME NEW r \in asking, QueryAnswered(r) \/ QueryFails(r) PROVE BoxInv'
  <2>1. asking' = asking \ {r} /\ UNCHANGED asked
    BY <1>7 DEF QueryAnswered, QueryFails
  <2>2. asking' \subseteq [id : 1 .. asked', query : Queries]
    BY <1>1, <2>1
  <2>3. CASE UNCHANGED <<box, found>> /\ r.id # asked
    BY <1>1, <2>1, <2>2, <2>3
       DEF BoxInv, SearchBoxHolds, ShownIsTyped, HighlightIsAHit, SpinnerHasACause
  <2>4. ASSUME r.id = asked, box' = [box EXCEPT !.spins = FALSE], found' \in Founds,
               found'.hits > 0 => found'.active < found'.hits,
               found'.of = r.query \/ (found'.of = NoQuery /\ found'.failed = TRUE)
        PROVE  BoxInv'
    <3>1. /\ box' \in Boxes /\ box'.timer = box.timer /\ box'.query = box.query
          /\ box'.open = box.open /\ box'.spins = FALSE
      BY <1>1, <2>4 DEF Boxes
    <3>2. \A q \in asking' : q.id # asked
      BY <1>1, <2>1, <2>4
    <3>3. box'.timer = NoQuery => box'.query \in {Short, r.query}
      BY <1>1, <2>4, <3>1
    <3>4. ShownIsTyped'
      BY <1>2, <2>4, <3>1, <3>3 DEF ShownIsTyped
    <3> QED
      BY <1>1, <2>1, <2>2, <2>4, <3>1, <3>2, <3>4
         DEF BoxInv, SearchBoxHolds, HighlightIsAHit, SpinnerHasACause
  <2>5. CASE QueryAnswered(r) /\ r.id = asked
    <3>1. PICK n \in 0 .. MaxHits : found' = [found EXCEPT !.of = r.query, !.hits = n, !.active = 0]
      BY <2>5 DEF QueryAnswered, IsNewest
    <3>2. r.query \in Queries /\ n \in Nat
      BY <1>1, <1>2
    <3>3. found' \in Founds /\ found'.of = r.query /\ found'.hits = n /\ found'.active = 0
      BY <1>1, <3>1, <3>2 DEF Founds
    <3>4. box' = [box EXCEPT !.spins = FALSE]
      BY <2>5 DEF QueryAnswered, IsNewest
    <3> QED
      BY <2>4, <2>5, <3>2, <3>3, <3>4
  <2>6. CASE QueryFails(r) /\ r.id = asked
    <3>1. PICK yes \in BOOLEAN : yes = TRUE
      OBVIOUS
    <3>2. found' = [Nothing EXCEPT !.active = found.active, !.failed = yes]
      BY <2>6, <3>1 DEF QueryFails, IsNewest
    <3>3. found' \in Founds /\ found'.of = NoQuery /\ found'.hits = 0 /\ found'.failed = yes
      BY <1>1, <3>2 DEF Founds, Nothing
    <3>4. box' = [box EXCEPT !.spins = FALSE]
      BY <2>6 DEF QueryFails, IsNewest
    <3> QED
      BY <2>4, <2>6, <3>1, <3>3, <3>4
  <2> QED
    BY <1>7, <2>3, <2>5, <2>6 DEF QueryAnswered, QueryFails, IsNewest
<1>8. CASE Highlight
  <2>1. PICK k \in 0 .. found.hits - 1 : found' = [found EXCEPT !.active = k]
    BY <1>8 DEF Highlight
  <2>2. UNCHANGED <<box, asked, asking>>
    BY <1>8 DEF Highlight
  <2>3. /\ found' \in Founds /\ found'.of = found.of /\ found'.failed = found.failed
        /\ found'.hits = found.hits /\ found'.active < found'.hits
    <3>1. k \in Nat /\ k < found.hits
      BY <1>1 DEF Founds
    <3> QED
      BY <1>1, <2>1, <3>1 DEF Founds
  <2> QED
    BY <1>1, <2>2, <2>3
       DEF BoxInv, SearchBoxHolds, ShownIsTyped, HighlightIsAHit, SpinnerHasACause
<1>9. CASE CloseBox
  <2>1. /\ box' = [open |-> FALSE, query |-> Short, timer |-> NoQuery, spins |-> FALSE]
        /\ found' = Nothing /\ UNCHANGED <<asked, asking>>
    BY <1>9 DEF CloseBox
  <2>2. box' \in Boxes /\ box'.query = Short /\ box'.timer = NoQuery /\ box'.spins = FALSE
    BY <2>1 DEF Boxes
  <2>3. found' \in Founds /\ found'.hits = 0
    BY <2>1 DEF Founds, Nothing
  <2> QED
    BY <1>1, <1>2, <2>1, <2>2, <2>3
       DEF BoxInv, SearchBoxHolds, ShownIsTyped, HighlightIsAHit, SpinnerHasACause
<1>10. CASE UNCHANGED boxVars
  BY <1>1, <1>10 DEF boxVars, BoxInv, SearchBoxHolds, ShownIsTyped, HighlightIsAHit, SpinnerHasACause
<1> QED
  BY <1>4, <1>5, <1>6, <1>7, <1>8, <1>9, <1>10 DEF BoxNext, SomeAnswer

\* The search box, for any queries, answers and faults: once the newest request is
\* answered it shows the hits of what is typed, the highlighted hit exists and a
\* spinner waits for something.
THEOREM SearchBoxAlwaysHolds == BoxSpec => []SearchBoxHolds
<1>1. BoxInit => BoxInv
  BY BoxInvInit
<1>2. BoxInv /\ [BoxNext]_boxVars => BoxInv'
  BY BoxInvStep
<1>3. BoxInv => SearchBoxHolds
  BY DEF BoxInv
<1> QED
  BY <1>1, <1>2, <1>3, PTL DEF BoxSpec

-----------------------------------------------------------------------------
(***************************************************************************)
(* TrainingPage: without a mishap what is shown of a product is its last   *)
(* model, or its answer is due; a product of the last "train all" is       *)
(* trained, to be trained, or under way.                                   *)
(***************************************************************************)

OnList == ToSet(Products)
Runs == [of : OnList, by : {"row", "all"}, result : Nat]

\* The trainings of a product whose answer is due.
Due(p) == \E t \in runs : t.of = p /\ t.result > 0

TrainTypes ==
  /\ models \in [OnList -> Nat]
  /\ list = <<>> \/ list \in [OnList -> Nat]
  /\ listing.at \in {"none", "sent", "read"}
  /\ listing.at = "read" => listing.got \in [OnList -> Nat]
  /\ training \subseteq OnList
  /\ runs \subseteq Runs
  /\ walk.flag \in BOOLEAN /\ walk.left \in Seq(OnList)
  /\ walk.began = <<>> \/ walk.began \in [OnList -> Nat]

\* Without a mishap one training of a product is under way, its answer is its last
\* model, and what the page or a load under way shows of a product is its last
\* model, or there is an answer due.
RowsInv ==
  /\ "twice" \notin blemish => \A t, u \in runs : t.of = u.of => t = u
  /\ blemish = {} =>
       /\ \A t \in runs : t.result > 0 => t.result = models[t.of]
       /\ list # <<>> => \A p \in OnList : list[p] = models[p] \/ (list[p] < models[p] /\ Due(p))
       /\ listing.at = "read" =>
            \A p \in OnList : listing.got[p] = models[p] \/ (listing.got[p] < models[p] /\ Due(p))

\* A product of the last "train all" is trained, to be trained, or under way.
WalkInv ==
  /\ "stuck" \in blemish => walk.flag = TRUE
  /\ walk.flag = FALSE => walk.left = <<>> /\ \A t \in runs : t.by = "row"
  /\ walk.began # <<>> => \A p \in OnList : walk.began[p] <= models[p]
  /\ "stuck" \notin blemish /\ walk.began # <<>> =>
       \A p \in OnList : \/ models[p] > walk.began[p]
                         \/ \E k \in 1 .. Len(walk.left) : walk.left[k] = p
                         \/ \E t \in runs : t.by = "all" /\ t.of = p /\ t.result = 0

TrainInv == TrainTypes /\ RowsInv /\ ButtonsTellTrainings /\ WalkInv

LEMMA TrainInvInit == ASSUME TrainInit PROVE TrainInv
<1>1. /\ models = [p \in OnList |-> 0] /\ list = <<>> /\ listing.at = "none"
      /\ training = {} /\ runs = {} /\ blemish = {}
      /\ walk.flag = FALSE /\ walk.left = <<>> /\ walk.began = <<>>
  BY DEF TrainInit, Untrained, AtRest, OnList
<1>2. <<>> \in Seq(OnList)
  OBVIOUS
<1>3. TrainTypes
  BY <1>1, <1>2 DEF TrainTypes
<1> QED
  BY <1>1, <1>3 DEF TrainInv, RowsInv, ButtonsTellTrainings, WalkInv

\* A training begins.
LEMMA StartsStep ==
  ASSUME TrainInv, NEW p \in OnList, NEW by \in {"row", "all"}, Starts(p, by),
         UNCHANGED <<models, list, listing>>
  PROVE  /\ training' \subseteq OnList /\ runs' \subseteq Runs
         /\ RowsInv' /\ ButtonsTellTrainings' /\ ("stuck" \in blemish' => "stuck" \in blemish)
         /\ \E t \in runs' : t.by = by /\ t.of = p /\ t.result = 0
         /\ \A t \in runs' : t \in runs \/ t.by = by
         /\ runs \subseteq runs'
<1>1. PICK r : r = [of |-> p, by |-> by, result |-> 0]
  OBVIOUS
<1>2. r \in Runs /\ r.of = p /\ r.by = by /\ r.result = 0
  BY <1>1 DEF Runs
<1>3. /\ training' = training \cup {p} /\ runs' = runs \cup {r}
      /\ blemish' = blemish \cup IF \E t \in runs : t.of = p THEN {"twice"} ELSE {}
  BY <1>1 DEF Starts
<1>4. "twice" \notin blemish' => "twice" \notin blemish /\ \A t \in runs : t.of # p
  BY <1>3
<1>5. blemish' = {} => blemish = {}
  BY <1>3
<1>6. RowsInv'
  <2>1. "twice" \notin blemish' => \A t, u \in runs' : t.of = u.of => t = u
    BY <1>2, <1>3, <1>4 DEF TrainInv, RowsInv
  <2>2. \A q : Due(q) => Due(q)'
    BY <1>3 DEF Due
  <2>3. blemish' = {} => \A t \in runs' : t.result > 0 => t.result = models'[t.of]
    BY <1>2, <1>3, <1>5 DEF TrainInv, RowsInv
  <2> QED
    BY <1>5, <2>1, <2>2, <2>3 DEF TrainInv, RowsInv
<1>7. ButtonsTellTrainings'
  BY <1>2, <1>3, <1>4 DEF TrainInv, ButtonsTellTrainings
<1> QED
  BY <1>2, <1>3, <1>6, <1>7 DEF TrainInv, TrainTypes

LEMMA TrainInvStep == ASSUME TrainInv, [TrainNext]_trainVars PROVE TrainInv'
<1> USE DEF TrainInv
<1>t. /\ models \in [OnList -> Nat]
      /\ list = <<>> \/ list \in [OnList -> Nat]
      /\ listing.at \in {"none", "sent", "read"}
      /\ listing.at = "read" => listing.got \in [OnList -> Nat]
      /\ training \subseteq OnList
      /\ runs \subseteq Runs
      /\ walk.flag \in BOOLEAN /\ walk.left \in Seq(OnList)
      /\ walk.began = <<>> \/ walk.began \in [OnList -> Nat]
  BY DEF TrainTypes
<1>1. CASE LoadStatus \/ StatusIsRead
  <2>1. /\ UNCHANGED <<models, list, training, runs, walk, blemish>>
        /\ \/ listing'.at = "sent"
           \/ listing'.at = "read" /\ listing'.got = models
    BY <1>1 DEF LoadStatus, StatusIsRead
  <2>2. TrainTypes'
    BY <1>t, <2>1 DEF TrainTypes
  <2>3. RowsInv'
    BY <1>t, <2>1 DEF RowsInv, Due
  <2> QED
    BY <2>1, <2>2, <2>3 DEF ButtonsTellTrainings, WalkInv
<1>2. CASE StatusArrives
  <2>1. /\ UNCHANGED <<models, training, runs, walk>>
        /\ list' = listing.got /\ listing.at = "read" /\ listing'.at = "none"
    BY <1>2 DEF StatusArrives
  <2>2. /\ blemish' = {} => blemish = {}
        /\ "twice" \in blemish' <=> "twice" \in blemish
        /\ "stuck" \in blemish' <=> "stuck" \in blemish
    BY <1>2 DEF StatusArrives
  <2>3. TrainTypes'
    BY <1>t, <2>1 DEF TrainTypes
  <2>4. RowsInv'
    BY <1>t, <2>1, <2>2 DEF RowsInv, Due
  <2> QED
    BY <2>1, <2>2, <2>3, <2>4 DEF ButtonsTellTrainings, WalkInv
<1>3. CASE StatusFails
  <2>1. /\ UNCHANGED <<models, list, training, runs, walk>> /\ listing'.at = "none"
        /\ blemish' = blemish \cup {"failed"}
    BY <1>3 DEF StatusFails
  <2>2. TrainTypes'
    BY <1>t, <2>1 DEF TrainTypes
  <2>3. RowsInv'
    BY <1>t, <2>1 DEF RowsInv
  <2> QED
    BY <2>1, <2>2, <2>3 DEF ButtonsTellTrainings, WalkInv
<1>4. ASSUME NEW p \in OnList, TrainRow(p) PROVE TrainInv'
  <2>1. Starts(p, "row") /\ UNCHANGED <<models, list, listing, walk>>
    BY <1>t, <1>4 DEF TrainRow
  <2>2. /\ training' \subseteq OnList /\ runs' \subseteq Runs
        /\ RowsInv' /\ ButtonsTellTrainings' /\ ("stuck" \in blemish' => "stuck" \in blemish)
        /\ \A t \in runs' : t \in runs \/ t.by = "row"
        /\ runs \subseteq runs'
    BY <2>1, StartsStep
  <2>3. TrainTypes'
    BY <1>t, <2>1, <2>2 DEF TrainTypes
  <2>4. "stuck" \notin blemish' => "stuck" \notin blemish
    BY <2>1 DEF Starts
  <2>5. WalkInv'
    BY <2>1, <2>2, <2>4 DEF WalkInv
  <2> QED
    BY <2>2, <2>3, <2>5
<1>5. CASE TrainAll
  <2>1. UNCHANGED <<models, list, listing, training, runs, blemish>>
    BY <1>5 DEF TrainAll
  <2>2. /\ walk'.flag = TRUE
        /\ \/ walk'.left = <<>> /\ walk'.began = <<>>
           \/ walk'.left = Products /\ walk'.began = models
    BY <1>5 DEF TrainAll, AtRest
  <2>3. Products \in Seq(OnList) /\ <<>> \in Seq(OnList)
    BY TrainingAssumption DEF OnList
  <2>4. TrainTypes'
    BY <1>t, <2>1, <2>2, <2>3 DEF TrainTypes
  <2>5. \A p \in OnList : \E k \in 1 .. Len(Products) : Products[k] = p
    BY <2>3 DEF OnList, ToSet
  <2>6. WalkInv'
    <3>1. CASE walk'.left = <<>> /\ walk'.began = <<>>
      BY <2>2, <3>1 DEF WalkInv
    <3>2. CASE walk'.left = Products /\ walk'.began = models
      <4>1. \A p \in OnList : walk'.began[p] <= models'[p]
        BY <1>t, <2>1, <3>2
      <4>2. \A p \in OnList : \E k \in 1 .. Len(walk'.left) : walk'.left[k] = p
        BY <2>5, <3>2
      <4> QED
        BY <2>2, <4>1, <4>2 DEF WalkInv
    <3> QED
      BY <2>2, <3>1, <3>2
  <2> QED
    BY <2>1, <2>4, <2>6 DEF RowsInv, Due, ButtonsTellTrainings
<1>6. CASE WalkOn
  <2>1. PICK p : p = Head(walk.left)
    OBVIOUS
  <2>2. /\ walk.left # <<>> /\ \A t \in runs : t.by = "row"
        /\ Starts(p, "all") /\ UNCHANGED <<models, list, listing>>
        /\ walk' = [walk EXCEPT !.left = Tail(@)]
    BY <1>6, <2>1 DEF WalkOn
  <2>3. /\ p \in OnList /\ Tail(walk.left) \in Seq(OnList)
        /\ Len(walk.left) \in Nat /\ Len(Tail(walk.left)) = Len(walk.left) - 1 /\ walk.left[1] = p
        /\ \A k \in 1 .. Len(walk.left) - 1 : Tail(walk.left)[k] = walk.left[k + 1]
    BY <1>t, <2>1, <2>2
  <2>4. /\ training' \subseteq OnList /\ runs' \subseteq Runs
        /\ RowsInv' /\ ButtonsTellTrainings' /\ ("stuck" \in blemish' => "stuck" \in blemish)
        /\ \E t \in runs' : t.by = "all" /\ t.of = p /\ t.result = 0
        /\ runs \subseteq runs'
    BY <2>2, <2>3, StartsStep
  <2>5. walk'.flag = walk.flag /\ walk'.left = Tail(walk.left) /\ walk'.began = walk.began
    BY <2>2
  <2>6. TrainTypes'
    BY <1>t, <2>2, <2>3, <2>4, <2>5 DEF TrainTypes
  <2>7. walk.flag # FALSE
    BY <2>2 DEF WalkInv
  <2>8. ASSUME NEW q \in OnList, NEW k \in 1 .. Len(walk.left), walk.left[k] = q
        PROVE  \/ \E j \in 1 .. Len(Tail(walk.left)) : Tail(walk.left)[j] = q
               \/ \E t \in runs' : t.by = "all" /\ t.of = q /\ t.result = 0
    <3>1. CASE k = 1
      BY <2>3, <2>4, <2>8, <3>1
    <3>2. CASE k # 1
      <4>1. k - 1 \in 1 .. Len(walk.left) - 1 /\ (k - 1) + 1 = k
        BY <2>3, <3>2
      <4> QED
        BY <2>3, <2>8, <4>1
    <3> QED
      BY <3>1, <3>2
  <2>9. WalkInv'
    <3>1. /\ "stuck" \in blemish' => walk'.flag = TRUE
          /\ walk'.flag # FALSE
          /\ walk'.began # <<>> => \A q \in OnList : walk'.began[q] <= models'[q]
      BY <2>2, <2>4, <2>5, <2>7 DEF WalkInv
    <3>2. ASSUME "stuck" \notin blemish', walk'.began # <<>>, NEW q \in OnList
          PROVE  \/ models'[q] > walk'.began[q]
                 \/ \E k \in 1 .. Len(walk'.left) : walk'.left[k] = q
                 \/ \E t \in runs' : t.by = "all" /\ t.of = q /\ t.result = 0
      <4>1. \/ models[q] > walk.began[q]
            \/ \E k \in 1 .. Len(walk.left) : walk.left[k] = q
        <5>1. "stuck" \notin blemish /\ walk.began # <<>>
          BY <2>2, <2>5, <3>2 DEF Starts
        <5> QED
          BY <2>2, <5>1 DEF WalkInv
      <4> QED
        BY <2>2, <2>5, <2>8, <4>1
    <3> QED
      BY <3>1, <3>2 DEF WalkInv
  <2> QED
    BY <2>4, <2>6, <2>9
<1>7. CASE WalkEnds
  <2>1. /\ walk' = [walk EXCEPT !.flag = FALSE]
        /\ walk.left = <<>> /\ "stuck" \notin blemish /\ \A t \in runs : t.by = "row"
        /\ UNCHANGED <<models, list, listing, training, runs, blemish>>
    BY <1>7 DEF WalkEnds
  <2>2. walk'.flag = FALSE /\ walk'.left = walk.left /\ walk'.began = walk.began
    BY <2>1
  <2>3. TrainTypes'
    BY <1>t, <2>1, <2>2 DEF TrainTypes
  <2>4. WalkInv'
    BY <2>1, <2>2 DEF WalkInv
  <2> QED
    BY <2>1, <2>3, <2>4 DEF RowsInv, Due, ButtonsTellTrainings
<1>8. ASSUME NEW t \in runs, ModelStored(t) PROVE TrainInv'
  <2>1. PICK u : u = [t EXCEPT !.result = models[t.of] + 1]
    OBVIOUS
  <2>2. /\ t.result = 0 /\ runs' = (runs \ {t}) \cup {u}
        /\ models' = [models EXCEPT ![t.of] = @ + 1]
        /\ UNCHANGED <<list, listing, training, walk, blemish>>
    BY <1>8, <2>1 DEF ModelStored
  <2>3. /\ t.of \in OnList /\ models[t.of] \in Nat
        /\ u \in Runs /\ u.of = t.of /\ u.by = t.by /\ u.result = models[t.of] + 1
    BY <1>t, <2>1 DEF Runs
  <2>4. /\ models' \in [OnList -> Nat] /\ models'[t.of] = models[t.of] + 1
        /\ \A p \in OnList : p # t.of => models'[p] = models[p]
        /\ \A p \in OnList : models[p] \in Nat
    BY <1>t, <2>2, <2>3
  <2>5. TrainTypes'
    BY <1>t, <2>2, <2>3, <2>4 DEF TrainTypes
  <2>6. RowsInv'
    <3>1. "twice" \notin blemish' => \A a, b \in runs' : a.of = b.of => a = b
      BY <2>2, <2>3 DEF RowsInv
    <3>2. ASSUME blemish = {}, NEW a \in runs', a.result > 0 PROVE a.result = models'[a.of]
      <4>1. CASE a = u
        BY <2>3, <2>4, <4>1
      <4>2. CASE a # u
        <5>1. a \in runs /\ a # t /\ a.of \in OnList
          BY <1>t, <2>2, <4>2 DEF Runs
        <5>2. a.of # t.of /\ a.result = models[a.of]
          BY <3>2, <5>1 DEF RowsInv
        <5> QED
          BY <2>4, <5>1, <5>2
      <4> QED
        BY <4>1, <4>2
    <3>3. u \in runs' /\ u.result > 0
      BY <2>2, <2>3
    <3>4. ASSUME NEW p \in OnList, p # t.of, Due(p) PROVE Due(p)'
      BY <2>2, <3>4 DEF Due
    <3>5. Due(t.of)'
      BY <2>3, <3>3 DEF Due
    <3>6. ASSUME blemish = {}, NEW f \in [OnList -> Nat],
                 \A p \in OnList : f[p] = models[p] \/ (f[p] < models[p] /\ Due(p))
          PROVE  \A p \in OnList : f[p] = models'[p] \/ (f[p] < models'[p] /\ Due(p)')
      <4> SUFFICES ASSUME NEW p \in OnList
                   PROVE  f[p] = models'[p] \/ (f[p] < models'[p] /\ Due(p)')
        OBVIOUS
      <4>1. f[p] \in Nat /\ models[p] \in Nat
        BY <1>t
      <4>2. CASE p = t.of
        BY <2>4, <3>5, <3>6, <4>1, <4>2
      <4>3. CASE p # t.of
        BY <2>4, <3>4, <3>6, <4>3
      <4> QED
        BY <4>2, <4>3
    <3>7. blemish = {} /\ list # <<>> =>
            \A p \in OnList : list'[p] = models'[p] \/ (list'[p] < models'[p] /\ Due(p)')
      <4> SUFFICES ASSUME blemish = {}, list # <<>>
                   PROVE  \A p \in OnList : list[p] = models'[p] \/ (list[p] < models'[p] /\ Due(p)')
        BY <2>2
      <4> QED
        BY <1>t, <3>6 DEF RowsInv
    <3>8. ASSUME blemish = {}, listing.at = "read"
          PROVE  \A p \in OnList : \/ listing.got[p] = models'[p]
                                   \/ (listing.got[p] < models'[p] /\ Due(p)')
      BY <1>t, <3>6, <3>8 DEF RowsInv
    <3> QED
      BY <2>2, <3>1, <3>2, <3>7, <3>8 DEF RowsInv
  <2>7. ButtonsTellTrainings'
    BY <2>2, <2>3 DEF ButtonsTellTrainings
  <2>8. WalkInv'
    <3>1. /\ "stuck" \in blemish' => walk'.flag = TRUE
          /\ walk'.flag = FALSE => walk'.left = <<>> /\ \A a \in runs' : a.by = "row"
      BY <2>2, <2>3 DEF WalkInv
    <3>2. ASSUME walk.began # <<>>, NEW p \in OnList
          PROVE  /\ walk.began[p] <= models'[p]
                 /\ p = t.of => walk.began[p] < models'[p]
                 /\ walk.began[p] < models[p] => walk.began[p] < models'[p]
      <4>1. walk.began[p] \in Nat /\ models[p] \in Nat /\ walk.began[p] <= models[p]
        BY <1>t, <3>2 DEF WalkInv
      <4> QED
        BY <2>4, <4>1
    <3>3. ASSUME "stuck" \notin blemish, walk.began # <<>>, NEW p \in OnList
          PROVE  \/ models'[p] > walk.began[p]
                 \/ \E k \in 1 .. Len(walk.left) : walk.left[k] = p
                 \/ \E a \in runs' : a.by = "all" /\ a.of = p /\ a.result = 0
      <4>1. CASE p = t.of
        <5>1. walk.began[p] \in Nat /\ models'[p] \in Nat
          BY <1>t, <2>4, <3>3
        <5> QED
          BY <3>2, <3>3, <4>1, <5>1
      <4>2. CASE p # t.of
        <5>1. models'[p] = models[p]
          BY <2>4, <4>2
        <5> QED
          BY <2>2, <3>3, <4>2, <5>1 DEF WalkInv
      <4> QED
        BY <4>1, <4>2
    <3> QED
      BY <2>2, <3>1, <3>2, <3>3 DEF WalkInv
  <2> QED
    BY <2>5, <2>6, <2>7, <2>8
<1>9. ASSUME NEW t \in runs, TrainingAnswered(t) PROVE TrainInv'
  <2>1. /\ t.result > 0 /\ runs' = runs \ {t} /\ training' = training \ {t.of}
        /\ list' = [p \in DOMAIN list |-> IF p = t.of THEN t.result ELSE list[p]]
        /\ blemish' = blemish \cup IF listing.at = "read" /\ listing.got[t.of] < t.result
                                   THEN {"undone"} ELSE {}
        /\ UNCHANGED <<models, listing, walk>>
    BY <1>9 DEF TrainingAnswered
  <2>2. t.of \in OnList /\ t.result \in Nat
    BY <1>t DEF Runs
  <2>3. /\ blemish' = {} => blemish = {} /\ (listing.at = "read" => ~(listing.got[t.of] < t.result))
        /\ "twice" \in blemish' <=> "twice" \in blemish
        /\ "stuck" \in blemish' <=> "stuck" \in blemish
    BY <2>1
  <2>4. list' = <<>> \/ (list' \in [OnList -> Nat] /\ list # <<>>)
    <3>1. CASE list = <<>>
      <4>1. DOMAIN list = {}
        BY <3>1
      <4> QED
        BY <2>1, <4>1
    <3>2. CASE list # <<>>
      BY <1>t, <2>1, <2>2, <3>2
    <3> QED
      BY <3>1, <3>2
  <2>5. TrainTypes'
    BY <1>t, <2>1, <2>4 DEF TrainTypes
  <2>6. RowsInv'
    <3>1. "twice" \notin blemish' => \A a, b \in runs' : a.of = b.of => a = b
      BY <2>1, <2>3 DEF RowsInv
    <3>2. ASSUME blemish = {}, NEW p \in OnList, p # t.of, Due(p) PROVE Due(p)'
      BY <2>1, <3>2 DEF Due
    <3>3. blemish = {} => t.result = models[t.of]
      BY <2>1 DEF RowsInv
    <3>4. ASSUME blemish' = {}, list' # <<>>, NEW p \in OnList
          PROVE  list'[p] = models[p] \/ (list'[p] < models[p] /\ Due(p)')
      <4>1. list \in [OnList -> Nat] /\ list # <<>> /\ blemish = {}
        BY <1>t, <2>3, <2>4, <3>4
      <4>2. list'[p] = IF p = t.of THEN t.result ELSE list[p]
        BY <2>1, <4>1
      <4> QED
        BY <3>2, <3>3, <4>1, <4>2 DEF RowsInv
    <3>5. ASSUME blemish' = {}, listing.at = "read", NEW p \in OnList
          PROVE  listing.got[p] = models[p] \/ (listing.got[p] < models[p] /\ Due(p)')
      <4>1. blemish = {} /\ listing.got[p] \in Nat /\ models[p] \in Nat
        BY <1>t, <2>3, <3>5
      <4>2. listing.got[p] = models[p] \/ (listing.got[p] < models[p] /\ Due(p))
        BY <3>5, <4>1 DEF RowsInv
      <4>3. CASE p = t.of
        BY <2>3, <3>3, <3>5, <4>1, <4>2, <4>3
      <4>4. CASE p # t.of
        BY <3>2, <4>1, <4>2, <4>4
      <4> QED
        BY <4>3, <4>4
    <3>6. blemish' = {} => \A a \in runs' : a.result > 0 => a.result = models'[a.of]
      BY <2>1, <2>3 DEF RowsInv
    <3> QED
      BY <2>1, <3>1, <3>4, <3>5, <3>6 DEF RowsInv
  <2>7. ButtonsTellTrainings'
    BY <2>1, <2>3 DEF ButtonsTellTrainings, RowsInv
  <2>8. WalkInv'
    <3>1. \A a \in runs : a.result = 0 => a \in runs'
      BY <2>1, <2>2
    <3> QED
      BY <2>1, <2>3, <3>1 DEF WalkInv
  <2> QED
    BY <2>5, <2>6, <2>7, <2>8
<1>10. ASSUME NEW t \in runs, TrainingFails(t) PROVE TrainInv'
  <2>1. /\ training' = training \ {t.of} /\ runs' = runs \ {t}
        /\ UNCHANGED <<models, list, listing>>
        /\ blemish' = blemish \cup {"failed"} \cup IF t.by = "all" THEN {"stuck"} ELSE {}
        /\ walk' = IF t.by = "all" THEN [walk EXCEPT !.left = <<>>] ELSE walk
    BY <1>10 DEF TrainingFails
  <2>2. /\ blemish' # {} /\ ("twice" \in blemish' <=> "twice" \in blemish)
        /\ "stuck" \in blemish' <=> "stuck" \in blemish \/ t.by = "all"
    BY <2>1
  <2>3. /\ walk'.flag = walk.flag /\ walk'.began = walk.began
        /\ walk'.left = IF t.by = "all" THEN <<>> ELSE walk.left
    BY <2>1
  <2>4. TrainTypes'
    <3>1. <<>> \in Seq(OnList)
      OBVIOUS
    <3> QED
      BY <1>t, <2>1, <2>3, <3>1 DEF TrainTypes
  <2>5. RowsInv'
    BY <2>1, <2>2 DEF RowsInv
  <2>6. ButtonsTellTrainings'
    BY <2>1, <2>2 DEF ButtonsTellTrainings, RowsInv
  <2>7. WalkInv'
    BY <1>t, <2>1, <2>2, <2>3 DEF WalkInv
  <2> QED
    BY <2>4, <2>5, <2>6, <2>7
<1>11. CASE UNCHANGED trainVars
  BY <1>11 DEF trainVars, TrainTypes, RowsInv, Due, ButtonsTellTrainings, WalkInv
<1> QED
  BY <1>1, <1>2, <1>3, <1>4, <1>5, <1>6, <1>7, <1>8, <1>9, <1>10, <1>11 DEF TrainNext, OnList

\* The pages that train forecasts, for any products, clicks and faults: rows show
\* their last training, buttons tell what is trained, and "train all" trained all.
THEOREM TrainingAlwaysHolds == TrainSpec => []TrainingHolds
<1>1. TrainInit => TrainInv
  BY TrainInvInit
<1>2. TrainInv /\ [TrainNext]_trainVars => TrainInv'
  BY TrainInvStep
<1>3. TrainInv => TrainingHolds
  <2> SUFFICES ASSUME TrainInv PROVE TrainingHolds
    OBVIOUS
  <2>1. RowsShowTheirTraining
    <3> SUFFICES ASSUME runs = {}, listing.at = "none", blemish = {}, list # <<>>
                 PROVE  list = models
      BY DEF RowsShowTheirTraining
    <3>1. list \in [OnList -> Nat] /\ models \in [OnList -> Nat]
      BY DEF TrainInv, TrainTypes
    <3>2. \A p \in OnList : list[p] = models[p]
      BY DEF TrainInv, RowsInv, Due
    <3> QED
      BY <3>1, <3>2
  <2>2. AllWereTrained
    <3> SUFFICES ASSUME ~walk.flag, NEW p \in DOMAIN walk.began PROVE models[p] > walk.began[p]
      BY DEF AllWereTrained
    <3>1. walk.flag = FALSE
      BY DEF TrainInv, TrainTypes
    <3>2. walk.left = <<>> /\ "stuck" \notin blemish /\ \A t \in runs : t.by = "row"
      BY <3>1 DEF TrainInv, WalkInv
    <3>3. walk.began # <<>> /\ p \in OnList
      BY DEF TrainInv, TrainTypes
    <3> QED
      BY <3>2, <3>3 DEF TrainInv, WalkInv
  <2> QED
    BY <2>1, <2>2 DEF TrainInv, TrainingHolds
<1> QED
  BY <1>1, <1>2, <1>3, PTL DEF TrainSpec

-----------------------------------------------------------------------------
(***************************************************************************)
(* ProjectCreationFlow.  The maps of a launch hold the numbers of exactly  *)
(* the rows it has created, each under an id whose row has that number; a  *)
(* task is what its row asks for from the moment it is created, and of an  *)
(* orderly draft, whose numbers differ, it then stays so.                  *)
(***************************************************************************)

\* The tasks of a draft, and a draft.
DraftTasks == [id : Nat \ {0}, after : Nat, milestone : Nat]
IsDraft(d) ==
  /\ DOMAIN d = {"tasks", "milestones", "assigned"}
  /\ d.tasks \in Seq(DraftTasks) /\ d.milestones \in Seq(Nat \ {0})
  /\ \A n \in DOMAIN d.assigned : d.assigned[n] \in Crew \cup {Nobody}

\* The projects the API has.
BuiltTasks == [after : SUBSET Nat, milestone : SUBSET Nat, crew : SUBSET Crew]
BuiltProjects == [budget : BOOLEAN, milestones : Nat, tasks : Seq(BuiltTasks)]

\* The map of the numbers that the first n rows have to their ids.
Maps(map, numbers, n) ==
  /\ n \in Nat /\ n <= Len(numbers)
  /\ DOMAIN map = {numbers[j] : j \in 1 .. n}
  /\ \A m \in DOMAIN map : map[m] \in 1 .. n /\ numbers[map[m]] = m

TaskNumbers(d) == [k \in 1 .. Len(d.tasks) |-> d.tasks[k].id]

\* A task is what its row asks for.
TaskFollows(made, k, d) ==
  /\ made.after \subseteq 1 .. k - 1
  /\ Orderly(d) =>
       /\ made.after = {j \in 1 .. Len(d.tasks) : d.tasks[j].id = d.tasks[k].after}
       /\ made.milestone = {j \in 1 .. Len(d.milestones) : d.milestones[j] = d.tasks[k].milestone}
       /\ made.crew \subseteq {e \in Crew : d.tasks[k].id \in DOMAIN d.assigned
                                            /\ d.assigned[d.tasks[k].id] = e}

\* What a launch has created so far of what it sends.
Follows(l, project) ==
  /\ l.at # "budget" => project.budget = TRUE
  /\ Maps(l.milestones, l.sent.milestones, project.milestones)
  /\ Maps(l.tasks, TaskNumbers(l.sent), Len(project.tasks))
  /\ Len(project.tasks) > 0 => project.milestones = Len(l.sent.milestones)
  /\ \A k \in 1 .. Len(project.tasks) : TaskFollows(project.tasks[k], k, l.sent)

WizardType ==
  /\ IsDraft(draft) /\ IsDraft(launch.sent)
  /\ DOMAIN launch = {"at", "sent", "tasks", "milestones"}
  /\ launch.at \in {"idle", "project", "budget", "rows", "done", "failed"}
  /\ projects \in Seq(BuiltProjects)

LaunchInv ==
  /\ launch.at = "project" => DOMAIN launch.tasks = {} /\ DOMAIN launch.milestones = {}
  /\ launch.at \in {"budget", "rows", "done"} => Here > 0 /\ Follows(launch, Project)
  /\ launch.at = "done" =>
       /\ Project.milestones = Len(launch.sent.milestones)
       /\ Len(Project.tasks) = Len(launch.sent.tasks) /\ Unallocated = {}

WizardInv == WizardType /\ LaunchInv

-----------------------------------------------------------------------------
LEMMA NotedIs ==
  ASSUME NEW map, NEW n, NEW v
  PROVE  /\ DOMAIN Noted(map, n, v) = DOMAIN map \cup {n} /\ Noted(map, n, v)[n] = v
         /\ \A m \in DOMAIN map : m # n => Noted(map, n, v)[m] = map[m]
BY DEF Noted

\* A further row is noted under its number.
LEMMA MapsFurther ==
  ASSUME NEW S, NEW numbers \in Seq(S), NEW map, NEW n, Maps(map, numbers, n), n < Len(numbers)
  PROVE  Maps(Noted(map, numbers[n + 1], n + 1), numbers, n + 1)
<1>1. n \in Nat /\ Len(numbers) \in Nat
  BY DEF Maps
<1>2. PICK g : g = Noted(map, numbers[n + 1], n + 1)
  OBVIOUS
<1>3. /\ DOMAIN g = DOMAIN map \cup {numbers[n + 1]} /\ g[numbers[n + 1]] = n + 1
      /\ \A m \in DOMAIN map : m # numbers[n + 1] => g[m] = map[m]
  BY <1>2 DEF Noted
<1>4. 1 .. n + 1 = (1 .. n) \cup {n + 1}
  BY <1>1
<1>5. DOMAIN g = {numbers[j] : j \in 1 .. n + 1}
  BY <1>3, <1>4 DEF Maps
<1>6. \A m \in DOMAIN g : g[m] \in 1 .. n + 1 /\ numbers[g[m]] = m
  BY <1>1, <1>3, <1>4 DEF Maps
<1> QED BY <1>1, <1>2, <1>5, <1>6 DEF Maps

\* A sequence without one of its elements.
LEMMA Removed ==
  ASSUME NEW S, NEW s \in Seq(S), NEW k \in DOMAIN s
  PROVE  RemoveAt(s, k) \in Seq(S)
<1>1. k \in 1 .. Len(s) /\ Len(s) \in Nat
  OBVIOUS
<1>2. SubSeq(s, 1, k - 1) \in Seq(S)
  <2>1. \A i \in 1 .. k - 1 : s[i] \in S
    BY <1>1
  <2> QED BY <1>1, <2>1, SubSeqProperties
<1>3. SubSeq(s, k + 1, Len(s)) \in Seq(S)
  <2>1. \A i \in k + 1 .. Len(s) : s[i] \in S
    BY <1>1
  <2> QED BY <1>1, <2>1, SubSeqProperties
<1> QED BY <1>2, <1>3 DEF RemoveAt

LEMMA DraftParts ==
  ASSUME NEW d, IsDraft(d)
  PROVE  d.tasks \in Seq(DraftTasks) /\ d.milestones \in Seq(Nat \ {0})
BY DEF IsDraft

LEMMA OneMore == ASSUME NEW S, NEW s \in Seq(S), NEW e \in S PROVE Append(s, e) \in Seq(S)
OBVIOUS

LEMMA NumbersAre == ASSUME NEW s \in Seq(DraftTasks) PROVE Numbers(s) \subseteq Nat \ {0}
<1>1. ASSUME NEW k \in DOMAIN s PROVE s[k].id \in Nat \ {0}
  <2>1. s[k] \in DraftTasks
    OBVIOUS
  <2> QED BY <2>1 DEF DraftTasks
<1> QED BY <1>1 DEF Numbers

LEMMA EmptyIsDraft == IsDraft(EmptyDraft)
BY DEF IsDraft, EmptyDraft

LEMMA WizardStarts == WizardInit => WizardInv
<1> SUFFICES ASSUME WizardInit PROVE WizardInv
  OBVIOUS
<1>1. draft = EmptyDraft /\ launch = NoLaunch /\ projects = <<>>
  BY DEF WizardInit
<1>2. launch.at = "idle" /\ launch.sent = EmptyDraft
  BY <1>1 DEF NoLaunch
<1>3. WizardType
  BY <1>1, <1>2, EmptyIsDraft DEF WizardType, NoLaunch
<1> QED BY <1>2, <1>3 DEF WizardInv, LaunchInv

\* The user's changes leave the launch alone.
LEMMA DraftChanges ==
  ASSUME WizardInv, IsDraft(draft'), UNCHANGED <<launch, projects>>
  PROVE  WizardInv'
<1>1. WizardType'
  BY DEF WizardInv, WizardType
<1>2. LaunchInv'
  BY DEF WizardInv, LaunchInv, Here, Project, Unallocated
<1> QED BY <1>1, <1>2 DEF WizardInv

LEMMA AddMilestoneStep == ASSUME WizardInv, AddMilestone PROVE WizardInv'
<1>1. IsDraft(draft)
  BY DEF WizardInv, WizardType
<1>2. PICK rows \in Seq(Nat \ {0}) : rows = Append(draft.milestones, Len(draft.milestones) + 1)
  <2>1. Len(draft.milestones) + 1 \in Nat \ {0}
    BY <1>1, DraftParts
  <2> QED BY <1>1, <2>1, DraftParts, OneMore
<1>3. draft' = [draft EXCEPT !.milestones = rows]
  BY <1>2 DEF AddMilestone
<1>4. IsDraft(draft')
  BY <1>1, <1>2, <1>3 DEF IsDraft
<1> QED BY <1>4, DraftChanges DEF AddMilestone

LEMMA AddTaskStep == ASSUME WizardInv, AddTask PROVE WizardInv'
<1>1. IsDraft(draft)
  BY DEF WizardInv, WizardType
<1>2. PICK after \in {0} \cup Numbers(draft.tasks), m \in {0} \cup ToSet(draft.milestones) :
        draft' = [draft EXCEPT !.tasks =
                    Append(@, [id |-> Len(@) + 1, after |-> after, milestone |-> m])]
  BY DEF AddTask
<1>3. after \in Nat
  BY <1>1, DraftParts, NumbersAre
<1>4. m \in Nat
  BY <1>1, DraftParts DEF ToSet
<1>5. PICK row \in DraftTasks : row = [id |-> Len(draft.tasks) + 1, after |-> after, milestone |-> m]
  <2>1. PICK id \in Nat \ {0} : id = Len(draft.tasks) + 1
    BY <1>1, DraftParts
  <2> QED BY <1>3, <1>4, <2>1 DEF DraftTasks
<1>6. PICK rows \in Seq(DraftTasks) : rows = Append(draft.tasks, row)
  BY <1>1, DraftParts, OneMore
<1>7. draft' = [draft EXCEPT !.tasks = rows]
  BY <1>2, <1>5, <1>6
<1>8. IsDraft(draft')
  BY <1>1, <1>6, <1>7 DEF IsDraft
<1> QED BY <1>8, DraftChanges DEF AddTask

LEMMA RemoveRowStep == ASSUME WizardInv, RemoveRow PROVE WizardInv'
<1>1. IsDraft(draft)
  BY DEF WizardInv, WizardType
<1>2. CASE \E k \in DOMAIN draft.tasks : draft' = [draft EXCEPT !.tasks = RemoveAt(@, k)]
  <2>1. PICK k \in DOMAIN draft.tasks : draft' = [draft EXCEPT !.tasks = RemoveAt(draft.tasks, k)]
    BY <1>2
  <2>2. PICK rows \in Seq(DraftTasks) : rows = RemoveAt(draft.tasks, k)
    BY <1>1, Removed DEF IsDraft
  <2>3. IsDraft(draft')
    BY <1>1, <2>1, <2>2 DEF IsDraft
  <2> QED BY <2>3, DraftChanges DEF RemoveRow
<1>3. CASE \E k \in DOMAIN draft.milestones :
             draft' = [draft EXCEPT !.milestones = RemoveAt(@, k)]
  <2>1. PICK k \in DOMAIN draft.milestones :
          draft' = [draft EXCEPT !.milestones = RemoveAt(draft.milestones, k)]
    BY <1>3
  <2>2. PICK rows \in Seq(Nat \ {0}) : rows = RemoveAt(draft.milestones, k)
    BY <1>1, Removed DEF IsDraft
  <2>3. IsDraft(draft')
    BY <1>1, <2>1, <2>2 DEF IsDraft
  <2> QED BY <2>3, DraftChanges DEF RemoveRow
<1> QED BY <1>2, <1>3 DEF RemoveRow

LEMMA AssignStep == ASSUME WizardInv, Assign PROVE WizardInv'
<1>1. IsDraft(draft)
  BY DEF WizardInv, WizardType
<1>2. PICK n \in Numbers(draft.tasks), e \in Crew \cup {Nobody} :
        draft' = [draft EXCEPT !.assigned = Noted(draft.assigned, n, e)]
  BY DEF Assign
<1>3. PICK g : g = Noted(draft.assigned, n, e)
  OBVIOUS
<1>4. \A m \in DOMAIN g : g[m] \in Crew \cup {Nobody}
  <2>1. \A m \in DOMAIN draft.assigned : draft.assigned[m] \in Crew \cup {Nobody}
    BY <1>1 DEF IsDraft
  <2>2. PICK f : f = draft.assigned
    OBVIOUS
  <2>3. g = Noted(f, n, e)
    BY <1>3, <2>2
  <2> QED BY <2>1, <2>2, <2>3 DEF Noted
<1>5. IsDraft(draft')
  BY <1>1, <1>2, <1>3, <1>4 DEF IsDraft
<1> QED BY <1>5, DraftChanges DEF Assign

-----------------------------------------------------------------------------
LEMMA TaskNumbersAre ==
  ASSUME NEW d, IsDraft(d)
  PROVE  /\ TaskNumbers(d) \in Seq(Nat \ {0}) /\ Len(TaskNumbers(d)) = Len(d.tasks)
         /\ Len(d.tasks) \in Nat /\ Len(d.milestones) \in Nat
         /\ \A k \in 1 .. Len(d.tasks) : TaskNumbers(d)[k] = d.tasks[k].id
<1>1. PICK s \in Seq(DraftTasks) : s = d.tasks
  BY DraftParts
<1>2. PICK n \in Nat : n = Len(s)
  OBVIOUS
<1>3. \A k \in 1 .. n : s[k].id \in Nat \ {0}
  <2>1. \A k \in 1 .. n : s[k] \in DraftTasks
    BY <1>2
  <2> QED BY <2>1 DEF DraftTasks
<1>4. TaskNumbers(d) = [k \in 1 .. n |-> s[k].id]
  BY <1>1, <1>2 DEF TaskNumbers
<1>5. TaskNumbers(d) \in [1 .. n -> Nat \ {0}]
  BY <1>3, <1>4
<1>6. TaskNumbers(d) \in Seq(Nat \ {0}) /\ Len(TaskNumbers(d)) = n
  <2>1. PICK t \in [1 .. n -> Nat \ {0}] : t = TaskNumbers(d)
    BY <1>5
  <2>2. t \in Seq(Nat \ {0}) /\ Len(t) = n
    OBVIOUS
  <2> QED BY <2>1, <2>2
<1>7. Len(d.milestones) \in Nat
  BY DraftParts
<1> QED BY <1>1, <1>2, <1>4, <1>6, <1>7

\* A call of a launch changes the project it creates.
LEMMA ProjectChanges ==
  ASSUME NEW p \in BuiltProjects, WizardType, Len(projects) > 0,
         projects' = [projects EXCEPT ![Len(projects)] = p]
  PROVE  /\ projects' \in Seq(BuiltProjects) /\ Len(projects') > 0
         /\ projects'[Len(projects')] = p
<1>1. PICK s \in Seq(BuiltProjects) : s = projects
  BY DEF WizardType
<1>2. Len(s) \in 1 .. Len(s)
  BY <1>1
<1>3. [s EXCEPT ![Len(s)] = p] \in Seq(BuiltProjects) /\ Len([s EXCEPT ![Len(s)] = p]) = Len(s)
  BY <1>2
<1>4. [s EXCEPT ![Len(s)] = p][Len(s)] = p
  BY <1>2
<1> QED BY <1>1, <1>2, <1>3, <1>4

\* A launch that goes on, or whose answer is lost.
LEMMA LaunchMoves ==
  ASSUME WizardInv, NEW next, Answers(next), NEW p,
         projects' \in Seq(BuiltProjects), Len(projects') > 0, projects'[Len(projects')] = p,
         DOMAIN next = {"at", "sent", "tasks", "milestones"}, next.sent = launch.sent,
         next.at \in {"budget", "rows"}, Follows(next, p)
  PROVE  WizardInv'
<1>1. draft' = draft /\ WizardType
  BY DEF Answers, WizardInv
<1>2. CASE launch' = next
  <2>1. WizardType'
    BY <1>1, <1>2 DEF WizardType
  <2>2. LaunchInv'
    BY <1>2 DEF LaunchInv, Here, Project
  <2> QED BY <2>1, <2>2 DEF WizardInv
<1>3. CASE launch' = [launch EXCEPT !.at = "failed"]
  <2>1. launch'.at = "failed" /\ launch'.sent = launch.sent
        /\ DOMAIN launch' = {"at", "sent", "tasks", "milestones"}
    BY <1>1, <1>3 DEF WizardType
  <2>2. WizardType'
    BY <1>1, <2>1 DEF WizardType
  <2>3. LaunchInv'
    BY <2>1 DEF LaunchInv
  <2> QED BY <2>2, <2>3 DEF WizardInv
<1> QED BY <1>2, <1>3 DEF Answers

LEMMA CreateProjectStep == ASSUME WizardInv, CreateProject PROVE WizardInv'
<1>1. launch.at = "project" /\ projects' = Append(projects, NewProject)
      /\ Answers([launch EXCEPT !.at = "budget"])
  BY DEF CreateProject
<1>2. WizardType /\ DOMAIN launch.tasks = {} /\ DOMAIN launch.milestones = {}
  BY <1>1 DEF WizardInv, LaunchInv
<1>3. PICK next : next = [launch EXCEPT !.at = "budget"]
  OBVIOUS
<1>4. /\ DOMAIN next = {"at", "sent", "tasks", "milestones"} /\ next.sent = launch.sent
      /\ next.at = "budget" /\ next.tasks = launch.tasks /\ next.milestones = launch.milestones
  BY <1>2, <1>3 DEF WizardType
<1>5. PICK p \in BuiltProjects : p = NewProject
  <2>1. <<>> \in Seq(BuiltTasks)
    OBVIOUS
  <2> QED BY <2>1 DEF NewProject, BuiltProjects
<1>6. p.milestones = 0 /\ Len(p.tasks) = 0
  BY <1>5 DEF NewProject
<1>7. projects' \in Seq(BuiltProjects) /\ Len(projects') > 0 /\ projects'[Len(projects')] = p
  <2>1. PICK s \in Seq(BuiltProjects) : s = projects
    BY <1>2 DEF WizardType
  <2>2. Append(s, p) \in Seq(BuiltProjects) /\ Len(Append(s, p)) = Len(s) + 1 /\ Len(s) \in Nat
        /\ Append(s, p)[Len(s) + 1] = p
    OBVIOUS
  <2> QED BY <1>1, <1>5, <2>1, <2>2
<1>8. IsDraft(next.sent)
  BY <1>2, <1>4 DEF WizardType
<1>9. Maps(next.milestones, next.sent.milestones, 0) /\ Maps(next.tasks, TaskNumbers(next.sent), 0)
  BY <1>2, <1>4, <1>8, TaskNumbersAre DEF Maps
<1>10. Follows(next, p)
  BY <1>4, <1>6, <1>9 DEF Follows
<1>11. Answers(next)
  BY <1>1, <1>3
<1> QED BY <1>4, <1>7, <1>10, <1>11, LaunchMoves

\* What a call finds.
LEMMA UnderWay ==
  ASSUME WizardInv, launch.at \in {"budget", "rows"}
  PROVE  /\ WizardType /\ Here > 0 /\ Here \in Nat /\ Project \in BuiltProjects
         /\ Follows(launch, Project) /\ IsDraft(launch.sent)
<1>1. WizardType /\ Here > 0 /\ Follows(launch, Project) /\ IsDraft(launch.sent)
  BY DEF WizardInv, LaunchInv, WizardType
<1>2. Here \in Nat /\ Project \in BuiltProjects
  <2>1. PICK s \in Seq(BuiltProjects) : s = projects
    BY <1>1 DEF WizardType
  <2>2. Len(s) \in 1 .. Len(s)
    BY <1>1, <2>1 DEF Here
  <2> QED BY <2>1, <2>2 DEF Here, Project
<1> QED BY <1>1, <1>2

LEMMA SetBudgetStep == ASSUME WizardInv, SetBudgetOfProject PROVE WizardInv'
<1>1. launch.at = "budget" /\ projects' = [projects EXCEPT ![Here].budget = TRUE]
      /\ Answers([launch EXCEPT !.at = "rows"])
  BY DEF SetBudgetOfProject
<1>2. /\ WizardType /\ Here > 0 /\ Project \in BuiltProjects
      /\ Follows(launch, Project) /\ IsDraft(launch.sent)
  BY <1>1, UnderWay
<1>3. PICK next : next = [launch EXCEPT !.at = "rows"]
  OBVIOUS
<1>4. /\ DOMAIN next = {"at", "sent", "tasks", "milestones"} /\ next.sent = launch.sent
      /\ next.at = "rows" /\ next.tasks = launch.tasks /\ next.milestones = launch.milestones
  BY <1>2, <1>3 DEF WizardType
<1>5. PICK p : p = [Project EXCEPT !.budget = TRUE]
  OBVIOUS
<1>6. p \in BuiltProjects /\ p.budget = TRUE /\ p.tasks = Project.tasks
      /\ p.milestones = Project.milestones
  BY <1>2, <1>5 DEF BuiltProjects
<1>7. projects' = [projects EXCEPT ![Len(projects)] = p]
  BY <1>1, <1>5 DEF Here, Project
<1>8. projects' \in Seq(BuiltProjects) /\ Len(projects') > 0 /\ projects'[Len(projects')] = p
  BY <1>2, <1>6, <1>7, ProjectChanges DEF Here
<1>9. Follows(next, p)
  BY <1>2, <1>4, <1>6 DEF Follows
<1>10. Answers(next)
  BY <1>1, <1>3
<1> QED BY <1>4, <1>8, <1>9, <1>10, LaunchMoves

LEMMA CreateMilestoneStep == ASSUME WizardInv, CreateMilestone PROVE WizardInv'
<1>1. launch.at = "rows" /\ Project.milestones < Len(launch.sent.milestones)
  BY DEF CreateMilestone
<1>2. /\ WizardType /\ Here > 0 /\ Project \in BuiltProjects
      /\ Follows(launch, Project) /\ IsDraft(launch.sent)
  BY <1>1, UnderWay
<1>3. PICK k \in Nat : k = Project.milestones + 1
  BY <1>2 DEF BuiltProjects
<1>4. PICK map : map = Noted(launch.milestones, launch.sent.milestones[k], k)
  OBVIOUS
<1>5. PICK next : next = [launch EXCEPT !.milestones = map]
  OBVIOUS
<1>6. projects' = [projects EXCEPT ![Here].milestones = k] /\ Answers(next)
  BY <1>3, <1>4, <1>5 DEF CreateMilestone
<1>7. /\ DOMAIN next = {"at", "sent", "tasks", "milestones"} /\ next.sent = launch.sent
      /\ next.at = "rows" /\ next.tasks = launch.tasks /\ next.milestones = map
  BY <1>1, <1>2, <1>5 DEF WizardType
<1>8. PICK p : p = [Project EXCEPT !.milestones = k]
  OBVIOUS
<1>9. p \in BuiltProjects /\ p.budget = Project.budget /\ p.tasks = Project.tasks
      /\ p.milestones = k
  BY <1>2, <1>8 DEF BuiltProjects
<1>10. projects' = [projects EXCEPT ![Len(projects)] = p]
  BY <1>6, <1>8 DEF Here, Project
<1>11. projects' \in Seq(BuiltProjects) /\ Len(projects') > 0 /\ projects'[Len(projects')] = p
  BY <1>2, <1>9, <1>10, ProjectChanges DEF Here
<1>12. Maps(launch.milestones, launch.sent.milestones, Project.milestones)
  BY <1>2 DEF Follows
<1>13. Maps(map, launch.sent.milestones, k)
  <2>1. PICK s \in Seq(Nat \ {0}) : s = launch.sent.milestones
    BY <1>2, DraftParts
  <2>2. PICK n \in Nat : n = Project.milestones
    BY <1>2 DEF BuiltProjects
  <2>3. k = n + 1 /\ n < Len(s) /\ Maps(launch.milestones, s, n)
    BY <1>1, <1>3, <1>12, <2>1, <2>2
  <2>4. Maps(Noted(launch.milestones, s[n + 1], n + 1), s, n + 1)
    BY <2>3, MapsFurther
  <2> QED BY <1>4, <2>1, <2>3, <2>4
<1>14. /\ Project.budget = TRUE
       /\ Maps(launch.tasks, TaskNumbers(launch.sent), Len(Project.tasks))
       /\ ~(Len(Project.tasks) > 0)
       /\ \A j \in 1 .. Len(Project.tasks) : TaskFollows(Project.tasks[j], j, launch.sent)
  BY <1>1, <1>2 DEF Follows, BuiltProjects
<1>15. Follows(next, p)
  BY <1>7, <1>9, <1>13, <1>14 DEF Follows
<1> QED BY <1>6, <1>7, <1>11, <1>15, LaunchMoves

\* The id that a number in a row of the draft is translated to.
LEMMA ResolvedIs ==
  ASSUME NEW map, NEW numbers, NEW n, Maps(map, numbers, n), NEW m
  PROVE  /\ Resolved(map, m) \subseteq 1 .. n
         /\ \A j \in 1 .. n : numbers[j] = m => \E i \in Resolved(map, m) : numbers[i] = m
         /\ \A i \in Resolved(map, m) : numbers[i] = m
<1>1. CASE m \in DOMAIN map
  <2>1. map[m] \in 1 .. n /\ numbers[map[m]] = m
    BY <1>1 DEF Maps
  <2>2. Resolved(map, m) = {map[m]}
    BY <1>1 DEF Resolved
  <2> QED BY <2>1, <2>2
<1>2. CASE m \notin DOMAIN map
  <2>1. Resolved(map, m) = {}
    BY <1>2 DEF Resolved
  <2>2. \A j \in 1 .. n : numbers[j] # m
    BY <1>2 DEF Maps
  <2> QED BY <2>1, <2>2 DEF Maps
<1> QED BY <1>1, <1>2

LEMMA ResolvedExactly ==
  ASSUME NEW map, NEW numbers, NEW n \in Nat, Maps(map, numbers, n), NEW m, Len(numbers) \in Nat,
         \A i, j \in 1 .. Len(numbers) : numbers[i] = numbers[j] => i = j,
         \A j \in 1 .. Len(numbers) : numbers[j] = m => j <= n
  PROVE  Resolved(map, m) = {j \in 1 .. Len(numbers) : numbers[j] = m}
<1>1. n <= Len(numbers)
  BY DEF Maps
<1>2. \A j \in Resolved(map, m) : j \in 1 .. Len(numbers) /\ numbers[j] = m
  BY <1>1, ResolvedIs
<1>3. ASSUME NEW j \in 1 .. Len(numbers), numbers[j] = m PROVE j \in Resolved(map, m)
  <2>1. j \in 1 .. n
    BY <1>3
  <2>2. PICK i \in Resolved(map, m) : numbers[i] = m
    BY <1>3, <2>1, ResolvedIs
  <2> QED BY <1>2, <1>3, <2>2
<1> QED BY <1>2, <1>3

LEMMA OrderlyParts ==
  ASSUME NEW d, IsDraft(d), Orderly(d)
  PROVE  /\ \A i, j \in 1 .. Len(d.tasks) : d.tasks[i].id = d.tasks[j].id => i = j
         /\ \A i, j \in 1 .. Len(d.milestones) : d.milestones[i] = d.milestones[j] => i = j
         /\ \A k \in 1 .. Len(d.tasks) :
              d.tasks[k].after \in {0} \cup {d.tasks[j].id : j \in 1 .. k - 1}
<1>1. PICK tasks \in Seq(DraftTasks) : tasks = d.tasks
  BY DraftParts
<1>2. PICK others \in Seq(Nat \ {0}) : others = d.milestones
  BY DraftParts
<1>3. DOMAIN tasks = 1 .. Len(tasks) /\ DOMAIN others = 1 .. Len(others)
  OBVIOUS
<1>4. IsInjective(others)
  BY <1>2 DEF Orderly
<1>5. \A i, j \in 1 .. Len(others) : others[i] = others[j] => i = j
  BY <1>3, <1>4 DEF IsInjective
<1>6. \A i, j \in 1 .. Len(tasks) : tasks[i].id = tasks[j].id => i = j
  BY <1>1, <1>3 DEF Orderly
<1>7. \A k \in 1 .. Len(tasks) : tasks[k].after \in {0} \cup {tasks[j].id : j \in 1 .. k - 1}
  BY <1>1, <1>3 DEF Orderly
<1> QED BY <1>1, <1>2, <1>5, <1>6, <1>7

LEMMA OrderlyIds ==
  ASSUME NEW d, IsDraft(d), Orderly(d), NEW n \in Nat, n < Len(d.tasks), NEW ids,
         Maps(ids, TaskNumbers(d), n)
  PROVE  Resolved(ids, d.tasks[n + 1].after) =
           {j \in 1 .. Len(d.tasks) : d.tasks[j].id = d.tasks[n + 1].after}
<1>1. PICK numbers : numbers = TaskNumbers(d)
  OBVIOUS
<1>2. /\ Len(numbers) = Len(d.tasks) /\ Len(numbers) \in Nat
      /\ \A k \in 1 .. Len(numbers) : numbers[k] = d.tasks[k].id /\ numbers[k] # 0
  <2>1. numbers \in Seq(Nat \ {0})
    BY <1>1, TaskNumbersAre
  <2> QED BY <1>1, <2>1, TaskNumbersAre
<1>3. PICK m : m = d.tasks[n + 1].after
  OBVIOUS
<1>4. \A i, j \in 1 .. Len(numbers) : numbers[i] = numbers[j] => i = j
  BY <1>2, OrderlyParts
<1>5. ASSUME NEW j \in 1 .. Len(numbers), numbers[j] = m PROVE j <= n
  <2>1. n + 1 \in 1 .. Len(d.tasks)
    BY <1>2
  <2>2. m \in {0} \cup {d.tasks[i].id : i \in 1 .. (n + 1) - 1}
    BY <1>3, <2>1, OrderlyParts
  <2>3. PICK i \in 1 .. (n + 1) - 1 : d.tasks[i].id = m
    BY <1>2, <1>5, <2>2
  <2> QED BY <1>2, <1>4, <1>5, <2>3
<1>6. Maps(ids, numbers, n)
  BY <1>1
<1>7. \A j \in 1 .. Len(numbers) : numbers[j] = m => j <= n
  BY <1>5
<1>8. Resolved(ids, m) = {j \in 1 .. Len(numbers) : numbers[j] = m}
  BY <1>2, <1>4, <1>6, <1>7, ResolvedExactly
<1> QED BY <1>2, <1>3, <1>8

\* The next task depends on tasks that are there; of an orderly draft on those its
\* row names.
LEMMA NextTask ==
  ASSUME NEW d, IsDraft(d), NEW n \in Nat, n < Len(d.tasks), NEW ids, NEW milestones,
         Maps(ids, TaskNumbers(d), n), Maps(milestones, d.milestones, Len(d.milestones)),
         NEW made, made = [after |-> Resolved(ids, d.tasks[n + 1].after),
                           milestone |-> Resolved(milestones, d.tasks[n + 1].milestone),
                           crew |-> {}]
  PROVE  made \in BuiltTasks /\ TaskFollows(made, n + 1, d)
<1>1. PICK numbers \in Seq(Nat \ {0}) : numbers = TaskNumbers(d)
  BY TaskNumbersAre
<1>2. PICK row : row = d.tasks[n + 1]
  OBVIOUS
<1>3. PICK others \in Seq(Nat \ {0}) : others = d.milestones
  BY DraftParts
<1>4. /\ Len(numbers) = Len(d.tasks) /\ Len(d.tasks) \in Nat /\ Len(d.milestones) \in Nat
      /\ \A k \in 1 .. Len(d.tasks) : numbers[k] = d.tasks[k].id /\ numbers[k] # 0
  BY <1>1, TaskNumbersAre
<1>5. /\ made.after = Resolved(ids, row.after) /\ made.crew = {}
      /\ made.milestone = Resolved(milestones, row.milestone)
  BY <1>2
<1>6. Resolved(ids, row.after) \subseteq 1 .. n
  BY <1>1, ResolvedIs
<1>7. Resolved(milestones, row.milestone) \subseteq 1 .. Len(others)
  BY <1>3, ResolvedIs
<1>8. made \in BuiltTasks
  BY <1>5, <1>6, <1>7 DEF BuiltTasks
<1>9. ASSUME Orderly(d)
      PROVE  /\ made.after = {j \in 1 .. Len(d.tasks) : d.tasks[j].id = row.after}
             /\ made.milestone = {j \in 1 .. Len(d.milestones) : d.milestones[j] = row.milestone}
  <2>1. n + 1 \in 1 .. Len(d.tasks)
    BY <1>4
  <2>2. /\ \A i, j \in 1 .. Len(d.tasks) : d.tasks[i].id = d.tasks[j].id => i = j
        /\ \A i, j \in 1 .. Len(d.milestones) : d.milestones[i] = d.milestones[j] => i = j
        /\ row.after \in {0} \cup {d.tasks[j].id : j \in 1 .. (n + 1) - 1}
    BY <1>2, <1>9, <2>1, OrderlyParts
  <2>4. Resolved(ids, row.after) = {j \in 1 .. Len(d.tasks) : d.tasks[j].id = row.after}
    BY <1>2, <1>9, OrderlyIds
  <2>5. Resolved(milestones, row.milestone) = {j \in 1 .. Len(others) : others[j] = row.milestone}
    <3>1. \A j \in 1 .. Len(others) : others[j] = row.milestone => j <= Len(others)
      BY <1>3, <1>4
    <3>2. PICK l \in Nat : l = Len(others) /\ Maps(milestones, others, l)
      BY <1>3
    <3>3. PICK m : m = row.milestone
      OBVIOUS
    <3>4. /\ \A j \in 1 .. Len(others) : others[j] = m => j <= l
          /\ \A i, j \in 1 .. Len(others) : others[i] = others[j] => i = j
      BY <1>3, <2>2, <3>1, <3>2, <3>3
    <3>5. Resolved(milestones, m) = {j \in 1 .. Len(others) : others[j] = m}
      BY <3>2, <3>4, ResolvedExactly
    <3> QED BY <3>3, <3>5
  <2> QED BY <1>3, <1>4, <1>5, <2>4, <2>5
<1>10. made.after \subseteq 1 .. (n + 1) - 1
  BY <1>5, <1>6
<1> QED BY <1>2, <1>5, <1>8, <1>9, <1>10 DEF TaskFollows

LEMMA CreateTaskStep == ASSUME WizardInv, CreateTask PROVE WizardInv'
<1>1. /\ launch.at = "rows" /\ Project.milestones = Len(launch.sent.milestones)
      /\ Len(Project.tasks) < Len(launch.sent.tasks)
  BY DEF CreateTask, MilestonesDone
<1>2. /\ WizardType /\ Here > 0 /\ Project \in BuiltProjects
      /\ Follows(launch, Project) /\ IsDraft(launch.sent)
  BY <1>1, UnderWay
<1>3. PICK built \in Seq(BuiltTasks) : built = Project.tasks
  BY <1>2 DEF BuiltProjects
<1>4. PICK n \in Nat : n = Len(built)
  OBVIOUS
<1>5. PICK row : row = launch.sent.tasks[n + 1]
  OBVIOUS
<1>6. PICK made : made = [after |-> Resolved(launch.tasks, row.after),
                          milestone |-> Resolved(launch.milestones, row.milestone),
                          crew |-> {}]
  OBVIOUS
<1>7. PICK map : map = Noted(launch.tasks, row.id, n + 1)
  OBVIOUS
<1>8. PICK next : next = [launch EXCEPT !.tasks = map]
  OBVIOUS
<1>9. projects' = [projects EXCEPT ![Here].tasks = Append(@, made)] /\ Answers(next)
  BY <1>3, <1>4, <1>5, <1>6, <1>7, <1>8 DEF CreateTask
<1>10. /\ DOMAIN next = {"at", "sent", "tasks", "milestones"} /\ next.sent = launch.sent
       /\ next.at = "rows" /\ next.tasks = map /\ next.milestones = launch.milestones
  BY <1>1, <1>2, <1>8 DEF WizardType
<1>11. /\ Maps(launch.milestones, launch.sent.milestones, Len(launch.sent.milestones))
       /\ Maps(launch.tasks, TaskNumbers(launch.sent), n)
       /\ \A k \in 1 .. n : TaskFollows(built[k], k, launch.sent)
       /\ Project.budget = TRUE
  BY <1>1, <1>2, <1>3, <1>4 DEF Follows
<1>12. made \in BuiltTasks /\ TaskFollows(made, n + 1, launch.sent)
  BY <1>1, <1>2, <1>3, <1>4, <1>5, <1>6, <1>11, NextTask
<1>13. PICK tasks : tasks = Append(built, made)
  OBVIOUS
<1>14. /\ tasks \in Seq(BuiltTasks) /\ Len(tasks) = n + 1 /\ tasks[n + 1] = made
       /\ \A k \in 1 .. n : tasks[k] = built[k]
  BY <1>4, <1>12, <1>13
<1>15. PICK p : p = [Project EXCEPT !.tasks = tasks]
  OBVIOUS
<1>16. p \in BuiltProjects /\ p.budget = TRUE /\ p.tasks = tasks
       /\ p.milestones = Len(launch.sent.milestones)
  BY <1>1, <1>2, <1>11, <1>14, <1>15 DEF BuiltProjects
<1>17. projects' = [projects EXCEPT ![Len(projects)] = p]
  BY <1>3, <1>9, <1>13, <1>15 DEF Here, Project
<1>18. projects' \in Seq(BuiltProjects) /\ Len(projects') > 0 /\ projects'[Len(projects')] = p
  BY <1>2, <1>16, <1>17, ProjectChanges DEF Here
<1>19. Maps(map, TaskNumbers(launch.sent), n + 1)
  <2>1. PICK s \in Seq(Nat \ {0}) : s = TaskNumbers(launch.sent)
    BY <1>2, TaskNumbersAre
  <2>2. Len(s) = Len(launch.sent.tasks) /\ Len(s) \in Nat
        /\ \A k \in 1 .. Len(s) : s[k] = launch.sent.tasks[k].id
    BY <1>2, <2>1, TaskNumbersAre
  <2>5. n < Len(s)
    BY <1>1, <1>3, <1>4, <2>2
  <2>6. n + 1 \in 1 .. Len(s)
    BY <2>2, <2>5
  <2>3. n < Len(s) /\ s[n + 1] = row.id
    BY <1>5, <2>2, <2>5, <2>6
  <2>4. Maps(Noted(launch.tasks, s[n + 1], n + 1), s, n + 1)
    BY <1>11, <2>1, <2>3, MapsFurther
  <2> QED BY <1>7, <2>1, <2>3, <2>4
<1>20. \A k \in 1 .. n + 1 : TaskFollows(tasks[k], k, launch.sent)
  <2>1. \A k \in 1 .. n + 1 : k \in 1 .. n \/ k = n + 1
    OBVIOUS
  <2> QED BY <1>11, <1>12, <1>14, <2>1
<1>21. Follows(next, p)
  BY <1>10, <1>11, <1>14, <1>16, <1>19, <1>20 DEF Follows
<1> QED BY <1>9, <1>10, <1>18, <1>21, LaunchMoves

LEMMA AllocateStep == ASSUME WizardInv, AllocateCrew PROVE WizardInv'
<1>1. PICK n \in Unallocated :
        projects' = [projects EXCEPT ![Here].tasks[launch.tasks[n]].crew = {launch.sent.assigned[n]}]
  BY DEF AllocateCrew
<1>2. launch.at = "rows" /\ Answers(launch)
  BY DEF AllocateCrew, RowsDone, MilestonesDone
<1>3. /\ WizardType /\ Here > 0 /\ Project \in BuiltProjects
      /\ Follows(launch, Project) /\ IsDraft(launch.sent)
  BY <1>2, UnderWay
<1>4. PICK built \in Seq(BuiltTasks) : built = Project.tasks
  BY <1>3 DEF BuiltProjects
<1>5. PICK e : e = launch.sent.assigned[n]
  OBVIOUS
<1>6. e \in Crew /\ n \in DOMAIN launch.sent.assigned /\ n \in DOMAIN launch.tasks
  <2>1. n \in DOMAIN launch.sent.assigned /\ n \in DOMAIN launch.tasks /\ e # Nobody
    BY <1>1, <1>5 DEF Unallocated
  <2>2. \A m \in DOMAIN launch.sent.assigned : launch.sent.assigned[m] \in Crew \cup {Nobody}
    BY <1>3 DEF IsDraft
  <2> QED BY <1>5, <2>1, <2>2
<1>7. PICK k : k = launch.tasks[n]
  OBVIOUS
<1>8. k \in 1 .. Len(built) /\ launch.sent.tasks[k].id = n
  <2>1. Maps(launch.tasks, TaskNumbers(launch.sent), Len(built))
    BY <1>3, <1>4 DEF Follows
  <2>2. k \in 1 .. Len(built) /\ Len(built) <= Len(TaskNumbers(launch.sent))
        /\ TaskNumbers(launch.sent)[k] = n
    BY <1>6, <1>7, <2>1 DEF Maps
  <2>3. /\ Len(TaskNumbers(launch.sent)) = Len(launch.sent.tasks) /\ Len(launch.sent.tasks) \in Nat
        /\ \A j \in 1 .. Len(launch.sent.tasks) :
             TaskNumbers(launch.sent)[j] = launch.sent.tasks[j].id
    BY <1>3, TaskNumbersAre
  <2>4. k \in 1 .. Len(launch.sent.tasks)
    BY <2>2, <2>3
  <2> QED BY <2>2, <2>3, <2>4
<1>9. PICK made : made = [built[k] EXCEPT !.crew = {e}]
  OBVIOUS
<1>10. /\ made \in BuiltTasks /\ made.after = built[k].after /\ made.milestone = built[k].milestone
       /\ made.crew = {e}
  <2>1. built[k] \in BuiltTasks
    BY <1>8
  <2> QED BY <1>6, <1>9, <2>1 DEF BuiltTasks
<1>11. PICK tasks : tasks = [built EXCEPT ![k] = made]
  OBVIOUS
<1>12. /\ tasks \in Seq(BuiltTasks) /\ Len(tasks) = Len(built) /\ tasks[k] = made
       /\ \A j \in 1 .. Len(built) : j # k => tasks[j] = built[j]
  BY <1>8, <1>10, <1>11
<1>13. PICK p : p = [Project EXCEPT !.tasks = tasks]
  OBVIOUS
<1>14. p \in BuiltProjects /\ p.budget = Project.budget /\ p.tasks = tasks
       /\ p.milestones = Project.milestones
  BY <1>3, <1>12, <1>13 DEF BuiltProjects
<1>15. projects' = [projects EXCEPT ![Len(projects)] = p]
  BY <1>1, <1>4, <1>5, <1>7, <1>9, <1>11, <1>13 DEF Here, Project
<1>16. projects' \in Seq(BuiltProjects) /\ Len(projects') > 0 /\ projects'[Len(projects')] = p
  BY <1>3, <1>14, <1>15, ProjectChanges DEF Here
<1>17. \A j \in 1 .. Len(built) : TaskFollows(tasks[j], j, launch.sent)
  <2>1. \A j \in 1 .. Len(built) : TaskFollows(built[j], j, launch.sent)
    BY <1>3, <1>4 DEF Follows
  <2>2. TaskFollows(tasks[k], k, launch.sent)
    <3>1. TaskFollows(built[k], k, launch.sent)
      BY <1>8, <2>1
    <3> HIDE DEF Orderly
    <3> QED BY <1>5, <1>6, <1>8, <1>10, <1>12, <3>1 DEF TaskFollows
  <2> QED BY <1>12, <2>1, <2>2
<1>18. Follows(launch, p)
  BY <1>2, <1>3, <1>4, <1>12, <1>14, <1>17 DEF Follows
<1> QED BY <1>2, <1>3, <1>16, <1>18, LaunchMoves DEF WizardType

LEMMA LaunchEndsStep == ASSUME WizardInv, LaunchEnds PROVE WizardInv'
<1>1. /\ launch.at = "rows" /\ Unallocated = {} /\ launch' = [launch EXCEPT !.at = "done"]
      /\ Project.milestones = Len(launch.sent.milestones)
      /\ Len(Project.tasks) = Len(launch.sent.tasks) /\ UNCHANGED <<draft, projects>>
  BY DEF LaunchEnds, RowsDone, MilestonesDone
<1>2. WizardType /\ Here > 0 /\ Follows(launch, Project)
  BY <1>1, UnderWay
<1>3. /\ launch'.at = "done" /\ launch'.sent = launch.sent /\ launch'.tasks = launch.tasks
      /\ launch'.milestones = launch.milestones
      /\ DOMAIN launch' = {"at", "sent", "tasks", "milestones"}
  BY <1>1, <1>2 DEF WizardType
<1>4. WizardType'
  BY <1>1, <1>2, <1>3 DEF WizardType
<1>5. Project' = Project /\ Here' = Here /\ Unallocated' = Unallocated
  BY <1>1, <1>3 DEF Project, Here, Unallocated
<1>6. Follows(launch', Project')
  BY <1>1, <1>2, <1>3, <1>5 DEF Follows
<1>7. LaunchInv'
  BY <1>1, <1>2, <1>3, <1>5, <1>6 DEF LaunchInv
<1> QED BY <1>4, <1>7 DEF WizardInv

LEMMA LaunchStarts == ASSUME WizardInv, Launch PROVE WizardInv'
<1>1. launch' = [NoLaunch EXCEPT !.at = "project", !.sent = draft] /\ UNCHANGED <<draft, projects>>
  BY DEF Launch
<1>2. /\ launch'.at = "project" /\ launch'.sent = draft
      /\ DOMAIN launch'.tasks = {} /\ DOMAIN launch'.milestones = {}
      /\ DOMAIN launch' = {"at", "sent", "tasks", "milestones"}
  BY <1>1 DEF NoLaunch
<1>3. WizardType'
  BY <1>1, <1>2 DEF WizardInv, WizardType
<1>4. LaunchInv'
  BY <1>2 DEF LaunchInv
<1> QED BY <1>3, <1>4 DEF WizardInv

LEMMA LaunchFailsStep == ASSUME WizardInv, LaunchFails PROVE WizardInv'
<1>1. launch' = [launch EXCEPT !.at = "failed"] /\ UNCHANGED <<draft, projects>>
  BY DEF LaunchFails
<1>2. launch'.at = "failed" /\ launch'.sent = launch.sent
      /\ DOMAIN launch' = {"at", "sent", "tasks", "milestones"}
  BY <1>1 DEF WizardInv, WizardType
<1>3. WizardType'
  BY <1>1, <1>2 DEF WizardInv, WizardType
<1>4. LaunchInv'
  BY <1>2 DEF LaunchInv
<1> QED BY <1>3, <1>4 DEF WizardInv

LEMMA WizardStep == WizardInv /\ [WizardNext]_wizardVars => WizardInv'
<1> SUFFICES ASSUME WizardInv, [WizardNext]_wizardVars PROVE WizardInv'
  OBVIOUS
<1>1. IsDraft(draft)
  BY DEF WizardInv, WizardType
<1>2. ASSUME UNCHANGED <<draft, launch, projects>> PROVE WizardInv'
  <2>1. IsDraft(draft')
    BY <1>1, <1>2
  <2> QED BY <1>2, <2>1, DraftChanges
<1>3. CASE LoadRoster \/ RosterAnswers \/ FillProject \/ NextStep \/ Back \/ LeaveWizard
           \/ UNCHANGED wizardVars
  BY <1>2, <1>3 DEF LoadRoster, RosterAnswers, FillProject, NextStep, Back, LeaveWizard, wizardVars
<1>4. CASE AddMilestone \/ AddTask \/ RemoveRow \/ Assign
  BY <1>4, AddMilestoneStep, AddTaskStep, RemoveRowStep, AssignStep
<1>5. CASE Launch \/ LaunchStep \/ LaunchFails
  BY <1>5, LaunchStarts, LaunchFailsStep, CreateProjectStep, SetBudgetStep, CreateMilestoneStep,
     CreateTaskStep, AllocateStep, LaunchEndsStep DEF LaunchStep
<1> QED BY <1>3, <1>4, <1>5 DEF WizardNext

-----------------------------------------------------------------------------
LEMMA DoneIsTheDraft == WizardInv => LaunchIsTheDraft
<1> SUFFICES ASSUME WizardInv, launch.at = "done" PROVE LaunchIsTheDraft
  BY DEF LaunchIsTheDraft
<1>1. /\ Follows(launch, Project) /\ Project.milestones = Len(launch.sent.milestones)
      /\ Len(Project.tasks) = Len(launch.sent.tasks) /\ Unallocated = {} /\ Here > 0
  BY DEF WizardInv, LaunchInv
<1>2. WizardType /\ IsDraft(launch.sent)
  BY DEF WizardInv, WizardType
<1>3. Project \in BuiltProjects
  <2>1. PICK s \in Seq(BuiltProjects) : s = projects
    BY <1>2 DEF WizardType
  <2>2. Len(s) \in 1 .. Len(s)
    BY <1>1, <2>1 DEF Here
  <2> QED BY <2>1, <2>2 DEF Here, Project
<1>4. PICK built \in Seq(BuiltTasks) : built = Project.tasks
  BY <1>3 DEF BuiltProjects
<1>5. PICK d : d = launch.sent
  OBVIOUS
<1>6. PICK n \in Nat : n = Len(built) /\ DOMAIN built = 1 .. n /\ n = Len(d.tasks)
  BY <1>1, <1>4, <1>5
<1>7. ASSUME NEW k \in 1 .. n PROVE TaskFollows(built[k], k, d)
  BY <1>1, <1>4, <1>5, <1>6 DEF Follows
<1>8. ASSUME NEW k \in 1 .. n, Orderly(d)
      PROVE  built[k].crew = {e \in Crew : d.tasks[k].id \in DOMAIN d.assigned
                                           /\ d.assigned[d.tasks[k].id] = e}
  <2>1. built[k].crew \subseteq {e \in Crew : d.tasks[k].id \in DOMAIN d.assigned
                                              /\ d.assigned[d.tasks[k].id] = e}
    BY <1>7, <1>8 DEF TaskFollows
  <2>2. ASSUME NEW e \in Crew, d.tasks[k].id \in DOMAIN d.assigned, d.assigned[d.tasks[k].id] = e
        PROVE  e \in built[k].crew
    <3>1. PICK m : m = d.tasks[k].id
      OBVIOUS
    <3>2. Maps(launch.tasks, TaskNumbers(d), n)
      BY <1>1, <1>4, <1>5, <1>6 DEF Follows
    <3>3. \A j \in 1 .. n : TaskNumbers(d)[j] = d.tasks[j].id
      BY <1>2, <1>5, <1>6, TaskNumbersAre
    <3>4. m \in DOMAIN launch.tasks /\ launch.tasks[m] \in 1 .. n
          /\ d.tasks[launch.tasks[m]].id = m
      BY <3>1, <3>2, <3>3 DEF Maps
    <3>5. DOMAIN d.tasks = 1 .. n
      BY <1>2, <1>5, <1>6, DraftParts
    <3>6. launch.tasks[m] = k
      BY <1>8, <3>1, <3>4, <3>5 DEF Orderly
    <3>7. e # Nobody
      BY WizardAssumption
    <3>8. m \notin Unallocated
      BY <1>1
    <3>9. built[k].crew # {}
      BY <1>4, <1>5, <2>2, <3>1, <3>4, <3>6, <3>7, <3>8 DEF Unallocated
    <3> QED BY <2>1, <2>2, <3>9
  <2> QED BY <2>1, <2>2
<1>9. ASSUME NEW k \in 1 .. n
      PROVE  /\ built[k].after \subseteq 1 .. k - 1
             /\ Orderly(d) =>
                  /\ built[k].after = {j \in 1 .. n : d.tasks[j].id = d.tasks[k].after}
                  /\ built[k].milestone =
                       {j \in 1 .. Len(d.milestones) : d.milestones[j] = d.tasks[k].milestone}
  BY <1>6, <1>7 DEF TaskFollows
<1>10. Project.budget = TRUE
  BY <1>1 DEF Follows
<1> HIDE DEF Orderly, Project
<1> QED BY <1>1, <1>4, <1>5, <1>6, <1>8, <1>9, <1>10 DEF LaunchIsTheDraft

\* The uppermost task of a circle would depend on one above it.
LEMMA OrderlyHasNoCycle == WizardInv => OrderlyIsNotWarned
<1> SUFFICES ASSUME WizardInv, Orderly(draft), HasCycle(draft.tasks) PROVE FALSE
  BY DEF OrderlyIsNotWarned
<1>1. IsDraft(draft)
  BY DEF WizardInv, WizardType
<1>2. PICK rows \in Seq(DraftTasks) : rows = draft.tasks
  BY <1>1, DraftParts
<1>3. PICK S \in (SUBSET Numbers(rows)) \ {{}} : \A n \in S : RowOf(rows, n).after \in S
  BY <1>2 DEF HasCycle
<1>4. PICK T : T = {k \in DOMAIN rows : rows[k].id \in S}
  OBVIOUS
<1>5. T \in SUBSET Nat /\ T # {}
  <2>1. DOMAIN rows \subseteq Nat
    OBVIOUS
  <2>2. \E n \in S : n \in Numbers(rows)
    BY <1>3
  <2> QED BY <1>4, <2>1, <2>2 DEF Numbers
<1>6. PICK k \in T : \A j \in T : k <= j
  BY <1>5, LeastOf
<1>7. /\ \A i, j \in DOMAIN rows : rows[i].id = rows[j].id => i = j
      /\ rows[k].after \in {0} \cup {rows[j].id : j \in 1 .. k - 1}
  BY <1>2, <1>4, <1>6 DEF Orderly
<1>8. k \in DOMAIN rows /\ rows[k].id \in S
  BY <1>4, <1>6
<1>9. RowOf(rows, rows[k].id) = rows[k]
  <2>1. PICK i : i = CHOOSE x \in DOMAIN rows :
                       rows[x].id = rows[k].id /\ \A j \in DOMAIN rows : rows[j].id = rows[k].id => j <= x
    OBVIOUS
  <2>2. \E x \in DOMAIN rows :
          rows[x].id = rows[k].id /\ \A j \in DOMAIN rows : rows[j].id = rows[k].id => j <= x
    BY <1>7, <1>8
  <2>3. i = k
    BY <1>7, <1>8, <2>1, <2>2
  <2> QED BY <2>1, <2>3 DEF RowOf
<1>10. rows[k].after \in S
  BY <1>3, <1>8, <1>9
<1>11. rows[k].after # 0
  <2>1. rows[k].after \in Numbers(rows)
    BY <1>3, <1>10
  <2> QED BY <2>1, NumbersAre
<1>12. PICK j \in 1 .. k - 1 : rows[j].id = rows[k].after
  BY <1>7, <1>11
<1>13. j \in DOMAIN rows /\ j < k
  BY <1>8, <1>12
<1> QED BY <1>4, <1>5, <1>6, <1>10, <1>12, <1>13

\* ProjectCreationFlow, for any employees, drafts, launches and failing calls: a
\* launch that ends has built the draft it was started with, whatever is edited
\* meanwhile, and a draft whose rows keep their order is never said to be circular.
THEOREM WizardAlwaysHolds == WizardSpec => []WizardHolds
<1>1. WizardInv => WizardHolds
  BY DoneIsTheDraft, OrderlyHasNoCycle DEF WizardHolds
<1> QED BY <1>1, WizardStarts, WizardStep, PTL DEF WizardSpec

(***************************************************************************)
(* The settings page, for any loads, sections and changes.  What a save    *)
(* sends is no invariant of the save alone: a save can only start once an  *)
(* answer has filled the form (UntilItArrives), because whatever clears    *)
(* the flag that disables the button came after such an answer.            *)
(***************************************************************************)

RealmType ==
  /\ realm \in Seq([Sections -> Nat]) /\ Len(realm) > 0
  /\ form \in [Sections -> Nat] /\ DOMAIN load = Loads

\* Off the sections in T, c is a configuration that the realm had.
OfRealm(c, T) == \E i \in DOMAIN realm : \A s \in Sections \ T : c[s] = realm[i][s]

Arrived == \E n \in Loads : load[n].at \in {"lists", "rest", "over"}

AnswersAreOfRealm ==
  \A n \in Loads : load[n].at = "reply" =>
    load[n].config \in [Sections -> Nat] /\ OfRealm(load[n].config, {})

UntilItArrives ==
  ~failed /\ ~Arrived => /\ isAdmin => loading
                         /\ ~listed /\ ~toggle /\ save = NoSave

FormIsOfRealm == ~failed /\ Arrived => OfRealm(form, touched)

SaveIsOfRealm ==
  save.at = "sent" =>
    save.config \in [Sections -> Nat] /\ (~failed => OfRealm(save.config, save.touched))

SettingsInv ==
  RealmType /\ AnswersAreOfRealm /\ UntilItArrives /\ FormIsOfRealm /\ SaveIsOfRealm

\* A realm that has taken another configuration had its earlier ones.
LEMMA RealmGrows ==
  ASSUME RealmType, NEW c \in [Sections -> Nat], realm' = Append(realm, c)
  PROVE  /\ realm' \in Seq([Sections -> Nat]) /\ Len(realm') > 0
         /\ \A d, T : OfRealm(d, T) => OfRealm(d, T)'
<1>1. realm \in Seq([Sections -> Nat]) /\ Len(realm) \in Nat
  BY DEF RealmType
<1>2. realm' \in Seq([Sections -> Nat]) /\ Len(realm') = Len(realm) + 1
  BY <1>1
<1>3. DOMAIN realm = 1 .. Len(realm) /\ DOMAIN realm' = 1 .. (Len(realm) + 1)
  BY <1>1, <1>2
<1>4. \A i \in DOMAIN realm : i \in DOMAIN realm' /\ realm'[i] = realm[i]
  BY <1>1, <1>3
<1> QED BY <1>1, <1>2, <1>4 DEF OfRealm

LEMMA RealmStays ==
  ASSUME realm' = realm
  PROVE  \A d, T : OfRealm(d, T) <=> OfRealm(d, T)'
  BY DEF OfRealm

LEMMA CurrentIsOfRealm ==
  ASSUME RealmType PROVE Current \in [Sections -> Nat] /\ OfRealm(Current, {})
<1>1. Len(realm) \in DOMAIN realm /\ realm[Len(realm)] \in [Sections -> Nat]
  BY DEF RealmType
<1> QED BY <1>1 DEF Current, OfRealm

HasAnswer(l) == l.at \in {"lists", "rest", "over"}

FromRealm(l) == l.at = "reply" => l.config \in [Sections -> Nat] /\ OfRealm(l.config, {})

LEMMA OneLoadMoves ==
  ASSUME RealmType, AnswersAreOfRealm, NEW n \in Loads, NEW l, LoadGoes(n, l),
         realm' = realm, FromRealm(l)
  PROVE  /\ load'[n] = l /\ DOMAIN load' = Loads /\ AnswersAreOfRealm'
         /\ HasAnswer(l) => Arrived'
         /\ (HasAnswer(l) <=> HasAnswer(load[n])) => (Arrived' <=> Arrived)
<1>1. load'[n] = l /\ DOMAIN load' = Loads /\ \A k \in Loads : k # n => load'[k] = load[k]
  BY DEF LoadGoes, RealmType
<1>2. AnswersAreOfRealm'
  BY <1>1, RealmStays DEF AnswersAreOfRealm, FromRealm
<1> QED BY <1>1, <1>2 DEF Arrived, HasAnswer

\* A step of a load that is no answer to show nor a failure.
LEMMA LoadGoesOn ==
  ASSUME SettingsInv, NEW n \in Loads, NEW l, LoadGoes(n, l),
         UNCHANGED <<realm, form, touched, save, failed>>, FromRealm(l),
         HasAnswer(l) <=> HasAnswer(load[n]),
         Arrived \/ ((isAdmin' => loading') /\ listed' = listed /\ toggle' = toggle)
         \/ UNCHANGED <<isAdmin, loading, listed, toggle>>
  PROVE  SettingsInv'
<1>1. DOMAIN load' = Loads /\ AnswersAreOfRealm' /\ (Arrived' <=> Arrived)
  BY OneLoadMoves DEF SettingsInv
<1>2. RealmType'
  BY <1>1 DEF SettingsInv, RealmType
<1>3. UntilItArrives'
  BY <1>1 DEF SettingsInv, UntilItArrives
<1>4. FormIsOfRealm' /\ SaveIsOfRealm'
  BY <1>1, RealmStays DEF SettingsInv, FormIsOfRealm, SaveIsOfRealm
<1> QED BY <1>1, <1>2, <1>3, <1>4 DEF SettingsInv

LEMMA LoadHasFailed ==
  ASSUME SettingsInv, NEW n \in Loads, NEW l, LoadGoes(n, l),
         UNCHANGED <<realm, form, touched, save>>, FromRealm(l), failed'
  PROVE  SettingsInv'
<1>1. DOMAIN load' = Loads /\ AnswersAreOfRealm'
  BY OneLoadMoves DEF SettingsInv
<1>2. RealmType'
  BY <1>1 DEF SettingsInv, RealmType
<1> QED BY <1>1, <1>2, RealmStays
        DEF SettingsInv, UntilItArrives, FormIsOfRealm, SaveIsOfRealm

LEMMA AnswerFillsForm ==
  ASSUME SettingsInv, NEW n \in Loads, ConfigArrives(n) PROVE SettingsInv'
<1>1. PICK l : l = [at |-> "lists"]
  OBVIOUS
<1>2. l.at = "lists" /\ LoadGoes(n, l) /\ UNCHANGED <<realm, save, failed>>
      /\ form' = load[n].config /\ touched' = {} /\ load[n].at = "reply"
  BY <1>1 DEF ConfigArrives
<1>3. HasAnswer(l) /\ FromRealm(l)
  BY <1>2 DEF HasAnswer, FromRealm
<1>4. DOMAIN load' = Loads /\ AnswersAreOfRealm' /\ Arrived'
  BY <1>2, <1>3, OneLoadMoves DEF SettingsInv
<1>5. form' \in [Sections -> Nat] /\ OfRealm(form', {})
  BY <1>2 DEF SettingsInv, AnswersAreOfRealm
<1>6. RealmType'
  BY <1>2, <1>4, <1>5 DEF SettingsInv, RealmType
<1>7. FormIsOfRealm' /\ SaveIsOfRealm'
  BY <1>2, <1>5, RealmStays DEF SettingsInv, FormIsOfRealm, SaveIsOfRealm
<1>8. UntilItArrives'
  BY <1>4 DEF UntilItArrives
<1> QED BY <1>4, <1>6, <1>7, <1>8 DEF SettingsInv

LEMMA LoadsKeep ==
  ASSUME SettingsInv, NEW n \in Loads, LoadStarts(n) \/ LoadRuns(n) PROVE SettingsInv'
<1>1. CASE LoadStarts(n)
  <2>1. PICK l : l = [at |-> "me"]
    OBVIOUS
  <2>2. l.at = "me" /\ LoadGoes(n, l) /\ load[n].at = "none"
    BY <1>1, <2>1 DEF LoadStarts, NoLoad
  <2>3. FromRealm(l) /\ (HasAnswer(l) <=> HasAnswer(load[n]))
    BY <2>2 DEF FromRealm, HasAnswer
  <2> QED BY <1>1, <2>2, <2>3, LoadGoesOn DEF LoadStarts, toggleVars
<1>2. CASE MeAnswers(n)
  <2>1. PICK l : l = [at |-> "ask"]
    OBVIOUS
  <2>2. l.at = "ask" /\ LoadGoes(n, l) /\ load[n].at = "me"
    BY <1>2, <2>1 DEF MeAnswers
  <2>3. FromRealm(l) /\ (HasAnswer(l) <=> HasAnswer(load[n]))
    BY <2>2 DEF FromRealm, HasAnswer
  <2> QED BY <1>2, <2>2, <2>3, LoadGoesOn DEF MeAnswers, toggleVars
<1>3. CASE MeFails(n)
  <2>1. PICK l : l = [at |-> "rest"]
    OBVIOUS
  <2>2. l.at = "rest" /\ LoadGoes(n, l)
    BY <1>3, <2>1 DEF MeFails
  <2>3. FromRealm(l)
    BY <2>2 DEF FromRealm
  <2> QED BY <1>3, <2>2, <2>3, LoadHasFailed DEF MeFails
<1>4. CASE ConfigRead(n)
  <2>1. PICK l : l = [at |-> "reply", config |-> Current]
    OBVIOUS
  <2>2. l.at = "reply" /\ l.config = Current /\ LoadGoes(n, l) /\ load[n].at = "ask"
    BY <1>4, <2>1 DEF ConfigRead
  <2>3. FromRealm(l) /\ (HasAnswer(l) <=> HasAnswer(load[n]))
    BY <2>2, CurrentIsOfRealm DEF FromRealm, HasAnswer, SettingsInv
  <2> QED BY <1>4, <2>2, <2>3, LoadGoesOn DEF ConfigRead, toggleVars
<1>5. CASE ConfigArrives(n)
  BY <1>5, AnswerFillsForm
<1>6. CASE ConfigFails(n)
  <2>1. PICK l : l = [at |-> "lists"]
    OBVIOUS
  <2>2. l.at = "lists" /\ LoadGoes(n, l)
    BY <1>6, <2>1 DEF ConfigFails
  <2>3. FromRealm(l)
    BY <2>2 DEF FromRealm
  <2> QED BY <1>6, <2>2, <2>3, LoadHasFailed DEF ConfigFails
<1>7. CASE ListsArrive(n)
  <2>1. PICK l : l = [at |-> "rest"]
    OBVIOUS
  <2>2. l.at = "rest" /\ LoadGoes(n, l) /\ load[n].at = "lists"
    BY <1>7, <2>1 DEF ListsArrive
  <2>3. FromRealm(l) /\ HasAnswer(l) /\ HasAnswer(load[n]) /\ Arrived
    BY <2>2 DEF FromRealm, HasAnswer, Arrived
  <2> QED BY <1>7, <2>2, <2>3, LoadGoesOn DEF ListsArrive
<1>8. CASE LoadEnds(n)
  <2>1. PICK l : l = LoadOver
    OBVIOUS
  <2>2. l.at = "over" /\ LoadGoes(n, l) /\ load[n].at = "rest"
    BY <1>8, <2>1 DEF LoadEnds, LoadOver
  <2>3. FromRealm(l) /\ HasAnswer(l) /\ HasAnswer(load[n]) /\ Arrived
    BY <2>2 DEF FromRealm, HasAnswer, Arrived
  <2> QED BY <1>8, <2>2, <2>3, LoadGoesOn DEF LoadEnds
<1> QED BY <1>1, <1>2, <1>3, <1>4, <1>5, <1>6, <1>7, <1>8 DEF LoadRuns

\* Steps that leave the loads alone.
LEMMA LoadsRest ==
  ASSUME load' = load, AnswersAreOfRealm, \A d, T : OfRealm(d, T) => OfRealm(d, T)'
  PROVE  AnswersAreOfRealm' /\ (Arrived' <=> Arrived)
  BY DEF AnswersAreOfRealm, Arrived

LEMMA EditKeeps ==
  ASSUME SettingsInv, NEW s \in Sections, Edit(s, 2) PROVE SettingsInv'
<1>1. /\ UNCHANGED <<realm, isAdmin, loading, listed, load, save, toggle, failed>>
      /\ form' = [form EXCEPT ![s] = 2] /\ touched' = touched \cup {s}
  BY DEF Edit, toggleVars
<1>2. AnswersAreOfRealm' /\ (Arrived' <=> Arrived)
  BY <1>1, LoadsRest, RealmStays DEF SettingsInv
<1>3. RealmType'
  BY <1>1 DEF SettingsInv, RealmType
<1>4. ASSUME NEW i \in DOMAIN realm, \A z \in Sections \ touched : form[z] = realm[i][z]
      PROVE  OfRealm(form, touched)'
  <2>1. \A z \in Sections \ touched' : form'[z] = realm'[i][z]
    BY <1>1, <1>4 DEF SettingsInv, RealmType
  <2>2. i \in DOMAIN realm'
    BY <1>1
  <2> QED BY <2>1, <2>2 DEF OfRealm
<1>5. FormIsOfRealm'
  BY <1>1, <1>2, <1>4 DEF SettingsInv, FormIsOfRealm, OfRealm
<1>6. SaveIsOfRealm' /\ UntilItArrives'
  BY <1>1, <1>2, RealmStays DEF SettingsInv, SaveIsOfRealm, UntilItArrives
<1> QED BY <1>2, <1>3, <1>5, <1>6 DEF SettingsInv

LEMMA ChangeKeeps ==
  ASSUME SettingsInv, NEW s \in Sections, RealmChanges(s, 3) PROVE SettingsInv'
<1>1. PICK c : c = [Current EXCEPT ![s] = 3]
  OBVIOUS
<1>2. c \in [Sections -> Nat] /\ realm' = Append(realm, c)
  BY <1>1, CurrentIsOfRealm DEF SettingsInv, RealmChanges
<1>3. UNCHANGED <<form, touched, isAdmin, loading, listed, load, save, toggle, failed>>
  BY DEF RealmChanges, toggleVars
<1>4. /\ realm' \in Seq([Sections -> Nat]) /\ Len(realm') > 0
      /\ \A d, T : OfRealm(d, T) => OfRealm(d, T)'
  BY <1>2, RealmGrows DEF SettingsInv
<1>5. AnswersAreOfRealm' /\ (Arrived' <=> Arrived)
  BY <1>3, <1>4, LoadsRest DEF SettingsInv
<1>6. RealmType'
  BY <1>3, <1>4 DEF SettingsInv, RealmType
<1>7. FormIsOfRealm' /\ SaveIsOfRealm' /\ UntilItArrives'
  BY <1>3, <1>4, <1>5 DEF SettingsInv, FormIsOfRealm, SaveIsOfRealm, UntilItArrives
<1> QED BY <1>5, <1>6, <1>7 DEF SettingsInv

\* The button was enabled: an answer has filled the form, or a load failed.
LEMMA SaveSends == ASSUME SettingsInv, SaveStarts PROVE SettingsInv'
<1>1. PICK sent : sent = [at |-> "sent", config |-> form, touched |-> touched]
  OBVIOUS
<1>2. sent.config = form /\ sent.touched = touched
  BY <1>1
<1>3. save' = sent /\ loading' = TRUE /\ isAdmin /\ ~loading
      /\ UNCHANGED <<realm, form, touched, isAdmin, listed, load, toggle, failed>>
  BY <1>1 DEF SaveStarts, CanSave, toggleVars
<1>4. failed \/ Arrived
  BY <1>3 DEF SettingsInv, UntilItArrives
<1>5. AnswersAreOfRealm' /\ (Arrived' <=> Arrived)
  BY <1>3, LoadsRest, RealmStays DEF SettingsInv
<1>6. RealmType' /\ FormIsOfRealm' /\ UntilItArrives'
  BY <1>3, <1>4, <1>5, RealmStays DEF SettingsInv, RealmType, FormIsOfRealm, UntilItArrives
<1>7. SaveIsOfRealm'
  BY <1>2, <1>3, <1>4, RealmStays DEF SettingsInv, RealmType, FormIsOfRealm, SaveIsOfRealm
<1> QED BY <1>5, <1>6, <1>7 DEF SettingsInv

LEMMA SaveGoesOn == ASSUME SettingsInv, SaveRuns PROVE SettingsInv'
<1>1. /\ UNCHANGED <<form, touched, isAdmin, listed, load, toggle, failed>>
      /\ save # NoSave /\ save'.at # "sent"
  BY DEF SaveRuns, SaveLands, SaveFails, SaveEnds, NoSave, toggleVars
<1>2. failed \/ Arrived
  BY <1>1 DEF SettingsInv, UntilItArrives
<1>3. /\ realm' \in Seq([Sections -> Nat]) /\ Len(realm') > 0
      /\ \A d, T : OfRealm(d, T) => OfRealm(d, T)'
  <2>1. CASE SaveLands
    <3>1. save.config \in [Sections -> Nat] /\ realm' = Append(realm, save.config)
      BY <2>1 DEF SaveLands, SettingsInv, SaveIsOfRealm
    <3> QED BY <3>1, RealmGrows DEF SettingsInv
  <2>2. CASE SaveFails \/ SaveEnds
    <3>1. realm' = realm
      BY <2>2 DEF SaveFails, SaveEnds
    <3> QED BY <3>1, RealmStays DEF SettingsInv, RealmType
  <2> QED BY <2>1, <2>2 DEF SaveRuns
<1>4. AnswersAreOfRealm' /\ (Arrived' <=> Arrived)
  BY <1>1, <1>3, LoadsRest DEF SettingsInv
<1>5. RealmType' /\ FormIsOfRealm' /\ UntilItArrives' /\ SaveIsOfRealm'
  BY <1>1, <1>2, <1>3, <1>4
     DEF SettingsInv, RealmType, FormIsOfRealm, UntilItArrives, SaveIsOfRealm
<1> QED BY <1>4, <1>5 DEF SettingsInv

\* The lists are only shown once an answer has come.
LEMMA TogglesKeep == ASSUME SettingsInv, ToggleStarts \/ ToggleEnds PROVE SettingsInv'
<1>1. UNCHANGED <<realm, form, touched, isAdmin, listed, load, save, failed>> /\ (listed \/ toggle)
  BY DEF ToggleStarts, ToggleEnds
<1>2. failed \/ Arrived
  BY <1>1 DEF SettingsInv, UntilItArrives
<1>3. AnswersAreOfRealm' /\ (Arrived' <=> Arrived)
  BY <1>1, LoadsRest, RealmStays DEF SettingsInv
<1>4. RealmType' /\ FormIsOfRealm' /\ UntilItArrives' /\ SaveIsOfRealm'
  BY <1>1, <1>2, <1>3, RealmStays
     DEF SettingsInv, RealmType, FormIsOfRealm, UntilItArrives, SaveIsOfRealm
<1> QED BY <1>3, <1>4 DEF SettingsInv

LEMMA SettingsStart == SettingsInit => SettingsInv
<1> SUFFICES ASSUME SettingsInit PROVE SettingsInv
  OBVIOUS
<1>1. PICK c : c = Stored
  OBVIOUS
<1>2. c \in [Sections -> Nat] /\ realm = <<c>>
  BY <1>1 DEF Stored, SettingsInit
<1>3. RealmType
  BY <1>2 DEF SettingsInit, RealmType, Defaults
<1>4. (\A n \in Loads : load[n].at = "none") /\ save.at = "none"
  BY DEF SettingsInit, NoLoad, NoSave
<1> QED BY <1>3, <1>4 DEF SettingsInit, SettingsInv, AnswersAreOfRealm, UntilItArrives,
                          FormIsOfRealm, SaveIsOfRealm, Arrived

LEMMA SettingsKeep == SettingsInv /\ [SettingsNext]_settingsVars => SettingsInv'
<1> SUFFICES ASSUME SettingsInv, [SettingsNext]_settingsVars PROVE SettingsInv'
  OBVIOUS
<1>1. CASE UNCHANGED settingsVars
  <2>1. UNCHANGED <<realm, form, touched, isAdmin, loading, listed, load, save, toggle, failed>>
    BY <1>1 DEF settingsVars
  <2>2. AnswersAreOfRealm' /\ (Arrived' <=> Arrived)
    BY <2>1, LoadsRest, RealmStays DEF SettingsInv
  <2> QED BY <2>1, <2>2, RealmStays
          DEF SettingsInv, RealmType, FormIsOfRealm, UntilItArrives, SaveIsOfRealm
<1> QED BY <1>1, LoadsKeep, EditKeeps, ChangeKeeps, SaveSends, SaveGoesOn, TogglesKeep
        DEF SettingsNext

\* settings/page.tsx: for any number of overlapping loads, saves and other requests
\* that clear `loading`, a page whose loads did not fail never sends the form's
\* defaults, nor a mixture of two answers, but a configuration that the realm had
\* together with what its administrator edited.
THEOREM SaveIsAlwaysOfRealm == SettingsSpec => []SaveIsWhatWasLoaded
<1>1. SettingsInv => SaveIsWhatWasLoaded
  BY DEF SettingsInv, SaveIsOfRealm, OfRealm, SaveIsWhatWasLoaded
<1> QED BY <1>1, SettingsStart, SettingsKeep, PTL DEF SettingsSpec

-----------------------------------------------------------------------------
(* The pages of the dashboard, for any pages of the kind Desk assumes, any   *)
(* rows, clicks and faults.                                                  *)

\* The handler of a call on page p, and p's dialogs
Handler(p, c) == CallNamed[p.name][c.of]
DialogsOf(p) == {d.name : d \in p.dialogs}
IsKept(p, x) == Named(p.dialogs)[x].opens = "kept"

HandlerNames == (UNION {{h.name : h \in p.calls} : p \in DeskPages}) \cup {Announced.name}
FlagNames == UNION {{h.flag : h \in p.calls} : p \in DeskPages}
Places == Rows \cup {NoRow}
PageKeys == Keys \cup {1}

Act ==
  [n : Nat, of : HandlerNames, row : Places, key : PageKeys,
   at : {"sent", "first", "second", "loading", "worked"}, entry : Nat]
LoadSent == [n : Nat, key : PageKeys, read : BOOLEAN, got : SUBSET Act, waiting : Nat]
OpenDesk(p) ==
  [page : {p.name}, key : PageKeys, dialog : DialogsOf(p) \cup {None}, row : Places,
   entries : [DialogsOf(p) -> Nat], held : SUBSET (FlagNames \X Places), veiled : BOOLEAN, since : Nat]

DeskType(p) ==
  /\ desk \in OpenDesk(p)
  /\ shown \in [key : PageKeys \cup {0}, rows : SUBSET Act, notes : SUBSET Act]
  /\ loads \subseteq LoadSent /\ calls \subseteq Act /\ done \subseteq Act
  /\ ticks \in [clicks : Nat, faults : Nat, sent : Nat, last : Nat]

IsOfPage(p, c) == c.of \in {h.name : h \in p.calls \cup {Announced}}

CallIsGood(p, c) ==
  /\ IsOfPage(p, c) /\ c.of # Announced.name
  /\ 0 < c.n /\ c.n <= ticks.clicks /\ c.entry <= ticks.clicks
  /\ c.entry # NoEntry => Handler(p, c).dialog # None
  /\ c.at \in {"sent", "second", "loading"}
  /\ c.at = "second" => Handler(p, c).first
  /\ c.at = "loading" => Handler(p, c).then = "awaits"
CallsAreApart == \A c, d \in calls : c.n = d.n => c = d

EffectIsGood(p, e) ==
  /\ IsOfPage(p, e) /\ e.entry <= ticks.clicks
  /\ e.entry # NoEntry => e.of # Announced.name /\ Handler(p, e).dialog # None

LoadIsGood(l) ==
  /\ 0 < l.n /\ l.n <= ticks.sent /\ l.n # ticks.last /\ l.waiting <= ticks.clicks
  /\ \A c \in calls : l.waiting = c.n => c.at = "loading"
LoadsAreApart == \A l, k \in loads : l.n = k.n => l = k

EntryIsGood(e, clicks) == e <= clicks \/ e = Unsent

OneKey(p) ==
  ~p.keyed => desk.key = 1 /\ (\A l \in loads : l.key = 1) /\ \A c \in calls \cup done : c.key = 1

NumbersHold(p) ==
  /\ ticks.clicks <= MaxClicks /\ ticks.last <= ticks.sent
  /\ \A c \in calls : CallIsGood(p, c)
  /\ CallsAreApart
  /\ \A e \in done : EffectIsGood(p, e)
  /\ \A l \in loads : LoadIsGood(l)
  /\ LoadsAreApart
  /\ \A x \in DialogsOf(p) : EntryIsGood(desk.entries[x], ticks.clicks)
  /\ OneKey(p)

\* A flag that only its call releases
IsWide(p, f) == f # None /\ \A g \in p.calls : g.flag = f => g.wide
Alone(p, c) ==
  LET f == Handler(p, c).flag IN
  (f # None /\ ("crossed" \notin mishaps \/ IsWide(p, f))) =>
    /\ <<f, c.row>> \in desk.held
    /\ \A d \in calls : Handler(p, d).flag = f => d = c
FlagsHold(p) ==
  /\ \A c \in calls : Alone(p, c)
  /\ \A f \in desk.held : \E c \in calls : Handler(p, c).flag = f[1]

\* What a load would list, and the half of a call that it may list or not
ListedOn(p, k) == {e \in done : e.key = k /\ Handler(p, e).then # "notes" /\ ~Waits(e, Handler(p, e))}
HalfDone(e) == e.at = "first" /\ \E c \in calls : c.of = e.of /\ c.n = e.n /\ c.at = "second"
Tells(p, rows) ==
  /\ rows \subseteq ListedOn(p, desk.key)
  /\ \A e \in ListedOn(p, desk.key) : e \in rows \/ HalfDone(e)
IsLatest(l) == l.n > ticks.last /\ \A k \in loads : k.n <= l.n

ListHolds(p) ==
  mishaps \subseteq {"crossed"} =>
    /\ loads = {} => shown.key = desk.key /\ Tells(p, shown.rows)
    /\ \A l \in loads : IsLatest(l) => l.key = desk.key /\ (l.read => Tells(p, l.got))

\* Entries that a flag is to keep from being sent twice
Counted(p, c) == Locks(Handler(p, c)) /\ c.entry # NoEntry
SameEntry(c, a) == c.of = a.of /\ c.entry = a.entry
ClearsLate(p, h) == h.clears = "reload" \/ (h.closes = "reload" /\ ~IsKept(p, h.dialog))
BlankWhenClosed(p, d) ==
  \A x \in DialogsOf(p) : (~IsKept(p, x) /\ d.dialog # x) => d.entries[x] = NoEntry

EntriesHold(p) ==
  /\ BlankWhenClosed(p, desk)
  /\ mishaps \cap {"lost", "half"} = {} =>
       /\ \A c \in calls, a \in done : (Counted(p, c) /\ SameEntry(c, a)) =>
            c.at = "loading" \/ (c.at = "second" /\ a.at = "first")
       /\ \A a \in done : (Counted(p, a) /\ desk.entries[Handler(p, a).dialog] = a.entry) =>
            \E c \in calls : SameEntry(c, a)
       /\ \A c \in calls :
            (Counted(p, c) /\ c.at = "loading" /\ desk.entries[Handler(p, c).dialog] = c.entry) =>
              ClearsLate(p, Handler(p, c))
       /\ \A a, b \in done : (Counted(p, a) /\ SameEntry(a, b) /\ a.at = b.at) => a = b

\* What a dialog with its own flag holds was sent, if at all, since it was mounted,
\* and what two calls hold is not the same.
LocalsHold(p) ==
  /\ desk.since <= ticks.clicks
  /\ \A c, d \in calls : (Handler(p, c).local /\ SameEntry(c, d) /\ c.entry # NoEntry) => c = d
  /\ \A c \in calls :
       (Handler(p, c).local /\ c.entry # NoEntry /\ desk.entries[Handler(p, c).dialog] = c.entry)
         => c.n > desk.since

\* What every load that may still be shown lists
InLoads(a, n) == \A l \in loads : (l.n >= n /\ l.read) => a \in l.got
Known(p, a) ==
  \/ a \in shown.notes
  \/ Handler(p, a).then # "notes" /\ a \in shown.rows /\ InLoads(a, ticks.last + 1)
SameRow(c, a) == c.of = a.of /\ c.row = a.row
Awaited(a) ==
  \E c \in calls : /\ SameRow(c, a) /\ c.at = "loading"
                  /\ \A l \in loads : l.waiting = c.n => InLoads(a, l.n)
IsGuarded(p, c) == Guarded(Handler(p, c))
RowsHold(p) ==
  mishaps = {} =>
    /\ \A c \in calls, a \in done : (IsGuarded(p, c) /\ SameRow(c, a)) => c.at = "loading"
    /\ \A a \in done : IsGuarded(p, a) => Known(p, a) \/ Awaited(a)
    /\ \A a, b \in done : (IsGuarded(p, a) /\ SameRow(a, b)) => a = b

PageInv(p) ==
  /\ p \in DeskPages
  /\ DeskType(p) /\ NumbersHold(p) /\ FlagsHold(p) /\ ListHolds(p) /\ EntriesHold(p) /\ RowsHold(p)
  /\ LocalsHold(p)

DeskInv == DeskInit \/ \E p \in DeskPages : PageInv(p)

-----------------------------------------------------------------------------
\* The pages and their handlers by name
LEMMA NamedIs ==
  ASSUME NEW things, NamesDiffer(things), NEW t \in things
  PROVE  t.name \in DOMAIN Named(things) /\ Named(things)[t.name] = t
BY DEF Named, NamesDiffer

LEMMA ThePageIs ==
  ASSUME NEW p \in DeskPages
  PROVE  /\ p.name # NoPage /\ PageNamed[p.name] = p
         /\ CallNamed[p.name] = Named(p.calls \cup {Announced})
         /\ NamesDiffer(p.calls \cup {Announced}) /\ NamesDiffer(p.dialogs)
         /\ \A h \in p.calls : HandlerOfPage(h, p)
         /\ \A d \in p.dialogs : d.opens \in {"kept", "blank", "filled"} /\ d.name # None
         /\ None \notin DialogsOf(p) /\ p.keyed \in BOOLEAN /\ p.veils \in BOOLEAN
<1>1. p.name \in DOMAIN PageNamed /\ PageNamed[p.name] = p
  BY DeskAssumption, NamedIs DEF PageNamed
<1>2. CallNamed[p.name] = Named(p.calls \cup {Announced})
  BY <1>1 DEF CallNamed
<1>3. NamesDiffer(p.calls) /\ \A h \in p.calls : HandlerOfPage(h, p)
  BY DeskAssumption
<1>4. NamesDiffer(p.calls \cup {Announced})
  BY <1>3 DEF NamesDiffer, HandlerOfPage
<1>5. None \notin DialogsOf(p)
  BY DeskAssumption DEF DialogsOf
<1> QED BY <1>1, <1>2, <1>3, <1>4, <1>5, DeskAssumption

LEMMA HandlerIs ==
  ASSUME NEW p \in DeskPages, NEW h \in p.calls \cup {Announced}
  PROVE  CallNamed[p.name][h.name] = h
<1>1. PICK things : things = p.calls \cup {Announced}
  OBVIOUS
<1>2. NamesDiffer(things) /\ h \in things /\ CallNamed[p.name] = Named(things)
  BY <1>1, ThePageIs
<1> QED BY <1>2, NamedIs

\* The handler of what is of the page
LEMMA HandlerFacts ==
  ASSUME NEW p \in DeskPages, NEW c, IsOfPage(p, c), c.of # Announced.name
  PROVE  /\ Handler(p, c) \in p.calls /\ Handler(p, c).name = c.of
         /\ HandlerOfPage(Handler(p, c), p)
<1>1. PICK h \in p.calls : h.name = c.of
  BY DEF IsOfPage
<1>2. Handler(p, c) = h
  BY <1>1, HandlerIs DEF Handler
<1> QED BY <1>1, <1>2, ThePageIs

LEMMA AnnouncedFacts ==
  ASSUME NEW p \in DeskPages, NEW c, c.of = Announced.name
  PROVE  /\ Handler(p, c) = Announced /\ ~IsGuarded(p, c) /\ ~Counted(p, c)
         /\ Handler(p, c).then # "notes" /\ ~Waits(c, Handler(p, c)) /\ ~Handler(p, c).queues
<1>1. Handler(p, c) = Announced
  BY HandlerIs DEF Handler
<1>2. Announced.flag = None /\ Announced.then = "awaits" /\ ~Announced.local /\ ~Announced.queues
  BY DEF Announced, RowCall
<1> QED BY <1>1, <1>2 DEF IsGuarded, Guarded, Counted, Locks, Waits

LEMMA DeskIs ==
  ASSUME NEW p \in DeskPages, desk \in OpenDesk(p)
  PROVE  /\ desk.page = p.name /\ IsOpen /\ ThePage = p
         /\ \A c : HandlerOf(c) = Handler(p, c)
<1>1. desk.page = p.name
  BY DEF OpenDesk
<1> QED BY <1>1, ThePageIs DEF IsOpen, ThePage, HandlerOf, Handler

LEMMA KeptIs ==
  ASSUME NEW p \in DeskPages, NEW d \in p.dialogs
  PROVE  Named(p.dialogs)[d.name] = d /\ (IsKept(p, d.name) <=> d.opens = "kept")
<1>1. PICK things : things = p.dialogs
  OBVIOUS
<1>2. Named(things)[d.name] = d
  BY <1>1, ThePageIs, NamedIs
<1> QED BY <1>1, <1>2 DEF IsKept

\* The dialogs with a flag of their own
LEMMA LocalsAre ==
  ASSUME NEW p \in DeskPages, NEW x \in LocalDialogs(p)
  PROVE  x \in DialogsOf(p) /\ x # None /\ ~IsKept(p, x)
<1>1. PICK h \in p.calls : h.local /\ h.dialog = x
  BY DEF LocalDialogs
<1>2. HandlerOfPage(h, p)
  BY ThePageIs
<1> QED BY <1>1, <1>2 DEF HandlerOfPage, DialogsOf, IsKept

-----------------------------------------------------------------------------
(* One field of the desk changes *)

LEMMA EntrySet ==
  ASSUME NEW p \in DeskPages, NEW d \in OpenDesk(p), NEW x \in DialogsOf(p), NEW n \in Nat, NEW e,
         e = [d EXCEPT !.entries[x] = n]
  PROVE  /\ e \in OpenDesk(p) /\ e.since = d.since /\ e.key = d.key /\ e.held = d.held /\ e.dialog = d.dialog
         /\ e.row = d.row /\ e.entries[x] = n /\ \A y \in DialogsOf(p) \ {x} : e.entries[y] = d.entries[y]
<1>1. d.entries \in [DialogsOf(p) -> Nat]
  BY DEF OpenDesk
<1>2. /\ e \in OpenDesk(p) /\ e.since = d.since /\ e.key = d.key /\ e.held = d.held /\ e.dialog = d.dialog
      /\ e.row = d.row /\ e.entries = [d.entries EXCEPT ![x] = n]
  BY <1>1 DEF OpenDesk
<1> QED BY <1>1, <1>2

LEMMA DialogSet ==
  ASSUME NEW p \in DeskPages, NEW d \in OpenDesk(p), NEW x \in DialogsOf(p), NEW e,
         e = [d EXCEPT !.dialog = x]
  PROVE  /\ e \in OpenDesk(p) /\ e.since = d.since /\ e.key = d.key /\ e.held = d.held /\ e.dialog = x
         /\ e.row = d.row /\ e.entries = d.entries
BY DEF OpenDesk

LEMMA RowSet ==
  ASSUME NEW p \in DeskPages, NEW d \in OpenDesk(p), NEW r \in Places, NEW e,
         e = [d EXCEPT !.row = r]
  PROVE  /\ e \in OpenDesk(p) /\ e.since = d.since /\ e.key = d.key /\ e.held = d.held /\ e.dialog = d.dialog
         /\ e.row = r /\ e.entries = d.entries
BY DEF OpenDesk

LEMMA KeySet ==
  ASSUME NEW p \in DeskPages, NEW d \in OpenDesk(p), NEW k \in PageKeys, NEW e,
         e = [d EXCEPT !.key = k]
  PROVE  /\ e \in OpenDesk(p) /\ e.since = d.since /\ e.key = k /\ e.held = d.held /\ e.dialog = d.dialog
         /\ e.row = d.row /\ e.entries = d.entries
BY DEF OpenDesk

LEMMA HeldSet ==
  ASSUME NEW p \in DeskPages, NEW d \in OpenDesk(p), NEW held \in SUBSET (FlagNames \X Places), NEW e,
         e = [d EXCEPT !.held = held]
  PROVE  /\ e \in OpenDesk(p) /\ e.since = d.since /\ e.key = d.key /\ e.held = held /\ e.dialog = d.dialog
         /\ e.row = d.row /\ e.entries = d.entries
BY DEF OpenDesk

LEMMA SinceSet ==
  ASSUME NEW p \in DeskPages, NEW d \in OpenDesk(p), NEW n \in Nat, NEW e, e = [d EXCEPT !.since = n]
  PROVE  /\ e \in OpenDesk(p) /\ e.since = n /\ e.key = d.key /\ e.held = d.held /\ e.dialog = d.dialog
         /\ e.row = d.row /\ e.entries = d.entries
BY DEF OpenDesk

-----------------------------------------------------------------------------
\* The desk after a dialog was closed or cleared, a flag released, rows hidden
SinceFollows(p, d, x) ==
  \/ x.since \in {0, d.since}
  \/ x.since = ticks.clicks /\ \A y \in LocalDialogs(p) : x.entries[y] \in {NoEntry, Unsent}
FollowsFrom(p, d, x) ==
  /\ x \in OpenDesk(p) /\ x.key = d.key
  /\ \A y \in DialogsOf(p) : x.entries[y] \in {d.entries[y], NoEntry, Unsent}
  /\ BlankWhenClosed(p, d) => BlankWhenClosed(p, x) /\ SinceFollows(p, d, x)

LEMMA ClosedFacts ==
  ASSUME NEW p \in DeskPages, desk \in OpenDesk(p), NEW d \in OpenDesk(p), d.dialog # None
  PROVE  /\ FollowsFrom(p, d, Closed(d)) /\ Closed(d).held = d.held
         /\ ~IsKept(p, d.dialog) => Closed(d).entries[d.dialog] = NoEntry
         /\ IsKept(p, d.dialog) => Closed(d).entries = d.entries
<1>1. ThePage = p
  BY DeskIs
<1>2. PICK x : x = [d EXCEPT !.dialog = None, !.row = NoRow, !.since = 0]
  OBVIOUS
<1>3. /\ x \in OpenDesk(p) /\ x.key = d.key /\ x.dialog = None /\ x.held = d.held
      /\ x.entries = d.entries /\ x.since = 0
  BY <1>2 DEF OpenDesk, Places
<1>4. d.dialog \in DialogsOf(p) /\ d.entries \in [DialogsOf(p) -> Nat] /\ None \notin DialogsOf(p)
  BY ThePageIs DEF OpenDesk
<1>5. CASE IsKept(p, d.dialog)
  <2>1. Closed(d) = x
    BY <1>1, <1>2, <1>5 DEF Closed, IsKept
  <2> QED BY <1>3, <1>4, <1>5, <2>1 DEF FollowsFrom, BlankWhenClosed, SinceFollows
<1>6. CASE ~IsKept(p, d.dialog)
  <2>1. PICK y : y = [x EXCEPT !.entries[d.dialog] = NoEntry]
    OBVIOUS
  <2>2. Closed(d) = y
    BY <1>1, <1>2, <1>6, <2>1 DEF Closed, IsKept
  <2>3. /\ y \in OpenDesk(p) /\ y.key = x.key /\ y.held = x.held /\ y.dialog = x.dialog
        /\ y.entries = [x.entries EXCEPT ![d.dialog] = NoEntry] /\ y.since = 0
    BY <1>3, <1>4, <2>1 DEF OpenDesk, NoEntry
  <2>4. /\ y.entries[d.dialog] = NoEntry
        /\ \A z \in DialogsOf(p) : z # d.dialog => y.entries[z] = d.entries[z]
    BY <1>3, <1>4, <2>3
  <2>5. SinceFollows(p, d, y)
    BY <2>3 DEF SinceFollows
  <2>6. BlankWhenClosed(p, d) => BlankWhenClosed(p, y)
    BY <1>3, <2>3, <2>4 DEF BlankWhenClosed
  <2>7. \A z \in DialogsOf(p) : y.entries[z] \in {d.entries[z], NoEntry, Unsent}
    BY <2>4
  <2>8. y.key = d.key /\ y.held = d.held
    BY <1>3, <2>3
  <2>9. FollowsFrom(p, d, y)
    BY <2>3, <2>5, <2>6, <2>7, <2>8 DEF FollowsFrom
  <2> QED BY <1>6, <2>2, <2>4, <2>8, <2>9
<1> QED BY <1>5, <1>6

LEMMA FollowsFurther ==
  ASSUME NEW p \in DeskPages, NEW d, NEW x, NEW y, FollowsFrom(p, d, x), FollowsFrom(p, x, y)
  PROVE  FollowsFrom(p, d, y)
<1>1. ASSUME BlankWhenClosed(p, d) PROVE BlankWhenClosed(p, y) /\ SinceFollows(p, d, y)
  <2>1. BlankWhenClosed(p, y) /\ SinceFollows(p, d, x) /\ SinceFollows(p, x, y)
    BY <1>1 DEF FollowsFrom
  <2>2. \A z \in LocalDialogs(p) : y.entries[z] \in {x.entries[z], NoEntry, Unsent}
    BY LocalsAre DEF FollowsFrom
  <2> QED BY <2>1, <2>2 DEF SinceFollows
<1> QED BY <1>1 DEF FollowsFrom

LEMMA AtFacts ==
  ASSUME NEW p \in DeskPages, desk \in OpenDesk(p), NEW d \in OpenDesk(p),
         NEW c, IsOfPage(p, c), c.of # Announced.name,
         NEW point \in {"click", "success", "reload"}
  PROVE  /\ FollowsFrom(p, d, At(point, c, d)) /\ At(point, c, d).held = d.held
         /\ LET h == Handler(p, c) IN
            (BlankWhenClosed(p, d) /\ (h.clears = point \/ (h.closes = point /\ ~IsKept(p, h.dialog))))
              => At(point, c, d).entries[h.dialog] = NoEntry
<1>1. PICK h \in p.calls : h = Handler(p, c) /\ HandlerOf(c) = h /\ HandlerOfPage(h, p)
  BY HandlerFacts, DeskIs
<1>2. h.clears = point \/ h.closes = point => h.dialog \in DialogsOf(p)
  BY <1>1 DEF HandlerOfPage, DialogsOf
<1>3. None \notin DialogsOf(p) /\ d.entries \in [DialogsOf(p) -> Nat]
  BY ThePageIs DEF OpenDesk
<1>4. PICK x : x = IF h.clears = point THEN [d EXCEPT !.entries[h.dialog] = NoEntry] ELSE d
  OBVIOUS
<1>5. At(point, c, d) = IF h.closes = point /\ d.dialog = h.dialog THEN Closed(x) ELSE x
  BY <1>1, <1>4 DEF At
<1>6. /\ FollowsFrom(p, d, x) /\ x.held = d.held /\ x.dialog = d.dialog /\ x.since = d.since
      /\ h.clears = point => x.entries[h.dialog] = NoEntry
  <2>1. CASE h.clears = point
    <3>1. x = [d EXCEPT !.entries[h.dialog] = NoEntry]
      BY <1>4, <2>1
    <3>2. /\ x \in OpenDesk(p) /\ x.key = d.key /\ x.held = d.held /\ x.dialog = d.dialog
          /\ x.entries = [d.entries EXCEPT ![h.dialog] = NoEntry] /\ x.since = d.since
      BY <1>2, <1>3, <2>1, <3>1 DEF OpenDesk, NoEntry
    <3>3. x.entries[h.dialog] = NoEntry
      BY <1>2, <1>3, <2>1, <3>2
    <3>4. \A z \in DialogsOf(p) : z # h.dialog => x.entries[z] = d.entries[z]
      BY <1>3, <3>2
    <3> QED BY <3>2, <3>3, <3>4 DEF FollowsFrom, BlankWhenClosed, SinceFollows
  <2>2. CASE h.clears # point
    BY <1>4, <2>2 DEF FollowsFrom, SinceFollows
  <2> QED BY <2>1, <2>2
<1>7. CASE h.closes = point /\ d.dialog = h.dialog
  <2>1. x \in OpenDesk(p) /\ x.dialog # None
    BY <1>2, <1>3, <1>6, <1>7 DEF FollowsFrom
  <2>2. /\ FollowsFrom(p, x, Closed(x)) /\ Closed(x).held = x.held
        /\ ~IsKept(p, x.dialog) => Closed(x).entries[x.dialog] = NoEntry
    BY <2>1, ClosedFacts
  <2>3. FollowsFrom(p, d, Closed(x))
    BY <1>6, <2>2, FollowsFurther
  <2>4. (BlankWhenClosed(p, d) /\ h.clears = point) => At(point, c, d).entries[h.dialog] = NoEntry
    <3>1. CASE IsKept(p, x.dialog)
      <4>1. Closed(x).entries = x.entries
        BY <1>6, <2>1, <3>1, ClosedFacts
      <4> QED BY <1>5, <1>6, <1>7, <4>1
    <3>2. CASE ~IsKept(p, x.dialog)
      BY <1>5, <1>6, <1>7, <2>2, <3>2
    <3> QED BY <3>1, <3>2
  <2> QED BY <1>1, <1>5, <1>6, <1>7, <2>2, <2>3, <2>4
<1>8. CASE ~(h.closes = point /\ d.dialog = h.dialog)
  <2>1. At(point, c, d) = x
    BY <1>5, <1>8
  <2>2. (BlankWhenClosed(p, d) /\ h.closes = point /\ ~IsKept(p, h.dialog)) => x.entries[h.dialog] = NoEntry
    BY <1>2, <1>6, <1>8 DEF FollowsFrom, BlankWhenClosed
  <2> QED BY <1>1, <1>6, <2>1, <2>2
<1> QED BY <1>7, <1>8

LEMMA ReleasedFacts ==
  ASSUME NEW p \in DeskPages, desk \in OpenDesk(p), NEW d \in OpenDesk(p), NEW c
  PROVE  /\ FollowsFrom(p, d, Released(d, c)) /\ Released(d, c).entries = d.entries
         /\ Released(d, c).held = Release(d.held, Handler(p, c).flag)
<1>1. PICK held : held = Release(d.held, Handler(p, c).flag)
  OBVIOUS
<1>2. held \subseteq d.held /\ HandlerOf(c) = Handler(p, c)
  BY <1>1, DeskIs DEF Release
<1>3. PICK x : x = [d EXCEPT !.held = held]
  OBVIOUS
<1>4. /\ x \in OpenDesk(p) /\ x.held = held /\ x.entries = d.entries /\ x.key = d.key
      /\ x.dialog = d.dialog /\ x.since = d.since
  BY <1>2, <1>3 DEF OpenDesk
<1>5. Released(d, c) = x
  BY <1>1, <1>2, <1>3 DEF Released
<1>6. \A y \in DialogsOf(p) : x.entries[y] = d.entries[y]
  BY <1>4
<1>7. FollowsFrom(p, d, x)
  BY <1>4, <1>6 DEF FollowsFrom, BlankWhenClosed, SinceFollows
<1> QED BY <1>1, <1>4, <1>5, <1>7

LEMMA VeiledFacts ==
  ASSUME NEW p \in DeskPages, NEW d \in OpenDesk(p), NEW veiled \in BOOLEAN
  PROVE  /\ FollowsFrom(p, d, [d EXCEPT !.veiled = veiled])
         /\ [d EXCEPT !.veiled = veiled].entries = d.entries
         /\ [d EXCEPT !.veiled = veiled].held = d.held
         /\ [d EXCEPT !.veiled = veiled].dialog = d.dialog
         /\ [d EXCEPT !.veiled = veiled].since = d.since
<1>1. PICK x : x = [d EXCEPT !.veiled = veiled]
  OBVIOUS
<1>2. /\ x \in OpenDesk(p) /\ x.held = d.held /\ x.entries = d.entries /\ x.key = d.key
      /\ x.dialog = d.dialog /\ x.since = d.since
  BY <1>1 DEF OpenDesk
<1>3. \A y \in DialogsOf(p) : x.entries[y] = d.entries[y]
  BY <1>2
<1>4. FollowsFrom(p, d, x)
  BY <1>2, <1>3 DEF FollowsFrom, BlankWhenClosed, SinceFollows
<1> QED BY <1>1, <1>2, <1>4

\* A dialog with its own flag is hidden with the rows, and mounted anew.
LEMMA HiddenFacts ==
  ASSUME NEW p \in DeskPages, NEW d \in OpenDesk(p), DeskType(p)
  PROVE  /\ FollowsFrom(p, d, Veiled(d)) /\ Veiled(d).held = d.held
         /\ \A y \in DialogsOf(p) : Veiled(d).entries[y] \in {d.entries[y], Unsent}
<1>1. d.page = p.name /\ PageNamed[p.name] = p /\ p.veils \in BOOLEAN
  BY ThePageIs DEF OpenDesk
<1>2. ticks.clicks \in Nat /\ Unsent \in Nat
  BY DeskAssumption DEF DeskType, Unsent
<1>3. PICK v : v = [d EXCEPT !.veiled = p.veils]
  OBVIOUS
<1>4. /\ FollowsFrom(p, d, v) /\ v \in OpenDesk(p) /\ v.entries = d.entries /\ v.held = d.held
      /\ v.dialog = d.dialog /\ v.since = d.since
  BY <1>1, <1>3, VeiledFacts DEF FollowsFrom
<1>5. CASE ~(p.veils /\ d.dialog \in LocalDialogs(p))
  <2>1. Veiled(d) = v
    BY <1>1, <1>3, <1>5 DEF Veiled
  <2> QED BY <1>4, <2>1
<1>6. CASE p.veils /\ d.dialog \in LocalDialogs(p)
  <2>1. PICK w : w = [v EXCEPT !.entries[d.dialog] = Unsent]
    OBVIOUS
  <2>2. d.dialog \in DialogsOf(p)
    BY <1>6, LocalsAre
  <2>3. /\ w \in OpenDesk(p) /\ w.key = v.key /\ w.held = v.held /\ w.dialog = v.dialog
        /\ w.entries[d.dialog] = Unsent /\ \A y \in DialogsOf(p) \ {d.dialog} : w.entries[y] = v.entries[y]
    BY <1>2, <1>4, <2>1, <2>2, EntrySet
  <2>4. PICK x : x = [w EXCEPT !.since = ticks.clicks]
    OBVIOUS
  <2>5. /\ x \in OpenDesk(p) /\ x.key = w.key /\ x.held = w.held /\ x.dialog = w.dialog
        /\ x.entries = w.entries /\ x.since = ticks.clicks
    BY <1>2, <2>3, <2>4, SinceSet
  <2>6. Veiled(d) = x
    BY <1>1, <1>3, <1>6, <2>1, <2>4 DEF Veiled
  <2>7. v.key = d.key
    BY <1>4 DEF FollowsFrom
  <2>8. ASSUME BlankWhenClosed(p, d) PROVE BlankWhenClosed(p, x) /\ SinceFollows(p, d, x)
    <3>1. \A y \in DialogsOf(p) : (~IsKept(p, y) /\ y # d.dialog) => x.entries[y] = NoEntry
      BY <1>4, <2>3, <2>5, <2>8 DEF BlankWhenClosed
    <3>2. \A y \in LocalDialogs(p) : x.entries[y] \in {NoEntry, Unsent}
      BY <2>3, <2>5, <3>1, LocalsAre
    <3> QED BY <1>4, <2>3, <2>5, <3>1, <3>2 DEF BlankWhenClosed, SinceFollows
  <2>9. \A y \in DialogsOf(p) : x.entries[y] \in {d.entries[y], Unsent}
    BY <1>4, <2>3, <2>5
  <2> QED BY <1>4, <2>3, <2>5, <2>6, <2>7, <2>8, <2>9 DEF FollowsFrom
<1> QED BY <1>5, <1>6

\* What a call does on the server is the call.
LEMMA EffectIs == ASSUME NEW c \in Act PROVE EffectOf(c) = c
BY DEF EffectOf, Act

LEMMA MovedCall ==
  ASSUME NEW c \in Act, NEW at \in {"sent", "first", "second", "loading", "worked"}, NEW d,
         d = [c EXCEPT !.at = at]
  PROVE  /\ d \in Act /\ d.n = c.n /\ d.of = c.of /\ d.row = c.row /\ d.key = c.key
         /\ d.entry = c.entry /\ d.at = at
BY DEF Act

-----------------------------------------------------------------------------
(* Flags *)

\* A call is over and releases its flag.
LEMMA FlagsEnd ==
  ASSUME NEW p \in DeskPages, FlagsHold(p), NEW c \in calls,
         calls' = calls \ {c}, desk'.held = Release(desk.held, Handler(p, c).flag),
         mishaps \subseteq mishaps'
  PROVE  FlagsHold(p)'
<1>1. ASSUME NEW d \in calls' PROVE Alone(p, d)'
  <2>1. d \in calls /\ d # c /\ Alone(p, d)
    BY DEF FlagsHold
  <2>2. Handler(p, d).flag = Handler(p, c).flag /\ Handler(p, d).flag # None
          => ~("crossed" \notin mishaps' \/ IsWide(p, Handler(p, d).flag))
    BY <2>1 DEF Alone
  <2> QED BY <2>1, <2>2 DEF Alone, Release
<1>2. ASSUME NEW f \in desk'.held PROVE \E d \in calls' : Handler(p, d).flag = f[1]
  BY <1>2 DEF FlagsHold, Release
<1> QED BY <1>1, <1>2 DEF FlagsHold

\* It goes on.
LEMMA FlagsGo ==
  ASSUME NEW p \in DeskPages, FlagsHold(p), NEW c \in calls, NEW d, d.of = c.of, d.row = c.row,
         calls' = (calls \ {c}) \cup {d}, desk'.held = desk.held, mishaps \subseteq mishaps'
  PROVE  FlagsHold(p)'
<1>1. Handler(p, d) = Handler(p, c)
  BY DEF Handler
<1>2. ASSUME NEW e \in calls' PROVE Alone(p, e)'
  <2>1. PICK b \in calls : Handler(p, b) = Handler(p, e) /\ b.row = e.row /\ (b = c <=> e = d)
                           /\ (b # c => b = e)
    BY <1>1
  <2>2. Alone(p, b)
    BY DEF FlagsHold
  <2> QED BY <1>1, <2>1, <2>2 DEF Alone
<1>3. ASSUME NEW f \in desk'.held PROVE \E e \in calls' : Handler(p, e).flag = f[1]
  BY <1>1, <1>3 DEF FlagsHold
<1> QED BY <1>2, <1>3 DEF FlagsHold

LEMMA FlagsStay ==
  ASSUME NEW p \in DeskPages, FlagsHold(p), calls' = calls, desk'.held = desk.held,
         mishaps \subseteq mishaps'
  PROVE  FlagsHold(p)'
BY DEF FlagsHold, Alone

-----------------------------------------------------------------------------
(* Lists *)

\* A load is sent.
IsSent(l) == l.n = ticks.sent + 1 /\ ~l.read

LEMMA ListSends ==
  ASSUME NEW p \in DeskPages, DeskType(p), NumbersHold(p), NEW l \in LoadSent,
         IsSent(l), loads' = loads \cup {l}, ticks'.last = ticks.last,
         mishaps' \subseteq {"crossed"} => l.key = desk'.key
  PROVE  ListHolds(p)'
<1>1. ticks.sent \in Nat /\ \A k \in loads : k \in LoadSent
  BY DEF DeskType
<1>2. \A k \in loads : k.n < l.n
  BY <1>1 DEF NumbersHold, LoadIsGood, IsSent, LoadSent
<1>3. \A k \in loads : k.n \in Nat
  BY <1>1 DEF LoadSent
<1>4. l \in loads' /\ l.n \in Nat
  BY DEF LoadSent
<1>5. \A k \in loads' : IsLatest(k)' => k = l
  BY <1>2, <1>3, <1>4 DEF IsLatest
<1> QED BY <1>4, <1>5 DEF ListHolds, IsSent

LEMMA ListKeeps ==
  ASSUME NEW p \in DeskPages, ListHolds(p), UNCHANGED <<loads, shown, done>>,
         desk'.key = desk.key, ticks'.last = ticks.last, mishaps \subseteq mishaps',
         \A e \in done : HalfDone(e) => HalfDone(e)'
  PROVE  ListHolds(p)'
<1>1. \A k : ListedOn(p, k)' = ListedOn(p, k)
  BY DEF ListedOn
<1>2. ListedOn(p, desk.key) \subseteq done
  BY DEF ListedOn
<1>3. \A rows : Tells(p, rows) => Tells(p, rows)'
  BY <1>1, <1>2 DEF Tells
<1>4. \A l \in loads : IsLatest(l)' => IsLatest(l)
  BY DEF IsLatest
<1> QED BY <1>3, <1>4 DEF ListHolds

\* A half that is done waits for the other as long as the call does.
LEMMA HalvesStay ==
  ASSUME NEW p \in DeskPages, \A c \in calls : c.at = "second" => c \in calls'
  PROVE  \A e : HalfDone(e) => HalfDone(e)'
BY DEF HalfDone

-----------------------------------------------------------------------------
(* Entries *)

LEMMA EntryFacts ==
  ASSUME NEW p \in DeskPages, DeskType(p), NumbersHold(p), NEW a \in done, Counted(p, a)
  PROVE  /\ Handler(p, a).dialog \in DialogsOf(p) /\ a.entry \in Nat
         /\ a.entry # NoEntry /\ a.entry # Unsent /\ a.entry # ticks.clicks + 1
         /\ Handler(p, a).flag # None => IsWide(p, Handler(p, a).flag)
         /\ HandlerOfPage(Handler(p, a), p) /\ Handler(p, a).dialog # None
<1>1. /\ IsOfPage(p, a) /\ a.entry # NoEntry /\ a.of # Announced.name
      /\ Handler(p, a).dialog # None /\ a.entry <= ticks.clicks /\ ticks.clicks <= MaxClicks
  BY DEF NumbersHold, EffectIsGood, Counted
<1>2. a \in Act /\ ticks.clicks \in Nat /\ MaxClicks \in Nat
  BY DeskAssumption DEF DeskType
<1>3. a.entry \in Nat /\ a.entry # Unsent /\ a.entry # ticks.clicks + 1
  BY <1>1, <1>2 DEF Act, Unsent
<1>4. HandlerOfPage(Handler(p, a), p)
  BY <1>1, HandlerFacts DEF Counted
<1> QED BY <1>1, <1>3, <1>4 DEF HandlerOfPage, DialogsOf, IsWide

LEMMA CallFacts ==
  ASSUME NEW p \in DeskPages, DeskType(p), NumbersHold(p), NEW c \in calls
  PROVE  /\ Handler(p, c) \in p.calls /\ HandlerOfPage(Handler(p, c), p)
         /\ c \in Act /\ c.at \in {"sent", "second", "loading"}
         /\ c.entry # Unsent /\ c.entry # ticks.clicks + 1
         /\ Counted(p, c) => /\ Handler(p, c).dialog \in DialogsOf(p) /\ Handler(p, c).dialog # None
                             /\ Handler(p, c).flag # None => IsWide(p, Handler(p, c).flag)
                             /\ c.entry # NoEntry
<1>1. CallIsGood(p, c) /\ ticks.clicks <= MaxClicks
  BY DEF NumbersHold
<1>2. c \in Act /\ c.entry \in Nat /\ ticks.clicks \in Nat /\ MaxClicks \in Nat
  BY DeskAssumption DEF DeskType, Act
<1>3. c.entry # Unsent /\ c.entry # ticks.clicks + 1
  BY <1>1, <1>2 DEF CallIsGood, Unsent
<1>4. Handler(p, c) \in p.calls /\ HandlerOfPage(Handler(p, c), p)
  BY <1>1, HandlerFacts DEF CallIsGood
<1>5. Counted(p, c) => /\ Handler(p, c).dialog \in DialogsOf(p) /\ Handler(p, c).dialog # None
                       /\ Handler(p, c).flag # None => IsWide(p, Handler(p, c).flag)
                       /\ c.entry # NoEntry
  BY <1>1, <1>4 DEF CallIsGood, Counted, HandlerOfPage, DialogsOf, IsWide
<1> QED BY <1>1, <1>2, <1>3, <1>4, <1>5 DEF CallIsGood

\* Entries are left, cleared, retyped or sent for the first time; a call that is over
\* leaves no entry it sent, and a new call sends none that took effect.
LEMMA EntriesKeep ==
  ASSUME NEW p \in DeskPages, DeskType(p), NumbersHold(p), EntriesHold(p),
         done \subseteq done', \A a \in done' : a \in done \/ a.entry = NoEntry,
         mishaps \subseteq mishaps', BlankWhenClosed(p, desk'),
         \A x \in DialogsOf(p) :
            desk'.entries[x] \in {desk.entries[x], NoEntry, Unsent, ticks.clicks + 1},
         \A c \in calls' : 
            \/ c \in calls
            \/ /\ c.at = "sent"
               /\ mishaps' \cap {"lost", "half"} = {}
                    => \A a \in done : ~(Counted(p, c) /\ SameEntry(c, a)),
         \A c \in calls \ calls', a \in done : (Counted(p, a) /\ SameEntry(c, a)) =>
            mishaps' \cap {"lost", "half"} # {} \/ desk'.entries[Handler(p, a).dialog] # a.entry
  PROVE  EntriesHold(p)'
<1> SUFFICES ASSUME mishaps' \cap {"lost", "half"} = {} PROVE
       /\ \A c \in calls', a \in done' : (Counted(p, c) /\ SameEntry(c, a)) =>
            c.at = "loading" \/ (c.at = "second" /\ a.at = "first")
       /\ \A a \in done' : (Counted(p, a) /\ desk'.entries[Handler(p, a).dialog] = a.entry) =>
            \E c \in calls' : SameEntry(c, a)
       /\ \A c \in calls' :
            (Counted(p, c) /\ c.at = "loading" /\ desk'.entries[Handler(p, c).dialog] = c.entry) =>
              ClearsLate(p, Handler(p, c))
       /\ \A a, b \in done' : (Counted(p, a) /\ SameEntry(a, b) /\ a.at = b.at) => a = b
  BY DEF EntriesHold, Counted, SameEntry
<1>1. mishaps \cap {"lost", "half"} = {}
  OBVIOUS
<1>2. ASSUME NEW a \in done', Counted(p, a) PROVE a \in done
  BY <1>2 DEF Counted
<1>3. ASSUME NEW c \in calls', NEW a \in done', Counted(p, c), SameEntry(c, a)
      PROVE  c.at = "loading" \/ (c.at = "second" /\ a.at = "first")
  <2>1. a \in done
    BY <1>3 DEF Counted, SameEntry
  <2> QED BY <1>1, <1>3, <2>1 DEF EntriesHold
<1>4. ASSUME NEW a \in done', Counted(p, a), desk'.entries[Handler(p, a).dialog] = a.entry
      PROVE  \E c \in calls' : SameEntry(c, a)
  <2>1. a \in done /\ desk.entries[Handler(p, a).dialog] = a.entry
    BY <1>2, <1>4, EntryFacts
  <2>2. PICK c \in calls : SameEntry(c, a)
    BY <1>1, <1>4, <2>1 DEF EntriesHold
  <2> QED BY <1>4, <2>1, <2>2
<1>5. ASSUME NEW c \in calls', Counted(p, c), c.at = "loading",
             desk'.entries[Handler(p, c).dialog] = c.entry
      PROVE  ClearsLate(p, Handler(p, c))
  <2>1. c \in calls
    BY <1>5
  <2>2. desk.entries[Handler(p, c).dialog] = c.entry
    BY <1>5, <2>1, CallFacts
  <2> QED BY <1>1, <1>5, <2>1, <2>2 DEF EntriesHold
<1>6. ASSUME NEW a \in done', NEW b \in done', Counted(p, a), SameEntry(a, b), a.at = b.at
      PROVE  a = b
  <2>1. a \in done /\ b \in done
    BY <1>6 DEF Counted, SameEntry
  <2> QED BY <1>1, <1>6, <2>1 DEF EntriesHold
<1> QED BY <1>3, <1>4, <1>5, <1>6

\* A call has taken effect: it is over, or waits for its reload.
LandedCalls(p, c) ==
  \/ calls' = calls \ {c} /\ Handler(p, c).then # "awaits"
  \/ /\ Handler(p, c).then = "awaits"
     /\ \E d \in Act : /\ d = [c EXCEPT !.at = "loading"]
                       /\ calls' = (calls \ {c}) \cup {d}
LastPart(p, c) == c.at = IF Handler(p, c).first THEN "second" ELSE "sent"

LEMMA LandedFacts ==
  ASSUME NEW p \in DeskPages, DeskType(p), NEW c \in calls, LandedCalls(p, c)
  PROVE  \A d \in calls' :
           \/ d \in calls /\ d # c
           \/ /\ Handler(p, c).then = "awaits" /\ d.at = "loading" /\ SameEntry(d, c) /\ SameRow(d, c)
              /\ d.n = c.n /\ d.key = c.key /\ d \in Act
<1>1. c \in Act
  BY DEF DeskType
<1>2. CASE calls' = calls \ {c}
  BY <1>2
<1>3. ASSUME NEW d \in Act, d = [c EXCEPT !.at = "loading"], calls' = (calls \ {c}) \cup {d},
             Handler(p, c).then = "awaits"
      PROVE  \A e \in calls' : (e \in calls /\ e # c) \/ (e = d /\ d.at = "loading" /\ SameEntry(d, c)
                                /\ SameRow(d, c) /\ d.n = c.n /\ d.key = c.key)
  BY <1>1, <1>3, MovedCall DEF SameEntry, SameRow
<1> QED BY <1>2, <1>3 DEF LandedCalls

LEMMA SameHandler ==
  ASSUME NEW p, NEW c, NEW d, c.of = d.of PROVE Handler(p, c) = Handler(p, d)
BY DEF Handler

\* Two calls that hold one flag are one.
LEMMA FlagIsHeldOnce ==
  ASSUME NEW p \in DeskPages, FlagsHold(p), NEW c \in calls, NEW d \in calls, c.of = d.of,
         Handler(p, c).flag # None,
         "crossed" \notin mishaps \/ IsWide(p, Handler(p, c).flag)
  PROVE  c = d
<1>1. Handler(p, d) = Handler(p, c)
  BY SameHandler
<1>2. Alone(p, c)
  BY DEF FlagsHold
<1> QED BY <1>1, <1>2 DEF Alone

\* Nor do two calls send one entry whose button is disabled meanwhile.
LEMMA EntryIsSentOnce ==
  ASSUME NEW p \in DeskPages, DeskType(p), NumbersHold(p), FlagsHold(p), LocalsHold(p),
         NEW c \in calls, NEW d \in calls, SameEntry(c, d), Counted(p, c)
  PROVE  c = d
<1>1. CASE Handler(p, c).flag # None
  <2>1. IsWide(p, Handler(p, c).flag)
    BY <1>1, CallFacts
  <2> QED BY <1>1, <2>1, FlagIsHeldOnce DEF SameEntry
<1>2. CASE Handler(p, c).local
  BY <1>2 DEF LocalsHold, Counted
<1> QED BY <1>1, <1>2 DEF Counted, Locks

LEMMA EntriesLand ==
  ASSUME NEW p \in DeskPages, DeskType(p), NumbersHold(p), FlagsHold(p), EntriesHold(p), LocalsHold(p),
         NEW c \in calls, LastPart(p, c), LandedCalls(p, c),
         done' = done \cup {c}, mishaps \subseteq mishaps',
         BlankWhenClosed(p, desk'),
         \A x \in DialogsOf(p) : desk'.entries[x] \in {desk.entries[x], NoEntry, Unsent},
         LET h == Handler(p, c) IN
           (h.clears = "success" \/ (h.closes = "success" /\ ~IsKept(p, h.dialog)))
             => desk'.entries[h.dialog] \in {NoEntry, Unsent}
  PROVE  EntriesHold(p)'
<1> SUFFICES ASSUME mishaps' \cap {"lost", "half"} = {} PROVE
       /\ \A d \in calls', a \in done' : (Counted(p, d) /\ SameEntry(d, a)) =>
            d.at = "loading" \/ (d.at = "second" /\ a.at = "first")
       /\ \A a \in done' : (Counted(p, a) /\ desk'.entries[Handler(p, a).dialog] = a.entry) =>
            \E d \in calls' : SameEntry(d, a)
       /\ \A d \in calls' :
            (Counted(p, d) /\ d.at = "loading" /\ desk'.entries[Handler(p, d).dialog] = d.entry) =>
              ClearsLate(p, Handler(p, d))
       /\ \A a, b \in done' : (Counted(p, a) /\ SameEntry(a, b) /\ a.at = b.at) => a = b
  BY DEF EntriesHold, Counted, SameEntry
<1>1. /\ \A d \in calls, a \in done : (Counted(p, d) /\ SameEntry(d, a)) =>
            d.at = "loading" \/ (d.at = "second" /\ a.at = "first")
      /\ \A a \in done : (Counted(p, a) /\ desk.entries[Handler(p, a).dialog] = a.entry) =>
            \E d \in calls : SameEntry(d, a)
      /\ \A d \in calls :
            (Counted(p, d) /\ d.at = "loading" /\ desk.entries[Handler(p, d).dialog] = d.entry) =>
              ClearsLate(p, Handler(p, d))
      /\ \A a, b \in done : (Counted(p, a) /\ SameEntry(a, b) /\ a.at = b.at) => a = b
  BY DEF EntriesHold
<1>2. c.at \in {"sent", "second"}
  BY DEF LastPart
<1>3. \A d \in calls' :
        \/ d \in calls /\ d # c
        \/ /\ Handler(p, c).then = "awaits" /\ d.at = "loading" /\ SameEntry(d, c) /\ SameRow(d, c)
           /\ d.n = c.n /\ d.key = c.key /\ d \in Act
  BY LandedFacts
<1>4. ASSUME NEW d, SameEntry(d, c) \/ SameEntry(c, d)
      PROVE  Handler(p, d) = Handler(p, c) /\ (Counted(p, d) <=> Counted(p, c))
  BY <1>4, SameHandler DEF SameEntry, Counted
<1>5. Counted(p, c) =>
        /\ Handler(p, c).dialog \in DialogsOf(p) /\ Handler(p, c).dialog # None /\ c.entry # NoEntry
        /\ HandlerOfPage(Handler(p, c), p) /\ c.entry # Unsent
  BY CallFacts
<1>6. Counted(p, c) =>
        \/ desk'.entries[Handler(p, c).dialog] # c.entry
        \/ Handler(p, c).then = "awaits" /\ ClearsLate(p, Handler(p, c))
  <2> SUFFICES ASSUME Counted(p, c), desk'.entries[Handler(p, c).dialog] = c.entry
               PROVE  Handler(p, c).then = "awaits" /\ ClearsLate(p, Handler(p, c))
    OBVIOUS
  <2>1. PICK h : h = Handler(p, c)
    OBVIOUS
  <2>2. ~(h.clears = "success" \/ (h.closes = "success" /\ ~IsKept(p, h.dialog)))
    BY <1>5, <2>1
  <2>3. h.clears \in BeforeRelease(h) \/ (h.closes \in BeforeRelease(h) /\ ~IsKept(p, h.dialog))
    <3>1. HandlerOfPage(h, p) /\ h.dialog # None /\ (h.flag # None \/ h.local)
      BY <1>5, <2>1 DEF Counted, Locks
    <3> QED BY <3>1 DEF HandlerOfPage, IsKept, BeforeRelease
  <2>4. h.then = "awaits" /\ BeforeRelease(h) = {"success", "reload"}
    BY <2>2, <2>3 DEF BeforeRelease
  <2> QED BY <2>1, <2>2, <2>3, <2>4 DEF ClearsLate
<1>7. \A d \in calls : (d # c /\ SameEntry(d, c)) => ~Counted(p, c)
  BY EntryIsSentOnce DEF SameEntry
<1>8. Handler(p, c).then = "awaits" => \E d \in calls' : SameEntry(d, c)
  BY MovedCall DEF LandedCalls, DeskType, SameEntry
<1>9. ASSUME NEW d \in calls', NEW a \in done', Counted(p, d), SameEntry(d, a)
      PROVE  d.at = "loading" \/ (d.at = "second" /\ a.at = "first")
  <2>1. CASE d.at # "loading" /\ a = c
    BY <1>3, <1>4, <1>7, <1>9, <2>1
  <2>2. CASE d.at # "loading" /\ a # c
    BY <1>1, <1>3, <1>9, <2>2
  <2> QED BY <2>1, <2>2
<1>10. ASSUME NEW a \in done', Counted(p, a), desk'.entries[Handler(p, a).dialog] = a.entry
       PROVE  \E d \in calls' : SameEntry(d, a)
  <2>1. CASE a = c
    BY <1>6, <1>8, <1>10, <2>1
  <2>2. CASE a # c
    <3>1. desk.entries[Handler(p, a).dialog] = a.entry
      BY <1>10, <2>2, EntryFacts
    <3>2. PICK d \in calls : SameEntry(d, a)
      BY <1>1, <1>10, <2>2, <3>1
    <3>3. CASE d # c
      BY <3>2, <3>3 DEF LandedCalls
    <3>4. CASE d = c
      <4>1. Handler(p, a) = Handler(p, c) /\ Counted(p, c) /\ a.entry = c.entry
        BY <1>4, <1>10, <3>2, <3>4 DEF SameEntry
      <4>2. PICK e \in calls' : SameEntry(e, c)
        BY <1>6, <1>8, <1>10, <4>1
      <4> QED BY <3>2, <3>4, <4>2 DEF SameEntry
    <3> QED BY <3>3, <3>4
  <2> QED BY <2>1, <2>2
<1>11. ASSUME NEW d \in calls', Counted(p, d), d.at = "loading",
              desk'.entries[Handler(p, d).dialog] = d.entry
       PROVE  ClearsLate(p, Handler(p, d))
  <2>1. CASE d \in calls /\ d # c
    <3>1. CallIsGood(p, d)
      BY <2>1 DEF NumbersHold
    <3>2. Handler(p, d).dialog \in DialogsOf(p) /\ d.entry # Unsent
      BY <1>11, <2>1, CallFacts
    <3>3. desk.entries[Handler(p, d).dialog] = d.entry
      BY <1>11, <3>2 DEF Counted
    <3> QED BY <1>1, <1>11, <2>1, <3>3
  <2>2. CASE SameEntry(d, c)
    BY <1>4, <1>6, <1>11, <2>2 DEF SameEntry
  <2> QED BY <1>3, <2>1, <2>2
<1>12. ASSUME NEW a \in done', NEW b \in done', Counted(p, a), SameEntry(a, b), a.at = b.at
       PROVE  a = b
  <2>1. \A x \in done : ~(Counted(p, c) /\ SameEntry(c, x) /\ c.at = x.at)
    BY <1>1, <1>2
  <2>2. SameEntry(b, a)
    BY <1>12 DEF SameEntry
  <2> QED BY <1>1, <1>4, <1>12, <2>1, <2>2
<1> QED BY <1>9, <1>10, <1>11, <1>12

-----------------------------------------------------------------------------
(* Rows *)

LoadsGrow ==
  loads' = loads \/ \E l \in LoadSent : IsSent(l) /\ loads' = loads \cup {l}

LEMMA InLoadsStays ==
  ASSUME NEW p \in DeskPages, DeskType(p), NumbersHold(p), LoadsGrow
  PROVE  /\ \A a, n : InLoads(a, n) => InLoads(a, n)'
         /\ \A l \in loads' : l \in loads \/ \A a : InLoads(a, l.n)'
<1>1. \A k \in loads : k.n \in Nat /\ k.n <= ticks.sent /\ ticks.sent \in Nat
  BY DEF DeskType, LoadSent, NumbersHold, LoadIsGood
<1>2. CASE loads' = loads
  BY <1>2 DEF InLoads
<1>3. ASSUME NEW l \in LoadSent, IsSent(l), loads' = loads \cup {l}
      PROVE  /\ \A a, n : InLoads(a, n) => InLoads(a, n)'
             /\ \A a : InLoads(a, l.n)'
  <2>1. ~l.read /\ \A k \in loads : ~(k.n >= l.n)
    BY <1>1, <1>3 DEF IsSent
  <2> QED BY <1>3, <2>1 DEF InLoads
<1> QED BY <1>2, <1>3 DEF LoadsGrow

LEMMA AwaitedStays ==
  ASSUME NEW p \in DeskPages, DeskType(p), NumbersHold(p), LoadsGrow,
         \A c \in calls : c.at = "loading" => c \in calls'
  PROVE  \A a : Awaited(a) => Awaited(a)'
BY InLoadsStays DEF Awaited

LEMMA KnownStays ==
  ASSUME NEW p \in DeskPages, DeskType(p), NumbersHold(p), LoadsGrow,
         shown.rows \subseteq shown'.rows, shown.notes \subseteq shown'.notes,
         ticks'.last = ticks.last
  PROVE  \A a : Known(p, a) => Known(p, a)'
BY InLoadsStays DEF Known

LEMMA RowsKeep ==
  ASSUME NEW p \in DeskPages, DeskType(p), NumbersHold(p), RowsHold(p), LoadsGrow,
         done \subseteq done', \A a \in done' : a \in done \/ ~IsGuarded(p, a),
         shown.rows \subseteq shown'.rows, shown.notes \subseteq shown'.notes,
         ticks'.last = ticks.last, mishaps \subseteq mishaps',
         \A c \in calls' : c \in calls \/ (mishaps' = {} =>
            \A a \in done : ~(IsGuarded(p, c) /\ SameRow(c, a))),
         \A c \in calls : c.at = "loading" => c \in calls'
  PROVE  RowsHold(p)'
<1> SUFFICES ASSUME mishaps' = {} PROVE
       /\ \A c \in calls', a \in done' : (IsGuarded(p, c) /\ SameRow(c, a)) => c.at = "loading"
       /\ \A a \in done' : IsGuarded(p, a) => Known(p, a)' \/ Awaited(a)'
       /\ \A a, b \in done' : (IsGuarded(p, a) /\ SameRow(a, b)) => a = b
  BY DEF RowsHold, IsGuarded, SameRow
<1>1. mishaps = {}
  OBVIOUS
<1>2. \A a : (Known(p, a) => Known(p, a)') /\ (Awaited(a) => Awaited(a)')
  BY KnownStays, AwaitedStays
<1>3. ASSUME NEW a, NEW b, SameRow(a, b) PROVE IsGuarded(p, a) <=> IsGuarded(p, b)
  BY <1>3, SameHandler DEF IsGuarded, SameRow
<1>4. /\ \A c \in calls, a \in done : (IsGuarded(p, c) /\ SameRow(c, a)) => c.at = "loading"
      /\ \A a \in done : IsGuarded(p, a) => Known(p, a) \/ Awaited(a)
      /\ \A a, b \in done : (IsGuarded(p, a) /\ SameRow(a, b)) => a = b
  BY <1>1 DEF RowsHold
<1>5. \A a \in done' : IsGuarded(p, a) => a \in done
  OBVIOUS
<1>6. \A c \in calls', a \in done' : (IsGuarded(p, c) /\ SameRow(c, a)) => c.at = "loading"
  BY <1>3, <1>4, <1>5
<1>7. \A a, b \in done' : (IsGuarded(p, a) /\ SameRow(a, b)) => a = b
  BY <1>3, <1>4, <1>5
<1> QED BY <1>2, <1>4, <1>5, <1>6, <1>7

LEMMA RowsLand ==
  ASSUME NEW p \in DeskPages, DeskType(p), NumbersHold(p), FlagsHold(p), RowsHold(p), LoadsGrow,
         NEW c \in calls, LastPart(p, c), LandedCalls(p, c),
         done' = done \cup {c}, shown.rows \subseteq shown'.rows, shown.notes \subseteq shown'.notes,
         ticks'.last = ticks.last, mishaps \subseteq mishaps',
         (mishaps' = {} /\ IsGuarded(p, c)) => Known(p, c)' \/ Awaited(c)'
  PROVE  RowsHold(p)'
<1> SUFFICES ASSUME mishaps' = {} PROVE
       /\ \A d \in calls', a \in done' : (IsGuarded(p, d) /\ SameRow(d, a)) => d.at = "loading"
       /\ \A a \in done' : IsGuarded(p, a) => Known(p, a)' \/ Awaited(a)'
       /\ \A a, b \in done' : (IsGuarded(p, a) /\ SameRow(a, b)) => a = b
  BY DEF RowsHold, IsGuarded, SameRow
<1>1. mishaps = {} /\ c.at # "loading"
  BY DEF LastPart
<1>2. /\ \A d \in calls, a \in done : (IsGuarded(p, d) /\ SameRow(d, a)) => d.at = "loading"
      /\ \A a \in done : IsGuarded(p, a) => Known(p, a) \/ Awaited(a)
      /\ \A a, b \in done : (IsGuarded(p, a) /\ SameRow(a, b)) => a = b
  BY <1>1 DEF RowsHold
<1>3. \A d \in calls' : (d \in calls /\ d # c) \/ d.at = "loading"
  BY LandedFacts
<1>4. \A d \in calls : d.at = "loading" => d \in calls'
  BY <1>1 DEF LandedCalls
<1>5. \A a : (Known(p, a) => Known(p, a)') /\ (Awaited(a) => Awaited(a)')
  BY <1>4, KnownStays, AwaitedStays
<1>6. ASSUME NEW d, d.of = c.of PROVE IsGuarded(p, d) <=> IsGuarded(p, c)
  BY <1>6, SameHandler DEF IsGuarded
<1>7. ASSUME NEW d \in calls, d # c, SameRow(d, c) PROVE ~IsGuarded(p, d)
  BY <1>1, <1>7, FlagIsHeldOnce DEF SameRow, IsGuarded, Guarded
<1>8. \A d \in calls', a \in done' : (IsGuarded(p, d) /\ SameRow(d, a)) => d.at = "loading"
  BY <1>2, <1>3, <1>7
<1>9. \A a \in done' : IsGuarded(p, a) => Known(p, a)' \/ Awaited(a)'
  BY <1>2, <1>5
<1>10. \A a \in done : ~(IsGuarded(p, c) /\ SameRow(c, a))
  BY <1>1, <1>2
<1>11. \A a, b \in done' : (IsGuarded(p, a) /\ SameRow(a, b)) => a = b
  <2>1. \A a, b : SameRow(a, b) => SameRow(b, a) /\ a.of = b.of
    BY DEF SameRow
  <2> QED BY <1>2, <1>6, <1>10, <2>1
<1> QED BY <1>8, <1>9, <1>11

-----------------------------------------------------------------------------
(* Numbers *)

LEMMA NumbersFollow ==
  ASSUME NEW p \in DeskPages, DeskType(p), NumbersHold(p), DeskType(p)',
         ticks'.clicks \in {ticks.clicks, ticks.clicks + 1}, ticks'.clicks <= MaxClicks,
         ticks'.last <= ticks'.sent,
         \A c \in calls' : c \in calls \/ CallIsGood(p, c)',
         CallsAreApart',
         \A e \in done' : e \in done \/ EffectIsGood(p, e)',
         \A l \in loads' : LoadIsGood(l)',
         LoadsAreApart',
         \A x \in DialogsOf(p) : desk'.entries[x] = desk.entries[x] \/ EntryIsGood(desk'.entries[x], ticks'.clicks),
         OneKey(p)'
  PROVE  NumbersHold(p)'
<1>1. ticks.clicks \in Nat /\ ticks.clicks <= ticks'.clicks /\ ticks'.clicks \in Nat
  BY DEF DeskType
<1>2. ASSUME NEW c \in calls PROVE CallIsGood(p, c)'
  <2>1. CallIsGood(p, c) /\ c.n \in Nat /\ c.entry \in Nat
    BY DEF NumbersHold, DeskType, Act
  <2> QED BY <1>1, <2>1 DEF CallIsGood
<1>3. ASSUME NEW e \in done PROVE EffectIsGood(p, e)'
  <2>1. EffectIsGood(p, e) /\ e.entry \in Nat
    BY DEF NumbersHold, DeskType, Act
  <2> QED BY <1>1, <2>1 DEF EffectIsGood
<1>4. ASSUME NEW x \in DialogsOf(p) PROVE EntryIsGood(desk'.entries[x], ticks'.clicks)
  <2>1. EntryIsGood(desk.entries[x], ticks.clicks) /\ desk.entries[x] \in Nat
    BY DEF NumbersHold, DeskType, OpenDesk
  <2> QED BY <1>1, <2>1 DEF EntryIsGood
<1> QED BY <1>2, <1>3, <1>4 DEF NumbersHold

\* The loads under way, and one more
LEMMA LoadsFollow ==
  ASSUME NEW p \in DeskPages, DeskType(p), NumbersHold(p), LoadsGrow,
         ticks'.sent = IF loads' = loads THEN ticks.sent ELSE ticks.sent + 1,
         ticks'.last = ticks.last,
         ticks'.clicks \in {ticks.clicks, ticks.clicks + 1},
         \A c \in calls' : c \in calls \/ c.at = "loading" \/ c.n = ticks.clicks + 1,
         \A l \in loads' : l \in loads \/
            (l.waiting <= ticks.clicks /\ \A c \in calls' : l.waiting = c.n => c.at = "loading")
  PROVE  LoadsAreApart' /\ (\A l \in loads' : LoadIsGood(l)') /\ ticks'.last <= ticks'.sent
<1>1. /\ ticks.sent \in Nat /\ ticks.last \in Nat /\ ticks.clicks \in Nat /\ ticks.last <= ticks.sent
      /\ \A k \in loads : k.n \in Nat /\ k.waiting \in Nat /\ LoadIsGood(k)
  BY DEF DeskType, LoadSent, NumbersHold
<1>2. ticks.sent <= ticks'.sent /\ ticks'.sent \in Nat
  BY <1>1
<1>3. ASSUME NEW k \in loads PROVE LoadIsGood(k)'
  <2>1. k.n <= ticks'.sent /\ k.waiting <= ticks'.clicks
    BY <1>1, <1>2 DEF LoadIsGood
  <2>2. k.waiting # ticks.clicks + 1
    BY <1>1 DEF LoadIsGood
  <2>3. \A c \in calls' : k.waiting = c.n => c.at = "loading"
    BY <1>1, <2>2 DEF LoadIsGood
  <2> QED BY <1>1, <2>1, <2>3 DEF LoadIsGood
<1>4. CASE loads' = loads
  BY <1>1, <1>3, <1>4 DEF NumbersHold, LoadsAreApart
<1>5. ASSUME NEW l \in LoadSent, IsSent(l), loads' = loads \cup {l}, l \notin loads
      PROVE  LoadsAreApart' /\ (\A k \in loads' : LoadIsGood(k)') /\ ticks'.last <= ticks'.sent
  <2>1. ticks'.sent = ticks.sent + 1 /\ l.n = ticks.sent + 1 /\ l.waiting \in Nat
    BY <1>5 DEF IsSent, LoadSent
  <2>2. \A k \in loads : k.n # l.n
    BY <1>1, <2>1 DEF LoadIsGood
  <2>3. LoadsAreApart'
    BY <1>5, <2>2 DEF NumbersHold, LoadsAreApart
  <2>4. LoadIsGood(l)'
    BY <1>1, <1>5, <2>1 DEF LoadIsGood
  <2> QED BY <1>1, <1>3, <1>5, <2>1, <2>3, <2>4
<1> QED BY <1>4, <1>5 DEF LoadsGrow

LEMMA TickFacts ==
  ASSUME NEW p \in DeskPages, DeskType(p)
  PROVE  /\ ClickCounts => ticks'.clicks = ticks.clicks + 1 /\ ticks'.clicks <= MaxClicks
                           /\ ticks'.sent = ticks.sent /\ ticks'.last = ticks.last
         /\ ClickLoads => ticks'.clicks = ticks.clicks + 1 /\ ticks'.clicks <= MaxClicks
                          /\ ticks'.sent = ticks.sent + 1 /\ ticks'.last = ticks.last
         /\ DeskFault => ticks'.clicks = ticks.clicks
                         /\ ticks'.sent = ticks.sent /\ ticks'.last = ticks.last
         /\ OneMoreLoad => ticks'.clicks = ticks.clicks
                           /\ ticks'.sent = ticks.sent + 1 /\ ticks'.last = ticks.last
         /\ ClickCounts \/ ClickLoads \/ DeskFault \/ OneMoreLoad
              => ticks' \in [clicks : Nat, faults : Nat, sent : Nat, last : Nat]
<1>1. ticks \in [clicks : Nat, faults : Nat, sent : Nat, last : Nat] /\ MaxClicks \in Nat
  BY DeskAssumption DEF DeskType
<1>2. ClickCounts => ticks'.clicks = ticks.clicks + 1 /\ ticks'.clicks <= MaxClicks
                         /\ ticks'.sent = ticks.sent /\ ticks'.last = ticks.last
  BY <1>1 DEF ClickCounts
<1>3. ClickLoads => /\ ticks'.clicks = ticks.clicks + 1 /\ ticks'.clicks <= MaxClicks
                     /\ ticks'.sent = ticks.sent + 1 /\ ticks'.last = ticks.last
                     /\ ticks' \in [clicks : Nat, faults : Nat, sent : Nat, last : Nat]
  <2> SUFFICES ASSUME ClickLoads
               PROVE  /\ ticks'.clicks = ticks.clicks + 1 /\ ticks'.clicks <= MaxClicks
                      /\ ticks'.sent = ticks.sent + 1 /\ ticks'.last = ticks.last
                      /\ ticks' \in [clicks : Nat, faults : Nat, sent : Nat, last : Nat]
    OBVIOUS
  <2>1. PICK x : x = [ticks EXCEPT !.clicks = ticks.clicks + 1]
    OBVIOUS
  <2>2. /\ x \in [clicks : Nat, faults : Nat, sent : Nat, last : Nat] /\ x.clicks = ticks.clicks + 1
        /\ x.sent = ticks.sent /\ x.last = ticks.last
    BY <1>1, <2>1
  <2>3. ticks' = [x EXCEPT !.sent = ticks.sent + 1] /\ ticks.clicks < MaxClicks
    BY <2>1 DEF ClickLoads
  <2> QED BY <1>1, <2>2, <2>3
<1>4. DeskFault => ticks'.clicks = ticks.clicks
                       /\ ticks'.sent = ticks.sent /\ ticks'.last = ticks.last
  BY <1>1 DEF DeskFault
<1>5. OneMoreLoad => ticks'.clicks = ticks.clicks
                         /\ ticks'.sent = ticks.sent + 1 /\ ticks'.last = ticks.last
  BY <1>1 DEF OneMoreLoad
<1>6. ClickCounts \/ ClickLoads \/ DeskFault \/ OneMoreLoad
        => ticks' \in [clicks : Nat, faults : Nat, sent : Nat, last : Nat]
  <2>1. ClickCounts => ticks' \in [clicks : Nat, faults : Nat, sent : Nat, last : Nat]
    BY <1>1 DEF ClickCounts
  <2>2. ClickLoads => ticks' \in [clicks : Nat, faults : Nat, sent : Nat, last : Nat]
    BY <1>3
  <2>3. DeskFault => ticks' \in [clicks : Nat, faults : Nat, sent : Nat, last : Nat]
    BY <1>1 DEF DeskFault
  <2>4. OneMoreLoad => ticks' \in [clicks : Nat, faults : Nat, sent : Nat, last : Nat]
    BY <1>1 DEF OneMoreLoad
  <2> QED BY <2>1, <2>2, <2>3, <2>4
<1> QED BY <1>2, <1>3, <1>4, <1>5, <1>6

\* The load that is sent
LEMMA LoadIs ==
  ASSUME NEW p \in DeskPages, DeskType(p), NumbersHold(p), NEW k \in PageKeys, NEW n \in Nat
  PROVE  \E l \in LoadSent : /\ IsSent(l) /\ l.key = k /\ l.waiting = n /\ l \notin loads
                             /\ LoadsAlso(k, n) = loads \cup {l}
<1>1. PICK l : l = [n |-> ticks.sent + 1, key |-> k, read |-> FALSE, got |-> {}, waiting |-> n]
  OBVIOUS
<1>2. ticks.sent \in Nat /\ \A j \in loads : j.n \in Nat /\ j.n <= ticks.sent
  BY DEF DeskType, LoadSent, NumbersHold, LoadIsGood
<1>3. l \in LoadSent /\ IsSent(l) /\ l.key = k /\ l.waiting = n
  BY <1>1, <1>2 DEF LoadSent, IsSent
<1>4. l \notin loads
  BY <1>2, <1>3 DEF IsSent
<1>5. LoadsAlso(k, n) = loads \cup {l}
  BY <1>1 DEF LoadsAlso
<1> QED BY <1>3, <1>4, <1>5

-----------------------------------------------------------------------------
(* Dialogs *)

\* No call is sent from a dialog with its own flag.
LEMMA LocalsFollow ==
  ASSUME NEW p \in DeskPages, DeskType(p), NumbersHold(p), LocalsHold(p),
         ticks'.clicks \in {ticks.clicks, ticks.clicks + 1},
         \A c \in calls' : c \in calls \/ ~Handler(p, c).local,
         SinceFollows(p, desk, desk'),
         \A x \in DialogsOf(p) : desk'.entries[x] \in {desk.entries[x], NoEntry, Unsent}
  PROVE  LocalsHold(p)'
<1>1. ticks.clicks \in Nat /\ desk.since \in Nat /\ desk.since <= ticks.clicks
  BY DEF DeskType, OpenDesk, LocalsHold
<1>2. desk'.since \in {0, desk.since, ticks.clicks}
  BY DEF SinceFollows
<1>3. desk'.since <= ticks'.clicks
  BY <1>1, <1>2
<1>4. ASSUME NEW c \in calls', NEW d \in calls', Handler(p, c).local, SameEntry(c, d), c.entry # NoEntry
      PROVE  c = d
  <2>1. c \in calls /\ d \in calls
    BY <1>4, SameHandler DEF SameEntry
  <2> QED BY <1>4, <2>1 DEF LocalsHold
<1>5. ASSUME NEW c \in calls', Handler(p, c).local, c.entry # NoEntry,
             desk'.entries[Handler(p, c).dialog] = c.entry
      PROVE  c.n > desk'.since
  <2>1. c \in calls /\ Counted(p, c)
    BY <1>5 DEF Counted, Locks
  <2>2. /\ Handler(p, c).dialog \in DialogsOf(p) /\ Handler(p, c) \in p.calls
        /\ c.entry # Unsent /\ c \in Act /\ 0 < c.n
    BY <2>1, CallFacts DEF NumbersHold, CallIsGood
  <2>3. desk.entries[Handler(p, c).dialog] = c.entry
    BY <1>5, <2>2
  <2>4. c.n > desk.since /\ c.n > 0 /\ c.n \in Nat
    BY <1>1, <1>5, <2>1, <2>2, <2>3 DEF LocalsHold, Act
  <2>5. Handler(p, c).dialog \in LocalDialogs(p)
    BY <1>5, <2>2 DEF LocalDialogs
  <2> QED BY <1>5, <2>2, <2>4, <2>5 DEF SinceFollows
<1> QED BY <1>3, <1>4, <1>5 DEF LocalsHold

LEMMA DialogKeeps ==
  ASSUME NEW p \in DeskPages, PageInv(p), UNCHANGED <<shown, loads, calls, done, mishaps, ticks>>,
         desk' \in OpenDesk(p), desk'.key = desk.key, desk'.held = desk.held,
         BlankWhenClosed(p, desk'), SinceFollows(p, desk, desk'),
         \A x \in DialogsOf(p) : desk'.entries[x] \in {desk.entries[x], NoEntry, Unsent}
  PROVE  PageInv(p)'
<1> USE DEF PageInv
<1>1. DeskType(p)'
  BY DEF DeskType
<1>2. NumbersHold(p)'
  <2>1. \A l : LoadIsGood(l)' <=> LoadIsGood(l)
    BY DEF LoadIsGood
  <2>2. CallsAreApart' /\ LoadsAreApart' /\ \A l \in loads' : LoadIsGood(l)'
    BY <2>1 DEF NumbersHold, CallsAreApart, LoadsAreApart
  <2>3. OneKey(p)'
    BY DEF NumbersHold, OneKey
  <2>4. ticks.clicks \in Nat /\ ticks.clicks <= MaxClicks /\ ticks.last <= ticks.sent
    BY DEF NumbersHold, DeskType
  <2>5. \A x \in DialogsOf(p) : desk'.entries[x] = desk.entries[x] \/ EntryIsGood(desk'.entries[x], ticks'.clicks)
    BY <2>4 DEF EntryIsGood, NoEntry
  <2> QED BY <1>1, <2>2, <2>3, <2>4, <2>5, NumbersFollow
<1>3. FlagsHold(p)'
  BY FlagsStay
<1>4. ListHolds(p)'
  BY HalvesStay, ListKeeps
<1>5. EntriesHold(p)'
  BY EntriesKeep
<1>6. RowsHold(p)'
  BY RowsKeep DEF LoadsGrow
<1>7. LocalsHold(p)'
  BY LocalsFollow DEF DeskType
<1> QED BY <1>1, <1>2, <1>3, <1>4, <1>5, <1>6, <1>7

LEMMA OpenDialogKeeps ==
  ASSUME NEW p \in DeskPages, PageInv(p), OpenDialog
  PROVE  PageInv(p)'
<1>1. desk \in OpenDesk(p) /\ ThePage = p /\ BlankWhenClosed(p, desk) /\ desk.dialog = None /\ ticks.clicks \in Nat
  BY DeskIs DEF PageInv, DeskType, EntriesHold, OpenDialog
<1> DEFINE OpenedAs(d, n, at) ==
       \/ desk' = [desk EXCEPT !.dialog = d.name, !.entries[d.name] = n, !.since = at]
       \/ \E r \in Rows : desk' = [desk EXCEPT !.dialog = d.name, !.row = r, !.entries[d.name] = n, !.since = at]
<1>2. PICK d \in p.dialogs : \E n \in {FirstEntry(d), Unsent} : OpenedAs(d, n, Since(d))
  BY <1>1 DEF OpenDialog
<1>20. PICK n, since : n \in {FirstEntry(d), Unsent} /\ since = Since(d) /\ OpenedAs(d, n, since)
  BY <1>2
<1>3. d.name \in DialogsOf(p) /\ Unsent \in Nat /\ None \notin DialogsOf(p)
  BY DeskAssumption, ThePageIs DEF DialogsOf, Unsent
<1>4. /\ FirstEntry(d) \in {desk.entries[d.name], NoEntry, Unsent}
      /\ ~IsKept(p, d.name) => FirstEntry(d) \in {NoEntry, Unsent}
  BY ThePageIs, KeptIs DEF FirstEntry
<1>5. n \in Nat /\ n \in {desk.entries[d.name], NoEntry, Unsent}
  <2>1. desk.entries[d.name] \in Nat /\ NoEntry \in Nat
    BY <1>1, <1>3 DEF OpenDesk, NoEntry
  <2> QED BY <1>20, <1>3, <1>4, <2>1
<1>6. since \in Nat /\ (since = 0 \/ (since = ticks.clicks /\ d.name \in LocalDialogs(p)))
  BY <1>1, <1>20 DEF Since
<1>7. PICK a : a = [desk EXCEPT !.dialog = d.name]
  OBVIOUS
<1>8. /\ a \in OpenDesk(p) /\ a.key = desk.key /\ a.held = desk.held /\ a.dialog = d.name
      /\ a.entries = desk.entries
  BY <1>1, <1>3, <1>7, DialogSet
<1>9. PICK b \in OpenDesk(p) :
        /\ desk' = [b EXCEPT !.entries[d.name] = n, !.since = since]
        /\ b.key = desk.key /\ b.held = desk.held /\ b.dialog = d.name /\ b.entries = desk.entries
  <2>1. CASE desk' = [desk EXCEPT !.dialog = d.name, !.entries[d.name] = n, !.since = since]
    BY <1>7, <1>8, <2>1
  <2>2. ASSUME NEW r \in Rows,
               desk' = [desk EXCEPT !.dialog = d.name, !.row = r, !.entries[d.name] = n, !.since = since]
        PROVE  \E b \in OpenDesk(p) :
                 /\ desk' = [b EXCEPT !.entries[d.name] = n, !.since = since]
                 /\ b.key = desk.key /\ b.held = desk.held /\ b.dialog = d.name /\ b.entries = desk.entries
    <3>1. PICK b : b = [a EXCEPT !.row = r]
      OBVIOUS
    <3>2. desk' = [b EXCEPT !.entries[d.name] = n, !.since = since]
      BY <1>7, <2>2, <3>1
    <3>3. b \in OpenDesk(p) /\ b.key = a.key /\ b.held = a.held /\ b.dialog = a.dialog /\ b.entries = a.entries
      BY <1>8, <3>1, RowSet DEF Places
    <3> QED BY <1>8, <3>2, <3>3
  <2> QED BY <1>20, <2>1, <2>2
<1>10. PICK e : e = [b EXCEPT !.entries[d.name] = n]
  OBVIOUS
<1>11. /\ e \in OpenDesk(p) /\ e.key = desk.key /\ e.held = desk.held /\ e.dialog = d.name
       /\ e.entries[d.name] = n
       /\ \A y \in DialogsOf(p) \ {d.name} : e.entries[y] = desk.entries[y]
  BY <1>3, <1>5, <1>9, <1>10, EntrySet
<1>12. desk' = [e EXCEPT !.since = since]
  BY <1>9, <1>10
<1>13. /\ desk' \in OpenDesk(p) /\ desk'.key = desk.key /\ desk'.held = desk.held /\ desk'.dialog = d.name
       /\ desk'.entries[d.name] = n /\ desk'.since = since
       /\ \A y \in DialogsOf(p) \ {d.name} : desk'.entries[y] = desk.entries[y]
  <2>1. PICK x : x = desk'
    OBVIOUS
  <2>2. x = [e EXCEPT !.since = since]
    BY <1>12, <2>1
  <2>3. /\ x \in OpenDesk(p) /\ x.since = since /\ x.key = e.key /\ x.held = e.held /\ x.dialog = e.dialog
        /\ x.row = e.row /\ x.entries = e.entries
    BY <1>6, <1>11, <2>2, SinceSet
  <2> QED BY <1>11, <2>1, <2>3
<1>14. \A x \in DialogsOf(p) : desk'.entries[x] \in {desk.entries[x], NoEntry, Unsent}
  BY <1>5, <1>13
<1>15. BlankWhenClosed(p, desk')
  BY <1>1, <1>3, <1>13 DEF BlankWhenClosed
<1>16. SinceFollows(p, desk, desk')
  <2>1. ASSUME NEW y \in LocalDialogs(p), since # 0 PROVE desk'.entries[y] \in {NoEntry, Unsent}
    <3>1. y \in DialogsOf(p) /\ ~IsKept(p, y)
      BY LocalsAre
    <3>2. CASE y = d.name
      BY <1>20, <1>4, <1>13, <3>1, <3>2
    <3>3. CASE y # d.name
      BY <1>1, <1>3, <1>13, <3>1, <3>3 DEF BlankWhenClosed
    <3> QED BY <3>2, <3>3
  <2> QED BY <1>6, <1>13, <2>1 DEF SinceFollows
<1> QED BY <1>13, <1>14, <1>15, <1>16, DialogKeeps DEF OpenDialog

LEMMA TypeEntryKeeps ==
  ASSUME NEW p \in DeskPages, PageInv(p), TypeEntry
  PROVE  PageInv(p)'
<1>1. desk \in OpenDesk(p) /\ desk.dialog \in DialogsOf(p) /\ Unsent \in Nat
  BY DeskAssumption DEF PageInv, DeskType, TypeEntry, OnScreen, OpenDesk, Unsent
<1>2. desk' = [desk EXCEPT !.entries[desk.dialog] = Unsent]
  BY DEF TypeEntry
<1>3. /\ desk' \in OpenDesk(p) /\ desk'.key = desk.key /\ desk'.held = desk.held
      /\ desk'.dialog = desk.dialog /\ desk'.entries[desk.dialog] = Unsent /\ desk'.since = desk.since
      /\ \A y \in DialogsOf(p) \ {desk.dialog} : desk'.entries[y] = desk.entries[y]
  BY <1>1, <1>2, EntrySet
<1>4. \A x \in DialogsOf(p) : desk'.entries[x] \in {desk.entries[x], NoEntry, Unsent}
  BY <1>3
<1>5. BlankWhenClosed(p, desk')
  BY <1>3 DEF BlankWhenClosed, PageInv, EntriesHold
<1> QED BY <1>3, <1>4, <1>5, DialogKeeps DEF TypeEntry, SinceFollows

LEMMA CloseDialogKeeps ==
  ASSUME NEW p \in DeskPages, PageInv(p), CloseDialog
  PROVE  PageInv(p)'
<1>1. desk \in OpenDesk(p) /\ desk.dialog # None
  BY DEF PageInv, DeskType, CloseDialog, OnScreen
<1>2. desk' = Closed(desk)
  BY DEF CloseDialog
<1>3. FollowsFrom(p, desk, desk') /\ desk'.held = desk.held
  BY <1>1, <1>2, ClosedFacts
<1>4. BlankWhenClosed(p, desk') /\ SinceFollows(p, desk, desk')
  BY <1>3 DEF FollowsFrom, PageInv, EntriesHold
<1> QED BY <1>3, <1>4, DialogKeeps DEF FollowsFrom, CloseDialog

-----------------------------------------------------------------------------
(* Loads that nothing waits for *)

LEMMA LoadIsSent ==
  ASSUME NEW p \in DeskPages, PageInv(p), UNCHANGED <<shown, calls, done, mishaps>>, ClickLoads,
         NEW k \in PageKeys, loads' = LoadsAlso(k, 0), p.keyed \/ k = desk.key,
         desk' \in OpenDesk(p), desk'.key = k, desk'.held = desk.held,
         \A x \in DialogsOf(p) : desk'.entries[x] \in {desk.entries[x], NoEntry, Unsent},
         BlankWhenClosed(p, desk'), SinceFollows(p, desk, desk')
  PROVE  PageInv(p)'
<1> USE DEF PageInv
<1>1. PICK l \in LoadSent : /\ IsSent(l) /\ l.key = k /\ l.waiting = 0 /\ l \notin loads
                            /\ loads' = loads \cup {l}
  BY LoadIs
<1>2. /\ ticks'.clicks = ticks.clicks + 1 /\ ticks'.clicks <= MaxClicks
      /\ ticks'.sent = ticks.sent + 1 /\ ticks'.last = ticks.last
      /\ ticks' \in [clicks : Nat, faults : Nat, sent : Nat, last : Nat]
  BY TickFacts
<1>3. DeskType(p)'
  BY <1>1, <1>2 DEF DeskType
<1>4. LoadsGrow
  BY <1>1 DEF LoadsGrow
<1>5. NumbersHold(p)'
  <2>1. \A c \in calls : 0 # c.n
    BY DEF NumbersHold, CallIsGood
  <2>2. 0 <= ticks.clicks /\ ticks'.sent = IF loads' = loads THEN ticks.sent ELSE ticks.sent + 1
    BY <1>1, <1>2 DEF DeskType
  <2>3. LoadsAreApart' /\ (\A j \in loads' : LoadIsGood(j)') /\ ticks'.last <= ticks'.sent
    BY <1>1, <1>2, <1>4, <2>1, <2>2, LoadsFollow
  <2>4. OneKey(p)'
    BY <1>1 DEF NumbersHold, OneKey
  <2>5. CallsAreApart'
    BY DEF NumbersHold, CallsAreApart
  <2>6. \A x \in DialogsOf(p) : desk'.entries[x] = desk.entries[x] \/ EntryIsGood(desk'.entries[x], ticks'.clicks)
    BY <1>2 DEF EntryIsGood, NoEntry, DeskType
  <2> QED BY <1>2, <1>3, <2>3, <2>4, <2>5, <2>6, NumbersFollow
<1>6. FlagsHold(p)'
  BY FlagsStay
<1>7. ListHolds(p)'
  BY <1>1, <1>2, ListSends
<1>8. EntriesHold(p)'
  BY EntriesKeep
<1>9. RowsHold(p)'
  BY <1>2, <1>4, RowsKeep
<1>10. LocalsHold(p)'
  BY <1>2, LocalsFollow
<1> QED BY <1>3, <1>5, <1>6, <1>7, <1>8, <1>9, <1>10

LEMMA ReloadKeeps ==
  ASSUME NEW p \in DeskPages, PageInv(p), Reload
  PROVE  PageInv(p)'
<1>1. desk \in OpenDesk(p) /\ desk.key \in PageKeys /\ BlankWhenClosed(p, desk)
  BY DEF PageInv, DeskType, OpenDesk, EntriesHold
<1>2. FollowsFrom(p, desk, desk') /\ desk'.held = desk.held
  BY <1>1, HiddenFacts DEF Reload, PageInv
<1> QED BY <1>1, <1>2, LoadIsSent DEF FollowsFrom, Reload

LEMMA SelectKeyKeeps ==
  ASSUME NEW p \in DeskPages, PageInv(p), SelectKey
  PROVE  PageInv(p)'
<1>1. desk \in OpenDesk(p) /\ BlankWhenClosed(p, desk) /\ p.keyed
  BY DeskIs DEF PageInv, DeskType, EntriesHold, SelectKey
<1>2. PICK k \in Keys : desk' = Veiled([desk EXCEPT !.key = k]) /\ loads' = LoadsAlso(k, 0)
  BY DEF SelectKey
<1>3. PICK d : d = [desk EXCEPT !.key = k]
  OBVIOUS
<1>4. /\ d \in OpenDesk(p) /\ d.key = k /\ d.held = desk.held /\ d.dialog = desk.dialog
      /\ d.entries = desk.entries /\ d.since = desk.since
  BY <1>1, <1>3, KeySet DEF PageKeys
<1>5. BlankWhenClosed(p, d)
  BY <1>1, <1>4 DEF BlankWhenClosed
<1>6. FollowsFrom(p, d, desk') /\ desk'.held = d.held
  BY <1>2, <1>3, <1>4, HiddenFacts DEF PageInv
<1>7. SinceFollows(p, d, desk') => SinceFollows(p, desk, desk')
  BY <1>4 DEF SinceFollows
<1> QED BY <1>1, <1>2, <1>4, <1>5, <1>6, <1>7, LoadIsSent DEF FollowsFrom, SelectKey, PageKeys

-----------------------------------------------------------------------------
(* A load is read, a row announced *)

\* What is known of a guarded row is what a load of it would list.
LEMMA GuardedIsListed ==
  ASSUME NEW p \in DeskPages, PageInv(p), NEW a \in done, IsGuarded(p, a), NEW l \in loads,
         Handler(p, a).then # "notes"
  PROVE  a \in ListedOn(p, l.key)
<1>1. a.of # Announced.name
  BY AnnouncedFacts
<1>2. HandlerOfPage(Handler(p, a), p)
  BY <1>1, HandlerFacts DEF PageInv, NumbersHold, EffectIsGood
<1>3. ~p.keyed /\ ~Handler(p, a).queues
  BY <1>2 DEF HandlerOfPage, IsGuarded
<1>4. l.key = 1 /\ a.key = 1
  BY <1>3 DEF PageInv, NumbersHold, OneKey
<1> QED BY <1>3, <1>4 DEF ListedOn, Waits

LEMMA AwaitedIsListed ==
  ASSUME NEW p \in DeskPages, PageInv(p), NEW a, NEW c \in calls, SameRow(c, a), c.at = "loading"
  PROVE  Handler(p, a).then # "notes"
<1>1. Handler(p, c) = Handler(p, a)
  BY SameHandler DEF SameRow
<1>2. Handler(p, c).then = "awaits"
  BY DEF PageInv, NumbersHold, CallIsGood
<1> QED BY <1>1, <1>2

LEMMA LoadIsReadKeeps ==
  ASSUME NEW p \in DeskPages, PageInv(p), NEW l \in loads, LoadIsRead(l)
  PROVE  PageInv(p)'
<1> USE DEF PageInv
<1>1. l \in LoadSent /\ ListedOn(p, l.key) \subseteq done
  BY DEF DeskType, ListedOn
<1>2. Listed(l.key) = ListedOn(p, l.key)
  BY DeskIs DEF DeskType, Listed, ListedOn
<1>3. PICK m : m = [l EXCEPT !.read = TRUE, !.got = ListedOn(p, l.key)]
  OBVIOUS
<1>4. /\ m \in LoadSent /\ m.n = l.n /\ m.key = l.key /\ m.read /\ m.got = ListedOn(p, l.key)
      /\ m.waiting = l.waiting
  <2>1. PICK k : k = [l EXCEPT !.read = TRUE]
    OBVIOUS
  <2>2. k \in LoadSent /\ k.n = l.n /\ k.key = l.key /\ k.read /\ k.waiting = l.waiting
    BY <1>1, <2>1 DEF LoadSent
  <2>3. m = [k EXCEPT !.got = ListedOn(p, l.key)]
    BY <1>3, <2>1
  <2>4. ListedOn(p, l.key) \in SUBSET Act
    BY <1>1 DEF DeskType
  <2> QED BY <2>2, <2>3, <2>4 DEF LoadSent
<1>5. loads' = (loads \ {l}) \cup {m} /\ UNCHANGED <<desk, shown, calls, done, mishaps, ticks>>
  BY <1>2, <1>3 DEF LoadIsRead
<1>6. DeskType(p)'
  BY <1>4, <1>5 DEF DeskType
<1>7. NumbersHold(p)'
  <2>1. \A k : LoadIsGood(k)' <=> LoadIsGood(k)
    BY <1>5 DEF LoadIsGood
  <2>2. LoadIsGood(m)
    BY <1>4 DEF NumbersHold, LoadIsGood
  <2>3. \A k \in loads' : LoadIsGood(k)'
    BY <1>5, <2>1, <2>2 DEF NumbersHold
  <2>4. LoadsAreApart' /\ CallsAreApart'
    BY <1>4, <1>5 DEF NumbersHold, LoadsAreApart, CallsAreApart
  <2>5. OneKey(p)'
    BY <1>4, <1>5 DEF NumbersHold, OneKey
  <2>6. ticks.clicks \in Nat /\ ticks.clicks <= MaxClicks /\ ticks.last <= ticks.sent
    BY DEF NumbersHold, DeskType
  <2> QED BY <1>5, <1>6, <2>3, <2>4, <2>5, <2>6, NumbersFollow
<1>8. FlagsHold(p)'
  BY <1>5, FlagsStay
<1>9. ListHolds(p)'
  <2> SUFFICES ASSUME mishaps' \subseteq {"crossed"}, NEW k \in loads', IsLatest(k)'
               PROVE  k.key = desk'.key /\ (k.read => Tells(p, k.got)')
    BY <1>4, <1>5 DEF ListHolds
  <2>1. \A rows : Tells(p, rows)' <=> Tells(p, rows)
    BY <1>5 DEF Tells, ListedOn, HalfDone
  <2>2. CASE k = m
    <3>1. IsLatest(l)
      BY <1>4, <1>5, <2>2 DEF IsLatest
    <3>2. l.key = desk.key
      BY <1>5, <3>1 DEF ListHolds
    <3>3. Tells(p, ListedOn(p, desk.key))
      BY DEF Tells
    <3> QED BY <1>4, <1>5, <2>1, <2>2, <3>2, <3>3
  <2>3. CASE k \in loads /\ k # l
    <3>1. IsLatest(k)
      BY <1>4, <1>5 DEF IsLatest
    <3> QED BY <1>5, <2>1, <2>3, <3>1 DEF ListHolds
  <2> QED BY <1>5, <2>2, <2>3
<1>10. EntriesHold(p)'
  <2>1. BlankWhenClosed(p, desk')
    BY <1>5 DEF EntriesHold
  <2> QED BY <1>5, <2>1, EntriesKeep
<1>11. RowsHold(p)'
  <2> SUFFICES ASSUME mishaps = {}, NEW a \in done, IsGuarded(p, a)
               PROVE  Known(p, a)' \/ Awaited(a)'
    BY <1>5 DEF RowsHold, IsGuarded, SameRow
  <2>1. ASSUME NEW n, InLoads(a, n), Handler(p, a).then # "notes" PROVE InLoads(a, n)'
    BY <1>1, <1>4, <1>5, <2>1, GuardedIsListed DEF InLoads
  <2>2. CASE Known(p, a)
    BY <1>5, <2>1, <2>2 DEF Known
  <2>3. CASE Awaited(a)
    <3>1. PICK c \in calls : /\ SameRow(c, a) /\ c.at = "loading"
                             /\ \A k \in loads : k.waiting = c.n => InLoads(a, k.n)
      BY <2>3 DEF Awaited
    <3>2. Handler(p, a).then # "notes"
      BY <3>1, AwaitedIsListed
    <3>3. \A k \in loads' : k.waiting = c.n => InLoads(a, k.n)'
      BY <1>4, <1>5, <2>1, <3>1, <3>2
    <3> QED BY <1>5, <3>1, <3>3 DEF Awaited
  <2> QED BY <2>2, <2>3 DEF RowsHold
<1>12. LocalsHold(p)'
  BY <1>5 DEF LocalsHold
<1> QED BY <1>6, <1>7, <1>8, <1>9, <1>10, <1>11, <1>12

LEMMA StreamAnnouncesKeeps ==
  ASSUME NEW p \in DeskPages, PageInv(p), StreamAnnounces
  PROVE  PageInv(p)'
<1> USE DEF PageInv
<1>1. PICK r, e :
        /\ r \in Rows
        /\ e = [of |-> Announced.name, row |-> r, key |-> desk.key, entry |-> 0, n |-> ticks.clicks + 1,
                at |-> "sent"]
        /\ done' = done \cup {e}
        /\ \/ /\ ClickCounts
              /\ shown' = [shown EXCEPT !.rows = shown.rows \cup {e}]
              /\ mishaps' = mishaps \cup IF \E l \in loads : l.read THEN {"overwritten"} ELSE {}
           \/ /\ ticks.clicks < MaxClicks /\ DeskFault
              /\ mishaps' = mishaps \cup {"unread"}
              /\ UNCHANGED shown
        /\ UNCHANGED <<desk, loads, calls>>
  BY DEF StreamAnnounces
<1>2. desk.key \in PageKeys /\ ticks.clicks + 1 \in Nat
  BY DEF DeskType, OpenDesk
<1>3. e \in Act /\ e.of = Announced.name /\ e.key = desk.key /\ e.entry = 0 /\ e.at = "sent"
  <2>1. Announced.name \in HandlerNames /\ r \in Places
    BY <1>1 DEF HandlerNames, Places
  <2> QED BY <1>1, <1>2, <2>1 DEF Act
<1>4. /\ ticks'.clicks \in {ticks.clicks, ticks.clicks + 1} /\ ticks'.clicks <= MaxClicks
      /\ ticks'.sent = ticks.sent /\ ticks'.last = ticks.last
      /\ ticks' \in [clicks : Nat, faults : Nat, sent : Nat, last : Nat]
  BY <1>1, TickFacts DEF NumbersHold
<1>5. /\ shown' \in [key : PageKeys \cup {0}, rows : SUBSET Act, notes : SUBSET Act]
      /\ shown'.key = shown.key /\ shown'.notes = shown.notes
      /\ shown'.rows = shown.rows \cup {e} \/ (shown' = shown /\ "unread" \in mishaps')
  BY <1>1, <1>3 DEF DeskType
<1>6. DeskType(p)'
  BY <1>1, <1>3, <1>4, <1>5 DEF DeskType
<1>7. NumbersHold(p)'
  <2>1. EffectIsGood(p, e)'
    <3>1. IsOfPage(p, e)
      BY <1>3 DEF IsOfPage
    <3>2. e.entry <= ticks'.clicks /\ e.entry = NoEntry
      BY <1>3, <1>4 DEF NoEntry
    <3> QED BY <3>1, <3>2 DEF EffectIsGood
  <2>2. LoadsAreApart' /\ (\A j \in loads' : LoadIsGood(j)') /\ ticks'.last <= ticks'.sent
    BY <1>1, <1>4, LoadsFollow DEF LoadsGrow
  <2>3. CallsAreApart' /\ OneKey(p)'
    BY <1>1, <1>3 DEF NumbersHold, CallsAreApart, OneKey
  <2> QED BY <1>1, <1>4, <1>6, <2>1, <2>2, <2>3, NumbersFollow
<1>8. FlagsHold(p)'
  BY <1>1, FlagsStay
<1>9. ListHolds(p)'
  <2> SUFFICES ASSUME mishaps' \subseteq {"crossed"} PROVE
         /\ loads = {} => shown'.key = desk.key /\ Tells(p, shown.rows)'
         /\ \A l \in loads : IsLatest(l)' => l.key = desk.key /\ (l.read => Tells(p, l.got)')
    BY <1>1 DEF ListHolds
  <2>1. mishaps \subseteq {"crossed"} /\ shown'.rows = shown.rows \cup {e} /\ \A l \in loads : ~l.read
    BY <1>1, <1>5
  <2>2. ListedOn(p, desk.key)' = ListedOn(p, desk.key) \cup {e}
    BY <1>1, <1>3, AnnouncedFacts DEF ListedOn
  <2>3. \A x : HalfDone(x) => HalfDone(x)'
    BY <1>1 DEF HalfDone
  <2>4. ASSUME loads = {} PROVE shown'.key = desk.key /\ Tells(p, shown.rows)'
    <3>1. shown.key = desk.key /\ Tells(p, shown.rows)
      BY <2>1, <2>4 DEF ListHolds
    <3> QED BY <1>1, <1>5, <2>1, <2>2, <2>3, <3>1 DEF Tells
  <2>5. ASSUME NEW l \in loads, IsLatest(l)' PROVE l.key = desk.key
    <3>1. IsLatest(l)
      BY <1>1, <1>4, <2>5 DEF IsLatest
    <3> QED BY <2>1, <3>1 DEF ListHolds
  <2> QED BY <2>1, <2>4, <2>5
<1>10. EntriesHold(p)'
  <2>1. BlankWhenClosed(p, desk') /\ e.entry = NoEntry /\ mishaps \subseteq mishaps'
    BY <1>1, <1>3 DEF EntriesHold, NoEntry
  <2> QED BY <1>1, <2>1, EntriesKeep
<1>11. RowsHold(p)'
  <2>1. LoadsGrow /\ ~IsGuarded(p, e) /\ mishaps \subseteq mishaps' /\ shown.rows \subseteq shown'.rows
    BY <1>1, <1>3, <1>5, AnnouncedFacts DEF LoadsGrow
  <2> QED BY <1>1, <1>4, <1>5, <2>1, RowsKeep
<1>12. LocalsHold(p)'
  BY <1>1, <1>4, LocalsFollow DEF SinceFollows
<1> QED BY <1>6, <1>7, <1>8, <1>9, <1>10, <1>11, <1>12

\* The worker does what was queued.
LEMMA WorkerRunsKeeps ==
  ASSUME NEW p \in DeskPages, PageInv(p), WorkerRuns
  PROVE  PageInv(p)'
<1> USE DEF PageInv
<1>0. PICK e \in done :
        /\ Handler(p, e).queues
        /\ done' = done \cup {[e EXCEPT !.at = "worked"]} /\ UNCHANGED <<desk, shown, loads, calls, ticks>>
        /\ mishaps' = mishaps \cup
             IF \E l \in loads : ~l.read /\ \A k \in loads : k.n <= l.n THEN {} ELSE {"later"}
  BY DeskIs DEF WorkerRuns, DeskType
<1>1. PICK w :
        /\ Handler(p, e).queues /\ w = [e EXCEPT !.at = "worked"]
        /\ done' = done \cup {w} /\ UNCHANGED <<desk, shown, loads, calls, ticks>>
        /\ mishaps' = mishaps \cup
             IF \E l \in loads : ~l.read /\ \A k \in loads : k.n <= l.n THEN {} ELSE {"later"}
  BY <1>0
<1>2. e \in Act /\ EffectIsGood(p, e) /\ e.of # Announced.name
  BY <1>1, AnnouncedFacts DEF DeskType, NumbersHold
<1>3. /\ w \in Act /\ w.of = e.of /\ w.key = e.key /\ w.entry = e.entry /\ w.at = "worked"
      /\ Handler(p, w) = Handler(p, e)
  BY <1>1, <1>2, MovedCall, SameHandler
<1>4. HandlerOfPage(Handler(p, w), p) /\ Handler(p, w).queues
  BY <1>1, <1>2, <1>3, HandlerFacts DEF EffectIsGood
<1>5. w.entry = NoEntry /\ ~IsGuarded(p, w)
  BY <1>2, <1>3, <1>4 DEF EffectIsGood, HandlerOfPage, IsGuarded
<1>6. DeskType(p)'
  BY <1>1, <1>3 DEF DeskType
<1>7. NumbersHold(p)'
  <2>1. EffectIsGood(p, w)'
    BY <1>1, <1>2, <1>3 DEF EffectIsGood, IsOfPage
  <2>2. ASSUME NEW l \in loads' PROVE LoadIsGood(l)'
    <3>1. LoadIsGood(l)
      BY <1>1 DEF NumbersHold
    <3> QED BY <1>1, <3>1 DEF LoadIsGood
  <2>3. CallsAreApart' /\ LoadsAreApart' /\ OneKey(p)'
    BY <1>1, <1>3 DEF NumbersHold, CallsAreApart, LoadsAreApart, OneKey
  <2>4. ticks.clicks \in Nat /\ ticks.clicks <= MaxClicks /\ ticks.last <= ticks.sent
    BY DEF NumbersHold, DeskType
  <2> QED BY <1>1, <1>6, <2>1, <2>2, <2>3, <2>4, NumbersFollow
<1>8. FlagsHold(p)'
  BY <1>1, FlagsStay
<1>9. ListHolds(p)'
  <2> SUFFICES ASSUME mishaps' \subseteq {"crossed"} PROVE
         /\ loads # {}
         /\ \A k \in loads : IsLatest(k)' => k.key = desk.key /\ ~k.read
    BY <1>1 DEF ListHolds
  <2>1. PICK l \in loads : ~l.read /\ \A k \in loads : k.n <= l.n
    BY <1>1
  <2>2. ASSUME NEW k \in loads, IsLatest(k)' PROVE k.key = desk.key /\ ~k.read
    <3>1. IsLatest(k) /\ l.n <= k.n /\ k.n <= l.n
      BY <1>1, <2>1, <2>2 DEF IsLatest
    <3>2. k = l
      BY <3>1 DEF DeskType, LoadSent, NumbersHold, LoadsAreApart
    <3> QED BY <1>1, <2>1, <3>1, <3>2 DEF ListHolds
  <2> QED BY <2>1, <2>2
<1>10. EntriesHold(p)'
  <2>1. BlankWhenClosed(p, desk') /\ mishaps \subseteq mishaps'
    BY <1>1 DEF EntriesHold
  <2> QED BY <1>1, <1>5, <2>1, EntriesKeep
<1>11. RowsHold(p)'
  BY <1>1, <1>5, RowsKeep DEF LoadsGrow
<1>12. LocalsHold(p)'
  BY <1>1 DEF LocalsHold
<1> QED BY <1>6, <1>7, <1>8, <1>9, <1>10, <1>11, <1>12

-----------------------------------------------------------------------------
(* A click *)

\* The call, the desk once its flag is claimed and its entry kept
IsClick(p, h, r, c, d) ==
  /\ h \in p.calls /\ r \in Places
  /\ Offered(h, r) /\ Enabled(h, r)
  /\ c = [n |-> ticks.clicks + 1, of |-> h.name, row |-> r, key |-> desk.key, at |-> "sent", entry |-> Sends(h)]
  /\ d = Claimed(h, r, Kept(h, c.entry, desk))
  /\ calls' = calls \cup {c}
  /\ desk' = At("click", c, d)
  /\ mishaps' = mishaps \cup IF h.flag # None /\ Busy(h.flag) THEN {"crossed"} ELSE {}
  /\ ClickCounts /\ UNCHANGED <<shown, loads, done>>

LEMMA ClickFacts ==
  ASSUME NEW p \in DeskPages, PageInv(p), NEW h, NEW r, NEW c, NEW d, IsClick(p, h, r, c, d)
  PROVE  /\ c \in Act /\ c.n = ticks.clicks + 1 /\ c.of = h.name /\ c.row = r /\ c.key = desk.key
         /\ c.at = "sent" /\ c.entry = Sends(h) /\ Handler(p, c) = h /\ HandlerOfPage(h, p)
         /\ CallIsGood(p, c)'
         /\ c.entry = ticks.clicks + 1 \/ (c.entry # NoEntry => c.entry = desk.entries[h.dialog])
<1> USE DEF PageInv
<1>1. Handler(p, c) = h /\ HandlerOfPage(h, p)
  BY HandlerIs, ThePageIs DEF IsClick, Handler
<1>2. /\ desk.key \in PageKeys /\ desk.entries \in [DialogsOf(p) -> Nat] /\ ticks.clicks \in Nat
      /\ ticks.clicks + 1 \in Nat /\ ticks'.clicks = ticks.clicks + 1
  BY TickFacts DEF DeskType, OpenDesk, IsClick
<1>3. h.dialog # None => h.dialog \in DialogsOf(p)
  BY <1>1 DEF HandlerOfPage, DialogsOf
<1>4. \/ Sends(h) = NoEntry
      \/ h.dialog # None /\ Sends(h) = ticks.clicks + 1
      \/ h.dialog # None /\ Sends(h) = desk.entries[h.dialog] /\ Sends(h) # Unsent
  BY DEF Sends
<1>5. Sends(h) \in Nat /\ Sends(h) <= ticks.clicks + 1
  <2>1. CASE Sends(h) = NoEntry
    BY <1>2, <2>1 DEF NoEntry
  <2>2. CASE Sends(h) = ticks.clicks + 1
    BY <1>2, <2>2
  <2>3. CASE h.dialog # None /\ Sends(h) = desk.entries[h.dialog] /\ Sends(h) # Unsent
    <3>1. EntryIsGood(desk.entries[h.dialog], ticks.clicks) /\ desk.entries[h.dialog] \in Nat
      BY <1>2, <1>3, <2>3 DEF NumbersHold
    <3> QED BY <1>2, <2>3, <3>1 DEF EntryIsGood
  <2> QED BY <1>4, <2>1, <2>2, <2>3
<1>6. h.name \in HandlerNames
  BY DEF HandlerNames, IsClick
<1>7. /\ c \in Act /\ c.n = ticks.clicks + 1 /\ c.of = h.name /\ c.row = r /\ c.key = desk.key
      /\ c.at = "sent" /\ c.entry = Sends(h)
  BY <1>2, <1>5, <1>6 DEF IsClick, Act
<1>8. CallIsGood(p, c)'
  <2>1. IsOfPage(p, c) /\ c.of # Announced.name
    BY <1>1, <1>7 DEF IsOfPage, IsClick, HandlerOfPage
  <2>2. 0 < c.n /\ c.n <= ticks'.clicks /\ c.entry <= ticks'.clicks
    BY <1>2, <1>5, <1>7
  <2>3. c.entry # NoEntry => Handler(p, c).dialog # None
    BY <1>1, <1>4, <1>7
  <2> QED BY <1>7, <2>1, <2>2, <2>3 DEF CallIsGood
<1> QED BY <1>1, <1>4, <1>7, <1>8

LEMMA ClickedDesk ==
  ASSUME NEW p \in DeskPages, PageInv(p), NEW h, NEW r, NEW c, NEW d, IsClick(p, h, r, c, d)
  PROVE  /\ desk' \in OpenDesk(p) /\ desk'.key = desk.key /\ BlankWhenClosed(p, desk')
         /\ desk'.held = IF h.flag = None THEN desk.held ELSE Claim(desk.held, h.flag, r)
         /\ SinceFollows(p, desk, desk')
         /\ \A x \in DialogsOf(p) :
              \/ desk'.entries[x] \in {desk.entries[x], NoEntry, Unsent}
              \/ x = h.dialog /\ h.dialog # None /\ desk'.entries[x] = c.entry
<1> USE DEF PageInv
<1>1. /\ c \in Act /\ c.entry = Sends(h) /\ Handler(p, c) = h /\ HandlerOfPage(h, p) /\ CallIsGood(p, c)'
      /\ c.of = h.name
  BY ClickFacts
<1>2. desk \in OpenDesk(p) /\ BlankWhenClosed(p, desk) /\ h \in p.calls /\ r \in Places
  BY DEF DeskType, EntriesHold, IsClick
<1>3. c.entry \in Nat
  BY <1>1 DEF Act
<1>4. PICK e : e = Kept(h, c.entry, desk)
  OBVIOUS
<1>5. /\ e \in OpenDesk(p) /\ e.key = desk.key /\ e.held = desk.held /\ BlankWhenClosed(p, e)
      /\ e.since = desk.since
      /\ \A x \in DialogsOf(p) : \/ e.entries[x] = desk.entries[x]
                                 \/ x = h.dialog /\ h.dialog # None /\ e.entries[x] = c.entry
  <2>1. CASE h.dialog = None
    BY <1>2, <1>4, <2>1 DEF Kept
  <2>2. CASE h.dialog # None
    <3>1. e = [desk EXCEPT !.entries[h.dialog] = c.entry] /\ h.dialog \in DialogsOf(p)
      BY <1>1, <1>4, <2>2 DEF Kept, HandlerOfPage, DialogsOf
    <3>2. /\ e \in OpenDesk(p) /\ e.key = desk.key /\ e.held = desk.held /\ e.dialog = desk.dialog
          /\ e.since = desk.since
          /\ e.entries[h.dialog] = c.entry
          /\ \A y \in DialogsOf(p) \ {h.dialog} : e.entries[y] = desk.entries[y]
      BY <1>2, <1>3, <3>1, EntrySet
    <3>3. desk.dialog = h.dialog
      BY <2>2 DEF IsClick, Offered
    <3> QED BY <1>2, <2>2, <3>2, <3>3 DEF BlankWhenClosed
  <2> QED BY <2>1, <2>2
<1>6. /\ d \in OpenDesk(p) /\ d.key = e.key /\ d.entries = e.entries /\ d.dialog = e.dialog
      /\ d.since = e.since
      /\ d.held = IF h.flag = None THEN desk.held ELSE Claim(desk.held, h.flag, r)
  <2>1. d = Claimed(h, r, e)
    BY <1>4 DEF IsClick
  <2>2. CASE h.flag = None
    BY <1>5, <2>1, <2>2 DEF Claimed
  <2>3. CASE h.flag # None
    <3>1. PICK held : held = Claim(desk.held, h.flag, r)
      OBVIOUS
    <3>2. held \in SUBSET (FlagNames \X Places)
      BY <1>2, <3>1 DEF Claim, OpenDesk, FlagNames
    <3>3. d = [e EXCEPT !.held = held]
      BY <1>5, <2>1, <2>3, <3>1 DEF Claimed
    <3>4. /\ d \in OpenDesk(p) /\ d.key = e.key /\ d.entries = e.entries /\ d.dialog = e.dialog /\ d.held = held
          /\ d.since = e.since
      BY <1>5, <3>2, <3>3, HeldSet
    <3> QED BY <2>3, <3>1, <3>4
  <2> QED BY <2>2, <2>3
<1>7. BlankWhenClosed(p, d)
  BY <1>5, <1>6 DEF BlankWhenClosed
<1>8. IsOfPage(p, c) /\ c.of # Announced.name
  BY <1>1 DEF CallIsGood, IsOfPage
<1>9. desk' = At("click", c, d)
  BY DEF IsClick
<1>10. FollowsFrom(p, d, desk') /\ desk'.held = d.held
  BY <1>2, <1>6, <1>8, <1>9, AtFacts
<1>11. SinceFollows(p, desk, desk')
  BY <1>5, <1>6, <1>7, <1>10 DEF FollowsFrom, SinceFollows
<1> QED BY <1>5, <1>6, <1>7, <1>10, <1>11 DEF FollowsFrom

\* While a call that holds a flag for good is under way, its button is disabled.
LEMMA BusyIsDisabled ==
  ASSUME NEW p \in DeskPages, PageInv(p), NEW h, NEW r, NEW c, NEW d, IsClick(p, h, r, c, d),
         NEW b \in calls, Handler(p, b).flag = h.flag, h.flag # None
  PROVE  /\ ~IsWide(p, h.flag)
         /\ "crossed" \notin mishaps => "crossed" \in mishaps' /\ b.row # r
<1>1. "crossed" \notin mishaps \/ IsWide(p, h.flag) => <<h.flag, b.row>> \in desk.held
  BY DEF PageInv, FlagsHold, Alone
<1>2. Enabled(h, r) /\ h \in p.calls
  BY DEF IsClick
<1>3. <<h.flag, b.row>> \in desk.held => Busy(h.flag)
  BY DEF Busy
<1>4. IsWide(p, h.flag) => h.wide
  BY <1>2 DEF IsWide
<1>5. <<h.flag, b.row>> \in desk.held => ~h.wide /\ b.row # r
  BY <1>2, <1>3 DEF Enabled
<1>6. Busy(h.flag) => "crossed" \in mishaps'
  BY DEF IsClick
<1> QED BY <1>1, <1>3, <1>4, <1>5, <1>6

LEMMA ClickFlags ==
  ASSUME NEW p \in DeskPages, PageInv(p), NEW h, NEW r, NEW c, NEW d, IsClick(p, h, r, c, d)
  PROVE  FlagsHold(p)'
<1>1. /\ Handler(p, c) = h /\ c.row = r /\ calls' = calls \cup {c} /\ mishaps \subseteq mishaps'
      /\ desk'.held = IF h.flag = None THEN desk.held ELSE Claim(desk.held, h.flag, r)
  BY ClickFacts, ClickedDesk DEF IsClick
<1>2. ASSUME NEW b \in calls', LET f == Handler(p, b).flag IN
               f # None /\ ("crossed" \notin mishaps' \/ IsWide(p, f))
      PROVE  LET f == Handler(p, b).flag IN
               /\ <<f, b.row>> \in desk'.held
               /\ \A e \in calls' : Handler(p, e).flag = f => e = b
  <2>1. PICK f : f = Handler(p, b).flag
    OBVIOUS
  <2>2. /\ f # None /\ ("crossed" \notin mishaps' \/ IsWide(p, f))
        /\ "crossed" \notin mishaps \/ IsWide(p, f)
    BY <1>1, <1>2, <2>1
  <2>3. CASE f = h.flag
    <3>1. \A e \in calls : Handler(p, e).flag # f
      BY <1>1, <1>2, <2>1, <2>2, <2>3, BusyIsDisabled
    <3>2. b = c /\ <<f, r>> \in desk'.held
      BY <1>1, <1>2, <2>1, <2>2, <2>3, <3>1 DEF Claim
    <3> QED BY <1>1, <2>1, <3>1, <3>2
  <2>4. CASE f # h.flag
    <3>1. b \in calls /\ Alone(p, b)
      BY <1>1, <2>1, <2>4 DEF PageInv, FlagsHold
    <3>2. <<f, b.row>> \in desk.held /\ \A e \in calls : Handler(p, e).flag = f => e = b
      BY <2>1, <2>2, <3>1, <1>1, <1>2 DEF Alone
    <3> QED BY <1>1, <2>1, <2>4, <3>1, <3>2 DEF Claim
  <2> QED BY <2>3, <2>4
<1>3. \A b \in calls' : Alone(p, b)'
  BY <1>2 DEF Alone
<1>4. ASSUME NEW f \in desk'.held PROVE \E b \in calls' : Handler(p, b).flag = f[1]
  <2>1. CASE f \in desk.held
    BY <1>1, <2>1 DEF PageInv, FlagsHold
  <2>2. CASE f = <<h.flag, r>>
    BY <1>1, <2>2
  <2> QED BY <1>1, <1>4, <2>1, <2>2 DEF Claim
<1> QED BY <1>3, <1>4 DEF FlagsHold

\* What was sent from a dialog with its own flag since it was mounted disables it.
LEMMA SentIsDisabled ==
  ASSUME NEW p \in DeskPages, PageInv(p), NEW h, NEW r, NEW c, NEW d, IsClick(p, h, r, c, d), h.local,
         NEW b \in calls, Handler(p, b) = h, b.entry # NoEntry
  PROVE  desk.entries[h.dialog] # b.entry
<1>1. desk.since \in Nat /\ b.n \in Nat
  BY DEF PageInv, DeskType, OpenDesk, Act
<1>2. b.n <= desk.since
  BY DeskIs DEF IsClick, Enabled, PageInv, DeskType
<1> QED BY <1>1, <1>2 DEF PageInv, LocalsHold

LEMMA ClickLocals ==
  ASSUME NEW p \in DeskPages, PageInv(p), NEW h, NEW r, NEW c, NEW d, IsClick(p, h, r, c, d)
  PROVE  LocalsHold(p)'
<1>1. /\ c \in Act /\ c.n = ticks.clicks + 1 /\ Handler(p, c) = h /\ HandlerOfPage(h, p)
      /\ c.entry = ticks.clicks + 1 \/ (c.entry # NoEntry => c.entry = desk.entries[h.dialog])
  BY ClickFacts
<1>2. /\ SinceFollows(p, desk, desk')
      /\ \A x \in DialogsOf(p) :
           \/ desk'.entries[x] \in {desk.entries[x], NoEntry, Unsent}
           \/ x = h.dialog /\ h.dialog # None /\ desk'.entries[x] = c.entry
  BY ClickedDesk
<1>3. calls' = calls \cup {c} /\ ticks'.clicks = ticks.clicks + 1 /\ h \in p.calls
  BY TickFacts DEF IsClick, PageInv
<1>4. ticks.clicks \in Nat /\ desk.since \in Nat /\ desk.since <= ticks.clicks
  BY DEF PageInv, DeskType, OpenDesk, LocalsHold
<1>5. desk'.since \in Nat /\ desk'.since <= ticks.clicks
  BY <1>2, <1>4 DEF SinceFollows
<1>6. ASSUME NEW b \in calls PROVE b.entry # Unsent /\ b.entry # ticks.clicks + 1
  BY CallFacts DEF PageInv
<1>7. ASSUME NEW b \in calls, h.local, Handler(p, b) = h, b.entry = c.entry, c.entry # NoEntry PROVE FALSE
  <2>1. c.entry = desk.entries[h.dialog]
    BY <1>1, <1>6, <1>7
  <2> QED BY <1>7, <2>1, SentIsDisabled
<1>8. ASSUME NEW b \in calls', NEW e \in calls', Handler(p, b).local, SameEntry(b, e), b.entry # NoEntry
      PROVE  b = e
  <2>1. Handler(p, e) = Handler(p, b) /\ b.entry = e.entry
    BY <1>8, SameHandler DEF SameEntry
  <2>2. CASE b \in calls /\ e \in calls
    BY <1>8, <2>2 DEF PageInv, LocalsHold
  <2> QED BY <1>1, <1>3, <1>7, <1>8, <2>1, <2>2
<1>9. ASSUME NEW b \in calls', Handler(p, b).local, b.entry # NoEntry,
             desk'.entries[Handler(p, b).dialog] = b.entry
      PROVE  b.n > desk'.since
  <2>1. CASE b = c
    BY <1>1, <1>4, <1>5, <2>1
  <2>2. CASE b \in calls
    <3>1. PICK x : x = Handler(p, b).dialog
      OBVIOUS
    <3>2. /\ x \in DialogsOf(p) /\ x # None /\ x \in LocalDialogs(p) /\ 0 < b.n /\ b.n \in Nat
          /\ b.entry # Unsent /\ HandlerOfPage(Handler(p, b), p)
      <4>1. Handler(p, b) \in p.calls /\ HandlerOfPage(Handler(p, b), p) /\ b \in Act /\ 0 < b.n
        BY <2>2, CallFacts DEF PageInv, NumbersHold, CallIsGood
      <4> QED BY <1>6, <1>9, <2>2, <3>1, <4>1, LocalsAre DEF LocalDialogs, Act
    <3>3. desk.entries[x] = b.entry
      <4>1. CASE desk'.entries[x] \in {desk.entries[x], NoEntry, Unsent}
        BY <1>9, <3>1, <3>2, <4>1
      <4>2. CASE x = h.dialog /\ desk'.entries[x] = c.entry
        BY <1>1, <1>6, <1>9, <2>2, <3>1, <4>2
      <4> QED BY <1>2, <3>2, <4>1, <4>2
    <3>4. b.n > desk.since
      BY <1>9, <2>2, <3>1, <3>3 DEF PageInv, LocalsHold
    <3>5. desk'.since \in {0, desk.since}
      BY <1>2, <1>9, <3>1, <3>2 DEF SinceFollows
    <3> QED BY <1>4, <3>2, <3>4, <3>5
  <2> QED BY <1>3, <2>1, <2>2
<1> QED BY <1>3, <1>4, <1>5, <1>8, <1>9 DEF LocalsHold

LEMMA ClickKeeps ==
  ASSUME NEW p \in DeskPages, PageInv(p), Click
  PROVE  PageInv(p)'
<1> USE DEF PageInv
<1>1. ThePage = p
  BY DeskIs DEF DeskType
<1>2. PICK h, r, c, d : IsClick(p, h, r, c, d)
  <2>1. PICK h, r, c :
          /\ h \in p.calls /\ r \in Rows \cup {NoRow}
          /\ c = [n |-> ticks.clicks + 1, of |-> h.name, row |-> r, key |-> desk.key, at |-> "sent",
                  entry |-> Sends(h)]
          /\ Offered(h, r) /\ Enabled(h, r) /\ calls' = calls \cup {c}
          /\ desk' = At("click", c, Claimed(h, r, Kept(h, c.entry, desk)))
          /\ mishaps' = mishaps \cup IF h.flag # None /\ Busy(h.flag) THEN {"crossed"} ELSE {}
    BY <1>1 DEF Click
  <2> QED BY <2>1 DEF IsClick, Click, Places
<1>3. /\ c \in Act /\ c.n = ticks.clicks + 1 /\ c.of = h.name /\ c.row = r /\ c.key = desk.key
      /\ c.at = "sent" /\ c.entry = Sends(h) /\ Handler(p, c) = h /\ HandlerOfPage(h, p)
      /\ CallIsGood(p, c)'
      /\ c.entry = ticks.clicks + 1 \/ (c.entry # NoEntry => c.entry = desk.entries[h.dialog])
  BY <1>2, ClickFacts
<1>4. /\ desk' \in OpenDesk(p) /\ desk'.key = desk.key /\ BlankWhenClosed(p, desk')
      /\ \A x \in DialogsOf(p) :
           \/ desk'.entries[x] \in {desk.entries[x], NoEntry, Unsent}
           \/ x = h.dialog /\ h.dialog # None /\ desk'.entries[x] = c.entry
  BY <1>2, ClickedDesk
<1>5. /\ calls' = calls \cup {c} /\ mishaps \subseteq mishaps' /\ UNCHANGED <<shown, loads, done>>
      /\ Offered(h, r) /\ Enabled(h, r)
  BY <1>2 DEF IsClick
<1>6. /\ ticks'.clicks = ticks.clicks + 1 /\ ticks'.clicks <= MaxClicks
      /\ ticks'.sent = ticks.sent /\ ticks'.last = ticks.last
      /\ ticks' \in [clicks : Nat, faults : Nat, sent : Nat, last : Nat]
  BY <1>2, TickFacts DEF IsClick
<1>7. DeskType(p)'
  BY <1>3, <1>4, <1>5, <1>6 DEF DeskType
<1>8. h.dialog # None => h.dialog \in DialogsOf(p)
  BY <1>3 DEF HandlerOfPage, DialogsOf
<1>9. \A x \in DialogsOf(p) :
        desk'.entries[x] \in {desk.entries[x], NoEntry, Unsent, ticks.clicks + 1}
  BY <1>3, <1>4
<1>10. NumbersHold(p)'
  <2>1. \A b \in calls : b.n # c.n
    <3>1. \A b \in calls : b.n <= ticks.clicks /\ b.n \in Nat /\ ticks.clicks \in Nat
      BY DEF NumbersHold, CallIsGood, DeskType, Act
    <3> QED BY <1>3, <3>1
  <2>2. CallsAreApart'
    BY <1>5, <2>1 DEF NumbersHold, CallsAreApart
  <2>3. LoadsAreApart' /\ (\A j \in loads' : LoadIsGood(j)') /\ ticks'.last <= ticks'.sent
    BY <1>3, <1>5, <1>6, LoadsFollow DEF LoadsGrow
  <2>4. OneKey(p)'
    BY <1>3, <1>4, <1>5 DEF NumbersHold, OneKey
  <2>5. \A x \in DialogsOf(p) :
          desk'.entries[x] = desk.entries[x] \/ EntryIsGood(desk'.entries[x], ticks'.clicks)
    <3>1. EntryIsGood(NoEntry, ticks'.clicks) /\ EntryIsGood(Unsent, ticks'.clicks)
          /\ EntryIsGood(ticks.clicks + 1, ticks'.clicks)
      BY <1>6 DEF EntryIsGood, NoEntry, DeskType
    <3> QED BY <1>9, <3>1
  <2> QED BY <1>3, <1>5, <1>6, <1>7, <2>2, <2>3, <2>4, <2>5, NumbersFollow
<1>11. FlagsHold(p)'
  BY <1>2, ClickFlags
<1>12. ListHolds(p)'
  BY <1>4, <1>5, <1>6, HalvesStay, ListKeeps
<1>13. EntriesHold(p)'
  <2>1. ASSUME NEW a \in done, Counted(p, c), SameEntry(c, a), mishaps' \cap {"lost", "half"} = {}
        PROVE  FALSE
    <3>1. Handler(p, a) = h /\ Counted(p, a) /\ a.entry = c.entry
      BY <1>3, <2>1, SameHandler DEF SameEntry, Counted
    <3>2. /\ a.entry # ticks.clicks + 1 /\ (h.flag # None => IsWide(p, h.flag))
          /\ h.flag # None \/ h.local
          /\ a.entry # NoEntry
      BY <3>1, EntryFacts DEF Counted, Locks
    <3>3. desk.entries[h.dialog] = a.entry
      BY <1>3, <3>1, <3>2
    <3>4. PICK b \in calls : SameEntry(b, a)
      BY <1>5, <2>1, <3>1, <3>3 DEF EntriesHold
    <3>5. Handler(p, b) = h /\ b.entry = a.entry
      BY <3>1, <3>4, SameHandler DEF SameEntry
    <3> QED BY <1>2, <3>2, <3>3, <3>5, BusyIsDisabled, SentIsDisabled
  <2> QED BY <1>3, <1>4, <1>5, <1>9, <2>1, EntriesKeep
<1>14. RowsHold(p)'
  <2>1. ASSUME NEW a \in done, mishaps' = {}, IsGuarded(p, c), SameRow(c, a) PROVE FALSE
    <3>1. Handler(p, a) = h /\ IsGuarded(p, a) /\ a.row = r /\ a.of = h.name
      BY <1>3, <2>1, SameHandler DEF SameRow, IsGuarded
    <3>2. h.dialog = None /\ h.name \in h.unless /\ h.flag # None
      BY <1>3, <2>1 DEF IsGuarded, Guarded
    <3>3. h.name \notin Seen(r)
      BY <1>5, <3>2 DEF Offered, RowOffers, Offers
    <3>4. ~Known(p, a)
      BY <3>1, <3>3 DEF Known, Seen
    <3>5. Known(p, a) \/ Awaited(a)
      BY <1>5, <2>1, <3>1 DEF RowsHold
    <3>6. PICK b \in calls : SameRow(b, a)
      BY <3>4, <3>5 DEF Awaited
    <3>7. Handler(p, b) = h /\ b.row = r
      BY <3>1, <3>6, SameHandler DEF SameRow
    <3> QED BY <1>2, <1>5, <2>1, <3>2, <3>7, BusyIsDisabled
  <2>2. LoadsGrow
    BY <1>5 DEF LoadsGrow
  <2> QED BY <1>5, <1>6, <2>1, <2>2, RowsKeep
<1>15. LocalsHold(p)'
  BY <1>2, ClickLocals
<1> QED BY <1>7, <1>10, <1>11, <1>12, <1>13, <1>14, <1>15

-----------------------------------------------------------------------------
(* A load is answered *)

LEMMA AwaitingIs ==
  ASSUME NEW p \in DeskPages, PageInv(p), NEW l \in loads
  PROVE  \/ Awaiting(l) = {}
         \/ \E c \in calls : /\ Awaiting(l) = {c} /\ c.n = l.waiting /\ c.at = "loading"
                             /\ (CHOOSE b \in Awaiting(l) : TRUE) = c
<1>1. ASSUME NEW c \in Awaiting(l) PROVE c \in calls /\ Awaiting(l) = {c} /\ c.n = l.waiting /\ c.at = "loading"
  <2>1. c \in calls /\ c.n = l.waiting
    BY DEF Awaiting
  <2>2. c.at = "loading"
    BY <2>1 DEF PageInv, NumbersHold, LoadIsGood
  <2>3. \A b \in Awaiting(l) : b = c
    BY <2>1 DEF Awaiting, PageInv, NumbersHold, CallsAreApart
  <2> QED BY <2>1, <2>2, <2>3
<1> QED BY <1>1

LEMMA AfterLoadFacts ==
  ASSUME NEW p \in DeskPages, PageInv(p), NEW l \in loads,
         desk' = AfterLoad(l), calls' = calls \ Awaiting(l), done' = done, mishaps \subseteq mishaps'
  PROVE  /\ desk' \in OpenDesk(p) /\ desk'.key = desk.key
         /\ \A x \in DialogsOf(p) : desk'.entries[x] \in {desk.entries[x], NoEntry, Unsent}
         /\ SinceFollows(p, desk, desk')
         /\ \A c \in calls \ calls' : c.n = l.waiting /\ c.at = "loading"
         /\ FlagsHold(p)' /\ EntriesHold(p)'
<1> USE DEF PageInv
<1>1. PICK d : d = [desk EXCEPT !.veiled = FALSE]
  OBVIOUS
<1>2. /\ FollowsFrom(p, desk, d) /\ d.entries = desk.entries /\ d.held = desk.held
      /\ desk \in OpenDesk(p) /\ BlankWhenClosed(p, desk)
  BY <1>1, VeiledFacts DEF DeskType, EntriesHold
<1>3. CASE Awaiting(l) = {}
  <2>1. desk' = d /\ calls' = calls
    BY <1>1, <1>3 DEF AfterLoad
  <2>2. /\ desk' \in OpenDesk(p) /\ desk'.key = desk.key /\ BlankWhenClosed(p, desk')
        /\ SinceFollows(p, desk, desk')
        /\ \A x \in DialogsOf(p) : desk'.entries[x] \in {desk.entries[x], NoEntry, Unsent}
    BY <1>2, <2>1 DEF FollowsFrom
  <2>3. FlagsHold(p)'
    BY <1>2, <2>1, FlagsStay
  <2>4. EntriesHold(p)'
    BY <2>1, <2>2, EntriesKeep
  <2> QED BY <2>1, <2>2, <2>3, <2>4
<1>4. ASSUME NEW c \in calls, Awaiting(l) = {c}, c.n = l.waiting, c.at = "loading",
             (CHOOSE b \in Awaiting(l) : TRUE) = c
      PROVE  /\ desk' \in OpenDesk(p) /\ desk'.key = desk.key
             /\ \A x \in DialogsOf(p) : desk'.entries[x] \in {desk.entries[x], NoEntry, Unsent}
             /\ SinceFollows(p, desk, desk')
             /\ \A b \in calls \ calls' : b.n = l.waiting /\ b.at = "loading"
             /\ FlagsHold(p)' /\ EntriesHold(p)'
  <2>1. PICK e : e = At("reload", c, d)
    OBVIOUS
  <2>2. desk' = Released(e, c) /\ calls' = calls \ {c}
    BY <1>1, <1>4, <2>1 DEF AfterLoad
  <2>3. d \in OpenDesk(p) /\ BlankWhenClosed(p, d) /\ IsOfPage(p, c) /\ c.of # Announced.name
    BY <1>2 DEF FollowsFrom, NumbersHold, CallIsGood
  <2>4. /\ FollowsFrom(p, d, e) /\ e.held = d.held
        /\ ClearsLate(p, Handler(p, c)) => e.entries[Handler(p, c).dialog] = NoEntry
    BY <1>2, <2>1, <2>3, AtFacts DEF ClearsLate
  <2>5. /\ FollowsFrom(p, e, desk') /\ desk'.entries = e.entries
        /\ desk'.held = Release(e.held, Handler(p, c).flag)
    BY <1>2, <2>2, <2>4, ReleasedFacts DEF FollowsFrom
  <2>6. FollowsFrom(p, desk, desk')
    BY <1>2, <2>4, <2>5, FollowsFurther
  <2>7. FlagsHold(p)'
    BY <1>2, <2>2, <2>4, <2>5, FlagsEnd
  <2>8. ASSUME NEW a \in done, Counted(p, a), SameEntry(c, a), mishaps' \cap {"lost", "half"} = {}
        PROVE  desk'.entries[Handler(p, a).dialog] # a.entry
    <3>1. Handler(p, a) = Handler(p, c) /\ a.entry = c.entry /\ Counted(p, c)
      BY <2>8, SameHandler DEF SameEntry, Counted
    <3>2. Handler(p, a).dialog \in DialogsOf(p) /\ a.entry # NoEntry /\ a.entry # Unsent
      BY <2>8, EntryFacts
    <3>3. CASE desk.entries[Handler(p, c).dialog] = c.entry
      <4>1. ClearsLate(p, Handler(p, c))
        BY <1>4, <2>8, <3>1, <3>3 DEF EntriesHold
      <4> QED BY <2>4, <2>5, <3>1, <3>2, <4>1
    <3>4. CASE desk.entries[Handler(p, c).dialog] # c.entry
      BY <2>6, <3>1, <3>2, <3>4 DEF FollowsFrom
    <3> QED BY <3>3, <3>4
  <2>9. /\ BlankWhenClosed(p, desk') /\ SinceFollows(p, desk, desk')
        /\ \A x \in DialogsOf(p) : desk'.entries[x] \in {desk.entries[x], NoEntry, Unsent}
    BY <1>2, <2>6 DEF FollowsFrom
  <2>10. EntriesHold(p)'
    BY <2>2, <2>8, <2>9, EntriesKeep
  <2> QED BY <1>4, <2>2, <2>6, <2>7, <2>9, <2>10 DEF FollowsFrom
<1> QED BY <1>3, <1>4, AwaitingIs

\* One load less
LEMMA LoadIsOver ==
  ASSUME NEW p \in DeskPages, PageInv(p), NEW l \in loads, DeskType(p)',
         desk' = AfterLoad(l), calls' = calls \ Awaiting(l), loads' = loads \ {l}, done' = done,
         mishaps \subseteq mishaps',
         ticks'.clicks = ticks.clicks, ticks'.sent = ticks.sent,
         ticks'.last = ticks.last \/ ticks'.last = l.n
  PROVE  NumbersHold(p)'
<1> USE DEF PageInv
<1>1. /\ desk'.key = desk.key
      /\ \A x \in DialogsOf(p) : desk'.entries[x] \in {desk.entries[x], NoEntry, Unsent}
  BY AfterLoadFacts
<1>2. calls' \subseteq calls
  OBVIOUS
<1>3. LoadIsGood(l) /\ ticks.last <= ticks.sent /\ ticks.clicks <= MaxClicks /\ ticks.clicks \in Nat
  BY DEF NumbersHold, DeskType
<1>4. ASSUME NEW k \in loads' PROVE LoadIsGood(k)'
  <2>1. LoadIsGood(k) /\ k \in loads /\ k.n # l.n
    BY DEF NumbersHold, LoadsAreApart
  <2> QED BY <1>2, <2>1 DEF LoadIsGood
<1>5. LoadsAreApart' /\ CallsAreApart' /\ OneKey(p)'
  BY <1>1, <1>2 DEF NumbersHold, LoadsAreApart, CallsAreApart, OneKey
<1>6. ticks'.last <= ticks'.sent
  BY <1>3 DEF LoadIsGood
<1>7. \A x \in DialogsOf(p) : desk'.entries[x] = desk.entries[x] \/ EntryIsGood(desk'.entries[x], ticks'.clicks)
  BY <1>1, <1>3 DEF EntryIsGood, NoEntry
<1> QED BY <1>2, <1>3, <1>4, <1>5, <1>6, <1>7, NumbersFollow

LEMMA LoadFailsKeeps ==
  ASSUME NEW p \in DeskPages, PageInv(p), NEW l \in loads, LoadFails(l)
  PROVE  PageInv(p)'
<1> USE DEF PageInv
<1>1. /\ desk' = AfterLoad(l) /\ calls' = calls \ Awaiting(l) /\ loads' = loads \ {l}
      /\ UNCHANGED <<shown, done>> /\ mishaps \subseteq mishaps' /\ "unread" \in mishaps'
  BY DEF LoadFails
<1>2. /\ ticks'.clicks = ticks.clicks /\ ticks'.sent = ticks.sent /\ ticks'.last = ticks.last
      /\ ticks' \in [clicks : Nat, faults : Nat, sent : Nat, last : Nat]
  BY TickFacts DEF LoadFails
<1>3. desk' \in OpenDesk(p) /\ FlagsHold(p)' /\ EntriesHold(p)'
  BY <1>1, AfterLoadFacts
<1>4. DeskType(p)'
  BY <1>1, <1>2, <1>3 DEF DeskType
<1>5. NumbersHold(p)'
  BY <1>1, <1>2, <1>4, LoadIsOver
<1>6. ListHolds(p)' /\ RowsHold(p)'
  BY <1>1 DEF ListHolds, RowsHold
<1>7. LocalsHold(p)'
  BY <1>1, <1>2, AfterLoadFacts, LocalsFollow
<1> QED BY <1>3, <1>4, <1>5, <1>6, <1>7

LEMMA LoadArrivesKeeps ==
  ASSUME NEW p \in DeskPages, PageInv(p), NEW l \in loads, LoadArrives(l)
  PROVE  PageInv(p)'
<1> USE DEF PageInv
<1>1. /\ desk' = AfterLoad(l) /\ calls' = calls \ Awaiting(l) /\ loads' = loads \ {l}
      /\ done' = done /\ mishaps \subseteq mishaps' /\ l.read
      /\ l.n < ticks.last => "order" \in mishaps'
  BY DEF LoadArrives
<1>2. l \in LoadSent /\ ticks.last \in Nat /\ LoadIsGood(l)
  BY DEF DeskType, NumbersHold
<1>3. /\ shown' \in [key : PageKeys \cup {0}, rows : SUBSET Act, notes : SUBSET Act]
      /\ shown'.key = l.key /\ shown'.rows = l.got /\ shown'.notes = shown.notes
  <2>1. PICK s : s = [shown EXCEPT !.key = l.key]
    OBVIOUS
  <2>2. /\ s \in [key : PageKeys \cup {0}, rows : SUBSET Act, notes : SUBSET Act]
        /\ s.key = l.key /\ s.notes = shown.notes
    BY <1>2, <2>1 DEF DeskType, LoadSent
  <2>3. shown' = [s EXCEPT !.rows = l.got] /\ l.got \in SUBSET Act
    BY <1>2, <2>1 DEF LoadArrives, LoadSent
  <2> QED BY <2>2, <2>3
<1>4. /\ ticks'.clicks = ticks.clicks /\ ticks'.sent = ticks.sent
      /\ ticks'.last = IF l.n > ticks.last THEN l.n ELSE ticks.last
      /\ ticks' \in [clicks : Nat, faults : Nat, sent : Nat, last : Nat]
  <2>1. PICK last : last = IF l.n > ticks.last THEN l.n ELSE ticks.last
    OBVIOUS
  <2>2. last \in Nat /\ ticks' = [ticks EXCEPT !.last = last]
    BY <1>2, <2>1 DEF LoadArrives, LoadSent
  <2>3. ticks \in [clicks : Nat, faults : Nat, sent : Nat, last : Nat]
    BY DEF DeskType
  <2>4. /\ ticks'.clicks = ticks.clicks /\ ticks'.sent = ticks.sent /\ ticks'.last = last
        /\ ticks' \in [clicks : Nat, faults : Nat, sent : Nat, last : Nat]
    BY <2>2, <2>3
  <2> QED BY <2>1, <2>4
<1>5. /\ desk' \in OpenDesk(p) /\ desk'.key = desk.key /\ FlagsHold(p)' /\ EntriesHold(p)'
      /\ \A c \in calls \ calls' : c.n = l.waiting /\ c.at = "loading"
  BY <1>1, AfterLoadFacts
<1>6. DeskType(p)'
  BY <1>1, <1>3, <1>4, <1>5 DEF DeskType
<1>7. NumbersHold(p)'
  BY <1>1, <1>4, <1>6, LoadIsOver
<1>8. "order" \notin mishaps' => ticks'.last = l.n /\ l.n > ticks.last
  BY <1>1, <1>2, <1>4 DEF LoadIsGood, LoadSent
<1>9. ListHolds(p)'
  <2> SUFFICES ASSUME mishaps' \subseteq {"crossed"} PROVE
         /\ loads' = {} => shown'.key = desk'.key /\ Tells(p, shown.rows)'
         /\ \A k \in loads' : IsLatest(k)' => k.key = desk'.key /\ (k.read => Tells(p, k.got)')
    BY DEF ListHolds
  <2>1. mishaps \subseteq {"crossed"} /\ ticks'.last = l.n /\ l.n > ticks.last
    BY <1>1, <1>8
  <2>2. \A x : HalfDone(x) => HalfDone(x)'
    BY <1>1, <1>5 DEF HalfDone
  <2>3. ListedOn(p, desk.key)' = ListedOn(p, desk.key)
    BY <1>1, <1>5 DEF ListedOn
  <2>4. \A rows : Tells(p, rows) => Tells(p, rows)'
    BY <1>5, <2>2, <2>3 DEF Tells
  <2>5. ASSUME loads' = {} PROVE shown'.key = desk'.key /\ Tells(p, shown.rows)'
    <3>1. IsLatest(l)
      BY <1>1, <1>2, <2>1, <2>5 DEF IsLatest, LoadSent
    <3>2. l.key = desk.key /\ Tells(p, l.got)
      BY <1>1, <2>1, <3>1 DEF ListHolds
    <3>3. Tells(p, l.got)'
      BY <2>4, <3>2
    <3> QED BY <1>3, <1>5, <3>2, <3>3 DEF Tells
  <2>6. ASSUME NEW k \in loads', IsLatest(k)' PROVE k.key = desk'.key /\ (k.read => Tells(p, k.got)')
    <3>1. k \in loads /\ k.n \in Nat /\ l.n \in Nat
      BY <1>1, <1>2 DEF DeskType, LoadSent
    <3>2. IsLatest(k)
      BY <1>1, <1>2, <2>1, <2>6, <3>1 DEF IsLatest
    <3> QED BY <1>5, <2>1, <2>4, <3>1, <3>2 DEF ListHolds
  <2> QED BY <2>5, <2>6
<1>10. RowsHold(p)'
  <2> SUFFICES ASSUME mishaps' = {}, NEW a \in done, IsGuarded(p, a)
               PROVE  Known(p, a)' \/ Awaited(a)'
    BY <1>1 DEF RowsHold, IsGuarded, SameRow
  <2>1. mishaps = {} /\ ticks'.last = l.n /\ l.n > ticks.last /\ l.n \in Nat
    BY <1>1, <1>2, <1>8 DEF LoadSent
  <2>2. \A k \in loads : k.n \in Nat
    BY DEF DeskType, LoadSent
  <2>3. ASSUME NEW n, InLoads(a, n) PROVE InLoads(a, n)'
    BY <1>1, <2>3 DEF InLoads
  <2>4. ASSUME InLoads(a, l.n), Handler(p, a).then # "notes" PROVE Known(p, a)'
    <3>1. a \in l.got
      BY <1>1, <2>1, <2>4 DEF InLoads
    <3>2. InLoads(a, l.n + 1)
      BY <2>1, <2>2, <2>4 DEF InLoads
    <3>3. InLoads(a, l.n + 1)'
      BY <2>3, <3>2
    <3> QED BY <1>3, <2>1, <2>4, <3>1, <3>3 DEF Known
  <2>5. CASE Known(p, a)
    <3>1. CASE a \in shown.notes
      BY <1>3, <3>1 DEF Known
    <3>2. CASE Handler(p, a).then # "notes" /\ InLoads(a, ticks.last + 1)
      <4>1. InLoads(a, l.n)
        BY <1>2, <2>1, <2>2, <3>2 DEF InLoads
      <4> QED BY <2>4, <3>2, <4>1
    <3> QED BY <2>5, <3>1, <3>2 DEF Known
  <2>6. CASE Awaited(a)
    <3>1. PICK c \in calls : /\ SameRow(c, a) /\ c.at = "loading"
                             /\ \A k \in loads : k.waiting = c.n => InLoads(a, k.n)
      BY <2>6 DEF Awaited
    <3>2. CASE c \in calls'
      <4>1. \A k \in loads' : k.waiting = c.n => InLoads(a, k.n)'
        BY <1>1, <2>3, <3>1
      <4> QED BY <3>1, <3>2, <4>1 DEF Awaited
    <3>3. CASE c \notin calls'
      <4>1. InLoads(a, l.n)
        BY <1>5, <3>1, <3>3
      <4> QED BY <2>4, <3>1, <4>1, AwaitedIsListed
    <3> QED BY <3>2, <3>3
  <2> QED BY <2>1, <2>5, <2>6 DEF RowsHold
<1>11. LocalsHold(p)'
  BY <1>1, <1>4, AfterLoadFacts, LocalsFollow
<1> QED BY <1>5, <1>6, <1>7, <1>9, <1>10, <1>11

-----------------------------------------------------------------------------
(* A call is answered *)

LEMMA LastFacts ==
  ASSUME NEW p \in DeskPages, PageInv(p), NEW c \in calls
  PROVE  /\ HandlerOf(c) = Handler(p, c) /\ EffectOf(c) = c /\ c \in Act
         /\ IsLast(c) <=> LastPart(p, c)
         /\ IsOfPage(p, c) /\ c.of # Announced.name /\ desk \in OpenDesk(p) /\ BlankWhenClosed(p, desk)
         /\ HandlerOfPage(Handler(p, c), p)
<1>1. c \in Act /\ desk \in OpenDesk(p) /\ CallIsGood(p, c) /\ BlankWhenClosed(p, desk)
  BY DEF PageInv, DeskType, NumbersHold, EntriesHold
<1>2. HandlerOf(c) = Handler(p, c)
  BY <1>1, DeskIs
<1>3. IsOfPage(p, c) /\ c.of # Announced.name
  BY <1>1 DEF CallIsGood
<1>4. HandlerOfPage(Handler(p, c), p)
  BY <1>3, HandlerFacts
<1> QED BY <1>1, <1>2, <1>3, <1>4, EffectIs DEF IsLast, LastPart

LEMMA FirstSucceedsKeeps ==
  ASSUME NEW p \in DeskPages, PageInv(p), NEW c \in calls, FirstSucceeds(c)
  PROVE  PageInv(p)'
<1> USE DEF PageInv
<1>1. /\ HandlerOf(c) = Handler(p, c) /\ EffectOf(c) = c /\ c \in Act /\ HandlerOfPage(Handler(p, c), p)
      /\ IsOfPage(p, c) /\ c.of # Announced.name
  BY LastFacts
<1>2. PICK f : f = [c EXCEPT !.at = "first"]
  OBVIOUS
<1>3. PICK d : d = [c EXCEPT !.at = "second"]
  OBVIOUS
<1>4. /\ f \in Act /\ f.n = c.n /\ f.of = c.of /\ f.row = c.row /\ f.key = c.key
      /\ f.entry = c.entry /\ f.at = "first"
  BY <1>1, <1>2, MovedCall
<1>5. /\ d \in Act /\ d.n = c.n /\ d.of = c.of /\ d.row = c.row /\ d.key = c.key
      /\ d.entry = c.entry /\ d.at = "second"
  BY <1>1, <1>3, MovedCall
<1>6. /\ done' = done \cup {f} /\ calls' = (calls \ {c}) \cup {d} /\ c.at = "sent"
      /\ Handler(p, c).first /\ UNCHANGED <<desk, shown, loads, mishaps, ticks>>
  BY <1>1, <1>2, <1>3 DEF FirstSucceeds
<1>7. Handler(p, d) = Handler(p, c) /\ Handler(p, f) = Handler(p, c)
  BY <1>4, <1>5, SameHandler
<1>8. DeskType(p)'
  BY <1>4, <1>5, <1>6 DEF DeskType
<1>9. NumbersHold(p)'
  <2>1. CallIsGood(p, c) /\ ticks.clicks <= MaxClicks /\ ticks.last <= ticks.sent /\ ticks.clicks \in Nat
    BY DEF NumbersHold, DeskType
  <2>2. CallIsGood(p, d)'
    BY <1>5, <1>6, <1>7, <2>1 DEF CallIsGood, IsOfPage
  <2>3. EffectIsGood(p, f)'
    BY <1>4, <1>6, <1>7, <2>1 DEF CallIsGood, EffectIsGood, IsOfPage
  <2>4. CallsAreApart'
    BY <1>5, <1>6 DEF NumbersHold, CallsAreApart
  <2>5. ASSUME NEW l \in loads PROVE LoadIsGood(l)'
    <3>1. LoadIsGood(l)
      BY DEF NumbersHold
    <3> QED BY <1>5, <1>6, <3>1 DEF LoadIsGood
  <2>6. LoadsAreApart' /\ OneKey(p)'
    BY <1>4, <1>5, <1>6 DEF NumbersHold, LoadsAreApart, OneKey
  <2> QED BY <1>6, <1>8, <2>1, <2>2, <2>3, <2>4, <2>5, <2>6, NumbersFollow
<1>10. FlagsHold(p)'
  BY <1>5, <1>6, FlagsGo
<1>11. ListHolds(p)'
  <2>1. \A x : HalfDone(x) => HalfDone(x)'
    BY <1>6 DEF HalfDone
  <2>2. HalfDone(f)'
    BY <1>4, <1>5, <1>6 DEF HalfDone
  <2>3. /\ ListedOn(p, desk.key) \subseteq ListedOn(p, desk.key)'
        /\ \A e \in ListedOn(p, desk.key)' : e = f \/ e \in ListedOn(p, desk.key)
    BY <1>6 DEF ListedOn
  <2>4. \A rows : Tells(p, rows) => Tells(p, rows)'
    BY <1>6, <2>1, <2>2, <2>3 DEF Tells
  <2>5. \A l \in loads : IsLatest(l)' => IsLatest(l)
    BY <1>6 DEF IsLatest
  <2> QED BY <1>6, <2>4, <2>5 DEF ListHolds
<1>12. EntriesHold(p)'
  <2> SUFFICES ASSUME mishaps' \cap {"lost", "half"} = {} PROVE
         /\ \A b \in calls', a \in done' : (Counted(p, b) /\ SameEntry(b, a)) =>
              b.at = "loading" \/ (b.at = "second" /\ a.at = "first")
         /\ \A a \in done' : (Counted(p, a) /\ desk'.entries[Handler(p, a).dialog] = a.entry) =>
              \E b \in calls' : SameEntry(b, a)
         /\ \A b \in calls' :
              (Counted(p, b) /\ b.at = "loading" /\ desk'.entries[Handler(p, b).dialog] = b.entry) =>
                ClearsLate(p, Handler(p, b))
         /\ \A a, b \in done' : (Counted(p, a) /\ SameEntry(a, b) /\ a.at = b.at) => a = b
    BY <1>6 DEF EntriesHold, Counted, SameEntry
  <2>1. /\ \A b \in calls, a \in done : (Counted(p, b) /\ SameEntry(b, a)) =>
              b.at = "loading" \/ (b.at = "second" /\ a.at = "first")
        /\ \A a \in done : (Counted(p, a) /\ desk.entries[Handler(p, a).dialog] = a.entry) =>
              \E b \in calls : SameEntry(b, a)
        /\ \A b \in calls :
              (Counted(p, b) /\ b.at = "loading" /\ desk.entries[Handler(p, b).dialog] = b.entry) =>
                ClearsLate(p, Handler(p, b))
        /\ \A a, b \in done : (Counted(p, a) /\ SameEntry(a, b) /\ a.at = b.at) => a = b
    BY <1>6 DEF EntriesHold
  <2>2. /\ SameEntry(d, c) /\ SameEntry(f, c) /\ Counted(p, d) = Counted(p, c)
        /\ Counted(p, f) = Counted(p, c)
    BY <1>4, <1>5, <1>7 DEF SameEntry, Counted
  <2>3. \A a \in done : ~(Counted(p, c) /\ SameEntry(c, a))
    BY <1>6, <2>1
  <2>4. ASSUME NEW b \in calls, b # c, SameEntry(b, c) PROVE ~Counted(p, c)
    <3>1. SameEntry(c, b)
      BY <2>4 DEF SameEntry
    <3> QED BY <2>4, <3>1, EntryIsSentOnce
  <2>5. ASSUME NEW b \in calls', NEW a \in done', Counted(p, b), SameEntry(b, a)
        PROVE  b.at = "loading" \/ (b.at = "second" /\ a.at = "first")
    <3>1. CASE b = d /\ a = f
      BY <1>4, <1>5, <3>1
    <3>2. CASE b = d /\ a \in done
      BY <2>2, <2>3, <2>5, <3>2 DEF SameEntry
    <3>3. CASE b \in calls /\ b # c /\ a = f
      <4>1. SameEntry(b, c)
        BY <2>2, <2>5, <3>3 DEF SameEntry
      <4>2. Counted(p, c)
        BY <2>5, <4>1, SameHandler DEF SameEntry, Counted
      <4> QED BY <2>4, <3>3, <4>1, <4>2
    <3>4. CASE b \in calls /\ a \in done
      BY <2>1, <2>5, <3>4
    <3> QED BY <1>6, <3>1, <3>2, <3>3, <3>4
  <2>6. ASSUME NEW a \in done', Counted(p, a), desk'.entries[Handler(p, a).dialog] = a.entry
        PROVE  \E b \in calls' : SameEntry(b, a)
    <3>1. CASE a = f
      BY <1>4, <1>5, <1>6, <3>1 DEF SameEntry
    <3>2. CASE a \in done
      <4>1. PICK b \in calls : SameEntry(b, a)
        BY <1>6, <2>1, <2>6, <3>2
      <4> QED BY <1>5, <1>6, <4>1 DEF SameEntry
    <3> QED BY <1>6, <3>1, <3>2
  <2>7. \A b \in calls' :
          (Counted(p, b) /\ b.at = "loading" /\ desk'.entries[Handler(p, b).dialog] = b.entry) =>
            ClearsLate(p, Handler(p, b))
    BY <1>5, <1>6, <2>1
  <2>8. ASSUME NEW a \in done', NEW b \in done', Counted(p, a), SameEntry(a, b), a.at = b.at
        PROVE  a = b
    <3>1. CASE a = f /\ b \in done
      <4>1. SameEntry(c, b)
        BY <2>2, <2>8, <3>1 DEF SameEntry
      <4> QED BY <2>2, <2>3, <2>8, <3>1, <4>1
    <3>2. CASE a \in done /\ b = f
      <4>1. SameEntry(c, a)
        BY <2>2, <2>8, <3>2 DEF SameEntry
      <4>2. Counted(p, c)
        BY <2>8, <4>1, SameHandler DEF SameEntry, Counted
      <4> QED BY <2>3, <3>2, <4>1, <4>2
    <3>3. CASE a \in done /\ b \in done
      BY <2>1, <2>8, <3>3
    <3> QED BY <1>6, <3>1, <3>2, <3>3
  <2> QED BY <2>5, <2>6, <2>7, <2>8
<1>13. RowsHold(p)'
  <2>1. ~IsGuarded(p, d) /\ ~IsGuarded(p, f)
    BY <1>1, <1>6, <1>7 DEF HandlerOfPage, IsGuarded
  <2>2. LoadsGrow
    BY <1>6 DEF LoadsGrow
  <2>3. \A b \in calls : b.at = "loading" => b \in calls'
    BY <1>6
  <2> QED BY <1>6, <2>1, <2>2, <2>3, RowsKeep
<1>14. LocalsHold(p)'
  <2>1. ~Handler(p, d).local
    BY <1>1, <1>6, <1>7 DEF HandlerOfPage
  <2> QED BY <1>6, <2>1, LocalsFollow DEF SinceFollows
<1> QED BY <1>8, <1>9, <1>10, <1>11, <1>12, <1>13, <1>14

LEMMA CallFailsKeeps ==
  ASSUME NEW p \in DeskPages, PageInv(p), NEW c \in calls, CallFails(c)
  PROVE  PageInv(p)'
<1> USE DEF PageInv
<1>1. /\ EffectOf(c) = c /\ c \in Act /\ IsOfPage(p, c) /\ c.of # Announced.name
      /\ desk \in OpenDesk(p) /\ BlankWhenClosed(p, desk)
  BY LastFacts
<1>2. /\ calls' = calls \ {c} /\ desk' = Released(desk, c) /\ UNCHANGED <<shown, loads>>
      /\ c.at # "loading" /\ mishaps \subseteq mishaps'
      /\ \/ done' = done /\ (c.at = "second" => "half" \in mishaps')
         \/ done' = done \cup {c} /\ "lost" \in mishaps'
  BY <1>1 DEF CallFails
<1>3. /\ ticks'.clicks = ticks.clicks /\ ticks'.sent = ticks.sent /\ ticks'.last = ticks.last
      /\ ticks' \in [clicks : Nat, faults : Nat, sent : Nat, last : Nat]
  BY TickFacts DEF CallFails
<1>4. /\ FollowsFrom(p, desk, desk') /\ desk'.entries = desk.entries
      /\ desk'.held = Release(desk.held, Handler(p, c).flag)
  BY <1>1, <1>2, ReleasedFacts
<1>5. DeskType(p)'
  BY <1>1, <1>2, <1>3, <1>4 DEF DeskType, FollowsFrom
<1>6. NumbersHold(p)'
  <2>1. CallIsGood(p, c) /\ ticks.clicks <= MaxClicks /\ ticks.last <= ticks.sent
    BY DEF NumbersHold
  <2>2. EffectIsGood(p, c)'
    BY <1>3, <2>1 DEF CallIsGood, EffectIsGood
  <2>3. ASSUME NEW l \in loads PROVE LoadIsGood(l)'
    <3>1. LoadIsGood(l)
      BY DEF NumbersHold
    <3> QED BY <1>2, <1>3, <3>1 DEF LoadIsGood
  <2>4. CallsAreApart' /\ LoadsAreApart' /\ OneKey(p)'
    BY <1>2, <1>4 DEF NumbersHold, CallsAreApart, LoadsAreApart, OneKey, FollowsFrom
  <2> QED BY <1>2, <1>3, <1>4, <1>5, <2>1, <2>2, <2>3, <2>4, NumbersFollow
<1>7. FlagsHold(p)'
  BY <1>2, <1>4, FlagsEnd
<1>10. LocalsHold(p)'
  BY <1>1, <1>2, <1>3, <1>4, LocalsFollow DEF FollowsFrom
<1>8. CASE mishaps' \cap {"lost", "half"} = {}
  <2>1. done' = done /\ c.at = "sent"
    BY <1>2, <1>8 DEF NumbersHold, CallIsGood
  <2>2. ListHolds(p)'
    BY <1>2, <1>3, <1>4, <2>1, HalvesStay, ListKeeps DEF FollowsFrom
  <2>3. ASSUME NEW a \in done, Counted(p, a), SameEntry(c, a) PROVE FALSE
    <3>1. Counted(p, c)
      BY <2>3, SameHandler DEF SameEntry, Counted
    <3> QED BY <1>2, <1>8, <2>1, <2>3, <3>1 DEF EntriesHold
  <2>4. BlankWhenClosed(p, desk')
    BY <1>1, <1>4 DEF FollowsFrom
  <2>5. EntriesHold(p)'
    BY <1>2, <1>4, <2>1, <2>3, <2>4, EntriesKeep
  <2>6. RowsHold(p)'
    BY <1>2, <1>3, <2>1, RowsKeep DEF LoadsGrow
  <2> QED BY <1>5, <1>6, <1>7, <1>10, <2>2, <2>5, <2>6
<1>9. CASE mishaps' \cap {"lost", "half"} # {}
  <2>1. ListHolds(p)' /\ RowsHold(p)'
    BY <1>9 DEF ListHolds, RowsHold
  <2>2. EntriesHold(p)'
    BY <1>1, <1>4, <1>9 DEF EntriesHold, FollowsFrom
  <2> QED BY <1>5, <1>6, <1>7, <1>10, <2>1, <2>2
<1> QED BY <1>8, <1>9

-----------------------------------------------------------------------------
(* A call succeeds *)

\* The desk when a call succeeded: its dialog may be closed, its entry cleared.
LEMMA SuccessDesk ==
  ASSUME NEW p \in DeskPages, PageInv(p), NEW c \in calls
  PROVE  /\ FollowsFrom(p, desk, At("success", c, desk)) /\ At("success", c, desk).held = desk.held
         /\ LET h == Handler(p, c) IN
            (h.clears = "success" \/ (h.closes = "success" /\ ~IsKept(p, h.dialog)))
              => At("success", c, desk).entries[h.dialog] = NoEntry
BY LastFacts, AtFacts

\* Each of the four ways a page goes on
Lands(p, c) ==
  /\ LastPart(p, c) /\ LandedCalls(p, c) /\ done' = done \cup {c} /\ LoadsGrow
  /\ FollowsFrom(p, desk, desk') /\ mishaps \subseteq mishaps'
  /\ LET h == Handler(p, c) IN
     (h.clears = "success" \/ (h.closes = "success" /\ ~IsKept(p, h.dialog)))
       => desk'.entries[h.dialog] \in {NoEntry, Unsent}
  /\ desk'.held = IF Handler(p, c).then = "awaits" THEN desk.held
                  ELSE Release(desk.held, Handler(p, c).flag)
  /\ ticks' \in [clicks : Nat, faults : Nat, sent : Nat, last : Nat]
  /\ ticks'.clicks = ticks.clicks /\ ticks'.last = ticks.last
  /\ ticks'.sent = IF loads' = loads THEN ticks.sent ELSE ticks.sent + 1
  /\ \A l \in loads' : l \in loads \/ (l.key = c.key /\ l.waiting \in {0, c.n})
  /\ shown' \in [key : PageKeys \cup {0}, rows : SUBSET Act, notes : SUBSET Act]
  /\ shown.rows \subseteq shown'.rows /\ shown.notes \subseteq shown'.notes

LEMMA LandedNumbers ==
  ASSUME NEW p \in DeskPages, PageInv(p), NEW c \in calls, Lands(p, c)
  PROVE  DeskType(p)' /\ NumbersHold(p)'
<1> USE DEF PageInv
<1>1. /\ calls' = calls \ {c} \/ \E d \in Act : /\ d = [c EXCEPT !.at = "loading"]
                                               /\ calls' = (calls \ {c}) \cup {d}
      /\ done' = done \cup {c} /\ LandedCalls(p, c)
      /\ ticks'.clicks = ticks.clicks /\ ticks'.last = ticks.last
      /\ ticks'.sent = IF loads' = loads THEN ticks.sent ELSE ticks.sent + 1
      /\ \A l \in loads' : l \in loads \/ (l.key = c.key /\ l.waiting \in {0, c.n})
      /\ FollowsFrom(p, desk, desk') /\ LoadsGrow
  BY DEF Lands, LandedCalls
<1>2. c \in Act
  BY LastFacts
<1>3. DeskType(p)'
  <2>1. calls' \subseteq Act /\ done' \subseteq Act
    BY <1>1, <1>2 DEF DeskType
  <2>2. loads' \subseteq LoadSent
    BY <1>1 DEF LoadsGrow, DeskType
  <2> QED BY <1>1, <2>1, <2>2 DEF DeskType, Lands, FollowsFrom
<1>4. \A d \in calls' :
        \/ d \in calls /\ d # c
        \/ /\ Handler(p, c).then = "awaits" /\ d.at = "loading" /\ SameEntry(d, c) /\ SameRow(d, c)
           /\ d.n = c.n /\ d.key = c.key /\ d \in Act
  BY <1>1, LandedFacts
<1>5. /\ CallIsGood(p, c) /\ ticks.clicks <= MaxClicks /\ ticks.last <= ticks.sent
      /\ ticks.clicks \in Nat
  BY DEF NumbersHold, DeskType
<1>6. ASSUME NEW d \in calls' PROVE d \in calls \/ CallIsGood(p, d)'
  <2>1. CASE d \notin calls
    <3>1. d.of = c.of /\ d.entry = c.entry /\ d.n = c.n /\ d.at = "loading" /\ Handler(p, c).then = "awaits"
      BY <1>4, <2>1 DEF SameEntry
    <3>2. Handler(p, d) = Handler(p, c) /\ IsOfPage(p, d)
      BY <1>5, <3>1, SameHandler DEF CallIsGood, IsOfPage
    <3> QED BY <1>1, <1>5, <3>1, <3>2 DEF CallIsGood
  <2> QED BY <2>1
<1>7. EffectIsGood(p, c)'
  BY <1>1, <1>5 DEF CallIsGood, EffectIsGood
<1>8. CallsAreApart'
  <2>1. CASE calls' = calls \ {c}
    BY <2>1 DEF NumbersHold, CallsAreApart
  <2>2. ASSUME NEW d \in Act, d = [c EXCEPT !.at = "loading"], calls' = (calls \ {c}) \cup {d}
        PROVE  CallsAreApart'
    <3>1. d.n = c.n
      BY <1>2, <2>2, MovedCall
    <3>2. \A a, b \in calls : a.n = b.n => a = b
      BY DEF NumbersHold, CallsAreApart
    <3>3. \A a \in calls' : a = d \/ (a \in calls /\ a # c)
      BY <2>2
    <3>4. \A a, b \in calls' : a.n = b.n => a = b
      BY <3>1, <3>2, <3>3
    <3> QED BY <3>4 DEF CallsAreApart
  <2> QED BY <1>1, <2>1, <2>2
<1>9. LoadsAreApart' /\ (\A l \in loads' : LoadIsGood(l)') /\ ticks'.last <= ticks'.sent
  <2>1. \A d \in calls' : d \in calls \/ d.at = "loading" \/ d.n = ticks.clicks + 1
    BY <1>4
  <2>2. ASSUME NEW l \in loads', l \notin loads
        PROVE  l.waiting <= ticks.clicks /\ \A d \in calls' : l.waiting = d.n => d.at = "loading"
    <3>1. CASE l.waiting = 0
      <4>1. ASSUME NEW d \in calls' PROVE 0 < d.n
        BY <1>5, <1>6, <4>1, <1>4 DEF CallIsGood, NumbersHold
      <4> QED BY <1>5, <3>1, <4>1
    <3>2. CASE l.waiting = c.n
      <4>1. \A d \in calls' : d.n = c.n => d.at = "loading"
        BY <1>4 DEF NumbersHold, CallsAreApart
      <4> QED BY <1>5, <3>2, <4>1 DEF CallIsGood
    <3> QED BY <1>1, <2>2, <3>1, <3>2
  <2> QED BY <1>1, <2>1, <2>2, LoadsFollow
<1>10. OneKey(p)'
  <2> SUFFICES ASSUME ~p.keyed
               PROVE  desk'.key = 1 /\ (\A l \in loads' : l.key = 1) /\ \A d \in calls' \cup done' : d.key = 1
    BY DEF OneKey
  <2>1. desk.key = 1 /\ (\A l \in loads : l.key = 1) /\ \A d \in calls \cup done : d.key = 1
    BY DEF NumbersHold, OneKey
  <2> QED BY <1>1, <1>4, <2>1 DEF FollowsFrom
<1>11. \A x \in DialogsOf(p) : desk'.entries[x] = desk.entries[x] \/ EntryIsGood(desk'.entries[x], ticks'.clicks)
  BY <1>1, <1>5 DEF FollowsFrom, EntryIsGood, NoEntry
<1>12. NumbersHold(p)'
  BY <1>1, <1>3, <1>5, <1>6, <1>7, <1>8, <1>9, <1>10, <1>11, NumbersFollow
<1> QED BY <1>3, <1>12

LEMMA LandedFlags ==
  ASSUME NEW p \in DeskPages, PageInv(p), NEW c \in calls, Lands(p, c)
  PROVE  FlagsHold(p)'
<1>1. CASE Handler(p, c).then = "awaits"
  <2>1. PICK d \in Act : d = [c EXCEPT !.at = "loading"] /\ calls' = (calls \ {c}) \cup {d}
    BY <1>1 DEF Lands, LandedCalls
  <2>2. d.of = c.of /\ d.row = c.row
    BY <2>1, LastFacts, MovedCall
  <2> QED BY <1>1, <2>1, <2>2, FlagsGo DEF PageInv, Lands
<1>2. CASE Handler(p, c).then # "awaits"
  <2>1. calls' = calls \ {c} /\ desk'.held = Release(desk.held, Handler(p, c).flag) /\ mishaps \subseteq mishaps'
    BY <1>2 DEF Lands, LandedCalls
  <2> QED BY <2>1, FlagsEnd DEF PageInv
<1> QED BY <1>1, <1>2

LEMMA LandedKeeps ==
  ASSUME NEW p \in DeskPages, PageInv(p), NEW c \in calls, Lands(p, c), ListHolds(p)',
         (mishaps' = {} /\ IsGuarded(p, c)) => Known(p, c)' \/ Awaited(c)'
  PROVE  PageInv(p)'
<1> USE DEF PageInv
<1>1. DeskType(p)' /\ NumbersHold(p)' /\ FlagsHold(p)'
  BY LandedNumbers, LandedFlags
<1>2. /\ LastPart(p, c) /\ LandedCalls(p, c) /\ done' = done \cup {c} /\ LoadsGrow
      /\ FollowsFrom(p, desk, desk') /\ mishaps \subseteq mishaps' /\ ticks'.last = ticks.last
      /\ shown.rows \subseteq shown'.rows /\ shown.notes \subseteq shown'.notes
  BY DEF Lands
<1>3. /\ BlankWhenClosed(p, desk') /\ SinceFollows(p, desk, desk')
      /\ \A x \in DialogsOf(p) : desk'.entries[x] \in {desk.entries[x], NoEntry, Unsent}
  BY <1>2 DEF FollowsFrom, EntriesHold
<1>4. LET h == Handler(p, c) IN
      (h.clears = "success" \/ (h.closes = "success" /\ ~IsKept(p, h.dialog)))
        => desk'.entries[h.dialog] \in {NoEntry, Unsent}
  BY DEF Lands
<1>5. EntriesHold(p)'
  BY <1>2, <1>3, <1>4, EntriesLand
<1>6. RowsHold(p)'
  BY <1>2, RowsLand
<1>7. LocalsHold(p)'
  <2>1. ticks'.clicks = ticks.clicks /\ HandlerOfPage(Handler(p, c), p)
    BY LastFacts DEF Lands
  <2>2. ASSUME NEW d \in calls' PROVE d \in calls \/ ~Handler(p, d).local
    BY <1>2, <2>1, LandedFacts, SameHandler DEF HandlerOfPage, SameEntry
  <2> QED BY <1>3, <2>1, <2>2, LocalsFollow
<1> QED BY <1>1, <1>5, <1>6, <1>7

\* It reloads, and waits for the load or does not.
LEMMA StraysFacts ==
  ASSUME NEW p \in DeskPages, NEW c, desk'.key = desk.key, mishaps' = mishaps \cup Strays(c)
  PROVE  mishaps \subseteq mishaps' /\ (mishaps' \subseteq {"crossed"} => c.key = desk'.key)
BY DEF Strays

LEMMA ReloadsAndWaitsKeeps ==
  ASSUME NEW p \in DeskPages, PageInv(p), NEW c \in calls, ReloadsAndWaits(c)
  PROVE  PageInv(p)'
<1> USE DEF PageInv
<1>1. /\ EffectOf(c) = c /\ c \in Act /\ LastPart(p, c) /\ Handler(p, c).then = "awaits"
      /\ c.n \in Nat /\ c.key \in PageKeys
  BY LastFacts DEF ReloadsAndWaits, Act
<1>2. PICK d : d = [c EXCEPT !.at = "loading"]
  OBVIOUS
<1>3. d \in Act /\ d.n = c.n /\ d.of = c.of /\ d.row = c.row /\ d.at = "loading"
  BY <1>1, <1>2, MovedCall
<1>4. /\ done' = done \cup {c} /\ calls' = (calls \ {c}) \cup {d} /\ shown' = shown
  BY <1>1, <1>2 DEF ReloadsAndWaits
<1>5. LandedCalls(p, c)
  BY <1>1, <1>2, <1>3, <1>4 DEF LandedCalls
<1>6. PICK l \in LoadSent : /\ IsSent(l) /\ l.key = c.key /\ l.waiting = c.n /\ l \notin loads
                            /\ loads' = loads \cup {l}
  BY <1>1, LoadIs DEF ReloadsAndWaits
<1>7. PICK e : e = At("success", c, desk)
  OBVIOUS
<1>8. /\ FollowsFrom(p, desk, e) /\ e.held = desk.held
      /\ LET h == Handler(p, c) IN
         (h.clears = "success" \/ (h.closes = "success" /\ ~IsKept(p, h.dialog))) => e.entries[h.dialog] = NoEntry
  BY <1>7, SuccessDesk
<1>9. /\ FollowsFrom(p, e, desk') /\ desk'.held = e.held
      /\ \A y \in DialogsOf(p) : desk'.entries[y] \in {e.entries[y], Unsent}
  BY <1>7, <1>8, HiddenFacts DEF ReloadsAndWaits, FollowsFrom
<1>10. LET h == Handler(p, c) IN
       (h.clears = "success" \/ (h.closes = "success" /\ ~IsKept(p, h.dialog)))
         => desk'.entries[h.dialog] \in {NoEntry, Unsent}
  BY <1>8, <1>9, LastFacts DEF HandlerOfPage, DialogsOf
<1>11. FollowsFrom(p, desk, desk')
  BY <1>8, <1>9, FollowsFurther
<1>12. mishaps \subseteq mishaps' /\ (mishaps' \subseteq {"crossed"} => c.key = desk'.key)
  BY <1>11, StraysFacts DEF FollowsFrom, ReloadsAndWaits
<1>13. /\ ticks'.clicks = ticks.clicks /\ ticks'.sent = ticks.sent + 1 /\ ticks'.last = ticks.last
       /\ ticks' \in [clicks : Nat, faults : Nat, sent : Nat, last : Nat]
  BY TickFacts DEF ReloadsAndWaits
<1>14. LoadsGrow
  BY <1>6 DEF LoadsGrow
<1>15. Lands(p, c)
  <2>1. ticks'.sent = IF loads' = loads THEN ticks.sent ELSE ticks.sent + 1
    BY <1>6, <1>13
  <2>2. \A k \in loads' : k \in loads \/ (k.key = c.key /\ k.waiting \in {0, c.n})
    BY <1>6
  <2>3. shown' \in [key : PageKeys \cup {0}, rows : SUBSET Act, notes : SUBSET Act]
    BY <1>4 DEF DeskType
  <2> QED BY <1>1, <1>4, <1>5, <1>8, <1>9, <1>10, <1>11, <1>12, <1>13, <1>14, <2>1, <2>2, <2>3 DEF Lands
<1>16. ListHolds(p)'
  BY <1>6, <1>12, <1>13, ListSends
<1>17. Awaited(c)'
  <2>1. d \in calls' /\ SameRow(d, c)
    BY <1>3, <1>4 DEF SameRow
  <2>2. ASSUME NEW k \in loads', k.waiting = d.n PROVE InLoads(c, k.n)'
    <3>1. CASE k \in loads
      <4>1. c.at = "loading"
        BY <1>3, <2>2, <3>1 DEF NumbersHold, LoadIsGood
      <4> QED BY <1>1, <4>1 DEF LastPart
    <3>2. CASE k \notin loads
      BY <1>14, <3>2, InLoadsStays
    <3> QED BY <3>1, <3>2
  <2> QED BY <1>3, <2>1, <2>2 DEF Awaited
<1> QED BY <1>15, <1>16, <1>17, LandedKeeps

\* The flag is released at once.
LEMMA ReleasedDesk ==
  ASSUME NEW p \in DeskPages, PageInv(p), NEW c \in calls, NEW e,
         e = Released(At("success", c, desk), c)
  PROVE  /\ FollowsFrom(p, desk, e) /\ e.held = Release(desk.held, Handler(p, c).flag)
         /\ LET h == Handler(p, c) IN
            (h.clears = "success" \/ (h.closes = "success" /\ ~IsKept(p, h.dialog))) => e.entries[h.dialog] = NoEntry
<1>1. PICK d : d = At("success", c, desk)
  OBVIOUS
<1>2. /\ FollowsFrom(p, desk, d) /\ d.held = desk.held
      /\ LET h == Handler(p, c) IN
         (h.clears = "success" \/ (h.closes = "success" /\ ~IsKept(p, h.dialog))) => d.entries[h.dialog] = NoEntry
  BY <1>1, SuccessDesk
<1>3. /\ FollowsFrom(p, d, e) /\ e.entries = d.entries /\ e.held = Release(d.held, Handler(p, c).flag)
  BY <1>1, <1>2, LastFacts, ReleasedFacts DEF FollowsFrom
<1> QED BY <1>2, <1>3, FollowsFurther

LEMMA ReloadsMeanwhileKeeps ==
  ASSUME NEW p \in DeskPages, PageInv(p), NEW c \in calls, ReloadsMeanwhile(c)
  PROVE  PageInv(p)'
<1> USE DEF PageInv
<1>1. /\ EffectOf(c) = c /\ c \in Act /\ LastPart(p, c) /\ Handler(p, c).then = "starts"
      /\ c.n \in Nat /\ c.key \in PageKeys
  BY LastFacts DEF ReloadsMeanwhile, Act
<1>2. done' = done \cup {c} /\ calls' = calls \ {c} /\ shown' = shown
  BY <1>1 DEF ReloadsMeanwhile
<1>3. LandedCalls(p, c)
  BY <1>1, <1>2 DEF LandedCalls
<1>4. PICK l \in LoadSent : /\ IsSent(l) /\ l.key = c.key /\ l.waiting = 0 /\ l \notin loads
                            /\ loads' = loads \cup {l}
  BY <1>1, LoadIs DEF ReloadsMeanwhile
<1>5. PICK e : e = Released(At("success", c, desk), c)
  OBVIOUS
<1>6. /\ FollowsFrom(p, desk, e) /\ e.held = Release(desk.held, Handler(p, c).flag)
      /\ LET h == Handler(p, c) IN
         (h.clears = "success" \/ (h.closes = "success" /\ ~IsKept(p, h.dialog))) => e.entries[h.dialog] = NoEntry
  BY <1>5, ReleasedDesk
<1>7. /\ FollowsFrom(p, e, desk') /\ desk'.held = e.held
      /\ \A y \in DialogsOf(p) : desk'.entries[y] \in {e.entries[y], Unsent}
  BY <1>5, <1>6, HiddenFacts DEF ReloadsMeanwhile, FollowsFrom
<1>8. LET h == Handler(p, c) IN
      (h.clears = "success" \/ (h.closes = "success" /\ ~IsKept(p, h.dialog)))
        => desk'.entries[h.dialog] \in {NoEntry, Unsent}
  BY <1>6, <1>7, LastFacts DEF HandlerOfPage, DialogsOf
<1>9. FollowsFrom(p, desk, desk')
  BY <1>6, <1>7, FollowsFurther
<1>10. mishaps \subseteq mishaps' /\ (mishaps' \subseteq {"crossed"} => c.key = desk'.key)
  BY <1>9, StraysFacts DEF FollowsFrom, ReloadsMeanwhile
<1>11. /\ ticks'.clicks = ticks.clicks /\ ticks'.sent = ticks.sent + 1 /\ ticks'.last = ticks.last
       /\ ticks' \in [clicks : Nat, faults : Nat, sent : Nat, last : Nat]
  BY TickFacts DEF ReloadsMeanwhile
<1>12. Lands(p, c)
  <2>1. ticks'.sent = IF loads' = loads THEN ticks.sent ELSE ticks.sent + 1
    BY <1>4, <1>11
  <2>2. \A k \in loads' : k \in loads \/ (k.key = c.key /\ k.waiting \in {0, c.n})
    BY <1>4
  <2>3. shown' \in [key : PageKeys \cup {0}, rows : SUBSET Act, notes : SUBSET Act]
    BY <1>2 DEF DeskType
  <2>4. LoadsGrow
    BY <1>4 DEF LoadsGrow
  <2> QED BY <1>1, <1>2, <1>3, <1>6, <1>7, <1>8, <1>9, <1>10, <1>11, <2>1, <2>2, <2>3, <2>4 DEF Lands
<1>13. ListHolds(p)'
  BY <1>4, <1>10, <1>11, ListSends
<1>14. ~IsGuarded(p, c)
  BY <1>1 DEF IsGuarded, Guarded
<1> QED BY <1>12, <1>13, <1>14, LandedKeeps

\* No load is sent.
LEMMA LandsQuietly ==
  ASSUME NEW p \in DeskPages, PageInv(p), NEW c \in calls, LastPart(p, c), Handler(p, c).then # "awaits",
         done' = done \cup {c}, calls' = calls \ {c}, desk' = Released(At("success", c, desk), c),
         UNCHANGED <<loads, ticks>>, mishaps \subseteq mishaps',
         shown' \in [key : PageKeys \cup {0}, rows : SUBSET Act, notes : SUBSET Act],
         shown.rows \subseteq shown'.rows, shown.notes \subseteq shown'.notes
  PROVE  Lands(p, c)
<1>1. /\ FollowsFrom(p, desk, desk') /\ desk'.held = Release(desk.held, Handler(p, c).flag)
      /\ LET h == Handler(p, c) IN
         (h.clears = "success" \/ (h.closes = "success" /\ ~IsKept(p, h.dialog))) => desk'.entries[h.dialog] = NoEntry
  BY ReleasedDesk
<1>2. LandedCalls(p, c) /\ LoadsGrow /\ ticks \in [clicks : Nat, faults : Nat, sent : Nat, last : Nat]
  BY DEF LandedCalls, LoadsGrow, PageInv, DeskType
<1> QED BY <1>1, <1>2 DEF Lands

LEMMA PatchesKeeps ==
  ASSUME NEW p \in DeskPages, PageInv(p), NEW c \in calls, Patches(c)
  PROVE  PageInv(p)'
<1> USE DEF PageInv
<1>1. /\ EffectOf(c) = c /\ c \in Act /\ LastPart(p, c) /\ Handler(p, c).then = "patches"
      /\ HandlerOfPage(Handler(p, c), p)
  BY LastFacts DEF Patches
<1>2. /\ done' = done \cup {c} /\ calls' = calls \ {c} /\ shown' = [shown EXCEPT !.rows = shown.rows \cup {c}]
      /\ desk' = Released(At("success", c, desk), c) /\ UNCHANGED <<loads, ticks>>
      /\ mishaps' = mishaps \cup IF \E l \in loads : l.read THEN {"overwritten"} ELSE {}
  BY <1>1 DEF Patches
<1>3. /\ shown' \in [key : PageKeys \cup {0}, rows : SUBSET Act, notes : SUBSET Act]
      /\ shown'.key = shown.key /\ shown'.rows = shown.rows \cup {c} /\ shown'.notes = shown.notes
  BY <1>1, <1>2 DEF DeskType
<1>4. Lands(p, c)
  BY <1>1, <1>2, <1>3, LandsQuietly
<1>5. /\ ~p.keyed /\ ~Handler(p, c).first /\ c.at = "sent" /\ ~Waits(c, Handler(p, c))
  BY <1>1 DEF HandlerOfPage, LastPart, Waits
<1>6. desk'.key = desk.key /\ c.key = desk.key
  BY <1>4, <1>5 DEF Lands, FollowsFrom, NumbersHold, OneKey
<1>7. ASSUME "overwritten" \notin mishaps' PROVE \A l \in loads : ~l.read
  BY <1>2, <1>7
<1>8. ListHolds(p)'
  <2> SUFFICES ASSUME mishaps' \subseteq {"crossed"} PROVE
         /\ loads' = {} => shown'.key = desk'.key /\ Tells(p, shown.rows)'
         /\ \A k \in loads' : IsLatest(k)' => k.key = desk'.key /\ (k.read => Tells(p, k.got)')
    BY DEF ListHolds
  <2>1. mishaps \subseteq {"crossed"} /\ \A l \in loads : ~l.read
    BY <1>2, <1>7
  <2>2. \A x : HalfDone(x) => HalfDone(x)'
    BY <1>2, <1>5 DEF HalfDone
  <2>3. ListedOn(p, desk.key)' = ListedOn(p, desk.key) \cup {c}
    BY <1>1, <1>2, <1>5, <1>6 DEF ListedOn
  <2>4. ASSUME loads' = {} PROVE shown'.key = desk'.key /\ Tells(p, shown.rows)'
    <3>1. shown.key = desk.key /\ Tells(p, shown.rows)
      BY <1>2, <2>1, <2>4 DEF ListHolds
    <3> QED BY <1>3, <1>6, <2>2, <2>3, <3>1 DEF Tells
  <2>5. ASSUME NEW k \in loads', IsLatest(k)' PROVE k.key = desk'.key
    <3>1. IsLatest(k) /\ k \in loads
      BY <1>2, <2>5 DEF IsLatest
    <3> QED BY <1>6, <2>1, <3>1 DEF ListHolds
  <2> QED BY <1>2, <2>1, <2>4, <2>5
<1>9. mishaps' = {} => Known(p, c)'
  BY <1>1, <1>2, <1>3, <1>7 DEF Known, InLoads
<1> QED BY <1>4, <1>8, <1>9, LandedKeeps

LEMMA NotesKeeps ==
  ASSUME NEW p \in DeskPages, PageInv(p), NEW c \in calls, Notes(c)
  PROVE  PageInv(p)'
<1> USE DEF PageInv
<1>1. /\ EffectOf(c) = c /\ c \in Act /\ LastPart(p, c) /\ Handler(p, c).then = "notes"
  BY LastFacts DEF Notes
<1>2. /\ done' = done \cup {c} /\ calls' = calls \ {c} /\ shown' = [shown EXCEPT !.notes = shown.notes \cup {c}]
      /\ desk' = Released(At("success", c, desk), c) /\ UNCHANGED <<loads, ticks, mishaps>>
  BY <1>1 DEF Notes
<1>3. /\ shown' \in [key : PageKeys \cup {0}, rows : SUBSET Act, notes : SUBSET Act]
      /\ shown'.key = shown.key /\ shown'.rows = shown.rows /\ shown'.notes = shown.notes \cup {c}
  BY <1>1, <1>2 DEF DeskType
<1>4. Lands(p, c)
  BY <1>1, <1>2, <1>3, LandsQuietly
<1>5. desk'.key = desk.key
  BY <1>4 DEF Lands, FollowsFrom
<1>6. ListHolds(p)'
  <2>1. ListedOn(p, desk.key)' = ListedOn(p, desk.key)
    BY <1>1, <1>2, <1>5 DEF ListedOn
  <2>2. ASSUME NEW x \in ListedOn(p, desk.key), HalfDone(x) PROVE HalfDone(x)'
    <3>1. PICK b \in calls : b.of = x.of /\ b.n = x.n /\ b.at = "second" /\ x.at = "first"
      BY <2>2 DEF HalfDone
    <3>2. b # c
      BY <1>1, <3>1, SameHandler DEF ListedOn
    <3> QED BY <1>2, <3>1, <3>2 DEF HalfDone
  <2>3. \A rows : Tells(p, rows) => Tells(p, rows)'
    BY <1>5, <2>1, <2>2 DEF Tells
  <2>4. \A l \in loads : IsLatest(l)' => IsLatest(l)
    BY <1>2 DEF IsLatest
  <2> QED BY <1>2, <1>3, <1>5, <2>3, <2>4 DEF ListHolds
<1>7. Known(p, c)'
  BY <1>3 DEF Known
<1> QED BY <1>4, <1>6, <1>7, LandedKeeps

-----------------------------------------------------------------------------
(* The pages are opened and left *)

LEMMA OpenPageKeeps ==
  ASSUME DeskInit, OpenPage
  PROVE  \E p \in DeskPages : PageInv(p)'
<1>1. PICK p \in DeskPages :
        desk' = Veiled([desk EXCEPT !.page = p.name, !.entries = [d \in {d.name : d \in p.dialogs} |-> 0]])
  BY DEF OpenPage
<1>2. PICK e : e = [x \in DialogsOf(p) |-> 0]
  OBVIOUS
<1>3. PICK d : d = [desk EXCEPT !.page = p.name, !.entries = e]
  OBVIOUS
<1>4. desk' = Veiled(d)
  <2>1. e = [x \in {y.name : y \in p.dialogs} |-> 0]
    BY <1>2 DEF DialogsOf
  <2> QED BY <1>1, <1>3, <2>1
<1>5. /\ d \in OpenDesk(p) /\ d.key = 1 /\ d.held = {} /\ d.entries = e /\ d.dialog = None /\ d.since = 0
  <2>1. PICK none : none = <<>>
    OBVIOUS
  <2>2. desk = [page |-> NoPage, key |-> 1, dialog |-> None, row |-> NoRow, entries |-> none,
                held |-> {}, veiled |-> FALSE, since |-> 0]
    BY <2>1 DEF DeskInit, NoDesk
  <2>3. desk \in [page : {NoPage}, key : {1}, dialog : {None}, row : {NoRow}, entries : {none},
                  held : {{}}, veiled : {FALSE}, since : {0}]
    BY <2>2
  <2>4. PICK x : x = [desk EXCEPT !.page = p.name]
    OBVIOUS
  <2>5. x \in [page : {p.name}, key : {1}, dialog : {None}, row : {NoRow}, entries : {none},
               held : {{}}, veiled : {FALSE}, since : {0}]
    BY <2>3, <2>4
  <2>6. d = [x EXCEPT !.entries = e]
    BY <1>3, <2>4
  <2>7. d \in [page : {p.name}, key : {1}, dialog : {None}, row : {NoRow}, entries : {e},
               held : {{}}, veiled : {FALSE}, since : {0}]
    BY <2>5, <2>6
  <2>8. e \in [DialogsOf(p) -> Nat]
    BY <1>2
  <2>9. 1 \in PageKeys /\ NoRow \in Places /\ 0 \in Nat /\ {} \in SUBSET (FlagNames \X Places)
    BY DEF PageKeys, Places
  <2>10. d \in OpenDesk(p)
    BY <2>7, <2>8, <2>9 DEF OpenDesk
  <2> QED BY <2>7, <2>10
<1>6. /\ desk' \in OpenDesk(p) /\ desk'.key = 1 /\ desk'.held = {} /\ desk'.entries = e /\ desk'.since = 0
  <2>1. d.dialog \notin LocalDialogs(p) /\ d.page = p.name /\ PageNamed[p.name] = p /\ p.veils \in BOOLEAN
    BY <1>5, LocalsAre, ThePageIs DEF OpenDesk
  <2>2. desk' = [d EXCEPT !.veiled = p.veils]
    BY <1>4, <2>1 DEF Veiled
  <2> QED BY <1>5, <2>1, <2>2, VeiledFacts DEF FollowsFrom
<1>7. /\ shown' = NothingShown /\ calls' = {} /\ done' = {} /\ mishaps' = {}
      /\ shown' \in [key : PageKeys \cup {0}, rows : SUBSET Act, notes : SUBSET Act]
  <2>1. NothingShown \in [key : PageKeys \cup {0}, rows : SUBSET Act, notes : SUBSET Act]
    BY DEF NothingShown
  <2> QED BY <2>1 DEF OpenPage, DeskInit
<1>8. /\ ticks' = [clicks |-> 0, faults |-> 0, sent |-> 1, last |-> 0]
  BY DEF OpenPage, DeskInit, OneMoreLoad, NoTicks
<1>9. PICK l : l = [n |-> 1, key |-> 1, read |-> FALSE, got |-> {}, waiting |-> 0]
  OBVIOUS
<1>10. loads' = {l}
  BY <1>9 DEF OpenPage, DeskInit, LoadsAlso, NoTicks
<1>11. l \in LoadSent /\ l.n = 1 /\ l.key = 1 /\ ~l.read /\ l.waiting = 0
  BY <1>9 DEF LoadSent, PageKeys
<1>12. DeskType(p)'
  BY <1>6, <1>7, <1>8, <1>10, <1>11 DEF DeskType
<1>13. NumbersHold(p)'
  <2>1. LoadIsGood(l)'
    BY <1>7, <1>8, <1>11 DEF LoadIsGood
  <2>2. \A x \in DialogsOf(p) : EntryIsGood(desk'.entries[x], ticks'.clicks)
    BY <1>2, <1>6, <1>8 DEF EntryIsGood
  <2>3. MaxClicks \in Nat
    BY DeskAssumption
  <2> QED BY <1>6, <1>7, <1>8, <1>10, <1>11, <2>1, <2>2, <2>3
          DEF NumbersHold, CallsAreApart, LoadsAreApart, OneKey
<1>14. FlagsHold(p)'
  BY <1>6, <1>7 DEF FlagsHold
<1>15. ListHolds(p)'
  BY <1>6, <1>10, <1>11 DEF ListHolds
<1>16. EntriesHold(p)'
  BY <1>2, <1>6, <1>7 DEF EntriesHold, BlankWhenClosed, NoEntry
<1>17. RowsHold(p)'
  BY <1>7 DEF RowsHold
<1>18. LocalsHold(p)'
  BY <1>6, <1>7, <1>8 DEF LocalsHold
<1> QED BY <1>12, <1>13, <1>14, <1>15, <1>16, <1>17, <1>18 DEF PageInv

LEMMA PageKeeps ==
  ASSUME NEW p \in DeskPages, PageInv(p), DeskNext
  PROVE  DeskInv'
<1>1. IsOpen
  BY DeskIs DEF PageInv, DeskType
<1>2. ResetDesk => DeskInv'
  BY DEF ResetDesk, DeskInv, DeskInit
<1>3. CASE Reload
  BY <1>3, ReloadKeeps DEF DeskInv
<1>4. CASE SelectKey
  BY <1>4, SelectKeyKeeps DEF DeskInv
<1>5. CASE StreamAnnounces
  BY <1>5, StreamAnnouncesKeeps DEF DeskInv
<1>6. CASE OpenDialog
  BY <1>6, OpenDialogKeeps DEF DeskInv
<1>7. CASE TypeEntry
  BY <1>7, TypeEntryKeeps DEF DeskInv
<1>8. CASE CloseDialog
  BY <1>8, CloseDialogKeeps DEF DeskInv
<1>9. CASE Click
  BY <1>9, ClickKeeps DEF DeskInv
<1>10. ASSUME NEW n, AnswerLoad(n) PROVE DeskInv'
  <2>1. PICK l \in loads : LoadIsRead(l) \/ LoadArrives(l) \/ LoadFails(l)
    BY <1>10 DEF AnswerLoad
  <2>2. PageInv(p)'
    BY <2>1, LoadIsReadKeeps, LoadArrivesKeeps, LoadFailsKeeps
  <2> QED BY <2>2 DEF DeskInv
<1>11. ASSUME NEW n, AnswerCall(n) PROVE DeskInv'
  <2>1. PICK c \in calls : CallSucceeds(c) \/ CallFails(c)
    BY <1>11 DEF AnswerCall
  <2>2. CASE Leaves(c)
    BY <1>2, <2>2 DEF Leaves
  <2>3. CASE ~Leaves(c)
    <3>1. PageInv(p)'
      BY <2>1, <2>3, FirstSucceedsKeeps, ReloadsAndWaitsKeeps, ReloadsMeanwhileKeeps, PatchesKeeps, NotesKeeps,
         CallFailsKeeps DEF CallSucceeds
    <3> QED BY <3>1 DEF DeskInv
  <2> QED BY <2>2, <2>3
<1>12. CASE LeavePage
  BY <1>2, <1>12 DEF LeavePage
<1>13. ~OpenPage
  BY <1>1 DEF OpenPage
<1>14. CASE WorkerRuns
  BY <1>14, WorkerRunsKeeps DEF DeskInv
<1> QED BY <1>3, <1>4, <1>5, <1>6, <1>7, <1>8, <1>9, <1>10, <1>11, <1>12, <1>13, <1>14 DEF DeskNext

\* With no page open only a page is opened.
LEMMA NothingOpenKeeps ==
  ASSUME DeskInit, DeskNext PROVE DeskInv'
<1>1. ~IsOpen /\ loads = {} /\ calls = {} /\ done = {}
  BY DEF DeskInit, NoDesk, IsOpen
<1>2. OpenPage
  BY <1>1 DEF DeskNext, LeavePage, Reload, SelectKey, StreamAnnounces, WorkerRuns, OpenDialog, TypeEntry, CloseDialog,
              Click, AnswerLoad, AnswerCall
<1> QED BY <1>2, OpenPageKeeps DEF DeskInv

LEMMA PageHolds ==
  ASSUME NEW p \in DeskPages, PageInv(p) PROVE DesksHold
<1> USE DEF PageInv
<1>1. /\ desk \in OpenDesk(p) /\ \A c : HandlerOf(c) = Handler(p, c)
  BY DeskIs DEF DeskType
<1>2. ListTellsTheTruth
  <2> SUFFICES ASSUME loads = {}, calls = {}, mishaps \subseteq {"crossed"}
               PROVE  shown.key = desk.key /\ shown.rows = Listed(desk.key)
    BY DEF ListTellsTheTruth
  <2>1. shown.key = desk.key /\ Tells(p, shown.rows)
    BY DEF ListHolds
  <2>2. \A e : ~HalfDone(e)
    BY DEF HalfDone
  <2>3. Listed(desk.key) = ListedOn(p, desk.key)
    BY <1>1 DEF Listed, ListedOn
  <2> QED BY <2>1, <2>2, <2>3 DEF Tells
<1>3. EntriesCountOnce
  BY <1>1 DEF EntriesCountOnce, EntriesHold, Counted, SameEntry
<1>4. RowsAreDoneOnce
  BY <1>1 DEF RowsAreDoneOnce, RowsHold, IsGuarded, SameRow
<1>5. HeldIsReleased
  BY <1>1 DEF HeldIsReleased, FlagsHold
<1> QED BY <1>2, <1>3, <1>4, <1>5 DEF DesksHold

LEMMA NothingOpenHolds == ASSUME DeskInit PROVE DesksHold
BY DEF DeskInit, NoDesk, IsOpen, DesksHold, ListTellsTheTruth, EntriesCountOnce, RowsAreDoneOnce, HeldIsReleased

\* Whatever the pages, dialogs and handlers, of the kind assumed, and in whatever order
\* calls and loads are answered: a list tells the truth once nothing is under way, an
\* entry takes effect once, a row's button is not clicked twice and no button stays
\* disabled, with the exceptions DesksHold names.
THEOREM DesksAlwaysHold == DeskSpec => []DesksHold
<1>1. DeskInit => DeskInv
  BY DEF DeskInv
<1>2. DeskInv /\ [DeskNext]_deskVars => DeskInv'
  <2> SUFFICES ASSUME DeskInv, [DeskNext]_deskVars PROVE DeskInv'
    OBVIOUS
  <2>1. CASE UNCHANGED deskVars
    <3>1. DeskInit => DeskInit'
      BY <2>1 DEF deskVars, DeskInit
    <3>2. \A p : PageInv(p) => PageInv(p)'
      BY <2>1 DEF deskVars, PageInv, DeskType, NumbersHold, FlagsHold, ListHolds, EntriesHold, RowsHold,
                  CallIsGood, CallsAreApart, EffectIsGood, LoadIsGood, LoadsAreApart, OneKey, Alone, Tells,
                  ListedOn, HalfDone, IsLatest, InLoads, Known, Awaited, LocalsHold
    <3> QED BY <3>1, <3>2 DEF DeskInv
  <2>2. CASE DeskNext
    BY <2>2, PageKeeps, NothingOpenKeeps DEF DeskInv
  <2> QED BY <2>1, <2>2
<1>3. DeskInv => DesksHold
  BY PageHolds, NothingOpenHolds DEF DeskInv
<1> QED BY <1>1, <1>2, <1>3, PTL DEF DeskSpec
=============================================================================
