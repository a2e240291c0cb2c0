------------------------------ MODULE MCBudget ------------------------------
(* Budget, fed by payroll on a small instance: one employee works on two    *)
(* tasks of one project and a task of another, a second one on one task,    *)
(* and the deductions of a third exceed the salary; and the settings page   *)
(* beside it.  They share no state, so that a run checks them side by side: *)
(* each steps only while the other is as it began.  Nothing that is fair is *)
(* enabled in an initial state.                                             *)
EXTENDS Budget, SettingsPage, TLC

CONSTANTS p1, p2, slip1, slip2, slip3

ThreePayslips == (slip1 :> 6) @@ (slip2 :> 1) @@ (slip3 :> -2)

FiveTasks ==
  (slip1 :> {[task |-> 1, project |-> p1, hours |-> 10],
             [task |-> 2, project |-> p1, hours |-> 20],
             [task |-> 3, project |-> p2, hours |-> 30]})
  @@ (slip2 :> {[task |-> 1, project |-> p1, hours |-> 10]})
  @@ (slip3 :> {[task |-> 2, project |-> p2, hours |-> 10]})

pagesVars == <<vars, settingsVars>>

PagesInit == Init /\ SettingsInit

PagesNext ==
  \/ /\ SettingsInit
     /\ Next
     /\ UNCHANGED <<settingsVars>>
  \/ /\ Init
     /\ SettingsNext
     /\ UNCHANGED <<vars>>

PagesSpec ==
  /\ PagesInit /\ [][PagesNext]_pagesVars
  /\ BudgetFairness /\ SettingsFairness

\* A reported cost gets its line, and the settings page's button comes back.
CostsAndSavesLand == ReportedCostLands /\ SaveComesBack
=============================================================================
