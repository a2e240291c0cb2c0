------------------------------- MODULE MCPages ------------------------------
(* Delivery with symmetric ids, and beside it the pages of the dashboard:   *)
(* those that show a list, the page that creates a project, the form of an  *)
(* employee, the search box and the pages that train forecasts.  They share *)
(* no state, so that a run checks them side by side: each steps only while  *)
(* the others are as they began.                                            *)
EXTENDS Delivery, DeskPages,
        ProjectAndEmployeeForms, SearchAndTraining, TLC

CONSTANTS d1, m1, f1, f2

AllPages == FinancePages \cup SupplyPages \cup PeoplePages \cup ProjectPages

TwoProducts == <<f1, f2>>

OneDepartment == d1 :> {m1}

PageSymmetry == Permutations(EventIds) \cup Permutations(Sources) \cup Permutations(Rows)

pagesVars == <<vars, deskVars, wizardVars, formVars, boxVars, trainVars>>

PagesInit == Init /\ DeskInit /\ WizardInit /\ FormInit /\ BoxInit /\ TrainInit

PagesNext ==
  \/ /\ DeskInit /\ WizardInit /\ FormInit /\ BoxInit /\ TrainInit
     /\ Next
     /\ UNCHANGED <<deskVars, wizardVars, formVars, boxVars, trainVars>>
  \/ /\ Init /\ WizardInit /\ FormInit /\ BoxInit /\ TrainInit
     /\ DeskNext
     /\ UNCHANGED <<vars, wizardVars, formVars, boxVars, trainVars>>
  \/ /\ Init /\ DeskInit /\ FormInit /\ BoxInit /\ TrainInit
     /\ WizardNext
     /\ UNCHANGED <<vars, deskVars, formVars, boxVars, trainVars>>
  \/ /\ Init /\ DeskInit /\ WizardInit /\ BoxInit /\ TrainInit
     /\ FormNext
     /\ UNCHANGED <<vars, deskVars, wizardVars, boxVars, trainVars>>
  \/ /\ Init /\ DeskInit /\ WizardInit /\ FormInit /\ BoxInit
     /\ TrainNext
     /\ UNCHANGED <<vars, deskVars, wizardVars, formVars, boxVars>>
  \/ /\ Init /\ DeskInit /\ WizardInit /\ FormInit /\ TrainInit
     /\ BoxNext
     /\ UNCHANGED <<vars, deskVars, wizardVars, formVars, trainVars>>

PagesSpec == PagesInit /\ [][PagesNext]_pagesVars
=============================================================================
