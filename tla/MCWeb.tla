-------------------------------- MODULE MCWeb -------------------------------
(* The web client's calls and its analytics workspace, and the search      *)
(* index.  They share no state, so that a run checks them side by side:    *)
(* each steps only while the others are as they began.  Nothing that is    *)
(* fair is enabled in an initial state.                                    *)
EXTENDS WebSession, BiWorkspace, SearchIndex, TLC

CONSTANTS emp, proj

MCKinds == <<{emp}, {proj}>>

webVars == <<sessionVars, biVars, searchVars>>

WebInit == SessionInit /\ BiInit /\ SearchInit

WebNext ==
  \/ /\ BiInit /\ SearchInit
     /\ SessionNext
     /\ UNCHANGED <<biVars, searchVars>>
  \/ /\ SessionInit /\ SearchInit
     /\ BiNext
     /\ UNCHANGED <<sessionVars, searchVars>>
  \/ /\ SessionInit /\ BiInit
     /\ SearchNext
     /\ UNCHANGED <<sessionVars, biVars>>

WebSpec ==
  /\ WebInit /\ [][WebNext]_webVars
  /\ SessionFairness /\ BiFairness /\ SearchFairness

\* Calls come back, key figures catch up with the filter, a new row is found.
WebCatchesUp == CallsSettle /\ KpisCatchUp /\ CreatedIsFound
=============================================================================
