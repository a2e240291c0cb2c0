---------------------------- MODULE MCBackOffice ----------------------------
(* Employment, leave, attendance, the sign-up of tenants and their login   *)
(* configuration, the general ledger and project plans.  They share no     *)
(* state, so that a run checks them side by side: each steps only while    *)
(* the others are as they began.                                           *)
EXTENDS Employment, LeaveAndAttendance, Tenants, GeneralLedger, ProjectPlans, TLC

CONSTANTS jan, feb

D(a) == [debit |-> a, credit |-> 0]
C(a) == [debit |-> 0, credit |-> a]
\* Entries that balance, that are off by the tolerance, by what rounding adds,
\* and by more.
SomeDrafts == {<<D(4), C(4)>>, <<D(4), C(2)>>, <<D(1), D(1), C(2)>>,
               <<D(1), D(1), C(0)>>, <<D(2), C(8)>>}

\* Requests are interchangeable; the modules share the two sets of them.
OfficeSymmetry ==
  Permutations(HrRequests \cap ClockRequests \cap SignUps \cap Requests \cap PlanRequests)
  \cup Permutations(RealmRequests \cap Approvers \cap AccrualRuns)

officeVars ==
  <<employmentVars, leaveVars, attendanceVars, tenantVars, realmVars, vars, planVars>>

OfficeInit ==
  /\ EmploymentInit /\ LeaveInit /\ AttendanceInit /\ TenantsInit
  /\ RealmInit /\ Init /\ PlanInit

OfficeNext ==
  \/ /\ LeaveInit /\ AttendanceInit /\ TenantsInit /\ RealmInit
     /\ Init /\ PlanInit
     /\ EmploymentNext
     /\ UNCHANGED <<leaveVars, attendanceVars, tenantVars, realmVars, vars, planVars>>
  \/ /\ EmploymentInit /\ AttendanceInit /\ TenantsInit /\ RealmInit
     /\ Init /\ PlanInit
     /\ LeaveNext
     /\ UNCHANGED <<employmentVars, attendanceVars, tenantVars, realmVars, vars, planVars>>
  \/ /\ EmploymentInit /\ LeaveInit /\ TenantsInit /\ RealmInit
     /\ Init /\ PlanInit
     /\ AttendanceNext
     /\ UNCHANGED <<employmentVars, leaveVars, tenantVars, realmVars, vars, planVars>>
  \/ /\ EmploymentInit /\ LeaveInit /\ AttendanceInit /\ RealmInit
     /\ Init /\ PlanInit
     /\ TenantsNext
     /\ UNCHANGED <<employmentVars, leaveVars, attendanceVars, realmVars, vars, planVars>>
  \/ /\ EmploymentInit /\ LeaveInit /\ AttendanceInit /\ TenantsInit
     /\ Init /\ PlanInit
     /\ RealmNext
     /\ UNCHANGED <<employmentVars, leaveVars, attendanceVars, tenantVars, vars, planVars>>
  \/ /\ EmploymentInit /\ LeaveInit /\ AttendanceInit /\ TenantsInit
     /\ RealmInit /\ PlanInit
     /\ Next
     /\ UNCHANGED <<employmentVars, leaveVars, attendanceVars, tenantVars, realmVars, planVars>>
  \/ /\ EmploymentInit /\ LeaveInit /\ AttendanceInit /\ TenantsInit
     /\ RealmInit /\ Init
     /\ PlanNext
     /\ UNCHANGED <<employmentVars, leaveVars, attendanceVars, tenantVars, realmVars, vars>>

OfficeSpec == OfficeInit /\ [][OfficeNext]_officeVars
=============================================================================
