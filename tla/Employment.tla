----------------------------- MODULE Employment -----------------------------
(***************************************************************************)
(* Employees and their accounts: hiring with its compensation, roles, and  *)
(* contracts.  A person is known by an e-mail address, which is unique     *)
(* among the tenant's employees, its users and its Keycloak accounts.  No  *)
(* two statements share a transaction, and a failing one throws.           *)
(***************************************************************************)
EXTENDS Integers, Sequences, FiniteSets

CONSTANTS
  People,         \* e-mail addresses
  ErpRoles, Admin, \* realm roles and the one of the tenant's administrators
  Salaried,       \* people whose requests may carry a salary
  HrRequests,     \* HTTP requests, each made once
  HrConcurrency,  \* bound on those at work at a time
  HrFaults,       \* bound on crashes and failed statements
  MaxContracts    \* bound on the contracts of a person

ASSUME EmploymentAssumption ==
  Admin \in ErpRoles /\ Salaried \subseteq People /\ HrFaults \in Nat /\ MaxContracts \in Nat

VARIABLES
  employee,   \* per person: the row's status, and whether userId is set
  balances,   \* people with leave balances
  contracts,  \* per person: open or closed, in the order of their start
  account,    \* people with a Keycloak account
  realmRoles, \* the roles Keycloak maps to it
  user,       \* per person: no User row, or whether its ssoSubject is live
  userRoles,  \* the roles of the User
  hr,         \* where each request stands
  hrFaults,   \* faults so far
  unsettled   \* people whose requests overlapped or failed (not stored)

employmentVars == <<employee, balances, contracts, account, realmRoles, user,
                    userRoles, hr, hrFaults, unsettled>>

NoRow == [status |-> "none", linked |-> FALSE]
Free == [pc |-> "free"]
Done == [pc |-> "done"]
NoRole == "no role"

\* A request on p that carries role, or none, and perhaps a salary.
HrRequest(p, of, pc, role, paid) ==
  [pc |-> pc, who |-> p, of |-> of, role |-> role, paid |-> paid,
   admins |-> {}, current |-> 0]

Busy == {q \in HrRequests : hr[q] \notin {Free, Done}}
Working(p) == {q \in Busy : hr[q].who = p}
HrCanFail == hrFaults < HrFaults
HrAt(r, pc) == hr[r].pc = pc
GoTo(r, pc) == hr' = [hr EXCEPT ![r] = IF pc = "done" THEN Done ELSE [@ EXCEPT !.pc = pc]]

EmploymentInit ==
  /\ employee = [p \in People |-> NoRow]
  /\ balances = {} /\ account = {} /\ unsettled = {}
  /\ contracts = [p \in People |-> <<>>]
  /\ realmRoles = [p \in People |-> {}]
  /\ user = [p \in People |-> "none"]
  /\ userRoles = [p \in People |-> {}]
  /\ hr = [r \in HrRequests |-> Free]
  /\ hrFaults = 0

\* A request begins on a person; it is on its own unless another is at work.
Begin(r, s) ==
  /\ hr[r] = Free
  /\ Cardinality(Busy) < HrConcurrency
  /\ hr' = [hr EXCEPT ![r] = s]
  /\ unsettled' = IF Working(s.who) = {} THEN unsettled ELSE unsettled \cup {s.who}

-----------------------------------------------------------------------------
(* Hiring                                                                  *)

\* create: the row; without a role the employee gets no access.
Hire(r, p, role, paid) ==
  /\ employee[p] = NoRow
  /\ Begin(r, HrRequest(p, "hire", "balances", role, paid))
  /\ employee' = [employee EXCEPT ![p].status = "active"]
  /\ UNCHANGED <<balances, contracts, account, realmRoles, user, userRoles, hrFaults>>

AfterContract(s) == IF s.role = NoRole THEN "done" ELSE "oldAdmins"

SeedBalances(r) ==
  /\ HrAt(r, "balances")
  /\ balances' = balances \cup {hr[r].who}
  /\ GoTo(r, IF hr[r].paid THEN "contract" ELSE AfterContract(hr[r]))
  /\ UNCHANGED <<employee, contracts, account, realmRoles, user, userRoles, hrFaults, unsettled>>

FirstContract(r) ==
  /\ HrAt(r, "contract")
  /\ Len(contracts[hr[r].who]) < MaxContracts
  /\ contracts' = [contracts EXCEPT ![hr[r].who] = Append(@, "open")]
  /\ GoTo(r, AfterContract(hr[r]))
  /\ UNCHANGED <<employee, balances, account, realmRoles, user, userRoles, hrFaults, unsettled>>

\* provisionKcRoles: who is an administrator, then the mapping of each.  It
\* runs before a hire's account is created and again within assignUserRole.
ReadAdmins(r) ==
  /\ hr[r].pc \in {"oldAdmins", "admins"}
  /\ hr' = [hr EXCEPT ![r].pc = IF @ = "admins" THEN "map" ELSE "oldMap",
                      ![r].admins = {p \in People : user[p] # "none" /\ Admin \in userRoles[p]}]
  /\ UNCHANGED <<employee, balances, contracts, account, realmRoles, user, userRoles, hrFaults, unsettled>>

MapAdmins(r) ==
  LET seen == hr[r].admins IN
  /\ hr[r].pc \in {"oldMap", "map"}
  /\ realmRoles' = [p \in People |->
       realmRoles[p] \cup IF p \in seen /\ user[p] = "live" THEN {Admin} ELSE {}]
  /\ unsettled' = unsettled \cup {p \in seen : Admin \notin userRoles[p]}
  /\ hr' = [hr EXCEPT ![r].pc = IF @ = "map" THEN "strip" ELSE "account", ![r].admins = {}]
  /\ UNCHANGED <<employee, balances, contracts, account, user, userRoles, hrFaults>>

\* provisionEmployeeUser: the account, refused when the name is taken.
CreateAccount(r) ==
  /\ HrAt(r, "account")
  /\ IF hr[r].who \in account
     THEN GoTo(r, "unbalance") /\ UNCHANGED account
     ELSE GoTo(r, "password") /\ account' = account \cup {hr[r].who}
  /\ UNCHANGED <<employee, balances, contracts, realmRoles, user, userRoles, hrFaults, unsettled>>

SetPassword(r) ==
  /\ HrAt(r, "password")
  /\ GoTo(r, "user")
  /\ UNCHANGED <<employee, balances, contracts, account, realmRoles, user, userRoles, hrFaults, unsettled>>

\* The User row, refused when the address is taken.
CreateUser(r) ==
  /\ HrAt(r, "user")
  /\ IF user[hr[r].who] # "none"
     THEN GoTo(r, "unaccount") /\ UNCHANGED user
     ELSE GoTo(r, "clear") /\ user' = [user EXCEPT ![hr[r].who] = "live"]
  /\ UNCHANGED <<employee, balances, contracts, account, realmRoles, userRoles, hrFaults, unsettled>>

\* create: userId
LinkEmployee(r) ==
  /\ HrAt(r, "link")
  /\ employee' = [employee EXCEPT ![hr[r].who].linked = TRUE]
  /\ GoTo(r, "done")
  /\ UNCHANGED <<balances, contracts, account, realmRoles, user, userRoles, hrFaults, unsettled>>

-----------------------------------------------------------------------------
(* assignUserRole                                                          *)

ClearRoles(r) ==
  /\ HrAt(r, "clear")
  /\ userRoles' = [userRoles EXCEPT ![hr[r].who] = {}]
  /\ GoTo(r, "role")
  /\ UNCHANGED <<employee, balances, contracts, account, realmRoles, user, hrFaults, unsettled>>

AddRole(r) ==
  /\ HrAt(r, "role")
  /\ userRoles' = [userRoles EXCEPT ![hr[r].who] = @ \cup {hr[r].role}]
  /\ GoTo(r, "admins")
  /\ UNCHANGED <<employee, balances, contracts, account, realmRoles, user, hrFaults, unsettled>>

\* Every other realm role is taken from the account.
StripRoles(r) ==
  /\ HrAt(r, "strip")
  /\ realmRoles' = [realmRoles EXCEPT ![hr[r].who] = @ \cap {hr[r].role}]
  /\ GoTo(r, "grant")
  /\ UNCHANGED <<employee, balances, contracts, account, user, userRoles, hrFaults, unsettled>>

AfterGrant(r) ==
  hr' = [hr EXCEPT ![r] =
    IF @.of = "hire" THEN [@ EXCEPT !.pc = "link"]
    ELSE IF @.paid THEN [@ EXCEPT !.pc = "current", !.role = NoRole] ELSE Done]

GrantRole(r) ==
  LET p == hr[r].who IN
  /\ HrAt(r, "grant")
  /\ realmRoles' = [realmRoles EXCEPT ![p] = @ \cup IF user[p] = "live" THEN {hr[r].role} ELSE {}]
  /\ AfterGrant(r)
  /\ UNCHANGED <<employee, balances, contracts, account, user, userRoles, hrFaults, unsettled>>

-----------------------------------------------------------------------------
(* Updates                                                                 *)

\* update: the row; then the role, if one is given and the user is known.
Update(r, p, role, paid) ==
  /\ employee[p] # NoRow
  /\ role # NoRole => employee[p].linked
  /\ role # NoRole \/ paid
  /\ Begin(r, HrRequest(p, "update", IF role = NoRole THEN "current" ELSE "clear", role, paid))
  /\ UNCHANGED <<employee, balances, contracts, account, realmRoles, user, userRoles, hrFaults>>

\* update: the current contract is the open one that started last.
ReadContract(r) ==
  LET open == {k \in 1..Len(contracts[hr[r].who]) : contracts[hr[r].who][k] = "open"} IN
  /\ HrAt(r, "current")
  /\ IF open = {} THEN GoTo(r, "revise")
     ELSE hr' = [hr EXCEPT ![r] = [@ EXCEPT !.pc = "close",
                   !.current = CHOOSE k \in open : \A j \in open : j <= k]]
  /\ UNCHANGED <<employee, balances, contracts, account, realmRoles, user, userRoles, hrFaults, unsettled>>

CloseContract(r) ==
  /\ HrAt(r, "close")
  /\ hr[r].current <= Len(contracts[hr[r].who])
  /\ contracts' = [contracts EXCEPT ![hr[r].who][hr[r].current] = "closed"]
  /\ GoTo(r, "revise")
  /\ UNCHANGED <<employee, balances, account, realmRoles, user, userRoles, hrFaults, unsettled>>

ReviseContract(r) ==
  /\ HrAt(r, "revise")
  /\ Len(contracts[hr[r].who]) < MaxContracts
  /\ contracts' = [contracts EXCEPT ![hr[r].who] = Append(@, "open")]
  /\ GoTo(r, "done")
  /\ UNCHANGED <<employee, balances, account, realmRoles, user, userRoles, hrFaults, unsettled>>

\* remove and restore: accounts and roles are left as they are.
RemoveOrRestore(r, p) ==
  /\ hr[r] = Free
  /\ employee[p] # NoRow
  /\ GoTo(r, "done")
  /\ employee' = [employee EXCEPT ![p].status = IF @ = "active" THEN "terminated" ELSE "active"]
  /\ UNCHANGED <<balances, contracts, account, realmRoles, user, userRoles, hrFaults, unsettled>>

\* findMe: a user whose employee is not linked yet.
FindMe(p) ==
  /\ user[p] = "live" /\ p \in account
  /\ employee[p] = [status |-> "active", linked |-> FALSE]
  /\ employee' = [employee EXCEPT ![p].linked = TRUE]
  /\ UNCHANGED <<balances, contracts, account, realmRoles, user, userRoles, hr, hrFaults, unsettled>>

-----------------------------------------------------------------------------
(* Failures and compensation                                               *)

\* Where a failing statement leads: out of the hire's account and rows, out of
\* its rows, also when the account cannot be deleted, or out of the request.
OnError(s) ==
  CASE s.of = "hire" /\ s.pc \in {"user", "clear", "role", "admins", "map", "grant"} -> "unaccount"
    [] s.of = "hire" /\ s.pc \in {"oldAdmins", "oldMap", "account", "password", "link", "unaccount"} -> "unbalance"
    [] OTHER -> "done"

\* What a hire that is given up leaves behind in Keycloak.
Unaccount(r) ==
  LET p == hr[r].who IN
  /\ HrAt(r, "unaccount")
  /\ account' = account \ {p}
  /\ realmRoles' = [realmRoles EXCEPT ![p] = {}]
  /\ user' = [user EXCEPT ![p] = IF @ = "live" THEN "dead" ELSE @]
  /\ GoTo(r, "unbalance")
  /\ UNCHANGED <<employee, balances, contracts, userRoles, hrFaults, unsettled>>

\* A compensation that stops at the balances.
UnbalanceOnly(r) ==
  /\ HrAt(r, "unbalance")
  /\ balances' = balances \ {hr[r].who}
  /\ GoTo(r, "unhire")
  /\ UNCHANGED <<employee, contracts, account, realmRoles, user, userRoles, hrFaults, unsettled>>

Unbalance(r) ==
  /\ HrAt(r, "unbalance")
  /\ balances' = balances \ {hr[r].who}
  /\ GoTo(r, "uncontract")
  /\ UNCHANGED <<employee, contracts, account, realmRoles, user, userRoles, hrFaults, unsettled>>

Uncontract(r) ==
  /\ HrAt(r, "uncontract")
  /\ contracts' = [contracts EXCEPT ![hr[r].who] = <<>>]
  /\ GoTo(r, "unhire")
  /\ UNCHANGED <<employee, balances, account, realmRoles, user, userRoles, hrFaults, unsettled>>

Unhire(r) ==
  /\ HrAt(r, "unhire")
  /\ employee' = [employee EXCEPT ![hr[r].who] = NoRow]
  /\ GoTo(r, "done")
  /\ UNCHANGED <<balances, contracts, account, realmRoles, user, userRoles, hrFaults, unsettled>>

\* The calls that take and give realm roles are only tried.
RoleCallFails(r) ==
  /\ HrCanFail
  /\ \/ HrAt(r, "strip") /\ GoTo(r, "grant")
     \/ HrAt(r, "grant") /\ AfterGrant(r)
  /\ unsettled' = unsettled \cup {hr[r].who}
  /\ hrFaults' = hrFaults + 1
  /\ UNCHANGED <<employee, balances, contracts, account, realmRoles, user, userRoles>>

\* A statement or a call fails; a hire's are compensated, except the first and the
\* compensation itself.
HrFails(r) ==
  /\ HrCanFail
  /\ r \in Busy
  /\ GoTo(r, OnError(hr[r]))
  /\ unsettled' = IF OnError(hr[r]) = "done" \/ HrAt(r, "unaccount")
                  THEN unsettled \cup {hr[r].who} ELSE unsettled
  /\ hrFaults' = hrFaults + 1
  /\ UNCHANGED <<employee, balances, contracts, account, realmRoles, user, userRoles>>

\* The process dies.
HrCrash ==
  /\ HrCanFail
  /\ unsettled' = unsettled \cup {p \in People : Working(p) # {}}
  /\ hr' = [r \in HrRequests |-> IF hr[r] = Free THEN Free ELSE Done]
  /\ hrFaults' = hrFaults + 1
  /\ UNCHANGED <<employee, balances, contracts, account, realmRoles, user, userRoles>>

-----------------------------------------------------------------------------
HireSteps(r) ==
  \/ SeedBalances(r) \/ FirstContract(r) \/ ReadAdmins(r) \/ MapAdmins(r)
  \/ CreateAccount(r) \/ SetPassword(r) \/ CreateUser(r) \/ LinkEmployee(r)
  \/ Unaccount(r) \/ Unbalance(r) \/ Uncontract(r) \/ Unhire(r)

UpdateSteps(r) ==
  \/ ClearRoles(r) \/ AddRole(r) \/ StripRoles(r) \/ GrantRole(r)
  \/ ReadContract(r) \/ CloseContract(r) \/ ReviseContract(r)

EmploymentNext ==
  \/ \E r \in HrRequests, p \in People, role \in ErpRoles \cup {NoRole} :
       \E paid \in {FALSE, (p \in Salaried)} : Hire(r, p, role, paid) \/ Update(r, p, role, paid)
  \/ \E r \in HrRequests, p \in People : RemoveOrRestore(r, p)
  \/ \E r \in HrRequests : HireSteps(r) \/ UpdateSteps(r) \/ HrFails(r) \/ RoleCallFails(r)
  \/ \E p \in People : FindMe(p)
  \/ HrCrash

EmploymentSpec == EmploymentInit /\ [][EmploymentNext]_employmentVars

-----------------------------------------------------------------------------
Settled(p) == Working(p) = {} /\ p \notin unsettled

\* create and findMe: an employee who is linked to a user can log in, whatever
\* was compensated before.
LinkedCanLogIn ==
  \A p \in People : Settled(p) /\ employee[p].linked => user[p] = "live" /\ p \in account

\* create's catch: a hire that was given up leaves no row of HR's behind.
GivenUpLeavesNoRow ==
  \A p \in People : Settled(p) /\ employee[p] = NoRow =>
    p \notin balances /\ contracts[p] = <<>>

\* update: payroll finds an open contract of everyone who ever had one.  This
\* does not need the updates to come one after another.
ContractIsOpen ==
  \A p \in People :
    (Working(p) = {} /\ hrFaults = 0 /\ contracts[p] # <<>>) =>
      \E k \in 1..Len(contracts[p]) : contracts[p][k] = "open"

\* assignUserRole and provisionKcRoles: whose User has its account has one role, the
\* same in the database and in Keycloak, employed or not; anybody else's account, if
\* one was left, has no role.
RolesAgree ==
  \A p \in People : Settled(p) =>
    IF user[p] = "live"
    THEN p \in account /\ \E role \in ErpRoles : userRoles[p] = {role} /\ realmRoles[p] = {role}
    ELSE realmRoles[p] = {}

\* EmployeeService, provisionEmployeeUser and assignUserRole together: a hire
\* that succeeded is complete in the database and in Keycloak; one that was given up
\* left no row of HR's and no half of a login.  It may leave an account without a
\* role (its password failed), a User row without its account (a role failed), or,
\* when the link failed, a login that is complete.
HiresAreWhole ==
  /\ LinkedCanLogIn
  /\ GivenUpLeavesNoRow
  /\ ContractIsOpen
  /\ RolesAgree
=============================================================================
