------------------------------- MODULE Tenants ------------------------------
(***************************************************************************)
(* Sign-up of a tenant (TenantService.createTenant): a realm in Keycloak   *)
(* with a client, an administrator and roles, built call by call, then the *)
(* tenant's rows in the database.  Nothing of a sign-up that fails half    *)
(* way is taken back; its realm keeps the slug.                            *)
(***************************************************************************)
EXTENDS Integers, SequencesExt

CONSTANTS
  Slugs,       \* names that tenants sign up with
  SignUps,     \* calls of createTenant, each made once
  SignUpFaults \* bound on failing steps

ASSUME TenantsAssumption == SignUpFaults \in Nat

VARIABLES
  realm,      \* what exists of each realm in Keycloak
  accounts,   \* users of each realm, by the sign-up that made them: with password, with TenantAdmin
  tenant,     \* the Tenant row of each slug, with the User and Role rows created with it
  signUp,     \* where each call stands
  signUpFaults

tenantVars == <<realm, accounts, tenant, signUp, signUpFaults>>

NoTenant == [exists |-> FALSE]
NotCalledYet == [at |-> "none"]
SignUpOver(ok) == [at |-> "over", ok |-> ok]

\* The calls on Keycloak in their order
KeycloakSteps ==
  <<"realm", "client", "user", "password", "TenantAdmin", "Manager", "Viewer", "Employee",
    "auto-link flow", "mapping">>
RealmParts ==
  {"realm", "client", "TenantAdmin", "Manager", "Viewer", "Employee", "auto-link flow"}

TenantsInit ==
  /\ realm = [s \in Slugs |-> {}]
  /\ accounts = [s \in Slugs |-> {}]
  /\ tenant = [s \in Slugs |-> NoTenant]
  /\ signUp = [c \in SignUps |-> NotCalledYet]
  /\ signUpFaults = 0

SigningUp(c) == signUp[c].at \notin {"none", "over"}
StepOf(c) == KeycloakSteps[signUp[c].n]
Advance(c) ==
  signUp' = IF signUp[c].n = Len(KeycloakSteps) THEN [signUp EXCEPT ![c].at = "row"]
            ELSE [signUp EXCEPT ![c].n = @ + 1]

-----------------------------------------------------------------------------
\* A slug that a tenant has is refused.
CreateTenant(c, s) ==
  /\ signUp[c] = NotCalledYet
  /\ signUp' = [signUp EXCEPT ![c] =
       IF tenant[s].exists THEN SignUpOver(FALSE) ELSE [at |-> "keycloak", slug |-> s, n |-> 1]]
  /\ UNCHANGED <<realm, accounts, tenant, signUpFaults>>

\* Keycloak makes a part of the realm.  A realm that exists is a conflict, which
\* ends the call; in a realm of its own nothing else conflicts.
ExtendRealmAnyway(c) ==
  /\ signUp[c].at = "keycloak" /\ StepOf(c) \in RealmParts
  /\ realm' = [realm EXCEPT ![signUp[c].slug] = @ \cup {StepOf(c)}]
  /\ Advance(c)
  /\ UNCHANGED <<accounts, tenant, signUpFaults>>

ExtendRealm(c) ==
  /\ signUp[c].at = "keycloak" /\ StepOf(c) \in RealmParts
  /\ IF StepOf(c) \in realm[signUp[c].slug]
     THEN signUp' = [signUp EXCEPT ![c] = SignUpOver(FALSE)] /\ UNCHANGED realm
     ELSE realm' = [realm EXCEPT ![signUp[c].slug] = @ \cup {StepOf(c)}] /\ Advance(c)
  /\ UNCHANGED <<accounts, tenant, signUpFaults>>

\* The administrator: created, given the password, mapped to TenantAdmin
ExtendAdmin(c) ==
  /\ signUp[c].at = "keycloak" /\ StepOf(c) \notin RealmParts
  /\ accounts' = [accounts EXCEPT ![signUp[c].slug] =
       {a \in @ : a.by # c} \cup
       {[by |-> c, password |-> StepOf(c) # "user", admin |-> StepOf(c) = "mapping"]}]
  /\ Advance(c)
  /\ UNCHANGED <<realm, tenant, signUpFaults>>

\* The tenant with its user, roles and leave types in one write
CreateRow(c) ==
  /\ signUp[c].at = "row"
  /\ IF tenant[signUp[c].slug].exists
     THEN signUp' = [signUp EXCEPT ![c] = SignUpOver(FALSE)] /\ UNCHANGED tenant
     ELSE /\ tenant' = [tenant EXCEPT ![signUp[c].slug] =
               [exists |-> TRUE, subject |-> c, adminRole |-> FALSE]]
          /\ signUp' = [signUp EXCEPT ![c].at = "role"]
  /\ UNCHANGED <<realm, accounts, signUpFaults>>

AssignAdminRole(c) ==
  /\ signUp[c].at = "role"
  /\ tenant' = [tenant EXCEPT ![signUp[c].slug].adminRole = TRUE]
  /\ signUp' = [signUp EXCEPT ![c] = SignUpOver(TRUE)]
  /\ UNCHANGED <<realm, accounts, signUpFaults>>

\* A call on Keycloak or on the database throws, or the process dies.
SignUpFails(c) ==
  /\ SigningUp(c)
  /\ signUpFaults < SignUpFaults
  /\ signUpFaults' = signUpFaults + 1
  /\ signUp' = [signUp EXCEPT ![c] = SignUpOver(FALSE)]
  /\ UNCHANGED <<realm, accounts, tenant>>

TenantsNext ==
  \E c \in SignUps :
    \/ \E s \in Slugs : CreateTenant(c, s)
    \/ ExtendRealm(c) \/ ExtendAdmin(c) \/ CreateRow(c) \/ AssignAdminRole(c)
    \/ SignUpFails(c)

TenantsSpec == TenantsInit /\ [][TenantsNext]_tenantVars

-----------------------------------------------------------------------------
\* createTenant: although Keycloak and the database are written one after the
\* other and two sign-ups may want one slug, a tenant has a realm with all its
\* parts, the one account in it is that of the tenant's user, and it has the
\* password and the role of an administrator.
TenantIsWhole ==
  \A s \in Slugs : tenant[s].exists =>
    /\ realm[s] = RealmParts
    /\ accounts[s] = {[by |-> tenant[s].subject, password |-> TRUE, admin |-> TRUE]}

-----------------------------------------------------------------------------
(***************************************************************************)
(* The login configuration of a tenant's Keycloak realm: MFA enforcement,  *)
(* identity providers and the flows they use.  Every request is a series   *)
(* of calls to Keycloak's admin API, none of which belongs to a            *)
(* transaction; while it runs users are added, set up their authenticator, *)
(* or are removed, and other requests run.                                 *)
(***************************************************************************)
CONSTANTS
  Idps,           \* aliases of identity providers
  KcUsers,        \* usernames, naturals in the order Keycloak lists them
  RealmRequests,  \* HTTP requests, each made once
  PageSize,       \* users of a page (100)
  RealmFaults     \* bound on failed calls

ASSUME RealmsAssumption ==
  KcUsers \subseteq Nat /\ PageSize \in Nat \ {0} /\ RealmFaults \in Nat

VARIABLES
  totpDefault,  \* CONFIGURE_TOTP is a default action
  flow,         \* the two flows: absent, partial, complete
  idp,          \* per identity provider: whether it exists and asks for OTP
  kcUsers,      \* accounts
  pending,      \* accounts with CONFIGURE_TOTP among their required actions
  otp,          \* accounts with an authenticator
  call,         \* where each request stands: the steps it has left
  enforcement,  \* what the last setMfaEnforcement asked for (not stored)
  muddled,      \* requests overlapped or failed, or a page shifted (not stored)
  realmFaults

realmVars == <<totpDefault, flow, idp, kcUsers, pending, otp, call, enforcement,
               muddled, realmFaults>>

Flows == {"auto-link", "post-broker-mfa"}
Filling(f) == IF f = "auto-link" THEN "fill-auto-link" ELSE "fill-post-broker-mfa"
Uncalled == [todo |-> <<"unused">>]
Over == [todo |-> <<>>]
Steps(todo, on) == [todo |-> todo, on |-> on, first |-> 0, page |-> <<>>, seen |-> {}, idps |-> {}]

AtWork == {r \in RealmRequests : call[r] \notin {Uncalled, Over}}
Next1(r, step) == r \in AtWork /\ Head(call[r].todo) = step
Rest(r) == [call[r] EXCEPT !.todo = Tail(@)]
Goes(r, c) == call' = [call EXCEPT ![r] = IF c.todo = <<>> THEN Over ELSE c]
\* The users after the first ones, in the order of their names.
Place(u) == Cardinality({v \in kcUsers : v <= u})
Page(first) ==
  LET last == IF first + PageSize < Cardinality(kcUsers) THEN first + PageSize
              ELSE Cardinality(kcUsers)
  IN [k \in 1 .. last - first |-> CHOOSE u \in kcUsers : Place(u) = first + k]

RealmInit ==
  /\ totpDefault = FALSE
  /\ flow = [f \in Flows |-> "absent"]
  /\ idp = [i \in Idps |-> "none"]
  /\ kcUsers = {} /\ pending = {} /\ otp = {}
  /\ call = [r \in RealmRequests |-> Uncalled]
  /\ enforcement = "never" /\ muddled = FALSE /\ realmFaults = 0

-----------------------------------------------------------------------------
(* Requests                                                                *)

BeginCall(r, c) ==
  /\ call[r] = Uncalled
  /\ call' = [call EXCEPT ![r] = c]
  /\ muddled' = (muddled \/ AtWork # {})
  /\ UNCHANGED <<totpDefault, flow, idp, kcUsers, pending, otp, realmFaults>>

\* setMfaEnforcement
SetMfaEnforcement(r, on) ==
  /\ BeginCall(r, Steps(IF on THEN <<"default", "post-broker-mfa", "list", "idps", "page">>
                        ELSE <<"default", "list", "idps", "page">>, on))
  /\ enforcement' = IF on THEN "on" ELSE "off"

\* createIdentityProvider
CreateIdentityProvider(r) ==
  BeginCall(r, Steps(<<"auto-link", "enforced", "create">>, FALSE)) /\ UNCHANGED enforcement

\* Step 1 of setMfaEnforcement: users to come
SetDefaultAction(r) ==
  /\ Next1(r, "default")
  /\ totpDefault' = call[r].on
  /\ Goes(r, Rest(r))
  /\ UNCHANGED <<flow, idp, kcUsers, pending, otp, enforcement, muddled, realmFaults>>

\* ensureAutoLinkFlowForRealm, ensurePostBrokerMfaFlowForRealm: a flow of that
\* alias is taken for complete.
EnsureFlow(r, f) ==
  /\ Next1(r, f)
  /\ IF flow[f] # "absent" THEN Goes(r, Rest(r)) /\ UNCHANGED flow
     ELSE /\ flow' = [flow EXCEPT ![f] = "partial"]
          /\ Goes(r, [call[r] EXCEPT !.todo[1] = Filling(f)])
  /\ UNCHANGED <<totpDefault, idp, kcUsers, pending, otp, enforcement, muddled, realmFaults>>

\* Their executions and requirements
FillFlow(r, f) ==
  /\ Next1(r, Filling(f))
  /\ flow' = [flow EXCEPT ![f] = "complete"]
  /\ Goes(r, Rest(r))
  /\ UNCHANGED <<totpDefault, idp, kcUsers, pending, otp, enforcement, muddled, realmFaults>>

\* Step 2: the providers are listed, then updated one by one.
ListProviders(r) ==
  /\ Next1(r, "list")
  /\ Goes(r, [Rest(r) EXCEPT !.idps = {i \in Idps : idp[i] # "none"}])
  /\ UNCHANGED <<totpDefault, flow, idp, kcUsers, pending, otp, enforcement, muddled, realmFaults>>

UpdateProvider(r) ==
  /\ Next1(r, "idps")
  /\ IF call[r].idps = {} THEN Goes(r, Rest(r)) /\ UNCHANGED idp
     ELSE \E i \in call[r].idps :
       /\ idp[i] # "none"
       /\ idp' = [idp EXCEPT ![i] = IF call[r].on THEN "otp" ELSE "plain"]
       /\ Goes(r, [call[r] EXCEPT !.idps = @ \ {i}])
  /\ UNCHANGED <<totpDefault, flow, kcUsers, pending, otp, enforcement, muddled, realmFaults>>

\* A full page taken for the last one.
LastPageFull(page) == Len(page) <= PageSize

LastPage(page) == Len(page) < PageSize

\* Step 3: a page of users with their required actions
ReadPage(r) ==
  LET page == Page(call[r].first) IN
  /\ Next1(r, "page")
  /\ Goes(r, [call[r] EXCEPT !.page = page, !.seen = pending \cap ToSet(page),
        !.first = @ + PageSize,
        !.todo = IF LastPage(page) THEN <<"flag">> ELSE <<"flag", "page">>])
  /\ UNCHANGED <<totpDefault, flow, idp, kcUsers, pending, otp, enforcement, muddled, realmFaults>>

\* One user of the page: whoever has an authenticator is left alone.
FlagUser(r) ==
  LET u == Head(call[r].page) IN
  /\ Next1(r, "flag")
  /\ IF call[r].page = <<>> THEN Goes(r, Rest(r)) /\ UNCHANGED pending
     ELSE /\ u \in kcUsers
          /\ pending' = IF call[r].on
                        THEN pending \cup ({u} \ (call[r].seen \cup otp))
                        ELSE pending \ ({u} \cap call[r].seen)
          /\ Goes(r, [call[r] EXCEPT !.page = Tail(@)])
  /\ UNCHANGED <<totpDefault, flow, idp, kcUsers, otp, enforcement, muddled, realmFaults>>

\* createIdentityProvider: getMfaEnforcement, then the provider
ReadEnforced(r) ==
  /\ Next1(r, "enforced")
  /\ Goes(r, [Rest(r) EXCEPT !.on = totpDefault])
  /\ UNCHANGED <<totpDefault, flow, idp, kcUsers, pending, otp, enforcement, muddled, realmFaults>>

\* createIdentityProvider: the provider, with the flow it read to be enforced
CreateProvider(r, i) ==
  /\ Next1(r, "create")
  /\ idp[i] = "none"
  /\ call[r].on => flow["post-broker-mfa"] # "absent"
  /\ idp' = [idp EXCEPT ![i] = IF call[r].on THEN "otp" ELSE "plain"]
  /\ Goes(r, Rest(r))
  /\ UNCHANGED <<totpDefault, flow, kcUsers, pending, otp, enforcement, muddled, realmFaults>>

\* deleteIdentityProvider
DeleteIdentityProvider(i) ==
  /\ idp[i] # "none"
  /\ idp' = [idp EXCEPT ![i] = "none"]
  /\ muddled' = (muddled \/ AtWork # {})
  /\ UNCHANGED <<totpDefault, flow, kcUsers, pending, otp, call, enforcement, realmFaults>>

\* updateRequiredAction of CONFIGURE_TOTP
UpdateRequiredAction(on) ==
  /\ totpDefault # on
  /\ totpDefault' = on
  /\ enforcement' = "never"
  /\ muddled' = (muddled \/ AtWork # {})
  /\ UNCHANGED <<flow, idp, kcUsers, pending, otp, call, realmFaults>>

\* A call fails: 409 of a racing creation, 404 of what was deleted, or an
\* unreachable Keycloak.  The request ends where it is.
CallFails(r) ==
  /\ r \in AtWork /\ realmFaults < RealmFaults
  /\ call' = [call EXCEPT ![r] = Over]
  /\ muddled' = TRUE
  /\ realmFaults' = realmFaults + 1
  /\ UNCHANGED <<totpDefault, flow, idp, kcUsers, pending, otp, enforcement>>

-----------------------------------------------------------------------------
(* Users                                                                   *)

\* An account gets the realm's default actions.
AddUser(u) ==
  /\ u \notin kcUsers
  /\ kcUsers' = kcUsers \cup {u}
  /\ pending' = IF totpDefault THEN pending \cup {u} ELSE pending
  /\ UNCHANGED <<totpDefault, flow, idp, otp, call, enforcement, muddled, realmFaults>>

\* At the next login the user sets up an authenticator.
SetUpOtp(u) ==
  /\ u \in pending
  /\ otp' = otp \cup {u} /\ pending' = pending \ {u}
  /\ UNCHANGED <<totpDefault, flow, idp, kcUsers, call, enforcement, muddled, realmFaults>>

\* A compensated hire deletes its account: the pages after it shift.
RemoveUser(u) ==
  /\ u \in kcUsers
  /\ kcUsers' = kcUsers \ {u} /\ pending' = pending \ {u} /\ otp' = otp \ {u}
  /\ muddled' = (muddled \/ \E r \in AtWork : call[r].first > 0 \/ call[r].page # <<>>)
  /\ UNCHANGED <<totpDefault, flow, idp, call, enforcement, realmFaults>>

-----------------------------------------------------------------------------
RealmNext ==
  \/ \E r \in RealmRequests :
       \/ \E on \in BOOLEAN : SetMfaEnforcement(r, on)
       \/ CreateIdentityProvider(r)
       \/ SetDefaultAction(r) \/ ListProviders(r) \/ UpdateProvider(r)
       \/ ReadPage(r) \/ FlagUser(r) \/ ReadEnforced(r) \/ CallFails(r)
       \/ \E f \in Flows : EnsureFlow(r, f) \/ FillFlow(r, f)
       \/ \E i \in Idps : CreateProvider(r, i)
  \/ \E i \in Idps : DeleteIdentityProvider(i)
  \/ \E on \in BOOLEAN : UpdateRequiredAction(on)
  \/ \E u \in KcUsers : AddUser(u) \/ SetUpOtp(u) \/ RemoveUser(u)

RealmSpec == RealmInit /\ [][RealmNext]_realmVars

-----------------------------------------------------------------------------
\* setMfaEnforcement, "every user without an authenticator must set one up at
\* next login (new users included), and OTP is asked on both password and
\* SSO/social logins": once it is through, and as long as requests come one
\* after another, this holds for users and providers added while it ran and
\* since; after disabling nobody is asked to set one up.
MfaSettles ==
  (AtWork = {} /\ ~muddled) =>
    /\ enforcement = "on" =>
         /\ kcUsers \subseteq pending \cup otp
         /\ \A i \in Idps : idp[i] # "none" => idp[i] = "otp" /\ flow["post-broker-mfa"] = "complete"
    /\ enforcement = "off" => pending = {} /\ \A i \in Idps : idp[i] # "otp"
=============================================================================
