-------------------------------- MODULE Audit -------------------------------
(***************************************************************************)
(* The audit log of a tenant (AuditService, HashChainService).  A call of  *)
(* record reads the hash of the newest row and later inserts a row that    *)
(* chains to it.  verifyIntegrity walks the rows by time and compares each *)
(* link with the hash before it; it recomputes no hash.  Hashes are as     *)
(* good as the rows' names, since their payloads differ.                   *)
(***************************************************************************)
EXTENDS Integers, FiniteSets

CONSTANTS
  Entries,        \* calls of record, each made once; a row is named after its call
  Genesis,        \* previousHash of the first row
  AuditTicks,     \* bound on time, in the milliseconds of createdAt
  AuditFaults,    \* bound on inserts that fail
  MaxErased       \* bound on rows that are deleted behind the application's back

ASSUME AuditAssumption ==
  Genesis \notin Entries /\ AuditTicks \in Nat /\ AuditFaults \in Nat /\ MaxErased \in Nat

VARIABLES
  auditNow,   \* the time
  entry,      \* where each call stands
  log,        \* AuditLog rows: previousHash, createdAt
  verdict,    \* answer to the last verifyIntegrity, "none" once the log has changed
  forked,     \* two calls overlapped or two rows have one createdAt (not stored)
  lost,       \* inserts that failed (not stored)
  erased      \* rows that have been deleted (not stored)

auditVars == <<auditNow, entry, log, verdict, forked, lost, erased>>

Unmade == [at |-> "none"]
Made == [at |-> "done"]
InFlight == {e \in Entries : entry[e].at = "insert"}

AuditInit ==
  /\ auditNow = 0
  /\ entry = [e \in Entries |-> Unmade]
  /\ log = [e \in {} |-> Unmade]
  /\ verdict = "none" /\ forked = FALSE /\ lost = {} /\ erased = {}

-----------------------------------------------------------------------------

\* orderBy createdAt desc; rows of one millisecond come in any order.
Newest(r) == \A q \in DOMAIN log : log[q].createdAt <= log[r].createdAt

RecordRead(e) ==
  /\ entry[e] = Unmade
  /\ \E h \in IF log = [r \in {} |-> Unmade] THEN {Genesis} ELSE {r \in DOMAIN log : Newest(r)} :
       entry' = [entry EXCEPT ![e] = [at |-> "insert", previous |-> h]]
  /\ forked' = (forked \/ InFlight # {})
  /\ UNCHANGED <<auditNow, log, verdict, lost, erased>>

\* The row's createdAt is the time of the insert, not the one in the hash.
RecordInsert(e) ==
  /\ entry[e].at = "insert"
  /\ log' = [r \in DOMAIN log \cup {e} |->
       IF r = e THEN [previous |-> entry[e].previous, createdAt |-> auditNow] ELSE log[r]]
  /\ forked' = (forked \/ \E r \in DOMAIN log : log[r].createdAt = auditNow)
  /\ entry' = [entry EXCEPT ![e] = Made]
  /\ verdict' = "none"
  /\ UNCHANGED <<auditNow, lost, erased>>

\* The insert fails or the process dies: the event stays unrecorded.
RecordFails(e) ==
  /\ entry[e].at = "insert"
  /\ Cardinality(lost) < AuditFaults
  /\ entry' = [entry EXCEPT ![e] = Made]
  /\ lost' = lost \cup {e}
  /\ UNCHANGED <<auditNow, log, verdict, forked, erased>>

-----------------------------------------------------------------------------
\* The rows by createdAt, ties in any order.
Orders == {f \in [1 .. Cardinality(DOMAIN log) -> DOMAIN log] :
             /\ \A i, j \in DOMAIN f : i # j => f[i] # f[j]
             /\ \A i, j \in DOMAIN f : i < j => log[f[i]].createdAt <= log[f[j]].createdAt}

\* Links between rows only: whatever the first one is chained to.
LinksAfterFirst(f) == \A i \in DOMAIN f \ {1} : log[f[i]].previous = f[i - 1]

\* verifyChain
Links(f) ==
  \A i \in DOMAIN f : log[f[i]].previous = IF i = 1 THEN Genesis ELSE f[i - 1]

VerifyIntegrity ==
  /\ \E f \in Orders : verdict' = IF Links(f) THEN "valid" ELSE "broken"
  /\ UNCHANGED <<auditNow, entry, log, forked, lost, erased>>

\* Somebody with access to the database deletes a row.
EraseRow(r) ==
  /\ r \in DOMAIN log
  /\ Cardinality(erased) < MaxErased
  /\ log' = [q \in DOMAIN log \ {r} |-> log[q]]
  /\ erased' = erased \cup {r}
  /\ verdict' = "none"
  /\ UNCHANGED <<auditNow, entry, forked, lost>>

MillisecondPasses ==
  /\ auditNow < AuditTicks
  /\ auditNow' = auditNow + 1
  /\ UNCHANGED <<entry, log, verdict, forked, lost, erased>>

AuditNext ==
  \/ \E e \in Entries : RecordRead(e) \/ RecordInsert(e) \/ RecordFails(e) \/ EraseRow(e)
  \/ VerifyIntegrity \/ MillisecondPasses

AuditSpec == AuditInit /\ [][AuditNext]_auditVars

-----------------------------------------------------------------------------
\* record and verifyIntegrity: while calls do not overlap, the log verifies at
\* any moment, whichever calls fail before their insert, if no two rows share a
\* millisecond and none has been deleted.
SerialChainVerifies ==
  ~forked /\ erased = {} => verdict # "broken"

\* verifyIntegrity, what makes the log "tamper-evident": it never answers that
\* a log is valid from which a row has been deleted that another row, or one
\* about to be inserted, is chained to.  Deleting the newest rows shows only
\* then.
ErasureIsSeen ==
  verdict = "valid" =>
    \A r \in DOMAIN log : log[r].previous \notin erased

\* record, verifyIntegrity and verifyChain together: a trail nobody touched is
\* reported valid, and one that lost an entry is not.
TrailTellsTruth == SerialChainVerifies /\ ErasureIsSeen

-----------------------------------------------------------------------------
(***************************************************************************)
(* Requests of a data subject, known by an e-mail address (GdprService).   *)
(* fulfillRequest works in steps of their own, of which only the erasure   *)
(* of the employee is a transaction; it may fail or die between them and   *)
(* is then called again.  Meanwhile the subject goes on using the system.  *)
(***************************************************************************)
CONSTANTS
  Dsrs,         \* data subject requests
  Fulfilments,  \* calls of fulfillRequest, each made once
  GdprFaults    \* bound on failing steps

ASSUME GdprAssumption == GdprFaults \in Nat

Rows == {"user", "employee"}                      \* rows that carry the address
UserData == {"notifications"}
EmployeeData == {"leave", "attendance"}
Data == UserData \cup EmployeeData \cup {"consents"}

VARIABLES
  named,    \* rows that carry the address
  held,     \* data of the subject
  dsr,      \* DataSubjectRequest rows: type, status
  fulfil,   \* where each call stands
  exported, \* requests whose archive is in the storage
  since,    \* what has been written since the first erasure began (not stored)
  gdprFaults

gdprVars == <<named, held, dsr, fulfil, exported, since, gdprFaults>>

NotCalled == [at |-> "none"]
CallOver == [at |-> "over"]
NoDsr == [type |-> "none", status |-> "none"]

GdprInit ==
  /\ named = Rows /\ held = Data
  /\ dsr = [d \in Dsrs |-> NoDsr]
  /\ fulfil = [c \in Fulfilments |-> NotCalled]
  /\ exported = {} /\ since = {} /\ gdprFaults = 0

Goes(c, s) == fulfil' = [fulfil EXCEPT ![c].at = s]
rowVars == <<named, held, since>>

-----------------------------------------------------------------------------
CreateDsr(d, type) ==
  /\ dsr[d] = NoDsr
  /\ dsr' = [dsr EXCEPT ![d] = [type |-> type, status |-> "OPEN"]]
  /\ UNCHANGED <<rowVars, fulfil, exported, gdprFaults>>

\* Requests that have been fulfilled are refused.
FulfillRequest(c, d) ==
  /\ fulfil[c] = NotCalled
  /\ dsr[d].status = "OPEN"
  /\ fulfil' = [fulfil EXCEPT ![c] =
       [at |-> IF dsr[d].type = "ERASURE" THEN "user" ELSE "export", dsr |-> d]]
  /\ UNCHANGED <<rowVars, dsr, exported, gdprFaults>>

\* buildExportZip
ExportZip(c) ==
  /\ fulfil[c].at = "export"
  /\ exported' = exported \cup {fulfil[c].dsr}
  /\ Goes(c, "status")
  /\ UNCHANGED <<rowVars, dsr, gdprFaults>>

FindUser(c) ==
  /\ fulfil[c].at = "user"
  /\ Goes(c, IF "user" \in named THEN "notifications" ELSE "employee")
  /\ UNCHANGED <<rowVars, dsr, exported, gdprFaults>>

DeleteNotifications(c) ==
  /\ fulfil[c].at = "notifications"
  /\ held' = held \ UserData
  /\ Goes(c, "anonymize")
  /\ UNCHANGED <<named, since, dsr, exported, gdprFaults>>

AnonymizeUser(c) ==
  /\ fulfil[c].at = "anonymize"
  /\ named' = named \ {"user"}
  /\ Goes(c, "employee")
  /\ UNCHANGED <<held, since, dsr, exported, gdprFaults>>

FindEmployee(c) ==
  /\ fulfil[c].at = "employee"
  /\ Goes(c, IF "employee" \in named THEN "transaction" ELSE "consents")
  /\ UNCHANGED <<rowVars, dsr, exported, gdprFaults>>

EraseEmployee(c) ==
  /\ fulfil[c].at = "transaction"
  /\ named' = named \ {"employee"}
  /\ held' = held \ EmployeeData
  /\ Goes(c, "consents")
  /\ UNCHANGED <<since, dsr, exported, gdprFaults>>

\* An erasure that ends once no row carries the address.
DeleteConsentsIfFound(c) ==
  /\ fulfil[c].at = "consents"
  /\ held' = IF named = {} THEN held ELSE held \ {"consents"}
  /\ Goes(c, "status")
  /\ UNCHANGED <<named, since, dsr, exported, gdprFaults>>

DeleteConsents(c) ==
  /\ fulfil[c].at = "consents"
  /\ held' = held \ {"consents"}
  /\ Goes(c, "status")
  /\ UNCHANGED <<named, since, dsr, exported, gdprFaults>>

MarkFulfilled(c) ==
  /\ fulfil[c].at = "status"
  /\ dsr' = [dsr EXCEPT ![fulfil[c].dsr].status = "FULFILLED"]
  /\ fulfil' = [fulfil EXCEPT ![c] = CallOver]
  /\ UNCHANGED <<rowVars, exported, gdprFaults>>

\* A step throws or the process dies; what is done stays done.
FulfilmentFails(c) ==
  /\ fulfil[c] \notin {NotCalled, CallOver}
  /\ gdprFaults < GdprFaults
  /\ gdprFaults' = gdprFaults + 1
  /\ fulfil' = [fulfil EXCEPT ![c] = CallOver]
  /\ UNCHANGED <<rowVars, dsr, exported>>

-----------------------------------------------------------------------------
\* A handler of another module adds to the subject's data, or a row with the
\* address is created anew.
Adds(x) ==
  /\ x \notin held \cup named
  /\ IF x \in Data THEN held' = held \cup {x} /\ UNCHANGED named
     ELSE named' = named \cup {x} /\ UNCHANGED held
  /\ since' = since \cup {x}
  /\ UNCHANGED <<dsr, fulfil, exported, gdprFaults>>

Fulfils(c) ==
  \/ \E d \in Dsrs : FulfillRequest(c, d)
  \/ ExportZip(c) \/ FindUser(c) \/ DeleteNotifications(c) \/ AnonymizeUser(c)
  \/ FindEmployee(c) \/ EraseEmployee(c) \/ DeleteConsents(c) \/ MarkFulfilled(c)
  \/ FulfilmentFails(c)

GdprNext ==
  \/ \E d \in Dsrs, type \in {"ACCESS", "ERASURE"} : CreateDsr(d, type)
  \/ \E c \in Fulfilments : Fulfils(c)
  \/ \E x \in Rows \cup Data : Adds(x)

GdprSpec == GdprInit /\ [][GdprNext]_gdprVars

-----------------------------------------------------------------------------
\* fulfillRequest: a request is FULFILLED only when its archive is stored, or
\* when nothing is left that was there before the subject's first erasure,
\* whichever calls died half way.  (What a handler writes between two steps may
\* stay: the next call no longer finds the user whose notifications it deletes.)
FulfilledIsDone ==
  \A d \in Dsrs : dsr[d].status = "FULFILLED" =>
    IF dsr[d].type = "ERASURE" THEN (named \cup held) \subseteq since ELSE d \in exported
=============================================================================
