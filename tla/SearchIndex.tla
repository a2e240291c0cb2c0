---------------------------- MODULE SearchIndex ----------------------------
(***************************************************************************)
(* The search index beside the rows it shows (SearchService and the        *)
(* services that call it, seen at employees and projects).  A handler      *)
(* commits its change and sends the document, or its removal, without      *)
(* waiting; requests in flight arrive in any order and a refused one is    *)
(* only logged.  reindexAll reads the live rows of all kinds at once and   *)
(* sends them kind by kind; it adds documents and removes none.            *)
(***************************************************************************)
EXTENDS Integers, Sequences, FiniteSets

CONSTANTS
  Kinds,         \* the indices in the order of a bulk load, a sequence of sets of rows
  Reindexings,   \* runs of reindexAll: at start-up and on request
  MaxVersions,   \* bound on changes of a row
  IndexFaults    \* bound on refused requests

Rows == UNION {Kinds[i] : i \in DOMAIN Kinds}

ASSUME SearchAssumption ==
  Kinds \in Seq(SUBSET Rows) /\ MaxVersions \in Nat /\ IndexFaults \in Nat

VARIABLES
  version,  \* committed version of each row; 0 before it is created
  gone,     \* rows with a deletedAt
  doc,      \* version in the index; 0 without a document
  sent,     \* requests in flight: [row, version], version 0 a removal
  reindex,  \* where each reindexAll stands
  mixed,    \* rows whose requests overlapped (not stored)
  refused   \* rows of refused requests (not stored)

searchVars == <<version, gone, doc, sent, reindex, mixed, refused>>

NoReindex == [at |-> 0]
Over == [at |-> Len(Kinds) + 1]
Reindexing == {x \in Reindexings : reindex[x].at \in DOMAIN Kinds}

SearchInit ==
  /\ version = [r \in Rows |-> 0] /\ gone = {}
  /\ doc = [r \in Rows |-> 0]
  /\ sent = {}
  /\ reindex = [x \in Reindexings |-> NoReindex]
  /\ mixed = {} /\ refused = {}

\* A handler's request is sent while another one about the row is on its way.
Overlaps(r) == (\E q \in sent : q.row = r) \/ Reindexing # {}

Send(r, v) ==
  /\ sent' = sent \cup {[row |-> r, version |-> v]}
  /\ mixed' = IF Overlaps(r) THEN mixed \cup {r} ELSE mixed

-----------------------------------------------------------------------------

\* A creation that is not sent on.
UpdateRowOnly(r) ==
  /\ r \notin gone
  /\ version[r] < MaxVersions
  /\ version' = [version EXCEPT ![r] = @ + 1]
  /\ sent' = IF version[r] = 0 THEN sent ELSE sent \cup {[row |-> r, version |-> version[r] + 1]}
  /\ mixed' = IF Overlaps(r) THEN mixed \cup {r} ELSE mixed
  /\ UNCHANGED <<gone, doc, reindex, refused>>

\* createProject, updateProject; createEmployee, updateEmployee
ChangeRow(r) ==
  /\ r \notin gone
  /\ version[r] < MaxVersions
  /\ version' = [version EXCEPT ![r] = @ + 1]
  /\ Send(r, version[r] + 1)
  /\ UNCHANGED <<gone, doc, reindex, refused>>

\* deleteProject, removal of an employee
RemoveRow(r) ==
  /\ version[r] > 0 /\ r \notin gone
  /\ gone' = gone \cup {r}
  /\ Send(r, 0)
  /\ UNCHANGED <<version, doc, reindex, refused>>

\* safeIndex and the removals: last arrival wins, whatever its version.
Arrive(q) ==
  /\ q \in sent
  /\ sent' = sent \ {q}
  /\ doc' = [doc EXCEPT ![q.row] = q.version]
  /\ UNCHANGED <<version, gone, reindex, mixed, refused>>

Refuse(q) ==
  /\ q \in sent
  /\ Cardinality(refused) < IndexFaults
  /\ sent' = sent \ {q}
  /\ refused' = refused \cup {q.row}
  /\ UNCHANGED <<version, gone, doc, reindex, mixed>>

-----------------------------------------------------------------------------
\* The ten queries are one step: the properties look at one row.
ReindexRead(x) ==
  /\ reindex[x] = NoReindex
  /\ reindex' = [reindex EXCEPT ![x] =
       [at |-> 1, rows |-> [r \in {q \in Rows \ gone : version[q] > 0} |-> version[r]]]]
  /\ mixed' = mixed \cup {q.row : q \in sent}
  /\ UNCHANGED <<version, gone, doc, sent, refused>>

\* One bulk request per kind; the documents of removed rows stay.
ReindexBulk(x) ==
  LET i == reindex[x].at IN
  /\ i \in DOMAIN Kinds
  /\ doc' = [r \in Rows |-> IF r \in Kinds[i] \cap DOMAIN reindex[x].rows
                            THEN reindex[x].rows[r] ELSE doc[r]]
  /\ reindex' = [reindex EXCEPT ![x] = IF i = Len(Kinds) THEN Over ELSE [@ EXCEPT !.at = i + 1]]
  /\ UNCHANGED <<version, gone, sent, mixed, refused>>

\* A refused bulk request throws: the kinds after it are not loaded.
ReindexFails(x) ==
  /\ reindex[x].at \in DOMAIN Kinds
  /\ Cardinality(refused) < IndexFaults
  /\ refused' = refused \cup DOMAIN reindex[x].rows
  /\ reindex' = [reindex EXCEPT ![x] = Over]
  /\ UNCHANGED <<version, gone, doc, sent, mixed>>

SearchNext ==
  \/ \E r \in Rows : ChangeRow(r) \/ RemoveRow(r)
  \/ \E q \in sent : Arrive(q) \/ Refuse(q)
  \/ \E x \in Reindexings : ReindexRead(x) \/ ReindexBulk(x) \/ ReindexFails(x)

\* What has been sent arrives or is refused.
SearchFairness ==
  /\ WF_searchVars(\E q \in sent : Arrive(q) \/ Refuse(q))
  /\ \A x \in Reindexings : WF_searchVars(ReindexBulk(x) \/ ReindexFails(x))

SearchSpec == SearchInit /\ [][SearchNext]_searchVars /\ SearchFairness

-----------------------------------------------------------------------------
\* Rows whose requests did not overlap and were not refused, once nothing is in
\* flight.
SettledRows == IF sent = {} /\ Reindexing = {} THEN Rows \ (mixed \cup refused) ELSE {}

\* indexProject and its like, reindexAll: a settled row is in the index as it is in
\* the database.
SettledIndexAgrees == \A r \in SettledRows \ gone : doc[r] = version[r]

\* removeProject and its like, reindexAll: a settled row that was removed is not in
\* the index.
RemovedIsNotFound == \A r \in SettledRows \cap gone : doc[r] = 0

\* SearchService: where requests did not overlap the index agrees with the database.
IndexFollows == SettledIndexAgrees /\ RemovedIsNotFound

\* safeIndex: a row that is created is found sooner or later, if in an older
\* version, however its requests overlap, unless one was refused or it is
\* removed again.
CreatedIsFound ==
  \A r \in Rows :
    (version[r] > 0) ~> (doc[r] > 0 \/ r \in gone \cup refused)
=============================================================================
