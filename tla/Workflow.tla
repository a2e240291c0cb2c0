------------------------------ MODULE Workflow ------------------------------
(***************************************************************************)
(* The workflow engine: definitions of one document type that are created, *)
(* revised, activated and deleted, and instances that move along their     *)
(* transitions.  A request reads what it needs up front and writes in      *)
(* several separate statements, none in a transaction; another request, or *)
(* a crash, may come between any two of them.                              *)
(*                                                                         *)
(* A definition's content is its set of transitions.  A transition carries *)
(* the roles that may take it, the request bodies its conditions admit (no *)
(* document is loaded: conditions and actions read the body of the request *)
(* that asks for the transition), and whether its blocking action posts to *)
(* the ledger.  Its other actions (notifications, events) block nothing    *)
(* and leave nothing here.                                                 *)
(***************************************************************************)
EXTENDS Naturals, FiniteSets

CONSTANTS
  WfDefinitions,  \* ids of workflow definitions
  Contents,       \* what a client may give a definition as its content
  StartState,     \* definition.states[0]
  Documents,      \* ids of documents
  WfRoles,        \* roles of users
  WfRequests      \* concurrent HTTP requests

ASSUME WorkflowAssumption ==
  /\ "none" # StartState
  /\ \A c \in Contents : \A t \in c : t.from # "none" /\ t.to # "none"

VARIABLES
  definition,  \* content of each definition, {} while the row does not exist
  isActive,    \* definitions that are active
  instance,    \* per document: its definition and current state
  history,     \* per document: the transitions with a WorkflowApprovalHistory row
  journal,     \* per document: its entries, each with who posted it and the amount
               \* the body named
  wf,          \* where each request stands
  reached,     \* states each document's instance has been in (not stored)
  tangled      \* documents on which requests overlapped or were cut short,
               \* and "activation" once two activations did (not stored)

workflowVars ==
  <<definition, isActive, instance, history, journal, wf, reached, tangled>>

\* What a body may say: whether it has lines, and a total that is missing, at
\* most the threshold of the seeded approval, or above it.
Bodies == [lines : BOOLEAN, total : {"none", "small", "large"}]

Resting == [pc |-> "idle"]
NoInstance == [def |-> "none", state |-> "none"]
Exists(w) == definition[w] # {}

WorkflowInit ==
  /\ definition = [w \in WfDefinitions |-> {}]
  /\ isActive = {}
  /\ instance = [d \in Documents |-> NoInstance]
  /\ history = [d \in Documents |-> {}]
  /\ journal = [d \in Documents |-> {}]
  /\ wf = [r \in WfRequests |-> Resting]
  /\ reached = [d \in Documents |-> {}]
  /\ tangled = {}

-----------------------------------------------------------------------------
(* Definitions                                                             *)

\* createWorkflow, refused while a definition is active.
CreateWorkflow(w, c) ==
  /\ ~Exists(w) /\ isActive = {}
  /\ definition' = [definition EXCEPT ![w] = c]
  /\ UNCHANGED <<isActive, instance, history, journal, wf, reached, tangled>>

\* updateWorkflow: an inactive definition, with or without instances.
UpdateWorkflow(w, c) ==
  /\ Exists(w) /\ w \notin isActive
  /\ definition' = [definition EXCEPT ![w] = c]
  /\ UNCHANGED <<isActive, instance, history, journal, wf, reached, tangled>>

\* deleteWorkflow: an inactive one that no instance refers to.
DeleteWorkflow(w) ==
  /\ Exists(w) /\ w \notin isActive
  /\ \A d \in Documents : instance[d].def # w
  /\ definition' = [definition EXCEPT ![w] = {}]
  /\ UNCHANGED <<isActive, instance, history, journal, wf, reached, tangled>>

Activating == {q \in WfRequests : wf[q].pc = "activate"}

\* activateWorkflow: the read, and the updateMany that deactivates the others.
Deactivate(r, w) ==
  /\ wf[r] = Resting
  /\ Exists(w) /\ w \notin isActive
  /\ isActive' = {}
  /\ wf' = [wf EXCEPT ![r] = [pc |-> "activate", def |-> w]]
  /\ tangled' = IF Activating = {} THEN tangled ELSE tangled \cup {"activation"}
  /\ UNCHANGED <<definition, instance, history, journal, reached>>

\* Its second statement; the update of a row that is gone throws.
Activate(r) ==
  /\ wf[r].pc = "activate"
  /\ isActive' = isActive \cup {w \in {wf[r].def} : Exists(w)}
  /\ wf' = [wf EXCEPT ![r] = Resting]
  /\ UNCHANGED <<definition, instance, history, journal, reached, tangled>>

-----------------------------------------------------------------------------
(* Instances                                                               *)

\* initializeWorkflow: the unique (docType, docId) allows one instance.
InitializeWorkflow(w, d) ==
  /\ w \in isActive
  /\ instance[d] = NoInstance
  /\ instance' = [instance EXCEPT ![d] = [def |-> w, state |-> StartState]]
  /\ reached' = [reached EXCEPT ![d] = @ \cup {StartState}]
  /\ UNCHANGED <<definition, isActive, history, journal, wf, tangled>>

\* A condition test that is left out.
ConditionsIgnored(t, body) == TRUE

\* conditionEvaluator.evaluateAll over the body of the request
ConditionsMet(t, body) == body \in t.bodies

\* The ledger entry the action of t makes of the body; without a total there is
\* none to make.
EntryFor(t, role, body) ==
  IF t.posts /\ body.total # "none" THEN {[by |-> role, amount |-> body.total]} ELSE {}

\* Requests that execute a transition of d.
Executing(d) == {q \in WfRequests : wf[q].pc \in {"act", "move", "record"} /\ wf[q].doc = d}

\* executeTransition up to its actions: the transition leaves the state the
\* instance was read in, the role is allowed, the conditions hold.
RequestTransition(r, d, t, role, body) ==
  /\ wf[r] = Resting
  /\ instance[d] # NoInstance
  /\ t \in definition[instance[d].def]
  /\ t.from = instance[d].state
  /\ role \in t.roles
  /\ ConditionsMet(t, body)
  /\ wf' = [wf EXCEPT ![r] = [pc |-> "act", doc |-> d, t |-> t,
                              entry |-> EntryFor(t, role, body)]]
  /\ tangled' = IF Executing(d) = {} THEN tangled ELSE tangled \cup {d}
  /\ UNCHANGED <<definition, isActive, instance, history, journal, reached>>

\* Actions whose ledger entry is only tried.
ExecuteActionsLoosely(r) ==
  /\ wf[r].pc = "act"
  /\ \/ journal' = [journal EXCEPT ![wf[r].doc] = @ \cup wf[r].entry]
     \/ UNCHANGED journal
  /\ wf' = [wf EXCEPT ![r] = [pc |-> "move", doc |-> @.doc, t |-> @.t]]
  /\ UNCHANGED <<definition, isActive, instance, history, reached, tangled>>

\* actionExecutor.executeAll; a posting without an amount throws.
ExecuteActions(r) ==
  /\ wf[r].pc = "act"
  /\ wf[r].t.posts => wf[r].entry # {}
  /\ journal' = [journal EXCEPT ![wf[r].doc] = @ \cup wf[r].entry]
  /\ wf' = [wf EXCEPT ![r] = [pc |-> "move", doc |-> @.doc, t |-> @.t]]
  /\ UNCHANGED <<definition, isActive, instance, history, reached, tangled>>

\* The posting throws and blocks the transition.
ActionBlocks(r) ==
  /\ wf[r].pc = "act"
  /\ wf[r].t.posts
  /\ wf' = [wf EXCEPT ![r] = Resting]
  /\ UNCHANGED <<definition, isActive, instance, history, journal, reached, tangled>>

\* workflowInstance.update, by id alone.
MoveInstance(r) ==
  LET d == wf[r].doc s == wf[r].t.to IN
  /\ wf[r].pc = "move"
  /\ instance' = [instance EXCEPT ![d] = [@ EXCEPT !.state = s]]
  /\ reached' = [reached EXCEPT ![d] = @ \cup {s}]
  /\ wf' = [wf EXCEPT ![r] = [@ EXCEPT !.pc = "record"]]
  /\ UNCHANGED <<definition, isActive, history, journal, tangled>>

\* workflowApprovalHistory.create
RecordTransition(r) ==
  /\ wf[r].pc = "record"
  /\ history' = [history EXCEPT ![wf[r].doc] = @ \cup {wf[r].t}]
  /\ wf' = [wf EXCEPT ![r] = Resting]
  /\ UNCHANGED <<definition, isActive, instance, journal, reached, tangled>>

\* The process dies, or a statement of the request fails: it goes no further.
CutShort(r) ==
  /\ wf[r].pc # "idle"
  /\ wf' = [wf EXCEPT ![r] = Resting]
  /\ tangled' = IF wf[r].pc = "record" THEN tangled \cup {wf[r].doc} ELSE tangled
  /\ UNCHANGED <<definition, isActive, instance, history, journal, reached>>

-----------------------------------------------------------------------------
Define ==
  \/ \E w \in WfDefinitions, c \in Contents : CreateWorkflow(w, c) \/ UpdateWorkflow(w, c)
  \/ \E w \in WfDefinitions : DeleteWorkflow(w)
  \/ \E r \in WfRequests, w \in WfDefinitions : Deactivate(r, w)
  \/ \E r \in WfRequests : Activate(r)

Execute ==
  \/ \E w \in WfDefinitions, d \in Documents : InitializeWorkflow(w, d)
  \/ \E r \in WfRequests, d \in Documents, role \in WfRoles, body \in Bodies :
       \E t \in UNION Contents : RequestTransition(r, d, t, role, body)
  \/ \E r \in WfRequests :
       ExecuteActions(r) \/ ActionBlocks(r) \/ MoveInstance(r) \/ RecordTransition(r)

WorkflowNext == Define \/ Execute \/ \E r \in WfRequests : CutShort(r)

WorkflowSpec == WorkflowInit /\ [][WorkflowNext]_workflowVars

-----------------------------------------------------------------------------
\* activateWorkflow: unless two activations overlap, at most one definition is
\* active, although the old one is deactivated in a statement of its own and a
\* definition may be deleted or the request die between the two.
OneActive ==
  "activation" \notin tangled => \A v, w \in isActive : v = w

\* executeTransition: for a document whose requests came one after another the
\* history is a path from the start state through every state it was in to the
\* current one.
HistoryIsPath ==
  \A d \in Documents : (d \notin tangled /\ Executing(d) = {} /\ instance[d] # NoInstance) =>
    /\ reached[d] = {StartState} \cup {t.to : t \in history[d]}
    /\ reached[d] = {instance[d].state} \cup {t.from : t \in history[d]}
    /\ Cardinality(reached[d]) = Cardinality(history[d]) + 1

Contract == INSTANCE WorkflowContract WITH
  at <- [d \in Documents |-> instance[d].state],
  posted <- {d \in Documents : journal[d] # {}}

\* Whatever overlaps or fails, and whatever content definitions have, the engine
\* keeps the contract: it moves only along transitions from states the document
\* was in, and along one whose action posts only after a posting.
KeepsContract == Contract!ContractSpec

-----------------------------------------------------------------------------
(* The purchase-order approval workflow the database is seeded with.        *)
Buyers == {"purchasing_manager", "procurement_lead"}
Finance == {"CFO", "finance_director"}

Transition(from, label, to, roles, bodies) ==
  [from |-> from, label |-> label, to |-> to, roles |-> roles, bodies |-> bodies,
   posts |-> to = "approved"]

OfTotal(total) == {body \in Bodies : body.total = total}

PoTransitions ==
  {Transition("draft", "SubmitForApproval", "pending_manager_approval", Buyers,
              {body \in Bodies : body.lines}),
   Transition("pending_manager_approval", "Approve", "approved", Buyers, OfTotal("small")),
   Transition("pending_manager_approval", "EscalateToCfo", "pending_cfo_approval", Buyers,
              OfTotal("large")),
   Transition("pending_cfo_approval", "Approve", "approved", Finance, Bodies),
   Transition("pending_manager_approval", "Reject", "rejected", Buyers, Bodies),
   Transition("pending_cfo_approval", "Reject", "rejected", Finance, Bodies)}

-----------------------------------------------------------------------------
\* Error text of the seeded workflow, "PO over $10,000 requires CFO approval", as
\* far as it goes: an amount above the threshold is posted by someone in finance
\* only, however requests overlap and definitions are revised or replaced.
LargeNeedsFinance ==
  \A d \in Documents : \A entry \in journal[d] : entry.amount = "large" => entry.by \in Finance

\* A document that was escalated, and whose requests came one after another, is
\* approved only after someone in finance posted it, whatever later bodies say.
EscalatedNeedsFinance ==
  \A d \in Documents :
    /\ d \notin tangled /\ instance[d].state = "approved"
    /\ \E t \in history[d] : t.to = "pending_cfo_approval"
    => \E entry \in journal[d] : entry.by \in Finance

\* WorkflowService over the seeded workflow: one definition is active, a history
\* is a path to the current state, and finance approves what is large or escalated.
ApprovalsHold == OneActive /\ HistoryIsPath /\ LargeNeedsFinance /\ EscalatedNeedsFinance
=============================================================================
