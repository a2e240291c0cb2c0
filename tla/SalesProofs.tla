---------------------------- MODULE SalesProofs -----------------------------
(***************************************************************************)
(* Proofs about approvals, accounts receivable, inventory and analytics,   *)
(* each for any documents, products and number of concurrent requests.     *)
(***************************************************************************)
EXTENDS BiService, Receivables, Workflow, Inventory, FiniteSetTheorems, SequenceTheorems, Sums

(***************************************************************************)
(* Proofs about the workflow engine, for any documents, definitions and    *)
(* number of concurrent requests: it implements WorkflowContract whatever  *)
(* content definitions have; and if they are cut from the seeded approval, *)
(* the approvals are in order.  A request remembers the transition it took *)
(* up, so that what it does next does not depend on what became of the     *)
(* definition or the instance meanwhile: the state it leaves has been      *)
(* reached, and before it moves it has posted.                             *)
(***************************************************************************)

States == {StartState} \cup {t.to : t \in UNION Contents}

InTransition(q) == wf[q].pc \in {"act", "move", "record"}

WfEntry == [by : WfRoles, amount : {"small", "large"}]

\* What a request remembers.
Acting == [pc : {"act"}, doc : Documents, t : UNION Contents, entry : SUBSET WfEntry]
Moving == [pc : {"move", "record"}, doc : Documents, t : UNION Contents]
WfRequest == {Resting} \cup [pc : {"activate"}, def : WfDefinitions] \cup Acting \cup Moving

WfType ==
  /\ definition \in [WfDefinitions -> Contents \cup {{}}]
  /\ isActive \in SUBSET WfDefinitions
  /\ instance \in [Documents -> [def : WfDefinitions \cup {"none"}, state : States \cup {"none"}]]
  /\ history \in [Documents -> SUBSET UNION Contents]
  /\ journal \in [Documents -> SUBSET WfEntry]
  /\ wf \in [WfRequests -> WfRequest]
  /\ reached \in [Documents -> SUBSET States]

\* What a request took up was true of the past.
TakenUp ==
  \A q \in WfRequests : InTransition(q) =>
    /\ wf[q].t.from \in reached[wf[q].doc]
    /\ wf[q].pc # "act" /\ wf[q].t.posts => journal[wf[q].doc] # {}
    /\ wf[q].pc = "act" /\ ~wf[q].t.posts => wf[q].entry = {}

StateIsReached ==
  \A d \in Documents : instance[d] # NoInstance => instance[d].state \in reached[d]

WfInv == WfType /\ TakenUp /\ StateIsReached

LEMMA WfInit == WorkflowInit => WfInv
BY DEF WorkflowInit, WfInv, WfType, TakenUp, StateIsReached, InTransition, WfRequest, Resting, NoInstance

\* A request that is not at rest remembers what its place says.
LEMMA WfRequestKinds ==
  ASSUME WfType, NEW r \in WfRequests
  PROVE  /\ wf[r].pc = "activate" => wf[r] \in [pc : {"activate"}, def : WfDefinitions]
         /\ InTransition(r) =>
              /\ wf[r] \in Acting \cup Moving
              /\ wf[r].doc \in Documents /\ wf[r].t \in UNION Contents
         /\ wf[r].pc = "act" => wf[r] \in Acting
         /\ wf[r].pc \in {"move", "record"} => wf[r] \in Moving
BY DEF WfType, WfRequest, InTransition, Resting, Acting, Moving

LEMMA WfTypeNext ==
  ASSUME WfType, WorkflowNext
  PROVE  WfType'
<1> USE DEF WfType
<1>1. ASSUME NEW w \in WfDefinitions, NEW c \in Contents, CreateWorkflow(w, c) \/ UpdateWorkflow(w, c)
      PROVE  WfType'
  BY <1>1 DEF CreateWorkflow, UpdateWorkflow
<1>2. ASSUME NEW w \in WfDefinitions, DeleteWorkflow(w)
      PROVE  WfType'
  BY <1>2 DEF DeleteWorkflow
<1>3. ASSUME NEW r \in WfRequests, NEW w \in WfDefinitions, Deactivate(r, w)
      PROVE  WfType'
  BY <1>3 DEF Deactivate, WfRequest
<1>4. ASSUME NEW r \in WfRequests, Activate(r)
      PROVE  WfType'
  BY <1>4, WfRequestKinds DEF Activate, WfRequest
<1>5. ASSUME NEW w \in WfDefinitions, NEW d \in Documents, InitializeWorkflow(w, d)
      PROVE  WfType'
  BY <1>5 DEF InitializeWorkflow, States
<1>6. ASSUME NEW r \in WfRequests, NEW d \in Documents, NEW role \in WfRoles,
             NEW body \in Bodies, NEW t \in UNION Contents, RequestTransition(r, d, t, role, body)
      PROVE  WfType'
  <2>1. EntryFor(t, role, body) \subseteq WfEntry
    BY DEF EntryFor, Bodies, WfEntry
  <2>2. [pc |-> "act", doc |-> d, t |-> t, entry |-> EntryFor(t, role, body)] \in WfRequest
    BY <2>1 DEF WfRequest, Acting
  <2> QED
    BY <1>6, <2>2 DEF RequestTransition
<1>7. ASSUME NEW r \in WfRequests, ExecuteActions(r)
      PROVE  WfType'
  <2>1. wf[r].doc \in Documents /\ wf[r].t \in UNION Contents /\ wf[r].entry \subseteq WfEntry
    BY <1>7, WfRequestKinds DEF ExecuteActions, Acting
  <2>2. [pc |-> "move", doc |-> wf[r].doc, t |-> wf[r].t] \in WfRequest
    BY <2>1 DEF WfRequest, Moving
  <2>3. journal' \in [Documents -> SUBSET WfEntry]
    BY <1>7, <2>1 DEF ExecuteActions
  <2> QED
    BY <1>7, <2>2, <2>3 DEF ExecuteActions
<1>8. ASSUME NEW r \in WfRequests, ActionBlocks(r) \/ CutShort(r)
      PROVE  WfType'
  BY <1>8 DEF ActionBlocks, CutShort, WfRequest
<1>9. ASSUME NEW r \in WfRequests, MoveInstance(r)
      PROVE  WfType'
  <2>1. /\ wf[r] \in Moving
        /\ wf[r].t.to \in States /\ wf[r].doc \in Documents
    BY <1>9, WfRequestKinds DEF MoveInstance, InTransition, States
  <2>2. [wf[r] EXCEPT !.pc = "record"] \in WfRequest
    BY <2>1 DEF WfRequest, Moving
  <2>3. instance' \in [Documents -> [def : WfDefinitions \cup {"none"}, state : States \cup {"none"}]]
    BY <1>9, <2>1 DEF MoveInstance
  <2> QED
    BY <1>9, <2>1, <2>2, <2>3 DEF MoveInstance
<1>10. ASSUME NEW r \in WfRequests, RecordTransition(r)
      PROVE  WfType'
  BY <1>10, WfRequestKinds DEF RecordTransition, WfRequest, InTransition
<1> QED
  BY <1>1, <1>2, <1>3, <1>4, <1>5, <1>6, <1>7, <1>8, <1>9, <1>10 DEF WorkflowNext, Define, Execute

\* States reached and roles that posted only grow, which keeps what the other
\* requests took up; a step of r itself is looked at one by one.
LEMMA WfInvNext ==
  ASSUME WfInv, WorkflowNext
  PROVE  WfInv'
<1> USE DEF WfInv
<1>0. WfType'
  BY WfTypeNext
<1>1. ASSUME NEW w \in WfDefinitions, NEW c \in Contents, CreateWorkflow(w, c) \/ UpdateWorkflow(w, c)
      PROVE  TakenUp' /\ StateIsReached'
  BY <1>1 DEF CreateWorkflow, UpdateWorkflow, TakenUp, StateIsReached, InTransition
<1>2. ASSUME NEW w \in WfDefinitions, DeleteWorkflow(w)
      PROVE  TakenUp' /\ StateIsReached'
  BY <1>2 DEF DeleteWorkflow, TakenUp, StateIsReached, InTransition
<1>3. ASSUME NEW r \in WfRequests, NEW w \in WfDefinitions, Deactivate(r, w)
      PROVE  TakenUp' /\ StateIsReached'
  BY <1>3 DEF Deactivate, TakenUp, StateIsReached, InTransition, WfType
<1>4. ASSUME NEW r \in WfRequests,
             Activate(r) \/ ActionBlocks(r) \/ RecordTransition(r) \/ CutShort(r)
      PROVE  TakenUp' /\ StateIsReached'
  BY <1>4 DEF Activate, ActionBlocks, RecordTransition, CutShort, Resting,
              TakenUp, StateIsReached, InTransition, WfType
<1>5. ASSUME NEW w \in WfDefinitions, NEW d \in Documents, InitializeWorkflow(w, d)
      PROVE  TakenUp' /\ StateIsReached'
  <2>1. \A q \in WfRequests : InTransition(q) => wf[q].doc \in Documents
    BY WfRequestKinds
  <2> QED
    BY <1>5, <2>1 DEF InitializeWorkflow, TakenUp, StateIsReached, InTransition, WfType
<1>6. ASSUME NEW r \in WfRequests, NEW d \in Documents, NEW role \in WfRoles,
             NEW body \in Bodies, NEW t \in UNION Contents, RequestTransition(r, d, t, role, body)
      PROVE  TakenUp' /\ StateIsReached'
  BY <1>6 DEF RequestTransition, EntryFor, TakenUp, StateIsReached, InTransition, WfType
<1>7. ASSUME NEW r \in WfRequests, ExecuteActions(r)
      PROVE  TakenUp' /\ StateIsReached'
  <2>1. \A q \in WfRequests : InTransition(q) => wf[q].doc \in Documents
    BY WfRequestKinds
  <2>2. wf[r].doc \in Documents /\ wf[r].pc = "act" /\ InTransition(r)
    BY <1>7, WfRequestKinds DEF ExecuteActions, InTransition
  <2>3. StateIsReached'
    BY <1>7 DEF ExecuteActions, StateIsReached
  <2>4. \A d \in Documents : journal[d] \subseteq journal'[d]
    BY <1>7, <2>2 DEF ExecuteActions, WfType
  <2>5. wf[r].t.posts => journal'[wf[r].doc] # {}
    BY <1>7, <2>2 DEF ExecuteActions, WfType
  <2>6. /\ \A q \in WfRequests \ {r} : wf'[q] = wf[q]
        /\ wf'[r].pc = "move" /\ wf'[r].doc = wf[r].doc /\ wf'[r].t = wf[r].t
        /\ UNCHANGED reached
    BY <1>7 DEF ExecuteActions, WfType
  <2>7. TakenUp'
    BY <2>1, <2>2, <2>4, <2>5, <2>6 DEF TakenUp, InTransition
  <2> QED
    BY <2>3, <2>7
<1>8. ASSUME NEW r \in WfRequests, MoveInstance(r)
      PROVE  TakenUp' /\ StateIsReached'
  <2>1. \A q \in WfRequests : InTransition(q) => wf[q].doc \in Documents
    BY WfRequestKinds
  <2>2. wf[r] \in Acting \cup Moving
    BY <1>8, WfRequestKinds DEF MoveInstance, InTransition
  <2>3. \A d \in Documents : reached[d] \subseteq reached'[d]
    BY <1>8, <2>2 DEF MoveInstance, WfType
  <2>4. StateIsReached'
    BY <1>8, <2>2 DEF MoveInstance, StateIsReached, WfType
  <2>5. TakenUp'
    BY <1>8, <2>1, <2>2, <2>3 DEF MoveInstance, TakenUp, InTransition, WfType
  <2> QED
    BY <2>4, <2>5
<1> QED
  BY <1>0, <1>1, <1>2, <1>3, <1>4, <1>5, <1>6, <1>7, <1>8 DEF WorkflowNext, Define, Execute

\* What a request of the engine has taken up and where the documents have been.
LEMMA WfInvariant == WorkflowSpec => []WfInv
<1>1. WfInv /\ [WorkflowNext]_workflowVars => WfInv'
  <2> SUFFICES ASSUME WfInv, [WorkflowNext]_workflowVars PROVE WfInv'
    OBVIOUS
  <2>1. CASE WorkflowNext
    BY <2>1, WfInvNext
  <2>2. CASE UNCHANGED workflowVars
    BY <2>2 DEF workflowVars, WfInv, WfType, TakenUp, StateIsReached, InTransition
  <2> QED
    BY <2>1, <2>2
<1> QED
  BY WfInit, <1>1, PTL DEF WorkflowSpec

-----------------------------------------------------------------------------
(* The contract                                                            *)

\* Steps that touch neither instances nor the ledger stutter.
LEMMA StepKeepsContract ==
  ASSUME WfInv, WorkflowNext
  PROVE  [Contract!ContractNext]_(Contract!contractVars)
<1> USE DEF WfInv
<1>1. ASSUME UNCHANGED <<instance, reached, journal>>
      PROVE  UNCHANGED Contract!contractVars
  BY <1>1 DEF Contract!contractVars
<1>2. ASSUME NEW w \in WfDefinitions, NEW d \in Documents, InitializeWorkflow(w, d)
      PROVE  Contract!Start(d)
  <2>1. [e \in Documents |-> instance'[e].state]
          = [[e \in Documents |-> instance[e].state] EXCEPT ![d] = StartState]
    BY <1>2 DEF InitializeWorkflow, WfType
  <2>2. Contract!Enter(d, StartState)
    BY <1>2, <2>1 DEF InitializeWorkflow, Contract!Enter
  <2> QED
    BY <1>2, <2>2 DEF InitializeWorkflow, Contract!Start, NoInstance
<1>3. ASSUME NEW r \in WfRequests, ExecuteActions(r)
      PROVE  \/ UNCHANGED Contract!contractVars
             \/ \E d \in Documents : Contract!Post(d)
  <2>1. /\ wf[r].doc \in Documents /\ wf[r].t \in UNION Contents
        /\ wf[r].t.from \in reached[wf[r].doc]
        /\ ~wf[r].t.posts => wf[r].entry = {}
    BY <1>3, WfRequestKinds DEF ExecuteActions, InTransition, TakenUp
  <2>2. CASE wf[r].t.posts
    <3>1. {d \in Documents : journal'[d] # {}} = {d \in Documents : journal[d] # {}} \cup {wf[r].doc}
      BY <1>3, <2>1, <2>2 DEF ExecuteActions, WfType
    <3> QED
      BY <1>3, <2>1, <2>2, <3>1 DEF ExecuteActions, Contract!Post, Contract!Moves
  <2>3. CASE ~wf[r].t.posts
    BY <1>3, <2>1, <2>3 DEF ExecuteActions, WfType, Contract!contractVars
  <2> QED
    BY <2>2, <2>3
<1>4. ASSUME NEW r \in WfRequests, NEW d \in Documents, NEW t \in UNION Contents,
             MoveInstance(r), wf[r].doc = d, wf[r].t = t
      PROVE  t \in Contract!Moves /\ Contract!Move(d, t)
  <2>1. t.from \in reached[d] /\ (t.posts => journal[d] # {})
    BY <1>4 DEF MoveInstance, InTransition, TakenUp
  <2>2. Contract!Enter(d, t.to)
    BY <1>4 DEF MoveInstance, Contract!Enter, WfType
  <2> QED
    BY <2>1, <2>2 DEF Contract!Move, Contract!Moves
<1>5. CASE Define
  BY <1>1, <1>5 DEF Define, CreateWorkflow, UpdateWorkflow, DeleteWorkflow, Deactivate, Activate
<1>6. CASE Execute
  <2>1. ASSUME NEW r \in WfRequests, NEW d \in Documents, NEW role \in WfRoles,
               NEW body \in Bodies, NEW t \in UNION Contents, RequestTransition(r, d, t, role, body)
        PROVE  UNCHANGED Contract!contractVars
    BY <1>1, <2>1 DEF RequestTransition
  <2>2. ASSUME NEW r \in WfRequests, ActionBlocks(r) \/ RecordTransition(r)
        PROVE  UNCHANGED Contract!contractVars
    BY <1>1, <2>2 DEF ActionBlocks, RecordTransition
  <2>3. ASSUME NEW r \in WfRequests, MoveInstance(r)
        PROVE  \E d \in Documents : \E t \in Contract!Moves : Contract!Move(d, t)
    <3>1. wf[r].doc \in Documents /\ wf[r].t \in UNION Contents
      BY <2>3, WfRequestKinds DEF MoveInstance, InTransition
    <3> QED
      BY <2>3, <3>1, <1>4
  <2> QED
    BY <1>6, <1>2, <1>3, <2>1, <2>2, <2>3 DEF Execute, Contract!ContractNext
<1>7. CASE \E r \in WfRequests : CutShort(r)
  BY <1>1, <1>7 DEF CutShort
<1> QED
  BY <1>5, <1>6, <1>7 DEF WorkflowNext

\* WorkflowService: for any documents, requests and contents of definitions the
\* engine implements the contract: it moves along transitions from states the
\* document was in, and along one whose action posts only after a posting.
THEOREM WorkflowKeepsContract == WorkflowSpec => KeepsContract
<1>1. WorkflowInit => Contract!ContractInit
  BY DEF WorkflowInit, NoInstance, Contract!ContractInit
<1>2. WfInv /\ [WorkflowNext]_workflowVars => [Contract!ContractNext]_(Contract!contractVars)
  <2>1. ASSUME UNCHANGED workflowVars
        PROVE  UNCHANGED Contract!contractVars
    BY <2>1 DEF workflowVars, Contract!contractVars
  <2> QED
    BY <2>1, StepKeepsContract
<1> QED
  BY <1>1, <1>2, WfInvariant, PTL DEF WorkflowSpec, KeepsContract, Contract!ContractSpec

-----------------------------------------------------------------------------
(* The seeded approval                                                     *)

\* How far a purchase order has come.
Rank ==
  [s \in {"draft", "pending_manager_approval", "pending_cfo_approval", "approved", "rejected"} |->
     CASE s = "draft" -> 0
       [] s = "pending_manager_approval" -> 1
       [] s = "pending_cfo_approval" -> 2
       [] OTHER -> 3]

\* An activation under way has found or left nothing active.
ActivationAlone ==
  "activation" \notin tangled =>
    /\ \A p, q \in Activating : p = q
    /\ Activating # {} => isActive = {}
    /\ \A v, w \in isActive : v = w

\* h leads from the start through what d was in to where it is.
PathOf(d, h) ==
  /\ reached[d] = {StartState} \cup {t.to : t \in h}
  /\ reached[d] = {instance[d].state} \cup {t.from : t \in h}
  /\ IsFiniteSet(h) /\ IsFiniteSet(reached[d])
  /\ Cardinality(reached[d]) = Cardinality(h) + 1

\* The rows of d and what a request that moved d is about to record.
Path(d) == history[d] \cup {wf[q].t : q \in {p \in Executing(d) : wf[p].pc = "record"}}

\* While the requests on d come one after another, each leaves the state d is
\* in, d only ever advances, and only the row of the last move may be missing.
OneByOne(d) ==
  /\ \A p, q \in Executing(d) : p = q
  /\ instance[d] = NoInstance => reached[d] = {} /\ history[d] = {} /\ Executing(d) = {}
  /\ instance[d] # NoInstance => PathOf(d, Path(d))
  /\ \A q \in Executing(d) : wf[q].pc # "record" => wf[q].t.from = instance[d].state
  /\ \A s \in reached[d] \ {instance[d].state} : Rank[s] < Rank[instance[d].state]

InOrder == \A d \in Documents : d \notin tangled => OneByOne(d)

ByFinance(t) == t.from = "pending_cfo_approval" /\ t.to = "approved"
FinancePosted(d) == \E entry \in journal[d] : entry.by \in Finance

\* What a request is about to post of a large amount, or of an escalated document,
\* is from finance; whoever moved an escalated document to approval has posted.
ApproverPosts ==
  /\ \A q \in WfRequests : wf[q].pc = "act" => \A entry \in wf[q].entry :
       entry.amount = "large" \/ ByFinance(wf[q].t) => entry.by \in Finance
  /\ \A q \in WfRequests : wf[q].pc \in {"move", "record"} /\ ByFinance(wf[q].t) =>
       FinancePosted(wf[q].doc)
  /\ \A d \in Documents : \A t \in history[d] : ByFinance(t) => FinancePosted(d)

ApprovalInv == WfInv /\ ActivationAlone /\ InOrder /\ ApproverPosts /\ LargeNeedsFinance

\* Every definition is cut from the seeded one.
OfTheSeed == StartState = "draft" /\ \A c \in Contents : c \subseteq PoTransitions

LEMMA SeedFacts ==
  ASSUME NEW t \in PoTransitions
  PROVE  /\ Rank[t.from] \in 0..3 /\ Rank[t.to] \in 0..3 /\ Rank[t.from] < Rank[t.to]
         /\ t.posts <=> t.to = "approved"
         /\ t.posts /\ (OfTotal("large") \cap t.bodies # {} \/ ByFinance(t)) => t.roles = Finance
         /\ t.from = "pending_cfo_approval" => t.to \in {"approved", "rejected"}
         /\ t.to # "none" /\ t.from # "none"
<1>1. /\ Rank["draft"] = 0 /\ Rank["pending_manager_approval"] = 1
      /\ Rank["pending_cfo_approval"] = 2 /\ Rank["approved"] = 3 /\ Rank["rejected"] = 3
  BY DEF Rank
<1>2. t.posts <=> t.to = "approved"
  <2>1. \E from, label, to, roles, bodies : t = Transition(from, label, to, roles, bodies)
    BY DEF PoTransitions
  <2>2. PICK from, label, to, roles, bodies : t = Transition(from, label, to, roles, bodies)
    BY <2>1
  <2>3. t.to = to /\ t.posts = (to = "approved")
    BY <2>2, Zenon DEF Transition
  <2> QED
    BY <2>3
<1>3. t.to = "approved" => \/ t.roles = Finance
                           \/ t.bodies = OfTotal("small") /\ t.from = "pending_manager_approval"
  BY DEF PoTransitions, Transition
<1>4. \/ t.from = "draft" /\ t.to = "pending_manager_approval"
      \/ /\ t.from = "pending_manager_approval"
         /\ t.to \in {"approved", "pending_cfo_approval", "rejected"}
      \/ t.from = "pending_cfo_approval" /\ t.to \in {"approved", "rejected"}
  BY DEF PoTransitions, Transition
<1>5. OfTotal("large") \cap OfTotal("small") = {}
  BY DEF OfTotal, Bodies
<1> QED
  BY <1>1, <1>2, <1>3, <1>4, <1>5 DEF ByFinance

LEMMA SeedTransitions ==
  ASSUME OfTheSeed, NEW t \in UNION Contents
  PROVE  t \in PoTransitions
BY DEF OfTheSeed

LEMMA ActivationAloneNext ==
  ASSUME WfType, ActivationAlone, WorkflowNext
  PROVE  ActivationAlone'
<1> USE DEF ActivationAlone, Activating
<1>1. ASSUME NEW w \in WfDefinitions, NEW c \in Contents, CreateWorkflow(w, c) \/ UpdateWorkflow(w, c)
      PROVE  ActivationAlone'
  BY <1>1 DEF CreateWorkflow, UpdateWorkflow
<1>2. ASSUME NEW w \in WfDefinitions, DeleteWorkflow(w)
      PROVE  ActivationAlone'
  BY <1>2 DEF DeleteWorkflow
<1>3. ASSUME NEW r \in WfRequests, NEW w \in WfDefinitions, Deactivate(r, w)
      PROVE  ActivationAlone'
  BY <1>3 DEF Deactivate, WfType
<1>4. ASSUME NEW r \in WfRequests, Activate(r)
      PROVE  ActivationAlone'
  BY <1>4 DEF Activate, WfType, Resting
<1>5. ASSUME NEW w \in WfDefinitions, NEW d \in Documents, InitializeWorkflow(w, d)
      PROVE  ActivationAlone'
  BY <1>5 DEF InitializeWorkflow
<1>6. ASSUME NEW r \in WfRequests, NEW d \in Documents, NEW role \in WfRoles,
             NEW body \in Bodies, NEW t \in UNION Contents, RequestTransition(r, d, t, role, body)
      PROVE  ActivationAlone'
  BY <1>6 DEF RequestTransition, WfType
<1>7. ASSUME NEW r \in WfRequests,
             \/ ExecuteActions(r) \/ ActionBlocks(r) \/ MoveInstance(r)
             \/ RecordTransition(r) \/ CutShort(r)
      PROVE  ActivationAlone'
  <2>1. Activating' \subseteq Activating /\ isActive' = isActive /\ tangled \subseteq tangled'
    <3>1. CASE ExecuteActions(r) \/ MoveInstance(r)
      <4>1. (\A q \in WfRequests \ {r} : wf'[q] = wf[q]) /\ wf'[r].pc # "activate"
        BY <3>1, WfRequestKinds DEF ExecuteActions, MoveInstance, WfType, Moving
      <4> QED
        BY <3>1, <4>1 DEF ExecuteActions, MoveInstance
    <3>2. CASE ActionBlocks(r) \/ RecordTransition(r) \/ CutShort(r)
      BY <3>2 DEF ActionBlocks, RecordTransition, CutShort, Resting, WfType
    <3> QED
      BY <1>7, <3>1, <3>2
  <2> QED
    BY <2>1
<1> QED
  BY <1>1, <1>2, <1>3, <1>4, <1>5, <1>6, <1>7 DEF WorkflowNext, Define, Execute

LEMMA ApproverNext ==
  ASSUME OfTheSeed, WfInv, ApproverPosts, LargeNeedsFinance, WorkflowNext
  PROVE  ApproverPosts' /\ LargeNeedsFinance'
<1> USE DEF WfInv
<1>1. ASSUME UNCHANGED <<journal, history>>,
             \A q \in WfRequests : InTransition(q)' => wf'[q] = wf[q]
      PROVE  ApproverPosts' /\ LargeNeedsFinance'
  BY <1>1 DEF ApproverPosts, LargeNeedsFinance, InTransition, FinancePosted
<1>2. CASE Define
  <2>1. UNCHANGED <<journal, history>> /\ \A q \in WfRequests : InTransition(q)' => wf'[q] = wf[q]
    BY <1>2 DEF Define, CreateWorkflow, UpdateWorkflow, DeleteWorkflow, Deactivate, Activate,
                Resting, InTransition, WfType
  <2> QED
    BY <1>1, <2>1
<1>3. ASSUME NEW r \in WfRequests, ActionBlocks(r) \/ CutShort(r)
      PROVE  ApproverPosts' /\ LargeNeedsFinance'
  BY <1>1, <1>3 DEF ActionBlocks, CutShort, Resting, InTransition, WfType
<1>4. ASSUME NEW w \in WfDefinitions, NEW d \in Documents, InitializeWorkflow(w, d)
      PROVE  ApproverPosts' /\ LargeNeedsFinance'
  BY <1>1, <1>4 DEF InitializeWorkflow
<1>5. ASSUME NEW r \in WfRequests, NEW d \in Documents, NEW role \in WfRoles,
             NEW body \in Bodies, NEW t \in UNION Contents, RequestTransition(r, d, t, role, body)
      PROVE  ApproverPosts' /\ LargeNeedsFinance'
  <2>1. /\ \A q \in WfRequests \ {r} : wf'[q] = wf[q]
        /\ wf'[r] = [pc |-> "act", doc |-> d, t |-> t, entry |-> EntryFor(t, role, body)]
        /\ UNCHANGED <<journal, history>>
    BY <1>5 DEF RequestTransition, WfType
  <2>2. ASSUME NEW entry \in EntryFor(t, role, body), entry.amount = "large" \/ ByFinance(t)
        PROVE  entry.by \in Finance
    <3>1. t.posts /\ entry.by = role /\ entry.amount = body.total
      BY <2>2 DEF EntryFor
    <3>2. t \in PoTransitions /\ role \in t.roles /\ body \in t.bodies
      BY <1>5, SeedTransitions DEF RequestTransition, ConditionsMet
    <3>3. entry.amount = "large" => body \in OfTotal("large") \cap t.bodies
      BY <3>1, <3>2 DEF OfTotal
    <3> QED
      BY <2>2, <3>1, <3>2, <3>3, SeedFacts
  <2>3. ApproverPosts'
    BY <2>1, <2>2 DEF ApproverPosts, FinancePosted
  <2> QED
    BY <2>1, <2>3 DEF LargeNeedsFinance
<1>6. ASSUME NEW r \in WfRequests, ExecuteActions(r)
      PROVE  ApproverPosts' /\ LargeNeedsFinance'
  <2> DEFINE d == wf[r].doc
  <2>1. /\ wf[r].pc = "act" /\ d \in Documents /\ UNCHANGED history
        /\ journal' = [journal EXCEPT ![d] = @ \cup wf[r].entry]
        /\ wf[r].t.posts => wf[r].entry # {}
    BY <1>6, WfRequestKinds DEF ExecuteActions, InTransition
  <2>2. \A e \in Documents : journal[e] \subseteq journal'[e]
    BY <2>1 DEF WfType
  <2>3. LargeNeedsFinance'
    BY <2>1 DEF ApproverPosts, LargeNeedsFinance, WfType
  <2>4. /\ \A q \in WfRequests \ {r} : wf'[q] = wf[q]
        /\ wf'[r].pc = "move" /\ wf'[r].doc = d /\ wf'[r].t = wf[r].t
    BY <1>6 DEF ExecuteActions, WfType
  <2>5. ASSUME ByFinance(wf[r].t)
        PROVE  \E entry \in journal'[d] : entry.by \in Finance
    <3>1. wf[r].t \in PoTransitions
      BY <2>1, WfRequestKinds, SeedTransitions DEF InTransition
    <3>2. wf[r].entry # {}
      BY <2>1, <2>5, <3>1, SeedFacts DEF ByFinance
    <3>3. wf[r].entry \subseteq journal'[d]
      BY <2>1 DEF WfType
    <3> QED
      BY <2>1, <2>5, <3>2, <3>3 DEF ApproverPosts
  <2>6. \A q \in WfRequests : wf[q].pc \in {"move", "record"} => wf[q].doc \in Documents
    BY WfRequestKinds DEF InTransition
  <2>7. ApproverPosts'
    <3>1. \A q \in WfRequests : wf'[q].pc \in {"move", "record"} /\ ByFinance(wf'[q].t) =>
            \E entry \in journal'[wf'[q].doc] : entry.by \in Finance
      BY <2>2, <2>4, <2>5, <2>6 DEF ApproverPosts, FinancePosted
    <3>2. \A e \in Documents : \A t \in history'[e] : ByFinance(t) =>
            \E entry \in journal'[e] : entry.by \in Finance
      BY <2>1, <2>2 DEF ApproverPosts, FinancePosted
    <3>3. \A q \in WfRequests : wf'[q].pc = "act" => wf'[q] = wf[q]
      BY <2>4
    <3> QED
      BY <3>1, <3>2, <3>3 DEF ApproverPosts, FinancePosted, ByFinance
  <2> QED
    BY <2>3, <2>7
<1>7. ASSUME NEW r \in WfRequests, MoveInstance(r)
      PROVE  ApproverPosts' /\ LargeNeedsFinance'
  <2>1. wf[r].pc = "move" /\ UNCHANGED <<journal, history>>
    BY <1>7 DEF MoveInstance
  <2>2. /\ \A q \in WfRequests \ {r} : wf'[q] = wf[q]
        /\ wf'[r].pc = "record" /\ wf'[r].doc = wf[r].doc /\ wf'[r].t = wf[r].t
    BY <1>7, <2>1, WfRequestKinds DEF MoveInstance, WfType, Moving
  <2> QED
    BY <2>1, <2>2 DEF ApproverPosts, LargeNeedsFinance, FinancePosted, ByFinance
<1>8. ASSUME NEW r \in WfRequests, RecordTransition(r)
      PROVE  ApproverPosts' /\ LargeNeedsFinance'
  <2>1. /\ wf[r].pc = "record" /\ wf[r].doc \in Documents /\ UNCHANGED journal
        /\ history' = [history EXCEPT ![wf[r].doc] = @ \cup {wf[r].t}]
    BY <1>8, WfRequestKinds DEF RecordTransition, InTransition
  <2>2. (\A q \in WfRequests \ {r} : wf'[q] = wf[q]) /\ wf'[r] = Resting
    BY <1>8 DEF RecordTransition, WfType
  <2>3. \A d \in Documents : \A t \in history'[d] : ByFinance(t) => FinancePosted(d)
    BY <2>1 DEF ApproverPosts, WfType
  <2> QED
    BY <2>1, <2>2, <2>3 DEF ApproverPosts, LargeNeedsFinance, FinancePosted, Resting
<1> QED
  BY <1>2, <1>3, <1>4, <1>5, <1>6, <1>7, <1>8 DEF WorkflowNext, Execute

LEMMA StateRanks ==
  ASSUME OfTheSeed
  PROVE  \A s \in States : Rank[s] \in 0..3
<1>1. Rank["draft"] = 0
  BY DEF Rank
<1> QED
  BY <1>1, SeedFacts, SeedTransitions DEF States, OfTheSeed

\* A step that neither moves d nor records a move, nor drops a record to come,
\* keeps its order.
LEMMA SameOrder ==
  ASSUME NEW d \in Documents, OneByOne(d),
         instance'[d] = instance[d], history'[d] = history[d], reached'[d] = reached[d],
         \A q \in Executing(d)' :
           /\ q \in Executing(d) /\ wf'[q].t = wf[q].t
           /\ wf'[q].pc = "record" <=> wf[q].pc = "record",
         \A q \in Executing(d) : wf[q].pc = "record" => q \in Executing(d)'
  PROVE  OneByOne(d)'
<1>1. Path(d)' = Path(d)
  BY DEF Path
<1> HIDE DEF Path
<1> QED
  BY <1>1 DEF OneByOne, PathOf

LEMMA MoveKeepsOrder ==
  ASSUME OfTheSeed, WfInv, NEW r \in WfRequests, MoveInstance(r),
         NEW d \in Documents, d = wf[r].doc, OneByOne(d)
  PROVE  OneByOne(d)'
<1> DEFINE t == wf[r].t
<1>1. wf[r] \in Acting \cup Moving
  BY WfRequestKinds DEF MoveInstance, WfInv, InTransition
<1>2. r \in Executing(d) /\ wf[r].pc = "move" /\ UNCHANGED history
  BY DEF Executing, MoveInstance
<1>3. /\ \A q \in WfRequests \ {r} : wf'[q] = wf[q]
      /\ wf'[r].pc = "record" /\ wf'[r].doc = d /\ wf'[r].t = t
  BY <1>1 DEF MoveInstance, WfInv, WfType
<1>4. Executing(d) = {r} /\ Executing(d)' = {r}
  BY <1>2, <1>3 DEF OneByOne, Executing
<1>5. /\ instance[d] # NoInstance /\ t.from = instance[d].state /\ t \in PoTransitions
      /\ instance'[d].state = t.to /\ reached'[d] = reached[d] \cup {t.to}
  <2>1. t \in UNION Contents
    BY <1>1 DEF Acting, Moving
  <2> QED
    BY <1>2, <1>4, <2>1, SeedTransitions DEF OneByOne, MoveInstance, WfInv, WfType
<1>6. Path(d) = history[d] /\ Path(d)' = history[d] \cup {t}
  BY <1>2, <1>3, <1>4 DEF Path
<1>7. PathOf(d, history[d])
  BY <1>5, <1>6 DEF OneByOne
<1>8. t.from \in reached[d] /\ \A s \in reached[d] : Rank[s] < Rank[t.to]
  <2>1. t.from \in reached[d]
    BY <1>5, <1>7 DEF PathOf
  <2>2. \A s \in reached[d] : Rank[s] \in 0..3
    BY StateRanks DEF WfInv, WfType
  <2>3. Rank[t.from] < Rank[t.to] /\ Rank[t.from] \in 0..3 /\ Rank[t.to] \in 0..3
    BY <1>5, SeedFacts
  <2>4. \A s \in reached[d] : s = t.from \/ Rank[s] < Rank[t.from]
    BY <1>5 DEF OneByOne
  <2> QED
    BY <2>1, <2>2, <2>3, <2>4
<1>9. t.to \notin reached[d]
  <2>1. Rank[t.to] \in 0..3
    BY <1>5, SeedFacts
  <2> QED
    BY <1>8, <2>1
<1>10. t \notin history[d]
  BY <1>7, <1>9 DEF PathOf
<1>11. PathOf(d, Path(d))'
  <2>1. /\ IsFiniteSet(history[d]) /\ IsFiniteSet(reached[d])
        /\ Cardinality(reached[d]) = Cardinality(history[d]) + 1
    BY <1>7 DEF PathOf
  <2>2. /\ IsFiniteSet(history[d] \cup {t}) /\ IsFiniteSet(reached'[d])
        /\ Cardinality(reached'[d]) = Cardinality(history[d] \cup {t}) + 1
    <3>1. /\ IsFiniteSet(history[d] \cup {t})
          /\ Cardinality(history[d] \cup {t}) = Cardinality(history[d]) + 1
      BY <1>10, <2>1, FS_AddElement
    <3>2. /\ IsFiniteSet(reached[d] \cup {t.to})
          /\ Cardinality(reached[d] \cup {t.to}) = Cardinality(reached[d]) + 1
      BY <1>9, <2>1, FS_AddElement
    <3> QED
      BY <1>5, <2>1, <3>1, <3>2
  <2>3. /\ reached'[d] = {StartState} \cup {u.to : u \in history[d] \cup {t}}
        /\ reached'[d] = {t.to} \cup {u.from : u \in history[d] \cup {t}}
    BY <1>5, <1>7 DEF PathOf
  <2> QED
    BY <1>5, <1>6, <2>2, <2>3 DEF PathOf
<1>12. instance'[d] # NoInstance
  BY <1>5, SeedFacts DEF NoInstance
<1> QED
  BY <1>3, <1>4, <1>5, <1>8, <1>11, <1>12 DEF OneByOne

\* On other documents nothing changes; on the one it is about, a request is
\* alone or entangles it.
LEMMA InOrderNext ==
  ASSUME OfTheSeed, WfInv, InOrder, WorkflowNext
  PROVE  InOrder'
<1> SUFFICES ASSUME NEW d \in Documents, d \notin tangled'
             PROVE  OneByOne(d)'
  BY DEF InOrder
<1> USE DEF WfInv
<1>0. d \notin tangled => OneByOne(d)
  BY DEF InOrder
<1>1. CASE Define
  <2>1. /\ UNCHANGED <<instance, history, reached>> /\ d \notin tangled
        /\ Executing(d)' = Executing(d) /\ \A q \in Executing(d) : wf'[q] = wf[q]
    BY <1>1 DEF Define, CreateWorkflow, UpdateWorkflow, DeleteWorkflow, Deactivate, Activate,
                Resting, Executing, WfType
  <2> QED
    BY <1>0, <2>1, SameOrder
<1>2. ASSUME NEW w \in WfDefinitions, NEW e \in Documents, InitializeWorkflow(w, e)
      PROVE  OneByOne(d)'
  <2>1. d \notin tangled /\ OneByOne(d) /\ UNCHANGED <<history, wf>> /\ Executing(d)' = Executing(d)
    BY <1>0, <1>2 DEF InitializeWorkflow, Executing
  <2>2. CASE e # d
    BY <1>2, <2>1, <2>2, SameOrder DEF InitializeWorkflow, WfType
  <2>3. CASE e = d
    <3>1. /\ history'[d] = {} /\ reached'[d] = {StartState} /\ Executing(d)' = {}
          /\ instance'[d] # NoInstance /\ instance'[d].state = StartState
      BY <1>2, <2>1, <2>3, WorkflowAssumption DEF InitializeWorkflow, OneByOne, WfType, NoInstance
    <3>2. Path(d)' = {}
      BY <3>1 DEF Path
    <3>3. PathOf(d, Path(d))'
      <4>1. /\ IsFiniteSet({}) /\ Cardinality({}) = 0
            /\ IsFiniteSet({StartState}) /\ Cardinality({StartState}) = 1
        BY FS_EmptySet, FS_Singleton
      <4> QED
        BY <3>1, <3>2, <4>1 DEF PathOf
    <3> QED
      BY <3>1, <3>3 DEF OneByOne
  <2> QED
    BY <2>2, <2>3
<1>3. ASSUME NEW r \in WfRequests, NEW e \in Documents, NEW role \in WfRoles,
             NEW body \in Bodies, NEW t \in UNION Contents, RequestTransition(r, e, t, role, body)
      PROVE  OneByOne(d)'
  <2>1. /\ d \notin tangled /\ OneByOne(d) /\ UNCHANGED <<instance, history, reached>>
        /\ \A q \in WfRequests \ {r} : wf'[q] = wf[q]
        /\ wf'[r] = [pc |-> "act", doc |-> e, t |-> t, entry |-> EntryFor(t, role, body)]
        /\ wf[r] = Resting
    BY <1>0, <1>3 DEF RequestTransition, WfType
  <2>2. CASE e # d
    <3>1. Executing(d)' = Executing(d) /\ r \notin Executing(d)
      BY <2>1, <2>2 DEF Executing, Resting
    <3>2. \A q \in Executing(d) : wf'[q] = wf[q]
      BY <2>1, <3>1 DEF Executing
    <3> QED
      BY <2>1, <3>1, <3>2, SameOrder
  <2>3. CASE e = d
    <3>1. Executing(d) = {} /\ instance[d] # NoInstance /\ t.from = instance[d].state
      BY <1>3, <2>3 DEF RequestTransition
    <3>2. Executing(d)' = {r} /\ wf'[r].pc = "act" /\ wf'[r].t = t
      BY <2>1, <2>3, <3>1 DEF Executing
    <3>3. Path(d) = history[d] /\ Path(d)' = history[d]
      BY <2>1, <3>1, <3>2 DEF Path
    <3>4. PathOf(d, Path(d))'
      BY <2>1, <3>1, <3>3 DEF PathOf, OneByOne
    <3> QED
      BY <2>1, <3>1, <3>2, <3>4 DEF OneByOne
  <2> QED
    BY <2>2, <2>3
<1>4. ASSUME NEW r \in WfRequests,
             ExecuteActions(r) \/ ActionBlocks(r) \/ CutShort(r)
      PROVE  OneByOne(d)'
  <2>1. d \notin tangled /\ OneByOne(d) /\ UNCHANGED <<instance, history, reached>>
    BY <1>0, <1>4 DEF ExecuteActions, ActionBlocks, CutShort
  <2>2. CASE ExecuteActions(r)
    <3>1. wf[r] \in Acting \cup Moving
      BY <2>2, WfRequestKinds DEF ExecuteActions, InTransition
    <3>2. /\ \A q \in WfRequests \ {r} : wf'[q] = wf[q]
          /\ wf[r].pc = "act" /\ wf'[r].pc = "move" /\ wf'[r].doc = wf[r].doc /\ wf'[r].t = wf[r].t
      BY <2>2, <3>1 DEF ExecuteActions, WfType
    <3>3. Executing(d)' = Executing(d)
      BY <3>2 DEF Executing
    <3>4. \A q \in Executing(d) : wf'[q].t = wf[q].t /\ (wf'[q].pc = "record" <=> wf[q].pc = "record")
      BY <3>2 DEF Executing
    <3> QED
      BY <2>1, <3>3, <3>4, SameOrder
  <2>3. CASE ActionBlocks(r) \/ CutShort(r)
    <3>1. (\A q \in WfRequests \ {r} : wf'[q] = wf[q]) /\ wf'[r] = Resting
      BY <2>3 DEF ActionBlocks, CutShort, WfType
    <3>2. ~(wf[r].pc = "record" /\ wf[r].doc = d)
      BY <2>3 DEF ActionBlocks, CutShort
    <3>3. Executing(d)' = Executing(d) \ {r}
      BY <3>1 DEF Executing, Resting
    <3> QED
      BY <2>1, <3>1, <3>2, <3>3, SameOrder DEF Executing
  <2> QED
    BY <1>4, <2>2, <2>3
<1>5. ASSUME NEW r \in WfRequests, MoveInstance(r)
      PROVE  OneByOne(d)'
  <2>1. /\ d \notin tangled /\ OneByOne(d) /\ UNCHANGED history
        /\ wf[r] \in Acting \cup Moving
    BY <1>0, <1>5, WfRequestKinds DEF MoveInstance, InTransition
  <2>2. CASE wf[r].doc = d
    BY <1>5, <2>1, <2>2, MoveKeepsOrder
  <2>3. CASE wf[r].doc # d
    <3>1. /\ \A q \in WfRequests \ {r} : wf'[q] = wf[q]
          /\ wf'[r].doc = wf[r].doc
      BY <1>5, <2>1 DEF MoveInstance, WfType
    <3>2. Executing(d)' = Executing(d) /\ r \notin Executing(d)
      BY <2>3, <3>1 DEF Executing
    <3>3. \A q \in Executing(d) : wf'[q] = wf[q]
      BY <3>1, <3>2 DEF Executing
    <3>4. instance'[d] = instance[d] /\ reached'[d] = reached[d]
      BY <1>5, <2>1, <2>3 DEF MoveInstance, WfType
    <3> QED
      BY <2>1, <3>2, <3>3, <3>4, SameOrder
  <2> QED
    BY <2>2, <2>3
<1>6. ASSUME NEW r \in WfRequests, RecordTransition(r)
      PROVE  OneByOne(d)'
  <2>1. /\ d \notin tangled /\ OneByOne(d) /\ UNCHANGED <<instance, reached>>
        /\ wf[r] \in Acting \cup Moving
        /\ wf[r].pc = "record"
    BY <1>0, <1>6, WfRequestKinds DEF RecordTransition, InTransition
  <2>2. (\A q \in WfRequests \ {r} : wf'[q] = wf[q]) /\ wf'[r] = Resting
    BY <1>6 DEF RecordTransition, WfType
  <2>3. Executing(d)' = Executing(d) \ {r}
    BY <2>2 DEF Executing, Resting
  <2>4. CASE wf[r].doc = d
    <3>1. Executing(d) = {r} /\ Executing(d)' = {}
      BY <2>1, <2>3, <2>4 DEF OneByOne, Executing
    <3>2. history'[d] = history[d] \cup {wf[r].t}
      BY <1>6, <2>4 DEF RecordTransition, WfType
    <3>3. Path(d)' = Path(d)
      BY <2>1, <3>1, <3>2 DEF Path
    <3>4. instance[d] # NoInstance => PathOf(d, Path(d))'
      BY <2>1, <3>3 DEF PathOf, OneByOne
    <3> QED
      BY <2>1, <3>1, <3>4 DEF OneByOne
  <2>5. CASE wf[r].doc # d
    <3>1. history'[d] = history[d]
      BY <1>6, <2>5 DEF RecordTransition, WfType
    <3> QED
      BY <2>1, <2>2, <2>3, <2>5, <3>1, SameOrder DEF Executing
  <2> QED
    BY <2>4, <2>5
<1> QED
  BY <1>1, <1>2, <1>3, <1>4, <1>5, <1>6 DEF WorkflowNext, Execute

LEMMA ApprovalInvHolds ==
  ASSUME OfTheSeed
  PROVE  WorkflowSpec => []ApprovalInv
<1>1. WorkflowInit => ApprovalInv
  <2> SUFFICES ASSUME WorkflowInit PROVE ApprovalInv
    OBVIOUS
  <2>1. InOrder
    BY DEF WorkflowInit, InOrder, OneByOne, Executing, Resting
  <2>2. ActivationAlone /\ ApproverPosts /\ LargeNeedsFinance
    BY DEF WorkflowInit, ActivationAlone, Activating, ApproverPosts, LargeNeedsFinance,
           Resting
  <2> QED
    BY <2>1, <2>2, WfInit DEF ApprovalInv
<1>2. ApprovalInv /\ [WorkflowNext]_workflowVars => ApprovalInv'
  <2> SUFFICES ASSUME ApprovalInv, [WorkflowNext]_workflowVars PROVE ApprovalInv'
    OBVIOUS
  <2>1. CASE WorkflowNext
    BY <2>1, WfInvNext, ActivationAloneNext, InOrderNext, ApproverNext DEF ApprovalInv, WfInv
  <2>2. CASE UNCHANGED workflowVars
    <3>1. WfInv'
      BY <2>2 DEF ApprovalInv, workflowVars, WfInv, WfType, TakenUp, StateIsReached, InTransition
    <3>2. ActivationAlone' /\ ApproverPosts' /\ LargeNeedsFinance'
      BY <2>2 DEF ApprovalInv, workflowVars, ActivationAlone, Activating, ApproverPosts,
                  LargeNeedsFinance, FinancePosted
    <3>3. InOrder'
      BY <2>2 DEF ApprovalInv, workflowVars, InOrder, OneByOne, PathOf, Path, Executing
    <3> QED
      BY <3>1, <3>2, <3>3 DEF ApprovalInv
  <2> QED
    BY <2>1, <2>2
<1> QED
  BY <1>1, <1>2, PTL DEF WorkflowSpec

\* The document was awaiting the CFO and has left that state; what it left it by
\* led to approval, since a rejection is not followed by anything.
LEMMA EscalatedIsPosted ==
  ASSUME OfTheSeed, ApprovalInv
  PROVE  EscalatedNeedsFinance
<1> SUFFICES ASSUME NEW d \in Documents, d \notin tangled, instance[d].state = "approved",
                    NEW t \in history[d], t.to = "pending_cfo_approval"
             PROVE  FinancePosted(d)
  BY DEF EscalatedNeedsFinance, FinancePosted
<1> USE DEF ApprovalInv, WfInv
<1>1. OneByOne(d) /\ instance[d] # NoInstance /\ t \in Path(d)
  BY DEF InOrder, NoInstance, Path
<1>2. \A u \in Path(d) : u \in PoTransitions
  BY WfRequestKinds, SeedTransitions DEF Path, Executing, InTransition, WfType
<1>3. PathOf(d, Path(d))
  BY <1>1 DEF OneByOne
<1>4. PICK u \in Path(d) : u.from = "pending_cfo_approval"
  BY <1>1, <1>3 DEF PathOf
<1>5. u.to \in reached[d] /\ u.to \in {"approved", "rejected"}
  BY <1>2, <1>3, <1>4, SeedFacts DEF PathOf
<1>6. u.to = "approved"
  <2>1. Rank["approved"] = 3 /\ Rank["rejected"] = 3
    BY DEF Rank
  <2> QED
    BY <1>1, <1>5, <2>1 DEF OneByOne
<1> HIDE DEF ApprovalInv
<1>7. ASSUME NEW q \in WfRequests, q \in Executing(d), wf[q].pc = "record", u = wf[q].t
      PROVE  FinancePosted(d)
  BY <1>4, <1>6, <1>7 DEF ApprovalInv, ApproverPosts, ByFinance, Executing
<1>8. CASE u \in history[d]
  BY <1>4, <1>6, <1>8 DEF ApprovalInv, ApproverPosts, ByFinance
<1> QED
  BY <1>4, <1>7, <1>8 DEF Path, Executing

LEMMA OrderHolds ==
  ASSUME OfTheSeed, ApprovalInv
  PROVE  ApprovalsHold
<1>1. OneActive /\ LargeNeedsFinance
  BY DEF ApprovalInv, ActivationAlone, OneActive
<1>2. HistoryIsPath
  <2> SUFFICES ASSUME NEW d \in Documents, d \notin tangled, Executing(d) = {},
                      instance[d] # NoInstance
               PROVE  PathOf(d, history[d])
    BY DEF HistoryIsPath, PathOf
  <2>1. Path(d) = history[d]
    BY DEF Path
  <2> QED
    BY <2>1 DEF ApprovalInv, InOrder, OneByOne
<1> QED
  BY <1>1, <1>2, EscalatedIsPosted DEF ApprovalsHold

\* WorkflowService over definitions cut from the seeded purchase-order approval:
\* one is active unless activations overlapped, an undisturbed document's history
\* is a path to its state, a large amount is posted by finance only and an escalated
\* document approved only after finance posted, whatever overlaps, fails, or is
\* revised, replaced or deleted meanwhile.
THEOREM ApprovalsAlwaysHold ==
  ASSUME OfTheSeed
  PROVE  WorkflowSpec => []ApprovalsHold
BY ApprovalInvHolds, OrderHolds, PTL

-----------------------------------------------------------------------------
(***************************************************************************)
(* Receivables.  An invoice number in hand is no one else's; a payment has *)
(* read what was received then, and what is received only grows.           *)
(***************************************************************************)

OrderStates == {"NONE", "CONFIRMED", "INVOICED", "FULFILLED"}
BillStates == {"NONE", "APPROVED", "PARTIALLY_PAID", "PAID"}
Orders == SalesOrders \cup {Direct}
Payments == [inv : ArInvoices, amt : Nat \ {0}]

\* Where a request can stand.
Issuing == [pc : {"issue"}, inv : ArInvoices, so : Orders]
Ordering == [pc : {"order"}, so : SalesOrders]
Reading == [pc : {"pay"}, inv : ArInvoices, amt : Nat \ {0}, prior : Nat]
Paid == [pc : {"paid"}, inv : ArInvoices, amt : Nat \ {0}, pay : Receipts,
         status : {"PAID", "PARTIALLY_PAID"}]
Sales == {Waiting} \cup Issuing \cup Ordering \cup Reading \cup Paid

SalesType ==
  /\ order \in [SalesOrders -> OrderStates]
  /\ bill \in [ArInvoices -> [status : BillStates, so : Orders]]
  /\ IsFiniteSet(DOMAIN receipt) /\ receipt \in [DOMAIN receipt -> Payments]
  /\ sale \in [SalesRequests -> Sales]

PayingNow(r) == sale[r].pc \in {"pay", "paid"}

\* An invoice about to be issued is new, and the only one of its number.
IssuesAreSingle ==
  /\ \A i \in ArInvoices : ~Issued(i) => bill[i].so = Direct
  /\ \A r \in SalesRequests : sale[r].pc = "issue" =>
       /\ ~Issued(sale[r].inv)
       /\ sale[r].so # Direct => \A i \in ArInvoices : bill[i].so # sale[r].so
       /\ \A q \in SalesRequests : q # r /\ sale[q].pc = "issue" =>
            /\ sale[q].inv # sale[r].inv
            /\ sale[r].so # Direct => sale[q].so # sale[r].so

\* What is received is of issued invoices; what a payment has read has since only
\* grown, and what it has not yet committed is no one else's.
PaymentsAreApart ==
  /\ \A p \in DOMAIN receipt : Issued(receipt[p].inv)
  /\ \A r \in SalesRequests : PayingNow(r) =>
       /\ Issued(sale[r].inv)
       /\ sale[r].pc = "pay" => sale[r].prior <= ReceivedFor(sale[r].inv)
       /\ sale[r].pc = "paid" =>
            /\ sale[r].pay \notin DOMAIN receipt
            /\ sale[r].status = "PAID" => ReceivedFor(sale[r].inv) + sale[r].amt >= ArTotal
            /\ \A q \in SalesRequests : q # r /\ sale[q].pc = "paid" =>
                 sale[q].inv # sale[r].inv /\ sale[q].pay # sale[r].pay

\* A payment of an invoice that no other has overlapped has read what was received.
AloneIsExact ==
  \A r \in SalesRequests : PayingNow(r) /\ sale[r].inv \notin contested =>
    /\ \A q \in Paying(sale[r].inv) : q = r
    /\ sale[r].pc = "pay" => sale[r].prior = ReceivedFor(sale[r].inv)
    /\ sale[r].pc = "paid" /\ sale[r].status # "PAID" =>
         ReceivedFor(sale[r].inv) + sale[r].amt < ArTotal

SalesInv ==
  SalesType /\ IssuesAreSingle /\ PaymentsAreApart /\ AloneIsExact /\ BillingTellsTruth

-----------------------------------------------------------------------------
\* The payments of an invoice and what they add up to.
PaymentsOf(rec, i) == {p \in DOMAIN rec : rec[p].inv = i}
Got(rec, i) == SumOf([p \in PaymentsOf(rec, i) |-> rec[p].amt], PaymentsOf(rec, i))

LEMMA PaymentSum ==
  ASSUME NEW rec, NEW S
  PROVE  MapThenSumSet(LAMBDA p : rec[p].amt, S) = SumOf([p \in S |-> rec[p].amt], S)
<1> DEFINE Q(g) == g = [T \in SUBSET S |->
                          IF T = {} THEN 0 ELSE rec[AnyOf(T)].amt + g[T \ {AnyOf(T)}]]
<1>1. MapThenSumSet(LAMBDA p : rec[p].amt, S) = (CHOOSE g : Q(g))[S]
  BY DEF MapThenSumSet, MapThenFoldSet, AnyOf
<1>2. \A g : Q(g) <=> SumIter([p \in S |-> rec[p].amt], S, g)
  BY DEF AnyOf, SumIter
<1> HIDE DEF Q
<1>3. (CHOOSE g : Q(g)) = (CHOOSE g : SumIter([p \in S |-> rec[p].amt], S, g))
  BY <1>2
<1> QED
  BY <1>1, <1>3, SumUnfold

LEMMA ReceivedIs ==
  ASSUME NEW i
  PROVE  ReceivedFor(i) = Got(receipt, i) /\ ReceivedFor(i)' = Got(receipt', i)
<1>1. \A rec, S : MapThenSumSet(LAMBDA p : rec[p].amt, S) = SumOf([p \in S |-> rec[p].amt], S)
  BY PaymentSum
<1>2. ReceivedFor(i) = Got(receipt, i)
  BY <1>1 DEF ReceivedFor, Got, PaymentsOf
<1>3. ReceivedFor(i)' = Got(receipt', i)
  <2> DEFINE S == PaymentsOf(receipt', i)
             Q(g) == g = [T \in SUBSET S |->
                            IF T = {} THEN 0
                            ELSE receipt'[AnyOf(T)].amt + g[T \ {AnyOf(T)}]]
  <2>1. ReceivedFor(i)' = (CHOOSE g : Q(g))[S]
    BY DEF ReceivedFor, PaymentsOf, MapThenSumSet, MapThenFoldSet, AnyOf
  <2>2. \A g : Q(g) <=> SumIter([p \in S |-> receipt'[p].amt], S, g)
    BY DEF AnyOf, SumIter
  <2> HIDE DEF Q
  <2>3. (CHOOSE g : Q(g)) = (CHOOSE g : SumIter([p \in S |-> receipt'[p].amt], S, g))
    BY <2>2
  <2> QED
    BY <2>1, <2>3, SumUnfold DEF Got
<1> QED
  BY <1>2, <1>3

\* A new payment adds its amount to its invoice, and to no other.
LEMMA NewPayment ==
  ASSUME NEW rec, IsFiniteSet(DOMAIN rec), \A p \in DOMAIN rec : rec[p].amt \in Nat,
         NEW x, x \notin DOMAIN rec, NEW i, NEW a \in Nat,
         NEW new, DOMAIN new = DOMAIN rec \cup {x}, new[x] = [inv |-> i, amt |-> a],
         \A p \in DOMAIN rec : new[p] = rec[p]
  PROVE  \A d : Got(new, d) = Got(rec, d) + IF d = i THEN a ELSE 0
<1> TAKE d
<1>1. PICK S : S = PaymentsOf(rec, d)
  OBVIOUS
<1>2. PICK f : f = [p \in PaymentsOf(rec, d) |-> rec[p].amt]
  OBVIOUS
<1>3. PICK g : g = [p \in PaymentsOf(new, d) |-> new[p].amt]
  OBVIOUS
<1>4. IsFiniteSet(S) /\ x \notin S /\ \A p \in S : g[p] = f[p] /\ f[p] \in Nat
  <2>1. S \subseteq DOMAIN rec
    BY <1>1 DEF PaymentsOf
  <2> QED
    BY <1>1, <1>2, <1>3, <2>1, FS_Subset DEF PaymentsOf
<1>5. SumOf(g, S) = SumOf(f, S) /\ SumOf(f, S) \in Nat
  BY <1>4, SumSame, SumType
<1>6. CASE d = i
  <2>1. PaymentsOf(new, d) = S \cup {x} /\ g[x] = a
    BY <1>1, <1>3, <1>6 DEF PaymentsOf
  <2>2. SumOf(g, S \cup {x}) = g[x] + SumOf(g, S)
    BY <1>4, <2>1, SumMore
  <2>3. Got(new, d) = SumOf(g, S \cup {x}) /\ Got(rec, d) = SumOf(f, S)
    BY <1>1, <1>2, <1>3, <2>1 DEF Got
  <2> QED
    BY <1>5, <1>6, <2>1, <2>2, <2>3
<1>7. CASE d # i
  <2>1. PaymentsOf(new, d) = S
    BY <1>1, <1>7 DEF PaymentsOf
  <2> QED
    BY <1>1, <1>2, <1>3, <1>5, <1>7, <2>1 DEF Got
<1> QED
  BY <1>6, <1>7

LEMMA ReceivedType ==
  ASSUME SalesType, NEW i PROVE ReceivedFor(i) \in Nat
<1>1. PICK S : S = PaymentsOf(receipt, i)
  OBVIOUS
<1>2. PICK f : f = [p \in S |-> receipt[p].amt]
  OBVIOUS
<1>3. IsFiniteSet(S) /\ \A p \in S : f[p] \in Nat
  <2>1. S \subseteq DOMAIN receipt
    BY <1>1 DEF PaymentsOf
  <2> QED
    BY <1>1, <1>2, <2>1, FS_Subset DEF SalesType, PaymentsOf, Payments
<1>4. Got(receipt, i) = SumOf(f, S)
  BY <1>1, <1>2 DEF Got
<1> QED
  BY <1>3, <1>4, SumType, ReceivedIs

LEMMA NoneReceived ==
  ASSUME NEW i, \A p \in DOMAIN receipt : receipt[p].inv # i PROVE ReceivedFor(i) = 0
<1>1. PaymentsOf(receipt, i) = {}
  BY DEF PaymentsOf
<1> QED
  BY <1>1, SumEmpty, ReceivedIs DEF Got

\* Of the requests only r has moved, to t.
MovedTo(r, t) == sale'[r] = t /\ \A q \in SalesRequests : q # r => sale'[q] = sale[q]

LEMMA Moved ==
  ASSUME SalesType, NEW r \in SalesRequests, NEW t \in Sales, sale' = [sale EXCEPT ![r] = t]
  PROVE  MovedTo(r, t) /\ sale' \in [SalesRequests -> Sales]
  BY DEF SalesType, MovedTo

LEMMA SaleKinds ==
  ASSUME SalesType, NEW r \in SalesRequests
  PROVE  /\ sale[r].pc \in {"idle", "issue", "order", "pay", "paid"}
         /\ sale[r].pc = "idle" => sale[r] = Waiting
         /\ sale[r].pc = "issue" => sale[r] \in Issuing
         /\ sale[r].pc = "order" => sale[r] \in Ordering
         /\ sale[r].pc = "pay" => sale[r] \in Reading
         /\ sale[r].pc = "paid" => sale[r] \in Paid
  BY DEF SalesType, Sales, Issuing, Ordering, Reading, Paid, Waiting

-----------------------------------------------------------------------------
LEMMA SalesInitHolds == ReceivablesInit => SalesInv
<1> SUFFICES ASSUME ReceivablesInit PROVE SalesInv
  OBVIOUS
<1> USE ReceivablesAssumption DEF ReceivablesInit
<1>1. SalesType
  BY FS_EmptySet DEF SalesType, OrderStates, BillStates, Orders, NoBill, Sales
<1>2. \A r \in SalesRequests : sale[r].pc = "idle"
  BY DEF Waiting
<1>3. \A i \in ArInvoices : ~Issued(i) /\ bill[i].so = Direct /\ bill[i].status = "NONE"
  BY DEF NoBill, Issued
<1>4. IssuesAreSingle /\ PaymentsAreApart /\ AloneIsExact
  BY <1>2, <1>3 DEF IssuesAreSingle, PaymentsAreApart, AloneIsExact, PayingNow
<1>5. OrderBilledOnce
  BY <1>3 DEF OrderBilledOnce
<1>6. FulfilledIsPaid /\ SerialPaymentsSettle /\ AgedIsUnpaid /\ RevenueIsCommitted
  BY <1>3 DEF FulfilledIsPaid, SerialPaymentsSettle, AgedIsUnpaid, RevenueIsCommitted
<1> QED
  BY <1>1, <1>4, <1>5, <1>6 DEF SalesInv, BillingTellsTruth

\* What a step that writes no row leaves as it is.
LEMMA SameBooks ==
  ASSUME SalesInv, UNCHANGED <<order, bill, receipt>>, contested \subseteq contested',
         revenue' \subseteq revenue \cup DOMAIN receipt \cup {i \in ArInvoices : Issued(i)}
  PROVE  BillingTellsTruth' /\ \A i : ReceivedFor(i)' = ReceivedFor(i)
<1>1. \A i : ReceivedFor(i)' = ReceivedFor(i)
  BY ReceivedIs
<1>2. OrderBilledOnce'
  BY DEF SalesInv, BillingTellsTruth, OrderBilledOnce
<1>3. FulfilledIsPaid'
  BY <1>1 DEF SalesInv, BillingTellsTruth, FulfilledIsPaid
<1>4. SerialPaymentsSettle'
  BY <1>1 DEF SalesInv, BillingTellsTruth, SerialPaymentsSettle, Issued
<1>5. AgedIsUnpaid'
  BY <1>1 DEF SalesInv, BillingTellsTruth, AgedIsUnpaid
<1>6. RevenueIsCommitted'
  BY DEF SalesInv, BillingTellsTruth, RevenueIsCommitted, Issued
<1> QED
  BY <1>1, <1>2, <1>3, <1>4, <1>5, <1>6 DEF BillingTellsTruth

\* A request that goes where it has nothing in hand.
LEMMA QuietMove ==
  ASSUME SalesInv, NEW r \in SalesRequests, NEW t \in {Waiting} \cup Ordering,
         sale' = [sale EXCEPT ![r] = t],
         UNCHANGED <<order, bill, receipt, revenue, contested>>
  PROVE  SalesInv'
<1>1. BillingTellsTruth' /\ \A i : ReceivedFor(i)' = ReceivedFor(i)
  BY SameBooks
<1>2. MovedTo(r, t) /\ SalesType' /\ t.pc \notin {"issue", "pay", "paid"}
  <2>1. t \in Sales /\ t.pc \notin {"issue", "pay", "paid"}
    BY DEF Sales, Ordering, Waiting
  <2>2. SalesType
    BY DEF SalesInv
  <2>3. MovedTo(r, t) /\ sale' \in [SalesRequests -> Sales]
    BY <2>1, <2>2, Moved
  <2> QED
    BY <2>1, <2>2, <2>3 DEF SalesType
<1>3. IssuesAreSingle'
  BY <1>2 DEF SalesInv, IssuesAreSingle, Issued, MovedTo
<1>4. PaymentsAreApart'
  BY <1>1, <1>2 DEF SalesInv, PaymentsAreApart, PayingNow, Issued, MovedTo
<1>5. AloneIsExact'
  BY <1>1, <1>2 DEF SalesInv, AloneIsExact, PayingNow, Paying, MovedTo
<1> QED
  BY <1>1, <1>2, <1>3, <1>4, <1>5 DEF SalesInv

LEMMA NewOrder ==
  ASSUME SalesInv, NEW o \in SalesOrders, CreateSalesOrder(o)
  PROVE  SalesInv'
<1>1. \A i : ReceivedFor(i)' = ReceivedFor(i)
  BY ReceivedIs DEF CreateSalesOrder
<1>2. /\ order' = [order EXCEPT ![o] = "CONFIRMED"] /\ order[o] = "NONE"
      /\ UNCHANGED <<bill, receipt, sale, revenue, contested>>
  BY DEF CreateSalesOrder
<1>3. SalesType'
  BY <1>2 DEF SalesInv, SalesType, OrderStates
<1>4. \A x \in SalesOrders : order'[x] = order[x] \/ (order[x] = "NONE" /\ order'[x] = "CONFIRMED")
  BY <1>2 DEF SalesInv, SalesType
<1>5. IssuesAreSingle' /\ PaymentsAreApart' /\ AloneIsExact'
  BY <1>1, <1>2 DEF SalesInv, IssuesAreSingle, PaymentsAreApart, AloneIsExact, PayingNow, Issued,
                    Paying
<1>6. OrderBilledOnce'
  BY <1>2, <1>4 DEF SalesInv, BillingTellsTruth, OrderBilledOnce
<1>7. FulfilledIsPaid' /\ AgedIsUnpaid'
  BY <1>1, <1>2, <1>4 DEF SalesInv, BillingTellsTruth, FulfilledIsPaid, AgedIsUnpaid
<1>8. SerialPaymentsSettle'
  BY <1>1, <1>2, <1>4
  DEF SalesInv, BillingTellsTruth, SerialPaymentsSettle, Issued, SalesType, Orders
<1>9. RevenueIsCommitted'
  BY <1>2 DEF SalesInv, BillingTellsTruth, RevenueIsCommitted, Issued
<1> QED
  BY <1>3, <1>5, <1>6, <1>7, <1>8, <1>9 DEF SalesInv, BillingTellsTruth

\* A request that takes up an invoice of a number that is free.
LEMMA NewIssue ==
  ASSUME SalesInv, NEW r \in SalesRequests, NEW i \in ArInvoices, NEW o \in Orders,
         sale' = [sale EXCEPT ![r] = [pc |-> "issue", inv |-> i, so |-> o]],
         Unused(i), o # Direct => NumberFree(o),
         UNCHANGED <<order, bill, receipt, revenue, contested>>
  PROVE  SalesInv'
<1>1. BillingTellsTruth' /\ \A x : ReceivedFor(x)' = ReceivedFor(x)
  BY SameBooks
<1>2. PICK t \in Issuing : t = [pc |-> "issue", inv |-> i, so |-> o]
  BY DEF Issuing
<1>3. MovedTo(r, t) /\ SalesType'
  BY <1>2, Moved DEF SalesInv, SalesType, Sales
<1>4. IssuesAreSingle'
  <2>1. \A q \in SalesRequests : sale[q].pc = "issue" => sale[q].inv # i /\ (o # Direct => sale[q].so # o)
    BY DEF Unused, Drafted, NumberFree
  <2>2. o # Direct => \A x \in ArInvoices : bill[x].so # o
    BY DEF NumberFree
  <2> QED
    BY <1>2, <1>3, <2>1, <2>2 DEF SalesInv, IssuesAreSingle, Issued, MovedTo, Unused
<1>5. PaymentsAreApart'
  BY <1>1, <1>2, <1>3 DEF SalesInv, PaymentsAreApart, PayingNow, Issued, MovedTo
<1>6. AloneIsExact'
  BY <1>1, <1>2, <1>3 DEF SalesInv, AloneIsExact, PayingNow, Paying, MovedTo
<1> QED
  BY <1>1, <1>3, <1>4, <1>5, <1>6 DEF SalesInv

LEMMA ReadsPayments ==
  ASSUME SalesInv, NEW r \in SalesRequests, NEW i \in ArInvoices, NEW a \in ReceivedAmounts,
         ReceivePaymentRead(r, i, a)
  PROVE  SalesInv'
<1>1. UNCHANGED <<order, bill, receipt, revenue>> /\ contested \subseteq contested'
      /\ (Paying(i) # {} => i \in contested')
  BY DEF ReceivePaymentRead
<1>2. BillingTellsTruth' /\ \A x : ReceivedFor(x)' = ReceivedFor(x)
  BY <1>1, SameBooks
<1>3. PICK t \in Reading : t = [pc |-> "pay", inv |-> i, amt |-> a, prior |-> ReceivedFor(i)]
  BY ReceivedType, ReceivablesAssumption DEF Reading, SalesInv
<1>4. MovedTo(r, t) /\ SalesType'
  BY <1>1, <1>3, Moved DEF SalesInv, SalesType, Sales, ReceivePaymentRead
<1>5. IssuesAreSingle'
  BY <1>1, <1>3, <1>4 DEF SalesInv, IssuesAreSingle, Issued, MovedTo
<1>6. ReceivedFor(i) \in Nat /\ Issued(i)
  BY ReceivedType DEF SalesInv, ReceivePaymentRead
<1>7. PaymentsAreApart'
  BY <1>1, <1>2, <1>3, <1>4, <1>6 DEF SalesInv, PaymentsAreApart, PayingNow, Issued, MovedTo
<1>8. AloneIsExact'
  BY <1>1, <1>2, <1>3, <1>4, <1>6 DEF SalesInv, AloneIsExact, PayingNow, Paying, MovedTo
<1> QED
  BY <1>2, <1>4, <1>5, <1>7, <1>8 DEF SalesInv

LEMMA WritesPayment ==
  ASSUME SalesInv, NEW r \in SalesRequests, NEW p \in Receipts, ReceivePaymentWrite(r, p)
  PROVE  SalesInv'
<1>1. UNCHANGED <<order, bill, receipt, revenue, contested>>
  BY DEF ReceivePaymentWrite
<1>2. BillingTellsTruth' /\ \A x : ReceivedFor(x)' = ReceivedFor(x)
  BY <1>1, SameBooks
<1>3. PICK s \in Reading : s = sale[r]
  BY SaleKinds DEF SalesInv, ReceivePaymentWrite
<1>4. s.pc = "pay" /\ s.inv \in ArInvoices /\ s.amt \in Nat \ {0} /\ s.prior \in Nat
  BY <1>3 DEF Reading
<1>5. PICK t \in Paid : t = [pc |-> "paid", inv |-> s.inv, amt |-> s.amt, pay |-> p,
                             status |-> NewStatus(s)]
  <2>1. NewStatus(s) \in {"PAID", "PARTIALLY_PAID"}
    BY DEF NewStatus
  <2> QED
    BY <1>4, <2>1 DEF Paid
<1>6. MovedTo(r, t) /\ SalesType'
  <2>1. sale' = [sale EXCEPT ![r] = t]
    BY <1>3, <1>5 DEF ReceivePaymentWrite
  <2> QED
    BY <1>1, <2>1, Moved DEF SalesInv, SalesType, Sales
<1>7. IssuesAreSingle'
  BY <1>1, <1>5, <1>6 DEF SalesInv, IssuesAreSingle, Issued, MovedTo
<1>8. /\ ReceivedFor(s.inv) \in Nat /\ ArTotal \in Nat /\ Issued(s.inv)
      /\ s.prior <= ReceivedFor(s.inv)
  BY <1>3, <1>4, ReceivedType, ReceivablesAssumption DEF SalesInv, PaymentsAreApart, PayingNow
<1>9. t.status = "PAID" => ReceivedFor(s.inv) + s.amt >= ArTotal
  BY <1>4, <1>5, <1>8 DEF NewStatus
<1>10. PaymentsAreApart'
  <2>1. \A q \in SalesRequests : sale[q].pc = "paid" => sale[q].inv # t.inv /\ sale[q].pay # t.pay
    BY <1>3, <1>5 DEF ReceivePaymentWrite
  <2>2. p \notin DOMAIN receipt
    BY DEF ReceivePaymentWrite
  <2> QED
    BY <1>1, <1>2, <1>5, <1>6, <1>8, <1>9, <2>1, <2>2
    DEF SalesInv, PaymentsAreApart, PayingNow, Issued, MovedTo
<1>11. s.inv \notin contested =>
         /\ \A q \in Paying(s.inv) : q = r
         /\ t.status # "PAID" => ReceivedFor(s.inv) + s.amt < ArTotal
  BY <1>3, <1>4, <1>5, <1>8 DEF SalesInv, AloneIsExact, PayingNow, NewStatus
<1>12. AloneIsExact'
  BY <1>1, <1>2, <1>3, <1>4, <1>5, <1>6, <1>11
  DEF SalesInv, AloneIsExact, PayingNow, Paying, MovedTo
<1> QED
  BY <1>2, <1>6, <1>7, <1>10, <1>12 DEF SalesInv

LEMMA IssuesBill ==
  ASSUME SalesInv, NEW r \in SalesRequests, IssueCommit(r)
  PROVE  SalesInv'
<1>1. PICK i \in ArInvoices, o \in Orders : i = sale[r].inv /\ o = sale[r].so
  BY SaleKinds DEF SalesInv, IssueCommit, Issuing
<1>2. /\ UNCHANGED <<receipt, revenue, contested>> /\ sale[r].pc = "issue"
      /\ bill' = [bill EXCEPT ![i] = [status |-> "APPROVED", so |-> o]]
      /\ order' = [x \in SalesOrders |-> IF x = o THEN "INVOICED" ELSE order[x]]
  BY <1>1 DEF IssueCommit
<1>3. \A x : ReceivedFor(x)' = ReceivedFor(x)
  BY <1>2, ReceivedIs
<1>4. MovedTo(r, Waiting) /\ SalesType'
  <2>1. Waiting \in Sales /\ SalesType
    BY DEF Sales, SalesInv
  <2>2. MovedTo(r, Waiting) /\ sale' \in [SalesRequests -> Sales]
    BY <2>1, Moved DEF IssueCommit
  <2> QED
    BY <1>2, <2>1, <2>2 DEF SalesType, BillStates, OrderStates
<1>5. /\ ~Issued(i) /\ bill[i].so = Direct
      /\ o # Direct => \A x \in ArInvoices : bill[x].so # o
      /\ ReceivedFor(i) = 0
  <2>1. ~Issued(i) /\ bill[i].so = Direct /\ (o # Direct => \A x \in ArInvoices : bill[x].so # o)
    BY <1>1, <1>2 DEF SalesInv, IssuesAreSingle
  <2>2. \A p \in DOMAIN receipt : receipt[p].inv # i
    BY <2>1 DEF SalesInv, PaymentsAreApart
  <2> QED
    BY <2>1, <2>2, NoneReceived
<1>6. /\ bill'[i] = [status |-> "APPROVED", so |-> o]
      /\ \A x \in ArInvoices : x # i => bill'[x] = bill[x]
      /\ Issued(i)' /\ \A x \in ArInvoices : Issued(x) => Issued(x)'
  BY <1>2 DEF SalesInv, SalesType, Issued
<1>7. Waiting.pc = "idle"
  BY DEF Waiting
<1>8. IssuesAreSingle'
  <2>1. \A x \in ArInvoices : ~Issued(x)' => x # i /\ ~Issued(x)
    BY <1>6
  <2>2. ASSUME NEW q \in SalesRequests, sale'[q].pc = "issue"
        PROVE  /\ q # r /\ sale'[q] = sale[q] /\ sale[q].inv \in ArInvoices
               /\ sale[q].inv # i /\ (sale[q].so # Direct => sale[q].so # o)
    <3>1. q # r /\ sale'[q] = sale[q] /\ sale[q].inv \in ArInvoices
      BY <1>4, <1>7, <2>2, SaleKinds DEF MovedTo, SalesInv, Issuing
    <3> QED
      BY <1>1, <1>2, <2>2, <3>1 DEF SalesInv, IssuesAreSingle
  <2>3. \A x \in ArInvoices : ~Issued(x)' => bill'[x].so = Direct
    BY <1>6, <2>1 DEF SalesInv, IssuesAreSingle
  <2>4. ASSUME NEW q \in SalesRequests, sale'[q].pc = "issue"
        PROVE  /\ ~Issued(sale[q].inv)'
               /\ sale'[q].so # Direct => \A x \in ArInvoices : bill'[x].so # sale'[q].so
    <3>1. ~Issued(sale[q].inv) /\ (sale[q].so # Direct => \A x \in ArInvoices : bill[x].so # sale[q].so)
      BY <2>2, <2>4 DEF SalesInv, IssuesAreSingle
    <3>2. bill'[sale[q].inv] = bill[sale[q].inv]
      BY <1>6, <2>2, <2>4
    <3> QED
      BY <1>6, <2>2, <2>4, <3>1, <3>2 DEF Issued
  <2>5. \A q, u \in SalesRequests : sale'[q].pc = "issue" /\ sale'[u].pc = "issue" /\ u # q =>
          sale'[u].inv # sale'[q].inv /\ (sale'[q].so # Direct => sale'[u].so # sale'[q].so)
    BY <2>2 DEF SalesInv, IssuesAreSingle
  <2> QED
    BY <2>3, <2>4, <2>5 DEF IssuesAreSingle
<1>9. PaymentsAreApart'
  <2>1. \A p \in DOMAIN receipt : receipt[p].inv \in ArInvoices
    BY DEF SalesInv, SalesType, Payments
  <2>2. \A q \in SalesRequests : PayingNow(q)' =>
          PayingNow(q) /\ sale'[q] = sale[q] /\ sale[q].inv \in ArInvoices
    BY <1>4, <1>7, SaleKinds DEF MovedTo, PayingNow, SalesInv, Reading, Paid
  <2>3. \A p \in DOMAIN receipt' : Issued(receipt[p].inv)'
    BY <1>2, <1>6, <2>1 DEF SalesInv, PaymentsAreApart
  <2>4. ASSUME NEW q \in SalesRequests, PayingNow(q)' PROVE Issued(sale[q].inv)'
    BY <1>6, <2>2, <2>4 DEF SalesInv, PaymentsAreApart
  <2> QED
    BY <1>2, <1>3, <1>4, <1>7, <2>2, <2>3, <2>4 DEF SalesInv, PaymentsAreApart, MovedTo, PayingNow
<1>10. AloneIsExact'
  BY <1>2, <1>3, <1>4, <1>7 DEF SalesInv, AloneIsExact, PayingNow, Paying, MovedTo
<1>11. \A x \in SalesOrders : /\ order'[x] = IF x = o THEN "INVOICED" ELSE order[x]
                              /\ x # Direct
  BY <1>2, ReceivablesAssumption
<1>12. OrderBilledOnce'
  <2> SUFFICES ASSUME NEW x \in SalesOrders
               PROVE  /\ \A j, k \in ArInvoices : bill'[j].so = x /\ bill'[k].so = x => j = k
                      /\ order'[x] \in {"INVOICED", "FULFILLED"} <=>
                           \E j \in ArInvoices : bill'[j].so = x
    BY DEF OrderBilledOnce
  <2>1. /\ \A j, k \in ArInvoices : bill[j].so = x /\ bill[k].so = x => j = k
        /\ order[x] \in {"INVOICED", "FULFILLED"} <=> \E j \in ArInvoices : bill[j].so = x
    BY DEF SalesInv, BillingTellsTruth, OrderBilledOnce
  <2>2. CASE x = o
    <3>1. \A j \in ArInvoices : bill'[j].so = x => j = i
      BY <1>5, <1>6, <1>11, <2>2
    <3>2. bill'[i].so = x /\ order'[x] = "INVOICED"
      BY <1>6, <1>11, <2>2
    <3> QED
      BY <3>1, <3>2
  <2>3. CASE x # o
    <3>1. \A j \in ArInvoices : bill'[j].so = x <=> bill[j].so = x
      BY <1>5, <1>6, <1>11, <2>3
    <3>2. order'[x] = order[x]
      BY <1>11, <2>3
    <3> QED
      BY <2>1, <3>1, <3>2
  <2> QED
    BY <2>2, <2>3
<1>13. FulfilledIsPaid'
  <2> SUFFICES ASSUME NEW x \in SalesOrders, order'[x] = "FULFILLED"
               PROVE  \E j \in ArInvoices : bill'[j].so = x /\ ReceivedFor(j)' >= ArTotal
    BY DEF FulfilledIsPaid
  <2>1. order[x] = "FULFILLED" /\ x # o
    BY <1>11
  <2>2. PICK j \in ArInvoices : bill[j].so = x /\ ReceivedFor(j) >= ArTotal
    BY <2>1 DEF SalesInv, BillingTellsTruth, FulfilledIsPaid
  <2>3. j # i
    BY <1>5, <1>11, <2>2
  <2> QED
    BY <1>3, <1>6, <2>2, <2>3
<1>14. SerialPaymentsSettle'
  <2> SUFFICES ASSUME NEW j \in ArInvoices, Issued(j)', j \notin contested
               PROVE  /\ bill'[j].status = "APPROVED" <=> ReceivedFor(j)' = 0
                      /\ bill'[j].status = "PAID" <=> ReceivedFor(j)' >= ArTotal
                      /\ bill'[j].so # Direct =>
                           (order'[bill'[j].so] = "FULFILLED" <=> bill'[j].status = "PAID")
    BY <1>2 DEF SerialPaymentsSettle
  <2>1. CASE j = i
    <3>1. o # Direct => order'[o] = "INVOICED"
      BY <1>11 DEF Orders
    <3>2. ArTotal \in Nat \ {0} /\ ReceivedFor(j)' = 0
      BY <1>3, <1>5, <2>1, ReceivablesAssumption
    <3> QED
      BY <1>6, <2>1, <3>1, <3>2
  <2>2. CASE j # i
    <3>1. /\ bill'[j] = bill[j] /\ ReceivedFor(j)' = ReceivedFor(j) /\ Issued(j)
          /\ bill[j].so \in Orders
      BY <1>3, <1>6, <2>2 DEF Issued, SalesInv, SalesType
    <3>2. bill[j].so # Direct => bill[j].so \in SalesOrders /\ bill[j].so # o
      BY <1>5, <3>1 DEF Orders
    <3>3. /\ bill[j].status = "APPROVED" <=> ReceivedFor(j) = 0
          /\ bill[j].status = "PAID" <=> ReceivedFor(j) >= ArTotal
          /\ bill[j].so # Direct =>
               (order[bill[j].so] = "FULFILLED" <=> bill[j].status = "PAID")
      BY <3>1 DEF SalesInv, BillingTellsTruth, SerialPaymentsSettle
    <3> QED
      BY <1>11, <3>1, <3>2, <3>3
  <2> QED
    BY <2>1, <2>2
<1>15. AgedIsUnpaid'
  BY <1>3, <1>5, <1>6 DEF SalesInv, BillingTellsTruth, AgedIsUnpaid
<1>16. RevenueIsCommitted'
  BY <1>2, <1>6 DEF SalesInv, BillingTellsTruth, RevenueIsCommitted
<1> QED
  BY <1>4, <1>8, <1>9, <1>10, <1>12, <1>13, <1>14, <1>15, <1>16 DEF SalesInv, BillingTellsTruth

LEMMA CommitsPayment ==
  ASSUME SalesInv, NEW r \in SalesRequests, ReceivePaymentCommit(r)
  PROVE  SalesInv'
<1>1. PICK s \in Paid : s = sale[r]
  BY SaleKinds DEF SalesInv, ReceivePaymentCommit
<1>2. PICK i \in ArInvoices, o \in Orders, a \in Nat \ {0} :
        i = s.inv /\ o = bill[i].so /\ a = s.amt
  BY DEF Paid, SalesInv, SalesType
<1>3. /\ UNCHANGED <<revenue, contested>> /\ s.pc = "paid"
      /\ receipt' = [p \in DOMAIN receipt \cup {s.pay} |->
                       IF p = s.pay THEN [inv |-> i, amt |-> a] ELSE receipt[p]]
      /\ bill' = [bill EXCEPT ![i].status = s.status]
      /\ order' = [x \in SalesOrders |->
                     IF x = o /\ s.status = "PAID" THEN "FULFILLED" ELSE order[x]]
  BY <1>1, <1>2 DEF ReceivePaymentCommit
<1>4. /\ s.status \in {"PAID", "PARTIALLY_PAID"}
      /\ Issued(i) /\ s.pay \notin DOMAIN receipt
      /\ s.status = "PAID" => ReceivedFor(i) + a >= ArTotal
      /\ \A q \in SalesRequests : q # r /\ sale[q].pc = "paid" =>
           sale[q].inv # i /\ sale[q].pay # s.pay
  BY <1>1, <1>2, <1>3 DEF SalesInv, PaymentsAreApart, PayingNow, Paid
<1>5. i \notin contested =>
        /\ \A q \in Paying(i) : q = r
        /\ s.status # "PAID" => ReceivedFor(i) + a < ArTotal
  BY <1>1, <1>2, <1>3 DEF SalesInv, AloneIsExact, PayingNow
<1>6. \A x : /\ ReceivedFor(x)' = ReceivedFor(x) + IF x = i THEN a ELSE 0
             /\ ReceivedFor(x) \in Nat
  <2>1. PICK rec : rec = receipt
    OBVIOUS
  <2>2. PICK new : new = receipt'
    OBVIOUS
  <2>3. IsFiniteSet(DOMAIN rec) /\ \A p \in DOMAIN rec : rec[p].amt \in Nat
    BY <2>1 DEF SalesInv, SalesType, Payments
  <2>4. PICK x : x = s.pay
    OBVIOUS
  <2>5. /\ x \notin DOMAIN rec /\ DOMAIN new = DOMAIN rec \cup {x} /\ a \in Nat
        /\ new[x] = [inv |-> i, amt |-> a] /\ \A p \in DOMAIN rec : new[p] = rec[p]
    BY <1>3, <1>4, <2>1, <2>2, <2>4
  <2>6. \A d : Got(new, d) = Got(rec, d) + IF d = i THEN a ELSE 0
    BY <2>3, <2>5, NewPayment
  <2> QED
    BY <2>1, <2>2, <2>6, ReceivedIs, ReceivedType DEF SalesInv
<1>7. /\ bill'[i].status = s.status
      /\ \A x \in ArInvoices : bill'[x].so = bill[x].so /\ (x # i => bill'[x] = bill[x])
      /\ \A x \in ArInvoices : Issued(x) <=> Issued(x)'
      /\ bill' \in [ArInvoices -> [status : BillStates, so : Orders]]
  <2>1. bill[i] \in [status : BillStates, so : Orders] /\ s.status \in BillStates
    BY <1>4 DEF SalesInv, SalesType, BillStates
  <2>2. PICK row : row = [bill[i] EXCEPT !.status = s.status]
    OBVIOUS
  <2>3. /\ row \in [status : BillStates, so : Orders]
        /\ row.status = s.status /\ row.so = bill[i].so
    BY <2>1, <2>2
  <2>4. bill' = [bill EXCEPT ![i] = row]
    BY <1>3, <2>2
  <2> QED
    BY <1>4, <2>3, <2>4 DEF SalesInv, SalesType, Issued
<1>8. MovedTo(r, Waiting) /\ SalesType'
  <2>1. Waiting \in Sales /\ SalesType
    BY DEF Sales, SalesInv
  <2>2. MovedTo(r, Waiting) /\ sale' \in [SalesRequests -> Sales]
    BY <2>1, Moved DEF ReceivePaymentCommit
  <2>3. IsFiniteSet(DOMAIN receipt') /\ receipt' \in [DOMAIN receipt' -> Payments]
    BY <1>3, <2>1, FS_AddElement DEF SalesType, Payments
  <2>4. order' \in [SalesOrders -> OrderStates]
    BY <1>3, <2>1 DEF SalesType, OrderStates
  <2> QED
    BY <1>7, <2>2, <2>3, <2>4 DEF SalesType
<1>9. Waiting.pc = "idle"
  BY DEF Waiting
<1>10. \A x \in SalesOrders :
         /\ order'[x] = IF x = o /\ s.status = "PAID" THEN "FULFILLED" ELSE order[x]
         /\ x # Direct
  BY <1>3, ReceivablesAssumption
<1>11. IssuesAreSingle'
  <2>1. ASSUME NEW q \in SalesRequests, sale'[q].pc = "issue"
        PROVE  q # r /\ sale'[q] = sale[q] /\ sale[q].inv \in ArInvoices
    BY <1>8, <1>9, <2>1, SaleKinds DEF MovedTo, SalesInv, Issuing
  <2>2. \A x \in ArInvoices : ~Issued(x)' => bill'[x].so = Direct
    BY <1>7 DEF SalesInv, IssuesAreSingle
  <2>3. ASSUME NEW q \in SalesRequests, sale'[q].pc = "issue"
        PROVE  /\ ~Issued(sale[q].inv)'
               /\ sale'[q].so # Direct => \A x \in ArInvoices : bill'[x].so # sale'[q].so
    BY <1>7, <2>1, <2>3 DEF SalesInv, IssuesAreSingle
  <2>4. \A q, u \in SalesRequests : sale'[q].pc = "issue" /\ sale'[u].pc = "issue" /\ u # q =>
          sale'[u].inv # sale'[q].inv /\ (sale'[q].so # Direct => sale'[u].so # sale'[q].so)
    BY <2>1 DEF SalesInv, IssuesAreSingle
  <2> QED
    BY <2>1, <2>2, <2>3, <2>4 DEF IssuesAreSingle
<1>12. \A q \in SalesRequests : PayingNow(q)' =>
         /\ PayingNow(q) /\ q # r /\ sale'[q] = sale[q] /\ sale[q].inv \in ArInvoices
         /\ Issued(sale[q].inv)
         /\ sale[q].pc = "pay" => sale[q].prior \in Nat
         /\ sale[q].pc = "paid" => sale[q].amt \in Nat
  BY <1>8, <1>9, SaleKinds DEF MovedTo, PayingNow, SalesInv, Reading, Paid, PaymentsAreApart
<1>13. PaymentsAreApart'
  <2>1. ASSUME NEW p \in DOMAIN receipt' PROVE Issued(receipt'[p].inv)
    <3>1. CASE p = s.pay
      BY <1>3, <1>4, <3>1
    <3>2. CASE p # s.pay
      BY <1>3, <2>1, <3>2 DEF SalesInv, PaymentsAreApart
    <3> QED
      BY <3>1, <3>2
  <2>2. \A p \in DOMAIN receipt' : receipt'[p].inv \in ArInvoices
    BY <1>8 DEF SalesType, Payments
  <2>3. \A p \in DOMAIN receipt' : bill'[receipt'[p].inv].status # "NONE"
    BY <1>7, <2>1, <2>2 DEF Issued
  <2>4. ASSUME NEW q \in SalesRequests, PayingNow(q)'
        PROVE  /\ bill'[sale'[q].inv].status # "NONE"
               /\ sale'[q].pc = "pay" => sale'[q].prior <= ReceivedFor(sale[q].inv)'
               /\ sale'[q].pc = "paid" =>
                    /\ sale'[q].pay \notin DOMAIN receipt'
                    /\ sale'[q].status = "PAID" =>
                         ReceivedFor(sale[q].inv)' + sale'[q].amt >= ArTotal
                    /\ \A u \in SalesRequests : u # q /\ sale'[u].pc = "paid" =>
                         sale'[u].inv # sale'[q].inv /\ sale'[u].pay # sale'[q].pay
    <3>1. bill'[sale'[q].inv].status # "NONE"
      BY <1>7, <1>12, <2>4 DEF Issued
    <3>2. PICK got \in Nat, now \in Nat :
            got = ReceivedFor(sale[q].inv) /\ now = ReceivedFor(sale[q].inv)' /\ got <= now
      <4>1. PICK j : j = sale[q].inv
        OBVIOUS
      <4>2. PICK got \in Nat : got = ReceivedFor(j)
        BY <1>6
      <4>3. PICK now \in Nat : now = ReceivedFor(j)' /\ got <= now
        BY <1>6, <4>2
      <4> QED
        BY <1>12, <2>4, <4>1, <4>2, <4>3
    <3>3. /\ sale[q].pc = "pay" => sale[q].prior <= got
          /\ sale[q].pc = "paid" =>
               /\ sale[q].pay \notin DOMAIN receipt
               /\ sale[q].status = "PAID" => got + sale[q].amt >= ArTotal
               /\ \A u \in SalesRequests : u # q /\ sale[u].pc = "paid" =>
                    sale[u].inv # sale[q].inv /\ sale[u].pay # sale[q].pay
      BY <1>12, <2>4, <3>2 DEF SalesInv, PaymentsAreApart
    <3>4. sale[q].pc = "paid" => sale[q].pay \notin DOMAIN receipt'
      BY <1>3, <1>4, <1>12, <2>4, <3>3
    <3>5. \A u \in SalesRequests : sale'[u].pc = "paid" => sale'[u] = sale[u]
      BY <1>8, <1>9 DEF MovedTo
    <3>6. ArTotal \in Nat
      BY ReceivablesAssumption
    <3> QED
      BY <1>12, <2>4, <3>1, <3>2, <3>3, <3>4, <3>5, <3>6
  <2> QED
    BY <1>12, <2>3, <2>4 DEF PaymentsAreApart, Issued
<1>14. AloneIsExact'
  <2>1. ASSUME NEW q \in SalesRequests, PayingNow(q)', sale[q].inv \notin contested
        PROVE  /\ sale[q].inv # i
               /\ \A u \in Paying(sale[q].inv)' : u = q
               /\ sale[q].pc = "pay" => sale[q].prior = ReceivedFor(sale[q].inv)
               /\ sale[q].pc = "paid" /\ sale[q].status # "PAID" =>
                    ReceivedFor(sale[q].inv) + sale[q].amt < ArTotal
    <3>1. sale[q].inv # i
      BY <1>5, <1>12, <2>1 DEF Paying, PayingNow
    <3>2. \A u \in Paying(sale[q].inv)' : u \in Paying(sale[q].inv)
      BY <1>8, <1>9, <1>12, <2>1 DEF Paying, MovedTo
    <3> QED
      BY <1>12, <2>1, <3>1, <3>2 DEF SalesInv, AloneIsExact
  <2>2. ASSUME NEW q \in SalesRequests, PayingNow(q)', sale[q].inv \notin contested
        PROVE  ReceivedFor(sale[q].inv)' = ReceivedFor(sale[q].inv)
    <3>1. PICK j : j = sale[q].inv /\ j # i
      BY <2>1, <2>2
    <3>2. ReceivedFor(j)' = ReceivedFor(j)
      BY <1>6, <3>1
    <3> QED
      BY <1>12, <2>2, <3>1, <3>2
  <2> QED
    BY <1>3, <1>12, <2>1, <2>2 DEF AloneIsExact, Paying
<1>15. OrderBilledOnce'
  <2> SUFFICES ASSUME NEW x \in SalesOrders
               PROVE  /\ \A j, k \in ArInvoices : bill'[j].so = x /\ bill'[k].so = x => j = k
                      /\ order'[x] \in {"INVOICED", "FULFILLED"} <=>
                           \E j \in ArInvoices : bill'[j].so = x
    BY DEF OrderBilledOnce
  <2>1. /\ \A j, k \in ArInvoices : bill[j].so = x /\ bill[k].so = x => j = k
        /\ order[x] \in {"INVOICED", "FULFILLED"} <=> \E j \in ArInvoices : bill[j].so = x
    BY DEF SalesInv, BillingTellsTruth, OrderBilledOnce
  <2> QED
    BY <1>2, <1>7, <1>10, <2>1
<1>16. FulfilledIsPaid'
  <2> SUFFICES ASSUME NEW x \in SalesOrders, order'[x] = "FULFILLED"
               PROVE  \E j \in ArInvoices : bill'[j].so = x /\ ReceivedFor(j)' >= ArTotal
    BY DEF FulfilledIsPaid
  <2>1. CASE x = o /\ s.status = "PAID"
    BY <1>2, <1>4, <1>6, <1>7, <2>1
  <2>2. CASE ~(x = o /\ s.status = "PAID")
    <3>1. PICK j \in ArInvoices : bill[j].so = x /\ ReceivedFor(j) >= ArTotal
      BY <1>10, <2>2 DEF SalesInv, BillingTellsTruth, FulfilledIsPaid
    <3>2. PICK got \in Nat, now \in Nat :
            got = ReceivedFor(j) /\ now = ReceivedFor(j)' /\ got <= now
      BY <1>6
    <3>3. ArTotal \in Nat
      BY ReceivablesAssumption
    <3> QED
      BY <1>7, <3>1, <3>2, <3>3
  <2> QED
    BY <2>1, <2>2
<1>17. SerialPaymentsSettle'
  <2> SUFFICES ASSUME NEW j \in ArInvoices, Issued(j)', j \notin contested
               PROVE  /\ bill'[j].status = "APPROVED" <=> ReceivedFor(j)' = 0
                      /\ bill'[j].status = "PAID" <=> ReceivedFor(j)' >= ArTotal
                      /\ bill'[j].so # Direct =>
                           (order'[bill'[j].so] = "FULFILLED" <=> bill'[j].status = "PAID")
    BY <1>3 DEF SerialPaymentsSettle
  <2>1. /\ bill[j].status = "APPROVED" <=> ReceivedFor(j) = 0
        /\ bill[j].status = "PAID" <=> ReceivedFor(j) >= ArTotal
        /\ bill[j].so # Direct =>
             (order[bill[j].so] = "FULFILLED" <=> bill[j].status = "PAID")
    BY <1>7 DEF SalesInv, BillingTellsTruth, SerialPaymentsSettle
  <2>2. bill[j].so # Direct => bill[j].so \in SalesOrders
    BY DEF SalesInv, SalesType, Orders
  <2>3. CASE j = i
    <3>1. PICK got \in Nat, now \in Nat :
            got = ReceivedFor(i) /\ now = ReceivedFor(i)' /\ now = got + a
      BY <1>6
    <3>2. ArTotal \in Nat
      BY ReceivablesAssumption
    <3>3. s.status = "PAID" <=> now >= ArTotal
      BY <1>4, <1>5, <2>3, <3>1, <3>2
    <3>4. s.status = "PARTIALLY_PAID" => bill[i].status # "PAID"
      BY <1>5, <2>1, <2>3, <3>1, <3>2
    <3>5. now # 0
      BY <3>1
    <3> QED
      BY <1>2, <1>4, <1>7, <1>10, <2>1, <2>2, <2>3, <3>1, <3>3, <3>4, <3>5
  <2>4. CASE j # i
    <3>1. bill'[j] = bill[j] /\ ReceivedFor(j)' = ReceivedFor(j)
      BY <1>6, <1>7, <2>4
    <3>2. bill[j].so # Direct => bill[j].so # o
      BY <1>2, <2>2, <2>4 DEF SalesInv, BillingTellsTruth, OrderBilledOnce
    <3> QED
      BY <1>10, <2>1, <2>2, <3>1, <3>2
  <2> QED
    BY <2>3, <2>4
<1>18. AgedIsUnpaid'
  <2> SUFFICES ASSUME NEW j \in ArInvoices, bill'[j].status = "APPROVED"
               PROVE  ReceivedFor(j)' = 0
    BY DEF AgedIsUnpaid
  <2>1. j # i
    BY <1>4, <1>7
  <2> QED
    BY <1>6, <1>7, <2>1 DEF SalesInv, BillingTellsTruth, AgedIsUnpaid
<1>19. RevenueIsCommitted'
  <2>1. \A x \in DOMAIN receipt : x \in DOMAIN receipt'
    BY <1>3
  <2> QED
    BY <1>3, <1>7, <2>1 DEF SalesInv, BillingTellsTruth, RevenueIsCommitted
<1> QED
  BY <1>8, <1>11, <1>13, <1>14, <1>15, <1>16, <1>17, <1>18, <1>19 DEF SalesInv, BillingTellsTruth

LEMMA PostsSource ==
  ASSUME SalesInv, NEW src \in heard, PostReceivable(src)
  PROVE  SalesInv'
<1>1. UNCHANGED <<order, bill, receipt, sale, contested>>
  BY DEF PostReceivable
<1>2. BillingTellsTruth' /\ \A x : ReceivedFor(x)' = ReceivedFor(x)
  <2>1. revenue' \subseteq revenue \cup DOMAIN receipt \cup {i \in ArInvoices : Issued(i)}
    BY DEF PostReceivable, Found
  <2> QED
    BY <1>1, <2>1, SameBooks
<1>3. SalesType' /\ IssuesAreSingle'
  BY <1>1 DEF SalesInv, SalesType, IssuesAreSingle, Issued
<1>4. PaymentsAreApart' /\ AloneIsExact'
  BY <1>1, <1>2 DEF SalesInv, PaymentsAreApart, AloneIsExact, PayingNow, Paying, Issued
<1> QED
  BY <1>2, <1>3, <1>4 DEF SalesInv

LEMMA SalesInvNext == SalesInv /\ [ReceivablesNext]_receivablesVars => SalesInv'
<1> SUFFICES ASSUME SalesInv, [ReceivablesNext]_receivablesVars PROVE SalesInv'
  OBVIOUS
<1>1. ASSUME NEW r \in SalesRequests, NEW i \in ArInvoices, CreateInvoice(r, i)
      PROVE  SalesInv'
  BY <1>1, NewIssue DEF CreateInvoice, Orders
<1>2. ASSUME NEW r \in SalesRequests, NEW i \in ArInvoices, InvoiceOrder(r, i)
      PROVE  SalesInv'
  <2>1. sale[r].so \in Orders
    BY <1>2, SaleKinds DEF SalesInv, InvoiceOrder, Ordering, Orders
  <2> QED
    BY <1>2, <2>1, NewIssue DEF InvoiceOrder
<1>3. ASSUME NEW r \in SalesRequests, NEW o \in SalesOrders, InvoiceOrderRead(r, o)
      PROVE  SalesInv'
  <2>1. [pc |-> "order", so |-> o] \in Ordering
    BY DEF Ordering
  <2> QED
    BY <1>3, <2>1, QuietMove DEF InvoiceOrderRead
<1>4. ASSUME NEW r \in SalesRequests, InvoiceOrderFails(r) \/ SaleAborts(r)
      PROVE  SalesInv'
  BY <1>4, QuietMove DEF InvoiceOrderFails, SaleAborts
<1>5. CASE UNCHANGED receivablesVars
  <2>1. UNCHANGED <<order, bill, receipt, sale, revenue, contested>>
    BY <1>5 DEF receivablesVars
  <2>2. BillingTellsTruth' /\ \A x : ReceivedFor(x)' = ReceivedFor(x)
    BY <2>1, SameBooks
  <2>3. SalesType' /\ IssuesAreSingle'
    BY <2>1 DEF SalesInv, SalesType, IssuesAreSingle, Issued
  <2>4. PaymentsAreApart' /\ AloneIsExact'
    BY <2>1, <2>2 DEF SalesInv, PaymentsAreApart, AloneIsExact, PayingNow, Paying, Issued
  <2> QED
    BY <2>2, <2>3, <2>4 DEF SalesInv
<1> QED
  BY <1>1, <1>2, <1>3, <1>4, <1>5, NewOrder, IssuesBill, ReadsPayments, WritesPayment,
     CommitsPayment, PostsSource DEF ReceivablesNext

\* An order is billed once and fulfilled only by what was received for its
\* invoice; the statuses say what was received unless two payments overlapped,
\* and what the aging report lists is unpaid; the ledger only knows what was
\* committed: for any number of orders, invoices, requests and aborts.
THEOREM BillingAlwaysTellsTruth == ReceivablesSpec => []BillingTellsTruth
<1>1. SalesInv => BillingTellsTruth
  BY DEF SalesInv
<1> QED
  BY <1>1, SalesInitHolds, SalesInvNext, PTL DEF ReceivablesSpec

-----------------------------------------------------------------------------
(***************************************************************************)
(* Inventory.  Two transactions under way are apart: they hold different   *)
(* levels, or different products.  So what one has read is still true      *)
(* where it writes, and the sums of levels and layers, taken with what the *)
(* transactions have in hand, move together.                               *)
(***************************************************************************)

\* Functions of a part of D.
PartOf(D, R) == UNION {[E -> R] : E \in SUBSET D}

Entry == [product : Products, quantity : Nat \ {0}]
Tx == [pc : {"idle", "line", "product", "write", "drain", "commit", "done"},
       kind : {"RECEIPT", "IN", "OUT"}, lines : Seq(Entry), saw : Int \cup {None},
       locks : SUBSET ({"product", "level"} \X Products),
       done : [Products -> Int], short : Nat,
       level : PartOf(Products, Int), layer : PartOf(Nat, CostLayer)]

StockType ==
  /\ level \in PartOf(Products, Int)
  /\ moved \in [Products -> Int]
  /\ issued \in [Products -> Nat] /\ unmatched \in [Products -> Nat]
  /\ clock \in Nat
  /\ layer \in PartOf(Nat, CostLayer) /\ DOMAIN layer \subseteq 1 .. clock
  /\ manual \subseteq Products
  /\ tx \in [Requests -> Tx]
  /\ \A r \in Requests : DOMAIN tx[r].layer \subseteq 1 .. clock

\* The product a transaction is at.
Of(t) == Head(t.lines).product

\* A movement has touched its product only, and has its level locked once it
\* has written it.
OwnMovement(t) ==
  /\ t.pc \in {"write", "drain", "commit"} /\ Tail(t.lines) = <<>>
  /\ t.locks \subseteq {<<"level", Of(t)>>}
  /\ DOMAIN t.level \subseteq {Of(t)}
  /\ \A p \in Products : p # Of(t) => t.done[p] = 0
  /\ t.pc # "write" => <<"level", Of(t)>> \in t.locks
  /\ t.kind = "IN" => t.pc # "drain"
  /\ t.kind = "IN" \/ t.pc # "commit" => DOMAIN t.layer = {} /\ t.short = 0

\* A receipt has locked the product and the level of what it has written, and
\* the level of the layers it has created, but for that of its present line.
OwnReceipt(t) ==
  /\ t.pc # "drain"
  /\ \A p \in DOMAIN t.level : {<<"product", p>>, <<"level", p>>} \subseteq t.locks
  /\ \A p \in Products : p \notin DOMAIN t.level => t.done[p] = 0
  /\ \A n \in DOMAIN t.layer :
       /\ t.layer[n].remaining = t.layer[n].quantity
       /\ \/ <<"level", t.layer[n].product>> \in t.locks
          \/ t.pc \in {"product", "write"} /\ t.layer[n].product = Of(t)
  /\ t.pc = "write" => <<"product", Of(t)>> \in t.locks

Own(t) ==
  /\ t.pc \in {"idle", "done"} =>
       t.kind = "RECEIPT" /\ t.locks = {} /\ DOMAIN t.level = {} /\ DOMAIN t.layer = {}
  /\ t.pc \notin {"idle", "done"} => t.lines # <<>>
  /\ t.kind = "RECEIPT" => OwnReceipt(t)
  /\ t.kind # "RECEIPT" => OwnMovement(t)

OfProduct(lay, p) == {n \in DOMAIN lay : lay[n].product = p}
Rests(lay) == [n \in DOMAIN lay |-> lay[n].remaining]
LayerSizes(lay) == [n \in DOMAIN lay |-> lay[n].quantity]
RestOf(lay, p) == SumOf(Rests(lay), OfProduct(lay, p))
SizeOfAll(lay, p) == SumOf(LayerSizes(lay), OfProduct(lay, p))
StockIn(lev, p) == IF p \in DOMAIN lev THEN lev[p] ELSE 0
SeenIn(own, lev, p) ==
  IF p \in DOMAIN own THEN own[p] ELSE IF p \in DOMAIN lev THEN lev[p] ELSE None

\* The levels a receipt has written and read are those of the warehouse and
\* what it has moved itself, unless a movement has come between; its layers
\* are new.
ReceiptFits(t, lev, lay, man) ==
  /\ \A p \in DOMAIN t.level \ man : t.level[p] = StockIn(lev, p) + t.done[p]
  /\ t.pc = "write" /\ Of(t) \notin man => t.saw = SeenIn(t.level, lev, Of(t))
  /\ DOMAIN t.layer \cap DOMAIN lay = {}

\* What a movement has drained is still all the product's layers, less what it
\* found in them.
IssueFits(t, lay) ==
  /\ DOMAIN t.layer = OfProduct(lay, Of(t))
  /\ \A n \in DOMAIN t.layer :
       t.layer[n].product = Of(t) /\ t.layer[n].quantity = lay[n].quantity
  /\ RestOf(t.layer, Of(t)) + (Head(t.lines).quantity - t.short) = RestOf(lay, Of(t))

Fits(t, lev, lay, man) ==
  /\ t.kind = "RECEIPT" => ReceiptFits(t, lev, lay, man)
  /\ t.kind = "OUT" /\ t.pc = "commit" => IssueFits(t, lay)

Apart(t, u) ==
  /\ t.locks \cap u.locks = {}
  /\ t.kind = "RECEIPT" /\ u.kind = "RECEIPT" => DOMAIN t.layer \cap DOMAIN u.layer = {}

LayersTell(lay, iss, unm) ==
  \A p \in Products : RestOf(lay, p) + iss[p] - unm[p] = SizeOfAll(lay, p)

Shared == \A r \in Requests : Fits(tx[r], level, layer, manual)
AllApart == \A r, q \in Requests : r # q => Apart(tx[r], tx[q])

StockInv ==
  /\ StockType
  /\ \A r \in Requests : Own(tx[r])
  /\ Shared
  /\ AllApart
  /\ ReceivedStockIsExact
  /\ LayersTell(layer, issued, unmatched)

-----------------------------------------------------------------------------
LEMMA RecordSum ==
  ASSUME NEW rec, NEW S
  PROVE  MapThenSumSet(LAMBDA n : rec[n].remaining, S) = SumOf([n \in S |-> rec[n].remaining], S)
<1> DEFINE Q(g) == g = [T \in SUBSET S |->
                          IF T = {} THEN 0 ELSE rec[AnyOf(T)].remaining + g[T \ {AnyOf(T)}]]
<1>1. MapThenSumSet(LAMBDA n : rec[n].remaining, S) = (CHOOSE g : Q(g))[S]
  BY DEF MapThenSumSet, MapThenFoldSet, AnyOf
<1>2. \A g : Q(g) <=> SumIter([n \in S |-> rec[n].remaining], S, g)
  BY DEF AnyOf, SumIter
<1> HIDE DEF Q
<1>3. (CHOOSE g : Q(g)) = (CHOOSE g : SumIter([n \in S |-> rec[n].remaining], S, g))
  BY <1>2
<1> QED
  BY <1>1, <1>3, SumUnfold

LEMMA RecordSize ==
  ASSUME NEW rec, NEW S
  PROVE  MapThenSumSet(LAMBDA n : rec[n].quantity, S) = SumOf([n \in S |-> rec[n].quantity], S)
<1> DEFINE Q(g) == g = [T \in SUBSET S |->
                          IF T = {} THEN 0 ELSE rec[AnyOf(T)].quantity + g[T \ {AnyOf(T)}]]
<1>1. MapThenSumSet(LAMBDA n : rec[n].quantity, S) = (CHOOSE g : Q(g))[S]
  BY DEF MapThenSumSet, MapThenFoldSet, AnyOf
<1>2. \A g : Q(g) <=> SumIter([n \in S |-> rec[n].quantity], S, g)
  BY DEF AnyOf, SumIter
<1> HIDE DEF Q
<1>3. (CHOOSE g : Q(g)) = (CHOOSE g : SumIter([n \in S |-> rec[n].quantity], S, g))
  BY <1>2
<1> QED
  BY <1>1, <1>3, SumUnfold

LEMMA RemainingIs ==
  ASSUME NEW S \in SUBSET DOMAIN layer, IsFiniteSet(S)
  PROVE  Remaining(S) = SumOf(Rests(layer), S)
<1>1. PICK rec : rec = layer
  OBVIOUS
<1>2. PICK f : f = [n \in S |-> rec[n].remaining]
  OBVIOUS
<1>3. Remaining(S) = SumOf(f, S)
  BY <1>1, <1>2, RecordSum DEF Remaining
<1>4. PICK g : g = Rests(layer)
  OBVIOUS
<1>5. \A x \in S : f[x] = g[x]
  BY <1>1, <1>2, <1>4 DEF Rests
<1> QED
  BY <1>3, <1>4, <1>5, SumSame

LEMMA TellIs ==
  ASSUME IsFiniteSet(DOMAIN layer), LayersTell(layer, issued, unmatched)
  PROVE  LayersAreExact
<1> SUFFICES ASSUME NEW p \in Products
             PROVE  Remaining(LayersOf(p)) + issued[p] - unmatched[p] =
                      MapThenSumSet(LAMBDA n : layer[n].quantity, LayersOf(p))
  BY DEF LayersAreExact
<1>1. PICK S : S = LayersOf(p)
  OBVIOUS
<1>2. S \in SUBSET DOMAIN layer /\ IsFiniteSet(S) /\ S = OfProduct(layer, p)
  BY <1>1, FS_Subset DEF LayersOf, OfProduct
<1>3. Remaining(S) = SumOf(Rests(layer), S)
  BY <1>2, RemainingIs
<1>4. PICK rec : rec = layer
  OBVIOUS
<1>5. \A U : MapThenSumSet(LAMBDA n : layer[n].quantity, U) = MapThenSumSet(LAMBDA n : rec[n].quantity, U)
  BY <1>4
<1>6. MapThenSumSet(LAMBDA n : rec[n].quantity, S) = SumOf(LayerSizes(rec), S)
  <2>1. PICK f : f = [n \in S |-> rec[n].quantity]
    OBVIOUS
  <2>2. MapThenSumSet(LAMBDA n : rec[n].quantity, S) = SumOf(f, S)
    BY <2>1, RecordSize
  <2>3. PICK g : g = LayerSizes(rec)
    OBVIOUS
  <2>4. \A x \in S : f[x] = g[x]
    BY <1>2, <1>4, <2>1, <2>3 DEF LayerSizes
  <2> QED
    BY <1>2, <2>2, <2>3, <2>4, SumSame
<1>7. RestOf(layer, p) + issued[p] - unmatched[p] = SizeOfAll(layer, p)
  BY DEF LayersTell
<1> QED
  BY <1>1, <1>2, <1>3, <1>4, <1>5, <1>6, <1>7 DEF RestOf, SizeOfAll

-----------------------------------------------------------------------------
\* What a need of q takes of each layer in turn.
Takes(f, h, S, q) ==
  \A n \in S : /\ f[n] \in Nat
               /\ h[n] = f[n] - Take(f[n], q - SumOf(f, {m \in S : m < n}))

LEMMA TakeTwice ==
  ASSUME NEW total \in Nat, NEW rem \in Nat, NEW q \in Nat
  PROVE  /\ Take(total, q) + Take(rem, q - total) = Take(total + rem, q)
         /\ Take(total, q) \in Nat /\ Take(total, q) <= q /\ Take(total, q) <= total
BY DEF Take

LEMMA TakeSome ==
  ASSUME NEW rem \in Nat, NEW need \in Int
  PROVE  Take(rem, need) \in Nat /\ rem - Take(rem, need) \in Nat
BY DEF Take

\* Taken of the layers one after the other, it is taken of all of them.
LEMMA FifoTakes ==
  ASSUME NEW c \in Nat, NEW S \in SUBSET (1 .. c), NEW q \in Nat,
         NEW f, NEW h, Takes(f, h, S, q)
  PROVE  /\ SumOf(f, S) \in Nat
         /\ SumOf(h, S) = SumOf(f, S) - Take(SumOf(f, S), q)
<1> DEFINE Initial(T) == \A n \in T, m \in S : m < n => m \in T
<1>1. IsFiniteSet(S) /\ S \subseteq Nat
  <2>1. PICK R : R = 1 .. c
    OBVIOUS
  <2>2. IsFiniteSet(R) /\ S \in SUBSET R
    BY <2>1, FS_Interval
  <2>3. IsFiniteSet(S)
    BY <2>2, FS_Subset
  <2> QED
    BY <2>3
<1>2. \A n \in S : f[n] \in Nat
  BY DEF Takes
<1>3. PICK C \in SUBSET (SUBSET S) :
        C = {T \in SUBSET S : Initial(T) => SumOf(h, T) = SumOf(f, T) - Take(SumOf(f, T), q)}
  OBVIOUS
<1>4. ASSUME NEW X \in SUBSET S, \A Y \in SUBSET X : Y # X => Y \in C PROVE X \in C
  <2>1. CASE X = {}
    <3>1. SumOf(h, X) = 0 /\ SumOf(f, X) = 0
      BY <2>1, SumEmpty
    <3> QED
      BY <1>3, <3>1 DEF Take
  <2>2. CASE X # {} /\ Initial(X)
    <3>1. PICK y \in X : \A x \in X : x <= y
      <4>1. X \in SUBSET (1 .. c)
        OBVIOUS
      <4> QED
        BY <2>2, <4>1, LastOfSet
    <3>2. PICK T \in SUBSET S : T = X \ {y}
      OBVIOUS
    <3>3. IsFiniteSet(T) /\ y \notin T /\ T \cup {y} = X
      BY <1>1, <3>1, <3>2, FS_Subset
    <3>4. T = {m \in S : m < y}
      <4>1. ASSUME NEW m \in T PROVE m < y
        BY <1>1, <3>1, <3>2, <4>1
      <4>2. ASSUME NEW m \in S, m < y PROVE m \in T
        BY <1>1, <2>2, <3>1, <3>2, <4>2
      <4> QED
        BY <4>1, <4>2
    <3>5. Initial(T)
      BY <1>1, <3>4
    <3>6. SumOf(h, T) = SumOf(f, T) - Take(SumOf(f, T), q)
      BY <1>3, <1>4, <3>2, <3>3, <3>5
    <3>7. SumOf(f, T) \in Nat
      BY <1>2, <3>3, SumType
    <3>8. \A n \in S : h[n] \in Int
      <4> SUFFICES ASSUME NEW n \in S PROVE h[n] \in Int
        OBVIOUS
      <4>1. PICK B : B = {m \in S : m < n}
        OBVIOUS
      <4>2. IsFiniteSet(B) /\ \A m \in B : f[m] \in Nat
        BY <1>1, <1>2, <4>1, FS_Subset
      <4>3. SumOf(f, B) \in Nat
        BY <4>2, SumType
      <4>4. PICK s \in Nat, u \in Nat : s = SumOf(f, B) /\ u = f[n]
        BY <1>2, <4>3
      <4>5. h[n] = u - Take(u, q - s)
        BY <4>1, <4>4 DEF Takes
      <4>6. q - s \in Int
        OBVIOUS
      <4> QED
        BY <4>5, <4>6, TakeSome
    <3>9. SumOf(f, T \cup {y}) = f[y] + SumOf(f, T)
      <4>1. \A x \in T \cup {y} : f[x] \in Int
        BY <1>2, <3>1
      <4> QED
        BY <3>3, <4>1, SumMore
    <3>10. SumOf(h, T \cup {y}) = h[y] + SumOf(h, T)
      <4>1. \A x \in T \cup {y} : h[x] \in Int
        BY <3>1, <3>8
      <4> QED
        BY <3>3, <4>1, SumMore
    <3>11. PICK total \in Nat, rem \in Nat : total = SumOf(f, T) /\ rem = f[y]
      BY <1>2, <3>1, <3>7
    <3>12. h[y] = rem - Take(rem, q - total)
      BY <3>1, <3>4, <3>11 DEF Takes
    <3>13. SumOf(f, X) = rem + total
      BY <3>3, <3>9, <3>11
    <3>14. SumOf(h, X) = rem - Take(rem, q - total) + (total - Take(total, q))
      BY <3>3, <3>6, <3>10, <3>11, <3>12
    <3>15. PICK v \in Nat, w \in Nat : v = Take(total, q) /\ w = Take(rem, q - total)
      <4>1. Take(total, q) \in Nat
        BY TakeTwice
      <4>2. PICK need \in Int : need = q - total
        OBVIOUS
      <4>3. Take(rem, need) \in Nat
        BY TakeSome
      <4> QED
        BY <4>1, <4>2, <4>3
    <3>16. v + w = Take(total + rem, q)
      BY <3>15, TakeTwice
    <3>17. SumOf(h, X) = SumOf(f, X) - Take(SumOf(f, X), q)
      BY <3>13, <3>14, <3>15, <3>16
    <3> QED
      BY <1>3, <3>17
  <2>3. CASE ~Initial(X)
    BY <1>3, <2>3
  <2> QED
    BY <2>1, <2>2, <2>3
<1>5. C = SUBSET S
  BY <1>1, <1>4, SubsetInduction
<1>6. SumOf(h, S) = SumOf(f, S) - Take(SumOf(f, S), q)
  BY <1>3, <1>5
<1> QED
  BY <1>1, <1>2, <1>6, SumType

-----------------------------------------------------------------------------
LEMMA PartIs ==
  ASSUME NEW D, NEW R, NEW f
  PROVE  f \in PartOf(D, R) <=>
           f = [x \in DOMAIN f |-> f[x]] /\ DOMAIN f \subseteq D /\ \A x \in DOMAIN f : f[x] \in R
BY DEF PartOf

LEMMA OverIs ==
  ASSUME NEW f, NEW g
  PROVE  /\ DOMAIN Over(f, g) = DOMAIN f \cup DOMAIN g
         /\ \A x \in DOMAIN f : Over(f, g)[x] = f[x]
         /\ \A x \in DOMAIN g : x \notin DOMAIN f => Over(f, g)[x] = g[x]
         /\ Over(f, g) = [x \in DOMAIN f \cup DOMAIN g |-> Over(f, g)[x]]
BY DEF Over

LEMMA OverPart ==
  ASSUME NEW D, NEW R, NEW f \in PartOf(D, R), NEW g \in PartOf(D, R)
  PROVE  Over(f, g) \in PartOf(D, R)
<1>1. PICK h : h = Over(f, g)
  OBVIOUS
<1>2. /\ DOMAIN h = DOMAIN f \cup DOMAIN g
      /\ h = [x \in DOMAIN h |-> h[x]]
      /\ \A x \in DOMAIN f : h[x] = f[x]
      /\ \A x \in DOMAIN g : x \notin DOMAIN f => h[x] = g[x]
  BY <1>1 DEF Over
<1>3. DOMAIN f \subseteq D /\ \A x \in DOMAIN f : f[x] \in R
  BY PartIs
<1>4. DOMAIN g \subseteq D /\ \A x \in DOMAIN g : g[x] \in R
  BY PartIs
<1>5. h = [x \in DOMAIN h |-> h[x]] /\ DOMAIN h \subseteq D
  BY <1>2, <1>3, <1>4
<1>6. \A x \in DOMAIN h : h[x] \in R
  BY <1>2, <1>3, <1>4
<1> QED
  BY <1>1, <1>5, <1>6, PartIs

LEMMA OnePart ==
  ASSUME NEW D, NEW R, NEW d \in D, NEW e \in R
  PROVE  [x \in {d} |-> e] \in PartOf(D, R)
<1>1. [x \in {d} |-> e] \in [{d} -> R] /\ {d} \in SUBSET D
  OBVIOUS
<1> QED
  BY <1>1 DEF PartOf

LEMMA EmptyPart == ASSUME NEW D, NEW R PROVE Empty \in PartOf(D, R) /\ DOMAIN Empty = {}
BY DEF PartOf, Empty

-----------------------------------------------------------------------------
LEMMA LayerSums ==
  ASSUME NEW lay \in PartOf(Nat, CostLayer), IsFiniteSet(DOMAIN lay), NEW p
  PROVE  /\ RestOf(lay, p) \in Nat /\ SizeOfAll(lay, p) \in Nat
         /\ IsFiniteSet(OfProduct(lay, p))
<1>1. \A n \in DOMAIN lay : lay[n] \in CostLayer
  BY PartIs
<1>2. PICK S \in SUBSET DOMAIN lay : S = OfProduct(lay, p)
  BY DEF OfProduct
<1>3. IsFiniteSet(S)
  BY FS_Subset
<1>4. PICK f, g : f = Rests(lay) /\ g = LayerSizes(lay)
  OBVIOUS
<1>5. \A n \in S : f[n] \in Nat /\ g[n] \in Nat
  BY <1>1, <1>4 DEF Rests, LayerSizes, CostLayer
<1>6. SumOf(f, S) \in Nat /\ SumOf(g, S) \in Nat
  BY <1>3, <1>5, SumType
<1> QED
  BY <1>2, <1>3, <1>4, <1>6 DEF RestOf, SizeOfAll

\* Layers of which nothing is taken add the same to what is left and to what
\* was received.
LEMMA NewLayers ==
  ASSUME NEW lay \in PartOf(Nat, CostLayer), IsFiniteSet(DOMAIN lay),
         NEW own \in PartOf(Nat, CostLayer), IsFiniteSet(DOMAIN own),
         DOMAIN own \cap DOMAIN lay = {},
         \A n \in DOMAIN own : own[n].remaining = own[n].quantity,
         NEW lay2, lay2 = Over(own, lay), NEW p
  PROVE  \E x \in Nat : /\ RestOf(lay2, p) = RestOf(lay, p) + x
                        /\ SizeOfAll(lay2, p) = SizeOfAll(lay, p) + x
<1>1. /\ DOMAIN lay2 = DOMAIN own \cup DOMAIN lay
      /\ \A n \in DOMAIN own : lay2[n] = own[n]
      /\ \A n \in DOMAIN lay : lay2[n] = lay[n]
  BY DEF Over
<1>2. PICK A \in SUBSET DOMAIN own : A = OfProduct(own, p)
  BY DEF OfProduct
<1>3. PICK B \in SUBSET DOMAIN lay : B = OfProduct(lay, p)
  BY DEF OfProduct
<1>4. OfProduct(lay2, p) = A \cup B
  BY <1>1, <1>2, <1>3 DEF OfProduct
<1>5. IsFiniteSet(A) /\ IsFiniteSet(B) /\ A \cap B = {}
  BY FS_Subset
<1>6. /\ \A n \in DOMAIN own : own[n] \in CostLayer
      /\ \A n \in DOMAIN lay : lay[n] \in CostLayer
  BY PartIs
<1>7. PICK f, g, h, k : /\ f = Rests(lay2) /\ g = LayerSizes(lay2)
                        /\ h = Rests(lay) /\ k = LayerSizes(lay)
  OBVIOUS
<1>8. \A n \in A \cup B : f[n] \in Nat /\ g[n] \in Nat
  BY <1>1, <1>6, <1>7 DEF Rests, LayerSizes, CostLayer
<1>9. \A n \in A : f[n] = g[n]
  BY <1>1, <1>7 DEF Rests, LayerSizes
<1>10. \A n \in B : f[n] = h[n] /\ g[n] = k[n]
  BY <1>1, <1>7 DEF Rests, LayerSizes
<1>11. SumOf(f, A \cup B) = SumOf(f, A) + SumOf(f, B)
  BY <1>5, <1>8, SumUnion
<1>12. SumOf(g, A \cup B) = SumOf(g, A) + SumOf(g, B)
  BY <1>5, <1>8, SumUnion
<1>13. SumOf(f, A) = SumOf(g, A) /\ SumOf(f, B) = SumOf(h, B) /\ SumOf(g, B) = SumOf(k, B)
  BY <1>5, <1>9, <1>10, SumSame
<1>14. SumOf(f, A) \in Nat /\ SumOf(f, B) \in Nat /\ SumOf(g, B) \in Nat
  BY <1>5, <1>8, SumType
<1>15. PICK x \in Nat : x = SumOf(f, A)
  BY <1>14
<1>16. /\ RestOf(lay2, p) = SumOf(f, A \cup B) /\ SizeOfAll(lay2, p) = SumOf(g, A \cup B)
       /\ RestOf(lay, p) = SumOf(h, B) /\ SizeOfAll(lay, p) = SumOf(k, B)
  BY <1>3, <1>4, <1>7 DEF RestOf, SizeOfAll
<1> QED
  BY <1>11, <1>12, <1>13, <1>14, <1>15, <1>16

\* Writing back the layers of one product leaves the others, and what was received.
LEMMA DrainedLayers ==
  ASSUME NEW lay \in PartOf(Nat, CostLayer), IsFiniteSet(DOMAIN lay), NEW own, NEW w,
         DOMAIN own = OfProduct(lay, w),
         \A n \in DOMAIN own : own[n].product = w /\ own[n].quantity = lay[n].quantity,
         NEW lay2, lay2 = Over(own, lay), NEW p
  PROVE  /\ DOMAIN lay2 = DOMAIN lay
         /\ OfProduct(lay2, p) = OfProduct(lay, p)
         /\ SizeOfAll(lay2, p) = SizeOfAll(lay, p)
         /\ RestOf(lay2, p) = IF p = w THEN RestOf(own, w) ELSE RestOf(lay, p)
         /\ \A n \in DOMAIN lay : lay2[n].quantity = lay[n].quantity
<1>1. /\ DOMAIN lay2 = DOMAIN own \cup DOMAIN lay
      /\ \A n \in DOMAIN own : lay2[n] = own[n]
      /\ \A n \in DOMAIN lay : n \notin DOMAIN own => lay2[n] = lay[n]
  BY DEF Over
<1>2. DOMAIN lay2 = DOMAIN lay
  BY <1>1 DEF OfProduct
<1>3. \A n \in DOMAIN lay : lay2[n].product = lay[n].product /\ lay2[n].quantity = lay[n].quantity
  BY <1>1 DEF OfProduct
<1>4. OfProduct(lay2, p) = OfProduct(lay, p)
  BY <1>2, <1>3 DEF OfProduct
<1>5. PICK S \in SUBSET DOMAIN lay : S = OfProduct(lay, p)
  BY DEF OfProduct
<1>6. IsFiniteSet(S)
  BY FS_Subset
<1>7. PICK f, g, h, k : /\ f = Rests(lay2) /\ g = LayerSizes(lay2)
                        /\ h = Rests(lay) /\ k = LayerSizes(lay)
  OBVIOUS
<1>8. \A n \in S : g[n] = k[n]
  BY <1>2, <1>3, <1>7 DEF LayerSizes
<1>9. SizeOfAll(lay2, p) = SizeOfAll(lay, p)
  BY <1>4, <1>5, <1>6, <1>7, <1>8, SumSame DEF SizeOfAll
<1>10. CASE p # w
  <2>1. \A n \in S : n \notin DOMAIN own
    BY <1>5, <1>10 DEF OfProduct
  <2>2. \A n \in S : f[n] = h[n]
    BY <1>1, <1>2, <1>7, <2>1 DEF Rests
  <2>3. RestOf(lay2, p) = RestOf(lay, p)
    BY <1>4, <1>5, <1>6, <1>7, <2>2, SumSame DEF RestOf
  <2> QED
    BY <1>2, <1>3, <1>4, <1>9, <1>10, <2>3
<1>11. CASE p = w
  <2>1. OfProduct(own, w) = S
    BY <1>5, <1>11 DEF OfProduct
  <2>2. PICK e : e = Rests(own)
    OBVIOUS
  <2>3. \A n \in S : f[n] = e[n]
    BY <1>1, <1>2, <1>5, <1>7, <1>11, <2>2 DEF Rests
  <2>4. SumOf(f, S) = SumOf(e, S)
    BY <1>6, <2>3, SumSame
  <2>5. RestOf(lay2, p) = RestOf(own, w)
    BY <1>4, <1>5, <1>7, <2>1, <2>2, <2>4 DEF RestOf
  <2> QED
    BY <1>2, <1>3, <1>4, <1>9, <1>11, <2>5
<1> QED
  BY <1>10, <1>11

\* Drain: what it takes of the layers of its product, and what it reports as
\* short, make up the quantity.
LEMMA DrainTakes ==
  ASSUME layer \in PartOf(Nat, CostLayer), NEW c \in Nat, DOMAIN layer \subseteq 1 .. c,
         NEW p \in Products, NEW q \in Nat, NEW after,
         after = [n \in LayersOf(p) |->
                    [layer[n] EXCEPT !.remaining = @ - Take(@, Need(p, q, n))]],
         NEW short, short = q - Take(Remaining(LayersOf(p)), q)
  PROVE  /\ after \in PartOf(Nat, CostLayer)
         /\ DOMAIN after = OfProduct(layer, p)
         /\ \A n \in DOMAIN after : after[n].product = p /\ after[n].quantity = layer[n].quantity
         /\ short \in Nat
         /\ RestOf(after, p) + (q - short) = RestOf(layer, p)
<1>1. PICK S \in SUBSET DOMAIN layer : S = OfProduct(layer, p)
  BY DEF OfProduct
<1>2. S = LayersOf(p) /\ S \in SUBSET (1 .. c)
  BY <1>1 DEF LayersOf, OfProduct
<1>3. IsFiniteSet(S)
  <2>1. PICK R : R = 1 .. c
    OBVIOUS
  <2>2. IsFiniteSet(R)
    BY <2>1, FS_Interval
  <2>3. S \in SUBSET R
    BY <1>2, <2>1
  <2> QED
    BY <2>2, <2>3, FS_Subset
<1>4. PICK f : f = Rests(layer)
  OBVIOUS
<1>5. \A n \in S : layer[n] \in CostLayer /\ layer[n].product = p
  BY <1>1, PartIs DEF OfProduct
<1>6. \A n \in S : f[n] \in Nat /\ f[n] = layer[n].remaining
  BY <1>4, <1>5 DEF Rests, CostLayer
<1>7. ASSUME NEW n \in S
      PROVE  /\ Need(p, q, n) = q - SumOf(f, {m \in S : m < n})
             /\ Need(p, q, n) \in Int
  <2>1. PICK B \in SUBSET S : B = {m \in S : m < n}
    OBVIOUS
  <2>2. IsFiniteSet(B) /\ B \in SUBSET DOMAIN layer
    BY <1>3, <2>1, FS_Subset
  <2>3. Remaining(B) = SumOf(f, B)
    BY <1>4, <2>2, RemainingIs
  <2>4. SumOf(f, B) \in Nat
    BY <1>6, <2>1, <2>2, SumType
  <2>5. Need(p, q, n) = q - Remaining(B)
    BY <1>2, <2>1 DEF Need
  <2> QED
    BY <2>1, <2>3, <2>4, <2>5
<1>8. DOMAIN after = S /\ after = [n \in S |-> after[n]]
  BY <1>2
<1>9. ASSUME NEW n \in S
      PROVE  /\ after[n] \in CostLayer
             /\ after[n].product = p /\ after[n].quantity = layer[n].quantity
             /\ after[n].remaining = f[n] - Take(f[n], q - SumOf(f, {m \in S : m < n}))
  <2>1. PICK row \in CostLayer : row = layer[n]
    BY <1>5
  <2>2. PICK need \in Int : need = Need(p, q, n)
    BY <1>7
  <2>3. after[n] = [row EXCEPT !.remaining = row.remaining - Take(row.remaining, need)]
    BY <1>2, <2>1, <2>2
  <2>4. row.remaining \in Nat /\ row.remaining = f[n] /\ row.product = p
    BY <1>5, <1>6, <2>1
  <2>5. row.remaining - Take(row.remaining, need) \in Nat
    BY <2>4, TakeSome
  <2>6. PICK left \in Nat : left = row.remaining - Take(row.remaining, need)
    BY <2>5
  <2>7. after[n] = [row EXCEPT !.remaining = left]
    BY <2>3, <2>6
  <2>8. /\ after[n] \in CostLayer /\ after[n].product = row.product
        /\ after[n].quantity = row.quantity /\ after[n].remaining = left
    BY <2>1, <2>7 DEF CostLayer
  <2>9. need = q - SumOf(f, {m \in S : m < n})
    BY <1>7, <2>2
  <2> QED
    BY <2>1, <2>4, <2>6, <2>8, <2>9
<1>10. after \in PartOf(Nat, CostLayer)
  <2>1. S \in SUBSET Nat
    BY <1>2
  <2>2. after \in [S -> CostLayer]
    BY <1>8, <1>9
  <2> QED
    BY <2>1, <2>2 DEF PartOf
<1>11. PICK h : h = Rests(after)
  OBVIOUS
<1>12. Takes(f, h, S, q)
  <2> SUFFICES ASSUME NEW n \in S
               PROVE  f[n] \in Nat /\ h[n] = f[n] - Take(f[n], q - SumOf(f, {m \in S : m < n}))
    BY DEF Takes
  <2>1. h[n] = after[n].remaining
    BY <1>8, <1>11 DEF Rests
  <2> QED
    BY <1>6, <1>9, <2>1
<1>13. SumOf(f, S) \in Nat /\ SumOf(h, S) = SumOf(f, S) - Take(SumOf(f, S), q)
  BY <1>2, <1>12, FifoTakes
<1>14. Remaining(LayersOf(p)) = SumOf(f, S)
  BY <1>1, <1>2, <1>3, <1>4, RemainingIs
<1>15. RestOf(layer, p) = SumOf(f, S)
  BY <1>1, <1>4 DEF RestOf
<1>16. OfProduct(after, p) = S
  BY <1>8, <1>9 DEF OfProduct
<1>17. RestOf(after, p) = SumOf(h, S)
  BY <1>11, <1>16 DEF RestOf
<1>18. PICK total \in Nat : total = SumOf(f, S)
  BY <1>13
<1>19. Take(total, q) \in Nat /\ Take(total, q) <= q
  BY TakeTwice
<1>20. PICK found \in Nat : found = Take(total, q)
  BY <1>19
<1>21. found <= q /\ short = q - found
  BY <1>14, <1>18, <1>19, <1>20
<1>22. RestOf(after, p) = total - found /\ RestOf(layer, p) = total
  BY <1>13, <1>15, <1>17, <1>18, <1>20
<1>23. short \in Nat /\ RestOf(after, p) + (q - short) = RestOf(layer, p)
  BY <1>21, <1>22
<1> QED
  BY <1>1, <1>8, <1>9, <1>10, <1>23

-----------------------------------------------------------------------------
LEMMA BeginIs ==
  /\ Begin \in Tx /\ Finished \in Tx
  /\ Own(Begin) /\ Own(Finished)
  /\ Begin.kind = "RECEIPT" /\ Finished.kind = "RECEIPT"
  /\ Begin.locks = {} /\ Finished.locks = {}
  /\ DOMAIN Begin.level = {} /\ DOMAIN Finished.level = {}
  /\ DOMAIN Begin.layer = {} /\ DOMAIN Finished.layer = {}
  /\ Begin.done = Zero /\ Begin.short = 0
  /\ Begin.pc = "idle" /\ Finished.pc = "done"
<1>1. PICK e : e = Empty
  OBVIOUS
<1>2. e \in PartOf(Products, Int) /\ e \in PartOf(Nat, CostLayer) /\ DOMAIN e = {}
  BY <1>1, EmptyPart
<1>3. PICK z \in [Products -> Int] : z = Zero /\ \A p \in Products : z[p] = 0
  <2>1. Zero \in [Products -> Int] /\ \A p \in Products : Zero[p] = 0
    BY DEF Zero
  <2> QED
    BY <2>1
<1>4. <<>> \in Seq(Entry)
  OBVIOUS
<1>5. Begin = [pc |-> "idle", kind |-> "RECEIPT", lines |-> <<>>, saw |-> None, locks |-> {},
               done |-> z, short |-> 0, level |-> e, layer |-> e]
  BY <1>1, <1>3 DEF Begin
<1>6. Begin \in Tx
  BY <1>2, <1>3, <1>4, <1>5 DEF Tx
<1>7. /\ Begin.pc = "idle" /\ Begin.kind = "RECEIPT" /\ Begin.locks = {}
      /\ Begin.level = e /\ Begin.layer = e /\ Begin.done = z /\ Begin.short = 0
  BY <1>5
<1>8. PICK b \in Tx : b = Begin
  BY <1>6
<1>9. Finished = [b EXCEPT !.pc = "done"]
  BY <1>8 DEF Finished
<1>10. /\ Finished \in Tx /\ Finished.pc = "done" /\ Finished.kind = b.kind
       /\ Finished.locks = b.locks /\ Finished.level = b.level /\ Finished.layer = b.layer
       /\ Finished.done = b.done
  BY <1>9 DEF Tx
<1>11. Own(Begin) /\ DOMAIN Begin.level = {} /\ DOMAIN Begin.layer = {}
  BY <1>2, <1>3, <1>7 DEF Own, OwnReceipt
<1>12. Own(Finished) /\ DOMAIN Finished.level = {} /\ DOMAIN Finished.layer = {}
  BY <1>2, <1>3, <1>7, <1>8, <1>10 DEF Own, OwnReceipt
<1> QED
  BY <1>3, <1>6, <1>7, <1>8, <1>10, <1>11, <1>12

\* The lines left to a transaction under way.
LEMMA LineIs ==
  ASSUME StockType, NEW r \in Requests, Own(tx[r]), tx[r].pc \notin {"idle", "done"}
  PROVE  /\ Line(r) \in Entry /\ Of(tx[r]) = Line(r).product
         /\ Line(r).product \in Products /\ Line(r).quantity \in Nat
         /\ Tail(tx[r].lines) \in Seq(Entry)
<1>1. tx[r].lines \in Seq(Entry) /\ tx[r].lines # <<>>
  BY DEF StockType, Tx, Own
<1>2. Line(r) \in Entry /\ Tail(tx[r].lines) \in Seq(Entry)
  BY <1>1, HeadTailProperties DEF Line
<1> QED
  BY <1>2 DEF Entry, Of, Line

LEMMA SeenIs ==
  ASSUME StockType, NEW r \in Requests, NEW p \in Products
  PROVE  /\ Seen(r, p) = SeenIn(tx[r].level, level, p)
         /\ Seen(r, p) \in Int \cup {None}
<1>1. PICK own : own = tx[r].level
  OBVIOUS
<1>2. PICK lev : lev = level
  OBVIOUS
<1>3. own \in PartOf(Products, Int) /\ lev \in PartOf(Products, Int)
  BY <1>1, <1>2 DEF StockType, Tx
<1>4. PICK rows : rows = Over(own, lev)
  OBVIOUS
<1>5. /\ DOMAIN rows = DOMAIN own \cup DOMAIN lev
      /\ \A x \in DOMAIN own : rows[x] = own[x]
      /\ \A x \in DOMAIN lev : x \notin DOMAIN own => rows[x] = lev[x]
  BY <1>4 DEF Over
<1>6. Seen(r, p) = IF p \in DOMAIN rows THEN rows[p] ELSE None
  BY <1>1, <1>2, <1>4 DEF Seen
<1>7. (\A x \in DOMAIN own : own[x] \in Int) /\ (\A x \in DOMAIN lev : lev[x] \in Int)
  BY <1>3, PartIs
<1> QED
  BY <1>1, <1>2, <1>5, <1>6, <1>7 DEF SeenIn

LEMMA ApartBoth == ASSUME NEW t, NEW u, Apart(t, u) PROVE Apart(u, t)
BY DEF Apart

\* A step that changes one transaction only.
LEMMA LocalStep ==
  ASSUME StockInv, NEW r \in Requests, NEW t \in Tx, tx' = [tx EXCEPT ![r] = t],
         clock' \in Nat, clock <= clock',
         UNCHANGED <<level, moved, issued, unmatched, layer, manual>>,
         DOMAIN t.layer \subseteq 1 .. clock',
         Own(t), Fits(t, level, layer, manual), \A q \in Requests \ {r} : Apart(t, tx[q])
  PROVE  StockInv'
<1>1. StockType /\ AllApart /\ Shared
  BY DEF StockInv
<1>2. tx \in [Requests -> Tx] /\ clock \in Nat
  BY <1>1 DEF StockType
<1>3. /\ tx' \in [Requests -> Tx] /\ tx'[r] = t
      /\ \A q \in Requests \ {r} : tx'[q] = tx[q]
  BY <1>2
<1>4. 1 .. clock \subseteq 1 .. clock'
  BY <1>2
<1>5. StockType'
  <2>1. \A q \in Requests : DOMAIN tx'[q].layer \subseteq 1 .. clock'
    BY <1>1, <1>3, <1>4 DEF StockType
  <2>2. DOMAIN layer \subseteq 1 .. clock'
    BY <1>1, <1>4 DEF StockType
  <2> QED
    BY <1>1, <1>3, <2>1, <2>2 DEF StockType
<1>6. \A q \in Requests : Own(tx'[q])
  BY <1>3 DEF StockInv
<1>7. Shared'
  BY <1>1, <1>3 DEF Shared
<1>8. AllApart'
  <2> SUFFICES ASSUME NEW p \in Requests, NEW q \in Requests, p # q PROVE Apart(tx'[p], tx'[q])
    BY DEF AllApart
  <2>1. CASE p = r
    BY <1>3, <2>1
  <2>2. CASE q = r
    BY <1>3, <2>2, ApartBoth
  <2>3. CASE p # r /\ q # r
    BY <1>1, <1>3, <2>3 DEF AllApart
  <2> QED
    BY <2>1, <2>2, <2>3
<1>9. ReceivedStockIsExact'
  BY DEF StockInv, ReceivedStockIsExact, Stock
<1>10. LayersTell(layer', issued', unmatched')
  BY DEF StockInv
<1> QED
  BY <1>5, <1>6, <1>7, <1>8, <1>9, <1>10 DEF StockInv

-----------------------------------------------------------------------------
LEMMA StartMovementKeeps ==
  ASSUME StockInv, NEW r \in Requests, NEW kind \in {"IN", "OUT"}, NEW p \in Products,
         NEW q \in Quantities, StartMovement(r, kind, p, q)
  PROVE  StockInv'
<1>1. StockType
  BY DEF StockInv
<1>2. PICK line : line = [product |-> p, quantity |-> q]
  OBVIOUS
<1>3. line \in Entry /\ line.product = p
  BY <1>2, InventoryAssumption DEF Entry
<1>4. /\ <<line>> \in Seq(Entry) /\ <<line>> # <<>> /\ Head(<<line>>) = line
      /\ Tail(<<line>>) = <<>>
  BY <1>3
<1>5. PICK b \in Tx : b = Begin
  BY BeginIs
<1>6. PICK saw \in Int \cup {None} : saw = Seen(r, p)
  BY <1>1, SeenIs
<1>7. PICK t : t = [b EXCEPT !.pc = "write", !.kind = kind, !.saw = saw, !.lines = <<line>>]
  OBVIOUS
<1>8. /\ t \in Tx /\ t.pc = "write" /\ t.kind = kind /\ t.lines = <<line>>
      /\ t.locks = b.locks /\ t.level = b.level /\ t.layer = b.layer /\ t.done = b.done
      /\ t.short = b.short
  BY <1>4, <1>7 DEF Tx
<1>9. /\ t.locks = {} /\ DOMAIN t.level = {} /\ DOMAIN t.layer = {} /\ t.short = 0
      /\ \A x \in Products : t.done[x] = 0
  BY <1>5, <1>8, BeginIs DEF Zero
<1>10. tx' = [tx EXCEPT ![r] = t]
  BY <1>2, <1>5, <1>6, <1>7 DEF StartMovement, Goto
<1>11. Own(t)
  BY <1>4, <1>8, <1>9 DEF Own, OwnMovement
<1>12. Fits(t, level, layer, manual)
  BY <1>8 DEF Fits
<1>13. \A u \in Requests \ {r} : Apart(t, tx[u])
  BY <1>8, <1>9 DEF Apart
<1>14. UNCHANGED <<level, moved, issued, unmatched, layer, manual, clock>> /\ clock \in Nat
  BY <1>1 DEF StartMovement, StockType
<1>15. DOMAIN t.layer \subseteq 1 .. clock' /\ clock' \in Nat /\ clock <= clock'
  BY <1>9, <1>14
<1> QED
  BY <1>8, <1>10, <1>11, <1>12, <1>13, <1>14, <1>15, LocalStep

LEMMA StartReceiptKeeps ==
  ASSUME StockInv, NEW r \in Requests, NEW d \in Deliveries, StartReceipt(r, d)
  PROVE  StockInv'
<1>1. StockType
  BY DEF StockInv
<1>2. d \in Seq(Entry) /\ d # <<>>
  BY InventoryAssumption DEF Entry
<1>3. PICK b \in Tx : b = Begin
  BY BeginIs
<1>4. PICK t : t = [b EXCEPT !.pc = "line", !.lines = d]
  OBVIOUS
<1>5. /\ t \in Tx /\ t.pc = "line" /\ t.kind = b.kind /\ t.lines = d
      /\ t.locks = b.locks /\ t.level = b.level /\ t.layer = b.layer /\ t.done = b.done
  BY <1>2, <1>4 DEF Tx
<1>6. /\ t.kind = "RECEIPT" /\ t.locks = {} /\ DOMAIN t.level = {} /\ DOMAIN t.layer = {}
      /\ \A x \in Products : t.done[x] = 0
  BY <1>3, <1>5, BeginIs DEF Zero
<1>7. tx' = [tx EXCEPT ![r] = t]
  BY <1>3, <1>4 DEF StartReceipt, Goto
<1>8. Own(t)
  BY <1>2, <1>5, <1>6 DEF Own, OwnReceipt
<1>9. Fits(t, level, layer, manual)
  BY <1>5, <1>6 DEF Fits, ReceiptFits
<1>10. \A u \in Requests \ {r} : Apart(t, tx[u])
  BY <1>6 DEF Apart
<1>11. UNCHANGED <<level, moved, issued, unmatched, layer, manual, clock>> /\ clock \in Nat
  BY <1>1 DEF StartReceipt, StockType
<1>12. DOMAIN t.layer \subseteq 1 .. clock' /\ clock' \in Nat /\ clock <= clock'
  BY <1>6, <1>11
<1> QED
  BY <1>5, <1>7, <1>8, <1>9, <1>10, <1>11, <1>12, LocalStep

LEMMA AbortKeeps ==
  ASSUME StockInv, NEW r \in Requests, Abort(r)
  PROVE  StockInv'
<1>1. StockType
  BY DEF StockInv
<1>2. PICK t \in Tx : t = Finished
  BY BeginIs
<1>3. /\ t.kind = "RECEIPT" /\ t.locks = {} /\ DOMAIN t.level = {} /\ DOMAIN t.layer = {}
      /\ t.pc = "done" /\ Own(t)
  BY <1>2, BeginIs
<1>4. tx' = [tx EXCEPT ![r] = t]
  BY <1>2 DEF Abort, Goto
<1>5. Fits(t, level, layer, manual)
  BY <1>3 DEF Fits, ReceiptFits
<1>6. \A u \in Requests \ {r} : Apart(t, tx[u])
  BY <1>3 DEF Apart
<1>7. UNCHANGED <<level, moved, issued, unmatched, layer, manual, clock>> /\ clock \in Nat
  BY <1>1 DEF Abort, StockType
<1>8. DOMAIN t.layer \subseteq 1 .. clock' /\ clock' \in Nat /\ clock <= clock'
  BY <1>3, <1>7
<1> QED
  BY <1>3, <1>4, <1>5, <1>6, <1>7, <1>8, LocalStep

\* What the records hold and how the other transactions lie to r.
LEMMA StateOf ==
  ASSUME StockInv, NEW r \in Requests
  PROVE  /\ StockType /\ tx[r] \in Tx /\ Own(tx[r])
         /\ Fits(tx[r], level, layer, manual)
         /\ clock \in Nat /\ DOMAIN tx[r].layer \subseteq 1 .. clock
         /\ \A u \in Requests \ {r} : Apart(tx[r], tx[u]) /\ Apart(tx[u], tx[r])
BY DEF StockInv, StockType, Shared, AllApart

LEMMA LockProductKeeps ==
  ASSUME StockInv, NEW r \in Requests, LockProduct(r)
  PROVE  StockInv'
<1>1. PICK o \in Tx : o = tx[r]
  BY StateOf
<1>2. /\ Own(o) /\ Fits(o, level, layer, manual) /\ o.pc = "product"
      /\ \A u \in Requests \ {r} : Apart(o, tx[u])
  BY <1>1, StateOf DEF LockProduct
<1>3. PICK p \in Products : p = Line(r).product /\ Of(o) = p
  BY <1>1, <1>2, StateOf, LineIs
<1>4. PICK saw \in Int \cup {None} : saw = Seen(r, p) /\ saw = SeenIn(o.level, level, p)
  BY <1>1, StateOf, SeenIs
<1>5. PICK row \in {"product", "level"} \X Products : row = <<"product", p>>
  OBVIOUS
<1>6. PICK t : t = [o EXCEPT !.pc = "write", !.saw = saw, !.locks = o.locks \cup {row}]
  OBVIOUS
<1>7. /\ t \in Tx /\ t.pc = "write" /\ t.kind = o.kind /\ t.lines = o.lines /\ t.saw = saw
      /\ t.locks = o.locks \cup {row} /\ t.level = o.level /\ t.layer = o.layer
      /\ t.done = o.done
  BY <1>6 DEF Tx
<1>8. Of(t) = p
  BY <1>3, <1>7 DEF Of
<1>9. tx' = [tx EXCEPT ![r] = t]
  BY <1>1, <1>3, <1>4, <1>5, <1>6 DEF LockProduct, Goto
<1>10. o.kind = "RECEIPT" /\ OwnReceipt(o) /\ o.lines # <<>>
  BY <1>1, <1>2 DEF Own, OwnMovement, Tx
<1>11. Own(t)
  <2>1. OwnReceipt(t)
    BY <1>2, <1>3, <1>5, <1>7, <1>8, <1>10 DEF OwnReceipt
  <2> QED
    BY <1>7, <1>10, <2>1 DEF Own
<1>12. Fits(t, level, layer, manual)
  BY <1>2, <1>4, <1>7, <1>8, <1>10 DEF Fits, ReceiptFits
<1>13. \A u \in Requests \ {r} : Apart(t, tx[u])
  <2> SUFFICES ASSUME NEW u \in Requests \ {r} PROVE Apart(t, tx[u])
    OBVIOUS
  <2>1. row \notin tx[u].locks
    BY <1>3, <1>5 DEF LockProduct, Free
  <2> QED
    BY <1>2, <1>7, <2>1 DEF Apart
<1>14. UNCHANGED <<level, moved, issued, unmatched, layer, manual, clock>> /\ clock \in Nat
  BY StateOf DEF LockProduct
<1>15. DOMAIN t.layer \subseteq 1 .. clock' /\ clock' \in Nat /\ clock <= clock'
  BY <1>1, <1>7, <1>14, StateOf
<1> QED
  BY <1>7, <1>9, <1>11, <1>12, <1>13, <1>14, <1>15, LocalStep

LEMMA CreateLayerKeeps ==
  ASSUME StockInv, NEW r \in Requests, CreateLayer(r)
  PROVE  StockInv'
<1>1. PICK o \in Tx : o = tx[r]
  BY StateOf
<1>2. /\ Own(o) /\ Fits(o, level, layer, manual) /\ o.pc = "line"
      /\ \A u \in Requests \ {r} : Apart(o, tx[u])
  BY <1>1, StateOf DEF CreateLayer
<1>3. PICK line \in Entry : line = Line(r) /\ Of(o) = line.product
  BY <1>1, <1>2, StateOf, LineIs
<1>4. PICK n \in Nat : n = clock + 1
  BY StateOf
<1>5. clock \in Nat /\ clock' = n
  BY <1>4, StateOf DEF CreateLayer
<1>6. PICK new : new = [product |-> line.product, quantity |-> line.quantity,
                        remaining |-> line.quantity]
  OBVIOUS
<1>7. new \in CostLayer /\ new.product = line.product /\ new.remaining = new.quantity
  BY <1>6 DEF CostLayer, Entry
<1>8. PICK one \in PartOf(Nat, CostLayer) : one = [x \in {n} |-> new]
  BY <1>7, OnePart
<1>9. o.layer \in PartOf(Nat, CostLayer)
  BY DEF Tx
<1>10. PICK lay \in PartOf(Nat, CostLayer) : lay = Over(one, o.layer)
  BY <1>9, OverPart
<1>11. /\ DOMAIN lay = {n} \cup DOMAIN o.layer /\ lay[n] = new
       /\ \A x \in DOMAIN o.layer : x # n => lay[x] = o.layer[x]
  BY <1>8, <1>10 DEF Over
<1>12. PICK t : t = [o EXCEPT !.pc = "product", !.layer = lay]
  OBVIOUS
<1>13. /\ t \in Tx /\ t.pc = "product" /\ t.kind = o.kind /\ t.lines = o.lines
       /\ t.locks = o.locks /\ t.level = o.level /\ t.layer = lay /\ t.done = o.done
  BY <1>12 DEF Tx
<1>14. Of(t) = line.product
  BY <1>3, <1>13 DEF Of
<1>15. tx' = [tx EXCEPT ![r] = t]
  <2>1. tx' = [tx EXCEPT ![r] = [tx[r] EXCEPT !.pc = "product",
          !.layer = Over([x \in {clock'} |-> [product |-> Line(r).product,
                            quantity |-> Line(r).quantity, remaining |-> Line(r).quantity]],
                         tx[r].layer)]]
    BY DEF CreateLayer, Goto
  <2> QED
    BY <1>1, <1>3, <1>5, <1>6, <1>8, <1>10, <1>12, <2>1
<1>16. o.kind = "RECEIPT" /\ OwnReceipt(o) /\ o.lines # <<>>
  BY <1>1, <1>2 DEF Own, OwnMovement, Tx
<1>17. n \notin DOMAIN o.layer /\ n \notin DOMAIN layer /\ \A u \in Requests : n \notin DOMAIN tx[u].layer
  <2>1. n \notin 1 .. clock
    BY <1>4, <1>5
  <2> QED
    BY <1>1, <2>1, StateOf DEF StockType
<1>18. Own(t)
  <2>1. \A p \in DOMAIN t.level : {<<"product", p>>, <<"level", p>>} \subseteq t.locks
    BY <1>13, <1>16 DEF OwnReceipt
  <2>2. ASSUME NEW x \in DOMAIN t.layer
        PROVE  /\ t.layer[x].remaining = t.layer[x].quantity
               /\ \/ <<"level", t.layer[x].product>> \in t.locks
                  \/ t.pc \in {"product", "write"} /\ t.layer[x].product = Of(t)
    <3>1. CASE x = n
      BY <1>7, <1>11, <1>13, <1>14, <3>1
    <3>2. CASE x # n
      <4>1. x \in DOMAIN o.layer /\ t.layer[x] = o.layer[x]
        BY <1>11, <1>13, <2>2, <3>2
      <4> QED
        BY <1>2, <1>13, <1>16, <4>1 DEF OwnReceipt
    <3> QED
      BY <3>1, <3>2
  <2>3. OwnReceipt(t)
    BY <1>13, <1>16, <2>1, <2>2 DEF OwnReceipt
  <2> QED
    BY <1>13, <1>16, <2>3 DEF Own
<1>19. Fits(t, level, layer, manual)
  BY <1>2, <1>11, <1>13, <1>16, <1>17 DEF Fits, ReceiptFits
<1>20. \A u \in Requests \ {r} : Apart(t, tx[u])
  BY <1>2, <1>11, <1>13, <1>17 DEF Apart
<1>21. UNCHANGED <<level, moved, issued, unmatched, layer, manual>>
  BY DEF CreateLayer
<1>22. DOMAIN t.layer \subseteq 1 .. clock' /\ clock' \in Nat /\ clock <= clock'
  <2>1. 1 .. clock \subseteq 1 .. n /\ n \in 1 .. n
    BY <1>4, <1>5
  <2> QED
    BY <1>1, <1>4, <1>5, <1>11, <1>13, <2>1, StateOf
<1> QED
  BY <1>13, <1>15, <1>18, <1>19, <1>20, <1>21, <1>22, LocalStep

LEMMA DrainKeeps ==
  ASSUME StockInv, NEW r \in Requests, Drain(r)
  PROVE  StockInv'
<1>1. PICK o \in Tx : o = tx[r]
  BY StateOf
<1>2. /\ Own(o) /\ Fits(o, level, layer, manual) /\ o.pc = "drain"
      /\ \A u \in Requests \ {r} : Apart(o, tx[u])
  BY <1>1, StateOf DEF Drain
<1>3. PICK p \in Products : p = Line(r).product /\ Of(o) = p
  BY <1>1, <1>2, StateOf, LineIs
<1>4. PICK q \in Nat : q = Line(r).quantity
  BY <1>1, <1>2, StateOf, LineIs
<1>5. PICK after : after = [n \in LayersOf(p) |->
                              [layer[n] EXCEPT !.remaining = @ - Take(@, Need(p, q, n))]]
  OBVIOUS
<1>6. PICK short : short = q - Take(Remaining(LayersOf(p)), q)
  OBVIOUS
<1>7. layer \in PartOf(Nat, CostLayer) /\ clock \in Nat /\ DOMAIN layer \subseteq 1 .. clock
  BY StateOf DEF StockType
<1>8. /\ after \in PartOf(Nat, CostLayer) /\ DOMAIN after = OfProduct(layer, p)
      /\ \A n \in DOMAIN after : after[n].product = p /\ after[n].quantity = layer[n].quantity
      /\ short \in Nat /\ RestOf(after, p) + (q - short) = RestOf(layer, p)
  BY <1>5, <1>6, <1>7, DrainTakes
<1>9. PICK t : t = [o EXCEPT !.pc = "commit", !.layer = after, !.short = short]
  OBVIOUS
<1>10. /\ t \in Tx /\ t.pc = "commit" /\ t.kind = o.kind /\ t.lines = o.lines
       /\ t.locks = o.locks /\ t.level = o.level /\ t.layer = after /\ t.done = o.done
       /\ t.short = short
  BY <1>8, <1>9 DEF Tx
<1>11. Of(t) = p /\ Head(t.lines).quantity = q
  BY <1>1, <1>3, <1>4, <1>10 DEF Of, Line
<1>12. tx' = [tx EXCEPT ![r] = t]
  BY <1>1, <1>3, <1>4, <1>5, <1>6, <1>9 DEF Drain, Goto
<1>13. o.kind # "RECEIPT" /\ o.kind # "IN" /\ o.kind = "OUT" /\ OwnMovement(o) /\ o.lines # <<>>
  BY <1>1, <1>2 DEF Own, OwnReceipt, OwnMovement, Tx
<1>14. Own(t)
  BY <1>2, <1>3, <1>10, <1>11, <1>13 DEF Own, OwnMovement
<1>15. Fits(t, level, layer, manual)
  BY <1>8, <1>10, <1>11, <1>13 DEF Fits, IssueFits
<1>16. \A u \in Requests \ {r} : Apart(t, tx[u])
  BY <1>2, <1>10, <1>13 DEF Apart
<1>17. UNCHANGED <<level, moved, issued, unmatched, layer, manual, clock>>
  BY DEF Drain
<1>18. DOMAIN t.layer \subseteq 1 .. clock' /\ clock' \in Nat /\ clock <= clock'
  BY <1>7, <1>8, <1>10, <1>17 DEF OfProduct
<1> QED
  BY <1>10, <1>12, <1>14, <1>15, <1>16, <1>17, <1>18, LocalStep

LEMMA WriteLevelKeeps ==
  ASSUME StockInv, NEW r \in Requests, WriteLevel(r)
  PROVE  StockInv'
<1>1. PICK o \in Tx : o = tx[r]
  BY StateOf
<1>2. /\ Own(o) /\ Fits(o, level, layer, manual) /\ o.pc = "write"
      /\ \A u \in Requests \ {r} : Apart(o, tx[u])
  BY <1>1, StateOf DEF WriteLevel
<1>3. PICK p \in Products : p = Line(r).product /\ Of(o) = p
  BY <1>1, <1>2, StateOf, LineIs
<1>4. PICK q \in Int : q = IF o.kind = "OUT" THEN -Line(r).quantity ELSE Line(r).quantity
  <2>1. Line(r).quantity \in Nat
    BY <1>1, <1>2, StateOf, LineIs
  <2> QED
    BY <2>1
<1>5. o.saw \in Int \cup {None} /\ None \notin Int
  BY InventoryAssumption DEF Tx
<1>6. PICK new \in Int : new = IF o.saw = None THEN q ELSE o.saw + q
  <2>1. (IF o.saw = None THEN q ELSE o.saw + q) \in Int
    BY <1>5
  <2> QED
    BY <2>1
<1>7. PICK rest \in Seq(Entry) : rest = Tail(o.lines)
  BY <1>1, <1>2, StateOf, LineIs
<1>8. PICK next \in {"drain", "commit", "line"} :
        next = IF o.kind = "OUT" THEN "drain" ELSE IF rest = <<>> THEN "commit" ELSE "line"
  OBVIOUS
<1>9. PICK lines \in Seq(Entry) : lines = IF next = "line" THEN rest ELSE o.lines
  BY DEF Tx
<1>10. PICK row \in {"product", "level"} \X Products : row = <<"level", p>>
  OBVIOUS
<1>11. PICK done \in [Products -> Int] : done = [o.done EXCEPT ![p] = o.done[p] + q]
  <2>1. o.done \in [Products -> Int]
    BY DEF Tx
  <2>2. o.done[p] + q \in Int
    BY <2>1
  <2> QED
    BY <2>1, <2>2
<1>12. PICK one \in PartOf(Products, Int) : one = [x \in {p} |-> new]
  BY OnePart
<1>13. PICK lev \in PartOf(Products, Int) : lev = Over(one, o.level)
  BY OverPart DEF Tx
<1>14. PICK t : t = [o EXCEPT !.pc = next, !.lines = lines, !.locks = o.locks \cup {row},
                              !.done = done, !.level = lev]
  OBVIOUS
<1>15. /\ t \in Tx /\ t.pc = next /\ t.kind = o.kind /\ t.lines = lines
       /\ t.locks = o.locks \cup {row} /\ t.level = lev /\ t.layer = o.layer
       /\ t.done = done /\ t.short = o.short
  BY <1>14 DEF Tx
<1>16. tx' = [tx EXCEPT ![r] = t]
  BY <1>1, <1>3, <1>4, <1>6, <1>7, <1>8, <1>9, <1>10, <1>11, <1>12, <1>13, <1>14
     DEF WriteLevel, Goto
<1>17. /\ \A u \in Requests \ {r} : row \notin tx[u].locks
       /\ o.saw = None => p \notin DOMAIN level
  BY <1>1, <1>3, <1>10 DEF WriteLevel, Free
<1>18. /\ DOMAIN lev = {p} \cup DOMAIN o.level /\ lev[p] = new
       /\ \A x \in DOMAIN o.level : x # p => lev[x] = o.level[x]
  BY <1>12, <1>13 DEF Over
<1>19. /\ done[p] = o.done[p] + q /\ o.done[p] \in Int
       /\ \A x \in Products : x # p => done[x] = o.done[x]
  BY <1>11 DEF Tx
<1>20. o.lines # <<>> /\ lines # <<>>
  BY <1>2, <1>8, <1>9 DEF Own
<1>21. \A u \in Requests \ {r} : Apart(t, tx[u])
  BY <1>2, <1>15, <1>17 DEF Apart
<1>22. UNCHANGED <<level, moved, issued, unmatched, layer, manual, clock>> /\ clock \in Nat
  BY StateOf DEF WriteLevel
<1>23. DOMAIN t.layer \subseteq 1 .. clock' /\ clock' \in Nat /\ clock <= clock'
  BY <1>1, <1>15, <1>22, StateOf
<1>24. Own(t) /\ Fits(t, level, layer, manual)
  <2>1. CASE o.kind # "RECEIPT"
    <3>1. OwnMovement(o)
      BY <1>2, <2>1 DEF Own
    <3>2. next # "line" /\ lines = o.lines
      BY <1>7, <1>8, <1>9, <3>1 DEF OwnMovement
    <3>3. Of(t) = p
      BY <1>3, <1>15, <3>2 DEF Of
    <3>4. next = IF o.kind = "IN" THEN "commit" ELSE "drain"
      BY <1>7, <1>8, <2>1, <3>1 DEF OwnMovement, Tx
    <3>5. OwnMovement(t)
      BY <1>2, <1>3, <1>10, <1>15, <1>18, <1>19, <2>1, <3>1, <3>2, <3>3, <3>4 DEF OwnMovement
    <3>6. Own(t)
      BY <1>8, <1>15, <1>20, <2>1, <3>5 DEF Own
    <3>7. Fits(t, level, layer, manual)
      BY <1>15, <2>1, <3>4 DEF Fits
    <3> QED
      BY <3>6, <3>7
  <2>2. CASE o.kind = "RECEIPT"
    <3>1. OwnReceipt(o) /\ ReceiptFits(o, level, layer, manual)
      BY <1>2, <2>2 DEF Own, Fits
    <3>2. next \in {"commit", "line"}
      BY <1>8, <2>2
    <3>3. \A x \in DOMAIN t.level : {<<"product", x>>, <<"level", x>>} \subseteq t.locks
      BY <1>2, <1>3, <1>10, <1>15, <1>18, <3>1 DEF OwnReceipt
    <3>4. \A x \in Products : x \notin DOMAIN t.level => t.done[x] = 0
      BY <1>15, <1>18, <1>19, <3>1 DEF OwnReceipt
    <3>5. ASSUME NEW n \in DOMAIN t.layer
          PROVE  /\ t.layer[n].remaining = t.layer[n].quantity
                 /\ <<"level", t.layer[n].product>> \in t.locks
      BY <1>2, <1>3, <1>10, <1>15, <3>1 DEF OwnReceipt
    <3>6. OwnReceipt(t)
      BY <1>15, <3>2, <3>3, <3>4, <3>5 DEF OwnReceipt
    <3>7. Own(t)
      BY <1>15, <1>20, <2>2, <3>2, <3>6 DEF Own
    <3>8. ASSUME NEW x \in DOMAIN t.level \ manual
          PROVE  t.level[x] = StockIn(level, x) + t.done[x]
      <4>1. CASE x # p
        <5>1. x \in DOMAIN o.level \ manual /\ t.level[x] = o.level[x]
          BY <1>15, <1>18, <3>8, <4>1
        <5>2. x \in Products
          BY <1>15, <3>8, PartIs DEF Tx
        <5> QED
          BY <1>15, <1>19, <3>1, <4>1, <5>1, <5>2 DEF ReceiptFits
      <4>2. CASE x = p
        <5>1. o.saw = SeenIn(o.level, level, p)
          BY <1>2, <1>3, <3>1, <3>8, <4>2 DEF ReceiptFits
        <5>2. t.level[x] = new /\ t.done[x] = o.done[p] + q
          BY <1>15, <1>18, <1>19, <4>2
        <5>3. CASE p \in DOMAIN o.level
          <6>1. o.level[p] = StockIn(level, p) + o.done[p]
            BY <3>1, <3>8, <4>2, <5>3 DEF ReceiptFits
          <6>2. PICK had \in Int : had = o.level[p]
            BY <5>3, PartIs DEF Tx
          <6>3. o.saw = had
            BY <5>1, <5>3, <6>2 DEF SeenIn
          <6>4. PICK s \in Int : s = StockIn(level, p)
            <7>1. level \in PartOf(Products, Int)
              BY StateOf DEF StockType
            <7> QED
              BY <7>1, PartIs DEF StockIn
          <6>5. PICK d \in Int : d = o.done[p]
            BY <1>19
          <6>6. new = had + q /\ had = s + d
            BY <1>5, <1>6, <6>1, <6>2, <6>3, <6>4, <6>5
          <6> QED
            BY <4>2, <5>2, <6>4, <6>5, <6>6
        <5>4. CASE p \notin DOMAIN o.level
          <6>1. o.done[p] = 0
            BY <3>1, <5>4 DEF OwnReceipt
          <6>2. CASE p \in DOMAIN level
            <7>1. PICK s \in Int : s = level[p]
              <8>1. level \in PartOf(Products, Int)
                BY StateOf DEF StockType
              <8> QED
                BY <6>2, <8>1, PartIs
            <7>2. o.saw = s /\ StockIn(level, p) = s
              BY <5>1, <5>4, <6>2, <7>1 DEF SeenIn, StockIn
            <7>3. new = s + q
              BY <1>5, <1>6, <7>1, <7>2
            <7> QED
              BY <4>2, <5>2, <6>1, <7>2, <7>3
          <6>3. CASE p \notin DOMAIN level
            <7>1. new = q /\ StockIn(level, p) = 0
              BY <1>6, <5>1, <5>4, <6>3 DEF SeenIn, StockIn
            <7> QED
              BY <4>2, <5>2, <6>1, <7>1
          <6> QED
            BY <6>2, <6>3
        <5> QED
          BY <5>3, <5>4
      <4> QED
        BY <4>1, <4>2
    <3>9. ReceiptFits(t, level, layer, manual)
      BY <1>15, <3>1, <3>2, <3>8 DEF ReceiptFits
    <3>10. Fits(t, level, layer, manual)
      BY <1>15, <2>2, <3>9 DEF Fits
    <3> QED
      BY <3>7, <3>10
  <2> QED
    BY <2>1, <2>2
<1> QED
  BY <1>15, <1>16, <1>21, <1>22, <1>23, <1>24, LocalStep

LEMMA CommitKeeps ==
  ASSUME StockInv, NEW r \in Requests, Commit(r)
  PROVE  StockInv'
<1>1. PICK o \in Tx : o = tx[r]
  BY StateOf
<1>2. /\ Own(o) /\ Fits(o, level, layer, manual) /\ o.pc = "commit"
      /\ \A u \in Requests \ {r} : Apart(o, tx[u])
  BY <1>1, StateOf DEF Commit
<1>3. PICK w \in Products : w = Line(r).product /\ Of(o) = w
  BY <1>1, <1>2, StateOf, LineIs
<1>4. PICK q \in Nat : q = Line(r).quantity
  BY <1>1, <1>2, StateOf, LineIs
<1>5. Head(o.lines).quantity = q
  BY <1>1, <1>4 DEF Line
<1>6. StockType
  BY DEF StockInv
<1>7. PICK lev : lev = level
  OBVIOUS
<1>8. PICK lay : lay = layer
  OBVIOUS
<1>9. /\ lev \in PartOf(Products, Int) /\ lay \in PartOf(Nat, CostLayer) /\ clock \in Nat
      /\ DOMAIN lay \subseteq 1 .. clock
  BY <1>6, <1>7, <1>8 DEF StockType
<1>10. IsFiniteSet(1 .. clock) /\ IsFiniteSet(DOMAIN lay) /\ IsFiniteSet(DOMAIN o.layer)
  <2>1. PICK c \in Nat : c = clock
    BY <1>9
  <2>2. PICK R : R = 1 .. c
    OBVIOUS
  <2>3. IsFiniteSet(R)
    BY <2>2, FS_Interval
  <2>4. DOMAIN lay \in SUBSET R /\ DOMAIN o.layer \in SUBSET R
    BY <1>1, <1>9, <2>1, <2>2, StateOf
  <2> QED
    BY <2>1, <2>2, <2>3, <2>4, FS_Subset
<1>11. PICK lev2 \in PartOf(Products, Int) : lev2 = Over(o.level, lev)
  BY <1>9, OverPart DEF Tx
<1>12. o.layer \in PartOf(Nat, CostLayer)
  BY DEF Tx
<1>13. PICK lay2 \in PartOf(Nat, CostLayer) : lay2 = Over(o.layer, lay)
  BY <1>9, <1>12, OverPart
<1>14. level' = lev2 /\ layer' = lay2 /\ clock' = clock
  BY <1>1, <1>7, <1>8, <1>11, <1>13 DEF Commit
<1>15. /\ DOMAIN lev2 = DOMAIN o.level \cup DOMAIN lev
       /\ \A x \in DOMAIN o.level : lev2[x] = o.level[x]
       /\ \A x \in DOMAIN lev : x \notin DOMAIN o.level => lev2[x] = lev[x]
  BY <1>11 DEF Over
<1>16. /\ DOMAIN lay2 = DOMAIN o.layer \cup DOMAIN lay
       /\ \A x \in DOMAIN o.layer : lay2[x] = o.layer[x]
       /\ \A x \in DOMAIN lay : x \notin DOMAIN o.layer => lay2[x] = lay[x]
  BY <1>13 DEF Over
<1>17. moved' = [p \in Products |-> moved[p] + o.done[p]]
  BY <1>1 DEF Commit
<1>18. PICK fin \in Tx : fin = Finished
  BY BeginIs
<1>19. /\ fin.kind = "RECEIPT" /\ fin.locks = {} /\ DOMAIN fin.level = {} /\ DOMAIN fin.layer = {}
       /\ fin.pc = "done" /\ Own(fin)
  BY <1>18, BeginIs
<1>20. /\ tx' \in [Requests -> Tx] /\ tx'[r] = fin
       /\ \A u \in Requests \ {r} : tx'[u] = tx[u]
  BY <1>6, <1>18 DEF Commit, Goto, StockType
<1>21. PICK man : man = manual'
  OBVIOUS
<1>22. /\ manual \subseteq man /\ man \subseteq Products
       /\ o.kind = "RECEIPT" => man = manual
       /\ o.kind # "RECEIPT" => w \in man
  BY <1>1, <1>3, <1>6, <1>21 DEF Commit, StockType
<1>23. o.kind = "RECEIPT" => OwnReceipt(o) /\ ReceiptFits(o, lev, lay, manual)
  BY <1>2, <1>7, <1>8 DEF Own, Fits
<1>24. o.kind # "RECEIPT" => OwnMovement(o)
  BY <1>2 DEF Own
<1>25. o.kind = "OUT" => IssueFits(o, lay)
  BY <1>2, <1>8 DEF Fits
<1>26. o.kind = "IN" => DOMAIN o.layer = {} /\ o.short = 0
  BY <1>24 DEF OwnMovement
<1>27. o.kind \in {"RECEIPT", "IN", "OUT"} /\ o.short \in Nat /\ o.done \in [Products -> Int]
  BY DEF Tx
<1>28. ASSUME NEW p \in Products \ man
       PROVE  StockIn(lev2, p) = StockIn(lev, p) + o.done[p]
  <2>1. StockIn(lev, p) \in Int
    BY <1>9, PartIs DEF StockIn
  <2>2. CASE p \in DOMAIN o.level
    <3>1. o.kind = "RECEIPT"
      BY <1>3, <1>22, <1>24, <1>28, <2>2 DEF OwnMovement
    <3> QED
      BY <1>15, <1>22, <1>23, <1>28, <2>2, <3>1 DEF ReceiptFits, StockIn
  <2>3. CASE p \notin DOMAIN o.level
    <3>1. o.done[p] = 0
      BY <1>3, <1>22, <1>23, <1>24, <1>28, <2>3 DEF OwnReceipt, OwnMovement
    <3>2. StockIn(lev2, p) = StockIn(lev, p)
      BY <1>15, <2>3 DEF StockIn
    <3> QED
      BY <2>1, <3>1, <3>2
  <2> QED
    BY <2>2, <2>3
<1>29. ReceivedStockIsExact'
  <2> SUFFICES ASSUME NEW p \in Products \ man PROVE StockIn(lev2, p) = moved'[p]
    BY <1>14, <1>21 DEF ReceivedStockIsExact, Stock, StockIn
  <2>1. StockIn(lev, p) = moved[p]
    BY <1>7, <1>22 DEF StockInv, ReceivedStockIsExact, Stock, StockIn
  <2> QED
    BY <1>17, <1>28, <2>1
<1>30. ASSUME NEW u \in Requests \ {r}, tx[u].kind = "RECEIPT"
       PROVE  ReceiptFits(tx[u], lev2, lay2, man)
  <2>1. PICK v \in Tx : v = tx[u]
    BY <1>6 DEF StockType
  <2>2. /\ OwnReceipt(v) /\ ReceiptFits(v, lev, lay, manual) /\ Apart(o, v)
        /\ v.kind = "RECEIPT" /\ Own(v)
    BY <1>2, <1>7, <1>8, <1>30, <2>1, StateOf DEF Own, Fits
  <2>3. ASSUME NEW p \in Products \ man, <<"product", p>> \in v.locks
        PROVE  /\ StockIn(lev2, p) = StockIn(lev, p)
               /\ SeenIn(v.level, lev2, p) = SeenIn(v.level, lev, p)
    <3>1. p \notin DOMAIN o.level
      <4>1. CASE o.kind = "RECEIPT"
        BY <1>23, <2>2, <2>3, <4>1 DEF OwnReceipt, Apart
      <4>2. CASE o.kind # "RECEIPT"
        BY <1>3, <1>22, <1>24, <2>3, <4>2 DEF OwnMovement
      <4> QED
        BY <4>1, <4>2
    <3> QED
      BY <1>15, <3>1 DEF StockIn, SeenIn
  <2>4. ASSUME NEW p \in DOMAIN v.level \ man
        PROVE  v.level[p] = StockIn(lev2, p) + v.done[p]
    <3>1. p \in Products
      BY PartIs DEF Tx
    <3>2. <<"product", p>> \in v.locks
      BY <2>2 DEF OwnReceipt
    <3> QED
      BY <1>22, <2>2, <2>3, <2>4, <3>1, <3>2 DEF ReceiptFits
  <2>5. ASSUME v.pc = "write", Of(v) \notin man
        PROVE  v.saw = SeenIn(v.level, lev2, Of(v))
    <3>1. <<"product", Of(v)>> \in v.locks
      BY <2>2, <2>5 DEF OwnReceipt
    <3>2. Of(v) \in Products
      BY <1>6, <2>1, <2>2, <2>5, LineIs
    <3> QED
      BY <1>22, <2>2, <2>3, <2>5, <3>1, <3>2 DEF ReceiptFits
  <2>6. DOMAIN v.layer \cap DOMAIN lay2 = {}
    <3>1. DOMAIN v.layer \cap DOMAIN lay = {}
      BY <2>2 DEF ReceiptFits
    <3>2. CASE o.kind = "RECEIPT"
      BY <1>16, <2>2, <3>1, <3>2 DEF Apart
    <3>3. CASE o.kind = "IN"
      BY <1>16, <1>26, <3>1, <3>3
    <3>4. CASE o.kind = "OUT"
      <4>1. DOMAIN o.layer \subseteq DOMAIN lay
        BY <1>25, <3>4 DEF IssueFits, OfProduct
      <4> QED
        BY <1>16, <3>1, <4>1
    <3> QED
      BY <1>27, <3>2, <3>3, <3>4
  <2> QED
    BY <2>1, <2>4, <2>5, <2>6 DEF ReceiptFits
<1>31. ASSUME NEW u \in Requests \ {r}, tx[u].kind = "OUT", tx[u].pc = "commit"
       PROVE  IssueFits(tx[u], lay2)
  <2>1. PICK v \in Tx : v = tx[u]
    BY <1>6 DEF StockType
  <2>2. OwnMovement(v) /\ IssueFits(v, lay) /\ Apart(o, v)
    BY <1>2, <1>8, <1>31, <2>1, StateOf DEF Own, Fits
  <2>3. PICK p : p = Of(v)
    OBVIOUS
  <2>4. <<"level", p>> \notin o.locks
    BY <1>31, <2>1, <2>2, <2>3 DEF OwnMovement, Apart
  <2>5. \A n \in DOMAIN o.layer :
          o.layer[n].product # p /\ (n \in DOMAIN lay => lay[n].product # p)
    <3>1. CASE o.kind = "RECEIPT"
      <4>1. \A n \in DOMAIN o.layer : <<"level", o.layer[n].product>> \in o.locks
        BY <1>2, <1>23, <3>1 DEF OwnReceipt
      <4>2. DOMAIN o.layer \cap DOMAIN lay = {}
        BY <1>23, <3>1 DEF ReceiptFits
      <4> QED
        BY <2>4, <4>1, <4>2
    <3>2. CASE o.kind = "IN"
      BY <1>26, <3>2
    <3>3. CASE o.kind = "OUT"
      <4>1. p # w
        BY <1>2, <1>3, <1>24, <2>4, <3>3 DEF OwnMovement
      <4> QED
        BY <1>3, <1>25, <3>3, <4>1 DEF IssueFits, OfProduct
    <3> QED
      BY <1>27, <3>1, <3>2, <3>3
  <2>6. PICK S \in SUBSET DOMAIN lay : S = OfProduct(lay, p)
    BY DEF OfProduct
  <2>7. OfProduct(lay2, p) = S /\ \A n \in S : lay2[n] = lay[n] /\ n \in DOMAIN lay2
    BY <1>16, <2>5, <2>6 DEF OfProduct
  <2>8. PICK f, g : f = Rests(lay2) /\ g = Rests(lay)
    OBVIOUS
  <2>9. \A n \in S : f[n] = g[n]
    BY <2>6, <2>7, <2>8 DEF Rests
  <2>10. SumOf(f, S) = SumOf(g, S)
    BY <1>10, <2>9, FS_Subset, SumSame
  <2>11. RestOf(lay2, p) = RestOf(lay, p)
    BY <2>6, <2>7, <2>8, <2>10 DEF RestOf
  <2>12. IssueFits(v, lay2)
    BY <2>2, <2>3, <2>6, <2>7, <2>11 DEF IssueFits
  <2> QED
    BY <2>1, <2>12
<1>32. Shared'
  <2> SUFFICES ASSUME NEW u \in Requests PROVE Fits(tx'[u], lev2, lay2, man)
    BY <1>14, <1>21 DEF Shared
  <2>1. CASE u = r
    BY <1>19, <1>20, <2>1 DEF Fits, ReceiptFits
  <2>2. CASE u # r
    BY <1>20, <1>30, <1>31, <2>2 DEF Fits
  <2> QED
    BY <2>1, <2>2
<1>33. AllApart'
  <2> SUFFICES ASSUME NEW u \in Requests, NEW v \in Requests, u # v PROVE Apart(tx'[u], tx'[v])
    BY DEF AllApart
  <2>1. CASE u = r \/ v = r
    BY <1>19, <1>20, <2>1 DEF Apart
  <2>2. CASE u # r /\ v # r
    BY <1>20, <2>2 DEF StockInv, AllApart
  <2> QED
    BY <2>1, <2>2
<1>34. \A u \in Requests : Own(tx'[u])
  BY <1>19, <1>20 DEF StockInv
<1>35. /\ issued' \in [Products -> Nat] /\ unmatched' \in [Products -> Nat]
       /\ moved' \in [Products -> Int]
       /\ \A p \in Products : /\ issued'[p] = IF o.kind = "OUT" /\ p = w THEN issued[p] + q ELSE issued[p]
                              /\ unmatched'[p] = IF o.kind # "RECEIPT" /\ p = w
                                                 THEN unmatched[p] + o.short ELSE unmatched[p]
  <2>1. /\ issued \in [Products -> Nat] /\ unmatched \in [Products -> Nat]
        /\ moved \in [Products -> Int]
    BY <1>6 DEF StockType
  <2>2. moved' \in [Products -> Int]
    BY <1>17, <1>27, <2>1
  <2>3. CASE o.kind = "RECEIPT"
    BY <1>1, <2>1, <2>2, <2>3 DEF Commit
  <2>4. CASE o.kind # "RECEIPT"
    <3>1. /\ issued' = [issued EXCEPT ![w] = IF o.kind = "OUT" THEN issued[w] + q ELSE issued[w]]
          /\ unmatched' = [unmatched EXCEPT ![w] = unmatched[w] + o.short]
      BY <1>1, <1>3, <1>4, <2>4 DEF Commit
    <3>2. /\ (IF o.kind = "OUT" THEN issued[w] + q ELSE issued[w]) \in Nat
          /\ unmatched[w] + o.short \in Nat
      BY <1>27, <2>1
    <3> QED
      BY <2>1, <2>2, <2>4, <3>1, <3>2
  <2> QED
    BY <2>3, <2>4
<1>36. LayersTell(layer', issued', unmatched')
  <2> SUFFICES ASSUME NEW p \in Products
               PROVE  RestOf(lay2, p) + issued'[p] - unmatched'[p] = SizeOfAll(lay2, p)
    BY <1>14 DEF LayersTell
  <2>1. RestOf(lay, p) + issued[p] - unmatched[p] = SizeOfAll(lay, p)
    BY <1>8 DEF StockInv, LayersTell
  <2>2. PICK i \in Nat, m \in Nat : i = issued[p] /\ m = unmatched[p]
    BY <1>6 DEF StockType
  <2>3. PICK rest \in Nat, size \in Nat : rest = RestOf(lay, p) /\ size = SizeOfAll(lay, p)
    BY <1>9, <1>10, LayerSums
  <2>4. rest + i - m = size
    BY <2>1, <2>2, <2>3
  <2>5. CASE o.kind = "RECEIPT"
    <3>1. /\ DOMAIN o.layer \cap DOMAIN lay = {}
          /\ \A n \in DOMAIN o.layer : o.layer[n].remaining = o.layer[n].quantity
      BY <1>23, <2>5 DEF OwnReceipt, ReceiptFits
    <3>2. PICK x \in Nat : /\ RestOf(lay2, p) = RestOf(lay, p) + x
                           /\ SizeOfAll(lay2, p) = SizeOfAll(lay, p) + x
      BY <1>9, <1>10, <1>12, <1>13, <3>1, NewLayers
    <3>3. issued'[p] = i /\ unmatched'[p] = m
      BY <1>35, <2>2, <2>5
    <3> QED
      BY <2>3, <2>4, <3>2, <3>3
  <2>6. CASE o.kind = "IN"
    <3>1. lay2 = lay
      BY <1>9, <1>16, <1>26, <2>6, PartIs
    <3>2. issued'[p] = i /\ unmatched'[p] = m
      BY <1>26, <1>35, <2>2, <2>6
    <3> QED
      BY <2>2, <2>1, <3>1, <3>2
  <2>7. CASE o.kind = "OUT"
    <3>1. /\ DOMAIN o.layer = OfProduct(lay, w)
          /\ \A n \in DOMAIN o.layer :
               o.layer[n].product = w /\ o.layer[n].quantity = lay[n].quantity
          /\ RestOf(o.layer, w) + (q - o.short) = RestOf(lay, w)
      BY <1>3, <1>5, <1>25, <2>7 DEF IssueFits
    <3>2. /\ SizeOfAll(lay2, p) = SizeOfAll(lay, p)
          /\ RestOf(lay2, p) = IF p = w THEN RestOf(o.layer, w) ELSE RestOf(lay, p)
      BY <1>9, <1>10, <1>13, <3>1, DrainedLayers
    <3>3. CASE p # w
      <4>1. issued'[p] = i /\ unmatched'[p] = m
        BY <1>35, <2>2, <3>3
      <4> QED
        BY <2>3, <2>4, <3>2, <3>3, <4>1
    <3>4. CASE p = w
      <4>1. issued'[p] = i + q /\ unmatched'[p] = m + o.short
        BY <1>35, <2>2, <2>7, <3>4
      <4>2. PICK left \in Nat : left = RestOf(o.layer, w)
        BY <1>10, <1>12, LayerSums
      <4>3. PICK s \in Nat : s = o.short
        BY <1>27
      <4>4. left + (q - s) = rest
        BY <2>3, <3>1, <3>4, <4>2, <4>3
      <4> QED
        BY <2>3, <2>4, <3>2, <3>4, <4>1, <4>2, <4>3, <4>4
    <3> QED
      BY <3>3, <3>4
  <2> QED
    BY <1>27, <2>5, <2>6, <2>7
<1>37. StockType'
  <2>1. DOMAIN lay2 \subseteq 1 .. clock
    BY <1>1, <1>9, <1>16, StateOf
  <2>2. \A u \in Requests : DOMAIN tx'[u].layer \subseteq 1 .. clock
    BY <1>6, <1>19, <1>20 DEF StockType
  <2> QED
    BY <1>9, <1>14, <1>20, <1>21, <1>22, <1>35, <2>1, <2>2 DEF StockType
<1> QED
  BY <1>14, <1>29, <1>32, <1>33, <1>34, <1>36, <1>37 DEF StockInv

-----------------------------------------------------------------------------
LEMMA InitStock == ASSUME Init PROVE StockInv
<1>1. PICK e : e = Empty
  OBVIOUS
<1>2. e \in PartOf(Products, Int) /\ e \in PartOf(Nat, CostLayer) /\ DOMAIN e = {}
  BY <1>1, EmptyPart
<1>3. level = e /\ layer = e
  BY <1>1 DEF Init
<1>4. Zero \in [Products -> Int] /\ Zero \in [Products -> Nat] /\ \A p \in Products : Zero[p] = 0
  BY DEF Zero
<1>5. \A r \in Requests : tx[r] = Begin /\ tx \in [Requests -> Tx]
  BY BeginIs DEF Init
<1>6. StockType
  BY <1>2, <1>3, <1>4, <1>5, BeginIs DEF Init, StockType
<1>7. \A r \in Requests : Own(tx[r])
  BY <1>5, BeginIs
<1>8. Shared
  BY <1>5, BeginIs DEF Shared, Fits, ReceiptFits
<1>9. AllApart
  BY <1>5, BeginIs DEF AllApart, Apart
<1>10. ReceivedStockIsExact
  BY <1>2, <1>3, <1>4 DEF Init, ReceivedStockIsExact, Stock
<1>11. LayersTell(layer, issued, unmatched)
  <2> SUFFICES ASSUME NEW p \in Products
               PROVE  RestOf(layer, p) + issued[p] - unmatched[p] = SizeOfAll(layer, p)
    BY DEF LayersTell
  <2>1. OfProduct(layer, p) = {}
    BY <1>2, <1>3 DEF OfProduct
  <2>2. RestOf(layer, p) = 0 /\ SizeOfAll(layer, p) = 0
    BY <2>1, SumEmpty DEF RestOf, SizeOfAll
  <2> QED
    BY <1>4, <2>2 DEF Init
<1> QED
  BY <1>6, <1>7, <1>8, <1>9, <1>10, <1>11 DEF StockInv

LEMMA StockStep == ASSUME StockInv, [Next]_vars PROVE StockInv'
<1>1. CASE UNCHANGED vars
  BY <1>1 DEF vars, StockInv, StockType, Shared, AllApart, ReceivedStockIsExact, Stock
<1>2. ASSUME NEW r \in Requests, NEW kind \in {"IN", "OUT"}, NEW p \in Products,
             NEW q \in Quantities, StartMovement(r, kind, p, q)
      PROVE  StockInv'
  BY <1>2, StartMovementKeeps
<1>3. ASSUME NEW r \in Requests, NEW d \in Deliveries, StartReceipt(r, d) PROVE StockInv'
  BY <1>3, StartReceiptKeeps
<1>4. ASSUME NEW r \in Requests, CreateLayer(r) PROVE StockInv'
  BY <1>4, CreateLayerKeeps
<1>5. ASSUME NEW r \in Requests, LockProduct(r) PROVE StockInv'
  BY <1>5, LockProductKeeps
<1>6. ASSUME NEW r \in Requests, WriteLevel(r) PROVE StockInv'
  BY <1>6, WriteLevelKeeps
<1>7. ASSUME NEW r \in Requests, Drain(r) PROVE StockInv'
  BY <1>7, DrainKeeps
<1>8. ASSUME NEW r \in Requests, Commit(r) PROVE StockInv'
  BY <1>8, CommitKeeps
<1>9. ASSUME NEW r \in Requests, Abort(r) PROVE StockInv'
  BY <1>9, AbortKeeps
<1> QED
  BY <1>1, <1>2, <1>3, <1>4, <1>5, <1>6, <1>7, <1>8, <1>9 DEF Next, Step

LEMMA StockInvTells == ASSUME StockInv PROVE StockIsExact
<1>1. PICK c \in Nat : c = clock
  BY DEF StockInv, StockType
<1>2. PICK R : R = 1 .. c
  OBVIOUS
<1>3. IsFiniteSet(R)
  BY <1>2, FS_Interval
<1>4. DOMAIN layer \in SUBSET R
  BY <1>1, <1>2 DEF StockInv, StockType
<1>5. IsFiniteSet(DOMAIN layer)
  BY <1>3, <1>4, FS_Subset
<1> QED
  BY <1>5, TellIs DEF StockInv, StockIsExact

\* recordMovement, receiveGoods and consumeFifoCostLayers, whatever the requests
\* and however they overlap: the level of a product no manual movement has touched
\* is what its movements add up to, and the cost layers of every product lack
\* what was issued and not reported as covered by none.
THEOREM StockIsAlwaysExact == Spec => []StockIsExact
<1>1. StockInv /\ [Next]_vars => StockInv'
  BY StockStep
<1>2. Init => StockInv
  BY InitStock
<1>3. StockInv => StockIsExact
  BY StockInvTells
<1> QED
  BY <1>1, <1>2, <1>3, PTL DEF Spec

(***************************************************************************)
(* Proofs about the analytics, for any reports, runs, deletions, rows and  *)
(* filters.  A run past its write found the file it wrote, unless the      *)
(* report is gone or a deletion removed it; and the file is that of a run  *)
(* no other overlapped.  A bar and its drill-down are the same set of      *)
(* rows, found by two conditions.                                          *)
(***************************************************************************)

BiRun ==
  [of : BiReportIds, by : {"request", "scan"}, id : Nat,
   at : {"cache", "load", "store", "write", "note", "mail"}, kpi : Nat, mailed : Nat,
   alone : BOOLEAN]

BiDeletion == [of : BiReportIds, id : Nat, at : {"read", "unlinked", "failed"}, ran : BOOLEAN]

BiType ==
  /\ reportRow \in [BiReportIds -> {"fresh", "ran", "gone"}]
  /\ reportFile \in [BiReportIds -> Nat]
  /\ kpis \in [books : Nat \ {0}, cached : Nat]
  /\ reportRuns \in SUBSET BiRun
  /\ deletions \in SUBSET BiDeletion
  /\ scan \in [on : BOOLEAN, read : SUBSET BiReportIds, left : SUBSET BiReportIds,
               tried : SUBSET BiReportIds, minute : BOOLEAN]
  /\ biTally \in [runs : Nat, deletions : Nat, faults : Nat]
  /\ strayed \in BOOLEAN

\* A run knows numbers once it has read them.
RunHasRead == \A r \in reportRuns : r.at \in {"store", "write", "note", "mail"} => r.kpi # 0

Removed(x) == \E d \in deletions : d.of = x /\ d.at # "read"

\* What a run wrote is there until a deletion of the report removes it.
WrittenIsThere ==
  \A r \in reportRuns :
    r.at \in {"note", "mail"} => reportFile[r.of] # 0 \/ reportRow[r.of] = "gone" \/ Removed(r.of)

\* A run without another beside it is the only one, and the file is its own.
AloneIsAlone == \A r, s \in reportRuns : r.alone = TRUE /\ s.of = r.of => s = r

AloneFindsItsOwn ==
  \A r \in reportRuns :
    r.alone = TRUE /\ r.at \in {"note", "mail"} => reportFile[r.of] \in {0, r.kpi}

\* The reports a scan has left behind were tried, as long as its minute lasts.
ScanTries ==
  /\ scan.minute = TRUE => scan.read \ scan.left \subseteq scan.tried
  /\ scan.on = FALSE => scan.left = {}

BiInv ==
  /\ BiType /\ RunHasRead /\ WrittenIsThere /\ AloneIsAlone /\ AloneFindsItsOwn /\ ScanTries
  /\ NotedFileExists /\ LoneRunMailsItsOwn

\* A run that goes on is the one it was.
LEMMA RunGoes ==
  ASSUME BiType, AloneIsAlone, NEW r \in reportRuns, NEW next \in BiRun,
         next.of = r.of, next.alone = r.alone, Goes(r, next)
  PROVE  /\ reportRuns' \in SUBSET BiRun /\ AloneIsAlone'
         /\ \A s \in reportRuns' : s = next \/ s \in reportRuns
<1>1. reportRuns' = (reportRuns \ {r}) \cup {next}
  BY DEF Goes
<1>2. reportRuns' \in SUBSET BiRun
  BY <1>1 DEF BiType
<1>3. ASSUME NEW q \in reportRuns', NEW s \in reportRuns', q.alone = TRUE, s.of = q.of
      PROVE  s = q
  <2>1. CASE q = next /\ s # next
    BY <1>1, <1>3, <2>1 DEF AloneIsAlone
  <2>2. CASE q # next /\ s = next
    BY <1>1, <1>3, <2>2 DEF AloneIsAlone
  <2>3. CASE q # next /\ s # next
    BY <1>1, <1>3, <2>3 DEF AloneIsAlone
  <2> QED BY <2>1, <2>2, <2>3
<1>4. AloneIsAlone'
  BY <1>3 DEF AloneIsAlone
<1> QED BY <1>1, <1>2, <1>4

\* A step of a run that leaves the report's row and file alone keeps what holds of it.
LEMMA RunMovesOn ==
  ASSUME BiInv, NEW r \in reportRuns, NEW next \in BiRun, next.of = r.of, next.alone = r.alone,
         Goes(r, next),
         next.at \in {"store", "write", "note", "mail"} => next.kpi # 0,
         next.at \in {"note", "mail"} => r.at \in {"note", "mail"} /\ next.kpi = r.kpi,
         UNCHANGED <<reportRow, reportFile, deletions, scan, strayed>>,
         kpis' \in [books : Nat \ {0}, cached : Nat],
         biTally' \in [runs : Nat, deletions : Nat, faults : Nat]
  PROVE  BiInv'
<1>1. /\ reportRuns' \in SUBSET BiRun /\ AloneIsAlone'
      /\ \A s \in reportRuns' : s = next \/ s \in reportRuns
  BY RunGoes DEF BiInv
<1>2. BiType'
  BY <1>1 DEF BiInv, BiType
<1>3. RunHasRead'
  BY <1>1 DEF BiInv, RunHasRead
<1>4. WrittenIsThere'
  BY <1>1 DEF BiInv, WrittenIsThere, Removed
<1>5. AloneFindsItsOwn'
  BY <1>1 DEF BiInv, AloneFindsItsOwn
<1> QED BY <1>1, <1>2, <1>3, <1>4, <1>5
        DEF BiInv, ScanTries, NotedFileExists, LoneRunMailsItsOwn

LEMMA TallyCounts ==
  ASSUME BiType, BiFault \/ UNCHANGED biTally
  PROVE  biTally' \in [runs : Nat, deletions : Nat, faults : Nat]
BY DEF BiType, BiFault

LEMMA CacheRead ==
  ASSUME BiInv, NEW r \in reportRuns, ReadCache(r) PROVE BiInv'
<1>1. r \in BiRun /\ r.at = "cache" /\ kpis.cached \in Nat
  BY DEF BiInv, BiType, ReadCache
<1>2. biTally' \in [runs : Nat, deletions : Nat, faults : Nat]
  BY TallyCounts DEF BiInv, ReadCache
<1>3. /\ UNCHANGED <<reportRow, reportFile, deletions, scan, strayed>>
      /\ kpis' \in [books : Nat \ {0}, cached : Nat]
  BY DEF BiInv, BiType, ReadCache
<1>4. PICK found : found = [r EXCEPT !.at = "write", !.kpi = kpis.cached]
  OBVIOUS
<1>5. PICK missed : missed = [r EXCEPT !.at = "load"]
  OBVIOUS
<1>6. /\ found \in BiRun /\ found.of = r.of /\ found.alone = r.alone /\ found.at = "write"
      /\ found.kpi = kpis.cached
  BY <1>1, <1>4 DEF BiRun
<1>7. missed \in BiRun /\ missed.of = r.of /\ missed.alone = r.alone /\ missed.at = "load"
  BY <1>1, <1>5 DEF BiRun
<1>8. (kpis.cached # 0 /\ Goes(r, found)) \/ Goes(r, missed)
  BY <1>4, <1>5 DEF ReadCache
<1>9. CASE kpis.cached # 0 /\ Goes(r, found)
  BY <1>2, <1>3, <1>6, <1>9, RunMovesOn
<1>10. CASE Goes(r, missed)
  BY <1>2, <1>3, <1>7, <1>10, RunMovesOn
<1> QED BY <1>8, <1>9, <1>10

LEMMA KpisLoaded ==
  ASSUME BiInv, NEW r \in reportRuns, LoadKpis(r) PROVE BiInv'
<1>1. r \in BiRun
  BY DEF BiInv, BiType
<1>2. /\ UNCHANGED <<reportRow, reportFile, deletions, scan, strayed>>
      /\ kpis' \in [books : Nat \ {0}, cached : Nat]
      /\ biTally' \in [runs : Nat, deletions : Nat, faults : Nat]
  BY DEF BiInv, BiType, LoadKpis
<1>3. PICK v \in 1 .. kpis.books : Goes(r, [r EXCEPT !.at = "store", !.kpi = v])
  BY DEF LoadKpis
<1>4. PICK next : next = [r EXCEPT !.at = "store", !.kpi = v]
  OBVIOUS
<1>5. v \in Nat /\ v # 0
  BY <1>3 DEF BiInv, BiType
<1>6. /\ next \in BiRun /\ next.of = r.of /\ next.alone = r.alone /\ next.at = "store"
      /\ next.kpi = v
  BY <1>1, <1>4, <1>5 DEF BiRun
<1>7. Goes(r, next)
  BY <1>3, <1>4
<1> QED BY <1>2, <1>5, <1>6, <1>7, RunMovesOn

LEMMA KpisStored ==
  ASSUME BiInv, NEW r \in reportRuns, StoreInCache(r) PROVE BiInv'
<1>1. r \in BiRun /\ r.at = "store" /\ r.kpi # 0
  BY DEF BiInv, BiType, StoreInCache, RunHasRead
<1>2. biTally' \in [runs : Nat, deletions : Nat, faults : Nat]
  BY TallyCounts DEF BiInv, StoreInCache
<1>3. r.kpi \in Nat
  BY <1>1 DEF BiRun
<1>4. /\ UNCHANGED <<reportRow, reportFile, deletions, scan, strayed>>
      /\ kpis' \in [books : Nat \ {0}, cached : Nat]
  BY <1>3 DEF BiInv, BiType, StoreInCache
<1>5. PICK next : next = [r EXCEPT !.at = "write"]
  OBVIOUS
<1>6. /\ next \in BiRun /\ next.of = r.of /\ next.alone = r.alone /\ next.at = "write"
      /\ next.kpi = r.kpi
  BY <1>1, <1>5 DEF BiRun
<1>7. Goes(r, next)
  BY <1>5 DEF StoreInCache
<1> QED BY <1>1, <1>2, <1>4, <1>6, <1>7, RunMovesOn

\* A run writes over no file of a run that is alone, for it is not beside one.
LEMMA FileWritten ==
  ASSUME BiInv, NEW r \in reportRuns, WriteFile(r) PROVE BiInv'
<1>1. r \in BiRun /\ r.at = "write" /\ r.kpi # 0
  BY DEF BiInv, BiType, WriteFile, RunHasRead
<1>2. r.kpi \in Nat /\ r.of \in BiReportIds
  BY <1>1 DEF BiRun
<1>3. PICK next : next = [r EXCEPT !.at = "note"]
  OBVIOUS
<1>4. /\ next \in BiRun /\ next.of = r.of /\ next.alone = r.alone /\ next.at = "note"
      /\ next.kpi = r.kpi
  BY <1>1, <1>3 DEF BiRun
<1>5. Goes(r, next)
  BY <1>3 DEF WriteFile
<1>6. /\ reportRuns' \in SUBSET BiRun /\ AloneIsAlone'
      /\ \A s \in reportRuns' : s = next \/ s \in reportRuns
  BY <1>4, <1>5, RunGoes DEF BiInv
<1>7. /\ reportFile' = [reportFile EXCEPT ![r.of] = r.kpi]
      /\ UNCHANGED <<reportRow, kpis, deletions, scan, strayed, biTally>>
  BY DEF WriteFile
<1>8. \A x \in BiReportIds : reportFile'[x] = IF x = r.of THEN r.kpi ELSE reportFile[x]
  BY <1>7 DEF BiInv, BiType
<1>9. BiType'
  BY <1>2, <1>6, <1>7 DEF BiInv, BiType
<1>10. RunHasRead'
  BY <1>1, <1>4, <1>6 DEF BiInv, RunHasRead
<1>11. \A s \in reportRuns' : s.of \in BiReportIds
  BY <1>6 DEF BiRun
<1>12. WrittenIsThere'
  BY <1>1, <1>4, <1>6, <1>7, <1>8, <1>11 DEF BiInv, WrittenIsThere, Removed
<1>13. AloneFindsItsOwn'
  <2> SUFFICES ASSUME NEW s \in reportRuns', s.alone = TRUE, s.at \in {"note", "mail"}
               PROVE  reportFile'[s.of] \in {0, s.kpi}
    BY DEF AloneFindsItsOwn
  <2>1. CASE s = next
    BY <1>2, <1>4, <1>8, <2>1
  <2>2. CASE s # next /\ s.of # r.of
    BY <1>6, <1>8, <1>11, <2>2 DEF BiInv, AloneFindsItsOwn
  <2>3. CASE s # next /\ s.of = r.of
    <3>1. s \in reportRuns /\ s = r
      BY <1>6, <2>3 DEF BiInv, AloneIsAlone
    <3> QED BY <1>1, <3>1
  <2> QED BY <2>1, <2>2, <2>3
<1>14. NotedFileExists'
  BY <1>1, <1>7, <1>8 DEF BiInv, NotedFileExists
<1> QED BY <1>6, <1>7, <1>9, <1>10, <1>12, <1>13, <1>14 DEF BiInv, ScanTries, LoneRunMailsItsOwn

LEMMA FileNoted ==
  ASSUME BiInv, NEW r \in reportRuns, NoteFile(r) PROVE BiInv'
<1>1. r \in BiRun /\ r.at = "note" /\ r.kpi # 0 /\ reportRow[r.of] # "gone"
  BY DEF BiInv, BiType, NoteFile, RunHasRead, Active
<1>2. r.of \in BiReportIds
  BY <1>1 DEF BiRun
<1>3. PICK next : next = [r EXCEPT !.at = "mail"]
  OBVIOUS
<1>4. /\ next \in BiRun /\ next.of = r.of /\ next.alone = r.alone /\ next.at = "mail"
      /\ next.kpi = r.kpi
  BY <1>1, <1>3 DEF BiRun
<1>5. Goes(r, next)
  BY <1>3 DEF NoteFile
<1>6. /\ reportRuns' \in SUBSET BiRun /\ AloneIsAlone'
      /\ \A s \in reportRuns' : s = next \/ s \in reportRuns
  BY <1>4, <1>5, RunGoes DEF BiInv
<1>7. /\ reportRow' = [reportRow EXCEPT ![r.of] = "ran"]
      /\ UNCHANGED <<reportFile, kpis, deletions, scan, strayed, biTally>>
  BY DEF NoteFile
<1>8. \A x \in BiReportIds : reportRow'[x] = IF x = r.of THEN "ran" ELSE reportRow[x]
  BY <1>7 DEF BiInv, BiType
<1>9. reportFile[r.of] # 0 \/ Removed(r.of)
  BY <1>1 DEF BiInv, WrittenIsThere
<1>10. BiType'
  BY <1>6, <1>7 DEF BiInv, BiType
<1>11. RunHasRead'
  BY <1>1, <1>4, <1>6 DEF BiInv, RunHasRead
<1>12. \A s \in reportRuns' : s.of \in BiReportIds
  BY <1>6 DEF BiRun
<1>13. WrittenIsThere'
  BY <1>4, <1>6, <1>7, <1>8, <1>9, <1>12 DEF BiInv, WrittenIsThere, Removed
<1>14. AloneFindsItsOwn'
  BY <1>1, <1>4, <1>6, <1>7 DEF BiInv, AloneFindsItsOwn
<1>15. NotedFileExists'
  BY <1>7, <1>8, <1>9 DEF BiInv, NotedFileExists, Removed
<1> QED BY <1>6, <1>7, <1>10, <1>11, <1>13, <1>14, <1>15 DEF BiInv, ScanTries, LoneRunMailsItsOwn

\* The file a lone run mails is its own.
LEMMA ReportMailed ==
  ASSUME BiInv, NEW r \in reportRuns, MailReport(r) PROVE BiInv'
<1>1. r \in BiRun /\ r.at = "mail" /\ r.kpi # 0 /\ reportFile[r.of] # 0
  BY DEF BiInv, BiType, MailReport, RunHasRead
<1>2. biTally' \in [runs : Nat, deletions : Nat, faults : Nat]
  BY TallyCounts DEF BiInv, MailReport
<1>3. r.alone = TRUE => reportFile[r.of] = r.kpi
  BY <1>1 DEF BiInv, AloneFindsItsOwn
<1>4. strayed' = strayed
  <2>1. (r.alone /\ reportFile[r.of] # r.kpi) = FALSE
    BY <1>1, <1>3 DEF BiRun
  <2>2. strayed' = (strayed \/ (r.alone /\ reportFile[r.of] # r.kpi)) \/ strayed' = strayed
    BY DEF MailReport
  <2> QED BY <2>1, <2>2 DEF BiInv, BiType
<1>5. PICK next : next = [r EXCEPT !.mailed = @ + 1]
  OBVIOUS
<1>6. /\ next \in BiRun /\ next.of = r.of /\ next.alone = r.alone /\ next.at = "mail"
      /\ next.kpi = r.kpi
  BY <1>1, <1>5 DEF BiRun
<1>7. Goes(r, next)
  BY <1>5 DEF MailReport
<1>8. /\ UNCHANGED <<reportRow, reportFile, deletions, scan, strayed>>
      /\ kpis' \in [books : Nat \ {0}, cached : Nat]
  BY <1>4 DEF BiInv, BiType, MailReport
<1> QED BY <1>1, <1>2, <1>6, <1>7, <1>8, RunMovesOn

\* A run that ends leaves what it did.
LEMMA RunLeaves ==
  ASSUME BiInv, NEW r \in reportRuns, RunEnds(r) \/ RunFails(r) PROVE BiInv'
<1>1. /\ reportRuns' = reportRuns \ {r}
      /\ UNCHANGED <<reportRow, reportFile, kpis, deletions, scan, strayed>>
  BY DEF RunEnds, RunFails
<1>2. biTally' \in [runs : Nat, deletions : Nat, faults : Nat]
  BY TallyCounts DEF BiInv, RunEnds, RunFails, Throws
<1>3. BiType'
  BY <1>1, <1>2 DEF BiInv, BiType
<1>4. RunHasRead' /\ WrittenIsThere' /\ AloneIsAlone' /\ AloneFindsItsOwn'
  BY <1>1 DEF BiInv, RunHasRead, WrittenIsThere, AloneIsAlone, AloneFindsItsOwn, Removed
<1> QED BY <1>1, <1>3, <1>4 DEF BiInv, ScanTries, NotedFileExists, LoneRunMailsItsOwn

\* The runs beside a new one are no longer alone; the new one has nothing yet.
LEMMA RunStarts ==
  ASSUME BiInv, NEW x \in BiReportIds, NEW by \in {"request", "scan"}, StartRun(x, by)
  PROVE  /\ reportRuns' \in SUBSET BiRun /\ biTally' \in [runs : Nat, deletions : Nat, faults : Nat]
         /\ AloneIsAlone'
         /\ \A s \in reportRuns' :
              s.at = "cache"
                \/ \E q \in reportRuns : s.of = q.of /\ s.at = q.at /\ s.kpi = q.kpi
                                         /\ (s.alone = TRUE => q.alone = TRUE)
<1>1. PICK beside \in SUBSET reportRuns : beside = {r \in reportRuns : r.of = x}
  OBVIOUS
<1>2. PICK alone \in BOOLEAN : alone = (beside = {})
  OBVIOUS
<1>3. PICK run : run = [of |-> x, by |-> by, id |-> biTally.runs, at |-> "cache", kpi |-> 0,
                        mailed |-> 0, alone |-> alone]
  OBVIOUS
<1>4. PICK lone \in BOOLEAN : lone = FALSE
  OBVIOUS
<1>5. PICK others : others = {[r EXCEPT !.alone = lone] : r \in beside}
  OBVIOUS
<1>6. reportRuns' = {run} \cup (reportRuns \ beside) \cup others
  BY <1>1, <1>2, <1>3, <1>4, <1>5 DEF StartRun
<1>7. biTally' \in [runs : Nat, deletions : Nat, faults : Nat]
  BY DEF StartRun, BiInv, BiType
<1>8. run \in BiRun /\ run.of = x /\ run.at = "cache" /\ run.alone = (beside = {})
  BY <1>2, <1>3 DEF BiRun, BiInv, BiType
<1>9. ASSUME NEW s \in others
      PROVE  /\ s \in BiRun /\ s.alone = FALSE /\ s.of = x
             /\ \E q \in reportRuns : s.of = q.of /\ s.at = q.at /\ s.kpi = q.kpi
  <2>1. PICK r \in beside : s = [r EXCEPT !.alone = lone]
    BY <1>5, <1>9
  <2>2. r \in BiRun /\ r.of = x /\ r \in reportRuns
    BY <1>1, <2>1 DEF BiInv, BiType
  <2>3. /\ s \in BiRun /\ s.alone = FALSE /\ s.of = r.of /\ s.at = r.at /\ s.kpi = r.kpi
    BY <1>4, <2>1, <2>2 DEF BiRun
  <2> QED BY <2>2, <2>3
<1>10. reportRuns' \in SUBSET BiRun
  BY <1>6, <1>8, <1>9 DEF BiInv, BiType
<1>11. ASSUME NEW s \in reportRuns'
       PROVE  s.at = "cache"
                \/ \E q \in reportRuns : s.of = q.of /\ s.at = q.at /\ s.kpi = q.kpi
                                         /\ (s.alone = TRUE => q.alone = TRUE)
  BY <1>6, <1>8, <1>9, <1>11
<1>12. ASSUME NEW q \in reportRuns', NEW s \in reportRuns', q.alone = TRUE, s.of = q.of
       PROVE  s = q
  <2>1. q \notin others
    BY <1>9, <1>12
  <2>2. CASE q = run
    <3>1. beside = {} /\ others = {}
      BY <1>5, <1>8, <1>12, <2>2
    <3> QED BY <1>1, <1>6, <1>8, <1>12, <2>2, <3>1
  <2>3. CASE q # run
    <3>1. q \in reportRuns /\ q \notin beside /\ q.of # x
      BY <1>1, <1>6, <2>1, <2>3
    <3>2. s \in reportRuns
      BY <1>6, <1>8, <1>9, <1>12, <3>1
    <3> QED BY <1>12, <3>1, <3>2 DEF BiInv, AloneIsAlone
  <2> QED BY <2>2, <2>3
<1>13. AloneIsAlone'
  BY <1>12 DEF AloneIsAlone
<1> QED BY <1>7, <1>10, <1>11, <1>13

LEMMA StartKeeps ==
  ASSUME BiInv, NEW x \in BiReportIds, NEW by \in {"request", "scan"}, StartRun(x, by),
         UNCHANGED <<reportRow, reportFile, kpis, deletions, strayed>>
  PROVE  RunHasRead' /\ WrittenIsThere' /\ AloneIsAlone' /\ AloneFindsItsOwn'
<1>1. \A s \in reportRuns' :
        s.at = "cache"
          \/ \E q \in reportRuns : s.of = q.of /\ s.at = q.at /\ s.kpi = q.kpi
                                   /\ (s.alone = TRUE => q.alone = TRUE)
  BY RunStarts
<1>2. RunHasRead'
  BY <1>1 DEF BiInv, RunHasRead
<1>3. WrittenIsThere'
  BY <1>1 DEF BiInv, WrittenIsThere, Removed
<1>4. AloneFindsItsOwn'
  BY <1>1 DEF BiInv, AloneFindsItsOwn
<1> QED BY <1>2, <1>3, <1>4, RunStarts

LEMMA RunRequested ==
  ASSUME BiInv, NEW x \in BiReportIds, RequestRun(x) PROVE BiInv'
<1>1. /\ StartRun(x, "request")
      /\ UNCHANGED <<reportRow, reportFile, kpis, deletions, scan, strayed>>
  BY DEF RequestRun
<1>2. reportRuns' \in SUBSET BiRun /\ biTally' \in [runs : Nat, deletions : Nat, faults : Nat]
  BY <1>1, RunStarts
<1>3. BiType'
  BY <1>1, <1>2 DEF BiInv, BiType
<1>4. RunHasRead' /\ WrittenIsThere' /\ AloneIsAlone' /\ AloneFindsItsOwn'
  BY <1>1, StartKeeps
<1> QED BY <1>1, <1>3, <1>4 DEF BiInv, ScanTries, NotedFileExists, LoneRunMailsItsOwn

LEMMA ScanGoesOn ==
  ASSUME BiInv, NEW x \in BiReportIds, ScanNext(x) PROVE BiInv'
<1>1. UNCHANGED <<reportRow, reportFile, kpis, deletions, strayed>> /\ x \in scan.left
  BY DEF ScanNext
<1>2. StartRun(x, "scan") \/ UNCHANGED <<reportRuns, biTally>>
  BY DEF ScanNext
<1>3. /\ scan' \in [on : BOOLEAN, read : SUBSET BiReportIds, left : SUBSET BiReportIds,
                    tried : SUBSET BiReportIds, minute : BOOLEAN]
      /\ scan'.minute = scan.minute /\ scan'.on = scan.on /\ scan'.read = scan.read
      /\ scan'.left = scan.left \ {x}
      /\ scan'.tried = IF scan.minute = TRUE THEN scan.tried \cup {x} ELSE scan.tried
  <2>1. /\ scan \in [on : BOOLEAN, read : SUBSET BiReportIds, left : SUBSET BiReportIds,
                     tried : SUBSET BiReportIds, minute : BOOLEAN]
    BY DEF BiInv, BiType
  <2>2. \/ scan.minute = TRUE /\ scan' = [scan EXCEPT !.left = @ \ {x}, !.tried = @ \cup {x}]
        \/ scan.minute = FALSE /\ scan' = [scan EXCEPT !.left = @ \ {x}]
    BY <2>1 DEF ScanNext
  <2> QED BY <2>1, <2>2
<1>4. ScanTries'
  BY <1>1, <1>3 DEF BiInv, ScanTries
<1>5. CASE StartRun(x, "scan")
  <2>1. reportRuns' \in SUBSET BiRun /\ biTally' \in [runs : Nat, deletions : Nat, faults : Nat]
    BY <1>5, RunStarts
  <2>2. BiType'
    BY <1>1, <1>3, <2>1 DEF BiInv, BiType
  <2>3. RunHasRead' /\ WrittenIsThere' /\ AloneIsAlone' /\ AloneFindsItsOwn'
    BY <1>1, <1>5, StartKeeps
  <2> QED BY <1>1, <1>4, <2>2, <2>3 DEF BiInv, NotedFileExists, LoneRunMailsItsOwn
<1>6. CASE UNCHANGED <<reportRuns, biTally>>
  <2>1. BiType'
    BY <1>1, <1>3, <1>6 DEF BiInv, BiType
  <2>2. RunHasRead' /\ WrittenIsThere' /\ AloneIsAlone' /\ AloneFindsItsOwn'
    BY <1>1, <1>6 DEF BiInv, RunHasRead, WrittenIsThere, AloneIsAlone, AloneFindsItsOwn, Removed
  <2> QED BY <1>1, <1>4, <2>1, <2>2 DEF BiInv, NotedFileExists, LoneRunMailsItsOwn
<1> QED BY <1>2, <1>5, <1>6

\* Steps of the books and of the scan leave the reports as they are.
LEMMA ReportsStay ==
  ASSUME BiInv, BiType', ScanTries',
         UNCHANGED <<reportRow, reportFile, reportRuns, deletions, strayed>>
  PROVE  BiInv'
BY DEF BiInv, RunHasRead, WrittenIsThere, AloneIsAlone, AloneFindsItsOwn, Removed, NotedFileExists,
       LoneRunMailsItsOwn

LEMMA BooksChange ==
  ASSUME BiInv, Books \/ CacheExpires PROVE BiInv'
<1>1. UNCHANGED <<reportRow, reportFile, reportRuns, deletions, scan, strayed, biTally>>
  BY DEF Books, CacheExpires
<1>2. kpis' \in [books : Nat \ {0}, cached : Nat]
  BY DEF Books, CacheExpires, BiInv, BiType
<1>3. BiType' /\ ScanTries'
  BY <1>1, <1>2 DEF BiInv, BiType, ScanTries
<1> QED BY <1>1, <1>3, ReportsStay

LEMMA ScanSteps ==
  ASSUME BiInv, ScanStarts \/ MinutePasses \/ ScanEnds PROVE BiInv'
<1>1. UNCHANGED <<reportRow, reportFile, kpis, reportRuns, deletions, strayed, biTally>>
  BY DEF ScanStarts, MinutePasses, ScanEnds
<1>2. CASE ScanStarts
  <2>1. PICK found \in SUBSET BiReportIds : found = {x \in BiReportIds : Active(x)}
    OBVIOUS
  <2>2. PICK yes \in BOOLEAN : yes = TRUE
    OBVIOUS
  <2>3. scan' = [NoScan EXCEPT !.on = yes, !.read = found, !.left = found]
    BY <1>2, <2>1, <2>2 DEF ScanStarts
  <2>4. NoScan \in [on : BOOLEAN, read : SUBSET BiReportIds, left : SUBSET BiReportIds,
                    tried : SUBSET BiReportIds, minute : BOOLEAN]
    BY DEF NoScan
  <2>5. /\ scan' \in [on : BOOLEAN, read : SUBSET BiReportIds, left : SUBSET BiReportIds,
                      tried : SUBSET BiReportIds, minute : BOOLEAN]
        /\ scan'.on = yes /\ scan'.read = found /\ scan'.left = found
    BY <2>3, <2>4
  <2>6. BiType' /\ ScanTries'
    BY <1>1, <2>2, <2>5 DEF BiInv, BiType, ScanTries
  <2> QED BY <1>1, <2>6, ReportsStay
<1>3. CASE MinutePasses
  <2>1. PICK no \in BOOLEAN : no = FALSE
    OBVIOUS
  <2>2. scan' = [scan EXCEPT !.minute = no]
    BY <1>3, <2>1 DEF MinutePasses
  <2>3. BiType' /\ ScanTries'
    BY <1>1, <2>1, <2>2 DEF BiInv, BiType, ScanTries
  <2> QED BY <1>1, <2>3, ReportsStay
<1>4. CASE ScanEnds
  <2>1. PICK no \in BOOLEAN : no = FALSE
    OBVIOUS
  <2>2. scan' = [scan EXCEPT !.on = no] /\ scan.left = {}
    BY <1>4, <2>1 DEF ScanEnds
  <2>3. BiType' /\ ScanTries'
    BY <1>1, <2>1, <2>2 DEF BiInv, BiType, ScanTries
  <2> QED BY <1>1, <2>3, ReportsStay
<1> QED BY <1>2, <1>3, <1>4

LEMMA DeletionStarts ==
  ASSUME BiInv, NEW x \in BiReportIds, DeleteReport(x) PROVE BiInv'
<1>1. PICK ran \in BOOLEAN : ran = (reportRow[x] = "ran")
  OBVIOUS
<1>2. PICK d : d = [of |-> x, id |-> biTally.deletions, at |-> "read", ran |-> ran]
  OBVIOUS
<1>3. d \in BiDeletion /\ d.at = "read"
  BY <1>2 DEF BiInv, BiType, BiDeletion
<1>4. /\ deletions' = deletions \cup {d} /\ biTally' = [biTally EXCEPT !.deletions = @ + 1]
      /\ UNCHANGED <<reportRow, reportFile, kpis, reportRuns, scan, strayed>>
  BY <1>1, <1>2 DEF DeleteReport
<1>5. BiType'
  BY <1>3, <1>4 DEF BiInv, BiType
<1>6. \A y : Removed(y) => Removed(y)'
  BY <1>4 DEF Removed
<1>7. WrittenIsThere'
  BY <1>4, <1>6 DEF BiInv, WrittenIsThere
<1>8. RunHasRead' /\ AloneIsAlone' /\ AloneFindsItsOwn'
  BY <1>4 DEF BiInv, RunHasRead, AloneIsAlone, AloneFindsItsOwn
<1>9. NotedFileExists'
  BY <1>4 DEF BiInv, NotedFileExists
<1> QED BY <1>4, <1>5, <1>7, <1>8, <1>9 DEF BiInv, ScanTries, LoneRunMailsItsOwn

\* A deletion that removed the file is there to tell, until it removes the row.
LEMMA FileUnlinked ==
  ASSUME BiInv, NEW d \in deletions, Unlink(d) PROVE BiInv'
<1>1. d \in BiDeletion /\ d.of \in BiReportIds
  BY DEF BiInv, BiType, BiDeletion
<1>2. PICK e : e = [d EXCEPT !.at = "unlinked"]
  OBVIOUS
<1>3. e \in BiDeletion /\ e.of = d.of /\ e.at # "read"
  BY <1>1, <1>2 DEF BiDeletion
<1>4. /\ d.at = "read" /\ deletions' = (deletions \ {d}) \cup {e}
      /\ UNCHANGED <<reportRow, kpis, reportRuns, scan, strayed, biTally>>
  BY <1>2 DEF Unlink
<1>5. \A x \in BiReportIds :
        reportFile'[x] = IF x = d.of /\ d.ran THEN 0 ELSE reportFile[x]
  BY <1>1 DEF Unlink, BiInv, BiType
<1>6. reportFile' \in [BiReportIds -> Nat]
  BY <1>1 DEF Unlink, BiInv, BiType
<1>7. BiType'
  BY <1>3, <1>4, <1>6 DEF BiInv, BiType
<1>8. \A y : y = d.of \/ Removed(y) => Removed(y)'
  BY <1>3, <1>4 DEF Removed
<1>9. \A r \in reportRuns : r.of \in BiReportIds
  BY DEF BiInv, BiType, BiRun
<1>10. WrittenIsThere'
  BY <1>4, <1>5, <1>8, <1>9 DEF BiInv, WrittenIsThere
<1>11. RunHasRead' /\ AloneIsAlone'
  BY <1>4 DEF BiInv, RunHasRead, AloneIsAlone
<1>12. AloneFindsItsOwn'
  BY <1>4, <1>5, <1>9 DEF BiInv, AloneFindsItsOwn
<1>13. NotedFileExists'
  BY <1>3, <1>4, <1>5 DEF BiInv, NotedFileExists
<1> QED BY <1>4, <1>7, <1>10, <1>11, <1>12, <1>13 DEF BiInv, ScanTries, LoneRunMailsItsOwn

LEMMA RowDeleted ==
  ASSUME BiInv, NEW d \in deletions, DeleteRow(d) PROVE BiInv'
<1>1. d \in BiDeletion /\ d.of \in BiReportIds /\ d.at = "unlinked"
  BY DEF BiInv, BiType, BiDeletion, DeleteRow
<1>2. UNCHANGED <<reportFile, kpis, reportRuns, scan, strayed>>
  BY DEF DeleteRow
<1>3. \A r \in reportRuns : r.of \in BiReportIds
  BY DEF BiInv, BiType, BiRun
<1>4. biTally' \in [runs : Nat, deletions : Nat, faults : Nat]
  BY TallyCounts DEF BiInv, DeleteRow
<1>5. RunHasRead' /\ AloneIsAlone' /\ AloneFindsItsOwn'
  BY <1>2 DEF BiInv, RunHasRead, AloneIsAlone, AloneFindsItsOwn
<1>6. CASE deletions' = deletions \ {d} /\ reportRow' = [reportRow EXCEPT ![d.of] = "gone"]
  <2>1. \A x \in BiReportIds : reportRow'[x] = IF x = d.of THEN "gone" ELSE reportRow[x]
    BY <1>1, <1>6 DEF BiInv, BiType
  <2>2. BiType'
    BY <1>2, <1>4, <1>6 DEF BiInv, BiType
  <2>3. \A y : y # d.of /\ Removed(y) => Removed(y)'
    BY <1>6 DEF Removed
  <2>4. WrittenIsThere'
    BY <1>2, <1>3, <2>1, <2>3 DEF BiInv, WrittenIsThere
  <2>5. NotedFileExists'
    BY <1>2, <1>6, <2>1 DEF BiInv, NotedFileExists
  <2> QED BY <1>2, <1>5, <2>2, <2>4, <2>5 DEF BiInv, ScanTries, LoneRunMailsItsOwn
<1>7. CASE /\ deletions' = (deletions \ {d}) \cup {[d EXCEPT !.at = "failed"]}
           /\ reportRow' = reportRow
  <2>1. PICK e : e = [d EXCEPT !.at = "failed"]
    OBVIOUS
  <2>2. e \in BiDeletion /\ e.of = d.of /\ e.at # "read"
    BY <1>1, <2>1 DEF BiDeletion
  <2>3. deletions' = (deletions \ {d}) \cup {e}
    BY <1>7, <2>1
  <2>4. BiType'
    BY <1>2, <1>4, <1>7, <2>2, <2>3 DEF BiInv, BiType
  <2>5. \A y : Removed(y) => Removed(y)'
    BY <2>2, <2>3 DEF Removed
  <2>6. WrittenIsThere'
    BY <1>2, <1>7, <2>5 DEF BiInv, WrittenIsThere
  <2>7. NotedFileExists'
    BY <1>1, <1>2, <1>7, <2>2, <2>3 DEF BiInv, NotedFileExists
  <2> QED BY <1>2, <1>5, <2>4, <2>6, <2>7 DEF BiInv, ScanTries, LoneRunMailsItsOwn
<1> QED BY <1>6, <1>7 DEF DeleteRow

LEMMA BiInitially == BiInit => BiInv
<1> SUFFICES ASSUME BiInit PROVE BiInv
  OBVIOUS
<1>1. scan \in [on : BOOLEAN, read : SUBSET BiReportIds, left : SUBSET BiReportIds,
                tried : SUBSET BiReportIds, minute : BOOLEAN]
  BY DEF BiInit, NoScan
<1>2. BiType
  <2>1. /\ reportRow \in [BiReportIds -> {"fresh", "ran", "gone"}]
        /\ reportFile \in [BiReportIds -> Nat]
        /\ kpis \in [books : Nat \ {0}, cached : Nat]
    BY DEF BiInit
  <2>2. biTally \in [runs : Nat, deletions : Nat, faults : Nat]
    BY DEF BiInit
  <2>3. reportRuns = {} /\ deletions = {} /\ strayed \in BOOLEAN
    BY DEF BiInit
  <2> QED BY <1>1, <2>1, <2>2, <2>3 DEF BiType
<1>3. ScanTries
  BY DEF BiInit, NoScan, ScanTries
<1> QED BY <1>2, <1>3 DEF BiInit, BiInv, RunHasRead, WrittenIsThere, AloneIsAlone, AloneFindsItsOwn,
           NotedFileExists, LoneRunMailsItsOwn

LEMMA BiSteps == BiInv /\ [BiNext]_biVars => BiInv'
<1> SUFFICES ASSUME BiInv, [BiNext]_biVars PROVE BiInv'
  OBVIOUS
<1>1. CASE Books \/ CacheExpires
  BY <1>1, BooksChange
<1>2. ASSUME NEW x \in BiReportIds, RequestRun(x) \/ ScanNext(x) \/ DeleteReport(x) PROVE BiInv'
  BY <1>2, RunRequested, ScanGoesOn, DeletionStarts
<1>3. ASSUME NEW r \in reportRuns, RunStep(r) PROVE BiInv'
  BY <1>3, CacheRead, KpisLoaded, KpisStored, FileWritten, FileNoted, ReportMailed, RunLeaves
     DEF RunStep
<1>4. CASE ScanStarts \/ MinutePasses \/ ScanEnds
  BY <1>4, ScanSteps
<1>5. ASSUME NEW d \in deletions, Unlink(d) \/ DeleteRow(d) PROVE BiInv'
  BY <1>5, FileUnlinked, RowDeleted
<1>6. CASE UNCHANGED biVars
  <2>1. /\ UNCHANGED <<reportRow, reportFile, reportRuns, deletions, strayed>>
        /\ UNCHANGED <<kpis, scan, biTally>>
    BY <1>6 DEF biVars
  <2>2. BiType' /\ ScanTries'
    BY <2>1 DEF BiInv, BiType, ScanTries
  <2> QED BY <2>1, <2>2, ReportsStay
<1> QED BY <1>1, <1>2, <1>3, <1>4, <1>5, <1>6 DEF BiNext

LEMMA ReportsAlwaysHold == BiSpec => []ReportsHold
<1>1. BiInv => ReportsHold
  <2> SUFFICES ASSUME BiInv PROVE ReportsHold
    OBVIOUS
  <2>1. ScanReachesAll
    BY DEF BiInv, BiType, ScanTries, ScanReachesAll
  <2> QED BY <2>1 DEF BiInv, ReportsHold
<1> QED BY <1>1, BiInitially, BiSteps, PTL DEF BiSpec

\* What a row can become.
Groups ==
  {"AR", "Unassigned", "PARTIALLY_RECEIVED"} \cup OpenStates \cup ClosedStates \cup ChartDepts
Row ==
  [gone : BOOLEAN, worth : {1, 2}, days : Nat,
   group : Groups, who : ChartCrew \cup {"nobody"}]

ChartType == widget \in ChartKinds \cup {"none"} /\ books \in Seq(Row)

LEMMA RowSets ==
  ASSUME NEW W \in SUBSET {1, 2}, NEW D \in SUBSET Nat,
         NEW G \in SUBSET Groups,
         NEW H \in SUBSET (ChartCrew \cup {"nobody"})
  PROVE  [gone : BOOLEAN, worth : W, days : D, group : G, who : H] \subseteq Row
BY DEF Row

LEMMA RowsAreRows == ASSUME NEW kind \in ChartKinds PROVE RowsOf(kind) \subseteq Row
<1> SUFFICES ASSUME NEW r \in RowsOf(kind) PROVE r \in Row
  OBVIOUS
<1>1. CASE kind = "bill"
  <2>1. PICK W \in SUBSET {1, 2} : W = {1, 2}
    OBVIOUS
  <2>2. PICK D \in SUBSET Nat : D = {30, 60, 90}
    <3>1. {30, 60, 90} \in SUBSET Nat
      OBVIOUS
    <3> QED BY <3>1
  <2>3. PICK G \in SUBSET Groups : G = {"AR"}
    BY DEF Groups
  <2>4. PICK H \in SUBSET (ChartCrew \cup {"nobody"}) : H = {"nobody"}
    OBVIOUS
  <2>5. RowsOf(kind) = [gone : BOOLEAN, worth : W, days : D, group : G, who : H]
    BY <1>1, <2>1, <2>2, <2>3, <2>4 DEF RowsOf
  <2>6. [gone : BOOLEAN, worth : W, days : D, group : G, who : H] \subseteq Row
    BY RowSets
  <2> QED BY <2>5, <2>6
<1>2. CASE kind = "order" \/ kind = "project"
  <2>1. RowsOf(kind) = [gone : BOOLEAN, worth : {1}, days : {0}, group : StatesOf(kind),
                        who : {"nobody"}]
    BY <1>2 DEF RowsOf
  <2>2. StatesOf(kind) \subseteq Groups
    BY DEF StatesOf, Stages, Groups, OpenStates, ClosedStates
  <2> QED BY <2>1, <2>2 DEF Row
<1>3. CASE kind = "staff"
  <2>1. RowsOf(kind) = [gone : BOOLEAN, worth : {1}, days : {0},
                           group : ChartDepts \cup {"Unassigned"}, who : {"nobody"}]
    BY <1>3 DEF RowsOf
  <2>2. {1} \in SUBSET {1, 2} /\ {0} \in SUBSET Nat
    OBVIOUS
  <2>3. (ChartDepts \cup {"Unassigned"}) \in SUBSET Groups
    BY DEF Groups
  <2>4. {"nobody"} \in SUBSET (ChartCrew \cup {"nobody"})
    OBVIOUS
  <2> QED BY <2>1, <2>2, <2>3, <2>4, RowSets
<1>4. CASE kind = "resource"
  <2>1. RowsOf(kind) = [gone : BOOLEAN, worth : {1, 2}, days : {0}, group : ChartDepts,
                              who : ChartCrew]
    BY <1>4 DEF RowsOf
  <2>2. {1, 2} \in SUBSET {1, 2} /\ {0} \in SUBSET Nat
    OBVIOUS
  <2>3. ChartDepts \in SUBSET Groups
    BY DEF Groups
  <2>4. ChartCrew \in SUBSET (ChartCrew \cup {"nobody"})
    OBVIOUS
  <2> QED BY <2>1, <2>2, <2>3, <2>4, RowSets
<1> QED BY <1>1, <1>2, <1>3, <1>4 DEF ChartKinds

LEMMA ChartSteps == ChartType /\ [ChartNext]_chartVars => ChartType'
<1> SUFFICES ASSUME ChartType, [ChartNext]_chartVars PROVE ChartType'
  OBVIOUS
<1>1. CASE OpenWidget
  BY <1>1 DEF OpenWidget, ChartType
<1>2. CASE AddRow
  <2>1. widget \in ChartKinds
    BY <1>2 DEF AddRow, ChartType
  <2>2. PICK r \in RowsOf(widget) : books' = Append(books, r)
    BY <1>2 DEF AddRow
  <2>3. r \in Row
    BY <2>1, <2>2, RowsAreRows
  <2> QED BY <1>2, <2>2, <2>3 DEF AddRow, ChartType
<1>3. CASE ChangeRow
  <2>1. PICK k \in DOMAIN books :
          \/ books' = [books EXCEPT ![k].gone = ~@]
          \/ /\ widget \in {"order", "project"}
             /\ \E g \in StatesOf(widget) : books' = [books EXCEPT ![k].group = g]
    BY <1>3 DEF ChangeRow
  <2>2. books[k] \in Row /\ k \in 1 .. Len(books)
    BY <2>1, ElementOfSeq DEF ChartType
  <2>3. CASE books' = [books EXCEPT ![k].gone = ~@]
    <3>1. PICK r : r = [books[k] EXCEPT !.gone = ~@]
      OBVIOUS
    <3>2. r \in Row
      BY <2>2, <3>1 DEF Row
    <3>3. books' = [books EXCEPT ![k] = r]
      BY <2>3, <3>1
    <3> QED BY <1>3, <2>2, <3>2, <3>3, ExceptSeq DEF ChangeRow, ChartType
  <2>4. ASSUME widget \in {"order", "project"}, NEW g \in StatesOf(widget),
               books' = [books EXCEPT ![k].group = g]
        PROVE  ChartType'
    <3>1. PICK r : r = [books[k] EXCEPT !.group = g]
      OBVIOUS
    <3>2. r \in Row
      BY <2>2, <2>4, <3>1 DEF Row, StatesOf, Stages, Groups, OpenStates, ClosedStates
    <3>3. books' = [books EXCEPT ![k] = r]
      BY <2>4, <3>1
    <3> QED BY <1>3, <2>2, <3>2, <3>3, ExceptSeq DEF ChangeRow, ChartType
  <2> QED BY <2>1, <2>3, <2>4
<1>4. CASE DayPasses
  <2>1. ASSUME NEW k \in 1 .. Len(books) PROVE [books[k] EXCEPT !.days = @ + 1] \in Row
    <3>1. books[k] \in Row
      BY ElementOfSeq DEF ChartType
    <3> QED BY <3>1 DEF Row
  <2>2. /\ books' = [k \in 1 .. Len(books) |-> [books[k] EXCEPT !.days = @ + 1]]
        /\ Len(books) \in Nat /\ widget' = widget
    BY <1>4 DEF DayPasses, ChartType
  <2>3. books' \in Seq(Row)
    BY <2>1, <2>2
  <2> QED BY <2>2, <2>3 DEF ChartType
<1>5. CASE UNCHANGED chartVars
  BY <1>5 DEF chartVars, ChartType
<1> QED BY <1>1, <1>2, <1>3, <1>4, <1>5 DEF ChartNext

LEMMA RowAt ==
  ASSUME ChartType, NEW k \in DOMAIN books
  PROVE  books[k].gone \in BOOLEAN /\ books[k].days \in Nat /\ k \in Nat
<1>1. books[k] \in Row
  BY ElementOfSeq DEF ChartType
<1> QED BY <1>1 DEF Row, ChartType

\* The ageing: an open invoice the filter keeps is in the bar of its bucket.
LEMMA AgingBar ==
  ASSUME ChartType, widget = "bill", NEW f \in FiltersOf("bill"), NEW g \in Buckets
  PROVE  BarIsItsRows(f, g, AgingChart(f)[g])
<1>1. f.status \in {"all", "closed"}
  BY DEF FiltersOf
<1>2. SUFFICES ASSUME f.status # "closed", ~Skipped(g, f)
               PROVE  AgingChart(f)[g] = Worth(RowsBehind(g))
  BY DEF BarIsItsRows, DrillDowns
<1>3. PICK shown : shown = {k \in DOMAIN books : /\ books[k].gone = (f.status = "closed")
                                                /\ Bucket(books[k].days) = g /\ ~Skipped(g, f)}
  OBVIOUS
<1>4. shown = RowsBehind(g)
  BY <1>1, <1>2, <1>3, RowAt DEF RowsBehind
<1>5. AgingChart(f)[g] = Worth(shown)
  BY <1>3 DEF AgingChart
<1> QED BY <1>4, <1>5

\* The heat map: a cell is that of an allocation of its pair.
LEMMA HeatCell ==
  ASSUME ChartType, widget = "resource", NEW f, NEW S \in SUBSET DOMAIN books, NEW g \in DOMAIN HeatMap(S)
  PROVE  BarIsItsRows(f, g, HeatMap(S)[g])
<1>1. PICK k \in S : Pair(k) = g
  BY DEF HeatMap
<1>2. PICK first : first = CHOOSE i \in S : Pair(i) = g
  OBVIOUS
<1>3. first \in S /\ Pair(first) = g
  BY <1>1, <1>2
<1>4. HeatMap(S)[g] = books[first].worth
  BY <1>2 DEF HeatMap
<1>5. g[1] = books[first].group /\ g[2] = books[first].who
  BY <1>3 DEF Pair
<1>6. first \in RowsBehind(g)
  BY <1>3, <1>5 DEF RowsBehind
<1> QED BY <1>4, <1>5, <1>6 DEF BarIsItsRows, DrillDowns

\* The other charts: whether a row is counted shows in its group.
LEMMA GroupBar ==
  ASSUME ChartType, widget \in {"order", "project", "staff"}, NEW f, NEW g \in DOMAIN GroupChart(f)
  PROVE  BarIsItsRows(f, g, GroupChart(f)[g])
<1>1. PICK bar : bar = {k \in DOMAIN books : Counted(k, f) /\ books[k].group = g}
  OBVIOUS
<1>2. GroupChart(f)[g] = Cardinality(bar)
  <2>1. PICK shown : shown = {k \in DOMAIN books : Counted(k, f)}
    OBVIOUS
  <2>2. GroupChart(f)[g] = Cardinality({k \in shown : books[k].group = g})
    BY <2>1 DEF GroupChart
  <2>3. {k \in shown : books[k].group = g} = bar
    BY <1>1, <2>1
  <2> QED BY <2>2, <2>3
<1>3. CASE Admits(f, g)
  <2>1. bar = RowsBehind(g)
    BY <1>1, <1>3 DEF RowsBehind, Counted
  <2> QED BY <1>2, <1>3, <2>1 DEF BarIsItsRows, DrillDowns, Taken
<1>4. CASE ~Admits(f, g)
  <2>1. bar = {}
    BY <1>1, <1>4 DEF Counted
  <2> QED BY <1>2, <1>4, <2>1, FS_EmptySet DEF BarIsItsRows
<1> QED BY <1>3, <1>4

\* The KPIs: bounds of days and buckets are the same.
LEMMA KpiBar ==
  ASSUME ChartType, NEW f, NEW b \in Buckets
  PROVE  KpiAging(f)[b] = AgingChart(f)[b]
<1>1. PICK counted : counted = {k \in DOMAIN books : /\ books[k].gone = (f.status = "closed")
                                                    /\ ~Skipped(Bucket(books[k].days), f)}
  OBVIOUS
<1>2. PICK bar : bar = {k \in DOMAIN books : /\ books[k].gone = (f.status = "closed")
                                            /\ Bucket(books[k].days) = b /\ ~Skipped(b, f)}
  OBVIOUS
<1>3. AgingChart(f)[b] = Worth(bar)
  BY <1>2 DEF AgingChart
<1>4. \A k \in DOMAIN books : books[k].days \in Nat
  BY RowAt
<1>5. CASE b = "Current"
  <2>1. bar = {k \in counted : books[k].days <= 30}
    BY <1>1, <1>2, <1>4, <1>5 DEF Bucket
  <2>2. KpiAging(f)[b] = Worth({k \in counted : books[k].days <= 30})
    BY <1>1, <1>5 DEF KpiAging, Buckets
  <2> QED BY <1>3, <2>1, <2>2
<1>6. CASE b = "31-60"
  <2>1. bar = {k \in counted : 30 < books[k].days /\ books[k].days <= 60}
    BY <1>1, <1>2, <1>4, <1>6 DEF Bucket
  <2>2. KpiAging(f)[b] = Worth({k \in counted : 30 < books[k].days /\ books[k].days <= 60})
    BY <1>1, <1>6 DEF KpiAging, Buckets
  <2> QED BY <1>3, <2>1, <2>2
<1>7. CASE b = "61-90"
  <2>1. bar = {k \in counted : 60 < books[k].days /\ books[k].days <= 90}
    BY <1>1, <1>2, <1>4, <1>7 DEF Bucket
  <2>2. KpiAging(f)[b] = Worth({k \in counted : 60 < books[k].days /\ books[k].days <= 90})
    BY <1>1, <1>7 DEF KpiAging, Buckets
  <2> QED BY <1>3, <2>1, <2>2
<1>8. CASE b = "90+"
  <2>1. bar = {k \in counted : books[k].days > 90}
    BY <1>1, <1>2, <1>4, <1>8 DEF Bucket
  <2>2. KpiAging(f)[b] = Worth({k \in counted : books[k].days > 90})
    BY <1>1, <1>8 DEF KpiAging, Buckets
  <2> QED BY <1>3, <2>1, <2>2
<1> QED BY <1>5, <1>6, <1>7, <1>8 DEF Buckets

LEMMA ChartsTellAll == ChartType => ChartsTell
<1> SUFFICES ASSUME ChartType PROVE ChartsTell
  OBVIOUS
<1>1. KpisAgeAlike
  BY KpiBar DEF KpisAgeAlike
<1>3. ASSUME widget # "none", NEW f \in FiltersOf(widget), NEW chart \in ChartsOf(f),
             NEW g \in DOMAIN chart
      PROVE  BarIsItsRows(f, g, chart[g])
  <2>1. CASE widget = "bill"
    <3>1. chart = AgingChart(f) /\ DOMAIN AgingChart(f) = Buckets
      BY <1>3, <2>1 DEF ChartsOf, AgingChart
    <3> QED BY <1>3, <2>1, <3>1, AgingBar
  <2>2. CASE widget = "resource"
    <3>1. PICK S \in SUBSET DOMAIN books : chart = HeatMap(S)
      BY <1>3, <2>2 DEF ChartsOf, Cells, Taken
    <3> QED BY <1>3, <2>2, <3>1, HeatCell
  <2>3. CASE widget \in {"order", "project", "staff"}
    <3>1. chart = GroupChart(f)
      BY <1>3, <2>3 DEF ChartsOf
    <3> QED BY <1>3, <2>3, <3>1, GroupBar
  <2> QED BY <1>3, <2>1, <2>2, <2>3 DEF ChartType, ChartKinds
<1>4. BarsAreTheirRows
  BY <1>3 DEF BarsAreTheirRows
<1> QED BY <1>1, <1>4 DEF ChartsTell

(* A downloaded report has its file, a run without another beside it mails the *)
(* numbers it read, a scan tries every report it read; and a bar of a chart    *)
(* counts the rows behind it, of which its drill-down lists as many as its     *)
(* limit allows, and ages them as the KPIs do.                                 *)
THEOREM AnalyticsAlwaysTells == BiSpec /\ ChartSpec => []AnalyticsTells
<1>1. ChartInit => ChartType
  BY DEF ChartInit, ChartType
<1>2. ChartSpec => []ChartType
  BY <1>1, ChartSteps, PTL DEF ChartSpec
<1>3. ReportsHold /\ ChartType => AnalyticsTells
  BY ChartsTellAll DEF AnalyticsTells
<1> QED BY <1>2, <1>3, ReportsAlwaysHold, PTL
=============================================================================
