-------------------------- MODULE WorkflowContract --------------------------
(***************************************************************************)
(* What the workflow engine keeps for every document even when requests    *)
(* overlap: it only ever moves along a transition of some definition that  *)
(* leaves a state the document has been in, it posts only for such a       *)
(* transition, and it takes a transition whose action posts to the ledger  *)
(* only after a posting.                                                   *)
(***************************************************************************)
CONSTANTS Documents, StartState, Contents

VARIABLES at, reached, posted

contractVars == <<at, reached, posted>>

Moves == UNION Contents

ContractInit ==
  /\ at = [d \in Documents |-> "none"]
  /\ reached = [d \in Documents |-> {}]
  /\ posted = {}

Enter(d, s) ==
  /\ at' = [at EXCEPT ![d] = s]
  /\ reached' = [reached EXCEPT ![d] = @ \cup {s}]
  /\ UNCHANGED posted

Start(d) == at[d] = "none" /\ Enter(d, StartState)

Post(d) ==
  /\ \E t \in Moves : t.from \in reached[d] /\ t.posts
  /\ posted' = posted \cup {d}
  /\ UNCHANGED <<at, reached>>

Move(d, t) ==
  /\ t.from \in reached[d]
  /\ t.posts => d \in posted
  /\ Enter(d, t.to)

ContractNext ==
  \E d \in Documents : Start(d) \/ Post(d) \/ \E t \in Moves : Move(d, t)

ContractSpec == ContractInit /\ [][ContractNext]_contractVars
=============================================================================
