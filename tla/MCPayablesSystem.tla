-------------------------- MODULE MCPayablesSystem --------------------------
(* PayablesSystem on small instances.                                      *)
EXTENDS PayablesSystem, TLC

TotalOfTwo == [i \in Invoices |-> 2]
\* A client takes back 1; what is owed, 2 or 3, is paid by runs.
TakenBackOnly == {-1}
IdSymmetry == Permutations(Requests) \cup Permutations(EventIds)
=============================================================================
