------------------------------ MODULE MCSales ------------------------------
(* Receivables, the seeded purchase-order workflow, the stock of one       *)
(* warehouse, and the reports and charts of the analytics.  They share no  *)
(* state, so that a run checks them side by side: each steps only while    *)
(* the others are as they began.                                           *)
EXTENDS Receivables, Workflow, Inventory, BiService, TLC

CONSTANTS a, b

\* Workflow: a revision without rejections, one document.
Revised == {t \in PoTransitions : t.label # "Reject"}
MCContents == {PoTransitions, Revised}

\* Bound: two requests overlap on a document; it takes no further ones.
OneOverlap ==
  \A d \in Documents : Executing(d)' \subseteq Executing(d) \/ d \notin tangled

\* Inventory: a delivery of one line, of both products in either order, or of
\* one product twice.
OfOne(p, q) == [product |-> p, quantity |-> q]
SomeDeliveries == {<<OfOne(a, 2)>>, <<OfOne(a, 1), OfOne(b, 1)>>,
                   <<OfOne(b, 1), OfOne(a, 1)>>, <<OfOne(a, 1), OfOne(a, 2)>>}

\* Charts: two rows at most of each list.
MCTakeLimit == [kind \in {"order", "project", "staff", "resource"} |-> 2]

\* Ids of one kind are interchangeable; invoices and definitions share theirs,
\* receipts and reports, and the requests for both.
SalesSymmetry ==
  UNION {Permutations(ArInvoices \cap WfDefinitions), Permutations(Receipts \cap BiReportIds),
         Permutations(SalesRequests \cap WfRequests)}

SalesInit == ReceivablesInit /\ WorkflowInit /\ Init /\ BiInit /\ ChartInit

SalesNext ==
  \/ /\ WorkflowInit /\ Init /\ BiInit /\ ChartInit
     /\ ReceivablesNext
     /\ UNCHANGED <<workflowVars, vars, biVars, chartVars>>
  \/ /\ ReceivablesInit /\ Init /\ BiInit /\ ChartInit
     /\ WorkflowNext /\ OneOverlap
     /\ UNCHANGED <<receivablesVars, vars, biVars, chartVars>>
  \/ /\ ReceivablesInit /\ WorkflowInit /\ BiInit /\ ChartInit
     /\ Next
     /\ UNCHANGED <<receivablesVars, workflowVars, biVars, chartVars>>
  \/ /\ ReceivablesInit /\ WorkflowInit /\ Init /\ ChartInit
     /\ BiNext
     /\ UNCHANGED <<receivablesVars, workflowVars, vars, chartVars>>
  \/ /\ ReceivablesInit /\ WorkflowInit /\ Init /\ BiInit
     /\ ChartNext
     /\ UNCHANGED <<receivablesVars, workflowVars, vars, biVars>>

SalesSpec ==
  SalesInit /\ [][SalesNext]_<<receivablesVars, workflowVars, vars, biVars, chartVars>>
=============================================================================
