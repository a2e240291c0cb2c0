------------------------------ MODULE MCRecords -----------------------------
(* Accounts payable, the three-way match, replenishment, the audit trail,  *)
(* requests of data subjects and forecasts.  They share no state, so that  *)
(* a run checks them side by side: each steps only while the others are as *)
(* they began.                                                             *)
EXTENDS Payables, Matching, Replenishment, Audit, Forecasts, TLC

CONSTANTS nut, bolt

TotalOfTwo == [i \in Invoices |-> 2]

\* Partial payments, empty ones and ones that take back; runs pay in full.
SomeAmounts == {-1, 0, 1}

\* An order with a product on two lines at two prices, and invoices of it within
\* and beyond the tolerance, with a line twice, without lines and without products.
SomeOrder == <<[product |-> nut, quantity |-> 2, unitPrice |-> 100],
               [product |-> nut, quantity |-> 1, unitPrice |-> 200]>>
Line(product, quantity, unitPrice) ==
  [product |-> product, quantity |-> quantity, unitPrice |-> unitPrice]
SomeBills ==
  {[lines |-> <<Line(nut, 1, 100)>>, total |-> 100],
   [lines |-> <<Line(nut, 2, 102)>>, total |-> 204],
   [lines |-> <<Line(nut, 1, 103)>>, total |-> 103],
   [lines |-> <<Line(nut, 1, 100), Line(nut, 1, 100)>>, total |-> 200],
   [lines |-> <<>>, total |-> 400],
   [lines |-> <<Line(NoProduct, 3, 200)>>, total |-> 600]}

\* Two rules of one product, as a change of its thresholds leaves them.
SomeRules == <<[product |-> bolt, threshold |-> 2, quantity |-> 1],
               [product |-> bolt, threshold |-> 1, quantity |-> 1]>>

\* Requests are interchangeable; the modules share the set of them.
RecordSymmetry ==
  Permutations(Invoices) \cup Permutations(Requests \cap Dsrs \cap Reads \cap BuyRequests)
  \cup Permutations(Entries \cap Fulfilments \cap Trainings) \cup Permutations(Vendors)

\* Ids are interchangeable too: rows take them in order.
IdsInOrder == DOMAIN outbox' = 1..Cardinality(DOMAIN outbox')

recordVars == <<vars, auditVars, gdprVars, forecastVars, matchVars, buyVars>>

RecordsInit ==
  /\ Init
  /\ AuditInit
  /\ GdprInit
  /\ ForecastInit
  /\ MatchInit
  /\ ReplenishmentInit

RecordsNext ==
  \/ /\ AuditInit /\ GdprInit /\ ForecastInit /\ MatchInit /\ ReplenishmentInit
     /\ Next /\ IdsInOrder
     /\ UNCHANGED <<auditVars, gdprVars, forecastVars, matchVars, buyVars>>
  \/ /\ Init /\ GdprInit /\ ForecastInit /\ MatchInit /\ ReplenishmentInit
     /\ AuditNext
     /\ UNCHANGED <<vars, gdprVars, forecastVars, matchVars, buyVars>>
  \/ /\ Init /\ AuditInit /\ ForecastInit /\ MatchInit /\ ReplenishmentInit
     /\ GdprNext
     /\ UNCHANGED <<vars, auditVars, forecastVars, matchVars, buyVars>>
  \/ /\ Init /\ AuditInit /\ GdprInit /\ MatchInit /\ ReplenishmentInit
     /\ ForecastNext
     /\ UNCHANGED <<vars, auditVars, gdprVars, matchVars, buyVars>>
  \/ /\ Init /\ AuditInit /\ GdprInit /\ ForecastInit /\ ReplenishmentInit
     /\ MatchNext
     /\ UNCHANGED <<vars, auditVars, gdprVars, forecastVars, buyVars>>
  \/ /\ Init /\ AuditInit /\ GdprInit /\ ForecastInit /\ MatchInit
     /\ ReplenishmentNext
     /\ UNCHANGED <<vars, auditVars, gdprVars, forecastVars, matchVars>>

RecordsSpec == RecordsInit /\ [][RecordsNext]_recordVars
=============================================================================
