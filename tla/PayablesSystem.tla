--------------------------- MODULE PayablesSystem ---------------------------
(***************************************************************************)
(* The accounts-payable service together with the delivery of its events:  *)
(* every step of Payables that commits, emits or enqueues an event is the  *)
(* same step of Delivery, and a crash stops both.                          *)
(***************************************************************************)
EXTENDS Payables

CONSTANTS MaxFaults, CanClose   \* those of Delivery

ASSUME SystemAssumption == MaxFaults \in Nat /\ CanClose \in BOOLEAN

VARIABLES rowStatus, tasks, posts, audited, jobs, active, period, beaten, faults

deliveryVars == <<rowStatus, tasks, posts, audited, jobs, active, period, beaten, faults>>

Sources == Invoices \cup EventIds

\* sourceId and entityId: the payment of a payment.made event, the invoice of
\* an invoice.approved event.
SourceOf(e) == IF outbox[e].type = "payment.made" THEN e ELSE outbox[e].invoice

EventOf == [e \in DOMAIN outbox |->
              [source |-> SourceOf(e), amount |-> outbox[e].amount]]

HandlersOf == {req[r] : r \in {q \in Requests : req[q].pc \in {"emit", "enqueue"}}}

D == INSTANCE Delivery WITH event <- EventOf, handlers <- HandlersOf,
                            Amounts <- Int

systemVars == <<vars, deliveryVars>>

SystemInit == Init /\ D!Init

SystemCommit(r, e) ==
  /\ Commit(r, e)
  /\ D!Commit(e, EventOf'[e].source, EventOf'[e].amount)

SystemEmit(r) == Emit(r) /\ D!Emit(req[r].ev)

SystemEnqueue(r) ==
  /\ Enqueue(r)
  /\ D!Enqueue(req[r].ev) \/ D!EnqueueFails(req[r].ev)

SystemNext ==
  \/ \E r \in Requests, e \in EventIds : SystemCommit(r, e)
  \/ \E r \in Requests :
       \/ Local(r) /\ UNCHANGED deliveryVars
       \/ SystemEmit(r)
       \/ SystemEnqueue(r)
  \/ UNCHANGED vars /\ D!Background
  \/ Crash /\ D!Crash

SystemSpec == SystemInit /\ [][SystemNext]_systemVars

-----------------------------------------------------------------------------
\* Nothing is on its way to the ledger.
Quiet ==
  /\ HandlersOf = {}
  /\ \A t \in tasks : t.listener # "gl"

\* ApService, handleInvoiceApproved and handlePaymentMade: as long as nothing
\* failed and the period is not closed, the ledger agrees with the subledger
\* whenever nothing is in flight: what was approved is posted, every payment is
\* posted exactly once, and what nobody approved is not posted.  Only what found
\* the month's period opened under it may be missing.
LedgerTiesWhenQuiet ==
  Quiet /\ faults = 0 /\ period # "locked" =>
    /\ \A a \in Approvals :
         LET i == outbox[a].invoice IN Total[i] > 0 => posts[i] > 0 \/ i \in beaten
    /\ \A p \in Payments : outbox[p].amount > 0 => posts[p] = 1 \/ p \in beaten

\* handleInvoiceApproved and handlePaymentMade, whatever fails, crashes or is
\* relayed: the ledger never shows an invoice nobody approved, a payment
\* nobody committed, or a payment twice.
LedgerIsBacked ==
  /\ \A i \in Invoices :
       posts[i] > 0 => Total[i] > 0 /\ \E a \in Approvals : outbox[a].invoice = i
  /\ \A e \in EventIds :
       posts[e] <= IF e \in Payments /\ outbox[e].amount > 0 THEN 1 ELSE 0

\* ApService, the outbox and the listeners together: the ledger shows nothing the
\* subledger does not back, and all of it once nothing is under way.
LedgerFollows == LedgerIsBacked /\ LedgerTiesWhenQuiet
=============================================================================
