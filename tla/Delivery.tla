------------------------------ MODULE Delivery ------------------------------
(***************************************************************************)
(* What happens to a committed domain event of the finance module: the     *)
(* in-process EventEmitter2 listeners (ledger posting, audit log), the     *)
(* OutboxEvent row and the BullMQ job of the finance-outbox queue that     *)
(* OutboxProcessor runs to make up for a delivery that never happened.     *)
(*                                                                         *)
(* Events, their source (the invoice or payment they are about) and their  *)
(* amount come from the service that commits them.  The queue lives in     *)
(* Redis and survives a crash of the API; listeners and handlers do not.   *)
(***************************************************************************)
EXTENDS Integers

CONSTANTS
  EventIds,   \* ids of outbox rows; bounds the number of committed events
  Sources,    \* invoices and payments
  Amounts,    \* amounts of the events
  MaxFaults,  \* bound on crashes, failed queue adds and database errors
  CanClose    \* whether an accountant may close the fiscal period

ASSUME DeliveryAssumption ==
  /\ Amounts \subseteq Int
  /\ MaxFaults \in Nat
  /\ CanClose \in BOOLEAN

VARIABLES
  event,      \* source and amount of each committed event
  rowStatus,  \* OutboxEvent.status, "NONE" before the row exists
  handlers,   \* service handlers between their commit and their return
  tasks,      \* listener invocations running in the API process
  posts,      \* number of journal entries by sourceId
  audited,    \* entities with their audit entry
  jobs,       \* waiting jobs of the finance-outbox queue
  active,     \* the job the worker holds, if any
  period,     \* the current month's FiscalPeriod: absent, open, locked
  beaten,     \* sources a posting of which found that another had just opened
              \* the period (not stored)
  faults      \* faults so far

vars == <<event, rowStatus, handlers, tasks, posts, audited, jobs, active,
          period, beaten, faults>>

Task == [listener : {"gl", "audit"}, ev : EventIds,
         origin : {"sync", "relay"}, pc : {"check", "period", "open", "post"}]
Job == [ev : EventIds, pc : {"mark", "ack"}]

Source(e) == event[e].source

\* One invocation of each listener.
Deliveries(e, origin) ==
  [listener : {"gl", "audit"}, ev : {e}, origin : {origin}, pc : {"check"}]

Init ==
  /\ event = [e \in {} |-> 0]
  /\ rowStatus = [e \in EventIds |-> "NONE"]
  /\ handlers = {}
  /\ tasks = {}
  /\ posts = [s \in Sources |-> 0]
  /\ audited = {}
  /\ jobs = {}
  /\ active = {}
  /\ period = "absent"
  /\ beaten = {}
  /\ faults = 0

-----------------------------------------------------------------------------
(* The handler that committed the event                                    *)

\* The transaction that inserts the row commits.
Commit(e, source, amount) ==
  /\ e \notin DOMAIN event
  /\ event' = [x \in DOMAIN event \cup {e} |->
                 IF x = e THEN [source |-> source, amount |-> amount]
                          ELSE event[x]]
  /\ rowStatus' = [rowStatus EXCEPT ![e] = "PENDING"]
  /\ handlers' = handlers \cup {[pc |-> "emit", ev |-> e]}
  /\ UNCHANGED <<tasks, posts, audited, jobs, active, period, beaten, faults>>

\* eventEmitter.emit starts one invocation of each listener.
Emit(e) ==
  /\ [pc |-> "emit", ev |-> e] \in handlers
  /\ handlers' = (handlers \ {[pc |-> "emit", ev |-> e]})
                   \cup {[pc |-> "enqueue", ev |-> e]}
  /\ tasks' = tasks \cup Deliveries(e, "sync")
  /\ UNCHANGED <<event, rowStatus, posts, audited, jobs, active, period, beaten, faults>>

\* outboxQueue.add
Enqueue(e) ==
  /\ [pc |-> "enqueue", ev |-> e] \in handlers
  /\ handlers' = handlers \ {[pc |-> "enqueue", ev |-> e]}
  /\ jobs' = jobs \cup {e}
  /\ UNCHANGED <<event, rowStatus, tasks, posts, audited, active, period, beaten, faults>>

\* outboxQueue.add rejects (Redis is down): the row stays, the job does not.
EnqueueFails(e) ==
  /\ faults < MaxFaults
  /\ [pc |-> "enqueue", ev |-> e] \in handlers
  /\ handlers' = handlers \ {[pc |-> "enqueue", ev |-> e]}
  /\ faults' = faults + 1
  /\ UNCHANGED <<event, rowStatus, tasks, posts, audited, jobs, active, period, beaten>>

-----------------------------------------------------------------------------
(* Listeners                                                               *)

\* A lookup that asks for any entry of the module, not for this source.
KnownToModule(e) == \E s \in Sources : posts[s] > 0

\* The duplicate lookup: a journal entry with this sourceId exists.
Known(e) == posts[Source(e)] > 0

GoesOn(t, pc) == tasks' = (tasks \ {t}) \cup {[t EXCEPT !.pc = pc]}

\* handleInvoiceApproved / handlePaymentMade up to the duplicate lookup; only
\* amounts above 0 are posted.
GlCheck(t) ==
  /\ t.listener = "gl" /\ t.pc = "check"
  /\ IF event[t.ev].amount <= 0 \/ Known(t.ev) THEN tasks' = tasks \ {t}
     ELSE GoesOn(t, "period")
  /\ UNCHANGED <<event, rowStatus, handlers, posts, audited, jobs, active,
                 period, beaten, faults>>

\* The rule if the relayed payload did carry the tenant.
HasTenantRelayed(t) == TRUE

\* The payload OutboxProcessor emits has no tenantId.
HasTenant(t) == t.origin = "sync"

\* Their lookup of the current month's period, which throws without a tenant.
FindPeriod(t) ==
  /\ t.listener = "gl" /\ t.pc = "period"
  /\ IF ~HasTenant(t) THEN tasks' = tasks \ {t}
     ELSE GoesOn(t, IF period = "absent" THEN "open" ELSE "post")
  /\ UNCHANGED <<event, rowStatus, handlers, posts, audited, jobs, active,
                 period, beaten, faults>>

\* openFiscalPeriod by a listener that found none; the name is unique, so that
\* it throws, and nothing is posted, when somebody opened the month meanwhile.
CreatePeriod(t) ==
  /\ t.listener = "gl" /\ t.pc = "open"
  /\ \/ /\ period = "absent"
        /\ period' = "open"
        /\ GoesOn(t, "post")
        /\ UNCHANGED beaten
     \/ /\ period # "absent"
        /\ tasks' = tasks \ {t}
        /\ beaten' = beaten \cup {Source(t.ev)}
        /\ UNCHANGED period
  /\ UNCHANGED <<event, rowStatus, handlers, posts, audited, jobs, active, faults>>

\* Their createJournalEntry, which refuses a locked period.
GlPost(t) ==
  /\ t.listener = "gl" /\ t.pc = "post"
  /\ tasks' = tasks \ {t}
  /\ posts' = IF period = "open" THEN [posts EXCEPT ![Source(t.ev)] = @ + 1]
                                 ELSE posts
  /\ UNCHANGED <<event, rowStatus, handlers, audited, jobs, active, period, beaten,
                 faults>>

\* onInvoiceApproved / onPaymentMade of the audit listener; without tenantId
\* the insert throws.
AuditRecord(t) ==
  /\ t.listener = "audit"
  /\ tasks' = tasks \ {t}
  /\ audited' = IF t.origin = "sync" THEN audited \cup {Source(t.ev)}
                                     ELSE audited
  /\ UNCHANGED <<event, rowStatus, handlers, posts, jobs, active, period, beaten, faults>>

\* A database error in a listener is logged; the delivery is gone.
ListenerFails(t) ==
  /\ faults < MaxFaults
  /\ tasks' = tasks \ {t}
  /\ faults' = faults + 1
  /\ UNCHANGED <<event, rowStatus, handlers, posts, audited, jobs, active, period, beaten>>

\* openFiscalPeriod by an accountant or for any other posting of the month.
OpenFiscalPeriod ==
  /\ period = "absent"
  /\ period' = "open"
  /\ UNCHANGED <<event, rowStatus, handlers, tasks, posts, audited, jobs, active,
                 beaten, faults>>

\* closeFiscalPeriod
ClosePeriod ==
  /\ CanClose /\ period = "open"
  /\ period' = "locked"
  /\ UNCHANGED <<event, rowStatus, handlers, tasks, posts, audited, jobs, active,
                 beaten, faults>>

-----------------------------------------------------------------------------
(* OutboxProcessor                                                         *)

\* A worker that does not look at the status of the row.
ProcessAnyRow(e) ==
  /\ active = {}
  /\ e \in jobs
  /\ jobs' = jobs \ {e}
  /\ active' = {[ev |-> e, pc |-> "mark"]}
  /\ tasks' = IF Source(e) \in audited THEN tasks
              ELSE tasks \cup Deliveries(e, "relay")
  /\ UNCHANGED <<event, rowStatus, handlers, posts, audited, period, beaten, faults>>

\* A worker that takes a row delivered in process for finished.
ProcessIfUndelivered(e) ==
  /\ active = {}
  /\ e \in jobs
  /\ jobs' = jobs \ {e}
  /\ active' = {[ev |-> e, pc |-> IF Source(e) \in audited THEN "ack" ELSE "mark"]}
  /\ tasks' = IF Source(e) \in audited THEN tasks
              ELSE tasks \cup Deliveries(e, "relay")
  /\ UNCHANGED <<event, rowStatus, handlers, posts, audited, period, beaten, faults>>

\* The worker takes a job, looks at the row and at the audit log, and emits
\* the event again when the log has no entry for its source.
Process(e) ==
  /\ active = {}
  /\ e \in jobs
  /\ jobs' = jobs \ {e}
  /\ IF rowStatus[e] # "PENDING"
     THEN /\ active' = {[ev |-> e, pc |-> "ack"]}
          /\ UNCHANGED tasks
     ELSE /\ active' = {[ev |-> e, pc |-> "mark"]}
          /\ tasks' = IF Source(e) \in audited THEN tasks
                      ELSE tasks \cup Deliveries(e, "relay")
  /\ UNCHANGED <<event, rowStatus, handlers, posts, audited, period, beaten, faults>>

MarkProcessed(j) ==
  /\ j.pc = "mark"
  /\ rowStatus' = [rowStatus EXCEPT ![j.ev] = "PROCESSED"]
  /\ active' = {[ev |-> j.ev, pc |-> "ack"]}
  /\ UNCHANGED <<event, handlers, tasks, posts, audited, jobs, period, beaten, faults>>

\* A database error inside the try block: FAILED, and the error is rethrown.
\* The queue's default is one attempt, so the job is not run again.
MarkFailed(j) ==
  /\ faults < MaxFaults
  /\ j.pc = "mark"
  /\ rowStatus' = [rowStatus EXCEPT ![j.ev] = "FAILED"]
  /\ active' = {[ev |-> j.ev, pc |-> "ack"]}
  /\ faults' = faults + 1
  /\ UNCHANGED <<event, handlers, tasks, posts, audited, jobs, period, beaten>>

\* BullMQ removes the job once process() has settled.
Ack(j) ==
  /\ j.pc = "ack"
  /\ active' = {}
  /\ UNCHANGED <<event, rowStatus, handlers, tasks, posts, audited, jobs,
                 period, beaten, faults>>

\* The API process dies.  Handlers and listeners are gone; a job it held is
\* stalled, and BullMQ hands it out again.
Crash ==
  /\ faults < MaxFaults
  /\ handlers' = {}
  /\ tasks' = {}
  /\ jobs' = jobs \cup {j.ev : j \in active}
  /\ active' = {}
  /\ faults' = faults + 1
  /\ UNCHANGED <<event, rowStatus, posts, audited, period, beaten>>

-----------------------------------------------------------------------------
Continue(e) == Emit(e) \/ Enqueue(e)
Listen(t) == GlCheck(t) \/ FindPeriod(t) \/ CreatePeriod(t) \/ GlPost(t) \/ AuditRecord(t)
Work ==
  \/ \E e \in EventIds : Process(e)
  \/ \E j \in active : MarkProcessed(j) \/ Ack(j)

\* Steps of the listeners, the worker, the accountant and single failures.
Background ==
  \/ \E t \in tasks : Listen(t) \/ ListenerFails(t)
  \/ Work
  \/ \E j \in active : MarkFailed(j)
  \/ OpenFiscalPeriod \/ ClosePeriod

Next ==
  \/ \E e \in EventIds, s \in Sources, a \in Amounts : Commit(e, s, a)
  \/ \E e \in EventIds : Continue(e) \/ EnqueueFails(e)
  \/ Background
  \/ Crash

Spec == Init /\ [][Next]_vars

\* Node runs every continuation that is ready and BullMQ hands out every
\* waiting job, so what was started goes on; clients, accountants and faults
\* owe nothing.
DeliveryFairness ==
  /\ \A e \in EventIds : WF_vars(Continue(e))
  /\ WF_vars(\E t \in tasks : Listen(t))
  /\ WF_vars(Work)

FairSpec == Spec /\ DeliveryFairness

-----------------------------------------------------------------------------
\* Every variable of the delivery path stays in its type, and rows and events
\* come into being together.
TypeOK ==
  /\ DOMAIN event \subseteq EventIds
  /\ event \in [DOMAIN event -> [source : Sources, amount : Amounts]]
  /\ rowStatus \in [EventIds -> {"NONE", "PENDING", "PROCESSED", "FAILED"}]
  /\ \A e \in EventIds : e \in DOMAIN event <=> rowStatus[e] # "NONE"
  /\ handlers \subseteq [pc : {"emit", "enqueue"}, ev : DOMAIN event]
  /\ tasks \subseteq Task /\ \A t \in tasks : t.ev \in DOMAIN event
  /\ posts \in [Sources -> Nat]
  /\ audited \subseteq Sources
  /\ jobs \subseteq DOMAIN event
  /\ active \subseteq Job /\ \A j \in active : j.ev \in DOMAIN event
  /\ period \in {"absent", "open", "locked"}
  /\ beaten \subseteq Sources
  /\ faults \in 0 .. MaxFaults

Unique(e) == \A f \in DOMAIN event : Source(f) = Source(e) => f = e

\* handlePaymentMade: a source announced by one event, as every payment is,
\* gets at most one journal entry, although the event is delivered in process,
\* relayed when the worker does not find the audit entry, and relayed again
\* after a crash.
SingleEventPostedOnce ==
  \A e \in DOMAIN event : Unique(e) => posts[Source(e)] <= 1

\* OutboxProcessor.process: a row that was settled keeps its status even when
\* the worker dies between the update and the removal of the job and the job
\* runs again.
SettledRowsStay ==
  [][\A e \in EventIds :
       rowStatus[e] \in {"PROCESSED", "FAILED"} => rowStatus'[e] = rowStatus[e]]_vars

\* Class comment of OutboxProcessor, at-least-once delivery: the source of
\* every committed event gets its audit entry.
EventsAreDelivered ==
  \A e \in EventIds :
    e \in DOMAIN event ~> (e \in DOMAIN event /\ Source(e) \in audited)

\* handleInvoiceApproved and handlePaymentMade: the source of every committed
\* event with an amount gets its journal entry, unless its posting was the one
\* that found the month's period opened under it.
EventsArePosted ==
  \A e \in EventIds :
    (e \in DOMAIN event /\ event[e].amount > 0)
      ~> (e \in DOMAIN event /\ (posts[Source(e)] > 0 \/ Source(e) \in beaten))

\* OutboxProcessor: no row stays PENDING.
OutboxDrains ==
  \A e \in EventIds : rowStatus[e] = "PENDING" ~> rowStatus[e] = "PROCESSED"

\* The outbox and its listeners without a fault: every committed event is audited
\* and, but for a lost race for the period, posted, and its row leaves the outbox.
EventsSettle == EventsAreDelivered /\ EventsArePosted /\ OutboxDrains
=============================================================================
