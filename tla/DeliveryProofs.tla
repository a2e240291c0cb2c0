--------------------------- MODULE DeliveryProofs ---------------------------
(***************************************************************************)
(* The invariants of Delivery, for any events, sources and number of       *)
(* faults.                                                                 *)
(***************************************************************************)
EXTENDS Delivery, TLAPS

\* A ledger listener of the in-process delivery of e.
Posting(t, e) == t \in tasks /\ t.listener = "gl" /\ t.origin = "sync" /\ t.ev = e

Emitting(e) == [pc |-> "emit", ev |-> e] \in handlers

\* A journal entry belongs to a committed event.
PostsInv ==
  \A s \in Sources : posts[s] > 0 => \E e \in DOMAIN event : Source(e) = s

\* An event is emitted once: while its handler has yet to emit, no in-process
\* listener runs, and later at most one ledger listener does.
EmittedOnceInv ==
  /\ \A e \in EventIds, t \in tasks : Emitting(e) => ~Posting(t, e)
  /\ \A e \in EventIds, t, u \in tasks : Posting(t, e) /\ Posting(u, e) => t = u

\* As long as the only event of a source may still post, nothing is posted.
NotYetPostedInv ==
  \A e \in DOMAIN event :
    Unique(e) /\ (Emitting(e) \/ \E t \in tasks : Posting(t, e))
      => posts[Source(e)] = 0

\* A listener that got to the period has the tenant; one that got past it
\* found or opened one.
TaskInv ==
  \A t \in tasks :
    /\ t.pc \in {"open", "post"} => t.origin = "sync"
    /\ t.pc = "post" => period # "absent"

IInv == TypeOK /\ TaskInv /\ SingleEventPostedOnce /\ PostsInv /\ EmittedOnceInv
        /\ NotYetPostedInv

-----------------------------------------------------------------------------
\* What a commit does to the events.
LEMMA CommitFacts ==
  ASSUME NEW e \in EventIds, NEW s \in Sources, NEW a \in Amounts, TypeOK,
         Commit(e, s, a)
  PROVE  /\ e \notin DOMAIN event
         /\ DOMAIN event' = DOMAIN event \cup {e}
         /\ event' \in [DOMAIN event' -> [source : Sources, amount : Amounts]]
         /\ \A x \in DOMAIN event : event'[x] = event[x]
         /\ event'[e].source = s
  BY DEF Commit, TypeOK

LEMMA InitInv == DeliveryAssumption /\ Init => IInv
<1> SUFFICES ASSUME DeliveryAssumption, Init PROVE IInv
  OBVIOUS
<1>1. DOMAIN event = {} /\ event \in [DOMAIN event -> [source : Sources, amount : Amounts]]
  <2>1. event = [e \in {} |-> 0]
    BY DEF Init
  <2>2. DOMAIN event = {}
    BY <2>1
  <2>3. event \in [{} -> [source : Sources, amount : Amounts]]
    BY <2>1
  <2>. QED
    BY <2>2, <2>3
<1>2. TypeOK
  <2>1. \A e \in EventIds : e \in DOMAIN event <=> rowStatus[e] # "NONE"
    BY <1>1 DEF Init
  <2>2. DOMAIN event \subseteq EventIds
    BY <1>1
  <2>3. rowStatus \in [EventIds -> {"NONE", "PENDING", "PROCESSED", "FAILED"}]
        /\ posts \in [Sources -> Nat]
    BY DEF Init
  <2>4. /\ handlers = {} /\ tasks = {} /\ audited = {} /\ jobs = {}
        /\ active = {}
    BY DEF Init
  <2>5. period = "absent" /\ beaten = {}
    BY DEF Init
  <2>6. faults \in 0 .. MaxFaults
    BY DEF Init, DeliveryAssumption
  <2>. QED
    BY <1>1, <2>1, <2>2, <2>3, <2>4, <2>5, <2>6 DEF TypeOK
<1>3. SingleEventPostedOnce /\ PostsInv /\ NotYetPostedInv
  BY <1>1 DEF Init, SingleEventPostedOnce, PostsInv, NotYetPostedInv
<1>4. EmittedOnceInv /\ TaskInv
  BY DEF Init, EmittedOnceInv, TaskInv
<1>. QED
  BY <1>2, <1>3, <1>4 DEF IInv

\* The type invariant is inductive.
LEMMA TypeStep == DeliveryAssumption /\ TypeOK /\ [Next]_vars => TypeOK'
<1> SUFFICES ASSUME DeliveryAssumption, TypeOK, [Next]_vars PROVE TypeOK'
  OBVIOUS
<1> USE DEF DeliveryAssumption
<1>1. ASSUME NEW e \in EventIds, NEW s \in Sources, NEW a \in Amounts,
             Commit(e, s, a)
      PROVE  TypeOK'
  <2>1. /\ DOMAIN event' = DOMAIN event \cup {e}
        /\ event' \in [DOMAIN event' -> [source : Sources, amount : Amounts]]
    BY <1>1, CommitFacts
  <2>2. handlers' \subseteq [pc : {"emit", "enqueue"}, ev : DOMAIN event']
    BY <1>1, <2>1 DEF Commit, TypeOK
  <2>. QED
    BY <1>1, <2>1, <2>2 DEF Commit, TypeOK
<1>2. ASSUME NEW e \in EventIds, Emit(e)
      PROVE  TypeOK'
  <2>1. e \in DOMAIN event
    BY <1>2 DEF Emit, TypeOK
  <2>2. Deliveries(e, "sync") \subseteq Task
        /\ \A t \in Deliveries(e, "sync") : t.ev = e
    BY DEF Deliveries, Task
  <2>3. handlers' \subseteq [pc : {"emit", "enqueue"}, ev : DOMAIN event]
    BY <1>2, <2>1 DEF Emit, TypeOK
  <2>. QED
    BY <1>2, <2>1, <2>2, <2>3 DEF Emit, TypeOK
<1>3. ASSUME NEW e \in EventIds, Enqueue(e) \/ EnqueueFails(e)
      PROVE  TypeOK'
  <2>1. e \in DOMAIN event
    BY <1>3 DEF Enqueue, EnqueueFails, TypeOK
  <2>. QED
    BY <1>3, <2>1 DEF Enqueue, EnqueueFails, TypeOK
<1>4. ASSUME NEW t \in tasks, GlCheck(t) \/ FindPeriod(t) \/ CreatePeriod(t)
      PROVE  TypeOK'
  <2>1. \A pc \in {"period", "open", "post"} :
          [t EXCEPT !.pc = pc] \in Task /\ [t EXCEPT !.pc = pc].ev = t.ev
    BY DEF TypeOK, Task
  <2>2. tasks' \subseteq Task /\ \A u \in tasks' : u.ev \in DOMAIN event
    BY <1>4, <2>1 DEF GlCheck, FindPeriod, CreatePeriod, GoesOn, TypeOK
  <2>3. period' \in {"absent", "open", "locked"} /\ beaten' \subseteq Sources
    BY <1>4 DEF GlCheck, FindPeriod, CreatePeriod, TypeOK, Source
  <2>. QED
    BY <1>4, <2>2, <2>3 DEF GlCheck, FindPeriod, CreatePeriod, TypeOK
<1>5. ASSUME NEW t \in tasks, GlPost(t)
      PROVE  TypeOK'
  <2>1. Source(t.ev) \in Sources
    BY DEF TypeOK, Source
  <2>. QED
    BY <1>5, <2>1 DEF GlPost, TypeOK
<1>6. ASSUME NEW t \in tasks, AuditRecord(t) \/ ListenerFails(t)
      PROVE  TypeOK'
  <2>1. Source(t.ev) \in Sources
    BY DEF TypeOK, Source
  <2>. QED
    BY <1>6, <2>1 DEF AuditRecord, ListenerFails, TypeOK
<1>7. CASE OpenFiscalPeriod \/ ClosePeriod
  BY <1>7 DEF OpenFiscalPeriod, ClosePeriod, TypeOK
<1>8. ASSUME NEW e \in EventIds, Process(e)
      PROVE  TypeOK'
  <2>1. e \in DOMAIN event
    BY <1>8 DEF Process, TypeOK
  <2>2. Deliveries(e, "relay") \subseteq Task
        /\ \A t \in Deliveries(e, "relay") : t.ev = e
    BY DEF Deliveries, Task
  <2>3. active' \subseteq Job /\ \A j \in active' : j.ev = e
    BY <1>8 DEF Process, Job
  <2>. QED
    BY <1>8, <2>1, <2>2, <2>3 DEF Process, TypeOK
<1>9. ASSUME NEW j \in active, MarkProcessed(j) \/ MarkFailed(j) \/ Ack(j)
      PROVE  TypeOK'
  <2>1. j.ev \in DOMAIN event /\ j.ev \in EventIds
    BY DEF TypeOK
  <2>2. [ev |-> j.ev, pc |-> "ack"] \in Job
    BY <2>1 DEF Job
  <2>. QED
    BY <1>9, <2>1, <2>2 DEF MarkProcessed, MarkFailed, Ack, TypeOK
<1>10. CASE Crash
  BY <1>10 DEF Crash, TypeOK
<1>11. CASE UNCHANGED vars
  BY <1>11 DEF vars, TypeOK
<1>. QED
  BY <1>1, <1>2, <1>3, <1>4, <1>5, <1>6, <1>7, <1>8, <1>9, <1>10, <1>11
     DEF Next, Continue, Background, Listen, Work

\* Every variable of Delivery keeps its type, for any constants.
THEOREM TypeCorrect == Spec => []TypeOK
<1>1. Init => TypeOK
  BY InitInv, DeliveryAssumption DEF IInv
<1>2. TypeOK /\ [Next]_vars => TypeOK'
  BY TypeStep, DeliveryAssumption
<1>. QED
  BY <1>1, <1>2, PTL DEF Spec

-----------------------------------------------------------------------------
\* A listener gets to the period in process, and past it once there is one.
LEMMA TaskStep == TypeOK /\ TaskInv /\ [Next]_vars => TaskInv'
<1> SUFFICES ASSUME TypeOK, TaskInv, [Next]_vars PROVE TaskInv'
  OBVIOUS
<1>1. ASSUME \A t \in tasks' : t \in tasks \/ t.pc = "check",
             period = "absent" \/ period' # "absent"
      PROVE  TaskInv'
  BY <1>1 DEF TaskInv
<1>2. ASSUME NEW t \in tasks, GlCheck(t) \/ FindPeriod(t) \/ CreatePeriod(t)
      PROVE  TaskInv'
  <2>1. \A pc \in {"period", "open", "post"} :
          [t EXCEPT !.pc = pc].pc = pc /\ [t EXCEPT !.pc = pc].origin = t.origin
    BY DEF TypeOK, Task
  <2> QED
    BY <1>2, <2>1 DEF GlCheck, FindPeriod, CreatePeriod, GoesOn, HasTenant, TaskInv
<1>3. ASSUME NEW t \in tasks, GlPost(t) \/ AuditRecord(t) \/ ListenerFails(t) PROVE TaskInv'
  BY <1>1, <1>3 DEF GlPost, AuditRecord, ListenerFails
<1>4. ASSUME NEW e \in EventIds, Emit(e) \/ Process(e) PROVE TaskInv'
  <2>1. \A t \in tasks' : t \in tasks \/ t.pc = "check"
    BY <1>4 DEF Emit, Process, Deliveries
  <2> QED
    BY <1>1, <1>4, <2>1 DEF Emit, Process
<1>5. CASE Crash
  BY <1>5 DEF Crash, TaskInv
<1>6. CASE OpenFiscalPeriod \/ ClosePeriod
  BY <1>1, <1>6 DEF OpenFiscalPeriod, ClosePeriod
<1>7. CASE UNCHANGED <<tasks, period>>
  BY <1>1, <1>7
<1> QED
  BY <1>2, <1>3, <1>4, <1>5, <1>6, <1>7
     DEF Next, Continue, Background, Listen, Work, Commit, Enqueue, EnqueueFails,
         MarkProcessed, MarkFailed, Ack, vars

\* A step that posts nothing, commits nothing and starts no in-process
\* delivery preserves the invariant.
LEMMA QuietStep ==
  ASSUME IInv, TypeOK', TaskInv', UNCHANGED <<event, posts>>,
         \A e \in EventIds : Emitting(e)' => Emitting(e),
         \A t \in tasks' : t.listener = "gl" /\ t.origin = "sync" => t \in tasks
  PROVE  IInv'
<1>1. \A t, e : Posting(t, e)' => Posting(t, e)
  BY DEF Posting
<1>2. SingleEventPostedOnce' /\ PostsInv'
  BY DEF IInv, SingleEventPostedOnce, PostsInv, Unique, Source
<1>3. EmittedOnceInv'
  BY <1>1 DEF IInv, EmittedOnceInv, Posting
<1>4. NotYetPostedInv'
  BY <1>1 DEF IInv, NotYetPostedInv, Unique, Source, TypeOK, Posting
<1>. QED
  BY <1>2, <1>3, <1>4 DEF IInv

\* The inductive invariant is preserved.
LEMMA InvStep == DeliveryAssumption /\ IInv /\ [Next]_vars => IInv'
<1> SUFFICES ASSUME DeliveryAssumption, IInv, [Next]_vars PROVE IInv'
  OBVIOUS
<1>0. TypeOK /\ TypeOK' /\ TaskInv'
  BY TypeStep, TaskStep DEF IInv
<1>1. ASSUME NEW e \in EventIds, NEW s \in Sources, NEW a \in Amounts,
             Commit(e, s, a)
      PROVE  IInv'
  <2>1. /\ e \notin DOMAIN event
        /\ DOMAIN event' = DOMAIN event \cup {e}
        /\ \A x \in DOMAIN event : event'[x] = event[x]
        /\ event'[e].source = s
    BY <1>0, <1>1, CommitFacts
  <2>2. /\ UNCHANGED <<tasks, posts>>
        /\ handlers' = handlers \cup {[pc |-> "emit", ev |-> e]}
    BY <1>1 DEF Commit
  <2>3. \A f \in DOMAIN event : Unique(f)' => Unique(f)
    BY <2>1 DEF Unique, Source
  <2>4. \A f \in DOMAIN event : Emitting(f)' <=> Emitting(f)
    BY <2>1, <2>2 DEF Emitting
  <2>5. Unique(e)' => posts[s] = 0
    <3>1. ASSUME Unique(e)', posts[s] > 0 PROVE FALSE
      BY <2>1, <3>1 DEF IInv, PostsInv, Unique, Source
    <3>. QED
      BY <1>0, <3>1 DEF TypeOK
  <2>6. PostsInv'
    BY <2>1, <2>2 DEF IInv, PostsInv, Source
  <2>7. SingleEventPostedOnce'
    BY <2>1, <2>2, <2>3, <2>5 DEF IInv, SingleEventPostedOnce, Source
  <2>8. \A t \in tasks : t.ev # e
    BY <1>0, <2>1 DEF TypeOK
  <2>9. EmittedOnceInv'
    BY <2>2, <2>8 DEF IInv, EmittedOnceInv, Emitting, Posting
  <2>10. NotYetPostedInv'
    BY <2>1, <2>2, <2>3, <2>4, <2>5
       DEF IInv, NotYetPostedInv, Source, Posting
  <2>. QED
    BY <1>0, <2>6, <2>7, <2>9, <2>10 DEF IInv
<1>2. ASSUME NEW e \in EventIds, Emit(e)
      PROVE  IInv'
  <2>1. /\ UNCHANGED <<event, posts>>
        /\ Emitting(e) /\ ~Emitting(e)'
        /\ \A f \in EventIds : f # e => (Emitting(f)' <=> Emitting(f))
    BY <1>2 DEF Emit, Emitting
  <2>2. \A t, f : f # e => (Posting(t, f)' <=> Posting(t, f))
    BY <1>2 DEF Emit, Posting, Deliveries
  <2>3. \A t : Posting(t, e)' => t = [listener |-> "gl", ev |-> e,
                                      origin |-> "sync", pc |-> "check"]
    BY <1>2, <2>1 DEF IInv, EmittedOnceInv, Emit, Posting, Deliveries
  <2>4. SingleEventPostedOnce' /\ PostsInv'
    BY <2>1 DEF IInv, SingleEventPostedOnce, PostsInv, Unique, Source
  <2>5. EmittedOnceInv'
    <3>1. \A f \in EventIds, t \in tasks' : Emitting(f)' => ~Posting(t, f)'
      BY <2>1, <2>2 DEF IInv, EmittedOnceInv, Posting
    <3>2. \A f \in EventIds, t, u \in tasks' :
            Posting(t, f)' /\ Posting(u, f)' => t = u
      BY <2>2, <2>3 DEF IInv, EmittedOnceInv, Posting
    <3>. QED
      BY <3>1, <3>2 DEF EmittedOnceInv
  <2>6. NotYetPostedInv'
    <3>1. SUFFICES ASSUME NEW f \in DOMAIN event, Unique(f),
                          Emitting(f)' \/ \E t \in tasks' : Posting(t, f)'
                   PROVE  posts[Source(f)] = 0
      BY <2>1 DEF NotYetPostedInv, Unique, Source
    <3>2. f \in EventIds
      BY <1>0 DEF TypeOK
    <3>3. Emitting(f) \/ \E t \in tasks : Posting(t, f)
      BY <2>1, <2>2, <3>1, <3>2 DEF Posting
    <3>. QED
      BY <3>1, <3>3 DEF IInv, NotYetPostedInv
  <2>. QED
    BY <1>0, <2>4, <2>5, <2>6 DEF IInv
<1>3. ASSUME NEW e \in EventIds, Enqueue(e) \/ EnqueueFails(e)
      PROVE  IInv'
  BY <1>0, <1>3, QuietStep DEF Enqueue, EnqueueFails, Emitting
<1>4. ASSUME NEW t \in tasks, GlCheck(t) \/ FindPeriod(t) \/ CreatePeriod(t)
      PROVE  IInv'
  <2>0. PICK pc : tasks' = tasks \ {t} \/ tasks' = (tasks \ {t}) \cup {[t EXCEPT !.pc = pc]}
    BY <1>4 DEF GlCheck, FindPeriod, CreatePeriod, GoesOn
  <2> DEFINE n == [t EXCEPT !.pc = pc]
  <2>1. /\ UNCHANGED <<event, posts, handlers>>
        /\ tasks' = tasks \ {t} \/ tasks' = (tasks \ {t}) \cup {n}
    BY <1>4, <2>0 DEF GlCheck, FindPeriod, CreatePeriod
  <2>2. n.listener = t.listener /\ n.origin = t.origin /\ n.ev = t.ev
    BY <1>0 DEF TypeOK, Task
  <2>3. CASE tasks' = tasks \ {t}
    BY <1>0, <2>1, <2>3, QuietStep DEF Emitting
  <2>4. CASE tasks' = (tasks \ {t}) \cup {n}
    <3>1. \A u, e : Posting(u, e)' =>
            (u = n /\ Posting(t, e)) \/ (u # t /\ Posting(u, e))
      BY <2>2, <2>4 DEF Posting
    <3>2. SingleEventPostedOnce' /\ PostsInv'
      BY <2>1 DEF IInv, SingleEventPostedOnce, PostsInv, Unique, Source
    <3>3. EmittedOnceInv'
      <4>1. \A e \in EventIds, u \in tasks' : Emitting(e)' => ~Posting(u, e)'
        BY <2>1, <3>1 DEF IInv, EmittedOnceInv, Emitting, Posting
      <4>2. \A e \in EventIds, u, w \in tasks' :
              Posting(u, e)' /\ Posting(w, e)' => u = w
        BY <3>1 DEF IInv, EmittedOnceInv, Posting
      <4>. QED
        BY <4>1, <4>2 DEF EmittedOnceInv
    <3>4. NotYetPostedInv'
      <4>1. \A e : (\E u \in tasks' : Posting(u, e)') => \E u \in tasks : Posting(u, e)
        BY <3>1 DEF Posting
      <4>. QED
        BY <2>1, <4>1 DEF IInv, NotYetPostedInv, Unique, Source, Emitting
    <3>. QED
      BY <1>0, <3>2, <3>3, <3>4 DEF IInv
  <2>. QED
    BY <2>1, <2>3, <2>4
<1>5. ASSUME NEW t \in tasks, GlPost(t)
      PROVE  IInv'
  <2>1. CASE period # "open"
    BY <1>0, <1>5, <2>1, QuietStep DEF GlPost, Emitting
  <2>2. CASE period = "open"
    <3> DEFINE e == t.ev
    <3>1. /\ UNCHANGED <<event, handlers>>
          /\ tasks' = tasks \ {t}
          /\ posts' = [posts EXCEPT ![Source(e)] = @ + 1]
          /\ Posting(t, e)
      BY <1>5, <2>2 DEF GlPost, Posting, IInv, TaskInv
    <3>2. e \in DOMAIN event /\ e \in EventIds /\ Source(e) \in Sources
      BY <1>0 DEF TypeOK, Source
    <3>3. \A f \in DOMAIN event : Unique(f) /\ Source(f) = Source(e) => f = e
      BY <3>2 DEF Unique
    <3>4. /\ posts'[Source(e)] = posts[Source(e)] + 1
          /\ \A s \in Sources : s # Source(e) => posts'[s] = posts[s]
      BY <1>0, <3>1, <3>2 DEF TypeOK
    <3>5. \A u, f : Posting(u, f)' => Posting(u, f) /\ u # t
      BY <3>1 DEF Posting
    <3>6. ~Emitting(e)' /\ \A u \in tasks' : ~Posting(u, e)'
      BY <3>1, <3>2, <3>5 DEF IInv, EmittedOnceInv, Emitting, Posting
    <3>7. \A f \in DOMAIN event : Unique(f)' => Unique(f)
      BY <3>1 DEF Unique, Source
    <3>8. \A f \in DOMAIN event : Source(f)' = Source(f) /\ Source(f) \in Sources
      BY <1>0, <3>1 DEF Source, TypeOK
    <3>9. SingleEventPostedOnce'
      <4>1. SUFFICES ASSUME NEW f \in DOMAIN event, Unique(f)
                     PROVE  posts'[Source(f)] <= 1
        BY <3>1, <3>7, <3>8 DEF SingleEventPostedOnce
      <4>2. CASE Source(f) = Source(e)
        <5>1. f = e
          BY <3>3, <4>1, <4>2
        <5>2. posts[Source(e)] = 0
          BY <3>1, <3>2, <4>1, <5>1 DEF IInv, NotYetPostedInv
        <5>. QED
          BY <3>4, <4>2, <5>2
      <4>3. CASE Source(f) # Source(e)
        BY <3>4, <3>8, <4>1, <4>3 DEF IInv, SingleEventPostedOnce
      <4>. QED
        BY <4>2, <4>3
    <3>10. PostsInv'
      BY <3>1, <3>2, <3>4 DEF IInv, PostsInv, Source
    <3>11. EmittedOnceInv'
      BY <3>1, <3>5 DEF IInv, EmittedOnceInv, Emitting, Posting
    <3>12. NotYetPostedInv'
      <4>1. SUFFICES ASSUME NEW f \in DOMAIN event, Unique(f),
                            Emitting(f)' \/ \E u \in tasks' : Posting(u, f)'
                     PROVE  posts'[Source(f)] = 0
        BY <3>1, <3>7, <3>8 DEF NotYetPostedInv
      <4>2. f # e
        BY <3>6, <4>1
      <4>3. Source(f) # Source(e)
        BY <3>3, <4>1, <4>2
      <4>4. Emitting(f) \/ \E u \in tasks : Posting(u, f)
        BY <3>1, <3>5, <4>1 DEF Emitting, Posting
      <4>. QED
        BY <3>4, <3>8, <4>1, <4>3, <4>4 DEF IInv, NotYetPostedInv
    <3>. QED
      BY <1>0, <3>9, <3>10, <3>11, <3>12 DEF IInv
  <2>. QED
    BY <2>1, <2>2
<1>6. ASSUME NEW t \in tasks, AuditRecord(t) \/ ListenerFails(t)
      PROVE  IInv'
  BY <1>0, <1>6, QuietStep DEF AuditRecord, ListenerFails, Emitting
<1>7. CASE OpenFiscalPeriod \/ ClosePeriod
  BY <1>0, <1>7, QuietStep DEF OpenFiscalPeriod, ClosePeriod, Emitting
<1>8. ASSUME NEW e \in EventIds, Process(e)
      PROVE  IInv'
  BY <1>0, <1>8, QuietStep DEF Process, Deliveries, Emitting
<1>9. ASSUME NEW j \in active, MarkProcessed(j) \/ MarkFailed(j) \/ Ack(j)
      PROVE  IInv'
  BY <1>0, <1>9, QuietStep DEF MarkProcessed, MarkFailed, Ack, Emitting
<1>10. CASE Crash
  BY <1>0, <1>10, QuietStep DEF Crash, Emitting
<1>11. CASE UNCHANGED vars
  BY <1>0, <1>11, QuietStep DEF vars, Emitting
<1>. QED
  BY <1>1, <1>2, <1>3, <1>4, <1>5, <1>6, <1>7, <1>8, <1>9, <1>10, <1>11
     DEF Next, Continue, Background, Listen, Work

\* handlePaymentMade: a source that one event announces, as every payment is,
\* is posted at most once, however its event is delivered, relayed and lost.
THEOREM PostedOnceAlways == Spec => []SingleEventPostedOnce
<1>1. Init => IInv
  BY InitInv, DeliveryAssumption
<1>2. IInv /\ [Next]_vars => IInv'
  BY InvStep, DeliveryAssumption
<1>3. IInv => SingleEventPostedOnce
  BY DEF IInv
<1>. QED
  BY <1>1, <1>2, <1>3, PTL DEF Spec

-----------------------------------------------------------------------------
\* A job is only marked while its row is still PENDING.
MarkInv == \A j \in active : j.pc = "mark" => rowStatus[j.ev] = "PENDING"

LEMMA MarkStep == TypeOK /\ MarkInv /\ [Next]_vars => MarkInv'
<1> SUFFICES ASSUME TypeOK, MarkInv, [Next]_vars PROVE MarkInv'
  OBVIOUS
<1>1. ASSUME NEW e \in EventIds, NEW s \in Sources, NEW a \in Amounts,
             Commit(e, s, a)
      PROVE  MarkInv'
  BY <1>1 DEF Commit, TypeOK, MarkInv, Job
<1>2. ASSUME NEW e \in EventIds, Process(e)
      PROVE  MarkInv'
  BY <1>2 DEF Process, MarkInv
<1>3. ASSUME NEW j \in active, MarkProcessed(j) \/ MarkFailed(j) \/ Ack(j)
      PROVE  MarkInv'
  BY <1>3 DEF MarkProcessed, MarkFailed, Ack, MarkInv
<1>4. CASE Crash
  BY <1>4 DEF Crash, MarkInv
<1>5. CASE UNCHANGED <<active, rowStatus>>
  BY <1>5 DEF MarkInv
<1>. QED
  BY <1>1, <1>2, <1>3, <1>4, <1>5
     DEF Next, Continue, Background, Listen, Work, Emit, Enqueue, EnqueueFails,
         GlCheck, FindPeriod, CreatePeriod, GlPost, AuditRecord, ListenerFails,
         OpenFiscalPeriod, ClosePeriod, vars

\* OutboxProcessor.process: no settled row changes again, in whatever order
\* the worker is interrupted and its job handed out again.
THEOREM SettledRowsStayAlways == Spec => SettledRowsStay
<1>1. Init => MarkInv
  BY DEF Init, MarkInv
<1>2. TypeOK /\ MarkInv /\ [Next]_vars
        => [\A e \in EventIds :
              rowStatus[e] \in {"PROCESSED", "FAILED"}
                => rowStatus'[e] = rowStatus[e]]_vars
  <2> SUFFICES ASSUME TypeOK, MarkInv, [Next]_vars,
                      NEW e \in EventIds,
                      rowStatus[e] \in {"PROCESSED", "FAILED"}
               PROVE  rowStatus'[e] = rowStatus[e]
    OBVIOUS
  <2>1. ASSUME NEW f \in EventIds, NEW s \in Sources, NEW a \in Amounts,
               Commit(f, s, a)
        PROVE  rowStatus'[e] = rowStatus[e]
    BY <2>1 DEF Commit, TypeOK
  <2>2. ASSUME NEW j \in active, MarkProcessed(j) \/ MarkFailed(j)
        PROVE  rowStatus'[e] = rowStatus[e]
    BY <2>2 DEF MarkProcessed, MarkFailed, MarkInv, TypeOK
  <2>3. CASE UNCHANGED rowStatus
    BY <2>3
  <2>. QED
    BY <2>1, <2>2, <2>3
       DEF Next, Continue, Background, Listen, Work, Emit, Enqueue,
           EnqueueFails, GlCheck, FindPeriod, CreatePeriod, GlPost, AuditRecord,
           ListenerFails, OpenFiscalPeriod, ClosePeriod, Process, Ack, Crash, vars
<1>. QED
  BY <1>1, <1>2, TypeCorrect, MarkStep, PTL DEF Spec, SettledRowsStay

-----------------------------------------------------------------------------
\* Only amounts are posted.
AmountInv ==
  /\ \A t \in tasks : t.listener = "gl" /\ t.pc # "check" => event[t.ev].amount > 0
  /\ \A s \in Sources : posts[s] > 0 =>
       \E e \in DOMAIN event : Source(e) = s /\ event[e].amount > 0

\* As long as nothing fails and the period is not closed, an amount has been
\* posted or will be, unless its posting found the period taken.
Landed(e) == posts[Source(e)] > 0 \/ Source(e) \in beaten

LandsInv ==
  faults = 0 /\ period # "locked" =>
    \A e \in DOMAIN event : event[e].amount > 0 =>
      Landed(e) \/ Emitting(e) \/ \E t \in tasks : Posting(t, e)

LEMMA PostingInit == DeliveryAssumption /\ Init => AmountInv /\ LandsInv
<1> SUFFICES ASSUME Init PROVE AmountInv /\ LandsInv
  OBVIOUS
<1>1. DOMAIN event = {}
  BY DEF Init
<1> QED
  BY <1>1 DEF Init, AmountInv, LandsInv

\* A step after which every amount that was landed, or on its way, still is.
LEMMA LandsStay ==
  ASSUME LandsInv, UNCHANGED event,
         \A e \in DOMAIN event : Landed(e) => Landed(e)',
         faults' = 0 => faults = 0, period' # "locked" => period # "locked",
         faults' = 0 => \A e : Emitting(e) => Emitting(e)',
         faults' = 0 /\ period' # "locked" =>
           \A e \in DOMAIN event : \A t : Posting(t, e) /\ event[e].amount > 0 =>
             Landed(e)' \/ \E u \in tasks' : Posting(u, e)'
  PROVE  LandsInv'
<1> SUFFICES ASSUME faults' = 0, period' # "locked", NEW e \in DOMAIN event, event[e].amount > 0
             PROVE  Landed(e)' \/ Emitting(e)' \/ \E u \in tasks' : Posting(u, e)'
  BY DEF LandsInv
<1>1. Landed(e) \/ Emitting(e) \/ \E t \in tasks : Posting(t, e)
  BY DEF LandsInv
<1> QED
  BY <1>1

\* A step that neither posts nor takes an event or a posting away.
LEMMA StillPosting ==
  ASSUME AmountInv, LandsInv, UNCHANGED <<event, posts>>, beaten \subseteq beaten',
         faults' = 0 => faults = 0, period' # "locked" => period # "locked",
         \A t \in tasks' : t.listener = "gl" /\ t.pc # "check" =>
                             event[t.ev].amount > 0,
         faults' = 0 => \A e : Emitting(e) => Emitting(e)',
         faults' = 0 => \A e, t : Posting(t, e) => Posting(t, e)'
  PROVE  AmountInv' /\ LandsInv'
<1>1. AmountInv'
  BY DEF AmountInv, Source
<1>2. \A e \in DOMAIN event : Landed(e) => Landed(e)'
  BY DEF Landed, Source
<1>3. \A e, t : Posting(t, e)' => t \in tasks'
  BY DEF Posting
<1>4. LandsInv'
  BY <1>2, <1>3, LandsStay
<1> QED
  BY <1>1, <1>4

LEMMA PostingStep ==
  DeliveryAssumption /\ TypeOK /\ TaskInv /\ AmountInv /\ LandsInv /\ [Next]_vars
    => AmountInv' /\ LandsInv'
<1> SUFFICES ASSUME DeliveryAssumption, TypeOK, TaskInv, AmountInv, LandsInv, [Next]_vars
             PROVE  AmountInv' /\ LandsInv'
  OBVIOUS
<1>0. /\ \A e \in DOMAIN event : event[e].amount \in Int /\ Source(e) \in Sources
      /\ posts \in [Sources -> Nat] /\ faults \in Nat
      /\ \A t \in tasks : t \in Task /\ t.ev \in DOMAIN event
  BY DEF DeliveryAssumption, TypeOK, Source
<1>1. ASSUME NEW e \in EventIds, NEW s \in Sources, NEW a \in Amounts, Commit(e, s, a)
      PROVE  AmountInv' /\ LandsInv'
  <2>1. /\ e \notin DOMAIN event
        /\ DOMAIN event' = DOMAIN event \cup {e}
        /\ \A x \in DOMAIN event : event'[x] = event[x]
    BY <1>1, CommitFacts
  <2>2. /\ UNCHANGED <<tasks, posts, faults, period, beaten>>
        /\ handlers' = handlers \cup {[pc |-> "emit", ev |-> e]}
    BY <1>1 DEF Commit
  <2>3. AmountInv'
    BY <1>0, <2>1, <2>2 DEF AmountInv, Source
  <2>4. Emitting(e)' /\ \A f : Emitting(f) => Emitting(f)'
    BY <2>2 DEF Emitting
  <2>5. LandsInv'
    BY <2>1, <2>2, <2>4 DEF LandsInv, Landed, Source, Posting
  <2> QED
    BY <2>3, <2>5
<1>2. ASSUME NEW e \in EventIds, Emit(e) PROVE AmountInv' /\ LandsInv'
  <2>1. /\ UNCHANGED <<event, posts, faults, period, beaten>>
        /\ tasks' = tasks \cup Deliveries(e, "sync")
        /\ \A f : f # e => (Emitting(f) => Emitting(f)')
    BY <1>2 DEF Emit, Emitting
  <2>2. AmountInv'
    BY <2>1 DEF AmountInv, Source, Deliveries
  <2>3. PICK d : d = [listener |-> "gl", ev |-> e, origin |-> "sync", pc |-> "check"]
    OBVIOUS
  <2>4. d \in tasks' /\ Posting(d, e)'
    BY <2>1, <2>3 DEF Deliveries, Posting
  <2>5. LandsInv'
    <3> SUFFICES ASSUME faults = 0, period # "locked", NEW f \in DOMAIN event, event[f].amount > 0
                 PROVE  Landed(f) \/ Emitting(f)' \/ \E t \in tasks' : Posting(t, f)'
      BY <2>1 DEF LandsInv, Landed, Source
    <3>1. CASE f = e
      BY <2>4, <3>1
    <3>2. CASE f # e
      BY <2>1, <3>2 DEF LandsInv, Posting
    <3> QED
      BY <3>1, <3>2
  <2> QED
    BY <2>2, <2>5
<1>3. ASSUME NEW e \in EventIds, Enqueue(e) \/ EnqueueFails(e)
      PROVE  AmountInv' /\ LandsInv'
  BY <1>0, <1>3, StillPosting DEF Enqueue, EnqueueFails, Emitting, Posting, AmountInv
<1>4. ASSUME NEW t \in tasks, UNCHANGED <<event, posts, handlers, faults>>,
             beaten \subseteq beaten', period' # "locked" => period # "locked",
             tasks' = tasks \ {t},
             \A f : Posting(t, f) => event[f].amount <= 0 \/ Landed(f)'
      PROVE  AmountInv' /\ LandsInv'
  <2>1. AmountInv'
    BY <1>4 DEF AmountInv, Source
  <2>2. \A f \in DOMAIN event : Landed(f) => Landed(f)'
    BY <1>4 DEF Landed, Source
  <2>3. \A f : Emitting(f) => Emitting(f)'
    BY <1>4 DEF Emitting
  <2>4. ASSUME NEW f \in DOMAIN event, NEW u, Posting(u, f), event[f].amount > 0
        PROVE  Landed(f)' \/ \E w \in tasks' : Posting(w, f)'
    <3>1. CASE u = t
      BY <1>0, <1>4, <2>4, <3>1
    <3>2. CASE u # t
      BY <1>4, <2>4, <3>2 DEF Posting
    <3> QED
      BY <3>1, <3>2
  <2>5. LandsInv'
    BY <1>4, <2>2, <2>3, <2>4, LandsStay
  <2> QED
    BY <2>1, <2>5
<1>5. ASSUME NEW t \in tasks, UNCHANGED <<event, posts, handlers, faults>>,
             beaten \subseteq beaten', period' # "locked" => period # "locked",
             NEW pc \in {"period", "open", "post"}, GoesOn(t, pc),
             event[t.ev].amount > 0
      PROVE  AmountInv' /\ LandsInv'
  <2>1. PICK n : n = [t EXCEPT !.pc = pc]
    OBVIOUS
  <2>2. n.listener = t.listener /\ n.origin = t.origin /\ n.ev = t.ev
    BY <1>0, <2>1 DEF Task
  <2>3. tasks' = (tasks \ {t}) \cup {n}
    BY <1>5, <2>1 DEF GoesOn
  <2>4. AmountInv'
    BY <1>5, <2>2, <2>3 DEF AmountInv, Source
  <2>5. \A f \in DOMAIN event : Landed(f) => Landed(f)'
    BY <1>5 DEF Landed, Source
  <2>6. \A f : Emitting(f) => Emitting(f)'
    BY <1>5 DEF Emitting
  <2>7. ASSUME NEW f, NEW u, Posting(u, f)
        PROVE  \E w \in tasks' : Posting(w, f)'
    <3>1. CASE u = t
      BY <2>2, <2>3, <2>7, <3>1 DEF Posting
    <3>2. CASE u # t
      BY <2>3, <2>7, <3>2 DEF Posting
    <3> QED
      BY <3>1, <3>2
  <2>8. LandsInv'
    BY <1>5, <2>5, <2>6, <2>7, LandsStay
  <2> QED
    BY <2>4, <2>8
<1>14. ASSUME NEW t \in tasks, GlCheck(t) PROVE AmountInv' /\ LandsInv'
  <2>1. UNCHANGED <<event, posts, handlers, faults, period, beaten>>
    BY <1>14 DEF GlCheck
  <2>2. CASE event[t.ev].amount <= 0 \/ Known(t.ev)
    <3>1. tasks' = tasks \ {t}
      BY <1>14, <2>2 DEF GlCheck
    <3>2. \A f : Posting(t, f) => event[f].amount <= 0 \/ Landed(f)'
      BY <2>1, <2>2 DEF Posting, Known, Landed, Source
    <3> QED
      BY <1>4, <2>1, <3>1, <3>2
  <2>3. CASE ~(event[t.ev].amount <= 0 \/ Known(t.ev))
    <3>1. GoesOn(t, "period") /\ event[t.ev].amount > 0
      BY <1>0, <1>14, <2>3 DEF GlCheck
    <3> QED
      BY <1>5, <2>1, <3>1
  <2> QED
    BY <2>2, <2>3
<1>15. ASSUME NEW t \in tasks, FindPeriod(t) PROVE AmountInv' /\ LandsInv'
  <2>1. UNCHANGED <<event, posts, handlers, faults, period, beaten>>
    BY <1>15 DEF FindPeriod
  <2>2. CASE ~HasTenant(t)
    <3>1. tasks' = tasks \ {t} /\ \A f : ~Posting(t, f)
      BY <1>15, <2>2 DEF FindPeriod, HasTenant, Posting
    <3> QED
      BY <1>4, <2>1, <3>1
  <2>3. CASE HasTenant(t)
    <3>1. event[t.ev].amount > 0 /\ \E pc \in {"open", "post"} : GoesOn(t, pc)
      BY <1>15, <2>3 DEF FindPeriod, AmountInv
    <3> QED
      BY <1>5, <2>1, <3>1
  <2> QED
    BY <2>2, <2>3
<1>16. ASSUME NEW t \in tasks, CreatePeriod(t) PROVE AmountInv' /\ LandsInv'
  <2>1. /\ UNCHANGED <<event, posts, handlers, faults>>
        /\ beaten \subseteq beaten' /\ (period' # "locked" => period # "locked")
    BY <1>16 DEF CreatePeriod
  <2>2. CASE GoesOn(t, "post")
    <3>1. event[t.ev].amount > 0
      BY <1>16 DEF CreatePeriod, AmountInv
    <3> QED
      BY <1>5, <2>1, <2>2, <3>1
  <2>3. CASE tasks' = tasks \ {t} /\ beaten' = beaten \cup {Source(t.ev)}
    <3>1. \A f : Posting(t, f) => Landed(f)'
      BY <2>1, <2>3 DEF Posting, Landed, Source
    <3> QED
      BY <1>4, <2>1, <2>3, <3>1
  <2> QED
    BY <1>16, <2>2, <2>3 DEF CreatePeriod
<1>17. ASSUME NEW t \in tasks, GlPost(t) PROVE AmountInv' /\ LandsInv'
  <2>1. /\ UNCHANGED <<event, handlers, faults, period, beaten>> /\ tasks' = tasks \ {t}
        /\ t.listener = "gl" /\ t.pc = "post" /\ t.ev \in DOMAIN event
    BY <1>0, <1>17 DEF GlPost
  <2>2. PICK s \in Sources : s = Source(t.ev)
    BY <1>0, <2>1
  <2>3. event[t.ev].amount > 0
    BY <2>1 DEF AmountInv
  <2>4. CASE period # "open"
    <3>1. posts' = posts /\ period = "locked"
      BY <1>17, <2>1, <2>4 DEF GlPost, TaskInv, TypeOK
    <3>2. AmountInv'
      BY <2>1, <3>1 DEF AmountInv, Source
    <3>3. LandsInv'
      BY <2>1, <3>1 DEF LandsInv
    <3> QED
      BY <3>2, <3>3
  <2>5. CASE period = "open"
    <3>1. /\ posts' \in [Sources -> Nat] /\ posts'[s] > 0
          /\ \A x \in Sources : x # s => posts'[x] = posts[x]
      <4>1. posts' = [posts EXCEPT ![s] = posts[s] + 1]
        BY <1>17, <2>2, <2>5 DEF GlPost
      <4>2. posts[s] \in Nat
        BY <1>0
      <4> QED
        BY <1>0, <4>1, <4>2
    <3>2. AmountInv'
      BY <2>1, <2>2, <2>3, <3>1 DEF AmountInv, Source
    <3>3. \A f \in DOMAIN event : Landed(f) => Landed(f)'
      <4> SUFFICES ASSUME NEW f \in DOMAIN event, posts[Source(f)] > 0
                   PROVE  posts'[Source(f)] > 0
        BY <2>1 DEF Landed, Source
      <4> QED
        BY <1>0, <3>1
    <3>4. ASSUME NEW f \in DOMAIN event, NEW u, Posting(u, f)
          PROVE  Landed(f)' \/ \E w \in tasks' : Posting(w, f)'
      <4>1. CASE u = t
        BY <2>1, <2>2, <3>1, <3>4, <4>1 DEF Posting, Landed, Source
      <4>2. CASE u # t
        BY <2>1, <3>4, <4>2 DEF Posting
      <4> QED
        BY <4>1, <4>2
    <3>5. \A f : Emitting(f) => Emitting(f)'
      BY <2>1 DEF Emitting
    <3>6. LandsInv'
      BY <2>1, <3>3, <3>4, <3>5, LandsStay
    <3> QED
      BY <3>2, <3>6
  <2> QED
    BY <2>4, <2>5
<1>6. ASSUME NEW t \in tasks, AuditRecord(t) PROVE AmountInv' /\ LandsInv'
  BY <1>0, <1>6, StillPosting DEF AuditRecord, Emitting, Posting, AmountInv
<1>7. ASSUME NEW t \in tasks, ListenerFails(t) PROVE AmountInv' /\ LandsInv'
  <2>1. faults' # 0
    BY <1>0, <1>7 DEF ListenerFails
  <2> QED
    BY <1>7, <2>1, StillPosting DEF ListenerFails, AmountInv
<1>8. CASE OpenFiscalPeriod \/ ClosePeriod
  BY <1>8, StillPosting DEF OpenFiscalPeriod, ClosePeriod, Emitting, Posting, AmountInv
<1>9. ASSUME NEW e \in EventIds, Process(e) PROVE AmountInv' /\ LandsInv'
  <2>1. /\ UNCHANGED <<event, posts, handlers, faults, period, beaten>>
        /\ tasks' = tasks \/ tasks' = tasks \cup Deliveries(e, "relay")
    BY <1>9 DEF Process
  <2>2. \A t \in tasks' : t.listener = "gl" /\ t.pc # "check" => event[t.ev].amount > 0
    BY <2>1 DEF AmountInv, Deliveries
  <2> QED
    BY <2>1, <2>2, StillPosting DEF Emitting, Posting
<1>10. ASSUME NEW j \in active, MarkProcessed(j) \/ Ack(j) PROVE AmountInv' /\ LandsInv'
  BY <1>10, StillPosting DEF MarkProcessed, Ack, Emitting, Posting, AmountInv
<1>11. ASSUME NEW j \in active, MarkFailed(j) PROVE AmountInv' /\ LandsInv'
  <2>1. faults' # 0
    BY <1>0, <1>11 DEF MarkFailed
  <2> QED
    BY <1>11, <2>1, StillPosting DEF MarkFailed, AmountInv
<1>12. CASE Crash
  <2>1. faults' # 0
    BY <1>0, <1>12 DEF Crash
  <2> QED
    BY <1>12, <2>1, StillPosting DEF Crash
<1>13. CASE UNCHANGED vars
  BY <1>13, StillPosting DEF vars, Emitting, Posting, AmountInv
<1> QED
  BY <1>1, <1>2, <1>3, <1>6, <1>7, <1>8, <1>9, <1>10, <1>11, <1>12, <1>13, <1>14, <1>15, <1>16,
     <1>17 DEF Next, Continue, Background, Listen, Work
=============================================================================
