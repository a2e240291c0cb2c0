------------------------ MODULE PurchaseOrdersProofs ------------------------
(***************************************************************************)
(* Proofs about purchase orders for any orders, lines, deliveries and      *)
(* number of concurrent requests.  ReceivedMeansFull is not inductive: a   *)
(* receipt writes RECEIVED because of a decision it took earlier.  The     *)
(* invariant adds what that decision is worth by then (PendingFull): the   *)
(* quantities the receipt holds still complete the order, because          *)
(* receivedQuantity never decreases.  ReceiptLinesAddUp is one sum per     *)
(* line.  Then the web client's calls and workspace and the search index.  *)
(***************************************************************************)
EXTENDS PurchaseOrders, WebSession, SearchIndex, BiWorkspace, SequenceTheorems, Sums, TLAPS

PendingFull ==
  \A r \in Requests : req[r].pc = "receive" /\ req[r].full =>
    \A l \in LinesOf(req[r].order) : received[l] + req[r].qty[l] >= Ordered[l]

-----------------------------------------------------------------------------
\* What a receipt takes is a quantity per line and at least what the status
\* decision keeps of it.
LEMMA TakeAllType ==
  ASSUME TypeOK, NEW o \in Orders
  PROVE  TakeAll(o) \in [Lines -> Nat]
  BY PurchaseAssumption DEF TypeOK, TakeAll, Remaining

LEMMA NamedType ==
  ASSUME NEW d \in Deliveries
  PROVE  /\ Named(d) \in [Lines -> Nat]
         /\ Kept(d) \in [Lines -> Nat]
         /\ \A l \in Lines : Kept(d)[l] <= Named(d)[l]
<1>1. d \in [Lines -> Nat \X Nat]
  BY PurchaseAssumption
<1>2. \A l \in Lines : d[l][1] \in Nat /\ d[l][2] \in Nat
  BY <1>1
<1> QED
  BY <1>2 DEF Named, Kept

\* The request a successful ReceiveRead leaves behind.
LEMMA ReadFacts ==
  ASSUME TypeOK, NEW r \in Requests, NEW o \in Orders, NEW d \in Deliveries,
         ReceiveRead(r, o, d)
  PROVE  \E qty \in [Lines -> Nat], full \in BOOLEAN :
           /\ req' = [req EXCEPT ![r] = [pc |-> "receive", order |-> o,
                                         qty |-> qty, full |-> full]]
           /\ full => \A l \in LinesOf(o) : received[l] + qty[l] >= Ordered[l]
<1> DEFINE qty  == IF d = NoLines THEN TakeAll(o) ELSE Named(d)
           kept == IF d = NoLines THEN qty ELSE Kept(d)
<1>1. /\ qty \in [Lines -> Nat] /\ kept \in [Lines -> Nat]
      /\ \A l \in Lines : kept[l] <= qty[l]
  BY TakeAllType, NamedType
<1>2. Fully(o, kept) \in BOOLEAN
  BY DEF Fully
<1>3. Fully(o, kept) => \A l \in LinesOf(o) : received[l] + qty[l] >= Ordered[l]
  <2> SUFFICES ASSUME Fully(o, kept), NEW l \in LinesOf(o)
               PROVE  received[l] + qty[l] >= Ordered[l]
    OBVIOUS
  <2>1. l \in Lines /\ received[l] + kept[l] >= Ordered[l]
    BY DEF Fully, LinesOf
  <2>2. received[l] \in Nat /\ kept[l] \in Nat /\ qty[l] \in Nat /\ Ordered[l] \in Nat
    BY <2>1, <1>1, PurchaseAssumption DEF TypeOK
  <2>3. kept[l] <= qty[l]
    BY <2>1, <1>1
  <2> HIDE DEF qty, kept
  <2> QED
    BY <2>1, <2>2, <2>3
<1>4. req' = [req EXCEPT ![r] = [pc |-> "receive", order |-> o, qty |-> qty,
                                 full |-> Fully(o, kept)]]
  BY DEF ReceiveRead, Goto
<1> HIDE DEF qty, kept
<1> QED
  BY <1>1, <1>2, <1>3, <1>4

LEMMA ReceiveTask ==
  ASSUME TypeOK, NEW r \in Requests, req[r].pc = "receive"
  PROVE  req[r].order \in Orders /\ req[r].qty \in [Lines -> Nat]
<1>1. req[r] \in [pc : {"receive"}, order : Orders, qty : [Lines -> Nat], full : BOOLEAN]
  BY DEF TypeOK, Request
<1> QED
  BY <1>1

-----------------------------------------------------------------------------
LEMMA InitType == Init => TypeOK
<1> SUFFICES ASSUME Init PROVE TypeOK
  OBVIOUS
<1>1. receipts \in [DOMAIN receipts -> [order : Orders, qty : [Lines -> Nat]]]
  BY DEF Init
<1>2. req \in [Requests -> Request] /\ \A r \in Requests : req[r].pc = "idle"
  BY DEF Init, Idle, Request
<1> QED
  BY <1>1, <1>2, PurchaseAssumption DEF Init, TypeOK, OrderStatus, Nothing

LEMMA ReceiveReadType ==
  ASSUME TypeOK, NEW r \in Requests, NEW o \in Orders, NEW d \in Deliveries,
         ReceiveRead(r, o, d)
  PROVE  TypeOK'
<1>1. PICK qty \in [Lines -> Nat], full \in BOOLEAN :
        req' = [req EXCEPT ![r] = [pc |-> "receive", order |-> o,
                                   qty |-> qty, full |-> full]]
  BY ReadFacts
<1>2. [pc |-> "receive", order |-> o, qty |-> qty, full |-> full] \in Request
  BY DEF Request
<1>3. req' \in [Requests -> Request]
  BY <1>1, <1>2 DEF TypeOK
<1>4. \A q \in Requests : req'[q].pc = "emit" => req'[q].receipt \in DOMAIN receipts
  BY <1>1 DEF TypeOK
<1> QED
  BY <1>3, <1>4 DEF ReceiveRead, TypeOK

LEMMA ReceiveCommitType ==
  ASSUME TypeOK, NEW r \in Requests, NEW g \in Receipts, ReceiveCommit(r, g)
  PROVE  TypeOK'
<1>1. req[r].order \in Orders /\ req[r].qty \in [Lines -> Nat]
  BY ReceiveTask DEF ReceiveCommit
<1>2. received' \in [Lines -> Nat]
  BY <1>1 DEF ReceiveCommit, TypeOK
<1>3. status' \in [Orders -> OrderStatus]
  BY <1>1 DEF ReceiveCommit, TypeOK, OrderStatus
<1>4. [order |-> req[r].order, qty |-> req[r].qty] \in [order : Orders, qty : [Lines -> Nat]]
  BY <1>1
<1>5. /\ DOMAIN receipts' = DOMAIN receipts \cup {g}
      /\ receipts' \in [DOMAIN receipts' -> [order : Orders, qty : [Lines -> Nat]]]
  BY <1>4 DEF ReceiveCommit, AddReceipt, TypeOK
<1>6. [pc |-> "emit", receipt |-> g] \in Request
  BY DEF Request
<1>7. req' \in [Requests -> Request]
  BY <1>6 DEF ReceiveCommit, Goto, TypeOK
<1>8. \A q \in Requests : req'[q].pc = "emit" => req'[q].receipt \in DOMAIN receipts'
  BY <1>5 DEF ReceiveCommit, Goto, TypeOK
<1> QED
  BY <1>2, <1>3, <1>5, <1>7, <1>8 DEF ReceiveCommit, TypeOK

LEMMA OrderStepType ==
  ASSUME TypeOK, NEW o \in Orders, CreateOrder(o) \/ ApproveOrder(o)
  PROVE  TypeOK'
  BY DEF CreateOrder, ApproveOrder, TypeOK, OrderStatus

LEMMA CancelReadType ==
  ASSUME TypeOK, NEW r \in Requests, NEW o \in Orders, CancelRead(r, o)
  PROVE  TypeOK'
  BY DEF CancelRead, Goto, TypeOK, Request

LEMMA CancelWriteType ==
  ASSUME TypeOK, NEW r \in Requests, CancelWrite(r)
  PROVE  TypeOK'
<1>1. req[r].order \in Orders
  BY DEF CancelWrite, TypeOK, Request
<1> QED
  BY <1>1 DEF CancelWrite, Goto, TypeOK, OrderStatus, Request, Idle

LEMMA AbortType ==
  ASSUME TypeOK, NEW r \in Requests, ReceiveAbort(r)
  PROVE  TypeOK'
  BY DEF ReceiveAbort, Goto, TypeOK, Request, Idle

LEMMA EmitType ==
  ASSUME TypeOK, NEW r \in Requests, Emit(r)
  PROVE  TypeOK'
<1>1. req[r].receipt \in DOMAIN receipts
  BY DEF Emit, TypeOK
<1> QED
  BY <1>1 DEF Emit, Goto, TypeOK, Request, Idle

LEMMA InvoiceType ==
  ASSUME TypeOK, NEW g \in Receipts, Invoice(g) \/ InvoiceFails(g)
  PROVE  TypeOK'
<1>1. CASE InvoiceCheck(g)
  BY <1>1 DEF InvoiceCheck, TypeOK
<1>2. CASE InvoiceCreate(g)
  BY <1>2 DEF InvoiceCreate, TypeOK
<1>3. CASE InvoiceFails(g)
  BY <1>3, PurchaseAssumption DEF InvoiceFails, TypeOK
<1> QED
  BY <1>1, <1>2, <1>3 DEF Invoice

LEMMA CrashType ==
  ASSUME TypeOK, Crash
  PROVE  TypeOK'
  BY PurchaseAssumption DEF Crash, TypeOK, Request, Idle

LEMMA TypeStep == TypeOK /\ [Next]_vars => TypeOK'
<1> SUFFICES ASSUME TypeOK, [Next]_vars PROVE TypeOK'
  OBVIOUS
<1>1. CASE UNCHANGED vars
  BY <1>1 DEF vars, TypeOK
<1> QED
  BY <1>1, OrderStepType, CancelReadType, CancelWriteType, ReceiveReadType,
     ReceiveCommitType, AbortType, EmitType, InvoiceType, CrashType DEF Next

\* Every variable of the purchase service stays in its type, for any
\* constants that satisfy the assumption.
THEOREM TypeCorrect == Spec => []TypeOK
  BY InitType, TypeStep, PTL DEF Spec

-----------------------------------------------------------------------------
FullInv == ReceivedMeansFull /\ PendingFull

\* A step that takes no decision, marks nothing RECEIVED and receives nothing.
LEMMA QuietStep ==
  ASSUME FullInv, received' = received,
         \A o \in Orders : status'[o] = "RECEIVED" => status[o] = "RECEIVED",
         \A r \in Requests : req'[r].pc = "receive" => req'[r] = req[r]
  PROVE  FullInv'
  BY DEF FullInv, ReceivedMeansFull, PendingFull, LinesOf

LEMMA ReadKeepsFull ==
  ASSUME TypeOK, FullInv, NEW r \in Requests, NEW o \in Orders,
         NEW d \in Deliveries, ReceiveRead(r, o, d)
  PROVE  FullInv'
<1>1. PICK qty \in [Lines -> Nat], full \in BOOLEAN :
        /\ req' = [req EXCEPT ![r] = [pc |-> "receive", order |-> o,
                                      qty |-> qty, full |-> full]]
        /\ full => \A l \in LinesOf(o) : received[l] + qty[l] >= Ordered[l]
  BY ReadFacts
<1>2. received' = received /\ status' = status
  BY DEF ReceiveRead
<1>3. \A q \in Requests : q # r => req'[q] = req[q]
  BY <1>1 DEF TypeOK
<1>4. req'[r] = [pc |-> "receive", order |-> o, qty |-> qty, full |-> full]
  BY <1>1 DEF TypeOK
<1>5. PendingFull'
  BY <1>1, <1>2, <1>3, <1>4 DEF FullInv, PendingFull, LinesOf
<1> QED
  BY <1>2, <1>5 DEF FullInv, ReceivedMeansFull, LinesOf

LEMMA CommitKeepsFull ==
  ASSUME TypeOK, FullInv, NEW r \in Requests, NEW g \in Receipts,
         ReceiveCommit(r, g)
  PROVE  FullInv'
<1> DEFINE o == req[r].order
           qty == req[r].qty
<1>1. o \in Orders /\ qty \in [Lines -> Nat]
  BY ReceiveTask DEF ReceiveCommit
<1>2. \A l \in Lines : /\ received'[l] = received[l] + qty[l]
                       /\ received[l] \in Nat /\ received'[l] \in Nat
                       /\ Ordered[l] \in Nat
                       /\ received'[l] >= received[l]
  BY <1>1, PurchaseAssumption DEF ReceiveCommit, TypeOK
<1>3. ReceivedMeansFull'
  <2> SUFFICES ASSUME NEW p \in Orders, status'[p] = "RECEIVED", NEW l \in LinesOf(p)
               PROVE  received'[l] >= Ordered[l]
    BY DEF ReceivedMeansFull, LinesOf
  <2>1. l \in Lines
    BY DEF LinesOf
  <2>2. CASE p = o
    <3>1. req[r].pc = "receive" /\ req[r].full
      BY <2>2, <1>1 DEF ReceiveCommit, TypeOK
    <3> QED
      BY <3>1, <2>1, <2>2, <1>2 DEF FullInv, PendingFull
  <2>3. CASE p # o
    <3>1. status[p] = "RECEIVED"
      BY <2>3 DEF ReceiveCommit, TypeOK
    <3>2. received[l] >= Ordered[l]
      BY <3>1 DEF FullInv, ReceivedMeansFull
    <3> QED
      BY <3>2, <2>1, <1>2
  <2> QED
    BY <2>2, <2>3
<1>4. PendingFull'
  <2> SUFFICES ASSUME NEW q \in Requests, req'[q].pc = "receive", req'[q].full,
                      NEW l \in LinesOf(req'[q].order)
               PROVE  received'[l] + req'[q].qty[l] >= Ordered[l]
    BY DEF PendingFull, LinesOf
  <2>1. q # r /\ req'[q] = req[q] /\ l \in Lines
    BY DEF ReceiveCommit, Goto, TypeOK, LinesOf
  <2>2. req[q].qty[l] \in Nat
    BY <2>1, ReceiveTask
  <2>3. received[l] + req[q].qty[l] >= Ordered[l]
    BY <2>1 DEF FullInv, PendingFull
  <2> QED
    BY <2>1, <2>2, <2>3, <1>2
<1> QED
  BY <1>3, <1>4 DEF FullInv

LEMMA FullStep == TypeOK /\ FullInv /\ [Next]_vars => FullInv'
<1> SUFFICES ASSUME TypeOK, FullInv, [Next]_vars PROVE FullInv'
  OBVIOUS
<1>1. ASSUME NEW o \in Orders, CreateOrder(o) \/ ApproveOrder(o) PROVE FullInv'
  BY <1>1, QuietStep DEF CreateOrder, ApproveOrder, TypeOK
<1>2. ASSUME NEW r \in Requests, NEW o \in Orders, CancelRead(r, o) PROVE FullInv'
  BY <1>2, QuietStep DEF CancelRead, Goto, TypeOK
<1>3. ASSUME NEW r \in Requests, CancelWrite(r) \/ ReceiveAbort(r) \/ Emit(r) PROVE FullInv'
  BY <1>3, QuietStep DEF CancelWrite, ReceiveAbort, Emit, Goto, TypeOK, Idle
<1>4. ASSUME NEW g \in Receipts, Invoice(g) \/ InvoiceFails(g) PROVE FullInv'
  BY <1>4, QuietStep DEF Invoice, InvoiceCheck, InvoiceCreate, InvoiceFails
<1>5. ASSUME Crash PROVE FullInv'
  BY <1>5, QuietStep DEF Crash, Idle
<1>6. ASSUME UNCHANGED vars PROVE FullInv'
  BY <1>6, QuietStep DEF vars
<1> QED
  BY <1>1, <1>2, <1>3, <1>4, <1>5, <1>6, ReadKeepsFull, CommitKeepsFull DEF Next

-----------------------------------------------------------------------------
\* What the receipts rs took of a line, as a sum of a function.
TakenOf(rs, l) == SumOf([g \in DOMAIN rs |-> rs[g].qty[l]], DOMAIN rs)

LEMMA ReceiptSum ==
  ASSUME NEW rs, NEW l
  PROVE  MapThenSumSet(LAMBDA g : rs[g].qty[l], DOMAIN rs) = TakenOf(rs, l)
<1> DEFINE Q(s) == s = [T \in SUBSET (DOMAIN rs) |->
                          IF T = {} THEN 0 ELSE rs[AnyOf(T)].qty[l] + s[T \ {AnyOf(T)}]]
<1>1. MapThenSumSet(LAMBDA g : rs[g].qty[l], DOMAIN rs) = (CHOOSE s : Q(s))[DOMAIN rs]
  BY DEF MapThenSumSet, MapThenFoldSet, AnyOf
<1>2. \A s : Q(s) <=> SumIter([g \in DOMAIN rs |-> rs[g].qty[l]], DOMAIN rs, s)
  BY DEF AnyOf, SumIter
<1> HIDE DEF Q
<1>3. (CHOOSE s : Q(s)) = (CHOOSE s : SumIter([g \in DOMAIN rs |-> rs[g].qty[l]], DOMAIN rs, s))
  BY <1>2
<1> QED
  BY <1>1, <1>3, SumUnfold DEF TakenOf

\* The running total of a line is what the receipts took of it.
TotalsInv ==
  /\ IsFiniteSet(DOMAIN receipts)
  /\ \A l \in Lines : received[l] = TakenOf(receipts, l)

LEMMA CommitAdds ==
  ASSUME TypeOK, TotalsInv, NEW r \in Requests, NEW g \in Receipts, ReceiveCommit(r, g)
  PROVE  TotalsInv'
<1>1. req[r].order \in Orders /\ req[r].qty \in [Lines -> Nat]
  BY ReceiveTask DEF ReceiveCommit
<1>2. PICK rs : rs = receipts
  OBVIOUS
<1>3. PICK ts : ts = receipts'
  OBVIOUS
<1>4. /\ DOMAIN ts = DOMAIN rs \cup {g} /\ g \notin DOMAIN rs /\ IsFiniteSet(DOMAIN rs)
      /\ ts[g].qty = req[r].qty /\ \A x \in DOMAIN rs : ts[x] = rs[x]
  BY <1>2, <1>3 DEF ReceiveCommit, AddReceipt, TotalsInv
<1>5. IsFiniteSet(DOMAIN ts)
  BY <1>4, FS_AddElement
<1>6. ASSUME NEW l \in Lines PROVE received'[l] = TakenOf(ts, l)
  <2>1. PICK f : f = [x \in DOMAIN rs |-> rs[x].qty[l]]
    OBVIOUS
  <2>2. PICK h : h = [x \in DOMAIN ts |-> ts[x].qty[l]]
    OBVIOUS
  <2>3. h[g] = req[r].qty[l] /\ \A x \in DOMAIN rs : h[x] = f[x]
    BY <1>4, <2>1, <2>2
  <2>4. h[g] \in Int /\ \A x \in DOMAIN rs : h[x] \in Int
    <3>1. \A x \in DOMAIN rs : rs[x].qty \in [Lines -> Nat]
      BY <1>2 DEF TypeOK
    <3> QED BY <1>1, <2>1, <2>3, <3>1
  <2>5. SumOf(h, DOMAIN rs \cup {g}) = h[g] + SumOf(h, DOMAIN rs)
    BY <1>4, <2>4, SumMore
  <2>6. SumOf(h, DOMAIN rs) = SumOf(f, DOMAIN rs)
    BY <1>4, <2>3, SumSame
  <2>7. received[l] = SumOf(f, DOMAIN rs)
    BY <1>2, <2>1 DEF TotalsInv, TakenOf
  <2>8. TakenOf(ts, l) = SumOf(h, DOMAIN rs \cup {g})
    BY <1>4, <2>2 DEF TakenOf
  <2>9. received[l] \in Nat /\ req[r].qty[l] \in Nat /\ received'[l] = received[l] + req[r].qty[l]
    BY <1>1 DEF ReceiveCommit, TypeOK
  <2> QED BY <2>3, <2>5, <2>6, <2>7, <2>8, <2>9
<1> QED BY <1>3, <1>5, <1>6 DEF TotalsInv

LEMMA TotalsStep == TypeOK /\ TotalsInv /\ [Next]_vars => TotalsInv'
<1> SUFFICES ASSUME TypeOK, TotalsInv, [Next]_vars PROVE TotalsInv'
  OBVIOUS
<1>1. CASE UNCHANGED <<received, receipts>>
  BY <1>1 DEF TotalsInv
<1>2. CASE \E r \in Requests, g \in Receipts : ReceiveCommit(r, g)
  BY <1>2, CommitAdds
<1>3. CASE \E o \in Orders : CreateOrder(o) \/ ApproveOrder(o)
  BY <1>1, <1>3 DEF CreateOrder, ApproveOrder
<1>4. CASE \E r \in Requests, o \in Orders :
             CancelRead(r, o) \/ \E d \in Deliveries : ReceiveRead(r, o, d)
  BY <1>1, <1>4 DEF CancelRead, ReceiveRead
<1>5. CASE \E r \in Requests : CancelWrite(r) \/ ReceiveAbort(r) \/ Emit(r)
  BY <1>1, <1>5 DEF CancelWrite, ReceiveAbort, Emit
<1>6. CASE \E g \in Receipts : Invoice(g) \/ InvoiceFails(g)
  BY <1>1, <1>6 DEF Invoice, InvoiceCheck, InvoiceCreate, InvoiceFails
<1>7. CASE Crash
  BY <1>1, <1>7 DEF Crash
<1>8. CASE UNCHANGED vars
  BY <1>1, <1>8 DEF vars
<1> QED BY <1>2, <1>3, <1>4, <1>5, <1>6, <1>7, <1>8 DEF Next

LEMMA TotalsStart == Init => TotalsInv
<1> SUFFICES ASSUME Init PROVE TotalsInv
  OBVIOUS
<1>1. DOMAIN receipts = {} /\ \A l \in Lines : received[l] = 0
  BY DEF Init, Nothing
<1>2. \A l \in Lines : TakenOf(receipts, l) = 0
  BY <1>1, SumEmpty DEF TakenOf
<1> QED BY <1>1, <1>2, FS_EmptySet DEF TotalsInv

\* receiveGoods: for any orders, lines and number of concurrent requests, every
\* variable keeps its type, an order is RECEIVED only with every line complete, and
\* the running total of each line is the sum of its receipts.
THEOREM ReceiptsAlwaysAddUp == Spec => []ReceiptsAddUp
<1>1. Init => TypeOK /\ FullInv /\ TotalsInv
  BY InitType, TotalsStart DEF Init, FullInv, ReceivedMeansFull, PendingFull, Idle
<1>2. TypeOK /\ FullInv /\ TotalsInv /\ [Next]_vars => (TypeOK /\ FullInv /\ TotalsInv)'
  BY TypeStep, FullStep, TotalsStep
<1>3. TypeOK /\ FullInv /\ TotalsInv => ReceiptsAddUp
  <2> SUFFICES ASSUME TypeOK, FullInv, TotalsInv PROVE ReceiptsAddUp
    OBVIOUS
  <2>1. ReceiptLinesAddUp
    BY ReceiptSum DEF TotalsInv, ReceiptLinesAddUp
  <2> QED BY <2>1 DEF ReceiptsAddUp, FullInv
<1> QED
  BY <1>1, <1>2, <1>3, PTL DEF Spec

(***************************************************************************)
(* Proofs about the calls of the web client, for any calls and tokens: a   *)
(* call has run exactly once when its answer came from a handler, and not  *)
(* at all while it may still be tried again.                               *)
(***************************************************************************)

LiveCall ==
  [at : {"waiting", "fresh", "refresh", "sent", "401", "ok", "failed"}, token : Nat,
   again : BOOLEAN, blob : BOOLEAN]

ApiCall ==
  {NotMade} \cup LiveCall \cup {Settled(o) : o \in {"gone", "lost", "ok", "refused"}}

\* A call that ran n times stands where q says.
StandsAt(q, n) ==
  /\ q \in ApiCall /\ n \in {0, 1}
  /\ q.at \in {"none", "waiting", "fresh", "refresh", "sent", "401"} => n = 0
  /\ q.at \in {"ok", "failed"} => n = 1
  /\ q = Settled("ok") => n = 1

CallsInv ==
  /\ token \in Nat
  /\ request \in [Calls -> ApiCall] /\ ran \in [Calls -> {0, 1}]
  /\ \A c \in Calls : StandsAt(request[c], ran[c])

LEMMA LiveCalls ==
  ASSUME NEW q \in ApiCall, q.at \notin {"none", "over"} PROVE q \in LiveCall
BY DEF ApiCall, NotMade, Settled

LEMMA SettledCalls ==
  ASSUME NEW o \in {"gone", "lost", "ok", "refused"}, NEW n \in {0, 1}, o = "ok" => n = 1
  PROVE  StandsAt(Settled(o), n)
BY DEF StandsAt, ApiCall, Settled

\* A live call that goes on: only to where it has run as often as it did.
LEMMA LiveStands ==
  ASSUME NEW q \in LiveCall, NEW n \in {0, 1},
         q.at \in {"waiting", "fresh", "refresh", "sent", "401"} => n = 0,
         q.at \in {"ok", "failed"} => n = 1
  PROVE  StandsAt(q, n)
BY DEF StandsAt, ApiCall, LiveCall, Settled

LEMMA GivenStands ==
  ASSUME NEW q \in LiveCall, NEW t \in Nat PROVE StandsAt(Given(q, t), 0)
<1>1. CASE q.again /\ t \in {0, q.token}
  <2>1. Given(q, t) = Settled("refused")
    BY <1>1 DEF Given
  <2> QED BY <2>1, SettledCalls
<1>2. CASE ~(q.again /\ t \in {0, q.token})
  <2>1. PICK g : g = [q EXCEPT !.at = "sent", !.token = t]
    OBVIOUS
  <2>2. g \in LiveCall /\ g.at = "sent"
    BY <2>1 DEF LiveCall
  <2>3. Given(q, t) = g
    BY <1>2, <2>1 DEF Given
  <2> QED BY <2>2, <2>3, LiveStands
<1> QED BY <1>1, <1>2

\* One call moves.
LEMMA CallMoves ==
  ASSUME CallsInv, NEW c \in Calls, NEW q, request' = [request EXCEPT ![c] = q], token' = token,
         NEW n, ran' = [ran EXCEPT ![c] = n], StandsAt(q, n)
  PROVE  CallsInv'
<1>1. q \in ApiCall /\ n \in {0, 1}
  BY DEF StandsAt
<1>2. request' \in [Calls -> ApiCall] /\ ran' \in [Calls -> {0, 1}]
  BY <1>1 DEF CallsInv
<1>3. \A d \in Calls : request'[d] = (IF d = c THEN q ELSE request[d])
                       /\ ran'[d] = (IF d = c THEN n ELSE ran[d])
  BY DEF CallsInv
<1>4. \A d \in Calls : StandsAt(request'[d], ran'[d])
  BY <1>3 DEF CallsInv
<1> QED BY <1>2, <1>4 DEF CallsInv

LEMMA CallStays ==
  ASSUME CallsInv, NEW c \in Calls, NEW q, request' = [request EXCEPT ![c] = q], token' = token,
         ran' = ran, StandsAt(q, ran[c])
  PROVE  CallsInv'
<1>1. ran' = [ran EXCEPT ![c] = ran[c]]
  BY DEF CallsInv
<1> QED BY <1>1, CallMoves

\* All calls move at once, those that do none of which ran.
LEMMA CallsMove ==
  ASSUME CallsInv, ran' = ran, token' \in Nat, NEW Q, request' = [c \in Calls |-> Q[c]],
         \A c \in Calls : StandsAt(Q[c], ran[c])
  PROVE  CallsInv'
<1>1. \A c \in Calls : Q[c] \in ApiCall
  BY DEF StandsAt
<1>2. request' \in [Calls -> ApiCall]
  BY <1>1
<1> QED BY <1>2 DEF CallsInv

LEMMA AuthIsReady ==
  ASSUME CallsInv, MarkAuthReady, ran' = ran, token' \in Nat PROVE CallsInv'
<1>1. PICK Q : Q = [c \in Calls |-> IF request[c].at = "waiting"
                                    THEN [request[c] EXCEPT !.at = "fresh"] ELSE request[c]]
  OBVIOUS
<1>2. request' = [c \in Calls |-> Q[c]]
  BY <1>1 DEF MarkAuthReady
<1>3. ASSUME NEW c \in Calls PROVE StandsAt(Q[c], ran[c])
  <2>1. CASE request[c].at = "waiting"
    <3>1. request[c] \in LiveCall
      BY <2>1, LiveCalls DEF CallsInv
    <3>2. PICK g : g = [request[c] EXCEPT !.at = "fresh"]
      OBVIOUS
    <3>3. g \in LiveCall /\ g.at = "fresh"
      BY <3>1, <3>2 DEF LiveCall
    <3>4. ran[c] = 0 /\ Q[c] = g
      BY <1>1, <2>1, <3>2 DEF CallsInv, StandsAt
    <3> QED BY <3>3, <3>4, LiveStands
  <2>2. CASE request[c].at # "waiting"
    BY <1>1, <2>2 DEF CallsInv
  <2> QED BY <2>1, <2>2
<1> QED BY <1>2, <1>3, CallsMove

LEMMA AllAreGiven ==
  ASSUME CallsInv, ran' = ran, token' \in Nat, NEW t \in Nat, request' = AllGiven(t)
  PROVE  CallsInv'
<1>1. PICK Q : Q = [c \in Calls |-> IF request[c].at = "refresh" THEN Given(request[c], t)
                                    ELSE request[c]]
  OBVIOUS
<1>2. request' = [c \in Calls |-> Q[c]]
  BY <1>1 DEF AllGiven
<1>3. ASSUME NEW c \in Calls PROVE StandsAt(Q[c], ran[c])
  <2>1. CASE request[c].at = "refresh"
    <3>1. request[c] \in LiveCall /\ ran[c] = 0
      BY <2>1, LiveCalls DEF CallsInv, StandsAt
    <3> QED BY <1>1, <2>1, <3>1, GivenStands
  <2>2. CASE request[c].at # "refresh"
    BY <1>1, <2>2 DEF CallsInv
  <2> QED BY <2>1, <2>2
<1> QED BY <1>2, <1>3, CallsMove

LEMMA PageIsLeft ==
  ASSUME CallsInv, LeavePage PROVE CallsInv'
<1>1. PICK Q : Q = [c \in Calls |-> IF c \in InProgress THEN Settled("gone") ELSE request[c]]
  OBVIOUS
<1>2. request' = [c \in Calls |-> Q[c]] /\ ran' = ran /\ token' \in Nat
  BY <1>1 DEF LeavePage, CallsInv
<1>3. ASSUME NEW c \in Calls PROVE StandsAt(Q[c], ran[c])
  <2>1. ran[c] \in {0, 1} /\ StandsAt(request[c], ran[c])
    BY DEF CallsInv
  <2>2. StandsAt(Settled("gone"), ran[c])
    BY <2>1, SettledCalls
  <2> QED BY <1>1, <2>1, <2>2
<1> QED BY <1>2, <1>3, CallsMove

LEMMA CallIsMade ==
  ASSUME CallsInv, NEW c \in Calls, NEW blob \in BOOLEAN, CallApi(c, blob) PROVE CallsInv'
<1>1. PICK no \in BOOLEAN : no = FALSE
  OBVIOUS
<1>2. PICK q : q = [at |-> IF page = "ready" THEN "fresh" ELSE "waiting",
                    token |-> 0, again |-> no, blob |-> blob]
  OBVIOUS
<1>3. q \in LiveCall /\ q.at \in {"fresh", "waiting"}
  BY <1>2 DEF LiveCall
<1>4. request' = [request EXCEPT ![c] = q] /\ ran' = ran /\ token' = token /\ request[c] = NotMade
  BY <1>1, <1>2 DEF CallApi
<1>5. ran[c] = 0
  BY <1>4 DEF CallsInv, StandsAt, NotMade
<1> QED BY <1>3, <1>4, <1>5, LiveStands, CallStays

LEMMA TokenIsEnsured ==
  ASSUME CallsInv, NEW c \in Calls, EnsureFreshToken(c) PROVE CallsInv'
<1>1. request[c] \in LiveCall /\ ran[c] = 0 /\ ran' = ran /\ token' = token
  BY LiveCalls DEF CallsInv, StandsAt, EnsureFreshToken
<1>2. PICK q : q = [request[c] EXCEPT !.at = "refresh"]
  OBVIOUS
<1>3. q \in LiveCall /\ q.at = "refresh"
  BY <1>1, <1>2 DEF LiveCall
<1>4. PICK t \in Nat : t = IF session THEN token ELSE 0
  BY DEF CallsInv
<1>5. request' = [request EXCEPT ![c] = q] \/ request' = [request EXCEPT ![c] = Given(request[c], t)]
  BY <1>2, <1>4 DEF EnsureFreshToken, CallsInv
<1>6. CASE request' = [request EXCEPT ![c] = q]
  BY <1>1, <1>3, <1>6, LiveStands, CallStays
<1>7. CASE request' = [request EXCEPT ![c] = Given(request[c], t)]
  BY <1>1, <1>7, GivenStands, CallStays
<1> QED BY <1>5, <1>6, <1>7

LEMMA ApiRefuses ==
  ASSUME CallsInv, NEW c \in Calls, Refuses(c) PROVE CallsInv'
<1>1. request[c] \in LiveCall /\ ran[c] = 0 /\ ran' = ran /\ token' = token
  BY LiveCalls DEF CallsInv, StandsAt, Refuses
<1>2. PICK q : q = [request[c] EXCEPT !.at = "401"]
  OBVIOUS
<1>3. q \in LiveCall /\ q.at = "401"
  BY <1>1, <1>2 DEF LiveCall
<1>4. request' = [request EXCEPT ![c] = q]
  BY <1>2 DEF Refuses, CallsInv
<1> QED BY <1>1, <1>3, <1>4, LiveStands, CallStays

LEMMA ApiRuns ==
  ASSUME CallsInv, NEW c \in Calls, Runs(c) PROVE CallsInv'
<1>1. request[c] \in LiveCall /\ ran[c] = 0 /\ token' = token
  BY LiveCalls DEF CallsInv, StandsAt, Runs
<1>2. PICK answer \in {"ok", "failed"} : request' = [request EXCEPT ![c].at = answer]
  BY DEF Runs
<1>3. PICK q : q = [request[c] EXCEPT !.at = answer]
  OBVIOUS
<1>4. q \in LiveCall /\ q.at = answer
  BY <1>1, <1>3 DEF LiveCall
<1>5. request' = [request EXCEPT ![c] = q]
  BY <1>2, <1>3 DEF CallsInv
<1>6. PICK n \in {0, 1} : n = 1
  OBVIOUS
<1>7. ran' = [ran EXCEPT ![c] = n]
  BY <1>1, <1>6 DEF Runs, CallsInv
<1>8. StandsAt(q, n)
  BY <1>4, <1>6, LiveStands
<1> QED BY <1>1, <1>5, <1>7, <1>8, CallMoves

LEMMA CallIsLost ==
  ASSUME CallsInv, NEW c \in Calls, FetchRejects(c) PROVE CallsInv'
<1>1. request' = [request EXCEPT ![c] = Settled("lost")] /\ ran' = ran /\ token' = token
  BY DEF FetchRejects
<1>2. StandsAt(Settled("lost"), ran[c])
  BY SettledCalls DEF CallsInv
<1> QED BY <1>1, <1>2, CallStays

\* Only a call that was refused before it ran is tried again.
LEMMA CallIsAnswered ==
  ASSUME CallsInv, NEW c \in Calls, Answered(c) PROVE CallsInv'
<1>1. /\ request[c] \in LiveCall /\ ran' = ran /\ token' = token /\ ran[c] \in {0, 1}
      /\ StandsAt(request[c], ran[c])
  BY LiveCalls DEF CallsInv, Answered
<1>2. CASE TriesAgain(request[c])
  <2>1. PICK yes \in BOOLEAN : yes = TRUE
    OBVIOUS
  <2>2. PICK q : q = [request[c] EXCEPT !.at = "fresh", !.again = yes]
    OBVIOUS
  <2>3. q \in LiveCall /\ q.at = "fresh"
    BY <1>1, <2>2 DEF LiveCall
  <2>4. request' = [request EXCEPT ![c] = q]
    BY <1>2, <2>1, <2>2 DEF Answered, CallsInv
  <2>5. ran[c] = 0
    BY <1>1, <1>2 DEF TriesAgain, StandsAt
  <2> QED BY <1>1, <2>3, <2>4, <2>5, LiveStands, CallStays
<1>3. CASE ~TriesAgain(request[c])
  <2>1. PICK o \in {"ok", "refused"} : o = IF request[c].at = "ok" THEN "ok" ELSE "refused"
    OBVIOUS
  <2>2. request' = [request EXCEPT ![c] = Settled(o)]
    BY <1>3, <2>1 DEF Answered, CallsInv
  <2>3. o = "ok" => ran[c] = 1
    BY <1>1, <2>1 DEF StandsAt
  <2>4. StandsAt(Settled(o), ran[c])
    BY <1>1, <2>3, SettledCalls
  <2> QED BY <1>1, <2>2, <2>4, CallStays
<1> QED BY <1>2, <1>3

LEMMA SessionStep == CallsInv /\ [SessionNext]_sessionVars => CallsInv'
<1> SUFFICES ASSUME CallsInv, [SessionNext]_sessionVars PROVE CallsInv'
  OBVIOUS
<1>1. CASE OpenPage \/ TokenAges \/ PeriodicRefresh \/ UNCHANGED sessionVars
  <2>1. UNCHANGED <<token, request, ran>>
    BY <1>1 DEF OpenPage, TokenAges, PeriodicRefresh, sessionVars
  <2> QED BY <2>1 DEF CallsInv
<1>2. CASE InitSettles
  <2>1. MarkAuthReady /\ ran' = ran /\ token' \in Nat
    BY <1>2 DEF InitSettles, InitResolves, InitRejects, CallsInv
  <2> QED BY <2>1, AuthIsReady
<1>3. CASE LeavePage
  BY <1>3, PageIsLeft
<1>4. CASE RefreshSucceeds
  <2>1. token' \in Nat /\ ran' = ran
    BY <1>4 DEF RefreshSucceeds, CallsInv
  <2>2. request' = AllGiven(token')
    BY <1>4 DEF RefreshSucceeds
  <2> QED BY <2>1, <2>2, AllAreGiven
<1>5. CASE RefreshFails
  <2>1. token' \in Nat /\ ran' = ran /\ request' = AllGiven(0)
    BY <1>5 DEF RefreshFails, CallsInv
  <2> QED BY <2>1, AllAreGiven
<1>6. ASSUME NEW c \in Calls, \/ \E blob \in BOOLEAN : CallApi(c, blob)
                              \/ CallSteps(c)
      PROVE CallsInv'
  BY <1>6, CallIsMade, TokenIsEnsured, ApiRefuses, ApiRuns, CallIsLost, CallIsAnswered DEF CallSteps
<1> QED BY <1>1, <1>2, <1>3, <1>4, <1>5, <1>6 DEF SessionNext, RefreshSettles

\* apiClient and ensureFreshToken: a call reaches a handler at most once, and exactly
\* once if its caller is told that it succeeded, whatever tokens expire meanwhile.
THEOREM CallsAlwaysHold == SessionSpec => []CallsHold
<1>1. SessionInit => CallsInv
  <2> SUFFICES ASSUME SessionInit PROVE CallsInv
    OBVIOUS
  <2>1. StandsAt(NotMade, 0) /\ NotMade \in ApiCall
    BY DEF StandsAt, NotMade, Settled, ApiCall
  <2> QED BY <2>1 DEF SessionInit, CallsInv
<1>2. CallsInv => CallsHold
  BY DEF CallsInv, StandsAt, CallsHold, CallsRunOnce, SuccessHasRun
<1> QED BY <1>1, <1>2, SessionStep, PTL DEF SessionSpec

(***************************************************************************)
(* Proofs about the search index, for any kinds, rows, versions and bulk   *)
(* loads: what is on its way about a row whose requests do not overlap is  *)
(* what the database holds of it.                                          *)
(***************************************************************************)

\* What the index should hold of a row.
Wanted(r) == IF r \in gone THEN 0 ELSE version[r]

OnItsWay(r) == \E q \in sent : q.row = r

IndexType ==
  /\ version \in [Rows -> Nat] /\ doc \in [Rows -> Nat]
  /\ sent \subseteq [row : Rows, version : Nat]
  /\ DOMAIN reindex = Reindexings
  /\ \A x \in Reindexing : \E k, f : reindex[x] = [at |-> k, rows |-> f]
  /\ \A x \in Reindexing : \A r \in Rows : r \in DOMAIN reindex[x].rows => reindex[x].rows[r] \in Nat

\* A row whose requests did not overlap: what is sent, and loaded, of it is right,
\* and when nothing is sent the index is; nothing is sent while a load runs.
RowInStep(r) ==
  /\ \A q \in sent : q.row = r => q.version = Wanted(r)
  /\ OnItsWay(r) => Reindexing = {}
  /\ ~OnItsWay(r) => doc[r] = Wanted(r)
  /\ \A x \in Reindexing : r \in DOMAIN reindex[x].rows => reindex[x].rows[r] = Wanted(r)

IndexInv == IndexType /\ \A r \in Rows \ (mixed \cup refused) : RowInStep(r)

LEMMA RowIsSent ==
  ASSUME IndexInv, NEW r \in Rows, ChangeRow(r) \/ RemoveRow(r) PROVE IndexInv'
<1>1. PICK v \in Nat : Send(r, v) /\ v = Wanted(r)'
  <2>1. CASE ChangeRow(r)
    <3>1. version[r] \in Nat /\ version'[r] = version[r] + 1 /\ gone' = gone /\ r \notin gone
      BY <2>1 DEF ChangeRow, IndexInv, IndexType
    <3>2. Wanted(r)' = version[r] + 1
      BY <3>1 DEF Wanted
    <3> QED BY <2>1, <3>1, <3>2 DEF ChangeRow
  <2>2. CASE RemoveRow(r)
    <3>1. Wanted(r)' = 0
      BY <2>2 DEF RemoveRow, Wanted
    <3> QED BY <2>2, <3>1 DEF RemoveRow
  <2> QED BY <2>1, <2>2
<1>2. /\ UNCHANGED <<doc, reindex, refused>> /\ version' \in [Rows -> Nat]
      /\ \A s \in Rows : s # r => Wanted(s)' = Wanted(s)
  BY DEF ChangeRow, RemoveRow, IndexInv, IndexType, Wanted
<1>3. PICK q : q = [row |-> r, version |-> v]
  OBVIOUS
<1>4. q \in [row : Rows, version : Nat] /\ q.row = r /\ q.version = v
  BY <1>1, <1>3
<1>5. sent' = sent \cup {q} /\ mixed' = IF Overlaps(r) THEN mixed \cup {r} ELSE mixed
  BY <1>1, <1>3 DEF Send
<1>7. Reindexing' = Reindexing
  BY <1>2 DEF Reindexing
<1>6. IndexType'
  BY <1>2, <1>4, <1>5, <1>7 DEF IndexInv, IndexType
<1>8. ASSUME NEW s \in Rows \ (mixed' \cup refused'), s # r PROVE RowInStep(s)'
  <2>1. RowInStep(s) /\ Wanted(s)' = Wanted(s)
    BY <1>2, <1>5, <1>8 DEF IndexInv
  <2>2. OnItsWay(s)' <=> OnItsWay(s)
    BY <1>4, <1>5, <1>8 DEF OnItsWay
  <2> QED BY <1>2, <1>4, <1>5, <1>7, <1>8, <2>1, <2>2 DEF RowInStep
<1>9. ASSUME r \notin mixed' \cup refused' PROVE RowInStep(r)'
  <2>1. ~Overlaps(r)
    BY <1>5, <1>9
  <2>2. \A p \in sent : p.row # r
    BY <2>1 DEF Overlaps
  <2>3. Reindexing = {}
    BY <2>1 DEF Overlaps
  <2>4. OnItsWay(r)'
    BY <1>4, <1>5 DEF OnItsWay
  <2>5. \A p \in sent' : p.row = r => p.version = Wanted(r)'
    BY <1>1, <1>4, <1>5, <2>2
  <2> QED BY <1>7, <2>3, <2>4, <2>5 DEF RowInStep
<1> QED BY <1>6, <1>8, <1>9 DEF IndexInv

LEMMA RequestArrives ==
  ASSUME IndexInv, NEW q \in sent, Arrive(q) PROVE IndexInv'
<1>1. q \in [row : Rows, version : Nat]
  BY DEF IndexInv, IndexType
<1>2. q.row \in Rows /\ q.version \in Nat
  BY <1>1
<1>3. /\ sent' = sent \ {q} /\ UNCHANGED <<version, gone, reindex, mixed, refused>>
      /\ \A s \in Rows : doc'[s] = IF s = q.row THEN q.version ELSE doc[s]
  BY <1>2 DEF Arrive, IndexInv, IndexType
<1>5. Reindexing' = Reindexing /\ \A s \in Rows : Wanted(s)' = Wanted(s)
  BY <1>3 DEF Reindexing, Wanted
<1>4. IndexType'
  <2>1. doc' \in [Rows -> Nat]
    BY <1>2 DEF Arrive, IndexInv, IndexType
  <2>2. sent' \subseteq [row : Rows, version : Nat]
    BY <1>3 DEF IndexInv, IndexType
  <2>3. reindex' = reindex /\ version' = version
    BY <1>3
  <2>4. /\ \A x \in Reindexing' : \E k, f : reindex'[x] = [at |-> k, rows |-> f]
        /\ \A x \in Reindexing' : \A r \in Rows :
             r \in DOMAIN reindex'[x].rows => reindex'[x].rows[r] \in Nat
    BY <1>5, <2>3 DEF IndexInv, IndexType
  <2> QED BY <2>1, <2>2, <2>3, <2>4 DEF IndexInv, IndexType
<1>6. ASSUME NEW s \in Rows \ (mixed' \cup refused') PROVE RowInStep(s)'
  <2>1. RowInStep(s) /\ Wanted(s)' = Wanted(s)
    BY <1>3, <1>5, <1>6 DEF IndexInv
  <2>2. CASE s = q.row
    <3>1. q.version = Wanted(s) /\ doc'[s] = q.version /\ OnItsWay(s)
      BY <1>3, <1>6, <2>1, <2>2 DEF RowInStep, OnItsWay
    <3> QED BY <1>3, <1>5, <2>1, <3>1 DEF RowInStep
  <2>3. CASE s # q.row
    <3>1. doc'[s] = doc[s] /\ (OnItsWay(s)' <=> OnItsWay(s))
      BY <1>3, <1>6, <2>3 DEF OnItsWay
    <3> QED BY <1>3, <1>5, <2>1, <3>1 DEF RowInStep
  <2> QED BY <2>2, <2>3
<1> QED BY <1>4, <1>6 DEF IndexInv

LEMMA RequestRefused ==
  ASSUME IndexInv, NEW q \in sent, Refuse(q) PROVE IndexInv'
<1>1. /\ sent' = sent \ {q} /\ refused' = refused \cup {q.row}
      /\ UNCHANGED <<version, gone, doc, reindex, mixed>>
  BY DEF Refuse
<1>3. Reindexing' = Reindexing /\ \A s \in Rows : Wanted(s)' = Wanted(s)
  BY <1>1 DEF Reindexing, Wanted
<1>2. IndexType'
  BY <1>1, <1>3 DEF IndexInv, IndexType
<1>4. ASSUME NEW s \in Rows \ (mixed' \cup refused') PROVE RowInStep(s)'
  <2>1. RowInStep(s) /\ Wanted(s)' = Wanted(s) /\ s # q.row
    BY <1>1, <1>3, <1>4 DEF IndexInv
  <2>2. OnItsWay(s)' <=> OnItsWay(s)
    BY <1>1, <2>1 DEF OnItsWay
  <2> QED BY <1>1, <1>3, <2>1, <2>2 DEF RowInStep
<1> QED BY <1>2, <1>4 DEF IndexInv

\* A bulk load reads what is wanted; rows about which something is sent are mixed.
LEMMA LoadReads ==
  ASSUME IndexInv, NEW x \in Reindexings, ReindexRead(x) PROVE IndexInv'
<1>1. PICK read : read = [r \in {q \in Rows \ gone : version[q] > 0} |-> version[r]]
  OBVIOUS
<1>2. PICK l : l = [at |-> 1, rows |-> read]
  OBVIOUS
<1>3. /\ reindex' = [reindex EXCEPT ![x] = l] /\ mixed' = mixed \cup {q.row : q \in sent}
      /\ UNCHANGED <<version, gone, doc, sent, refused>>
  BY <1>1, <1>2 DEF ReindexRead
<1>5. \A s \in Rows : Wanted(s)' = Wanted(s)
  BY <1>3 DEF Wanted
<1>6. \A y \in Reindexing' : y = x \/ (y \in Reindexing /\ reindex'[y] = reindex[y])
  BY <1>3 DEF Reindexing, IndexInv, IndexType
<1>7. reindex'[x] = l /\ l.rows = read
  BY <1>2, <1>3 DEF IndexInv, IndexType
<1>4. IndexType'
  <2>3. \A y \in Reindexing' : \E k, f : reindex'[y] = [at |-> k, rows |-> f]
    BY <1>2, <1>6, <1>7 DEF IndexInv, IndexType
  <2>1. \A r \in DOMAIN read : read[r] \in Nat
    BY <1>1 DEF IndexInv, IndexType
  <2>2. \A y \in Reindexing' : \A r \in Rows :
          r \in DOMAIN reindex'[y].rows => reindex'[y].rows[r] \in Nat
    BY <1>6, <1>7, <2>1 DEF IndexInv, IndexType
  <2> QED BY <1>3, <2>2, <2>3 DEF IndexInv, IndexType
<1>8. ASSUME NEW s \in Rows \ (mixed' \cup refused') PROVE RowInStep(s)'
  <2>1. RowInStep(s) /\ Wanted(s)' = Wanted(s) /\ s \notin {q.row : q \in sent}
    BY <1>3, <1>5, <1>8 DEF IndexInv
  <2>2. ~OnItsWay(s) /\ ~OnItsWay(s)'
    BY <1>3, <2>1 DEF OnItsWay
  <2>3. s \in DOMAIN read => read[s] = Wanted(s)
    BY <1>1 DEF Wanted
  <2>4. \A y \in Reindexing' : s \in DOMAIN reindex'[y].rows => reindex'[y].rows[s] = Wanted(s)
    BY <1>6, <1>7, <2>1, <2>3 DEF RowInStep
  <2> QED BY <1>3, <2>1, <2>2, <2>4 DEF RowInStep
<1> QED BY <1>4, <1>8 DEF IndexInv

LEMMA LoadSends ==
  ASSUME IndexInv, NEW x \in Reindexings, ReindexBulk(x) PROVE IndexInv'
<1>1. x \in Reindexing
  BY DEF ReindexBulk, Reindexing
<1>2. PICK i : i = reindex[x].at
  OBVIOUS
<1>3. UNCHANGED <<version, gone, sent, mixed, refused>>
  BY DEF ReindexBulk
<1>4. PICK rows : rows = reindex[x].rows
  OBVIOUS
<1>5. doc' = [r \in Rows |-> IF r \in Kinds[i] \cap DOMAIN rows THEN rows[r] ELSE doc[r]]
  BY <1>2, <1>4 DEF ReindexBulk
<1>6. PICK l : reindex' = [reindex EXCEPT ![x] = l] /\ (l = Over \/ l = [reindex[x] EXCEPT !.at = i + 1])
  BY <1>2 DEF ReindexBulk, IndexInv, IndexType
<1>7. \A s \in Rows : Wanted(s)' = Wanted(s)
  BY <1>3 DEF Wanted
<1>8. \A y \in Reindexing' : y \in Reindexing
                             /\ reindex'[y].rows = reindex[y].rows
                             /\ \E k, f : reindex'[y] = [at |-> k, rows |-> f]
  <2> SUFFICES ASSUME NEW y \in Reindexing'
               PROVE  /\ y \in Reindexing /\ reindex'[y].rows = reindex[y].rows
                      /\ \E k, f : reindex'[y] = [at |-> k, rows |-> f]
    OBVIOUS
  <2>1. y \in Reindexings /\ reindex'[y].at \in DOMAIN Kinds
    BY DEF Reindexing
  <2>2. CASE y # x
    <3>1. reindex'[y] = reindex[y]
      BY <1>6, <2>1, <2>2 DEF IndexInv, IndexType
    <3>2. y \in Reindexing
      BY <2>1, <3>1 DEF Reindexing
    <3> QED BY <3>1, <3>2 DEF IndexInv, IndexType
  <2>3. CASE y = x
    <3>1. reindex'[x] = l
      BY <1>6 DEF IndexInv, IndexType
    <3>2. l # Over
      BY <2>1, <2>3, <3>1, SearchAssumption DEF Over
    <3>3. PICK k, f : reindex[x] = [at |-> k, rows |-> f]
      BY <1>1 DEF IndexInv, IndexType
    <3>4. l = [at |-> i + 1, rows |-> f]
      BY <1>6, <3>2, <3>3
    <3>5. l.rows = reindex[x].rows
      BY <3>3, <3>4
    <3> QED BY <1>1, <2>3, <3>1, <3>4, <3>5
  <2> QED BY <2>2, <2>3
<1>9. ASSUME NEW s \in Rows \ (mixed \cup refused)
      PROVE  s \in DOMAIN rows => rows[s] = Wanted(s)
  BY <1>1, <1>4, <1>9 DEF IndexInv, RowInStep
<1>10. ASSUME NEW s \in Rows \ (mixed' \cup refused') PROVE RowInStep(s)'
  <2>1. RowInStep(s) /\ Wanted(s)' = Wanted(s)
    BY <1>3, <1>7, <1>10 DEF IndexInv
  <2>2. ~OnItsWay(s) /\ ~OnItsWay(s)'
    BY <1>1, <1>3, <2>1 DEF RowInStep, OnItsWay
  <2>3. doc'[s] = Wanted(s)
    BY <1>3, <1>5, <1>9, <1>10, <2>1, <2>2 DEF RowInStep
  <2>4. \A y \in Reindexing' : s \in DOMAIN reindex'[y].rows => reindex'[y].rows[s] = Wanted(s)
    BY <1>8, <1>10, <2>1 DEF RowInStep
  <2> QED BY <1>3, <2>1, <2>2, <2>3, <2>4 DEF RowInStep, OnItsWay
<1>11. IndexType'
  <2>1. \A r \in Rows : r \in DOMAIN rows => rows[r] \in Nat
    BY <1>1, <1>4 DEF IndexInv, IndexType
  <2>2. doc' \in [Rows -> Nat]
    BY <1>5, <2>1 DEF IndexInv, IndexType
  <2>3. \A y \in Reindexing' : \A r \in Rows :
          r \in DOMAIN reindex'[y].rows => reindex'[y].rows[r] \in Nat
    BY <1>8 DEF IndexInv, IndexType
  <2>4. \A y \in Reindexing' : \E k, f : reindex'[y] = [at |-> k, rows |-> f]
    BY <1>8 DEF IndexInv, IndexType
  <2> QED BY <1>3, <1>6, <2>2, <2>3, <2>4 DEF IndexInv, IndexType
<1> QED BY <1>10, <1>11 DEF IndexInv

LEMMA LoadFails ==
  ASSUME IndexInv, NEW x \in Reindexings, ReindexFails(x) PROVE IndexInv'
<1>1. UNCHANGED <<version, gone, doc, sent, mixed>> /\ refused \subseteq refused'
      /\ reindex' = [reindex EXCEPT ![x] = Over]
  BY DEF ReindexFails
<1>2. \A s \in Rows : Wanted(s)' = Wanted(s)
  BY <1>1 DEF Wanted
<1>3. Reindexing' \subseteq Reindexing /\ \A y \in Reindexing' : reindex'[y] = reindex[y]
  <2>1. Over.at \notin DOMAIN Kinds
    BY SearchAssumption DEF Over
  <2> QED BY <1>1, <2>1 DEF Reindexing, IndexInv, IndexType
<1>4. x \in Reindexing
  BY DEF ReindexFails, Reindexing
<1>5. IndexType'
  BY <1>1, <1>3 DEF IndexInv, IndexType
<1>6. ASSUME NEW s \in Rows \ (mixed' \cup refused') PROVE RowInStep(s)'
  <2>1. RowInStep(s) /\ Wanted(s)' = Wanted(s) /\ (OnItsWay(s)' <=> OnItsWay(s))
    BY <1>1, <1>2, <1>6 DEF IndexInv, OnItsWay
  <2>2. ~OnItsWay(s)
    BY <1>4, <2>1 DEF RowInStep
  <2> QED BY <1>1, <1>3, <2>1, <2>2 DEF RowInStep
<1> QED BY <1>5, <1>6 DEF IndexInv

LEMMA IndexStarts == SearchInit => IndexInv
<1> SUFFICES ASSUME SearchInit PROVE IndexInv
  OBVIOUS
<1>1. Reindexing = {}
  <2>1. NoReindex.at \notin DOMAIN Kinds
    BY SearchAssumption DEF NoReindex
  <2> QED BY <2>1 DEF SearchInit, Reindexing
<1>2. \A r \in Rows : ~OnItsWay(r) /\ Wanted(r) = 0 /\ doc[r] = 0
  BY DEF SearchInit, OnItsWay, Wanted
<1>3. IndexType
  BY <1>1 DEF SearchInit, IndexType
<1>4. \A r \in Rows : RowInStep(r)
  BY <1>1, <1>2 DEF SearchInit, RowInStep
<1> QED BY <1>3, <1>4 DEF IndexInv

LEMMA IndexKeeps == IndexInv /\ [SearchNext]_searchVars => IndexInv'
<1> SUFFICES ASSUME IndexInv, [SearchNext]_searchVars PROVE IndexInv'
  OBVIOUS
<1>1. ASSUME NEW r \in Rows, ChangeRow(r) \/ RemoveRow(r) PROVE IndexInv'
  BY <1>1, RowIsSent
<1>2. ASSUME NEW q \in sent, Arrive(q) PROVE IndexInv'
  BY <1>2, RequestArrives
<1>3. ASSUME NEW q \in sent, Refuse(q) PROVE IndexInv'
  BY <1>3, RequestRefused
<1>4. ASSUME NEW x \in Reindexings, ReindexRead(x) PROVE IndexInv'
  BY <1>4, LoadReads
<1>5. ASSUME NEW x \in Reindexings, ReindexBulk(x) PROVE IndexInv'
  BY <1>5, LoadSends
<1>6. ASSUME NEW x \in Reindexings, ReindexFails(x) PROVE IndexInv'
  BY <1>6, LoadFails
<1>7. CASE UNCHANGED searchVars
  <2>1. UNCHANGED <<version, gone, doc, sent, reindex, mixed, refused>>
    BY <1>7 DEF searchVars
  <2>2. Reindexing' = Reindexing /\ \A r \in Rows : Wanted(r)' = Wanted(r) /\ (OnItsWay(r)' <=> OnItsWay(r))
    BY <2>1 DEF Reindexing, Wanted, OnItsWay
  <2>3. IndexType'
    BY <2>1, <2>2 DEF IndexInv, IndexType
  <2>4. \A r \in Rows \ (mixed' \cup refused') : RowInStep(r)'
    BY <2>1, <2>2 DEF IndexInv, RowInStep
  <2> QED BY <2>3, <2>4 DEF IndexInv
<1> QED BY <1>1, <1>2, <1>3, <1>4, <1>5, <1>6, <1>7 DEF SearchNext

LEMMA SettledMeansFollowing == IndexInv => IndexFollows
<1> SUFFICES ASSUME IndexInv PROVE IndexFollows
  OBVIOUS
<1>1. \A r \in SettledRows : r \in Rows /\ doc[r] = Wanted(r)
  BY DEF SettledRows, IndexInv, RowInStep, OnItsWay
<1> QED BY <1>1 DEF IndexFollows, SettledIndexAgrees, RemovedIsNotFound, Wanted

\* SearchService and the services that call it: however changes, removals and bulk
\* loads interleave and in whatever order the requests arrive, once nothing is on its
\* way the index holds every live row, and no removed one, whose requests neither
\* overlapped nor were refused, at its last version.
THEOREM IndexAlwaysFollows == SearchSpec => []IndexFollows
<1>1. SearchInit => IndexInv
  BY IndexStarts
<1>2. IndexInv /\ [SearchNext]_searchVars => IndexInv'
  BY IndexKeeps
<1>3. IndexInv => IndexFollows
  BY SettledMeansFollowing
<1> QED BY <1>1, <1>2, <1>3, PTL DEF SearchSpec

(***************************************************************************)
(* Proofs about the analytics workspace, for any pages and filters: only   *)
(* the last load of the page on screen can still write, and the timer and  *)
(* the saves under way hold the last layout of their pages.                *)
(***************************************************************************)

WidgetMark(p) == <<"widget", p>>
LayoutMark(p) == <<"layout", p>>

WidgetType ==
  /\ biPage \in AllPages /\ DOMAIN shown = ReportPages
  /\ widgetCalls \subseteq [page : ReportPages, filter : BiFilters, cancelled : BOOLEAN]

\* A load that is not cancelled is of the page and the filter on screen.
LoadsAreCurrent ==
  \A c \in widgetCalls : ~c.cancelled => c.page = biPage /\ c.filter = biFilter

WidgetInv == WidgetType /\ LoadsAreCurrent /\ WidgetsShowFilter

LayoutType ==
  /\ biPage \in AllPages /\ DOMAIN biLayout = ReportPages /\ DOMAIN biSaved = ReportPages
  /\ \A s \in saveTimer \cup saveCalls : s.page \in ReportPages

\* A page's last layout is the one that the timer holds, or else those of its saves
\* under way, or else the one in the database.
LayoutIsKept(p) ==
  /\ \A s \in saveTimer : s.page = p => s.layout = biLayout[p]
  /\ (\A s \in saveTimer : s.page # p) =>
       /\ \A c \in saveCalls : c.page = p => c.layout = biLayout[p]
       /\ (\A c \in saveCalls : c.page # p) => biSaved[p] = biLayout[p]

LayoutInv ==
  /\ LayoutType
  /\ \A s, t \in saveTimer : s = t
  /\ \A p \in ReportPages : LayoutMark(p) \notin lost => LayoutIsKept(p)

LEMMA MarksDiffer ==
  ASSUME NEW p, NEW q
  PROVE  /\ WidgetMark(p) # LayoutMark(q)
         /\ WidgetMark(p) = WidgetMark(q) => p = q
         /\ LayoutMark(p) = LayoutMark(q) => p = q
  BY DEF WidgetMark, LayoutMark

\* Whatever runs the effect again leaves one load that is not cancelled, of the page
\* and the filter that are then on screen.
LEMMA LoadIsCurrent ==
  ASSUME WidgetInv, NEW p \in AllPages, NEW f \in BiFilters, LoadWidgets(p, f),
         biPage' = p, biFilter' = f, shown' = shown
  PROVE  WidgetInv'
<1>1. PICK no \in BOOLEAN : no = FALSE
  OBVIOUS
<1>2. PICK yes \in BOOLEAN : yes = TRUE
  OBVIOUS
<1>3. PICK old : old = {[c EXCEPT !.cancelled = yes] : c \in widgetCalls}
  OBVIOUS
<1>4. PICK new : new = [page |-> p, filter |-> f, cancelled |-> no]
  OBVIOUS
<1>5. widgetCalls' = old \cup (IF p = Executive THEN {} ELSE {new})
  BY <1>1, <1>2, <1>3, <1>4 DEF LoadWidgets
<1>6. \A c \in old : c \in [page : ReportPages, filter : BiFilters, cancelled : BOOLEAN] /\ c.cancelled
  <2> SUFFICES ASSUME NEW d \in widgetCalls, NEW c, c = [d EXCEPT !.cancelled = yes]
               PROVE  c \in [page : ReportPages, filter : BiFilters, cancelled : BOOLEAN] /\ c.cancelled
    BY <1>3
  <2>1. d \in [page : ReportPages, filter : BiFilters, cancelled : BOOLEAN]
    BY DEF WidgetInv, WidgetType
  <2>2. c \in [page : ReportPages, filter : BiFilters, cancelled : BOOLEAN] /\ c.cancelled = yes
    BY <2>1
  <2> QED BY <1>2, <2>2
<1>7. p # Executive => p \in ReportPages
  BY DEF AllPages
<1>8. p # Executive => new \in [page : ReportPages, filter : BiFilters, cancelled : BOOLEAN]
  BY <1>4, <1>7
<1>9. new.page = p /\ new.filter = f /\ ~new.cancelled
  BY <1>1, <1>4
<1>10. WidgetType'
  BY <1>5, <1>6, <1>8 DEF WidgetInv, WidgetType
<1>11. LoadsAreCurrent'
  BY <1>5, <1>6, <1>9 DEF LoadsAreCurrent
<1>12. WidgetsShowFilter'
  <2>1. CASE p = Executive
    BY <2>1, BiAssumption DEF WidgetsShowFilter
  <2>2. CASE p # Executive
    <3>1. new \in widgetCalls'
      BY <1>5, <2>2
    <3> QED BY <1>9, <3>1 DEF WidgetsShowFilter
  <2> QED BY <2>1, <2>2
<1> QED BY <1>10, <1>11, <1>12 DEF WidgetInv

\* A load that is answered, or fails.
LEMMA LoadIsAnswered ==
  ASSUME WidgetInv, NEW c \in widgetCalls, WidgetAnswered(c) PROVE WidgetInv'
<1>1. /\ widgetCalls' = widgetCalls \ {c} /\ UNCHANGED <<biPage, biFilter>>
      /\ c.page \in ReportPages
  BY DEF WidgetAnswered, WidgetInv, WidgetType
<1>2. CASE c.cancelled
  <2>1. UNCHANGED <<shown, lost>>
    BY <1>2 DEF WidgetAnswered
  <2> QED BY <1>1, <1>2, <2>1 DEF WidgetInv, WidgetType, LoadsAreCurrent, WidgetsShowFilter
<1>3. CASE ~c.cancelled
  <2>1. c.page = biPage /\ c.filter = biFilter
    BY <1>3 DEF WidgetInv, LoadsAreCurrent
  <2>2. \/ shown' = [shown EXCEPT ![biPage] = biFilter]
        \/ shown' = shown /\ lost' = lost \cup {<<"widget", biPage>>}
    BY <1>3, <2>1 DEF WidgetAnswered
  <2>3. WidgetsShowFilter'
    BY <1>1, <2>1, <2>2 DEF WidgetInv, WidgetType, WidgetsShowFilter
  <2>4. WidgetType' /\ LoadsAreCurrent'
    BY <1>1, <2>2 DEF WidgetInv, WidgetType, LoadsAreCurrent
  <2> QED BY <2>3, <2>4 DEF WidgetInv
<1> QED BY <1>2, <1>3

\* The load at the end of an edit: it writes into its own page what the click saw.
LEMMA EditIsAnswered ==
  ASSUME WidgetInv, NEW c \in editCalls, EditAnswered(c) PROVE WidgetInv'
<1>1. /\ UNCHANGED <<biPage, biFilter, widgetCalls>>
      /\ shown' = [shown EXCEPT ![c.page] = c.filter]
      /\ lost' = IF c.filter = biFilter THEN lost ELSE lost \cup {<<"widget", c.page>>}
  BY DEF EditAnswered
<1>2. WidgetType' /\ LoadsAreCurrent'
  BY <1>1 DEF WidgetInv, WidgetType, LoadsAreCurrent
<1>3. WidgetsShowFilter'
  <2>1. CASE c.page = biPage
    BY <1>1, <2>1 DEF WidgetInv, WidgetType, WidgetsShowFilter
  <2>2. CASE c.page # biPage
    BY <1>1, <2>2 DEF WidgetInv, WidgetType, WidgetsShowFilter
  <2> QED BY <2>1, <2>2
<1> QED BY <1>2, <1>3 DEF WidgetInv

LEMMA WidgetsKeep ==
  ASSUME WidgetInv, biFilter \in BiFilters, [BiNext]_biVars
  PROVE  WidgetInv' /\ biFilter' \in BiFilters
<1>1. CASE UNCHANGED <<biPage, biFilter, shown, widgetCalls>> /\ \A p : WidgetMark(p) \in lost => WidgetMark(p) \in lost'
  BY <1>1 DEF WidgetInv, WidgetType, LoadsAreCurrent, WidgetsShowFilter, WidgetMark
<1>2. ASSUME NEW f \in BiFilters, SetSlicers(f) PROVE WidgetInv' /\ biFilter' \in BiFilters
  <2>1. biPage \in AllPages /\ LoadWidgets(biPage, f) /\ biPage' = biPage /\ biFilter' = f /\ shown' = shown
    BY <1>2 DEF SetSlicers, WidgetInv, WidgetType
  <2> QED BY <2>1, LoadIsCurrent
<1>3. ASSUME NEW p \in AllPages, SetActivePage(p) PROVE WidgetInv' /\ biFilter' \in BiFilters
  <2>1. LoadWidgets(p, biFilter) /\ biPage' = p /\ biFilter' = biFilter /\ shown' = shown
    BY <1>3 DEF SetActivePage
  <2> QED BY <2>1, LoadIsCurrent
<1>4. ASSUME UpdateSelectedWidget \/ LayoutChange PROVE WidgetInv' /\ biFilter' \in BiFilters
  <2>1. biPage \in AllPages /\ LoadWidgets(biPage, biFilter) /\ biPage' = biPage /\ biFilter' = biFilter /\ shown' = shown
    BY <1>4 DEF UpdateSelectedWidget, LayoutChange, WidgetInv, WidgetType
  <2> QED BY <2>1, LoadIsCurrent
<1>5. ASSUME NEW c \in widgetCalls, WidgetAnswered(c) PROVE WidgetInv' /\ biFilter' \in BiFilters
  <2>1. biFilter' = biFilter
    BY <1>5 DEF WidgetAnswered
  <2> QED BY <1>5, <2>1, LoadIsAnswered
<1>6. ASSUME NEW c \in editCalls, EditAnswered(c) PROVE WidgetInv' /\ biFilter' \in BiFilters
  <2>1. biFilter' = biFilter
    BY <1>6 DEF EditAnswered
  <2> QED BY <1>6, <2>1, EditIsAnswered
<1>7. CASE Open \/ SetLive \/ \E s \in streams : Pushes(s)
  BY <1>1, <1>7 DEF Open, SetLive, Pushes, widgetVars
<1>8. CASE TimerFires
  <2>1. UNCHANGED <<biPage, biFilter, shown, widgetCalls>> /\ lost \subseteq lost'
    BY <1>8 DEF TimerFires, widgetVars
  <2> QED BY <1>1, <2>1
<1>9. CASE \E c \in saveCalls : SaveAnswered(c)
  <2>1. UNCHANGED <<biPage, biFilter, shown, widgetCalls>> /\ lost \subseteq lost'
    BY <1>9 DEF SaveAnswered, widgetVars
  <2> QED BY <1>1, <2>1
<1>10. CASE \E f \in kpiCalls : KpisAnswered(f)
  BY <1>1, <1>10 DEF KpisAnswered, widgetVars
<1>11. CASE UNCHANGED biVars
  BY <1>1, <1>11 DEF biVars, widgetVars
<1> QED BY <1>2, <1>3, <1>4, <1>5, <1>6, <1>7, <1>8, <1>9, <1>10, <1>11 DEF BiNext, Replies

LEMMA LayoutDragged == ASSUME LayoutInv, LayoutChange PROVE LayoutInv'
<1>1. biPage \in ReportPages
  BY DEF LayoutChange, LayoutInv, LayoutType, AllPages
<1>2. PICK save : save = [page |-> biPage, layout |-> biLayout[biPage] + 1]
  OBVIOUS
<1>3. save.page = biPage /\ save.layout = biLayout[biPage] + 1
  BY <1>2
<1>4. /\ saveTimer' = {save} /\ biLayout' = [biLayout EXCEPT ![biPage] = @ + 1]
      /\ UNCHANGED <<biPage, biSaved, saveCalls>>
      /\ lost' = lost \cup {<<"layout", s.page>> : s \in {t \in saveTimer : t.page # biPage}}
  BY <1>2 DEF LayoutChange, RestartTimer
<1>5. LayoutType'
  BY <1>1, <1>3, <1>4 DEF LayoutInv, LayoutType
<1>6. ASSUME NEW p \in ReportPages, LayoutMark(p) \notin lost' PROVE LayoutIsKept(p)'
  <2>1. CASE p = biPage
    BY <1>1, <1>3, <1>4, <2>1 DEF LayoutIsKept, LayoutInv, LayoutType
  <2>2. CASE p # biPage
    <3>1. LayoutIsKept(p) /\ biLayout'[p] = biLayout[p]
      BY <1>4, <1>6, <2>2 DEF LayoutInv, LayoutType
    <3>2. \A s \in saveTimer : s.page # p
      BY <1>4, <1>6, <2>2 DEF LayoutMark
    <3> QED BY <1>3, <1>4, <2>2, <3>1, <3>2 DEF LayoutIsKept
  <2> QED BY <2>1, <2>2
<1> QED BY <1>4, <1>5, <1>6 DEF LayoutInv

LEMMA LayoutSaves == ASSUME LayoutInv, TimerFires PROVE LayoutInv'
<1>1. /\ saveTimer' = {} /\ saveCalls' = saveCalls \cup saveTimer
      /\ UNCHANGED <<biPage, biLayout, biSaved>>
      /\ lost' = lost \cup {<<"layout", c.page>> :
                              c \in {d \in saveCalls : \E s \in saveTimer : s.page = d.page}}
  BY DEF TimerFires
<1>2. LayoutType'
  BY <1>1 DEF LayoutInv, LayoutType
<1>3. ASSUME NEW p \in ReportPages, LayoutMark(p) \notin lost' PROVE LayoutIsKept(p)'
  <2>1. LayoutIsKept(p)
    BY <1>1, <1>3 DEF LayoutInv
  <2>2. CASE \E s \in saveTimer : s.page = p
    <3>1. \A c \in saveCalls : c.page # p
      BY <1>1, <1>3, <2>2 DEF LayoutMark
    <3> QED BY <1>1, <2>1, <2>2, <3>1 DEF LayoutIsKept
  <2>3. CASE \A s \in saveTimer : s.page # p
    BY <1>1, <2>1, <2>3 DEF LayoutIsKept
  <2> QED BY <2>2, <2>3
<1> QED BY <1>1, <1>2, <1>3 DEF LayoutInv

LEMMA LayoutIsAnswered ==
  ASSUME LayoutInv, NEW c \in saveCalls, SaveAnswered(c) PROVE LayoutInv'
<1>1. /\ saveCalls' = saveCalls \ {c} /\ UNCHANGED <<biPage, biLayout, saveTimer>>
      /\ c.page \in ReportPages
      /\ \/ biSaved' = [biSaved EXCEPT ![c.page] = c.layout] /\ lost' = lost
         \/ lost' = lost \cup {<<"layout", c.page>>} /\ biSaved' = biSaved
  BY DEF SaveAnswered, LayoutInv, LayoutType
<1>2. LayoutType'
  BY <1>1 DEF LayoutInv, LayoutType
<1>3. ASSUME NEW p \in ReportPages, LayoutMark(p) \notin lost' PROVE LayoutIsKept(p)'
  <2>1. LayoutIsKept(p)
    BY <1>1, <1>3 DEF LayoutInv
  <2>2. CASE p = c.page
    <3>1. biSaved' = [biSaved EXCEPT ![c.page] = c.layout]
      BY <1>1, <1>3, <2>2 DEF LayoutMark
    <3>2. biSaved'[p] = c.layout
      BY <1>1, <2>2, <3>1 DEF LayoutInv, LayoutType
    <3> QED BY <1>1, <2>1, <2>2, <3>2 DEF LayoutIsKept
  <2>3. CASE p # c.page
    <3>1. biSaved'[p] = biSaved[p]
      BY <1>1, <2>3 DEF LayoutInv, LayoutType
    <3> QED BY <1>1, <2>1, <2>3, <3>1 DEF LayoutIsKept
  <2> QED BY <2>2, <2>3
<1> QED BY <1>1, <1>2, <1>3 DEF LayoutInv

LEMMA LayoutKeeps == ASSUME LayoutInv, [BiNext]_biVars PROVE LayoutInv'
<1>1. ASSUME biPage' \in AllPages, UNCHANGED layoutVars,
             \A p : LayoutMark(p) \in lost => LayoutMark(p) \in lost'
      PROVE  LayoutInv'
  BY <1>1 DEF LayoutInv, LayoutType, LayoutIsKept, layoutVars
<1>2. biPage \in AllPages
  BY DEF LayoutInv, LayoutType
<1>3. CASE Open \/ SetLive \/ \E s \in streams : Pushes(s)
  BY <1>1, <1>2, <1>3 DEF Open, SetLive, Pushes
<1>4. CASE \E f \in BiFilters : SetSlicers(f)
  BY <1>1, <1>2, <1>4 DEF SetSlicers
<1>5. CASE \E p \in AllPages : SetActivePage(p)
  BY <1>1, <1>5 DEF SetActivePage
<1>6. CASE UpdateSelectedWidget
  BY <1>1, <1>2, <1>6 DEF UpdateSelectedWidget
<1>7. CASE LayoutChange
  BY <1>7, LayoutDragged
<1>8. CASE TimerFires
  BY <1>8, LayoutSaves
<1>9. CASE \E f \in kpiCalls : KpisAnswered(f)
  BY <1>1, <1>2, <1>9 DEF KpisAnswered
<1>10. ASSUME NEW c \in widgetCalls, WidgetAnswered(c) PROVE LayoutInv'
  <2>1. /\ biPage' = biPage /\ UNCHANGED layoutVars
        /\ lost \ {WidgetMark(c.page)} \subseteq lost'
    BY <1>10 DEF WidgetAnswered, WidgetMark
  <2>2. \A p : LayoutMark(p) \in lost => LayoutMark(p) \in lost'
    BY <2>1, MarksDiffer
  <2> QED BY <1>1, <1>2, <2>1, <2>2
<1>11. ASSUME NEW c \in editCalls, EditAnswered(c) PROVE LayoutInv'
  <2>1. biPage' = biPage /\ UNCHANGED layoutVars /\ lost \subseteq lost'
    BY <1>11 DEF EditAnswered
  <2> QED BY <1>1, <1>2, <2>1
<1>12. ASSUME NEW c \in saveCalls, SaveAnswered(c) PROVE LayoutInv'
  BY <1>12, LayoutIsAnswered
<1>13. CASE UNCHANGED biVars
  BY <1>1, <1>2, <1>13 DEF biVars
<1> QED BY <1>3, <1>4, <1>5, <1>6, <1>7, <1>8, <1>9, <1>10, <1>11, <1>12, <1>13 DEF BiNext, Replies

LEMMA WorkspaceStarts == BiInit => WidgetInv /\ LayoutInv /\ biFilter \in BiFilters
<1> SUFFICES ASSUME BiInit PROVE WidgetInv /\ LayoutInv /\ biFilter \in BiFilters
  OBVIOUS
<1>1. biPage = Executive /\ widgetCalls = {} /\ biPage \notin ReportPages /\ biFilter \in BiFilters
  BY BiAssumption DEF BiInit
<1>2. WidgetInv
  BY <1>1 DEF BiInit, WidgetInv, WidgetType, LoadsAreCurrent, WidgetsShowFilter, AllPages
<1>3. LayoutInv
  BY <1>1 DEF BiInit, LayoutInv, LayoutType, LayoutIsKept, AllPages
<1> QED BY <1>1, <1>2, <1>3

LEMMA LayoutsAreSaved == LayoutInv => DraggedLayoutIsSaved
  BY DEF LayoutInv, DraggedLayoutIsSaved, LayoutIsKept, LayoutMark

\* bi-workspace.tsx: however slicers, pages, edits and layouts are changed while
\* loads and saves are under way, a page on screen ends with data of the filter that
\* is set and the database with the layouts that the user gave, but for the pages
\* that a named race or failure spoilt.
THEOREM WorkspaceAlwaysFollows == BiSpec => []WorkspaceFollows
<1>1. BiInit => WidgetInv /\ LayoutInv /\ biFilter \in BiFilters
  BY WorkspaceStarts
<1>2. WidgetInv /\ LayoutInv /\ biFilter \in BiFilters /\ [BiNext]_biVars
        => (WidgetInv /\ LayoutInv /\ biFilter \in BiFilters)'
  BY WidgetsKeep, LayoutKeeps
<1>3. WidgetInv /\ LayoutInv => WorkspaceFollows
  BY LayoutsAreSaved DEF WidgetInv, WorkspaceFollows
<1> QED BY <1>1, <1>2, <1>3, PTL DEF BiSpec
=============================================================================
