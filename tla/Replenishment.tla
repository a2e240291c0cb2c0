--------------------------- MODULE Replenishment ---------------------------
(***************************************************************************)
(* How orders come about: the reorder run (ReorderAutomationService), the  *)
(* requisitions for low stock and for projects (RequisitionService,        *)
(* ProjectService.requestMaterial), and orders placed by hand, from a      *)
(* requisition or not.  A reorder run reads its rules together with the    *)
(* stock and default vendors once, then looks for an open order with that  *)
(* vendor and creates one, rule by rule.                                   *)
(***************************************************************************)
EXTENDS Integers, Sequences, FiniteSets

CONSTANTS
  Goods,          \* products
  Vendors, NoVendor,
  Rules,          \* the active reorder rules: [product, threshold, quantity]
  BuyRequests,    \* HTTP requests, each made once
  MaxOrders,      \* bound on orders
  MaxOnHand       \* bound on stock

ASSUME ReplenishmentAssumption ==
  /\ Rules \in Seq([product : Goods, threshold : Int, quantity : Nat])
  /\ MaxOrders \in Nat /\ MaxOnHand \in Nat /\ NoVendor \notin Vendors

VARIABLES
  onHand,       \* stock of a product over all warehouses
  projectOpen,  \* neither COMPLETED nor CANCELLED
  orders,       \* purchase orders: product, vendor, quantity, status, requisition, whether
                \* complete, and the run that drafted it (not stored)
  wanted,       \* requisitions by the request that made them: product, project
  buy,          \* where each request stands
  crossed       \* products for which two requests looked at once (not stored)

buyVars == <<onHand, projectOpen, orders, wanted, buy, crossed>>

NotAsked == [pc |-> "none"]
Answered == [pc |-> "done"]
Manual == "manual"

ReplenishmentInit ==
  /\ onHand = [g \in Goods |-> 0]
  /\ projectOpen = TRUE
  /\ orders = <<>>
  /\ wanted = [r \in {} |-> NotAsked]
  /\ buy = [r \in BuyRequests |-> NotAsked]
  /\ crossed = {}

Step(r, s) == buy' = [buy EXCEPT ![r] = s]
Active(kind) == {r \in BuyRequests : buy[r].pc = kind}

-----------------------------------------------------------------------------
Drafts(g, v) ==
  {o \in DOMAIN orders :
     orders[o].product = g /\ orders[o].vendor = v /\ orders[o].status = "DRAFT"}

\* A test that finds only orders placed by hand.
SubmittedOrders(g, v) ==
  {o \in DOMAIN orders :
     orders[o].product = g /\ orders[o].vendor = v /\ orders[o].status = "SUBMITTED"}

OpenOrders(g, v) ==
  {o \in DOMAIN orders :
     orders[o].product = g /\ orders[o].vendor = v /\ orders[o].status \in {"DRAFT", "SUBMITTED"}}

Order(g, v, n, status, source, by) ==
  /\ Len(orders) < MaxOrders
  /\ orders' = Append(orders, [product |-> g, vendor |-> v, quantity |-> n, status |-> status,
                               requisition |-> source, complete |-> FALSE, by |-> by])

RuleProducts == {Rules[i].product : i \in DOMAIN Rules}

\* A run goes on with the rules that are left, or is through.
GoOn(left, stock, vendors) ==
  IF left = <<>> THEN Answered
  ELSE [pc |-> "rule", left |-> left, onHand |-> stock, usual |-> vendors]

\* runReorderChecks reads the rules with the stock and the default vendors of their
\* products, which an update of a product may have changed, or taken away, at any time.
ReorderStart(r, vendors) ==
  /\ buy[r] = NotAsked
  /\ Step(r, GoOn(Rules, onHand, vendors))
  /\ crossed' = IF Active("rule") \cup Active("draft") = {} THEN crossed
                ELSE crossed \cup RuleProducts
  /\ UNCHANGED <<onHand, projectOpen, orders, wanted>>

After(r) == GoOn(Tail(buy[r].left), buy[r].onHand, buy[r].usual)

ReorderRule(r) ==
  /\ buy[r].pc = "rule"
  /\ LET rule == Head(buy[r].left)
         v == buy[r].usual[rule.product]
     IN
     Step(r, IF /\ buy[r].onHand[rule.product] < rule.threshold
                /\ v # NoVendor
                /\ OpenOrders(rule.product, v) = {}
             THEN [buy[r] EXCEPT !.pc = "draft"] ELSE After(r))
  /\ UNCHANGED <<onHand, projectOpen, orders, wanted, crossed>>

ReorderDraft(r) ==
  /\ buy[r].pc = "draft"
  /\ LET rule == Head(buy[r].left) IN
       Order(rule.product, buy[r].usual[rule.product], rule.quantity, "DRAFT", Manual, r)
  /\ Step(r, After(r))
  /\ UNCHANGED <<onHand, projectOpen, wanted, crossed>>

\* The number taken from the clock exists already: the insert fails, and with
\* it the rest of the run.
ReorderFails(r) ==
  /\ buy[r].pc = "draft"
  /\ orders # <<>>
  /\ Step(r, Answered)
  /\ UNCHANGED <<onHand, projectOpen, orders, wanted, crossed>>

-----------------------------------------------------------------------------
\* The rule of a product that createFromLowStock takes, or the default of 10.
Thresholds(g) ==
  IF g \in RuleProducts THEN {Rules[i].threshold : i \in {j \in DOMAIN Rules : Rules[j].product = g}}
  ELSE {10}

Unordered(g) ==
  {r \in DOMAIN wanted :
     wanted[r].product = g /\ \A o \in DOMAIN orders : orders[o].requisition # r}

LowStockRead(r, g) ==
  /\ buy[r] = NotAsked
  /\ \E t \in Thresholds(g) : onHand[g] < t
  /\ Step(r, [pc |-> "find", product |-> g])
  /\ crossed' = IF \E q \in Active("find") \cup Active("require") : buy[q].product = g
                THEN crossed \cup {g} ELSE crossed
  /\ UNCHANGED <<onHand, projectOpen, orders, wanted>>

\* A pending requisition is returned instead.
LowStockFind(r) ==
  /\ buy[r].pc = "find"
  /\ Step(r, IF Unordered(buy[r].product) = {} THEN [buy[r] EXCEPT !.pc = "require"] ELSE Answered)
  /\ UNCHANGED <<onHand, projectOpen, orders, wanted, crossed>>

Require(r, g, forProject) ==
  wanted' = [q \in DOMAIN wanted \cup {r} |->
               IF q = r THEN [product |-> g, project |-> forProject] ELSE wanted[q]]

LowStockRequire(r) ==
  /\ buy[r].pc = "require"
  /\ Require(r, buy[r].product, FALSE)
  /\ Step(r, Answered)
  /\ UNCHANGED <<onHand, projectOpen, orders, crossed>>

\* requestMaterial answers once it has emitted; the listener inserts later,
\* whatever has become of the project.
RequestMaterial(r, g) ==
  /\ buy[r] = NotAsked
  /\ projectOpen
  /\ Step(r, [pc |-> "material", product |-> g])
  /\ UNCHANGED <<onHand, projectOpen, orders, wanted, crossed>>

CreateFromMaterial(r) ==
  /\ buy[r].pc = "material"
  /\ Require(r, buy[r].product, TRUE)
  /\ Step(r, Answered)
  /\ UNCHANGED <<onHand, projectOpen, orders, crossed>>

CloseProject ==
  /\ projectOpen
  /\ projectOpen' = FALSE
  /\ UNCHANGED <<onHand, orders, wanted, buy, crossed>>

-----------------------------------------------------------------------------
\* createPurchaseOrder, by hand or for a requisition, with any vendor
PlaceOrder(g, v, source) ==
  /\ Order(g, v, 1, "SUBMITTED", source, Manual)
  /\ UNCHANGED <<onHand, projectOpen, wanted, buy, crossed>>

Become(o, status) == orders' = [orders EXCEPT ![o].status = status]

\* An order of any status, also one that was received or cancelled.
ApproveOrder(o) ==
  /\ orders[o].status # "APPROVED"
  /\ Become(o, "APPROVED")
  /\ UNCHANGED <<onHand, projectOpen, wanted, buy, crossed>>

CancelOrder(o) ==
  /\ orders[o].status \notin {"RECEIVED", "CANCELLED"}
  /\ Become(o, "CANCELLED")
  /\ UNCHANGED <<onHand, projectOpen, wanted, buy, crossed>>

\* The goods still to come, all at once; a complete order takes no more.
ReceiveOrder(o) ==
  LET n == onHand[orders[o].product] + orders[o].quantity IN
  /\ orders[o].status = "APPROVED" /\ ~orders[o].complete
  /\ n <= MaxOnHand
  /\ onHand' = [onHand EXCEPT ![orders[o].product] = n]
  /\ orders' = [orders EXCEPT ![o].status = "RECEIVED", ![o].complete = TRUE]
  /\ UNCHANGED <<projectOpen, wanted, buy, crossed>>

UseStock(g) ==
  /\ onHand[g] > 0
  /\ onHand' = [onHand EXCEPT ![g] = @ - 1]
  /\ UNCHANGED <<projectOpen, orders, wanted, buy, crossed>>

ReplenishmentNext ==
  \/ \E r \in BuyRequests :
       \/ \E vendors \in [Goods -> Vendors \cup {NoVendor}] : ReorderStart(r, vendors)
       \/ ReorderRule(r) \/ ReorderDraft(r) \/ ReorderFails(r)
       \/ LowStockFind(r) \/ LowStockRequire(r) \/ CreateFromMaterial(r)
       \/ \E g \in Goods : LowStockRead(r, g) \/ RequestMaterial(r, g)
  \/ \E g \in Goods : UseStock(g)
  \/ \E g \in Goods, v \in Vendors, s \in {Manual} \cup DOMAIN wanted : PlaceOrder(g, v, s)
  \/ \E o \in DOMAIN orders : ApproveOrder(o) \/ CancelOrder(o) \/ ReceiveOrder(o)
  \/ CloseProject

ReplenishmentSpec == ReplenishmentInit /\ [][ReplenishmentNext]_buyVars

-----------------------------------------------------------------------------
\* runReorderChecks, "to avoid duplicates", and createFromLowStock: however
\* rules repeat a product and whatever happens to orders, stock, vendors and
\* requisitions between the steps, a run leaves one draft of a product with a vendor,
\* also beside other runs; and unless two requests looked at a product at once there
\* is one, and one low-stock requisition without an order.
SerialReplenishmentIsSingle ==
  /\ \A g \in Goods, v \in Vendors, r \in BuyRequests :
       Cardinality({o \in Drafts(g, v) : orders[o].by = r}) <= 1
  /\ \A g \in Goods \ crossed :
       /\ \A v \in Vendors : Cardinality(Drafts(g, v)) <= 1
       /\ Cardinality({r \in Unordered(g) : ~wanted[r].project}) <= 1
=============================================================================
