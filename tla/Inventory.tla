----------------------------- MODULE Inventory -----------------------------
(***************************************************************************)
(* Stock of one warehouse: InventoryService.recordMovement and the stock   *)
(* part of PurchaseService.receiveGoods, which repeats its logic.  A row   *)
(* of StockLevel is read, and then overwritten with the sum computed from  *)
(* what was read.                                                          *)
(*                                                                         *)
(* Every request is one database transaction at READ COMMITTED: it reads   *)
(* what is committed and what it wrote itself, and holds the lock of every *)
(* row it wrote until it ends.  The locks that matter are those of the     *)
(* product (taken by receipts only) and of its stock level; cost layers    *)
(* are only drained under the latter.  What a transaction wrote stays in   *)
(* its own record until Commit.                                            *)
(***************************************************************************)
EXTENDS Integers, Sequences, FiniteSetsExt

CONSTANTS
  Products,
  Quantities,   \* quantities of manual movements
  Deliveries,   \* lines of a goods receipt: sequences of [product, quantity]
  Requests,     \* the requests of a run, each made at most once: its bound
  None          \* result of a lookup that finds no row

ASSUME InventoryAssumption ==
  /\ Quantities \subseteq Nat \ {0}
  /\ Deliveries \subseteq Seq([product : Products, quantity : Nat \ {0}]) \ {<<>>}
  /\ None \notin Int

VARIABLES
  level,      \* StockLevel.quantity of the products that have a row
  moved,      \* net quantity of the product's StockMovement rows
  issued,     \* quantity of its outbound StockMovement rows
  unmatched,  \* the part of it reported as covered by no cost layer
  layer,      \* InventoryCostLayer rows, numbered by receivedAt
  clock,      \* number of the newest layer created
  manual,     \* products with a movement of recordMovement
  tx          \* transactions: position, local variables, locks and writes

vars == <<level, moved, issued, unmatched, layer, clock, manual, tx>>

Empty == [x \in {} |-> 0]
Zero == [p \in Products |-> 0]
Over(f, g) == [x \in DOMAIN f \cup DOMAIN g |-> IF x \in DOMAIN f THEN f[x] ELSE g[x]]

\* lines: what is left to do; saw: the level read; done: quantity moved;
\* short: unmatched quantity; level, layer: uncommitted rows.
Begin == [pc |-> "idle", kind |-> "RECEIPT", lines |-> <<>>, saw |-> None,
          locks |-> {}, done |-> Zero, short |-> 0, level |-> Empty,
          layer |-> Empty]
Finished == [Begin EXCEPT !.pc = "done"]

Init ==
  /\ level = Empty
  /\ moved = Zero
  /\ issued = Zero
  /\ unmatched = Zero
  /\ layer = Empty
  /\ clock = 0
  /\ manual = {}
  /\ tx = [r \in Requests |-> Begin]

\* The row is locked by no other transaction.
Free(r, row) == \A q \in Requests \ {r} : row \notin tx[q].locks

Line(r) == Head(tx[r].lines)
Goto(r, t) == tx' = [tx EXCEPT ![r] = t]
Seen(r, p) == LET rows == Over(tx[r].level, level) IN
              IF p \in DOMAIN rows THEN rows[p] ELSE None

-----------------------------------------------------------------------------
\* recordMovement: the movement is inserted and the level read; an outbound
\* movement of a product without a level is refused.
StartMovement(r, kind, p, q) ==
  /\ tx[r].pc = "idle"
  /\ kind = "OUT" => p \in DOMAIN level
  /\ Goto(r, [Begin EXCEPT !.pc = "write", !.kind = kind, !.saw = Seen(r, p),
                           !.lines = <<[product |-> p, quantity |-> q]>>])
  /\ UNCHANGED <<level, moved, issued, unmatched, layer, clock, manual>>

StartReceipt(r, d) ==
  /\ tx[r].pc = "idle"
  /\ Goto(r, [Begin EXCEPT !.pc = "line", !.lines = d])
  /\ UNCHANGED <<level, moved, issued, unmatched, layer, clock, manual>>

\* receiveGoods, for each line: the cost layer is created, ...
CreateLayer(r) ==
  /\ tx[r].pc = "line"
  /\ clock' = clock + 1
  /\ LET new == [product |-> Line(r).product, quantity |-> Line(r).quantity,
                 remaining |-> Line(r).quantity]
     IN Goto(r, [tx[r] EXCEPT !.pc = "product",
                   !.layer = Over([n \in {clock'} |-> new], tx[r].layer)])
  /\ UNCHANGED <<level, moved, issued, unmatched, layer, manual>>

\* Without the update of the product nothing is locked before the level is read.
ReadUnlocked(r) ==
  /\ tx[r].pc = "product"
  /\ Goto(r, [tx[r] EXCEPT !.pc = "write", !.saw = Seen(r, Line(r).product)])
  /\ UNCHANGED <<level, moved, issued, unmatched, layer, clock, manual>>

\* ... the product's unit cost updated, which locks its row, and the level read.
LockProduct(r) ==
  /\ tx[r].pc = "product"
  /\ LET p == Line(r).product IN
       /\ Free(r, <<"product", p>>)
       /\ Goto(r, [tx[r] EXCEPT !.pc = "write", !.saw = Seen(r, p),
                                !.locks = @ \cup {<<"product", p>>}])
  /\ UNCHANGED <<level, moved, issued, unmatched, layer, clock, manual>>

\* The level is overwritten, or created unless the row exists by now.
WriteLevel(r) ==
  /\ tx[r].pc = "write"
  /\ LET p == Line(r).product
         q == IF tx[r].kind = "OUT" THEN -Line(r).quantity ELSE Line(r).quantity
         new == IF tx[r].saw = None THEN q ELSE tx[r].saw + q
         rest == Tail(tx[r].lines)
         next == IF tx[r].kind = "OUT" THEN "drain"
                 ELSE IF rest = <<>> THEN "commit" ELSE "line"
     IN /\ Free(r, <<"level", p>>)
        /\ tx[r].saw = None => p \notin DOMAIN level
        /\ Goto(r, [tx[r] EXCEPT
                      !.pc = next,
                      !.lines = IF next = "line" THEN rest ELSE @,
                      !.locks = @ \cup {<<"level", p>>},
                      !.done[p] = @ + q,
                      !.level = Over([x \in {p} |-> new], @)])
  /\ UNCHANGED <<level, moved, issued, unmatched, layer, clock, manual>>

-----------------------------------------------------------------------------
\* consumeFifoCostLayers: what a movement takes of a layer of which rem is
\* left when it still needs `need' after the older layers.
Take(rem, need) == IF need <= 0 THEN 0 ELSE IF rem < need THEN rem ELSE need

LayersOf(p) == {n \in DOMAIN layer : layer[n].product = p}
Remaining(S) == MapThenSumSet(LAMBDA n : layer[n].remaining, S)

\* What is still needed at layer n: the older layers come first.
Need(p, q, n) == q - Remaining({m \in LayersOf(p) : m < n})

Drain(r) ==
  /\ tx[r].pc = "drain"
  /\ LET p == Line(r).product
         q == Line(r).quantity
         after == [n \in LayersOf(p) |->
                     [layer[n] EXCEPT !.remaining = @ - Take(@, Need(p, q, n))]]
         found == Take(Remaining(LayersOf(p)), q)
     IN Goto(r, [tx[r] EXCEPT !.pc = "commit", !.layer = after, !.short = q - found])
  /\ UNCHANGED <<level, moved, issued, unmatched, layer, clock, manual>>

-----------------------------------------------------------------------------
Commit(r) ==
  /\ tx[r].pc = "commit"
  /\ LET t == tx[r] IN
       /\ level' = Over(t.level, level)
       /\ layer' = Over(t.layer, layer)
       /\ moved' = [p \in Products |-> moved[p] + t.done[p]]
       /\ IF t.kind = "RECEIPT"
          THEN UNCHANGED <<issued, unmatched, manual>>
          ELSE LET p == Line(r).product IN
               /\ issued' = [issued EXCEPT ![p] =
                               IF t.kind = "OUT" THEN @ + Line(r).quantity ELSE @]
               /\ unmatched' = [unmatched EXCEPT ![p] = @ + t.short]
               /\ manual' = manual \cup {p}
  /\ Goto(r, Finished)
  /\ UNCHANGED clock

\* Rollback: the time limit, a deadlock the database breaks, a level another
\* transaction has created in the meantime.
Abort(r) ==
  /\ tx[r].pc \notin {"idle", "done"}
  /\ Goto(r, Finished)
  /\ UNCHANGED <<level, moved, issued, unmatched, layer, clock, manual>>

Step(r) ==
  \/ CreateLayer(r) \/ LockProduct(r) \/ WriteLevel(r) \/ Drain(r)
  \/ Commit(r) \/ Abort(r)

Next ==
  \E r \in Requests :
    \/ \E kind \in {"IN", "OUT"}, p \in Products, q \in Quantities :
         StartMovement(r, kind, p, q)
    \/ \E d \in Deliveries : StartReceipt(r, d)
    \/ Step(r)

Spec == Init /\ [][Next]_vars

-----------------------------------------------------------------------------
CostLayer == [product : Products, quantity : Nat, remaining : Nat]

\* Every variable stays in its type; a row is locked by one transaction.
TypeOK ==
  /\ DOMAIN level \subseteq Products /\ level \in [DOMAIN level -> Int]
  /\ moved \in [Products -> Int]
  /\ issued \in [Products -> Nat] /\ unmatched \in [Products -> Nat]
  /\ clock \in Nat
  /\ DOMAIN layer \subseteq 1 .. clock /\ layer \in [DOMAIN layer -> CostLayer]
  /\ manual \subseteq Products
  /\ \A r \in Requests :
       /\ tx[r].saw \in Int \cup {None}
       /\ tx[r].locks \subseteq {"product", "level"} \X Products
       /\ \A q \in Requests \ {r} : tx[r].locks \cap tx[q].locks = {}
       /\ tx[r].level \in [DOMAIN tx[r].level -> Int]
       /\ tx[r].layer \in [DOMAIN tx[r].layer -> CostLayer]
       /\ \A p \in DOMAIN tx[r].level : <<"level", p>> \in tx[r].locks

Stock(p) == IF p \in DOMAIN level THEN level[p] ELSE 0

\* receiveGoods: concurrent receipts of a product do not lose each other's
\* quantities although each overwrites the level with a sum it computed: the
\* update of the product's unit cost, which precedes the read, lets one
\* receipt at a time through.
ReceivedStockIsExact == \A p \in Products \ manual : Stock(p) = moved[p]

\* consumeFifoCostLayers: the cost layers lack exactly what was issued and not
\* reported as unmatched; no unit is costed twice and none is lost, also when
\* receipts and issues overlap.
LayersAreExact ==
  \A p \in Products :
    Remaining(LayersOf(p)) + issued[p] - unmatched[p] =
      MapThenSumSet(LAMBDA n : layer[n].quantity, LayersOf(p))


\* receiveStock and consumeFifoCostLayers together: neither level nor layers lose
\* or invent a unit when receipts and issues overlap.
StockIsExact == ReceivedStockIsExact /\ LayersAreExact
=============================================================================
