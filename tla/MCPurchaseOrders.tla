-------------------------- MODULE MCPurchaseOrders --------------------------
(* PurchaseOrders on a small instance: an order of two lines; a delivery   *)
(* receives everything, one unit of a line, a line named twice, or both    *)
(* lines.                                                                  *)
EXTENDS PurchaseOrders, TLC

CONSTANTS o1, l1, l2

OneOrder == [l \in {l1, l2} |-> o1]
TwoAndOne == (l1 :> 2) @@ (l2 :> 1)

SomeDeliveries == {(l1 :> a) @@ (l2 :> b) :
                     a \in {<<0, 0>>, <<1, 0>>, <<1, 1>>},
                     b \in {<<0, 0>>, <<1, 0>>}}

=============================================================================
