----------------------------- MODULE MCInventory -----------------------------
(***************************************************************************)
(* Small instances of the inventory service for TLC.                       *)
(***************************************************************************)
EXTENDS InventoryAlone, FiniteSetsExt

CONSTANTS o1, o2, p1, p2, r1, r2

\* SumOf is the sum by recursion.
ASSUME SumIsSum ==
  \A q \in [1..3 -> 0..3] : SumOf(q) = MapThenSumSet(LAMBDA x : q[x], 1..3)

Line(product, quantity) == [product |-> product, quantity |-> quantity]

TwoOrders == {o1, o2}
TwoProducts == {p1, p2}
OneReplica == {r1}
TwoReplicas == {r1, r2}

\* The orders want the products in opposite orders; o1 wants two of p1.
Crossed == [o \in Orders |-> IF o = o1 THEN <<Line(p1, 2), Line(p2, 1)>>
                             ELSE <<Line(p2, 1), Line(p1, 1)>>]

TwoAndOne == [product \in Products |-> IF product = p1 THEN 2 ELSE 1]

OnePartition == [t \in Topics |-> [o \in Orders |-> 0]]

AllTo(g, r) == [t \in Subscription[g] |-> [p \in Partitions |-> r]]
Moves ==
  [g \in Groups |-> IF g = "inventory-service" THEN {AllTo(g, r) : r \in Replicas}
                    ELSE {AllTo(g, r1)}]
=============================================================================
