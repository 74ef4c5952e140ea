----------------------------- MODULE MCCheckout -----------------------------
(***************************************************************************)
(* Small instances of the checkout saga for TLC: one order and, as every   *)
(* service's group has one member here, all partitions to one replica.     *)
(***************************************************************************)
EXTENDS CheckoutSaga

CONSTANTS o1, p1, p2, r1

Line(product, quantity) == [product |-> product, quantity |-> quantity]

OneOrder == {o1}
OneReplica == {r1}

\* Two lines; an administrator may empty either shelf.
TwoLines == [o \in Orders |-> <<Line(p1, 1), Line(p2, 1)>>]
OneLine == [o \in Orders |-> <<Line(p1, 1)>>]

OneOfEach == [product \in Products |-> 1]

\* The first line is short until an administrator restocks it.
ShortFirst == [product \in Products |-> IF product = p1 THEN 0 ELSE 1]

OnePartition == [t \in Topics |-> [o \in Orders |-> 0]]
AllToOne == [g \in Groups |-> {[t \in Subscription[g] |-> [p \in Partitions |-> r1]]}]

Totals == [o \in Orders |-> 2]

AllFaults == {"crash", "rebalance", "dbError", "publishError", "duplicate",
              "commitError", "cartError", "restock"}
=============================================================================
