------------------------------ MODULE MCPayment ------------------------------
(***************************************************************************)
(* Small instances of the payment service for TLC.                         *)
(***************************************************************************)
EXTENDS PaymentAlone

CONSTANTS o1, o2, r1, r2

TwoOrders == {o1, o2}
OneReplica == {r1}
TwoReplicas == {r1, r2}

Totals == [o \in Orders |-> IF o = o1 THEN 2 ELSE 3]

\* The order service's topics are created with several partitions, inventory's
\* with one.
Spread == [t \in Topics |-> [o \in Orders |->
  IF t # "inventory.reserved" /\ o = o2 THEN 1 ELSE 0]]

AllTo(g, r) == [t \in Subscription[g] |-> [p \in Partitions |-> r]]
\* aiokafka's round-robin assignor deals the partitions of the two topics out to
\* the replicas in turn, in one order or the other.
RoundRobin ==
  [g \in Groups |-> IF g = "payment-service"
     THEN {[t \in Subscription[g] |-> [p \in Partitions |->
              IF (t = "order.created") = (p = 0) THEN s[1] ELSE s[2]]] :
           s \in {<<r1, r2>>, <<r2, r1>>}}
     ELSE {AllTo(g, r1)}]
AllToOne == [g \in Groups |-> {AllTo(g, r1)}]
=============================================================================
