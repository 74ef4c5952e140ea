---------------------------- MODULE CheckoutSaga ----------------------------
(***************************************************************************)
(* The checkout saga: the order, inventory and payment services, each with *)
(* its own database, choreographed over the event bus and nothing else.    *)
(***************************************************************************)
EXTENDS OrderService, InventoryService, PaymentService

vars == <<busVars, orderVars, inventoryVars, paymentVars>>

Init == BusInit /\ OrderInit /\ InventoryInit /\ PaymentInit

Next ==
  \/ OrderNext /\ UNCHANGED <<inventoryVars, paymentVars>>
  \/ InventoryNext /\ UNCHANGED <<orderVars, paymentVars>>
  \/ PaymentNext /\ UNCHANGED <<orderVars, inventoryVars>>

Spec == Init /\ [][Next]_vars

TypeOK == BusTypeOK /\ OrderTypeOK /\ InventoryTypeOK /\ PaymentTypeOK

-----------------------------------------------------------------------------
(* Safety across the services, under every disturbance *)

\* An order is confirmed only on a completed payment: the status the order
\* service shows and the row the payment service keeps never disagree that way,
\* however events are duplicated, lost or reordered on the way.
ConfirmedIsPaid ==
  \A o \in Orders : Status(o) = "confirmed" => payments[o].status = "completed"

\* A confirmed order has an active reservation for every line: neither the
\* rollback of a second delivery of order.created nor a late payment.failed
\* takes away the stock of an order that was confirmed.
ConfirmedHoldsStock == \A o \in Orders : Status(o) = "confirmed" => HoldsStock(o)

\* The reason shown to the customer is what happened: "card declined" only on a
\* failed payment, and every cancelled order has one of the two reasons.
CancelReasonIsTrue ==
  \A o \in Orders : Status(o) = "cancelled" =>
    \/ orders[o].cancelReason = "insufficient stock"
    \/ orders[o].cancelReason = "card declined" /\ payments[o].status = "failed"

-----------------------------------------------------------------------------
(* What checkout promises: the saga implements OrderLifecycle *)

Told(o) ==
  {outcome \in Terminal :
     \E e \in Sent(IF outcome = "confirmed" THEN "order.confirmed" ELSE "order.cancelled") :
       e.order = o}

Lifecycle == INSTANCE OrderLifecycle WITH
  status <- [o \in Orders |-> Status(o)],
  charge <- [o \in Orders |-> payments[o].status],
  told   <- [o \in Orders |-> Told(o)]

\* Three services with three databases behave, towards the customer, like the
\* one-step-at-a-time lifecycle: whatever is lost, duplicated or reordered, no
\* interleaving shows a status change, a charge or a message it does not allow.
ImplementsLifecycle == Lifecycle!LifecycleSpec

-----------------------------------------------------------------------------
(* Liveness.  Every service takes its steps: the consumer loops run for as  *)
(* long as the process does, and a request that was started runs to its     *)
(* end.  Whether a customer sends a request, when aiokafka commits in the   *)
(* background, and whether anything is disturbed, is up to the environment. *)

OrderRuns(r) == OrdStep(r) /\ UNCHANGED <<inventoryVars, paymentVars>>
InventoryRuns(r) == InvStep(r) /\ UNCHANGED <<orderVars, paymentVars>>
PaymentRuns(r) == PayStep(r) /\ UNCHANGED <<orderVars, inventoryVars>>
RequestRuns(o) == (PublishCreated(o) \/ DeleteCart(o)) /\ UNCHANGED <<inventoryVars, paymentVars>>

Fairness ==
  /\ \A r \in Replicas :
       WF_vars(OrderRuns(r)) /\ WF_vars(InventoryRuns(r)) /\ WF_vars(PaymentRuns(r))
  /\ \A o \in Orders : WF_vars(RequestRuns(o))

FairSpec == Spec /\ Fairness

Created(o) == \E e \in Sent("order.created") : e.order = o
PaymentFailed(o) == \E e \in Sent("payment.failed") : e.order = o
PaymentCompleted(o) == \E e \in Sent("payment.completed") : e.order = o

\* Kafka's order per key reaches across topics (CONTRACTS: "all events for one
\* order are processed in order"): payment.completed is handled after the
\* inventory.reserved it answers.
PaymentFollowsReservation ==
  \A r \in Replicas : ord[r].pc = "handle" /\ ord[r].topic = "payment.completed"
                      => Status(ord[r].order) # "pending"

\* When no call fails and no process dies, every order that was published is
\* cancelled or its payment announced completed, whatever the rebalances and
\* duplicates.
EveryOrderIsDecided ==
  \A o \in Orders : Created(o) ~> (PaymentCompleted(o) \/ Status(o) = "cancelled")

\* A declined payment is compensated for good: the order is cancelled, its
\* reservations released, and nothing reserves for it again.
DeclinedIsCompensated ==
  \A o \in Orders :
    PaymentFailed(o) ~> [](Status(o) = "cancelled" /\ ActiveRowsOf(o) = {})
=============================================================================
