---------------------------- MODULE OrderService ----------------------------
(***************************************************************************)
(* services/order: the orders table, the POST /orders handler that starts  *)
(* a saga and the replicas of the Kafka consumer that moves an order on.   *)
(* kafka-go's ReadMessage commits an event before it returns it, so the    *)
(* consumer's commit comes before the handler, not after.                  *)
(***************************************************************************)
EXTENDS EventBus

CONSTANT
  Total  \* [Orders -> Nat]: total_amount, the cart's total

ASSUME OrderAssumption == Total \in [Orders -> Nat]

VARIABLES
  orders,   \* the orders table: [status, cancelReason] per order id
  request,  \* the POST /orders request that is to create each order
  cart,     \* the cart each request checks out
  ord       \* what each replica's consumer is doing

orderVars == <<orders, request, cart, ord>>

Statuses == {"pending", "inventory_reserved", "confirmed", "cancelled"}
Terminal == {"confirmed", "cancelled"}

OrderRows == [status : Statuses \cup {"none"}, cancelReason : Reasons]
NoRow == [status |-> "none", cancelReason |-> "none"]

OrdWorkers == [pc : {"idle", "handle", "publish"}, topic : Topics,
               order : Orders \cup {NoOrder}, reason : Reasons]
OrdIdle == [pc |-> "idle", topic |-> "order.created", order |-> NoOrder, reason |-> "none"]

OrderInit ==
  /\ orders = [o \in Orders |-> NoRow]
  /\ request = [o \in Orders |-> "received"]
  /\ cart = [o \in Orders |-> "filled"]
  /\ ord = [r \in Replicas |-> OrdIdle]

Status(o) == orders[o].status

-----------------------------------------------------------------------------
(* CreateOrder.  The order's lines and total are the cart GetCart returned, *)
(* which is not empty.                                                      *)

\* DB.CreateOrder: one transaction for the order and its lines.
InsertOrder(o) ==
  orders' = [orders EXCEPT ![o] = [status |-> "pending", cancelReason |-> "none"]]

CreateOrderRow(o) ==
  /\ request[o] = "received"
  /\ InsertOrder(o)
  /\ request' = [request EXCEPT ![o] = "inserted"]
  /\ UNCHANGED <<busVars, cart, ord>>

\* 502: the cart was not read; 500: the transaction failed, or only its
\* commit's acknowledgement did.
CreateOrderFails(o) ==
  /\ request[o] = "received"
  /\ \/ Disturb("cartError") /\ UNCHANGED orders
     \/ Disturb("dbError") /\ (UNCHANGED orders \/ InsertOrder(o))
  /\ request' = [request EXCEPT ![o] = "failed"]
  /\ UNCHANGED <<log, offsets, cart, ord>>

\* A failed publish is logged; the request goes on.
PublishCreated(o) ==
  /\ request[o] = "inserted"
  /\ LET e == Event(o, Total[o], "none")
     IN Acknowledged("order.created", e) \/ Unacknowledged("order.created", e)
  /\ request' = [request EXCEPT ![o] = "published"]
  /\ UNCHANGED <<offsets, orders, cart, ord>>

\* Best effort, then 201.
DeleteCart(o) ==
  /\ request[o] = "published"
  /\ \/ cart' = [cart EXCEPT ![o] = "cleared"] /\ UNCHANGED disturbances
     \/ cart' \in {cart, [cart EXCEPT ![o] = "cleared"]} /\ Disturb("cartError")
  /\ request' = [request EXCEPT ![o] = "created"]
  /\ UNCHANGED <<log, offsets, orders, ord>>

-----------------------------------------------------------------------------
(* The consumer *)

\* ReadMessage: the offset is committed, then the event is returned; when the
\* commit fails the event is dropped and the loop reads the next one.
OrdRead(r, t, p) ==
  /\ ord[r].pc = "idle"
  /\ CanFetch("order-service", r, t, p)
  /\ Advance("order-service", t, p)
  /\ \/ /\ Commit("order-service", t, p, position["order-service"][t][p] + 1)
        /\ LET e == NextEvent("order-service", t, p)
           IN ord' = [ord EXCEPT ![r] = [pc |-> "handle", topic |-> t,
                                         order |-> e.order, reason |-> e.reason]]
        /\ UNCHANGED disturbances
     \/ /\ Disturb("commitError")
        /\ \/ UNCHANGED committed
           \/ Commit("order-service", t, p, position["order-service"][t][p] + 1)
        /\ UNCHANGED ord
  /\ UNCHANGED <<log, owner, orders, request, cart>>

\* The conditional UPDATE of each topic's handler: the statuses it applies to
\* and the row it writes.
\* Mutant: reserves whatever the status.
ReserveAnyway(o) == Status(o) # "none"
CanReserve(o) == Status(o) = "pending"
\* Mutant: confirms every order that is not final.
ConfirmIfOpen(o) == Status(o) \in {"pending", "inventory_reserved"}
CanConfirm(o) == Status(o) = "inventory_reserved"
\* Mutant: cancels a confirmed order.
CancelConfirmed(o) == Status(o) \notin {"cancelled", "none"}
\* Mutant: cancels only what was reserved, or only what was not.
CancelReserved(o) == Status(o) = "inventory_reserved"
CancelPending(o) == Status(o) = "pending"
CanCancel(o) == Status(o) \notin Terminal \cup {"none"}

CanTransition(t, o) ==
  CASE t = "inventory.reserved" -> CanReserve(o)
    [] t = "payment.completed"  -> CanConfirm(o)
    [] t \in {"inventory.failed", "payment.failed"} -> CanCancel(o)

\* Mutant: one reason for both handlers.
OneReason(t, reason) ==
  CASE t = "inventory.reserved" -> [status |-> "inventory_reserved", cancelReason |-> "none"]
    [] t = "payment.completed"  -> [status |-> "confirmed", cancelReason |-> "none"]
    [] t \in {"inventory.failed", "payment.failed"} ->
         [status |-> "cancelled", cancelReason |-> "card declined"]

TransitionRow(t, reason) ==
  CASE t = "inventory.reserved" -> [status |-> "inventory_reserved", cancelReason |-> "none"]
    [] t = "payment.completed"  -> [status |-> "confirmed", cancelReason |-> "none"]
    [] t \in {"inventory.failed", "payment.failed"} ->
         [status |-> "cancelled", cancelReason |-> reason]

Transition(r) ==
  orders' = [orders EXCEPT ![ord[r].order] = TransitionRow(ord[r].topic, ord[r].reason)]

\* No row affected is a logged no-op; only a terminal transition publishes.
OrdHandle(r) ==
  /\ ord[r].pc = "handle"
  /\ IF CanTransition(ord[r].topic, ord[r].order)
     THEN /\ Transition(r)
          /\ ord' = [ord EXCEPT ![r] = IF ord[r].topic = "inventory.reserved" THEN OrdIdle
                                       ELSE [@ EXCEPT !.pc = "publish"]]
     ELSE UNCHANGED orders /\ ord' = [ord EXCEPT ![r] = OrdIdle]
  /\ UNCHANGED <<busVars, request, cart>>

\* The UPDATE returns an error, applied or not: the error is logged, that is all.
OrdHandleError(r) ==
  /\ ord[r].pc = "handle"
  /\ Disturb("dbError")
  /\ UNCHANGED orders \/ (CanTransition(ord[r].topic, ord[r].order) /\ Transition(r))
  /\ ord' = [ord EXCEPT ![r] = OrdIdle]
  /\ UNCHANGED <<log, offsets, request, cart>>

\* What the terminal transition announces.
Announcement(r) ==
  IF ord[r].topic = "payment.completed"
  THEN <<"order.confirmed", Event(ord[r].order, Total[ord[r].order], "none")>>
  ELSE <<"order.cancelled", Event(ord[r].order, 0, ord[r].reason)>>

OrdPublish(r) ==
  /\ ord[r].pc = "publish"
  /\ LET a == Announcement(r) IN Acknowledged(a[1], a[2]) \/ Unacknowledged(a[1], a[2])
  /\ ord' = [ord EXCEPT ![r] = OrdIdle]
  /\ UNCHANGED <<offsets, orders, request, cart>>

-----------------------------------------------------------------------------
(* The process *)

\* A replica dies with its consumer and the requests it was serving, and is
\* restarted.
OrdCrash(r) ==
  /\ Disturb("crash")
  /\ ord' = [ord EXCEPT ![r] = OrdIdle]
  /\ \E dropped \in SUBSET {o \in Orders : request[o] \in {"inserted", "published"}} :
       request' = [o \in Orders |-> IF o \in dropped THEN "failed" ELSE request[o]]
  /\ Rejoin("order-service")
  /\ UNCHANGED <<orders, cart>>

OrdRebalance == Rebalance("order-service") /\ UNCHANGED orderVars

OrdStep(r) ==
  \/ \E t \in Topics, p \in Partitions : OrdRead(r, t, p)
  \/ OrdHandle(r) \/ OrdPublish(r)

RequestStep(o) == CreateOrderRow(o) \/ PublishCreated(o) \/ DeleteCart(o)

OrderNext ==
  \/ \E r \in Replicas : OrdStep(r) \/ OrdHandleError(r) \/ OrdCrash(r)
  \/ \E o \in Orders : RequestStep(o) \/ CreateOrderFails(o)
  \/ OrdRebalance

-----------------------------------------------------------------------------
OrderTypeOK ==
  /\ orders \in [Orders -> OrderRows]
  /\ request \in [Orders -> {"received", "inserted", "published", "created", "failed"}]
  /\ cart \in [Orders -> {"filled", "cleared"}]
  /\ ord \in [Replicas -> OrdWorkers]
  /\ \A r \in Replicas : ord[r].pc # "idle" =>
       ord[r].order \in Orders /\ ord[r].topic \in Subscription["order-service"]

\* The customer is never told both outcomes, and never the other one than the
\* order ended with, although the UPDATE and the publish are not one transaction.
AnnouncementsAgree ==
  /\ \A e \in Sent("order.confirmed") : Status(e.order) = "confirmed"
  /\ \A e \in Sent("order.cancelled") :
       Status(e.order) = "cancelled" /\ orders[e.order].cancelReason = e.reason

\* An order that reached a terminal status keeps it and its reason for ever.
TerminalIsFinal ==
  [][\A o \in Orders : Status(o) \in Terminal => orders'[o] = orders[o]]_orders
=============================================================================
