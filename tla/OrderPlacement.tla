--------------------------- MODULE OrderPlacement ---------------------------
(***************************************************************************)
(* POST /orders (services/order) as the cart sees it: the handler reads    *)
(* the cart, inserts the order, publishes order.created and deletes the    *)
(* cart, each a call of its own and no transaction around them.  What the  *)
(* saga does with the order afterwards is CheckoutSaga's subject; here its *)
(* status just moves along the states OrderLifecycle allows.               *)
(***************************************************************************)
EXTENDS CartService, Sequences

VARIABLE orders \* the customer's orders, oldest first

placementVars == <<cartVars, orders>>

Statuses == {"pending", "inventory_reserved", "confirmed", "cancelled"}
ActiveStatuses == {"pending", "inventory_reserved"}

OrderRow(r) == [lines |-> req[r].copy, status |-> "pending"]
Insert(r) == orders' = Append(orders, OrderRow(r))

\* h.Cart.GetCart: the same single read of the key as GET /cart.
GetCart(r) ==
  /\ req[r].pc = "getCart"
  /\ \/ /\ cart # EmptyCart
        /\ req' = [req EXCEPT ![r].pc = "insert", ![r].copy = cart, ![r].seen = version]
        /\ UNCHANGED failures
     \/ cart = EmptyCart /\ Reply(r, 400) /\ UNCHANGED failures
     \/ Fail("redis") /\ Reply(r, 502)
  /\ UNCHANGED <<cart, version, listed, use, orders>>

InsertOrder(r) ==
  /\ req[r].pc = "insert"
  /\ Insert(r)
  /\ Goto(r, "clearCart")
  /\ UNCHANGED <<cart, version, listed, use, failures>>

\* The transaction fails, or only its commit's acknowledgement is lost.
InsertFails(r) ==
  /\ req[r].pc = "insert"
  /\ Fail("insert")
  /\ Insert(r) \/ UNCHANGED orders
  /\ Reply(r, 500)
  /\ UNCHANGED <<cart, version, listed, use>>

\* h.Cart.DeleteCart, whatever the cart holds by now.
DeleteCart(r) ==
  /\ req[r].pc = "clearCart"
  /\ Store(EmptyCart)
  /\ Reply(r, 201)
  /\ UNCHANGED <<listed, use, failures, orders>>

\* A failing delete is logged and the answer is 201 all the same.
DeleteCartFails(r) ==
  /\ req[r].pc = "clearCart"
  /\ Fail("clear")
  /\ Store(EmptyCart) \/ UNCHANGED <<cart, version>>
  /\ Reply(r, 201)
  /\ UNCHANGED <<listed, use, orders>>

NextStatuses ==
  [s \in Statuses |->
     CASE s = "pending" -> {"inventory_reserved", "cancelled"}
       [] s = "inventory_reserved" -> {"confirmed", "cancelled"}
       [] OTHER -> {}]

\* The saga moves the order on.
OrderMoves(i) ==
  /\ "saga" \in use.ops
  /\ \E s \in NextStatuses[orders[i].status] : orders' = [orders EXCEPT ![i].status = s]
  /\ UNCHANGED cartVars

PlacementStep(r) == GetCart(r) \/ InsertOrder(r) \/ DeleteCart(r)

PlacementNext ==
  \/ \E r \in Requests : PlacementStep(r) \/ InsertFails(r) \/ DeleteCartFails(r)
  \/ \E i \in DOMAIN orders : OrderMoves(i)
=============================================================================
