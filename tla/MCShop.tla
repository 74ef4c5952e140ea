------------------------------- MODULE MCShop -------------------------------
(***************************************************************************)
(* Small instances of the shop for TLC.                                    *)
(***************************************************************************)
EXTENDS Shop

CONSTANTS p1, p2, addP1, addP2, rowP1, clearAll, placeOrder

TwoProducts == {p1, p2}
Kinds == [c \in Controls |->
  CASE c \in {addP1, addP2} -> "addToCart" [] c = rowP1 -> "cartRow"
    [] c = clearAll -> "clearCart" [] OTHER -> "placeOrder"]
ProductsOf == [c \in Controls |-> IF c = addP2 THEN p2 ELSE p1]

Start == {EmptyCart, [EmptyCart EXCEPT ![p1] = 1]}

Use(ops, n, kinds) ==
  [ops |-> ops, requests |-> n, failures |-> kinds,
   listed |-> IF "order" \in ops THEN {p1} ELSE {p1, p2}]
\* Changing the cart from several places; ordering while it changes; the order page;
\* the dashboard.
Mixes == {Use({"add", "update", "remove", "clear"}, 2, {"redis", "catalog", "expire", "delist"}),
          Use({"add", "clear"}, 3, {"redis"}),
          Use({"add", "order"}, 3, {"redis", "crash", "insert", "clear", "lost"}),
          Use({"order", "saga", "orderPage"}, 1, {"read"}),
          Use({"order", "saga", "dashboard"}, 2, {"lost", "read"})}
=============================================================================
