----------------------------- MODULE AtomicCart -----------------------------
(***************************************************************************)
(* What the cart of one customer promises: so many units of each product,  *)
(* changed one product at a time or emptied as a whole, and an order that  *)
(* takes everything in the cart and leaves nothing.  No requests, no       *)
(* copies, no failures.                                                    *)
(***************************************************************************)
EXTENDS Naturals, Sequences

CONSTANTS Products, Quantities

VARIABLES
  units,  \* units of each product in the cart
  placed  \* the contents of each order, oldest first

Nothing == [p \in Products |-> 0]

AtomicCartInit == units \in [Products -> Nat] /\ placed = <<>>

Add(p, q) == units' = [units EXCEPT ![p] = @ + q] /\ UNCHANGED placed
SetQuantity(p, q) == units' = [units EXCEPT ![p] = q] /\ UNCHANGED placed
Clear == units' = Nothing /\ UNCHANGED placed

Checkout ==
  /\ units # Nothing
  /\ placed' = Append(placed, units)
  /\ units' = Nothing

AtomicCartNext ==
  \/ \E p \in Products, q \in Quantities : Add(p, q) \/ SetQuantity(p, q)
  \/ \E p \in Products : SetQuantity(p, 0)
  \/ Clear
  \/ Checkout
=============================================================================
