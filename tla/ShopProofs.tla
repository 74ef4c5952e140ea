----------------------------- MODULE ShopProofs -----------------------------
(***************************************************************************)
(* Proofs about the shop: it is type-correct; however requests interleave  *)
(* and fail the cart is changed the way AtomicCart says, except in the     *)
(* three ways ImplementsAtomicCart names; no line of the cart or of an     *)
(* order holds more than was asked for; and the dashboard's tally covers   *)
(* its total.                                                              *)
(***************************************************************************)
EXTENDS Shop, CountingProofs, FiniteSetTheorems, TLAPS

\* A handler that goes by a copy of the cart.
HasCopy(q) == q.pc \in {"write", "insert", "clearCart"} \/ (q.pc = "fetch" /\ q.op # "add")

\* The record of a handler when the cart is c after v changes: its copy is the cart
\* unless the cart was changed since it read it.
CopyOK(q, c, v) ==
  /\ q \in Requested
  /\ q.pc \in {"fetch", "read", "write"} => q.product \in Products
  /\ q.seen <= v
  /\ q.pc = "insert" => q.copy # EmptyCart
  /\ HasCopy(q) /\ q.seen = v => q.copy = c

CartInv ==
  /\ cart \in [Products -> Nat]
  /\ version \in Nat
  /\ req \in [Requests -> Requested]
  /\ \A r \in Requests : CopyOK(req[r], cart, version)

OrderRows == [lines : [Products -> Nat], status : Statuses]
Orders == Seq(OrderRows)

RestOK ==
  /\ listed \subseteq Products
  /\ failures \in 0..MaxFailures
  /\ orders \in Orders
  /\ control \in [Controls -> [state : ControlStates, request : Requests \cup {0}]]
  /\ page \in [order : 0..Len(orders), shown : Statuses \cup {"none"}, polls : [Polls -> PollStates]]
  /\ page.order = 0 => page = NoPage
  /\ dashboard \in [pc : {"blank", "counted", "shown"}, total : Nat, tally : [Statuses -> Nat]]

\* The inductive invariant.
ShopInv == CartInv /\ RestOK

\* The step is one AtomicCart allows, or none of it, or one of the three exceptions.
Allowed ==
  \/ Atomic!AtomicCartNext \/ UNCHANGED <<UnitsLeft, UnitsPlaced>>
  \/ ActsOnOldCopy \/ ActsBesideOrder \/ KeepsOrderedCart

LEMMA InvImpliesTypeOK == ShopInv => TypeOK
  BY DEF ShopInv, CartInv, RestOK, TypeOK, CopyOK, Orders, OrderRows

LEMMA EmptyCartTyped == EmptyCart \in [Products -> Nat]
  BY DEF EmptyCart

-----------------------------------------------------------------------------
(* Handlers and their copies *)

\* A copy of an earlier version stays one whatever the cart becomes.
LEMMA CopyKept ==
  ASSUME NEW q, NEW c, NEW v \in Nat, NEW d, CopyOK(q, c, v)
  PROVE  CopyOK(q, d, v + 1)
  BY DEF CopyOK, Requested

\* An answered request has no copy.
LEMMA ReplyOK ==
  ASSUME NEW r \in Requests, NEW s \in Nat, CartInv, Reply(r, s)
  PROVE  \E q : /\ CopyOK(q, cart, version) /\ q.pc = "answered" /\ q.seen = 0
                /\ req' = [req EXCEPT ![r] = q]
<1> DEFINE q == [req[r] EXCEPT !.pc = "answered", !.status = s, !.copy = EmptyCart, !.seen = 0]
<1>1. req[r] \in Requested
  BY DEF CartInv
<1>2. q \in Requested /\ q.pc = "answered" /\ q.seen = 0
  BY <1>1, EmptyCartTyped DEF Requested
<1>3. CopyOK(q, cart, version)
  BY <1>2 DEF CopyOK, CartInv, HasCopy
<1>4. req' = [req EXCEPT ![r] = q]
  BY <1>1 DEF Reply, CartInv, Requested
<1> HIDE DEF q
<1> QED BY <1>2, <1>3, <1>4

\* One handler moves on and the cart stays: what it is to the outside stays as well,
\* unless the handler is one that is about to delete the cart it ordered.
LEMMA QuietStep ==
  ASSUME NEW r \in Requests, NEW q, CartInv, CopyOK(q, cart, version),
         req' = [req EXCEPT ![r] = q], UNCHANGED <<cart, version>>
  PROVE  /\ CartInv'
         /\ q.pc # "clearCart" /\ req[r].pc # "clearCart" => UNCHANGED UnitsLeft
<1>1. \A s \in Requests : req'[s] = IF s = r THEN q ELSE req[s]
  BY DEF CartInv
<1>2. CartInv'
  BY <1>1 DEF CartInv, CopyOK
<1>3. ASSUME q.pc # "clearCart", req[r].pc # "clearCart" PROVE UNCHANGED UnitsLeft
  <2>1. \A s \in Requests : Taking(s)' <=> Taking(s)
    BY <1>1, <1>3 DEF Taking
  <2> QED BY <2>1 DEF UnitsLeft
<1> QED BY <1>2, <1>3

\* A handler writes the cart and answers: nobody has a copy of the new cart.
LEMMA StoreStep ==
  ASSUME NEW r \in Requests, NEW s \in Nat, NEW c \in [Products -> Nat], CartInv,
         Store(c), Reply(r, s)
  PROVE  CartInv' /\ UnitsLeft' = c
<1>1. PICK q : /\ CopyOK(q, cart, version) /\ q.pc = "answered" /\ q.seen = 0
               /\ req' = [req EXCEPT ![r] = q]
  BY ReplyOK
<1>2. \A t \in Requests : req'[t] = IF t = r THEN q ELSE req[t]
  BY <1>1 DEF CartInv
<1>3. cart' = c /\ version' = version + 1 /\ version \in Nat
  BY DEF Store, CartInv
<1>4. \A t \in Requests : CopyOK(req'[t], cart', version')
  BY <1>1, <1>2, <1>3, CopyKept DEF CartInv
<1>5. CartInv'
  BY <1>1, <1>3, <1>4 DEF CartInv, CopyOK
<1>6. \A t \in Requests : req'[t].seen \in Nat /\ req'[t].seen <= version
  BY <1>1, <1>2 DEF CartInv, CopyOK, Requested
<1>7. ~\E t \in Requests : Taking(t)'
  BY <1>3, <1>6 DEF Taking
<1> QED BY <1>3, <1>5, <1>7 DEF UnitsLeft

\* The rest of the state when no more than a failure is counted.
LEMMA RestStays ==
  ASSUME RestOK, UNCHANGED failures \/ \E kind \in FailureKinds : Fail(kind),
         UNCHANGED <<listed, orders, storefrontVars, dashboard>>
  PROVE  RestOK' /\ UNCHANGED UnitsPlaced
<1>1. failures' \in 0..MaxFailures
  BY CartAssumption DEF RestOK, Fail
<1> QED BY <1>1 DEF RestOK, storefrontVars, UnitsPlaced

\* What a handler makes of its copy is a cart; of a copy that is the cart, it is the
\* cart with one product changed.
LEMMA ChangedTyped ==
  ASSUME NEW r \in Requests, CartInv, req[r].pc = "write"
  PROVE  /\ Changed(r) \in [Products -> Nat]
         /\ req[r].copy = cart =>
              \E p \in Products, n \in Quantities \cup {0} :
                \/ Changed(r) = [cart EXCEPT ![p] = @ + n]
                \/ Changed(r) = [cart EXCEPT ![p] = n]
<1>1. /\ req[r] \in Requested /\ req[r].product \in Products
      /\ req[r].copy \in [Products -> Nat] /\ req[r].quantity \in Quantities \cup {0}
  BY DEF CartInv, CopyOK, Requested
<1>2. req[r].quantity \in Nat
  <2>1. \A n \in Quantities \cup {0} : n \in Nat
    BY CartAssumption
  <2> QED BY <1>1, <2>1
<1>3. CASE req[r].op = "add"
  BY <1>1, <1>2, <1>3 DEF Changed
<1>4. CASE req[r].op = "update"
  BY <1>1, <1>2, <1>4 DEF Changed
<1>5. CASE req[r].op \notin {"add", "update"}
  BY <1>1, <1>5 DEF Changed
<1> QED BY <1>3, <1>4, <1>5

-----------------------------------------------------------------------------
(* The cart service *)

\* A write of the handler's copy changes one product of the cart, or the copy was old,
\* or an order was half done.
LEMMA WriteStep ==
  ASSUME NEW r \in Requests, NEW s \in Nat, CartInv, req[r].pc = "write",
         Store(Changed(r)), Reply(r, s), UNCHANGED UnitsPlaced
  PROVE  CartInv' /\ Allowed
<1>1. CartInv' /\ UnitsLeft' = Changed(r)
  BY ChangedTyped, StoreStep
<1>2. Acts(r)
  BY DEF Acts, Reply, CartInv, Requested
<1>3. CASE req[r].seen # version
  BY <1>1, <1>2, <1>3 DEF Allowed, ActsOnOldCopy
<1>4. CASE \E t \in Requests : Taking(t)
  <2>1. PICK t \in Requests : Taking(t)
    BY <1>4
  <2>2. t # r
    BY <2>1 DEF Taking
  <2> QED BY <1>1, <1>2, <2>1, <2>2 DEF Allowed, ActsBesideOrder
<1>5. CASE req[r].seen = version /\ ~\E t \in Requests : Taking(t)
  <2>1. UnitsLeft = cart
    BY <1>5 DEF UnitsLeft
  <2>2. req[r].copy = cart
    BY <1>5 DEF CartInv, CopyOK, HasCopy
  <2>3. PICK p \in Products, n \in Quantities \cup {0} :
          \/ Changed(r) = [cart EXCEPT ![p] = @ + n]
          \/ Changed(r) = [cart EXCEPT ![p] = n]
    BY <2>2, ChangedTyped
  <2>4. CASE Changed(r) = [cart EXCEPT ![p] = @ + n]
    <3>1. CASE n = 0
      <4>1. [cart EXCEPT ![p] = @ + n] = cart
        BY <3>1 DEF CartInv
      <4> QED BY <1>1, <2>1, <2>4, <4>1 DEF Allowed
    <3>2. CASE n \in Quantities
      <4>1. Atomic!Add(p, n)
        BY <1>1, <2>1, <2>4 DEF Atomic!Add
      <4> QED BY <1>1, <3>2, <4>1 DEF Allowed, Atomic!AtomicCartNext
    <3> QED BY <3>1, <3>2
  <2>5. CASE Changed(r) = [cart EXCEPT ![p] = n]
    <3>1. Atomic!SetQuantity(p, n)
      BY <1>1, <2>1, <2>5 DEF Atomic!SetQuantity
    <3> QED BY <1>1, <3>1 DEF Allowed, Atomic!AtomicCartNext
  <2> QED BY <2>3, <2>4, <2>5
<1> QED BY <1>3, <1>4, <1>5

\* So does a deletion of the whole cart.
LEMMA EmptyStep ==
  ASSUME NEW r \in Requests, NEW s \in Nat, CartInv, req[r].pc = "delete",
         Store(EmptyCart), Reply(r, s), UNCHANGED UnitsPlaced
  PROVE  CartInv' /\ Allowed
<1>1. CartInv' /\ UnitsLeft' = EmptyCart
  BY EmptyCartTyped, StoreStep
<1>2. Acts(r)
  BY DEF Acts, Reply, CartInv, Requested
<1>3. CASE \E t \in Requests : Taking(t)
  <2>1. PICK t \in Requests : Taking(t)
    BY <1>3
  <2>2. t # r
    BY <2>1 DEF Taking
  <2> QED BY <1>1, <1>2, <2>1, <2>2 DEF Allowed, ActsBesideOrder
<1>4. CASE ~\E t \in Requests : Taking(t)
  BY <1>1 DEF Allowed, Atomic!AtomicCartNext, Atomic!Clear, Atomic!Nothing, EmptyCart
<1> QED BY <1>3, <1>4

\* The handler moves on without touching the cart or the orders.
LEMMA MoveStep ==
  ASSUME NEW r \in Requests, NEW q, CartInv, CopyOK(q, cart, version), req' = [req EXCEPT ![r] = q],
         q.pc # "clearCart", req[r].pc # "clearCart", UNCHANGED <<cart, version, UnitsPlaced>>
  PROVE  CartInv' /\ Allowed
  BY QuietStep DEF Allowed

\* The handler ends, with or without an effect of its last call on the cart, but not
\* one that is about to delete the cart it ordered.
LEMMA FailedStep ==
  ASSUME NEW r \in Requests, NEW s \in Nat, CartInv, Reply(r, s), req[r].pc # "clearCart",
         UNCHANGED <<cart, version, UnitsPlaced>>
  PROVE  CartInv' /\ Allowed
  BY ReplyOK, MoveStep

LEMMA CartStepOK ==
  ASSUME ShopInv, CartNext, UNCHANGED <<orders, storefrontVars, dashboard>>
  PROVE  ShopInv' /\ Allowed
<1>1. UNCHANGED UnitsPlaced
  BY DEF UnitsPlaced
<1>2. CartInv /\ RestOK
  BY DEF ShopInv
<1>3. ASSUME CartInv' /\ Allowed, UNCHANGED listed,
             UNCHANGED failures \/ \E kind \in FailureKinds : Fail(kind)
      PROVE  ShopInv' /\ Allowed
  BY <1>2, <1>3, RestStays DEF ShopInv
<1>4. \A kind \in {"catalog", "redis", "crash", "expire", "delist"} : kind \in FailureKinds
  BY DEF FailureKinds
<1>5. \A n \in {200, 204, 404, 502, 503} : n \in Nat
  OBVIOUS
<1>6. ASSUME NEW r \in Requests, FetchProduct(r) PROVE ShopInv' /\ Allowed
  <2>1. req[r].pc = "fetch" /\ UNCHANGED <<cart, version, listed>>
    BY <1>6 DEF FetchProduct
  <2>2. UNCHANGED failures \/ \E kind \in FailureKinds : Fail(kind)
    BY <1>4, <1>6 DEF FetchProduct
  <2>3. CASE \E n \in {404, 502} : Reply(r, n)
    BY <1>1, <1>2, <1>3, <1>5, <2>1, <2>2, <2>3, FailedStep
  <2>4. CASE Goto(r, IF req[r].op = "add" THEN "read" ELSE "write")
    <3> DEFINE q == [req[r] EXCEPT !.pc = IF req[r].op = "add" THEN "read" ELSE "write"]
    <3>1. q \in Requested /\ q.pc = (IF req[r].op = "add" THEN "read" ELSE "write")
          /\ q.seen = req[r].seen /\ q.copy = req[r].copy /\ q.product = req[r].product
      BY <1>2 DEF CartInv, Requested
    <3>2. CopyOK(q, cart, version)
      BY <1>2, <2>1, <3>1 DEF CartInv, CopyOK, HasCopy
    <3>3. req' = [req EXCEPT ![r] = q]
      BY <1>2, <2>4 DEF Goto, CartInv, Requested
    <3>4. q.pc # "clearCart"
      BY <3>1
    <3> HIDE DEF q
    <3> QED BY <1>1, <1>2, <1>3, <2>1, <2>2, <3>2, <3>3, <3>4, MoveStep
  <2> QED BY <1>6, <2>3, <2>4 DEF FetchProduct
<1>7. ASSUME NEW r \in Requests, ReadCart(r) PROVE ShopInv' /\ Allowed
  <2> DEFINE q == [req[r] EXCEPT !.pc = NextCall(r), !.copy = cart, !.seen = version]
  <2>1. NextCall(r) \in {"fetch", "write"}
    BY DEF NextCall
  <2>2. q \in Requested /\ q.pc = NextCall(r) /\ q.seen = version /\ q.copy = cart
        /\ q.product = req[r].product
    BY <1>2, <2>1 DEF CartInv, Requested
  <2>3. req[r].pc = "read" /\ req[r].product \in Products
    BY <1>2, <1>7 DEF ReadCart, CartInv, CopyOK
  <2>4. CopyOK(q, cart, version)
    BY <1>2, <2>1, <2>2, <2>3 DEF CopyOK, CartInv
  <2>5. req' = [req EXCEPT ![r] = q] /\ UNCHANGED <<cart, version, listed, failures>>
    BY <1>2, <1>7 DEF ReadCart, CartInv, Requested
  <2>6. q.pc # "clearCart"
    BY <2>1, <2>2
  <2> HIDE DEF q
  <2> QED BY <1>1, <1>2, <1>3, <2>3, <2>4, <2>5, <2>6, MoveStep
<1>8. ASSUME NEW r \in Requests, WriteCart(r) PROVE ShopInv' /\ Allowed
  BY <1>1, <1>2, <1>3, <1>5, <1>8, WriteStep DEF WriteCart
<1>9. ASSUME NEW r \in Requests, ClearCart(r) PROVE ShopInv' /\ Allowed
  BY <1>1, <1>2, <1>3, <1>5, <1>9, EmptyStep DEF ClearCart
<1>10. ASSUME NEW r \in Requests, RedisUnavailable(r) PROVE ShopInv' /\ Allowed
  <2>1. UNCHANGED listed /\ \E kind \in FailureKinds : Fail(kind)
    BY <1>4, <1>10 DEF RedisUnavailable
  <2>2. Reply(r, 503) /\ req[r].pc # "clearCart" /\ 503 \in Nat
    BY <1>10 DEF RedisUnavailable
  <2>3. CASE UNCHANGED <<cart, version>>
    BY <1>1, <1>2, <1>3, <2>1, <2>2, <2>3, FailedStep
  <2>4. CASE req[r].pc = "write" /\ Store(Changed(r))
    BY <1>1, <1>2, <1>3, <2>1, <2>2, <2>4, WriteStep
  <2>5. CASE req[r].pc = "delete" /\ Store(EmptyCart)
    BY <1>1, <1>2, <1>3, <2>1, <2>2, <2>5, EmptyStep
  <2> QED BY <1>10, <2>3, <2>4, <2>5 DEF RedisUnavailable
<1>11. ASSUME NEW r \in Requests, HandlerDies(r) PROVE ShopInv' /\ Allowed
  <2>1. Reply(r, 502) /\ 502 \in Nat /\ UNCHANGED <<cart, version, listed>>
        /\ \E kind \in FailureKinds : Fail(kind)
    BY <1>4, <1>11 DEF HandlerDies
  <2>2. CASE req[r].pc # "clearCart"
    BY <1>1, <1>2, <1>3, <2>1, <2>2, FailedStep
  <2>3. CASE req[r].pc = "clearCart"
    <3>1. PICK q : /\ CopyOK(q, cart, version) /\ q.pc = "answered"
                   /\ req' = [req EXCEPT ![r] = q]
      BY <1>2, <2>1, ReplyOK
    <3>2. CartInv'
      BY <1>2, <2>1, <3>1, QuietStep
    <3>3. Acts(r) /\ req'[r].pc = "answered"
      BY <1>2, <2>3, <3>1 DEF Acts, CartInv
    <3>4. CASE Taking(r)
      BY <1>3, <2>1, <3>2, <3>3, <3>4 DEF Allowed, KeepsOrderedCart
    <3>5. CASE ~Taking(r)
      BY <1>3, <2>1, <2>3, <3>2, <3>3, <3>5 DEF Allowed, ActsOnOldCopy, Taking
    <3> QED BY <3>4, <3>5
  <2> QED BY <2>2, <2>3
<1>12. ASSUME Expire PROVE ShopInv' /\ Allowed
  <2>1. /\ version' = version + 1 /\ cart' = EmptyCart /\ version \in Nat
        /\ UNCHANGED <<listed, req>> /\ \E kind \in FailureKinds : Fail(kind)
    BY <1>2, <1>4, <1>12 DEF Expire, Store, CartInv
  <2>2. \A t \in Requests : CopyOK(req'[t], cart', version')
    BY <1>2, <2>1, CopyKept DEF CartInv
  <2>3. CartInv'
    BY <1>2, <2>1, <2>2, EmptyCartTyped DEF CartInv
  <2>4. \A t \in Requests : req'[t].seen \in Nat /\ req'[t].seen <= version
    BY <1>2, <2>1 DEF CartInv, CopyOK, Requested
  <2>5. ~\E t \in Requests : Taking(t)'
    BY <2>1, <2>4 DEF Taking
  <2>6. UnitsLeft' = EmptyCart
    BY <2>1, <2>5 DEF UnitsLeft
  <2>7. Allowed
    BY <1>1, <2>6 DEF Allowed, Atomic!AtomicCartNext, Atomic!Clear, Atomic!Nothing, EmptyCart
  <2> QED BY <1>3, <2>1, <2>3, <2>7
<1>13. ASSUME NEW p \in Products, Delist(p) PROVE ShopInv' /\ Allowed
  <2>1. /\ UNCHANGED <<cart, version, req>> /\ listed' \subseteq listed
        /\ failures' \in 0..MaxFailures
    BY <1>2, <1>13, CartAssumption DEF Delist, Fail, RestOK
  <2>2. CartInv' /\ Allowed
    BY <1>1, <1>2, <2>1 DEF CartInv, Allowed, UnitsLeft, Taking
  <2>3. RestOK'
    BY <1>2, <2>1 DEF RestOK, storefrontVars
  <2> QED BY <2>2, <2>3 DEF ShopInv
<1> QED BY <1>6, <1>7, <1>8, <1>9, <1>10, <1>11, <1>12, <1>13 DEF CartNext, CartStep

-----------------------------------------------------------------------------
(* POST /orders *)

\* An order added is placed after the others.
LEMMA InsertPlaces ==
  ASSUME NEW r \in Requests, CartInv, RestOK, Insert(r), UNCHANGED <<listed, storefrontVars, dashboard>>,
         UNCHANGED failures \/ \E kind \in FailureKinds : Fail(kind)
  PROVE  /\ RestOK' /\ orders' # orders
         /\ UnitsPlaced' = Append(UnitsPlaced, req[r].copy)
<1>1. req[r].copy \in [Products -> Nat]
  BY DEF CartInv, Requested
<1>2. OrderRow(r) \in OrderRows /\ OrderRow(r).lines = req[r].copy
  BY <1>1 DEF OrderRow, OrderRows, Statuses
<1>3. orders \in Orders /\ orders' = Append(orders, OrderRow(r))
  BY DEF RestOK, Insert
<1>4. /\ orders' \in Orders /\ Len(orders') = Len(orders) + 1 /\ Len(orders) \in Nat
      /\ \A i \in 1..Len(orders) : orders'[i] = orders[i]
      /\ orders'[Len(orders) + 1] = OrderRow(r)
  BY <1>2, <1>3 DEF Orders
<1>5. failures' \in 0..MaxFailures
  BY CartAssumption DEF RestOK, Fail
<1>6. RestOK'
  BY <1>4, <1>5 DEF RestOK, storefrontVars
<1>7. /\ UnitsPlaced = [i \in 1..Len(orders) |-> orders[i].lines]
      /\ UnitsPlaced' = [i \in 1..Len(orders') |-> orders'[i].lines]
  BY <1>3, <1>4 DEF UnitsPlaced, Orders
<1>8. UnitsPlaced \in Seq([Products -> Nat]) /\ Len(UnitsPlaced) = Len(orders)
  <2>1. \A i \in 1..Len(orders) : orders[i] \in OrderRows
    BY <1>3 DEF Orders
  <2>2. \A i \in 1..Len(orders) : orders[i].lines \in [Products -> Nat]
    BY <2>1 DEF OrderRows
  <2>3. UnitsPlaced \in [1..Len(orders) -> [Products -> Nat]]
    BY <1>7, <2>2
  <2> QED BY <1>4, <2>3
<1>9. Append(UnitsPlaced, req[r].copy) =
        [i \in 1..(Len(orders) + 1) |-> IF i = Len(orders) + 1 THEN req[r].copy ELSE UnitsPlaced[i]]
  BY <1>1, <1>8
<1>10. UnitsPlaced' = Append(UnitsPlaced, req[r].copy)
  BY <1>2, <1>4, <1>7, <1>9
<1> QED BY <1>4, <1>6, <1>10

LEMMA PlacementStepOK ==
  ASSUME ShopInv, PlacementNext, UNCHANGED <<storefrontVars, dashboard>>
  PROVE  ShopInv' /\ Allowed
<1>1. CartInv /\ RestOK
  BY DEF ShopInv
<1>2. ASSUME CartInv' /\ Allowed, UNCHANGED <<listed, orders>>,
             UNCHANGED failures \/ \E kind \in FailureKinds : Fail(kind)
      PROVE  ShopInv' /\ Allowed
  BY <1>1, <1>2, RestStays DEF ShopInv
<1>3. \A kind \in {"redis", "insert", "clear"} : kind \in FailureKinds
  BY DEF FailureKinds
<1>4. ASSUME NEW r \in Requests, GetCart(r) PROVE ShopInv' /\ Allowed
  <2>1. /\ req[r].pc = "getCart" /\ UNCHANGED <<cart, version, listed, orders, UnitsPlaced>>
        /\ UNCHANGED failures \/ \E kind \in FailureKinds : Fail(kind)
    BY <1>3, <1>4 DEF GetCart, UnitsPlaced
  <2>2. CASE \E n \in {400, 502} : Reply(r, n)
    BY <1>1, <1>2, <2>1, <2>2, FailedStep
  <2>3. CASE /\ cart # EmptyCart
             /\ req' = [req EXCEPT ![r].pc = "insert", ![r].copy = cart, ![r].seen = version]
    <3> DEFINE q == [req[r] EXCEPT !.pc = "insert", !.copy = cart, !.seen = version]
    <3>1. q \in Requested /\ q.pc = "insert" /\ q.copy = cart /\ q.seen = version
      BY <1>1 DEF CartInv, Requested
    <3>2. CopyOK(q, cart, version)
      BY <1>1, <2>3, <3>1 DEF CopyOK, CartInv
    <3>3. req' = [req EXCEPT ![r] = q]
      BY <1>1, <2>3 DEF CartInv, Requested
    <3>4. q.pc # "clearCart"
      BY <3>1
    <3> HIDE DEF q
    <3> QED BY <1>1, <1>2, <2>1, <3>2, <3>3, <3>4, MoveStep
  <2> QED BY <1>4, <2>2, <2>3 DEF GetCart
<1>5. ASSUME NEW r \in Requests, InsertOrder(r) PROVE ShopInv' /\ Allowed
  <2>1. /\ req[r].pc = "insert" /\ Insert(r) /\ Goto(r, "clearCart")
        /\ UNCHANGED <<cart, version, listed, failures>>
    BY <1>5 DEF InsertOrder
  <2>2. RestOK' /\ UnitsPlaced' = Append(UnitsPlaced, req[r].copy)
    BY <1>1, <2>1, InsertPlaces
  <2> DEFINE q == [req[r] EXCEPT !.pc = "clearCart"]
  <2>3. q \in Requested /\ q.pc = "clearCart" /\ q.copy = req[r].copy /\ q.seen = req[r].seen
    BY <1>1 DEF CartInv, Requested
  <2>4. CopyOK(q, cart, version)
    BY <1>1, <2>1, <2>3 DEF CopyOK, CartInv, HasCopy
  <2>5. req' = [req EXCEPT ![r] = q]
    BY <1>1, <2>1 DEF Goto, CartInv, Requested
  <2>6. req'[r] = q
    BY <1>1, <2>5 DEF CartInv
  <2> HIDE DEF q
  <2>7. CartInv'
    BY <1>1, <2>1, <2>4, <2>5, QuietStep
  <2>8. Acts(r)
    BY <2>1, <2>3, <2>6 DEF Acts
  <2>9. ASSUME req[r].seen # version PROVE Allowed
    <3>1. ActsOnOldCopy
      BY <2>1, <2>8, <2>9 DEF ActsOnOldCopy
    <3> QED BY <3>1 DEF Allowed
  <2>10. ASSUME \E t \in Requests : Taking(t) PROVE Allowed
    <3>1. PICK t \in Requests : Taking(t)
      BY <2>10
    <3>2. t # r
      BY <2>1, <3>1 DEF Taking
    <3>3. ActsBesideOrder
      BY <2>8, <3>1, <3>2 DEF ActsBesideOrder
    <3> QED BY <3>3 DEF Allowed
  <2>11. ASSUME req[r].seen = version, ~\E t \in Requests : Taking(t) PROVE Allowed
    <3>1. UnitsLeft = cart /\ req[r].copy = cart /\ cart # EmptyCart
      BY <1>1, <2>1, <2>11 DEF UnitsLeft, CartInv, CopyOK, HasCopy
    <3>2. Taking(r)'
      BY <2>1, <2>3, <2>6, <2>11 DEF Taking
    <3>3. UnitsLeft' = EmptyCart
      BY <3>2 DEF UnitsLeft
    <3>4. UnitsPlaced' = Append(UnitsPlaced, UnitsLeft)
      BY <2>2, <3>1
    <3>5. UnitsLeft # Atomic!Nothing /\ UnitsLeft' = Atomic!Nothing
      BY <3>1, <3>3 DEF Atomic!Nothing, EmptyCart
    <3>6. Atomic!Checkout
      BY <3>4, <3>5 DEF Atomic!Checkout
    <3> QED BY <3>6 DEF Allowed, Atomic!AtomicCartNext
  <2>12. Allowed
    BY <2>9, <2>10, <2>11
  <2> QED BY <2>2, <2>7, <2>12 DEF ShopInv
<1>6. ASSUME NEW r \in Requests, InsertFails(r) PROVE ShopInv' /\ Allowed
  <2>1. /\ req[r].pc = "insert" /\ Reply(r, 500) /\ 500 \in Nat
        /\ UNCHANGED <<cart, version, listed>>
        /\ \E kind \in FailureKinds : Fail(kind)
    BY <1>3, <1>6 DEF InsertFails
  <2>2. CASE UNCHANGED orders
    BY <1>1, <1>2, <2>1, <2>2, FailedStep DEF UnitsPlaced
  <2>3. CASE Insert(r)
    <3>1. PICK q : /\ CopyOK(q, cart, version) /\ q.pc = "answered"
                   /\ req' = [req EXCEPT ![r] = q]
      BY <1>1, <2>1, ReplyOK
    <3>2. CartInv'
      BY <1>1, <2>1, <3>1, QuietStep
    <3>3. RestOK' /\ orders' # orders
      BY <1>1, <2>1, <2>3, InsertPlaces
    <3>4. Acts(r) /\ req'[r].pc = "answered"
      BY <1>1, <2>1, <3>1 DEF Acts, CartInv
    <3>5. Allowed
      BY <2>1, <3>3, <3>4 DEF Allowed, KeepsOrderedCart
    <3> QED BY <3>2, <3>3, <3>5 DEF ShopInv
  <2> QED BY <1>6, <2>2, <2>3 DEF InsertFails
<1>7. ASSUME NEW r \in Requests, DeleteCart(r) \/ DeleteCartFails(r) PROVE ShopInv' /\ Allowed
  <2>1. /\ req[r].pc = "clearCart" /\ Reply(r, 201) /\ 201 \in Nat
        /\ UNCHANGED <<listed, orders, UnitsPlaced>>
        /\ UNCHANGED failures \/ \E kind \in FailureKinds : Fail(kind)
    BY <1>3, <1>7 DEF DeleteCart, DeleteCartFails, UnitsPlaced
  <2>2. Acts(r) /\ req'[r].pc = "answered"
    BY <1>1, <2>1 DEF Acts, Reply, CartInv, Requested
  <2>3. CartInv' /\ (Taking(r) => Allowed)
    <3>1. CASE Store(EmptyCart)
      <4>1. CartInv' /\ UnitsLeft' = EmptyCart
        BY <1>1, <2>1, <3>1, EmptyCartTyped, StoreStep
      <4>2. Taking(r) => UnitsLeft = EmptyCart
        BY DEF UnitsLeft
      <4> QED BY <2>1, <4>1, <4>2 DEF Allowed
    <3>2. CASE UNCHANGED <<cart, version>>
      <4>1. CartInv'
        BY <1>1, <2>1, <3>2, ReplyOK, QuietStep
      <4> QED BY <2>2, <3>2, <4>1 DEF Allowed, KeepsOrderedCart
    <3> QED BY <1>7, <3>1, <3>2 DEF DeleteCart, DeleteCartFails
  <2>4. ~Taking(r) => Allowed
    BY <2>1, <2>2 DEF Allowed, ActsOnOldCopy, Taking
  <2> QED BY <1>2, <2>1, <2>3, <2>4
<1>8. ASSUME NEW i \in DOMAIN orders, OrderMoves(i) PROVE ShopInv' /\ Allowed
  <2>1. PICK s \in NextStatuses[orders[i].status] : orders' = [orders EXCEPT ![i].status = s]
    BY <1>8 DEF OrderMoves
  <2>2. orders \in Orders /\ orders[i] \in OrderRows
    BY <1>1 DEF RestOK, Orders
  <2>3. orders[i].status \in Statuses /\ s \in Statuses
    BY <2>1, <2>2 DEF NextStatuses, Statuses, OrderRows
  <2> DEFINE row == [orders[i] EXCEPT !.status = s]
  <2>4. orders' \in Orders /\ Len(orders') = Len(orders) /\ DOMAIN orders' = DOMAIN orders
        /\ \A j \in DOMAIN orders : orders'[j].lines = orders[j].lines
    <3>1. row \in OrderRows /\ row.lines = orders[i].lines
      BY <2>2, <2>3 DEF OrderRows
    <3>2. orders' = [orders EXCEPT ![i] = row]
      BY <2>1, <2>2 DEF OrderRows
    <3> HIDE DEF row
    <3> QED BY <2>2, <3>1, <3>2 DEF Orders
  <2>5. RestOK'
    BY <1>1, <1>8, <2>4 DEF RestOK, OrderMoves, cartVars, storefrontVars
  <2>6. CartInv' /\ Allowed
    BY <1>1, <1>8, <2>4
       DEF OrderMoves, cartVars, CartInv, Allowed, UnitsLeft, UnitsPlaced, Taking
  <2> QED BY <2>5, <2>6 DEF ShopInv
<1> QED BY <1>4, <1>5, <1>6, <1>7, <1>8 DEF PlacementNext, PlacementStep

-----------------------------------------------------------------------------
(* The storefront *)

\* A component sends the next request; its handler starts without a copy.
LEMMA SendStep ==
  ASSUME NEW c \in Controls, NEW op \in Ops, NEW p \in Products \cup {NoProduct},
         NEW n \in Quantities \cup {0}, op \in {"add", "update", "remove"} => p \in Products,
         ShopInv, Send(c, op, p, n), UNCHANGED dashboard
  PROVE  ShopInv' /\ Allowed
<1>1. PICK r \in Requests : /\ Receive(r, op, p, n)
                            /\ control' = [control EXCEPT ![c] = [state |-> "busy", request |-> r]]
  BY DEF Send
<1> DEFINE pc == IF ValidBody(op, n) THEN FirstCall(op) ELSE "answered"
           status == IF ValidBody(op, n) THEN 0 ELSE 400
           q == [NoRequest EXCEPT !.op = op, !.product = p, !.quantity = n, !.pc = pc,
                                  !.status = status]
<1>2. /\ pc \in {"fetch", "read", "delete", "getCart", "answered"}
      /\ pc = "fetch" => op = "add"
      /\ pc = "read" => op \in {"update", "remove"}
      /\ status \in Nat
  BY DEF FirstCall, Ops, CartOps
<1>3. /\ q \in Requested /\ q.pc = pc /\ q.op = op /\ q.product = p /\ q.seen = 0
  <2> HIDE DEF pc, status
  <2> QED BY <1>2, EmptyCartTyped DEF NoRequest, Requested
<1>4. CopyOK(q, cart, version)
  BY <1>2, <1>3 DEF CopyOK, HasCopy, ShopInv, CartInv
<1>5. req' = [req EXCEPT ![r] = q] /\ req[r].pc = "unsent"
  BY <1>1 DEF Receive, NextToSend
<1>6. UNCHANGED <<cart, version, listed, failures, orders, page, UnitsPlaced>>
  BY DEF Send, UnitsPlaced
<1>7. q.pc # "clearCart"
  BY <1>2, <1>3
<1> HIDE DEF q
<1>8. CartInv' /\ Allowed
  BY <1>4, <1>5, <1>6, <1>7, MoveStep DEF ShopInv
<1>9. control' \in [Controls -> [state : ControlStates, request : Requests \cup {0}]]
  BY <1>1 DEF ShopInv, RestOK, ControlStates
<1>10. RestOK'
  BY <1>6, <1>9 DEF ShopInv, RestOK
<1> QED BY <1>8, <1>10 DEF ShopInv

\* Only the storefront's own state changes, and perhaps the count of failures.
LEMMA PagesStep ==
  ASSUME ShopInv, UNCHANGED <<cart, version, listed, req, orders, dashboard>>,
         UNCHANGED failures \/ \E kind \in FailureKinds : Fail(kind),
         control' \in [Controls -> [state : ControlStates, request : Requests \cup {0}]],
         page' \in [order : 0..Len(orders), shown : Statuses \cup {"none"},
                   polls : [Polls -> PollStates]],
         page'.order = 0 => page' = NoPage
  PROVE  ShopInv' /\ Allowed
<1>1. failures' \in 0..MaxFailures
  BY CartAssumption DEF ShopInv, RestOK, Fail
<1>2. RestOK'
  BY <1>1 DEF ShopInv, RestOK, NoPage
<1>3. CartInv' /\ Allowed
  BY DEF ShopInv, CartInv, Allowed, UnitsLeft, UnitsPlaced, Taking
<1> QED BY <1>2, <1>3 DEF ShopInv

LEMMA StorefrontStepOK ==
  ASSUME ShopInv, StorefrontNext, UNCHANGED dashboard
  PROVE  ShopInv' /\ Allowed
<1> DEFINE ControlOK(f) == f \in [Controls -> [state : ControlStates, request : Requests \cup {0}]]
           PageOK(g) == /\ g \in [order : 0..Len(orders), shown : Statuses \cup {"none"},
                                  polls : [Polls -> PollStates]]
                        /\ g.order = 0 => g = NoPage
<1>1. ControlOK(control) /\ PageOK(page) /\ orders \in Orders
  BY DEF ShopInv, RestOK
<1>2. ASSUME UNCHANGED <<cart, version, listed, req, orders>>, ControlOK(control'), PageOK(page'),
             UNCHANGED failures \/ \E kind \in FailureKinds : Fail(kind)
      PROVE  ShopInv' /\ Allowed
  BY <1>2, PagesStep
<1>3. "lost" \in FailureKinds /\ "read" \in FailureKinds
  BY DEF FailureKinds
<1>4. ASSUME NEW c \in Controls,
             \/ \E n \in Quantities : AddToCart(c, n) \/ UpdateQuantity(c, n)
             \/ RemoveLine(c) \/ ClearAll(c) \/ PlaceOrder(c)
      PROVE  ShopInv' /\ Allowed
  <2>1. ProductOf[c] \in Products
    BY StorefrontAssumption
  <2>2. PICK op \in Ops, p \in Products \cup {NoProduct}, m \in Quantities \cup {0} :
          /\ op \in {"add", "update", "remove"} => p \in Products
          /\ Send(c, op, p, m)
    BY <1>4, <2>1 DEF AddToCart, UpdateQuantity, RemoveLine, ClearAll, PlaceOrder, Ops, CartOps
  <2> QED BY <2>2, SendStep
<1>5. ASSUME NEW c \in Controls, NEW state \in ControlStates,
             control' = [control EXCEPT ![c] = [state |-> state, request |-> 0]]
      PROVE  ControlOK(control')
  BY <1>1, <1>5
<1>6. \A kind, ok : AfterAnswer(kind, ok) \in ControlStates
  BY DEF AfterAnswer, ControlStates
<1>7. ASSUME NEW c \in Controls, Answer(c) \/ LoseAnswer(c) \/ Remount(c) PROVE ShopInv' /\ Allowed
  <2>1. ControlOK(control')
    BY <1>5, <1>6, <1>7 DEF Answer, LoseAnswer, Remount, Settle, ControlStates
  <2>2. UNCHANGED <<cart, version, listed, req, orders, page>>
    BY <1>7 DEF Answer, LoseAnswer, Remount, placementVars, cartVars
  <2>3. UNCHANGED failures \/ \E kind \in FailureKinds : Fail(kind)
    BY <1>3, <1>7 DEF Answer, LoseAnswer, Remount, placementVars, cartVars
  <2> QED BY <1>1, <1>2, <2>1, <2>2, <2>3
<1>8. \A i \in DOMAIN orders : i \in 1..Len(orders) /\ orders[i].status \in Statuses
  <2>1. \A i \in DOMAIN orders : i \in 1..Len(orders) /\ orders[i] \in OrderRows
    BY <1>1 DEF Orders
  <2> QED BY <2>1 DEF OrderRows
<1>9. NoPage.order = 0 /\ NoPage.shown = "none" /\ \A k \in Polls : NoPage.polls[k] = "free"
  BY DEF NoPage
<1>10. PageOK(NoPage)
  <2>1. Len(orders) \in Nat
    BY <1>1 DEF Orders
  <2>2. 0 \in 0..Len(orders) /\ [k \in Polls |-> "free"] \in [Polls -> PollStates]
    BY <2>1 DEF PollStates
  <2>3. NoPage \in [order : 0..Len(orders), shown : Statuses \cup {"none"},
                   polls : [Polls -> PollStates]]
    BY <2>2 DEF NoPage
  <2> QED BY <2>3
<1>11. ASSUME NEW i \in DOMAIN orders, OpenPage(i) PROVE ShopInv' /\ Allowed
  <2>1. PageOK(page')
    <3>1. page' = [NoPage EXCEPT !.order = i, !.shown = orders[i].status]
      BY <1>11 DEF OpenPage
    <3>2. i \in 0..Len(orders) /\ i # 0 /\ orders[i].status \in Statuses
      <4>1. i \in 1..Len(orders) /\ Len(orders) \in Nat
        BY <1>1, <1>8 DEF Orders
      <4> QED BY <1>8, <4>1
    <3> QED BY <1>10, <3>1, <3>2
  <2> QED BY <1>1, <1>2, <1>11, <2>1 DEF OpenPage, placementVars, cartVars
<1>12. ASSUME NEW k \in Polls, NEW s \in PollStates, page.order # 0, page' = [page EXCEPT !.polls[k] = s]
       PROVE  PageOK(page')
  BY <1>1, <1>12
<1>13. ASSUME NEW k \in Polls, PollTick(k) PROVE ShopInv' /\ Allowed
  <2>1. page.order # 0
    BY <1>1, <1>9, <1>13 DEF PollTick, Polling, ActiveStatuses
  <2>2. PageOK(page')
    BY <1>12, <1>13, <2>1 DEF PollTick, PollStates
  <2> QED BY <1>1, <1>2, <1>13, <2>2 DEF PollTick, placementVars, cartVars
<1>14. ASSUME NEW k \in Polls, ServePoll(k) PROVE ShopInv' /\ Allowed
  <2>1. page.order # 0
    BY <1>1, <1>9, <1>14 DEF ServePoll
  <2>2. page.order \in DOMAIN orders
    BY <1>1, <2>1 DEF Orders
  <2>3. PageOK(page')
    BY <1>8, <1>12, <1>14, <2>1, <2>2 DEF ServePoll, PollStates
  <2>4. /\ UNCHANGED <<cart, version, listed, req, orders, control>>
        /\ UNCHANGED failures \/ \E kind \in FailureKinds : Fail(kind)
    BY <1>3, <1>14 DEF ServePoll
  <2> QED BY <1>1, <1>2, <2>3, <2>4
<1>15. ASSUME NEW k \in Polls, PollAnswered(k) PROVE ShopInv' /\ Allowed
  <2>1. page.order # 0
    BY <1>1, <1>9, <1>15 DEF PollAnswered
  <2>2. page.polls[k] \in {"failed"} \cup Statuses
    BY <1>1, <1>15 DEF PollAnswered, PollStates
  <2>3. PageOK(page')
    BY <1>1, <1>15, <2>1, <2>2 DEF PollAnswered, PollStates
  <2> QED BY <1>1, <1>2, <1>15, <2>3 DEF PollAnswered, placementVars, cartVars
<1>16. ASSUME LeavePage PROVE ShopInv' /\ Allowed
  BY <1>1, <1>2, <1>10, <1>16 DEF LeavePage, placementVars, cartVars
<1> QED BY <1>4, <1>7, <1>11, <1>13, <1>14, <1>15, <1>16 DEF StorefrontNext

-----------------------------------------------------------------------------
(* The dashboard, and the theorems *)

LEMMA ConsoleStepOK ==
  ASSUME ShopInv, ConsoleNext, UNCHANGED storefrontVars
  PROVE  ShopInv' /\ Allowed
<1>1. CartInv /\ RestOK
  BY DEF ShopInv
<1>2. /\ UNCHANGED <<cart, version, listed, req, orders>>
      /\ UNCHANGED failures \/ \E kind \in FailureKinds : Fail(kind)
  BY DEF ConsoleNext, CountOrders, SelectOrders, LoadFails, placementVars, cartVars, FailureKinds
<1>3. failures' \in 0..MaxFailures
  BY <1>1, <1>2, CartAssumption DEF RestOK, Fail
<1> DEFINE Dashboards == [pc : {"blank", "counted", "shown"}, total : Nat, tally : [Statuses -> Nat]]
<1>4. BlankDashboard \in Dashboards
  BY DEF BlankDashboard
<1>5. Len(orders) \in Nat /\ DOMAIN orders = 1..Len(orders)
  BY <1>1 DEF RestOK, Orders
<1>6. TallyOrders \in [Statuses -> Nat]
  <2>1. \A s \in Statuses : {i \in NewestOrders : orders[i].status = s} \subseteq 1..Len(orders)
    BY <1>5 DEF NewestOrders
  <2>2. IsFiniteSet(1..Len(orders))
    BY <1>5, FS_Interval
  <2>3. \A s \in Statuses : Cardinality({i \in NewestOrders : orders[i].status = s}) \in Nat
    BY <2>1, <2>2, FS_Subset, FS_CardinalityType
  <2> QED BY <2>3 DEF TallyOrders
<1>7. dashboard' \in Dashboards
  <2>1. CASE CountOrders
    BY <1>4, <1>5, <2>1 DEF CountOrders
  <2>2. CASE SelectOrders
    BY <1>1, <1>6, <2>2 DEF SelectOrders, RestOK
  <2>3. CASE LoadFails
    BY <1>4, <2>3 DEF LoadFails
  <2> QED BY <2>1, <2>2, <2>3 DEF ConsoleNext
<1>8. RestOK'
  BY <1>1, <1>2, <1>3, <1>7 DEF RestOK, storefrontVars
<1>9. CartInv' /\ Allowed
  BY <1>1, <1>2 DEF CartInv, Allowed, UnitsLeft, UnitsPlaced, Taking
<1> QED BY <1>8, <1>9 DEF ShopInv

LEMMA ShopInitially == Init => ShopInv /\ Atomic!AtomicCartInit
<1> SUFFICES ASSUME Init PROVE ShopInv /\ Atomic!AtomicCartInit
  OBVIOUS
<1>1. /\ cart \in [Products -> Nat] /\ version = 0 /\ listed \subseteq Products /\ failures = 0
      /\ req = [r \in Requests |-> NoRequest] /\ MaxFailures \in Nat
  BY CartAssumption DEF Init, CartInit
<1>2. NoRequest \in Requested /\ NoRequest.pc = "unsent" /\ NoRequest.seen = 0
  BY EmptyCartTyped DEF NoRequest, Requested
<1>3. CartInv
  BY <1>1, <1>2 DEF CartInv, CopyOK, HasCopy
<1>4. orders \in Orders /\ Len(orders) = 0 /\ orders = <<>>
  BY DEF Init, Orders
<1>5. page \in [order : 0..Len(orders), shown : Statuses \cup {"none"}, polls : [Polls -> PollStates]]
      /\ page = NoPage
  BY <1>4 DEF Init, StorefrontInit, NoPage, PollStates
<1>6. control \in [Controls -> [state : ControlStates, request : Requests \cup {0}]]
  BY DEF Init, StorefrontInit, ControlStates
<1>7. dashboard \in [pc : {"blank", "counted", "shown"}, total : Nat, tally : [Statuses -> Nat]]
  BY DEF Init, ConsoleInit, BlankDashboard
<1>8. RestOK
  BY <1>1, <1>4, <1>5, <1>6, <1>7 DEF RestOK
<1>9. UnitsLeft = cart /\ UnitsPlaced = <<>>
  <2>1. ~\E r \in Requests : Taking(r)
    BY <1>1, <1>2 DEF Taking
  <2> QED BY <1>4, <2>1 DEF UnitsLeft, UnitsPlaced
<1> QED BY <1>1, <1>3, <1>8, <1>9 DEF ShopInv, Atomic!AtomicCartInit

LEMMA ShopStep == ShopInv /\ [Next]_shopVars => ShopInv' /\ Allowed
<1> SUFFICES ASSUME ShopInv, [Next]_shopVars PROVE ShopInv' /\ Allowed
  OBVIOUS
<1>1. CASE UNCHANGED shopVars
  BY <1>1 DEF shopVars, placementVars, cartVars, storefrontVars, ShopInv, CartInv, RestOK,
              Allowed, UnitsLeft, UnitsPlaced, Taking
<1>2. CASE CartNext /\ UNCHANGED <<orders, storefrontVars, dashboard>>
  BY <1>2, CartStepOK
<1>3. CASE PlacementNext /\ UNCHANGED <<storefrontVars, dashboard>>
  BY <1>3, PlacementStepOK
<1>4. CASE StorefrontNext /\ UNCHANGED dashboard
  BY <1>4, StorefrontStepOK
<1>5. CASE ConsoleNext /\ UNCHANGED storefrontVars
  BY <1>5, ConsoleStepOK
<1> QED BY <1>1, <1>2, <1>3, <1>4, <1>5 DEF Next

\* The inductive invariant of the shop: types, and a copy of the current version of the
\* cart is the cart (readCart .. writeCart in cartService.ts, GetCart .. DeleteCart in
\* orders.go).
THEOREM ShopInvariant == Spec => []ShopInv
<1>1. Init => ShopInv
  BY ShopInitially
<1>2. ShopInv /\ [Next]_shopVars => ShopInv'
  BY ShopStep
<1> QED BY <1>1, <1>2, PTL DEF Spec

\* Type correctness of the shop.
THEOREM ShopTypeCorrect == Spec => []TypeOK
  BY ShopInvariant, InvImpliesTypeOK, PTL

\* The cart service, the order handler and their failures implement the atomic cart, but
\* for a write of an old copy, a change beside a half-done order, and an order whose cart
\* was not deleted.
THEOREM CartIsAtomic == Spec => ImplementsAtomicCart
<1>1. Init => Atomic!AtomicCartInit
  BY ShopInitially
<1>2. ShopInv /\ [Next]_shopVars =>
        [Atomic!AtomicCartNext \/ ActsOnOldCopy \/ ActsBesideOrder \/ KeepsOrderedCart
          ]_<<UnitsLeft, UnitsPlaced>>
  BY ShopStep DEF Allowed
<1> QED BY <1>1, <1>2, ShopInvariant, PTL DEF Spec, ImplementsAtomicCart

-----------------------------------------------------------------------------
(* Nothing is made up *)

\* The requests whose quantity may be in the cart: the answered ones.
Applied(p) == {r \in Askers(p) : req[r].pc = "answered"}
AppliedUnits(p) == [r \in Applied(p) |-> req[r].quantity]
Reach(c, p) == c[p] + SumOf(AppliedUnits(p))

\* The cart and every copy of it hold no more than that, from the cart c on.
Within(c) ==
  \A p \in Products :
    /\ cart[p] <= Reach(c, p)
    /\ \A r \in Requests : HasCopy(req[r]) => req[r].copy[p] <= Reach(c, p)

\* Nor does any order, which was made of a copy.
OrdersWithin(c) ==
  \A p \in Products : \A i \in DOMAIN orders : orders[i].lines[p] <= Reach(c, p)

SentRequests == {r \in Requests : req[r].pc # "unsent"}

BoundInv ==
  /\ IsFiniteSet(SentRequests)
  /\ \A r \in Requests : req[r].pc = "unsent" => req[r].op = "none"
  /\ \E c \in InitialCarts : Within(c) /\ OrdersWithin(c)

\* An order once placed keeps its lines, and a new one is the copy of its handler.
SameLines ==
  /\ Len(orders') = Len(orders)
  /\ \A i \in DOMAIN orders : orders'[i].lines = orders[i].lines
Placing == SameLines \/ \E r \in Requests : req[r].pc = "insert" /\ Insert(r)

\* What a request asks for is settled when it is sent, and an answer is final.
Follows(a, b) ==
  /\ a.pc # "answered" /\ b.pc # "unsent"
  /\ \/ a.pc = "unsent"
     \/ b.op = a.op /\ b.product = a.product /\ b.quantity = a.quantity

\* Handler r moves on to q: its copy is the cart or the one it had, and what it writes
\* is its change of its copy, with the answer, or nothing.
MovesOn(r, q) ==
  /\ req' = [req EXCEPT ![r] = q]
  /\ Follows(req[r], q)
  /\ HasCopy(q) => q.copy = cart \/ (HasCopy(req[r]) /\ q.copy = req[r].copy)
  /\ \/ cart' = cart
     \/ cart' = EmptyCart
     \/ req[r].pc = "write" /\ q.pc = "answered" /\ cart' = Changed(r)

LEMMA CartTyped ==
  ASSUME CartInv, NEW r \in Requests
  PROVE  /\ req[r].quantity \in Nat
         /\ req[r].copy \in [Products -> Nat]
         /\ \A p \in Products : cart[p] \in Nat /\ req[r].copy[p] \in Nat
<1>1. req[r] \in Requested /\ cart \in [Products -> Nat]
  BY DEF CartInv
<1>2. req[r].quantity \in Quantities \cup {0} /\ req[r].copy \in [Products -> Nat]
  BY <1>1 DEF Requested
<1>3. \A n \in Quantities \cup {0} : n \in Nat
  BY CartAssumption
<1> QED BY <1>1, <1>2, <1>3

\* The sums are over the requests sent so far, which are finitely many.
LEMMA AskedSummable ==
  ASSUME CartInv, BoundInv, NEW p
  PROVE  /\ Summable(AppliedUnits(p))
         /\ Summable([r \in Askers(p) |-> req[r].quantity])
<1>1. \A r \in Requests : req[r].quantity \in Nat
  BY CartTyped
<1>2. Askers(p) \subseteq SentRequests /\ Applied(p) \subseteq SentRequests
      /\ Askers(p) \subseteq Requests /\ Applied(p) \subseteq Requests
  BY DEF Askers, Applied, SentRequests, BoundInv
<1>3. IsFiniteSet(Askers(p)) /\ IsFiniteSet(Applied(p))
  BY <1>2, FS_Subset DEF BoundInv
<1> QED BY <1>1, <1>2, <1>3 DEF Summable, AppliedUnits

LEMMA ReachTyped ==
  ASSUME CartInv, BoundInv, NEW c \in InitialCarts, NEW p \in Products
  PROVE  Reach(c, p) \in Nat
<1>1. c \in [Products -> Nat]
  BY CartAssumption
<1>2. SumOf(AppliedUnits(p)) \in Nat
  BY AskedSummable, SumType
<1> QED BY <1>1, <1>2 DEF Reach

\* A handler's step keeps the requests sent finitely many.
LEMMA SentStep ==
  ASSUME CartInv, BoundInv, NEW r \in Requests, NEW q, MovesOn(r, q)
  PROVE  /\ IsFiniteSet(SentRequests')
         /\ \A s \in Requests : req'[s].pc = "unsent" => req'[s].op = "none"
         /\ \A s \in Requests : req'[s] = IF s = r THEN q ELSE req[s]
<1>1. \A s \in Requests : req'[s] = IF s = r THEN q ELSE req[s]
  BY DEF CartInv, MovesOn
<1>2. SentRequests' = SentRequests \cup {r}
  BY <1>1 DEF SentRequests, MovesOn, Follows
<1>3. IsFiniteSet(SentRequests \cup {r})
  BY FS_AddElement DEF BoundInv
<1>4. \A s \in Requests : req'[s].pc = "unsent" => req'[s].op = "none"
  BY <1>1 DEF BoundInv, MovesOn, Follows
<1> QED BY <1>1, <1>2, <1>3, <1>4

\* More requests are answered, so what the cart may hold grows, and by the quantity of
\* the one that was.
LEMMA ReachStep ==
  ASSUME CartInv, BoundInv, CartInv', NEW r \in Requests, NEW q, MovesOn(r, q),
         NEW c \in InitialCarts, NEW p \in Products
  PROVE  /\ Reach(c, p)' \in Nat /\ Reach(c, p) <= Reach(c, p)'
         /\ /\ q.pc = "answered" /\ req[r].pc # "unsent"
            /\ req[r].op \in {"add", "update"} /\ req[r].product = p
            => Reach(c, p)' = Reach(c, p) + req[r].quantity
<1>1. PICK new : new = AppliedUnits(p)'
  OBVIOUS
<1>2. \A s \in Requests : req'[s] = IF s = r THEN q ELSE req[s]
  BY SentStep
<1>3. DOMAIN new = Applied(p)' /\ \A s \in DOMAIN new : new[s] = req'[s].quantity
  BY <1>1 DEF AppliedUnits
<1>4. Summable(new)
  <2>1. IsFiniteSet(SentRequests')
    BY SentStep
  <2>2. Applied(p)' \subseteq SentRequests' /\ Applied(p)' \subseteq Requests
    BY DEF Applied, Askers, SentRequests
  <2>3. \A s \in Requests : req'[s].quantity \in Nat
    <3>1. \A s \in Requests : req'[s] \in Requested
      BY DEF CartInv
    <3>2. \A s \in Requests : req'[s].quantity \in Quantities \cup {0}
      BY <3>1 DEF Requested
    <3>3. \A n \in Quantities \cup {0} : n \in Nat
      BY CartAssumption
    <3> QED BY <3>2, <3>3
  <2> QED BY <1>3, <2>1, <2>2, <2>3, FS_Subset DEF Summable
<1>5. r \notin Applied(p)
  BY DEF Applied, MovesOn, Follows
<1>6. \A s \in Requests : s # r => (s \in Applied(p)' <=> s \in Applied(p))
  BY <1>2 DEF Applied, Askers
<1>7. /\ Applied(p) \subseteq Requests /\ Applied(p)' \subseteq Requests
      /\ DOMAIN AppliedUnits(p) = Applied(p)
      /\ \A s \in Applied(p) : AppliedUnits(p)[s] = req[s].quantity
  BY DEF Applied, Askers, AppliedUnits
<1>8. Applied(p) \subseteq Applied(p)' /\ \A s \in Applied(p) : new[s] = AppliedUnits(p)[s]
  BY <1>2, <1>3, <1>5, <1>6, <1>7
<1>9. Summable(AppliedUnits(p)) /\ SumOf(AppliedUnits(p)) \in Nat /\ SumOf(new) \in Nat
  BY <1>4, AskedSummable, SumType
<1>10. \A s \in Applied(p) : AppliedUnits(p)[s] \in Nat
  BY <1>7, <1>9 DEF Summable
<1>11. SumOf(AppliedUnits(p)) <= SumOf(new)
  BY <1>3, <1>4, <1>7, <1>8, <1>9, <1>10, SumMonotone
<1>12. c[p] \in Nat
  BY CartAssumption
<1>13. Reach(c, p) = c[p] + SumOf(AppliedUnits(p)) /\ Reach(c, p)' = c[p] + SumOf(new)
  BY <1>1 DEF Reach
<1>14. ASSUME q.pc = "answered", req[r].pc # "unsent",
              req[r].op \in {"add", "update"}, req[r].product = p
       PROVE  SumOf(new) = SumOf(AppliedUnits(p)) + req[r].quantity
  <2>1. q.op = req[r].op /\ q.product = p /\ q.quantity = req[r].quantity
    BY <1>14 DEF MovesOn, Follows
  <2>2. r \in Applied(p)'
    BY <1>2, <1>14, <2>1 DEF Applied, Askers
  <2>3. DOMAIN new = DOMAIN AppliedUnits(p) \cup {r}
    BY <1>3, <1>6, <1>7, <1>8, <2>2
  <2>4. new[r] = req[r].quantity /\ new[r] \in Nat
    <3>1. new[r] = req'[r].quantity
      BY <1>3, <2>2
    <3>2. req[r].quantity \in Nat
      BY CartTyped
    <3> QED BY <1>2, <2>1, <3>1, <3>2
  <2> QED BY <1>5, <1>7, <1>8, <1>9, <2>3, <2>4, SumAdd
<1>15. Reach(c, p)' \in Nat /\ Reach(c, p) <= Reach(c, p)'
  BY <1>9, <1>11, <1>12, <1>13
<1>16. ASSUME SumOf(new) = SumOf(AppliedUnits(p)) + req[r].quantity
       PROVE  Reach(c, p)' = Reach(c, p) + req[r].quantity
  <2>1. req[r].quantity \in Nat
    BY CartTyped
  <2> QED BY <1>9, <1>12, <1>13, <1>16, <2>1
<1> QED BY <1>14, <1>15, <1>16

\* What a handler writes is within what may be there once it has answered.
LEMMA ChangeWithin ==
  ASSUME CartInv, BoundInv, CartInv', NEW r \in Requests, NEW q, MovesOn(r, q),
         req[r].pc = "write", q.pc = "answered",
         NEW c \in InitialCarts, Within(c), NEW p \in Products
  PROVE  Changed(r)[p] <= Reach(c, p)'
<1>1. req[r].copy[p] <= Reach(c, p)
  BY DEF Within, HasCopy
<1>2. /\ req[r].copy \in [Products -> Nat] /\ req[r].copy[p] \in Nat /\ req[r].quantity \in Nat
  BY CartTyped
<1>3. PICK old, new : old = Reach(c, p) /\ new = Reach(c, p)'
  OBVIOUS
<1>4. old \in Nat /\ new \in Nat /\ old <= new
  BY <1>3, ReachTyped, ReachStep
<1>5. ASSUME req[r].op \in {"add", "update"}, req[r].product = p
      PROVE  new = old + req[r].quantity
  BY <1>3, <1>5, ReachStep
<1>6. CASE req[r].product # p
  <2>1. Changed(r)[p] = req[r].copy[p]
    BY <1>2, <1>6 DEF Changed
  <2> QED BY <1>1, <1>2, <1>3, <1>4, <2>1
<1>7. CASE req[r].product = p /\ req[r].op = "add"
  <2>1. Changed(r)[p] = req[r].copy[p] + req[r].quantity
    BY <1>2, <1>7 DEF Changed
  <2> QED BY <1>1, <1>2, <1>3, <1>4, <1>5, <1>7, <2>1
<1>8. CASE req[r].product = p /\ req[r].op = "update"
  <2>1. Changed(r)[p] = req[r].quantity
    BY <1>2, <1>8 DEF Changed
  <2> QED BY <1>2, <1>3, <1>4, <1>5, <1>8, <2>1
<1>9. CASE req[r].product = p /\ req[r].op \notin {"add", "update"}
  <2>1. Changed(r)[p] = 0
    BY <1>2, <1>9 DEF Changed
  <2> QED BY <1>3, <1>4, <2>1
<1> QED BY <1>6, <1>7, <1>8, <1>9

\* What may be there grows, and the orders stay within it: a new one was a copy that was.
LEMMA OrdersStep ==
  ASSUME CartInv, orders \in Orders, orders' \in Orders, Placing,
         NEW c \in InitialCarts, Within(c), OrdersWithin(c),
         \A p \in Products : /\ Reach(c, p) \in Nat /\ Reach(c, p)' \in Nat
                             /\ Reach(c, p) <= Reach(c, p)'
  PROVE  OrdersWithin(c)'
<1> SUFFICES ASSUME NEW p \in Products, NEW i \in DOMAIN orders'
             PROVE  orders'[i].lines[p] <= Reach(c, p)'
  BY DEF OrdersWithin
<1>1. PICK old, new : old = Reach(c, p) /\ new = Reach(c, p)'
  OBVIOUS
<1>2. old \in Nat /\ new \in Nat /\ old <= new
  BY <1>1
<1>3. /\ DOMAIN orders = 1..Len(orders) /\ DOMAIN orders' = 1..Len(orders')
      /\ Len(orders) \in Nat /\ Len(orders') \in Nat
  BY DEF Orders
<1>4. ASSUME NEW j \in DOMAIN orders
      PROVE  orders[j].lines[p] \in Nat /\ orders[j].lines[p] <= old
  <2>1. orders[j] \in OrderRows
    BY <1>3, <1>4 DEF Orders
  <2>2. orders[j].lines[p] \in Nat
    BY <2>1 DEF OrderRows
  <2> QED BY <1>1, <2>2 DEF OrdersWithin
<1>5. CASE SameLines
  <2>1. i \in DOMAIN orders /\ orders'[i].lines = orders[i].lines
    BY <1>3, <1>5 DEF SameLines
  <2> QED BY <1>1, <1>2, <1>4, <2>1
<1>6. CASE \E r \in Requests : req[r].pc = "insert" /\ Insert(r)
  <2>1. PICK r \in Requests : req[r].pc = "insert" /\ Insert(r)
    BY <1>6
  <2>2. i \in DOMAIN orders \/ orders'[i] = OrderRow(r)
    BY <1>3, <2>1 DEF Insert, Orders
  <2>3. i \in DOMAIN orders => orders'[i] = orders[i]
    BY <1>3, <2>1 DEF Insert, Orders
  <2>4. req[r].copy[p] \in Nat /\ req[r].copy[p] <= old
    BY <1>1, <2>1, CartTyped DEF Within, HasCopy
  <2>5. OrderRow(r).lines = req[r].copy
    BY DEF OrderRow
  <2>6. CASE i \in DOMAIN orders
    BY <1>1, <1>2, <1>4, <2>3, <2>6
  <2>7. CASE orders'[i] = OrderRow(r)
    BY <1>1, <1>2, <2>4, <2>5, <2>7
  <2> QED BY <2>2, <2>6, <2>7
<1> QED BY <1>5, <1>6 DEF Placing

LEMMA BoundStep ==
  ASSUME CartInv, BoundInv, CartInv', NEW r \in Requests, NEW q, MovesOn(r, q),
         orders \in Orders, orders' \in Orders, Placing
  PROVE  BoundInv'
<1>1. PICK c \in InitialCarts : Within(c) /\ OrdersWithin(c)
  BY DEF BoundInv
<1>2. \A s \in Requests : req'[s] = IF s = r THEN q ELSE req[s]
  BY SentStep
<1>3. ASSUME NEW p \in Products
      PROVE  /\ cart'[p] <= Reach(c, p)'
             /\ \A s \in Requests : HasCopy(req'[s]) => req'[s].copy[p] <= Reach(c, p)'
  <2>1. PICK old, new : old = Reach(c, p) /\ new = Reach(c, p)'
    OBVIOUS
  <2>2. old \in Nat /\ new \in Nat /\ old <= new
    BY <2>1, ReachTyped, ReachStep
  <2>3. cart[p] \in Nat /\ cart[p] <= old
    BY <1>1, <2>1, CartTyped DEF Within
  <2>4. \A s \in Requests : req[s].copy[p] \in Nat /\ (HasCopy(req[s]) => req[s].copy[p] <= old)
    BY <1>1, <2>1, CartTyped DEF Within
  <2>5. cart'[p] <= new
    <3>1. CASE cart' = cart
      BY <2>2, <2>3, <3>1
    <3>2. CASE cart' = EmptyCart
      BY <2>2, <3>2 DEF EmptyCart
    <3>3. CASE req[r].pc = "write" /\ q.pc = "answered" /\ cart' = Changed(r)
      BY <1>1, <2>1, <3>3, ChangeWithin
    <3> QED BY <3>1, <3>2, <3>3 DEF MovesOn
  <2>6. ASSUME NEW s \in Requests, HasCopy(req'[s]) PROVE req'[s].copy[p] <= new
    <3>1. CASE s # r
      <4>1. req'[s] = req[s]
        BY <1>2, <3>1
      <4> QED BY <2>2, <2>4, <2>6, <4>1
    <3>2. CASE s = r
      <4>1. req'[s] = q
        BY <1>2, <3>2
      <4>2. q.copy = cart \/ (HasCopy(req[r]) /\ q.copy = req[r].copy)
        BY <2>6, <4>1 DEF MovesOn
      <4>3. CASE q.copy = cart
        BY <2>2, <2>3, <4>1, <4>3
      <4>4. CASE HasCopy(req[r]) /\ q.copy = req[r].copy
        BY <2>2, <2>4, <4>1, <4>4
      <4> QED BY <4>2, <4>3, <4>4
    <3> QED BY <3>1, <3>2
  <2> QED BY <2>1, <2>5, <2>6
<1>4. Within(c)'
  BY <1>3 DEF Within
<1>5. OrdersWithin(c)'
  BY <1>1, ReachTyped, ReachStep, OrdersStep
<1> QED BY <1>4, <1>5, SentStep DEF BoundInv, SentRequests

\* The cart stays, or is emptied, and no handler moves.
LEMMA BoundStays ==
  ASSUME CartInv, BoundInv, UNCHANGED req, cart' = cart \/ cart' = EmptyCart,
         orders \in Orders, orders' \in Orders, Placing
  PROVE  BoundInv'
<1>1. PICK c \in InitialCarts : Within(c) /\ OrdersWithin(c)
  BY DEF BoundInv
<1>2. ASSUME NEW p \in Products PROVE cart'[p] <= Reach(c, p)
  <2>1. Reach(c, p) \in Nat /\ cart[p] <= Reach(c, p)
    BY <1>1, ReachTyped DEF Within
  <2>2. CASE cart' = cart
    BY <2>1, <2>2
  <2>3. CASE cart' = EmptyCart
    BY <2>1, <2>3 DEF EmptyCart
  <2> QED BY <2>2, <2>3
<1>3. \A p \in Products : Reach(c, p)' = Reach(c, p)
  BY DEF Reach, AppliedUnits, Applied, Askers
<1>4. Within(c)'
  BY <1>1, <1>2, <1>3 DEF Within
<1>5. OrdersWithin(c)'
  <2>1. \A p \in Products : /\ Reach(c, p) \in Nat /\ Reach(c, p)' \in Nat
                            /\ Reach(c, p) <= Reach(c, p)'
    BY <1>3, ReachTyped
  <2> QED BY <1>1, <2>1, OrdersStep
<1> QED BY <1>4, <1>5 DEF BoundInv, SentRequests

\* Every step of the shop is of the one kind or the other.
SomeoneMoves == \E r \in Requests, q \in Requested : MovesOn(r, q)
NobodyMoves == UNCHANGED req /\ (cart' = cart \/ cart' = EmptyCart)

\* An answer: the copy is gone.
LEMMA ReplyMoves ==
  ASSUME CartInv, NEW r \in Requests, NEW s \in Nat, Reply(r, s),
         req[r].pc \notin {"unsent", "answered"},
         cart' = cart \/ cart' = EmptyCart \/ (req[r].pc = "write" /\ cart' = Changed(r))
  PROVE  SomeoneMoves
<1> DEFINE q == [req[r] EXCEPT !.pc = "answered", !.status = s, !.copy = EmptyCart, !.seen = 0]
<1>1. req[r] \in Requested
  BY DEF CartInv
<1>2. /\ q \in Requested /\ q.pc = "answered" /\ q.op = req[r].op /\ q.product = req[r].product
      /\ q.quantity = req[r].quantity
  BY <1>1, EmptyCartTyped DEF Requested
<1>3. req' = [req EXCEPT ![r] = q]
  BY <1>1 DEF Reply, CartInv, Requested
<1> HIDE DEF q
<1>4. Follows(req[r], q) /\ ~HasCopy(q)
  BY <1>2 DEF Follows, HasCopy
<1>5. MovesOn(r, q)
  BY <1>2, <1>3, <1>4 DEF MovesOn
<1> QED BY <1>2, <1>5 DEF SomeoneMoves

\* The handler goes on to another call with the copy it has or has just read.
LEMMA GoesOn ==
  ASSUME CartInv, NEW r \in Requests, NEW q \in Requested, req' = [req EXCEPT ![r] = q],
         UNCHANGED cart, req[r].pc \notin {"unsent", "answered"}, q.pc # "unsent",
         q.op = req[r].op, q.product = req[r].product, q.quantity = req[r].quantity,
         HasCopy(q) => q.copy = cart \/ (HasCopy(req[r]) /\ q.copy = req[r].copy)
  PROVE  SomeoneMoves
<1>1. MovesOn(r, q)
  BY DEF MovesOn, Follows
<1> QED BY <1>1 DEF SomeoneMoves

LEMMA CartMoves ==
  ASSUME CartInv, CartNext
  PROVE  SomeoneMoves \/ NobodyMoves
<1>1. \A n \in {200, 204, 404, 502, 503} : n \in Nat
  OBVIOUS
<1>2. ASSUME NEW r \in Requests, FetchProduct(r) PROVE SomeoneMoves
  <2>1. req[r].pc = "fetch" /\ UNCHANGED cart
    BY <1>2 DEF FetchProduct
  <2>2. CASE \E n \in {404, 502} : Reply(r, n)
    BY <1>1, <2>1, <2>2, ReplyMoves
  <2>3. CASE Goto(r, IF req[r].op = "add" THEN "read" ELSE "write")
    <3> DEFINE q == [req[r] EXCEPT !.pc = IF req[r].op = "add" THEN "read" ELSE "write"]
    <3>1. /\ q \in Requested /\ q.pc = (IF req[r].op = "add" THEN "read" ELSE "write")
          /\ q.op = req[r].op /\ q.product = req[r].product /\ q.quantity = req[r].quantity
          /\ q.copy = req[r].copy
      BY DEF CartInv, Requested
    <3>2. req' = [req EXCEPT ![r] = q]
      BY <2>3 DEF Goto, CartInv, Requested
    <3> HIDE DEF q
    <3>3. q.pc # "unsent" /\ (HasCopy(q) => HasCopy(req[r]))
      BY <2>1, <3>1 DEF HasCopy
    <3> QED BY <2>1, <3>1, <3>2, <3>3, GoesOn
  <2> QED BY <1>2, <2>2, <2>3 DEF FetchProduct
<1>3. ASSUME NEW r \in Requests, ReadCart(r) PROVE SomeoneMoves
  <2> DEFINE q == [req[r] EXCEPT !.pc = NextCall(r), !.copy = cart, !.seen = version]
  <2>1. NextCall(r) \in {"fetch", "write"}
    BY DEF NextCall
  <2>2. /\ q \in Requested /\ q.pc = NextCall(r) /\ q.copy = cart
        /\ q.op = req[r].op /\ q.product = req[r].product /\ q.quantity = req[r].quantity
    BY <2>1 DEF CartInv, Requested
  <2>3. req' = [req EXCEPT ![r] = q] /\ UNCHANGED cart /\ req[r].pc = "read"
    BY <1>3 DEF ReadCart, CartInv, Requested
  <2> HIDE DEF q
  <2>4. q.pc # "unsent"
    BY <2>1, <2>2
  <2> QED BY <2>2, <2>3, <2>4, GoesOn
<1>4. ASSUME NEW r \in Requests, WriteCart(r) PROVE SomeoneMoves
  BY <1>1, <1>4, ReplyMoves DEF WriteCart, Store
<1>5. ASSUME NEW r \in Requests, ClearCart(r) PROVE SomeoneMoves
  BY <1>1, <1>5, ReplyMoves DEF ClearCart, Store
<1>6. ASSUME NEW r \in Requests, RedisUnavailable(r) PROVE SomeoneMoves
  <2>1. /\ Reply(r, 503) /\ req[r].pc \notin {"unsent", "answered"} /\ 503 \in Nat
        /\ cart' = cart \/ cart' = EmptyCart \/ (req[r].pc = "write" /\ cart' = Changed(r))
    BY <1>6 DEF RedisUnavailable, Store
  <2> QED BY <2>1, ReplyMoves
<1>7. ASSUME NEW r \in Requests, HandlerDies(r) PROVE SomeoneMoves
  BY <1>1, <1>7, ReplyMoves DEF HandlerDies
<1>8. ASSUME Expire \/ \E p \in Products : Delist(p) PROVE NobodyMoves
  BY <1>8 DEF Expire, Delist, Store, NobodyMoves
<1> QED BY <1>2, <1>3, <1>4, <1>5, <1>6, <1>7, <1>8 DEF CartNext, CartStep

LEMMA PlacementMoves ==
  ASSUME CartInv, PlacementNext
  PROVE  SomeoneMoves \/ NobodyMoves
<1>1. \A n \in {201, 400, 500, 502} : n \in Nat
  OBVIOUS
<1>2. ASSUME NEW r \in Requests, GetCart(r) PROVE SomeoneMoves
  <2>1. req[r].pc = "getCart" /\ UNCHANGED cart
    BY <1>2 DEF GetCart
  <2>2. CASE \E n \in {400, 502} : Reply(r, n)
    BY <1>1, <2>1, <2>2, ReplyMoves
  <2>3. CASE req' = [req EXCEPT ![r].pc = "insert", ![r].copy = cart, ![r].seen = version]
    <3> DEFINE q == [req[r] EXCEPT !.pc = "insert", !.copy = cart, !.seen = version]
    <3>1. /\ q \in Requested /\ q.pc = "insert" /\ q.copy = cart
          /\ q.op = req[r].op /\ q.product = req[r].product /\ q.quantity = req[r].quantity
      BY DEF CartInv, Requested
    <3>2. req' = [req EXCEPT ![r] = q]
      BY <2>3 DEF CartInv, Requested
    <3> HIDE DEF q
    <3> QED BY <2>1, <3>1, <3>2, GoesOn
  <2> QED BY <1>2, <2>2, <2>3 DEF GetCart
<1>3. ASSUME NEW r \in Requests, InsertOrder(r) PROVE SomeoneMoves
  <2> DEFINE q == [req[r] EXCEPT !.pc = "clearCart"]
  <2>1. /\ q \in Requested /\ q.pc = "clearCart" /\ q.copy = req[r].copy
        /\ q.op = req[r].op /\ q.product = req[r].product /\ q.quantity = req[r].quantity
    BY DEF CartInv, Requested
  <2>2. req' = [req EXCEPT ![r] = q] /\ UNCHANGED cart /\ req[r].pc = "insert"
    BY <1>3 DEF InsertOrder, Goto, CartInv, Requested
  <2>3. HasCopy(req[r])
    BY <2>2 DEF HasCopy
  <2> HIDE DEF q
  <2> QED BY <2>1, <2>2, <2>3, GoesOn
<1>4. ASSUME NEW r \in Requests, InsertFails(r) PROVE SomeoneMoves
  BY <1>1, <1>4, ReplyMoves DEF InsertFails
<1>5. ASSUME NEW r \in Requests, DeleteCart(r) \/ DeleteCartFails(r) PROVE SomeoneMoves
  <2>1. /\ Reply(r, 201) /\ req[r].pc \notin {"unsent", "answered"}
        /\ cart' = cart \/ cart' = EmptyCart
    BY <1>5 DEF DeleteCart, DeleteCartFails, Store
  <2> QED BY <1>1, <2>1, ReplyMoves
<1>6. ASSUME NEW i \in DOMAIN orders, OrderMoves(i) PROVE NobodyMoves
  BY <1>6 DEF OrderMoves, cartVars, NobodyMoves
<1> QED BY <1>2, <1>3, <1>4, <1>5, <1>6 DEF PlacementNext, PlacementStep

\* A button sends a request; its handler has no copy yet.
LEMMA SendMoves ==
  ASSUME CartInv, NEW c \in Controls, NEW op \in Ops, NEW p \in Products \cup {NoProduct},
         NEW n \in Quantities \cup {0}, Send(c, op, p, n)
  PROVE  SomeoneMoves
<1>1. PICK r \in Requests : Receive(r, op, p, n) /\ UNCHANGED cart
  BY DEF Send
<1> DEFINE pc == IF ValidBody(op, n) THEN FirstCall(op) ELSE "answered"
           status == IF ValidBody(op, n) THEN 0 ELSE 400
           q == [NoRequest EXCEPT !.op = op, !.product = p, !.quantity = n, !.pc = pc,
                                  !.status = status]
<1>2. pc \in {"fetch", "read", "delete", "getCart", "answered"} /\ (pc = "fetch" => op = "add")
  BY DEF FirstCall, Ops, CartOps
<1>3. q \in Requested /\ q.pc = pc /\ q.op = op
  <2>1. status \in Nat
    OBVIOUS
  <2> HIDE DEF pc, status
  <2> QED BY <1>2, <2>1, EmptyCartTyped DEF NoRequest, Requested
<1>4. req' = [req EXCEPT ![r] = q] /\ req[r].pc = "unsent"
  BY <1>1 DEF Receive, NextToSend
<1> HIDE DEF q
<1>5. ~HasCopy(q) /\ q.pc # "unsent"
  BY <1>2, <1>3 DEF HasCopy
<1>6. MovesOn(r, q)
  BY <1>1, <1>4, <1>5 DEF MovesOn, Follows
<1> QED BY <1>3, <1>6 DEF SomeoneMoves

LEMMA StorefrontMoves ==
  ASSUME CartInv, StorefrontNext
  PROVE  SomeoneMoves \/ NobodyMoves
<1>1. ASSUME NEW c \in Controls,
             \/ \E n \in Quantities : AddToCart(c, n) \/ UpdateQuantity(c, n)
             \/ RemoveLine(c) \/ ClearAll(c) \/ PlaceOrder(c)
      PROVE  SomeoneMoves
  <2>1. ProductOf[c] \in Products
    BY StorefrontAssumption
  <2>2. PICK op \in Ops, p \in Products \cup {NoProduct}, n \in Quantities \cup {0} :
          Send(c, op, p, n)
    BY <1>1, <2>1 DEF AddToCart, UpdateQuantity, RemoveLine, ClearAll, PlaceOrder, Ops, CartOps
  <2> QED BY <2>2, SendMoves
<1>2. ASSUME NEW c \in Controls, Answer(c) \/ LoseAnswer(c) \/ Remount(c) PROVE NobodyMoves
  BY <1>2 DEF Answer, LoseAnswer, Remount, placementVars, cartVars, NobodyMoves
<1>3. ASSUME \/ \E i \in DOMAIN orders : OpenPage(i)
             \/ \E k \in Polls : PollTick(k) \/ ServePoll(k) \/ PollAnswered(k)
             \/ LeavePage
      PROVE  NobodyMoves
  BY <1>3 DEF OpenPage, PollTick, ServePoll, PollAnswered, LeavePage, placementVars, cartVars,
              NobodyMoves
<1> QED BY <1>1, <1>2, <1>3 DEF StorefrontNext

\* Only POST /orders and the saga touch the orders.
LEMMA PlacingStep ==
  ASSUME ShopInv, Next
  PROVE  Placing
<1>1. orders \in Orders /\ DOMAIN orders = 1..Len(orders)
  BY DEF ShopInv, RestOK, Orders
<1>2. CASE UNCHANGED orders
  BY <1>2 DEF Placing, SameLines
<1>3. ASSUME NEW i \in DOMAIN orders, OrderMoves(i) PROVE SameLines
  <2>1. PICK s : orders' = [orders EXCEPT ![i].status = s]
    BY <1>3 DEF OrderMoves
  <2>2. \A j \in DOMAIN orders : orders[j] \in OrderRows
    BY <1>1 DEF Orders
  <2>3. \A j \in DOMAIN orders : orders'[j].lines = orders[j].lines
    BY <2>1, <2>2 DEF OrderRows
  <2>4. Len(orders') = Len(orders)
    BY <1>1, <2>1 DEF Orders
  <2> QED BY <2>3, <2>4 DEF SameLines
<1>4. CASE PlacementNext
  <2>1. ASSUME NEW r \in Requests, PlacementStep(r) \/ InsertFails(r) \/ DeleteCartFails(r)
        PROVE  UNCHANGED orders \/ (req[r].pc = "insert" /\ Insert(r))
    BY <2>1 DEF PlacementStep, GetCart, InsertOrder, DeleteCart, InsertFails, DeleteCartFails
  <2> QED BY <1>2, <1>3, <1>4, <2>1 DEF PlacementNext, Placing
<1>5. StorefrontNext => UNCHANGED orders
  BY DEF StorefrontNext, AddToCart, UpdateQuantity, RemoveLine, ClearAll, PlaceOrder, Send, Answer,
         LoseAnswer, Remount, OpenPage, PollTick, ServePoll, PollAnswered, LeavePage, placementVars
<1>6. ConsoleNext => UNCHANGED orders
  BY DEF ConsoleNext, CountOrders, SelectOrders, LoadFails, placementVars
<1> QED BY <1>2, <1>4, <1>5, <1>6 DEF Next

LEMMA BoundKept ==
  ASSUME ShopInv, BoundInv, Next
  PROVE  BoundInv'
<1>1. CartInv /\ CartInv' /\ orders \in Orders /\ orders' \in Orders /\ Placing
  BY ShopStep, PlacingStep DEF ShopInv, RestOK
<1>2. SomeoneMoves \/ NobodyMoves
  <2>1. CASE ConsoleNext
    BY <2>1 DEF ConsoleNext, CountOrders, SelectOrders, LoadFails, placementVars, cartVars,
                NobodyMoves
  <2> QED BY <1>1, <2>1, CartMoves, PlacementMoves, StorefrontMoves DEF Next
<1>3. CASE SomeoneMoves
  BY <1>1, <1>3, BoundStep DEF SomeoneMoves
<1>4. CASE NobodyMoves
  BY <1>1, <1>4, BoundStays DEF NobodyMoves
<1> QED BY <1>2, <1>3, <1>4

LEMMA BoundInitially == Init => BoundInv
<1> SUFFICES ASSUME Init PROVE BoundInv
  OBVIOUS
<1>1. ShopInv
  BY ShopInitially
<1>2. \A r \in Requests : req[r].pc = "unsent" /\ req[r].op = "none"
  BY DEF Init, CartInit, NoRequest
<1>3. cart \in InitialCarts
  BY DEF Init, CartInit
<1>4. SentRequests = {} /\ \A p : AppliedUnits(p) = [r \in {} |-> req[r].quantity]
  BY <1>2 DEF SentRequests, AppliedUnits, Applied, Askers
<1>5. \A p \in Products : Reach(cart, p) = cart[p] /\ cart[p] \in Nat
  <2>1. \A p \in Products : SumOf(AppliedUnits(p)) = 0
    BY <1>4, SumEmpty
  <2>2. \A p \in Products : cart[p] \in Nat
    BY <1>1 DEF ShopInv, CartInv
  <2> QED BY <2>1, <2>2 DEF Reach
<1>6. Within(cart)
  BY <1>2, <1>5 DEF Within, HasCopy
<1>7. IsFiniteSet(SentRequests)
  BY <1>4, FS_EmptySet
<1>8. OrdersWithin(cart)
  BY DEF Init, OrdersWithin
<1> QED BY <1>2, <1>3, <1>6, <1>7, <1>8 DEF BoundInv

LEMMA BoundImplies ==
  ASSUME ShopInv, BoundInv
  PROVE  NoInventedUnits
<1>1. PICK c \in InitialCarts : Within(c) /\ OrdersWithin(c)
  BY DEF BoundInv
<1>2. ASSUME NEW p \in Products, NEW n \in Nat, n <= Reach(c, p) PROVE n <= c[p] + AskedFor(p)
  <2>1. PICK asked : asked = [r \in Askers(p) |-> req[r].quantity]
    OBVIOUS
  <2>2. Summable(AppliedUnits(p)) /\ Summable(asked)
    BY <2>1, AskedSummable DEF ShopInv
  <2>3. /\ DOMAIN AppliedUnits(p) = Applied(p) /\ DOMAIN asked = Askers(p)
        /\ Applied(p) \subseteq Askers(p)
        /\ \A r \in Applied(p) : AppliedUnits(p)[r] = asked[r]
    BY <2>1 DEF AppliedUnits, Applied
  <2>4. \A r \in Applied(p) : AppliedUnits(p)[r] \in Nat
    BY <2>2, <2>3 DEF Summable
  <2>5. SumOf(AppliedUnits(p)) <= SumOf(asked)
    BY <2>2, <2>3, <2>4, SumMonotone
  <2>6. SumOf(AppliedUnits(p)) \in Nat /\ SumOf(asked) \in Nat
    BY <2>2, SumType
  <2>7. c[p] \in Nat
    BY CartAssumption
  <2>8. n <= c[p] + SumOf(AppliedUnits(p))
    BY <1>2 DEF Reach
  <2>9. AskedFor(p) = SumOf(asked)
    BY <2>1 DEF AskedFor
  <2> QED BY <2>5, <2>6, <2>7, <2>8, <2>9
<1>3. ASSUME NEW p \in Products PROVE cart[p] <= c[p] + AskedFor(p)
  <2>1. cart[p] \in Nat /\ cart[p] <= Reach(c, p)
    BY <1>1 DEF Within, ShopInv, CartInv
  <2> QED BY <1>2, <2>1
<1>4. ASSUME NEW p \in Products, NEW i \in DOMAIN orders
      PROVE  orders[i].lines[p] <= c[p] + AskedFor(p)
  <2>1. orders[i] \in OrderRows
    BY DEF ShopInv, RestOK, Orders
  <2>2. orders[i].lines[p] \in Nat /\ orders[i].lines[p] <= Reach(c, p)
    BY <1>1, <2>1 DEF OrdersWithin, OrderRows
  <2> QED BY <1>2, <2>2
<1> QED BY <1>1, <1>3, <1>4 DEF NoInventedUnits

-----------------------------------------------------------------------------
(* The dashboard's numbers *)

\* The total was counted first, and orders are only ever added.
DashboardInv ==
  /\ dashboard.pc = "counted" => dashboard.total <= Len(orders)
  /\ BreakdownCoversTotal

\* The page has all orders, or as many as a page holds.
LEMMA PageSize ==
  ASSUME ShopInv
  PROVE  /\ IsFiniteSet(NewestOrders)
         /\ Len(orders) \in Nat
         /\ Cardinality(NewestOrders) >= Len(orders) \/ Cardinality(NewestOrders) = MaxAdminLimit
         /\ \A i \in NewestOrders : orders[i].status \in Statuses
<1>1. orders \in Orders
  BY DEF ShopInv, RestOK
<1>2. /\ Len(orders) \in Nat /\ MaxAdminLimit \in Nat \ {0} /\ DOMAIN orders = 1..Len(orders)
      /\ \A i \in 1..Len(orders) : orders[i] \in OrderRows
  BY <1>1, ConsoleAssumption DEF Orders
<1>3. IsFiniteSet(NewestOrders)
  <2>1. NewestOrders \subseteq 1..Len(orders)
    BY <1>2 DEF NewestOrders
  <2>2. IsFiniteSet(1..Len(orders))
    BY <1>2, FS_Interval
  <2> QED BY <2>1, <2>2, FS_Subset
<1>4. CASE Len(orders) <= MaxAdminLimit
  <2>1. NewestOrders = 1..Len(orders)
    BY <1>2, <1>4 DEF NewestOrders
  <2>2. Cardinality(NewestOrders) = Len(orders)
    BY <1>2, <2>1, FS_Interval
  <2> QED BY <1>2, <1>3, <2>1, <2>2 DEF OrderRows
<1>5. CASE Len(orders) > MaxAdminLimit
  <2>1. PICK first : first = Len(orders) - MaxAdminLimit + 1
    OBVIOUS
  <2>2. first \in Nat /\ first >= 1
    BY <1>2, <1>5, <2>1
  <2>3. NewestOrders = first..Len(orders)
    BY <1>2, <2>1, <2>2 DEF NewestOrders
  <2>4. Cardinality(first..Len(orders)) = Len(orders) - first + 1
    BY <1>2, <1>5, <2>1, <2>2, FS_Interval
  <2>5. Cardinality(NewestOrders) = MaxAdminLimit
    BY <1>2, <2>1, <2>3, <2>4
  <2>6. \A i \in NewestOrders : orders[i] \in OrderRows
    BY <1>2, <2>2, <2>3
  <2> QED BY <1>2, <1>3, <2>5, <2>6 DEF OrderRows
<1> QED BY <1>2, <1>4, <1>5

\* The tally counts every order of the page once.
LEMMA TallyCounts ==
  ASSUME NEW S, IsFiniteSet(S), NEW status, \A i \in S : status[i] \in Statuses
  PROVE  SumOf([s \in Statuses |-> Cardinality({i \in S : status[i] = s})]) = Cardinality(S)
<1> DEFINE Of(s) == {i \in S : status[i] = s}
           f1 == [s \in {"pending"} |-> Cardinality(Of(s))]
           f2 == [s \in {"pending", "inventory_reserved"} |-> Cardinality(Of(s))]
           f3 == [s \in {"pending", "inventory_reserved", "confirmed"} |-> Cardinality(Of(s))]
           f4 == [s \in Statuses |-> Cardinality(Of(s))]
<1>1. \A s : IsFiniteSet(Of(s)) /\ Cardinality(Of(s)) \in Nat
  BY FS_Subset, FS_CardinalityType
<1>2. S = ((Of("pending") \cup Of("inventory_reserved")) \cup Of("confirmed")) \cup Of("cancelled")
  BY DEF Statuses
<1>3. ASSUME NEW A, NEW B, IsFiniteSet(A), IsFiniteSet(B), A \cap B = {}
      PROVE  IsFiniteSet(A \cup B) /\ Cardinality(A \cup B) = Cardinality(A) + Cardinality(B)
  <2>1. Cardinality(A) \in Nat /\ Cardinality(B) \in Nat /\ Cardinality(A \cap B) = 0
    BY <1>3, FS_CardinalityType, FS_EmptySet
  <2>2. /\ IsFiniteSet(A \cup B)
        /\ Cardinality(A \cup B) = Cardinality(A) + Cardinality(B) - Cardinality(A \cap B)
    BY <1>3, FS_Union
  <2> QED BY <2>1, <2>2
<1>4. PICK a, b, c, d : /\ a = Of("pending") /\ b = Of("inventory_reserved")
                        /\ c = Of("confirmed") /\ d = Of("cancelled")
  OBVIOUS
<1>5. a \cap b = {} /\ (a \cup b) \cap c = {} /\ ((a \cup b) \cup c) \cap d = {}
  BY <1>4
<1>6. IsFiniteSet(a) /\ IsFiniteSet(b) /\ IsFiniteSet(c) /\ IsFiniteSet(d)
  BY <1>1, <1>4
<1>7. IsFiniteSet(a \cup b) /\ Cardinality(a \cup b) = Cardinality(a) + Cardinality(b)
  BY <1>3, <1>5, <1>6
<1>8. /\ IsFiniteSet((a \cup b) \cup c)
      /\ Cardinality((a \cup b) \cup c) = Cardinality(a \cup b) + Cardinality(c)
  BY <1>3, <1>5, <1>6, <1>7
<1>9. Cardinality(((a \cup b) \cup c) \cup d) = Cardinality((a \cup b) \cup c) + Cardinality(d)
  BY <1>3, <1>5, <1>6, <1>8
<1>10. Cardinality(S) = Cardinality(a) + Cardinality(b) + Cardinality(c) + Cardinality(d)
  BY <1>2, <1>4, <1>7, <1>8, <1>9
<1> DEFINE none == [s \in {} |-> Cardinality(Of(s))]
<1>11. Summable(none) /\ SumOf(none) = 0
  BY SumEmpty, FS_EmptySet DEF Summable
<1>12. Summable(f1) /\ SumOf(f1) = SumOf(none) + Cardinality(Of("pending"))
  <2>1. /\ "pending" \notin DOMAIN none /\ DOMAIN f1 = DOMAIN none \cup {"pending"}
        /\ f1["pending"] = Cardinality(Of("pending"))
        /\ \A s \in DOMAIN none : f1[s] = none[s]
    OBVIOUS
  <2> HIDE DEF none, f1, Of
  <2> QED BY <1>1, <1>11, <2>1, SumAdd
<1>13. Summable(f2) /\ SumOf(f2) = SumOf(f1) + Cardinality(Of("inventory_reserved"))
  <2>1. /\ "inventory_reserved" \notin DOMAIN f1
        /\ DOMAIN f2 = DOMAIN f1 \cup {"inventory_reserved"}
        /\ f2["inventory_reserved"] = Cardinality(Of("inventory_reserved"))
        /\ \A s \in DOMAIN f1 : f2[s] = f1[s]
    OBVIOUS
  <2> HIDE DEF f1, f2, Of
  <2> QED BY <1>1, <1>12, <2>1, SumAdd
<1>14. Summable(f3) /\ SumOf(f3) = SumOf(f2) + Cardinality(Of("confirmed"))
  <2>1. /\ "confirmed" \notin DOMAIN f2 /\ DOMAIN f3 = DOMAIN f2 \cup {"confirmed"}
        /\ f3["confirmed"] = Cardinality(Of("confirmed"))
        /\ \A s \in DOMAIN f2 : f3[s] = f2[s]
    OBVIOUS
  <2> HIDE DEF f2, f3, Of
  <2> QED BY <1>1, <1>13, <2>1, SumAdd
<1>15. SumOf(f4) = SumOf(f3) + Cardinality(Of("cancelled"))
  <2>1. /\ "cancelled" \notin DOMAIN f3 /\ DOMAIN f4 = DOMAIN f3 \cup {"cancelled"}
        /\ f4["cancelled"] = Cardinality(Of("cancelled"))
        /\ \A s \in DOMAIN f3 : f4[s] = f3[s]
    BY DEF Statuses
  <2> HIDE DEF f3, f4, Of
  <2> QED BY <1>1, <1>14, <2>1, SumAdd
<1> HIDE DEF none, f1, f2, f3, Of
<1>16. \A s : Cardinality(Of(s)) \in Nat
  BY <1>1
<1>17. SumOf(f4) = Cardinality(S)
  BY <1>4, <1>10, <1>11, <1>12, <1>13, <1>14, <1>15, <1>16
<1> QED BY <1>17 DEF Of

\* No order is ever taken away.
LEMMA OrdersGrow ==
  ASSUME ShopInv, Next
  PROVE  Len(orders') >= Len(orders) /\ Len(orders) \in Nat
<1>1. orders \in Orders /\ Len(orders) \in Nat
  BY DEF ShopInv, RestOK, Orders
<1>2. ASSUME NEW r \in Requests, Insert(r) PROVE Len(orders') = Len(orders) + 1
  BY <1>1, <1>2 DEF Insert, Orders
<1> QED BY <1>1, <1>2, PlacingStep DEF Placing, SameLines

LEMMA DashboardStep ==
  ASSUME ShopInv, DashboardInv, Next
  PROVE  DashboardInv'
<1>1. /\ dashboard \in [pc : {"blank", "counted", "shown"}, total : Nat, tally : [Statuses -> Nat]]
      /\ dashboard.total \in Nat
      /\ Len(orders) \in Nat /\ Len(orders') \in Nat /\ Len(orders) <= Len(orders')
  <2>1. Len(orders') \in Nat
    BY ShopStep DEF ShopInv, RestOK, Orders
  <2> QED BY <2>1, OrdersGrow DEF ShopInv, RestOK
<1>2. CASE UNCHANGED dashboard
  BY <1>1, <1>2 DEF DashboardInv, BreakdownCoversTotal, Tallied
<1>3. CASE CountOrders
  <2>1. dashboard'.pc = "counted" /\ dashboard'.total = Len(orders) /\ UNCHANGED orders
    BY <1>3 DEF CountOrders, BlankDashboard, placementVars
  <2> QED BY <1>1, <2>1 DEF DashboardInv, BreakdownCoversTotal
<1>4. CASE SelectOrders
  <2>1. /\ dashboard'.pc = "shown" /\ dashboard'.total = dashboard.total
        /\ dashboard'.tally = TallyOrders /\ dashboard.pc = "counted"
    BY <1>1, <1>4 DEF SelectOrders
  <2>2. SumOf(TallyOrders) = Cardinality(NewestOrders)
    <3>1. PICK status : status = [i \in NewestOrders |-> orders[i].status]
      OBVIOUS
    <3>2. \A i \in NewestOrders : status[i] = orders[i].status /\ status[i] \in Statuses
      BY <3>1, PageSize
    <3>3. \A s : {i \in NewestOrders : status[i] = s} = {i \in NewestOrders : orders[i].status = s}
      BY <3>2
    <3>4. SumOf([s \in Statuses |-> Cardinality({i \in NewestOrders : status[i] = s})])
            = Cardinality(NewestOrders)
      BY <3>2, PageSize, TallyCounts
    <3> QED BY <3>3, <3>4 DEF TallyOrders
  <2>3. Tallied' = Cardinality(NewestOrders)
    BY <2>1, <2>2 DEF Tallied
  <2>4. Cardinality(NewestOrders) \in Nat
    BY PageSize, FS_CardinalityType
  <2>5. \/ Cardinality(NewestOrders) >= Len(orders)
        \/ Cardinality(NewestOrders) = MaxAdminLimit
    BY PageSize
  <2>6. dashboard.total <= Len(orders)
    BY <2>1 DEF DashboardInv
  <2> QED BY <1>1, <2>1, <2>3, <2>4, <2>5, <2>6 DEF DashboardInv, BreakdownCoversTotal
<1>5. CASE LoadFails
  BY <1>5 DEF LoadFails, BlankDashboard, DashboardInv, BreakdownCoversTotal
<1> QED BY <1>2, <1>3, <1>4, <1>5 DEF Next, ConsoleNext

-----------------------------------------------------------------------------
\* The inductive invariant of the bound: the cart, every copy a handler goes by and every
\* order hold no more than the cart of the start and what the answered requests asked for.
THEOREM BoundInvariant == Spec => [](ShopInv /\ BoundInv)
<1>1. Init => ShopInv /\ BoundInv
  BY ShopInitially, BoundInitially
<1>2. ShopInv /\ BoundInv /\ [Next]_shopVars => (ShopInv /\ BoundInv)'
  <2> SUFFICES ASSUME ShopInv, BoundInv, [Next]_shopVars PROVE BoundInv'
    BY ShopStep
  <2>1. CASE UNCHANGED shopVars
    <3>1. Placing
      BY <2>1 DEF Placing, SameLines, shopVars, placementVars
    <3> QED BY <2>1, <3>1, BoundStays DEF shopVars, placementVars, cartVars, ShopInv, RestOK
  <2> QED BY <2>1, BoundKept
<1> QED BY <1>1, <1>2, PTL DEF Spec

\* However add, update, checkout and their failures interleave (addItem and updateItem in
\* cartService.ts, POST /orders in orders.go), no line of the cart and no line of any one
\* order holds more than was ever asked for.
THEOREM NothingInvented == Spec => []NoInventedUnits
  BY BoundInvariant, BoundImplies, PTL

\* The dashboard's tally by status, of a page selected after the orders were counted, covers
\* the total, or is of a full page (listAllOrders in orders.go).
THEOREM BreakdownCovers == Spec => []BreakdownCoversTotal
<1>1. Init => DashboardInv
  BY DEF Init, ConsoleInit, BlankDashboard, DashboardInv, BreakdownCoversTotal
<1>2. ShopInv /\ DashboardInv /\ [Next]_shopVars => DashboardInv'
  <2> SUFFICES ASSUME ShopInv, DashboardInv, [Next]_shopVars PROVE DashboardInv'
    OBVIOUS
  <2>1. CASE UNCHANGED shopVars
    BY <2>1 DEF shopVars, placementVars, DashboardInv, BreakdownCoversTotal, Tallied
  <2> QED BY <2>1, DashboardStep
<1>3. DashboardInv => BreakdownCoversTotal
  BY DEF DashboardInv
<1> QED BY <1>1, <1>2, <1>3, ShopInvariant, PTL DEF Spec
=============================================================================
