---------------------------- MODULE CartService ----------------------------
(***************************************************************************)
(* The cart service (services/cart), for one customer: carts of different  *)
(* customers are different Redis keys and never meet.  Every mutation      *)
(* reads the whole cart, changes its own copy and writes the whole cart    *)
(* back, with awaits in between, so the requests of a customer interleave. *)
(*                                                                         *)
(* No handler changes the price of a product, so a line is its quantity.   *)
(***************************************************************************)
EXTENDS Naturals, FiniteSets

CONSTANTS
  Products,     \* product ids
  NoProduct,    \* what a request for the whole cart names
  Requests,     \* the requests a behaviour may make, in the order they are sent
  Quantities,   \* the quantities a body may carry
  InitialCarts, \* what the customer may have in the cart at the start
  Uses,         \* what a behaviour consists of: the operations used, how many requests
                \* there are, the failures there may be, the products in the catalog
  MaxFailures   \* bound on the failures of a behaviour

VARIABLES
  cart,     \* the value of cart:<userId>: quantity by product, 0 for no line
  version,  \* history: how often the value was replaced
  listed,   \* the products of the catalog (external)
  req,      \* the handler of each request
  use,      \* the mix of this behaviour
  failures  \* failures so far

cartVars == <<cart, version, listed, req, use, failures>>

CartOps == {"add", "update", "remove", "clear"}
Ops == CartOps \cup {"order"}
FailureKinds ==
  {"read",     \* a read of the database or of the order page fails
   "redis",    \* a Redis command is refused or fails
   "catalog",  \* the catalog does not answer, or answers an error
   "crash",    \* the process handling a request dies
   "expire",   \* the cart's key reaches the end of its life
   "delist",   \* a product disappears from the catalog
   "insert",   \* the order service's transaction fails
   "clear",    \* the order service's DELETE /cart fails
   "lost"}     \* an answer never reaches the browser

ASSUME CartAssumption ==
  /\ NoProduct \notin Products
  /\ Requests \subseteq Nat
  /\ Quantities \subseteq Nat
  /\ InitialCarts \subseteq [Products -> Nat]
  /\ \A u \in Uses : u.failures \subseteq FailureKinds /\ u.listed \subseteq Products
  /\ MaxFailures \in Nat

EmptyCart == [p \in Products |-> 0]

NoRequest == [op |-> "none", product |-> NoProduct, quantity |-> 0,
              pc |-> "unsent", copy |-> EmptyCart, seen |-> 0, status |-> 0]

CartInit ==
  /\ cart \in InitialCarts
  /\ version = 0
  /\ use \in Uses
  /\ listed = use.listed
  /\ req = [r \in Requests |-> NoRequest]
  /\ failures = 0

\* One more failure of a kind this behaviour may have.
Fail(kind) ==
  /\ kind \in use.failures
  /\ failures < MaxFailures
  /\ failures' = failures + 1

Goto(r, pc) == req' = [req EXCEPT ![r].pc = pc]
\* The handler is done, and with it its copy.
Reply(r, status) ==
  req' = [req EXCEPT ![r].pc = "answered", ![r].status = status,
                     ![r].copy = EmptyCart, ![r].seen = 0]

-----------------------------------------------------------------------------
(* routes/cart.ts: the body is checked, then the first call of the handler *)

ValidBody(op, q) == op = "add" => q > 0

\* Mutant: DELETE /cart goes the way of DELETE /cart/items/:productId.
ClearAsRemove(op) == CASE op = "add" -> "fetch" [] op = "order" -> "getCart" [] OTHER -> "read"
FirstCall(op) ==
  CASE op = "add" -> "fetch" [] op = "clear" -> "delete" [] op = "order" -> "getCart"
    [] OTHER -> "read"

NextToSend(r) ==
  r <= use.requests /\ req[r].pc = "unsent" /\ \A s \in Requests : s < r => req[s].pc # "unsent"

Receive(r, op, p, q) ==
  /\ NextToSend(r)
  /\ op \in use.ops
  /\ req' = [req EXCEPT ![r] =
       [NoRequest EXCEPT !.op = op, !.product = p, !.quantity = q,
                         !.pc = IF ValidBody(op, q) THEN FirstCall(op) ELSE "answered",
                         !.status = IF ValidBody(op, q) THEN 0 ELSE 400]]

-----------------------------------------------------------------------------
(* catalogClient.ts *)

\* addItem fetches before it reads, updateItem after it read.
FetchProduct(r) ==
  /\ req[r].pc = "fetch"
  /\ \/ /\ req[r].product \in listed
        /\ Goto(r, IF req[r].op = "add" THEN "read" ELSE "write")
        /\ UNCHANGED failures
     \/ req[r].product \notin listed /\ Reply(r, 404) /\ UNCHANGED failures
     \/ Fail("catalog") /\ Reply(r, 502)
  /\ UNCHANGED <<cart, version, listed, use>>

-----------------------------------------------------------------------------
(* cartService.ts *)

\* A quantity for a product that is not in the cart yet is checked with the catalog.
NextCall(r) ==
  IF req[r].op = "update" /\ req[r].quantity > 0 /\ cart[req[r].product] = 0
  THEN "fetch" ELSE "write"

\* readCart
ReadCart(r) ==
  /\ req[r].pc = "read"
  /\ req' = [req EXCEPT ![r].pc = NextCall(r), ![r].copy = cart, ![r].seen = version]
  /\ UNCHANGED <<cart, version, listed, use, failures>>

\* Mutant: the quantities of the whole cart are lost.
NewLineOnly(r) == [EmptyCart EXCEPT ![req[r].product] = req[r].quantity]
\* Mutant: the body's quantity is applied to the copy twice.
AddedTwice(r) == [req[r].copy EXCEPT ![req[r].product] = @ + 2 * req[r].quantity]
\* The cart the handler makes of its copy: += for a POST, the quantity of a PUT (0
\* filters the line out), no line after a DELETE.
Changed(r) ==
  [req[r].copy EXCEPT ![req[r].product] =
     CASE req[r].op = "add" -> @ + req[r].quantity
       [] req[r].op = "update" -> req[r].quantity
       [] OTHER -> 0]

Store(c) == cart' = c /\ version' = version + 1

WriteCart(r) ==
  /\ req[r].pc = "write"
  /\ Store(Changed(r))
  /\ Reply(r, 200)
  /\ UNCHANGED <<listed, use, failures>>

ClearCart(r) ==
  /\ req[r].pc = "delete"
  /\ Store(EmptyCart)
  /\ Reply(r, 204)
  /\ UNCHANGED <<listed, use, failures>>

\* redisClient.ts: no connection, or the command failed, before or after its effect.
RedisUnavailable(r) ==
  /\ req[r].pc \in {"read", "write", "delete"}
  /\ Fail("redis")
  /\ \/ UNCHANGED <<cart, version>>
     \/ req[r].pc = "write" /\ Store(Changed(r))
     \/ req[r].pc = "delete" /\ Store(EmptyCart)
  /\ Reply(r, 503)
  /\ UNCHANGED <<listed, use>>

\* The process dies: the gateway answers 502 and nothing more is done.
HandlerDies(r) ==
  /\ req[r].pc \notin {"unsent", "answered"}
  /\ Fail("crash")
  /\ Reply(r, 502)
  /\ UNCHANGED <<cart, version, listed, use>>

\* The key's time to live, 7 days from the last write, ran out.
Expire ==
  /\ cart # EmptyCart
  /\ Fail("expire")
  /\ Store(EmptyCart)
  /\ UNCHANGED <<listed, req, use>>

\* An operator takes a product out of the catalog's database.
Delist(p) ==
  /\ p \in listed
  /\ Fail("delist")
  /\ listed' = listed \ {p}
  /\ UNCHANGED <<cart, version, req, use>>

CartStep(r) == FetchProduct(r) \/ ReadCart(r) \/ WriteCart(r) \/ ClearCart(r)

CartNext ==
  \/ \E r \in Requests : CartStep(r) \/ RedisUnavailable(r) \/ HandlerDies(r)
  \/ Expire
  \/ \E p \in Products : Delist(p)
=============================================================================
