-------------------------------- MODULE Shop --------------------------------
(***************************************************************************)
(* A customer's cart from the storefront to the order: the components on   *)
(* the pages, the cart service, POST /orders, and the dashboard that       *)
(* counts what was ordered.                                                *)
(***************************************************************************)
EXTENDS Storefront, Console

shopVars == <<placementVars, storefrontVars, dashboard>>

Init ==
  /\ CartInit
  /\ orders = <<>>
  /\ StorefrontInit
  /\ ConsoleInit

Next ==
  \/ CartNext /\ UNCHANGED <<orders, storefrontVars, dashboard>>
  \/ PlacementNext /\ UNCHANGED <<storefrontVars, dashboard>>
  \/ StorefrontNext /\ UNCHANGED dashboard
  \/ ConsoleNext /\ UNCHANGED storefrontVars

Spec == Init /\ [][Next]_shopVars

\* Handlers run, answers arrive and the interval of the order page fires.
FairSpec ==
  /\ Spec
  /\ \A r \in Requests :
       WF_shopVars((CartStep(r) /\ UNCHANGED <<orders, storefrontVars, dashboard>>)
                   \/ (PlacementStep(r) /\ UNCHANGED <<storefrontVars, dashboard>>))
  /\ \A c \in Controls : WF_shopVars(Answer(c) /\ UNCHANGED dashboard)
  /\ \A k \in Polls :
       WF_shopVars((PollTick(k) \/ ServePoll(k) \/ PollAnswered(k)) /\ UNCHANGED dashboard)

Requested == [op : Ops \cup {"none"}, product : Products \cup {NoProduct},
              quantity : Quantities \cup {0},
              pc : {"unsent", "fetch", "read", "write", "delete", "getCart", "insert",
                    "clearCart", "answered"},
              copy : [Products -> Nat], seen : Nat, status : Nat]

TypeOK ==
  /\ cart \in [Products -> Nat]
  /\ version \in Nat
  /\ listed \subseteq Products
  /\ req \in [Requests -> Requested]
  /\ \A r \in Requests : req[r].pc \in {"fetch", "read", "write"} => req[r].product \in Products
  /\ failures \in 0..MaxFailures
  /\ orders \in Seq([lines : [Products -> Nat], status : Statuses])
  /\ control \in [Controls -> [state : ControlStates, request : Requests \cup {0}]]
  /\ page \in [order : 0..Len(orders), shown : Statuses \cup {"none"}, polls : [Polls -> PollStates]]
  /\ page.order = 0 => page = NoPage
  /\ dashboard \in [pc : {"blank", "counted", "shown"}, total : Nat, tally : [Statuses -> Nat]]

-----------------------------------------------------------------------------
(* What the cart promises *)

\* A handler of POST /orders that inserted the order and has yet to delete the
\* cart, which is still the one it ordered: those units are taken.
Taking(r) == req[r].pc = "clearCart" /\ req[r].seen = version

UnitsLeft == IF \E r \in Requests : Taking(r) THEN EmptyCart ELSE cart
UnitsPlaced == [i \in DOMAIN orders |-> orders[i].lines]

Atomic == INSTANCE AtomicCart WITH units <- UnitsLeft, placed <- UnitsPlaced

\* The step ends a handler that acts on the cart it read, or on the whole cart.
Acts(r) ==
  req[r].pc \in {"write", "delete", "insert", "clearCart"} /\ req'[r].pc # req[r].pc

\* The three ways the promise is broken: the cart changed under the copy, another
\* order of the same cart is half done, or the delete after the order did not happen.
ActsOnOldCopy == \E r \in Requests :
  Acts(r) /\ req[r].pc # "delete" /\ req[r].seen # version
ActsBesideOrder == \E r, s \in Requests : Acts(r) /\ r # s /\ Taking(s)
KeepsOrderedCart == \E r \in Requests :
  /\ Acts(r) /\ req'[r].pc = "answered"
  /\ orders' # orders \/ Taking(r)
  /\ UNCHANGED cart

\* However requests interleave and fail, every step is one change of one product,
\* the emptying of the cart, or an order that takes all of it, except exactly when
\* a request acted on a copy that was no longer the cart, beside a half-done order,
\* or when the handler of a placed order ended without deleting the cart.
ImplementsAtomicCart ==
  /\ Atomic!AtomicCartInit
  /\ [][Atomic!AtomicCartNext \/ ActsOnOldCopy \/ ActsBesideOrder \/ KeepsOrderedCart
       ]_<<UnitsLeft, UnitsPlaced>>

\* A race or a retry may lose units or bring units back, but never makes up any: neither a
\* line of the cart nor a line of any one order holds more than the customer ever asked
\* for, by all requests together. Two orders of one cart may hold that much each, which is
\* the double order of ActsBesideOrder.
Askers(p) == {r \in Requests : req[r].op \in {"add", "update"} /\ req[r].product = p}
AskedFor(p) == SumOf([r \in Askers(p) |-> req[r].quantity])
NoInventedUnits ==
  \E c \in InitialCarts : \A p \in Products :
    /\ cart[p] <= c[p] + AskedFor(p)
    /\ \A i \in DOMAIN orders : orders[i].lines[p] <= c[p] + AskedFor(p)

\* Every press of a button ends: with the new state, an error, or the order's page.
PressIsAnswered == \A c \in Controls : control[c].state = "busy" ~> control[c].state # "busy"

\* The order page ends on the order's final status although its polls overlap and
\* their answers overtake each other.
PageSettles ==
  \A i \in Requests :
    (page.order = i /\ orders[i].status \notin ActiveStatuses)
      ~> [](page.order = i => page.shown = orders[i].status)

\* The tally by status accounts for every order of the total beside it, unless there
\* are more orders than the order service puts on a page.
BreakdownCoversTotal ==
  dashboard.pc = "shown" =>
    \/ Tallied >= dashboard.total
    \/ Tallied = MaxAdminLimit
=============================================================================
