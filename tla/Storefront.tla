----------------------------- MODULE Storefront -----------------------------
(***************************************************************************)
(* The storefront (frontend) of one signed-in customer: the buttons that   *)
(* change the cart or place the order, in one browser tab or several, each *)
(* a component with state of its own, and the order page, which polls.     *)
(* The Next.js route handlers between a component and the gateway only     *)
(* pass a call on and turn its failure into a status.                      *)
(***************************************************************************)
EXTENDS OrderPlacement

CONSTANTS
  Controls,  \* the components on the customer's pages
  KindOf,    \* [Controls -> ControlKinds]
  ProductOf, \* [Controls -> Products], for buttons and rows of a product
  Polls      \* how many polls of the order page may be under way

VARIABLES
  control, \* state of each component, and the request it waits for
  page     \* the order page: its order, the status it shows, its polls

storefrontVars == <<control, page>>

ControlKinds == {"addToCart", "cartRow", "clearCart", "placeOrder"}

ASSUME StorefrontAssumption ==
  /\ 0 \notin Requests
  /\ KindOf \in [Controls -> ControlKinds]
  /\ ProductOf \in [Controls -> Products]

\* A row is "stuck" after a success: nothing resets busy and router.refresh keeps
\* the state of the component.  What an enabled component says beside its button
\* (done, an error) is left out.
ControlStates == {"enabled", "busy", "stuck", "left"}
PollStates == {"free", "sent", "failed"} \cup Statuses

NoPage == [order |-> 0, shown |-> "none", polls |-> [k \in Polls |-> "free"]]

StorefrontInit ==
  /\ control = [c \in Controls |-> [state |-> "enabled", request |-> 0]]
  /\ page = NoPage

-----------------------------------------------------------------------------
(* AddToCartButton, CartRow, ClearCartButton, PlaceOrderButton *)

Send(c, op, p, q) ==
  /\ control[c].state = "enabled"
  /\ \E r \in Requests :
       /\ Receive(r, op, p, q)
       /\ control' = [control EXCEPT ![c] = [state |-> "busy", request |-> r]]
  /\ UNCHANGED <<cart, version, listed, use, failures, orders, page>>

\* The product's page was rendered from the catalog.
AddToCart(c, q) ==
  /\ KindOf[c] = "addToCart"
  /\ ProductOf[c] \in use.listed
  /\ Send(c, "add", ProductOf[c], q)

UpdateQuantity(c, q) == KindOf[c] = "cartRow" /\ q > 0 /\ Send(c, "update", ProductOf[c], q)
RemoveLine(c) == KindOf[c] = "cartRow" /\ Send(c, "remove", ProductOf[c], 0)
ClearAll(c) == KindOf[c] = "clearCart" /\ Send(c, "clear", NoProduct, 0)
PlaceOrder(c) == KindOf[c] = "placeOrder" /\ Send(c, "order", NoProduct, 0)

Ok(status) == status \in 200..299

\* Mutant: the button of a failed order stays disabled.
NeverReset(kind, ok) ==
  CASE kind \in {"clearCart", "addToCart"} -> "enabled"
    [] kind = "placeOrder" -> IF ok THEN "left" ELSE "busy"
    [] OTHER -> IF ok THEN "stuck" ELSE "enabled"
\* What becomes of the component after the answer.
AfterAnswer(kind, ok) ==
  CASE ~ok \/ kind \in {"clearCart", "addToCart"} -> "enabled"
    [] kind = "placeOrder" -> "left"
    [] OTHER -> "stuck"

Settle(c, ok) ==
  control' = [control EXCEPT ![c] = [state |-> AfterAnswer(KindOf[c], ok), request |-> 0]]

Answer(c) ==
  /\ control[c].state = "busy"
  /\ \E r \in Requests :
       /\ control[c].request = r
       /\ req[r].pc = "answered"
       /\ Settle(c, Ok(req[r].status))
  /\ UNCHANGED <<placementVars, page>>

\* The browser gives up; the request, wherever it is, goes on.
LoseAnswer(c) ==
  /\ control[c].state = "busy"
  /\ Fail("lost")
  /\ Settle(c, FALSE)
  /\ UNCHANGED <<cart, version, listed, req, use, orders, page>>

\* The customer reloads the page or comes back to it.
Remount(c) ==
  /\ control[c].state # "enabled"
  /\ control' = [control EXCEPT ![c] = [state |-> "enabled", request |-> 0]]
  /\ UNCHANGED <<placementVars, page>>

-----------------------------------------------------------------------------
(* OrderStatusView *)

OpenPage(i) ==
  /\ page.order = 0
  /\ "orderPage" \in use.ops
  /\ page' = [NoPage EXCEPT !.order = i, !.shown = orders[i].status]
  /\ UNCHANGED <<placementVars, control>>

\* Mutant: the interval is not started for an order that was reserved.
PollsPendingOnly == page.shown = "pending"
\* The effect runs the interval while the status shown is an active one.
Polling == page.shown \in ActiveStatuses

\* The interval fires whether or not earlier polls were answered.
PollTick(k) ==
  /\ Polling
  /\ page.polls[k] = "free"
  /\ page' = [page EXCEPT !.polls[k] = "sent"]
  /\ UNCHANGED <<placementVars, control>>

ServePoll(k) ==
  /\ page.polls[k] = "sent"
  /\ \/ page' = [page EXCEPT !.polls[k] = orders[page.order].status] /\ UNCHANGED failures
     \/ page' = [page EXCEPT !.polls[k] = "failed"] /\ Fail("read")
  /\ UNCHANGED <<cart, version, listed, req, use, orders, control>>

\* setOrder, whatever was shown and whichever poll was sent later.
PollAnswered(k) ==
  /\ page.polls[k] \notin {"free", "sent"}
  /\ page' = [page EXCEPT !.shown = IF page.polls[k] = "failed" THEN @ ELSE page.polls[k],
                          !.polls[k] = "free"]
  /\ UNCHANGED <<placementVars, control>>

LeavePage ==
  /\ page.order # 0
  /\ page' = NoPage
  /\ UNCHANGED <<placementVars, control>>

StorefrontNext ==
  \/ \E c \in Controls :
       \/ \E q \in Quantities : AddToCart(c, q) \/ UpdateQuantity(c, q)
       \/ RemoveLine(c) \/ ClearAll(c) \/ PlaceOrder(c)
       \/ Answer(c) \/ LoseAnswer(c) \/ Remount(c)
  \/ \E i \in DOMAIN orders : OpenPage(i)
  \/ \E k \in Polls : PollTick(k) \/ ServePoll(k) \/ PollAnswered(k)
  \/ LeavePage
=============================================================================
