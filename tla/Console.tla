------------------------------ MODULE Console ------------------------------
(***************************************************************************)
(* The dashboard of the admin console (admin), over GET /admin/orders: the *)
(* order service counts the orders and then selects a page of them, two    *)
(* queries and no transaction; the dashboard tallies the page by status    *)
(* beside the total.                                                       *)
(***************************************************************************)
EXTENDS OrderPlacement, Counting

CONSTANT MaxAdminLimit \* the largest page the order service serves (code: 100)

VARIABLE dashboard \* the load in progress or shown: total, and orders per status

ASSUME ConsoleAssumption == MaxAdminLimit \in Nat \ {0}

BlankDashboard == [pc |-> "blank", total |-> 0, tally |-> [s \in Statuses |-> 0]]

ConsoleInit == dashboard = BlankDashboard

CountOrders ==
  /\ dashboard.pc \in {"blank", "shown"}
  /\ "dashboard" \in use.ops
  /\ dashboard' = [BlankDashboard EXCEPT !.pc = "counted", !.total = Len(orders)]
  /\ UNCHANGED placementVars

\* The newest orders, at most a page of them, whatever limit was asked for.
NewestOrders == {i \in DOMAIN orders : i > Len(orders) - MaxAdminLimit}

\* Mutant: the tally leaves the cancelled ones out.
TallyOfOthers ==
  [s \in Statuses |-> IF s = "cancelled" THEN 0
                      ELSE Cardinality({i \in NewestOrders : orders[i].status = s})]
TallyOrders == [s \in Statuses |-> Cardinality({i \in NewestOrders : orders[i].status = s})]

SelectOrders ==
  /\ dashboard.pc = "counted"
  /\ dashboard' = [dashboard EXCEPT !.pc = "shown", !.tally = TallyOrders]
  /\ UNCHANGED placementVars

\* A failing query: the banner instead of the numbers.
LoadFails ==
  /\ dashboard.pc = "counted"
  /\ Fail("read")
  /\ dashboard' = BlankDashboard
  /\ UNCHANGED <<cart, version, listed, req, use, orders>>

ConsoleNext == CountOrders \/ SelectOrders \/ LoadFails

Tallied == SumOf(dashboard.tally)
=============================================================================
