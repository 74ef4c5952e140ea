--------------------------- MODULE InventoryAlone ---------------------------
(***************************************************************************)
(* The inventory service against the most general behaviour of the two     *)
(* services that feed it: order publishes order.created once or twice for  *)
(* an order, payment publishes payment.failed once or twice for an order   *)
(* whose stock it saw reserved.                                            *)
(***************************************************************************)
EXTENDS InventoryService

invAloneVars == <<busVars, inventoryVars>>

InvAloneInit == BusInit /\ InventoryInit

FeedInventory(t, o, reason) ==
  /\ ~SentFor(t, o)
  /\ Acknowledged(t, Event(o, 0, reason))
  /\ UNCHANGED <<offsets, inventoryVars>>

OrderPlaced(o) == FeedInventory("order.created", o, "none")

PaymentDeclined(o) ==
  SentFor("inventory.reserved", o) /\ FeedInventory("payment.failed", o, "card declined")

InventoryFeeders == \E o \in Orders : OrderPlaced(o) \/ PaymentDeclined(o)

InvAloneNext == InventoryNext \/ InventoryFeeders

InvAloneSpec == InvAloneInit /\ [][InvAloneNext]_invAloneVars

\* The consumer loop of every replica keeps running.
InvAloneFairSpec == InvAloneSpec /\ \A r \in Replicas : WF_invAloneVars(InvStep(r))

InvAloneTypeOK == BusTypeOK /\ InventoryTypeOK

-----------------------------------------------------------------------------
OutcomePublished(o) == SentFor("inventory.reserved", o) \/ SentFor("inventory.failed", o)

\* Whatever rebalances, duplicates and failed commits there are, as long as no
\* handler call fails and no process dies, every order published gets an outcome.
OutcomeIsPublished ==
  \A o \in Orders : SentFor("order.created", o) ~> OutcomePublished(o)

RowOf(id, o) == id \in DOMAIN reservations /\ reservations[id].order = o
Released(id) == id \in DOMAIN reservations /\ reservations[id].status = "released"

MaxRow == 2 \* the rows followed: bound, since a temporal quantifier has a constant range

\* The compensation is complete: a reservation recorded before payment.failed is published
\* is released in the end, also when the process dies or a call fails in the middle of the
\* release, or two replicas work on the order after a rebalance.
DeclinedIsReleased ==
  \A o \in Orders, id \in 1..MaxRow :
    []((RowOf(id, o) /\ ~SentFor("payment.failed", o))
         => [](SentFor("payment.failed", o) => <>Released(id)))

\* Inventory never says both: an order found short is not reserved by a second
\* delivery of order.created (README: "This is what makes redelivery safe").
OneInventoryOutcome ==
  \A o \in Orders : ~(SentFor("inventory.reserved", o) /\ SentFor("inventory.failed", o))
=============================================================================
