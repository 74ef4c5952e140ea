-------------------------- MODULE InventoryService --------------------------
(***************************************************************************)
(* services/inventory: the stock and reservations tables, and the replicas *)
(* of the Kafka consumer that reserves stock for order.created and         *)
(* releases it for payment.failed.  Every database call and every publish  *)
(* of a handler is a step of its own: a crash, a rebalance, an error or    *)
(* another replica may come between any two.                               *)
(***************************************************************************)
EXTENDS EventBus, Counting

CONSTANTS
  Products,
  ItemsOf,      \* [Orders -> sequences of [product, quantity]]
  InitialStock, \* [Products -> Nat]
  StockLevels,  \* the levels an administrator may set
  MaxAttempts   \* handler attempts per delivery (3 in the code)

Items == [product : Products, quantity : Nat \ {0}]

ASSUME InventoryAssumption ==
  /\ ItemsOf \in [Orders -> Seq(Items) \ {<<>>}]
  /\ InitialStock \in [Products -> Nat]
  /\ StockLevels \subseteq Nat
  /\ MaxAttempts \in Nat \ {0}

VARIABLES
  stock,        \* stock.available per product
  reservations, \* the reservations table: row id -> row
  inv,          \* what each replica's consumer is doing
  supplied      \* history: units ever put into stock per product

inventoryTables == <<stock, reservations>>
inventoryVars == <<stock, reservations, inv, supplied>>

Rows == [order : Orders, product : Products, quantity : Nat \ {0},
         status : {"active", "released"}]

InvSteps == {"idle", "guard", "decrement", "insert", "publishReserved",
             "rollback", "publishFailed", "lookup", "release", "commit"}

InvWorkers == [pc : InvSteps, topic : Topics, order : Orders \cup {NoOrder}, offset : Nat,
               attempt : Nat, item : Nat, held : SUBSET Nat]

InvIdle == [pc |-> "idle", topic |-> "order.created", order |-> NoOrder,
            offset |-> 0, attempt |-> 0, item |-> 0, held |-> {}]

InventoryInit ==
  /\ stock = InitialStock
  /\ reservations = <<>>
  /\ inv = [r \in Replicas |-> InvIdle]
  /\ supplied = InitialStock

\* Mutant: the query lost its WHERE order_id.
RowsOfAnyOrder(o) == DOMAIN reservations
RowsOf(o) == {id \in DOMAIN reservations : reservations[id].order = o}
ActiveRowsOf(o) == {id \in RowsOf(o) : reservations[id].status = "active"}

\* The handler the topic's event is dispatched to starts here.
FirstStep(topic) == IF topic = "order.created" THEN "guard" ELSE "lookup"

CurrentItem(r) == ItemsOf[inv[r].order][inv[r].item]

InvGoto(r, pc) == inv' = [inv EXCEPT ![r].pc = pc]

-----------------------------------------------------------------------------
(* Run, handleWithRetry *)

InvFetch(r, t, p) ==
  /\ inv[r].pc = "idle"
  /\ CanFetch("inventory-service", r, t, p)
  /\ LET o == NextEvent("inventory-service", t, p).order
         offset == position["inventory-service"][t][p]
     IN inv' = [inv EXCEPT ![r] = [InvIdle EXCEPT !.pc = FirstStep(t), !.topic = t,
                                    !.order = o, !.offset = offset, !.attempt = 1]]
  /\ Advance("inventory-service", t, p)
  /\ UNCHANGED <<log, committed, owner, disturbances, stock, reservations, supplied>>

\* Mutant: no second attempt.
InvNoRetry(r) == inv' = [inv EXCEPT ![r] = InvIdle]
\* The handler returned an error: another attempt from its first step, or, after
\* the last, give up and leave the message uncommitted.
InvAttemptFails(r) ==
  inv' = [inv EXCEPT ![r] =
    IF inv[r].attempt < MaxAttempts
    THEN [inv[r] EXCEPT !.pc = FirstStep(inv[r].topic), !.attempt = @ + 1, !.item = 0, !.held = {}]
    ELSE InvIdle]

\* A database call of the step pc fails, having had the effect or not.
InvDbError(r, pc, effect) ==
  /\ inv[r].pc = pc
  /\ Disturb("dbError")
  /\ effect \/ UNCHANGED inventoryTables
  /\ InvAttemptFails(r)
  /\ UNCHANGED <<log, offsets, supplied>>

InvCommit(r) ==
  /\ inv[r].pc = "commit"
  /\ \/ /\ Commit("inventory-service", inv[r].topic,
                  PartitionOf[inv[r].topic][inv[r].order], inv[r].offset + 1)
        /\ UNCHANGED disturbances
     \/ UNCHANGED committed /\ Disturb("commitError")
  /\ inv' = [inv EXCEPT ![r] = InvIdle]
  /\ UNCHANGED <<log, position, owner, inventoryTables, supplied>>

-----------------------------------------------------------------------------
(* HandleOrderCreated *)

AlreadyProcessed(o) == RowsOf(o) # {}

InvGuard(r) ==
  /\ inv[r].pc = "guard"
  /\ inv' = [inv EXCEPT ![r].pc = IF AlreadyProcessed(inv[r].order) THEN "commit" ELSE "decrement",
                        ![r].item = IF AlreadyProcessed(inv[r].order) THEN 0 ELSE 1]
  /\ UNCHANGED <<busVars, inventoryTables, supplied>>

\* Mutant: the UPDATE lost its condition.
AlwaysEnough(item) == TRUE
\* Mutant: off by one.
AlmostEnough(item) == stock[item.product] + 1 >= item.quantity
\* UPDATE stock ... WHERE available >= quantity
EnoughStock(item) == stock[item.product] >= item.quantity

Decrement(item) ==
  /\ stock' = [stock EXCEPT ![item.product] = @ - item.quantity]
  /\ UNCHANGED reservations

InvDecrement(r) ==
  /\ inv[r].pc = "decrement"
  /\ IF EnoughStock(CurrentItem(r))
     THEN Decrement(CurrentItem(r)) /\ InvGoto(r, "insert")
     ELSE /\ UNCHANGED inventoryTables
          /\ InvGoto(r, IF inv[r].held = {} THEN "publishFailed" ELSE "rollback")
  /\ UNCHANGED <<busVars, supplied>>

InvDecrementError(r) ==
  InvDbError(r, "decrement", EnoughStock(CurrentItem(r)) /\ Decrement(CurrentItem(r)))

InsertReservation(o, item) ==
  /\ reservations' = Append(reservations, [order |-> o, product |-> item.product,
                                           quantity |-> item.quantity, status |-> "active"])
  /\ UNCHANGED stock

\* Mutant: the loop stops one line early.
OneLineShort(r) == inv[r].item + 1 >= Len(ItemsOf[inv[r].order])
LastLine(r) == inv[r].item = Len(ItemsOf[inv[r].order])

InvInsert(r) ==
  /\ inv[r].pc = "insert"
  /\ InsertReservation(inv[r].order, CurrentItem(r))
  /\ inv' = [inv EXCEPT ![r].pc = IF LastLine(r) THEN "publishReserved" ELSE "decrement",
                        ![r].item = IF LastLine(r) THEN @ ELSE @ + 1,
                        ![r].held = @ \cup {Len(reservations) + 1}]
  /\ UNCHANGED <<busVars, supplied>>

InvInsertError(r) ==
  InvDbError(r, "insert", InsertReservation(inv[r].order, CurrentItem(r)))

\* The outcome event: on an error the attempt has failed.
InvPublishOutcome(r, pc, topic, reason) ==
  /\ inv[r].pc = pc
  /\ LET e == Event(inv[r].order, 0, reason)
     IN \/ Acknowledged(topic, e) /\ InvGoto(r, "commit")
        \/ Unacknowledged(topic, e) /\ InvAttemptFails(r)
  /\ UNCHANGED <<offsets, inventoryTables, supplied>>

InvPublishReserved(r) == InvPublishOutcome(r, "publishReserved", "inventory.reserved", "none")
InvPublishFailed(r) ==
  InvPublishOutcome(r, "publishFailed", "inventory.failed", "insufficient stock")

-----------------------------------------------------------------------------
(* HandlePaymentFailed, and the release both handlers share *)

InvLookup(r) ==
  /\ inv[r].pc = "lookup"
  /\ LET active == ActiveRowsOf(inv[r].order)
     IN inv' = [inv EXCEPT ![r].pc = IF active = {} THEN "commit" ELSE "release",
                           ![r].held = active]
  /\ UNCHANGED <<busVars, inventoryTables, supplied>>

InvReadError(r) == \E pc \in {"guard", "lookup"} : InvDbError(r, pc, FALSE)

\* Mutant: the UPDATE lost AND status = 'active'.
ActiveOrNot(id) == TRUE
StillActive(id) == reservations[id].status = "active"

\* Mutant: the stock is not restored.
ReleaseOnly(id) ==
  IF StillActive(id)
  THEN reservations' = [reservations EXCEPT ![id].status = "released"] /\ UNCHANGED stock
  ELSE UNCHANGED inventoryTables
\* One transaction: released only if still active, and the stock restored.
ReleaseReservation(id) ==
  IF StillActive(id)
  THEN /\ reservations' = [reservations EXCEPT ![id].status = "released"]
       /\ stock' = [stock EXCEPT ![reservations[id].product] = @ + reservations[id].quantity]
  ELSE UNCHANGED inventoryTables

\* The rollback releases in the order of insertion; the release in whatever order
\* the query returned the rows.
NextHeld(r) ==
  {id \in inv[r].held : inv[r].pc = "rollback" => \A other \in inv[r].held : id <= other}

InvRelease(r) ==
  /\ inv[r].pc \in {"rollback", "release"}
  /\ \E id \in NextHeld(r) :
       /\ ReleaseReservation(id)
       /\ inv' = [inv EXCEPT ![r].held = @ \ {id},
                             ![r].pc = IF inv[r].held # {id} THEN @
                                       ELSE IF @ = "rollback" THEN "publishFailed"
                                       ELSE "commit"]
  /\ UNCHANGED <<busVars, supplied>>

InvReleaseError(r) ==
  \E pc \in {"rollback", "release"} :
    /\ inv[r].pc = pc
    /\ \E id \in NextHeld(r) : InvDbError(r, pc, ReleaseReservation(id))

-----------------------------------------------------------------------------
(* The process and its administrators *)

\* The process dies and is restarted; the group rebalances without it.
InvCrash(r) ==
  /\ Disturb("crash")
  /\ inv' = [inv EXCEPT ![r] = InvIdle]
  /\ Rejoin("inventory-service")
  /\ UNCHANGED <<inventoryTables, supplied>>

InvRebalance ==
  Rebalance("inventory-service") /\ UNCHANGED inventoryVars

\* POST /inventory writes the level the administrator typed, whatever is reserved.
UpsertStock(product, available) ==
  /\ Disturb("restock")
  /\ stock' = [stock EXCEPT ![product] = available]
  /\ supplied' = [supplied EXCEPT ![product] = @ + available - stock[product]]
  /\ UNCHANGED <<log, offsets, reservations, inv>>

InvStep(r) ==
  \/ \E t \in Topics, p \in Partitions : InvFetch(r, t, p)
  \/ InvGuard(r) \/ InvDecrement(r) \/ InvInsert(r)
  \/ InvPublishReserved(r) \/ InvPublishFailed(r)
  \/ InvLookup(r) \/ InvRelease(r)
  \/ InvCommit(r)

InvFault(r) ==
  \/ InvReadError(r) \/ InvDecrementError(r) \/ InvInsertError(r) \/ InvReleaseError(r)
  \/ InvCrash(r)

InventoryNext ==
  \/ \E r \in Replicas : InvStep(r) \/ InvFault(r)
  \/ InvRebalance
  \/ \E product \in Products, n \in StockLevels : UpsertStock(product, n)

-----------------------------------------------------------------------------
InventoryTypeOK ==
  /\ stock \in [Products -> Nat]
  /\ reservations \in Seq(Rows)
  /\ inv \in [Replicas -> InvWorkers]
  /\ \A r \in Replicas :
       /\ inv[r].pc # "idle" => inv[r].order \in Orders
       /\ inv[r].pc \in {"decrement", "insert"} => inv[r].item \in DOMAIN ItemsOf[inv[r].order]
       /\ inv[r].held \subseteq DOMAIN reservations
  /\ supplied \in [Products -> Int]

\* Every line of the order is held by an active reservation.
HoldsStock(o) ==
  \A i \in 1..Len(ItemsOf[o]) : \E id \in DOMAIN reservations :
    reservations[id] = [order |-> o, product |-> ItemsOf[o][i].product,
                        quantity |-> ItemsOf[o][i].quantity, status |-> "active"]

\* Units are never sold that were not supplied: what is on the shelf, what
\* active reservations hold and what a worker has taken but not yet recorded
\* never exceed the units ever put into stock.
ActiveRows(product) ==
  {id \in DOMAIN reservations : /\ reservations[id].product = product
                                /\ reservations[id].status = "active"}
Reserved(product) == SumOf([id \in ActiveRows(product) |-> reservations[id].quantity])
Takers(product) ==
  {r \in Replicas : inv[r].pc = "insert" /\ CurrentItem(r).product = product}
InHand(product) == SumOf([r \in Takers(product) |-> CurrentItem(r).quantity])
NoOversell ==
  \A product \in Products :
    stock[product] >= 0 /\ stock[product] + Reserved(product) + InHand(product) <= supplied[product]

\* Stock is conserved when no database call fails and no process dies between
\* the decrement and the insert: everything supplied is on the shelf, reserved,
\* or in the hand of a worker about to record it.
StockConserved ==
  \A product \in Products :
    stock[product] + Reserved(product) + InHand(product) = supplied[product]
=============================================================================
