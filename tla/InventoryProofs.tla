--------------------------- MODULE InventoryProofs ---------------------------
(***************************************************************************)
(* Proofs about the inventory service: it is type-correct, which includes  *)
(* that stock never goes below zero and that no worker refers to a line or *)
(* a reservation that does not exist.                                      *)
(***************************************************************************)
EXTENDS InventoryService, EventBusProofs, CountingProofs

InventoryTopics == {"inventory.reserved", "inventory.failed"}

\* The reason inventory gives is the one reason it has.
FailedIsShort == \A e \in Sent("inventory.failed") : e.reason = "insufficient stock"

OrderSteps == {"guard", "decrement", "insert", "publishReserved", "rollback", "publishFailed"}
ReleaseSteps == {"lookup", "release"}

\* A replica works on an event that was sent, in the handler of its topic.
WorksOnWhatWasSent ==
  \A r \in Replicas :
    /\ inv[r].pc # "idle" => SentFor(inv[r].topic, inv[r].order)
    /\ inv[r].pc \in OrderSteps => inv[r].topic = "order.created"
    /\ inv[r].pc \in ReleaseSteps => inv[r].topic = "payment.failed"
    /\ inv[r].pc = "commit" => inv[r].topic \in Subscription["inventory-service"]

\* The rows a replica has at hand: none before it has read or written any, and when it
\* releases, those of its order.
HoldsItsRows ==
  \A r \in Replicas :
    /\ inv[r].pc = "guard" => inv[r].held = {}
    /\ inv[r].pc = "release" => \A id \in inv[r].held : reservations[id].order = inv[r].order

\* Only an order that was announced gets an outcome.
OutcomeFollowsCreated ==
  \A u \in InventoryTopics : \A e \in Sent(u) : SentFor("order.created", e.order)

\* The rows a replica has inserted for the order it is reserving, and may still roll back.
Mine(r) ==
  {id \in inv[r].held : inv[r].pc \in {"decrement", "insert", "rollback", "publishReserved"}}

\* No two replicas roll back the same row.
RowsAreApart == \A r, s \in Replicas : r # s => Mine(r) \cap Mine(s) = {}

WorkInv == WorksOnWhatWasSent /\ HoldsItsRows /\ OutcomeFollowsCreated /\ RowsAreApart

\* What the work of a replica refers to exists, ids being the reservations there are.
WorkOK(w, ids) ==
  /\ w \in InvWorkers
  /\ w.pc # "idle" => w.order \in Orders
  /\ w.pc \in {"decrement", "insert"} => w.item \in DOMAIN ItemsOf[w.order]
  /\ w.held \subseteq ids

-----------------------------------------------------------------------------
\* Replica r takes up work w and the tables only grow: the state stays well-typed.
LEMMA WorkStep ==
  ASSUME NEW r \in Replicas, NEW w, InventoryTypeOK, WorkOK(w, DOMAIN reservations'), inv' = [inv EXCEPT ![r] = w],
         reservations' \in Seq(Rows), DOMAIN reservations \subseteq DOMAIN reservations',
         stock' \in [Products -> Nat], supplied' \in [Products -> Int]
  PROVE  InventoryTypeOK'
<1>1. inv' \in [Replicas -> InvWorkers]
  BY DEF InventoryTypeOK, WorkOK
<1>2. \A s \in Replicas :
       /\ inv'[s].pc # "idle" => inv'[s].order \in Orders
       /\ inv'[s].pc \in {"decrement", "insert"} => inv'[s].item \in DOMAIN ItemsOf[inv'[s].order]
       /\ inv'[s].held \subseteq DOMAIN reservations'
  <2> TAKE s \in Replicas
  <2>1. CASE s = r
    BY <2>1 DEF InventoryTypeOK, WorkOK
  <2>2. CASE s # r
    BY <2>2 DEF InventoryTypeOK
  <2> QED BY <2>1, <2>2
<1> QED BY <1>1, <1>2 DEF InventoryTypeOK

\* The line a worker is at is a line of its order.
LEMMA CurrentItemTyped ==
  ASSUME NEW r \in Replicas, InventoryTypeOK, inv[r].pc \in {"decrement", "insert"}
  PROVE  /\ CurrentItem(r) \in Items
         /\ CurrentItem(r).product \in Products /\ CurrentItem(r).quantity \in Nat \ {0}
<1>1. inv[r].order \in Orders /\ inv[r].item \in DOMAIN ItemsOf[inv[r].order]
  BY DEF InventoryTypeOK
<1>2. ItemsOf[inv[r].order] \in Seq(Items)
  BY <1>1, InventoryAssumption
<1>3. CurrentItem(r) \in Items
  BY <1>1, <1>2 DEF CurrentItem
<1> QED BY <1>3 DEF Items

\* The conditional UPDATE of DecrementStock never takes stock below zero.
LEMMA DecrementTyped ==
  ASSUME NEW item \in Items, InventoryTypeOK, EnoughStock(item), Decrement(item)
  PROVE  stock' \in [Products -> Nat] /\ reservations' = reservations
<1>1. item.product \in Products /\ item.quantity \in Nat
  BY DEF Items
<1>2. stock[item.product] - item.quantity \in Nat
  BY <1>1 DEF EnoughStock, InventoryTypeOK
<1> QED BY <1>1, <1>2 DEF Decrement, InventoryTypeOK

\* InsertReservation adds the row after the last and leaves the stock alone.
LEMMA InsertTyped ==
  ASSUME NEW o \in Orders, NEW item \in Items, InventoryTypeOK, InsertReservation(o, item)
  PROVE  /\ stock' = stock /\ reservations' \in Seq(Rows)
         /\ DOMAIN reservations' = DOMAIN reservations \cup {Len(reservations) + 1}
<1> DEFINE row == [order |-> o, product |-> item.product, quantity |-> item.quantity, status |-> "active"]
<1>1. row \in Rows
  BY DEF Rows, Items
<1>2. reservations' = Append(reservations, row) /\ stock' = stock
  BY DEF InsertReservation
<1>3. reservations \in Seq(Rows)
  BY DEF InventoryTypeOK
<1> HIDE DEF row
<1> QED BY <1>1, <1>2, <1>3

\* ReleaseReservation changes a row in place and only ever adds to the stock.
LEMMA ReleaseTyped ==
  ASSUME InventoryTypeOK, NEW id \in DOMAIN reservations, ReleaseReservation(id)
  PROVE  /\ stock' \in [Products -> Nat] /\ reservations' \in Seq(Rows)
         /\ DOMAIN reservations' = DOMAIN reservations
<1>1. reservations \in Seq(Rows) /\ reservations[id] \in Rows
  BY DEF InventoryTypeOK
<1>2. CASE UNCHANGED inventoryTables
  BY <1>1, <1>2 DEF InventoryTypeOK, inventoryTables
<1>3. CASE /\ reservations' = [reservations EXCEPT ![id].status = "released"]
           /\ stock' = [stock EXCEPT ![reservations[id].product] = @ + reservations[id].quantity]
  <2>1. [reservations[id] EXCEPT !.status = "released"] \in Rows
    BY <1>1 DEF Rows
  <2>2. reservations' \in Seq(Rows) /\ DOMAIN reservations' = DOMAIN reservations
    BY <1>1, <1>3, <2>1
  <2>3. reservations[id].product \in Products /\ reservations[id].quantity \in Nat
    BY <1>1 DEF Rows
  <2>4. stock' \in [Products -> Nat]
    BY <1>3, <2>3 DEF InventoryTypeOK
  <2> QED BY <2>2, <2>4
<1> QED BY <1>2, <1>3 DEF ReleaseReservation

\* A failed attempt leaves a worker that starts over or is idle.
LEMMA AttemptFailsTyped ==
  ASSUME NEW r \in Replicas, NEW ids, InventoryTypeOK, inv[r].pc # "idle", InvAttemptFails(r)
  PROVE  \E w : WorkOK(w, ids) /\ inv' = [inv EXCEPT ![r] = w]
<1>1. inv[r] \in InvWorkers /\ inv[r].order \in Orders
  BY DEF InventoryTypeOK
<1>3. CASE inv[r].attempt < MaxAttempts
  <2> DEFINE w == [inv[r] EXCEPT !.pc = FirstStep(inv[r].topic), !.attempt = @ + 1,
                                 !.item = 0, !.held = {}]
  <2>1. WorkOK(w, ids)
    <3>1. FirstStep(inv[r].topic) \in {"guard", "lookup"}
      BY DEF FirstStep
    <3>2. inv[r].attempt + 1 \in Nat /\ {} \in SUBSET Nat /\ 0 \in Nat
      BY <1>1 DEF InvWorkers
    <3>3. w \in InvWorkers
      BY <1>1, <3>1, <3>2 DEF InvWorkers, InvSteps
    <3>4. w.pc = FirstStep(inv[r].topic) /\ w.order = inv[r].order /\ w.held = {}
      BY <1>1 DEF InvWorkers
    <3> HIDE DEF w
    <3> QED BY <1>1, <3>1, <3>3, <3>4 DEF WorkOK
  <2>2. inv' = [inv EXCEPT ![r] = w]
    BY <1>3 DEF InvAttemptFails, InventoryTypeOK
  <2> HIDE DEF w
  <2> QED BY <2>1, <2>2
<1>4. CASE ~(inv[r].attempt < MaxAttempts)
  <2>1. WorkOK(InvIdle, ids)
    BY DEF WorkOK, InvIdle, InvWorkers, InvSteps, Topics
  <2>2. inv' = [inv EXCEPT ![r] = InvIdle]
    BY <1>4 DEF InvAttemptFails
  <2> QED BY <2>1, <2>2
<1> QED BY <1>3, <1>4

-----------------------------------------------------------------------------
\* A replica's next event makes well-typed work.
LEMMA InvFetchTyped ==
  ASSUME NEW r \in Replicas, NEW t, NEW p \in Partitions, BusTypeOK, InventoryTypeOK, InvFetch(r, t, p)
  PROVE  BusTypeOK' /\ InventoryTypeOK'
<1> DEFINE e == NextEvent("inventory-service", t, p)
           offset == position["inventory-service"][t][p]
           w == [InvIdle EXCEPT !.pc = FirstStep(t), !.topic = t, !.order = e.order,
                                !.offset = offset, !.attempt = 1]
<1>1. t \in Topics /\ e \in Events /\ offset \in Nat
  BY FetchStep DEF InvFetch, Groups
<1>2. e.order \in Orders
  BY <1>1 DEF Events
<1>3. BusTypeOK'
  BY <1>1, OffsetSteps DEF InvFetch, Groups, BusTypeOK
<1>4. inv' = [inv EXCEPT ![r] = w]
  BY DEF InvFetch
<1>5. WorkOK(w, DOMAIN reservations')
  <2>1. FirstStep(t) \in {"guard", "lookup"}
    BY DEF FirstStep
  <2> HIDE DEF e, offset
  <2> QED BY <1>1, <1>2, <2>1 DEF WorkOK, InvIdle, InvWorkers, InvSteps
<1> HIDE DEF w
<1> QED BY <1>3, <1>4, <1>5, WorkStep DEF InvFetch, InventoryTypeOK

\* A failing database call leaves the state well-typed if its effect does.
LEMMA DbErrorTyped ==
  ASSUME NEW r \in Replicas, NEW pc \in InvSteps \ {"idle"}, BusTypeOK, InventoryTypeOK,
         inv[r].pc = pc, Disturb("dbError"), InvAttemptFails(r), UNCHANGED <<log, offsets, supplied>>,
         stock' \in [Products -> Nat], reservations' \in Seq(Rows),
         DOMAIN reservations \subseteq DOMAIN reservations'
  PROVE  BusTypeOK' /\ InventoryTypeOK' /\ log' = log
<1>1. BusTypeOK' /\ log' = log
  BY DisturbStep DEF BusTypeOK, offsets
<1>2. supplied' \in [Products -> Int]
  BY DEF InventoryTypeOK
<1>3. \E w : WorkOK(w, DOMAIN reservations') /\ inv' = [inv EXCEPT ![r] = w]
  BY AttemptFailsTyped
<1> QED BY <1>1, <1>2, <1>3, WorkStep

\* The outcome events: nothing else is sent, and the state stays well-typed.
LEMMA PublishOutcomeTyped ==
  ASSUME NEW r \in Replicas, NEW pc \in {"publishReserved", "publishFailed"},
         NEW topic \in InventoryTopics, NEW reason \in Reasons,
         topic = "inventory.failed" => reason = "insufficient stock",
         BusTypeOK, InventoryTypeOK, InvPublishOutcome(r, pc, topic, reason)
  PROVE  /\ BusTypeOK' /\ InventoryTypeOK'
         /\ \A u \in Topics : Sent(u) \subseteq Sent(u)'
         /\ \A u \in Topics \ InventoryTopics : Sent(u)' = Sent(u)
         /\ FailedIsShort => FailedIsShort'
<1> DEFINE e == Event(inv[r].order, 0, reason)
<1>1. inv[r] \in InvWorkers /\ inv[r].order \in Orders /\ inv[r].pc = pc
      /\ inv[r].held \subseteq DOMAIN reservations
  BY DEF InventoryTypeOK, InvPublishOutcome
<1>2. e \in Events /\ e.reason = reason
  BY <1>1 DEF Events, Event
<1>3. topic \in Topics
  BY DEF InventoryTopics, Topics
<1>4. (Acknowledged(topic, e) \/ Unacknowledged(topic, e)) /\ UNCHANGED offsets
  BY DEF InvPublishOutcome
<1> HIDE DEF e
<1>5. /\ BusTypeOK'
      /\ \A u \in Topics : Sent(u) \subseteq Sent(u)'
      /\ \A u \in Topics \ {topic} : Sent(u)' = Sent(u)
      /\ Sent(topic)' \subseteq Sent(topic) \cup {e}
  BY <1>2, <1>3, <1>4, PublishStep
<1>6. FailedIsShort => FailedIsShort'
  BY <1>2, <1>5 DEF FailedIsShort, Topics
<1>7. UNCHANGED <<stock, reservations, supplied>>
  BY DEF InvPublishOutcome, inventoryTables
<1>8. \E w : WorkOK(w, DOMAIN reservations') /\ inv' = [inv EXCEPT ![r] = w]
  <2>1. CASE InvAttemptFails(r)
    BY <1>1, <2>1, AttemptFailsTyped
  <2>2. CASE InvGoto(r, "commit")
    <3> DEFINE w == [inv[r] EXCEPT !.pc = "commit"]
    <3>1. WorkOK(w, DOMAIN reservations')
      BY <1>1, <1>7 DEF WorkOK, InvWorkers, InvSteps
    <3>2. inv' = [inv EXCEPT ![r] = w]
      BY <2>2 DEF InvGoto
    <3> HIDE DEF w
    <3> QED BY <3>1, <3>2
  <2> QED BY <2>1, <2>2 DEF InvPublishOutcome
<1>9. InventoryTypeOK'
  BY <1>7, <1>8, WorkStep DEF InventoryTypeOK
<1> QED BY <1>5, <1>6, <1>9

\* A step of the service keeps its types and those of the bus, and sends events of
\* its own topics only, with the reason there is.
LEMMA InventoryTyped ==
  ASSUME BusTypeOK, InventoryTypeOK, InventoryNext
  PROVE  /\ BusTypeOK' /\ InventoryTypeOK'
         /\ \A u \in Topics : Sent(u) \subseteq Sent(u)'
         /\ \A u \in Topics \ InventoryTopics : Sent(u)' = Sent(u)
         /\ FailedIsShort => FailedIsShort'
<1> DEFINE Typed == /\ BusTypeOK' /\ InventoryTypeOK'
                    /\ \A u \in Topics : Sent(u) \subseteq Sent(u)'
                    /\ \A u \in Topics \ InventoryTopics : Sent(u)' = Sent(u)
                    /\ FailedIsShort => FailedIsShort'
<1> SUFFICES Typed
  OBVIOUS
<1>1. ASSUME BusTypeOK', InventoryTypeOK', log' = log PROVE Typed
  BY <1>1, SilentStep DEF FailedIsShort
<1>2. ASSUME NEW r \in Replicas, NEW w, WorkOK(w, DOMAIN reservations'), inv' = [inv EXCEPT ![r] = w], UNCHANGED busVars,
             stock' \in [Products -> Nat], reservations' \in Seq(Rows),
             DOMAIN reservations \subseteq DOMAIN reservations', UNCHANGED supplied
      PROVE  Typed
  <2>1. InventoryTypeOK'
    BY <1>2, WorkStep DEF InventoryTypeOK
  <2>2. BusTypeOK' /\ log' = log
    BY <1>2 DEF BusTypeOK, busVars, offsets
  <2> QED BY <1>1, <2>1, <2>2
<1>3. ASSUME NEW r \in Replicas, NEW t \in Topics, NEW p \in Partitions, InvFetch(r, t, p)
      PROVE  Typed
  <2>1. BusTypeOK' /\ InventoryTypeOK' /\ log' = log
    BY <1>3, InvFetchTyped DEF InvFetch
  <2> QED BY <1>1, <2>1
<1>4. ASSUME NEW r \in Replicas, InvGuard(r) PROVE Typed
  <2> DEFINE new == AlreadyProcessed(inv[r].order)
             w == [inv[r] EXCEPT !.pc = IF new THEN "commit" ELSE "decrement",
                                 !.item = IF new THEN 0 ELSE 1]
  <2>1. inv[r] \in InvWorkers /\ inv[r].order \in Orders /\ inv[r].held \subseteq DOMAIN reservations
    BY <1>4 DEF InvGuard, InventoryTypeOK
  <2>2. 1 \in DOMAIN ItemsOf[inv[r].order]
    <3>1. ItemsOf[inv[r].order] \in Seq(Items) /\ ItemsOf[inv[r].order] # <<>>
      BY <2>1, InventoryAssumption
    <3> QED BY <3>1
  <2>3. inv' = [inv EXCEPT ![r] = w]
    BY <1>4, <2>1 DEF InvGuard, InventoryTypeOK
  <2>4. WorkOK(w, DOMAIN reservations')
    <3> HIDE DEF new
    <3>1. reservations' = reservations
      BY <1>4 DEF InvGuard, inventoryTables
    <3> QED BY <2>1, <2>2, <3>1 DEF WorkOK, InvWorkers, InvSteps
  <2> HIDE DEF w
  <2> QED BY <1>2, <1>4, <2>3, <2>4 DEF InvGuard, InventoryTypeOK, inventoryTables
<1>5. ASSUME NEW r \in Replicas, InvDecrement(r) PROVE Typed
  <2>1. /\ inv[r] \in InvWorkers /\ inv[r].order \in Orders /\ inv[r].held \subseteq DOMAIN reservations
        /\ inv[r].item \in DOMAIN ItemsOf[inv[r].order] /\ CurrentItem(r) \in Items
    BY <1>5, CurrentItemTyped DEF InvDecrement, InventoryTypeOK
  <2>2. stock' \in [Products -> Nat] /\ reservations' = reservations
    BY <1>5, <2>1, DecrementTyped DEF InvDecrement, InventoryTypeOK, inventoryTables
  <2>3. PICK pc \in {"insert", "publishFailed", "rollback"} : InvGoto(r, pc)
    BY <1>5 DEF InvDecrement
  <2> DEFINE w == [inv[r] EXCEPT !.pc = pc]
  <2>4. WorkOK(w, DOMAIN reservations')
    BY <2>1, <2>2 DEF WorkOK, InvWorkers, InvSteps
  <2>5. inv' = [inv EXCEPT ![r] = w]
    BY <2>3 DEF InvGoto
  <2> HIDE DEF w
  <2> QED BY <1>2, <1>5, <2>2, <2>4, <2>5 DEF InvDecrement, InventoryTypeOK
<1>6. ASSUME NEW r \in Replicas, InvInsert(r) PROVE Typed
  <2> DEFINE w == [inv[r] EXCEPT !.pc = IF LastLine(r) THEN "publishReserved" ELSE "decrement",
                                 !.item = IF LastLine(r) THEN @ ELSE @ + 1,
                                 !.held = @ \cup {Len(reservations) + 1}]
  <2>1. /\ inv[r] \in InvWorkers /\ inv[r].order \in Orders /\ inv[r].held \subseteq DOMAIN reservations
        /\ inv[r].item \in DOMAIN ItemsOf[inv[r].order] /\ CurrentItem(r) \in Items
    BY <1>6, CurrentItemTyped DEF InvInsert, InventoryTypeOK
  <2>2. /\ stock' = stock /\ reservations' \in Seq(Rows)
        /\ DOMAIN reservations' = DOMAIN reservations \cup {Len(reservations) + 1}
    BY <1>6, <2>1, InsertTyped DEF InvInsert
  <2>3. inv' = [inv EXCEPT ![r] = w]
    BY <1>6, <2>1 DEF InvInsert, InventoryTypeOK
  <2>4. /\ w \in InvWorkers /\ w.order = inv[r].order
        /\ w.held = inv[r].held \cup {Len(reservations) + 1}
        /\ w.pc # "decrement" \/ w.item = inv[r].item + 1
        /\ w.pc # "insert" /\ (w.pc = "decrement" => ~LastLine(r))
    <3>1. inv[r].item \in Nat /\ Len(reservations) + 1 \in Nat /\ inv[r].held \in SUBSET Nat
      BY <2>1 DEF InvWorkers, InventoryTypeOK
    <3>2. inv[r].held \cup {Len(reservations) + 1} \in SUBSET Nat /\ inv[r].item + 1 \in Nat
      BY <3>1
    <3> QED BY <2>1, <3>1, <3>2 DEF InvWorkers, InvSteps
  <2>5. ~LastLine(r) => inv[r].item + 1 \in DOMAIN ItemsOf[inv[r].order]
    <3>1. ItemsOf[inv[r].order] \in Seq(Items)
      BY <2>1, InventoryAssumption
    <3> QED BY <2>1, <3>1 DEF LastLine
  <2> HIDE DEF w
  <2>6. WorkOK(w, DOMAIN reservations')
    BY <2>1, <2>2, <2>4, <2>5 DEF WorkOK
  <2> QED BY <1>2, <1>6, <2>2, <2>3, <2>6 DEF InvInsert, InventoryTypeOK
<1>7. ASSUME NEW r \in Replicas, InvPublishReserved(r) \/ InvPublishFailed(r) PROVE Typed
  BY <1>7, PublishOutcomeTyped DEF InvPublishReserved, InvPublishFailed, InventoryTopics, Reasons
<1>8. ASSUME NEW r \in Replicas, InvLookup(r) PROVE Typed
  <2> DEFINE active == ActiveRowsOf(inv[r].order)
             w == [inv[r] EXCEPT !.pc = IF active = {} THEN "commit" ELSE "release", !.held = active]
  <2>1. inv[r] \in InvWorkers /\ inv[r].order \in Orders
    BY <1>8 DEF InvLookup, InventoryTypeOK
  <2>2. active \subseteq DOMAIN reservations /\ active \in SUBSET Nat
    BY DEF ActiveRowsOf, RowsOf, InventoryTypeOK
  <2>3. inv' = [inv EXCEPT ![r] = w]
    BY <1>8, <2>1 DEF InvLookup, InventoryTypeOK
  <2>4. WorkOK(w, DOMAIN reservations')
    <3>1. reservations' = reservations
      BY <1>8 DEF InvLookup, inventoryTables
    <3> HIDE DEF active
    <3> QED BY <2>1, <2>2, <3>1 DEF WorkOK, InvWorkers, InvSteps
  <2> HIDE DEF w
  <2> QED BY <1>2, <1>8, <2>3, <2>4 DEF InvLookup, InventoryTypeOK, inventoryTables
<1>9. ASSUME NEW r \in Replicas, InvRelease(r) PROVE Typed
  <2>1. /\ inv[r] \in InvWorkers /\ inv[r].order \in Orders
        /\ inv[r].held \subseteq DOMAIN reservations
    BY <1>9 DEF InvRelease, InventoryTypeOK
  <2>2. PICK id \in NextHeld(r) :
          /\ ReleaseReservation(id)
          /\ inv' = [inv EXCEPT ![r].held = @ \ {id},
                                ![r].pc = IF inv[r].held # {id} THEN @
                                          ELSE IF @ = "rollback" THEN "publishFailed"
                                          ELSE "commit"]
    BY <1>9 DEF InvRelease
  <2>3. id \in DOMAIN reservations
    BY <2>1 DEF NextHeld
  <2>4. /\ stock' \in [Products -> Nat] /\ reservations' \in Seq(Rows)
        /\ DOMAIN reservations' = DOMAIN reservations
    BY <2>2, <2>3, ReleaseTyped
  <2> DEFINE w == [inv[r] EXCEPT !.held = @ \ {id},
                                 !.pc = IF inv[r].held # {id} THEN @
                                        ELSE IF @ = "rollback" THEN "publishFailed"
                                        ELSE "commit"]
  <2>5. inv' = [inv EXCEPT ![r] = w]
    BY <2>1, <2>2 DEF InventoryTypeOK
  <2>6. WorkOK(w, DOMAIN reservations')
    <3>1. inv[r].pc \in {"rollback", "release"} /\ inv[r].held \ {id} \in SUBSET Nat
      BY <1>9, <2>1 DEF InvRelease, InvWorkers
    <3> QED BY <2>1, <2>4, <3>1 DEF WorkOK, InvWorkers, InvSteps
  <2> HIDE DEF w
  <2> QED BY <1>2, <1>9, <2>4, <2>5, <2>6 DEF InvRelease, InventoryTypeOK
<1>10. ASSUME NEW r \in Replicas, InvCommit(r) PROVE Typed
  <2>1. inv[r] \in InvWorkers /\ inv[r].order \in Orders
    BY <1>10 DEF InvCommit, InventoryTypeOK
  <2>2. /\ inv[r].offset + 1 \in Nat /\ inv[r].topic \in Topics
        /\ PartitionOf[inv[r].topic][inv[r].order] \in Partitions
    BY <2>1, BusAssumption DEF InvWorkers
  <2>3. committed' \in Offsets
    BY <1>10, <2>2, OffsetSteps DEF InvCommit, Groups, BusTypeOK
  <2>4. BusTypeOK' /\ log' = log
    BY <1>10, <2>3, DisturbStep DEF InvCommit, BusTypeOK
  <2>5. WorkOK(InvIdle, DOMAIN reservations')
    BY DEF WorkOK, InvIdle, InvWorkers, InvSteps, Topics
  <2>6. InventoryTypeOK'
    BY <1>10, <2>5, WorkStep DEF InvCommit, InventoryTypeOK, inventoryTables
  <2> QED BY <1>1, <2>4, <2>6
<1>11. ASSUME NEW r \in Replicas, NEW pc \in InvSteps \ {"idle"},
              inv[r].pc = pc, Disturb("dbError"), InvAttemptFails(r),
              UNCHANGED <<log, offsets, supplied>>,
              stock' \in [Products -> Nat], reservations' \in Seq(Rows),
              DOMAIN reservations \subseteq DOMAIN reservations'
       PROVE  Typed
  BY <1>1, <1>11, DbErrorTyped
<1>12. ASSUME NEW r \in Replicas, InvReadError(r) PROVE Typed
  <2>1. PICK pc \in {"guard", "lookup"} : InvDbError(r, pc, FALSE)
    BY <1>12 DEF InvReadError
  <2>2. stock' \in [Products -> Nat] /\ reservations' \in Seq(Rows) /\ reservations' = reservations
    BY <2>1 DEF InvDbError, InventoryTypeOK, inventoryTables
  <2> QED BY <1>11, <2>1, <2>2 DEF InvDbError, InvSteps
<1>13. ASSUME NEW r \in Replicas, InvDecrementError(r) PROVE Typed
  <2>1. inv[r].pc = "decrement" /\ CurrentItem(r) \in Items
    BY <1>13, CurrentItemTyped DEF InvDecrementError, InvDbError
  <2>2. stock' \in [Products -> Nat] /\ reservations' = reservations /\ reservations' \in Seq(Rows)
    BY <1>13, <2>1, DecrementTyped DEF InvDecrementError, InvDbError, InventoryTypeOK, inventoryTables
  <2> QED BY <1>11, <1>13, <2>1, <2>2 DEF InvDecrementError, InvDbError, InvSteps
<1>14. ASSUME NEW r \in Replicas, InvInsertError(r) PROVE Typed
  <2>1. inv[r].pc = "insert" /\ inv[r].order \in Orders /\ CurrentItem(r) \in Items
    BY <1>14, CurrentItemTyped DEF InvInsertError, InvDbError, InventoryTypeOK
  <2>2. CASE InsertReservation(inv[r].order, CurrentItem(r))
    <3>1. /\ stock' \in [Products -> Nat] /\ reservations' \in Seq(Rows)
          /\ DOMAIN reservations \subseteq DOMAIN reservations'
      BY <2>1, <2>2, InsertTyped DEF InventoryTypeOK
    <3> QED BY <1>11, <1>14, <2>1, <3>1 DEF InvInsertError, InvDbError, InvSteps
  <2>3. CASE UNCHANGED inventoryTables
    <3>1. stock' \in [Products -> Nat] /\ reservations' \in Seq(Rows) /\ reservations' = reservations
      BY <2>3 DEF InventoryTypeOK, inventoryTables
    <3> QED BY <1>11, <1>14, <2>1, <3>1 DEF InvInsertError, InvDbError, InvSteps
  <2> QED BY <1>14, <2>2, <2>3 DEF InvInsertError, InvDbError
<1>15. ASSUME NEW r \in Replicas, InvReleaseError(r) PROVE Typed
  <2>1. PICK pc \in {"rollback", "release"}, id \in NextHeld(r) :
          inv[r].pc = pc /\ InvDbError(r, pc, ReleaseReservation(id))
    BY <1>15 DEF InvReleaseError
  <2>2. id \in DOMAIN reservations
    BY DEF NextHeld, InventoryTypeOK
  <2>3. /\ stock' \in [Products -> Nat] /\ reservations' \in Seq(Rows)
        /\ DOMAIN reservations' = DOMAIN reservations
    BY <2>1, <2>2, ReleaseTyped DEF InvDbError, InventoryTypeOK, inventoryTables
  <2> QED BY <1>11, <2>1, <2>3 DEF InvDbError, InvSteps
<1>16. ASSUME NEW r \in Replicas, InvCrash(r) PROVE Typed
  <2>1. BusTypeOK' /\ log' = log
    BY <1>16, RejoinStep DEF InvCrash, Groups, Rejoin
  <2>2. WorkOK(InvIdle, DOMAIN reservations')
    BY DEF WorkOK, InvIdle, InvWorkers, InvSteps, Topics
  <2>3. InventoryTypeOK'
    BY <1>16, <2>2, WorkStep DEF InvCrash, InventoryTypeOK, inventoryTables
  <2> QED BY <1>1, <2>1, <2>3
<1>17. ASSUME InvRebalance PROVE Typed
  <2>1. BusTypeOK' /\ log' = log
    BY <1>17, RejoinStep DEF InvRebalance, Rebalance, Groups, Rejoin
  <2>2. InventoryTypeOK'
    BY <1>17 DEF InvRebalance, InventoryTypeOK, inventoryVars
  <2> QED BY <1>1, <2>1, <2>2
<1>18. ASSUME NEW product \in Products, NEW n \in StockLevels, UpsertStock(product, n) PROVE Typed
  <2>1. n \in Nat
    BY InventoryAssumption
  <2>2. BusTypeOK' /\ log' = log
    BY <1>18, DisturbStep DEF UpsertStock, BusTypeOK, offsets
  <2>3. InventoryTypeOK'
    BY <1>18, <2>1 DEF UpsertStock, InventoryTypeOK
  <2> QED BY <1>1, <2>2, <2>3
<1> HIDE DEF Typed
<1> QED BY <1>3, <1>4, <1>5, <1>6, <1>7, <1>8, <1>9, <1>10, <1>12, <1>13, <1>14, <1>15, <1>16, <1>17, <1>18
        DEF InventoryNext, InvStep, InvFault
-----------------------------------------------------------------------------
(* What a step of the service does to its tables and its workers *)

\* Replica r takes up work w.
Becomes(r, w) == inv' = [inv EXCEPT ![r] = w]

\* The work is new: nothing at all, or the first step of an event that was sent.
StartsOver(w) ==
  /\ w.held = {} /\ w.pc \in {"idle", "guard", "lookup"}
  /\ w.pc # "idle" => /\ w.topic \in Subscription["inventory-service"]
                      /\ w.pc = FirstStep(w.topic)
                      /\ SentFor(w.topic, w.order)

TakesStock(r) ==
  inv[r].pc = "decrement" /\ EnoughStock(CurrentItem(r)) /\ Decrement(CurrentItem(r))
RecordsRow(r) ==
  inv[r].pc = "insert" /\ InsertReservation(inv[r].order, CurrentItem(r))
GivesBack(r) ==
  /\ inv[r].pc \in {"rollback", "release"}
  /\ \E id \in inv[r].held : StillActive(id) /\ ReleaseReservation(id)
Untouched == UNCHANGED inventoryTables

\* A worker moves on and the tables stay as they are.
MovesOn(r, w) ==
  /\ w.order = inv[r].order /\ w.topic = inv[r].topic
  /\ \/ inv[r].pc = "guard" /\ w.pc = "decrement" /\ w.item = 1 /\ w.held = inv[r].held
     \/ inv[r].pc \in {"guard", "publishReserved", "publishFailed", "lookup"} /\ w.pc = "commit"
     \/ inv[r].pc = "decrement" /\ w.pc \in {"publishFailed", "rollback"} /\ w.held = inv[r].held
     \/ inv[r].pc = "lookup" /\ w.pc = "release" /\ w.held = ActiveRowsOf(inv[r].order)

\* A worker has dealt with one of the rows it is to release.
OneRowLess(r, w) ==
  /\ inv[r].pc \in {"rollback", "release"}
  /\ w.order = inv[r].order /\ w.topic = inv[r].topic
  /\ w.held \subseteq inv[r].held
  /\ w.pc \in {inv[r].pc, IF inv[r].pc = "rollback" THEN "publishFailed" ELSE "commit"}

\* A worker goes on to its next line, or to the outcome.
OneRowMore(r, w) ==
  /\ w.order = inv[r].order /\ w.topic = inv[r].topic
  /\ w.pc = IF LastLine(r) THEN "publishReserved" ELSE "decrement"
  /\ w.item = IF LastLine(r) THEN inv[r].item ELSE inv[r].item + 1
  /\ w.held = inv[r].held \cup {Len(reservations) + 1}

Effect ==
  \/ \E r \in Replicas : \E w :
       /\ Becomes(r, w) /\ StartsOver(w) /\ UNCHANGED supplied
       /\ Untouched \/ TakesStock(r) \/ RecordsRow(r) \/ GivesBack(r)
  \/ \E r \in Replicas :
       /\ Becomes(r, [inv[r] EXCEPT !.pc = "insert"]) /\ TakesStock(r) /\ UNCHANGED supplied
  \/ \E r \in Replicas : \E w :
       /\ Becomes(r, w) /\ OneRowMore(r, w) /\ RecordsRow(r) /\ UNCHANGED supplied
  \/ \E r \in Replicas : \E w :
       /\ Becomes(r, w) /\ OneRowLess(r, w) /\ UNCHANGED supplied
       /\ Untouched \/ GivesBack(r)
  \/ \E r \in Replicas : \E w :
       /\ Becomes(r, w) /\ MovesOn(r, w) /\ Untouched /\ UNCHANGED supplied
  \/ UNCHANGED <<inventoryTables, inv, supplied>>
  \/ \E product \in Products, n \in StockLevels : UpsertStock(product, n)

\* The topic a worker is on, whatever it does.
LEMMA WorkTopic ==
  ASSUME NEW r \in Replicas, InventoryTypeOK, WorksOnWhatWasSent, inv[r].pc # "idle"
  PROVE  inv[r].topic \in Subscription["inventory-service"] /\ SentFor(inv[r].topic, inv[r].order)
<1>1. inv[r].pc \in InvSteps
  BY DEF InventoryTypeOK, InvWorkers
<1>2. inv[r].pc \in OrderSteps \cup ReleaseSteps \cup {"commit"}
  BY <1>1 DEF InvSteps, OrderSteps, ReleaseSteps
<1> QED BY <1>2 DEF WorksOnWhatWasSent, Subscription, Groups

\* After a failed attempt a worker starts over.
LEMMA FailsStartsOver ==
  ASSUME NEW r \in Replicas, InventoryTypeOK, WorksOnWhatWasSent, inv[r].pc # "idle",
         InvAttemptFails(r)
  PROVE  \E w : Becomes(r, w) /\ StartsOver(w)
<1>1. inv[r] \in InvWorkers
  BY DEF InventoryTypeOK
<1>2. CASE inv[r].attempt < MaxAttempts
  <2> DEFINE w == [inv[r] EXCEPT !.pc = FirstStep(inv[r].topic), !.attempt = @ + 1,
                                 !.item = 0, !.held = {}]
  <2>1. /\ w.pc = FirstStep(inv[r].topic) /\ w.held = {}
        /\ w.topic = inv[r].topic /\ w.order = inv[r].order
    BY <1>1 DEF InvWorkers
  <2>2. Becomes(r, w)
    BY <1>2 DEF InvAttemptFails, Becomes
  <2> HIDE DEF w
  <2>3. StartsOver(w)
    BY <2>1, WorkTopic DEF StartsOver, FirstStep
  <2> QED BY <2>2, <2>3
<1>3. CASE ~(inv[r].attempt < MaxAttempts)
  <2>1. Becomes(r, InvIdle)
    BY <1>3 DEF InvAttemptFails, Becomes
  <2>2. StartsOver(InvIdle)
    BY DEF StartsOver, InvIdle
  <2> QED BY <2>1, <2>2
<1> QED BY <1>2, <1>3

\* A failing call has one of the effects its statement has, and the attempt fails.
LEMMA DbErrorEffect ==
  ASSUME NEW r \in Replicas, NEW pc, InventoryTypeOK, WorksOnWhatWasSent, inv[r].pc = pc,
         pc # "idle", InvAttemptFails(r), UNCHANGED supplied,
         Untouched \/ TakesStock(r) \/ RecordsRow(r) \/ GivesBack(r)
  PROVE  Effect
BY FailsStartsOver DEF Effect

\* Every step of the service is one of these.
LEMMA InventoryEffect ==
  ASSUME BusTypeOK, InventoryTypeOK, WorksOnWhatWasSent, InventoryNext
  PROVE  Effect
<1>1. ASSUME NEW r \in Replicas, NEW t \in Topics, NEW p \in Partitions, InvFetch(r, t, p)
      PROVE  Effect
  <2> DEFINE e == NextEvent("inventory-service", t, p)
             w == [InvIdle EXCEPT !.pc = FirstStep(t), !.topic = t, !.order = e.order,
                     !.offset = position["inventory-service"][t][p], !.attempt = 1]
  <2>1. t \in Subscription["inventory-service"] /\ e \in Sent(t)
    BY <1>1, FetchStep DEF InvFetch, Groups
  <2>2. Becomes(r, w)
    BY <1>1 DEF InvFetch, Becomes
  <2>3. w.pc = FirstStep(t) /\ w.topic = t /\ w.order = e.order /\ w.held = {}
    BY DEF InvIdle
  <2> HIDE DEF w
  <2>4. StartsOver(w)
    BY <2>1, <2>3 DEF StartsOver, FirstStep, SentFor
  <2>5. Untouched /\ UNCHANGED supplied
    BY <1>1 DEF InvFetch, Untouched, inventoryTables
  <2> QED BY <2>2, <2>4, <2>5 DEF Effect
<1>2. ASSUME NEW r \in Replicas, NEW w, Becomes(r, w), MovesOn(r, w), Untouched, UNCHANGED supplied
      PROVE  Effect
  BY <1>2 DEF Effect
<1>3. ASSUME NEW r \in Replicas, InvGuard(r) PROVE Effect
  <2> DEFINE new == AlreadyProcessed(inv[r].order)
             w == [inv[r] EXCEPT !.pc = IF new THEN "commit" ELSE "decrement",
                                 !.item = IF new THEN 0 ELSE 1]
  <2>1. inv[r] \in InvWorkers /\ inv[r].pc = "guard"
    BY <1>3 DEF InvGuard, InventoryTypeOK
  <2>2. Becomes(r, w)
    BY <1>3, <2>1 DEF InvGuard, InventoryTypeOK, Becomes
  <2>3. MovesOn(r, w)
    <3> HIDE DEF new
    <3> QED BY <2>1 DEF MovesOn, InvWorkers
  <2> HIDE DEF w
  <2> QED BY <1>2, <1>3, <2>2, <2>3 DEF InvGuard, Untouched
<1>4. ASSUME NEW r \in Replicas, InvDecrement(r) PROVE Effect
  <2>1. inv[r] \in InvWorkers /\ inv[r].pc = "decrement" /\ UNCHANGED supplied
    BY <1>4 DEF InvDecrement, InventoryTypeOK
  <2>2. CASE EnoughStock(CurrentItem(r))
    <3>1. TakesStock(r) /\ Becomes(r, [inv[r] EXCEPT !.pc = "insert"])
      BY <1>4, <2>1, <2>2 DEF InvDecrement, TakesStock, Becomes, InvGoto
    <3> QED BY <2>1, <3>1 DEF Effect
  <2>3. CASE ~EnoughStock(CurrentItem(r))
    <3>1. PICK pc \in {"publishFailed", "rollback"} : InvGoto(r, pc)
      BY <1>4, <2>3 DEF InvDecrement
    <3> DEFINE w == [inv[r] EXCEPT !.pc = pc]
    <3>2. Becomes(r, w)
      BY <3>1 DEF InvGoto, Becomes
    <3>3. MovesOn(r, w)
      BY <2>1 DEF MovesOn, InvWorkers
    <3> HIDE DEF w
    <3> QED BY <1>2, <1>4, <2>1, <2>3, <3>2, <3>3 DEF InvDecrement, Untouched
  <2> QED BY <2>2, <2>3
<1>5. ASSUME NEW r \in Replicas, InvInsert(r) PROVE Effect
  <2> DEFINE w == [inv[r] EXCEPT !.pc = IF LastLine(r) THEN "publishReserved" ELSE "decrement",
                                 !.item = IF LastLine(r) THEN @ ELSE @ + 1,
                                 !.held = @ \cup {Len(reservations) + 1}]
  <2>1. inv[r] \in InvWorkers
    BY DEF InventoryTypeOK
  <2>2. Becomes(r, w)
    BY <1>5, <2>1 DEF InvInsert, InventoryTypeOK, Becomes
  <2>3. OneRowMore(r, w)
    <3> HIDE DEF LastLine
    <3> QED BY <2>1 DEF OneRowMore, InvWorkers
  <2> HIDE DEF w
  <2>4. RecordsRow(r) /\ UNCHANGED supplied
    BY <1>5 DEF InvInsert, RecordsRow
  <2> QED BY <2>2, <2>3, <2>4 DEF Effect
<1>6. ASSUME NEW r \in Replicas, NEW pc \in {"publishReserved", "publishFailed"}, NEW topic, NEW reason,
             InvPublishOutcome(r, pc, topic, reason)
      PROVE  Effect
  <2>1. inv[r] \in InvWorkers /\ inv[r].pc = pc /\ Untouched /\ UNCHANGED supplied
    BY <1>6 DEF InvPublishOutcome, InventoryTypeOK, Untouched
  <2>2. CASE InvGoto(r, "commit")
    <3> DEFINE w == [inv[r] EXCEPT !.pc = "commit"]
    <3>1. Becomes(r, w)
      BY <2>2 DEF InvGoto, Becomes
    <3>2. MovesOn(r, w)
      BY <2>1 DEF MovesOn, InvWorkers
    <3> HIDE DEF w
    <3> QED BY <1>2, <2>1, <3>1, <3>2
  <2>3. CASE InvAttemptFails(r)
    BY <2>1, <2>3, DbErrorEffect
  <2> QED BY <1>6, <2>2, <2>3 DEF InvPublishOutcome
<1>7. ASSUME NEW r \in Replicas, InvLookup(r) PROVE Effect
  <2> DEFINE active == ActiveRowsOf(inv[r].order)
             w == [inv[r] EXCEPT !.pc = IF active = {} THEN "commit" ELSE "release", !.held = active]
  <2>1. inv[r] \in InvWorkers /\ inv[r].pc = "lookup" /\ Untouched /\ UNCHANGED supplied
    BY <1>7 DEF InvLookup, InventoryTypeOK, Untouched
  <2>2. Becomes(r, w)
    BY <1>7, <2>1 DEF InvLookup, InventoryTypeOK, Becomes
  <2>3. MovesOn(r, w)
    <3>1. /\ w.order = inv[r].order /\ w.topic = inv[r].topic /\ w.held = active
          /\ w.pc \in {"commit", "release"}
      <4> HIDE DEF active
      <4> QED BY <2>1 DEF InvWorkers
    <3> HIDE DEF w
    <3> QED BY <2>1, <3>1 DEF MovesOn
  <2> HIDE DEF w
  <2> QED BY <1>2, <2>1, <2>2, <2>3
<1>8. ASSUME NEW r \in Replicas, InvRelease(r) PROVE Effect
  <2>1. inv[r] \in InvWorkers /\ inv[r].pc \in {"rollback", "release"} /\ UNCHANGED supplied
    BY <1>8 DEF InvRelease, InventoryTypeOK
  <2>2. PICK id \in NextHeld(r) :
          /\ ReleaseReservation(id)
          /\ inv' = [inv EXCEPT ![r].held = @ \ {id},
                                ![r].pc = IF inv[r].held # {id} THEN @
                                          ELSE IF @ = "rollback" THEN "publishFailed"
                                          ELSE "commit"]
    BY <1>8 DEF InvRelease
  <2> DEFINE w == [inv[r] EXCEPT !.held = @ \ {id},
                                 !.pc = IF inv[r].held # {id} THEN @
                                        ELSE IF @ = "rollback" THEN "publishFailed"
                                        ELSE "commit"]
  <2>3. Becomes(r, w)
    BY <2>1, <2>2 DEF InventoryTypeOK, Becomes
  <2>4. OneRowLess(r, w)
    BY <2>1 DEF OneRowLess, InvWorkers
  <2> HIDE DEF w
  <2>5. Untouched \/ GivesBack(r)
    BY <2>1, <2>2 DEF NextHeld, ReleaseReservation, GivesBack, Untouched
  <2> QED BY <2>1, <2>3, <2>4, <2>5 DEF Effect
<1>9. ASSUME NEW r \in Replicas, inv' = [inv EXCEPT ![r] = InvIdle], Untouched, UNCHANGED supplied
      PROVE  Effect
  <2>1. StartsOver(InvIdle)
    BY DEF StartsOver, InvIdle
  <2> QED BY <1>9, <2>1 DEF Effect, Becomes
<1>10. ASSUME NEW r \in Replicas, InvCommit(r) \/ InvCrash(r) PROVE Effect
  BY <1>9, <1>10 DEF InvCommit, InvCrash, Untouched
<1>11. ASSUME NEW r \in Replicas, InvReadError(r) PROVE Effect
  <2>1. PICK pc \in {"guard", "lookup"} : InvDbError(r, pc, FALSE)
    BY <1>11 DEF InvReadError
  <2> QED BY <2>1, DbErrorEffect DEF InvDbError, Untouched
<1>12. ASSUME NEW r \in Replicas, InvDecrementError(r) PROVE Effect
  BY <1>12, DbErrorEffect DEF InvDecrementError, InvDbError, TakesStock, Untouched
<1>13. ASSUME NEW r \in Replicas, InvInsertError(r) PROVE Effect
  BY <1>13, DbErrorEffect DEF InvInsertError, InvDbError, RecordsRow, Untouched
<1>14. ASSUME NEW r \in Replicas, InvReleaseError(r) PROVE Effect
  <2>1. PICK pc \in {"rollback", "release"}, id \in NextHeld(r) :
          inv[r].pc = pc /\ InvDbError(r, pc, ReleaseReservation(id))
    BY <1>14 DEF InvReleaseError
  <2>2. Untouched \/ GivesBack(r)
    BY <2>1 DEF InvDbError, NextHeld, ReleaseReservation, GivesBack, Untouched
  <2> QED BY <2>1, <2>2, DbErrorEffect DEF InvDbError
<1>15. ASSUME InvRebalance PROVE Effect
  BY <1>15 DEF InvRebalance, inventoryVars, inventoryTables, Effect
<1>16. ASSUME NEW product \in Products, NEW n \in StockLevels, UpsertStock(product, n) PROVE Effect
  BY <1>16 DEF Effect
<1> HIDE DEF Effect
<1> QED BY <1>1, <1>3, <1>4, <1>5, <1>6, <1>7, <1>8, <1>10, <1>11, <1>12, <1>13, <1>14, <1>15, <1>16
        DEF InventoryNext, InvStep, InvFault, InvPublishReserved, InvPublishFailed

-----------------------------------------------------------------------------
(* What that means for one row, for one worker and for what is sent *)

\* A row stays what it is, but for being released by a replica that has it at hand.
LEMMA RowChange ==
  ASSUME InventoryTypeOK, Effect, NEW id \in DOMAIN reservations
  PROVE  /\ id \in DOMAIN reservations'
         /\ \/ reservations'[id] = reservations[id]
            \/ /\ reservations'[id] = [reservations[id] EXCEPT !.status = "released"]
               /\ \E r \in Replicas : inv[r].pc \in {"rollback", "release"} /\ id \in inv[r].held
<1> DEFINE Goal == /\ id \in DOMAIN reservations'
                   /\ \/ reservations'[id] = reservations[id]
                      \/ /\ reservations'[id] = [reservations[id] EXCEPT !.status = "released"]
                         /\ \E r \in Replicas : inv[r].pc \in {"rollback", "release"} /\ id \in inv[r].held
<1> SUFFICES Goal
  OBVIOUS
<1>1. reservations \in Seq(Rows)
  BY DEF InventoryTypeOK
<1>2. ASSUME reservations' = reservations PROVE Goal
  BY <1>2
<1>3. ASSUME NEW r \in Replicas, RecordsRow(r) PROVE Goal
  <2> DEFINE row == [order |-> inv[r].order, product |-> CurrentItem(r).product,
                     quantity |-> CurrentItem(r).quantity, status |-> "active"]
  <2>1. reservations' = Append(reservations, row)
    BY <1>3 DEF RecordsRow, InsertReservation
  <2> HIDE DEF row
  <2> QED BY <1>1, <2>1
<1>4. ASSUME NEW r \in Replicas, GivesBack(r) PROVE Goal
  <2>1. PICK i \in inv[r].held : StillActive(i) /\ ReleaseReservation(i)
    BY <1>4 DEF GivesBack
  <2>2. reservations' = [reservations EXCEPT ![i].status = "released"]
    BY <2>1 DEF ReleaseReservation
  <2>3. CASE id = i
    BY <1>1, <1>4, <2>2, <2>3 DEF GivesBack
  <2>4. CASE id # i
    BY <1>1, <2>2, <2>4
  <2> QED BY <2>3, <2>4
<1> HIDE DEF Goal
<1> QED BY <1>2, <1>3, <1>4 DEF Effect, Untouched, TakesStock, Decrement, inventoryTables, UpsertStock

\* One worker at a time: it starts over, or goes on as its handler does.
LEMMA WorkerChange ==
  ASSUME InventoryTypeOK, Effect, NEW r \in Replicas, inv'[r] # inv[r]
  PROVE  /\ \A s \in Replicas \ {r} : inv'[s] = inv[s]
         /\ \/ StartsOver(inv'[r])
            \/ inv[r].pc = "decrement" /\ inv'[r] = [inv[r] EXCEPT !.pc = "insert"]
            \/ OneRowMore(r, inv'[r]) /\ RecordsRow(r)
            \/ OneRowLess(r, inv'[r])
            \/ MovesOn(r, inv'[r])
<1>1. ASSUME NEW s \in Replicas, NEW w, Becomes(s, w)
      PROVE  s = r /\ inv'[r] = w /\ \A q \in Replicas \ {r} : inv'[q] = inv[q]
  BY <1>1 DEF Becomes, InventoryTypeOK
<1>2. ~UNCHANGED inv
  OBVIOUS
<1> QED BY <1>1, <1>2 DEF Effect, UpsertStock, TakesStock

\* The rows a replica may roll back become no more, but for the row it has just recorded.
LEMMA MineChange ==
  ASSUME InventoryTypeOK, HoldsItsRows, Effect, NEW r \in Replicas
  PROVE  \/ Mine(r)' \subseteq Mine(r)
         \/ /\ inv'[r] # inv[r]
            /\ Mine(r)' \subseteq Mine(r) \cup {Len(reservations) + 1}
<1>1. CASE inv'[r] = inv[r]
  BY <1>1 DEF Mine
<1>2. CASE inv'[r] # inv[r]
  <2>1. CASE StartsOver(inv'[r])
    BY <2>1 DEF StartsOver, Mine
  <2>2. CASE inv[r].pc = "decrement" /\ inv'[r] = [inv[r] EXCEPT !.pc = "insert"]
    <3>1. inv'[r].held = inv[r].held
      BY <2>2 DEF InventoryTypeOK, InvWorkers
    <3> QED BY <2>2, <3>1 DEF Mine
  <2>3. CASE OneRowMore(r, inv'[r]) /\ RecordsRow(r)
    BY <1>2, <2>3 DEF OneRowMore, RecordsRow, Mine
  <2>4. CASE OneRowLess(r, inv'[r])
    BY <2>4 DEF OneRowLess, Mine
  <2>5. CASE MovesOn(r, inv'[r])
    BY <2>5 DEF MovesOn, HoldsItsRows, Mine
  <2> QED BY <1>2, <2>1, <2>2, <2>3, <2>4, <2>5, WorkerChange
<1> QED BY <1>1, <1>2

\* An outcome is sent by a replica that has it to publish, and that has then left the
\* handler or starts it over.
LEMMA OutcomeSentBy ==
  ASSUME BusTypeOK, InventoryTypeOK, InventoryNext,
         NEW u \in InventoryTopics, NEW e \in Sent(u)', e \notin Sent(u)
  PROVE  /\ e.order \in Orders /\ UNCHANGED inventoryTables
         /\ \E r \in Replicas :
              /\ inv[r].order = e.order
              /\ inv[r].pc = IF u = "inventory.reserved" THEN "publishReserved" ELSE "publishFailed"
              /\ inv'[r].pc \in {"commit", "guard", "lookup", "idle"}
              /\ \A s \in Replicas \ {r} : inv'[s] = inv[s]
<1>1. log' # log
  BY SilentStep
<1>2. ASSUME NEW r \in Replicas, NEW pc, NEW topic \in InventoryTopics, NEW reason \in Reasons,
             pc \in InvSteps \ {"idle"}, InvPublishOutcome(r, pc, topic, reason)
      PROVE  /\ topic = u /\ e.order = inv[r].order /\ inv[r].pc = pc /\ e.order \in Orders
             /\ UNCHANGED inventoryTables
             /\ inv'[r].pc \in {"commit", "guard", "lookup", "idle"}
             /\ \A s \in Replicas \ {r} : inv'[s] = inv[s]
  <2> DEFINE f == Event(inv[r].order, 0, reason)
  <2>1. inv[r] \in InvWorkers /\ inv[r].order \in Orders /\ inv[r].pc = pc
    BY <1>2 DEF InventoryTypeOK, InvPublishOutcome
  <2>2. f \in Events /\ f.order = inv[r].order
    BY <2>1 DEF Events, Event
  <2>3. (Acknowledged(topic, f) \/ Unacknowledged(topic, f)) /\ UNCHANGED offsets
        /\ UNCHANGED inventoryTables
    BY <1>2 DEF InvPublishOutcome
  <2>4. topic \in Topics /\ u \in Topics
    BY DEF InventoryTopics, Topics
  <2> HIDE DEF f
  <2>5. /\ Sent(topic)' \subseteq Sent(topic) \cup {f}
        /\ \A v \in Topics \ {topic} : Sent(v)' = Sent(v)
    BY <2>2, <2>3, <2>4, PublishStep
  <2>6. topic = u
    BY <2>4, <2>5
  <2>7. e = f
    BY <2>5, <2>6
  <2>8. /\ inv'[r].pc \in {"commit", "guard", "lookup", "idle"}
        /\ \A s \in Replicas \ {r} : inv'[s] = inv[s]
    <3>1. CASE InvGoto(r, "commit")
      BY <2>1, <3>1 DEF InvGoto, InventoryTypeOK, InvWorkers
    <3>2. CASE InvAttemptFails(r)
      <4>1. \E w : inv' = [inv EXCEPT ![r] = w] /\ w.pc \in {"guard", "lookup", "idle"}
        <5>1. CASE inv[r].attempt < MaxAttempts
          <6> DEFINE w == [inv[r] EXCEPT !.pc = FirstStep(inv[r].topic), !.attempt = @ + 1,
                                         !.item = 0, !.held = {}]
          <6>1. w.pc = FirstStep(inv[r].topic)
            BY <2>1 DEF InvWorkers
          <6>2. inv' = [inv EXCEPT ![r] = w]
            BY <3>2, <5>1 DEF InvAttemptFails
          <6> HIDE DEF w
          <6> QED BY <6>1, <6>2 DEF FirstStep
        <5>2. CASE ~(inv[r].attempt < MaxAttempts)
          <6>1. inv' = [inv EXCEPT ![r] = InvIdle]
            BY <3>2, <5>2 DEF InvAttemptFails
          <6>2. InvIdle.pc = "idle"
            BY DEF InvIdle
          <6> QED BY <6>1, <6>2
        <5> QED BY <5>1, <5>2
      <4> QED BY <4>1 DEF InventoryTypeOK
    <3> QED BY <1>2, <3>1, <3>2 DEF InvPublishOutcome
  <2> QED BY <2>1, <2>2, <2>3, <2>6, <2>7, <2>8
<1>3. \E r \in Replicas : InvPublishReserved(r) \/ InvPublishFailed(r)
  BY <1>1 DEF InventoryNext, InvStep, InvFault, InvFetch, InvGuard, InvDecrement, InvInsert, InvLookup,
    InvRelease, InvCommit, InvReadError, InvDecrementError, InvInsertError, InvReleaseError, InvDbError,
    InvCrash, InvRebalance, Rebalance, Rejoin, UpsertStock, busVars
<1>4. ASSUME NEW r \in Replicas, InvPublishReserved(r)
      PROVE  InvPublishOutcome(r, "publishReserved", "inventory.reserved", "none")
  BY <1>4 DEF InvPublishReserved
<1>5. ASSUME NEW r \in Replicas, InvPublishFailed(r)
      PROVE  InvPublishOutcome(r, "publishFailed", "inventory.failed", "insufficient stock")
  BY <1>5 DEF InvPublishFailed
<1>6. /\ "inventory.reserved" \in InventoryTopics /\ "inventory.failed" \in InventoryTopics
      /\ "none" \in Reasons /\ "insufficient stock" \in Reasons
      /\ "publishReserved" \in InvSteps \ {"idle"} /\ "publishFailed" \in InvSteps \ {"idle"}
      /\ "inventory.reserved" # "inventory.failed"
  BY DEF InventoryTopics, Reasons, InvSteps
<1>7. ASSUME NEW r \in Replicas, InvPublishReserved(r)
      PROVE  /\ u = "inventory.reserved" /\ e.order = inv[r].order /\ inv[r].pc = "publishReserved"
             /\ e.order \in Orders /\ UNCHANGED inventoryTables
             /\ inv'[r].pc \in {"commit", "guard", "lookup", "idle"}
             /\ \A s \in Replicas \ {r} : inv'[s] = inv[s]
  BY <1>2, <1>4, <1>6, <1>7
<1>8. ASSUME NEW r \in Replicas, InvPublishFailed(r)
      PROVE  /\ u = "inventory.failed" /\ e.order = inv[r].order /\ inv[r].pc = "publishFailed"
             /\ e.order \in Orders /\ UNCHANGED inventoryTables
             /\ inv'[r].pc \in {"commit", "guard", "lookup", "idle"}
             /\ \A s \in Replicas \ {r} : inv'[s] = inv[s]
  BY <1>2, <1>5, <1>6, <1>8
<1> QED BY <1>3, <1>6, <1>7, <1>8

\* A step of the service keeps what its workers rely on.
LEMMA WorkInvStep ==
  ASSUME BusTypeOK, InventoryTypeOK, WorkInv, InventoryNext
  PROVE  WorkInv'
<1>1. /\ \A u \in Topics : Sent(u) \subseteq Sent(u)'
      /\ \A u \in Topics \ InventoryTopics : Sent(u)' = Sent(u)
      /\ InventoryTypeOK'
  BY InventoryTyped
<1>2. Effect /\ WorksOnWhatWasSent /\ HoldsItsRows /\ OutcomeFollowsCreated /\ RowsAreApart
  BY InventoryEffect DEF WorkInv
<1>3. ASSUME NEW t \in Topics, NEW o, SentFor(t, o) PROVE SentFor(t, o)'
  BY <1>1, <1>3 DEF SentFor
<1>4. WorksOnWhatWasSent'
  <2>1. ASSUME NEW r \in Replicas, NEW t, NEW o, inv'[r].topic = t, inv'[r].order = o
        PROVE  /\ inv'[r].pc # "idle" => SentFor(t, o)'
               /\ inv'[r].pc \in OrderSteps => t = "order.created"
               /\ inv'[r].pc \in ReleaseSteps => t = "payment.failed"
               /\ inv'[r].pc = "commit" => t \in Subscription["inventory-service"]
    <3>1. t \in Topics
      BY <1>1, <2>1 DEF InventoryTypeOK, InvWorkers
    <3>2. /\ inv'[r].pc # "idle" => SentFor(t, o)
          /\ inv'[r].pc \in OrderSteps => t = "order.created"
          /\ inv'[r].pc \in ReleaseSteps => t = "payment.failed"
          /\ inv'[r].pc = "commit" => t \in Subscription["inventory-service"]
      <4>1. CASE inv'[r] = inv[r]
        BY <1>2, <2>1, <4>1 DEF WorksOnWhatWasSent
      <4>2. CASE inv'[r] # inv[r]
        <5>1. CASE StartsOver(inv'[r])
          BY <2>1, <5>1 DEF StartsOver, FirstStep, OrderSteps, ReleaseSteps, Subscription, Groups
        <5>2. ASSUME inv[r].pc # "idle", t = inv[r].topic, o = inv[r].order
              PROVE  SentFor(t, o) /\ t \in Subscription["inventory-service"]
          BY <1>2, <5>2, WorkTopic
        <5>3. CASE inv[r].pc = "decrement" /\ inv'[r] = [inv[r] EXCEPT !.pc = "insert"]
          <6>1. inv'[r].pc = "insert" /\ t = inv[r].topic /\ o = inv[r].order
            BY <2>1, <5>3 DEF InventoryTypeOK, InvWorkers
          <6> QED BY <1>2, <5>2, <5>3, <6>1 DEF WorksOnWhatWasSent, OrderSteps, ReleaseSteps
        <5>4. CASE OneRowMore(r, inv'[r]) /\ RecordsRow(r)
          <6>1. /\ inv[r].pc = "insert" /\ inv'[r].pc \in {"publishReserved", "decrement"}
                /\ t = inv[r].topic /\ o = inv[r].order
            BY <2>1, <5>4 DEF OneRowMore, RecordsRow
          <6> QED BY <1>2, <5>2, <6>1 DEF WorksOnWhatWasSent, OrderSteps, ReleaseSteps
        <5>5. CASE OneRowLess(r, inv'[r])
          <6>1. /\ t = inv[r].topic /\ o = inv[r].order
                /\ \/ inv[r].pc = "rollback" /\ inv'[r].pc \in {"rollback", "publishFailed"}
                   \/ inv[r].pc = "release" /\ inv'[r].pc \in {"release", "commit"}
            BY <2>1, <5>5 DEF OneRowLess
          <6> QED BY <1>2, <5>2, <6>1 DEF WorksOnWhatWasSent, OrderSteps, ReleaseSteps
        <5>6. CASE MovesOn(r, inv'[r])
          <6>1. /\ t = inv[r].topic /\ o = inv[r].order
                /\ \/ inv[r].pc \in OrderSteps /\ inv'[r].pc \in OrderSteps \cup {"commit"}
                   \/ inv[r].pc \in ReleaseSteps /\ inv'[r].pc \in {"release", "commit"}
            BY <2>1, <5>6 DEF MovesOn, OrderSteps, ReleaseSteps
          <6>2. inv[r].pc # "idle"
            BY <6>1 DEF OrderSteps, ReleaseSteps
          <6> QED BY <1>2, <5>2, <6>1, <6>2 DEF WorksOnWhatWasSent, OrderSteps, ReleaseSteps
        <5> QED BY <1>2, <4>2, <5>1, <5>3, <5>4, <5>5, <5>6, WorkerChange
      <4> QED BY <4>1, <4>2
    <3> QED BY <1>3, <3>1, <3>2
  <2> QED BY <2>1 DEF WorksOnWhatWasSent
<1>5. HoldsItsRows'
  <2>1. ASSUME NEW r \in Replicas
        PROVE  /\ inv'[r].pc = "guard" => inv'[r].held = {}
               /\ inv'[r].pc = "release" =>
                    \A id \in inv'[r].held : reservations'[id].order = inv'[r].order
    <3>1. ASSUME NEW id \in DOMAIN reservations PROVE reservations'[id].order = reservations[id].order
      <4>1. reservations[id] \in Rows
        BY DEF InventoryTypeOK
      <4>2. \/ reservations'[id] = reservations[id]
            \/ reservations'[id] = [reservations[id] EXCEPT !.status = "released"]
        BY <1>2, RowChange
      <4> QED BY <4>1, <4>2 DEF Rows
    <3>2. inv[r].held \subseteq DOMAIN reservations
      BY DEF InventoryTypeOK
    <3>3. CASE inv'[r] = inv[r]
      BY <1>2, <3>1, <3>2, <3>3 DEF HoldsItsRows
    <3>4. CASE inv'[r] # inv[r]
      <4>1. CASE StartsOver(inv'[r])
        BY <4>1 DEF StartsOver
      <4>2. CASE inv[r].pc = "decrement" /\ inv'[r] = [inv[r] EXCEPT !.pc = "insert"]
        BY <4>2 DEF InventoryTypeOK, InvWorkers
      <4>3. CASE OneRowMore(r, inv'[r]) /\ RecordsRow(r)
        BY <4>3 DEF OneRowMore
      <4>4. CASE OneRowLess(r, inv'[r])
        BY <1>2, <3>1, <3>2, <4>4 DEF OneRowLess, HoldsItsRows
      <4>5. CASE MovesOn(r, inv'[r])
        BY <3>1, <4>5 DEF MovesOn, ActiveRowsOf, RowsOf
      <4> QED BY <1>2, <3>4, <4>1, <4>2, <4>3, <4>4, <4>5, WorkerChange
    <3> QED BY <3>3, <3>4
  <2> QED BY <2>1 DEF HoldsItsRows
<1>6. OutcomeFollowsCreated'
  <2>1. "order.created" \in Topics /\ InventoryTopics \subseteq Topics
    BY DEF Topics, InventoryTopics
  <2>2. ASSUME NEW u \in InventoryTopics, NEW e \in Sent(u)' PROVE SentFor("order.created", e.order)
    <3>1. CASE e \in Sent(u)
      BY <1>2, <3>1 DEF OutcomeFollowsCreated
    <3>2. CASE e \notin Sent(u)
      <4>1. PICK r \in Replicas : inv[r].order = e.order /\ inv[r].pc \in {"publishReserved", "publishFailed"}
        BY <3>2, OutcomeSentBy
      <4> QED BY <1>2, <4>1 DEF WorksOnWhatWasSent, OrderSteps
    <3> QED BY <3>1, <3>2
  <2> QED BY <1>3, <2>1, <2>2 DEF OutcomeFollowsCreated
<1>7. RowsAreApart'
  <2> SUFFICES ASSUME NEW r \in Replicas, NEW s \in Replicas, r # s
               PROVE  Mine(r)' \cap Mine(s)' = {}
    BY DEF RowsAreApart
  <2>1. Len(reservations) + 1 \notin Mine(r) \cup Mine(s)
    <3>1. inv[r].held \subseteq DOMAIN reservations /\ inv[s].held \subseteq DOMAIN reservations
      BY DEF InventoryTypeOK
    <3>2. Len(reservations) + 1 \notin DOMAIN reservations
      BY DEF InventoryTypeOK
    <3> QED BY <3>1, <3>2 DEF Mine
  <2>2. inv'[r] = inv[r] \/ inv'[s] = inv[s]
    BY <1>2, WorkerChange
  <2>3. Mine(r) \cap Mine(s) = {}
    BY <1>2 DEF RowsAreApart
  <2>4. /\ \/ Mine(r)' \subseteq Mine(r)
           \/ /\ inv'[r] # inv[r]
              /\ Mine(r)' \subseteq Mine(r) \cup {Len(reservations) + 1}
        /\ \/ Mine(s)' \subseteq Mine(s)
           \/ /\ inv'[s] # inv[s]
              /\ Mine(s)' \subseteq Mine(s) \cup {Len(reservations) + 1}
    BY <1>2, MineChange
  <2> QED BY <2>1, <2>2, <2>3, <2>4
<1> QED BY <1>4, <1>5, <1>6, <1>7 DEF WorkInv

\* The other services only add to what was sent on the topics that are not inventory's.
LEMMA WorkFrame ==
  ASSUME InventoryTypeOK, WorkInv, UNCHANGED inventoryVars,
         \A u \in Topics : Sent(u) \subseteq Sent(u)',
         \A u \in InventoryTopics : Sent(u)' = Sent(u)
  PROVE  WorkInv'
<1> USE DEF inventoryVars
<1>1. ASSUME NEW t \in Topics, NEW o, SentFor(t, o) PROVE SentFor(t, o)'
  BY <1>1 DEF SentFor
<1>2. \A r \in Replicas : inv[r].topic \in Topics
  BY DEF InventoryTypeOK, InvWorkers
<1>3. WorksOnWhatWasSent'
  BY <1>1, <1>2 DEF WorkInv, WorksOnWhatWasSent
<1>4. HoldsItsRows' /\ RowsAreApart'
  BY DEF WorkInv, HoldsItsRows, RowsAreApart, Mine
<1>5. OutcomeFollowsCreated'
  BY <1>1 DEF WorkInv, OutcomeFollowsCreated, Topics
<1> QED BY <1>3, <1>4, <1>5 DEF WorkInv

-----------------------------------------------------------------------------
(* Where the units are *)

\* What a line is of a product.
Share(item, product) == IF item.product = product THEN item.quantity ELSE 0

\* What Reserved and InHand are the sums of.
RowUnits(product) == [id \in ActiveRows(product) |-> reservations[id].quantity]
HandUnits(product) == [r \in Takers(product) |-> CurrentItem(r).quantity]

\* How many units more there are than were supplied: none, says NoOversell.
Excess(product) == stock[product] + Reserved(product) + InHand(product) - supplied[product]

\* No worker is taken out of its loop over the lines, as a crash or a database error does.
NobodyInterrupted ==
  \A r \in Replicas : ~(inv[r].pc \in {"decrement", "insert"} /\ inv'[r].pc \in {"idle", "guard", "lookup"})

\* The sums are numbers.
LEMMA UnitsSummable ==
  ASSUME InventoryTypeOK, NEW product
  PROVE  /\ Summable(RowUnits(product)) /\ Reserved(product) \in Nat
         /\ Summable(HandUnits(product)) /\ InHand(product) \in Nat
<1>1. Summable(RowUnits(product))
  <2>1. reservations \in Seq(Rows)
    BY DEF InventoryTypeOK
  <2>2. IsFiniteSet(DOMAIN reservations)
    <3>1. IsFiniteSet(1..Len(reservations))
      BY <2>1, FS_Interval
    <3> QED BY <2>1, <3>1
  <2>3. IsFiniteSet(ActiveRows(product))
    BY <2>2, FS_Subset DEF ActiveRows
  <2>4. \A id \in ActiveRows(product) : reservations[id].quantity \in Nat
    <3>1. \A id \in DOMAIN reservations : reservations[id] \in Rows
      BY <2>1
    <3>2. \A row \in Rows : row.quantity \in Nat
      BY DEF Rows
    <3> QED BY <3>1, <3>2 DEF ActiveRows
  <2> QED BY <2>3, <2>4 DEF Summable, RowUnits
<1>2. Summable(HandUnits(product))
  <2>1. IsFiniteSet(Takers(product))
    BY BusAssumption, FS_Subset DEF Takers
  <2>2. \A r \in Takers(product) : CurrentItem(r).quantity \in Nat
    BY CurrentItemTyped DEF Takers
  <2> QED BY <2>1, <2>2 DEF Summable, HandUnits
<1>3. Reserved(product) = SumOf(RowUnits(product)) /\ InHand(product) = SumOf(HandUnits(product))
  BY DEF Reserved, RowUnits, InHand, HandUnits
<1> QED BY <1>1, <1>2, <1>3, SumType

\* The share of a worker's line is a number.
LEMMA ShareTyped ==
  ASSUME InventoryTypeOK, NEW r \in Replicas, inv[r].pc \in {"decrement", "insert"}, NEW product
  PROVE  Share(CurrentItem(r), product) \in Nat
BY CurrentItemTyped DEF Share

\* A worker takes its line from the stock.
LEMMA TakeUnits ==
  ASSUME InventoryTypeOK, NEW r \in Replicas, TakesStock(r), NEW product \in Products
  PROVE  /\ stock'[product] = stock[product] - Share(CurrentItem(r), product)
         /\ Reserved(product)' = Reserved(product)
<1>1. CurrentItem(r).product \in Products /\ CurrentItem(r).quantity \in Nat
  BY CurrentItemTyped DEF TakesStock
<1>2. /\ stock' = [stock EXCEPT ![CurrentItem(r).product] = @ - CurrentItem(r).quantity]
      /\ reservations' = reservations
  BY DEF TakesStock, Decrement
<1>3. Reserved(product)' = Reserved(product)
  BY <1>2 DEF Reserved, ActiveRows
<1>4. stock'[product] = stock[product] - Share(CurrentItem(r), product)
  BY <1>1, <1>2 DEF InventoryTypeOK, Share
<1> QED BY <1>3, <1>4

\* A worker records its line.
LEMMA RecordUnits ==
  ASSUME InventoryTypeOK, NEW r \in Replicas, RecordsRow(r), NEW product \in Products
  PROVE  /\ stock' = stock
         /\ Reserved(product)' = Reserved(product) + Share(CurrentItem(r), product)
<1> DEFINE id == Len(reservations) + 1
           item == CurrentItem(r)
           row == [order |-> inv[r].order, product |-> item.product,
                   quantity |-> item.quantity, status |-> "active"]
           p == RowUnits(product)
           q == RowUnits(product)'
<1>1. item.product \in Products /\ item.quantity \in Nat
  BY CurrentItemTyped DEF RecordsRow
<1>2. reservations' = Append(reservations, row) /\ stock' = stock
  BY DEF RecordsRow, InsertReservation
<1>3. row.product = item.product /\ row.quantity = item.quantity /\ row.status = "active"
  OBVIOUS
<1>4. reservations \in Seq(Rows)
  BY DEF InventoryTypeOK
<1> HIDE DEF row, item
<1>5. /\ DOMAIN reservations' = DOMAIN reservations \cup {id} /\ id \notin DOMAIN reservations
      /\ reservations'[id] = row
      /\ \A i \in DOMAIN reservations : reservations'[i] = reservations[i]
  BY <1>2, <1>4
<1>6. Reserved(product) = SumOf(p) /\ Reserved(product)' = SumOf(q)
  BY DEF Reserved, RowUnits
<1>7. DOMAIN p = ActiveRows(product) /\ \A i \in ActiveRows(product) : p[i] = reservations[i].quantity
  BY DEF RowUnits
<1>8. DOMAIN q = ActiveRows(product)' /\ \A i \in ActiveRows(product)' : q[i] = reservations'[i].quantity
  BY DEF RowUnits
<1>9. Summable(p)
  BY UnitsSummable
<1> HIDE DEF id, p, q
<1>10. CASE item.product = product
  <2>1. ActiveRows(product)' = ActiveRows(product) \cup {id} /\ id \notin ActiveRows(product)
    BY <1>3, <1>5, <1>10 DEF ActiveRows
  <2>2. q[id] = item.quantity
    BY <1>3, <1>5, <1>8, <2>1
  <2>3. \A i \in DOMAIN p : q[i] = p[i]
    BY <1>5, <1>7, <1>8, <2>1 DEF ActiveRows
  <2>4. SumOf(q) = SumOf(p) + q[id]
    BY <1>1, <1>7, <1>8, <1>9, <2>1, <2>2, <2>3, SumAdd
  <2> QED BY <1>2, <1>6, <1>10, <2>2, <2>4 DEF Share, item
<1>11. CASE item.product # product
  <2>1. ActiveRows(product)' = ActiveRows(product)
    BY <1>3, <1>5, <1>11 DEF ActiveRows
  <2>2. \A i \in DOMAIN p : p[i] = q[i]
    BY <1>5, <1>7, <1>8, <2>1 DEF ActiveRows
  <2>3. SumOf(q) = SumOf(p) /\ SumOf(p) \in Nat
    BY <1>7, <1>8, <1>9, <2>1, <2>2, SumSame, SumType
  <2> QED BY <1>2, <1>6, <1>11, <2>3 DEF Share, item
<1> QED BY <1>10, <1>11

\* A released row's units are back on the shelf, once.
LEMMA ReleaseUnits ==
  ASSUME InventoryTypeOK, NEW r \in Replicas, GivesBack(r), NEW product \in Products
  PROVE  /\ Reserved(product)' \in Nat
         /\ stock'[product] + Reserved(product)' = stock[product] + Reserved(product)
<1>1. PICK id \in inv[r].held : StillActive(id) /\ ReleaseReservation(id)
  BY DEF GivesBack
<1>2. /\ reservations' = [reservations EXCEPT ![id].status = "released"]
      /\ stock' = [stock EXCEPT ![reservations[id].product] = @ + reservations[id].quantity]
  BY <1>1 DEF ReleaseReservation
<1>3. /\ reservations \in Seq(Rows) /\ id \in DOMAIN reservations /\ reservations[id] \in Rows
      /\ reservations[id].status = "active"
  BY <1>1 DEF InventoryTypeOK, StillActive
<1>4. reservations[id].product \in Products /\ reservations[id].quantity \in Nat
  BY <1>3 DEF Rows
<1> DEFINE p == RowUnits(product)'
           q == RowUnits(product)
<1>5. /\ DOMAIN reservations' = DOMAIN reservations
      /\ \A i \in DOMAIN reservations : i # id => reservations'[i] = reservations[i]
      /\ reservations'[id].status = "released"
  BY <1>2, <1>3 DEF Rows
<1>6. Reserved(product)' = SumOf(p) /\ Reserved(product) = SumOf(q)
  BY DEF Reserved, RowUnits
<1>7. DOMAIN q = ActiveRows(product) /\ \A i \in ActiveRows(product) : q[i] = reservations[i].quantity
  BY DEF RowUnits
<1>8. DOMAIN p = ActiveRows(product)' /\ \A i \in ActiveRows(product)' : p[i] = reservations'[i].quantity
  BY DEF RowUnits
<1>9. Summable(q) /\ Summable(p)
  <2>1. Summable(q)
    BY UnitsSummable
  <2>2. ActiveRows(product)' \subseteq ActiveRows(product)
    BY <1>5 DEF ActiveRows
  <2>3. \A i \in ActiveRows(product)' : i # id
    BY <1>5 DEF ActiveRows
  <2>4. \A i \in ActiveRows(product)' : p[i] = q[i]
    BY <1>5, <1>7, <1>8, <2>2, <2>3 DEF ActiveRows
  <2>5. IsFiniteSet(DOMAIN p)
    BY <1>7, <1>8, <2>1, <2>2, FS_Subset DEF Summable
  <2> QED BY <1>7, <1>8, <2>1, <2>2, <2>4, <2>5 DEF Summable
<1>10. SumOf(p) \in Nat /\ SumOf(q) \in Nat
  BY <1>9, SumType
<1> HIDE DEF p, q
<1>11. CASE reservations[id].product = product
  <2>1. ActiveRows(product) = ActiveRows(product)' \cup {id} /\ id \notin ActiveRows(product)'
    BY <1>3, <1>5, <1>11 DEF ActiveRows
  <2>2. q[id] = reservations[id].quantity
    BY <1>7, <2>1
  <2>3. \A i \in DOMAIN p : q[i] = p[i]
    BY <1>5, <1>7, <1>8, <2>1 DEF ActiveRows
  <2>4. SumOf(q) = SumOf(p) + q[id]
    BY <1>4, <1>7, <1>8, <1>9, <2>1, <2>2, <2>3, SumAdd
  <2>5. stock'[product] = stock[product] + reservations[id].quantity /\ stock[product] \in Nat
    BY <1>2, <1>11 DEF InventoryTypeOK
  <2> QED BY <1>4, <1>6, <1>10, <2>2, <2>4, <2>5
<1>12. CASE reservations[id].product # product
  <2>1. ActiveRows(product)' = ActiveRows(product)
    BY <1>5, <1>12 DEF ActiveRows
  <2>2. \A i \in DOMAIN p : p[i] = q[i]
    BY <1>5, <1>7, <1>8, <1>12, <2>1 DEF ActiveRows
  <2>3. SumOf(p) = SumOf(q)
    BY <1>7, <1>8, <2>1, <2>2, SumSame
  <2>4. stock'[product] = stock[product]
    BY <1>2, <1>12 DEF InventoryTypeOK
  <2> QED BY <1>6, <1>10, <2>3, <2>4
<1> QED BY <1>6, <1>10, <1>11, <1>12

\* A worker that takes units has them in hand.
LEMMA HandTakes ==
  ASSUME InventoryTypeOK, InventoryTypeOK', NEW r \in Replicas, NEW product,
         inv[r].pc = "decrement", inv' = [inv EXCEPT ![r].pc = "insert"]
  PROVE  InHand(product)' = InHand(product) + Share(CurrentItem(r), product)
<1> DEFINE p == HandUnits(product)
           q == HandUnits(product)'
<1>1. /\ inv'[r].pc = "insert" /\ inv'[r].order = inv[r].order /\ inv'[r].item = inv[r].item
      /\ \A s \in Replicas \ {r} : inv'[s] = inv[s]
  BY DEF InventoryTypeOK, InvWorkers
<1>2. \A s \in Replicas : CurrentItem(s)' = CurrentItem(s)
  BY <1>1 DEF CurrentItem
<1>3. InHand(product) = SumOf(p) /\ InHand(product)' = SumOf(q)
  BY DEF InHand, HandUnits
<1>4. DOMAIN p = Takers(product) /\ \A s \in Takers(product) : p[s] = CurrentItem(s).quantity
  BY DEF HandUnits
<1>5. /\ DOMAIN q = Takers(product)'
      /\ \A s \in Takers(product)' : q[s] = CurrentItem(s)'.quantity
  BY DEF HandUnits
<1>6. \A s \in Takers(product)' : q[s] = CurrentItem(s).quantity
  BY <1>2, <1>5 DEF Takers
<1>7. Summable(p) /\ CurrentItem(r).quantity \in Nat /\ Share(CurrentItem(r), product) \in Nat
  BY UnitsSummable, CurrentItemTyped, ShareTyped
<1>8. \A s \in Replicas :
        s \in Takers(product)' <=> inv'[s].pc = "insert" /\ CurrentItem(s).product = product
  BY <1>2 DEF Takers
<1> HIDE DEF p, q
<1>9. CASE CurrentItem(r).product = product
  <2>1. Takers(product)' = Takers(product) \cup {r} /\ r \notin Takers(product)
    <3>1. Takers(product)' \subseteq Replicas
      BY DEF Takers
    <3> QED BY <1>1, <1>8, <1>9, <3>1 DEF Takers
  <2>2. q[r] = CurrentItem(r).quantity /\ \A s \in DOMAIN p : q[s] = p[s]
    BY <1>4, <1>6, <2>1
  <2>3. SumOf(q) = SumOf(p) + q[r]
    BY <1>4, <1>5, <1>7, <2>1, <2>2, SumAdd
  <2> QED BY <1>3, <1>9, <2>2, <2>3 DEF Share
<1>10. CASE CurrentItem(r).product # product
  <2>1. Takers(product)' = Takers(product)
    <3>1. Takers(product)' \subseteq Replicas
      BY DEF Takers
    <3> QED BY <1>1, <1>8, <1>10, <3>1 DEF Takers
  <2>2. SumOf(p) = SumOf(q) /\ SumOf(p) \in Nat
    BY <1>4, <1>5, <1>6, <1>7, <2>1, SumSame, SumType
  <2> QED BY <1>3, <1>10, <2>2 DEF Share
<1> QED BY <1>9, <1>10

\* A worker that leaves the insert has its units in hand no more.
LEMMA HandLeaves ==
  ASSUME InventoryTypeOK, NEW r \in Replicas, NEW w, NEW product,
         inv[r].pc = "insert", w.pc # "insert", Becomes(r, w)
  PROVE  /\ InHand(product)' \in Nat
         /\ InHand(product) = InHand(product)' + Share(CurrentItem(r), product)
<1> DEFINE p == HandUnits(product)'
           q == HandUnits(product)
<1>1. inv'[r].pc # "insert" /\ \A s \in Replicas \ {r} : inv'[s] = inv[s]
  BY DEF InventoryTypeOK, Becomes
<1>2. \A s \in Replicas \ {r} : CurrentItem(s)' = CurrentItem(s)
  BY <1>1 DEF CurrentItem
<1>3. InHand(product) = SumOf(q) /\ InHand(product)' = SumOf(p)
  BY DEF InHand, HandUnits
<1>4. DOMAIN q = Takers(product) /\ \A s \in Takers(product) : q[s] = CurrentItem(s).quantity
  BY DEF HandUnits
<1>5. /\ DOMAIN p = Takers(product)'
      /\ \A s \in Takers(product)' : p[s] = CurrentItem(s)'.quantity
  BY DEF HandUnits
<1>6. Takers(product)' = Takers(product) \ {r}
  <2>1. Takers(product)' \subseteq Replicas \ {r}
    BY <1>1 DEF Takers
  <2>2. \A s \in Replicas \ {r} : s \in Takers(product)' <=> s \in Takers(product)
    BY <1>1, <1>2 DEF Takers
  <2> QED BY <2>1, <2>2 DEF Takers
<1>7. \A s \in Takers(product)' : p[s] = q[s]
  BY <1>2, <1>4, <1>5, <1>6 DEF Takers
<1>8. Summable(q) /\ CurrentItem(r).quantity \in Nat /\ Share(CurrentItem(r), product) \in Nat
  BY UnitsSummable, CurrentItemTyped, ShareTyped
<1> HIDE DEF p, q
<1>9. Summable(p)
  <2>1. IsFiniteSet(DOMAIN p)
    BY <1>4, <1>5, <1>6, <1>8, FS_Subset DEF Summable
  <2> QED BY <1>4, <1>5, <1>6, <1>7, <1>8, <2>1 DEF Summable
<1>10. SumOf(p) \in Nat
  BY <1>9, SumType
<1>11. CASE CurrentItem(r).product = product
  <2>1. r \in Takers(product) /\ q[r] = CurrentItem(r).quantity
    BY <1>4, <1>11 DEF Takers
  <2>2. SumOf(q) = SumOf(p) + q[r]
    BY <1>4, <1>5, <1>6, <1>7, <1>8, <1>9, <2>1, SumAdd
  <2>3. InHand(product) = InHand(product)' + CurrentItem(r).quantity
    BY <1>3, <2>1, <2>2
  <2> QED BY <1>3, <1>10, <1>11, <2>3 DEF Share
<1>12. CASE CurrentItem(r).product # product
  <2>1. r \notin Takers(product)
    BY <1>12 DEF Takers
  <2>2. SumOf(p) = SumOf(q) /\ SumOf(p) \in Nat
    BY <1>4, <1>5, <1>6, <1>7, <1>9, <2>1, SumSame, SumType
  <2> QED BY <1>3, <1>12, <2>2 DEF Share
<1> QED BY <1>3, <1>11, <1>12, <1>10

\* Nothing comes into or out of a hand when no worker arrives at or leaves an insert.
LEMMA HandStays ==
  ASSUME InventoryTypeOK, NEW r \in Replicas, NEW w, NEW product,
         inv[r].pc # "insert", w.pc # "insert", Becomes(r, w)
  PROVE  InHand(product)' = InHand(product)
<1>1. inv'[r].pc # "insert" /\ \A s \in Replicas \ {r} : inv'[s] = inv[s]
  BY DEF InventoryTypeOK, Becomes
<1>2. \A s \in Replicas \ {r} : CurrentItem(s)' = CurrentItem(s)
  BY <1>1 DEF CurrentItem
<1>3. Takers(product)' = Takers(product)
  <2>1. \A s \in Replicas : s \in Takers(product)' <=> s \in Takers(product)
    BY <1>1, <1>2 DEF Takers
  <2> QED BY <2>1 DEF Takers
<1>4. HandUnits(product)' = HandUnits(product)
  <2>1. \A s \in Takers(product) : CurrentItem(s)'.quantity = CurrentItem(s).quantity
    BY <1>2 DEF Takers
  <2> QED BY <1>3, <2>1 DEF HandUnits
<1> QED BY <1>4 DEF InHand, HandUnits

\* No step makes units: it loses some at most, and only where a worker is interrupted.
LEMMA ExcessStep ==
  ASSUME InventoryTypeOK, InventoryTypeOK', Effect, NEW product \in Products
  PROVE  /\ Excess(product) \in Int /\ Excess(product)' \in Int
         /\ Excess(product)' <= Excess(product)
         /\ NobodyInterrupted => Excess(product)' = Excess(product)
<1> DEFINE Goal == /\ Excess(product) \in Int /\ Excess(product)' \in Int
                   /\ Excess(product)' <= Excess(product)
                   /\ NobodyInterrupted => Excess(product)' = Excess(product)
<1> SUFFICES Goal
  OBVIOUS
<1>1. /\ stock[product] \in Nat /\ stock'[product] \in Nat
      /\ supplied[product] \in Int /\ supplied'[product] \in Int
  BY DEF InventoryTypeOK
<1>2. Reserved(product) \in Nat /\ InHand(product) \in Nat
  BY UnitsSummable
<1>3. /\ Excess(product) = stock[product] + Reserved(product) + InHand(product) - supplied[product]
      /\ Excess(product)' =
           stock'[product] + Reserved(product)' + InHand(product)' - supplied'[product]
  BY DEF Excess
<1> HIDE DEF Excess
<1>4. ASSUME reservations' = reservations PROVE Reserved(product)' = Reserved(product)
  BY <1>4 DEF Reserved, ActiveRows
<1>5. ASSUME inv' = inv PROVE InHand(product)' = InHand(product)
  BY <1>5 DEF InHand, Takers, CurrentItem
<1>6. ASSUME Untouched PROVE stock'[product] = stock[product] /\ Reserved(product)' = Reserved(product)
  BY <1>4, <1>6 DEF Untouched, inventoryTables
<1>7. ASSUME NEW r \in Replicas, GivesBack(r)
      PROVE  /\ inv[r].pc # "insert" /\ Reserved(product)' \in Nat
             /\ stock'[product] + Reserved(product)' = stock[product] + Reserved(product)
  BY <1>7, ReleaseUnits DEF GivesBack
<1>8. ASSUME NEW r \in Replicas, NEW w, Becomes(r, w), w.pc # "insert", inv[r].pc # "insert",
             UNCHANGED supplied, Untouched \/ GivesBack(r)
      PROVE  Goal
  <2>1. InHand(product)' = InHand(product)
    BY <1>8, HandStays
  <2> QED BY <1>1, <1>2, <1>3, <1>6, <1>7, <1>8, <2>1
<1>9. ASSUME NEW r \in Replicas, NEW w, Becomes(r, w), w.pc # "insert", RecordsRow(r), UNCHANGED supplied
      PROVE  Goal
  <2>1. /\ InHand(product)' \in Nat
        /\ InHand(product) = InHand(product)' + Share(CurrentItem(r), product)
    BY <1>9, HandLeaves DEF RecordsRow
  <2>2. /\ stock' = stock
        /\ Reserved(product)' = Reserved(product) + Share(CurrentItem(r), product)
    BY <1>9, RecordUnits
  <2>3. Share(CurrentItem(r), product) \in Nat
    BY <1>9, ShareTyped DEF RecordsRow
  <2> QED BY <1>1, <1>2, <1>3, <1>9, <2>1, <2>2, <2>3
<1>10. ASSUME NEW r \in Replicas, NEW w, Becomes(r, w), StartsOver(w), UNCHANGED supplied,
              Untouched \/ TakesStock(r) \/ RecordsRow(r) \/ GivesBack(r)
       PROVE  Goal
  <2>1. w.pc # "insert"
    BY <1>10 DEF StartsOver
  <2>2. NobodyInterrupted => inv[r].pc \notin {"decrement", "insert"}
    <3>1. inv'[r].pc \in {"idle", "guard", "lookup"}
      BY <1>10 DEF Becomes, StartsOver, InventoryTypeOK
    <3> QED BY <3>1 DEF NobodyInterrupted
  <2>3. CASE RecordsRow(r)
    BY <1>9, <1>10, <2>1, <2>3
  <2>4. CASE GivesBack(r)
    BY <1>7, <1>8, <1>10, <2>1, <2>4
  <2>5. CASE TakesStock(r)
    <3>1. InHand(product)' = InHand(product)
      BY <1>10, <2>1, <2>5, HandStays DEF TakesStock
    <3>2. /\ stock'[product] = stock[product] - Share(CurrentItem(r), product)
          /\ Reserved(product)' = Reserved(product)
      BY <2>5, TakeUnits
    <3>3. Share(CurrentItem(r), product) \in Nat /\ inv[r].pc = "decrement"
      BY <2>5, ShareTyped DEF TakesStock
    <3> QED BY <1>1, <1>2, <1>3, <1>10, <2>2, <3>1, <3>2, <3>3
  <2>6. CASE Untouched /\ inv[r].pc # "insert"
    BY <1>8, <1>10, <2>1, <2>6
  <2>7. CASE Untouched /\ inv[r].pc = "insert"
    <3>1. /\ InHand(product)' \in Nat
          /\ InHand(product) = InHand(product)' + Share(CurrentItem(r), product)
      BY <1>10, <2>1, <2>7, HandLeaves
    <3>2. Share(CurrentItem(r), product) \in Nat
      BY <2>7, ShareTyped
    <3> QED BY <1>1, <1>2, <1>3, <1>6, <1>10, <2>2, <2>7, <3>1, <3>2
  <2> QED BY <1>10, <2>3, <2>4, <2>5, <2>6, <2>7
<1>11. ASSUME NEW r \in Replicas, Becomes(r, [inv[r] EXCEPT !.pc = "insert"]), TakesStock(r),
              UNCHANGED supplied
       PROVE  Goal
  <2>1. inv' = [inv EXCEPT ![r].pc = "insert"] /\ inv[r].pc = "decrement"
    BY <1>11 DEF Becomes, TakesStock
  <2>2. InHand(product)' = InHand(product) + Share(CurrentItem(r), product)
    BY <2>1, HandTakes
  <2>3. /\ stock'[product] = stock[product] - Share(CurrentItem(r), product)
        /\ Reserved(product)' = Reserved(product)
    BY <1>11, TakeUnits
  <2>4. Share(CurrentItem(r), product) \in Nat
    BY <2>1, ShareTyped
  <2> QED BY <1>1, <1>2, <1>3, <1>11, <2>2, <2>3, <2>4
<1>12. ASSUME NEW r \in Replicas, NEW w, Becomes(r, w), OneRowMore(r, w), RecordsRow(r), UNCHANGED supplied
       PROVE  Goal
  <2>1. w.pc # "insert"
    BY <1>12 DEF OneRowMore
  <2> QED BY <1>9, <1>12, <2>1
<1>13. ASSUME NEW r \in Replicas, NEW w, Becomes(r, w), OneRowLess(r, w), UNCHANGED supplied,
              Untouched \/ GivesBack(r)
       PROVE  Goal
  <2>1. w.pc # "insert" /\ inv[r].pc # "insert"
    BY <1>13 DEF OneRowLess
  <2> QED BY <1>8, <1>13, <2>1
<1>14. ASSUME NEW r \in Replicas, NEW w, Becomes(r, w), MovesOn(r, w), Untouched, UNCHANGED supplied
       PROVE  Goal
  <2>1. w.pc # "insert" /\ inv[r].pc # "insert"
    BY <1>14 DEF MovesOn
  <2> QED BY <1>8, <1>14, <2>1
<1>15. ASSUME UNCHANGED <<inventoryTables, inv, supplied>> PROVE Goal
  BY <1>1, <1>2, <1>3, <1>5, <1>6, <1>15 DEF Untouched
<1>16. ASSUME NEW p \in Products, NEW n \in StockLevels, UpsertStock(p, n) PROVE Goal
  <2>1. stock'[product] - supplied'[product] = stock[product] - supplied[product]
    <3>1. n \in Nat
      BY InventoryAssumption
    <3>2. /\ stock' = [stock EXCEPT ![p] = n]
          /\ supplied' = [supplied EXCEPT ![p] = @ + n - stock[p]]
      BY <1>16 DEF UpsertStock
    <3>3. CASE p = product
      BY <1>1, <3>1, <3>2, <3>3 DEF InventoryTypeOK
    <3>4. CASE p # product
      BY <3>2, <3>4 DEF InventoryTypeOK
    <3> QED BY <3>3, <3>4
  <2>2. Reserved(product)' = Reserved(product) /\ InHand(product)' = InHand(product)
    BY <1>4, <1>5, <1>16 DEF UpsertStock
  <2> QED BY <1>1, <1>2, <1>3, <2>1, <2>2
<1> HIDE DEF Goal
<1> QED BY <1>10, <1>11, <1>12, <1>13, <1>14, <1>15, <1>16 DEF Effect

\* Only a crash or a database error interrupts a worker between its lines.
LEMMA InterruptedByFaults ==
  ASSUME InventoryTypeOK, InventoryNext, Disturbances \cap {"crash", "dbError"} = {}
  PROVE  NobodyInterrupted
<1> SUFFICES ASSUME NEW r \in Replicas, inv[r].pc \in {"decrement", "insert"},
                    inv'[r].pc \in {"idle", "guard", "lookup"}
             PROVE  FALSE
  BY DEF NobodyInterrupted
<1>1. inv \in [Replicas -> InvWorkers]
  BY DEF InventoryTypeOK
<1>2. ~Disturb("crash") /\ ~Disturb("dbError")
  BY DEF Disturb
<1>3. ASSUME NEW s \in Replicas, InvFault(s) PROVE FALSE
  BY <1>2, <1>3 DEF InvFault, InvReadError, InvDecrementError, InvInsertError, InvReleaseError,
    InvDbError, InvCrash
<1>4. ASSUME NEW s \in Replicas, NEW w, inv' = [inv EXCEPT ![s] = w],
             inv[s].pc \notin {"decrement", "insert"}
      PROVE  FALSE
  BY <1>1, <1>4
<1>5. ASSUME NEW s \in Replicas, NEW w, inv' = [inv EXCEPT ![s] = w],
             w.pc \notin {"idle", "guard", "lookup"}
      PROVE  FALSE
  BY <1>1, <1>5
<1>6. ASSUME inv' = inv PROVE FALSE
  BY <1>6
<1>7. ASSUME NEW s \in Replicas, InvDecrement(s) PROVE FALSE
  <2>1. PICK pc \in {"insert", "publishFailed", "rollback"} : InvGoto(s, pc)
    BY <1>7 DEF InvDecrement
  <2> DEFINE w == [inv[s] EXCEPT !.pc = pc]
  <2>2. inv' = [inv EXCEPT ![s] = w]
    BY <2>1 DEF InvGoto
  <2>3. w.pc = pc
    BY <1>1 DEF InvWorkers
  <2> HIDE DEF w
  <2> QED BY <1>5, <2>2, <2>3
<1>8. ASSUME NEW s \in Replicas, InvInsert(s) PROVE FALSE
  <2>1. PICK pc \in {"publishReserved", "decrement"} : \E item, held :
          inv' = [inv EXCEPT ![s].pc = pc, ![s].item = item, ![s].held = held]
    BY <1>8 DEF InvInsert
  <2>2. inv'[s].pc = pc /\ (s # r => inv'[r] = inv[r])
    BY <1>1, <2>1 DEF InvWorkers
  <2> QED BY <2>2
<1>9. ASSUME NEW s \in Replicas, InvStep(s) PROVE FALSE
  <2>1. CASE \E t \in Topics, p \in Partitions : InvFetch(s, t, p)
    BY <1>4, <2>1 DEF InvFetch
  <2>2. CASE InvGuard(s)
    BY <1>1, <2>2 DEF InvGuard
  <2>3. CASE InvPublishReserved(s) \/ InvPublishFailed(s)
    BY <1>1, <2>3 DEF InvPublishReserved, InvPublishFailed, InvPublishOutcome, InvGoto, InvAttemptFails
  <2>4. CASE InvLookup(s) \/ InvRelease(s)
    BY <1>1, <2>4 DEF InvLookup, InvRelease
  <2>5. CASE InvCommit(s)
    BY <1>4, <2>5 DEF InvCommit
  <2> QED BY <1>7, <1>8, <1>9, <2>1, <2>2, <2>3, <2>4, <2>5 DEF InvStep
<1> QED BY <1>3, <1>6, <1>9 DEF InventoryNext, InvRebalance, UpsertStock, inventoryVars

-----------------------------------------------------------------------------
\* There are never more units than were supplied.
NoExcess == \A product \in Products : Excess(product) <= 0

\* Initially everything supplied is on the shelf.
LEMMA ExcessInitially ==
  ASSUME InventoryInit, NEW product \in Products
  PROVE  Excess(product) = 0
<1>1. Reserved(product) = 0
  <2>1. DOMAIN RowUnits(product) = {}
    BY DEF InventoryInit, RowUnits, ActiveRows
  <2> QED BY <2>1, SumEmpty DEF Reserved, RowUnits
<1>2. InHand(product) = 0
  <2>1. DOMAIN HandUnits(product) = {}
    BY DEF InventoryInit, InvIdle, HandUnits, Takers
  <2> QED BY <2>1, SumEmpty DEF InHand, HandUnits
<1>3. stock[product] = supplied[product] /\ stock[product] \in Nat
  BY InventoryAssumption DEF InventoryInit
<1> QED BY <1>1, <1>2, <1>3 DEF Excess

\* Initially nothing was sent and nobody works.
LEMMA InventoryInitially ==
  ASSUME BusInit, InventoryInit
  PROVE  InventoryTypeOK /\ FailedIsShort /\ WorkInv
<1>1. \A u \in Topics : Sent(u) = {}
  BY BusInitially
<1>2. InventoryTypeOK
  BY InventoryAssumption DEF InventoryInit, InventoryTypeOK, InvIdle, InvWorkers, InvSteps, Topics
<1>3. FailedIsShort
  BY <1>1 DEF FailedIsShort, Topics
<1>4. \A r \in Replicas : inv[r].pc = "idle"
  BY DEF InventoryInit, InvIdle
<1>5. WorkInv
  BY <1>1, <1>4 DEF WorkInv, WorksOnWhatWasSent, HoldsItsRows, OutcomeFollowsCreated, RowsAreApart,
    Mine, OrderSteps, ReleaseSteps, InventoryTopics, Topics
<1> QED BY <1>2, <1>3, <1>5

\* A step of the service makes no units.
LEMMA NoExcessStep ==
  ASSUME BusTypeOK, InventoryTypeOK, WorkInv, NoExcess, InventoryNext
  PROVE  NoExcess'
<1>1. InventoryTypeOK'
  BY InventoryTyped
<1>2. Effect
  BY InventoryEffect DEF WorkInv
<1>3. ASSUME NEW product \in Products PROVE Excess(product)' <= 0
  <2>1. /\ Excess(product) \in Int /\ Excess(product)' \in Int
        /\ Excess(product)' <= Excess(product)
    BY <1>1, <1>2, ExcessStep
  <2>2. Excess(product) <= 0
    BY DEF NoExcess
  <2> QED BY <2>1, <2>2
<1> QED BY <1>3 DEF NoExcess

\* Where it is never interrupted, it loses none either.
LEMMA ExactStep ==
  ASSUME BusTypeOK, InventoryTypeOK, WorkInv, InventoryNext,
         Disturbances \cap {"crash", "dbError"} = {}, NEW product \in Products
  PROVE  Excess(product)' = Excess(product)
<1>1. InventoryTypeOK'
  BY InventoryTyped
<1>2. Effect
  BY InventoryEffect DEF WorkInv
<1>3. NobodyInterrupted
  BY InterruptedByFaults
<1> QED BY <1>1, <1>2, <1>3, ExcessStep

\* Units move in steps of the service only.
LEMMA ExcessFrame ==
  ASSUME UNCHANGED inventoryVars, NEW product
  PROVE  Excess(product)' = Excess(product)
BY DEF Excess, Reserved, ActiveRows, InHand, Takers, CurrentItem, inventoryVars

\* The excess is what the two properties of the stock speak of.
LEMMA ExcessTells ==
  ASSUME InventoryTypeOK
  PROVE  /\ NoExcess => NoOversell
         /\ (\A product \in Products : Excess(product) = 0) => StockConserved
<1> SUFFICES ASSUME NEW product \in Products
             PROVE  /\ Excess(product) <= 0 =>
                         /\ stock[product] >= 0
                         /\ stock[product] + Reserved(product) + InHand(product) <= supplied[product]
                    /\ Excess(product) = 0 =>
                         stock[product] + Reserved(product) + InHand(product) = supplied[product]
  BY DEF NoExcess, NoOversell, StockConserved
<1>1. stock[product] \in Nat /\ supplied[product] \in Int
  BY DEF InventoryTypeOK
<1>2. Reserved(product) \in Nat /\ InHand(product) \in Nat
  BY UnitsSummable
<1> QED BY <1>1, <1>2 DEF Excess
=============================================================================
