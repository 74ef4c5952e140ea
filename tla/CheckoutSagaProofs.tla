-------------------------- MODULE CheckoutSagaProofs --------------------------
(***************************************************************************)
(* What holds of the checkout saga for any orders, products, replicas,     *)
(* partitions, assignments and number of disturbances.                     *)
(***************************************************************************)
EXTENDS CheckoutSaga, InventoryProofs, PaymentProofs

-----------------------------------------------------------------------------
(* The order service *)

OrderTopics == {"order.created", "order.confirmed", "order.cancelled"}

\* What a replica is handling was sent on the topic it was read from.
HandlesWhatWasSent ==
  \A r \in Replicas, t \in Topics : ord[r].pc = "handle" /\ ord[r].topic = t =>
    \E e \in Sent(t) : e.order = ord[r].order /\ e.reason = ord[r].reason

\* What a replica is about to announce is the terminal row it has written.
AnnouncesItsRow ==
  \A r \in Replicas : ord[r].pc = "publish" =>
    /\ ord[r].topic # "inventory.reserved"
    /\ orders[ord[r].order] = TransitionRow(ord[r].topic, ord[r].reason)

\* A request that has not reached the database has no order.
ReceivedHasNoRow == \A o \in Orders : request[o] = "received" => orders[o] = NoRow

\* An order whose request passed the insert, or that was announced, is in the table.
CreatedHasRow ==
  \A o \in Orders :
    request[o] \in {"inserted", "published", "created"} \/ SentFor("order.created", o)
      => Status(o) # "none"

\* An order is moved on only by an inventory.reserved of its own.
ReservedWasSent ==
  \A o \in Orders :
    Status(o) \in {"inventory_reserved", "confirmed"} => SentFor("inventory.reserved", o)

\* AnnouncementsAgree is not inductive: it needs to know what will be announced,
\* and that no request overwrites a row.
OrderInv == HandlesWhatWasSent /\ AnnouncesItsRow /\ ReceivedHasNoRow /\ AnnouncementsAgree

-----------------------------------------------------------------------------
\* A terminal transition writes a terminal row.
LEMMA TransitionRows ==
  ASSUME NEW t \in Subscription["order-service"], NEW reason \in Reasons
  PROVE  /\ TransitionRow(t, reason) \in OrderRows
         /\ TransitionRow(t, reason).status # "none"
         /\ t # "inventory.reserved" => TransitionRow(t, reason).status \in Terminal
BY DEF Subscription, Groups, TransitionRow, OrderRows, Statuses, Reasons, Terminal

\* What a replica makes of its next event is well-typed and was sent.
LEMMA OrdReadStep ==
  ASSUME NEW r \in Replicas, NEW t, NEW p \in Partitions, BusTypeOK, OrderTypeOK, OrdRead(r, t, p)
  PROVE  /\ BusTypeOK'
         /\ ord' = ord \/ \E w \in OrdWorkers :
              /\ ord' = [ord EXCEPT ![r] = w]
              /\ w.pc = "handle" /\ w.order \in Orders /\ w.topic \in Subscription["order-service"]
              /\ \E e \in Sent(w.topic) : e.order = w.order /\ e.reason = w.reason
<1> DEFINE e == NextEvent("order-service", t, p)
           w == [pc |-> "handle", topic |-> t, order |-> e.order, reason |-> e.reason]
<1>1. /\ t \in Topics /\ t \in Subscription["order-service"]
      /\ e \in Events /\ e \in Sent(t)
      /\ position["order-service"][t][p] \in Nat
  BY FetchStep DEF OrdRead, Groups
<1>2. position' \in Offsets /\ committed' \in Offsets
  <2>1. position' \in Offsets
    BY <1>1, OffsetSteps DEF OrdRead, Groups
  <2>2. position["order-service"][t][p] + 1 \in Nat
    BY <1>1
  <2>3. Commit("order-service", t, p, position["order-service"][t][p] + 1) => committed' \in Offsets
    BY <1>1, <2>2, OffsetSteps DEF Groups
  <2> QED BY <2>1, <2>3 DEF OrdRead, BusTypeOK
<1>3. disturbances' \in 0..MaxDisturbances
  BY DisturbStep DEF OrdRead, BusTypeOK
<1>4. BusTypeOK'
  BY <1>2, <1>3 DEF OrdRead, BusTypeOK
<1>5. ord' = ord \/ ord' = [ord EXCEPT ![r] = w]
  BY DEF OrdRead
<1>6. /\ w \in OrdWorkers
      /\ w.pc = "handle" /\ w.order \in Orders /\ w.topic \in Subscription["order-service"]
      /\ w.topic = t /\ e.order = w.order /\ e.reason = w.reason
  <2>1. e.order \in Orders /\ e.reason \in Reasons
    BY <1>1 DEF Events
  <2> HIDE DEF e
  <2> QED BY <1>1, <2>1 DEF OrdWorkers
<1> HIDE DEF w, e
<1> QED BY <1>1, <1>4, <1>5, <1>6

\* A step of the service keeps its types and those of the bus, and sends events of
\* its own topics only.
LEMMA OrderTyped ==
  ASSUME BusTypeOK, OrderTypeOK, OrderNext
  PROVE  /\ BusTypeOK' /\ OrderTypeOK'
         /\ \A u \in Topics : Sent(u) \subseteq Sent(u)'
         /\ \A u \in Topics \ OrderTopics : Sent(u)' = Sent(u)
<1> DEFINE Typed == /\ BusTypeOK' /\ OrderTypeOK'
                    /\ \A u \in Topics : Sent(u) \subseteq Sent(u)'
                    /\ \A u \in Topics \ OrderTopics : Sent(u)' = Sent(u)
<1> SUFFICES Typed
  OBVIOUS
<1>1. ASSUME NEW r \in Replicas, NEW t \in Topics, NEW p \in Partitions, OrdRead(r, t, p)
      PROVE  Typed
  <2>1. OrderTypeOK'
    BY <1>1, OrdReadStep DEF OrdRead, OrderTypeOK
  <2> QED BY <1>1, <2>1, OrdReadStep, SilentStep DEF OrdRead
<1>2. ASSUME NEW r \in Replicas, OrdHandle(r) \/ OrdHandleError(r) PROVE Typed
  <2>1. /\ ord[r] \in OrdWorkers /\ ord[r].order \in Orders
        /\ ord[r].topic \in Subscription["order-service"] /\ ord[r].reason \in Reasons
    BY <1>2 DEF OrderTypeOK, OrdHandle, OrdHandleError, OrdWorkers
  <2>2. TransitionRow(ord[r].topic, ord[r].reason) \in OrderRows
    BY <2>1, TransitionRows
  <2>3. Transition(r) => orders' \in [Orders -> OrderRows]
    BY <2>1, <2>2 DEF Transition, OrderTypeOK
  <2>4. orders' \in [Orders -> OrderRows]
    BY <1>2, <2>3 DEF OrdHandle, OrdHandleError, OrderTypeOK
  <2>5. ord' = [ord EXCEPT ![r] = OrdIdle] \/ ord' = [ord EXCEPT ![r].pc = "publish"]
    BY <1>2 DEF OrdHandle, OrdHandleError, OrderTypeOK
  <2>6. /\ ord' \in [Replicas -> OrdWorkers]
        /\ \A s \in Replicas : ord'[s].pc # "idle" =>
             ord'[s].order \in Orders /\ ord'[s].topic \in Subscription["order-service"]
    <3>1. OrdIdle \in OrdWorkers /\ OrdIdle.pc = "idle"
      BY DEF OrdIdle, OrdWorkers, Topics, Reasons
    <3>2. /\ [ord[r] EXCEPT !.pc = "publish"] \in OrdWorkers
          /\ [ord[r] EXCEPT !.pc = "publish"].order = ord[r].order
          /\ [ord[r] EXCEPT !.pc = "publish"].topic = ord[r].topic
      BY <2>1 DEF OrdWorkers
    <3>3. ord' = [ord EXCEPT ![r] = OrdIdle] \/ ord' = [ord EXCEPT ![r] = [ord[r] EXCEPT !.pc = "publish"]]
      BY <2>5
    <3> QED BY <2>1, <3>1, <3>2, <3>3 DEF OrderTypeOK
  <2>7. BusTypeOK' /\ log' = log /\ UNCHANGED <<request, cart>>
    BY <1>2, DisturbStep DEF OrdHandle, OrdHandleError, BusTypeOK, busVars, offsets
  <2> QED BY <2>4, <2>6, <2>7, SilentStep DEF OrderTypeOK
<1>3. ASSUME NEW r \in Replicas, OrdPublish(r) PROVE Typed
  <2> DEFINE a == Announcement(r)
  <2>1. ord[r] \in OrdWorkers /\ ord[r].order \in Orders
    BY <1>3 DEF OrderTypeOK, OrdPublish
  <2>2. Total[ord[r].order] \in Nat
    BY <2>1, OrderAssumption
  <2>3. a[1] \in OrderTopics /\ a[1] \in Topics /\ a[2] \in Events
    BY <2>1, <2>2 DEF Announcement, OrderTopics, Topics, Events, Event, Reasons, OrdWorkers
  <2>4. (Acknowledged(a[1], a[2]) \/ Unacknowledged(a[1], a[2])) /\ UNCHANGED offsets
    BY <1>3 DEF OrdPublish
  <2> HIDE DEF a
  <2>5. BusTypeOK' /\ (\A u \in Topics : Sent(u) \subseteq Sent(u)')
    BY <2>3, <2>4, PublishStep
  <2>6. \A u \in Topics \ OrderTopics : Sent(u)' = Sent(u)
    BY <2>3, <2>4, PublishStep
  <2>7. OrderTypeOK'
    BY <1>3 DEF OrderTypeOK, OrdPublish, OrdIdle, OrdWorkers, Topics, Reasons
  <2> QED BY <2>5, <2>6, <2>7
<1>4. ASSUME NEW o \in Orders, PublishCreated(o) PROVE Typed
  <2> DEFINE e == Event(o, Total[o], "none")
  <2>1. e \in Events
    BY OrderAssumption DEF Events, Event, Reasons
  <2>2. (Acknowledged("order.created", e) \/ Unacknowledged("order.created", e)) /\ UNCHANGED offsets
    BY <1>4 DEF PublishCreated
  <2> HIDE DEF e
  <2>3. "order.created" \in Topics /\ "order.created" \in OrderTopics
    BY DEF Topics, OrderTopics
  <2>4. BusTypeOK' /\ (\A u \in Topics : Sent(u) \subseteq Sent(u)')
    BY <2>1, <2>2, <2>3, PublishStep
  <2>5. \A u \in Topics \ OrderTopics : Sent(u)' = Sent(u)
    BY <2>1, <2>2, <2>3, PublishStep
  <2>6. OrderTypeOK'
    BY <1>4 DEF OrderTypeOK, PublishCreated
  <2> QED BY <2>4, <2>5, <2>6
<1>5. ASSUME NEW o \in Orders, CreateOrderRow(o) \/ CreateOrderFails(o) \/ DeleteCart(o)
      PROVE  Typed
  <2>1. BusTypeOK' /\ log' = log
    BY <1>5, DisturbStep
    DEF CreateOrderRow, CreateOrderFails, DeleteCart, BusTypeOK, busVars, offsets
  <2>2. OrderTypeOK'
    <3>1. InsertOrder(o) => orders' \in [Orders -> OrderRows]
      <4>1. [status |-> "pending", cancelReason |-> "none"] \in OrderRows
        BY DEF OrderRows, Statuses, Reasons
      <4> QED BY <4>1 DEF InsertOrder, OrderTypeOK
    <3>2. CASE CreateOrderRow(o)
      BY <3>1, <3>2 DEF CreateOrderRow, OrderTypeOK
    <3>3. CASE CreateOrderFails(o)
      BY <3>1, <3>3 DEF CreateOrderFails, OrderTypeOK
    <3>4. CASE DeleteCart(o)
      BY <3>4 DEF DeleteCart, OrderTypeOK
    <3> QED BY <1>5, <3>2, <3>3, <3>4
  <2> QED BY <2>1, <2>2, SilentStep
<1>6. ASSUME NEW r \in Replicas, OrdCrash(r) PROVE Typed
  <2>1. BusTypeOK' /\ log' = log
    BY <1>6, RejoinStep DEF OrdCrash, Groups, Rejoin
  <2>2. OrderTypeOK'
    BY <1>6 DEF OrdCrash, OrderTypeOK, OrdIdle, OrdWorkers, Topics, Reasons
  <2> QED BY <2>1, <2>2, SilentStep
<1>7. ASSUME OrdRebalance PROVE Typed
  <2>1. BusTypeOK' /\ log' = log
    BY <1>7, RejoinStep DEF OrdRebalance, Rebalance, Groups, Rejoin
  <2> QED BY <1>7, <2>1, SilentStep DEF OrdRebalance, OrderTypeOK, orderVars
<1> HIDE DEF Typed
<1> QED BY <1>1, <1>2, <1>3, <1>4, <1>5, <1>6, <1>7 DEF OrderNext, OrdStep, RequestStep

-----------------------------------------------------------------------------
\* How an order row changes: the request that creates it inserts it, or a replica
\* applies the transition of what it is handling.
LEMMA OrderChange ==
  ASSUME OrderTypeOK, OrderNext, NEW o \in Orders, orders'[o] # orders[o]
  PROVE  \/ request[o] = "received" /\ request'[o] # "received" /\ orders'[o].status = "pending"
         \/ \E r \in Replicas :
              /\ ord[r].pc = "handle" /\ ord[r].order = o
              /\ CanTransition(ord[r].topic, o)
              /\ orders'[o] = TransitionRow(ord[r].topic, ord[r].reason)
<1>1. ASSUME NEW o2 \in Orders, request[o2] = "received", request'[o2] # "received", InsertOrder(o2)
      PROVE  request[o] = "received" /\ request'[o] # "received" /\ orders'[o].status = "pending"
  BY <1>1 DEF InsertOrder, OrderTypeOK
<1>2. ASSUME NEW r \in Replicas, ord[r].pc = "handle", CanTransition(ord[r].topic, ord[r].order),
             Transition(r)
      PROVE  /\ ord[r].pc = "handle" /\ ord[r].order = o
             /\ CanTransition(ord[r].topic, o)
             /\ orders'[o] = TransitionRow(ord[r].topic, ord[r].reason)
  BY <1>2 DEF Transition, OrderTypeOK
<1>3. \/ UNCHANGED orders
      \/ \E o2 \in Orders : /\ request[o2] = "received" /\ InsertOrder(o2)
                            /\ request'[o2] # "received"
      \/ \E r \in Replicas : /\ ord[r].pc = "handle" /\ CanTransition(ord[r].topic, ord[r].order)
                             /\ Transition(r)
  BY DEF OrderTypeOK, OrderNext, OrdStep, RequestStep, OrdRead, OrdHandle, OrdHandleError, OrdPublish, OrdCrash,
    CreateOrderRow, CreateOrderFails, PublishCreated, DeleteCart, OrdRebalance, orderVars
<1> QED BY <1>1, <1>2, <1>3

\* No transition applies to a terminal order, and no request to one that exists.
LEMMA TerminalStays ==
  ASSUME OrderTypeOK, ReceivedHasNoRow, OrderNext, NEW o \in Orders, Status(o) \in Terminal
  PROVE  orders'[o] = orders[o]
<1> SUFFICES ASSUME orders'[o] # orders[o] PROVE FALSE
  OBVIOUS
<1>1. request[o] # "received"
  BY DEF ReceivedHasNoRow, NoRow, Status, Terminal
<1>2. PICK r \in Replicas : ord[r].pc = "handle" /\ CanTransition(ord[r].topic, o)
  BY <1>1, OrderChange
<1>3. ord[r].topic \in Subscription["order-service"]
  BY <1>2 DEF OrderTypeOK
<1> QED BY <1>2, <1>3
        DEF CanTransition, CanReserve, CanConfirm, CanCancel, Terminal, Status, Subscription, Groups

\* How a replica's work changes: it becomes idle, it is handed an event that was
\* sent, or it has written the terminal row it will announce.
LEMMA OrdWorkerChange ==
  ASSUME BusTypeOK, OrderTypeOK, OrderNext, NEW r \in Replicas, ord'[r] # ord[r]
  PROVE  \/ ord'[r].pc = "idle"
         \/ /\ ord'[r].pc = "handle" /\ log' = log
            /\ \E t \in Topics : ord'[r].topic = t /\ \E e \in Sent(t) :
                 e.order = ord'[r].order /\ e.reason = ord'[r].reason
         \/ /\ ord[r].pc = "handle" /\ CanTransition(ord[r].topic, ord[r].order) /\ Transition(r)
            /\ ord[r].topic # "inventory.reserved"
            /\ ord'[r] = [ord[r] EXCEPT !.pc = "publish"]
<1> DEFINE Goal == \/ ord'[r].pc = "idle"
                   \/ /\ ord'[r].pc = "handle" /\ log' = log
                      /\ \E t \in Topics : ord'[r].topic = t /\ \E e \in Sent(t) :
                           e.order = ord'[r].order /\ e.reason = ord'[r].reason
                   \/ /\ ord[r].pc = "handle" /\ CanTransition(ord[r].topic, ord[r].order) /\ Transition(r)
                      /\ ord[r].topic # "inventory.reserved"
                      /\ ord'[r] = [ord[r] EXCEPT !.pc = "publish"]
<1> SUFFICES Goal
  OBVIOUS
<1>1. ASSUME NEW s \in Replicas, ord' = [ord EXCEPT ![s] = OrdIdle] PROVE Goal
  BY <1>1 DEF OrdIdle, OrderTypeOK
<1>2. ASSUME NEW s \in Replicas, NEW t \in Topics, NEW p \in Partitions, OrdRead(s, t, p) PROVE Goal
  <2>1. PICK w \in OrdWorkers :
          /\ ord' = [ord EXCEPT ![s] = w]
          /\ w.pc = "handle" /\ \E e \in Sent(w.topic) : e.order = w.order /\ e.reason = w.reason
    BY <1>2, OrdReadStep
  <2>2. r = s /\ ord'[r] = w /\ log' = log
    BY <1>2, <2>1 DEF OrderTypeOK, OrdRead
  <2>3. w.topic \in Topics
    BY DEF OrdWorkers
  <2>4. \E u \in Topics : ord'[r].topic = u /\ \E e \in Sent(u) :
          e.order = ord'[r].order /\ e.reason = ord'[r].reason
    BY <2>1, <2>2, <2>3
  <2> QED BY <2>1, <2>2, <2>4
<1>3. ASSUME NEW s \in Replicas, OrdHandle(s) PROVE Goal
  <2>1. CASE ord' = [ord EXCEPT ![s] = OrdIdle]
    BY <1>1, <2>1
  <2>2. CASE ord' = [ord EXCEPT ![s] = [@ EXCEPT !.pc = "publish"]] /\ ord[s].topic # "inventory.reserved"
             /\ CanTransition(ord[s].topic, ord[s].order) /\ Transition(s)
    BY <1>3, <2>2 DEF OrdHandle, OrderTypeOK
  <2> QED BY <1>3, <2>1, <2>2 DEF OrdHandle
<1>4. ASSUME NEW s \in Replicas, OrdPublish(s) \/ OrdHandleError(s) \/ OrdCrash(s) PROVE Goal
  BY <1>1, <1>4 DEF OrdPublish, OrdHandleError, OrdCrash
<1>5. ASSUME NEW o \in Orders, RequestStep(o) \/ CreateOrderFails(o) PROVE FALSE
  BY <1>5 DEF RequestStep, CreateOrderRow, PublishCreated, DeleteCart, CreateOrderFails
<1>6. CASE OrdRebalance
  BY <1>6 DEF OrdRebalance, orderVars
<1> HIDE DEF Goal
<1> QED BY <1>2, <1>3, <1>4, <1>5, <1>6 DEF OrderNext, OrdStep

\* A step of the service keeps its invariant.
LEMMA OrderInvStep ==
  ASSUME BusTypeOK, OrderTypeOK, OrderInv, OrderNext
  PROVE  OrderInv'
<1> USE DEF OrderInv
<1>1. /\ \A u \in Topics : Sent(u) \subseteq Sent(u)'
      /\ OrderTypeOK'
  BY OrderTyped
<1>2. \A o \in Orders : Status(o) \in Terminal => orders'[o] = orders[o]
  BY TerminalStays
<1>3. HandlesWhatWasSent'
  <2> SUFFICES ASSUME NEW r \in Replicas, NEW t \in Topics, ord'[r].pc = "handle", ord'[r].topic = t
               PROVE  \E e \in Sent(t)' : e.order = ord'[r].order /\ e.reason = ord'[r].reason
    BY DEF HandlesWhatWasSent
  <2>1. CASE ord'[r] = ord[r]
    BY <2>1, <1>1 DEF HandlesWhatWasSent
  <2>2. CASE ord'[r] # ord[r]
    <3>1. ord'[r].pc # "idle" /\ ord'[r] # [ord[r] EXCEPT !.pc = "publish"]
      BY DEF OrderTypeOK, OrdWorkers
    <3>2. log' = log /\ \E u \in Topics : ord'[r].topic = u /\ \E e \in Sent(u) :
            e.order = ord'[r].order /\ e.reason = ord'[r].reason
      BY <2>2, <3>1, OrdWorkerChange
    <3> QED BY <3>2, SilentStep
  <2> QED BY <2>1, <2>2
<1>4. AnnouncesItsRow'
  <2> SUFFICES ASSUME NEW r \in Replicas, ord'[r].pc = "publish"
               PROVE  /\ ord'[r].topic # "inventory.reserved"
                      /\ orders'[ord'[r].order] = TransitionRow(ord'[r].topic, ord'[r].reason)
    BY DEF AnnouncesItsRow, TransitionRow
  <2>1. CASE ord'[r] = ord[r]
    <3>1. /\ ord[r].topic # "inventory.reserved"
          /\ orders[ord[r].order] = TransitionRow(ord[r].topic, ord[r].reason)
          /\ ord[r] \in OrdWorkers
          /\ ord[r].order \in Orders /\ ord[r].topic \in Subscription["order-service"]
      BY <2>1 DEF AnnouncesItsRow, OrderTypeOK
    <3>2. Status(ord[r].order) \in Terminal
      BY <3>1, TransitionRows DEF Status, OrdWorkers
    <3> QED BY <2>1, <3>1, <3>2, <1>2
  <2>2. CASE ord'[r] # ord[r]
    <3>1. /\ ord[r].pc = "handle" /\ Transition(r)
          /\ ord[r].topic # "inventory.reserved"
          /\ ord'[r] = [ord[r] EXCEPT !.pc = "publish"]
      BY <2>2, OrdWorkerChange
    <3>2. ord[r] \in OrdWorkers /\ ord[r].order \in Orders
      BY <3>1 DEF OrderTypeOK
    <3>3. ord'[r].order = ord[r].order /\ ord'[r].topic = ord[r].topic /\ ord'[r].reason = ord[r].reason
      BY <3>1, <3>2 DEF OrdWorkers
    <3>4. orders'[ord[r].order] = TransitionRow(ord[r].topic, ord[r].reason)
      BY <3>1, <3>2 DEF Transition, OrderTypeOK
    <3> QED BY <3>1, <3>3, <3>4
  <2> QED BY <2>1, <2>2
<1>5. ReceivedHasNoRow'
  <2> SUFFICES ASSUME NEW o \in Orders, request'[o] = "received" PROVE orders'[o] = NoRow
    BY DEF ReceivedHasNoRow, NoRow
  <2>1. request[o] = "received"
    BY DEF OrderTypeOK, OrderNext, OrdStep, RequestStep, OrdRead, OrdHandle, OrdHandleError, OrdPublish,
      OrdCrash, CreateOrderRow, CreateOrderFails, PublishCreated, DeleteCart, OrdRebalance, orderVars
  <2>2. Status(o) = "none"
    BY <2>1 DEF ReceivedHasNoRow, NoRow, Status
  <2>3. \A r \in Replicas : ord[r].pc = "handle" => ~CanTransition(ord[r].topic, o)
    BY <2>2 DEF OrderTypeOK, CanTransition, CanReserve, CanConfirm, CanCancel, Subscription, Groups
  <2>4. orders'[o] = orders[o]
    BY <2>3, OrderChange
  <2> QED BY <2>1, <2>4 DEF ReceivedHasNoRow
<1>6. AnnouncementsAgree'
  <2>1. \A u \in {"order.confirmed", "order.cancelled"} : \A e \in Sent(u) :
          orders'[e.order] = orders[e.order]
    <3> TAKE u \in {"order.confirmed", "order.cancelled"}
    <3> TAKE e \in Sent(u)
    <3>1. e.order \in Orders
      BY SentTyped DEF Topics, Events
    <3>2. Status(e.order) \in Terminal
      BY DEF AnnouncementsAgree, Terminal
    <3> QED BY <3>1, <3>2, <1>2
  <2>2. CASE \A u \in {"order.confirmed", "order.cancelled"} : Sent(u)' = Sent(u)
    BY <2>1, <2>2 DEF AnnouncementsAgree, Status
  <2>3. ASSUME NEW r \in Replicas, OrdPublish(r) PROVE AnnouncementsAgree'
    <3> DEFINE a == Announcement(r)
    <3>1. /\ ord[r] \in OrdWorkers /\ ord[r].order \in Orders
          /\ ord[r].topic \in Subscription["order-service"] \ {"inventory.reserved"}
          /\ orders[ord[r].order] = TransitionRow(ord[r].topic, ord[r].reason)
      BY <2>3 DEF OrderTypeOK, OrdPublish, AnnouncesItsRow
    <3>2. Total[ord[r].order] \in Nat
      BY <3>1, OrderAssumption
    <3>3. a[1] \in {"order.confirmed", "order.cancelled"} /\ a[1] \in Topics /\ a[2] \in Events
      BY <3>1, <3>2 DEF Announcement, Topics, Events, Event, Reasons, OrdWorkers
    <3>4. /\ (Acknowledged(a[1], a[2]) \/ Unacknowledged(a[1], a[2])) /\ UNCHANGED offsets
          /\ orders' = orders
      BY <2>3 DEF OrdPublish
    <3>5. IF a[1] = "order.confirmed" THEN Status(a[2].order) = "confirmed"
          ELSE Status(a[2].order) = "cancelled" /\ orders[a[2].order].cancelReason = a[2].reason
      BY <3>1 DEF Announcement, Event, TransitionRow, Status, Subscription, Groups
    <3> HIDE DEF a
    <3>6. \A u \in {"order.confirmed", "order.cancelled"} :
            Sent(u)' \subseteq Sent(u) \cup (IF u = a[1] THEN {a[2]} ELSE {})
      BY <3>3, <3>4, PublishStep DEF Topics
    <3> QED BY <3>3, <3>4, <3>5, <3>6 DEF AnnouncementsAgree, Status
  <2>4. ASSUME NEW o \in Orders, PublishCreated(o)
        PROVE  \A u \in {"order.confirmed", "order.cancelled"} : Sent(u)' = Sent(u)
    <3> DEFINE e == Event(o, Total[o], "none")
    <3>1. e \in Events
      BY OrderAssumption DEF Events, Event, Reasons
    <3>2. (Acknowledged("order.created", e) \/ Unacknowledged("order.created", e)) /\ UNCHANGED offsets
      BY <2>4 DEF PublishCreated
    <3> HIDE DEF e
    <3> QED BY <3>1, <3>2, PublishStep DEF Topics
  <2>5. \/ log' = log
        \/ \E r \in Replicas : OrdPublish(r)
        \/ \E o \in Orders : PublishCreated(o)
    BY DEF OrderNext, OrdStep, RequestStep, OrdRead, OrdHandle, OrdHandleError, OrdCrash,
      CreateOrderRow, CreateOrderFails, DeleteCart, OrdRebalance, Rebalance, Rejoin, busVars
  <2> QED BY <2>2, <2>3, <2>4, <2>5, SilentStep
<1> QED BY <1>3, <1>4, <1>5, <1>6
-----------------------------------------------------------------------------
OrderCause == CreatedHasRow /\ ReservedWasSent

\* order.created is published by a request that has inserted its order.
LEMMA CreatedSentBy ==
  ASSUME BusTypeOK, OrderTypeOK, OrderNext, NEW e \in Sent("order.created")',
         e \notin Sent("order.created")
  PROVE  e.order \in Orders /\ request[e.order] = "inserted"
<1>1. log' # log
  BY SilentStep
<1>2. ASSUME NEW r \in Replicas, OrdPublish(r) PROVE FALSE
  <2> DEFINE a == Announcement(r)
  <2>1. ord[r] \in OrdWorkers /\ ord[r].order \in Orders
    BY <1>2 DEF OrderTypeOK, OrdPublish
  <2>2. Total[ord[r].order] \in Nat
    BY <2>1, OrderAssumption
  <2>3. a[1] \in {"order.confirmed", "order.cancelled"} /\ a[1] \in Topics /\ a[2] \in Events
    BY <2>1, <2>2 DEF Announcement, Topics, Events, Event, Reasons, OrdWorkers
  <2>4. (Acknowledged(a[1], a[2]) \/ Unacknowledged(a[1], a[2])) /\ UNCHANGED offsets
    BY <1>2 DEF OrdPublish
  <2> HIDE DEF a
  <2>5. Sent("order.created")' = Sent("order.created")
    BY <2>3, <2>4, PublishStep DEF Topics
  <2> QED BY <2>5
<1>3. ASSUME NEW o \in Orders, PublishCreated(o) PROVE e.order = o /\ request[o] = "inserted"
  <2> DEFINE c == Event(o, Total[o], "none")
  <2>1. c \in Events /\ c.order = o
    BY OrderAssumption DEF Events, Event, Reasons
  <2>2. (Acknowledged("order.created", c) \/ Unacknowledged("order.created", c)) /\ UNCHANGED offsets
    BY <1>3 DEF PublishCreated
  <2> HIDE DEF c
  <2>3. Sent("order.created")' \subseteq Sent("order.created") \cup {c}
    BY <2>1, <2>2, PublishStep DEF Topics
  <2> QED BY <1>3, <2>1, <2>3 DEF PublishCreated
<1>4. \/ log' = log
      \/ \E r \in Replicas : OrdPublish(r)
      \/ \E o \in Orders : PublishCreated(o)
  BY DEF OrderNext, OrdStep, RequestStep, OrdRead, OrdHandle, OrdHandleError, OrdCrash,
    CreateOrderRow, CreateOrderFails, DeleteCart, OrdRebalance, Rebalance, Rejoin, busVars
<1> QED BY <1>1, <1>2, <1>3, <1>4

\* How a request gets past the insert.
LEMMA RequestChange ==
  ASSUME OrderTypeOK, OrderNext, NEW o \in Orders,
         request'[o] \in {"inserted", "published", "created"}
  PROVE  \/ request[o] \in {"inserted", "published", "created"}
         \/ orders'[o].status = "pending"
<1>1. ASSUME NEW o2 \in Orders, CreateOrderRow(o2)
      PROVE  request'[o] = request[o] \/ orders'[o].status = "pending"
  BY <1>1 DEF CreateOrderRow, InsertOrder, OrderTypeOK
<1>2. ASSUME NEW o2 \in Orders, PublishCreated(o2) \/ DeleteCart(o2) \/ CreateOrderFails(o2)
      PROVE  request[o] \in {"inserted", "published", "created"}
  BY <1>2 DEF PublishCreated, DeleteCart, CreateOrderFails, OrderTypeOK
<1>3. ASSUME NEW r \in Replicas, OrdCrash(r) PROVE request'[o] = request[o]
  BY <1>3 DEF OrdCrash
<1>4. ASSUME NEW r \in Replicas, OrdStep(r) \/ OrdHandleError(r) PROVE request'[o] = request[o]
  BY <1>4 DEF OrdStep, OrdRead, OrdHandle, OrdPublish, OrdHandleError
<1>5. CASE OrdRebalance
  BY <1>5 DEF OrdRebalance, orderVars
<1> QED BY <1>1, <1>2, <1>3, <1>4, <1>5 DEF OrderNext, RequestStep

\* An order that is in the table stays there.
LEMMA RowStays ==
  ASSUME OrderTypeOK, OrderNext, NEW o \in Orders, Status(o) # "none"
  PROVE  orders'[o].status # "none"
<1>1. CASE orders'[o] = orders[o]
  BY <1>1 DEF Status
<1>2. CASE orders'[o] # orders[o]
  <2>1. ASSUME NEW r \in Replicas, ord[r].pc = "handle",
               orders'[o] = TransitionRow(ord[r].topic, ord[r].reason)
        PROVE  orders'[o].status # "none"
    <3>1. ord[r].topic \in Subscription["order-service"] /\ ord[r].reason \in Reasons
      BY <2>1 DEF OrderTypeOK, OrdWorkers
    <3> QED BY <2>1, <3>1, TransitionRows
  <2> QED BY <1>2, <2>1, OrderChange
<1> QED BY <1>1, <1>2

\* A step of the service keeps what its rows and its topics have to do with each other.
LEMMA OrderCauseStep ==
  ASSUME BusTypeOK, OrderTypeOK, OrderInv, OrderCause, OrderNext
  PROVE  OrderCause'
<1>1. \A u \in Topics : Sent(u) \subseteq Sent(u)'
  BY OrderTyped
<1>2. CreatedHasRow'
  <2> SUFFICES ASSUME NEW o \in Orders,
                      \/ request'[o] \in {"inserted", "published", "created"}
                      \/ SentFor("order.created", o)'
               PROVE  orders'[o].status # "none"
    BY DEF CreatedHasRow, Status
  <2>1. CASE Status(o) # "none"
    BY <2>1, RowStays
  <2>2. CASE Status(o) = "none"
    <3>1. ~SentFor("order.created", o) /\ request[o] \notin {"inserted", "published", "created"}
      BY <2>2 DEF OrderCause, CreatedHasRow
    <3>2. ~SentFor("order.created", o)'
      BY <3>1, CreatedSentBy DEF SentFor
    <3> QED BY <3>1, <3>2, RequestChange
  <2> QED BY <2>1, <2>2
<1>3. ReservedWasSent'
  <2> SUFFICES ASSUME NEW o \in Orders, orders'[o].status \in {"inventory_reserved", "confirmed"}
               PROVE  SentFor("inventory.reserved", o)'
    BY DEF ReservedWasSent, Status
  <2>1. ASSUME SentFor("inventory.reserved", o) PROVE SentFor("inventory.reserved", o)'
    BY <1>1, <2>1 DEF SentFor, Topics
  <2>2. CASE orders'[o] = orders[o]
    BY <2>1, <2>2 DEF OrderCause, ReservedWasSent, Status
  <2>3. ASSUME NEW r \in Replicas, ord[r].pc = "handle", ord[r].order = o,
               CanTransition(ord[r].topic, o),
               orders'[o] = TransitionRow(ord[r].topic, ord[r].reason)
        PROVE  SentFor("inventory.reserved", o)
    <3>1. ord[r].topic \in Subscription["order-service"] /\ ord[r].topic \in Topics
      BY <2>3 DEF OrderTypeOK, OrdWorkers
    <3>2. CASE ord[r].topic = "inventory.reserved"
      BY <2>3, <3>1, <3>2 DEF OrderInv, HandlesWhatWasSent, SentFor
    <3>3. CASE ord[r].topic = "payment.completed"
      BY <2>3, <3>3 DEF CanTransition, CanConfirm, OrderCause, ReservedWasSent
    <3>4. CASE ord[r].topic \in {"inventory.failed", "payment.failed"}
      BY <2>3, <3>4 DEF TransitionRow
    <3> QED BY <3>1, <3>2, <3>3, <3>4 DEF Subscription, Groups
  <2> QED BY <2>1, <2>2, <2>3, OrderChange
<1> QED BY <1>2, <1>3 DEF OrderCause

-----------------------------------------------------------------------------
\* A step writes one order's row, and then sends nothing.
LEMMA OneOrderChanges ==
  ASSUME OrderTypeOK, OrderNext, NEW o \in Orders, orders'[o] # orders[o]
  PROVE  log' = log /\ \A other \in Orders \ {o} : orders'[other] = orders[other]
<1>1. ASSUME NEW q \in Orders, NEW row, orders' = [orders EXCEPT ![q] = row]
      PROVE  \A other \in Orders \ {o} : orders'[other] = orders[other]
  BY <1>1 DEF OrderTypeOK
<1>2. orders' # orders
  OBVIOUS
<1>3. ASSUME NEW q \in Orders, CreateOrderRow(q) \/ CreateOrderFails(q)
      PROVE  log' = log /\ \A other \in Orders \ {o} : orders'[other] = orders[other]
  BY <1>1, <1>2, <1>3 DEF CreateOrderRow, CreateOrderFails, InsertOrder, busVars
<1>4. ASSUME NEW r \in Replicas, OrdHandle(r) \/ OrdHandleError(r)
      PROVE  log' = log /\ \A other \in Orders \ {o} : orders'[other] = orders[other]
  <2>1. ord[r].order \in Orders
    BY <1>4 DEF OrdHandle, OrdHandleError, OrderTypeOK
  <2>2. log' = log /\ Transition(r)
    BY <1>2, <1>4 DEF OrdHandle, OrdHandleError, busVars
  <2> QED BY <1>1, <2>1, <2>2 DEF Transition
<1>5. \/ \E q \in Orders : CreateOrderRow(q) \/ CreateOrderFails(q)
      \/ \E r \in Replicas : OrdHandle(r) \/ OrdHandleError(r)
  BY <1>2 DEF OrderNext, OrdStep, RequestStep, OrdRead, OrdPublish, OrdCrash, PublishCreated, DeleteCart,
    OrdRebalance, orderVars
<1> QED BY <1>3, <1>4, <1>5

\* A step tells one order's customer one outcome, and then writes no row.
LEMMA OneOrderTold ==
  ASSUME BusTypeOK, OrderTypeOK, OrderNext,
         NEW t \in {"order.confirmed", "order.cancelled"}, NEW o \in Orders,
         SentFor(t, o)', ~SentFor(t, o)
  PROVE  /\ orders' = orders
         /\ \A u \in {"order.confirmed", "order.cancelled"}, other \in Orders :
              SentFor(u, other)' /\ ~SentFor(u, other) => u = t /\ other = o
<1>1. log' # log
  BY SilentStep DEF SentFor
<1>2. ASSUME NEW c \in Topics, NEW e \in Events, UNCHANGED offsets,
             Acknowledged(c, e) \/ Unacknowledged(c, e)
      PROVE  \A u \in Topics, other \in Orders :
               SentFor(u, other)' /\ ~SentFor(u, other) => u = c /\ other = e.order
  BY <1>2, PublishStep DEF SentFor
<1>3. t \in Topics /\ {"order.confirmed", "order.cancelled"} \subseteq Topics \ {"order.created"}
  BY DEF Topics
<1>4. ASSUME NEW q \in Orders, PublishCreated(q) PROVE FALSE
  <2> DEFINE c == Event(q, Total[q], "none")
  <2>1. c \in Events
    BY OrderAssumption DEF Events, Event, Reasons
  <2>2. (Acknowledged("order.created", c) \/ Unacknowledged("order.created", c)) /\ UNCHANGED offsets
    BY <1>4 DEF PublishCreated
  <2>3. "order.created" \in Topics
    BY DEF Topics
  <2> HIDE DEF c
  <2>4. t = "order.created"
    BY <1>2, <1>3, <2>1, <2>2, <2>3
  <2> QED BY <2>4
<1>5. ASSUME NEW r \in Replicas, OrdPublish(r)
      PROVE  /\ orders' = orders
             /\ \A u \in {"order.confirmed", "order.cancelled"}, other \in Orders :
                  SentFor(u, other)' /\ ~SentFor(u, other) => u = t /\ other = o
  <2> DEFINE a == Announcement(r)
  <2>1. ord[r] \in OrdWorkers /\ ord[r].order \in Orders
    BY <1>5 DEF OrderTypeOK, OrdPublish
  <2>2. Total[ord[r].order] \in Nat
    BY <2>1, OrderAssumption
  <2>3. a[1] \in Topics /\ a[2] \in Events
    BY <2>1, <2>2 DEF Announcement, Topics, Events, Event, Reasons, OrdWorkers
  <2>4. (Acknowledged(a[1], a[2]) \/ Unacknowledged(a[1], a[2])) /\ UNCHANGED <<offsets, orders>>
    BY <1>5 DEF OrdPublish
  <2> HIDE DEF a
  <2>5. \A u \in Topics, other \in Orders :
          SentFor(u, other)' /\ ~SentFor(u, other) => u = a[1] /\ other = a[2].order
    BY <1>2, <2>3, <2>4
  <2>6. t = a[1] /\ o = a[2].order
    BY <1>3, <2>5
  <2> QED BY <1>3, <2>4, <2>5, <2>6
<1>6. \/ log' = log
      \/ \E r \in Replicas : OrdPublish(r)
      \/ \E q \in Orders : PublishCreated(q)
  BY DEF OrderNext, OrdStep, RequestStep, OrdRead, OrdHandle, OrdHandleError, OrdCrash,
    CreateOrderRow, CreateOrderFails, DeleteCart, OrdRebalance, Rebalance, Rejoin, busVars
<1> QED BY <1>1, <1>4, <1>5, <1>6

-----------------------------------------------------------------------------
(* The three services *)

\* The inductive invariant: the types, what each service keeps true of its own
\* tables and topics, and the agreement between their tables that rests on it.
SagaInv ==
  /\ TypeOK
  /\ OrderInv
  /\ FailedIsShort
  /\ PaymentInv
  /\ ConfirmedIsPaid
  /\ CancelReasonIsTrue

\* Row id is for line i of order o, and has not been released but for a failed payment.
HeldFor(id, o, i) ==
  /\ id \in DOMAIN reservations
  /\ reservations[id].order = o
  /\ reservations[id].product = ItemsOf[o][i].product
  /\ reservations[id].quantity = ItemsOf[o][i].quantity
  /\ reservations[id].status = "active" \/ payments[o].status = "failed"

\* The lines a worker of inventory has reserved are held by its own rows.
LinesAreHeld ==
  \A r \in Replicas :
    /\ inv[r].pc \in {"decrement", "insert"} =>
         \A i \in 1..Len(ItemsOf[inv[r].order]) : i < inv[r].item =>
           \E id \in inv[r].held : HeldFor(id, inv[r].order, i)
    /\ inv[r].pc = "publishReserved" =>
         \A i \in 1..Len(ItemsOf[inv[r].order]) :
           \E id \in inv[r].held : HeldFor(id, inv[r].order, i)

\* Once inventory.reserved was sent, every line is held by a row that no replica can roll
\* back any more.
ReservedIsHeld ==
  \A o \in Orders : SentFor("inventory.reserved", o) =>
    \A i \in 1..Len(ItemsOf[o]) : \E id \in DOMAIN reservations :
      HeldFor(id, o, i) /\ \A s \in Replicas : id \notin Mine(s)

\* What the services rely on of each other: causes come before their effects, and the
\* rows of a reserved order stay.
CauseInv ==
  /\ SagaInv
  /\ OrderCause
  /\ PaymentCause
  /\ WorkInv
  /\ LinesAreHeld
  /\ ReservedIsHeld
  /\ NoExcess

-----------------------------------------------------------------------------
\* The initial state satisfies the invariant.
LEMMA SagaInitially == Init => SagaInv
<1> SUFFICES ASSUME Init PROVE SagaInv
  OBVIOUS
<1> USE DEF Init
<1>1. BusTypeOK /\ \A u \in Topics : Sent(u) = {}
  BY BusInitially
<1>2. OrderTypeOK
  BY DEF OrderInit, OrderTypeOK, NoRow, OrderRows, Statuses, Reasons, OrdIdle, OrdWorkers, Topics
<1>3. OrderInv
  BY <1>1 DEF OrderInit, OrderInv, HandlesWhatWasSent, AnnouncesItsRow, ReceivedHasNoRow,
    AnnouncementsAgree, OrdIdle, Topics
<1>4. InventoryTypeOK /\ FailedIsShort
  BY InventoryInitially
<1>5. PaymentTypeOK /\ PaymentInv
  BY PaymentInitially
<1>6. ConfirmedIsPaid /\ CancelReasonIsTrue
  BY DEF OrderInit, ConfirmedIsPaid, CancelReasonIsTrue, Status, NoRow
<1> QED BY <1>1, <1>2, <1>3, <1>4, <1>5, <1>6 DEF SagaInv, TypeOK

-----------------------------------------------------------------------------
\* The other services' steps cannot break what a service keeps true: they leave its
\* tables alone and send nothing on its topics.
\* For order: a worker's event was sent and stays sent.
LEMMA OrderFrame ==
  ASSUME OrderTypeOK, OrderInv, UNCHANGED orderVars,
         \A u \in Topics : Sent(u) \subseteq Sent(u)',
         \A u \in OrderTopics : Sent(u)' = Sent(u)
  PROVE  OrderTypeOK' /\ OrderInv'
<1> USE DEF orderVars
<1>1. OrderTypeOK'
  BY DEF OrderTypeOK
<1>2. HandlesWhatWasSent'
  BY DEF OrderInv, HandlesWhatWasSent
<1>3. AnnouncesItsRow' /\ ReceivedHasNoRow'
  BY DEF OrderInv, AnnouncesItsRow, ReceivedHasNoRow, TransitionRow, NoRow
<1>4. AnnouncementsAgree'
  BY DEF OrderInv, AnnouncementsAgree, OrderTopics, Status
<1> QED BY <1>1, <1>2, <1>3, <1>4 DEF OrderInv

\* For inventory: nobody else publishes inventory.failed.
LEMMA InventoryFrame ==
  ASSUME InventoryTypeOK, FailedIsShort, UNCHANGED inventoryVars,
         \A u \in InventoryTopics : Sent(u)' = Sent(u)
  PROVE  InventoryTypeOK' /\ FailedIsShort'
BY DEF inventoryVars, InventoryTypeOK, FailedIsShort, InventoryTopics

-----------------------------------------------------------------------------
\* A transition agrees with the payment whose outcome it applies.
LEMMA TransitionIsTrue ==
  ASSUME SagaInv, NEW r \in Replicas, NEW o \in Orders, NEW row,
         ord[r].pc = "handle", ord[r].order = o,
         row = TransitionRow(ord[r].topic, ord[r].reason)
  PROVE  /\ row.status = "confirmed" => payments[o].status = "completed"
         /\ row.status = "cancelled" =>
              \/ row.cancelReason = "insufficient stock"
              \/ row.cancelReason = "card declined" /\ payments[o].status = "failed"
<1>1. ord[r].topic \in Subscription["order-service"] /\ ord[r].topic \in Topics
  BY DEF SagaInv, TypeOK, OrderTypeOK, Subscription, Groups, Topics
<1>2. PICK e \in Sent(ord[r].topic) : e.order = o /\ e.reason = ord[r].reason
  BY <1>1 DEF SagaInv, OrderInv, HandlesWhatWasSent
<1>3. CASE ord[r].topic = "inventory.reserved"
  BY <1>3 DEF TransitionRow
<1>4. CASE ord[r].topic = "inventory.failed"
  BY <1>2, <1>4 DEF TransitionRow, SagaInv, FailedIsShort
<1>5. CASE ord[r].topic = "payment.completed"
  <2>1. payments[o] = [status |-> "completed", amount |-> e.amount]
    BY <1>2, <1>5 DEF SagaInv, PaymentInv, OutcomeMatchesRow
  <2>2. payments[o].status = "completed"
    BY <2>1
  <2>3. row.status = "confirmed"
    BY <1>5 DEF TransitionRow
  <2> QED BY <2>2, <2>3
<1>6. CASE ord[r].topic = "payment.failed"
  <2>1. payments[o] = [status |-> "failed", amount |-> e.amount]
    BY <1>2, <1>6 DEF SagaInv, PaymentInv, OutcomeMatchesRow
  <2>2. payments[o].status = "failed"
    BY <2>1
  <2>3. e.reason = "card declined"
    BY <1>2, <1>6 DEF SagaInv, PaymentInv, FailedIsDeclined
  <2>4. row.status = "cancelled" /\ row.cancelReason = ord[r].reason
    BY <1>6 DEF TransitionRow
  <2> QED BY <1>2, <2>2, <2>3, <2>4
<1> QED BY <1>1, <1>3, <1>4, <1>5, <1>6 DEF Subscription, Groups

\* Every step keeps the invariant.
LEMMA SagaStep == SagaInv /\ [Next]_vars => SagaInv'
<1> SUFFICES ASSUME SagaInv, [Next]_vars PROVE SagaInv'
  OBVIOUS
<1>1. /\ BusTypeOK /\ OrderTypeOK /\ InventoryTypeOK /\ PaymentTypeOK
      /\ OrderInv /\ FailedIsShort /\ PaymentInv /\ ConfirmedIsPaid /\ CancelReasonIsTrue
  BY DEF SagaInv, TypeOK
<1>2. CASE OrderNext /\ UNCHANGED <<inventoryVars, paymentVars>>
  <2>1. /\ BusTypeOK' /\ OrderTypeOK'
        /\ \A u \in Topics \ OrderTopics : Sent(u)' = Sent(u)
    BY <1>1, <1>2, OrderTyped
  <2>2. OrderInv'
    BY <1>1, <1>2, OrderInvStep
  <2>3. InventoryTypeOK' /\ FailedIsShort'
    BY <1>1, <1>2, <2>1, InventoryFrame DEF InventoryTopics, OrderTopics, Topics
  <2>4. PaymentTypeOK' /\ PaymentInv'
    BY <1>1, <1>2, <2>1, PaymentFrame DEF PaymentTopics, OrderTopics, Topics
  <2>5. ASSUME NEW o \in Orders
        PROVE  /\ orders'[o].status = "confirmed" => payments[o].status = "completed"
               /\ orders'[o].status = "cancelled" =>
                    \/ orders'[o].cancelReason = "insufficient stock"
                    \/ orders'[o].cancelReason = "card declined" /\ payments[o].status = "failed"
    <3>1. CASE orders'[o] = orders[o]
      BY <1>1, <3>1 DEF ConfirmedIsPaid, CancelReasonIsTrue, Status
    <3>2. CASE orders'[o] # orders[o]
      <4>1. CASE orders'[o].status = "pending"
        BY <4>1
      <4>2. ASSUME NEW r \in Replicas, ord[r].pc = "handle", ord[r].order = o,
                   orders'[o] = TransitionRow(ord[r].topic, ord[r].reason)
            PROVE  /\ orders'[o].status = "confirmed" => payments[o].status = "completed"
                   /\ orders'[o].status = "cancelled" =>
                        \/ orders'[o].cancelReason = "insufficient stock"
                        \/ orders'[o].cancelReason = "card declined" /\ payments[o].status = "failed"
        BY <4>2, TransitionIsTrue
      <4> QED BY <1>1, <1>2, <3>2, <4>1, <4>2, OrderChange
    <3> QED BY <3>1, <3>2
  <2>6. ConfirmedIsPaid' /\ CancelReasonIsTrue'
    BY <1>2, <2>5 DEF ConfirmedIsPaid, CancelReasonIsTrue, Status, paymentVars
  <2> QED BY <2>1, <2>2, <2>3, <2>4, <2>6 DEF SagaInv, TypeOK
<1>3. CASE InventoryNext /\ UNCHANGED <<orderVars, paymentVars>>
  <2>1. /\ BusTypeOK' /\ InventoryTypeOK' /\ FailedIsShort'
        /\ \A u \in Topics : Sent(u) \subseteq Sent(u)'
        /\ \A u \in Topics \ InventoryTopics : Sent(u)' = Sent(u)
    BY <1>1, <1>3, InventoryTyped
  <2>2. OrderTypeOK' /\ OrderInv'
    BY <1>1, <1>3, <2>1, OrderFrame DEF InventoryTopics, OrderTopics, Topics
  <2>3. PaymentTypeOK' /\ PaymentInv'
    BY <1>1, <1>3, <2>1, PaymentFrame DEF PaymentTopics, InventoryTopics, Topics
  <2>4. ConfirmedIsPaid' /\ CancelReasonIsTrue'
    BY <1>1, <1>3 DEF ConfirmedIsPaid, CancelReasonIsTrue, Status, orderVars, paymentVars
  <2> QED BY <2>1, <2>2, <2>3, <2>4 DEF SagaInv, TypeOK
<1>4. CASE PaymentNext /\ UNCHANGED <<orderVars, inventoryVars>>
  <2>1. /\ BusTypeOK' /\ PaymentTypeOK'
        /\ \A u \in Topics : Sent(u) \subseteq Sent(u)'
        /\ \A u \in Topics \ PaymentTopics : Sent(u)' = Sent(u)
    BY <1>1, <1>4, PaymentTyped
  <2>2. PaymentInv'
    BY <1>1, <1>4, PaymentInvStep
  <2>3. OrderTypeOK' /\ OrderInv'
    BY <1>1, <1>4, <2>1, OrderFrame DEF PaymentTopics, OrderTopics, Topics
  <2>4. InventoryTypeOK' /\ FailedIsShort'
    BY <1>1, <1>4, <2>1, InventoryFrame DEF InventoryTopics, PaymentTopics, Topics
  <2>5. \A o \in Orders : payments[o].status # "none" => payments'[o] = payments[o]
    BY <1>1, <1>4, PaidOnce DEF AlreadyPaid
  <2>6. ConfirmedIsPaid' /\ CancelReasonIsTrue'
    BY <1>1, <1>4, <2>5 DEF ConfirmedIsPaid, CancelReasonIsTrue, Status, orderVars
  <2> QED BY <2>1, <2>2, <2>3, <2>4, <2>6 DEF SagaInv, TypeOK
<1>5. CASE UNCHANGED vars
  <2>1. /\ BusTypeOK' /\ \A u \in Topics : Sent(u)' = Sent(u)
    BY <1>1, <1>5, SilentStep DEF vars, busVars, offsets, BusTypeOK
  <2>2. OrderTypeOK' /\ OrderInv'
    BY <1>1, <1>5, <2>1, OrderFrame DEF vars, OrderTopics, Topics
  <2>3. InventoryTypeOK' /\ FailedIsShort'
    BY <1>1, <1>5, <2>1, InventoryFrame DEF vars, InventoryTopics, Topics
  <2>4. PaymentTypeOK' /\ PaymentInv'
    BY <1>1, <1>5, <2>1, PaymentFrame DEF vars, PaymentTopics, Topics
  <2>5. ConfirmedIsPaid' /\ CancelReasonIsTrue'
    BY <1>1, <1>5 DEF vars, orderVars, paymentVars, ConfirmedIsPaid, CancelReasonIsTrue, Status
  <2> QED BY <2>1, <2>2, <2>3, <2>4, <2>5 DEF SagaInv, TypeOK
<1> QED BY <1>2, <1>3, <1>4, <1>5 DEF Next

\* The invariant holds in every reachable state.
THEOREM SagaInvariant == Spec => []SagaInv
BY SagaInitially, SagaStep, PTL DEF Spec

-----------------------------------------------------------------------------
-----------------------------------------------------------------------------
\* What the order service knows of causes does not depend on the other services' tables.
LEMMA OrderCauseFrame ==
  ASSUME OrderCause, UNCHANGED orderVars,
         \A u \in Topics : Sent(u) \subseteq Sent(u)',
         \A u \in OrderTopics : Sent(u)' = Sent(u)
  PROVE  OrderCause'
<1> USE DEF orderVars
<1>1. \A o : SentFor("inventory.reserved", o) => SentFor("inventory.reserved", o)'
  BY DEF SentFor, Topics
<1>2. \A o : SentFor("order.created", o)' = SentFor("order.created", o)
  BY DEF SentFor, OrderTopics
<1>3. CreatedHasRow'
  BY <1>2 DEF OrderCause, CreatedHasRow, Status
<1>4. ReservedWasSent'
  BY <1>1 DEF OrderCause, ReservedWasSent, Status
<1> QED BY <1>3, <1>4 DEF OrderCause

-----------------------------------------------------------------------------
(* The rows of a reserved order *)

\* Stock is released only for an order whose payment failed.
LEMMA ReleasesTheDeclined ==
  ASSUME InventoryTypeOK, WorksOnWhatWasSent, OutcomeMatchesRow,
         NEW r \in Replicas, inv[r].pc \in ReleaseSteps
  PROVE  inv[r].order \in Orders /\ payments[inv[r].order].status = "failed"
<1>1. inv[r].order \in Orders /\ SentFor("payment.failed", inv[r].order)
  BY DEF InventoryTypeOK, WorksOnWhatWasSent, ReleaseSteps
<1>2. PICK e \in Sent("payment.failed") : e.order = inv[r].order
  BY <1>1 DEF SentFor
<1>3. payments[e.order] = [status |-> "failed", amount |-> e.amount]
  BY DEF OutcomeMatchesRow
<1>4. payments[e.order].status = "failed"
  BY <1>3
<1> QED BY <1>1, <1>2, <1>4

\* A row that holds a line, and that nobody rolls back, still holds it after a step of
\* inventory: what releases it is a declined payment.
LEMMA HeldStays ==
  ASSUME InventoryTypeOK, WorkInv, OutcomeMatchesRow, Effect, UNCHANGED payments,
         NEW o \in Orders, NEW i, NEW id, HeldFor(id, o, i),
         \A s \in Replicas : inv[s].pc = "rollback" => id \notin inv[s].held
  PROVE  HeldFor(id, o, i)'
<1>1. id \in DOMAIN reservations /\ reservations[id].order = o
  BY DEF HeldFor
<1>2. reservations[id] \in Rows
  BY <1>1 DEF InventoryTypeOK
<1>3. id \in DOMAIN reservations'
  BY <1>1, RowChange
<1>4. CASE reservations'[id] = reservations[id]
  BY <1>3, <1>4 DEF HeldFor
<1>5. ASSUME reservations'[id] = [reservations[id] EXCEPT !.status = "released"],
             NEW s \in Replicas, inv[s].pc \in {"rollback", "release"}, id \in inv[s].held
      PROVE  HeldFor(id, o, i)'
  <2>1. inv[s].pc = "release"
    BY <1>5
  <2>2. inv[s].order = o
    BY <1>1, <1>5, <2>1 DEF WorkInv, HoldsItsRows
  <2>3. payments[o].status = "failed"
    BY <2>1, <2>2, ReleasesTheDeclined DEF WorkInv, ReleaseSteps
  <2>4. /\ reservations'[id].order = reservations[id].order
        /\ reservations'[id].product = reservations[id].product
        /\ reservations'[id].quantity = reservations[id].quantity
    BY <1>2, <1>5 DEF Rows
  <2> QED BY <1>3, <2>3, <2>4 DEF HeldFor
<1> QED BY <1>1, <1>4, <1>5, RowChange

\* A replica's own rows are rolled back by no other.
LEMMA OwnRowsStay ==
  ASSUME RowsAreApart, NEW r \in Replicas, NEW id \in inv[r].held,
         inv[r].pc \in {"decrement", "insert", "publishReserved"}
  PROVE  \A s \in Replicas : inv[s].pc = "rollback" => id \notin inv[s].held
BY DEF RowsAreApart, Mine

\* A step of inventory keeps the lines of its workers held.
LEMMA LinesStep ==
  ASSUME InventoryTypeOK, WorkInv, OutcomeMatchesRow, LinesAreHeld, Effect, UNCHANGED payments
  PROVE  LinesAreHeld'
<1> SUFFICES ASSUME NEW r \in Replicas, NEW o, o = inv'[r].order,
                    NEW i \in 1..Len(ItemsOf[o]),
                    \/ inv'[r].pc \in {"decrement", "insert"} /\ i < inv'[r].item
                    \/ inv'[r].pc = "publishReserved"
             PROVE  \E id \in inv'[r].held : HeldFor(id, o, i)'
  BY DEF LinesAreHeld, HeldFor
<1>1. inv[r] \in InvWorkers /\ inv[r].held \subseteq DOMAIN reservations /\ reservations \in Seq(Rows)
  BY DEF InventoryTypeOK
<1>2. ASSUME o = inv[r].order, o \in Orders, inv[r].pc \in {"decrement", "insert", "publishReserved"},
             inv[r].held \subseteq inv'[r].held,
             \/ inv[r].pc \in {"decrement", "insert"} /\ i < inv[r].item
             \/ inv[r].pc = "publishReserved"
      PROVE  \E id \in inv'[r].held : HeldFor(id, o, i)'
  <2>1. PICK id \in inv[r].held : HeldFor(id, o, i)
    BY <1>2 DEF LinesAreHeld
  <2>2. \A s \in Replicas : inv[s].pc = "rollback" => id \notin inv[s].held
    BY <1>2, OwnRowsStay DEF WorkInv
  <2>3. HeldFor(id, o, i)'
    BY <1>2, <2>1, <2>2, HeldStays
  <2> QED BY <1>2, <2>3
<1>3. inv[r].pc \in {"decrement", "insert", "publishReserved"} => inv[r].order \in Orders
  BY DEF InventoryTypeOK
<1>4. CASE inv'[r] = inv[r]
  BY <1>2, <1>3, <1>4
<1>5. CASE inv'[r] # inv[r]
  <2>1. CASE StartsOver(inv'[r])
    BY <2>1 DEF StartsOver
  <2>2. CASE inv[r].pc = "decrement" /\ inv'[r] = [inv[r] EXCEPT !.pc = "insert"]
    <3>1. /\ inv'[r].order = inv[r].order /\ inv'[r].item = inv[r].item /\ inv'[r].held = inv[r].held
          /\ inv'[r].pc = "insert"
      BY <1>1, <2>2 DEF InvWorkers
    <3> QED BY <1>2, <1>3, <2>2, <3>1
  <2>3. CASE OneRowMore(r, inv'[r]) /\ RecordsRow(r)
    <3> PICK new : new = Len(reservations) + 1
      OBVIOUS
    <3>1. /\ inv[r].pc = "insert" /\ o = inv[r].order /\ o \in Orders
          /\ inv'[r].held = inv[r].held \cup {new}
      BY <1>3, <2>3 DEF OneRowMore, RecordsRow
    <3>2. inv[r].item \in Nat
      BY <1>1 DEF InvWorkers
    <3>3. i <= inv[r].item
      <4>1. CASE LastLine(r)
        BY <3>1, <4>1 DEF LastLine
      <4>2. CASE ~LastLine(r)
        BY <2>3, <3>2, <4>2 DEF OneRowMore
      <4> QED BY <4>1, <4>2
    <3>4. CASE i < inv[r].item
      BY <1>2, <3>1, <3>4
    <3>5. CASE i = inv[r].item
      <4> DEFINE item == CurrentItem(r)
                 row == [order |-> o, product |-> item.product,
                         quantity |-> item.quantity, status |-> "active"]
      <4>1. item = ItemsOf[o][i]
        BY <3>1, <3>5 DEF CurrentItem
      <4>2. reservations' = Append(reservations, row)
        BY <2>3, <3>1 DEF RecordsRow, InsertReservation
      <4>3. /\ row.order = o /\ row.product = item.product /\ row.quantity = item.quantity
            /\ row.status = "active"
        OBVIOUS
      <4> HIDE DEF row, item
      <4>4. new \in DOMAIN reservations' /\ reservations'[new] = row
        BY <1>1, <4>2
      <4>5. HeldFor(new, o, i)'
        BY <4>1, <4>3, <4>4 DEF HeldFor
      <4> QED BY <3>1, <4>5
    <3> QED BY <3>2, <3>3, <3>4, <3>5
  <2>4. CASE OneRowLess(r, inv'[r])
    BY <2>4 DEF OneRowLess
  <2>5. CASE MovesOn(r, inv'[r])
    BY <2>5 DEF MovesOn
  <2> QED BY <1>5, <2>1, <2>2, <2>3, <2>4, <2>5, WorkerChange
<1> QED BY <1>4, <1>5

\* The rows of a reserved order stay out of every rollback; those of an order that is
\* being announced reserved leave its worker.
LEMMA ReservedStep ==
  ASSUME BusTypeOK, InventoryTypeOK, WorkInv, OutcomeMatchesRow, LinesAreHeld, ReservedIsHeld,
         InventoryNext, UNCHANGED payments
  PROVE  ReservedIsHeld'
<1> SUFFICES ASSUME NEW o \in Orders, SentFor("inventory.reserved", o)',
                    NEW i \in 1..Len(ItemsOf[o])
             PROVE  \E id \in DOMAIN reservations' :
                      HeldFor(id, o, i)' /\ \A s \in Replicas : id \notin Mine(s)'
  BY DEF ReservedIsHeld
<1>1. Effect /\ reservations \in Seq(Rows)
  BY InventoryEffect DEF WorkInv, InventoryTypeOK
<1>2. CASE SentFor("inventory.reserved", o)
  <2>1. PICK id \in DOMAIN reservations :
          HeldFor(id, o, i) /\ \A s \in Replicas : id \notin Mine(s)
    BY <1>2 DEF ReservedIsHeld
  <2>2. \A s \in Replicas : inv[s].pc = "rollback" => id \notin inv[s].held
    BY <2>1 DEF Mine
  <2>3. HeldFor(id, o, i)'
    BY <1>1, <2>1, <2>2, HeldStays
  <2>4. \A s \in Replicas : id \notin Mine(s)'
    <3>1. id # Len(reservations) + 1
      BY <1>1, <2>1
    <3>2. ASSUME NEW s \in Replicas
          PROVE  Mine(s)' \subseteq Mine(s) \cup {Len(reservations) + 1}
      BY <1>1, MineChange DEF WorkInv
    <3> QED BY <2>1, <3>1, <3>2
  <2>5. id \in DOMAIN reservations'
    BY <1>1, RowChange
  <2> QED BY <2>3, <2>4, <2>5
<1>3. CASE ~SentFor("inventory.reserved", o)
  <2>1. PICK e \in Sent("inventory.reserved")' : e.order = o
    BY DEF SentFor
  <2>2. e \notin Sent("inventory.reserved")
    BY <1>3, <2>1 DEF SentFor
  <2>3. PICK r \in Replicas :
          /\ inv[r].order = o
          /\ inv[r].pc = "publishReserved"
          /\ inv'[r].pc \in {"commit", "guard", "lookup", "idle"}
          /\ \A s \in Replicas \ {r} : inv'[s] = inv[s]
    BY <2>1, <2>2, OutcomeSentBy DEF InventoryTopics
  <2>4. reservations' = reservations
    BY <2>1, <2>2, OutcomeSentBy DEF InventoryTopics, inventoryTables
  <2>5. PICK id \in inv[r].held : HeldFor(id, o, i)
    BY <2>3 DEF LinesAreHeld
  <2>6. HeldFor(id, o, i)'
    BY <2>4, <2>5 DEF HeldFor
  <2>7. id \in Mine(r) /\ Mine(r)' = {}
    BY <2>3 DEF Mine
  <2>8. \A s \in Replicas : id \notin Mine(s)'
    <3>1. ASSUME NEW s \in Replicas, s # r PROVE id \notin Mine(s)'
      <4>1. Mine(s)' = Mine(s)
        BY <2>3, <3>1 DEF Mine
      <4>2. Mine(r) \cap Mine(s) = {}
        BY <3>1 DEF WorkInv, RowsAreApart
      <4> QED BY <2>7, <4>1, <4>2
    <3> QED BY <2>7, <3>1
  <2> QED BY <2>4, <2>5, <2>6, <2>8 DEF HeldFor
<1> QED BY <1>2, <1>3

\* A payment that failed stays failed, and that is all these two ask of payment.
LEMMA HeldFrame ==
  ASSUME InventoryTypeOK, LinesAreHeld, ReservedIsHeld, UNCHANGED inventoryVars,
         Sent("inventory.reserved")' = Sent("inventory.reserved"),
         \A o \in Orders : payments[o].status = "failed" => payments'[o].status = "failed"
  PROVE  LinesAreHeld' /\ ReservedIsHeld'
<1> USE DEF inventoryVars
<1>1. ASSUME NEW o \in Orders, NEW id, NEW i, HeldFor(id, o, i) PROVE HeldFor(id, o, i)'
  BY <1>1 DEF HeldFor
<1>2. LinesAreHeld'
  <2>1. ASSUME NEW r \in Replicas, inv[r].pc # "idle", NEW i, \E id \in inv[r].held : HeldFor(id, inv[r].order, i)
        PROVE  \E id \in inv'[r].held : HeldFor(id, inv[r].order, i)'
    <3>1. inv[r].order \in Orders
      BY <2>1 DEF InventoryTypeOK
    <3> QED BY <1>1, <2>1, <3>1 DEF HeldFor
  <2> QED BY <2>1 DEF LinesAreHeld
<1>3. ReservedIsHeld'
  <2>1. \A s \in Replicas : Mine(s)' = Mine(s)
    BY DEF Mine
  <2>2. \A o : SentFor("inventory.reserved", o)' <=> SentFor("inventory.reserved", o)
    BY DEF SentFor
  <2> QED BY <1>1, <2>1, <2>2 DEF ReservedIsHeld
<1> QED BY <1>2, <1>3

-----------------------------------------------------------------------------
\* A step of one service keeps what it and the others rely on.
LEMMA CauseStep == CauseInv /\ [Next]_vars => CauseInv'
<1> SUFFICES ASSUME CauseInv, [Next]_vars PROVE CauseInv'
  OBVIOUS
<1>1. /\ BusTypeOK /\ OrderTypeOK /\ InventoryTypeOK /\ PaymentTypeOK
      /\ OrderInv /\ PaymentInv /\ OrderCause /\ PaymentCause /\ WorkInv /\ OutcomeMatchesRow
      /\ LinesAreHeld /\ ReservedIsHeld /\ NoExcess
  BY DEF CauseInv, SagaInv, TypeOK, PaymentInv
<1>2. SagaInv' /\ InventoryTypeOK'
  <2>1. SagaInv'
    BY SagaStep DEF CauseInv
  <2> QED BY <2>1 DEF SagaInv, TypeOK
<1>3. ASSUME UNCHANGED inventoryVars PROVE NoExcess'
  BY <1>1, <1>3, ExcessFrame DEF NoExcess
<1>4. CASE OrderNext /\ UNCHANGED <<inventoryVars, paymentVars>>
  <2>1. /\ \A u \in Topics : Sent(u) \subseteq Sent(u)'
        /\ \A u \in Topics \ OrderTopics : Sent(u)' = Sent(u)
    BY <1>1, <1>4, OrderTyped
  <2>2. OrderCause'
    BY <1>1, <1>4, OrderCauseStep
  <2>3. PaymentCause'
    BY <1>1, <1>4, <2>1, PaymentCauseFrame
  <2>4. WorkInv'
    BY <1>1, <1>4, <2>1, WorkFrame DEF InventoryTopics, OrderTopics, Topics
  <2>5. LinesAreHeld' /\ ReservedIsHeld'
    BY <1>1, <1>4, <2>1, HeldFrame DEF OrderTopics, Topics, paymentVars
  <2> QED BY <1>2, <1>3, <1>4, <2>2, <2>3, <2>4, <2>5 DEF CauseInv
<1>5. CASE InventoryNext /\ UNCHANGED <<orderVars, paymentVars>>
  <2>1. /\ \A u \in Topics : Sent(u) \subseteq Sent(u)'
        /\ \A u \in Topics \ InventoryTopics : Sent(u)' = Sent(u)
    BY <1>1, <1>5, InventoryTyped
  <2>2. OrderCause'
    BY <1>1, <1>5, <2>1, OrderCauseFrame DEF InventoryTopics, OrderTopics, Topics
  <2>3. PaymentCause'
    BY <1>1, <1>5, <2>1, PaymentCauseFrame
  <2>4. WorkInv'
    BY <1>1, <1>5, WorkInvStep
  <2>5. Effect
    BY <1>1, <1>5, InventoryEffect DEF WorkInv
  <2>6. LinesAreHeld'
    BY <1>1, <1>5, <2>5, LinesStep DEF paymentVars
  <2>7. ReservedIsHeld'
    BY <1>1, <1>5, ReservedStep DEF paymentVars
  <2>8. NoExcess'
    BY <1>1, <1>5, NoExcessStep
  <2> QED BY <1>2, <2>2, <2>3, <2>4, <2>6, <2>7, <2>8 DEF CauseInv
<1>6. CASE PaymentNext /\ UNCHANGED <<orderVars, inventoryVars>>
  <2>1. /\ \A u \in Topics : Sent(u) \subseteq Sent(u)'
        /\ \A u \in Topics \ PaymentTopics : Sent(u)' = Sent(u)
    BY <1>1, <1>6, PaymentTyped
  <2>2. OrderCause'
    BY <1>1, <1>6, <2>1, OrderCauseFrame DEF PaymentTopics, OrderTopics, Topics
  <2>3. PaymentCause'
    BY <1>1, <1>6, PaymentCauseStep
  <2>4. WorkInv'
    BY <1>1, <1>6, <2>1, WorkFrame DEF InventoryTopics, PaymentTopics, Topics
  <2>5. \A o \in Orders : payments[o].status = "failed" => payments'[o].status = "failed"
    BY <1>1, <1>6, PaidOnce DEF AlreadyPaid
  <2>6. LinesAreHeld' /\ ReservedIsHeld'
    BY <1>1, <1>6, <2>1, <2>5, HeldFrame DEF PaymentTopics, Topics
  <2> QED BY <1>2, <1>3, <1>6, <2>2, <2>3, <2>4, <2>6 DEF CauseInv
<1>7. CASE UNCHANGED vars
  <2>1. \A u \in Topics : Sent(u)' = Sent(u)
    BY <1>7, SilentStep DEF vars, busVars
  <2>2. OrderCause'
    BY <1>1, <1>7, <2>1, OrderCauseFrame DEF vars, OrderTopics, Topics
  <2>3. PaymentCause'
    BY <1>1, <1>7, <2>1, PaymentCauseFrame DEF vars
  <2>4. WorkInv'
    BY <1>1, <1>7, <2>1, WorkFrame DEF vars, InventoryTopics, Topics
  <2>5. LinesAreHeld' /\ ReservedIsHeld'
    BY <1>1, <1>7, <2>1, HeldFrame DEF vars, Topics, paymentVars
  <2> QED BY <1>2, <1>3, <1>7, <2>2, <2>3, <2>4, <2>5 DEF CauseInv, vars
<1> QED BY <1>4, <1>5, <1>6, <1>7 DEF Next

\* Initially nothing was sent and nobody works.
LEMMA CauseInitially == Init => CauseInv
<1> SUFFICES ASSUME Init PROVE CauseInv
  OBVIOUS
<1> USE DEF Init
<1>1. SagaInv
  BY SagaInitially
<1>2. \A u \in Topics : Sent(u) = {}
  BY BusInitially
<1>3. \A t \in Topics : \A o : ~SentFor(t, o)
  BY <1>2 DEF SentFor
<1>4. OrderCause
  BY <1>3 DEF OrderInit, OrderCause, CreatedHasRow, ReservedWasSent, Status, NoRow, Topics
<1>5. PaymentCause /\ WorkInv
  BY PaymentInitially, InventoryInitially
<1>6. \A r \in Replicas : inv[r].pc = "idle"
  BY DEF InventoryInit, InvIdle
<1>7. LinesAreHeld /\ ReservedIsHeld
  BY <1>3, <1>6 DEF LinesAreHeld, ReservedIsHeld, Topics
<1>8. \A product \in Products : Excess(product) = 0
  BY ExcessInitially
<1>9. NoExcess
  BY <1>8 DEF NoExcess
<1> QED BY <1>1, <1>4, <1>5, <1>7, <1>9 DEF CauseInv

\* The invariant holds in every reachable state.
THEOREM CauseInvariant == Spec => []CauseInv
BY CauseInitially, CauseStep, PTL DEF Spec

-----------------------------------------------------------------------------
\* Type correctness: in particular stock never goes below zero, because the UPDATE
\* that takes it is conditional.
THEOREM TypeCorrect == Spec => []TypeOK
<1>1. SagaInv => TypeOK
  BY DEF SagaInv
<1> QED BY <1>1, SagaInvariant, PTL

\* No order is confirmed unpaid.
THEOREM ConfirmedWasPaid == Spec => []ConfirmedIsPaid
<1>1. SagaInv => ConfirmedIsPaid
  BY DEF SagaInv
<1> QED BY <1>1, SagaInvariant, PTL

\* No customer is given a reason that is not so.
THEOREM ReasonIsTrue == Spec => []CancelReasonIsTrue
<1>1. SagaInv => CancelReasonIsTrue
  BY DEF SagaInv
<1> QED BY <1>1, SagaInvariant, PTL

\* What order announces is what its table says.
THEOREM AnnouncedIsStored == Spec => []AnnouncementsAgree
<1>1. SagaInv => AnnouncementsAgree
  BY DEF SagaInv, OrderInv
<1> QED BY <1>1, SagaInvariant, PTL

\* What payment announces is what its table says.
THEOREM VerdictIsStored == Spec => []OutcomeMatchesRow
<1>1. SagaInv => OutcomeMatchesRow
  BY DEF SagaInv, PaymentInv
<1> QED BY <1>1, SagaInvariant, PTL

\* No amount is charged but the order's own total, or the documented fallback.
THEOREM AmountIsTrue == Spec => []AmountIsTotalOrFallback
<1>1. CauseInv => AmountIsTotalOrFallback
  BY DEF CauseInv, PaymentCause, AmountsWereSent
<1> QED BY <1>1, CauseInvariant, PTL

\* A terminal order never changes again.
THEOREM TerminalForEver == Spec => TerminalIsFinal
<1>1. SagaInv /\ [Next]_vars =>
        [\A o \in Orders : Status(o) \in Terminal => orders'[o] = orders[o]]_orders
  <2> SUFFICES ASSUME SagaInv, [Next]_vars, orders' # orders, NEW o \in Orders, Status(o) \in Terminal
               PROVE  orders'[o] = orders[o]
    OBVIOUS
  <2>1. OrderNext
    BY DEF Next, vars, orderVars
  <2> QED BY <2>1, TerminalStays DEF SagaInv, TypeOK, OrderInv
<1> QED BY <1>1, SagaInvariant, PTL DEF Spec, TerminalIsFinal

-----------------------------------------------------------------------------
\* No more is sold than was supplied, however many replicas take stock at once and
\* wherever one is interrupted.
THEOREM NeverOversold == Spec => []NoOversell
<1>1. CauseInv => NoOversell
  BY ExcessTells DEF CauseInv, SagaInv, TypeOK
<1> QED BY <1>1, CauseInvariant, PTL

\* A confirmed order keeps the stock of every line: what inventory.reserved announced is
\* released for a declined payment only, and a confirmed order's was completed.
THEOREM ConfirmedKeepsStock == Spec => []ConfirmedHoldsStock
<1>1. CauseInv => ConfirmedHoldsStock
  <2> SUFFICES ASSUME CauseInv, NEW o \in Orders, Status(o) = "confirmed",
                      NEW i \in 1..Len(ItemsOf[o])
               PROVE  \E id \in DOMAIN reservations :
                        reservations[id] = [order |-> o, product |-> ItemsOf[o][i].product,
                                            quantity |-> ItemsOf[o][i].quantity, status |-> "active"]
    BY DEF ConfirmedHoldsStock, HoldsStock
  <2>1. SentFor("inventory.reserved", o) /\ payments[o].status = "completed"
    BY DEF CauseInv, OrderCause, ReservedWasSent, SagaInv, ConfirmedIsPaid
  <2>2. PICK id \in DOMAIN reservations : HeldFor(id, o, i)
    BY <2>1 DEF CauseInv, ReservedIsHeld
  <2>3. reservations[id] \in Rows
    BY DEF CauseInv, SagaInv, TypeOK, InventoryTypeOK
  <2>4. /\ reservations[id].order = o /\ reservations[id].status = "active"
        /\ reservations[id].product = ItemsOf[o][i].product
        /\ reservations[id].quantity = ItemsOf[o][i].quantity
    BY <2>1, <2>2 DEF HeldFor
  <2>5. \A row \in Rows : row = [order |-> row.order, product |-> row.product,
                                 quantity |-> row.quantity, status |-> row.status]
    BY DEF Rows
  <2> QED BY <2>3, <2>4, <2>5
<1> QED BY <1>1, CauseInvariant, PTL

\* Where no database call fails and no process dies, not a unit is lost either.
THEOREM StockIsConserved ==
  ASSUME Disturbances \cap {"crash", "dbError"} = {}
  PROVE  Spec => []StockConserved
<1> DEFINE Exact == \A product \in Products : Excess(product) = 0
<1>1. Init => Exact
  BY ExcessInitially DEF Init
<1>2. CauseInv /\ Exact /\ [Next]_vars => Exact'
  <2> SUFFICES ASSUME CauseInv, Exact, [Next]_vars, NEW product \in Products
               PROVE  Excess(product)' = 0
    OBVIOUS
  <2>1. BusTypeOK /\ InventoryTypeOK /\ WorkInv /\ Excess(product) = 0
    BY DEF CauseInv, SagaInv, TypeOK
  <2>2. CASE InventoryNext
    BY <2>1, <2>2, ExactStep
  <2>3. CASE UNCHANGED inventoryVars
    BY <2>1, <2>3, ExcessFrame
  <2> QED BY <2>2, <2>3 DEF Next, vars
<1>3. CauseInv /\ Exact => StockConserved
  BY ExcessTells DEF CauseInv, SagaInv, TypeOK
<1> HIDE DEF Exact
<1> QED BY <1>1, <1>2, <1>3, CauseInvariant, PTL DEF Spec

-----------------------------------------------------------------------------
(* The saga implements the lifecycle *)

\* What the customer is shown, charged and told of each order.
Shown == [o \in Orders |-> Status(o)]
Charged == [o \in Orders |-> payments[o].status]
AllTold == [o \in Orders |-> Told(o)]

\* Who was told what is what was sent on the two topics.
LEMMA ToldIs ==
  ASSUME NEW o \in Orders
  PROVE  Told(o) = {outcome \in Terminal :
                      SentFor(IF outcome = "confirmed" THEN "order.confirmed" ELSE "order.cancelled", o)}
BY DEF Told, SentFor

\* Nobody is told anything by a step that sends nothing on those topics.
LEMMA NobodyTold ==
  ASSUME \A t \in {"order.confirmed", "order.cancelled"}, o \in Orders : SentFor(t, o)' <=> SentFor(t, o)
  PROVE  AllTold' = AllTold
<1>1. ASSUME NEW o \in Orders PROVE Told(o)' = Told(o)
  BY DEF Told, SentFor
<1> QED BY <1>1 DEF AllTold

\* An order is charged only once it is in the table: payment answers inventory, which
\* answered the order.
LEMMA ChargedIsPlaced ==
  ASSUME CauseInv, NEW r \in Replicas, pay[r].pc = "charge"
  PROVE  pay[r].order \in Orders /\ Status(pay[r].order) # "none"
<1> DEFINE o == pay[r].order
<1>1. o \in Orders /\ SentFor("inventory.reserved", o)
  BY DEF CauseInv, SagaInv, TypeOK, PaymentTypeOK, PaymentCause, ChargeFollowsReserved
<1>2. SentFor("order.created", o)
  BY <1>1 DEF CauseInv, WorkInv, OutcomeFollowsCreated, InventoryTopics, SentFor
<1> QED BY <1>1, <1>2 DEF CauseInv, OrderCause, CreatedHasRow

\* A step of order is a step of the lifecycle: a row moves on, or a customer is told.
LEMMA OrderIsLifecycle ==
  ASSUME CauseInv, SagaInv', OrderNext, UNCHANGED paymentVars
  PROVE  Lifecycle!LifecycleNext \/ UNCHANGED <<Shown, Charged, AllTold>>
<1> DEFINE Goal == Lifecycle!LifecycleNext \/ UNCHANGED <<Shown, Charged, AllTold>>
<1> SUFFICES Goal
  OBVIOUS
<1>1. BusTypeOK /\ OrderTypeOK /\ OrderInv /\ SagaInv /\ AnnouncementsAgree'
  BY DEF CauseInv, SagaInv, TypeOK, OrderInv
<1>2. Charged' = Charged
  BY DEF Charged, paymentVars
<1>3. ASSUME NEW o \in Orders, NEW s, Shown' = [Shown EXCEPT ![o] = s], UNCHANGED <<Charged, AllTold>>,
             \/ Status(o) = "none" /\ s = "pending"
             \/ Status(o) = "pending" /\ s = "inventory_reserved"
             \/ Status(o) = "inventory_reserved" /\ s = "confirmed" /\ payments[o].status = "completed"
             \/ Status(o) \in {"pending", "inventory_reserved"} /\ s = "cancelled"
      PROVE  Goal
  <2>1. CASE Status(o) = "none" /\ s = "pending"
    <3>1. Lifecycle!Place(o)
      BY <1>3, <2>1 DEF Lifecycle!Place, Shown, Charged, AllTold
    <3> QED BY <3>1 DEF Lifecycle!LifecycleNext
  <2>2. CASE Status(o) = "pending" /\ s = "inventory_reserved"
    <3>1. Lifecycle!Reserve(o)
      BY <1>3, <2>2 DEF Lifecycle!Reserve, Shown, Charged, AllTold
    <3> QED BY <3>1 DEF Lifecycle!LifecycleNext
  <2>3. CASE Status(o) = "inventory_reserved" /\ s = "confirmed" /\ payments[o].status = "completed"
    <3>1. Lifecycle!Confirm(o)
      BY <1>3, <2>3 DEF Lifecycle!Confirm, Shown, Charged, AllTold
    <3> QED BY <3>1 DEF Lifecycle!LifecycleNext
  <2>4. CASE Status(o) \in {"pending", "inventory_reserved"} /\ s = "cancelled"
    <3>1. Lifecycle!Cancel(o)
      BY <1>3, <2>4 DEF Lifecycle!Cancel, Shown, Charged, AllTold
    <3> QED BY <3>1 DEF Lifecycle!LifecycleNext
  <2> QED BY <1>3, <2>1, <2>2, <2>3, <2>4
<1>4. ASSUME NEW o \in Orders, orders'[o] # orders[o] PROVE Goal
  <2> HIDE DEF Goal
  <2>1. log' = log /\ \A other \in Orders \ {o} : orders'[other] = orders[other]
    BY <1>1, <1>4, OneOrderChanges
  <2>2. AllTold' = AllTold
    <3>1. \A u : Sent(u)' = Sent(u)
      BY <2>1, SilentStep
    <3> QED BY <3>1, NobodyTold DEF SentFor
  <2>3. Shown' = [Shown EXCEPT ![o] = orders'[o].status]
    BY <2>1 DEF Shown, Status
  <2>4. CASE request[o] = "received" /\ orders'[o].status = "pending"
    <3>1. Status(o) = "none"
      BY <1>1, <2>4 DEF OrderInv, ReceivedHasNoRow, NoRow, Status
    <3> QED BY <1>2, <1>3, <2>2, <2>3, <2>4, <3>1
  <2>5. ASSUME NEW r \in Replicas, ord[r].pc = "handle", ord[r].order = o,
               CanTransition(ord[r].topic, o),
               orders'[o] = TransitionRow(ord[r].topic, ord[r].reason)
        PROVE  Goal
    <3>1. ord[r].topic \in Subscription["order-service"]
      BY <1>1, <2>5 DEF OrderTypeOK
    <3>2. orders[o] \in OrderRows
      BY <1>1 DEF OrderTypeOK
    <3>3. CASE ord[r].topic = "inventory.reserved"
      <4>1. Status(o) = "pending" /\ orders'[o].status = "inventory_reserved"
        BY <2>5, <3>3 DEF CanTransition, CanReserve, TransitionRow
      <4>2. Shown' = [Shown EXCEPT ![o] = "inventory_reserved"]
        BY <2>3, <4>1
      <4> QED BY <1>2, <1>3, <2>2, <4>1, <4>2
    <3>4. CASE ord[r].topic = "payment.completed"
      <4>1. Status(o) = "inventory_reserved" /\ orders'[o].status = "confirmed"
        BY <2>5, <3>4 DEF CanTransition, CanConfirm, TransitionRow
      <4>2. payments[o].status = "completed"
        BY <1>1, <2>5, <4>1, TransitionIsTrue
      <4>3. Shown' = [Shown EXCEPT ![o] = "confirmed"]
        BY <2>3, <4>1
      <4> QED BY <1>2, <1>3, <2>2, <4>1, <4>2, <4>3
    <3>5. CASE ord[r].topic \in {"inventory.failed", "payment.failed"}
      <4>1. CanCancel(o)
        BY <2>5, <3>5 DEF CanTransition
      <4>2. orders'[o].status = "cancelled"
        BY <2>5, <3>5 DEF TransitionRow
      <4>3. Status(o) \in {"pending", "inventory_reserved"}
        BY <3>2, <4>1 DEF CanCancel, OrderRows, Statuses, Terminal, Status
      <4>4. Shown' = [Shown EXCEPT ![o] = "cancelled"]
        BY <2>3, <4>2
      <4> QED BY <1>2, <1>3, <2>2, <4>3, <4>4
    <3> QED BY <3>1, <3>3, <3>4, <3>5 DEF Subscription, Groups
  <2>6. \/ request[o] = "received" /\ request'[o] # "received" /\ orders'[o].status = "pending"
        \/ \E r \in Replicas :
             /\ ord[r].pc = "handle" /\ ord[r].order = o
             /\ CanTransition(ord[r].topic, o)
             /\ orders'[o] = TransitionRow(ord[r].topic, ord[r].reason)
    BY <1>1, <1>4, OrderChange
  <2> QED BY <2>4, <2>5, <2>6
<1>5. ASSUME NEW t \in {"order.confirmed", "order.cancelled"}, NEW o \in Orders,
             SentFor(t, o)', ~SentFor(t, o)
      PROVE  Goal
  <2>1. /\ orders' = orders
        /\ \A u \in {"order.confirmed", "order.cancelled"}, other \in Orders :
             SentFor(u, other)' /\ ~SentFor(u, other) => u = t /\ other = o
    BY <1>1, <1>5, OneOrderTold
  <2>2. \A u \in {"order.confirmed", "order.cancelled"}, other \in Orders :
          SentFor(u, other) => SentFor(u, other)'
    <3>1. \A u \in Topics : Sent(u) \subseteq Sent(u)'
      BY <1>1, OrderTyped
    <3> QED BY <3>1 DEF SentFor, Topics
  <2> DEFINE outcome == IF t = "order.confirmed" THEN "confirmed" ELSE "cancelled"
  <2>3. Status(o) = outcome
    <3>1. Status(o)' = outcome
      BY <1>1, <1>5 DEF SentFor, AnnouncementsAgree
    <3> QED BY <2>1, <3>1 DEF Status
  <2>4. \A other \in Orders : Told(other)' = IF other = o THEN Told(o) \cup {outcome} ELSE Told(other)
    <3> TAKE other \in Orders
    <3>1. Told(other)' = {x \in Terminal :
            SentFor(IF x = "confirmed" THEN "order.confirmed" ELSE "order.cancelled", other)'}
      BY DEF Told, SentFor
    <3> QED BY <1>5, <2>1, <2>2, <3>1, ToldIs DEF Terminal
  <2>5. Shown' = Shown
    BY <2>1 DEF Shown, Status
  <2>6. AllTold' = [AllTold EXCEPT ![o] = @ \cup {Shown[o]}]
    BY <2>3, <2>4 DEF AllTold, Shown
  <2>7. Shown[o] \in {"confirmed", "cancelled"}
    BY <2>3 DEF Shown
  <2>8. Lifecycle!Tell(o)
    BY <1>2, <2>5, <2>6, <2>7 DEF Lifecycle!Tell, Shown, Charged, AllTold
  <2> QED BY <2>8 DEF Lifecycle!LifecycleNext
<1>6. CASE /\ \A o \in Orders : orders'[o] = orders[o]
           /\ \A t \in {"order.confirmed", "order.cancelled"}, o \in Orders : SentFor(t, o)' => SentFor(t, o)
  <2>1. \A u \in {"order.confirmed", "order.cancelled"}, other \in Orders :
          SentFor(u, other) => SentFor(u, other)'
    <3>1. \A u \in Topics : Sent(u) \subseteq Sent(u)'
      BY <1>1, OrderTyped
    <3> QED BY <3>1 DEF SentFor, Topics
  <2>2. AllTold' = AllTold
    BY <1>6, <2>1, NobodyTold
  <2>3. Shown' = Shown
    BY <1>6 DEF Shown, Status
  <2> QED BY <1>2, <2>2, <2>3
<1> HIDE DEF Goal
<1> QED BY <1>4, <1>5, <1>6

\* A step of payment charges one order, once, or changes nothing the customer sees.
LEMMA PaymentIsLifecycle ==
  ASSUME CauseInv, PaymentNext, UNCHANGED orderVars
  PROVE  Lifecycle!LifecycleNext \/ UNCHANGED <<Shown, Charged, AllTold>>
<1>1. BusTypeOK /\ PaymentTypeOK
  BY DEF CauseInv, SagaInv, TypeOK
<1>2. Shown' = Shown
  BY DEF Shown, Status, orderVars
<1>3. AllTold' = AllTold
  <2>1. \A u \in Topics \ PaymentTopics : Sent(u)' = Sent(u)
    BY <1>1, PaymentTyped
  <2> QED BY <2>1, NobodyTold DEF SentFor, Topics, PaymentTopics
<1>4. CASE \A o \in Orders : payments'[o] = payments[o]
  <2>1. Charged' = Charged
    BY <1>4 DEF Charged
  <2> QED BY <1>2, <1>3, <2>1
<1>5. ASSUME NEW o \in Orders, payments'[o] # payments[o] PROVE Lifecycle!LifecycleNext
  <2>1. /\ payments[o].status = "none" /\ payments'[o].status \in {"completed", "failed"}
        /\ \E r \in Replicas : pay[r].pc = "charge" /\ pay[r].order = o
        /\ \A other \in Orders \ {o} : payments'[other] = payments[other]
    BY <1>1, <1>5, OnePaymentChanges
  <2>2. Status(o) # "none"
    BY <2>1, ChargedIsPlaced
  <2>3. Charged' = [Charged EXCEPT ![o] = payments'[o].status]
    BY <2>1 DEF Charged
  <2>4. Lifecycle!Charge(o)
    BY <1>2, <1>3, <2>1, <2>2, <2>3 DEF Lifecycle!Charge, Shown, Charged, AllTold
  <2> QED BY <2>4 DEF Lifecycle!LifecycleNext
<1> QED BY <1>4, <1>5

\* Three services, their failures included, are the lifecycle to the customer.
THEOREM SagaIsLifecycle == Spec => ImplementsLifecycle
<1>1. Init => Lifecycle!LifecycleInit
  <2> SUFFICES ASSUME Init PROVE Lifecycle!LifecycleInit
    OBVIOUS
  <2>1. \A o \in Orders : Status(o) = "none" /\ payments[o].status = "none"
    BY DEF Init, OrderInit, PaymentInit, NoRow, NoPayment, Status
  <2>2. \A u \in Topics : Sent(u) = {}
    BY BusInitially DEF Init
  <2>3. \A o \in Orders : Told(o) = {}
    BY <2>2 DEF Told, Topics
  <2> QED BY <2>1, <2>3 DEF Lifecycle!LifecycleInit
<1>2. CauseInv /\ [Next]_vars => [Lifecycle!LifecycleNext]_(Lifecycle!lifecycleVars)
  <2> SUFFICES ASSUME CauseInv, [Next]_vars
               PROVE  Lifecycle!LifecycleNext \/ UNCHANGED <<Shown, Charged, AllTold>>
    BY DEF Lifecycle!lifecycleVars, Shown, Charged, AllTold
  <2>1. SagaInv' /\ BusTypeOK /\ InventoryTypeOK
    <3>1. SagaInv'
      BY SagaStep DEF CauseInv
    <3> QED BY <3>1 DEF CauseInv, SagaInv, TypeOK
  <2>2. CASE OrderNext /\ UNCHANGED <<inventoryVars, paymentVars>>
    BY <2>1, <2>2, OrderIsLifecycle
  <2>3. CASE PaymentNext /\ UNCHANGED <<orderVars, inventoryVars>>
    BY <2>3, PaymentIsLifecycle
  <2>4. CASE InventoryNext /\ UNCHANGED <<orderVars, paymentVars>>
    <3>1. \A u \in Topics \ InventoryTopics : Sent(u)' = Sent(u)
      BY <2>1, <2>4, InventoryTyped
    <3>2. AllTold' = AllTold
      BY <3>1, NobodyTold DEF SentFor, Topics, InventoryTopics
    <3> QED BY <2>4, <3>2 DEF Shown, Charged, Status, orderVars, paymentVars
  <2>5. CASE UNCHANGED vars
    <3>1. \A u : Sent(u)' = Sent(u)
      BY <2>5, SilentStep DEF vars, busVars
    <3>2. AllTold' = AllTold
      BY <3>1, NobodyTold DEF SentFor
    <3> QED BY <2>5, <3>2 DEF Shown, Charged, Status, vars, orderVars, paymentVars
  <2> QED BY <2>2, <2>3, <2>4, <2>5 DEF Next
<1> QED BY <1>1, <1>2, CauseInvariant, PTL DEF Spec, ImplementsLifecycle, Lifecycle!LifecycleSpec

===============================================================================
