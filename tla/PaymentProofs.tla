---------------------------- MODULE PaymentProofs ----------------------------
(***************************************************************************)
(* Proofs about the payment service: it is type-correct, a payment row is  *)
(* written once, and what it says on the bus is what its table says.       *)
(***************************************************************************)
EXTENDS PaymentService, EventBusProofs

PaymentTopics == {"payment.completed", "payment.failed"}

\* The outcome a replica is about to publish is the row it has inserted.
PublishesItsRow ==
  \A r \in Replicas : pay[r].pc = "publish" =>
    payments[pay[r].order] = [status |-> pay[r].outcome, amount |-> pay[r].amount]

\* The reason payment gives is the one reason it has.
FailedIsDeclined == \A e \in Sent("payment.failed") : e.reason = "card declined"

\* A charge, begun or recorded, answers an inventory.reserved.
ChargeFollowsReserved ==
  /\ \A r \in Replicas : pay[r].pc \in {"exists", "resolve", "charge", "publish"} =>
       SentFor("inventory.reserved", pay[r].order)
  /\ \A o \in Orders : AlreadyPaid(o) => SentFor("inventory.reserved", o)

\* Amounts come from order.created: what is to be cached, what is cached, what is about
\* to be charged.
TotalsSent(o) == {e.amount : e \in {c \in Sent("order.created") : c.order = o}}
AmountsWereSent ==
  /\ \A r \in Replicas : pay[r].pc = "cache" => pay[r].amount \in TotalsSent(pay[r].order)
  /\ \A o \in Orders : HasAmount(o) => orderAmounts[o] \in TotalsSent(o)
  /\ \A r \in Replicas : pay[r].pc = "charge" => pay[r].amount \in {0} \cup TotalsSent(pay[r].order)
  /\ AmountIsTotalOrFallback

\* OutcomeMatchesRow is not inductive: it needs to know what will be published.
PaymentInv == OutcomeMatchesRow /\ PublishesItsRow /\ FailedIsDeclined

\* Replica steps that leave the bus alone.
PayLocal(r) == PayCache(r) \/ PayExists(r) \/ PayResolve(r) \/ PayCharge(r)

-----------------------------------------------------------------------------
\* What a replica makes of its next event is well-typed.
LEMMA PayReadTyped ==
  ASSUME NEW r \in Replicas, NEW t, NEW p \in Partitions, BusTypeOK, PaymentTypeOK, PayRead(r, t, p)
  PROVE  BusTypeOK' /\ PaymentTypeOK'
<1> DEFINE e == NextEvent("payment-service", t, p)
<1>1. /\ t \in Topics
      /\ e \in Events
      /\ position["payment-service"][t][p] \in Nat
  BY FetchStep DEF PayRead, Groups
<1>2. e.order \in Orders /\ e.amount \in Nat
  BY <1>1 DEF Events
<1>3. position' \in Offsets
  BY <1>1, OffsetSteps DEF PayRead, Groups
<1>4. pay' \in [Replicas -> PayWorkers] /\ pay'[r].order \in Orders
  <2> HIDE DEF e
  <2>1. pay' = [pay EXCEPT ![r] = [PayIdle EXCEPT
                  !.pc = IF t = "order.created" THEN "cache" ELSE "exists",
                  !.order = e.order, !.amount = e.amount]]
    BY DEF PayRead, e
  <2> QED BY <2>1, <1>2 DEF PaymentTypeOK, PayWorkers, PayIdle, PaySteps
<1>5. \A s \in Replicas \ {r} : pay'[s] = pay[s]
  BY DEF PayRead, PaymentTypeOK
<1> QED BY <1>3, <1>4, <1>5 DEF BusTypeOK, PaymentTypeOK, PayRead

\* Resolving the amount leads to another attempt or to the charge of a well-typed
\* amount.
LEMMA PayResolveStep ==
  ASSUME NEW r \in Replicas, PaymentTypeOK, PayResolve(r)
  PROVE  \E w \in PayWorkers : /\ w.pc \in {"resolve", "charge"} /\ w.order \in Orders
                               /\ pay' = [pay EXCEPT ![r] = w]
<1>1. pay[r] \in PayWorkers /\ pay[r].order \in Orders /\ pay[r].pc = "resolve"
  BY DEF PaymentTypeOK, PayResolve
<1>2. PICK outcome \in {"completed", "failed"} :
        \/ pay' = [pay EXCEPT ![r].tries = @ + 1]
        \/ \E amount \in Nat : Resolved(amount, outcome, r)
  <2>1. HasAmount(pay[r].order) => orderAmounts[pay[r].order] \in Nat
    BY <1>1 DEF HasAmount, PaymentTypeOK
  <2> QED BY <2>1 DEF PayResolve
<1>3. CASE pay' = [pay EXCEPT ![r].tries = @ + 1]
  <2> DEFINE w == [pay[r] EXCEPT !.tries = @ + 1]
  <2>1. w \in PayWorkers /\ w.pc = "resolve" /\ w.order \in Orders
    BY <1>1 DEF PayWorkers
  <2>2. pay' = [pay EXCEPT ![r] = w]
    BY <1>3
  <2> HIDE DEF w
  <2> QED BY <2>1, <2>2
<1>4. ASSUME NEW amount \in Nat, Resolved(amount, outcome, r)
      PROVE  \E w \in PayWorkers : /\ w.pc \in {"resolve", "charge"} /\ w.order \in Orders
                                   /\ pay' = [pay EXCEPT ![r] = w]
  <2> DEFINE w == [pay[r] EXCEPT !.pc = "charge", !.amount = amount, !.outcome = outcome, !.tries = 0]
  <2>1. w \in PayWorkers /\ w.pc = "charge" /\ w.order \in Orders
    BY <1>1 DEF PayWorkers, PaySteps
  <2>2. pay' = [pay EXCEPT ![r] = w]
    BY <1>4 DEF Resolved
  <2> HIDE DEF w
  <2> QED BY <2>1, <2>2
<1> QED BY <1>2, <1>3, <1>4

\* A step of the service keeps its types and those of the bus, and sends events of
\* its own topics only.
LEMMA PaymentTyped ==
  ASSUME BusTypeOK, PaymentTypeOK, PaymentNext
  PROVE  /\ BusTypeOK' /\ PaymentTypeOK'
         /\ \A u \in Topics : Sent(u) \subseteq Sent(u)'
         /\ \A u \in Topics \ PaymentTopics : Sent(u)' = Sent(u)
<1> DEFINE Typed == /\ BusTypeOK' /\ PaymentTypeOK'
                    /\ \A u \in Topics : Sent(u) \subseteq Sent(u)'
                    /\ \A u \in Topics \ PaymentTopics : Sent(u)' = Sent(u)
<1> SUFFICES Typed
  OBVIOUS
<1>1. ASSUME NEW r \in Replicas, NEW t \in Topics, NEW p \in Partitions, PayRead(r, t, p)
      PROVE  Typed
  BY <1>1, PayReadTyped, SilentStep DEF PayRead
<1>2. ASSUME NEW r \in Replicas, PayLocal(r) PROVE Typed
  <2>1. BusTypeOK' /\ log' = log
    BY <1>2 DEF BusTypeOK, busVars, offsets, PayLocal, PayCache, PayExists, PayResolve, PayCharge
  <2>2. PaymentTypeOK'
    <3>1. CASE PayCache(r)
      BY <3>1 DEF PaymentTypeOK, PayCache, Cache, PayDone, PayIdle, PayWorkers, PaySteps
    <3>2. CASE PayExists(r)
      BY <3>2 DEF PaymentTypeOK, PayExists, PayIdle, PayWorkers, PaySteps
    <3>3. CASE PayResolve(r)
      <4>1. PICK w \in PayWorkers : w.order \in Orders /\ pay' = [pay EXCEPT ![r] = w]
        BY <3>3, PayResolveStep
      <4> QED BY <3>3, <4>1 DEF PaymentTypeOK, PayResolve
    <3>4. CASE PayCharge(r)
      <4>1. /\ pay[r] \in PayWorkers /\ pay[r].order \in Orders
            /\ UNCHANGED orderAmounts
        BY <3>4 DEF PaymentTypeOK, PayCharge
      <4>2. CASE InsertPayment(r) /\ pay' = [pay EXCEPT ![r].pc = "publish"]
        <5>1. payments' \in [Orders -> [status : {"none", "completed", "failed"}, amount : Nat]]
          BY <4>1, <4>2 DEF PaymentTypeOK, InsertPayment, PayWorkers
        <5>2. /\ pay' \in [Replicas -> PayWorkers]
              /\ \A s \in Replicas : pay'[s].pc # "idle" => pay'[s].order \in Orders
          BY <4>1, <4>2 DEF PaymentTypeOK, PayWorkers, PaySteps
        <5> QED BY <4>1, <5>1, <5>2 DEF PaymentTypeOK
      <4>3. CASE UNCHANGED payments /\ PayDone(r)
        BY <4>1, <4>3 DEF PaymentTypeOK, PayDone, PayIdle, PayWorkers, PaySteps
      <4> QED BY <3>4, <4>2, <4>3 DEF PayCharge
    <3> QED BY <1>2, <3>1, <3>2, <3>3, <3>4 DEF PayLocal
  <2> QED BY <2>1, <2>2, SilentStep
<1>3. ASSUME NEW r \in Replicas, PayPublish(r) PROVE Typed
  <2> DEFINE a == OutcomeEvent(r)
  <2>1. pay[r].order \in Orders /\ pay[r].amount \in Nat
    BY <1>3 DEF PaymentTypeOK, PayPublish, PayWorkers
  <2>2. a[1] \in PaymentTopics /\ a[1] \in Topics /\ a[2] \in Events
    BY <2>1 DEF OutcomeEvent, PaymentTopics, Topics, Events, Event, Reasons
  <2>3. (Acknowledged(a[1], a[2]) \/ Unacknowledged(a[1], a[2])) /\ UNCHANGED offsets
    BY <1>3 DEF PayPublish
  <2> HIDE DEF a
  <2>4. BusTypeOK' /\ (\A u \in Topics : Sent(u) \subseteq Sent(u)')
    BY <2>2, <2>3, PublishStep
  <2>5. \A u \in Topics \ PaymentTopics : Sent(u)' = Sent(u)
    BY <2>2, <2>3, PublishStep
  <2>6. PaymentTypeOK'
    BY <1>3 DEF PaymentTypeOK, PayPublish, PayDone, PayIdle, PayWorkers, PaySteps
  <2> QED BY <2>4, <2>5, <2>6
<1>4. ASSUME NEW r \in Replicas, PayAutoCommit(r) PROVE Typed
  <2>1. committed' \in Offsets
    BY <1>4 DEF PayAutoCommit, BusTypeOK, Offsets
  <2> QED BY <1>4, <2>1, SilentStep DEF PayAutoCommit, BusTypeOK, PaymentTypeOK, paymentVars
<1>5. ASSUME NEW r \in Replicas, NEW pc, PayRaises(r, pc) PROVE
        /\ BusTypeOK' /\ log' = log
        /\ pay' \in [Replicas -> PayWorkers]
        /\ \A s \in Replicas : pay'[s].pc # "idle" => pay'[s].order \in Orders
  <2>1. disturbances' \in 0..MaxDisturbances
    BY <1>5, DisturbStep DEF PayRaises, BusTypeOK
  <2>2. BusTypeOK' /\ log' = log
    BY <1>5, <2>1 DEF PayRaises, BusTypeOK, offsets
  <2>3. /\ pay' \in [Replicas -> PayWorkers]
        /\ \A s \in Replicas : pay'[s].pc # "idle" => pay'[s].order \in Orders
    BY <1>5 DEF PaymentTypeOK, PayRaises, PayDone, PayIdle, PayWorkers, PaySteps
  <2> QED BY <2>2, <2>3
<1>6. ASSUME NEW r \in Replicas, PayCacheError(r) PROVE Typed
  <2>1. orderAmounts' \in [Orders -> Nat \cup {NotCached}] /\ UNCHANGED payments
    BY <1>6 DEF PayCacheError, PayRaises, Cache, PaymentTypeOK, PayWorkers
  <2> QED BY <1>5, <1>6, <2>1, SilentStep DEF PayCacheError, PaymentTypeOK
<1>7. ASSUME NEW r \in Replicas, PayReadError(r) PROVE Typed
  BY <1>5, <1>7, SilentStep DEF PayReadError, PaymentTypeOK
<1>8. ASSUME NEW r \in Replicas, PayChargeError(r) PROVE Typed
  <2>1. /\ payments' \in [Orders -> [status : {"none", "completed", "failed"}, amount : Nat]]
        /\ UNCHANGED orderAmounts
    BY <1>8 DEF PayChargeError, PayRaises, InsertPayment, PaymentTypeOK, PayWorkers
  <2> QED BY <1>5, <1>8, <2>1, SilentStep DEF PayChargeError, PaymentTypeOK
<1>9. ASSUME NEW r \in Replicas, PayCrash(r) PROVE Typed
  <2>1. BusTypeOK' /\ log' = log
    BY <1>9, RejoinStep DEF PayCrash, Groups, Rejoin
  <2>2. PaymentTypeOK'
    BY <1>9 DEF PayCrash, PayDone, PaymentTypeOK, PayIdle, PayWorkers, PaySteps
  <2> QED BY <2>1, <2>2, SilentStep
<1>10. ASSUME PayRebalance PROVE Typed
  <2>1. BusTypeOK' /\ log' = log
    BY <1>10, RejoinStep DEF PayRebalance, Rebalance, Groups, Rejoin
  <2> QED BY <1>10, <2>1, SilentStep DEF PayRebalance, PaymentTypeOK, paymentVars
<1> HIDE DEF Typed
<1> QED BY <1>1, <1>2, <1>3, <1>4, <1>6, <1>7, <1>8, <1>9, <1>10
        DEF PaymentNext, PayStep, PayFault, PayLocal

-----------------------------------------------------------------------------
\* A payment is written once: no step changes a row that is there.
LEMMA PaidOnce ==
  ASSUME PaymentTypeOK, PaymentNext, NEW o \in Orders, AlreadyPaid(o)
  PROVE  payments'[o] = payments[o]
<1>1. ASSUME NEW r \in Replicas, InsertPayment(r), CanInsert(pay[r].order), pay[r].pc # "idle"
      PROVE  payments'[o] = payments[o]
  BY <1>1 DEF PaymentTypeOK, InsertPayment, CanInsert, AlreadyPaid
<1>2. ASSUME payments' # payments
      PROVE  \E r \in Replicas : InsertPayment(r) /\ CanInsert(pay[r].order) /\ pay[r].pc # "idle"
  BY <1>2 DEF PaymentNext, PayStep, PayFault, PayRead, PayCache, PayExists, PayResolve, PayCharge,
    PayPublish, PayAutoCommit, PayCacheError, PayReadError, PayChargeError, PayRaises, PayCrash,
    PayRebalance, paymentVars
<1> QED BY <1>1, <1>2

\* A step of the service keeps its invariant.
LEMMA PaymentInvStep ==
  ASSUME BusTypeOK, PaymentTypeOK, PaymentInv, PaymentNext
  PROVE  PaymentInv'
<1>1. \A o \in Orders : AlreadyPaid(o) => payments'[o] = payments[o]
  BY PaidOnce
<1>2. OutcomeMatchesRow' /\ FailedIsDeclined'
  <2>1. \A u \in PaymentTopics : \A e \in Sent(u) : payments'[e.order] = payments[e.order]
    <3> TAKE u \in PaymentTopics
    <3> TAKE e \in Sent(u)
    <3>1. e.order \in Orders
      BY SentTyped DEF PaymentTopics, Topics, Events
    <3>2. payments[e.order] \in {[status |-> "completed", amount |-> e.amount],
                                 [status |-> "failed", amount |-> e.amount]}
      BY DEF PaymentTopics, PaymentInv, OutcomeMatchesRow
    <3>3. AlreadyPaid(e.order)
      BY <3>2 DEF AlreadyPaid
    <3> QED BY <3>1, <3>3, <1>1
  <2>2. CASE log' = log
    <3>1. OutcomeMatchesRow'
      BY <2>1, <2>2, SilentStep DEF PaymentInv, OutcomeMatchesRow, PaymentTopics
    <3>2. FailedIsDeclined'
      BY <2>2, SilentStep DEF PaymentInv, FailedIsDeclined
    <3> QED BY <3>1, <3>2
  <2>3. ASSUME NEW r \in Replicas, PayPublish(r) PROVE OutcomeMatchesRow' /\ FailedIsDeclined'
    <3> DEFINE a == OutcomeEvent(r)
    <3>1. pay[r] \in PayWorkers /\ pay[r].order \in Orders
      BY <2>3 DEF PaymentTypeOK, PayPublish
    <3>2. /\ a[1] \in PaymentTopics /\ a[1] \in Topics /\ a[2] \in Events
      BY <3>1 DEF OutcomeEvent, PaymentTopics, Topics, Events, Event, Reasons, PayWorkers
    <3>3. /\ (Acknowledged(a[1], a[2]) \/ Unacknowledged(a[1], a[2])) /\ UNCHANGED offsets
          /\ payments' = payments
      BY <2>3 DEF PayPublish
    <3>4. payments[a[2].order] = [status |-> IF a[1] = "payment.completed" THEN "completed" ELSE "failed",
                                  amount |-> a[2].amount]
      BY <2>3, <3>1 DEF PaymentInv, PublishesItsRow, PayPublish, OutcomeEvent, Event, PayWorkers
    <3>5. a[1] = "payment.failed" => a[2].reason = "card declined"
      BY DEF OutcomeEvent, Event
    <3> HIDE DEF a
    <3>6. \A u \in PaymentTopics : Sent(u)' \subseteq Sent(u) \cup (IF u = a[1] THEN {a[2]} ELSE {})
      BY <3>2, <3>3, PublishStep DEF PaymentTopics, Topics
    <3> QED BY <3>2, <3>3, <3>4, <3>5, <3>6
            DEF PaymentInv, OutcomeMatchesRow, FailedIsDeclined, PaymentTopics
  <2>4. log' = log \/ \E r \in Replicas : PayPublish(r)
    BY DEF PaymentNext, PayStep, PayFault, PayRead, PayCache, PayExists, PayResolve, PayCharge,
      PayAutoCommit, PayCacheError, PayReadError, PayChargeError, PayRaises, PayCrash,
      PayRebalance, Rebalance, Rejoin, busVars
  <2> QED BY <2>2, <2>3, <2>4
<1>3. PublishesItsRow'
  <2> SUFFICES ASSUME NEW r \in Replicas, pay'[r].pc = "publish"
               PROVE  payments'[pay'[r].order] = [status |-> pay'[r].outcome, amount |-> pay'[r].amount]
    BY DEF PublishesItsRow
  <2>1. CASE pay[r].pc = "publish" /\ pay'[r] = pay[r]
    <3>1. pay[r] \in PayWorkers /\ pay[r].order \in Orders
      BY <2>1 DEF PaymentTypeOK
    <3>2. payments[pay[r].order] = [status |-> pay[r].outcome, amount |-> pay[r].amount]
      BY <2>1 DEF PaymentInv, PublishesItsRow
    <3>3. payments[pay[r].order].status = pay[r].outcome
      BY <3>2
    <3>4. AlreadyPaid(pay[r].order)
      BY <3>1, <3>3 DEF AlreadyPaid, PayWorkers
    <3> QED BY <2>1, <3>1, <3>2, <3>4, <1>1
  <2>2. CASE InsertPayment(r) /\ pay[r].pc # "idle" /\ pay' = [pay EXCEPT ![r].pc = "publish"]
    BY <2>2 DEF PaymentTypeOK, InsertPayment, PayWorkers
  <2>3. \/ pay[r].pc = "publish" /\ pay'[r] = pay[r]
        \/ InsertPayment(r) /\ pay[r].pc # "idle" /\ pay' = [pay EXCEPT ![r].pc = "publish"]
    <3> DEFINE Kept == pay'[r] = pay[r]
               Inserted(s) == InsertPayment(s) /\ pay[s].pc # "idle" /\ pay' = [pay EXCEPT ![s].pc = "publish"]
    <3> SUFFICES Kept \/ Inserted(r)
      OBVIOUS
    <3>1. ASSUME NEW s \in Replicas, PayStep(s) \/ PayAutoCommit(s) \/ PayFault(s)
          PROVE  Kept \/ Inserted(r)
      <4>1. ASSUME NEW w, w.pc # "publish", pay' = [pay EXCEPT ![s] = w]
            PROVE  Kept
        BY <4>1 DEF PaymentTypeOK
      <4>2. ASSUME Inserted(s) PROVE Kept \/ Inserted(r)
        BY <4>2 DEF PaymentTypeOK
      <4>3. CASE PayDone(s)
        BY <4>1, <4>3 DEF PayDone, PayIdle
      <4>4. ASSUME NEW t, NEW p, PayRead(s, t, p) PROVE Kept
        BY <4>1, <4>4 DEF PayRead, PayIdle
      <4>5. CASE PayExists(s)
        BY <4>1, <4>3, <4>5 DEF PayExists, PaymentTypeOK, PayWorkers, PayDone
      <4>6. CASE PayResolve(s)
        BY <4>1, <4>6, PayResolveStep
      <4>7. CASE PayCharge(s)
        BY <4>2, <4>3, <4>7 DEF PayCharge
      <4>8. CASE PayCache(s) \/ PayPublish(s) \/ PayFault(s)
        BY <4>3, <4>8 DEF PayCache, PayPublish, PayFault, PayCacheError, PayReadError,
          PayChargeError, PayRaises, PayCrash
      <4>9. CASE PayAutoCommit(s)
        BY <4>9 DEF PayAutoCommit, paymentVars
      <4> HIDE DEF Kept, Inserted
      <4> QED BY <3>1, <4>4, <4>5, <4>6, <4>7, <4>8, <4>9 DEF PayStep
    <3>2. CASE PayRebalance
      BY <3>2 DEF PayRebalance, paymentVars
    <3> QED BY <3>1, <3>2 DEF PaymentNext
  <2> QED BY <2>1, <2>2, <2>3
<1> QED BY <1>2, <1>3 DEF PaymentInv
-----------------------------------------------------------------------------
PaymentCause == ChargeFollowsReserved /\ AmountsWereSent

\* How a replica's work changes: it becomes idle, takes up an event that was sent, or goes
\* on with the same order.
LEMMA PayWorkerChange ==
  ASSUME BusTypeOK, PaymentTypeOK, PaymentNext, NEW r \in Replicas, pay'[r] # pay[r]
  PROVE  \/ pay'[r].pc = "idle"
         \/ /\ pay'[r].pc = "cache" /\ log' = log
            /\ \E e \in Sent("order.created") : e.order = pay'[r].order /\ e.amount = pay'[r].amount
         \/ /\ pay'[r].pc = "exists" /\ log' = log
            /\ SentFor("inventory.reserved", pay'[r].order)
         \/ /\ pay[r].pc \in {"exists", "resolve"} /\ pay'[r].pc = "resolve"
            /\ pay'[r].order = pay[r].order
         \/ /\ pay[r].pc = "resolve" /\ pay'[r].pc = "charge" /\ pay'[r].order = pay[r].order
            /\ \/ pay'[r].amount = 0
               \/ HasAmount(pay[r].order) /\ pay'[r].amount = orderAmounts[pay[r].order]
         \/ /\ pay[r].pc = "charge" /\ pay'[r].pc = "publish" /\ pay'[r].order = pay[r].order
<1> DEFINE Goal ==
         \/ pay'[r].pc = "idle"
         \/ /\ pay'[r].pc = "cache" /\ log' = log
            /\ \E e \in Sent("order.created") : e.order = pay'[r].order /\ e.amount = pay'[r].amount
         \/ /\ pay'[r].pc = "exists" /\ log' = log
            /\ SentFor("inventory.reserved", pay'[r].order)
         \/ /\ pay[r].pc \in {"exists", "resolve"} /\ pay'[r].pc = "resolve"
            /\ pay'[r].order = pay[r].order
         \/ /\ pay[r].pc = "resolve" /\ pay'[r].pc = "charge" /\ pay'[r].order = pay[r].order
            /\ \/ pay'[r].amount = 0
               \/ HasAmount(pay[r].order) /\ pay'[r].amount = orderAmounts[pay[r].order]
         \/ /\ pay[r].pc = "charge" /\ pay'[r].pc = "publish" /\ pay'[r].order = pay[r].order
<1> SUFFICES Goal
  OBVIOUS
<1>1. pay \in [Replicas -> PayWorkers] /\ pay[r] \in PayWorkers
  BY DEF PaymentTypeOK
<1>2. ASSUME NEW s \in Replicas, PayDone(s) PROVE Goal
  BY <1>1, <1>2 DEF PayDone, PayIdle
<1>3. ASSUME NEW s \in Replicas, NEW t \in Topics, NEW p \in Partitions, PayRead(s, t, p) PROVE Goal
  <2> DEFINE e == NextEvent("payment-service", t, p)
  <2>1. e \in Sent(t) /\ t \in {"order.created", "inventory.reserved"}
    BY <1>3, FetchStep DEF PayRead, Groups, Subscription
  <2>2. log' = log
    BY <1>3 DEF PayRead
  <2>3. /\ pay'[r].order = e.order /\ pay'[r].amount = e.amount
        /\ pay'[r].pc = IF t = "order.created" THEN "cache" ELSE "exists"
    BY <1>1, <1>3 DEF PayRead, PayIdle
  <2> HIDE DEF e
  <2> QED BY <2>1, <2>2, <2>3 DEF SentFor
<1>4. ASSUME NEW s \in Replicas, PayExists(s) PROVE Goal
  BY <1>1, <1>4 DEF PayExists, PayIdle, PayWorkers
<1>5. ASSUME NEW s \in Replicas, PayResolve(s) PROVE Goal
  <2>1. pay[s].pc = "resolve" /\ pay[s] \in PayWorkers
    BY <1>1, <1>5 DEF PayResolve
  <2>2. CASE pay' = [pay EXCEPT ![s].tries = @ + 1]
    BY <1>1, <2>1, <2>2 DEF PayWorkers
  <2>3. ASSUME NEW amount, NEW outcome, Resolved(amount, outcome, s),
               amount = 0 \/ (HasAmount(pay[s].order) /\ amount = orderAmounts[pay[s].order])
        PROVE  Goal
    <3>1. pay' = [pay EXCEPT ![s] = [pay[s] EXCEPT !.pc = "charge", !.amount = amount,
                                                   !.outcome = outcome, !.tries = 0]]
      BY <2>3 DEF Resolved
    <3>2. CASE s = r
      BY <1>1, <2>1, <2>3, <3>1, <3>2 DEF PayWorkers
    <3>3. CASE s # r
      BY <1>1, <3>1, <3>3
    <3> QED BY <3>2, <3>3
  <2>4. \/ pay' = [pay EXCEPT ![s].tries = @ + 1]
        \/ \E outcome : \/ Resolved(0, outcome, s)
                        \/ HasAmount(pay[s].order) /\ Resolved(orderAmounts[pay[s].order], outcome, s)
    BY <1>5 DEF PayResolve
  <2> HIDE DEF Goal
  <2> QED BY <2>2, <2>3, <2>4
<1>6. ASSUME NEW s \in Replicas, PayCharge(s) PROVE Goal
  <2>1. CASE PayDone(s)
    BY <1>2, <2>1
  <2>2. CASE pay' = [pay EXCEPT ![s].pc = "publish"]
    BY <1>1, <1>6, <2>2 DEF PayCharge, PayWorkers
  <2> QED BY <1>6, <2>1, <2>2 DEF PayCharge
<1>7. ASSUME NEW s \in Replicas, PayCache(s) \/ PayPublish(s) \/ PayFault(s) PROVE Goal
  BY <1>2, <1>7 DEF PayCache, PayPublish, PayFault, PayCacheError, PayReadError, PayChargeError,
    PayRaises, PayCrash
<1>8. ASSUME NEW s \in Replicas, PayAutoCommit(s) PROVE FALSE
  BY <1>8 DEF PayAutoCommit, paymentVars
<1>9. CASE PayRebalance
  BY <1>9 DEF PayRebalance, paymentVars
<1> HIDE DEF Goal
<1> QED BY <1>3, <1>4, <1>5, <1>6, <1>7, <1>8, <1>9 DEF PaymentNext, PayStep

\* What a replica writes: the total it was to cache, or the payment it was to charge.
LEMMA PayTablesChange ==
  ASSUME PaymentTypeOK, PaymentNext, NEW o \in Orders
  PROVE  /\ \/ orderAmounts'[o] = orderAmounts[o]
            \/ \E r \in Replicas : /\ pay[r].pc = "cache" /\ pay[r].order = o
                                   /\ orderAmounts'[o] = pay[r].amount
         /\ \/ payments'[o] = payments[o]
            \/ \E r \in Replicas :
                 /\ pay[r].pc = "charge" /\ pay[r].order = o
                 /\ payments'[o] = [status |-> pay[r].outcome, amount |-> pay[r].amount]
<1>1. \/ UNCHANGED orderAmounts
      \/ \E r \in Replicas : pay[r].pc = "cache" /\ Cache(r)
  BY DEF PaymentNext, PayStep, PayFault, PayRead, PayCache, PayExists, PayResolve, PayCharge,
    PayPublish, PayAutoCommit, PayCacheError, PayReadError, PayChargeError, PayRaises, PayCrash,
    PayRebalance, paymentVars
<1>2. \/ UNCHANGED payments
      \/ \E r \in Replicas : pay[r].pc = "charge" /\ InsertPayment(r)
  BY DEF PaymentNext, PayStep, PayFault, PayRead, PayCache, PayExists, PayResolve, PayCharge,
    PayPublish, PayAutoCommit, PayCacheError, PayReadError, PayChargeError, PayRaises, PayCrash,
    PayRebalance, paymentVars
<1>3. ASSUME NEW r \in Replicas, pay[r].pc = "cache", Cache(r)
      PROVE  orderAmounts'[o] = orderAmounts[o] \/ (pay[r].order = o /\ orderAmounts'[o] = pay[r].amount)
  BY <1>3 DEF Cache, PaymentTypeOK
<1>4. ASSUME NEW r \in Replicas, pay[r].pc = "charge", InsertPayment(r)
      PROVE  \/ payments'[o] = payments[o]
             \/ /\ pay[r].order = o
                /\ payments'[o] = [status |-> pay[r].outcome, amount |-> pay[r].amount]
  BY <1>4 DEF InsertPayment, PaymentTypeOK
<1> QED BY <1>1, <1>2, <1>3, <1>4

\* Totals that were sent stay sent.
LEMMA TotalsGrow ==
  ASSUME Sent("order.created") \subseteq Sent("order.created")'
  PROVE  \A o : TotalsSent(o) \subseteq TotalsSent(o)'
BY DEF TotalsSent

\* A step of the service charges only what was reserved, and amounts that were sent.
LEMMA PaymentCauseStep ==
  ASSUME BusTypeOK, PaymentTypeOK, PaymentCause, PaymentNext
  PROVE  PaymentCause'
<1>1. /\ \A u \in Topics : Sent(u) \subseteq Sent(u)'
      /\ PaymentTypeOK'
  BY PaymentTyped
<1>2. \A o : SentFor("inventory.reserved", o) => SentFor("inventory.reserved", o)'
  BY <1>1 DEF SentFor, Topics
<1>3. \A o : TotalsSent(o) \subseteq TotalsSent(o)'
  BY <1>1, TotalsGrow DEF Topics
<1>4. ChargeFollowsReserved'
  <2>1. ASSUME NEW r \in Replicas, NEW o, pay'[r].pc \in {"exists", "resolve", "charge", "publish"},
               pay'[r].order = o
        PROVE  SentFor("inventory.reserved", o)'
    <3>1. CASE pay'[r] = pay[r]
      BY <1>2, <2>1, <3>1 DEF PaymentCause, ChargeFollowsReserved
    <3>2. CASE pay'[r] # pay[r]
      <4>1. SentFor("inventory.reserved", o)
        BY <2>1, <3>2, PayWorkerChange DEF PaymentCause, ChargeFollowsReserved
      <4> QED BY <4>1, <1>2
    <3> QED BY <3>1, <3>2
  <2>2. ASSUME NEW o \in Orders, payments'[o].status # "none"
        PROVE  SentFor("inventory.reserved", o)'
    <3>1. CASE payments'[o] = payments[o]
      BY <1>2, <2>2, <3>1 DEF PaymentCause, ChargeFollowsReserved, AlreadyPaid
    <3>2. CASE \E r \in Replicas : pay[r].pc = "charge" /\ pay[r].order = o
      BY <1>2, <3>2 DEF PaymentCause, ChargeFollowsReserved
    <3>3. \/ payments'[o] = payments[o]
          \/ \E r \in Replicas :
               /\ pay[r].pc = "charge" /\ pay[r].order = o
               /\ payments'[o] = [status |-> pay[r].outcome, amount |-> pay[r].amount]
      BY PayTablesChange
    <3> QED BY <3>1, <3>2, <3>3
  <2> QED BY <2>1, <2>2 DEF ChargeFollowsReserved, AlreadyPaid
<1>5. ASSUME NEW r \in Replicas, NEW o, pay'[r].pc = "cache", pay'[r].order = o
      PROVE  pay'[r].amount \in TotalsSent(o)'
  <2>1. CASE pay'[r] = pay[r]
    BY <1>3, <1>5, <2>1 DEF PaymentCause, AmountsWereSent
  <2>2. CASE pay'[r] # pay[r]
    <3>1. PICK e \in Sent("order.created") : e.order = o /\ e.amount = pay'[r].amount
      BY <1>5, <2>2, PayWorkerChange
    <3>2. pay'[r].amount \in TotalsSent(o)
      BY <3>1 DEF TotalsSent
    <3> QED BY <3>2, <1>3
  <2> QED BY <2>1, <2>2
<1>6. ASSUME NEW o \in Orders, orderAmounts'[o] # NotCached
      PROVE  orderAmounts'[o] \in TotalsSent(o)'
  <2>1. CASE orderAmounts'[o] = orderAmounts[o]
    BY <1>3, <1>6, <2>1 DEF PaymentCause, AmountsWereSent, HasAmount
  <2>2. ASSUME NEW r \in Replicas, pay[r].pc = "cache", pay[r].order = o,
               orderAmounts'[o] = pay[r].amount
        PROVE  orderAmounts'[o] \in TotalsSent(o)'
    BY <1>3, <2>2 DEF PaymentCause, AmountsWereSent
  <2> QED BY <2>1, <2>2, PayTablesChange
<1>7. ASSUME NEW r \in Replicas, NEW o, pay'[r].pc = "charge", pay'[r].order = o
      PROVE  pay'[r].amount \in {0} \cup TotalsSent(o)'
  <2>1. CASE pay'[r] = pay[r]
    BY <1>3, <1>7, <2>1 DEF PaymentCause, AmountsWereSent
  <2>2. CASE pay'[r] # pay[r]
    <3>1. /\ pay[r].pc = "resolve" /\ o = pay[r].order
          /\ \/ pay'[r].amount = 0
             \/ HasAmount(o) /\ pay'[r].amount = orderAmounts[o]
      BY <1>7, <2>2, PayWorkerChange
    <3>2. o \in Orders
      BY <3>1 DEF PaymentTypeOK
    <3>3. HasAmount(o) => orderAmounts[o] \in TotalsSent(o)
      BY <3>2 DEF PaymentCause, AmountsWereSent
    <3> QED BY <3>1, <3>3, <1>3
  <2> QED BY <2>1, <2>2
<1>8. AmountIsTotalOrFallback'
  <2> SUFFICES ASSUME NEW o \in Orders, payments'[o].status # "none"
               PROVE  payments'[o].amount \in {0} \cup TotalsSent(o)'
    BY DEF AmountIsTotalOrFallback, AlreadyPaid, TotalsSent
  <2>1. CASE payments'[o] = payments[o]
    <3>1. payments[o].amount \in {0} \cup TotalsSent(o)
      BY <2>1 DEF PaymentCause, AmountsWereSent, AmountIsTotalOrFallback, AlreadyPaid, TotalsSent
    <3> QED BY <2>1, <3>1, <1>3
  <2>2. ASSUME NEW r \in Replicas, pay[r].pc = "charge", pay[r].order = o,
               payments'[o] = [status |-> pay[r].outcome, amount |-> pay[r].amount]
        PROVE  payments'[o].amount \in {0} \cup TotalsSent(o)'
    <3>1. pay[r].amount \in {0} \cup TotalsSent(o)
      BY <2>2 DEF PaymentCause, AmountsWereSent
    <3>2. payments'[o].amount = pay[r].amount
      BY <2>2
    <3> QED BY <3>1, <3>2, <1>3
  <2>3. \/ payments'[o] = payments[o]
        \/ \E r \in Replicas :
             /\ pay[r].pc = "charge" /\ pay[r].order = o
             /\ payments'[o] = [status |-> pay[r].outcome, amount |-> pay[r].amount]
    BY PayTablesChange
  <2> QED BY <2>1, <2>2, <2>3
<1>9. AmountsWereSent'
  BY <1>5, <1>6, <1>7, <1>8 DEF AmountsWereSent, HasAmount
<1> QED BY <1>4, <1>9 DEF PaymentCause

\* A step writes one payment: a verdict a replica has reached, for an order that had none.
LEMMA OnePaymentChanges ==
  ASSUME PaymentTypeOK, PaymentNext, NEW o \in Orders, payments'[o] # payments[o]
  PROVE  /\ payments[o].status = "none" /\ payments'[o].status \in {"completed", "failed"}
         /\ \E r \in Replicas : pay[r].pc = "charge" /\ pay[r].order = o
         /\ \A other \in Orders \ {o} : payments'[other] = payments[other]
<1>1. payments[o].status = "none"
  BY PaidOnce DEF AlreadyPaid
<1>2. PICK r \in Replicas : pay[r].pc = "charge" /\ InsertPayment(r)
  BY DEF PaymentNext, PayStep, PayFault, PayRead, PayCache, PayExists, PayResolve, PayCharge,
    PayPublish, PayAutoCommit, PayCacheError, PayReadError, PayChargeError, PayRaises, PayCrash,
    PayRebalance, paymentVars
<1>3. pay[r] \in PayWorkers /\ pay[r].order \in Orders
  BY <1>2 DEF PaymentTypeOK
<1>4. pay[r].order = o /\ payments'[o] = [status |-> pay[r].outcome, amount |-> pay[r].amount]
      /\ \A other \in Orders \ {o} : payments'[other] = payments[other]
  BY <1>2, <1>3 DEF InsertPayment, PaymentTypeOK
<1>5. payments'[o].status = pay[r].outcome /\ pay[r].outcome \in {"completed", "failed"}
  BY <1>3, <1>4 DEF PayWorkers
<1> QED BY <1>1, <1>2, <1>4, <1>5

-----------------------------------------------------------------------------
\* The other services' steps leave the tables alone and send nothing on payment's topics.
\* A verdict is compared with payment's own row only.
LEMMA PaymentFrame ==
  ASSUME PaymentTypeOK, PaymentInv, UNCHANGED paymentVars,
         \A u \in PaymentTopics : Sent(u)' = Sent(u)
  PROVE  PaymentTypeOK' /\ PaymentInv'
<1> USE DEF paymentVars
<1>1. PaymentTypeOK'
  BY DEF PaymentTypeOK
<1>2. PaymentInv'
  BY DEF PaymentInv, OutcomeMatchesRow, PublishesItsRow, FailedIsDeclined, PaymentTopics
<1> QED BY <1>1, <1>2

\* Causes stay: what was sent stays sent.
LEMMA PaymentCauseFrame ==
  ASSUME PaymentCause, UNCHANGED paymentVars,
         \A u \in Topics : Sent(u) \subseteq Sent(u)'
  PROVE  PaymentCause'
<1> USE DEF paymentVars
<1>1. \A o : SentFor("inventory.reserved", o) => SentFor("inventory.reserved", o)'
  BY DEF SentFor, Topics
<1>2. \A o : TotalsSent(o) \subseteq TotalsSent(o)'
  BY TotalsGrow DEF Topics
<1>3. ChargeFollowsReserved'
  BY <1>1 DEF PaymentCause, ChargeFollowsReserved, AlreadyPaid
<1>4. AmountIsTotalOrFallback'
  BY <1>2 DEF PaymentCause, AmountsWereSent, AmountIsTotalOrFallback, AlreadyPaid, TotalsSent
<1>5. AmountsWereSent'
  BY <1>2, <1>4 DEF PaymentCause, AmountsWereSent, HasAmount
<1> QED BY <1>3, <1>5 DEF PaymentCause

-----------------------------------------------------------------------------
\* Initially nothing was sent and nobody works.
LEMMA PaymentInitially ==
  ASSUME BusInit, PaymentInit
  PROVE  PaymentTypeOK /\ PaymentInv /\ PaymentCause
<1>1. \A u \in Topics : Sent(u) = {}
  BY BusInitially
<1>2. PaymentTypeOK
  BY DEF PaymentInit, PaymentTypeOK, NoPayment, PayIdle, PayWorkers, PaySteps
<1>3. PaymentInv
  BY <1>1 DEF PaymentInit, PaymentInv, OutcomeMatchesRow, PublishesItsRow, FailedIsDeclined,
    PayIdle, Topics
<1>4. PaymentCause
  BY DEF PaymentInit, PaymentCause, ChargeFollowsReserved, AmountsWereSent, AmountIsTotalOrFallback,
    AlreadyPaid, HasAmount, PayIdle, NoPayment
<1> QED BY <1>2, <1>3, <1>4
=============================================================================
