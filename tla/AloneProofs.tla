----------------------------- MODULE AloneProofs -----------------------------
(***************************************************************************)
(* What holds of inventory and of payment alone, each fed by the most      *)
(* general behaviour of the services it listens to, for any orders,        *)
(* products, replicas, partitions, assignments and number of disturbances. *)
(***************************************************************************)
EXTENDS InventoryAlone, PaymentAlone, InventoryProofs, PaymentProofs

-----------------------------------------------------------------------------
(* Inventory *)

\* The inductive invariant: the types, what a worker's event, rows and outcome rest on, and
\* never more units than were supplied.
InvAloneInv == InvAloneTypeOK /\ WorkInv /\ NoExcess

\* An event of order or payment is new on a topic inventory does not write.
LEMMA InventoryFed ==
  ASSUME BusTypeOK, InventoryFeeders
  PROVE  /\ BusTypeOK' /\ UNCHANGED inventoryVars
         /\ \A u \in Topics : Sent(u) \subseteq Sent(u)'
         /\ \A u \in InventoryTopics : Sent(u)' = Sent(u)
<1>1. PICK t \in {"order.created", "payment.failed"}, o \in Orders, reason \in Reasons :
        FeedInventory(t, o, reason)
  BY DEF InventoryFeeders, OrderPlaced, PaymentDeclined, Reasons
<1> DEFINE e == Event(o, 0, reason)
<1>2. t \in Topics \ InventoryTopics /\ InventoryTopics \subseteq Topics
  BY DEF Topics, InventoryTopics
<1>3. Acknowledged(t, e) /\ UNCHANGED offsets /\ UNCHANGED inventoryVars
  BY <1>1 DEF FeedInventory
<1>4. e \in Events
  BY DEF Event, Events
<1> HIDE DEF e
<1> QED BY <1>2, <1>3, <1>4, PublishStep

LEMMA InvAloneStep == InvAloneInv /\ [InvAloneNext]_invAloneVars => InvAloneInv'
<1> SUFFICES ASSUME InvAloneInv, [InvAloneNext]_invAloneVars PROVE InvAloneInv'
  OBVIOUS
<1>1. BusTypeOK /\ InventoryTypeOK /\ WorkInv /\ NoExcess
  BY DEF InvAloneInv, InvAloneTypeOK
<1>2. CASE InventoryNext
  <2>1. BusTypeOK' /\ InventoryTypeOK'
    BY <1>1, <1>2, InventoryTyped
  <2>2. WorkInv'
    BY <1>1, <1>2, WorkInvStep
  <2>3. NoExcess'
    BY <1>1, <1>2, NoExcessStep
  <2> QED BY <2>1, <2>2, <2>3 DEF InvAloneInv, InvAloneTypeOK
<1>3. ASSUME BusTypeOK', UNCHANGED inventoryVars,
             \A u \in Topics : Sent(u) \subseteq Sent(u)',
             \A u \in InventoryTopics : Sent(u)' = Sent(u)
      PROVE  InvAloneInv'
  <2>1. InventoryTypeOK'
    BY <1>1, <1>3 DEF InventoryTypeOK, inventoryVars
  <2>2. WorkInv'
    BY <1>1, <1>3, WorkFrame
  <2>3. NoExcess'
    BY <1>1, <1>3, ExcessFrame DEF NoExcess
  <2> QED BY <1>3, <2>1, <2>2, <2>3 DEF InvAloneInv, InvAloneTypeOK
<1>4. CASE InventoryFeeders
  BY <1>1, <1>3, <1>4, InventoryFed
<1>5. CASE UNCHANGED invAloneVars
  <2>1. BusTypeOK' /\ \A u \in Topics : Sent(u)' = Sent(u)
    BY <1>1, <1>5, SilentStep DEF invAloneVars, busVars, offsets, BusTypeOK
  <2> QED BY <1>3, <1>5, <2>1 DEF invAloneVars, InventoryTopics, Topics
<1> QED BY <1>2, <1>4, <1>5 DEF InvAloneNext

\* The invariant holds in every reachable state.
THEOREM InvAloneInvariant == InvAloneSpec => []InvAloneInv
<1>1. InvAloneInit => InvAloneInv
  <2> SUFFICES ASSUME InvAloneInit PROVE InvAloneInv
    OBVIOUS
  <2>1. BusInit /\ InventoryInit
    BY DEF InvAloneInit
  <2>2. BusTypeOK /\ InventoryTypeOK /\ WorkInv
    BY <2>1, BusInitially, InventoryInitially
  <2>3. NoExcess
    <3>1. ASSUME NEW product \in Products PROVE Excess(product) <= 0
      <4>1. Excess(product) = 0
        BY <2>1, ExcessInitially
      <4> QED BY <4>1
    <3> QED BY <3>1 DEF NoExcess
  <2> QED BY <2>2, <2>3 DEF InvAloneInv, InvAloneTypeOK
<1> QED BY <1>1, InvAloneStep, PTL DEF InvAloneSpec

\* Inventory is type-correct whatever order and payment send: stock never goes below zero.
THEOREM InvAloneTyped == InvAloneSpec => []InvAloneTypeOK
<1>1. InvAloneInv => InvAloneTypeOK
  BY DEF InvAloneInv
<1> QED BY <1>1, InvAloneInvariant, PTL

\* Inventory never sells units that were not supplied, whatever order and payment send.
THEOREM InvAloneNeverOversells == InvAloneSpec => []NoOversell
<1>1. InvAloneInv => NoOversell
  BY ExcessTells DEF InvAloneInv, InvAloneTypeOK
<1> QED BY <1>1, InvAloneInvariant, PTL

\* Where no database call fails and no process dies, inventory loses no unit, whatever order
\* and payment send.
THEOREM InvAloneConserves ==
  ASSUME Disturbances \cap {"crash", "dbError"} = {}
  PROVE  InvAloneSpec => []StockConserved
<1> DEFINE Exact == \A product \in Products : Excess(product) = 0
<1>1. InvAloneInit => Exact
  BY ExcessInitially DEF InvAloneInit
<1>2. InvAloneInv /\ Exact /\ [InvAloneNext]_invAloneVars => Exact'
  <2> SUFFICES ASSUME InvAloneInv, Exact, [InvAloneNext]_invAloneVars, NEW product \in Products
               PROVE  Excess(product)' = 0
    OBVIOUS
  <2>1. BusTypeOK /\ InventoryTypeOK /\ WorkInv /\ Excess(product) = 0
    BY DEF InvAloneInv, InvAloneTypeOK
  <2>2. CASE InventoryNext
    BY <2>1, <2>2, ExactStep
  <2>3. CASE UNCHANGED inventoryVars
    BY <2>1, <2>3, ExcessFrame
  <2>4. CASE InventoryFeeders
    BY <2>1, <2>3, <2>4, InventoryFed
  <2> QED BY <2>2, <2>3, <2>4 DEF InvAloneNext, invAloneVars
<1>3. InvAloneInv /\ Exact => StockConserved
  BY ExcessTells DEF InvAloneInv, InvAloneTypeOK
<1> HIDE DEF Exact
<1> QED BY <1>1, <1>2, <1>3, InvAloneInvariant, PTL DEF InvAloneSpec

-----------------------------------------------------------------------------
(* Payment *)

\* The inductive invariant: the types, what is announced, and what charges and amounts rest on.
PayAloneInv == PayAloneTypeOK /\ PaymentInv /\ PaymentCause

\* An event of order or inventory is new on a topic payment does not write.
LEMMA PaymentFed ==
  ASSUME BusTypeOK, PaymentFeeders
  PROVE  /\ BusTypeOK' /\ UNCHANGED paymentVars
         /\ \A u \in Topics : Sent(u) \subseteq Sent(u)'
         /\ \A u \in PaymentTopics : Sent(u)' = Sent(u)
<1>1. PICK t \in {"order.created", "inventory.reserved"}, o \in Orders, amount \in Nat :
        FeedPayment(t, o, amount)
  BY TotalAssumption DEF PaymentFeeders, TotalAnnounced, StockReserved
<1> DEFINE e == Event(o, amount, "none")
<1>2. t \in Topics \ PaymentTopics /\ PaymentTopics \subseteq Topics
  BY DEF Topics, PaymentTopics
<1>3. Acknowledged(t, e) /\ UNCHANGED offsets /\ UNCHANGED paymentVars
  BY <1>1 DEF FeedPayment
<1>4. e \in Events
  BY DEF Event, Events, Reasons
<1> HIDE DEF e
<1> QED BY <1>2, <1>3, <1>4, PublishStep

LEMMA PayAloneStep == PayAloneInv /\ [PayAloneNext]_payAloneVars => PayAloneInv'
<1> SUFFICES ASSUME PayAloneInv, [PayAloneNext]_payAloneVars PROVE PayAloneInv'
  OBVIOUS
<1>1. BusTypeOK /\ PaymentTypeOK /\ PaymentInv /\ PaymentCause
  BY DEF PayAloneInv, PayAloneTypeOK
<1>2. CASE PaymentNext
  <2>1. BusTypeOK' /\ PaymentTypeOK'
    BY <1>1, <1>2, PaymentTyped
  <2>2. PaymentInv'
    BY <1>1, <1>2, PaymentInvStep
  <2>3. PaymentCause'
    BY <1>1, <1>2, PaymentCauseStep
  <2> QED BY <2>1, <2>2, <2>3 DEF PayAloneInv, PayAloneTypeOK
<1>3. ASSUME BusTypeOK', UNCHANGED paymentVars,
             \A u \in Topics : Sent(u) \subseteq Sent(u)',
             \A u \in PaymentTopics : Sent(u)' = Sent(u)
      PROVE  PayAloneInv'
  <2>1. PaymentTypeOK' /\ PaymentInv'
    BY <1>1, <1>3, PaymentFrame
  <2>2. PaymentCause'
    BY <1>1, <1>3, PaymentCauseFrame
  <2> QED BY <1>3, <2>1, <2>2 DEF PayAloneInv, PayAloneTypeOK
<1>4. CASE PaymentFeeders
  BY <1>1, <1>3, <1>4, PaymentFed
<1>5. CASE UNCHANGED payAloneVars
  <2>1. BusTypeOK' /\ \A u \in Topics : Sent(u)' = Sent(u)
    BY <1>1, <1>5, SilentStep DEF payAloneVars, busVars, offsets, BusTypeOK
  <2> QED BY <1>3, <1>5, <2>1 DEF payAloneVars, PaymentTopics, Topics
<1> QED BY <1>2, <1>4, <1>5 DEF PayAloneNext

\* The invariant holds in every reachable state.
THEOREM PayAloneInvariant == PayAloneSpec => []PayAloneInv
<1>1. PayAloneInit => PayAloneInv
  <2> SUFFICES ASSUME PayAloneInit PROVE PayAloneInv
    OBVIOUS
  <2> QED BY BusInitially, PaymentInitially DEF PayAloneInit, PayAloneInv, PayAloneTypeOK
<1> QED BY <1>1, PayAloneStep, PTL DEF PayAloneSpec

\* Payment is type-correct whatever order and inventory send.
THEOREM PayAloneTyped == PayAloneSpec => []PayAloneTypeOK
<1>1. PayAloneInv => PayAloneTypeOK
  BY DEF PayAloneInv
<1> QED BY <1>1, PayAloneInvariant, PTL

\* Payment announces the row of its table, whatever order and inventory send.
THEOREM PayAloneAnnouncesRow == PayAloneSpec => []OutcomeMatchesRow
<1>1. PayAloneInv => OutcomeMatchesRow
  BY DEF PayAloneInv, PaymentInv
<1> QED BY <1>1, PayAloneInvariant, PTL

\* Payment charges an announced total or the fallback, whatever order and inventory send.
THEOREM PayAloneAmount == PayAloneSpec => []AmountIsTotalOrFallback
<1>1. PayAloneInv => AmountIsTotalOrFallback
  BY DEF PayAloneInv, PaymentCause, AmountsWereSent
<1> QED BY <1>1, PayAloneInvariant, PTL
=============================================================================
