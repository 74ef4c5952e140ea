---------------------------- MODULE PaymentAlone ----------------------------
(***************************************************************************)
(* The payment service against what the services that feed it may do:      *)
(* order announces an order's total, inventory then announces its stock    *)
(* reserved, each possibly twice.                                          *)
(***************************************************************************)
EXTENDS PaymentService

CONSTANT Total  \* [Orders -> Nat]

ASSUME TotalAssumption == Total \in [Orders -> Nat]

payAloneVars == <<busVars, paymentVars>>

PayAloneInit == BusInit /\ PaymentInit

FeedPayment(t, o, amount) ==
  /\ ~SentFor(t, o)
  /\ Acknowledged(t, Event(o, amount, "none"))
  /\ UNCHANGED <<offsets, paymentVars>>

TotalAnnounced(o) == FeedPayment("order.created", o, Total[o])

StockReserved(o) ==
  SentFor("order.created", o) /\ FeedPayment("inventory.reserved", o, 0)

PaymentFeeders == \E o \in Orders : TotalAnnounced(o) \/ StockReserved(o)

PayAloneNext == PaymentNext \/ PaymentFeeders

PayAloneSpec == PayAloneInit /\ [][PayAloneNext]_payAloneVars

PayAloneTypeOK == BusTypeOK /\ PaymentTypeOK

-----------------------------------------------------------------------------
\* Every replica is between two events and has read all there is to read.
Quiescent ==
  /\ \A r \in Replicas : pay[r].pc = "idle"
  /\ \A t \in Subscription["payment-service"], p \in Partitions :
       position["payment-service"][t][p] = Len(log[t][p])

\* Skipping a redelivered event loses nothing: once the service has nothing left
\* to do, every payment in its table has been announced (README: "returns without
\* re-publishing anything -- safe under Kafka's at-least-once delivery").
PaidIsAnnounced ==
  Quiescent => \A o \in Orders : AlreadyPaid(o) =>
    SentFor("payment.completed", o) \/ SentFor("payment.failed", o)
=============================================================================
