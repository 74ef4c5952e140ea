--------------------------- MODULE PaymentService ---------------------------
(***************************************************************************)
(* services/payment: the payments and order_amounts tables and the replicas *)
(* of the aiokafka consumer, which handles one event at a time, swallows    *)
(* what a handler raises and commits its position in the background.        *)
(***************************************************************************)
EXTENDS EventBus

CONSTANT
  ResolveAttempts  \* reads of the amount cache before falling back (5)

ASSUME PaymentAssumption == ResolveAttempts \in Nat \ {0}

VARIABLES
  payments,     \* the payments table: [status, amount] per order id
  orderAmounts, \* the order_amounts cache
  pay           \* what each replica's consumer is doing

paymentVars == <<payments, orderAmounts, pay>>

NotCached == -1
NoPayment == [status |-> "none", amount |-> 0]

PaySteps == {"idle", "cache", "exists", "resolve", "charge", "publish"}

PayWorkers == [pc : PaySteps, order : Orders \cup {NoOrder}, amount : Nat,
               tries : Nat, outcome : {"completed", "failed"}]
PayIdle == [pc |-> "idle", order |-> NoOrder, amount |-> 0, tries |-> 0, outcome |-> "failed"]

PaymentInit ==
  /\ payments = [o \in Orders |-> NoPayment]
  /\ orderAmounts = [o \in Orders |-> NotCached]
  /\ pay = [r \in Replicas |-> PayIdle]

PayDone(r) == pay' = [pay EXCEPT ![r] = PayIdle]

\* A call of the step pc raises; the consume loop logs it and takes the next event.
PayRaises(r, pc) ==
  /\ pay[r].pc = pc
  /\ Disturb("dbError")
  /\ PayDone(r)
  /\ UNCHANGED <<log, offsets>>

-----------------------------------------------------------------------------
(* _consume_loop *)

PayRead(r, t, p) ==
  /\ pay[r].pc = "idle"
  /\ CanFetch("payment-service", r, t, p)
  /\ LET e == NextEvent("payment-service", t, p)
     IN pay' = [pay EXCEPT ![r] = [PayIdle EXCEPT
                  !.pc = IF t = "order.created" THEN "cache" ELSE "exists",
                  !.order = e.order, !.amount = e.amount]]
  /\ Advance("payment-service", t, p)
  /\ UNCHANGED <<log, committed, owner, disturbances, payments, orderAmounts>>

\* enable_auto_commit: the position, which is already past the event a replica
\* is handling, is committed for every partition the replica owns.
PayAutoCommit(r) ==
  /\ committed' = [committed EXCEPT !["payment-service"] =
       [t \in Topics |-> [p \in Partitions |->
          IF t \in Subscription["payment-service"] /\ owner["payment-service"][t][p] = r
          THEN position["payment-service"][t][p] ELSE committed["payment-service"][t][p]]]]
  /\ committed' # committed
  /\ UNCHANGED <<log, position, owner, disturbances, paymentVars>>

-----------------------------------------------------------------------------
(* _handle_order_created *)

\* Mutant: a duplicate adds up.
CacheSum(r) ==
  orderAmounts' = [orderAmounts EXCEPT ![pay[r].order] =
                     IF @ = NotCached THEN pay[r].amount ELSE @ + pay[r].amount]
Cache(r) == orderAmounts' = [orderAmounts EXCEPT ![pay[r].order] = pay[r].amount]

PayCache(r) ==
  /\ pay[r].pc = "cache"
  /\ Cache(r)
  /\ PayDone(r)
  /\ UNCHANGED <<busVars, payments>>

PayCacheError(r) ==
  PayRaises(r, "cache") /\ (UNCHANGED orderAmounts \/ Cache(r)) /\ UNCHANGED payments

-----------------------------------------------------------------------------
(* _handle_inventory_reserved *)

\* Mutant: no idempotency check.
NeverPaid(o) == FALSE
AlreadyPaid(o) == payments[o].status # "none"

PayExists(r) ==
  /\ pay[r].pc = "exists"
  /\ pay' = [pay EXCEPT ![r] = IF AlreadyPaid(pay[r].order) THEN PayIdle
                               ELSE [@ EXCEPT !.pc = "resolve", !.amount = 0, !.tries = 1]]
  /\ UNCHANGED <<busVars, payments, orderAmounts>>

PayReadError(r) ==
  (\E pc \in {"exists", "resolve"} : PayRaises(r, pc)) /\ UNCHANGED <<payments, orderAmounts>>

\* _resolve_amount: use the cached total, or try again, or fall back to 0.0.
\* The simulated processor then approves or declines.
Resolved(amount, outcome, r) ==
  pay' = [pay EXCEPT ![r] = [@ EXCEPT !.pc = "charge", !.amount = amount,
                                      !.outcome = outcome, !.tries = 0]]

\* Mutant: a missing row is not noticed.
RowOrNot(o) == TRUE
HasAmount(o) == orderAmounts[o] # NotCached

PayResolve(r) ==
  /\ pay[r].pc = "resolve"
  /\ \E outcome \in {"completed", "failed"} :
       IF HasAmount(pay[r].order) THEN Resolved(orderAmounts[pay[r].order], outcome, r)
       ELSE IF pay[r].tries < ResolveAttempts THEN pay' = [pay EXCEPT ![r].tries = @ + 1]
       ELSE Resolved(0, outcome, r)
  /\ UNCHANGED <<busVars, payments, orderAmounts>>

\* INSERT ... ON CONFLICT (order_id) DO NOTHING RETURNING
\* Mutant: DO UPDATE instead of DO NOTHING.
InsertOrUpdate(o) == TRUE
CanInsert(o) == ~AlreadyPaid(o)

InsertPayment(r) ==
  payments' = [payments EXCEPT ![pay[r].order] =
                 [status |-> pay[r].outcome, amount |-> pay[r].amount]]

PayCharge(r) ==
  /\ pay[r].pc = "charge"
  /\ IF CanInsert(pay[r].order)
     THEN InsertPayment(r) /\ pay' = [pay EXCEPT ![r].pc = "publish"]
     ELSE UNCHANGED payments /\ PayDone(r)
  /\ UNCHANGED <<busVars, orderAmounts>>

PayChargeError(r) ==
  /\ PayRaises(r, "charge")
  /\ UNCHANGED payments \/ (CanInsert(pay[r].order) /\ InsertPayment(r))
  /\ UNCHANGED orderAmounts

\* A publish that raises is logged by the consume loop and never repeated.
OutcomeEvent(r) ==
  IF pay[r].outcome = "completed"
  THEN <<"payment.completed", Event(pay[r].order, pay[r].amount, "none")>>
  ELSE <<"payment.failed", Event(pay[r].order, pay[r].amount, "card declined")>>

PayPublish(r) ==
  /\ pay[r].pc = "publish"
  /\ LET a == OutcomeEvent(r) IN Acknowledged(a[1], a[2]) \/ Unacknowledged(a[1], a[2])
  /\ PayDone(r)
  /\ UNCHANGED <<offsets, payments, orderAmounts>>

-----------------------------------------------------------------------------
(* The process *)

PayCrash(r) ==
  /\ Disturb("crash")
  /\ PayDone(r)
  /\ Rejoin("payment-service")
  /\ UNCHANGED <<payments, orderAmounts>>

PayRebalance == Rebalance("payment-service") /\ UNCHANGED paymentVars

PayStep(r) ==
  \/ \E t \in Topics, p \in Partitions : PayRead(r, t, p)
  \/ PayCache(r) \/ PayExists(r) \/ PayResolve(r) \/ PayCharge(r) \/ PayPublish(r)

PayFault(r) == PayCacheError(r) \/ PayReadError(r) \/ PayChargeError(r) \/ PayCrash(r)

PaymentNext ==
  \/ \E r \in Replicas : PayStep(r) \/ PayAutoCommit(r) \/ PayFault(r)
  \/ PayRebalance

-----------------------------------------------------------------------------
PaymentTypeOK ==
  /\ payments \in [Orders -> [status : {"none", "completed", "failed"}, amount : Nat]]
  /\ orderAmounts \in [Orders -> Nat \cup {NotCached}]
  /\ pay \in [Replicas -> PayWorkers]
  /\ \A r \in Replicas : pay[r].pc # "idle" => pay[r].order \in Orders

\* A payment is for the total order.created announced for this very order, or
\* for the documented fallback of 0.0: never for a total of some other order or
\* for anything a redelivery made of it.
AmountIsTotalOrFallback ==
  \A o \in Orders : AlreadyPaid(o) =>
    payments[o].amount \in {0} \cup {e.amount : e \in {c \in Sent("order.created") : c.order = o}}

\* What payment says on the bus is what its table says, and it says it for one
\* outcome only: replicas that race past the check on the same order never
\* publish a verdict or an amount the UNIQUE row does not hold.
OutcomeMatchesRow ==
  /\ \A e \in Sent("payment.completed") :
       payments[e.order] = [status |-> "completed", amount |-> e.amount]
  /\ \A e \in Sent("payment.failed") :
       payments[e.order] = [status |-> "failed", amount |-> e.amount]
=============================================================================
