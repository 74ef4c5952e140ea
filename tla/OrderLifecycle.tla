--------------------------- MODULE OrderLifecycle ---------------------------
(***************************************************************************)
(* What checkout promises about an order, with no services, no events and  *)
(* no failures: the status moves forward or jumps to cancelled, an order   *)
(* is charged at most once, is confirmed only on a completed charge, and   *)
(* the customer is told only the outcome the order has.  Nothing promises  *)
(* that an order which was charged ends confirmed: it may be left where it *)
(* is, or be cancelled.                                                    *)
(***************************************************************************)
EXTENDS FiniteSets

CONSTANT Orders

VARIABLES
  status, \* what GET /orders/:id shows
  charge, \* the payment processor's verdict
  told    \* the outcomes the customer was told

lifecycleVars == <<status, charge, told>>

LifecycleInit ==
  /\ status = [o \in Orders |-> "none"]
  /\ charge = [o \in Orders |-> "none"]
  /\ told = [o \in Orders |-> {}]

Place(o) ==
  /\ status[o] = "none"
  /\ status' = [status EXCEPT ![o] = "pending"]
  /\ UNCHANGED <<charge, told>>

Reserve(o) ==
  /\ status[o] = "pending"
  /\ status' = [status EXCEPT ![o] = "inventory_reserved"]
  /\ UNCHANGED <<charge, told>>

Charge(o) ==
  /\ status[o] # "none"
  /\ charge[o] = "none"
  /\ \E verdict \in {"completed", "failed"} : charge' = [charge EXCEPT ![o] = verdict]
  /\ UNCHANGED <<status, told>>

Confirm(o) ==
  /\ status[o] = "inventory_reserved"
  /\ charge[o] = "completed"
  /\ status' = [status EXCEPT ![o] = "confirmed"]
  /\ UNCHANGED <<charge, told>>

Cancel(o) ==
  /\ status[o] \in {"pending", "inventory_reserved"}
  /\ status' = [status EXCEPT ![o] = "cancelled"]
  /\ UNCHANGED <<charge, told>>

Tell(o) ==
  /\ status[o] \in {"confirmed", "cancelled"}
  /\ told' = [told EXCEPT ![o] = @ \cup {status[o]}]
  /\ UNCHANGED <<status, charge>>

LifecycleNext ==
  \E o \in Orders : Place(o) \/ Reserve(o) \/ Charge(o) \/ Confirm(o) \/ Cancel(o) \/ Tell(o)

LifecycleSpec == LifecycleInit /\ [][LifecycleNext]_lifecycleVars
=============================================================================
