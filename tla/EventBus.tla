------------------------------ MODULE EventBus ------------------------------
(***************************************************************************)
(* The Kafka broker as the services under services/ use it, and the budget *)
(* of disturbances (faults and administrative changes) a run may suffer.   *)
(*                                                                         *)
(* The broker is not part of the repository: this module states what the   *)
(* client calls in the repository can observe of it.  A topic-partition is *)
(* an immutable sequence of events; a consumer group has, for each of its  *)
(* topic-partitions, an owner, the position its owner will fetch next and  *)
(* the committed offset a new owner resumes from.                          *)
(***************************************************************************)
EXTENDS Integers, Sequences, FiniteSets, Functions

CONSTANTS
  Orders,         \* order ids, also the key of every event
  Replicas,       \* names of the replicas each service runs (k8s: 2)
  Partitions,     \* partition numbers
  NoOrder,        \* what an idle worker works on
  PartitionOf,    \* [Topics -> [Orders -> Partitions]]: the key hash
  Assignments,    \* per group, the assignments a rebalance can end with
  MaxDisturbances,\* bound on the disturbances of a behaviour
  Disturbances    \* the kinds of disturbance a behaviour may suffer

Topics == {"order.created", "order.confirmed", "order.cancelled",
           "inventory.reserved", "inventory.failed",
           "payment.completed", "payment.failed"}

Groups == {"order-service", "inventory-service", "payment-service"}

\* The topics each consumer group subscribes to.
Subscription ==
  [g \in Groups |->
     CASE g = "order-service"     -> {"inventory.reserved", "inventory.failed",
                                      "payment.completed", "payment.failed"}
       [] g = "inventory-service" -> {"order.created", "payment.failed"}
       [] g = "payment-service"   -> {"inventory.reserved", "order.created"}]

Reasons == {"none", "insufficient stock", "card declined"}

\* What the saga reads of an envelope and its data: the order it is keyed by,
\* the amount (order.created, order.confirmed, payment.*) and the reason
\* (inventory.failed, payment.failed, order.cancelled).
Event(o, amount, reason) == [order |-> o, amount |-> amount, reason |-> reason]
Events == [order : Orders, amount : Nat, reason : Reasons]

DisturbanceKinds ==
  {"crash",         \* a service process dies and is restarted
   "rebalance",     \* a group rebalances while its members keep running
   "dbError",       \* a database call returns an error (applied or not)
   "publishError",  \* a publish returns an error (written or not)
   "duplicate",     \* the producer's own retry writes an event twice
   "commitError",   \* an offset commit returns an error
   "cartError",     \* the cart service cannot be reached
   "restock"}       \* an administrator overwrites a stock level

ASSUME BusAssumption ==
  /\ IsFiniteSet(Replicas)
  /\ PartitionOf \in [Topics -> [Orders -> Partitions]]
  /\ \A g \in Groups :
       Assignments[g] \subseteq [Subscription[g] -> [Partitions -> Replicas]]
  /\ NoOrder \notin Orders
  /\ MaxDisturbances \in Nat
  /\ Disturbances \subseteq DisturbanceKinds

VARIABLES
  log,          \* the events of each topic-partition, in order
  committed,    \* per group, the offset a new owner resumes from
  position,     \* per group, the offset the owner fetches next
  owner,        \* who is assigned each topic-partition of the group
  disturbances  \* how many disturbances have happened

offsets == <<committed, position, owner>>
busVars == <<log, committed, position, owner, disturbances>>

NoOffsets == [g \in Groups |-> [t \in Topics |-> [p \in Partitions |-> 0]]]

BusInit ==
  /\ log = [t \in Topics |-> [p \in Partitions |-> <<>>]]
  /\ committed = NoOffsets
  /\ position = NoOffsets
  /\ owner \in [Groups -> UNION {Assignments[g] : g \in Groups}]
  /\ \A g \in Groups : owner[g] \in Assignments[g]
  /\ disturbances = 0

-----------------------------------------------------------------------------
(* Disturbances *)

Disturb(kind) ==
  /\ kind \in Disturbances
  /\ disturbances < MaxDisturbances
  /\ disturbances' = disturbances + 1

-----------------------------------------------------------------------------
(* Producing: a publish is acknowledged (once or, after an internal retry  *)
(* of the client, twice in the log), or returns an error although the      *)
(* broker may have written the event.                                      *)

Append1(t, e) == [log EXCEPT ![t][PartitionOf[t][e.order]] = Append(@, e)]
Append2(t, e) == [log EXCEPT ![t][PartitionOf[t][e.order]] = Append(Append(@, e), e)]

Acknowledged(t, e) ==
  \/ log' = Append1(t, e) /\ UNCHANGED disturbances
  \/ log' = Append2(t, e) /\ Disturb("duplicate")

Unacknowledged(t, e) ==
  /\ Disturb("publishError")
  /\ log' \in {log, Append1(t, e)}

\* The events ever written to a topic.
Sent(t) == UNION {Range(log[t][p]) : p \in Partitions}
SentFor(t, o) == \E e \in Sent(t) : e.order = o

-----------------------------------------------------------------------------
(* Consuming *)

\* Replica r is handed the next event of (t, p).
CanFetch(g, r, t, p) ==
  /\ t \in Subscription[g]
  /\ owner[g][t][p] = r
  /\ position[g][t][p] < Len(log[t][p])

NextEvent(g, t, p) == log[t][p][position[g][t][p] + 1]

Advance(g, t, p) == position' = [position EXCEPT ![g][t][p] = @ + 1]

Commit(g, t, p, offset) == committed' = [committed EXCEPT ![g][t][p] = offset]

\* Group g gets a new assignment and every member resumes from the committed
\* offsets.
Rejoin(g) ==
  /\ \E a \in Assignments[g] : owner' = [owner EXCEPT ![g] = a]
  /\ position' = [position EXCEPT ![g] = committed[g]]
  /\ UNCHANGED <<log, committed>>

\* A rebalance while the members keep running: an event being handled goes on
\* being handled, and may be fetched again by its partition's new owner.
Rebalance(g) == Disturb("rebalance") /\ Rejoin(g)

-----------------------------------------------------------------------------
Logs == [Topics -> [Partitions -> Seq(Events)]]
Offsets == [Groups -> [Topics -> [Partitions -> Nat]]]

BusTypeOK ==
  /\ log \in Logs
  /\ committed \in Offsets
  /\ position \in Offsets
  /\ owner \in [Groups -> UNION {Assignments[g] : g \in Groups}]
  /\ \A g \in Groups : owner[g] \in Assignments[g]
  /\ disturbances \in 0..MaxDisturbances
=============================================================================
