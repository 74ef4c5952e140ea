\* One replica is restarted once.
SPECIFICATION PayAloneSpec
CONSTANTS
  o1 = o1
  o2 = o2
  r1 = r1
  r2 = r2
  NoOrder = NoOrder
  Orders <- TwoOrders
  Replicas <- OneReplica
  Partitions = {0, 1}
  PartitionOf <- Spread
  Assignments <- AllToOne
  Total <- Totals
  ResolveAttempts = 2
  Disturbances = {"crash"}
  MaxDisturbances = 1
INVARIANT
  PaidIsAnnounced
\* The system may come to rest: every event handled, every budget spent.
CHECK_DEADLOCK FALSE
