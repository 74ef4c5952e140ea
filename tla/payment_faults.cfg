\* Two replicas, events spread over partitions and topics the round-robin way, and
\* one disturbance of any kind a consumer meets.
SPECIFICATION PayAloneSpec
CONSTANTS
  o1 = o1
  o2 = o2
  r1 = r1
  r2 = r2
  NoOrder = NoOrder
  Orders <- TwoOrders
  Replicas <- TwoReplicas
  Partitions = {0, 1}
  PartitionOf <- Spread
  Assignments <- RoundRobin
  Total <- Totals
  ResolveAttempts = 2
  Disturbances = {"crash", "rebalance", "dbError", "publishError", "duplicate"}
  MaxDisturbances = 1
INVARIANT
  PayAloneTypeOK
  OutcomeMatchesRow
  AmountIsTotalOrFallback
\* The system may come to rest: every event handled, every budget spent.
CHECK_DEADLOCK FALSE
