\* One order.created is duplicated and the order's first line is short.
SPECIFICATION InvAloneSpec
CONSTANTS
  o1 = o1
  o2 = o2
  p1 = p1
  p2 = p2
  r1 = r1
  r2 = r2
  NoOrder = NoOrder
  Orders <- TwoOrders
  Products <- TwoProducts
  Replicas <- OneReplica
  Partitions = {0}
  PartitionOf <- OnePartition
  Assignments <- Moves
  ItemsOf <- Crossed
  InitialStock <- TwoAndOne
  StockLevels = {2}
  MaxAttempts = 2
  Disturbances = {"duplicate"}
  MaxDisturbances = 1
INVARIANT
  OneInventoryOutcome
\* The system may come to rest: every event handled, every budget spent.
CHECK_DEADLOCK FALSE
