\* The saga runs to an end with no failing call: a rebalance, a duplicate or an
\* administrator emptying a shelf on the way.
SPECIFICATION FairSpec
CONSTANTS
  o1 = o1
  p1 = p1
  p2 = p2
  r1 = r1
  NoOrder = NoOrder
  Orders <- OneOrder
  Products = {p1, p2}
  Replicas <- OneReplica
  Partitions = {0}
  PartitionOf <- OnePartition
  Assignments <- AllToOne
  ItemsOf <- TwoLines
  Total <- Totals
  InitialStock <- OneOfEach
  StockLevels = {0}
  MaxAttempts = 2
  ResolveAttempts = 1
  Disturbances = {"rebalance", "duplicate", "restock"}
  MaxDisturbances = 1
PROPERTY
  EveryOrderIsDecided
  DeclinedIsCompensated
\* The system may come to rest: every event handled, every budget spent.
CHECK_DEADLOCK FALSE
