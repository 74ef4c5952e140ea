\* The same orders and replicas when no handler call fails and no process dies: two
\* replicas hand the partition to each other, events are duplicated, commits fail and
\* an administrator restocks.  No unit is lost, and every order placed gets an outcome.
SPECIFICATION InvAloneFairSpec
CONSTANTS
  o1 = o1
  o2 = o2
  p1 = p1
  p2 = p2
  r1 = r1
  r2 = r2
  NoOrder = NoOrder
  Orders <- TwoOrders
  Products <- TwoProducts
  Replicas <- TwoReplicas
  Partitions = {0}
  PartitionOf <- OnePartition
  Assignments <- Moves
  ItemsOf <- Crossed
  InitialStock <- TwoAndOne
  StockLevels = {2}
  MaxAttempts = 2
  Disturbances = {"rebalance", "duplicate", "commitError", "restock"}
  MaxDisturbances = 2
INVARIANT
  StockConserved
PROPERTY
  OutcomeIsPublished
\* The system may come to rest: every event handled, every budget spent.
CHECK_DEADLOCK FALSE
