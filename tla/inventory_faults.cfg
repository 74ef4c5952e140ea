\* Two orders want two products in opposite orders, one of them more units than the
\* other leaves; two replicas, three attempts, and any two of rebalances, crashes, failing
\* calls and restocks.
SPECIFICATION InvAloneFairSpec
CONSTANTS
  o1 = o1
  o2 = o2
  p1 = p1
  p2 = p2
  r1 = r1
  r2 = r2
  NoOrder = NoOrder
  Orders <- TwoOrders
  Products <- TwoProducts
  Replicas <- TwoReplicas
  Partitions = {0}
  PartitionOf <- OnePartition
  Assignments <- Moves
  ItemsOf <- Crossed
  InitialStock <- TwoAndOne
  StockLevels = {2}
  MaxAttempts = 3
  Disturbances = {"rebalance", "crash", "dbError", "restock"}
  MaxDisturbances = 2
INVARIANT
  InvAloneTypeOK
  NoOversell
PROPERTY
  DeclinedIsReleased
\* The system may come to rest: every event handled, every budget spent.
CHECK_DEADLOCK FALSE
