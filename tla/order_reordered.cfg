\* One order and no disturbance at all.
SPECIFICATION Spec
CONSTANTS
  o1 = o1
  p1 = p1
  p2 = p2
  r1 = r1
  NoOrder = NoOrder
  Orders <- OneOrder
  Products = {p1}
  Replicas <- OneReplica
  Partitions = {0}
  PartitionOf <- OnePartition
  Assignments <- AllToOne
  ItemsOf <- OneLine
  Total <- Totals
  InitialStock <- OneOfEach
  StockLevels = {2}
  MaxAttempts = 2
  ResolveAttempts = 1
  Disturbances = {}
  MaxDisturbances = 1
INVARIANT
  PaymentFollowsReservation
\* The system may come to rest: every event handled, every budget spent.
CHECK_DEADLOCK FALSE
