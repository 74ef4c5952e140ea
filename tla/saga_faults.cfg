\* One order of two lines through the whole saga with one disturbance of any kind,
\* an administrator's 0 or 2 units included: agreement between the services'
\* tables, and the refinement of OrderLifecycle.
SPECIFICATION Spec
CONSTANTS
  o1 = o1
  p1 = p1
  p2 = p2
  r1 = r1
  NoOrder = NoOrder
  Orders <- OneOrder
  Products = {p1, p2}
  Replicas <- OneReplica
  Partitions = {0}
  PartitionOf <- OnePartition
  Assignments <- AllToOne
  ItemsOf <- TwoLines
  Total <- Totals
  InitialStock <- OneOfEach
  StockLevels = {0, 2}
  MaxAttempts = 2
  ResolveAttempts = 1
  Disturbances <- AllFaults
  MaxDisturbances = 1
INVARIANT
  TypeOK
  ConfirmedIsPaid
  CancelReasonIsTrue
PROPERTY
  ImplementsLifecycle
\* The system may come to rest: every event handled, every budget spent.
CHECK_DEADLOCK FALSE
