\* The first line is short until an administrator restocks it, and events are
\* redelivered to consumers that have already acted on them: three disturbances, so
\* that inventory may report both outcomes of one order and a process die on top.
SPECIFICATION Spec
CONSTANTS
  o1 = o1
  p1 = p1
  p2 = p2
  r1 = r1
  NoOrder = NoOrder
  Orders <- OneOrder
  Products = {p1, p2}
  Replicas <- OneReplica
  Partitions = {0}
  PartitionOf <- OnePartition
  Assignments <- AllToOne
  ItemsOf <- TwoLines
  Total <- Totals
  InitialStock <- ShortFirst
  StockLevels = {1}
  MaxAttempts = 2
  ResolveAttempts = 1
  Disturbances = {"crash", "duplicate", "restock"}
  MaxDisturbances = 3
INVARIANT
  ConfirmedHoldsStock
  AnnouncementsAgree
PROPERTY
  TerminalIsFinal
\* The system may come to rest: every event handled, every budget spent.
CHECK_DEADLOCK FALSE
