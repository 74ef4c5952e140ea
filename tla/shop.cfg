\* Three requests from five components, in one of five mixes of operations and
\* failures, any one failure.
SPECIFICATION FairSpec
CONSTANTS
  p1 = p1
  p2 = p2
  addP1 = addP1
  addP2 = addP2
  rowP1 = rowP1
  clearAll = clearAll
  placeOrder = placeOrder
  NoProduct = NoProduct
  Products <- TwoProducts
  Requests = {1, 2, 3}
  Quantities = {2}
  InitialCarts <- Start
  Uses <- Mixes
  MaxFailures = 1
  Controls = {addP1, addP2, rowP1, clearAll, placeOrder}
  KindOf <- Kinds
  ProductOf <- ProductsOf
  Polls = {1, 2}
  MaxAdminLimit = 1
INVARIANT
  TypeOK
  NoInventedUnits
  BreakdownCoversTotal
PROPERTY
  ImplementsAtomicCart
  PressIsAnswered
  PageSettles
\* The shop may come to rest: every request of the bound made and answered.
CHECK_DEADLOCK FALSE
