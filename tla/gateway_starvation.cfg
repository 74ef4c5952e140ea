\* Two signed-in users behind one address with a budget of one each and of two together;
\* one of them asks twice.
SPECIFICATION Spec
CONSTANTS
  ann = ann
  bob = bob
  b1 = b1
  b2 = b2
  Anyone = Anyone
  Users <- TwoUsers
  Browsers <- Both
  Gateways = {g1}
  Storefront = storefront
  Elsewhere = elsewhere
  IPs = {storefront, elsewhere}
  Budget <- OneEach
  Window = 2
  MaxTime = 2
  Calls = {1, 2, 3}
  AccessTTL = 1
  RefreshTTL = 2
  Uses <- Busy
INVARIANT
  OthersUnaffected
\* The calls are bounded.
CHECK_DEADLOCK FALSE
