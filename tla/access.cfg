\* Up to four calls by two users from two browsers behind one address and by other
\* clients, in one of four mixes of operations, over up to two ticks of the clock.
SPECIFICATION Spec
CONSTANTS
  ann = ann
  bob = bob
  b1 = b1
  b2 = b2
  Anyone = Anyone
  Users <- TwoUsers
  Browsers <- Both
  Gateways = {g1}
  Storefront = storefront
  Elsewhere = elsewhere
  IPs = {storefront, elsewhere}
  Budget <- Wide
  Window = 2
  MaxTime = 2
  Calls = {1, 2, 3, 4}
  AccessTTL = 1
  RefreshTTL = 2
  Uses <- Mixes
INVARIANT
  TypeOK
  RegisteredOnce
  LogoutIsForGood
  BurstBounded
\* The clock and the calls are bounded.
CHECK_DEADLOCK FALSE
