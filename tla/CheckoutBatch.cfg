SPECIFICATION CheckoutSpec
CONSTANTS
  User = {u1, u2}
  Seat = {s1, s2}
  Req = {r1}
  BookingId <- AllBookings
  None = None
  LockTTL = 1
  PaymentTTL = 2
  PriceAt <- RisingPrice
  Workload = {"list", "cancel"}
  Strategy = "optimistic"
  UseRedisLock = TRUE
  PayReq = {w1, w2, w3}
  PayWorkload = {"checkout", "webhook", "simulate", "status", "reconcile"}
  Providers = {"stripe", "mock"}
  Delayed = TRUE
SYMMETRY Symmetry
INVARIANTS
  SoldByPaymentWasCompleted
PROPERTIES
  ImplementsSeatSale
CHECK_DEADLOCK FALSE
