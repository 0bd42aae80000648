SPECIFICATION CheckoutSpec
CONSTANTS
  User = {u1, u2}
  Seat = {s1}
  Req = {r1}
  BookingId <- AllBookings
  None = None
  LockTTL = 1
  PaymentTTL = 2
  PriceAt <- RisingPrice
  Workload = {"lock", "unlock", "book", "cancel", "list"}
  Strategy = "optimistic"
  UseRedisLock = TRUE
  PayReq = {w1, w2, w3}
  PayWorkload = {"checkout", "webhook", "status", "reconcile"}
  Providers = {"stripe"}
  Delayed = FALSE
SYMMETRY Symmetry
INVARIANTS
  BookedSeatHasBooking
  OnePendingPaymentPerSeat
  SoldByPaymentWasCompleted
PROPERTIES
  LockLostOnlyByOwnPaymentOrTime
  ImplementsSeatSale
CHECK_DEADLOCK FALSE
