SPECIFICATION BookingSpec
CONSTANTS
  User = {u1, u2}
  Seat = {s1}
  Req = {r1, r2, r3, r4}
  BookingId = {r1, r2, r3, r4}
  None = None
  LockTTL = 1
  PaymentTTL = 2
  PriceAt <- RisingPrice
  Workload = {"lock", "unlock", "book", "cancel", "list"}
  Strategy = "pessimistic"
  UseRedisLock = FALSE
SYMMETRY Symmetry
INVARIANTS
  OneConfirmedBookingPerSeat
CHECK_DEADLOCK FALSE
