SPECIFICATION BookingSpec
CONSTANTS
  User = {u1, u2}
  Seat = {s1}
  Req = {r1, r2, r3}
  BookingId = {r1, r2, r3}
  None = None
  LockTTL = 1
  PaymentTTL = 2
  PriceAt <- RisingPrice
  Workload = {"lock", "book", "list"}
  Strategy = "optimistic"
  UseRedisLock = TRUE
SYMMETRY Symmetry
INVARIANTS
  ConfirmedBookingHasBookedSeat
CHECK_DEADLOCK FALSE
