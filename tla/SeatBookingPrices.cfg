SPECIFICATION FairBookingSpec
CONSTANTS
  User = {u1, u2}
  Seat = {s1, s2}
  Req = {r1, r2, r3}
  BookingId = {r1, r2, r3}
  None = None
  LockTTL = 1
  PaymentTTL = 2
  PriceAt <- RisingPrice
  Workload = {"lock", "unlock", "book", "cancel", "list"}
  Strategy = "optimistic"
  UseRedisLock = TRUE
PROPERTIES
  BookedAtHeldPrice
  EveryLockEnds
CHECK_DEADLOCK FALSE
