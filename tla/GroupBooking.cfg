SPECIFICATION GroupSpec
CONSTANTS
  User = {u1, u2}
  s1 = s1
  s2 = s2
  Seat = {s1, s2}
  Rival = {r1}
  BookingId <- AllBookings
  None = None
  LockTTL = 1
  PaymentTTL = 1
  PriceAt <- FlatPrice
  Creator = {u1}
  Selection <- Both
  Swept = {s1}
  Worker = {w1, w2}
  Group = {g1}
  MaxPayments = 2
  GroupTTL = 2
SYMMETRY Symmetry
INVARIANTS
  PaidShareWasCompleted
  GroupHoldHasGroup
  AnsweredPaymentLanded
PROPERTIES
  ImplementsGroupDeal
CHECK_DEADLOCK FALSE
