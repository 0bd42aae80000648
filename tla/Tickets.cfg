SPECIFICATION FairTicketSpec
CONSTANTS
  Booking = {b1}
  Runner = {w1, w2}
  Customer = {c1}
  MaxScans = 2
  Deployments = {"worker", "cron"}
  MaxTries = 2
  TickLimit = 1
  MaxFaults = 2
  b1 = b1  b2 = b2  w1 = w1  w2 = w2  c1 = c1
INVARIANTS AdmittedOnce ReadyFileScans
PROPERTIES IssuedTokenStays EveryTicketIssued
CHECK_DEADLOCK FALSE
