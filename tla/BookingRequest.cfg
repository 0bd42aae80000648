SPECIFICATION FairRequestSpec
CONSTANTS
  Req = {r1, r2, r3}
  Response = {r1, r2, r3}
  Key = {key1}
  Payload = {s1, s2}
  NoKey = NoKey
  Workloads <- MCWorkloads
  MaxConcurrent = 2
  Threads = 2
  Pool = 3
  r1 = r1  r2 = r2  r3 = r3  key1 = key1  s1 = s1  s2 = s2
INVARIANTS NobodyWaitsForConnection ReplayIsOwnBooking NoConflictWithItself
PROPERTIES EveryRequestEnds
CHECK_DEADLOCK FALSE
