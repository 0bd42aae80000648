SPECIFICATION BroadcastSpec
CONSTANTS
  Client = {c1, c2}
  Watching = {c1}
  Worker = {w1, w2}
  Handler = {h1, h2}
  Seat = {s1}
  None = None
  MaxCommits = 2
  MaxFaults = 1
  MaxFetches = 1
  c1 = c1  c2 = c2  w1 = w1  w2 = w2  h1 = h1  h2 = h2  s1 = s1
SYMMETRY Symmetry
INVARIANTS ShowsTheRow SelectionIsHeld ToldTheLast
CHECK_DEADLOCK FALSE
