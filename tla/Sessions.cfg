SPECIFICATION SessionSpec
CONSTANTS
  Browser = {b1, b2}
  Worker = {w1, w2}
  MaxTokens = 3
  MaxOAuth = 1
  None = None
  b1 = b1  b2 = b2  w1 = w1  w2 = w2
SYMMETRY Symmetry
INVARIANTS OneTokenPerLogin SignedOutStaysOut RevokedStaysRevoked SessionSurvivesRefresh
CHECK_DEADLOCK FALSE
