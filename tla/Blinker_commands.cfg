SPECIFICATION BSpec
CONSTANTS
  Values = {1, 2, 9}
  MaxGiven = 3
  ClearOnExit = TRUE
  Off = 9
  Initial = 3
INVARIANTS NoLostWake ZeroMeansTimedOut
PROPERTIES LastCommandObeyed KeepsBlinking
