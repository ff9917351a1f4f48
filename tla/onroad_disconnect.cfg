SPECIFICATION OnroadSpec
CONSTANTS
  MismatchLimit = 2
  SoftTime = 1
  MaxTurns = 3
  MaxPulls = 1
PROPERTIES OffroadAfterDisconnect
