SPECIFICATION Spec
CONSTANTS
  OnTimeout = 12
  StandbyTimeout = 9
  StatusTimeout = 4
  TxTimeout = 2
  PowerTimeout = 3
  Poll = 1
  RetryDelay = 3
  OnAttempts = 3
  StandbyAttempts = 2
  Overrun = 1
  ElapsedLimit = 13
PROPERTIES
  RepeatStops
