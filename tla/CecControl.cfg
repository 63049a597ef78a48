SPECIFICATION FairSpec
CONSTANTS
  OnTimeout = 9
  StandbyTimeout = 6
  StatusTimeout = 3
  TxTimeout = 2
  PowerTimeout = 3
  Poll = 1
  RetryDelay = 2
  OnAttempts = 3
  StandbyAttempts = 2
  Overrun = 1
  ElapsedLimit = 10
INVARIANTS
  HostUnderstands
  VerifiedByTwoReports
PROPERTIES
  CommandIsJustified
  SuccessIsCurrent
  OperationEnds
