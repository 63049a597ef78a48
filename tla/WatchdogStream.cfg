SPECIFICATION Spec
CONSTANTS
  Width = 60
  Stale = 6
  Settle = 20
  Healthy = 30
  Timeout = 16
  CecLoop = 18
  ParserLoop = 5
  Skips = 1
INVARIANT ResetMeansStall
