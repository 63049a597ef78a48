SPECIFICATION Spec
CONSTANTS
  a = a
  b = b
  c = c
  None = None
  Clients = {a, b, c}
  Outcomes = {"ok"}
  Remembered = 8
  Requests <- MCRequests
  Command <- Mixed
  Invocation <- MCInvocation
  Operation <- MCOperation
  Startup = 5
  ProbeTime = 2
  LookupTime = 1
  Slack = 1
  Boots = 0
  Losses = 0
INVARIANT InvocationIsBounded
