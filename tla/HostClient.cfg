SPECIFICATION Spec
CONSTANTS
  a = a
  b = b
  c = c
  None = None
  Clients = {a, b}
  Outcomes = {"ok", "input_unconfirmed", "error"}
  Remembered = 8
  Requests <- MCRequests
  Command <- OnAndStandby
  Invocation <- MCInvocation
  Operation <- MCOperation
  Startup = 5
  ProbeTime = 2
  LookupTime = 1
  Slack = 1
  Boots = 1
  Losses = 1
INVARIANTS
  AtMostOneEffect
  StatusIsOwn
  InvocationIsBounded
  UncertainOnlyByFault
