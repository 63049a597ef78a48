SPECIFICATION FairSpec
CONSTANTS
  Ms = 2
  TxTimeout = 3
  QueryTimeout = 4
  Grace = 3
  IdleWait = 2
  Reports <- MCReports
  Kinds = {"conflict", "chatter"}
  OwnAddresses <- MCOneAddress
  RxLength = 1
  MaxCalls = 2
  MaxArrivals = 1
  MaxNow = 14
CHECK_DEADLOCK FALSE
INVARIANTS
  NoLateEffect
  ResultIsOwn
  AnswerIsFresh
  WaiterIsQuerying
PROPERTIES
  CallsReturn
  RequestsAreTaken
