SPECIFICATION FairReceiveSpec
CONSTANTS
  Bits = 2
  MaxLen = 2
  QueueLen = 1
  Frames <- MCFrames
  Rejected <- MCRejected
  Addresses <- MCAddresses
  Starts = 3
  Faults = 2
INVARIANTS
  HandedIsSent
  AcknowledgedIsHeard
PROPERTY Recovers
