SPECIFICATION Spec
CONSTANTS
  Bits = 2
  Messages <- MCMessages
  Rejected <- MCRejected
  Sends = 2
INVARIANT TimeoutIsUnfinished
