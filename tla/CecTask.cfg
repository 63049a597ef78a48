SPECIFICATION FairSpec
CONSTANTS
  Types = {"playback"}
  Physicals <- MCPhysicals
  Manual <- MCManual
  Taken <- MCTaken
  Others = {3}
INVARIANTS
  FrameUnderOwnAddress
PROPERTIES
  NeverRetakes
  ClaimedWasFree
  Recovers
