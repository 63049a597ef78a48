SPECIFICATION Spec
CONSTANTS
  Types = {"playback"}
  Physicals <- MCPhysicals
  Manual = {}
  Taken <- MCTaken
  Others = {3}
INVARIANTS
  OmittedAddressIsSet
