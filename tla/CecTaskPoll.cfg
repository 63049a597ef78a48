SPECIFICATION Spec
CONSTANTS
  Types = {"playback", "recording"}
  Physicals <- MCPhysicals
  Manual <- MCManual
  Taken <- MCTaken
  Others = {3}
PROPERTIES
  PollConfirmsFree
