SPECIFICATION Spec
CONSTANTS
  Types = {"audio"}
  Physicals <- MCPhysicals
  Manual = {}
  Taken = {5}
  Others = {3}
PROPERTIES
  ClaimedWasFree
