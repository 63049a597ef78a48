SPECIFICATION Spec
CONSTANTS
  Ids <- MCIds
  Commands <- MCCommands
  Addresses <- MCAddresses
  ValidAddresses <- MCValidAddresses
  Outcomes = {"ok", "failed"}
  ResultCount = 2
  OutputCount = 2
  MaxAccepted = 3
  MaxBoots = 0
PROPERTIES
  RetainedIdNotRunAgain
