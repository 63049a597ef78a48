SPECIFICATION CacheSpec
CONSTANTS
  LastByte = 31
  tv1 = tv1
  tv2 = tv2
  monitor = monitor
  Nothing = Nothing
  Displays = {tv1, tv2, monitor}
  Connectors = {"HDMI-A-1", "HDMI-A-2"}
  Base <- MCBase
  Extension <- MCExtension
INVARIANTS
  FileIsWhole
  DiscoveredIsUnique
  CacheIsUnambiguous
