SPECIFICATION Spec
CONSTANTS
  Delays = {0, 60000}
  ValidDelays = {0}
  DefaultDelay = 0
  Physicals = {"0000", "1000", "1010"}
  ValidPhysicals = {"1000"}
  NoPhysical = "0000"
  Logicals = {4, 15}
  Unregistered = 15
  Types = {"tv", "recording", "reserved", "tuner", "playback", "audio"}
  Names = {"", "Pico-CEC", "unprintable"}
  ValidNames = {"", "Pico-CEC"}
  NoName = ""
  OsdName = "Pico-CEC"
INVARIANT NothingElseIsFound
PROPERTY EraseBeginsIdle
