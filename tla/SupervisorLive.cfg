SPECIFICATION LiveSpec
CONSTANTS
  BurstFrames = 2
  MaxRequests = 1
  MayCorrupt = FALSE
PROPERTIES
  ExitsEnd
