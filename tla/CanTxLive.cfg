SPECIFICATION LiveSpec
CONSTANTS
  Streams = {"protected", "detail"}
  Frames <- LiveFrames
  Advisory = {2}
  Mailboxes = {0, 1}
  MaxGen <- LiveMaxGen
  MaxBusOffs = 0
PROPERTIES
  KeepsDetails
  DeliveredOrReplaced
