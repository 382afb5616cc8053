SPECIFICATION Spec
CONSTANTS
  Streams = {"critical", "protected"}
  Frames <- MCFrames
  Advisory = {3}
  Mailboxes = {0, 1}
  MaxGen <- MCMaxGen
  MaxBusOffs = 1
INVARIANTS
  OwnershipAgrees
  NothingUnwantedIsSent
  NoLostKick
PROPERTIES
  KeepsProtected
  KeepsCritical
