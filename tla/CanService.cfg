CONSTANTS
  Deadline = 1
  Window = 0
  RepeatLimit = 2
  SoftHold = 0
  MaxEvents = 1
  ServiceCommands = {"recover", "charge"}
  Anomalies = {"load", "soft"}
SPECIFICATION Spec
PROPERTIES
  GateStaysExplained
CHECK_DEADLOCK TRUE
