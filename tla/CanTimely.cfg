CONSTANTS
  Deadline = 2
  Window = 2
  RepeatLimit = 2
  SoftHold = 0
  MaxEvents = 2
  ServiceCommands = {}
  Anomalies = {}
SPECIFICATION Spec
PROPERTIES
  TimelyIsBelieved
CHECK_DEADLOCK TRUE
