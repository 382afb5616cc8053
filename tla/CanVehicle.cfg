CONSTANTS
  Deadline = 2
  Window = 2
  RepeatLimit = 2
  SoftHold = 0
  MaxEvents = 2
  ServiceCommands = {}
  Anomalies = {}
SPECIFICATION LiveSpec
INVARIANTS
  LatchedKeepsBmsLow
  InhibitIsComplete
  AuthorityIsSound
  RideThroughIsBounded
PROPERTIES
  AuthorityIsEarned
  RecoveryIsTimely
  EpochCloses
CHECK_DEADLOCK TRUE
