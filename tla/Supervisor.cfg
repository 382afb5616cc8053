SPECIFICATION Spec
CONSTANTS
  BurstFrames = 2
  MaxRequests = 2
  MayCorrupt = TRUE
INVARIANTS
  PermitWaitsForExit
  PermitMatchesPolicy
  FaultOpensTheLoop
  ChargeWaitsForStatus
  ExitIsComplete
  OneLateEnable
