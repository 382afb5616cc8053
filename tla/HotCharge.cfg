SPECIFICATION SubsystemsSpec
CONSTANTS
  Readers = {r1, r2}
  Parts = {"cells"}
  SeqMod = 4
  PinMax = 2
  WindowWrap = 12
  MaxGap = 2
  MaxWindow = 5
  WindowLate = 1
  Calibrations = {"first", "second"}
  ImdWrap = 8
  ImdSeqMod = 6
  CaptureTimeout = 1
  MaxSilence = 3
  MaxRun = 2
  Depth = 3
  Names = 4
  MaxLosses = 2
  MaxBurst = 3
  Grace = 3
  Confirm <- MCConfirm
  SensorConfirm = 3
  HotConfirm = 2
  Tasks = {"current", "can", "logger"}
  Safety = {"current", "can"}
  TaskTimeout <- MCTimeout
  StartupGrace = 3
  Period = 1
  Iwdg = 2
  KickLate = 1
  MaxNest = 3
  CounterMod = 3
  Requests = {"endurance", "qualify"}
  MaxAge = 1
  MissionLate = 1
  MaxHold = 1
INVARIANT HotPackStopsCharge
CHECK_DEADLOCK FALSE
