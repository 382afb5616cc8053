--------------------------- MODULE FaultPolicies ---------------------------
(***************************************************************************)
(* The voltage, current and temperature policies (voltage_fault.c,         *)
(* current_fault.c, temperature_fault.c).  Each is fed one classified      *)
(* measurement at a time by its task and decides what counts as a fault:   *)
(* at once, after a number of bad measurements in a row, or for ever.      *)
(* Times are counted in samples of the calling task.                       *)
(***************************************************************************)
EXTENDS Integers

CONSTANTS
  Grace,          \* VOLTAGE_READ_FAULT_CONFIRM_SCANS
  Confirm,        \* samples before an overcurrent of a family and level trips
  SensorConfirm,  \* CURRENT_SENSOR_STARTUP_IGNORE_MS + _FAULT_CONFIRM_MS
  HotConfirm      \* TEMP_HOT_HARD_CONFIRM_MS, TEMP_HOT_SEVERE_CONFIRM_MS

Families == {"discharge", "charge", "regen", "precharge"}
TripLevels == {"trip", "fast", "extreme"}
Levels == TripLevels \cup {"normal", "warning"}
Modes == {"PRECHARGE", "CHARGE", "DRIVE", "IDLE"}
Hot == {"HOT_HARD", "HOT_SEVERE"}
None == <<"none", "none">>
Reasons == (Families \X TripLevels) \cup {None}

VoltageScans ==
  {"NOT_READY", "MISSED", "MISSED_TOPOLOGY", "CORRUPT", "HARD", "STOP", "OK"}
TemperatureScans == Hot \cup {"UNUSABLE", "STOP", "OK"}

VARIABLES
  voltage, current, temperature,   \* the three policy states
  seen                             \* history: what the measurements were

vars == <<voltage, current, temperature, seen>>

Least(a, b) == IF a < b THEN a ELSE b
Longest == CHOOSE n \in {Confirm[f][l] : f \in Families, l \in TripLevels} :
             \A f \in Families, l \in TripLevels : Confirm[f][l] <= n

TypeOK ==
  /\ voltage \in [valid : BOOLEAN, read_fault : BOOLEAN, pending : BOOLEAN,
                  streak : 0 .. Grace, charge_stop : BOOLEAN,
                  out_of_range : BOOLEAN, latched : BOOLEAN]
  /\ current \in [reason : Reasons, pending : 0 .. Longest + 1,
                  confirmed : BOOLEAN, latched : BOOLEAN,
                  invalid : 0 .. SensorConfirm, sensor_fault : BOOLEAN]
  /\ temperature \in [valid : BOOLEAN, reason : Hot \cup {"NONE"},
                      pending : 0 .. HotConfirm, charge_stop : BOOLEAN,
                      overtemp : BOOLEAN, latched : BOOLEAN]

(* Before its first measurement a policy is published as a fault.          *)
Init ==
  /\ voltage = [valid |-> FALSE, read_fault |-> TRUE, pending |-> FALSE,
                streak |-> 0, charge_stop |-> FALSE, out_of_range |-> FALSE,
                latched |-> FALSE]
  /\ current = [reason |-> None, pending |-> 0, confirmed |-> FALSE,
                latched |-> FALSE, invalid |-> 0, sensor_fault |-> FALSE]
  /\ temperature = [valid |-> FALSE, reason |-> "NONE", pending |-> 0,
                    charge_stop |-> FALSE, overtemp |-> FALSE,
                    latched |-> FALSE]
  /\ seen = [missed |-> Grace, hard |-> FALSE,
             load |-> None, loads |-> 0, overload |-> FALSE, silent |-> 0,
             heat |-> "NONE", heats |-> 0, overheat |-> FALSE]

-----------------------------------------------------------------------------
(* Voltage.  An update starts from a cleared state that keeps the latch    *)
(* and the streak of scans that could not be read.                         *)
VoltageCleared ==
  [voltage EXCEPT !.valid = FALSE, !.read_fault = FALSE, !.pending = FALSE,
                  !.charge_stop = FALSE, !.out_of_range = FALSE]

VoltageNotReady ==
  [VoltageCleared EXCEPT !.streak = 0, !.read_fault = TRUE]

InGrace(eligible) ==
  eligible /\ voltage.valid /\ voltage.streak + 1 < Grace

VoltageMissed(eligible) ==
  LET grace == InGrace(eligible)
  IN  [VoltageCleared EXCEPT
         !.streak = Least(@ + 1, Grace), !.read_fault = TRUE,
         !.valid = grace, !.pending = grace, !.charge_stop = grace]

VoltageRead(scan) ==
  [VoltageCleared EXCEPT
     !.streak = 0, !.valid = TRUE, !.charge_stop = (scan = "STOP"),
     !.out_of_range = (scan = "HARD"), !.latched = @ \/ scan = "HARD"]

VoltageUpdate(scan) ==
  CASE scan \in {"NOT_READY", "CORRUPT"} -> VoltageNotReady
    [] scan = "MISSED" -> VoltageMissed(TRUE)
    [] scan = "MISSED_TOPOLOGY" -> VoltageMissed(FALSE)
    [] OTHER -> VoltageRead(scan)

(* A normal scan, or the scan that restores the image after an open-wire   *)
(* diagnostic: both are counted.                                           *)
VoltageScan(scan) ==
  /\ voltage' = VoltageUpdate(scan)
  /\ seen' =
       [seen EXCEPT
          !.missed = CASE scan \in {"NOT_READY", "CORRUPT"} -> Grace
                       [] scan = "MISSED" -> Least(@ + 1, Grace)
                       [] scan = "MISSED_TOPOLOGY" -> Grace
                       [] OTHER -> 0,
          !.hard = @ \/ scan = "HARD"]
  /\ UNCHANGED <<current, temperature>>

VoltageFault ==
  \/ voltage.read_fault /\ ~voltage.pending
  \/ voltage.out_of_range
  \/ voltage.latched

-----------------------------------------------------------------------------
(* Current.  The mode and the direction choose the family of thresholds.   *)
Family(mode, discharging) ==
  CASE mode = "PRECHARGE" -> "precharge"
    [] mode # "PRECHARGE" /\ discharging -> "discharge"
    [] mode = "DRIVE" /\ ~discharging -> "regen"
    [] OTHER -> "charge"

(* Precharge has no extreme threshold.                                     *)
Reason(family, level) ==
  <<family, IF family = "precharge" /\ level = "extreme" THEN "fast"
                                                        ELSE level>>

(* Seeded fault: an unreadable sample does not end the run.                *)
CurrentInvalidHeld ==
  [current EXCEPT !.confirmed = FALSE,
                  !.invalid = Least(@ + 1, SensorConfirm),
                  !.sensor_fault = @ \/ current.invalid + 1 >= SensorConfirm]

CurrentInvalid ==
  [current EXCEPT !.reason = None, !.pending = 0, !.confirmed = FALSE,
                  !.invalid = Least(@ + 1, SensorConfirm),
                  !.sensor_fault = @ \/ current.invalid + 1 >= SensorConfirm]

CurrentInactive ==
  [current EXCEPT !.reason = None, !.pending = 0, !.confirmed = FALSE,
                  !.invalid = 0, !.sensor_fault = FALSE]

CurrentPending(reason) ==
  LET n == IF current.reason = reason THEN current.pending + 1 ELSE 1
      trips == n >= Confirm[reason[1]][reason[2]]
  IN  [current EXCEPT !.reason = reason, !.pending = Least(n, Longest + 1),
                      !.confirmed = @ \/ trips, !.latched = @ \/ trips,
                      !.invalid = 0, !.sensor_fault = FALSE]

(* A run of samples with one reason, for the history.                      *)
Load(reason) ==
  LET n == IF reason = None THEN 0
           ELSE IF seen.load = reason THEN Least(seen.loads + 1, Longest)
           ELSE 1
  IN  [seen EXCEPT
         !.load = reason, !.loads = n, !.silent = 0,
         !.overload = @ \/ (reason # None
                            /\ n >= Confirm[reason[1]][reason[2]])]

CurrentSample(mode, discharging, level) ==
  LET reason == Reason(Family(mode, discharging), level)
      load == IF level \in TripLevels THEN reason ELSE None
  IN  /\ current' = IF level \in TripLevels THEN CurrentPending(reason)
                                            ELSE CurrentInactive
      /\ seen' = Load(load)
      /\ UNCHANGED <<voltage, temperature>>

CurrentUnread ==
  /\ current' = CurrentInvalid
  /\ seen' = [Load(None) EXCEPT !.silent = Least(seen.silent + 1,
                                                 SensorConfirm)]
  /\ UNCHANGED <<voltage, temperature>>

CurrentFault == current.sensor_fault \/ current.confirmed \/ current.latched

-----------------------------------------------------------------------------
(* Temperature.  *)
TemperatureHot(scan) ==
  LET n == IF temperature.reason = scan
             THEN Least(temperature.pending + 1, HotConfirm) ELSE 1
      trips == n >= HotConfirm
  IN  [temperature EXCEPT !.valid = TRUE, !.reason = scan, !.pending = n,
                          !.charge_stop = FALSE, !.overtemp = trips,
                          !.latched = @ \/ trips]

TemperatureOther(scan) ==
  [temperature EXCEPT !.valid = (scan # "UNUSABLE"), !.reason = "NONE",
                      !.pending = 0, !.overtemp = FALSE,
                      !.charge_stop = (scan = "STOP")]

Heat(scan) ==
  LET n == IF scan \notin Hot THEN 0
           ELSE IF seen.heat = scan THEN Least(seen.heats + 1, HotConfirm)
           ELSE 1
  IN  [seen EXCEPT !.heat = IF scan \in Hot THEN scan ELSE "NONE",
                   !.heats = n,
                   !.overheat = @ \/ n >= HotConfirm]

TemperatureScan(scan) ==
  /\ temperature' = IF scan \in Hot THEN TemperatureHot(scan)
                                    ELSE TemperatureOther(scan)
  /\ seen' = Heat(scan)
  /\ UNCHANGED <<voltage, current>>

TemperatureFault ==
  ~temperature.valid \/ temperature.overtemp \/ temperature.latched

Next ==
  \/ \E scan \in VoltageScans : VoltageScan(scan)
  \/ \E mode \in Modes, discharging \in BOOLEAN, level \in Levels :
       CurrentSample(mode, discharging, level)
  \/ CurrentUnread
  \/ \E scan \in TemperatureScans : TemperatureScan(scan)

Spec == Init /\ [][Next]_vars

-----------------------------------------------------------------------------
(* Permission rides over fewer than Grace scans in a row that could not be *)
(* read, only after one that could, and never while charging: a scan that  *)
(* was not ready, or whose topology is wrong, ends it at once, and so no   *)
(* sequence of such scans can renew it (voltage_fault.c 54-86).            *)
GraceIsBounded ==
  ~VoltageFault => /\ seen.missed < Grace
                   /\ seen.missed > 0 => voltage.charge_stop

(* A cell seen once beyond a hard limit holds the fault, whatever scans    *)
(* and read failures follow.                                               *)
OutOfRangeHolds == seen.hard => VoltageFault

(* An overcurrent is latched exactly when its samples came in an unbroken  *)
(* run of one reason for as long as that reason demands: an unreadable     *)
(* sample, a change of direction, mode or level starts a new run.          *)
OvercurrentIsConfirmed == current.latched <=> seen.overload

(* So is an overtemperature, whose runs an unusable scan breaks, too; that *)
(* scan is a fault of its own.                                             *)
OvertemperatureIsConfirmed ==
  /\ temperature.latched <=> seen.overheat
  /\ seen.overheat => TemperatureFault

(* No current sensor is silent for SensorConfirm samples without a fault,  *)
(* whatever was pending when it went silent.                               *)
SensorLossIsFault == seen.silent >= SensorConfirm => CurrentFault

(* The pack may be charged between 0 and 45 degrees only                   *)
(* (temperature_fault.c 14): at 60 and above charging must be stopped, by  *)
(* the charge stop or by the fault.                                        *)
HotPackStopsCharge ==
  seen.heat # "NONE" => temperature.charge_stop \/ TemperatureFault
=============================================================================
