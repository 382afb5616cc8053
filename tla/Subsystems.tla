----------------------------- MODULE Subsystems -----------------------------
(***************************************************************************)
(* The small shared objects between the tasks, checked together: the       *)
(* measurement store, the current window, the insulation monitor's         *)
(* capture, the CAN receive ring, the mission requests, the fault          *)
(* policies, the heartbeats with the watchdog, cell balancing, and the     *)
(* locks of the bus and the window.  They share no state, so a behaviour   *)
(* runs one of them, and the state space is the sum of theirs, not the     *)
(* product.                                                                *)
(***************************************************************************)
EXTENDS MeasurementStore

CONSTANTS
  (* the current window *)
  WindowWrap, MaxGap, MaxWindow, WindowLate, Calibrations,
  (* the insulation capture *)
  ImdWrap, ImdSeqMod, CaptureTimeout, MaxSilence, MaxRun,
  (* the receive ring *)
  Depth, Names, MaxLosses, MaxBurst,
  (* the fault policies *)
  Grace, Confirm, SensorConfirm, HotConfirm,
  (* the heartbeats and the watchdog *)
  Tasks, Safety, TaskTimeout, StartupGrace, Period, Iwdg, KickLate,
  (* the locks *)
  MaxNest,
  (* the mission requests *)
  CounterMod, Requests, MaxAge, MissionLate, MaxHold

(* Half a round of the ticks is more than a window, and a late call does   *)
(* not reach half a round back; a last sample is that of the window or was *)
(* held over its start.                                                    *)
ASSUME WindowAssumption ==
  /\ WindowWrap \in Nat /\ MaxGap \in Nat
  /\ MaxWindow \in Nat /\ WindowLate \in Nat
  /\ 2 * (MaxWindow + 1) <= WindowWrap
  /\ 2 * WindowLate <= WindowWrap
  /\ MaxGap + MaxWindow < WindowWrap
  /\ {"none", "unset"} \cap Calibrations = {}

(* The signal is not silent for a round of the ticks.                      *)
ASSUME ImdAssumption ==
  /\ ImdWrap \in Nat /\ ImdSeqMod \in Nat \ {0} /\ ImdSeqMod % 2 = 0
  /\ CaptureTimeout \in Nat /\ MaxSilence \in Nat /\ MaxRun \in Nat
  /\ MaxSilence + CaptureTimeout + MaxRun < ImdWrap

ASSUME RingAssumption ==
  /\ Depth \in Nat \ {0} /\ Names \in Nat \ {0}
  /\ MaxLosses \in Nat /\ MaxBurst \in Nat

ASSUME PoliciesAssumption ==
  /\ Grace \in Nat \ {0} /\ SensorConfirm \in Nat \ {0}
  /\ HotConfirm \in Nat \ {0}
  /\ Confirm \in [{"discharge", "charge", "regen", "precharge"} ->
                   [{"trip", "fast", "extreme"} -> Nat]]

(* A kick carries a tick that is not stale yet, the supervisor runs at     *)
(* least once in a watchdog time, and one timeout is the longest: the      *)
(* tasks are few.                                                          *)
ASSUME WatchdogAssumption ==
  /\ Safety \subseteq Tasks
  /\ "supervisor" \notin Tasks /\ "integrity" \notin Tasks
  /\ TaskTimeout \in [Tasks -> Nat]
  /\ StartupGrace \in Nat \ {0} /\ KickLate \in Nat
  /\ Period \in Nat /\ Iwdg \in Nat /\ Period < Iwdg
  /\ \A t \in Tasks : KickLate <= TaskTimeout[t]
  /\ \E n \in {TaskTimeout[t] : t \in Safety} \cup {StartupGrace} :
       n >= StartupGrace /\ \A t \in Safety : n >= TaskTimeout[t]

ASSUME LocksAssumption == MaxNest \in Nat

ASSUME MissionAssumption ==
  /\ CounterMod \in Nat \ {0}
  /\ Requests \subseteq {"endurance", "qualify", "limp home"}
  /\ MaxAge \in Nat /\ MissionLate \in Nat /\ MaxHold \in Nat

Units == {"store", "window", "imd", "ring", "policies", "watchdog",
          "balancing", "locks", "mission"}

VARIABLES
  unit,                                      \* the object that runs
  windowClock, active, last, used, spacing,
  imdClock, capture, imdTask, imd, silence, pass,
  ring, losses, rxTask, waiting, cycle,
  voltage, current, temperature, seen,
  beat, boot, monitor, iwdg, hung, silent,
  chip, driver, app, policy, scan, cli, dropper,
  mutex, book, window, at, panic,
  ecu, driven, request, estimator, strategy, published

Window ==
  INSTANCE CurrentWindow WITH
    clock <- windowClock, Wrap <- WindowWrap, MaxLate <- WindowLate

Imd ==
  INSTANCE ImdCapture WITH
    clock <- imdClock, task <- imdTask,
    Wrap <- ImdWrap, SeqMod <- ImdSeqMod, Timeout <- CaptureTimeout

Ring == INSTANCE CanRxRing WITH task <- rxTask

Policies == INSTANCE FaultPolicies

Watchdog ==
  INSTANCE TaskWatchdog WITH
    Timeout <- TaskTimeout, Grace <- StartupGrace, MaxLate <- KickLate

Balancing == INSTANCE CellBalancing

Locks == INSTANCE SharedLocks

Mission ==
  INSTANCE MissionRequest WITH task <- estimator, MaxLate <- MissionLate

windowVars == <<windowClock, active, last, used, spacing>>
imdVars == <<imdClock, capture, imdTask, imd, silence, pass>>
ringVars == <<ring, losses, rxTask, waiting, cycle>>
policyVars == <<voltage, current, temperature, seen>>
watchdogVars == <<beat, boot, monitor, iwdg, hung, silent>>
balancingVars == <<chip, driver, app, policy, scan, cli, dropper>>
lockVars == <<mutex, book, window, at, panic>>
missionVars == <<ecu, driven, request, estimator, strategy, published>>

allVars ==
  <<unit, vars, windowVars, imdVars, ringVars, policyVars, watchdogVars,
    balancingVars, lockVars, missionVars>>

(* An object that does not run stays in one of its initial states.         *)
SubsystemsInit ==
  /\ unit \in Units
  /\ Init /\ Window!Init /\ Imd!Init /\ Ring!Init
  /\ Policies!Init /\ Watchdog!Init /\ Balancing!Init /\ Locks!Init
  /\ Mission!Init
  /\ unit # "window" => windowClock = 0
  /\ unit # "imd" => imdClock = 0
  /\ unit # "watchdog" => iwdg = 0
  /\ unit # "mission" => ecu.profile = "endurance"
  /\ unit # "balancing" => ~chip.mute /\ ~chip.plan /\ ~driver.durable

SubsystemsNext ==
  \/ /\ unit = "store" /\ Next
     /\ UNCHANGED <<unit, windowVars, imdVars, ringVars,
                    policyVars, watchdogVars, balancingVars, lockVars,
                    missionVars>>
  \/ /\ unit = "window" /\ Window!Next
     /\ UNCHANGED <<unit, vars, imdVars, ringVars,
                    policyVars, watchdogVars, balancingVars, lockVars,
                    missionVars>>
  \/ /\ unit = "imd" /\ Imd!Next
     /\ UNCHANGED <<unit, vars, windowVars, ringVars,
                    policyVars, watchdogVars, balancingVars, lockVars,
                    missionVars>>
  \/ /\ unit = "ring" /\ Ring!Next
     /\ UNCHANGED <<unit, vars, windowVars, imdVars,
                    policyVars, watchdogVars, balancingVars, lockVars,
                    missionVars>>
  \/ /\ unit = "policies" /\ Policies!Next
     /\ UNCHANGED <<unit, vars, windowVars, imdVars,
                    ringVars, watchdogVars, balancingVars, lockVars,
                    missionVars>>
  \/ /\ unit = "watchdog" /\ Watchdog!Next
     /\ UNCHANGED <<unit, vars, windowVars, imdVars,
                    ringVars, policyVars, balancingVars, lockVars,
                    missionVars>>
  \/ /\ unit = "balancing" /\ Balancing!Next
     /\ UNCHANGED <<unit, vars, windowVars, imdVars,
                    ringVars, policyVars, watchdogVars, lockVars,
                    missionVars>>
  \/ /\ unit = "locks" /\ Locks!Next
     /\ UNCHANGED <<unit, vars, windowVars, imdVars,
                    ringVars, policyVars, watchdogVars, balancingVars,
                    missionVars>>
  \/ /\ unit = "mission" /\ Mission!Next
     /\ UNCHANGED <<unit, vars, windowVars, imdVars, ringVars,
                    policyVars, watchdogVars, balancingVars, lockVars>>

SubsystemsSpec == SubsystemsInit /\ [][SubsystemsNext]_allVars

(* The fairness of the store's and the balancing's LiveSpec; the others    *)
(* make no promise of progress that is not bounded in ticks.               *)
SubsystemsLiveSpec ==
  /\ SubsystemsSpec
  /\ WF_vars(unit = "store" /\ Writer)
  /\ \A r \in Readers :
       WF_vars(/\ unit = "store"
               /\ EndCopy(r) \/ \E f \in Fields : CopyPart(r, f))
  /\ WF_balancingVars(unit = "balancing" /\ Balancing!ScanStep)
  /\ WF_balancingVars(/\ unit = "balancing"
                      /\ \E h \in BOOLEAN : Balancing!Supervise(h))
  /\ SF_balancingVars(unit = "balancing" /\ Balancing!Clears)

-----------------------------------------------------------------------------
(* Every object keeps its type.                                            *)
SubsystemsTypeOK ==
  /\ TypeOK /\ Window!TypeOK /\ Imd!TypeOK
  /\ Ring!TypeOK /\ Policies!TypeOK /\ Watchdog!TypeOK
  /\ Balancing!TypeOK /\ Locks!TypeOK /\ Mission!TypeOK

(* Nothing between two boundaries is integrated twice, a valid window      *)
(* leaves nothing out, is sampled without a gap, and names a calibration   *)
(* only if it used no other one (ams_measurement.c 133-372).               *)
WindowIsHonest ==
  [][unit = "window" =>
       /\ Window!ValidWindowIsCovered
       /\ Window!ValidWindowIsSampled
       /\ Window!NoTickTwice'
       /\ Window!ProvenanceIsUniform']_allVars

(* What the IMD task trusts is one capture, and recent; what it refuses is *)
(* refused because it is old or was overwritten (imd.c 117-167).           *)
CaptureIsHonest ==
  [][unit = "imd" =>
       /\ Imd!TupleIsOne
       /\ Imd!SilenceIsNoticed
       /\ Imd!RefusalIsExplained]_allVars

(* The receive ring hands over whole frames in order; one is lost only     *)
(* when the ring is full, every loss is reported once, and a cycle of the  *)
(* task serves all that waited when it began (canbus.c 321-392,            *)
(* 1910-2044).                                                             *)
RingIsAQueue ==
  unit = "ring" =>
    /\ Ring!DeliversInOrder
    /\ Ring!DropsMeanFull
    /\ Ring!CycleServesWaiting
    /\ Ring!LossesAreRecorded'

(* A mission profile is believed after enough undisturbed requests,        *)
(* whatever went before, and then applied; the qualifying one is entered   *)
(* from a standstill, and a pack once too low keeps its limits             *)
(* (ams_power_strategy.c 58-121, 248-280, estimator_task.c 651-700).       *)
MissionIsHonest ==
  unit = "mission" =>
    /\ Mission!LinkResynchronizes'
    /\ Mission!SteadyRequestIsApplied
    /\ Mission!QualifyFromStandstill
    /\ Mission!LimpIsForEver

(* What arrives on CAN reaches the decisions it is for: the ring loses and *)
(* reorders nothing unnoticed, and a request is followed when it should be *)
(* and only then.                                                          *)
CanInputsAreSound == [][RingIsAQueue /\ MissionIsHonest]_allVars

(* No policy forgives what it must not: a read failure beyond its grace, a *)
(* cell once beyond a hard limit, a current sensor that stays silent; and  *)
(* an overcurrent and an overtemperature latch exactly when they lasted    *)
(* their confirmation without a break (voltage_fault.c 51-345,             *)
(* current_fault.c 320-400, temperature_fault.c 90-126).                   *)
PoliciesAreFaithful ==
  /\ Policies!GraceIsBounded
  /\ Policies!OutOfRangeHolds
  /\ Policies!SensorLossIsFault
  /\ Policies!OvercurrentIsConfirmed
  /\ Policies!OvertemperatureIsConfirmed

(* A silent safety task loses the permission within its timeout, or the    *)
(* startup grace if it has not kicked yet, and a supervisor's period; what *)
(* stays hung has the processor reset; a system that works is not reset,   *)
(* whatever the logger does (app.c 246-298, error_task.c 268-293,          *)
(* ams_safety.c 910-985).                                                  *)
WatchdogIsSound ==
  [][unit = "watchdog" =>
       /\ Watchdog!PermitIsAlive'
       /\ Watchdog!HungIsReset'
       /\ Watchdog!ResetIsEarned]_allVars

(* What the firmware believes of the bleed resistors is so: a zero state   *)
(* called verified is one, a request left in the chips is not forgotten, a *)
(* pack that drives does not bleed, and no cell is measured under load     *)
(* unnoticed (adbms_task.c 1341-1793, accumulator.c 1880-2100).            *)
BalancingIsHonest ==
  [][unit = "balancing" =>
       /\ Balancing!DurableIsZero'
       /\ Balancing!PlanIsRemembered'
       /\ Balancing!DriveDoesNotBleed'
       /\ Balancing!MeasuredAtRest]_allVars

(* The record beside the bus mutex agrees with it whenever a task looks,   *)
(* tasks that pair their calls never end in a panic but by a wait that     *)
(* took too long, and no two wait for each other (app.c 297-427,           *)
(* adbms_task.c 1492).                                                     *)
LocksAreSound ==
  /\ Locks!RecordIsTheMutex
  /\ Locks!OnlyTimeoutsPanic
  /\ Locks!NoCircularWait

(* What must go on does: the store keeps publishing epochs past its        *)
(* readers (ams_measurement.c 402), and a permit that stays low ends all   *)
(* bleeding (adbms_task.c 175-222, 1402).                                  *)
UnitsProgress ==
  /\ unit = "store" => EpochsKeepComing
  /\ unit = "balancing" => Balancing!BleedingEnds

(* The disagreement of the temperature policy with its data sheet.         *)
HotPackStopsCharge == Policies!HotPackStopsCharge
=============================================================================
