---------------------------- MODULE CellBalancing ----------------------------
(***************************************************************************)
(* Cell balancing (adbms_task.c, accumulator.c, app.c, cli_task.c): who    *)
(* turns the bleed resistors on and off, and what the firmware believes of *)
(* them.  The scan of the ADBMS task owns the SPI lock from end to end: it *)
(* clears what the last scan applied, measures, and applies a new plan if  *)
(* the state allows.  A dropped permit asks for the fast mute, which the   *)
(* scan serves at a few points; the command line clears the plan itself.   *)
(*                                                                         *)
(* A transaction on the bus is one step: nobody else talks to the chips,   *)
(* and what the others do meanwhile they may as well do before or after.   *)
(* It may fail with or without effect.  A reset loses everything but the   *)
(* chips: it is an initial state, so the chips start in any state.         *)
(* Mode "drive" stands for every state but CHARGE.                         *)
(***************************************************************************)
EXTENDS Naturals

VARIABLES
  chip,      \* the monitors: MUTE, and whether a DCC/PWM request is set
  driver,    \* the shadow of the request and the last_balance_ flags
  app,       \* the adbms_balance_ and adbms_urgent_mute_ fields, diag_fault
  policy,    \* state, transition in progress, balance_inhibit, bms_state
  scan,      \* the ADBMS task and its locals
  cli,       \* the command line
  dropper    \* a task below the ADBMS task inside set_bms(false)

vars == <<chip, driver, app, policy, scan, cli, dropper>>

TypeOK ==
  /\ chip \in [mute : BOOLEAN, plan : BOOLEAN]
  /\ driver \in [shadow : BOOLEAN, mute : BOOLEAN, durable : BOOLEAN]
  /\ app \in [request : BOOLEAN, active : BOOLEAN, durable : BOOLEAN,
              fault : BOOLEAN, diag : BOOLEAN]
  /\ policy \in [mode : {"charge", "drive"}, changing : BOOLEAN,
                 inhibit : BOOLEAN, permit : BOOLEAN]
  /\ scan \in [pc : {"asleep", "serve", "mute", "clear", "record", "copy",
                     "measure", "diagnose", "gate", "apply", "activate"},
               phase : {"start", "measured", "gate"}, required : BOOLEAN,
               ok : BOOLEAN, recovered : BOOLEAN, applied : BOOLEAN]
  /\ cli \in [pc : {"idle", "clear", "record", "finish"}, ok : BOOLEAN,
              transition : BOOLEAN]
  /\ dropper \in {"no", "ask", "skip"}

Bleeding == chip.plan /\ ~chip.mute

-----------------------------------------------------------------------------
(* Transactions: outcomes are [chip, driver, ok].                          *)

Unready == [chip |-> chip, driver |-> driver, ok |-> FALSE]

(* accumulator_emergency_balance_inhibit: mute, then zero and read back.   *)
(* The shadow is zero whatever becomes of the writes.                      *)
Inhibit ==
  {o \in [chip : [mute : BOOLEAN, plan : BOOLEAN],
          driver : [shadow : {FALSE}, mute : BOOLEAN, durable : BOOLEAN],
          ok : BOOLEAN] :
     /\ o.driver.mute => o.chip.mute
     /\ ~o.chip.mute => ~chip.mute
     /\ o.chip.plan => chip.plan /\ ~o.driver.durable
     /\ o.ok <=> o.driver.mute /\ o.driver.durable}

Zeroing == Inhibit \cup {Unready}

(* accumulator_set_balance with cells to bleed: program under mute, read   *)
(* back, unmute; what fails is muted and cleared as well as may be.        *)
(* last_balance_unmute_ok is true exactly if all of it succeeded.          *)
Programmed ==
  [chip |-> [mute |-> FALSE, plan |-> TRUE],
   driver |-> [shadow |-> TRUE, mute |-> TRUE, durable |-> FALSE],
   ok |-> TRUE]

ProgramFailed ==
  {[chip |-> c, driver |-> [shadow |-> FALSE, mute |-> m, durable |-> FALSE],
    ok |-> FALSE] :
     c \in [mute : BOOLEAN, plan : BOOLEAN], m \in BOOLEAN}

(* ... with none: the zero state is kept, or established once.             *)
Kept == [chip |-> chip, driver |-> driver, ok |-> TRUE]

Planning ==
  {Programmed, Unready} \cup ProgramFailed
    \cup (IF driver.mute /\ driver.durable THEN {Kept} ELSE Zeroing)

Transact(o) == chip' = o.chip /\ driver' = o.driver

-----------------------------------------------------------------------------
(* Startup: a reset finds the chips as they were; accumulator_init inhibits *)
(* if it can, and set_bms(0) has asked for a mute.                         *)
Init ==
  /\ chip \in [mute : BOOLEAN, plan : BOOLEAN]
  /\ \E mute, durable \in BOOLEAN :
       /\ (mute => chip.mute) /\ (durable => ~chip.plan)
       /\ driver = [shadow |-> FALSE, mute |-> mute, durable |-> durable]
       /\ app = [request |-> TRUE, active |-> FALSE, durable |-> durable,
                 fault |-> FALSE, diag |-> FALSE]
  /\ policy = [mode |-> "drive", changing |-> FALSE, inhibit |-> FALSE,
               permit |-> FALSE]
  /\ scan = [pc |-> "asleep", phase |-> "start", required |-> FALSE,
             ok |-> FALSE, recovered |-> FALSE, applied |-> FALSE]
  /\ cli = [pc |-> "idle", ok |-> FALSE, transition |-> FALSE]
  /\ dropper = "no"

Dropped(p) == [p EXCEPT !.permit = FALSE]

Asked(a) == [a EXCEPT !.request = TRUE]

(* adbms_record_balance_write_result *)
Recorded(ok) ==
  IF ok THEN /\ app' = [app EXCEPT !.fault = FALSE, !.diag = FALSE]
             /\ UNCHANGED policy
        ELSE /\ app' = [Asked(app) EXCEPT !.fault = TRUE, !.diag = TRUE]
             /\ policy' = Dropped(policy)

-----------------------------------------------------------------------------
(* The scan.  What has to be cleared is decided before the mute is served. *)

Begin ==
  /\ scan.pc = "asleep"
  /\ scan' = [scan EXCEPT !.pc = "serve", !.phase = "start",
                          !.required = driver.shadow \/ app.fault,
                          !.recovered = TRUE]
  /\ UNCHANGED <<chip, driver, app, policy, cli, dropper>>

AfterService ==
  CASE scan.phase = "start" -> IF scan.required THEN "clear" ELSE "measure"
    [] scan.phase = "measured" -> "diagnose"
    [] OTHER -> "gate"

(* adbms_task_service_urgent_mute: the request is consumed first ...       *)
Serve ==
  /\ scan.pc = "serve"
  /\ app' = [app EXCEPT !.request = FALSE]
  /\ scan' = [scan EXCEPT !.pc = IF app.request THEN "mute"
                                 ELSE AfterService]
  /\ UNCHANGED <<chip, driver, policy, cli, dropper>>

(* ... and what came of it is recorded after.                              *)
Muted(o) ==
  [app EXCEPT !.active = FALSE, !.durable = o.driver.durable,
              !.fault = @ \/ ~o.ok]

Mute(o) ==
  /\ scan.pc = "mute" /\ o \in Zeroing
  /\ Transact(o)
  /\ app' = Muted(o)
  /\ scan' = [scan EXCEPT !.pc = AfterService]
  /\ UNCHANGED <<policy, cli, dropper>>

Clear(o) ==
  /\ scan.pc = "clear" /\ o \in Zeroing
  /\ Transact(o)
  /\ scan' = [scan EXCEPT !.pc = "record", !.ok = o.ok, !.applied = FALSE]
  /\ UNCHANGED <<app, policy, cli, dropper>>

Apply(o) ==
  /\ scan.pc = "apply" /\ o \in Planning
  /\ Transact(o)
  /\ scan' = [scan EXCEPT
       !.pc = "record", !.ok = o.ok,
       !.applied = o.ok /\ o.driver.shadow]
  /\ UNCHANGED <<app, policy, cli, dropper>>

Record ==
  /\ scan.pc = "record"
  /\ Recorded(scan.ok)
  /\ scan' = [scan EXCEPT
       !.pc = "copy", !.ok = FALSE,
       !.recovered = IF scan.phase = "start" THEN scan.ok ELSE @]
  /\ UNCHANGED <<chip, driver, cli, dropper>>

(* Seeded fault: an applied plan does not end the zero state. *)
CopiedZero == app.durable \/ driver.durable

CopiedDurable == ~scan.applied /\ driver.durable

Copy ==
  /\ scan.pc = "copy"
  /\ app' = [app EXCEPT !.durable = CopiedDurable]
  /\ scan' = [scan EXCEPT
       !.pc = IF scan.phase = "start" THEN "measure" ELSE "activate"]
  /\ UNCHANGED <<chip, driver, policy, cli, dropper>>

Measure ==
  /\ scan.pc = "measure"
  /\ scan' = [scan EXCEPT !.pc = "serve", !.phase = "measured",
                          !.required = FALSE, !.recovered = FALSE]
  /\ UNCHANGED <<chip, driver, app, policy, cli, dropper>>

(* adbms_task_run_periodic_diagnostics and the drop it may cause           *)
Diagnose ==
  /\ scan.pc = "diagnose"
  /\ app' = [app EXCEPT !.diag = app.fault, !.request = @ \/ app.fault]
  /\ policy' = IF app.fault THEN Dropped(policy) ELSE policy
  /\ scan' = [scan EXCEPT !.pc = "serve", !.phase = "gate"]
  /\ UNCHANGED <<chip, driver, cli, dropper>>

(* Seeded fault: the permit is not asked for. *)
MayBalanceAlways == policy.mode = "charge" /\ ~policy.inhibit

MayBalance == policy.mode = "charge" /\ ~policy.inhibit /\ policy.permit

(* The last decision of a scan; healthy stands for the measurements.       *)
Gate(healthy) ==
  /\ scan.pc = "gate"
  /\ scan' = [scan EXCEPT
       !.pc = IF healthy /\ MayBalance THEN "apply"
              ELSE IF app.active \/ driver.shadow \/ app.fault THEN "clear"
              ELSE "activate",
       !.applied = FALSE]
  /\ UNCHANGED <<chip, driver, app, policy, cli, dropper>>

(* adbms_balance_active, publication, unlock, sleep                        *)
Activate ==
  /\ scan.pc = "activate"
  /\ app' = [app EXCEPT !.active = scan.applied]
  /\ scan' = [scan EXCEPT !.pc = "asleep", !.phase = "start",
                          !.applied = FALSE]
  /\ UNCHANGED <<chip, driver, policy, cli, dropper>>

ScanStep ==
  \/ Begin \/ Serve \/ Record \/ Copy \/ Measure \/ Diagnose \/ Activate
  \/ \E healthy \in BOOLEAN : Gate(healthy)
  \/ \E o \in Zeroing : Mute(o) \/ Clear(o)
  \/ \E o \in Planning : Apply(o)

-----------------------------------------------------------------------------
(* The others.                                                             *)

(* Where the scan waits, for its period or for the chips, and lets a task  *)
(* of lower priority run.                                                  *)
Waits == scan.pc \in {"asleep", "mute", "clear", "measure", "apply"}

(* The supervisor's part in it: error_task.c 220-252, 428                  *)
Supervise(healthy) ==
  LET ready == /\ healthy /\ ~policy.changing /\ ~app.diag
               /\ (app.active \/ app.durable)
  IN  /\ policy' = [policy EXCEPT !.permit = ready]
      /\ app' = IF ready THEN app ELSE Asked(app)
      /\ UNCHANGED <<chip, driver, scan, cli, dropper>>

(* set_bms(false) of a task that the scan may preempt between its look at  *)
(* the request and its writes                                              *)
Look ==
  /\ dropper = "no" /\ Waits
  /\ dropper' = IF app.request THEN "skip" ELSE "ask"
  /\ UNCHANGED <<chip, driver, app, policy, scan, cli>>

Drop ==
  /\ dropper # "no" /\ Waits
  /\ app' = IF dropper = "ask" THEN Asked(app) ELSE app
  /\ policy' = Dropped(policy)
  /\ dropper' = "no"
  /\ UNCHANGED <<chip, driver, scan, cli>>

CliRuns == Waits /\ dropper = "no"

(* balance inhibit, balance clear                                          *)
Command(inhibits) ==
  /\ CliRuns /\ cli.pc = "idle"
  /\ policy' = [policy EXCEPT !.inhibit = @ \/ inhibits]
  /\ cli' = [cli EXCEPT !.pc = "clear"]
  /\ UNCHANGED <<chip, driver, app, scan, dropper>>

Release ==
  /\ CliRuns /\ cli.pc = "idle"
  /\ policy' = [policy EXCEPT !.inhibit = FALSE]
  /\ UNCHANGED <<chip, driver, app, scan, cli, dropper>>

SetState(to) ==
  /\ CliRuns /\ cli.pc = "idle"
  /\ policy' = [Dropped(policy) EXCEPT !.mode = to, !.changing = TRUE]
  /\ app' = Asked(app)
  /\ cli' = [cli EXCEPT !.pc = "clear", !.transition = TRUE]
  /\ UNCHANGED <<chip, driver, scan, dropper>>

(* cli_clear_balance_recorded: the lock is released before the record.     *)
CliClear(o) ==
  /\ CliRuns /\ cli.pc = "clear" /\ scan.pc = "asleep" /\ o \in Zeroing
  /\ Transact(o)
  /\ cli' = [cli EXCEPT !.pc = "record", !.ok = o.ok]
  /\ UNCHANGED <<app, policy, scan, dropper>>

CliRecord ==
  /\ CliRuns /\ cli.pc = "record"
  /\ Recorded(cli.ok)
  /\ cli' = [cli EXCEPT !.pc = IF cli.transition THEN "finish" ELSE "idle",
                        !.ok = FALSE]
  /\ UNCHANGED <<chip, driver, scan, dropper>>

CliFinish ==
  /\ CliRuns /\ cli.pc = "finish"
  /\ policy' = [policy EXCEPT !.changing = FALSE]
  /\ cli' = [cli EXCEPT !.pc = "idle", !.transition = FALSE]
  /\ UNCHANGED <<chip, driver, app, scan, dropper>>

Cli ==
  \/ Release \/ CliRecord \/ CliFinish
  \/ \E inhibits \in BOOLEAN : Command(inhibits)
  \/ \E to \in {"charge", "drive"} : SetState(to)
  \/ \E o \in Zeroing : CliClear(o)

(* The watchdog of the chips ends a mute, and may clear the request.       *)
ChipForgets ==
  /\ chip.mute
  /\ \E plan \in {chip.plan, FALSE} :
       chip' = [mute |-> FALSE, plan |-> plan]
  /\ UNCHANGED <<driver, app, policy, scan, cli, dropper>>

Next ==
  \/ ScanStep \/ Cli \/ Look \/ Drop \/ ChipForgets
  \/ \E healthy \in BOOLEAN : Supervise(healthy)

Spec == Init /\ [][Next]_vars

(* A clearing that succeeds.                                               *)
Clears == \E o \in Zeroing : o.ok /\ (Mute(o) \/ Clear(o))

(* The tasks run, and the chips do not refuse every clearing.              *)
LiveSpec ==
  /\ Spec
  /\ WF_vars(ScanStep)
  /\ WF_vars(\E healthy \in BOOLEAN : Supervise(healthy))
  /\ SF_vars(Clears)

-----------------------------------------------------------------------------
(* A zero state that is called verified is one, except while a scan is     *)
(* replacing it (adbms_task.c 1700-1743).                                  *)
DurableIsZero ==
  app.durable /\ chip.plan => scan.phase = "gate"
                              /\ scan.pc \in {"record", "copy"}

(* A request left in the chips is never forgotten between two scans: the   *)
(* next scan will clear it, from the shadow or because a mute is asked for *)
(* and then the permit is withheld as well.  The command line may still    *)
(* have to say so.                                                         *)
PlanIsRemembered ==
  chip.plan /\ scan.pc = "asleep" /\ cli.pc # "record" =>
    \/ driver.shadow
    \/ app.request /\ (app.fault \/ (~app.active /\ ~app.durable))

(* A pack that drives does not bleed (cli_task.c 7655-7682).               *)
DriveDoesNotBleed ==
  policy.permit /\ policy.mode = "drive" => ~Bleeding

(* Cells measured while they bleed are not published as recovered, or a    *)
(* fault stands, or the command line has still to raise it                 *)
(* (adbms_task.c 1401-1437).                                               *)
MeasuredAtRest ==
  Measure /\ Bleeding /\ scan.recovered =>
    app.fault \/ cli.pc = "record"

(* Once the permit stays low, bleeding ends and does not come back.        *)
BleedingEnds == <>[]~policy.permit => <>[]~Bleeding
=============================================================================
