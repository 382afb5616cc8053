----------------------------- MODULE Supervisor -----------------------------
(***************************************************************************)
(* The shutdown-loop permit BMS_OK and the operating state machine: the    *)
(* safety supervisor (error_task.c) that alone may raise the permit, the   *)
(* tasks that drop it, the service command that changes the state          *)
(* (cli_task.c), and the way the charger is switched off when CHARGE is    *)
(* left: a burst of disable commands that the CAN task publishes and the   *)
(* mailbox interrupt counts (app.h, canbus_task.c, canbus.c).              *)
(*                                                                         *)
(* Scheduling.  The supervisor has the highest priority and decides in one *)
(* critical section: one step, at any point of any other task.  The        *)
(* command line has the lowest: it runs only while no other task is in the *)
(* middle of something.  set_bms(false) outside a critical section is two  *)
(* writes, the shadow and the pin, and the supervisor may come in between. *)
(*                                                                         *)
(* Data.  "inputs" stands for the fields that the measuring tasks publish  *)
(* and for the CAN authority: good when none of them forbids the permit.   *)
(* BALANCE and NULL are left out: no transition leads there.  The command  *)
(* stream is the critical stream of CanTxScheduler, whose generations have *)
(* one frame here; reservation and loading are one step.                   *)
(***************************************************************************)
EXTENDS Naturals

CONSTANTS
  BurstFrames,    \* CHARGER_EXIT_DISABLE_FRAMES
  MaxRequests,    \* bound: shutdown bursts requested
  MayCorrupt      \* whether the state may be overwritten (at most once each)

ASSUME SupervisorAssumption ==
  /\ BurstFrames \in Nat \ {0}
  /\ MaxRequests \in Nat
  /\ MayCorrupt \in BOOLEAN

VARIABLES
  mode,      \* state, state_transition_in_progress, current_fault_mode
  permit,    \* bms_state, the BMS_OK pin, bms_output_inhibit, hard_fault
  inputs,    \* what the measuring tasks have published
  charger,   \* charger_t and charger_fault
  command,   \* the active and the waiting charger command
  task,      \* where the CAN task, the measuring tasks and the CLI are
  drop,      \* of each task: where it is inside set_bms(false)
  seen       \* history: what the charger has been told, and has told

vars == <<mode, permit, inputs, charger, command, task, drop, seen>>

Tasks == {"can", "measuring"}
States == {"start", "charge", "discharge", "error", "corrupt"}
Operating == {"charge", "discharge"}          \* ams_state_allows_bms_ok
Policies == {"precharge", "charge", "drive", "idle"}

(* current_task_fault_mode_from_state *)
PolicyOf(state) ==
  CASE state = "start" -> "precharge"
    [] state = "charge" -> "charge"
    [] state = "discharge" -> "drive"
    [] OTHER -> "idle"

(* born is history: how many exits there had been when it was built.       *)
NoCommand == [kind |-> "none", enable |-> FALSE, request |-> 0,
              loaded |-> "no", stale |-> FALSE, born |-> 0]

Commands ==
  [kind : {"none", "normal", "stop"}, enable : BOOLEAN,
   request : 0 .. MaxRequests, loaded : {"no", "enable", "disable"},
   stale : BOOLEAN, born : Nat]

Modes == [state : States, changing : BOOLEAN, policy : Policies]
Permits == [shadow : BOOLEAN, pin : BOOLEAN]
Chargers ==
  [fault : BOOLEAN, comm : BOOLEAN, txFail : BOOLEAN, loadError : BOOLEAN,
   pending : BOOLEAN, left : 0 .. BurstFrames, request : 0 .. MaxRequests]
Cycles ==
  [can : {"poll", "stop", "decide", "conclude", "publish", "release"},
   attempted : BOOLEAN, verdict : BOOLEAN, forced : BOOLEAN,
   enable : BOOLEAN, measuring : {"read", "publish"}, state : States,
   cli : {"idle", "cleanup"}]
Histories ==
  [last : {"enable", "disable"}, stops : 0 .. BurstFrames, late : 0 .. 2,
   status : BOOLEAN, exits : Nat]

TypeOK ==
  /\ mode \in Modes
  /\ permit \in Permits
  /\ inputs \in {"good", "bad"}
  /\ charger \in Chargers
  /\ command \in [active : Commands, waiting : Commands]
  /\ task \in Cycles
  /\ drop \in [Tasks -> {"no", "shadow", "pin"}]
  /\ seen \in Histories

Init ==
  /\ mode = [state |-> "start", changing |-> FALSE, policy |-> "idle"]
  /\ permit = [shadow |-> FALSE, pin |-> FALSE]
  /\ inputs = "bad"
  /\ charger = [fault |-> FALSE, comm |-> FALSE,
                txFail |-> FALSE, loadError |-> FALSE, pending |-> FALSE,
                left |-> 0, request |-> 0]
  /\ command = [active |-> NoCommand, waiting |-> NoCommand]
  /\ task = [can |-> "poll", attempted |-> FALSE, verdict |-> FALSE,
             forced |-> FALSE, enable |-> FALSE,
             measuring |-> "read", state |-> "start", cli |-> "idle"]
  /\ drop = [t \in Tasks |-> "no"]
  /\ seen = [last |-> "disable", stops |-> BurstFrames,
             late |-> 0, status |-> FALSE, exits |-> 0]

-----------------------------------------------------------------------------
(* set_bms(false) of a task: the shadow first, then the pin.               *)

DroppingIf(t, condition) ==
  drop' = IF condition THEN [drop EXCEPT ![t] = "shadow"] ELSE drop

DropFirst(p) == [p EXCEPT !.shadow = FALSE]

DropThen(p) == [p EXCEPT !.pin = FALSE]

(* No task above the command line is in the middle of its cycle.           *)
Lowest ==
  /\ task.can = "poll" /\ task.measuring = "read"
  /\ \A t \in Tasks : drop[t] = "no"

DropShadow(t) ==
  /\ drop[t] = "shadow"
  /\ permit' = DropFirst(permit)
  /\ drop' = [drop EXCEPT ![t] = "pin"]
  /\ UNCHANGED <<mode, inputs, charger, command, task, seen>>

DropPin(t) ==
  /\ drop[t] = "pin"
  /\ permit' = DropThen(permit)
  /\ drop' = [drop EXCEPT ![t] = "no"]
  /\ UNCHANGED <<mode, inputs, charger, command, task, seen>>

(* set_bms of the supervisor, in one critical section.                     *)
Decided(ready) ==
  [permit EXCEPT !.shadow = ready, !.pin = ready]

-----------------------------------------------------------------------------
(* ams_state_transition_begin.  The charger is told to stop whenever CHARGE*)
(* is left, and on the way into ERROR in any case.                         *)

Target(from, to) == IF from = "corrupt" THEN "error" ELSE to

StopsCharger(from, to) ==
  from # to /\ (from \in {"charge", "corrupt"} \/ to = "error")

StopRequested(c) ==
  [c EXCEPT !.pending = TRUE, !.left = BurstFrames, !.request = @ + 1,
            !.fault = TRUE]

AfterBegin(c, from, to) ==
  IF StopsCharger(from, to) THEN StopRequested(c) ELSE c

Recorded(s, from, to) ==
  IF StopsCharger(from, to)
  THEN [s EXCEPT !.stops = 0, !.late = 0, !.exits = @ + 1]
  ELSE s

-----------------------------------------------------------------------------
(* The supervisor.                                                         *)

(* operating_inputs_ready with the hard fault just aggregated              *)
InputsReady(c) == inputs = "good" /\ ~c.fault

(* Seeded fault: the state is not compared with the current policy. *)
PermitReadyEarly(state, changing, c) ==
  state \in Operating /\ ~changing /\ InputsReady(c)

(* bms_ready *)
PermitReady(state, changing, c) ==
  /\ state \in Operating
  /\ ~changing
  /\ mode.policy = PolicyOf(state)
  /\ InputsReady(c)

Supervise ==
  LET contains == mode.state = "corrupt"
      c == IF contains THEN StopRequested(charger) ELSE charger
      starts == mode.state = "start" /\ InputsReady(c)
      state == IF contains THEN "error"
               ELSE IF starts THEN "discharge" ELSE mode.state
      changing == mode.changing /\ ~contains /\ ~starts
  IN  /\ mode' = [mode EXCEPT !.state = state, !.changing = changing]
      /\ charger' = c
      /\ permit' = Decided(~starts /\ PermitReady(state, changing, c))
      /\ seen' = Recorded(seen, mode.state, state)
      /\ UNCHANGED <<inputs, command, task, drop>>

(* Memory corruption of the state, which the supervisor must contain.      *)
Corrupt ==
  /\ MayCorrupt
  /\ mode.state # "corrupt" /\ charger.request < MaxRequests
  /\ mode' = [mode EXCEPT !.state = "corrupt"]
  /\ UNCHANGED <<permit, inputs, charger, command, task, drop, seen>>

-----------------------------------------------------------------------------
(* The measuring tasks: the current task and those that publish no policy. *)

ReadState ==
  /\ task.measuring = "read" /\ drop["measuring"] = "no"
  /\ task' = [task EXCEPT !.measuring = "publish", !.state = mode.state]
  /\ UNCHANGED <<mode, permit, inputs, charger, command, drop, seen>>

(* Seeded fault: the drop is left to the supervisor. *)
PublishInputsOnly(result) ==
  /\ task.measuring = "publish" /\ drop["measuring"] = "no"
  /\ inputs' = result
  /\ mode' = [mode EXCEPT !.policy = PolicyOf(task.state)]
  /\ task' = [task EXCEPT !.measuring = "read", !.state = "start"]
  /\ UNCHANGED <<permit, charger, command, drop, seen>>

(* A fault is published before the permit is dropped.                      *)
PublishInputs(result) ==
  /\ task.measuring = "publish" /\ drop["measuring"] = "no"
  /\ inputs' = result
  /\ mode' = [mode EXCEPT !.policy = PolicyOf(task.state)]
  /\ task' = [task EXCEPT !.measuring = "read", !.state = "start"]
  /\ DroppingIf("measuring", result = "bad")
  /\ UNCHANGED <<permit, charger, command, seen>>

-----------------------------------------------------------------------------
(* The command line.                                                       *)

(* Seeded fault: the status of the charge before still counts. *)
ToldToWaitOnce(c) == [c EXCEPT !.fault = TRUE]

ToldToWait(c) == [c EXCEPT !.comm = TRUE, !.fault = TRUE]

(* set_state: the drop, the transition and the demand for a fresh charger  *)
(* status are one critical section; then the bleed outputs are cleared.    *)
Accepts(from) == from \in {"start", "charge", "discharge", "corrupt"}

SetState(requested) ==
  LET to == Target(mode.state, requested)
      accepted == Accepts(mode.state)
      begun == IF accepted THEN AfterBegin(charger, mode.state, to)
                           ELSE charger
      charging == accepted /\ requested = "charge"
  IN  /\ Lowest /\ task.cli = "idle"
      /\ charger.request < MaxRequests \/ ~StopsCharger(mode.state, to)
      /\ permit' = [permit EXCEPT !.shadow = FALSE, !.pin = FALSE]
      /\ IF accepted
           THEN mode' = [mode EXCEPT !.state = to, !.changing = TRUE]
           ELSE UNCHANGED mode
      /\ charger' = IF charging THEN ToldToWait(begun) ELSE begun
      /\ seen' = IF ~accepted THEN seen
                 ELSE [Recorded(seen, mode.state, to) EXCEPT
                         !.status = FALSE]
      /\ task' = [task EXCEPT !.cli = "cleanup"]
      /\ UNCHANGED <<inputs, command, drop>>

FinishState ==
  /\ Lowest /\ task.cli = "cleanup"
  /\ mode' = [mode EXCEPT !.changing = FALSE]
  /\ task' = [task EXCEPT !.cli = "idle"]
  /\ UNCHANGED <<permit, inputs, charger, command, drop, seen>>

-----------------------------------------------------------------------------
(* The command stream.                                                     *)

(* Seeded fault: the command does not carry its request. *)
BuiltUnnamed(kind, enable, request) ==
  [NoCommand EXCEPT !.kind = kind, !.enable = enable, !.born = seen.exits]

Built(kind, enable, request) ==
  [NoCommand EXCEPT !.kind = kind, !.enable = enable, !.request = request,
                    !.born = seen.exits]

(* ams_can_tx_publish_critical: the latest command replaces one that no    *)
(* mailbox has; otherwise it waits until the obsolete one has left.        *)
Publishing(new) ==
  command' = IF command.active.loaded = "no"
             THEN [active |-> new, waiting |-> NoCommand]
             ELSE [active |-> [command.active EXCEPT !.stale = TRUE],
                   waiting |-> new]

Promoted == [active |-> command.waiting, waiting |-> NoCommand]

(* ams_can_tx_controller_epoch_reset, after a bus-off *)
Restarted ==
  IF command.waiting # NoCommand THEN Promoted
  ELSE [command EXCEPT !.active.loaded = "no", !.active.stale = FALSE]

(* Seeded fault: the command is loaded as it was built. *)
LoadedAsBuilt(frame) == IF frame.enable THEN "enable" ELSE "disable"

(* canbus_charger_fail_safe_at_load *)
LoadedAs(frame) ==
  IF /\ frame.enable
     /\ mode.state = "charge" /\ permit.shadow
     /\ ~charger.pending /\ ~charger.txFail
  THEN "enable" ELSE "disable"

Load ==
  /\ command.active # NoCommand /\ command.active.loaded = "no"
  /\ command' = [command EXCEPT !.active.loaded = LoadedAs(command.active)]
  /\ UNCHANGED <<mode, permit, inputs, charger, task, drop, seen>>

(* The HAL refuses; the task will notice at its next poll.                 *)
LoadFails ==
  /\ command.active # NoCommand /\ command.active.loaded = "no"
  /\ charger' = [charger EXCEPT !.loadError = TRUE]
  /\ UNCHANGED <<mode, permit, inputs, command, task, drop, seen>>

(* Seeded fault: a disable command of an earlier burst counts as well. *)
CountedOfAnyBurst(c) ==
  IF c.pending
  THEN [c EXCEPT !.left = IF @ > 0 THEN @ - 1 ELSE @, !.pending = c.left > 1]
  ELSE c

(* canbus_tx_note_charger_complete_from_isr *)
CountedStop(c) ==
  IF c.pending /\ c.request = command.active.request
  THEN [c EXCEPT !.left = IF @ > 0 THEN @ - 1 ELSE @, !.pending = c.left > 1]
  ELSE c

Completed(frame) ==
  LET c == [charger EXCEPT !.txFail = FALSE]
  IN  IF frame.kind = "stop" THEN CountedStop(c) ELSE c

(* Only what was built since the exit tells the charger of it.             *)
Told(what) ==
  [seen EXCEPT !.last = what,
               !.stops = IF /\ what = "disable" /\ @ < BurstFrames
                            /\ command.active.born = seen.exits
                         THEN @ + 1 ELSE @,
               !.late = IF what = "enable" /\ charger.pending /\ @ < 2
                        THEN @ + 1 ELSE @]

Complete ==
  /\ command.active.loaded # "no"
  /\ charger' = Completed(command.active)
  /\ seen' = Told(command.active.loaded)
  /\ command' = Promoted
  /\ UNCHANGED <<mode, permit, inputs, task, drop>>

(* An obsolete command that leaves its mailbox without having been sent.   *)
Counted(frame) == charger

Abort ==
  /\ command.active.loaded # "no" /\ command.active.stale
  /\ command' = Promoted
  /\ charger' = Counted(command.active)
  /\ UNCHANGED <<mode, permit, inputs, task, drop, seen>>

-----------------------------------------------------------------------------
(* The CAN task, one cycle.                                                *)

At(step) == task.can = step /\ drop["can"] = "no"

WithFailure(c) == [c EXCEPT !.txFail = TRUE, !.fault = TRUE]

(* canbus_process_rx_queue and canbus_poll_errors.  status is what the     *)
(* charger reported in this cycle, if it did; down tells of a bus-off, and *)
(* lost that it was in CHARGE when the interrupt recorded the bus-off.     *)
Poll(status, down, lost) ==
  LET heard == IF status = "none" THEN charger
               ELSE [charger EXCEPT !.comm = status = "failed"]
      polled == IF charger.loadError
                THEN [WithFailure(heard) EXCEPT !.loadError = FALSE]
                ELSE heard
  IN  /\ At("poll") /\ (lost => down)
      /\ charger' = IF lost THEN [polled EXCEPT !.fault = TRUE, !.comm = TRUE]
                            ELSE polled
      /\ seen' = [seen EXCEPT !.status =
                   @ \/ (status # "none" /\ mode.state = "charge")]
      /\ command' = IF down THEN Restarted ELSE command
      /\ task' = [task EXCEPT !.can = IF down THEN "poll" ELSE "stop"]
      /\ DroppingIf("can", charger.loadError)
      /\ UNCHANGED <<mode, permit, inputs>>

(* The shutdown burst: one disable command a cycle until the interrupt has *)
(* counted them all.                                                       *)
PublishStop(built) ==
  /\ At("stop") /\ charger.pending
  /\ task' = [task EXCEPT !.can = "decide", !.attempted = TRUE]
  /\ IF built THEN /\ Publishing(Built("stop", FALSE, charger.request))
                   /\ UNCHANGED charger
              ELSE /\ charger' = WithFailure(charger)
                   /\ UNCHANGED command
  /\ DroppingIf("can", ~built)
  /\ UNCHANGED <<mode, permit, inputs, seen>>

NoStop ==
  /\ At("stop") /\ ~charger.pending
  /\ task' = [task EXCEPT !.can = "decide", !.attempted = FALSE]
  /\ UNCHANGED <<mode, permit, inputs, charger, command, drop, seen>>

(* canbus_run_periodic_charger_command, up to its assignments              *)
Failed(c) == c.comm \/ c.txFail

Forbidden(c, hard) ==
  Failed(c) \/ hard \/ inputs = "bad" \/ c.pending

DecideCharging(due, late, hard) ==
  LET c == [charger EXCEPT !.comm = @ \/ late]
  IN  /\ At("decide") /\ mode.state = "charge"
      /\ IF due /\ ~task.attempted
           THEN /\ charger' = c
                /\ task' = [task EXCEPT !.can = "conclude",
                    !.verdict = Failed(c), !.forced = Forbidden(c, hard),
                    !.enable = ~Forbidden(c, hard) /\ permit.shadow]
           ELSE /\ task' = [task EXCEPT !.can = "poll",
                                         !.attempted = FALSE]
                /\ UNCHANGED charger
      /\ UNCHANGED <<mode, permit, inputs, command, drop, seen>>

ConcludeCharging ==
  /\ At("conclude")
  /\ charger' = [charger EXCEPT !.fault = task.verdict]
  /\ task' = [task EXCEPT !.can = "publish", !.verdict = FALSE,
                          !.forced = FALSE]
  /\ DroppingIf("can", task.forced)
  /\ UNCHANGED <<mode, permit, inputs, command, seen>>

PublishCommand(built) ==
  /\ At("publish")
  /\ task' = [task EXCEPT !.can = "poll", !.enable = FALSE]
  /\ IF built THEN /\ Publishing(Built("normal", task.enable, 0))
                   /\ UNCHANGED charger
              ELSE /\ charger' = WithFailure(charger)
                   /\ UNCHANGED command
  /\ DroppingIf("can", ~built)
  /\ UNCHANGED <<mode, permit, inputs, seen>>

(* Seeded fault: a shutdown under way is no fault. *)
RemainingFailure(c) == c.txFail

(* Outside CHARGE: charger_fault is what is left of the shutdown.          *)
Remaining(c) == c.pending \/ c.txFail

DecideIdle ==
  /\ At("decide") /\ mode.state # "charge"
  /\ charger' = [charger EXCEPT !.comm = FALSE]
  /\ task' = [task EXCEPT !.can = "release", !.attempted = FALSE,
                          !.verdict = Remaining(charger)]
  /\ UNCHANGED <<mode, permit, inputs, command, drop, seen>>

Release ==
  /\ At("release")
  /\ charger' = [charger EXCEPT !.fault = task.verdict]
  /\ task' = [task EXCEPT !.can = "poll", !.verdict = FALSE]
  /\ UNCHANGED <<mode, permit, inputs, command, drop, seen>>

CanCycle ==
  \/ \E status \in {"none", "fine", "failed"}, down, lost \in BOOLEAN :
       Poll(status, down, lost)
  \/ \E built \in BOOLEAN : PublishStop(built) \/ PublishCommand(built)
  \/ \E due, late, hard \in BOOLEAN : DecideCharging(due, late, hard)
  \/ NoStop \/ ConcludeCharging \/ DecideIdle \/ Release

Next ==
  \/ Supervise \/ Corrupt
  \/ ReadState \/ \E result \in {"good", "bad"} : PublishInputs(result)
  \/ \E requested \in Operating : SetState(requested)
  \/ FinishState
  \/ \E t \in Tasks : DropShadow(t) \/ DropPin(t)
  \/ CanCycle
  \/ Load \/ LoadFails \/ Complete \/ Abort

Spec == Init /\ [][Next]_vars

(* The CAN task runs every 100 ms and is not stopped for ever by the bus,  *)
(* nor does the bus refuse every command.                                  *)
LiveSpec ==
  /\ Spec
  /\ WF_vars(CanCycle \/ DropShadow("can") \/ DropPin("can"))
  /\ SF_vars(\E status \in {"none", "fine", "failed"} :
               Poll(status, FALSE, FALSE))
  /\ SF_vars(PublishStop(TRUE))
  /\ SF_vars(Load) /\ SF_vars(Complete)

-----------------------------------------------------------------------------
(* The permit is low while a state is being left: from the moment the new  *)
(* state is visible until the bleed outputs are cleared and every disable  *)
(* command of the burst has been sent (app.h 905-914, 976).                *)
PermitWaitsForExit ==
  permit.pin => ~mode.changing /\ ~charger.pending

(* The permit is never high on a current limit that belongs to another     *)
(* state (error_task.c 395-402).                                           *)
PermitMatchesPolicy ==
  permit.pin /\ mode.state # "corrupt" => mode.policy = PolicyOf(mode.state)

(* A published fault has the permit dropped at once: no supervisor step    *)
(* between the publication and the drop can raise it again.                *)
FaultOpensTheLoop ==
  permit.pin /\ inputs = "bad" => drop["measuring"] # "no"

(* The shadow, which the charger command is checked against, may claim a   *)
(* low permit too early, while a task is dropping it, but never too late.  *)
ShadowIsHonest ==
  permit.pin /\ ~permit.shadow => \E t \in Tasks : drop[t] = "pin"

(* In CHARGE the permit waits for a status that came after the command to  *)
(* charge (cli_task.c 7665-7674).                                          *)
ChargeWaitsForStatus ==
  permit.pin /\ mode.state = "charge" => seen.status

(* The exit is over only when commands that were built since have told the *)
(* charger to stop so many times, and its last word is not to charge: no   *)
(* command that was aborted counts, nor one of an earlier burst, nor a     *)
(* periodic one that was waiting when CHARGE was left (canbus.c 1421-1450).*)
ExitIsComplete ==
  ~charger.pending => /\ seen.stops = BurstFrames
                      /\ mode.state \in {"discharge", "error"}
                           => seen.last # "enable"

(* An exit that comes too late for a command to charge that a mailbox      *)
(* already has comes in time for every later one (canbus.c 853-863).       *)
OneLateEnable == seen.late <= 1

(* Every burst ends, whatever the service commands and the bus do, unless  *)
(* they go on for ever.                                                    *)
ExitsEnd == charger.pending ~> ~charger.pending
=============================================================================
