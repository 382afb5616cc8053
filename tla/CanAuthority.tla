--------------------------- MODULE CanAuthority ---------------------------
(***************************************************************************)
(* Who may call the battery's CAN link trustworthy, and what happens to    *)
(* the BMS_OK output when the controller goes bus-off.                     *)
(*                                                                         *)
(* Actors, highest priority first: the CAN interrupts (SCE bus-off, TX     *)
(* mailbox), the ERROR task (17, BMS_OK supervisor), the CAN task (10),    *)
(* the service CLI (4).  One core, fixed priorities: an action is what an  *)
(* actor does between two points at which a higher priority may get in;    *)
(* what runs inside taskENTER_CRITICAL is one action.                      *)
(*                                                                         *)
(* Time.  One Tick is one CAN task period (100 ms).  A stored tick is kept *)
(* as the age the code computes from it, saturated just past the value it  *)
(* is compared with, so no clock is needed.                                *)
(*                                                                         *)
(* Data.  A protected generation (0x680-0x687) is one frame here.  It is   *)
(* named by the count of bus-off events recorded when it was published,    *)
(* plus one (0 is "none", as in the code).  tx.fresh is the last completed *)
(* generation while it differs from the authority baseline; moving the     *)
(* baseline makes it NoGen.  A local variable, or an age nothing reads any *)
(* more, is reset when it dies.                                            *)
(***************************************************************************)
EXTENDS Naturals

CONSTANTS
  Deadline,        \* AMS_CAN_DISCHARGE_BUSOFF_HARD_FAULT_MS in ticks
  Window,          \* AMS_CAN_BUSOFF_REPEAT_WINDOW_MS in ticks
  RepeatLimit,     \* AMS_CAN_BUSOFF_REPEAT_LIMIT
  SoftHold,        \* AMS_CAN_ERROR_SOFT_HOLD_MS in ticks
  MaxEvents,       \* bound: bus-off events in a behaviour
  ServiceCommands, \* {} when AMS_ENABLE_SERVICE_CLI is 0
  Anomalies        \* bound: the errors explored besides bus-off

ASSUME ConstantsAssumption ==
  /\ Deadline \in Nat \ {0} /\ Window \in Nat /\ SoftHold \in Nat
  /\ RepeatLimit \in Nat \ {0} /\ MaxEvents \in Nat
  /\ ServiceCommands \subseteq {"recover", "charge", "discharge"}
  /\ Anomalies \subseteq {"soft", "load"}

VARIABLES
  app,    \* the state, BMS_OK and CAN safety fields of app_data_t
  dev,    \* the gates and bus-off bookkeeping of canbus_device_t
  tx,     \* the protected stream of the scheduler and its mailbox
  hw,     \* the bxCAN: ESR.BOFF, the SCE interrupt line, HAL ErrorCode
  can,    \* program counter and locals of the CAN task
  cli,    \* program counter and locals of the service CLI
  due,    \* which periodic tasks still have to run in this period
  hist    \* history: timely, a fresh generation completed in time

vars == <<app, dev, tx, hw, can, cli, due, hist>>

NoGen == 0
Generations == 0..MaxEvents + 1
Operating == {"CHARGE", "DISCHARGE", "BALANCE"}
States == {"START"} \cup Operating
NoState == "NULL"
Unlatched == "NONE"
Reasons == {"TX_INHIBIT", "CHARGE_BUSOFF", "BALANCE_BUSOFF",
            "DISCHARGE_TIMEOUT", "REPEATED_BUSOFF"}

(* No event, and none young enough to count, are the same to the window. *)
NoEvents == [i \in 1..RepeatLimit |-> Window + 1]

Errors == {"BOF", "OTHER"}

UpTo(n, bound) == IF n < bound THEN n ELSE bound

CanIdle == [pc |-> "idle", pass |-> 1, event |-> FALSE, err |-> {},
            loadSeen |-> FALSE, recSeq |-> 0, fold |-> FALSE]
CliIdle == [pc |-> "idle", seq |-> 0]

(* ams_app_create: everything clear, authority and BMS_OK withheld. *)
Init ==
  /\ app = [state |-> "START", inTransition |-> FALSE, bms |-> FALSE,
            busOffFault |-> FALSE, recoverPending |-> FALSE,
            canbusFault |-> FALSE, errAge |-> SoftHold + 1,
            authority |-> FALSE, authRefresh |-> FALSE,
            recoveryActive |-> FALSE, recoveryState |-> NoState,
            epochAge |-> 0, latch |-> Unlatched]
  /\ dev = [seq |-> 0, consumed |-> 0, recent |-> NoEvents, started |-> TRUE,
            suspended |-> FALSE, recoveryPending |-> FALSE,
            refreshPending |-> FALSE, inhibit |-> FALSE, loadError |-> FALSE,
            isrError |-> {}]
  /\ tx = [active |-> NoGen, pending |-> NoGen, frame |-> "free",
           fresh |-> NoGen, elapsed |-> Deadline]
  /\ hw = [busOff |-> FALSE, sce |-> FALSE, error |-> {}]
  /\ can = CanIdle /\ cli = CliIdle
  /\ due = [error |-> TRUE, can |-> TRUE]
  /\ hist = [timely |-> FALSE]

-----------------------------------------------------------------------------
(* The transmit path.                                                      *)

(* What the pump asks before every load: controller started, no software   *)
(* gate shut, ESR.BOFF clear at that instant.                              *)
MayLoad(d) == d.started /\ ~d.suspended /\ ~d.inhibit /\ ~hw.busOff

(* canbus_tx_kick: a waiting frame stays where it is (gates shut, or every *)
(* mailbox taken by another stream), is loaded, or meets a HAL error, and  *)
(* then the gate shuts until the task has looked at it.                    *)
Kick(t, d) ==
  \/ tx' = t /\ dev' = d
  \/ /\ t.active # NoGen /\ t.frame = "free" /\ MayLoad(d)
     /\ \/ tx' = [t EXCEPT !.frame = "loaded"] /\ dev' = d
        \/ /\ "load" \in Anomalies /\ tx' = t
           /\ dev' = [d EXCEPT !.suspended = TRUE, !.loadError = TRUE]

(* Seeded fault: the abort request is never issued. *)
NotAborted(t) == t

(* HAL_CAN_AbortTxRequest on every mailbox. *)
Aborted(t) == [t EXCEPT !.frame = IF @ = "loaded" THEN "aborting" ELSE @]

(* A mailbox interrupt of another stream refills from this one. *)
Refill ==
  /\ Kick(tx, dev) /\ <<tx', dev'>> # <<tx, dev>>
  /\ UNCHANGED <<app, hw, can, cli, due, hist>>

(* The controller sends a loaded frame, an abort request or not.           *)
WireSend ==
  /\ tx.frame \in {"loaded", "aborting"} /\ dev.started /\ ~hw.busOff
  /\ tx' = [tx EXCEPT !.frame = "sent"]
  /\ UNCHANGED <<app, dev, hw, can, cli, due, hist>>

(* Everything error_task asks of the transport before it believes a        *)
(* completion.                                                             *)
TransportSettled ==
  /\ dev.started /\ ~app.canbusFault /\ ~app.busOffFault
  /\ ~app.recoverPending /\ dev.seq = dev.consumed
  /\ ~dev.recoveryPending /\ ~dev.refreshPending /\ ~dev.suspended
  /\ ~dev.inhibit /\ app.latch = Unlatched

DischargeEpoch == app.recoveryActive /\ app.recoveryState = "DISCHARGE"

(* The mailbox interrupt retires the frame, the next generation takes its  *)
(* place and the pump runs.                                                *)
Retire(t) ==
  Kick([t EXCEPT !.active = t.pending, !.pending = NoGen, !.frame = "free"],
       dev)

(* Completion on the wire: the scheduler records which generation and when.*)
TxCompleteIrq ==
  /\ tx.frame = "sent"
  /\ Retire([tx EXCEPT !.fresh = tx.active,
                       !.elapsed = IF app.recoveryActive THEN app.epochAge
                                                         ELSE Deadline])
  /\ hist' = [hist EXCEPT !.timely = @ \/ /\ DischargeEpoch
                                          /\ app.epochAge < Deadline
                                          /\ tx.active = dev.seq + 1]
  /\ UNCHANGED <<app, hw, can, cli, due>>

(* The abort won: the frame is DISCARDED, its generation never completes.  *)
TxAbortIrq ==
  /\ tx.frame = "aborting"
  /\ Retire(tx)
  /\ UNCHANGED <<app, hw, can, cli, due, hist>>

-----------------------------------------------------------------------------
(* The controller and its error interrupt.                                 *)

BusOff ==
  /\ dev.started /\ ~hw.busOff /\ dev.seq < MaxEvents
  /\ hw' = [hw EXCEPT !.busOff = TRUE, !.sce = TRUE]
  /\ UNCHANGED <<app, dev, tx, can, cli, due, hist>>

(* ABOM: 128 x 11 recessive bits, milliseconds after the interrupt.        *)
AbomRecover ==
  /\ dev.started /\ hw.busOff /\ ~hw.sce
  /\ hw' = [hw EXCEPT !.busOff = FALSE]
  /\ UNCHANGED <<app, dev, tx, can, cli, due, hist>>

(* An acknowledge, bit or overrun error: sticky in the HAL until reset, and *)
(* handed to the task by HAL_CAN_ErrorCallback, which also shuts the gate  *)
(* when the HAL still remembers a bus-off.                                 *)
SoftError ==
  /\ "soft" \in Anomalies /\ dev.started
  /\ hw' = [hw EXCEPT !.error = @ \cup {"OTHER"}]
  /\ dev' = [dev EXCEPT !.isrError = @ \cup hw'.error,
                        !.suspended = @ \/ "BOF" \in hw.error]
  /\ tx' = IF "BOF" \in hw.error THEN Aborted(tx) ELSE tx
  /\ UNCHANGED <<app, can, cli, due, hist>>

(* The ages of the last RepeatLimit events, oldest first.  The limit is    *)
(* reached when even the oldest of them lies in the window: the array of   *)
(* the code, rid of ticks that left the window, would be full again.       *)
PushEvent(r) ==
  [i \in 1..RepeatLimit |-> IF i = RepeatLimit THEN 0 ELSE r[i + 1]]

RepeatedEvent == PushEvent(dev.recent)[1] <= Window

(* The latch a bus-off sets before any task has run. *)
IsrLatch ==
  IF app.latch # Unlatched THEN app.latch
  ELSE CASE app.state = "CHARGE"  -> "CHARGE_BUSOFF"
         [] app.state = "BALANCE" -> "BALANCE_BUSOFF"
         [] OTHER -> IF RepeatedEvent THEN "REPEATED_BUSOFF" ELSE Unlatched

(* BMS_OK is driven low by the interrupt when it latches, and again by     *)
(* every further event of a repeated series.                               *)
IsrForcesLow == IsrLatch # app.latch \/ RepeatedEvent

(* The first event owns the epoch and its start tick; later ones do not    *)
(* move it.                                                                *)
OpenEpoch(a) ==
  IF a.recoveryActive THEN a
  ELSE [a EXCEPT !.recoveryActive = TRUE, !.recoveryState = a.state,
                 !.epochAge = 0]

(* Elapsed times are measured from the start tick: a completion of the     *)
(* very tick of the event is 0 from it, an earlier one wraps far beyond    *)
(* the deadline.                                                           *)
ElapsedAfterEvent ==
  IF app.recoveryActive THEN {tx.elapsed}
  ELSE IF tx.fresh = NoGen THEN {Deadline} ELSE {0, Deadline}

(* canbus_sce_irq_note and canbus_record_busoff_event. *)
SceIrq ==
  /\ hw.sce
  /\ hw' = [hw EXCEPT !.sce = FALSE, !.error = @ \cup {"BOF"}]
  /\ dev' = [dev EXCEPT !.seq = @ + 1, !.recent = PushEvent(@),
                        !.inhibit = @ \/ RepeatedEvent, !.suspended = TRUE,
                        !.isrError = @ \cup hw'.error]
  /\ app' = OpenEpoch([app EXCEPT !.authority = FALSE, !.busOffFault = TRUE,
                                  !.canbusFault = TRUE, !.latch = IsrLatch,
                                  !.bms = @ /\ ~IsrForcesLow])
  /\ \E e \in ElapsedAfterEvent : tx' = Aborted([tx EXCEPT !.elapsed = e])
  /\ hist' = [hist EXCEPT !.timely = FALSE]
  /\ UNCHANGED <<can, cli, due>>

-----------------------------------------------------------------------------
(* The ERROR task: one critical section from fault aggregation to the pin. *)

(* Seeded fault: any completion of the epoch counts, however late. *)
RecoveredEventually == TransportSettled /\ tx.fresh # NoGen

(* The discharge deadline is decided from the wire-completion time of the  *)
(* last required generation.                                               *)
RecoveredInTime ==
  TransportSettled /\ tx.fresh # NoGen /\ tx.elapsed < Deadline

DeadlinePassed == app.epochAge >= Deadline

(* error_task_update_can_policy: the reason it latches for, if any.        *)
PolicyReason ==
  IF dev.inhibit THEN "TX_INHIBIT"
  ELSE IF ~app.recoveryActive THEN Unlatched
  ELSE CASE app.recoveryState = "CHARGE"  -> "CHARGE_BUSOFF"
         [] app.recoveryState = "BALANCE" -> "BALANCE_BUSOFF"
         [] app.recoveryState = "DISCHARGE" ->
              IF DeadlinePassed /\ ~RecoveredInTime
              THEN "DISCHARGE_TIMEOUT" ELSE Unlatched
         [] OTHER -> Unlatched

ApplyPolicy(a) ==
  IF PolicyReason = Unlatched THEN a
  ELSE [a EXCEPT !.authority = FALSE,
                 !.latch = IF @ = Unlatched THEN PolicyReason ELSE @]

(* START may be left only with the link trusted and nothing unresolved.    *)
CanStartupReady(a) ==
  /\ a.authority /\ ~a.recoveryActive /\ ~a.authRefresh
  /\ ~a.busOffFault /\ ~a.recoverPending
  /\ ~dev.inhibit /\ a.latch = Unlatched

(* Seeded fault: readiness forgets the policy latch. *)
ReadyDespiteLatch(a) ==
  a.state \in Operating /\ ~a.inTransition /\ ~a.authRefresh

(* error_task_bms_ready, given that the measurement inputs are in order.   *)
BmsReady(a) ==
  /\ a.state \in Operating /\ ~a.inTransition /\ ~a.authRefresh
  /\ a.latch = Unlatched

(* inputsOk stands for error_task_operating_inputs_ready and the current   *)
(* policy match, which depend on the measurement tasks.  An iteration that *)
(* leaves START never raises BMS_OK.                                       *)
ErrorTask(inputsOk) ==
  LET a == ApplyPolicy(app)
      startup == a.state = "START" /\ inputsOk /\ CanStartupReady(a)
  IN  /\ app' = IF startup
                THEN [a EXCEPT !.state = "DISCHARGE", !.inTransition = FALSE,
                               !.bms = FALSE]
                ELSE [a EXCEPT !.bms = inputsOk /\ BmsReady(a)]
      /\ due' = [due EXCEPT !.error = FALSE]
      /\ UNCHANGED <<dev, tx, hw, can, cli, hist>>

(* Any other task may drop BMS_OK at once on its own fault; none raises it.*)
ForceLow ==
  /\ app.bms /\ app' = [app EXCEPT !.bms = FALSE]
  /\ UNCHANGED <<dev, tx, hw, can, cli, due, hist>>

-----------------------------------------------------------------------------
(* The CAN task: poll, decide, publish, resume, poll, record, authority.   *)

At(pc) == can.pc = pc

(* A poll returns to the middle of the cycle or to its end. *)
AfterPoll ==
  can' = [can EXCEPT !.pc = IF can.pass = 1 THEN "decide" ELSE "fold",
                     !.event = FALSE, !.err = {}, !.loadSeen = FALSE,
                     !.recSeq = 0]

(* First critical section of canbus_poll_errors: take the event sequence   *)
(* and the error code, acknowledge the load-error counters.                *)
PollSnapshot(pass) ==
  /\ can' = [can EXCEPT !.pc = "classify", !.pass = pass,
                        !.event = dev.seq # dev.consumed,
                        !.err = hw.error \cup dev.isrError,
                        !.loadSeen = dev.loadError]
  /\ dev' = [dev EXCEPT !.consumed = dev.seq, !.loadError = FALSE,
                        !.isrError = {}]
  /\ UNCHANGED <<app, tx, hw, cli, hist>>

(* The cycle begins, at most once per period. *)
CanWake ==
  /\ At("idle") /\ due.can /\ due' = [due EXCEPT !.can = FALSE]
  /\ PollSnapshot(1)

SecondPoll == At("poll") /\ PollSnapshot(2) /\ UNCHANGED due

(* canbus_tx_note_busoff: a recovery is owed, mailboxes are told to abort. *)
NoteBusOff ==
  /\ dev' = [dev EXCEPT !.suspended = TRUE, !.recoveryPending = TRUE]
  /\ tx' = Aborted(tx)

(* Seeded fault: the authority baseline stays where it was. *)
NotRebased(t) == t

(* Every completion so far moves behind the authority baseline. *)
Rebased(t) == [t EXCEPT !.fresh = NoGen, !.elapsed = Deadline]

(* A bus-off the interrupt recorded is taken over by the task. *)
PollEvent ==
  /\ At("classify") /\ can.event /\ AfterPoll
  /\ app' = [app EXCEPT !.busOffFault = TRUE, !.recoverPending = TRUE,
                        !.canbusFault = TRUE, !.errAge = 0,
                        !.authority = FALSE, !.authRefresh = FALSE]
  /\ dev' = [dev EXCEPT !.suspended = TRUE, !.recoveryPending = TRUE]
  /\ tx' = Aborted(Rebased(tx))
  /\ UNCHANGED <<hw, cli, due, hist>>

(* A HAL load error of a protected frame is a soft fault with a hold time. *)
NoteLoad(a) ==
  IF can.loadSeen THEN [a EXCEPT !.canbusFault = TRUE, !.errAge = 0] ELSE a

(* Nothing new, but a recovery is owed: remember which event it answers.   *)
RecoveryOwed ==
  \/ app.recoverPending
  \/ dev.recoveryPending /\ ~hw.busOff /\ "BOF" \notin can.err

PollRecover ==
  /\ At("classify") /\ ~can.event /\ RecoveryOwed
  /\ can' = [can EXCEPT !.pc = "settle", !.recSeq = dev.seq,
                        !.err = {}, !.loadSeen = FALSE]
  /\ app' = [NoteLoad(app) EXCEPT !.recoverPending = TRUE]
  /\ UNCHANGED <<dev, tx, hw, cli, due, hist>>

(* The repeat limit stands: latch again, every poll. *)
PollInhibited ==
  /\ At("classify") /\ ~can.event /\ ~RecoveryOwed /\ dev.inhibit
  /\ AfterPoll
  /\ app' = [NoteLoad(app) EXCEPT
               !.busOffFault = TRUE, !.canbusFault = TRUE,
               !.authority = FALSE, !.bms = FALSE,
               !.latch = IF @ = Unlatched THEN "TX_INHIBIT" ELSE @]
  /\ UNCHANGED <<dev, tx, hw, cli, due, hist>>

(* Seeded fault: the gate waits for the soft fault, its cause is forgotten. *)
ReopenWithoutFault(err) == can.loadSeen /\ ~err /\ ~app.canbusFault

(* Nothing owed: reopen the gate a load error shut, refresh the soft fault *)
(* or let it age out, clear the HAL error.                                 *)
ReopenGate(err) ==
  can.loadSeen /\ ~err /\ ~dev.refreshPending /\ ~dev.recoveryPending

PollHealthy ==
  /\ At("classify") /\ ~can.event /\ ~RecoveryOwed /\ ~dev.inhibit
  /\ AfterPoll
  /\ LET err == can.err # {} \/ hw.busOff
         a   == NoteLoad(app)
     IN  /\ dev' = [dev EXCEPT !.suspended = @ /\ ~ReopenGate(err)]
         /\ app' = IF err
                   THEN [a EXCEPT !.canbusFault = TRUE, !.errAge = 0]
                   ELSE [a EXCEPT !.canbusFault = @ /\ a.errAge <= SoftHold]
         /\ hw' = IF err THEN [hw EXCEPT !.error = {}] ELSE hw
  /\ UNCHANGED <<tx, cli, due, hist>>

(* HAL listening, ESR.BOFF clear, canbus_tx_mailboxes_settled. *)
Settled == dev.started /\ ~hw.busOff /\ tx.frame = "free"

PollSettle ==
  /\ At("settle")
  /\ IF Settled
     THEN /\ hw' = [hw EXCEPT !.error = {}]
          /\ can' = [can EXCEPT !.pc = "epoch"]
          /\ UNCHANGED <<app, tx>>
     ELSE /\ AfterPoll
          /\ app' = [app EXCEPT !.canbusFault = TRUE]
          /\ tx' = Aborted(tx)
          /\ UNCHANGED hw
  /\ UNCHANGED <<dev, cli, due, hist>>

(* canbus_tx_note_recovered_for_sequence, atomic: only the event the       *)
(* recovery was started for may be settled; then every queued generation   *)
(* of the old controller epoch is forgotten.                               *)
EpochMayReset(expected) == Settled /\ dev.seq = expected

EpochReset ==
  /\ tx' = [tx EXCEPT !.active = NoGen, !.pending = NoGen]
  /\ dev' = [dev EXCEPT !.recoveryPending = FALSE, !.refreshPending = TRUE,
                        !.suspended = TRUE]

PollEpoch ==
  /\ At("epoch")
  /\ IF EpochMayReset(can.recSeq)
     THEN EpochReset /\ can' = [can EXCEPT !.pc = "commit"] /\ UNCHANGED app
     ELSE /\ AfterPoll
          /\ app' = [app EXCEPT !.canbusFault = TRUE, !.errAge = 0]
          /\ tx' = Aborted(tx)
          /\ UNCHANGED dev
  /\ UNCHANGED <<hw, cli, due, hist>>

(* The task-visible commit: again only for the event the recovery answers. *)
CommitStands(expected) == dev.seq = expected /\ ~hw.busOff

PollCommit ==
  /\ At("commit") /\ AfterPoll
  /\ IF CommitStands(can.recSeq)
     THEN /\ app' = [app EXCEPT !.recoverPending = FALSE,
                                !.busOffFault = dev.inhibit,
                                !.canbusFault = dev.inhibit]
          /\ tx' = Rebased(tx) /\ UNCHANGED dev
     ELSE /\ app' = [app EXCEPT !.recoverPending = TRUE, !.busOffFault = TRUE,
                                !.canbusFault = TRUE, !.errAge = 0,
                                !.authority = FALSE]
          /\ NoteBusOff
  /\ UNCHANGED <<hw, cli, due, hist>>

(* A cycle with an unresolved fault publishes nothing. *)
CycleSkipped == app.busOffFault \/ app.recoverPending \/ dev.inhibit

Skip ==
  /\ At("decide") /\ CycleSkipped
  /\ app' = [app EXCEPT !.authority = FALSE, !.canbusFault = TRUE]
  /\ can' = CanIdle
  /\ UNCHANGED <<dev, tx, hw, cli, due, hist>>

(* canbus_publish_protected_generation: the new generation takes the place *)
(* of an unloaded one at the 100 ms boundary, and waits otherwise; a       *)
(* predecessor in its mailbox is told to abort at the boundary.            *)
Published(t, boundary) ==
  LET discards == boundary /\ t.frame = "free"
      waiting  == [t EXCEPT !.pending = dev.seq + 1]
  IN  IF t.active = NoGen \/ discards
      THEN [t EXCEPT !.active = dev.seq + 1, !.pending = NoGen]
      ELSE IF boundary THEN Aborted(waiting) ELSE waiting

(* Published a jitter early, a generation does not age its predecessor.    *)
Publish ==
  /\ At("decide") /\ ~CycleSkipped /\ can' = [can EXCEPT !.pc = "resume"]
  /\ \E boundary \in BOOLEAN : Kick(Published(tx, boundary), dev)
  /\ UNCHANGED <<app, hw, cli, due, hist>>

(* Seeded fault: the refresh waits for the gate it is meant to reopen. *)
MayResumeIfOpen == dev.refreshPending /\ ~dev.suspended /\ ~hw.busOff

(* canbus_tx_resume_after_refresh reopens the gate a recovery left shut.   *)
MayResume ==
  dev.refreshPending /\ ~dev.recoveryPending /\ ~dev.inhibit /\ ~hw.busOff

Resume ==
  /\ At("resume") /\ can' = [can EXCEPT !.pc = "poll"]
  /\ IF dev.refreshPending
     THEN Kick(tx, IF MayResume
                   THEN [dev EXCEPT !.refreshPending = FALSE,
                                    !.suspended = FALSE]
                   ELSE dev)
     ELSE UNCHANGED <<tx, dev>>
  /\ UNCHANGED <<app, hw, cli, due, hist>>

(* canbus_fault = canbus_fault || busoff_fault || inhibit is a read and a  *)
(* write with interrupts open in between; the soft fault may age out here  *)
(* too.                                                                    *)
FoldRead ==
  /\ At("fold")
  /\ LET held == app.canbusFault /\ (\/ app.busOffFault \/ app.recoverPending
                                     \/ app.errAge <= SoftHold)
     IN  can' = [can EXCEPT !.pc = "store",
                            !.fold = held \/ app.busOffFault \/ dev.inhibit]
  /\ UNCHANGED <<app, dev, tx, hw, cli, due, hist>>

FoldWrite ==
  /\ At("store") /\ can' = [can EXCEPT !.pc = "grant", !.fold = FALSE]
  /\ app' = [app EXCEPT !.canbusFault = can.fold]
  /\ UNCHANGED <<dev, tx, hw, cli, due, hist>>

(* Seeded fault: electrical recovery counts as a trusted link. *)
ElectricallyHealthy ==
  dev.started /\ ~hw.busOff /\ ~dev.inhibit /\ app.latch = Unlatched

(* canbus_update_authority_from_wire_completion. *)
TransportHealthy ==
  /\ dev.started /\ ~hw.busOff /\ ~app.canbusFault /\ ~app.busOffFault
  /\ ~app.recoverPending /\ ~dev.inhibit /\ ~dev.recoveryPending
  /\ ~dev.refreshPending /\ ~dev.suspended /\ app.latch = Unlatched

(* Seeded fault: the deadline is inclusive. *)
TooLateExclusive == DischargeEpoch /\ tx.elapsed > Deadline

TooLate == DischargeEpoch /\ tx.elapsed >= Deadline

UpdateAuthority ==
  /\ At("grant") /\ can' = CanIdle
  /\ IF ~TransportHealthy \/ (tx.fresh # NoGen /\ TooLate)
     THEN app' = [app EXCEPT !.authority = FALSE] /\ UNCHANGED <<tx, hist>>
     ELSE IF tx.fresh = NoGen THEN UNCHANGED <<app, tx, hist>>
     ELSE /\ app' = [app EXCEPT !.authority = TRUE, !.authRefresh = FALSE,
                                !.recoveryActive = FALSE,
                                !.recoveryState = NoState, !.epochAge = 0]
          /\ tx' = Rebased(tx) /\ hist' = [timely |-> FALSE]
  /\ UNCHANGED <<dev, hw, cli, due>>

CanTask ==
  \/ CanWake \/ SecondPoll
  \/ PollEvent \/ PollRecover \/ PollInhibited \/ PollHealthy
  \/ PollSettle \/ PollEpoch \/ PollCommit
  \/ Skip \/ Publish \/ Resume \/ FoldRead \/ FoldWrite \/ UpdateAuthority

-----------------------------------------------------------------------------
(* The service CLI: priority 4, so it runs only while the CAN task waits.  *)

ServiceAt(command, pc) ==
  At("idle") /\ command \in ServiceCommands /\ cli.pc = pc

(* canbus_recover, first part: remember which events service answers for.  *)
RecoverBegin ==
  /\ ServiceAt("recover", "idle")
  /\ cli' = [pc |-> "restart", seq |-> dev.seq]
  /\ NoteBusOff
  /\ UNCHANGED <<app, hw, can, due, hist>>

(* Stop, reset, start, activate notifications: any of them may fail.       *)
RecoverRestart(ok) ==
  /\ ServiceAt("recover", "restart")
  /\ hw' = [hw EXCEPT !.error = {}]
  /\ dev' = [dev EXCEPT !.started = ok]
  /\ cli' = IF ok THEN [cli EXCEPT !.pc = "epoch"] ELSE CliIdle
  /\ UNCHANGED <<app, tx, can, due, hist>>

RecoverEpoch ==
  /\ ServiceAt("recover", "epoch")
  /\ IF EpochMayReset(cli.seq)
     THEN EpochReset /\ cli' = [cli EXCEPT !.pc = "commit"]
     ELSE tx' = Aborted(tx) /\ cli' = CliIdle /\ UNCHANGED dev
  /\ UNCHANGED <<app, hw, can, due, hist>>

(* The only place a latch is taken back: transport and application state   *)
(* together, unless a newer bus-off was recorded meanwhile.                *)
RecoverCommit ==
  /\ ServiceAt("recover", "commit") /\ cli' = CliIdle
  /\ IF CommitStands(cli.seq)
     THEN /\ dev' = [dev EXCEPT !.inhibit = FALSE, !.recent = NoEvents]
          /\ app' = [app EXCEPT
                       !.busOffFault = FALSE, !.recoverPending = FALSE,
                       !.canbusFault = FALSE, !.authority = FALSE,
                       !.authRefresh = TRUE, !.recoveryActive = FALSE,
                       !.recoveryState = NoState, !.epochAge = 0,
                       !.latch = Unlatched]
          /\ tx' = Rebased(tx) /\ hist' = [timely |-> FALSE]
     ELSE NoteBusOff /\ UNCHANGED <<app, hist>>
  /\ UNCHANGED <<hw, can, due>>

(* set_state: BMS_OK drops and the in-progress gate shuts in one critical  *)
(* section; the gate opens again after the balance clear.                  *)
StateOf == [charge |-> "CHARGE", discharge |-> "DISCHARGE"]

StateBegin(command) ==
  /\ ServiceAt(command, "idle") /\ cli' = [cli EXCEPT !.pc = "clear"]
  /\ app' = [app EXCEPT !.state = StateOf[command], !.inTransition = TRUE,
                        !.bms = FALSE]
  /\ UNCHANGED <<dev, tx, hw, can, due, hist>>

StateFinish ==
  /\ At("idle") /\ cli.pc = "clear" /\ cli' = CliIdle
  /\ app' = [app EXCEPT !.inTransition = FALSE]
  /\ UNCHANGED <<dev, tx, hw, can, due, hist>>

Service ==
  \/ RecoverBegin \/ RecoverEpoch \/ RecoverCommit
  \/ \E ok \in BOOLEAN : RecoverRestart(ok)
  \/ \E command \in {"charge", "discharge"} : StateBegin(command)
  \/ StateFinish

-----------------------------------------------------------------------------
(* Interrupts are served and the 20 Hz ERROR task has run before a period  *)
(* passes; the CAN task may be late by any number of periods.              *)
Tick ==
  /\ ~hw.sce /\ ~due.error /\ due' = [error |-> TRUE, can |-> TRUE]
  /\ app' = [app EXCEPT
               !.epochAge = IF app.recoveryActive THEN UpTo(@ + 1, Deadline)
                                                  ELSE @,
               !.errAge = UpTo(@ + 1, SoftHold + 1)]
  /\ dev' = [dev EXCEPT
               !.recent = [i \in 1..RepeatLimit |-> UpTo(@[i] + 1, Window + 1)]]
  /\ UNCHANGED <<tx, hw, can, cli, hist>>

Supervise == \E inputsOk \in BOOLEAN : ErrorTask(inputsOk)

Next ==
  \/ BusOff \/ SceIrq \/ AbomRecover \/ SoftError
  \/ Refill \/ WireSend \/ TxCompleteIrq \/ TxAbortIrq
  \/ Supervise \/ ForceLow
  \/ CanTask
  \/ Service
  \/ Tick

Spec == Init /\ [][Next]_vars

(* The interrupts and tasks keep running; the bus recovers and arbitration *)
(* is won in the end.  Nothing is assumed of errors or of service.         *)
Fairness ==
  /\ WF_vars(SceIrq) /\ WF_vars(AbomRecover)
  /\ WF_vars(TxCompleteIrq) /\ WF_vars(TxAbortIrq)
  /\ SF_vars(WireSend) /\ SF_vars(Refill)
  /\ WF_vars(CanTask) /\ WF_vars(Supervise) /\ WF_vars(Tick)

LiveSpec == Spec /\ Fairness

-----------------------------------------------------------------------------
AppType ==
  [state : States, inTransition : BOOLEAN, bms : BOOLEAN,
   busOffFault : BOOLEAN, recoverPending : BOOLEAN, canbusFault : BOOLEAN,
   errAge : 0..SoftHold + 1, authority : BOOLEAN, authRefresh : BOOLEAN,
   recoveryActive : BOOLEAN, recoveryState : States \cup {NoState},
   epochAge : 0..Deadline, latch : Reasons \cup {Unlatched}]

DevType ==
  [seq : 0..MaxEvents, consumed : 0..MaxEvents,
   recent : [1..RepeatLimit -> 0..Window + 1], started : BOOLEAN,
   suspended : BOOLEAN, recoveryPending : BOOLEAN,
   refreshPending : BOOLEAN, inhibit : BOOLEAN, loadError : BOOLEAN,
   isrError : SUBSET Errors]

TxType ==
  [active : Generations, pending : Generations,
   frame : {"free", "loaded", "aborting", "sent"}, fresh : Generations,
   elapsed : 0..Deadline]

CanType ==
  [pc : {"idle", "classify", "settle", "epoch", "commit", "decide", "resume",
         "poll", "fold", "store", "grant"},
   pass : {1, 2}, event : BOOLEAN, err : SUBSET Errors, loadSeen : BOOLEAN,
   recSeq : 0..MaxEvents, fold : BOOLEAN]

TypeOK ==
  /\ app \in AppType /\ dev \in DevType /\ tx \in TxType /\ can \in CanType
  /\ hw \in [busOff : BOOLEAN, sce : BOOLEAN, error : SUBSET Errors]
  /\ cli \in [pc : {"idle", "restart", "epoch", "commit", "clear"},
              seq : 0..MaxEvents]
  /\ due \in [error : BOOLEAN, can : BOOLEAN]
  /\ hist \in [timely : BOOLEAN]

-----------------------------------------------------------------------------
(* A latched CAN policy fault and BMS_OK are never high together, in       *)
(* whatever order the interrupt, the supervisor, the CAN task and the      *)
(* service restart touch them.                                             *)
LatchedKeepsBmsLow == app.latch # Unlatched => ~app.bms

(* Once the repeat limit shut the transport, the application has latched   *)
(* too and no frame waits in a mailbox without an abort request.           *)
InhibitIsComplete ==
  dev.inhibit => app.latch # Unlatched /\ tx.frame # "loaded"

(* CAN authority is never held over an unresolved bus-off: not while an    *)
(* event waits for the task, and not while the fault or its latch stands.  *)
AuthorityIsSound ==
  app.authority => /\ ~app.busOffFault /\ dev.seq = dev.consumed
                   /\ ~dev.inhibit /\ app.latch = Unlatched

(* Authority is only granted on the completion of a generation published   *)
(* after the last bus-off, never on one that waited through it.            *)
AuthorityIsEarned ==
  [][~app.authority /\ app'.authority => tx.fresh = dev.seq + 1]_vars

(* Between electrical recovery and the first fresh publication no frame of *)
(* the old controller epoch is in a mailbox.                               *)
QuietUntilRefreshed == dev.refreshPending => tx.frame = "free"

(* BMS_OK rides through a bus-off only up to the deadline: past it, unless *)
(* a fresh generation completed in time, a supervisor that has run since   *)
(* the last event and in this period has pulled the pin.                   *)
RideThroughIsBounded ==
  app.bms /\ app.recoveryActive
    => \/ app.epochAge < Deadline \/ hist.timely
       \/ due.error \/ dev.recent[RepeatLimit] = 0

(* A discharge epoch is closed by a completion in time and nothing else,   *)
(* the service restart aside.                                              *)
RecoveryIsTimely ==
  [][DischargeEpoch /\ ~app'.recoveryActive
       => hist.timely \/ cli.pc = "commit"]_vars

(* The 499/500/501 ms result does not depend on when a task looks at it: a *)
(* settled transport that completed a fresh generation in time is not      *)
(* latched for a timeout.                                                  *)
TimelyIsBelieved ==
  [][app'.latch = "DISCHARGE_TIMEOUT" /\ app.latch = Unlatched
       => ~(/\ hist.timely /\ tx.fresh # NoGen
            /\ TransportSettled /\ ~hw.busOff)]_vars

(* What may stand behind a shut transmit gate: a load error the task has   *)
(* not seen to, a bus-off, or a recovery still owed.                       *)
LoadNoted == dev.loadError \/ can.loadSeen

Owed == dev.recoveryPending \/ dev.refreshPending

GateIsExplained ==
  dev.suspended => \/ LoadNoted \/ Owed \/ hw.sce
                   \/ app.busOffFault \/ app.recoverPending

(* The one poll that acknowledges a load error and leaves its gate shut:   *)
(* it sees another error with it (canbus_poll_errors).                     *)
ForgetsLoad == PollHealthy /\ can.loadSeen /\ (can.err # {} \/ hw.busOff)

(* Whatever the order of load errors, soft errors, bus-offs, polls and     *)
(* service restarts, the gate loses the reason it is shut for only in the  *)
(* poll that takes a load error together with another error: nowhere else  *)
(* is it left shut with nobody to reopen it (canbus_poll_errors,           *)
(* canbus_tx_resume_after_refresh).                                        *)
GateStaysExplained ==
  [][GateIsExplained => GateIsExplained' \/ ForgetsLoad]_vars

(* A recovery epoch ends: either the link is trusted again or the fault is *)
(* latched.  No bus-off leaves the system undecided for good.              *)
EpochCloses ==
  app.recoveryActive ~> (~app.recoveryActive \/ app.latch # Unlatched)
=============================================================================
