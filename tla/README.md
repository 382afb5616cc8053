# A formal model of the DER26 accumulator management system

This directory holds a TLA+ development of the firmware in `AMS/`: what the
battery's supervisor (an STM32F767 running FreeRTOS) decides from CAN, contactor
feedback, its measurements and its own retained memory, and in what order
interrupts and tasks may get between those decisions. TLC checks every module on
small instances; TLAPS proves safety properties of the CAN authority, the
transmit path, the supervisor, the retained fault log, the contactor evaluator
and the small shared objects for every value of their constants.

| module | models | checked by | proofs |
|---|---|---|---|
| `CanAuthority` | bus-off, recovery, CAN authority and BMS_OK across the interrupts, the supervisor, the CAN task and the service CLI | `CanVehicle`, `CanService`, and `CanTimely` for a finding | `CanAuthority_proofs` |
| `CanTxScheduler` (`CanTxSchedulerMC` binds the frames) | the transmit streams, the pump, the mailboxes and their interrupt | `CanTx`, `CanTxLive` | `CanTxScheduler_proofs` |
| `FrameStream` | abstract: what the receiver of one stream may see | properties `KeepsProtected`, `KeepsCritical`, `KeepsDetails` | `CanTxScheduler_proofs` |
| `Supervisor` | the permit BMS_OK, the operating state machine, the charger link and its shutdown burst | `Supervisor`, `SupervisorLive` | `Supervisor_proofs` |
| `FaultLog` | the fault log in `.noinit` RAM, cut short at any word | `FaultLog`, and `FaultLogReset` for a finding | `FaultLog_proofs` |
| `RetainedLog` | abstract: a bounded ordered journal | property `KeepsJournal` of `FaultLog` | refinement theorem |
| `AirMonitor` (`AirMonitorMC` binds the configurations) | the contactor evaluator and the task that runs it | `AirMonitor` | `AirMonitor_proofs` |
| `ContactorPermission` | abstract: when contactor permission may be given | property `KeepsPermission` of `AirMonitor` | refinement theorem |
| `MeasurementStore` | the double-buffered measurement store with its preempted readers | `Subsystems` | `Subsystems_proofs` |
| `SnapshotRegister` | abstract: a register read at once | property `KeepsRegister` | refinement theorem |
| `CurrentWindow` | the current-integration window | `Subsystems` | `Subsystems_proofs` |
| `ImdCapture` | the insulation monitor's pulse capture and the task that reads it | `Subsystems` | `Subsystems_proofs` |
| `CanRxRing` | the CAN receive ring and its loss accounting | `Subsystems` | `CanRxRing_proofs` |
| `FaultPolicies` | the voltage, current and temperature policies | `Subsystems`, and `HotCharge` for a finding | `Subsystems_proofs` |
| `TaskWatchdog` | heartbeats, startup grace and the hardware watchdog | `Subsystems` | `TaskWatchdog_proofs` |
| `CellBalancing` | bleed resistors: plan, apply, clear, mute, under failing transactions | `Subsystems` | |
| `SharedLocks` | the lock of the ADBMS bus and the lock of the current window | `Subsystems` | `Subsystems_proofs` |
| `MissionRequest` | the mission profile: requests over a lossy link, their age, the choice | `Subsystems` | `Subsystems_proofs` |
| `Subsystems` (`SubsystemsMC` binds the times) | the sum of the nine small objects above | `Subsystems`, `HotCharge` | `Subsystems_proofs` |

To reproduce: `tlc -config CanVehicle.cfg CanAuthority`, and so on with each cfg
on the module named in `PROJECT.json`; `tlapm` on each module whose name ends in
`_proofs`.

The runs check a type invariant only where it is not proved or seeds a fault no
other property sees, and no lemma of a proof: those of `CanAuthority`, `CanTxScheduler`, `AirMonitor`, `Supervisor` and
`MeasurementStore` hold by their theorems `TypeCorrect` (`StoreTypes` for the store), and such invariants as
`QuietUntilRefreshed`, `ShadowIsHonest` or `NoTornSnapshot` by theirs. Where
one question has several parts, a run checks their conjunction, and the parts keep
their names: `HeaderIsTheJournal`, `NothingUnwantedIsSent` and the properties of
`Subsystems`.

## 1. The system

### Who runs

One core with fixed priorities. The CAN, input-capture and DMA interrupts come
first; then the FreeRTOS tasks of `app.h` 262-270: ERROR 17, CURRENT 12, ADBMS
11, CAN 10, ESTIMATOR 8, FAN 7, AIR 7, IMD 6, CLI 4. The ERROR task (20 Hz) is
the supervisor: it alone raises BMS_OK. The CAN task runs at 10 Hz. Short
critical sections (`taskENTER_CRITICAL`, or PRIMASK for the fault log) are the
atomicity everything else is built on; nearly all state lives in one
`app_data_t`.

### Components

| component | state it keeps | operations | how it interacts | what is hard | what makes it correct |
|---|---|---|---|---|---|
| CAN authority and bus-off recovery (`canbus.c`, `canbus_task.c`, `error_task.c`) | bus-off sequence numbers and event history, transmit gate, refresh and recovery flags, the recovery epoch, the latch, the authority flag | SCE interrupt; poll, settle, epoch reset, commit, publish, resume, authority update in the CAN task; policy in the supervisor; service restart | the interrupt may latch and drop BMS_OK; the CAN task earns authority; the supervisor acts on both | every step can be interrupted; the task reads state and writes it later; 500 ms deadline against a 100 ms task | a latch and BMS_OK never together; authority only on frames sent after the last bus-off; ride-through bounded |
| CAN transmit scheduler and mailboxes (`can_tx_scheduler.c`, `canbus.c`) | active and pending slots per stream, frame states, owner token of each mailbox | publish, promote, reserve, load, complete, abort, epoch reset | tasks publish, interrupts complete and reload | a generation is replaced while frames of it are in mailboxes | a completed generation was sent whole, from one snapshot |
| CAN reception and charger link | receive ring, charger status and its age | enqueue in the interrupt, drain in the task, charger command, shutdown burst | the charger timeout feeds the supervisor | ring full, burst interrupted | a frame is handed over whole; leaving CHARGE always commands the charger off |
| Supervisor and BMS_OK (`error_task.c`, `app.c`) | all inputs with their ages, BMS_OK | aggregate faults, decide, `set_bms` | reads what every task publishes | stale inputs, transitions in progress | BMS_OK only with every input ready and fresh |
| Operating state machine (`app.h`, `cli_task.c`) | `AMS_state`, transition in progress | begin, finish | shuts BMS_OK first | a command between two reads of the state | no BMS_OK across a transition |
| Contactor evaluator and task (`air_monitor.c`, `air_task.c`) | phase and its age, debounce filters, boot-open proof, readiness, latched mask | step on each sample, request a clear, accept the configuration once | publishes a snapshot to the supervisor | samples lost or late around deadlines; order PRECHARGE, RUN | permission only in order, in time, and never back without a clear |
| Retained fault log (`ams_safety.c`) | ring of records with CRC and commit word, header, boot number | recover, append, snapshot, clear, boot, panic | every subsystem logs; HardFault and NMI log too | reset or panic at any word | no record doubled or reordered by a reset, none lost but the one in hand |
| Watchdog and heartbeats (`ams_safety.c`, `app.c`) | per-task ticks and grace periods | kick, update, refresh the watchdog | a missing task stops the refresh | staleness at wrap, start-up | a dead task resets the device |
| ADBMS SPI lock, current-window lock (`app.c`) | owner, depth | lock, unlock | panic on misuse | recursion, timeout | the bus has one owner |
| Cell acquisition (`adbms_task.c`, `adbms6830.c`, `adbms2950.c`, `accumulator.c`) | chain state, recovery counters, balancing | acquire, recover, balance | feeds measurement and debouncers | retry and partial chains | stale cells never look fresh |
| Measurement publication (`ams_measurement.c`) | double buffer, current window | begin, publish, copy latest, rotate window | one writer per channel, several readers | reader preempted in the middle of a copy | a reader gets one sample whole |
| Fault debouncers (`voltage_fault.c`, `current_fault.c`, `temperature_fault.c`) | timers and latches | update, clear | supervisor input | thresholds, clears | a fault held long enough latches |
| Insulation monitor (`imd.c`) | captured duty and period, sequence | capture interrupt, read | supervisor input | torn read | duty and period belong to one cycle |
| Estimators (`estimator/`, `sop/`, `soh/`) | filters, mission request and profile | update, receive a request, choose a profile | advisory limits on CAN | numeric filters (out of reach); age of a request against the pass that uses it | a published profile is one the driver asked for recently, or the safe one |
| Main fuse monitor, parallel observer, fans, thermistor model, RTOS diagnostics, platform | | | the main fuse monitor is unavailable on the present hardware; the others take no safety decision | | |
| Service CLI (`cli_task.c`) | | state change, CAN recovery, log commands | shares all of the above | lowest priority: everything happens between its steps | |

`PROJECT.json` lists the same components with their status, and under `hazards`
the places where the code is hard to test, with the property that covers each.

## 2. CAN authority (`CanAuthority`)

### Correspondence

`app` holds the CAN safety fields of `app_data_t`, `dev` those of
`canbus_device_t`, `hw` the controller (ESR.BOFF, the pending SCE interrupt, the
HAL error code), `tx` what authority needs to know of the scheduler, `can` and
`cli` the program counters and locals of the two tasks that are preempted in the
middle, `due` which periodic task still has to run in this period. `hist` is a
history variable read only by properties and by `RecoveryIsTimely`'s argument;
no action's guard depends on it.

An action is what an actor does between two points where a higher priority may
get in. The supervisor is never interrupted by a task and takes its decision in
one critical section, so `ErrorTask` is one action. The CAN task's cycle is cut
at every unlock:
`CanWake -> PollEvent -> PollRecover | PollInhibited | PollHealthy -> PollSettle
-> PollEpoch -> PollCommit -> Publish/Skip -> Resume -> SecondPoll -> ... ->
FoldRead -> FoldWrite -> UpdateAuthority`. `FoldRead` and `FoldWrite` are the
unprotected read-modify-write of `canbus_fault` (`canbus_task.c` 3100). The
service restart is four actions; begin merges the HAL's stop, reset and start.

Abstractions. One `Tick` is a CAN task period; a stored tick is kept as the age
the code computes from it, stopped one past what it is compared with. The frames
0x680-0x687 of a protected generation are one frame, named by the count of
bus-offs at its publication plus one: authority asks only whether the completed
generation is newer than the last bus-off. `Kick` may leave a waiting frame
waiting, which stands for the mailboxes being taken by other streams. BALANCE is
in the type and the policy but no service command of this model enters it (the
code refuses START -> BALANCE and the transitions modelled are those of the
commands in `ServiceCommands`). HIL and test `#if` branches are left out. The
resume step assumes the publication itself returned HAL_OK.

### Runs

| run | constants | what it shows |
|---|---|---|
| `can_vehicle` | Deadline 2, Window 2, RepeatLimit 2, SoftHold 0, MaxEvents 2, no service commands, no load or soft errors, `LiveSpec` | 397,531 states: the safety properties of authority and `EpochCloses`, with two bus-offs at every point of the cycle |
| `can_service` | Deadline 1, Window 0, RepeatLimit 2, SoftHold 0, MaxEvents 1, the commands recover and charge, load and soft errors together | 7.2 million states: `GateStaysExplained`, with controller restarts and a state command interleaved with everything |
| `can_timely` | Deadline 2, MaxEvents 2, nothing else | finding 1 (section 11) |

Bounds. RepeatLimit 2 instead of 3 and MaxEvents 2 let the repeat limit be
reached, by a first event still in the window and by one that has left it
(Window 2 against behaviours of any length). Deadline 2 is the smallest value at
which "before", "at" and "after" the deadline fall in different periods and the
CAN task may be a period late. One event suffices for the service run, whose
subject is the restart's interleaving with the task's recovery of the same event
and with errors of every kind; with one event no repeat is in reach, so the
window is 0. The third command, `discharge`, differs from `charge` in the state it
enters, which the gate does not read. The proofs remove these bounds.

Fairness (`LiveSpec`). Interrupts are served; the periodic tasks run: they have
fixed priorities, block only for bounded times, and the watchdog resets the
device if one stops. `WireSend` and `Refill` are strongly fair: a mailbox that
keeps being loaded wins arbitration in the end, and so does a waiting frame
among the other streams. `AbomRecover` is fair: the controller's automatic
bus-off recovery (ABOM) is enabled and the bus is assumed to fall idle. Nothing
is assumed of errors or of service. `Tick` needs the supervisor to have run, not
the CAN task, which may be late by any number of periods.

### Properties

- `LatchedKeepsBmsLow`, `InhibitIsComplete`: the latch, the output and the
  transport gate move together although three actors write them.
- `AuthorityIsSound`, `AuthorityIsEarned`, `QuietUntilRefreshed`: authority
  rests on frames of the present controller epoch only.
- `RideThroughIsBounded`, `RecoveryIsTimely`: 500 ms, measured by completion on
  the wire and not by when a task looks.
- `GateStaysExplained`: a shut gate always has a reason somebody will see to
  (`GateIsExplained`), and the only step that takes the reason away and leaves the
  gate shut is the poll that sees a load error together with another error
  (`ForgetsLoad`). That poll really does so (section 11, observations); the
  property holds with both kinds of error present, and says that there is no
  other way.
- `EpochCloses`: an epoch ends.

### What is proved

`CanAuthority_proofs` proves, from `ConstantsAssumption` alone: `TypeCorrect`,
`LatchedKeepsBmsLowAlways`, `InhibitIsCompleteAlways`,
`QuietUntilRefreshedAlways`, `AuthorityIsSoundAlways`,
`AuthorityIsEarnedAlways`, `RecoveryIsTimelyAlways` and
`GateStaysExplainedAlways`, for every deadline,
window, limit, number of events, service profile and error mix.

`TypeInv` is the type invariant plus "a pending SCE interrupt leaves room in the
event counter", needed because MaxEvents is a bound of the model.
`LatchedKeepsBmsLow` and `InhibitIsComplete` are inductive over it as they stand.
`QuietUntilRefreshed` needs `QuietInv`: while a refresh is owed the gate is shut
*and* the frame is free, since only the shut gate keeps `Kick` from loading one.
`AuthorityIsSound` is not inductive: the authority update reads `busOffFault`,
which an event between the second poll and the update sets behind its back;
`SoundInv` adds what the program counter knows after the second poll (no event
was consumed late, the fault is clear unless the interrupt has just been here).
`AuthorityIsEarned` and `RecoveryIsTimely` rest on `LinkInv`: recorded sequence
numbers never exceed the counter; without a bus-off fault the active, pending
and completed generations are of the current epoch; a commit whose sequence is
unchanged finds a current queue; an elapsed time within the deadline has been
witnessed by `hist.timely`.

`GateStaysExplained` rests on `GateInv`, which has three parts. `PathInv`: a load
error noted by the poll is still to be classified, and an asked-for restart has a
recovery or a refresh owed with it. `BusInv`: the HAL's memory of a bus-off is
cleared before a commit, or a newer event makes the commit fail. `AnsweredInv`:
between the service recovery's epoch and its commit the gate has a reason other
than the bus-off fault, since that commit is about to clear it whatever the CAN
task did in between. From these each action either keeps a reason, opens the gate,
or is the poll of `ForgetsLoad`.

One more theorem needs a hypothesis on a constant, and is false without it
(section 11, observations): `RideThroughIsBoundedAlways` assumes
`ServiceCommands = {}`, the vehicle build. `RideInv` says why the bound holds: the
state is START, with BMS_OK low, or DISCHARGE, and an open epoch was opened in the
present state. `SupervisorRide` then has one case per decision, and `RideFrame`
disposes of every step that leaves state, epoch and BMS_OK alone.

TLC checked every invariant before it was proved.

Only model-checked: `EpochCloses`, a liveness property.

## 3. The transmit path (`CanTxScheduler`, `FrameStream`)

### Correspondence

`queue` is `ams_can_tx_scheduler_t`: for each stream the active generation with
the state of each frame, and the number of the pending one. `mailbox` joins what
software and hardware think of a mailbox: `sw` and `owner` are
`canbus_tx_mailbox_meta_t`, `hw` and `holds` the controller's flags and the frame
really inside. `pump` is `tx_pump_busy`, `tx_kick_pending` and the locals of the
pump in progress; `gate` is `tx_suspended` with the flags that keep it shut.
`wire` is a history variable: what the receiver has seen of each stream.

The pump is cut where an interrupt may enter: `Reserve` (choose a frame),
`Load` (write the mailbox), `Mark` (record its owner), `Release` (look for a kick
that came meanwhile). Between `Load` and `Mark` the mailbox interrupt is masked,
and an interrupt for another reason does not pump (`canbus.c` 1531); a bus-off and
the controller itself still get in. Publication is likewise two steps: `Publish`
in its critical section, then `AbortStale`, which recalls what became obsolete
and kicks. `MailboxIrq` serves any set of finished mailboxes (one TSR snapshot)
and refills. The interrupt's pump is entered only when no other pump runs, and
runs to its end before the task continues.

Abstractions. Frames are their place in the generation. Tokens carry no
controller epoch: a reset waits until no mailbox and no pump holds a token, so a
token of an old epoch never meets a new one. Whether a publication finds the
active generation at its 100 ms boundary is left open, and so is the order in
which the task publishes: more behaviours than the code has. Lost arbitration and
transmit errors end a mailbox as an abort does. HAL load errors and the repeat
limit shut the same gate and are in `CanAuthority`; failures of
HAL_CAN_AbortTxRequest and of the notification calls are left out, and so is the
charger frame's rewrite at load.

`CanAuthority` treats a protected generation as one frame that completes at once.
`KeepsProtected` is what entitles it to: a completion is reported only when every
required frame of one generation was on the wire, in order.

### Runs

| run | constants | what it shows |
|---|---|---|
| `can_tx` | commands of one frame, protected generations of two required frames and an advisory one, two mailboxes, 2 and 3 generations, one bus-off | 1,017,350 states: ownership, recall and order under every interleaving |
| `can_tx_live` | protected generations of one required and one advisory frame, three detail snapshots, two mailboxes, no bus-off | 60,021 states: `DeliveredOrReplaced`, and the order of details |

Four frames contend for two mailboxes, so the pump stops for want of a mailbox
and is restarted by a completion. Three protected generations are one active, one
pending and one that replaces it; with details, three let a tuning snapshot meet
a waiting one. One bus-off gives each point of the pump a shutting and reopening
gate.

Fairness (`LiveSpec`). `Pump` and `WireSend` are weakly fair: both contexts run,
and a requested frame wins arbitration in the end. `AbortStale` and the mailbox
interrupt of each mailbox are strongly fair, because interrupts for other reasons
may disable them again and again without keeping them from their turn. Nothing is
assumed of publications, bus-offs or service.

### Properties

- `OwnershipAgrees`: who owns a mailbox, what it holds, and how the frame is
  marked agree, whatever interrupted whom. It fails if a mailbox is chosen by its
  hardware flag alone.
- `NothingUnwantedIsSent`: nothing obsolete (`StaleIsRecalled`), and with the gate
  shut nothing at all (`SuspendedIsRecalled`), stays in a mailbox without an abort
  request.
- `NoLostKick`, `DeliveredOrReplaced`: a frame never waits for a pump that nobody
  starts.
- `KeepsProtected`, `KeepsCritical`, `KeepsDetails`: each stream refines
  `FrameStream`: generations in order, no frame twice, nothing of an old
  generation after a newer one, delivery reported only when it took place.

### What is proved

From `ConstantsAssumption` alone, for any frames, mailboxes, number of
generations and bus-offs: `TypeCorrect` and `OwnershipAgreesAlways` in
`CanTxScheduler_proofs`, and there also `SuspendedIsAlwaysRecalled`,
`StaleIsAlwaysRecalled`, their conjunction `UnwantedIsNeverSent`,
`NoKickIsLost`, and the refinements of `FrameStream`.

`OwnershipAgrees` is not inductive. Its strengthening `OwnInv` adds to the types:
a free mailbox has no owner and an occupied one is not empty (`HeldInv`), so a
load cannot hit a frame whose completion is still to be served; at most one
mailbox is being written, and only while the pump is between load and mark, no
two hold the same token (`SingleInv`), so `Mark` finds the box it loaded; the pump
holds a token exactly while it loads, and that frame is reserved (`PumpInv`);
every selected frame is somebody's (`SelectedInv`), so nothing is stranded; and a
stream without a generation is complete (`StreamOK`), so promotion never discards
a frame in hardware. Publication, promotion, the report of a delivery and the
reset leave frames in hardware alone; `Quiet` says so once and `QuietStep` shows
that ownership survives it, so only `Reserve`, `Load`, `Mark`, `MailboxIrq` and
`AbortStale` are argued one conjunct at a time.

Over `OwnInv` the other three are short. `SuspendedIsRecalled` is inductive as it
stands. `StaleIsRecalled` needs that no step but a publication makes a generation
obsolete (`NotStaler`) and none but a load requests a mailbox (`Settles`), and
that a mailbox already marked "abort" was asked. `NoLostKick` speaks of rest;
`KickInv` extends it to the pump that is about to stop.

The three refinements, `ProtectedIsAStream`, `CommandsAreAStream` and
`DetailsAreAStream` (the last two where the stream is in use), rest on `OwnInv`
and on `OrderInv`, which ties the queue to what the receiver saw. `GenOK` orders
the generations of a stream: delivered, seen, active, waiting, newest. `SeenOK`:
of the active generation no waiting frame was seen and every complete one was.
`LoadInv` and `MailInv` carry this over the race between a load, its mark and the
bus: a frame about to be loaded, or requested and not sent, was not seen; a sent
one was, even when its owner is not yet on record. TLC checked `OrderInv` on the
instances of `CanTx` and `CanTxLive` before it was proved. Each action is then
shown to keep it and to show the receiver nothing, a publication, a frame or the
report of a delivery (`Shown`), which `ShownStream` reads as a step of
`FrameStream` or a stutter of each stream.

Only model-checked: `DeliveredOrReplaced`, a liveness property.

## 4. The retained fault log (`FaultLog`, `RetainedLog`)

`ram` is `g_fault_log`; `cpu` is the call in progress with the locals it would
lose in a reset; `life` counts boots and damage. The header in RAM is never
believed: every call (append, snapshot, clear, boot number) starts with
`ams_fault_log_recover_raw`, modelled loop by loop: `DropDuplicate`, `Scan`,
`Pack`, `Clean`, the insertion sort `Pick`, `Shift`, `Place`, then `Trim` and
`Header`; `Erase` and `Stamp` for a missing schema. Append is `Invalidate`,
`Commit`, `Bump`: the commit word is the publication. `Reset` and `Panic` may
come between any two steps and `Cut` gives what a half-finished write leaves: a
torn record. `Panic` logs from an exception that no lock keeps out and the call
it interrupted never continues. `Damaged` is memory loss while the supply is
away, at most MaxDamages times.

`RetainedLog` promises a bounded ordered journal. `Report` starts an append and
`Publish` ends it with the next number, or `Reject` without a record; a full
journal gives up its oldest first (`Evict`); only the service command empties it
(`Command`, `Clear`). A call may take one record up and put it back (`TakeUp`,
`PutBack`). `CutShort` is what a reset or a panic may do: the call is gone, and
with it at most the record it had in hand. `Damage` is a reset with the supply
away, which takes at most one more. Both are counted, and the counters are mapped
to the boots, panics and losses of the code, so no other step may use them.
`KeepsJournal` is that refinement, with the log mapped to the valid records in RAM
plus the one the sort holds, which is also the one in hand. `HeaderIsTheJournal`
says the same of what a reader is given (`SnapshotIsTheJournal`), and that the
bookkeeping of an append equals what recovery would compute (`HeaderAgrees`).

| run | constants | what it shows |
|---|---|---|
| `fault_log` | Depth 4, Modulus 19, one known event, one later event, MaxBoots 1, MaxDamages 1 | 629,250 states: all three properties |
| `fault_log_reset` | Depth 3, Modulus 21, no later event, MaxBoots 2, MaxDamages 1 | finding 3 (section 11): `ResetKeepsRecords`, that an undamaging reset is invisible, is violated in the sort |

Bounds. A ring of four holds three records out of order behind the free slot an
append has left, so that the sort moves a record past two others and is cut short
between the two moves. One boot after power-on gives three cuts in a row: a
panic, a reset in the recovery that panic began, a panic in the recovery of the
next boot. Modulus 19 is the least `ConstantsAssumption` allows for these bounds
(the ring, with all the records that cuts and losses may take out of it, stays
within half the numbers; 2^32 in the code); the finding's run has more boots and
so a larger one. Events of the later kind, the ADBMS ones, are given up by the
next recovery, and by then have made a full ring give up its oldest: `Reject`
after `Evict` (section 11). Deadlock is not checked: after a panic with all boots
used up the system has stopped, as the real one does until the watchdog acts.

`FaultLog_proofs` proves, from `ConstantsAssumption` alone, for any depth, width
of the numbers, sets of events, boots and losses, and wherever a call is cut
short: `RingIsTyped`, `HeaderIsAlwaysTheJournal`, and the refinement
`LogIsAJournal`. Two parts of the assumption are there for the bounds of the
model: the ring and all that may be lost fit in half the numbers, and so do the
boots, since `NextSequence` serves the boot numbers too.

Even the types need an order on the numbers: the slot recovery calls newest exists
only because all numbers are within half a round. Numbers go round, so the
invariant counts how many steps a number is behind the newest (`Steps`):

- `Near`: the records held are the last numbers given, but for as many as were
  `Lost`: one at most for every loss in memory and every call cut short. So all are within half a round, and the code's comparison is the
  order in which they were given (`AfterInWindow`).
- `Split`: wherever a call may be cut short, the ring cut at some slot is two runs
  in order, the lower one the newer. A ring written past its end has this form,
  a pack moves records down and keeps it, and so does losing any of them.
- `Elder`: a record the sort has moved down is older than all the records above
  it. With it a sort cut short leaves a split ring whatever it held in its hand.
- `Packing`: what is below the write position is packed, what is between it and
  the read position is empty, and between `Pack` and `Clean` one record is there
  twice (`Distinct` with one of the two left out).
- `Sorting`: the records below the index are in order; during a shift one of them
  is in the local and its place holds a copy of its neighbour.
- `Ring` and `HeaderFits`: after `Trim` the slots before the write index hold
  the records in order and no other slot holds one; the header of a call that
  recovery has let through says so (`Appending`). If the scan finds the records
  already in these slots, `Split` and `Near` give `Ring` without a compaction
  (`SplitRing`): the code's shortcut is sound.
- `BootsAgree`, `Control`: boot numbers stay below the boots so far, and which
  operation is where.

Each action is shown to keep the invariant `Inv`, and what it does to the set of
records held: nothing, except that an append gives up the oldest of a full ring
and adds the next (not if its event is of the later kind), a clear takes all, and
a call cut short takes what `Survive` allows. The journal is that set put in order
(`InOrder`), so the refinement rests on three lemmas about sets put in order:
`JournalAppends`, `JournalEvicts`, `JournalLoses`. Then there is one lemma for
each kind of call (`RecoverStep`, `RequestStep`, `AppendStep`, `OtherStep`,
`CutStep`). TLC checked `Inv` on the states of `fault_log` before it was proved.

## 5. The contactor evaluator (`AirMonitor`, `ContactorPermission`)

`mon` is `ams_air_monitor_t`, `config` the configuration the task accepted. One
evaluation is one action, `Evaluate`: the task is the only writer and publishes
the result as a whole. Inside it the stages follow `ams_air_monitor_step` with
its early returns: `Reset` (age everything, drop the outputs), `Phased`
(transition rules), `Missing`, `Filtered` (debounce), `Undebounced`,
`Observed` (line faults, stale voltages), coherence, `Decided`, `Finalize`.
`AcceptConfig` is the task's first valid configuration; in the code the
evaluation of the same round follows at once, here it is the next step.
`RequestClear` is `ams_air_monitor_request_clear`. No task of this firmware calls
it, only the host tests; it is part of the component's interface and is modelled
for that reason.

Time is counted in evaluation periods; ages stop at Horizon, which no deadline
exceeds. The two voltages are one of five levels of the load-side bus against
the pack, enough to tell the precharge threshold and the RUN threshold apart in
both directions ("sagging", "weak"). Of the active and latched masks only whether
they are empty is kept. Inputs are unconstrained: in each evaluation any command,
any contact sample, loss of either, incoherent sampling, any level.

The auxiliary-feedback build is modelled. `AMS_ENABLE_AIR_AUX_FEEDBACK` is 0 by
default, and then the task publishes a pin level and this evaluator is idle.

`ContactorPermission` says what the supervisor relies on: permission is first
given in OFF, follows the contactors through PRECHARGE into RUN, is latched when
lost while they are energised and returns only by a clear with them open.
`KeepsPermission` is the refinement. `PermitIsReady` relates two tests of the
same snapshot made by different tasks; `PermitIsInTime` is the deadline property
under late evaluations and lost samples; `RunIsEarned` the order of closing.

| run | constants | what it shows |
|---|---|---|
| `air_monitor` | three configurations (load-side voltage proof; precharge contact; main contacts with line supervision), Lags {1}, Horizon 3 | 62,540 states, every disjunct |

The configurations give different contacts different deadlines, at, below and
above the debounce. With Lags {1,2} TLC reaches the same states, in more time;
late evaluations are in the theorems, which hold for every Lags.

`AirMonitor_proofs` proves the type invariant, `PermitStaysReady`,
`PermitStaysInTime`, `RunIsAlwaysEarned` and `PermissionIsKept` (the refinement,
step and initial state) from `ConstantsAssumption`. The invariant is
`TypeOK /\ PermitIsReady /\ PermitIsInTime /\ Guarded(mon)`; `Guarded` adds what
the published fields cannot show by themselves: in an energised phase without
authority or a boot-open proof nothing is permitted, and a held permission has
not been latched. The proof goes through the stages of the evaluation: each
stage has a lemma that says what it leaves alone (`PhasedStaged`,
`FilteredStaged`, `ObservedStaged`), each exit one that it ends in an admissible
monitor (`LoseEnds`, `UndebouncedEnds`, `DecidedEnds`), and `StepEvaluates`
composes them. `RunIsAlwaysEarned` needs one fact more of each of them: a monitor
that reaches RUN with permission comes from `Precharged`, what the transition
judged of the evaluation before it filtered the new sample; a clear never ends
in RUN. Every property of the run is proved.

## 6. The supervisor and the charger link (`Supervisor`)

### Correspondence

`mode` is `state`, `state_transition_in_progress` and the `current_fault_mode`
that the current task has published; `permit` the shadow `bms_state` and the
BMS_OK pin; `charger` the fields of `charger_t` with `charger_fault`; `command`
the critical stream with its active and its waiting command; `task` the program
counters and locals of the CAN task, the measuring tasks and the command line;
`drop` where each of them is inside `set_bms(false)`, which outside a critical
section is two writes the supervisor may get between. `inputs` is "good" when
none of the other published fields forbids the permit. It also stands for what
the `bmsok` commands and `temp_charge_stop` do. `seen` is a history variable.

`Supervise` is `error_task_fn`'s decision in its critical section: containment of
a state that is none, the startup transition, the readiness test, `set_bms`.
`SetState` and `FinishState` are the service command around the clearing of the
bleed outputs. The CAN task's cycle is `Poll -> PublishStop | NoStop ->
DecideCharging -> ConcludeCharging -> PublishCommand` in CHARGE and `... ->
DecideIdle -> Release` elsewhere: `charger_fault` is computed in one step and
stored in the next. `Load`, `LoadFails`, `Complete` and `Abort` are the mailbox
and its interrupt; `LoadedAs` the fail-safe that turns an enable into a disable
at the last moment.

Abstractions. BALANCE and NULL are left out, since no transition leads there, and
ERROR is left only by a reset. The hard fault that the CAN task reads may be
anything (`hard`). The command line has the lowest priority and runs only while
nobody else is in the middle of something (`Lowest`). Reservation and load of the
one-frame command are one step; `CanTxScheduler` has them in detail.

### Runs

| run | constants | what it shows |
|---|---|---|
| `supervisor` | BurstFrames 2, two exits, corruption of the state | 3,604,578 states: all safety properties |
| `supervisor_live` | BurstFrames 2, one exit | 308,424 states: `ExitsEnd` under `LiveSpec` |

A burst of two frames has a first, a last and an interrupted state; two requests
let one burst be overtaken by the next, with a command of the first still in a
mailbox. Fairness: the CAN task runs (weak); a poll without a bus-off, a
successful publication, load and completion recur (strong): the bus does not
refuse a command for ever. Nothing is assumed of service commands.

### Properties and proofs

- `PermitWaitsForExit`: no permit from the moment a new state is visible until
  the bleed outputs are cleared and the charger has been told to stop.
- `PermitMatchesPolicy`, `FaultOpensTheLoop`, `ChargeWaitsForStatus`: what the
  permit rests on is of this state, not of the one before.
- `ExitIsComplete`, `OneLateEnable`: what counts as told is what was sent, and in
  answer to this exit. The history `born` marks at which exit each command was built, and `ExitIsComplete` counts only disables built since the
  exit: one of an earlier burst, still in its mailbox when the next exit comes,
  counts for nothing.
- `ExitsEnd`: a burst ends.

`Supervisor_proofs` proves all but `ExitsEnd`, and `ShadowIsHonest`, for every
burst length and number of requests, in three layers. `PermitInv` joins the types
with `PermitWaitsForExit`, `PermitMatchesPolicy` and `FaultOpensTheLoop`, and
needs that a pending exit is a fault already (`PendingIsFault`), also in the
verdict the CAN task has computed and not yet stored (`CycleKnows`). `ExitInv`
adds what a command in flight may still do: its request number (`CommandForm`),
that
the burst counts only its own commands (`BurstCounts`), which were built since the
exit (`BirthKnown`), that the last word
is a disable (`LastIsDisable`) and that at most one enable can be late
(`LateKnown`). The whole invariant `Inv` adds that in CHARGE the status is
awaited (`StatusAwaited`). `RoomForRequest` keeps the bound MaxRequests out of
the way.

## 7. Measurements (`MeasurementStore`, `SnapshotRegister`, `CurrentWindow`)

`MeasurementStore` has the two buffers, the index bookkeeping of
`ams_measurement_store_t`, one writer and any number of readers. Only the
bookkeeping is done in critical sections; filling (`memset`, then each part) and
copying go part by part with everything interleaved. `SnapshotRegister` is the
promise: a register that is written at once and read at once, some time between
the beginning and the end of the copy. `KeepsRegister` is the refinement.
`EpochsKeepComing`, part of `UnitsProgress`, says that no reader shuts the writer
out, if readers go on copying and the writer on writing.

The first part of `Subsystems_proofs` proves the types (`StoreTypes`), that a snapshot is whole
(`SnapshotsAreWhole`), that a pin stands for a reader (`PinsAreKept`), that an
epoch is dropped only with a reader in the way (`DropsNeedAReader`), and the
refinement (`StoreIsARegister`), for any readers, parts and size of the sequence
numbers. The invariant says who may be where: the buffer being written is neither
the published one nor a pinned one (`WriterAgrees`), what is filled is of one
epoch (`FillAgrees`), the published one is whole (`LatestIsWhole`), and what a
reader has copied so far is of the epoch it pinned (`CopiesAgree`).

`CurrentWindow` is the charge window: `ValidSample`, `InvalidSample`, `LateCall`
and `Rotate` under the mutex, called with a tick read before it was taken, on a
clock that wraps. Charge is the time it covers. `WindowIsHonest`: a valid window
covers its interval exactly, without a gap, no tick is integrated twice, and a
window that names a calibration used only that one.

## 8. The small shared objects (`Subsystems`)

These share no state and are checked in one run, as a sum: the variable `unit`
picks the one that runs, the others stay in an initial state. A product would
multiply their states and show nothing more. `SubsystemsLiveSpec` has the
fairness of the two with liveness properties; each fairness condition names its
unit, which changes nothing for it and spares TLC the others.

| unit | correspondence and abstractions | bounds |
|---|---|---|
| store | section 7 | two readers, one part, sequence numbers modulo 4, PinMax 2 |
| window | section 7 | clock modulo 12, MaxGap 2, MaxWindow 5, a call at most one tick late, two calibrations |
| imd | `Capture` is the input-capture interrupt, `BeginAttempt`, `CopyField`, `Retry` the copy with its sequence check, `Conclude` `imd_read_at` with the publication; the duty and frequency tables are one verdict | clock modulo 8, sequence modulo 6, timeout 1, silence up to 3, at most two captures in a run |
| ring | `Enqueue` and `Drop` are the receive interrupt, `Look`, `CopyPart`, `Advance` the task's side, `RecordRxLoss` its accounting; a frame is its name in two halves | Depth 3, four names, two losses, three frames in a cycle |
| policies | each policy is fed one classified measurement at a time and counts; classification by the limit that decides replaces the numbers | grace 3, confirmations 0 to 3 in the order of the code's |
| watchdog | `Kick` with the tick of the cycle's start, `Supervise` the judgement and the feeding, `Hang` and `Reset` the environment. Feeding and permit ask different questions: the watchdog is fed in the grace without looking, the permit asks whether the watchdog was started and no task is stale, where a task that has never kicked is not stale in the grace (`app.c` 274-280) | grace 3, supervisor period 1, watchdog 2, a task one tick late, one task outside the mask |
| balancing | below | none: the model is finite |
| locks | `Acquire` and `Release` are the kernel's mutex, `Record` and `Unrecord` the critical sections that keep `adbms_spi_owner` and `adbms_spi_lock_depth` beside it; the scan takes the window inside its bus operation, the others outside of any. The tasks are modelled as pairing their calls, as the code's callers do | MaxNest 3, two tasks that use the bus, four that use the window |
| mission | `Receive`, `Repeat`, `Lose`, `Garble`, `Restart` are the vehicle's controller and the bus, `Ingest` the CAN task's decision on a frame taken out of the ring, `Enter`, `Solve`, `Invalidate`, `Skip` the estimator task and the strategy; the current limits are the profile that caps them | counter modulo 3, age 1, an update one tick after its entry, a frame one tick in the ring, two profiles asked for and the third by the latch |

Wrapping clocks are a few times longer than the longest age, so a wrap falls in
every position; the ring's three slots hold two frames, the least that tells full
from empty with a frame in between; each confirmation is long enough to be
interrupted and short enough to be repeated.

Balancing (`CellBalancing`). `chip` is what the monitors really hold, `driver` the
shadow and the `last_balance_` flags, `app` the published fields, `policy` state,
transition, service inhibit and permit. A transaction on the SPI bus is one step
that may fail with or without effect: `Inhibit` is
`accumulator_emergency_balance_inhibit`, `Planning` `accumulator_set_balance`.
The scan is `Begin -> Serve/Mute -> Clear -> Record -> Copy -> Measure ->
Serve/Mute -> Diagnose -> Serve/Mute -> Gate -> Apply | Clear -> Record -> Copy ->
Activate`; the supervisor comes between any two of them, a lower task only where
the scan waits. A reset loses all but the chips, so resets are in the initial
states: the chips start in any state. `ChipForgets` is the monitors' own
watchdog, which the code's comments expect to end a mute. The measurements in the
gate and in the supervisor's readiness are free.

- `BalancingIsHonest`: a zero state called verified is one; a request left in the
  chips is remembered by the shadow, or by a pending mute with the permit
  withheld; a pack that drives does not bleed; cells measured while bleeding are
  not published as recovered unless a fault stands.
- `BleedingEnds`, part of `UnitsProgress`: if the permit stays low, bleeding ends
  for good. The scan and the supervisor are weakly fair, and a clearing that is
  tried again and again succeeds in the end (strong): without that nothing the
  firmware does could help.

- `CanInputsAreSound` joins `RingIsAQueue` and `MissionIsHonest`. A rejected request
  leaves the awaited counter where it was, so after one lost frame the link is
  refused for most of a turn of the counter; `LinkResynchronizes` bounds it by one
  turn and a frame (17 frames in the code) from any state, `SteadyRequestIsApplied`
  says that the profile is then followed by every update whose tick is not older
  than the request, `QualifyFromStandstill` relates the choice to the vehicle's real
  standstill, over loss, delay in the ring and preemption of the estimator.

The other properties: `CaptureIsHonest`, `PoliciesAreFaithful`
(both directions: a fault held long enough latches, and nothing else does),
`WatchdogIsSound` (a silent task of the safety mask takes the permission away
within its timeout and one period of the supervisor, or within the startup grace
and one period if it has not kicked since the reset; what is hung has the
processor reset, a working system is not), `LocksAreSound` (the record beside the mutex is
right whenever it is looked at, so neither misuse exit is reached, and no ring of
tasks waits: a panic of the locks means a slow holder).

### Proofs

`CanRxRing_proofs` proves the four parts of `RingIsAQueue` for any depth, number of
frames, losses and arrivals in a cycle. The invariant says where the waiting frames
are: the slots from the tail to the head hold them in order (`HoldsWaiting`). The
interrupt writes the slot at the head, which is not one of them because one slot
stays free, so what the task has copied is still there (`CopyAgrees`) until it moves
the tail. `CountsAgree` keeps the reported losses behind the counted ones,
`OwedIsServed` what waited at the start of a cycle within what the cycle may take.
The slot arithmetic (`FillLevel`, `Place`) is apart from the steps.

`TaskWatchdog_proofs` proves the three parts of `WatchdogIsSound` for any set of
tasks and any timeouts, grace, period and watchdog time, from `WatchdogConstants`:
the supervisor's period is shorter than the watchdog's time, and a kick carries a
tick that is not stale yet. `silent` is the history of how long a task has not
kicked. Nobody's age is shorter than its silence, nor than its
hang, up to the ceiling at which it is stale all the same (`AgeAgrees`). So the
watchdog is fed only when nothing needed has hung for longer than the longest
timeout or the grace, and from then on it counts with the hang.

`Subsystems_proofs` proves of the composed `SubsystemsSpec` every property the run
checks but `UnitsProgress`. No two units share a variable, so a step of the system
is a step of one unit or leaves it alone, and each has an invariant of its own. The
ring's and the watchdog's come from the two modules above by INSTANCE; that the two
instances speak of the same formulas is `RingIsSame` and `WatchdogIsSame`. The
assumptions are the named ASSUMEs of `Subsystems`, which TLC evaluates.

- `WindowHonesty`, under `WindowAssumption`: a window is at most half a round of
  the ticks less one, a call at most half a round late, a gap and a window together
  less than a round. The code has 2^32 ticks against windows of a second. The
  invariant speaks of ages, the time since a tick on the circle. Ages grow by one
  with the clock while they are short of a round (`AgesGrow`), and their
  differences are those of the ticks (`AgesDiffer`); this is what makes "not
  rewound" (`IsLate`, a comparison with half a round) the same as "not before the
  end" (`CallIsInTime`). Of the ages `WindowAges` says that the last sample is
  integrated up to the window's end; `ChargeAgrees` that the charge is the window's
  length up to there unless it is invalid; `OutageAgrees` that without a last
  sample a window that is not invalid is still empty, which is why a first sample
  may integrate from the window's start; `SpacingAgrees` and `CalibrationAgrees`
  tie the histories to the fields. Whoever feeds the charge has to keep all of
  them: none is inductive alone.
- `CaptureHonesty`, under `ImdAssumption` (the signal is not silent for a round):
  while the sequence has not moved since the copy began, what has been copied is
  what the interrupt last wrote.
- `CanInputsSoundness`: the ring's four properties, and for the mission requests an
  invariant on the counters alone. `Awaited`, how many of the controller's frames
  are still before the one the link awaits, falls by one with every undisturbed
  frame, so `Awaited` and the frames since the disturbance add up to less than a
  round until the awaited one comes; from then on the link follows
  (`LinkAgrees`). A request that confirms a standstill is no younger than the drive
  is long (`StandstillAgrees`), which a tick keeps because it ages both.
- `PoliciesFaithfulness`: the code's pending times and the history's count the same
  run (`CurrentAgrees`, `TemperatureAgrees`), the former without limit, the latter
  up to a ceiling no confirmation reaches; a voltage that still counts as valid is
  as old as the failures since (`VoltageAgrees`).
- `LocksSoundness`: between the kernel's mutex and the record only the holder can
  be (`RecordAgrees` counts the one step they differ by), the window's holder never
  wants the bus, so no set of waiting tasks is closed.
- `BalancingHonesty`. `CellBalancing` has no constants and TLC visits every state
  it has; the proof says why they are good. `LeftIsOwed` follows a request left in
  the chips that the shadow does not show from one point of the scan to the next:
  the scan consumes the mute request and the command line may clear the fault, but
  at each point one of the two still stands, or the command line has a failed
  clearing to record. `SuccessUnrecorded` is the dangerous one, a success that is
  recorded after a scan has come in between (section 11, observations); it can
  clear the fault only where the request survives. `DriveIsSettled` is why a change
  to drive, once its clearing has been tried, never bleeds with the permit: a
  request still there shows as a fault, or nothing of the bleeding is believed.
- `SubsystemsRegister`: the store of section 7 in the composed system. And
  `WatchdogSoundness`, and `SubsystemsTypes` for the types of all nine.

## 9. How the models meet

| shared | owner | what the others assume | why they may |
|---|---|---|---|
| a protected generation | `CanTxScheduler` | `CanAuthority`: one frame, completed at once | `KeepsProtected` |
| the critical stream | `CanTxScheduler` | `Supervisor`: an active and a waiting command | `KeepsCritical` |
| CAN authority, contactor permission, heartbeats, measurements | `CanAuthority`, `AirMonitor`, `TaskWatchdog`, `FaultPolicies` | `Supervisor`: good or bad at any time | a superset of what they publish |
| the permit | `Supervisor` | `CellBalancing`, `CanAuthority`: readiness with free inputs | a superset |
| the bleed outputs of a state exit | `CellBalancing` | `Supervisor`: cleared by one step before the exit ends | `DriveDoesNotBleed` covers a clearing that fails |
| frames received | `CanRxRing` | `Supervisor`: a status or none in each poll; `MissionRequest`: a request, some ticks old | `RingIsAQueue` |

## 10. Plan

Done, in the order of what decides whether the car keeps its power:
`CanAuthority`; `FaultLog` and `RetainedLog`; `AirMonitor` and
`ContactorPermission`; `CanTxScheduler` and `FrameStream`; `Supervisor`;
`MeasurementStore` and `SnapshotRegister`; `CurrentWindow`, `CanRxRing`,
`ImdCapture`, `FaultPolicies`, `TaskWatchdog`, `CellBalancing`, `SharedLocks`,
`MissionRequest`.

Left:

1. `AdbmsLifecycle`: bring-up and recovery of the monitor chain
   (`app.c` 155-180, `adbms_task.c` 1371-1385, `accumulator.c`).
2. `BusOffWindow`: the interrupt's event array with tick wrap, against the age
   window `CanAuthority` uses.
3. The main fuse monitor.

## 11. Findings

Each is a disagreement between the code and what its documents or comments say,
shown by a run whose single property states the document's sentence.

1. `can_timely` / `TimelyIsBelieved`: the scheduler remembers only the last
   completed generation and its tick. A generation that completed within 500 ms
   can be overwritten by the next, later one before a task has read it, and the
   supervisor latches DISCHARGE_TIMEOUT over a link that had recovered.
2. `hot_charge` / `HotPackStopsCharge`: between 45 and 60 degrees the charge stop
   is set, at 60 and above it is cleared again until the overtemperature has been
   confirmed, and a maximum that alternates between the two hot bands restarts the
   confirmation with every change (`temperature_fault.c` 95).
3. `fault_log_reset` / `ResetKeepsRecords`: recovery's insertion sort holds the
   record it places in a local and copies its neighbour over the only committed
   copy (`ams_safety.c` 293-308). A reset before the local is stored loses a
   committed record; the copy left behind is dropped by the next recovery, so
   nothing tells. The comment at 197 expects a second copy and
   `CONCURRENCY_OWNERSHIP.md` 65 says that uncommitted or corrupt entries are what
   recovery discards. `KeepsJournal` bounds the damage: that one record, no other.

### Observations

Met while modelling, no run spent on them. The first can be seen by giving
`CanVehicle.cfg` service commands, the second by checking `GateIsExplained` as an
invariant in `CanService.cfg`.

- A bus-off in START keeps START as its recovery state, for which there is no
  deadline (`app.h` 437 against `SAFETY_POLICY_CLOSEOUT_v2.6.23.md` 22); after the
  service command BMS_OK may stand over an unrecovered bus-off
  (`RideThroughIsBounded` with service commands).
- A load error acknowledged in a poll that also sees another error code leaves the
  transmit gate shut with no reason left to open it (`canbus.c` 2490 against the
  comment at 219-222): `GateIsExplained` is violated by that poll, and by no other
  step (`GateStaysExplained`).
- ADBMS events are committed and then treated as damage by the next call, a
  snapshot included (`ams_safety.c` 125 against `CONCURRENCY_OWNERSHIP.md` 65). In
  a full ring such an event still takes the oldest record's place.
- A task of the safety mask that has never kicked is not stale for the 3 s of the
  startup grace, and nothing else in the readiness asks for it: with the fan task
  dead from the start BMS_OK can be high until then (`app.c` 274-280,
  `error_task.c` 215-293), where the migration plan v0.5.30, line 478, says that
  "BMS authority remains independently fail-low" in the grace. `PermitIsAlive`
  therefore allows such a task the grace.
- A bus-off with automatic recovery between the poll's event snapshot and its
  recovery snapshot (`canbus.c` 2411) is adopted as the one being recovered, and
  the commit clears its fault before the event is consumed, against the comment
  at 2423. `AuthorityIsSound` holds all the same: the second poll of the cycle
  consumes the event before authority is decided.
- A refresh demanded by a service recovery is cleared when the next bus-off is
  consumed (`canbus.c` 2370), although
  `PRE_ZEPHYR_FINAL_CODE_FIXES_v2.6.24.md` 34 wants it kept until published.
- `canbus_tx_resume_after_refresh` (1411) reopens the gate without asking whether a
  bus-off came since the publication, so frames published before it can be loaded
  (`CAN_SCHEDULER_FIXES_2026-09-04.md` 19). `AuthorityIsEarned` holds all the
  same: such a completion does not count.
- Contactors: once OFF was steady, authority to permit persists; after an
  unlatched transient fault in OFF permission returns within the release time
  even if a contact is by then debounced closed (`air_monitor.c` 958-964 against
  `AIR_CONTACTOR_MONITORING.md` 177-180). `PermitIsInTime` bounds it. Debounce
  candidates keep their age over an outage of feedback (121).
- Balancing: the command line records the result of its clearing after it has
  released the SPI lock (`cli_task.c` 148-151). A scan in between sees a failed
  clearing as none and publishes its cells as recovered; a success recorded late
  clears the write fault of a scan that failed since. `PlanIsRemembered` and
  `MeasuredAtRest` name the window; the pending mute closes it.
- Balancing: while a plan takes effect the "verified zero" field is withdrawn
  before the "active" field is set (`adbms_task.c` 1714, 1743); a supervisor pass
  in between drops BMS_OK for one period. A mute asked for during the programming
  or the sleep after it waits for the next scan.
- Fault policies: a current alternating around 120 A, like a temperature around
  65 degrees, restarts its pending time with every change of band. The startup
  grace of the heartbeats returns after 2^32 ms (`app.c` 261).
- Monitor chain: `spi diagclear` zeroes the driver's reset counters. With one reset
  seen before, the first reset between that clear and the next classification gives
  a total of one again and no new reset (`adbms_task.c` 1003-1009), against the
  comment that it "still recognizes the first new reset after that clear".
- Mission profile: the estimator (priority 8) judges the age of a request with the
  tick it read on entry (`estimator_task.c` 687); one that the CAN task (priority 10)
  took in since has a later tick and counts as 2^32 ms old. The update falls back to
  ENDURANCE, and QUALIFY is not entered again while the vehicle moves: without the
  lower bound of the age `SteadyRequestIsApplied` is violated. A new measurement that
  is published between entry and copy is judged stale in the same way (921), which
  withdraws the limits for one period.
- Mission profile: updates without a solution leave `active_profile` as it was, so
  QUALIFY outlasts any number of them, and of stale requests meanwhile
  (`ams_power_strategy.c` 240-253).
- Insulation monitor: a capture in a tick after the task's entry is judged stale,
  and a silent one looks fresh again after 2^32 ms (`imd.c` 163-166).
- Charger: a load error on the last frame of a shutdown leaves `tx_fail` set
  outside CHARGE until the next exit (`canbus_task.c` 3023, comment at 2620).
- `set_bms(false)` of a task may be preempted between the shadow and the pin, and
  between its look at the mute request and its own; `ShadowIsHonest` and
  `BleedingEnds` hold nevertheless.

## 12. What the checks do and do not say

Proved for all constants: the 55 theorems listed in `PROJECT.json`. Liveness
under fairness and everything with ENABLED is model-checked only; so are
the properties named in each section as such. The provers cannot instantiate the library's
induction theorems, so nothing is said for all inputs of a recursive definition;
no model needs one.

Not modelled, and why:

- numeric estimation (`estimator/`, `sop/` but for the mission profile, `soh/`), the parallel-connection
  observer, unit conversion, the thermistor table: arithmetic without control;
- register access of the cell monitors and sensors, printing and parsing of the
  command line, RTOS diagnostics, fans: no state a safety decision reads;
- the vendored HAL, CMSIS and kernel, start-up code, and the host tests: not this
  program's logic. They make up most of the repository's lines, and the command
  line and the device drivers most of the rest, so the map covers a small share of
  them; of the files the models are about it covers the functions that decide;
- the watchdog's panic and the stop-feed test of the fault-injection build; the
  freshness of the contactor publication (`error_task.c` 29-71), compiled only with
  `AMS_ENABLE_AIR_AUX_FEEDBACK`; the reset functions of the fault latches, which
  the firmware never calls; HIL branches;
- what section 10 leaves, with its hazards: the clock's wrap after 2^32 ms is
  listed without a property, because a model with wrapping ages of every timer
  would be checked for little else.
