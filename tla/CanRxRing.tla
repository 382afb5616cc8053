----------------------------- MODULE CanRxRing -----------------------------
(***************************************************************************)
(* CAN reception (canbus.c): the receive interrupt puts frames into a ring *)
(* and counts the ones it loses; the CAN task reports the losses and takes *)
(* the frames out, once per cycle.  One producer, one consumer, no lock:   *)
(* the interrupt owns the head, the task the tail.  The interrupt is       *)
(* atomic for the task and may come between any two of its accesses.       *)
(***************************************************************************)
EXTENDS Integers, Sequences

CONSTANTS
  Depth,     \* CANBUS_RX_QUEUE_DEPTH
  Names,     \* frames are named 0 .. Names - 1 in turn, Names > Depth
  MaxLosses, \* bound on the losses that are counted
  MaxBurst   \* bound on the frames that arrive during one cycle

Halves == {"head", "data"}      \* identifier and length; payload
FrameNames == 0 .. Names - 1
Frames == [Halves -> FrameNames]
Whole(name) == [part \in Halves |-> name]

VARIABLES
  ring,     \* rx_queue, rx_queue_head, rx_queue_tail
  losses,   \* the loss counters, what was reported of them, can_error_count
  task,     \* where the CAN task is
  waiting,  \* history: the frames that were accepted and not taken out
  cycle     \* history: the name of the next frame, how many came in this
            \* cycle, how many that waited when it began still do

vars == <<ring, losses, task, waiting, cycle>>

Slots == 0 .. Depth - 1

TypeOK ==
  /\ ring \in [head : Slots, tail : Slots, slot : [Slots -> Frames]]
  /\ losses \in [count : 0 .. MaxLosses, reported : 0 .. MaxLosses,
                 recorded : 0 .. MaxLosses]
  /\ task \in [pc : {"idle", "record", "look", "copy"},
               count : 0 .. MaxLosses, tail : Slots, left : SUBSET Halves,
               frame : Frames, processed : 0 .. Depth]
  /\ waiting \in Seq(FrameNames) /\ Len(waiting) < Depth
  /\ cycle \in [name : FrameNames, arrived : 0 .. MaxBurst, owed : Slots]

Init ==
  /\ ring = [head |-> 0, tail |-> 0, slot |-> [s \in Slots |-> Whole(0)]]
  /\ losses = [count |-> 0, reported |-> 0, recorded |-> 0]
  /\ task = [pc |-> "idle", count |-> 0, tail |-> 0, left |-> {},
             frame |-> Whole(0), processed |-> 0]
  /\ waiting = <<>>
  /\ cycle = [name |-> 0, arrived |-> 0, owed |-> 0]

-----------------------------------------------------------------------------
QueueNext(index) == IF index + 1 >= Depth THEN 0 ELSE index + 1

QueueCount(head, tail) ==
  IF head >= tail THEN head - tail ELSE Depth - tail + head

Full == QueueNext(ring.head) = ring.tail

Filled == [ring EXCEPT !.slot[ring.head] = Whole(cycle.name),
                       !.head = QueueNext(@)]

Arrive ==
  /\ cycle.arrived < MaxBurst
  /\ cycle' = [cycle EXCEPT !.name = (@ + 1) % Names, !.arrived = @ + 1]

Enqueue ==
  /\ ~Full
  /\ Arrive
  /\ ring' = Filled
  /\ waiting' = Append(waiting, cycle.name)
  /\ UNCHANGED <<losses, task>>

Counted == [losses EXCEPT !.count = @ + 1]

Drop ==
  /\ Full
  /\ losses.count < MaxLosses
  /\ Arrive
  /\ losses' = Counted
  /\ UNCHANGED <<ring, task, waiting>>

(* The HAL cannot read the frame, or the controller's FIFO overran: the    *)
(* three counters are added up when they are reported.                     *)
LoseInHardware ==
  /\ losses.count < MaxLosses
  /\ losses' = Counted
  /\ UNCHANGED <<ring, task, waiting, cycle>>

-----------------------------------------------------------------------------
(* The task reads the counters first and then settles with what it read.   *)
BeginCycle ==
  /\ task.pc = "idle"
  /\ task' = [task EXCEPT !.pc = "record", !.count = losses.count,
                          !.processed = 0]
  /\ cycle' = [cycle EXCEPT !.arrived = 0, !.owed = Len(waiting)]
  /\ UNCHANGED <<ring, losses, waiting>>

(* Seeded fault: the counters are read again when they are settled.        *)
SettledAfresh == [losses EXCEPT !.reported = losses.count,
                                !.recorded = @ + (task.count
                                                  - losses.reported)]

Settled == [losses EXCEPT !.reported = task.count,
                          !.recorded = @ + (task.count - losses.reported)]

RecordRxLoss ==
  /\ task.pc = "record"
  /\ losses' = Settled
  /\ task' = [task EXCEPT !.pc = "look"]
  /\ UNCHANGED <<ring, waiting, cycle>>

MayTake == task.processed < Depth /\ ring.tail # ring.head

Look ==
  /\ task.pc = "look"
  /\ MayTake
  /\ task' = [task EXCEPT !.pc = "copy", !.tail = ring.tail, !.left = Halves]
  /\ UNCHANGED <<ring, losses, waiting, cycle>>

EndCycle ==
  /\ task.pc = "look"
  /\ ~MayTake
  /\ task' = [task EXCEPT !.pc = "idle"]
  /\ UNCHANGED <<ring, losses, waiting, cycle>>

CopyPart(part) ==
  /\ task.pc = "copy"
  /\ part \in task.left
  /\ task' = [task EXCEPT !.frame[part] = ring.slot[task.tail][part],
                          !.left = @ \ {part}]
  /\ UNCHANGED <<ring, losses, waiting, cycle>>

(* The slot is free for the interrupt from here on, and the frame is       *)
(* processed: a charger status is dated by its arrival, not by this.       *)
Advance ==
  /\ task.pc = "copy"
  /\ task.left = {}
  /\ ring' = [ring EXCEPT !.tail = QueueNext(task.tail)]
  /\ task' = [task EXCEPT !.pc = "look", !.processed = @ + 1]
  /\ waiting' = Tail(waiting)
  /\ cycle' = [cycle EXCEPT !.owed = IF @ > 0 THEN @ - 1 ELSE 0]
  /\ UNCHANGED losses

Next ==
  \/ Enqueue \/ Drop \/ LoseInHardware
  \/ BeginCycle \/ RecordRxLoss \/ Look \/ EndCycle \/ Advance
  \/ \E part \in Halves : CopyPart(part)

Spec == Init /\ [][Next]_vars

-----------------------------------------------------------------------------
(* The ring is a queue without a lock: the task takes out the frames that  *)
(* were accepted, each whole, once, and in the order they came             *)
(* (CONCURRENCY_OWNERSHIP.md 33-56).                                       *)
DeliversInOrder ==
  Advance => waiting # <<>> /\ task.frame = Whole(Head(waiting))

(* A frame is dropped only while Depth - 1 of them wait, and that is what  *)
(* the fill level says which the telemetry reports.                        *)
DropsMeanFull ==
  Drop => /\ Len(waiting) = Depth - 1
          /\ QueueCount(ring.head, ring.tail) = Depth - 1

(* Every loss is added to the error count once, also one that is counted   *)
(* while the task is adding up.                                            *)
LossesAreRecorded == losses.recorded = losses.reported

(* A cycle takes out every frame that waited when it began, whatever comes *)
(* in the meantime.                                                        *)
CycleServesWaiting == EndCycle => cycle.owed = 0
=============================================================================
