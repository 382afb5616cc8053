--------------------------- MODULE CanRxRing_proofs ---------------------------
(***************************************************************************)
(* The receive ring is a queue for every depth, any number of names, of    *)
(* losses and of frames in a cycle.                                        *)
(*                                                                         *)
(* The argument: the frames that wait are the slots from the tail to the   *)
(* head, in order.  The interrupt writes the slot at the head, which is    *)
(* not one of them because one slot stays free; the task moves the tail    *)
(* after its copy.  So what the task has copied is still in the slot.      *)
(***************************************************************************)
EXTENDS CanRxRing, TLAPS

RingConstants ==
  /\ Depth \in Nat \ {0}
  /\ Names \in Nat \ {0}
  /\ MaxLosses \in Nat
  /\ MaxBurst \in Nat

(* The slot that is n places after the tail.                               *)
Place(tail, n) == IF tail + n >= Depth THEN tail + n - Depth ELSE tail + n

(* The ring holds the frames that wait.                                    *)
HoldsWaiting ==
  /\ Len(waiting) = QueueCount(ring.head, ring.tail)
  /\ \A n \in 1 .. Len(waiting) :
       ring.slot[Place(ring.tail, n - 1)] = Whole(waiting[n])

(* What has been copied belongs to the frame that has waited longest.      *)
CopyAgrees ==
  task.pc = "copy" =>
    /\ task.tail = ring.tail
    /\ task.processed < Depth
    /\ waiting # <<>>
    /\ \A part \in Halves \ task.left : task.frame[part] = waiting[1]

(* Nothing is reported that was not counted.                               *)
CountsAgree ==
  /\ losses.recorded = losses.reported
  /\ losses.reported <= losses.count
  /\ task.count <= losses.count
  /\ task.pc = "record" => losses.reported <= task.count

(* What is owed still waits, and fits in what the cycle may still take.    *)
OwedIsServed ==
  /\ cycle.owed <= Len(waiting)
  /\ cycle.owed = 0 \/ cycle.owed + task.processed < Depth

Inv == TypeOK /\ HoldsWaiting /\ CopyAgrees /\ CountsAgree /\ OwedIsServed

-----------------------------------------------------------------------------
(* A frame is its name in both halves.                                     *)
LEMMA WholeIsAFrame ==
  ASSUME NEW name \in FrameNames
  PROVE  /\ Whole(name) \in Frames
         /\ \A part \in Halves : Whole(name)[part] = name
  BY DEF Whole, Frames

(* The ring is empty when head and tail agree, full when one slot is free, *)
(* and the interrupt adds one to its fill level.                           *)
LEMMA FillLevel ==
  ASSUME RingConstants, NEW head \in Slots, NEW tail \in Slots
  PROVE  /\ QueueNext(head) \in Slots
         /\ QueueCount(head, tail) \in Slots
         /\ QueueCount(head, tail) = 0 <=> head = tail
         /\ QueueNext(head) = tail <=> QueueCount(head, tail) = Depth - 1
         /\ QueueNext(head) # tail =>
              QueueCount(QueueNext(head), tail) = QueueCount(head, tail) + 1
         /\ head # tail =>
              QueueCount(head, QueueNext(tail)) = QueueCount(head, tail) - 1
  BY DEF RingConstants, Slots, QueueNext, QueueCount

(* The places from the tail on are slots, each another, the head's is the  *)
(* first free one, and moving the tail renumbers them.                     *)
LEMMA PlacesFromTail ==
  ASSUME RingConstants, NEW head \in Slots, NEW tail \in Slots
  PROVE  /\ \A n \in Slots : Place(tail, n) \in Slots
         /\ Place(tail, 0) = tail
         /\ Place(tail, QueueCount(head, tail)) = head
         /\ \A m \in Slots, n \in Slots :
              Place(tail, m) = Place(tail, n) => m = n
         /\ \A n \in Slots : n + 1 \in Slots =>
              Place(QueueNext(tail), n) = Place(tail, n + 1)
  BY DEF RingConstants, Slots, QueueNext, QueueCount, Place

(* The invariant holds in the beginning.                                   *)
LEMMA InitInv == ASSUME RingConstants, Init PROVE Inv
  <1>1. 0 \in FrameNames /\ 0 \in Slots
    BY DEF RingConstants, FrameNames, Slots
  <1>2. Whole(0) \in Frames
    BY <1>1, WholeIsAFrame
  <1>3. TypeOK
    BY <1>1, <1>2 DEF TypeOK, Init, RingConstants, Slots
  <1>4. HoldsWaiting
    BY <1>1, FillLevel DEF HoldsWaiting, Init
  <1>5. CopyAgrees /\ CountsAgree /\ OwedIsServed
    BY DEF CopyAgrees, CountsAgree, OwedIsServed, Init
  <1> QED BY <1>3, <1>4, <1>5 DEF Inv

(* An arrival keeps the types of the history.                              *)
LEMMA ArriveKeepsType ==
  ASSUME RingConstants, TypeOK, Arrive
  PROVE  /\ cycle' \in [name : FrameNames, arrived : 0 .. MaxBurst,
                       owed : Slots]
         /\ cycle'.owed = cycle.owed
  <1>1. \A n \in Nat : (n + 1) % Names \in FrameNames
    BY DEF RingConstants, FrameNames
  <1>2. (cycle.name + 1) % Names \in FrameNames
    BY <1>1 DEF TypeOK, FrameNames, RingConstants
  <1>3. cycle.arrived + 1 \in 0 .. MaxBurst
    BY DEF TypeOK, Arrive, RingConstants
  <1> QED BY <1>2, <1>3 DEF TypeOK, Arrive

(* The interrupt stores a frame behind those that wait.                    *)
LEMMA EnqueueInv == ASSUME RingConstants, Inv, Enqueue PROVE Inv'
  <1> USE DEF Inv
  <1> DEFINE h == ring.head
             t == ring.tail
             c == QueueCount(h, t)
  <1>0. h \in Slots /\ t \in Slots /\ cycle.name \in FrameNames
    BY DEF TypeOK
  <1>1. /\ ring' = [ring EXCEPT !.slot[h] = Whole(cycle.name),
                                !.head = QueueNext(h)]
        /\ ring'.tail = t /\ ring'.head = QueueNext(h)
        /\ ring'.slot = [ring.slot EXCEPT ![h] = Whole(cycle.name)]
        /\ QueueNext(h) # t
    BY DEF Enqueue, Filled, Full, TypeOK
  <1>2. /\ waiting' = Append(waiting, cycle.name)
        /\ Len(waiting) = c /\ Len(waiting') = c + 1
        /\ c + 1 \in Slots /\ c \in Slots
    <2>1. waiting' = Append(waiting, cycle.name)
      BY DEF Enqueue
    <2>2. c + 1 = QueueCount(QueueNext(h), t) /\ QueueNext(h) \in Slots
      BY <1>0, <1>1, FillLevel
    <2>3. c + 1 \in Slots /\ c \in Slots
      BY <2>2, <1>0, FillLevel
    <2>4. Len(waiting) = c /\ waiting \in Seq(FrameNames)
      BY DEF HoldsWaiting, TypeOK
    <2>5. Len(waiting') = c + 1
      BY <2>1, <2>4, <1>0
    <2> QED BY <2>1, <2>3, <2>4, <2>5
  <1>3. TypeOK'
    <2>1. Whole(cycle.name) \in Frames
      BY <1>0, WholeIsAFrame
    <2>2. ring' \in [head : Slots, tail : Slots, slot : [Slots -> Frames]]
      BY <1>0, <1>1, <2>1, FillLevel DEF TypeOK
    <2>3. waiting' \in Seq(FrameNames) /\ Len(waiting') < Depth
      BY <1>0, <1>2 DEF TypeOK, Slots, RingConstants
    <2>4. cycle' \in [name : FrameNames, arrived : 0 .. MaxBurst,
                      owed : Slots]
      BY ArriveKeepsType DEF TypeOK, Enqueue
    <2> QED BY <2>2, <2>3, <2>4 DEF TypeOK, Enqueue
  <1>4. HoldsWaiting'
    <2>1. Len(waiting') = QueueCount(ring.head', ring.tail')
      BY <1>0, <1>1, <1>2, FillLevel
    <2>2. ASSUME NEW n \in 1 .. c + 1
          PROVE  ring'.slot[Place(t, n - 1)] = Whole(waiting'[n])
      <3>1. CASE n = c + 1
        <4>1. Place(t, n - 1) = h
          <5>1. n - 1 = c
            BY <3>1, <1>2 DEF Slots
          <5> QED BY <5>1, <1>0, PlacesFromTail
        <4>2. waiting'[n] = cycle.name
          BY <3>1, <1>2 DEF TypeOK
        <4> QED BY <4>1, <4>2, <1>0, <1>1 DEF TypeOK
      <3>2. CASE n \in 1 .. c
        <4>1. n - 1 \in Slots /\ n - 1 # c
          BY <3>2, <1>2 DEF Slots, RingConstants
        <4>2. /\ Place(t, n - 1) \in Slots /\ Place(t, c) = h
              /\ Place(t, n - 1) = Place(t, c) => n - 1 = c
          BY <4>1, <1>0, <1>2, PlacesFromTail
        <4>3. waiting'[n] = waiting[n]
          BY <3>2, <1>0, <1>2 DEF TypeOK
        <4>4. ring.slot[Place(t, n - 1)] = Whole(waiting[n])
          BY <3>2, <1>2 DEF HoldsWaiting
        <4> QED BY <4>1, <4>2, <4>3, <4>4, <1>1 DEF TypeOK
      <3> QED BY <3>1, <3>2, <1>2 DEF Slots
    <2> QED BY <2>1, <2>2, <1>1, <1>2 DEF HoldsWaiting
  <1>5. CopyAgrees'
    <2>1. waiting # <<>> => waiting'[1] = waiting[1]
      BY <1>0, <1>2 DEF TypeOK
    <2>2. waiting' # <<>>
      BY <1>2 DEF Slots
    <2> QED BY <2>1, <2>2, <1>1 DEF CopyAgrees, Enqueue
  <1>6. CountsAgree'
    BY DEF CountsAgree, Enqueue
  <1>7. OwedIsServed'
    <2>1. cycle'.owed = cycle.owed /\ task' = task
      BY ArriveKeepsType DEF Enqueue
    <2>2. Len(waiting) <= Len(waiting')
      BY <1>2 DEF Slots
    <2> QED BY <2>1, <2>2, <1>2 DEF OwedIsServed, TypeOK, Slots
  <1> QED BY <1>3, <1>4, <1>5, <1>6, <1>7

(* A loss is counted.                                                      *)
LEMMA LossInv ==
  ASSUME RingConstants, Inv, Drop \/ LoseInHardware
  PROVE  Inv'
  <1> USE DEF Inv
  <1>1. UNCHANGED <<ring, task, waiting>>
    BY DEF Drop, LoseInHardware
  <1>2. /\ losses' \in [count : 0 .. MaxLosses, reported : 0 .. MaxLosses,
                        recorded : 0 .. MaxLosses]
        /\ losses'.count = losses.count + 1
        /\ losses'.reported = losses.reported
        /\ losses'.recorded = losses.recorded
    BY DEF Drop, LoseInHardware, Counted, TypeOK, RingConstants
  <1>3. /\ cycle' \in [name : FrameNames, arrived : 0 .. MaxBurst,
                       owed : Slots]
        /\ cycle'.owed = cycle.owed
    BY ArriveKeepsType DEF Drop, LoseInHardware, TypeOK
  <1>4. TypeOK'
    BY <1>1, <1>2, <1>3 DEF TypeOK
  <1>5. HoldsWaiting' /\ CopyAgrees' /\ OwedIsServed'
    BY <1>1, <1>3 DEF HoldsWaiting, CopyAgrees, OwedIsServed
  <1>6. CountsAgree'
    BY <1>1, <1>2 DEF CountsAgree, TypeOK, RingConstants
  <1> QED BY <1>4, <1>5, <1>6

(* The task begins a cycle with what waits.                                *)
LEMMA BeginInv == ASSUME RingConstants, Inv, BeginCycle PROVE Inv'
  <1> USE DEF Inv
  <1>1. UNCHANGED <<ring, losses, waiting>>
    BY DEF BeginCycle
  <1>2. Len(waiting) \in Slots
    BY DEF TypeOK, Slots, RingConstants
  <1>3. /\ task' = [task EXCEPT !.pc = "record", !.count = losses.count,
                                !.processed = 0]
        /\ cycle' = [cycle EXCEPT !.arrived = 0, !.owed = Len(waiting)]
    BY DEF BeginCycle
  <1>4. TypeOK'
    <2>1. 0 \in 0 .. Depth /\ 0 \in 0 .. MaxBurst
      BY DEF RingConstants
    <2>2. task' \in [pc : {"idle", "record", "look", "copy"},
                     count : 0 .. MaxLosses, tail : Slots,
                     left : SUBSET Halves, frame : Frames,
                     processed : 0 .. Depth]
      BY <1>3, <2>1 DEF TypeOK
    <2>3. cycle' \in [name : FrameNames, arrived : 0 .. MaxBurst,
                      owed : Slots]
      BY <1>2, <1>3, <2>1 DEF TypeOK
    <2> QED BY <1>1, <2>2, <2>3 DEF TypeOK
  <1>5. HoldsWaiting' /\ CopyAgrees'
    BY <1>1, <1>3 DEF HoldsWaiting, CopyAgrees, TypeOK
  <1>6. CountsAgree'
    BY <1>1, <1>3 DEF CountsAgree, TypeOK, RingConstants
  <1>7. OwedIsServed'
    BY <1>1, <1>2, <1>3 DEF OwedIsServed, TypeOK, Slots, RingConstants
  <1> QED BY <1>4, <1>5, <1>6, <1>7

(* The task settles the losses with the count it has read.                 *)
LEMMA RecordInv == ASSUME RingConstants, Inv, RecordRxLoss PROVE Inv'
  <1> USE DEF Inv
  <1>1. /\ UNCHANGED <<ring, waiting, cycle>>
        /\ task' = [task EXCEPT !.pc = "look"]
    BY DEF RecordRxLoss
  <1>2. /\ losses.recorded = losses.reported
        /\ losses.recorded \in Nat /\ task.count \in 0 .. MaxLosses
    BY DEF CountsAgree, TypeOK, RingConstants
  <1>3. losses.recorded + (task.count - losses.reported) = task.count
    BY <1>2, MaxLosses \in Nat DEF RingConstants
  <1>4. losses' = [losses EXCEPT !.reported = task.count,
                                 !.recorded = task.count]
    BY <1>3 DEF RecordRxLoss, Settled, TypeOK
  <1>5. TypeOK'
    BY <1>1, <1>2, <1>4 DEF TypeOK
  <1>6. HoldsWaiting' /\ CopyAgrees' /\ OwedIsServed'
    BY <1>1 DEF HoldsWaiting, CopyAgrees, OwedIsServed, TypeOK
  <1>7. CountsAgree'
    BY <1>1, <1>2, <1>4 DEF CountsAgree, TypeOK
  <1> QED BY <1>5, <1>6, <1>7

(* The task sees a frame, or ends its cycle.                               *)
LEMMA LookInv == ASSUME RingConstants, Inv, Look \/ EndCycle PROVE Inv'
  <1> USE DEF Inv
  <1>1. UNCHANGED <<ring, losses, waiting, cycle>>
    BY DEF Look, EndCycle
  <1>2. /\ task' \in [pc : {"idle", "record", "look", "copy"},
                      count : 0 .. MaxLosses, tail : Slots,
                      left : SUBSET Halves, frame : Frames,
                      processed : 0 .. Depth]
        /\ task'.pc \in {"idle", "copy"}
        /\ task'.count = task.count /\ task'.processed = task.processed
    BY DEF Look, EndCycle, TypeOK
  <1>3. HoldsWaiting' /\ CountsAgree' /\ OwedIsServed' /\ TypeOK'
    BY <1>1, <1>2 DEF HoldsWaiting, CountsAgree, OwedIsServed, TypeOK
  <1>4. CopyAgrees'
    <2>1. CASE Look
      <3>1. /\ task'.tail = ring.tail /\ task'.left = Halves
            /\ task.processed < Depth /\ ring.tail # ring.head
        BY <2>1 DEF Look, MayTake, TypeOK
      <3>2. Len(waiting) # 0
        BY <3>1, FillLevel DEF HoldsWaiting, TypeOK
      <3> QED BY <1>1, <1>2, <3>1, <3>2 DEF CopyAgrees, TypeOK
    <2>2. CASE EndCycle
      BY <2>2 DEF CopyAgrees, EndCycle, TypeOK
    <2> QED BY <2>1, <2>2
  <1> QED BY <1>3, <1>4

(* The task copies half of a frame that the interrupt leaves alone.        *)
LEMMA CopyInv ==
  ASSUME RingConstants, Inv, NEW part \in Halves, CopyPart(part)
  PROVE  Inv'
  <1> USE DEF Inv
  <1>1. /\ UNCHANGED <<ring, losses, waiting, cycle>>
        /\ task' = [task EXCEPT !.frame[part] = ring.slot[task.tail][part],
                                !.left = @ \ {part}]
        /\ task.pc = "copy"
    BY DEF CopyPart
  <1>2. /\ ring.tail \in Slots /\ task.tail = ring.tail /\ waiting # <<>>
        /\ waiting \in Seq(FrameNames)
        /\ 1 \in 1 .. Len(waiting) /\ waiting[1] \in FrameNames
    BY <1>1 DEF CopyAgrees, TypeOK
  <1>3. ring.slot[ring.tail][part] = waiting[1]
    <2>1. Place(ring.tail, 1 - 1) = ring.tail
      BY <1>2, PlacesFromTail DEF TypeOK
    <2>2. ring.slot[ring.tail] = Whole(waiting[1])
      BY <1>2, <2>1 DEF HoldsWaiting
    <2> QED BY <1>2, <2>2, WholeIsAFrame
  <1>4. /\ task'.frame = [task.frame EXCEPT ![part] = waiting[1]]
        /\ task'.frame \in Frames
    BY <1>1, <1>2, <1>3 DEF TypeOK, Frames
  <1>5. /\ task'.left = task.left \ {part} /\ task'.pc = task.pc
        /\ task'.count = task.count /\ task'.tail = task.tail
        /\ task'.processed = task.processed
    BY <1>1 DEF TypeOK
  <1>6. TypeOK'
    BY <1>1, <1>4, <1>5 DEF TypeOK
  <1>7. HoldsWaiting' /\ CountsAgree' /\ OwedIsServed'
    BY <1>1, <1>5 DEF HoldsWaiting, CountsAgree, OwedIsServed
  <1>8. CopyAgrees'
    BY <1>1, <1>4, <1>5 DEF CopyAgrees, TypeOK, Frames
  <1> QED BY <1>6, <1>7, <1>8

(* The task gives the slot back.                                           *)
LEMMA AdvanceInv == ASSUME RingConstants, Inv, Advance PROVE Inv'
  <1> USE DEF Inv
  <1> DEFINE h == ring.head
             t == ring.tail
             c == QueueCount(h, t)
  <1>1. /\ task.pc = "copy" /\ task.tail = t /\ task.processed < Depth
        /\ waiting # <<>> /\ waiting \in Seq(FrameNames)
        /\ h \in Slots /\ t \in Slots /\ Len(waiting) = c /\ c \in Slots
        /\ UNCHANGED losses
    <2>1. h \in Slots /\ t \in Slots
      BY DEF TypeOK
    <2>2. /\ task.pc = "copy" /\ task.tail = t /\ task.processed < Depth
          /\ waiting # <<>> /\ UNCHANGED losses
      BY DEF Advance, CopyAgrees
    <2>3. waiting \in Seq(FrameNames) /\ Len(waiting) = c
      BY DEF TypeOK, HoldsWaiting
    <2> QED BY <2>1, <2>2, <2>3, FillLevel
  <1>2. /\ ring' = [ring EXCEPT !.tail = QueueNext(t)]
        /\ ring'.head = h /\ ring'.tail = QueueNext(t)
        /\ ring'.slot = ring.slot /\ QueueNext(t) \in Slots
    BY <1>1, FillLevel DEF Advance, TypeOK
  <1>3. /\ waiting' = Tail(waiting) /\ waiting' \in Seq(FrameNames)
        /\ Len(waiting') = c - 1 /\ c >= 1
        /\ \A n \in 1 .. c - 1 : waiting'[n] = waiting[n + 1]
    BY <1>1 DEF Advance
  <1>4. /\ task' = [task EXCEPT !.pc = "look", !.processed = @ + 1]
        /\ task'.pc = "look" /\ task'.processed = task.processed + 1
        /\ task'.count = task.count
    BY DEF Advance, TypeOK
  <1>5. /\ cycle'.owed = IF cycle.owed > 0 THEN cycle.owed - 1 ELSE 0
        /\ cycle' \in [name : FrameNames, arrived : 0 .. MaxBurst,
                       owed : Slots]
    <2>1. cycle' = [cycle EXCEPT !.owed = IF @ > 0 THEN @ - 1 ELSE 0]
      BY DEF Advance
    <2>2. \A n \in Slots : (IF n > 0 THEN n - 1 ELSE 0) \in Slots
      BY DEF Slots, RingConstants
    <2> QED BY <2>1, <2>2 DEF TypeOK
  <1>6. TypeOK'
    <2>1. waiting' \in Seq(FrameNames) /\ Len(waiting') < Depth
      BY <1>1, <1>3 DEF Slots, RingConstants
    <2>2. ring' \in [head : Slots, tail : Slots, slot : [Slots -> Frames]]
      BY <1>2 DEF TypeOK
    <2>3. task' \in [pc : {"idle", "record", "look", "copy"},
                     count : 0 .. MaxLosses, tail : Slots,
                     left : SUBSET Halves, frame : Frames,
                     processed : 0 .. Depth]
      <3>1. task.processed + 1 \in 0 .. Depth
        BY <1>1 DEF TypeOK, RingConstants
      <3> QED BY <1>4, <3>1 DEF TypeOK
    <2> QED BY <1>1, <1>5, <2>1, <2>2, <2>3 DEF TypeOK
  <1>7. HoldsWaiting'
    <2>1. h # t /\ QueueCount(h, QueueNext(t)) = c - 1
      <3>1. c # 0
        BY <1>1, <1>3 DEF Slots
      <3> QED BY <3>1, <1>1, FillLevel
    <2>2. ASSUME NEW n \in 1 .. c - 1
          PROVE  ring.slot[Place(QueueNext(t), n - 1)] = Whole(waiting'[n])
      <3>1. n - 1 \in Slots /\ (n - 1) + 1 \in Slots /\ n + 1 \in 1 .. c
        BY <1>1 DEF Slots, RingConstants
      <3>2. Place(QueueNext(t), n - 1) = Place(t, (n - 1) + 1)
        BY <3>1, <1>1, PlacesFromTail
      <3>3. ring.slot[Place(t, (n + 1) - 1)] = Whole(waiting[n + 1])
        BY <3>1, <1>1 DEF HoldsWaiting
      <3>4. (n - 1) + 1 = (n + 1) - 1
        BY <3>1
      <3> QED BY <3>2, <3>3, <3>4, <1>3
    <2> QED BY <1>2, <1>3, <2>1, <2>2 DEF HoldsWaiting
  <1>8. CopyAgrees'
    BY <1>4 DEF CopyAgrees
  <1>9. CountsAgree'
    BY <1>1, <1>4 DEF CountsAgree
  <1>10. OwedIsServed'
    <2>1. /\ cycle.owed \in Nat /\ c \in Nat /\ task.processed \in Nat
          /\ cycle.owed <= c
          /\ cycle.owed = 0 \/ cycle.owed + task.processed < Depth
      BY <1>1 DEF OwedIsServed, TypeOK, Slots, RingConstants
    <2> QED BY <2>1, <1>3, <1>4, <1>5 DEF OwedIsServed, RingConstants
  <1> QED BY <1>6, <1>7, <1>8, <1>9, <1>10

(* A step that changes nothing keeps the invariant.                        *)
LEMMA StutterInv == ASSUME Inv, UNCHANGED vars PROVE Inv'
  BY DEF vars, Inv, TypeOK, HoldsWaiting, CopyAgrees, CountsAgree,
         OwedIsServed

(* Every step keeps the invariant.                                         *)
LEMMA NextInv == ASSUME RingConstants, Inv, [Next]_vars PROVE Inv'
  <1>1. CASE Next
    BY <1>1, EnqueueInv, LossInv, BeginInv, RecordInv, LookInv, CopyInv,
       AdvanceInv DEF Next
  <1> QED BY <1>1, StutterInv

(* The invariant always holds.                                             *)
LEMMA InvAlways == ASSUME RingConstants PROVE Spec => []Inv
  BY InitInv, NextInv, PTL DEF Spec

-----------------------------------------------------------------------------
(* What the task has copied is the frame that has waited longest.          *)
LEMMA DeliverySound == ASSUME RingConstants, Inv PROVE DeliversInOrder
  <1> SUFFICES ASSUME Advance
               PROVE  waiting # <<>> /\ task.frame = Whole(Head(waiting))
    BY DEF DeliversInOrder
  <1>1. /\ waiting # <<>> /\ task.left = {} /\ task.frame \in Frames
        /\ \A part \in Halves : task.frame[part] = waiting[1]
    BY DEF Inv, CopyAgrees, TypeOK, Advance
  <1>2. task.frame = Whole(waiting[1])
    BY <1>1 DEF Frames, Whole
  <1> QED BY <1>1, <1>2

(* The interrupt's fill level is the number of frames that wait.           *)
LEMMA DropSound == ASSUME RingConstants, Inv PROVE DropsMeanFull
  BY FillLevel
  DEF Inv, HoldsWaiting, TypeOK, Drop, Full, DropsMeanFull

(* At the end of a cycle nothing is owed: the ring is empty or Depth       *)
(* frames were taken.                                                      *)
LEMMA CycleSound == ASSUME RingConstants, Inv PROVE CycleServesWaiting
  <1> SUFFICES ASSUME EndCycle PROVE cycle.owed = 0
    BY DEF CycleServesWaiting
  <1>1. CASE ring.tail = ring.head
    BY <1>1, FillLevel
    DEF Inv, HoldsWaiting, OwedIsServed, TypeOK, Slots, RingConstants
  <1>2. CASE ~(task.processed < Depth)
    BY <1>2 DEF Inv, OwedIsServed, TypeOK, Slots, RingConstants
  <1> QED BY <1>1, <1>2 DEF EndCycle, MayTake

(* The error count is settled with what is reported.                       *)
LEMMA LossSound == Inv => LossesAreRecorded
  BY DEF Inv, CountsAgree, LossesAreRecorded

-----------------------------------------------------------------------------
(* The task takes out the frames that were accepted, each whole, once and  *)
(* in the order in which canbus_enqueue_from_isr stored them.              *)
THEOREM RingDeliversInOrder ==
  ASSUME RingConstants PROVE Spec => [][DeliversInOrder]_vars
  <1>1. Inv /\ [Next]_vars => [DeliversInOrder]_vars
    BY DeliverySound
  <1> QED BY <1>1, InvAlways, PTL DEF Spec

(* A frame is dropped only while Depth - 1 of them wait, and the fill      *)
(* level that the telemetry reports says so.                               *)
THEOREM RingDropsWhenFull ==
  ASSUME RingConstants PROVE Spec => [][DropsMeanFull]_vars
  <1>1. Inv /\ [Next]_vars => [DropsMeanFull]_vars
    BY DropSound
  <1> QED BY <1>1, InvAlways, PTL DEF Spec

(* A loss that is counted while the task adds up is added in a later       *)
(* cycle: the error count is never behind what was reported.               *)
THEOREM RingRecordsLosses ==
  ASSUME RingConstants PROVE Spec => []LossesAreRecorded
  BY LossSound, InvAlways, PTL

(* A cycle of the CAN task takes out every frame that waited when it       *)
(* began, however many arrive meanwhile.                                   *)
THEOREM RingServesWaiting ==
  ASSUME RingConstants PROVE Spec => [][CycleServesWaiting]_vars
  <1>1. Inv /\ [Next]_vars => [CycleServesWaiting]_vars
    BY CycleSound
  <1> QED BY <1>1, InvAlways, PTL DEF Spec

=============================================================================
