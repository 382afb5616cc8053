--------------------------- MODULE CanTxScheduler ---------------------------
(***************************************************************************)
(* The transmit path of the CAN link: the streams of the scheduler         *)
(* (can_tx_scheduler.c), the pump that moves their frames into the bxCAN   *)
(* mailboxes, and the interrupt that takes them out again (canbus.c).      *)
(*                                                                         *)
(* Actors: the CAN controller, the CAN interrupt and the CAN task, which   *)
(* is the only publisher.  The interrupt preempts the task anywhere, except *)
(* that the mailbox interrupt is masked while a mailbox is being written.  *)
(*                                                                         *)
(* Data.  A generation is its number within its stream; a frame is its     *)
(* place in the generation, required frames before advisory ones.  A token *)
(* carries no controller epoch: a reset waits until no token is left, so   *)
(* the epoch never differs.  Whether the publication finds the active      *)
(* generation at its 100 ms boundary is left open, and so is the order in  *)
(* which the task publishes the streams.  HAL load errors and the latched  *)
(* inhibit shut the same gate and belong to CanAuthority.                  *)
(***************************************************************************)
EXTENDS Naturals, FiniteSets

CONSTANTS
  Streams,      \* those in use
  Frames,       \* of each stream: the frames of a generation
  Advisory,     \* protected frames that authority does not wait for
  Mailboxes,    \* 0..2 in the bxCAN
  MaxGen,       \* bound: generations published per stream
  MaxBusOffs    \* bound: bus-off events in a behaviour

ASSUME ConstantsAssumption ==
  /\ "protected" \in Streams
  /\ Streams \subseteq {"critical", "protected", "detail"}
  /\ Frames \in [Streams -> (SUBSET Nat) \ {{}}]
  /\ Advisory \subseteq Frames["protected"]
  /\ Frames["protected"] \ Advisory # {}
  /\ \A a \in Advisory, r \in Frames["protected"] \ Advisory : r < a
  /\ Mailboxes \subseteq Nat /\ Mailboxes # {}
  /\ MaxGen \in [Streams -> Nat] /\ MaxBusOffs \in Nat

VARIABLES
  queue,     \* of each stream: the active and the pending generation
  mailbox,   \* of each mailbox: its owner in software, its state in hardware
  pump,      \* who pumps, where it is, the token it holds; kick_pending
  task,      \* idle, or between a publication and its aborts
  gate,      \* tx_suspended and what has to happen before it reopens
  wire       \* history: what the receiver has seen

vars == <<queue, mailbox, pump, task, gate, wire>>

Required == Frames["protected"] \ Advisory

NoGen == 0
NoToken == [stream |-> "none", gen |-> NoGen, frame |-> 0]
Token(s, g, f) == [stream |-> s, gen |-> g, frame |-> f]

Fresh(s, g) ==
  [gen |-> g, stale |-> FALSE, frame |-> [f \in Frames[s] |-> "pending"]]

Empty(s) ==
  [gen |-> NoGen, stale |-> FALSE,
   frame |-> [f \in Frames[s] |-> "complete"]]

FreeMailbox ==
  [sw |-> "free", owner |-> NoToken, hw |-> "empty", holds |-> NoToken]

NotPumping == [by |-> "none", pc |-> "idle", token |-> NoToken, kick |-> FALSE]

Init ==
  /\ queue = [s \in Streams |->
       [active |-> Empty(s), pending |-> NoGen, published |-> 0,
        tuning |-> FALSE, last |-> NoGen]]
  /\ mailbox = [m \in Mailboxes |-> FreeMailbox]
  /\ pump = NotPumping /\ task = "idle"
  /\ gate = [suspended |-> FALSE, event |-> FALSE, recovery |-> FALSE,
             refresh |-> FALSE, busOffs |-> 0]
  /\ wire = [s \in Streams |-> [gen |-> NoGen, sent |-> {}]]

-----------------------------------------------------------------------------
(* One stream.  q is the stream as the operation found it.                 *)

Settled(state) == state \in {"complete", "discarded"}

Done(q) == \A f \in DOMAIN q.active.frame : Settled(q.active.frame[f])

(* generation_has_hardware_or_reserved *)
InHardware(q) ==
  \E f \in DOMAIN q.active.frame :
    q.active.frame[f] \in {"reserved", "loaded", "abort"}

(* Seeded fault: the next generation starts when all frames are selected. *)
PromotedEarly(s, q) ==
  IF q.active.gen = NoGen
     \/ \E f \in Frames[s] : q.active.frame[f] \in {"pending", "reserved"}
  THEN q
  ELSE [q EXCEPT !.pending = NoGen,
                 !.active = IF q.pending = NoGen THEN Empty(s)
                            ELSE Fresh(s, q.pending)]

(* promote_critical, promote_protected, promote_detail *)
Promoted(s, q) ==
  IF q.active.gen = NoGen \/ ~Done(q) THEN q
  ELSE [q EXCEPT !.pending = NoGen,
                 !.active = IF q.pending = NoGen THEN Empty(s)
                            ELSE Fresh(s, q.pending)]

(* Seeded fault: a new generation throws away frames already selected. *)
DiscardedAll(a) ==
  [a EXCEPT !.stale = TRUE,
            !.frame = [f \in DOMAIN a.frame |->
                         IF a.frame[f] \in {"pending", "loaded"}
                         THEN "discarded" ELSE a.frame[f]]]

(* The active generation is obsolete: what is not selected yet is dropped. *)
Discarded(a) ==
  [a EXCEPT !.stale = TRUE,
            !.frame = [f \in DOMAIN a.frame |->
                         IF a.frame[f] = "pending" THEN "discarded"
                         ELSE a.frame[f]]]

Started(s, q, g) == [q EXCEPT !.active = Fresh(s, g), !.pending = NoGen]

(* A command replaces one that no mailbox has accepted yet; otherwise it   *)
(* waits until the obsolete one has left the hardware.                     *)
Command(q, g) ==
  IF q.active.gen = NoGen \/ ~InHardware(q) THEN Started("critical", q, g)
  ELSE [q EXCEPT !.active = Discarded(@), !.pending = g]

(* A protected generation is obsolete from its 100 ms boundary on.         *)
Bundle(q, g, boundary) ==
  IF q.active.gen = NoGen THEN Started("protected", q, g)
  ELSE Promoted("protected",
         [q EXCEPT !.active = IF boundary THEN Discarded(@) ELSE @,
                   !.pending = g])

(* Details run to completion; tuning gives way to a waiting snapshot.      *)
Detail(q, g, tuning) ==
  IF q.active.gen = NoGen THEN Started("detail", q, g)
  ELSE IF q.pending # NoGen /\ tuning /\ ~q.tuning THEN q
  ELSE [q EXCEPT !.pending = g, !.tuning = tuning]

(* ams_can_tx_publish_*, in the critical section of canbus_tx_build_commit *)
Published(s, q, option) ==
  LET p == Promoted(s, q)
      g == q.published + 1
      n == CASE s = "critical"  -> Command(p, g)
             [] s = "protected" -> Bundle(p, g, option)
             [] s = "detail"    -> Detail(p, g, option)
  IN  [n EXCEPT !.published = g]

-----------------------------------------------------------------------------
(* Tokens.                                                                 *)

(* find_state: a token that its stream no longer knows finds nothing.      *)
Found(q, t) == t # NoToken /\ q[t.stream].active.gen = t.gen

Marked(q, t, from, to) ==
  IF Found(q, t) /\ q[t.stream].active.frame[t.frame] \in from
  THEN [q EXCEPT ![t.stream].active.frame[t.frame] = to] ELSE q

(* ams_can_tx_token_requires_abort: details never *)
RequiresAbort(q, t) ==
  /\ t.stream \in {"critical", "protected"}
  /\ Found(q, t) /\ q[t.stream].active.stale

PromotedAll(q) == [s \in Streams |-> Promoted(s, q[s])]

(* Seeded fault: an aborted frame counts as delivered. *)
DeliveredWhenSettled(q) ==
  /\ q.active.gen # NoGen /\ q.last # q.active.gen
  /\ \A f \in Required : Settled(q.active.frame[f])

(* protected_required_done, reported once *)
DeliveredNow(q) ==
  /\ q.active.gen # NoGen /\ q.last # q.active.gen
  /\ \A f \in Required : q.active.frame[f] = "complete"

Reported(q) ==
  IF DeliveredNow(q["protected"])
  THEN [q EXCEPT !["protected"].last = q["protected"].active.gen] ELSE q

(* The frames of the active generations that wait, best first.             *)
Waiting(q) ==
  {t \in [stream : Streams, gen : {q[s].active.gen : s \in Streams},
          frame : UNION {Frames[s] : s \in Streams}] :
     /\ t.gen = q[t.stream].active.gen /\ t.frame \in Frames[t.stream]
     /\ q[t.stream].active.frame[t.frame] = "pending"}

Rank(s) == CASE s = "critical" -> 0 [] s = "protected" -> 1
             [] s = "detail" -> 2

Before(t, u) ==
  \/ Rank(t.stream) < Rank(u.stream)
  \/ t.stream = u.stream /\ t.frame < u.frame

(* The one of them that no other precedes.                                 *)
First(q) ==
  LET w == Waiting(q) IN {t \in w : \A u \in w : t = u \/ Before(t, u)}

-----------------------------------------------------------------------------
(* The controller.                                                         *)

(* A mailbox is empty to the HAL although its completion is not served.    *)
HwEmpty(m) == mailbox[m].hw \in {"empty", "sent", "aborted"}

(* The frame wins arbitration, an abort request or not.                    *)
WireSend(m) ==
  /\ mailbox[m].hw \in {"request", "aborting"}
  /\ mailbox' = [mailbox EXCEPT ![m].hw = "sent"]
  /\ LET t == mailbox[m].holds
     IN  wire' = [wire EXCEPT ![t.stream] =
           [gen |-> t.gen,
            sent |-> IF t.gen = @.gen THEN @.sent \cup {t.frame}
                     ELSE {t.frame}]]
  /\ UNCHANGED <<queue, pump, task, gate>>

WireAbort(m) ==
  /\ mailbox[m].hw = "aborting"
  /\ mailbox' = [mailbox EXCEPT ![m].hw = "aborted"]
  /\ UNCHANGED <<queue, pump, task, gate, wire>>

(* HAL_CAN_AbortTxRequest on a set of mailboxes                            *)
AbortAsked(b, which) ==
  [m \in Mailboxes |->
     IF m \in which /\ b[m].hw = "request"
     THEN [b[m] EXCEPT !.hw = "aborting"] ELSE b[m]]

-----------------------------------------------------------------------------
(* The pump, in the task or in the interrupt (canbus_tx_pump_owned).       *)

InIsr == pump.by = "isr"

(* Seeded fault: a kick that meets a busy pump is forgotten. *)
KickedIfIdle(who) ==
  IF pump.by # "none" THEN pump
  ELSE [pump EXCEPT !.by = who, !.pc = "reserve"]

(* canbus_tx_claim_task, canbus_tx_claim_isr *)
Kicked(who) ==
  IF pump.by # "none" THEN [pump EXCEPT !.kick = TRUE]
  ELSE [pump EXCEPT !.by = who, !.pc = "reserve"]

Reserve ==
  /\ pump.pc = "reserve" /\ UNCHANGED <<mailbox, task, gate, wire>>
  /\ IF gate.suspended \/ ~\E m \in Mailboxes : HwEmpty(m)
     THEN pump' = [pump EXCEPT !.pc = "release"] /\ UNCHANGED queue
     ELSE LET q == PromotedAll(queue)
          IN  IF Waiting(q) = {}
              THEN /\ queue' = q
                   /\ pump' = [pump EXCEPT !.pc = "release"]
              ELSE \E t \in First(q) :
                     /\ queue' = Marked(q, t, {"pending"}, "reserved")
                     /\ pump' = [pump EXCEPT !.pc = "load", !.token = t]

(* Seeded fault: the mailbox is chosen by its hardware flag alone. *)
UsableIfEmpty == {m \in Mailboxes : HwEmpty(m)}

(* canbus_tx_add_owned: a mailbox that neither side still owns.            *)
Usable ==
  {m \in Mailboxes : mailbox[m].sw = "free" /\ mailbox[m].hw = "empty"}

(* ams_can_tx_load_failed; the mailbox interrupt is open again.            *)
LoadFails ==
  /\ queue' = PromotedAll(Marked(queue, pump.token, {"reserved"},
       IF RequiresAbort(queue, pump.token) THEN "discarded" ELSE "pending"))
  /\ pump' = [pump EXCEPT !.pc = "release", !.token = NoToken]
  /\ UNCHANGED mailbox

(* The frame is in the mailbox, its owner not yet on record.               *)
LoadWorks(m) ==
  /\ mailbox' = [mailbox EXCEPT ![m].hw = "request", ![m].holds = pump.token]
  /\ pump' = [pump EXCEPT !.pc = "mark"] /\ UNCHANGED queue

(* Seeded fault: a gate shut since the reservation is not looked at. *)
RefusedIfFull == Usable = {}

Refused == gate.suspended \/ Usable = {}

Load ==
  /\ pump.pc = "load" /\ UNCHANGED <<task, gate, wire>>
  /\ IF Refused THEN LoadFails
     ELSE \E m \in Usable : (\A n \in Usable : m <= n) /\ LoadWorks(m)

Obsolete == gate.suspended \/ RequiresAbort(queue, pump.token)

(* The owner goes on record and, obsolete by now, is asked to abort before *)
(* the mailbox interrupt opens.                                            *)
Mark ==
  /\ pump.pc = "mark" /\ UNCHANGED <<task, gate, wire>>
  /\ \E m \in Mailboxes :
       /\ mailbox[m].holds = pump.token
       /\ LET state == IF Obsolete THEN "abort" ELSE "loaded"
              b == [mailbox EXCEPT ![m].sw = state, ![m].owner = pump.token]
          IN  /\ queue' = Marked(queue, pump.token, {"reserved"}, state)
              /\ mailbox' = IF Obsolete THEN AbortAsked(b, {m}) ELSE b
  /\ pump' = [pump EXCEPT !.pc = "reserve", !.token = NoToken]

(* canbus_tx_release_or_reloop_task, canbus_tx_release_or_reloop_isr *)
Release ==
  /\ pump.pc = "release" /\ UNCHANGED <<queue, mailbox, task, gate, wire>>
  /\ pump' = IF pump.kick THEN [pump EXCEPT !.kick = FALSE, !.pc = "reserve"]
             ELSE NotPumping

(* The task's pump stands while the interrupt's, which never meets it,     *)
(* runs to its end.                                                        *)
Pump == Reserve \/ Load \/ Mark \/ Release

-----------------------------------------------------------------------------
(* The CAN interrupt.  It is not entered by itself, and not for mailboxes  *)
(* between a load and its mark.                                            *)

MailboxIrqOpen == ~InIsr /\ pump.pc # "mark"

Served(m) ==
  mailbox[m].sw # "free" /\ mailbox[m].hw \in {"sent", "aborted"}

(* What the completions of a TSR snapshot make of a frame.                 *)
Outcome(s, f, which) ==
  LET a == queue[s].active
  IN  IF /\ a.frame[f] \in {"loaded", "abort"}
         /\ \E m \in which : mailbox[m].owner = Token(s, a.gen, f)
      THEN IF \E m \in which : /\ mailbox[m].owner = Token(s, a.gen, f)
                               /\ mailbox[m].hw = "sent"
           THEN "complete" ELSE "discarded"
      ELSE a.frame[f]

Retired(which) ==
  [s \in Streams |->
     [queue[s] EXCEPT !.active.frame =
        [f \in Frames[s] |-> Outcome(s, f, which)]]]

(* canbus_tx_complete_callback on every mailbox of the snapshot, then the  *)
(* refill.                                                                 *)
MailboxIrq(which) ==
  /\ MailboxIrqOpen /\ which # {} /\ \A m \in which : Served(m)
  /\ queue' = PromotedAll(Reported(Retired(which)))
  /\ mailbox' = [m \in Mailboxes |->
                   IF m \in which THEN FreeMailbox ELSE mailbox[m]]
  /\ pump' = Kicked("isr")
  /\ UNCHANGED <<task, gate, wire>>

(* A receive or error interrupt pumps too.                                 *)
OtherIrq ==
  /\ MailboxIrqOpen /\ pump' = Kicked("isr")
  /\ UNCHANGED <<queue, mailbox, task, gate, wire>>

(* canbus_record_busoff_event *)
BusOff ==
  /\ ~InIsr /\ gate.busOffs < MaxBusOffs
  /\ gate' = [gate EXCEPT !.suspended = TRUE, !.event = TRUE,
                          !.busOffs = @ + 1]
  /\ mailbox' = AbortAsked(mailbox, Mailboxes)
  /\ UNCHANGED <<queue, pump, task, wire>>

-----------------------------------------------------------------------------
(* The CAN task.                                                           *)

TaskRuns(pc) == task = pc /\ pump.by = "none"

(* canbus_tx_build_commit: publish, abort what became obsolete, pump.      *)
Publish(s) ==
  /\ TaskRuns("idle") /\ task' = "abort"
  /\ queue[s].published < MaxGen[s]
  /\ \E option \in IF s = "critical" THEN {FALSE} ELSE BOOLEAN :
       queue' = [queue EXCEPT ![s] = Published(s, @, option)]
  /\ UNCHANGED <<mailbox, pump, gate, wire>>

Recalled ==
  {m \in Mailboxes : /\ mailbox[m].sw = "loaded"
                     /\ RequiresAbort(queue, mailbox[m].owner)}

(* canbus_tx_abort_stale, then canbus_tx_kick *)
AbortStale ==
  /\ TaskRuns("abort") /\ task' = "idle"
  /\ queue' = [s \in Streams |->
       [queue[s] EXCEPT !.active.frame =
          [f \in Frames[s] |->
             IF \E m \in Recalled :
                  mailbox[m].owner = Token(s, queue[s].active.gen, f)
             THEN "abort" ELSE queue[s].active.frame[f]]]]
  /\ mailbox' =
       AbortAsked([m \in Mailboxes |->
                     IF m \in Recalled THEN [mailbox[m] EXCEPT !.sw = "abort"]
                     ELSE mailbox[m]], Recalled)
  /\ pump' = Kicked("task")
  /\ UNCHANGED <<gate, wire>>

(* canbus_tx_mailboxes_settled *)
AllSettled == \A m \in Mailboxes : mailbox[m] = FreeMailbox

(* canbus_poll_errors, as far as the transport goes: take the event over   *)
(* and abort; then, once all is settled, start a new controller epoch.     *)
Poll ==
  /\ TaskRuns("idle") /\ UNCHANGED <<pump, task, wire>>
  /\ IF gate.event
     THEN /\ gate' = [gate EXCEPT !.event = FALSE, !.suspended = TRUE,
                                  !.recovery = TRUE]
          /\ mailbox' = AbortAsked(mailbox, Mailboxes)
          /\ UNCHANGED queue
     ELSE IF ~gate.recovery THEN UNCHANGED <<gate, mailbox, queue>>
     ELSE IF AllSettled
     THEN /\ gate' = [gate EXCEPT !.recovery = FALSE, !.refresh = TRUE,
                                  !.suspended = TRUE]
          /\ queue' = [s \in Streams |->
               [queue[s] EXCEPT !.active = Empty(s), !.pending = NoGen]]
          /\ UNCHANGED mailbox
     ELSE /\ mailbox' = AbortAsked(mailbox, Mailboxes)
          /\ UNCHANGED <<gate, queue>>

(* canbus_tx_resume_after_refresh, with something fresh to send            *)
Resume ==
  /\ TaskRuns("idle") /\ gate.refresh /\ ~gate.recovery
  /\ queue["protected"].active.gen # NoGen
  /\ gate' = [gate EXCEPT !.refresh = FALSE, !.suspended = FALSE]
  /\ pump' = Kicked("task")
  /\ UNCHANGED <<queue, mailbox, task, wire>>

CanTask == (\E s \in Streams : Publish(s)) \/ AbortStale \/ Poll \/ Resume

Controller == \E m \in Mailboxes : WireSend(m) \/ WireAbort(m)

Interrupt ==
  \/ \E which \in SUBSET Mailboxes : MailboxIrq(which)
  \/ OtherIrq \/ BusOff

Next == Controller \/ Interrupt \/ Pump \/ CanTask

Spec == Init /\ [][Next]_vars

(* Frames win arbitration, interrupts are served and both contexts get to  *)
(* run whatever else happens; nothing is assumed of publications.          *)
Fairness ==
  /\ WF_vars(Pump) /\ SF_vars(AbortStale)
  /\ \A m \in Mailboxes :
       /\ WF_vars(WireSend(m))
       /\ SF_vars(\E which \in SUBSET Mailboxes :
                    m \in which /\ MailboxIrq(which))

LiveSpec == Spec /\ Fairness

-----------------------------------------------------------------------------
(* Properties.                                                             *)

FrameStates ==
  {"pending", "reserved", "loaded", "abort", "complete", "discarded"}

Tokens ==
  {NoToken} \cup
  UNION {{Token(s, g, f) : g \in 1..MaxGen[s], f \in Frames[s]} :
         s \in Streams}

GenerationType(s) ==
  [gen : 0..MaxGen[s], stale : BOOLEAN, frame : [Frames[s] -> FrameStates]]

QueueType(s) ==
  [active : GenerationType(s), pending : 0..MaxGen[s],
   published : 0..MaxGen[s], tuning : BOOLEAN, last : 0..MaxGen[s]]

MailboxType ==
  [sw : {"free", "loaded", "abort"}, owner : Tokens, holds : Tokens,
   hw : {"empty", "request", "aborting", "sent", "aborted"}]

PumpType ==
  [by : {"none", "task", "isr"}, token : Tokens, kick : BOOLEAN,
   pc : {"idle", "reserve", "load", "mark", "release"}]

GateType ==
  [suspended : BOOLEAN, event : BOOLEAN, recovery : BOOLEAN,
   refresh : BOOLEAN, busOffs : 0..MaxBusOffs]

(* Every variable has its type (ams_can_tx_scheduler_t, canbus_device_t).  *)
TypeOK ==
  /\ DOMAIN queue = Streams /\ \A s \in Streams : queue[s] \in QueueType(s)
  /\ mailbox \in [Mailboxes -> MailboxType]
  /\ pump \in PumpType /\ task \in {"idle", "abort"} /\ gate \in GateType
  /\ DOMAIN wire = Streams
  /\ \A s \in Streams :
       wire[s] \in [gen : 0..MaxGen[s], sent : SUBSET Frames[s]]

(* A mailbox that software owns belongs to the very frame it holds, that   *)
(* frame is in the active generation and marked like its mailbox, and no   *)
(* other mailbox or pump has it; what is marked selected has an owner.     *)
(* Otherwise a completion would settle the wrong frame, or none.           *)
StateOf(t) == queue[t.stream].active.frame[t.frame]

OwnershipAgrees ==
  /\ \A m \in Mailboxes :
       LET b == mailbox[m]
       IN  IF b.sw = "free"
           THEN b.hw # "empty" => pump.pc = "mark" /\ b.holds = pump.token
           ELSE /\ b.owner = b.holds /\ Found(queue, b.owner)
                /\ StateOf(b.owner) = b.sw
                /\ \A n \in Mailboxes : mailbox[n].owner = b.owner => m = n
  /\ pump.token # NoToken =>
       Found(queue, pump.token) /\ StateOf(pump.token) = "reserved"
  /\ \A s \in Streams : \A f \in Frames[s] :
       LET t == Token(s, queue[s].active.gen, f)
       IN  CASE StateOf(t) = "reserved" -> pump.token = t
             [] StateOf(t) \in {"loaded", "abort"} ->
                  \E m \in Mailboxes :
                    mailbox[m].sw # "free" /\ mailbox[m].owner = t
             [] OTHER -> TRUE

(* A frame of an obsolete generation is never left in a mailbox without an *)
(* abort request, however it raced the publication that made it obsolete.  *)
StaleIsRecalled ==
  task = "idle" =>
    \A m \in Mailboxes :
      mailbox[m].sw # "free" /\ RequiresAbort(queue, mailbox[m].owner)
        => mailbox[m].hw # "request"

(* With the gate shut no mailbox holds a frame that was not asked to       *)
(* abort, one reserved before the gate shut and loaded after it included.  *)
SuspendedIsRecalled ==
  gate.suspended => \A m \in Mailboxes : mailbox[m].hw # "request"

(* No mailbox may still win the bus with a frame nobody wants sent, be it  *)
(* obsolete or held back by the gate (can_tx_scheduler.c 300-420,          *)
(* canbus.c 811-1045, 1257).                                               *)
NothingUnwantedIsSent == StaleIsRecalled /\ SuspendedIsRecalled

(* Nobody forgets to pump: with the gate open and all at rest, a frame     *)
(* waits only while every mailbox still has a completion to come.          *)
NoLostKick ==
  ~gate.suspended /\ pump.by = "none" /\ task = "idle"
    /\ Waiting(queue) # {} => Usable = {}

Bundles == INSTANCE FrameStream
  WITH Frames <- Frames["protected"], Required <- Required,
       published <- queue["protected"].published,
       sending <- wire["protected"].gen, sent <- wire["protected"].sent,
       delivered <- queue["protected"].last

Details == INSTANCE FrameStream
  WITH Frames <- Frames["detail"], Required <- Frames["detail"],
       published <- queue["detail"].published,
       sending <- wire["detail"].gen, sent <- wire["detail"].sent,
       delivered <- NoGen

Commands == INSTANCE FrameStream
  WITH Frames <- Frames["critical"], Required <- Frames["critical"],
       published <- queue["critical"].published,
       sending <- wire["critical"].gen, sent <- wire["critical"].sent,
       delivered <- NoGen

(* Protected generations go out in order, no frame twice, and authority is *)
(* told of one only when its required frames were all on the wire.         *)
KeepsProtected == Bundles!Spec

(* A command never follows a newer one on the wire, and none is repeated.  *)
KeepsCritical == Commands!Spec

(* Detail snapshots go out in order too, although nothing recalls them.    *)
KeepsDetails == Details!Spec

(* A protected generation is delivered unless a newer one replaces it or   *)
(* the bus goes off.                                                       *)
DeliveredOrReplaced ==
  \A g \in 1..MaxGen["protected"] :
    queue["protected"].published = g
      ~> \/ queue["protected"].last = g
         \/ queue["protected"].published # g
         \/ gate.busOffs > 0
=============================================================================
