------------------------- MODULE Supervisor_proofs -------------------------
(***************************************************************************)
(* What holds of the permit and of the charger's shutdown for any length   *)
(* of the burst and any number of requests.                                *)
(*                                                                         *)
(* The argument, permit: a pending shutdown outside ERROR is also a        *)
(* charger fault (PendingIsFault), because every verdict of the CAN task   *)
(* that could clear the fault was computed while the shutdown was already  *)
(* pending (CycleKnows); the command line cannot come in between.  A       *)
(* policy that is about to be published was computed in the present state, *)
(* or the state is DISCHARGE entered from START and the policy still is    *)
(* not its own (PolicyKnown).  The argument, shutdown: what is left of the *)
(* burst is what the charger has still to be told (BurstCounts), and once  *)
(* a frame of it has been counted no mailbox holds a command to charge     *)
(* (LastIsDisable): the mailbox is empty then, and only CHARGE without a   *)
(* pending shutdown loads one.  A frame counts by the request it carries,  *)
(* and it carries the present one only if it was built since the exit,     *)
(* because every exit makes a request of its own (BirthKnown).             *)
(***************************************************************************)
EXTENDS Supervisor, TLAPS

(* Not in ERROR, nor on the way there: both are for ever.                  *)
Alive == mode.state \notin {"error", "corrupt"}

(* The bound on requests leaves one for the containment.                   *)
RoomForRequest == mode.state = "corrupt" => charger.request < MaxRequests

(* InputsReady sees a pending shutdown.                                    *)
PendingIsFault == charger.pending /\ Alive => charger.fault

(* The verdict that a cycle of the CAN task carries accounts for it.       *)
CycleKnows ==
  charger.pending /\ Alive =>
    /\ task.can # "conclude"
    /\ task.can = "decide" => task.attempted
    /\ task.can = "release" => task.verdict

(* START and ERROR are entered and stay with the permit low.               *)
LowWhenClosed == mode.state \in {"start", "error"} => ~permit.pin

(* The state a measuring task has read.                                    *)
PolicyKnown ==
  /\ mode.state = "start" =>
       task.state = "start" /\ mode.policy \in {"precharge", "idle"}
  /\ task.measuring = "publish" /\ mode.state \in Operating =>
       \/ task.state = mode.state
       \/ /\ task.state = "start" /\ mode.state = "discharge"
          /\ mode.policy # "drive" /\ ~permit.pin

(* CHARGE before the first status: every verdict is a fault.               *)
StatusAwaited ==
  mode.state = "charge" /\ ~seen.status =>
    /\ charger.comm /\ charger.fault /\ ~permit.pin
    /\ task.can = "conclude" => task.verdict

(* The cycle that releases charger_fault does not run into CHARGE.         *)
ReleaseIsIdle == mode.state = "charge" => task.can # "release"

(* What is left of the burst, and what the charger has been told.          *)
BurstCounts ==
  /\ charger.pending => /\ charger.left >= 1
                        /\ seen.stops + charger.left >= BurstFrames
  /\ ~charger.pending => seen.stops = BurstFrames

(* A disable command of a burst carries the request of the exit that was   *)
(* the last when it was built.                                             *)
BornOf(c) == c.kind = "stop" => c.born = c.request

BirthKnown ==
  /\ seen.exits = charger.request
  /\ BornOf(command.active) /\ BornOf(command.waiting)

(* A waiting command is in no mailbox; a stop never enables.               *)
CommandForm ==
  /\ command.waiting.loaded = "no"
  /\ command.active.kind = "stop" =>
       ~command.active.enable /\ command.active.loaded # "enable"
  /\ command.waiting.kind = "stop" => ~command.waiting.enable

(* Outside CHARGE, once a frame of the burst has been counted.             *)
LastIsDisable ==
  /\ mode.state \in {"start", "discharge", "error"}
  /\ ~charger.pending \/ charger.left < BurstFrames
  => seen.last # "enable" /\ command.active.loaded # "enable"

(* A late command to charge was the last one in a mailbox.                 *)
LateKnown ==
  /\ seen.late <= 1
  /\ seen.late = 1 /\ charger.pending => command.active.loaded # "enable"

PermitInv ==
  /\ PendingIsFault /\ CycleKnows /\ LowWhenClosed /\ PolicyKnown
  /\ StatusAwaited /\ ReleaseIsIdle
  /\ PermitWaitsForExit /\ PermitMatchesPolicy
  /\ FaultOpensTheLoop /\ ShadowIsHonest

ExitInv == BurstCounts /\ CommandForm /\ LastIsDisable /\ LateKnown

Inv == TypeOK /\ RoomForRequest /\ PermitInv /\ ExitInv

-----------------------------------------------------------------------------
(* The four states have four policies.                                     *)
LEMMA PolicyOfTypes ==
  /\ PolicyOf("start") = "precharge"
  /\ PolicyOf("charge") = "charge"
  /\ PolicyOf("discharge") = "drive"
  /\ \A s : PolicyOf(s) \in Policies
  BY DEF PolicyOf, Policies

(* What the helpers make of a record.                                      *)
LEMMA StopRequestedIs ==
  ASSUME NEW c \in Chargers, c.request < MaxRequests
  PROVE  /\ StopRequested(c) \in Chargers
         /\ StopRequested(c).pending /\ StopRequested(c).fault
         /\ StopRequested(c).left = BurstFrames
         /\ StopRequested(c).comm = c.comm
         /\ StopRequested(c).request = c.request + 1
  <1> DEFINE n == c.request + 1
  <1>1. n \in 0 .. MaxRequests /\ BurstFrames \in 0 .. BurstFrames
    BY SupervisorAssumption DEF SupervisorAssumption, Chargers
  <1>2. StopRequested(c) =
          [c EXCEPT !.pending = TRUE, !.left = BurstFrames, !.request = n,
                    !.fault = TRUE]
    BY DEF StopRequested
  <1> HIDE DEF n
  <1>3. /\ StopRequested(c) \in Chargers
        /\ StopRequested(c).pending /\ StopRequested(c).fault
        /\ StopRequested(c).left = BurstFrames
        /\ StopRequested(c).comm = c.comm
        /\ StopRequested(c).request = n
    BY <1>1, <1>2 DEF Chargers
  <1> QED BY <1>3 DEF n

(* The history of a new request starts afresh.                             *)
LEMMA RecordedIs ==
  ASSUME NEW s \in Histories, NEW from, NEW to
  PROVE  /\ Recorded(s, from, to) \in Histories
         /\ Recorded(s, from, to).last = s.last
         /\ Recorded(s, from, to).status = s.status
         /\ StopsCharger(from, to) =>
              /\ Recorded(s, from, to).stops = 0
              /\ Recorded(s, from, to).late = 0
              /\ Recorded(s, from, to).exits = s.exits + 1
         /\ ~StopsCharger(from, to) => Recorded(s, from, to) = s
  <1>1. 0 \in 0 .. BurstFrames /\ 0 \in 0 .. 2
    BY SupervisorAssumption DEF SupervisorAssumption
  <1>2. CASE StopsCharger(from, to)
    <2> DEFINE n == s.exits + 1
    <2>1. n \in Nat
      BY DEF Histories
    <2>2. Recorded(s, from, to) =
            [s EXCEPT !.stops = 0, !.late = 0, !.exits = n]
      BY <1>2 DEF Recorded
    <2> HIDE DEF n
    <2>3. /\ Recorded(s, from, to) \in Histories
          /\ Recorded(s, from, to).last = s.last
          /\ Recorded(s, from, to).status = s.status
          /\ Recorded(s, from, to).stops = 0
          /\ Recorded(s, from, to).late = 0
          /\ Recorded(s, from, to).exits = n
      BY <1>1, <2>1, <2>2 DEF Histories
    <2> QED BY <1>2, <2>3 DEF n
  <1>3. CASE ~StopsCharger(from, to)
    BY <1>3 DEF Recorded
  <1> QED BY <1>2, <1>3

(* What the history makes of a command that was sent.                      *)
LEMMA ToldIs ==
  ASSUME TypeOK, NEW what \in {"enable", "disable"}
  PROVE  /\ Told(what) \in Histories
         /\ Told(what).last = what
         /\ Told(what).status = seen.status
         /\ what = "enable" => Told(what).stops = seen.stops
         /\ what = "disable" =>
              /\ Told(what).late = seen.late
              /\ Told(what).stops = IF /\ seen.stops < BurstFrames
                                       /\ command.active.born = seen.exits
                                      THEN seen.stops + 1 ELSE seen.stops
         /\ ~charger.pending => Told(what).late = seen.late
         /\ Told(what).late <= seen.late + 1
         /\ Told(what).exits = seen.exits
  <1> DEFINE stops == IF /\ what = "disable" /\ seen.stops < BurstFrames
                         /\ command.active.born = seen.exits
                        THEN seen.stops + 1 ELSE seen.stops
             late == IF what = "enable" /\ charger.pending /\ seen.late < 2
                       THEN seen.late + 1 ELSE seen.late
  <1>1. /\ stops \in 0 .. BurstFrames /\ late \in 0 .. 2
        /\ seen.stops \in 0 .. BurstFrames /\ seen.late \in 0 .. 2
    BY SupervisorAssumption DEF SupervisorAssumption, TypeOK, Histories
  <1>2. Told(what) =
          [seen EXCEPT !.last = what, !.stops = stops, !.late = late]
    BY DEF Told
  <1> HIDE DEF stops, late
  <1>3. /\ Told(what) \in Histories
        /\ Told(what).last = what /\ Told(what).status = seen.status
        /\ Told(what).stops = stops /\ Told(what).late = late
        /\ Told(what).exits = seen.exits
    BY <1>1, <1>2 DEF TypeOK, Histories
  <1> QED BY <1>1, <1>3 DEF stops, late

(* An interrupt takes one frame off the burst, or nothing.                 *)
LEMMA CompletedIs ==
  ASSUME TypeOK, NEW frame \in Commands
  PROVE  LET c == Completed(frame)
         IN  /\ c \in Chargers
             /\ c.fault = charger.fault /\ c.comm = charger.comm
             /\ c.request = charger.request
             /\ \/ c.pending = charger.pending /\ c.left = charger.left
                \/ /\ frame.kind = "stop" /\ charger.pending
                   /\ charger.request = command.active.request
                   /\ c.left = IF charger.left > 0 THEN charger.left - 1
                                                   ELSE charger.left
                   /\ c.pending <=> charger.left > 1
  <1> DEFINE c == [charger EXCEPT !.txFail = FALSE]
             n == IF c.left > 0 THEN c.left - 1 ELSE c.left
             more == c.left > 1
  <1>1. /\ c \in Chargers
        /\ c.fault = charger.fault /\ c.comm = charger.comm
        /\ c.pending = charger.pending /\ c.left = charger.left
        /\ c.request = charger.request
    BY DEF TypeOK, Chargers
  <1> HIDE DEF c
  <1>2. n \in 0 .. BurstFrames /\ more \in BOOLEAN
    BY <1>1, SupervisorAssumption DEF SupervisorAssumption, Chargers
  <1>3. CASE Completed(frame) = c
    BY <1>1, <1>3
  <1>4. CASE /\ Completed(frame) = [c EXCEPT !.left = n, !.pending = more]
             /\ frame.kind = "stop" /\ c.pending
             /\ c.request = command.active.request
    <2> HIDE DEF n, more
    <2>1. /\ Completed(frame) \in Chargers
          /\ Completed(frame).fault = c.fault
          /\ Completed(frame).comm = c.comm
          /\ Completed(frame).request = c.request
          /\ Completed(frame).left = n /\ Completed(frame).pending = more
      BY <1>1, <1>2, <1>4 DEF Chargers
    <2>2. Completed(frame).pending <=> c.left > 1
      BY <2>1 DEF more
    <2> QED BY <1>1, <1>4, <2>1, <2>2 DEF n
  <1> QED BY <1>3, <1>4 DEF Completed, CountedStop, c

(* The empty slot.                                                         *)
LEMMA NoCommandIs ==
  /\ NoCommand \in Commands
  /\ NoCommand.kind = "none" /\ NoCommand.loaded = "no" /\ ~NoCommand.enable
  BY SupervisorAssumption DEF SupervisorAssumption, NoCommand, Commands

(* A new command is in no mailbox.                                         *)
LEMMA BuiltIs ==
  ASSUME TypeOK, NEW kind \in {"normal", "stop"}, NEW enable \in BOOLEAN,
         NEW request \in 0 .. MaxRequests
  PROVE  /\ Built(kind, enable, request) \in Commands
         /\ Built(kind, enable, request).kind = kind
         /\ Built(kind, enable, request).enable = enable
         /\ Built(kind, enable, request).loaded = "no"
         /\ Built(kind, enable, request).request = request
         /\ Built(kind, enable, request).born = seen.exits
  <1>1. NoCommand \in Commands /\ NoCommand.loaded = "no"
    BY NoCommandIs
  <1>2. seen.exits \in Nat
    BY DEF TypeOK, Histories
  <1> QED BY <1>1, <1>2 DEF Built, Commands

(* A publication puts nothing into a mailbox and keeps the form.           *)
LEMMA PublishingKeeps ==
  ASSUME TypeOK, CommandForm, NEW new \in Commands, Publishing(new),
         new.loaded = "no", new.kind = "stop" => ~new.enable
  PROVE  /\ command' \in [active : Commands, waiting : Commands]
         /\ CommandForm'
         /\ command'.active.loaded = command.active.loaded
  <1> DEFINE a == [command.active EXCEPT !.stale = TRUE]
  <1>1. /\ command.active \in Commands
        /\ a \in Commands /\ a.loaded = command.active.loaded
        /\ a.kind = command.active.kind /\ a.enable = command.active.enable
    BY DEF TypeOK, Commands
  <1> HIDE DEF a
  <1>2. \/ /\ command.active.loaded = "no"
           /\ command' = [active |-> new, waiting |-> NoCommand]
        \/ command' = [active |-> a, waiting |-> new]
    BY DEF Publishing, a
  <1> QED BY <1>1, <1>2, NoCommandIs DEF CommandForm

(* The waiting command moves up.                                           *)
LEMMA PromotedKeeps ==
  ASSUME TypeOK, CommandForm
  PROVE  /\ Promoted \in [active : Commands, waiting : Commands]
         /\ Promoted.active = command.waiting
         /\ Promoted.waiting = NoCommand
  BY NoCommandIs DEF TypeOK, Promoted

(* After a bus-off no mailbox holds a command.                             *)
LEMMA RestartedKeeps ==
  ASSUME TypeOK, CommandForm
  PROVE  /\ Restarted \in [active : Commands, waiting : Commands]
         /\ Restarted.active.loaded = "no" /\ Restarted.waiting.loaded = "no"
         /\ Restarted.active.kind = "stop" => ~Restarted.active.enable
         /\ Restarted.waiting.kind = "stop" => ~Restarted.waiting.enable
  <1> DEFINE a == [command.active EXCEPT !.loaded = "no", !.stale = FALSE]
  <1>1. /\ command.active \in Commands /\ command.waiting \in Commands
        /\ a \in Commands /\ a.loaded = "no"
        /\ a.kind = command.active.kind /\ a.enable = command.active.enable
    BY DEF TypeOK, Commands
  <1>2. CASE command.waiting # NoCommand
    BY <1>1, <1>2, PromotedKeeps, NoCommandIs DEF Restarted, CommandForm
  <1>3. CASE command.waiting = NoCommand
    <2>1. Restarted = [active |-> a, waiting |-> command.waiting]
      BY <1>1, <1>3 DEF Restarted, TypeOK
    <2> HIDE DEF a
    <2> QED BY <1>1, <2>1 DEF CommandForm
  <1> QED BY <1>2, <1>3

(* A publication of the CAN task, or its failure.                          *)
LEMMA PublishStopKeeps ==
  ASSUME TypeOK, CommandForm, NEW built \in BOOLEAN, PublishStop(built)
  PROVE  /\ command' \in [active : Commands, waiting : Commands]
         /\ CommandForm'
         /\ command'.active.loaded = command.active.loaded
  <1>1. CASE built
    <2>1. charger.request \in 0 .. MaxRequests
      BY DEF TypeOK, Chargers
    <2>2. PICK new \in Commands : /\ Publishing(new) /\ new.loaded = "no"
                                  /\ new.kind = "stop" => ~new.enable
      BY <1>1, <2>1, BuiltIs DEF PublishStop
    <2> QED BY <2>2, PublishingKeeps
  <1>2. CASE ~built
    BY <1>2 DEF PublishStop, TypeOK, CommandForm
  <1> QED BY <1>1, <1>2

(* The same for the periodic command.                                      *)
LEMMA PublishCommandKeeps ==
  ASSUME TypeOK, CommandForm, NEW built \in BOOLEAN, PublishCommand(built)
  PROVE  /\ command' \in [active : Commands, waiting : Commands]
         /\ CommandForm'
         /\ command'.active.loaded = command.active.loaded
  <1>1. CASE built
    <2>1. task.enable \in BOOLEAN /\ 0 \in 0 .. MaxRequests
      BY SupervisorAssumption DEF TypeOK, Cycles, SupervisorAssumption
    <2>2. PICK new \in Commands : /\ Publishing(new) /\ new.loaded = "no"
                                  /\ new.kind = "stop" => ~new.enable
      BY <1>1, <2>1, BuiltIs DEF PublishCommand
    <2> QED BY <2>2, PublishingKeeps
  <1>2. CASE ~built
    BY <1>2 DEF PublishCommand, TypeOK, CommandForm
  <1> QED BY <1>1, <1>2

-----------------------------------------------------------------------------
(* Types, one lemma per action.  *)

(* The supervisor decides.                                                 *)
LEMMA SuperviseType ==
  ASSUME TypeOK, RoomForRequest, CommandForm, Supervise
  PROVE  TypeOK'
  <1>1. mode' \in Modes
    BY DEF TypeOK, Modes, States, Supervise
  <1>2. permit' \in Permits
    BY DEF TypeOK, Permits, Supervise, Decided
  <1>3. charger' \in Chargers
    <2>1. mode.state = "corrupt" => StopRequested(charger) \in Chargers
      BY StopRequestedIs DEF TypeOK, RoomForRequest
    <2> QED BY <2>1 DEF TypeOK, Supervise
  <1>4. seen' \in Histories
    BY RecordedIs DEF TypeOK, Supervise
  <1> QED BY <1>1, <1>2, <1>3, <1>4 DEF TypeOK, Supervise

(* The state is overwritten.                                               *)
LEMMA CorruptType ==
  ASSUME TypeOK, RoomForRequest, CommandForm, Corrupt
  PROVE  TypeOK'
  <1>1. mode' \in Modes
    BY DEF TypeOK, Modes, States, Corrupt
  <1> QED BY <1>1 DEF TypeOK, Corrupt

(* The current task reads the state.                                       *)
LEMMA ReadStateType ==
  ASSUME TypeOK, RoomForRequest, CommandForm, ReadState
  PROVE  TypeOK'
  <1>1. task' \in Cycles
    BY DEF TypeOK, Cycles, States, Modes, ReadState
  <1> QED BY <1>1 DEF TypeOK, ReadState

(* The current task publishes.                                             *)
LEMMA PublishInputsType ==
  ASSUME TypeOK, RoomForRequest, CommandForm, NEW result \in {"good", "bad"},
         PublishInputs(result)
  PROVE  TypeOK'
  <1>1. inputs' \in {"good", "bad"}
    BY DEF TypeOK, PublishInputs
  <1>2. mode' \in Modes
    BY PolicyOfTypes DEF TypeOK, Modes, States, PublishInputs
  <1>3. task' \in Cycles
    BY DEF TypeOK, Cycles, States, Modes, PublishInputs
  <1>4. drop' \in [Tasks -> {"no", "shadow", "pin"}]
    BY DEF TypeOK, Tasks, PublishInputs, DroppingIf
  <1> QED BY <1>1, <1>2, <1>3, <1>4 DEF TypeOK, PublishInputs

(* The command line starts a transition.                                   *)
LEMMA SetStateType ==
  ASSUME TypeOK, RoomForRequest, CommandForm, NEW requested \in Operating,
         SetState(requested)
  PROVE  TypeOK'
  <1>1. permit' \in Permits
    BY DEF TypeOK, Permits, SetState
  <1>2. mode' \in Modes
    BY DEF TypeOK, Modes, States, SetState, Target, Accepts, AfterBegin,
        StopRequested, ToldToWait, Recorded, StopsCharger, Lowest, Operating
  <1>3. charger' \in Chargers
    <2> DEFINE begun == IF Accepts(mode.state)
                          THEN AfterBegin(charger, mode.state,
                                          Target(mode.state, requested))
                          ELSE charger
    <2>1. begun \in Chargers
      BY StopRequestedIs DEF TypeOK, SetState, AfterBegin
    <2> HIDE DEF begun
    <2>2. ToldToWait(begun) \in Chargers
      BY <2>1 DEF ToldToWait, Chargers
    <2> QED BY <2>1, <2>2 DEF SetState, begun
  <1>4. seen' \in Histories
    <2> DEFINE s == Recorded(seen, mode.state, Target(mode.state, requested))
    <2>1. s \in Histories
      BY RecordedIs DEF TypeOK
    <2> HIDE DEF s
    <2>2. [s EXCEPT !.status = FALSE] \in Histories
      BY <2>1 DEF Histories
    <2> QED BY <2>1, <2>2 DEF TypeOK, SetState, s
  <1>5. task' \in Cycles
    BY DEF TypeOK, Cycles, States, Modes, SetState
  <1> QED BY <1>1, <1>2, <1>3, <1>4, <1>5 DEF TypeOK, SetState

(* and ends it.                                                            *)
LEMMA FinishStateType ==
  ASSUME TypeOK, RoomForRequest, CommandForm, FinishState
  PROVE  TypeOK'
  <1>1. mode' \in Modes
    BY DEF TypeOK, Modes, States, FinishState
  <1>2. task' \in Cycles
    BY DEF TypeOK, Cycles, States, Modes, FinishState
  <1> QED BY <1>1, <1>2 DEF TypeOK, FinishState

(* A task drops the shadow.                                                *)
LEMMA DropShadowType ==
  ASSUME TypeOK, RoomForRequest, CommandForm, NEW t \in Tasks, DropShadow(t)
  PROVE  TypeOK'
  <1>1. permit' \in Permits
    BY DEF TypeOK, Permits, DropShadow, DropFirst
  <1>2. drop' \in [Tasks -> {"no", "shadow", "pin"}]
    BY DEF TypeOK, DropShadow
  <1> QED BY <1>1, <1>2 DEF TypeOK, DropShadow

(* and the pin.                                                            *)
LEMMA DropPinType ==
  ASSUME TypeOK, RoomForRequest, CommandForm, NEW t \in Tasks, DropPin(t)
  PROVE  TypeOK'
  <1>1. permit' \in Permits
    BY DEF TypeOK, Permits, DropPin, DropThen
  <1>2. drop' \in [Tasks -> {"no", "shadow", "pin"}]
    BY DEF TypeOK, DropPin
  <1> QED BY <1>1, <1>2 DEF TypeOK, DropPin

(* The CAN task polls.                                                     *)
LEMMA PollType ==
  ASSUME TypeOK, RoomForRequest, CommandForm,
         NEW status \in {"none", "fine", "failed"}, NEW down \in BOOLEAN,
         NEW lost \in BOOLEAN, Poll(status, down, lost)
  PROVE  TypeOK'
  <1>1. charger' \in Chargers
    BY DEF TypeOK, Chargers, Poll, At, WithFailure, DroppingIf
  <1>2. seen' \in Histories
    BY SupervisorAssumption DEF TypeOK, Histories, Poll, SupervisorAssumption
  <1>3. command' \in [active : Commands, waiting : Commands]
    BY RestartedKeeps DEF TypeOK, Poll
  <1>4. task' \in Cycles
    BY DEF TypeOK, Cycles, States, Modes, Poll
  <1>5. drop' \in [Tasks -> {"no", "shadow", "pin"}]
    BY DEF TypeOK, Tasks, Poll, At, WithFailure, DroppingIf
  <1> QED BY <1>1, <1>2, <1>3, <1>4, <1>5 DEF TypeOK, Poll

(* publishes a frame of the burst.                                         *)
LEMMA PublishStopType ==
  ASSUME TypeOK, RoomForRequest, CommandForm, NEW built \in BOOLEAN,
         PublishStop(built)
  PROVE  TypeOK'
  <1>1. task' \in Cycles
    BY DEF TypeOK, Cycles, States, Modes, PublishStop
  <1>2. command' \in [active : Commands, waiting : Commands]
    BY PublishStopKeeps
  <1>3. charger' \in Chargers
    BY DEF TypeOK, Chargers, PublishStop, At, WithFailure, DroppingIf
  <1>4. drop' \in [Tasks -> {"no", "shadow", "pin"}]
    BY DEF TypeOK, Tasks, PublishStop, At, WithFailure, DroppingIf
  <1> QED BY <1>1, <1>2, <1>3, <1>4 DEF TypeOK, PublishStop

(* or has none to publish.                                                 *)
LEMMA NoStopType ==
  ASSUME TypeOK, RoomForRequest, CommandForm, NoStop
  PROVE  TypeOK'
  <1>1. task' \in Cycles
    BY DEF TypeOK, Cycles, States, Modes, NoStop
  <1> QED BY <1>1 DEF TypeOK, NoStop

(* decides in CHARGE.                                                      *)
LEMMA DecideChargingType ==
  ASSUME TypeOK, RoomForRequest, CommandForm, NEW due \in BOOLEAN,
         NEW late \in BOOLEAN, NEW hard \in BOOLEAN,
         DecideCharging(due, late, hard)
  PROVE  TypeOK'
  <1>1. charger' \in Chargers
    BY DEF TypeOK, Chargers, DecideCharging
  <1>2. task' \in Cycles
    <2> DEFINE c == [charger EXCEPT !.comm = charger.comm \/ late]
               v == Failed(c)
               f == Forbidden(c, hard)
               e == ~Forbidden(c, hard) /\ permit.shadow
    <2>1. v \in BOOLEAN /\ f \in BOOLEAN /\ e \in BOOLEAN
      BY DEF Failed, Forbidden
    <2>2. CASE due /\ ~task.attempted
      <3>1. task' = [task EXCEPT !.can = "conclude", !.verdict = v,
                                 !.forced = f, !.enable = e]
        BY <2>2 DEF DecideCharging
      <3> HIDE DEF v, f, e
      <3> QED BY <2>1, <3>1 DEF TypeOK, Cycles
    <2>3. CASE ~(due /\ ~task.attempted)
      <3>1. task' = [task EXCEPT !.can = "poll", !.attempted = FALSE]
        BY <2>3 DEF DecideCharging
      <3> HIDE DEF v, f, e
      <3> QED BY <3>1 DEF TypeOK, Cycles
    <2> QED BY <2>2, <2>3
  <1> QED BY <1>1, <1>2 DEF TypeOK, DecideCharging

(* stores its verdict.                                                     *)
LEMMA ConcludeChargingType ==
  ASSUME TypeOK, RoomForRequest, CommandForm, ConcludeCharging
  PROVE  TypeOK'
  <1>1. charger' \in Chargers
    <2> DEFINE v == task.verdict
    <2>1. v \in BOOLEAN
      BY DEF TypeOK, Cycles
    <2> HIDE DEF v
    <2> QED BY <2>1 DEF TypeOK, Chargers, ConcludeCharging, v
  <1>2. task' \in Cycles
    BY DEF TypeOK, Cycles, States, Modes, ConcludeCharging
  <1>3. drop' \in [Tasks -> {"no", "shadow", "pin"}]
    BY DEF TypeOK, Tasks, ConcludeCharging, At, DroppingIf
  <1> QED BY <1>1, <1>2, <1>3 DEF TypeOK, ConcludeCharging

(* publishes the periodic command.                                         *)
LEMMA PublishCommandType ==
  ASSUME TypeOK, RoomForRequest, CommandForm, NEW built \in BOOLEAN,
         PublishCommand(built)
  PROVE  TypeOK'
  <1>1. task' \in Cycles
    BY DEF TypeOK, Cycles, States, Modes, PublishCommand
  <1>2. command' \in [active : Commands, waiting : Commands]
    BY PublishCommandKeeps
  <1>3. charger' \in Chargers
    BY DEF TypeOK, Chargers, PublishCommand, At, WithFailure, DroppingIf
  <1>4. drop' \in [Tasks -> {"no", "shadow", "pin"}]
    BY DEF TypeOK, Tasks, PublishCommand, At, WithFailure, DroppingIf
  <1> QED BY <1>1, <1>2, <1>3, <1>4 DEF TypeOK, PublishCommand

(* decides outside CHARGE.                                                 *)
LEMMA DecideIdleType ==
  ASSUME TypeOK, RoomForRequest, CommandForm, DecideIdle
  PROVE  TypeOK'
  <1>1. charger' \in Chargers
    BY DEF TypeOK, Chargers, DecideIdle
  <1>2. task' \in Cycles
    BY DEF TypeOK, Cycles, States, Modes, DecideIdle, At, Remaining
  <1> QED BY <1>1, <1>2 DEF TypeOK, DecideIdle

(* and stores that verdict.                                                *)
LEMMA ReleaseType ==
  ASSUME TypeOK, RoomForRequest, CommandForm, Release
  PROVE  TypeOK'
  <1>1. charger' \in Chargers
    <2> DEFINE v == task.verdict
    <2>1. v \in BOOLEAN
      BY DEF TypeOK, Cycles
    <2> HIDE DEF v
    <2> QED BY <2>1 DEF TypeOK, Chargers, Release, v
  <1>2. task' \in Cycles
    BY DEF TypeOK, Cycles, States, Modes, Release
  <1> QED BY <1>1, <1>2 DEF TypeOK, Release

(* A command goes into a mailbox.                                          *)
LEMMA LoadType ==
  ASSUME TypeOK, RoomForRequest, CommandForm, Load
  PROVE  TypeOK'
  <1>1. command' \in [active : Commands, waiting : Commands]
    BY DEF TypeOK, Commands, Load, LoadedAs
  <1> QED BY <1>1 DEF TypeOK, Load

(* or is refused.                                                          *)
LEMMA LoadFailsType ==
  ASSUME TypeOK, RoomForRequest, CommandForm, LoadFails
  PROVE  TypeOK'
  <1>1. charger' \in Chargers
    BY DEF TypeOK, Chargers, LoadFails
  <1> QED BY <1>1 DEF TypeOK, LoadFails

(* A command has been sent.                                                *)
LEMMA CompleteType ==
  ASSUME TypeOK, RoomForRequest, CommandForm, Complete
  PROVE  TypeOK'
  <1>1. charger' \in Chargers
    BY CompletedIs DEF TypeOK, Complete
  <1>2. seen' \in Histories
    <2>1. command.active.loaded \in {"enable", "disable"}
      BY DEF TypeOK, Commands, Complete
    <2> QED BY <2>1, ToldIs DEF Complete
  <1>3. command' \in [active : Commands, waiting : Commands]
    BY PromotedKeeps DEF Complete
  <1> QED BY <1>1, <1>2, <1>3 DEF TypeOK, Complete

(* or taken back.                                                          *)
LEMMA AbortType ==
  ASSUME TypeOK, RoomForRequest, CommandForm, Abort
  PROVE  TypeOK'
  <1>1. command' \in [active : Commands, waiting : Commands]
    BY PromotedKeeps DEF Abort
  <1>2. charger' \in Chargers
    BY DEF TypeOK, Chargers, Abort, Promoted, Counted
  <1> QED BY <1>1, <1>2 DEF TypeOK, Abort

-----------------------------------------------------------------------------
(* The invariant, one lemma per action.  *)

(* The supervisor decides.                                                 *)
LEMMA SuperviseInv ==
  ASSUME Inv, Supervise
  PROVE  Inv'
  <1>1. TypeOK'
    BY SuperviseType DEF Inv, ExitInv
  <1>2. RoomForRequest'
    BY DEF Inv, RoomForRequest, TypeOK, Modes, States, Chargers, Supervise
  <1>3. PendingIsFault'
    BY DEF Inv, PermitInv, PendingIsFault, CycleKnows, Alive, TypeOK, Modes,
        States, Chargers, Supervise
  <1>4. CycleKnows'
    BY DEF Inv, PermitInv, CycleKnows, Alive, TypeOK, Modes, States,
        Chargers, Cycles, Supervise
  <1>5. LowWhenClosed'
    BY DEF Inv, PermitInv, LowWhenClosed, TypeOK, Modes, States, Permits,
        Operating, Supervise, Decided, PermitReady, InputsReady
  <1>6. PolicyKnown'
    BY PolicyOfTypes
    DEF Inv, PermitInv, PolicyKnown, LowWhenClosed, TypeOK, Modes, States,
        Permits, Cycles, Operating, Supervise, Decided, PermitReady,
        InputsReady
  <1>7. StatusAwaited'
    BY DEF Inv, PermitInv, StatusAwaited, ReleaseIsIdle, TypeOK, Modes,
        States, Permits, Chargers, Cycles, Histories, Supervise, Decided,
        PermitReady, InputsReady, StopRequested, Recorded, StopsCharger,
        Operating
  <1>8. ReleaseIsIdle'
    BY DEF Inv, PermitInv, ReleaseIsIdle, TypeOK, Modes, States, Cycles,
        Supervise
  <1>9. PermitWaitsForExit'
    BY DEF Inv, PermitInv, PermitWaitsForExit, PendingIsFault, Alive, TypeOK,
        Modes, States, Permits, Chargers, Supervise, Decided, PermitReady,
        InputsReady, StopRequested, Recorded, StopsCharger, Operating
  <1>10. PermitMatchesPolicy'
    BY PolicyOfTypes
    DEF Inv, PermitInv, PermitMatchesPolicy, PolicyKnown, LowWhenClosed,
        TypeOK, Modes, States, Permits, Operating, Supervise, Decided,
        PermitReady, InputsReady
  <1>11. FaultOpensTheLoop'
    BY DEF Inv, PermitInv, FaultOpensTheLoop, TypeOK, Permits, Tasks,
        Supervise, Decided, PermitReady, InputsReady
  <1>12. ShadowIsHonest'
    BY DEF Inv, PermitInv, ShadowIsHonest, TypeOK, Permits, Tasks, Supervise,
        Decided, PermitReady, InputsReady
  <1>13. BurstCounts'
    BY SupervisorAssumption
    DEF Inv, ExitInv, BurstCounts, CommandForm, TypeOK, Chargers, Histories,
        SupervisorAssumption, Supervise, Decided, PermitReady, InputsReady,
        StopRequested, Recorded, StopsCharger, Operating
  <1>14. LastIsDisable'
    BY SupervisorAssumption
    DEF Inv, ExitInv, LastIsDisable, CommandForm, TypeOK, Modes, States,
        Chargers, Commands, Histories, SupervisorAssumption, Supervise,
        Decided, PermitReady, InputsReady, StopRequested, Recorded,
        StopsCharger, Operating
  <1>15. LateKnown'
    BY DEF Inv, ExitInv, LateKnown, CommandForm, TypeOK, Chargers, Commands,
        Histories, Supervise, Decided, PermitReady, InputsReady,
        StopRequested, Recorded, StopsCharger, Operating
  <1>16. CommandForm'
    BY DEF Inv, ExitInv, CommandForm, Supervise
  <1> QED BY <1>1, <1>2, <1>3, <1>4, <1>5, <1>6, <1>7, <1>8, <1>9, <1>10, <1>11,
      <1>12, <1>13, <1>14, <1>15, <1>16
  DEF Inv, PermitInv, ExitInv

(* The state is overwritten.                                               *)
LEMMA CorruptInv ==
  ASSUME Inv, Corrupt
  PROVE  Inv'
  <1>1. TypeOK'
    BY CorruptType DEF Inv, ExitInv
  <1>2. RoomForRequest'
    BY DEF Inv, RoomForRequest, TypeOK, Modes, States, Chargers, Corrupt
  <1>3. PendingIsFault'
    BY DEF Inv, PermitInv, PendingIsFault, CycleKnows, Alive, TypeOK, Modes,
        States, Chargers, Corrupt
  <1>4. CycleKnows'
    BY DEF Inv, PermitInv, CycleKnows, Alive, TypeOK, Modes, States,
        Chargers, Cycles, Corrupt
  <1>5. LowWhenClosed'
    BY DEF Inv, PermitInv, LowWhenClosed, TypeOK, Modes, States, Permits,
        Operating, Corrupt
  <1>6. PolicyKnown'
    BY PolicyOfTypes
    DEF Inv, PermitInv, PolicyKnown, LowWhenClosed, TypeOK, Modes, States,
        Permits, Cycles, Operating, Corrupt
  <1>7. StatusAwaited'
    BY DEF Inv, PermitInv, StatusAwaited, ReleaseIsIdle, TypeOK, Modes,
        States, Permits, Chargers, Cycles, Histories, Corrupt
  <1>8. ReleaseIsIdle'
    BY DEF Inv, PermitInv, ReleaseIsIdle, TypeOK, Modes, States, Cycles,
        Corrupt
  <1>9. PermitWaitsForExit'
    BY DEF Inv, PermitInv, PermitWaitsForExit, PendingIsFault, Alive, TypeOK,
        Modes, States, Permits, Chargers, Corrupt
  <1>10. PermitMatchesPolicy'
    BY PolicyOfTypes
    DEF Inv, PermitInv, PermitMatchesPolicy, PolicyKnown, LowWhenClosed,
        TypeOK, Modes, States, Permits, Operating, Corrupt
  <1>11. LastIsDisable'
    BY SupervisorAssumption
    DEF Inv, ExitInv, LastIsDisable, CommandForm, TypeOK, Modes, States,
        Chargers, Commands, Histories, SupervisorAssumption, Corrupt
  <1>12. /\ FaultOpensTheLoop' /\ ShadowIsHonest' /\ BurstCounts'
         /\ CommandForm' /\ LateKnown'
    BY DEF Inv, PermitInv, ExitInv, FaultOpensTheLoop, ShadowIsHonest,
        BurstCounts, CommandForm, LateKnown, Corrupt
  <1> QED BY <1>1, <1>2, <1>3, <1>4, <1>5, <1>6, <1>7, <1>8, <1>9, <1>10, <1>11,
      <1>12
  DEF Inv, PermitInv, ExitInv

(* The current task reads the state.                                       *)
LEMMA ReadStateInv ==
  ASSUME Inv, ReadState
  PROVE  Inv'
  <1>1. TypeOK'
    BY ReadStateType DEF Inv, ExitInv
  <1>2. CycleKnows'
    BY DEF Inv, PermitInv, CycleKnows, Alive, TypeOK, Modes, States,
        Chargers, Cycles, ReadState
  <1>3. PolicyKnown'
    BY PolicyOfTypes
    DEF Inv, PermitInv, PolicyKnown, LowWhenClosed, TypeOK, Modes, States,
        Permits, Cycles, Operating, ReadState
  <1>4. StatusAwaited'
    BY DEF Inv, PermitInv, StatusAwaited, ReleaseIsIdle, TypeOK, Modes,
        States, Permits, Chargers, Cycles, Histories, ReadState
  <1>5. ReleaseIsIdle'
    BY DEF Inv, PermitInv, ReleaseIsIdle, TypeOK, Modes, States, Cycles,
        ReadState
  <1>6. /\ RoomForRequest' /\ PendingIsFault' /\ LowWhenClosed'
        /\ PermitWaitsForExit' /\ PermitMatchesPolicy' /\ FaultOpensTheLoop'
        /\ ShadowIsHonest' /\ BurstCounts' /\ CommandForm' /\ LastIsDisable'
        /\ LateKnown'
    BY DEF Inv, PermitInv, ExitInv, RoomForRequest, PendingIsFault,
        LowWhenClosed, PermitWaitsForExit, PermitMatchesPolicy,
        FaultOpensTheLoop, ShadowIsHonest, BurstCounts, CommandForm,
        LastIsDisable, LateKnown, Alive, ReadState
  <1> QED BY <1>1, <1>2, <1>3, <1>4, <1>5, <1>6 DEF Inv, PermitInv, ExitInv

(* The current task publishes.                                             *)
LEMMA PublishInputsInv ==
  ASSUME Inv, NEW result \in {"good", "bad"}, PublishInputs(result)
  PROVE  Inv'
  <1>1. TypeOK'
    BY PublishInputsType DEF Inv, ExitInv
  <1>2. RoomForRequest'
    BY DEF Inv, RoomForRequest, TypeOK, Modes, States, Chargers,
        PublishInputs
  <1>3. PendingIsFault'
    BY DEF Inv, PermitInv, PendingIsFault, CycleKnows, Alive, TypeOK, Modes,
        States, Chargers, PublishInputs
  <1>4. CycleKnows'
    BY DEF Inv, PermitInv, CycleKnows, Alive, TypeOK, Modes, States,
        Chargers, Cycles, PublishInputs
  <1>5. LowWhenClosed'
    BY DEF Inv, PermitInv, LowWhenClosed, TypeOK, Modes, States, Permits,
        Operating, PublishInputs
  <1>6. PolicyKnown'
    BY PolicyOfTypes
    DEF Inv, PermitInv, PolicyKnown, LowWhenClosed, TypeOK, Modes, States,
        Permits, Cycles, Operating, PublishInputs
  <1>7. StatusAwaited'
    BY DEF Inv, PermitInv, StatusAwaited, ReleaseIsIdle, TypeOK, Modes,
        States, Permits, Chargers, Cycles, Histories, PublishInputs
  <1>8. ReleaseIsIdle'
    BY DEF Inv, PermitInv, ReleaseIsIdle, TypeOK, Modes, States, Cycles,
        PublishInputs
  <1>9. PermitWaitsForExit'
    BY DEF Inv, PermitInv, PermitWaitsForExit, PendingIsFault, Alive, TypeOK,
        Modes, States, Permits, Chargers, PublishInputs
  <1>10. PermitMatchesPolicy'
    BY PolicyOfTypes
    DEF Inv, PermitInv, PermitMatchesPolicy, PolicyKnown, LowWhenClosed,
        TypeOK, Modes, States, Permits, Operating, PublishInputs
  <1>11. FaultOpensTheLoop'
    BY DEF Inv, PermitInv, FaultOpensTheLoop, TypeOK, Permits, Tasks,
        PublishInputs, DroppingIf
  <1>12. ShadowIsHonest'
    BY DEF Inv, PermitInv, ShadowIsHonest, TypeOK, Permits, Tasks,
        PublishInputs, DroppingIf
  <1>13. LastIsDisable'
    BY SupervisorAssumption
    DEF Inv, ExitInv, LastIsDisable, CommandForm, TypeOK, Modes, States,
        Chargers, Commands, Histories, SupervisorAssumption, PublishInputs
  <1>14. /\ BurstCounts' /\ CommandForm' /\ LateKnown'
    BY DEF Inv, ExitInv, BurstCounts, CommandForm, LateKnown, PublishInputs
  <1> QED BY <1>1, <1>2, <1>3, <1>4, <1>5, <1>6, <1>7, <1>8, <1>9, <1>10, <1>11,
      <1>12, <1>13, <1>14
  DEF Inv, PermitInv, ExitInv

(* The command line starts a transition.                                   *)
LEMMA SetStateInv ==
  ASSUME Inv, NEW requested \in Operating, SetState(requested)
  PROVE  Inv'
  <1>1. TypeOK'
    BY SetStateType DEF Inv, ExitInv
  <1>2. RoomForRequest'
    BY DEF Inv, RoomForRequest, TypeOK, Modes, States, Chargers, SetState,
        Target, Accepts, AfterBegin, StopRequested, ToldToWait, Recorded,
        StopsCharger, Lowest, Operating
  <1>3. PendingIsFault'
    BY DEF Inv, PermitInv, PendingIsFault, CycleKnows, Alive, TypeOK, Modes,
        States, Chargers, SetState, Target, Accepts, AfterBegin,
        StopRequested, ToldToWait, Recorded, StopsCharger, Lowest, Operating
  <1>4. CycleKnows'
    BY DEF Inv, PermitInv, CycleKnows, Alive, TypeOK, Modes, States,
        Chargers, Cycles, SetState, Lowest
  <1>5. LowWhenClosed'
    BY DEF Inv, PermitInv, LowWhenClosed, TypeOK, Modes, States, Permits,
        Operating, SetState
  <1>6. PolicyKnown'
    BY PolicyOfTypes
    DEF Inv, PermitInv, PolicyKnown, LowWhenClosed, TypeOK, Modes, States,
        Permits, Cycles, Operating, SetState, Target, Accepts, AfterBegin,
        StopRequested, ToldToWait, Recorded, StopsCharger, Lowest
  <1>7. StatusAwaited'
    <2>1. task'.can = "poll" /\ ~permit'.pin
      BY DEF SetState, Lowest, Inv, TypeOK, Cycles, Permits
    <2>2. ASSUME mode'.state = "charge"
          PROVE  charger'.comm /\ charger'.fault
      <3>1. requested = "charge" /\ Accepts(mode.state)
        BY <2>2
        DEF SetState, Target, Accepts, Operating, Inv, TypeOK, Modes, States
      <3>2. PICK c : charger' = ToldToWait(c) /\ c \in Chargers
        <4>1. charger \in Chargers
          BY DEF Inv, TypeOK
        <4>2. AfterBegin(charger, mode.state, Target(mode.state, requested))
                \in Chargers
          BY <4>1, StopRequestedIs DEF AfterBegin, SetState
        <4> QED BY <3>1, <4>2 DEF SetState
      <3> QED BY <3>2 DEF ToldToWait, Chargers
    <2> QED BY <2>1, <2>2 DEF StatusAwaited
  <1>8. ReleaseIsIdle'
    BY DEF Inv, PermitInv, ReleaseIsIdle, TypeOK, Modes, States, Cycles,
        SetState, Lowest
  <1>9. PermitWaitsForExit'
    BY DEF Inv, PermitInv, PermitWaitsForExit, PendingIsFault, Alive, TypeOK,
        Modes, States, Permits, Chargers, SetState
  <1>10. PermitMatchesPolicy'
    BY PolicyOfTypes
    DEF Inv, PermitInv, PermitMatchesPolicy, PolicyKnown, LowWhenClosed,
        TypeOK, Modes, States, Permits, Operating, SetState
  <1>11. FaultOpensTheLoop'
    BY DEF Inv, PermitInv, FaultOpensTheLoop, TypeOK, Permits, Tasks,
        SetState
  <1>12. ShadowIsHonest'
    BY DEF Inv, PermitInv, ShadowIsHonest, TypeOK, Permits, Tasks, SetState
  <1>13. BurstCounts'
    BY SupervisorAssumption
    DEF Inv, ExitInv, BurstCounts, CommandForm, TypeOK, Chargers, Histories,
        SupervisorAssumption, SetState, Target, Accepts, AfterBegin,
        StopRequested, ToldToWait, Recorded, StopsCharger, Lowest, Operating
  <1>14. LastIsDisable'
    <2> DEFINE f == mode.state
               to == Target(f, requested)
               s == Recorded(seen, f, to)
    <2>1. CASE ~Accepts(f)
      BY <2>1 DEF SetState, Inv, ExitInv, LastIsDisable
    <2>2. CASE Accepts(f)
      <3>1. /\ mode'.state = to /\ seen'.last = seen.last
            /\ UNCHANGED command
        <4>1. s \in Histories /\ s.last = seen.last
          BY RecordedIs DEF Inv, TypeOK
        <4>2. seen' = [s EXCEPT !.status = FALSE]
          BY <2>2 DEF SetState
        <4> HIDE DEF s
        <4>3. seen'.last = seen.last
          BY <4>1, <4>2 DEF Histories
        <4> QED BY <2>2, <4>3 DEF SetState, Inv, TypeOK, Modes
      <3>2. CASE StopsCharger(f, to)
        <4>1. charger.request < MaxRequests
          BY <3>2 DEF SetState
        <4>2. /\ StopRequested(charger) \in Chargers
              /\ StopRequested(charger).pending
              /\ StopRequested(charger).left = BurstFrames
          BY <4>1, StopRequestedIs DEF Inv, TypeOK
        <4>3. charger'.pending /\ charger'.left = BurstFrames
          BY <2>2, <3>2, <4>2 DEF SetState, AfterBegin, ToldToWait, Chargers
        <4>4. ~(BurstFrames < BurstFrames)
          BY SupervisorAssumption DEF SupervisorAssumption
        <4> QED BY <4>3, <4>4 DEF LastIsDisable
      <3>3. CASE ~StopsCharger(f, to)
        <4>1. /\ charger'.pending = charger.pending
              /\ charger'.left = charger.left
          BY <2>2, <3>3
          DEF SetState, AfterBegin, ToldToWait, Inv, TypeOK, Chargers
        <4>2. to \in {"start", "discharge", "error"} =>
                f \in {"start", "discharge", "error"}
          BY <3>3 DEF StopsCharger, Inv, TypeOK, Modes, States
        <4> HIDE DEF f, to
        <4> QED
          BY <3>1, <4>1, <4>2 DEF Inv, ExitInv, LastIsDisable, f
      <3> QED BY <3>2, <3>3
    <2> QED BY <2>1, <2>2
  <1>15. LateKnown'
    BY DEF Inv, ExitInv, LateKnown, CommandForm, TypeOK, Chargers, Commands,
        Histories, SetState, Target, Accepts, AfterBegin, StopRequested,
        ToldToWait, Recorded, StopsCharger, Lowest, Operating
  <1>16. CommandForm'
    BY DEF Inv, ExitInv, CommandForm, SetState
  <1> QED BY <1>1, <1>2, <1>3, <1>4, <1>5, <1>6, <1>7, <1>8, <1>9, <1>10, <1>11,
      <1>12, <1>13, <1>14, <1>15, <1>16
  DEF Inv, PermitInv, ExitInv

(* and ends it.                                                            *)
LEMMA FinishStateInv ==
  ASSUME Inv, FinishState
  PROVE  Inv'
  <1>1. TypeOK'
    BY FinishStateType DEF Inv, ExitInv
  <1>2. RoomForRequest'
    BY DEF Inv, RoomForRequest, TypeOK, Modes, States, Chargers, FinishState
  <1>3. PendingIsFault'
    BY DEF Inv, PermitInv, PendingIsFault, CycleKnows, Alive, TypeOK, Modes,
        States, Chargers, FinishState
  <1>4. CycleKnows'
    BY DEF Inv, PermitInv, CycleKnows, Alive, TypeOK, Modes, States,
        Chargers, Cycles, FinishState
  <1>5. LowWhenClosed'
    BY DEF Inv, PermitInv, LowWhenClosed, TypeOK, Modes, States, Permits,
        Operating, FinishState
  <1>6. PolicyKnown'
    BY PolicyOfTypes
    DEF Inv, PermitInv, PolicyKnown, LowWhenClosed, TypeOK, Modes, States,
        Permits, Cycles, Operating, FinishState
  <1>7. StatusAwaited'
    BY DEF Inv, PermitInv, StatusAwaited, ReleaseIsIdle, TypeOK, Modes,
        States, Permits, Chargers, Cycles, Histories, FinishState
  <1>8. ReleaseIsIdle'
    BY DEF Inv, PermitInv, ReleaseIsIdle, TypeOK, Modes, States, Cycles,
        FinishState
  <1>9. PermitWaitsForExit'
    BY DEF Inv, PermitInv, PermitWaitsForExit, PendingIsFault, Alive, TypeOK,
        Modes, States, Permits, Chargers, FinishState
  <1>10. PermitMatchesPolicy'
    BY PolicyOfTypes
    DEF Inv, PermitInv, PermitMatchesPolicy, PolicyKnown, LowWhenClosed,
        TypeOK, Modes, States, Permits, Operating, FinishState
  <1>11. LastIsDisable'
    BY SupervisorAssumption
    DEF Inv, ExitInv, LastIsDisable, CommandForm, TypeOK, Modes, States,
        Chargers, Commands, Histories, SupervisorAssumption, FinishState
  <1>12. /\ FaultOpensTheLoop' /\ ShadowIsHonest' /\ BurstCounts'
         /\ CommandForm' /\ LateKnown'
    BY DEF Inv, PermitInv, ExitInv, FaultOpensTheLoop, ShadowIsHonest,
        BurstCounts, CommandForm, LateKnown, FinishState
  <1> QED BY <1>1, <1>2, <1>3, <1>4, <1>5, <1>6, <1>7, <1>8, <1>9, <1>10, <1>11,
      <1>12
  DEF Inv, PermitInv, ExitInv

(* A task drops the shadow.                                                *)
LEMMA DropShadowInv ==
  ASSUME Inv, NEW t \in Tasks, DropShadow(t)
  PROVE  Inv'
  <1>1. TypeOK'
    BY DropShadowType DEF Inv, ExitInv
  <1>2. LowWhenClosed'
    BY DEF Inv, PermitInv, LowWhenClosed, TypeOK, Modes, States, Permits,
        Operating, DropShadow, DropFirst
  <1>3. PolicyKnown'
    BY PolicyOfTypes
    DEF Inv, PermitInv, PolicyKnown, LowWhenClosed, TypeOK, Modes, States,
        Permits, Cycles, Operating, DropShadow, DropFirst
  <1>4. StatusAwaited'
    BY DEF Inv, PermitInv, StatusAwaited, ReleaseIsIdle, TypeOK, Modes,
        States, Permits, Chargers, Cycles, Histories, DropShadow, DropFirst
  <1>5. PermitWaitsForExit'
    BY DEF Inv, PermitInv, PermitWaitsForExit, PendingIsFault, Alive, TypeOK,
        Modes, States, Permits, Chargers, DropShadow, DropFirst
  <1>6. PermitMatchesPolicy'
    BY PolicyOfTypes
    DEF Inv, PermitInv, PermitMatchesPolicy, PolicyKnown, LowWhenClosed,
        TypeOK, Modes, States, Permits, Operating, DropShadow, DropFirst
  <1>7. FaultOpensTheLoop'
    BY DEF Inv, PermitInv, FaultOpensTheLoop, TypeOK, Permits, Tasks,
        DropShadow, DropFirst
  <1>8. ShadowIsHonest'
    BY DEF Inv, PermitInv, ShadowIsHonest, TypeOK, Permits, Tasks,
        DropShadow
  <1>9. /\ RoomForRequest' /\ PendingIsFault' /\ CycleKnows'
        /\ ReleaseIsIdle' /\ BurstCounts' /\ CommandForm' /\ LastIsDisable'
        /\ LateKnown'
    BY DEF Inv, PermitInv, ExitInv, RoomForRequest, PendingIsFault,
        CycleKnows, ReleaseIsIdle, BurstCounts, CommandForm, LastIsDisable,
        LateKnown, Alive, DropShadow
  <1> QED BY <1>1, <1>2, <1>3, <1>4, <1>5, <1>6, <1>7, <1>8, <1>9
  DEF Inv, PermitInv, ExitInv

(* and the pin.                                                            *)
LEMMA DropPinInv ==
  ASSUME Inv, NEW t \in Tasks, DropPin(t)
  PROVE  Inv'
  <1>1. TypeOK'
    BY DropPinType DEF Inv, ExitInv
  <1>2. LowWhenClosed'
    BY DEF Inv, PermitInv, LowWhenClosed, TypeOK, Modes, States, Permits,
        Operating, DropPin, DropThen
  <1>3. PolicyKnown'
    BY PolicyOfTypes
    DEF Inv, PermitInv, PolicyKnown, LowWhenClosed, TypeOK, Modes, States,
        Permits, Cycles, Operating, DropPin, DropThen
  <1>4. StatusAwaited'
    BY DEF Inv, PermitInv, StatusAwaited, ReleaseIsIdle, TypeOK, Modes,
        States, Permits, Chargers, Cycles, Histories, DropPin, DropThen
  <1>5. PermitWaitsForExit'
    BY DEF Inv, PermitInv, PermitWaitsForExit, PendingIsFault, Alive, TypeOK,
        Modes, States, Permits, Chargers, DropPin, DropThen
  <1>6. PermitMatchesPolicy'
    BY PolicyOfTypes
    DEF Inv, PermitInv, PermitMatchesPolicy, PolicyKnown, LowWhenClosed,
        TypeOK, Modes, States, Permits, Operating, DropPin, DropThen
  <1>7. FaultOpensTheLoop'
    BY DEF Inv, PermitInv, FaultOpensTheLoop, TypeOK, Permits, Tasks,
        DropPin, DropThen
  <1>8. ShadowIsHonest'
    BY DEF Inv, PermitInv, ShadowIsHonest, TypeOK, Permits, Tasks, DropPin,
        DropThen
  <1>9. /\ RoomForRequest' /\ PendingIsFault' /\ CycleKnows'
        /\ ReleaseIsIdle' /\ BurstCounts' /\ CommandForm' /\ LastIsDisable'
        /\ LateKnown'
    BY DEF Inv, PermitInv, ExitInv, RoomForRequest, PendingIsFault,
        CycleKnows, ReleaseIsIdle, BurstCounts, CommandForm, LastIsDisable,
        LateKnown, Alive, DropPin
  <1> QED BY <1>1, <1>2, <1>3, <1>4, <1>5, <1>6, <1>7, <1>8, <1>9
  DEF Inv, PermitInv, ExitInv

(* The CAN task polls.                                                     *)
LEMMA PollInv ==
  ASSUME Inv, NEW status \in {"none", "fine", "failed"},
         NEW down \in BOOLEAN, NEW lost \in BOOLEAN, Poll(status, down, lost)
  PROVE  Inv'
  <1>1. TypeOK'
    BY PollType DEF Inv, ExitInv
  <1>2. RoomForRequest'
    BY DEF Inv, RoomForRequest, TypeOK, Modes, States, Chargers, Poll, At,
        WithFailure, DroppingIf
  <1>3. PendingIsFault'
    BY DEF Inv, PermitInv, PendingIsFault, CycleKnows, Alive, TypeOK, Modes,
        States, Chargers, Poll, At, WithFailure, DroppingIf
  <1>4. CycleKnows'
    BY DEF Inv, PermitInv, CycleKnows, Alive, TypeOK, Modes, States,
        Chargers, Cycles, Poll
  <1>5. PolicyKnown'
    BY PolicyOfTypes
    DEF Inv, PermitInv, PolicyKnown, LowWhenClosed, TypeOK, Modes, States,
        Permits, Cycles, Operating, Poll
  <1>6. StatusAwaited'
    BY DEF Inv, PermitInv, StatusAwaited, ReleaseIsIdle, TypeOK, Modes,
        States, Permits, Chargers, Cycles, Histories, Poll, At, WithFailure,
        DroppingIf
  <1>7. ReleaseIsIdle'
    BY DEF Inv, PermitInv, ReleaseIsIdle, TypeOK, Modes, States, Cycles,
        Poll
  <1>8. PermitWaitsForExit'
    BY DEF Inv, PermitInv, PermitWaitsForExit, PendingIsFault, Alive, TypeOK,
        Modes, States, Permits, Chargers, Poll, At, WithFailure, DroppingIf
  <1>9. FaultOpensTheLoop'
    BY DEF Inv, PermitInv, FaultOpensTheLoop, TypeOK, Permits, Tasks, Poll,
        At, WithFailure, DroppingIf
  <1>10. ShadowIsHonest'
    BY DEF Inv, PermitInv, ShadowIsHonest, TypeOK, Permits, Tasks, Poll, At,
        WithFailure, DroppingIf
  <1>11. BurstCounts'
    BY SupervisorAssumption
    DEF Inv, ExitInv, BurstCounts, CommandForm, TypeOK, Chargers, Histories,
        SupervisorAssumption, Poll, At, WithFailure, DroppingIf
  <1>12. CommandForm'
    BY RestartedKeeps DEF Inv, ExitInv, CommandForm, TypeOK, Commands, Poll
  <1>13. LastIsDisable'
    BY RestartedKeeps, SupervisorAssumption
    DEF Inv, ExitInv, LastIsDisable, CommandForm, TypeOK, Modes, States,
        Chargers, Commands, Histories, SupervisorAssumption, Poll, At,
        WithFailure, DroppingIf
  <1>14. LateKnown'
    BY RestartedKeeps
    DEF Inv, ExitInv, LateKnown, CommandForm, TypeOK, Chargers, Commands,
        Histories, Poll, At, WithFailure, DroppingIf
  <1>15. /\ LowWhenClosed' /\ PermitMatchesPolicy'
    BY DEF Inv, PermitInv, LowWhenClosed, PermitMatchesPolicy, Poll
  <1> QED BY <1>1, <1>2, <1>3, <1>4, <1>5, <1>6, <1>7, <1>8, <1>9, <1>10, <1>11,
      <1>12, <1>13, <1>14, <1>15
  DEF Inv, PermitInv, ExitInv

(* publishes a frame of the burst.                                         *)
LEMMA PublishStopInv ==
  ASSUME Inv, NEW built \in BOOLEAN, PublishStop(built)
  PROVE  Inv'
  <1>1. TypeOK'
    BY PublishStopType DEF Inv, ExitInv
  <1>2. RoomForRequest'
    BY DEF Inv, RoomForRequest, TypeOK, Modes, States, Chargers, PublishStop,
        At, WithFailure, DroppingIf
  <1>3. PendingIsFault'
    BY DEF Inv, PermitInv, PendingIsFault, CycleKnows, Alive, TypeOK, Modes,
        States, Chargers, PublishStop, At, WithFailure, DroppingIf
  <1>4. CycleKnows'
    BY DEF Inv, PermitInv, CycleKnows, Alive, TypeOK, Modes, States,
        Chargers, Cycles, PublishStop
  <1>5. PolicyKnown'
    BY PolicyOfTypes
    DEF Inv, PermitInv, PolicyKnown, LowWhenClosed, TypeOK, Modes, States,
        Permits, Cycles, Operating, PublishStop
  <1>6. StatusAwaited'
    <2>1. task'.can = "decide" /\ UNCHANGED <<mode, permit, seen>>
      BY DEF PublishStop, Inv, TypeOK, Cycles
    <2>2. /\ charger'.comm = charger.comm
          /\ charger.fault => charger'.fault
      BY DEF PublishStop, WithFailure, Inv, TypeOK, Chargers
    <2> QED BY <2>1, <2>2 DEF Inv, PermitInv, StatusAwaited
  <1>7. ReleaseIsIdle'
    BY DEF Inv, PermitInv, ReleaseIsIdle, TypeOK, Modes, States, Cycles,
        PublishStop
  <1>8. PermitWaitsForExit'
    BY DEF Inv, PermitInv, PermitWaitsForExit, PendingIsFault, Alive, TypeOK,
        Modes, States, Permits, Chargers, PublishStop
  <1>9. FaultOpensTheLoop'
    BY DEF Inv, PermitInv, FaultOpensTheLoop, TypeOK, Permits, Tasks,
        PublishStop, At, WithFailure, DroppingIf
  <1>10. ShadowIsHonest'
    BY DEF Inv, PermitInv, ShadowIsHonest, TypeOK, Permits, Tasks,
        PublishStop, At, WithFailure, DroppingIf
  <1>11. BurstCounts'
    BY SupervisorAssumption
    DEF Inv, ExitInv, BurstCounts, CommandForm, TypeOK, Chargers, Histories,
        SupervisorAssumption, PublishStop, At, WithFailure, DroppingIf
  <1>12. CommandForm'
    BY PublishStopKeeps DEF Inv, ExitInv
  <1>13. LastIsDisable'
    <2>1. /\ command'.active.loaded = command.active.loaded
          /\ charger'.pending = charger.pending
          /\ charger'.left = charger.left
      BY PublishStopKeeps
      DEF PublishStop, WithFailure, Inv, ExitInv, TypeOK, Chargers
    <2> QED BY <2>1 DEF PublishStop, Inv, ExitInv, LastIsDisable
  <1>14. LateKnown'
    <2>1. /\ command'.active.loaded = command.active.loaded
          /\ charger'.pending = charger.pending
      BY PublishStopKeeps
      DEF PublishStop, WithFailure, Inv, ExitInv, TypeOK, Chargers
    <2> QED BY <2>1 DEF PublishStop, Inv, ExitInv, LateKnown
  <1>15. /\ LowWhenClosed' /\ PermitMatchesPolicy'
    BY DEF Inv, PermitInv, LowWhenClosed, PermitMatchesPolicy, PublishStop
  <1> QED BY <1>1, <1>2, <1>3, <1>4, <1>5, <1>6, <1>7, <1>8, <1>9, <1>10, <1>11,
      <1>12, <1>13, <1>14, <1>15
  DEF Inv, PermitInv, ExitInv

(* or has none to publish.                                                 *)
LEMMA NoStopInv ==
  ASSUME Inv, NoStop
  PROVE  Inv'
  <1>1. TypeOK'
    BY NoStopType DEF Inv, ExitInv
  <1>2. CycleKnows'
    BY DEF Inv, PermitInv, CycleKnows, Alive, TypeOK, Modes, States,
        Chargers, Cycles, NoStop
  <1>3. PolicyKnown'
    BY PolicyOfTypes
    DEF Inv, PermitInv, PolicyKnown, LowWhenClosed, TypeOK, Modes, States,
        Permits, Cycles, Operating, NoStop
  <1>4. StatusAwaited'
    BY DEF Inv, PermitInv, StatusAwaited, ReleaseIsIdle, TypeOK, Modes,
        States, Permits, Chargers, Cycles, Histories, NoStop
  <1>5. ReleaseIsIdle'
    BY DEF Inv, PermitInv, ReleaseIsIdle, TypeOK, Modes, States, Cycles,
        NoStop
  <1>6. /\ RoomForRequest' /\ PendingIsFault' /\ LowWhenClosed'
        /\ PermitWaitsForExit' /\ PermitMatchesPolicy' /\ FaultOpensTheLoop'
        /\ ShadowIsHonest' /\ BurstCounts' /\ CommandForm' /\ LastIsDisable'
        /\ LateKnown'
    BY DEF Inv, PermitInv, ExitInv, RoomForRequest, PendingIsFault,
        LowWhenClosed, PermitWaitsForExit, PermitMatchesPolicy,
        FaultOpensTheLoop, ShadowIsHonest, BurstCounts, CommandForm,
        LastIsDisable, LateKnown, Alive, NoStop
  <1> QED BY <1>1, <1>2, <1>3, <1>4, <1>5, <1>6 DEF Inv, PermitInv, ExitInv

(* decides in CHARGE.                                                      *)
LEMMA DecideChargingInv ==
  ASSUME Inv, NEW due \in BOOLEAN, NEW late \in BOOLEAN,
         NEW hard \in BOOLEAN, DecideCharging(due, late, hard)
  PROVE  Inv'
  <1>1. TypeOK'
    BY DecideChargingType DEF Inv, ExitInv
  <1>2. RoomForRequest'
    BY DEF Inv, RoomForRequest, TypeOK, Modes, States, Chargers,
        DecideCharging
  <1>3. PendingIsFault'
    BY DEF Inv, PermitInv, PendingIsFault, CycleKnows, Alive, TypeOK, Modes,
        States, Chargers, DecideCharging
  <1>4. CycleKnows'
    <2>1. CASE due /\ ~task.attempted
      <3>1. ~charger.pending
        BY <2>1
        DEF DecideCharging, At, Inv, PermitInv, CycleKnows, Alive
      <3>2. ~charger'.pending
        BY <2>1, <3>1 DEF DecideCharging, Inv, TypeOK, Chargers
      <3> QED BY <3>2 DEF CycleKnows
    <2>2. CASE ~(due /\ ~task.attempted)
      BY <2>2 DEF DecideCharging, Inv, TypeOK, Cycles, CycleKnows
    <2> QED BY <2>1, <2>2
  <1>5. PolicyKnown'
    BY PolicyOfTypes
    DEF Inv, PermitInv, PolicyKnown, LowWhenClosed, TypeOK, Modes, States,
        Permits, Cycles, Operating, DecideCharging
  <1>6. StatusAwaited'
    <2> SUFFICES ASSUME mode'.state = "charge", ~seen'.status
                 PROVE  /\ charger'.comm /\ charger'.fault /\ ~permit'.pin
                        /\ task'.can = "conclude" => task'.verdict
      BY DEF StatusAwaited
    <2> DEFINE c == [charger EXCEPT !.comm = charger.comm \/ late]
    <2>1. /\ charger \in Chargers /\ task \in Cycles
          /\ charger.comm /\ charger.fault /\ ~permit.pin
          /\ UNCHANGED <<mode, permit, seen>>
      BY DEF DecideCharging, Inv, TypeOK, PermitInv, StatusAwaited
    <2>2. c.comm /\ c.fault
      BY <2>1 DEF Chargers
    <2>3. CASE due /\ ~task.attempted
      <3>1. charger' = c /\ task'.verdict = Failed(c)
        BY <2>1, <2>3 DEF DecideCharging, Cycles
      <3> QED BY <2>1, <2>2, <3>1 DEF Failed
    <2>4. CASE ~(due /\ ~task.attempted)
      <3>1. UNCHANGED charger /\ task'.can = "poll"
        BY <2>1, <2>4 DEF DecideCharging, Cycles
      <3> QED BY <2>1, <3>1
    <2> QED BY <2>3, <2>4
  <1>7. ReleaseIsIdle'
    BY DEF Inv, PermitInv, ReleaseIsIdle, TypeOK, Modes, States, Cycles,
        DecideCharging
  <1>8. PermitWaitsForExit'
    BY DEF Inv, PermitInv, PermitWaitsForExit, PendingIsFault, Alive, TypeOK,
        Modes, States, Permits, Chargers, DecideCharging
  <1>9. BurstCounts'
    BY SupervisorAssumption
    DEF Inv, ExitInv, BurstCounts, CommandForm, TypeOK, Chargers, Histories,
        SupervisorAssumption, DecideCharging
  <1>10. LastIsDisable'
    BY SupervisorAssumption
    DEF Inv, ExitInv, LastIsDisable, CommandForm, TypeOK, Modes, States,
        Chargers, Commands, Histories, SupervisorAssumption, DecideCharging
  <1>11. LateKnown'
    BY DEF Inv, ExitInv, LateKnown, CommandForm, TypeOK, Chargers, Commands,
        Histories, DecideCharging
  <1>12. /\ LowWhenClosed' /\ PermitMatchesPolicy' /\ FaultOpensTheLoop'
         /\ ShadowIsHonest' /\ CommandForm'
    BY DEF Inv, PermitInv, ExitInv, LowWhenClosed, PermitMatchesPolicy,
        FaultOpensTheLoop, ShadowIsHonest, CommandForm, DecideCharging
  <1> QED BY <1>1, <1>2, <1>3, <1>4, <1>5, <1>6, <1>7, <1>8, <1>9, <1>10, <1>11,
      <1>12
  DEF Inv, PermitInv, ExitInv

(* stores its verdict.                                                     *)
LEMMA ConcludeChargingInv ==
  ASSUME Inv, ConcludeCharging
  PROVE  Inv'
  <1>1. TypeOK'
    BY ConcludeChargingType DEF Inv, ExitInv
  <1>2. RoomForRequest'
    BY DEF Inv, RoomForRequest, TypeOK, Modes, States, Chargers,
        ConcludeCharging
  <1>3. PendingIsFault'
    BY DEF Inv, PermitInv, PendingIsFault, CycleKnows, Alive, TypeOK, Modes,
        States, Chargers, ConcludeCharging, At, DroppingIf
  <1>4. CycleKnows'
    BY DEF Inv, PermitInv, CycleKnows, Alive, TypeOK, Modes, States,
        Chargers, Cycles, ConcludeCharging
  <1>5. PolicyKnown'
    BY PolicyOfTypes
    DEF Inv, PermitInv, PolicyKnown, LowWhenClosed, TypeOK, Modes, States,
        Permits, Cycles, Operating, ConcludeCharging
  <1>6. StatusAwaited'
    BY DEF Inv, PermitInv, StatusAwaited, ReleaseIsIdle, TypeOK, Modes,
        States, Permits, Chargers, Cycles, Histories, ConcludeCharging, At,
        DroppingIf
  <1>7. ReleaseIsIdle'
    BY DEF Inv, PermitInv, ReleaseIsIdle, TypeOK, Modes, States, Cycles,
        ConcludeCharging
  <1>8. PermitWaitsForExit'
    BY DEF Inv, PermitInv, PermitWaitsForExit, PendingIsFault, Alive, TypeOK,
        Modes, States, Permits, Chargers, ConcludeCharging
  <1>9. FaultOpensTheLoop'
    BY DEF Inv, PermitInv, FaultOpensTheLoop, TypeOK, Permits, Tasks,
        ConcludeCharging, At, DroppingIf
  <1>10. ShadowIsHonest'
    BY DEF Inv, PermitInv, ShadowIsHonest, TypeOK, Permits, Tasks,
        ConcludeCharging, At, DroppingIf
  <1>11. BurstCounts'
    BY SupervisorAssumption
    DEF Inv, ExitInv, BurstCounts, CommandForm, TypeOK, Chargers, Histories,
        SupervisorAssumption, ConcludeCharging
  <1>12. LastIsDisable'
    BY SupervisorAssumption
    DEF Inv, ExitInv, LastIsDisable, CommandForm, TypeOK, Modes, States,
        Chargers, Commands, Histories, SupervisorAssumption,
        ConcludeCharging
  <1>13. LateKnown'
    BY DEF Inv, ExitInv, LateKnown, CommandForm, TypeOK, Chargers, Commands,
        Histories, ConcludeCharging
  <1>14. /\ LowWhenClosed' /\ PermitMatchesPolicy' /\ CommandForm'
    BY DEF Inv, PermitInv, ExitInv, LowWhenClosed, PermitMatchesPolicy,
        CommandForm, ConcludeCharging
  <1> QED BY <1>1, <1>2, <1>3, <1>4, <1>5, <1>6, <1>7, <1>8, <1>9, <1>10, <1>11,
      <1>12, <1>13, <1>14
  DEF Inv, PermitInv, ExitInv

(* publishes the periodic command.                                         *)
LEMMA PublishCommandInv ==
  ASSUME Inv, NEW built \in BOOLEAN, PublishCommand(built)
  PROVE  Inv'
  <1>1. TypeOK'
    BY PublishCommandType DEF Inv, ExitInv
  <1>2. RoomForRequest'
    BY DEF Inv, RoomForRequest, TypeOK, Modes, States, Chargers,
        PublishCommand, At, WithFailure, DroppingIf
  <1>3. PendingIsFault'
    BY DEF Inv, PermitInv, PendingIsFault, CycleKnows, Alive, TypeOK, Modes,
        States, Chargers, PublishCommand, At, WithFailure, DroppingIf
  <1>4. CycleKnows'
    BY DEF Inv, PermitInv, CycleKnows, Alive, TypeOK, Modes, States,
        Chargers, Cycles, PublishCommand
  <1>5. PolicyKnown'
    BY PolicyOfTypes
    DEF Inv, PermitInv, PolicyKnown, LowWhenClosed, TypeOK, Modes, States,
        Permits, Cycles, Operating, PublishCommand
  <1>6. StatusAwaited'
    <2>1. task'.can = "poll" /\ UNCHANGED <<mode, permit, seen>>
      BY DEF PublishCommand, Inv, TypeOK, Cycles
    <2>2. /\ charger'.comm = charger.comm
          /\ charger.fault => charger'.fault
      BY DEF PublishCommand, WithFailure, Inv, TypeOK, Chargers
    <2> QED BY <2>1, <2>2 DEF Inv, PermitInv, StatusAwaited
  <1>7. ReleaseIsIdle'
    BY DEF Inv, PermitInv, ReleaseIsIdle, TypeOK, Modes, States, Cycles,
        PublishCommand
  <1>8. PermitWaitsForExit'
    BY DEF Inv, PermitInv, PermitWaitsForExit, PendingIsFault, Alive, TypeOK,
        Modes, States, Permits, Chargers, PublishCommand, At, WithFailure,
        DroppingIf
  <1>9. FaultOpensTheLoop'
    BY DEF Inv, PermitInv, FaultOpensTheLoop, TypeOK, Permits, Tasks,
        PublishCommand, At, WithFailure, DroppingIf
  <1>10. ShadowIsHonest'
    BY DEF Inv, PermitInv, ShadowIsHonest, TypeOK, Permits, Tasks,
        PublishCommand, At, WithFailure, DroppingIf
  <1>11. BurstCounts'
    BY SupervisorAssumption
    DEF Inv, ExitInv, BurstCounts, CommandForm, TypeOK, Chargers, Histories,
        SupervisorAssumption, PublishCommand, At, WithFailure, DroppingIf
  <1>12. CommandForm'
    BY PublishCommandKeeps DEF Inv, ExitInv
  <1>13. LastIsDisable'
    <2>1. /\ command'.active.loaded = command.active.loaded
          /\ charger'.pending = charger.pending
          /\ charger'.left = charger.left
      BY PublishCommandKeeps
      DEF PublishCommand, WithFailure, Inv, ExitInv, TypeOK, Chargers
    <2> QED BY <2>1 DEF PublishCommand, Inv, ExitInv, LastIsDisable
  <1>14. LateKnown'
    <2>1. /\ command'.active.loaded = command.active.loaded
          /\ charger'.pending = charger.pending
      BY PublishCommandKeeps
      DEF PublishCommand, WithFailure, Inv, ExitInv, TypeOK, Chargers
    <2> QED BY <2>1 DEF PublishCommand, Inv, ExitInv, LateKnown
  <1>15. /\ LowWhenClosed' /\ PermitMatchesPolicy'
    BY DEF Inv, PermitInv, LowWhenClosed, PermitMatchesPolicy,
        PublishCommand
  <1> QED BY <1>1, <1>2, <1>3, <1>4, <1>5, <1>6, <1>7, <1>8, <1>9, <1>10, <1>11,
      <1>12, <1>13, <1>14, <1>15
  DEF Inv, PermitInv, ExitInv

(* decides outside CHARGE.                                                 *)
LEMMA DecideIdleInv ==
  ASSUME Inv, DecideIdle
  PROVE  Inv'
  <1>1. TypeOK'
    BY DecideIdleType DEF Inv, ExitInv
  <1>2. RoomForRequest'
    BY DEF Inv, RoomForRequest, TypeOK, Modes, States, Chargers, DecideIdle
  <1>3. PendingIsFault'
    BY DEF Inv, PermitInv, PendingIsFault, CycleKnows, Alive, TypeOK, Modes,
        States, Chargers, DecideIdle
  <1>4. CycleKnows'
    BY DEF Inv, PermitInv, CycleKnows, Alive, TypeOK, Modes, States,
        Chargers, Cycles, DecideIdle, At, Remaining
  <1>5. PolicyKnown'
    BY PolicyOfTypes
    DEF Inv, PermitInv, PolicyKnown, LowWhenClosed, TypeOK, Modes, States,
        Permits, Cycles, Operating, DecideIdle
  <1>6. StatusAwaited'
    BY DEF Inv, PermitInv, StatusAwaited, ReleaseIsIdle, TypeOK, Modes,
        States, Permits, Chargers, Cycles, Histories, DecideIdle
  <1>7. ReleaseIsIdle'
    BY DEF Inv, PermitInv, ReleaseIsIdle, TypeOK, Modes, States, Cycles,
        DecideIdle
  <1>8. PermitWaitsForExit'
    BY DEF Inv, PermitInv, PermitWaitsForExit, PendingIsFault, Alive, TypeOK,
        Modes, States, Permits, Chargers, DecideIdle
  <1>9. BurstCounts'
    BY SupervisorAssumption
    DEF Inv, ExitInv, BurstCounts, CommandForm, TypeOK, Chargers, Histories,
        SupervisorAssumption, DecideIdle
  <1>10. LastIsDisable'
    BY SupervisorAssumption
    DEF Inv, ExitInv, LastIsDisable, CommandForm, TypeOK, Modes, States,
        Chargers, Commands, Histories, SupervisorAssumption, DecideIdle
  <1>11. LateKnown'
    BY DEF Inv, ExitInv, LateKnown, CommandForm, TypeOK, Chargers, Commands,
        Histories, DecideIdle
  <1>12. /\ LowWhenClosed' /\ PermitMatchesPolicy' /\ FaultOpensTheLoop'
         /\ ShadowIsHonest' /\ CommandForm'
    BY DEF Inv, PermitInv, ExitInv, LowWhenClosed, PermitMatchesPolicy,
        FaultOpensTheLoop, ShadowIsHonest, CommandForm, DecideIdle
  <1> QED BY <1>1, <1>2, <1>3, <1>4, <1>5, <1>6, <1>7, <1>8, <1>9, <1>10, <1>11,
      <1>12
  DEF Inv, PermitInv, ExitInv

(* and stores that verdict.                                                *)
LEMMA ReleaseInv ==
  ASSUME Inv, Release
  PROVE  Inv'
  <1>1. TypeOK'
    BY ReleaseType DEF Inv, ExitInv
  <1>2. RoomForRequest'
    BY DEF Inv, RoomForRequest, TypeOK, Modes, States, Chargers, Release
  <1>3. PendingIsFault'
    BY DEF Inv, PermitInv, PendingIsFault, CycleKnows, Alive, TypeOK, Modes,
        States, Chargers, Release, At
  <1>4. CycleKnows'
    BY DEF Inv, PermitInv, CycleKnows, Alive, TypeOK, Modes, States,
        Chargers, Cycles, Release
  <1>5. PolicyKnown'
    BY PolicyOfTypes
    DEF Inv, PermitInv, PolicyKnown, LowWhenClosed, TypeOK, Modes, States,
        Permits, Cycles, Operating, Release
  <1>6. StatusAwaited'
    BY DEF Inv, PermitInv, StatusAwaited, ReleaseIsIdle, TypeOK, Modes,
        States, Permits, Chargers, Cycles, Histories, Release, At
  <1>7. ReleaseIsIdle'
    BY DEF Inv, PermitInv, ReleaseIsIdle, TypeOK, Modes, States, Cycles,
        Release
  <1>8. PermitWaitsForExit'
    BY DEF Inv, PermitInv, PermitWaitsForExit, PendingIsFault, Alive, TypeOK,
        Modes, States, Permits, Chargers, Release
  <1>9. BurstCounts'
    BY SupervisorAssumption
    DEF Inv, ExitInv, BurstCounts, CommandForm, TypeOK, Chargers, Histories,
        SupervisorAssumption, Release
  <1>10. LastIsDisable'
    BY SupervisorAssumption
    DEF Inv, ExitInv, LastIsDisable, CommandForm, TypeOK, Modes, States,
        Chargers, Commands, Histories, SupervisorAssumption, Release
  <1>11. LateKnown'
    BY DEF Inv, ExitInv, LateKnown, CommandForm, TypeOK, Chargers, Commands,
        Histories, Release
  <1>12. /\ LowWhenClosed' /\ PermitMatchesPolicy' /\ FaultOpensTheLoop'
         /\ ShadowIsHonest' /\ CommandForm'
    BY DEF Inv, PermitInv, ExitInv, LowWhenClosed, PermitMatchesPolicy,
        FaultOpensTheLoop, ShadowIsHonest, CommandForm, Release
  <1> QED BY <1>1, <1>2, <1>3, <1>4, <1>5, <1>6, <1>7, <1>8, <1>9, <1>10, <1>11,
      <1>12
  DEF Inv, PermitInv, ExitInv

(* A command goes into a mailbox.                                          *)
LEMMA LoadInv ==
  ASSUME Inv, Load
  PROVE  Inv'
  <1>1. TypeOK'
    BY LoadType DEF Inv, ExitInv
  <1>2. CommandForm'
    BY DEF Inv, ExitInv, CommandForm, TypeOK, Commands, Load, LoadedAs
  <1>3. LastIsDisable'
    BY SupervisorAssumption
    DEF Inv, ExitInv, LastIsDisable, CommandForm, TypeOK, Modes, States,
        Chargers, Commands, Histories, SupervisorAssumption, Load, LoadedAs
  <1>4. LateKnown'
    BY DEF Inv, ExitInv, LateKnown, CommandForm, TypeOK, Chargers, Commands,
        Histories, Load, LoadedAs
  <1>5. /\ RoomForRequest' /\ PendingIsFault' /\ CycleKnows'
        /\ LowWhenClosed' /\ PolicyKnown' /\ StatusAwaited'
        /\ ReleaseIsIdle' /\ PermitWaitsForExit' /\ PermitMatchesPolicy'
        /\ FaultOpensTheLoop' /\ ShadowIsHonest' /\ BurstCounts'
    BY DEF Inv, PermitInv, ExitInv, RoomForRequest, PendingIsFault,
        CycleKnows, LowWhenClosed, PolicyKnown, StatusAwaited, ReleaseIsIdle,
        PermitWaitsForExit, PermitMatchesPolicy, FaultOpensTheLoop,
        ShadowIsHonest, BurstCounts, Alive, Load
  <1> QED BY <1>1, <1>2, <1>3, <1>4, <1>5 DEF Inv, PermitInv, ExitInv

(* or is refused.                                                          *)
LEMMA LoadFailsInv ==
  ASSUME Inv, LoadFails
  PROVE  Inv'
  <1>1. TypeOK'
    BY LoadFailsType DEF Inv, ExitInv
  <1>2. RoomForRequest'
    BY DEF Inv, RoomForRequest, TypeOK, Modes, States, Chargers, LoadFails
  <1>3. PendingIsFault'
    BY DEF Inv, PermitInv, PendingIsFault, CycleKnows, Alive, TypeOK, Modes,
        States, Chargers, LoadFails
  <1>4. CycleKnows'
    BY DEF Inv, PermitInv, CycleKnows, Alive, TypeOK, Modes, States,
        Chargers, Cycles, LoadFails
  <1>5. StatusAwaited'
    BY DEF Inv, PermitInv, StatusAwaited, ReleaseIsIdle, TypeOK, Modes,
        States, Permits, Chargers, Cycles, Histories, LoadFails
  <1>6. PermitWaitsForExit'
    BY DEF Inv, PermitInv, PermitWaitsForExit, PendingIsFault, Alive, TypeOK,
        Modes, States, Permits, Chargers, LoadFails
  <1>7. BurstCounts'
    BY SupervisorAssumption
    DEF Inv, ExitInv, BurstCounts, CommandForm, TypeOK, Chargers, Histories,
        SupervisorAssumption, LoadFails
  <1>8. LastIsDisable'
    BY SupervisorAssumption
    DEF Inv, ExitInv, LastIsDisable, CommandForm, TypeOK, Modes, States,
        Chargers, Commands, Histories, SupervisorAssumption, LoadFails
  <1>9. LateKnown'
    BY DEF Inv, ExitInv, LateKnown, CommandForm, TypeOK, Chargers, Commands,
        Histories, LoadFails
  <1>10. /\ LowWhenClosed' /\ PolicyKnown' /\ ReleaseIsIdle'
         /\ PermitMatchesPolicy' /\ FaultOpensTheLoop' /\ ShadowIsHonest'
         /\ CommandForm'
    BY DEF Inv, PermitInv, ExitInv, LowWhenClosed, PolicyKnown,
        ReleaseIsIdle, PermitMatchesPolicy, FaultOpensTheLoop,
        ShadowIsHonest, CommandForm, LoadFails
  <1> QED BY <1>1, <1>2, <1>3, <1>4, <1>5, <1>6, <1>7, <1>8, <1>9, <1>10
  DEF Inv, PermitInv, ExitInv

(* A command has been sent.                                                *)
LEMMA CompleteInv ==
  ASSUME Inv, BirthKnown, Complete
  PROVE  Inv'
  <1>1. TypeOK'
    BY CompleteType DEF Inv, ExitInv
  <1>2. RoomForRequest'
    BY DEF Inv, RoomForRequest, TypeOK, Modes, States, Chargers, Complete,
        Completed, CountedStop, Told, Promoted
  <1>3. PendingIsFault'
    BY DEF Inv, PermitInv, PendingIsFault, CycleKnows, Alive, TypeOK, Modes,
        States, Chargers, Complete, Completed, CountedStop, Told, Promoted
  <1>4. CycleKnows'
    BY DEF Inv, PermitInv, CycleKnows, Alive, TypeOK, Modes, States,
        Chargers, Cycles, Complete, Completed, CountedStop, Told, Promoted
  <1>5. StatusAwaited'
    BY DEF Inv, PermitInv, StatusAwaited, ReleaseIsIdle, TypeOK, Modes,
        States, Permits, Chargers, Cycles, Histories, Complete, Completed,
        CountedStop, Told, Promoted
  <1>6. PermitWaitsForExit'
    BY DEF Inv, PermitInv, PermitWaitsForExit, PendingIsFault, Alive, TypeOK,
        Modes, States, Permits, Chargers, Complete, Completed, CountedStop,
        Told, Promoted
  <1>7. BurstCounts'
    <2> DEFINE a == command.active
    <2>1. a \in Commands /\ a.loaded \in {"enable", "disable"}
      BY DEF Complete, Inv, TypeOK, Commands
    <2>2. a.kind = "stop" => a.loaded = "disable"
      BY <2>1 DEF Inv, ExitInv, CommandForm
    <2>3. charger' = Completed(a) /\ seen' = Told(a.loaded)
      BY DEF Complete
    <2>4. /\ charger.left \in 0 .. BurstFrames
          /\ seen.stops \in 0 .. BurstFrames
      BY DEF Inv, TypeOK, Chargers, Histories
    <2>5. /\ seen'.stops >= seen.stops
          /\ seen'.stops <= BurstFrames
          /\ a.loaded = "disable" /\ a.born = seen.exits =>
               \/ seen'.stops = seen.stops + 1
               \/ seen'.stops = BurstFrames
      BY <2>1, <2>3, <2>4, ToldIs, SupervisorAssumption
      DEF Inv, SupervisorAssumption, TypeOK, Histories
    <2>6. \/ /\ charger'.pending = charger.pending
             /\ charger'.left = charger.left
          \/ /\ a.kind = "stop" /\ charger.pending
             /\ charger.request = a.request
             /\ charger'.left = IF charger.left > 0 THEN charger.left - 1
                                                    ELSE charger.left
             /\ charger'.pending <=> charger.left > 1
      BY <2>1, <2>3, CompletedIs DEF Inv
    <2>7. seen'.stops \in 0 .. BurstFrames
      BY <2>1, <2>3, ToldIs DEF Inv, Histories
    <2> HIDE DEF a
    <2>8. CASE /\ charger'.pending = charger.pending
               /\ charger'.left = charger.left
      BY <2>4, <2>5, <2>7, <2>8, SupervisorAssumption
      DEF SupervisorAssumption, Inv, ExitInv, BurstCounts
    <2>9. CASE /\ a.kind = "stop" /\ charger.pending
               /\ charger.request = a.request
               /\ charger'.left = IF charger.left > 0 THEN charger.left - 1
                                                      ELSE charger.left
               /\ charger'.pending <=> charger.left > 1
      <3>1. /\ charger.left >= 1
            /\ seen.stops + charger.left >= BurstFrames
            /\ charger'.left = charger.left - 1
        BY <2>4, <2>9 DEF Inv, ExitInv, BurstCounts
      <3>4. a.born = seen.exits
        BY <2>9 DEF BirthKnown, BornOf, a
      <3>2. CASE seen'.stops = seen.stops + 1
        BY <2>4, <2>7, <2>9, <3>1, <3>2, SupervisorAssumption
        DEF SupervisorAssumption, BurstCounts
      <3>3. CASE seen'.stops = BurstFrames
        BY <2>4, <2>9, <3>1, <3>3, SupervisorAssumption
        DEF SupervisorAssumption, BurstCounts
      <3> QED BY <2>2, <2>5, <2>9, <3>2, <3>3, <3>4
    <2> QED BY <2>6, <2>8, <2>9
  <1>8. CommandForm'
    BY PromotedKeeps, NoCommandIs
    DEF Inv, ExitInv, CommandForm, TypeOK, Commands, Complete
  <1>9. LastIsDisable'
    BY SupervisorAssumption
    DEF Inv, ExitInv, LastIsDisable, CommandForm, TypeOK, Modes, States,
        Chargers, Commands, Histories, SupervisorAssumption, Complete,
        Completed, CountedStop, Told, Promoted
  <1>10. LateKnown'
    BY DEF Inv, ExitInv, LateKnown, CommandForm, TypeOK, Chargers, Commands,
        Histories, Complete, Completed, CountedStop, Told, Promoted
  <1>11. /\ LowWhenClosed' /\ PolicyKnown' /\ ReleaseIsIdle'
         /\ PermitMatchesPolicy' /\ FaultOpensTheLoop' /\ ShadowIsHonest'
    BY DEF Inv, PermitInv, LowWhenClosed, PolicyKnown, ReleaseIsIdle,
        PermitMatchesPolicy, FaultOpensTheLoop, ShadowIsHonest, Complete
  <1> QED BY <1>1, <1>2, <1>3, <1>4, <1>5, <1>6, <1>7, <1>8, <1>9, <1>10, <1>11
  DEF Inv, PermitInv, ExitInv

(* or taken back.                                                          *)
LEMMA AbortInv ==
  ASSUME Inv, Abort
  PROVE  Inv'
  <1>1. TypeOK'
    BY AbortType DEF Inv, ExitInv
  <1>2. RoomForRequest'
    BY DEF Inv, RoomForRequest, TypeOK, Modes, States, Chargers, Abort,
        Counted
  <1>3. PendingIsFault'
    BY DEF Inv, PermitInv, PendingIsFault, CycleKnows, Alive, TypeOK, Modes,
        States, Chargers, Abort, Counted
  <1>4. CycleKnows'
    BY DEF Inv, PermitInv, CycleKnows, Alive, TypeOK, Modes, States,
        Chargers, Cycles, Abort, Counted
  <1>5. StatusAwaited'
    BY DEF Inv, PermitInv, StatusAwaited, ReleaseIsIdle, TypeOK, Modes,
        States, Permits, Chargers, Cycles, Histories, Abort, Counted
  <1>6. PermitWaitsForExit'
    BY DEF Inv, PermitInv, PermitWaitsForExit, PendingIsFault, Alive, TypeOK,
        Modes, States, Permits, Chargers, Abort, Counted
  <1>7. BurstCounts'
    BY SupervisorAssumption
    DEF Inv, ExitInv, BurstCounts, CommandForm, TypeOK, Chargers, Histories,
        SupervisorAssumption, Abort, Counted
  <1>8. CommandForm'
    BY PromotedKeeps, NoCommandIs
    DEF Inv, ExitInv, CommandForm, TypeOK, Commands, Abort
  <1>9. LastIsDisable'
    BY PromotedKeeps, NoCommandIs, SupervisorAssumption
    DEF Inv, ExitInv, LastIsDisable, CommandForm, TypeOK, Modes, States,
        Chargers, Commands, Histories, SupervisorAssumption, Abort, Counted
  <1>10. LateKnown'
    BY PromotedKeeps, NoCommandIs
    DEF Inv, ExitInv, LateKnown, CommandForm, TypeOK, Chargers, Commands,
        Histories, Abort
  <1>11. /\ LowWhenClosed' /\ PolicyKnown' /\ ReleaseIsIdle'
         /\ PermitMatchesPolicy' /\ FaultOpensTheLoop' /\ ShadowIsHonest'
    BY DEF Inv, PermitInv, LowWhenClosed, PolicyKnown, ReleaseIsIdle,
        PermitMatchesPolicy, FaultOpensTheLoop, ShadowIsHonest, Abort
  <1> QED BY <1>1, <1>2, <1>3, <1>4, <1>5, <1>6, <1>7, <1>8, <1>9, <1>10, <1>11
  DEF Inv, PermitInv, ExitInv

-----------------------------------------------------------------------------
(* The initial state: nothing changing, nothing pending, permit low.       *)
LEMMA InitInv == Init => Inv
  <1> SUFFICES ASSUME Init
               PROVE  Inv
    OBVIOUS
  <1> USE SupervisorAssumption DEF SupervisorAssumption
  <1>1. NoCommand \in Commands
    BY NoCommandIs
  <1>2. TypeOK
    BY <1>1
    DEF Init, TypeOK, Modes, States, Policies, Permits, Chargers, Cycles,
        Histories
  <1>3. RoomForRequest
    BY DEF Init, RoomForRequest
  <1>4. PermitInv
    BY DEF Init, PermitInv, PendingIsFault, CycleKnows, LowWhenClosed,
           PolicyKnown, StatusAwaited, ReleaseIsIdle, PermitWaitsForExit,
           PermitMatchesPolicy, FaultOpensTheLoop, ShadowIsHonest, Operating
  <1>5. ExitInv
    BY NoCommandIs
    DEF Init, ExitInv, BurstCounts, CommandForm, LastIsDisable, LateKnown
  <1> QED BY <1>2, <1>3, <1>4, <1>5 DEF Inv

(* Nothing changes.                                                        *)
LEMMA StutterInv == Inv /\ UNCHANGED vars => Inv'
  BY DEF Inv, vars, TypeOK, RoomForRequest, PermitInv, ExitInv,
         PendingIsFault, CycleKnows, Alive, LowWhenClosed, PolicyKnown,
         StatusAwaited, ReleaseIsIdle, PermitWaitsForExit,
         PermitMatchesPolicy, FaultOpensTheLoop, ShadowIsHonest,
         BurstCounts, CommandForm, LastIsDisable, LateKnown

(* All steps together.                                                     *)
LEMMA NextInv == Inv /\ BirthKnown /\ [Next]_vars => Inv'
  <1> SUFFICES ASSUME Inv, BirthKnown, [Next]_vars
               PROVE  Inv'
    OBVIOUS
  <1>1. CASE Supervise \/ Corrupt \/ ReadState
    BY <1>1, SuperviseInv, CorruptInv, ReadStateInv
  <1>2. CASE \E result \in {"good", "bad"} : PublishInputs(result)
    BY <1>2, PublishInputsInv
  <1>3. CASE \E requested \in Operating : SetState(requested)
    BY <1>3, SetStateInv
  <1>4. CASE FinishState
    BY <1>4, FinishStateInv
  <1>5. CASE \E t \in Tasks : DropShadow(t) \/ DropPin(t)
    BY <1>5, DropShadowInv, DropPinInv
  <1>6. CASE CanCycle
    <2>1. CASE \E status \in {"none", "fine", "failed"},
                  down, lost \in BOOLEAN : Poll(status, down, lost)
      BY <2>1, PollInv
    <2>2. CASE \E built \in BOOLEAN :
                 PublishStop(built) \/ PublishCommand(built)
      BY <2>2, PublishStopInv, PublishCommandInv
    <2>3. CASE \E due, late, hard \in BOOLEAN :
                 DecideCharging(due, late, hard)
      BY <2>3, DecideChargingInv
    <2>4. CASE NoStop \/ ConcludeCharging
      BY <2>4, NoStopInv, ConcludeChargingInv
    <2>5. CASE DecideIdle \/ Release
      BY <2>5, DecideIdleInv, ReleaseInv
    <2> QED BY <1>6, <2>1, <2>2, <2>3, <2>4, <2>5 DEF CanCycle
  <1>7. CASE Load \/ LoadFails
    BY <1>7, LoadInv, LoadFailsInv
  <1>8. CASE Complete \/ Abort
    BY <1>8, CompleteInv, AbortInv
  <1>9. CASE UNCHANGED vars
    BY <1>9, StutterInv
  <1> QED
    BY <1>1, <1>2, <1>3, <1>4, <1>5, <1>6, <1>7, <1>8, <1>9 DEF Next

(* The steps that neither publish nor finish a command, nor request a stop.*)
LEMMA QuietBirth ==
  ASSUME TypeOK, BirthKnown, UNCHANGED command,
         charger'.request = charger.request, seen'.exits = seen.exits
  PROVE  BirthKnown'
  BY DEF BirthKnown, BornOf

(* A new command carries the present request or none.                      *)
LEMMA PublishingBirth ==
  ASSUME TypeOK, BirthKnown, NEW new \in Commands, Publishing(new),
         BornOf(new), charger'.request = charger.request,
         seen'.exits = seen.exits
  PROVE  BirthKnown'
  <1> DEFINE a == [command.active EXCEPT !.stale = TRUE]
  <1>1. a.kind = command.active.kind /\ a.born = command.active.born
        /\ a.request = command.active.request
    BY DEF TypeOK, Commands
  <1> HIDE DEF a
  <1>2. \/ command' = [active |-> new, waiting |-> NoCommand]
        \/ command' = [active |-> a, waiting |-> new]
    BY DEF Publishing, a
  <1> QED BY <1>1, <1>2, NoCommandIs DEF BirthKnown, BornOf

(* What the transitions do to the request and to the history.              *)
LEMMA ExitBirth ==
  ASSUME TypeOK, BirthKnown, NEW from, NEW to,
         charger.request < MaxRequests \/ ~StopsCharger(from, to)
  PROVE  AfterBegin(charger, from, to).request =
           Recorded(seen, from, to).exits
  <1>1. charger \in Chargers /\ seen \in Histories
    BY DEF TypeOK
  <1>2. CASE StopsCharger(from, to)
    BY <1>1, <1>2, StopRequestedIs, RecordedIs DEF AfterBegin, BirthKnown
  <1>3. CASE ~StopsCharger(from, to)
    BY <1>1, <1>3, RecordedIs DEF AfterBegin, BirthKnown
  <1> QED BY <1>2, <1>3

(* Every exit makes one request, and a command keeps its own.              *)
LEMMA NextBirth == Inv /\ BirthKnown /\ [Next]_vars => BirthKnown'
  <1> SUFFICES ASSUME Inv, BirthKnown, [Next]_vars
               PROVE  BirthKnown'
    OBVIOUS
  <1>1. /\ TypeOK /\ charger \in Chargers /\ seen \in Histories
        /\ command.active \in Commands /\ command.waiting \in Commands
    BY DEF Inv, TypeOK
  <1>2. CASE Supervise
    <2> DEFINE to == IF mode.state = "corrupt" THEN "error"
                     ELSE IF mode.state = "start" /\ InputsReady(charger)
                     THEN "discharge" ELSE mode.state
    <2>1. CASE mode.state = "corrupt"
      <3>1. StopsCharger("corrupt", "error") /\ charger.request < MaxRequests
        BY <2>1 DEF StopsCharger, Inv, RoomForRequest
      <3>2. /\ charger' = StopRequested(charger) /\ UNCHANGED command
            /\ seen' = Recorded(seen, "corrupt", "error")
        BY <1>2, <2>1 DEF Supervise
      <3> QED
        BY <1>1, <3>1, <3>2, StopRequestedIs, RecordedIs
        DEF BirthKnown, BornOf
    <2>2. CASE mode.state # "corrupt"
      <3>1. /\ UNCHANGED <<charger, command>>
            /\ seen' = Recorded(seen, mode.state, to)
        BY <1>2, <2>2 DEF Supervise
      <3>2. ~StopsCharger(mode.state, to)
        BY <2>2 DEF StopsCharger
      <3> HIDE DEF to
      <3>3. seen' = seen
        BY <1>1, <3>1, <3>2, RecordedIs
      <3> QED BY <1>1, <3>1, <3>3, QuietBirth
    <2> QED BY <2>1, <2>2
  <1>3. CASE \E requested \in Operating : SetState(requested)
    <2> PICK requested \in Operating : SetState(requested)
      BY <1>3
    <2> DEFINE to == Target(mode.state, requested)
               c == AfterBegin(charger, mode.state, to)
               s == Recorded(seen, mode.state, to)
    <2>1. CASE ~Accepts(mode.state)
      <3>1. UNCHANGED <<charger, seen, command>>
        BY <2>1 DEF SetState
      <3> QED BY <1>1, <3>1, QuietBirth
    <2>2. CASE Accepts(mode.state)
      <3>1. charger.request < MaxRequests \/ ~StopsCharger(mode.state, to)
        BY DEF SetState
      <3>2. c.request = s.exits
        BY <1>1, <3>1, ExitBirth
      <3>3. c \in Chargers /\ s \in Histories
        BY <1>1, <3>1, StopRequestedIs, RecordedIs DEF AfterBegin
      <3>4. /\ UNCHANGED command
            /\ charger' = IF requested = "charge" THEN ToldToWait(c) ELSE c
            /\ seen' = [s EXCEPT !.status = FALSE]
        BY <2>2 DEF SetState
      <3> HIDE DEF c, s
      <3>5. charger'.request = c.request
        BY <3>3, <3>4 DEF ToldToWait, Chargers
      <3>6. seen'.exits = s.exits
        BY <3>3, <3>4 DEF Histories
      <3> QED BY <3>2, <3>4, <3>5, <3>6 DEF BirthKnown, BornOf
    <2> QED BY <2>1, <2>2
  <1>4. CASE \E status \in {"none", "fine", "failed"}, down, lost \in BOOLEAN :
               Poll(status, down, lost)
    <2> PICK status \in {"none", "fine", "failed"}, down \in BOOLEAN,
             lost \in BOOLEAN : Poll(status, down, lost)
      BY <1>4
    <2>1. charger'.request = charger.request
      BY <1>1 DEF Poll, WithFailure, Chargers
    <2>2. seen'.exits = seen.exits
      BY <1>1 DEF Poll, Histories
    <2>3. CASE command' = command
      BY <1>1, <2>1, <2>2, <2>3, QuietBirth
    <2>4. CASE command' = Promoted
      BY <2>1, <2>2, <2>4, NoCommandIs DEF Promoted, BirthKnown, BornOf
    <2>5. CASE command' = [command EXCEPT !.active.loaded = "no",
                                          !.active.stale = FALSE]
      <3> DEFINE a == [command.active EXCEPT !.loaded = "no", !.stale = FALSE]
      <3>1. /\ a.kind = command.active.kind /\ a.born = command.active.born
            /\ a.request = command.active.request
        BY <1>1 DEF Commands
      <3>2. command'.active = a /\ command'.waiting = command.waiting
        BY <1>1, <2>5 DEF TypeOK
      <3> HIDE DEF a
      <3> QED BY <2>1, <2>2, <3>1, <3>2 DEF BirthKnown, BornOf
    <2> QED BY <2>3, <2>4, <2>5 DEF Poll, Restarted
  <1>5. CASE \E built \in BOOLEAN : PublishStop(built)
    <2> PICK built \in BOOLEAN : PublishStop(built)
      BY <1>5
    <2>1. charger'.request = charger.request /\ UNCHANGED seen
      BY <1>1 DEF PublishStop, WithFailure, Chargers
    <2>2. CASE built
      <3> DEFINE new == Built("stop", FALSE, charger.request)
      <3>1. charger.request \in 0 .. MaxRequests
        BY <1>1 DEF Chargers
      <3>2. new \in Commands /\ BornOf(new)
        BY <1>1, <3>1, BuiltIs DEF BornOf, BirthKnown
      <3>3. Publishing(new)
        BY <2>2 DEF PublishStop
      <3> HIDE DEF new
      <3> QED BY <1>1, <2>1, <3>2, <3>3, PublishingBirth
    <2>3. CASE ~built
      <3>1. UNCHANGED command
        BY <2>3 DEF PublishStop
      <3> QED BY <1>1, <2>1, <3>1, QuietBirth
    <2> QED BY <2>2, <2>3
  <1>6. CASE \E built \in BOOLEAN : PublishCommand(built)
    <2> PICK built \in BOOLEAN : PublishCommand(built)
      BY <1>6
    <2>1. charger'.request = charger.request /\ UNCHANGED seen
      BY <1>1 DEF PublishCommand, WithFailure, Chargers
    <2>2. CASE built
      <3> DEFINE new == Built("normal", task.enable, 0)
      <3>1. task.enable \in BOOLEAN /\ 0 \in 0 .. MaxRequests
        BY <1>1, SupervisorAssumption DEF TypeOK, Cycles, SupervisorAssumption
      <3>2. new \in Commands /\ new.kind = "normal"
        BY <1>1, <3>1, BuiltIs
      <3>3. Publishing(new)
        BY <2>2 DEF PublishCommand
      <3> HIDE DEF new
      <3> QED BY <1>1, <2>1, <3>2, <3>3, PublishingBirth DEF BornOf
    <2>3. CASE ~built
      <3>1. UNCHANGED command
        BY <2>3 DEF PublishCommand
      <3> QED BY <1>1, <2>1, <3>1, QuietBirth
    <2> QED BY <2>2, <2>3
  <1>7. CASE Load
    <2> DEFINE l == LoadedAs(command.active)
               a == [command.active EXCEPT !.loaded = l]
    <2>1. UNCHANGED <<charger, seen>>
      BY <1>7 DEF Load
    <2>2. command'.active = a /\ command'.waiting = command.waiting
      BY <1>1, <1>7 DEF Load, TypeOK
    <2> HIDE DEF l
    <2>3. /\ a.kind = command.active.kind /\ a.born = command.active.born
          /\ a.request = command.active.request
      BY <1>1 DEF Commands
    <2> HIDE DEF a
    <2> QED BY <2>1, <2>2, <2>3 DEF BirthKnown, BornOf
  <1>8. CASE Complete
    <2>1. charger'.request = charger.request
      BY <1>1, <1>8, CompletedIs DEF Complete
    <2>2. seen'.exits = seen.exits
      <3>1. command.active.loaded \in {"enable", "disable"}
        BY <1>1, <1>8 DEF Complete, Commands
      <3> QED BY <1>1, <1>8, <3>1, ToldIs DEF Complete
    <2>3. command' = Promoted
      BY <1>8 DEF Complete
    <2> QED BY <2>1, <2>2, <2>3, NoCommandIs DEF Promoted, BirthKnown, BornOf
  <1>9. CASE Abort
    <2>1. command' = Promoted /\ UNCHANGED <<charger, seen>>
      BY <1>9 DEF Abort, Counted
    <2> QED BY <2>1, NoCommandIs DEF Promoted, BirthKnown, BornOf
  <1>10. CASE \/ Corrupt \/ ReadState \/ FinishState \/ NoStop
              \/ \E result \in {"good", "bad"} : PublishInputs(result)
              \/ \E t \in Tasks : DropShadow(t) \/ DropPin(t)
              \/ UNCHANGED vars
    <2>1. UNCHANGED <<charger, seen, command>>
      BY <1>10 DEF Corrupt, ReadState, FinishState, NoStop, PublishInputs,
          DropShadow, DropPin, vars
    <2> QED BY <1>1, <2>1, QuietBirth
  <1>11. CASE \/ \E due, late, hard \in BOOLEAN :
                   DecideCharging(due, late, hard)
              \/ ConcludeCharging \/ DecideIdle \/ Release \/ LoadFails
    <2>1. UNCHANGED <<seen, command>>
      BY <1>11 DEF DecideCharging, ConcludeCharging, DecideIdle, Release,
          LoadFails
    <2>2. charger'.request = charger.request
      BY <1>1, <1>11 DEF DecideCharging, ConcludeCharging, DecideIdle,
          Release, LoadFails, Chargers
    <2> QED BY <1>1, <2>1, <2>2, QuietBirth
  <1> QED
    BY <1>2, <1>3, <1>4, <1>5, <1>6, <1>7, <1>8, <1>9, <1>10, <1>11
    DEF Next, CanCycle

(* The invariant.                                                          *)
LEMMA InvAlways == Spec => []Inv
  <1>1. Init => BirthKnown
    BY NoCommandIs DEF Init, BirthKnown, BornOf
  <1> QED BY InitInv, <1>1, NextInv, NextBirth, PTL DEF Spec

-----------------------------------------------------------------------------
(* No counter of the shutdown leaves its range: the frames still to be sent*)
(* and the requests, whatever is cancelled, aborted or corrupted.          *)
THEOREM TypeCorrect == Spec => []TypeOK
  <1>1. Inv => TypeOK
    BY DEF Inv
  <1> QED BY <1>1, InvAlways, PTL

(* The permit is low until the exit from the last state is over.           *)
THEOREM PermitWaits == Spec => []PermitWaitsForExit
  <1>1. Inv => PermitWaitsForExit
    BY DEF Inv, PermitInv
  <1> QED BY <1>1, InvAlways, PTL

(* The permit never stands on another state's current limit.               *)
THEOREM PermitMatches == Spec => []PermitMatchesPolicy
  <1>1. Inv => PermitMatchesPolicy
    BY DEF Inv, PermitInv
  <1> QED BY <1>1, InvAlways, PTL

(* A published fault leaves the permit high only until its own drop ends.  *)
THEOREM FaultOpens == Spec => []FaultOpensTheLoop
  <1>1. Inv => FaultOpensTheLoop
    BY DEF Inv, PermitInv
  <1> QED BY <1>1, InvAlways, PTL

(* The shadow of the permit never claims a pin that a drop left high.      *)
THEOREM ShadowStaysHonest == Spec => []ShadowIsHonest
  <1>1. Inv => ShadowIsHonest
    BY DEF Inv, PermitInv
  <1> QED BY <1>1, InvAlways, PTL

(* CHARGE gets no permit on the charger's word from before.                *)
THEOREM ChargeWaits == Spec => []ChargeWaitsForStatus
  <1>1. Inv => ChargeWaitsForStatus
    BY DEF Inv, PermitInv, StatusAwaited, ChargeWaitsForStatus
  <1> QED BY <1>1, InvAlways, PTL

(* An exit that is over has told the charger to stop, the full burst, with *)
(* commands that were built since that exit.                               *)
THEOREM ExitCompletes == Spec => []ExitIsComplete
  <1>1. Inv => ExitIsComplete
    BY DEF Inv, ExitInv, BurstCounts, LastIsDisable, ExitIsComplete
  <1> QED BY <1>1, InvAlways, PTL

(* At most the one command that a mailbox already had is late.             *)
THEOREM EnableIsLateOnce == Spec => []OneLateEnable
  <1>1. Inv => OneLateEnable
    BY DEF Inv, ExitInv, LateKnown, OneLateEnable
  <1> QED BY <1>1, InvAlways, PTL
=============================================================================
