--------------------------- MODULE MissionRequest ---------------------------
(***************************************************************************)
(* The driver's choice of a mission profile (ams_power_strategy.c): the    *)
(* requests the vehicle's controller sends on CAN under a rolling counter, *)
(* how the CAN task believes them, and how the estimator task, which the   *)
(* CAN task preempts, turns them into the profile that caps the current.   *)
(* A request is named by what the decision looks at; a frame the checks of *)
(* version, range, reserved bits and CRC refuse is a garbled one.          *)
(***************************************************************************)
EXTENDS Integers

CONSTANTS
  CounterMod,  \* the counter is counted modulo CounterMod (16 in the code)
  Requests,    \* the profiles the controller asks for
  MaxAge,      \* AMS_MISSION_REQUEST_MAX_AGE_MS
  MaxLate,     \* bound: from the estimator's entry to its use of the request
  MaxHold      \* bound: a frame waits so long in the receive ring

Profiles == {"endurance", "qualify", "limp home"}
Oldest == MaxAge + MaxLate + 1     \* ages count up to here: older is stale
Trusted == 2                       \* good requests in a row that count

VARIABLES
  ecu,        \* the sender: its next counter, its profile, and how many of
              \* its frames came through in order since the last disturbance
  driven,     \* ticks since the vehicle last stood
  request,    \* mission_request; valid is good_streak >= 2 on every path
  task,       \* the estimator task, and the ticks since it read its tick
  strategy,   \* active_profile and limp_latched
  published   \* the profile of the published limits, "none" when invalid

vars == <<ecu, driven, request, task, strategy, published>>

TypeOK ==
  /\ ecu \in [counter : 0 .. CounterMod - 1, profile : Requests,
              clean : 0 .. CounterMod + 1]
  /\ driven \in 0 .. Oldest
  /\ request \in [seen : BOOLEAN, counter : 0 .. CounterMod - 1,
                  profile : Profiles, streak : 0 .. Trusted,
                  still : BOOLEAN, age : 0 .. Oldest]
  /\ task \in [pc : {"idle", "update"}, late : 0 .. MaxLate]
  /\ strategy \in [active : Profiles, limp : BOOLEAN]
  /\ published \in Profiles \cup {"none"}

Init ==
  /\ ecu \in [counter : {0}, profile : Requests, clean : {0}]
  /\ driven = 0
  /\ request = [seen |-> FALSE, counter |-> 0, profile |-> "endurance",
                streak |-> 0, still |-> FALSE, age |-> Oldest]
  /\ task = [pc |-> "idle", late |-> 0]
  /\ strategy = [active |-> "endurance", limp |-> FALSE]
  /\ published = "none"

UpTo(limit, n) == IF n > limit THEN limit ELSE n
After(counter) == (counter + 1) % CounterMod

-----------------------------------------------------------------------------
(* Seeded fault: the counter of the next request is not reduced.           *)
InSequenceUnmasked(counter) == ~request.seen \/ counter = request.counter + 1

InSequence(counter) == ~request.seen \/ counter = After(request.counter)

Rejected == [request EXCEPT !.streak = 0]

Believed(counter, profile, still, age) ==
  [seen |-> TRUE, counter |-> counter, profile |-> profile,
   streak |-> IF request.seen /\ request.profile = profile
                THEN UpTo(Trusted, request.streak + 1) ELSE 1,
   still |-> still, age |-> age]

(* The CAN task takes out of the ring an intact frame that arrived age     *)
(* ticks ago, after the frame before it.                                   *)
Ingest(counter, profile, still, age) ==
  /\ age <= request.age
  /\ request' = IF InSequence(counter)
                  THEN Believed(counter, profile, still, age) ELSE Rejected

(* The controller's frame comes through.  It confirms a standstill only if *)
(* the vehicle stood when it arrived.                                      *)
Receive(profile, still, age) ==
  /\ still => driven <= age
  /\ Ingest(ecu.counter, profile, still, age)
  /\ ecu' = [counter |-> After(ecu.counter), profile |-> profile,
             clean |-> IF profile = ecu.profile
                         THEN UpTo(CounterMod + 1, ecu.clean + 1) ELSE 1]
  /\ UNCHANGED <<driven, task, strategy, published>>

(* The bus delivers the last frame once more.                              *)
Repeat(still, age) ==
  /\ still => driven <= age
  /\ ecu.clean > 0
  /\ Ingest((ecu.counter - 1) % CounterMod, ecu.profile, still, age)
  /\ ecu' = [ecu EXCEPT !.clean = 0]
  /\ UNCHANGED <<driven, task, strategy, published>>

Disturbed == [ecu EXCEPT !.counter = After(@), !.clean = 0]

(* A frame is lost on the bus or in a full ring.                           *)
Lose ==
  /\ ecu' = Disturbed
  /\ UNCHANGED <<driven, request, task, strategy, published>>

Garble ==
  /\ ecu' = Disturbed
  /\ request' = Rejected
  /\ UNCHANGED <<driven, task, strategy, published>>

Restart ==
  /\ ecu' = [ecu EXCEPT !.counter = 0, !.clean = 0]
  /\ UNCHANGED <<driven, request, task, strategy, published>>

-----------------------------------------------------------------------------
(* The tick the task reads on entry is the one the update judges with.     *)
Enter ==
  /\ task.pc = "idle"
  /\ task' = [pc |-> "update", late |-> 0]
  /\ UNCHANGED <<ecu, driven, request, strategy, published>>

(* (uint32_t)(now - last_rx): a request newer than now is the oldest.      *)
IsFresh ==
  /\ request.streak = Trusted
  /\ request.age >= task.late
  /\ request.age - task.late <= MaxAge

(* Seeded fault: a profile once chosen is entered without a standstill.    *)
QualifyBlockedNever == FALSE

QualifyBlocked ==
  /\ request.profile = "qualify"
  /\ strategy.active # "qualify"
  /\ ~request.still

Chosen(limp) ==
  CASE limp -> "limp home"
    [] ~limp /\ (~IsFresh \/ QualifyBlocked) -> "endurance"
    [] OTHER -> request.profile

(* The limits are solved, and low says whether the lowest segment is down  *)
(* to limp_trigger_soc_lower.                                              *)
Solve(low) ==
  /\ task.pc = "update"
  /\ LET limp == strategy.limp \/ low
     IN  strategy' = [active |-> Chosen(limp), limp |-> limp]
  /\ published' = strategy'.active
  /\ task' = [pc |-> "idle", late |-> 0]
  /\ UNCHANGED <<ecu, driven, request>>

(* No solution, or inputs without authority: the limits are withdrawn and  *)
(* the strategy is not asked.                                              *)
Invalidate ==
  /\ task.pc = "update"
  /\ published' = "none"
  /\ task' = [pc |-> "idle", late |-> 0]
  /\ UNCHANGED <<ecu, driven, request, strategy>>

(* No new measurement: the limits stand.                                   *)
Skip ==
  /\ task.pc = "update"
  /\ task' = [pc |-> "idle", late |-> 0]
  /\ UNCHANGED <<ecu, driven, request, strategy, published>>

-----------------------------------------------------------------------------
Tick(stands) ==
  /\ task.pc = "update" => task.late < MaxLate
  /\ task' = [task EXCEPT !.late = IF task.pc = "update" THEN @ + 1 ELSE @]
  /\ request' = [request EXCEPT !.age = UpTo(Oldest, @ + 1)]
  /\ driven' = IF stands THEN 0 ELSE UpTo(Oldest, driven + 1)
  /\ UNCHANGED <<ecu, strategy, published>>

Next ==
  \/ \E still \in BOOLEAN, age \in 0 .. MaxHold :
       \/ \E profile \in Requests : Receive(profile, still, age)
       \/ Repeat(still, age)
  \/ Lose \/ Garble \/ Restart
  \/ Enter \/ Invalidate \/ Skip
  \/ \E low \in BOOLEAN : Solve(low)
  \/ \E stands \in BOOLEAN : Tick(stands)

Spec == Init /\ [][Next]_vars

-----------------------------------------------------------------------------
(* A controller that has sent CounterMod + 1 frames without a disturbance  *)
(* is believed, whatever was lost, repeated or garbled before: the counter *)
(* comes round to the one that is awaited.                                 *)
LinkResynchronizes == ecu.clean > CounterMod => request.streak = Trusted

(* Then its profile is applied by every update that reads its tick after   *)
(* the request and within its age.                                         *)
SteadyRequestIsApplied ==
  (/\ \E low \in BOOLEAN : Solve(low)
   /\ ~strategy'.limp
   /\ ecu.clean > CounterMod
   /\ request.age - task.late \in 0 .. MaxAge
   /\ \/ request.still \/ ecu.profile # "qualify"
      \/ strategy.active = "qualify")
  => published' = ecu.profile

(* The qualifying profile is entered only by a vehicle that stood not      *)
(* longer ago than a request may be old when the update began.             *)
QualifyFromStandstill ==
  strategy.active # "qualify" /\ strategy'.active = "qualify"
    => driven <= MaxAge + task.late

(* A pack that was once too low is never given a larger profile again.     *)
LimpIsForEver ==
  strategy.limp =>
    /\ strategy'.limp /\ strategy'.active = "limp home"
    /\ published' \in {"none", "limp home"}
=============================================================================
