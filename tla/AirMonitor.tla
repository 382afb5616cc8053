----------------------------- MODULE AirMonitor -----------------------------
(***************************************************************************)
(* The contactor evaluator (air_monitor.c) as its task runs it once per    *)
(* period on whatever the board adapter delivers (air_task.c), with        *)
(* auxiliary feedback enabled.                                             *)
(*                                                                         *)
(* Data.  Time is counted in evaluation periods and every age stops at     *)
(* Horizon, which no deadline exceeds.  The two voltages of one evaluation *)
(* are a level of the load-side bus against the pack: "sagging" will do in *)
(* RUN but does not complete a precharge, "weak" the reverse.  A sample    *)
(* that is invalid, stale or malformed is "stale"; a command likewise      *)
(* "lost".                                                                 *)
(* Of the active and the latched fault mask only whether they are empty is *)
(* kept; the reason shown to the operator is left out.                     *)
(***************************************************************************)
EXTENDS Naturals, FiniteSets

CONSTANTS
  Configs,     \* what ams_air_board_get_config may deliver and is accepted
  NoConfig,    \* nothing accepted yet
  Lags,        \* periods between two evaluations; above 1 the task was late
  Horizon      \* bound: ages beyond it are not told apart

Contacts == {"pos", "neg", "pre"}
Phases == {"OFF", "PRECHARGE", "RUN", "SHUTDOWN"}
Energized == {"PRECHARGE", "RUN"}
Levels == {"discharged", "sagging", "weak", "charged", "over"}
States == {"open", "closed", "line"}

(* An accepted configuration: schedule_valid leaves room for the debounce  *)
(* before every deadline.  The adapter goes with it: "line" says whether it *)
(* can tell a line fault from a contact.                                   *)
ConfigType ==
  [aux : BOOLEAN, bus : BOOLEAN, line : BOOLEAN, debounce : 0..Horizon,
   make : [Contacts -> 1..Horizon], release : [Contacts -> 1..Horizon],
   prechargeMax : 1..Horizon, settle : 1..Horizon, discharge : 1..Horizon]

Required(c) == IF c.aux THEN Contacts ELSE {"pos", "neg"}

RoundsToDebounce(c) == 1 + c.debounce

ScheduleValid(c) ==
  /\ \A k \in Required(c) : /\ RoundsToDebounce(c) <= c.make[k]
                            /\ RoundsToDebounce(c) <= c.release[k]
  /\ c.prechargeMax >= c.release["pos"] /\ c.prechargeMax >= c.make["neg"]
  /\ c.aux => c.prechargeMax >= c.make["pre"]

ASSUME ConstantsAssumption ==
  /\ Horizon \in Nat \ {0} /\ Configs \subseteq ConfigType
  /\ NoConfig \notin Configs /\ Lags \subseteq Nat \ {0}
  /\ \A c \in Configs : ScheduleValid(c)

VARIABLES
  config,    \* the configuration the task has accepted
  mon        \* ams_air_monitor_t

vars == <<config, mon>>

NoFilter == [candidate |-> "none", debounced |-> "none", age |-> 0]

Init ==
  /\ config = NoConfig
  /\ mon = [phase |-> "UNKNOWN", age |-> 0, authorized |-> FALSE,
            bootOpen |-> FALSE, feedback |-> FALSE, steady |-> FALSE,
            pending |-> FALSE, complete |-> FALSE, plausible |-> FALSE,
            permit |-> FALSE, active |-> FALSE, latched |-> FALSE,
            filter |-> [k \in Contacts |-> NoFilter]]

-----------------------------------------------------------------------------
(* One evaluation, stage by stage.  m is the monitor as the stage found it. *)

Older(age, d, most) == IF age + d > most THEN most ELSE age + d

(* A sample this old is debounced.                                         *)
Settled == IF config = NoConfig THEN 0 ELSE config.debounce

(* ams_air_monitor_ready: what the supervisor asks, and what a closing     *)
(* transition inherits.                                                    *)
Ready(m) ==
  /\ m.feedback /\ m.bootOpen /\ m.phase \in {"OFF", "PRECHARGE", "RUN"}
  /\ m.authorized /\ (m.steady \/ m.pending) /\ m.permit
  /\ ~m.active /\ ~m.latched

AgedFilter(f, d) ==
  IF f = NoFilter THEN f ELSE [f EXCEPT !.age = Older(@, d, Settled)]

(* The outputs of the last evaluation are dropped, its history ages.       *)
Reset(m, d) ==
  [m EXCEPT !.feedback = FALSE, !.steady = FALSE, !.pending = FALSE,
            !.complete = FALSE, !.plausible = FALSE, !.permit = FALSE,
            !.active = FALSE, !.age = Older(@, d, Horizon),
            !.filter = [k \in Contacts |-> AgedFilter(m.filter[k], d)]]

Mark(m, latch) == [m EXCEPT !.active = TRUE, !.latched = @ \/ latch]

(* Seeded fault: losing sight of a precharge is not latched. *)
SupervisedInRun(m) == m.bootOpen /\ m.phase = "RUN"

(* air_latch_supervision_loss                                              *)
Supervised(m) == m.bootOpen /\ m.phase \in Energized

Finalize(m) == [m EXCEPT !.permit = @ /\ ~m.active /\ ~m.latched]

Lose(m) == Finalize(Mark(m, Supervised(m)))

(* The proof a precharge must show when RUN is commanded.                  *)
PrechargeProven(in) ==
  config.bus => mon.complete /\ in.bus \in {"weak", "charged"}

(* Seeded fault: the steady state of the last evaluation is not asked for. *)
UnsteadyAllowed(in) ==
  \/ in.command \in {"OFF", "SHUTDOWN"}
  \/ /\ mon.bootOpen /\ Ready(mon)
     /\ <<mon.phase, in.command>> \in
          {<<"OFF", "PRECHARGE">>, <<"PRECHARGE", "RUN">>}

(* Opening is always allowed; closing needs the boot-open proof, a steady  *)
(* and permitting last evaluation, and a proven precharge before RUN.      *)
TransitionAllowed(in) ==
  \/ in.command \in {"OFF", "SHUTDOWN"}
  \/ /\ mon.bootOpen /\ mon.steady /\ Ready(mon)
     /\ \/ mon.phase = "OFF" /\ in.command = "PRECHARGE"
        \/ mon.phase = "PRECHARGE" /\ in.command = "RUN"
           /\ PrechargeProven(in)

Enter(m, in) ==
  LET n == [m EXCEPT !.phase = in.command, !.age = 0,
                     !.authorized = /\ in.command \in Energized
                                    /\ TransitionAllowed(in) /\ Ready(mon)]
  IN  IF TransitionAllowed(in) THEN n ELSE Mark(n, TRUE)

Phased(m, in) ==
  IF m.phase = in.command THEN m
  ELSE IF m.phase = "UNKNOWN"
  THEN [m EXCEPT !.phase = in.command, !.age = 0, !.authorized = FALSE]
  ELSE Enter(m, in)

Missing(in) == \E k \in Required(config) : in.contact[k] = "stale"

(* air_filter_update.                                                      *)
FilterUpdate(f, sample) ==
  LET g == IF f.candidate = sample THEN f
           ELSE [f EXCEPT !.candidate = sample, !.age = 0]
  IN  IF g.age >= config.debounce THEN [g EXCEPT !.debounced = sample] ELSE g

Filtered(m, in) ==
  [m EXCEPT !.filter = [k \in Contacts |->
     IF k \in Required(config) THEN FilterUpdate(m.filter[k], in.contact[k])
     ELSE m.filter[k]]]

AllDebounced(m) ==
  \A k \in Required(config) : m.filter[k].debounced # "none"

LongestPassed(m) ==
  \A k \in Required(config) : /\ m.age >= config.make[k]
                              /\ m.age >= config.release[k]

(* A contact has not been seen in one state for long enough yet.           *)
Undebounced(m) ==
  LET n == [m EXCEPT !.pending = TRUE,
                     !.permit = m.authorized /\ m.bootOpen]
  IN  Finalize(IF LongestPassed(m) THEN Mark(n, TRUE) ELSE n)

(* The debounced contacts, line supervision and the age of the voltages.   *)
Contact(m, k) == m.filter[k].debounced

LineFault(m) == \E k \in Required(config) : Contact(m, k) = "line"

Observed(m, in) ==
  LET n == [m EXCEPT !.feedback = TRUE, !.plausible = ~config.bus]
      l == IF LineFault(n) THEN Mark(n, TRUE) ELSE n
  IN  IF config.bus /\ in.bus = "stale"
      THEN Mark(l, Supervised(l)) ELSE l

(* What the phase expects of each contact, and by when.                    *)
Closed(phase) ==
  CASE phase = "PRECHARGE" -> {"neg", "pre"}
    [] phase = "RUN" -> {"pos", "neg"}
    [] OTHER -> {}

Wrong(m) ==
  {k \in Required(config) :
     Contact(m, k) # IF k \in Closed(m.phase) THEN "closed" ELSE "open"}

Deadline(m, k) ==
  IF k \in Closed(m.phase) THEN config.make[k] ELSE config.release[k]

Overdue(m) == {k \in Wrong(m) : m.age >= Deadline(m, k)}

PrechargeOverrun(m) ==
  m.phase = "PRECHARGE" /\ m.age >= config.prechargeMax

(* The bus needs time to settle in RUN and to discharge when open.         *)
BusSettling(m) ==
  \/ m.phase = "RUN" /\ m.age < config.settle
  \/ m.phase \in {"OFF", "SHUTDOWN"} /\ m.age < config.discharge

BusPlausible(m, level) ==
  CASE m.phase = "PRECHARGE" -> level # "over"
    [] m.phase = "RUN" -> level \in {"sagging", "charged"}
    [] OTHER -> level = "discharged"

(* Seeded fault: a precharge may last for ever. *)
FaultyUnlessPrecharge(m, in) ==
  \/ Overdue(m) # {}
  \/ /\ config.bus /\ in.bus # "stale"
     /\ ~BusSettling(m) /\ ~BusPlausible(m, in.bus)

(* This evaluation finds a fault that is latched.                          *)
Faulty(m, in) ==
  \/ Overdue(m) # {} \/ PrechargeOverrun(m)
  \/ /\ config.bus /\ in.bus # "stale"
     /\ ~BusSettling(m) /\ ~BusPlausible(m, in.bus)

ProvenOpen(m, in) ==
  /\ ~m.active /\ Wrong(m) = {} /\ m.phase \in {"OFF", "SHUTDOWN"}
  /\ config.bus => in.bus = "discharged" /\ ~BusSettling(m)

Unproven(m) == m.phase \in Energized /\ ~m.bootOpen

Decided(m, in) ==
  LET judged  == config.bus /\ in.bus # "stale"
      waiting == judged /\ BusSettling(m)
      f == [m EXCEPT
             !.active = @ \/ Faulty(m, in) \/ Unproven(m),
             !.latched = @ \/ Faulty(m, in),
             !.complete = /\ judged /\ m.phase = "PRECHARGE"
                          /\ in.bus \in {"weak", "charged", "over"},
             !.plausible = @ \/ (judged /\ ~BusSettling(m)
                                        /\ BusPlausible(m, in.bus))]
      steady == Wrong(m) = {} /\ ~waiting /\ ~f.active
      clean  == ~f.active /\ ~f.latched
      open   == f.bootOpen \/ ProvenOpen(f, in)
      rearm  == steady /\ m.phase # "SHUTDOWN"
  IN  [f EXCEPT
        !.steady = steady,
        !.bootOpen = open,
        !.pending = IF clean THEN ~steady ELSE Wrong(m) # {} \/ waiting,
        !.authorized = IF clean /\ steady THEN rearm ELSE @,
        !.permit = clean /\ open /\ (rearm \/ (~steady /\ f.authorized))]

(* ams_air_monitor_step, early returns first.                              *)
Step(in, d) ==
  LET r == Reset(mon, d) IN
  IF config = NoConfig THEN Lose(r)
  ELSE IF in.command = "lost" THEN Lose(r)
  ELSE LET p == Phased(r, in) IN
    IF Missing(in) THEN Lose(p)
    ELSE LET f == Filtered(p, in) IN
      IF ~AllDebounced(f) THEN Undebounced(f)
      ELSE LET o == Observed(f, in) IN
        IF ~o.active /\ ~in.coherent THEN Lose(o)
        ELSE Finalize(Decided(o, in))

(* What one acquisition may deliver.  One stale contact is as good as all; *)
(* and what is not coherent is refused for it at one level of the bus.     *)
LostInput == [command |-> "lost"]

Samples ==
  [Required(config) -> IF config.line THEN States ELSE {"open", "closed"}]
  \cup {[k \in Required(config) |-> "stale"]}

Acquired(coherent, levels) ==
  [command : Phases, contact : Samples, coherent : {coherent}, bus : levels]

Inputs ==
  {LostInput} \cup
  IF config.bus
  THEN Acquired(TRUE, Levels \cup {"stale"}) \cup Acquired(FALSE, {"charged"})
  ELSE Acquired(TRUE, {"stale"}) \cup Acquired(FALSE, {"stale"})

(* The board delivers a configuration: the first valid one is kept.  The   *)
(* evaluation of the same round follows.                                   *)
AcceptConfig ==
  /\ config = NoConfig /\ config' \in Configs /\ UNCHANGED mon

Evaluate ==
  /\ \E d \in Lags :
       IF config = NoConfig THEN mon' = Step(LostInput, d)
       ELSE \E in \in Inputs : mon' = Step(in, d)
  /\ UNCHANGED config

(* ams_air_monitor_request_clear: evaluate, then clear if all is open; a   *)
(* refused request is an evaluation.                                       *)
Clearable(m) ==
  /\ m.feedback /\ ~m.active /\ m.steady /\ m.bootOpen
  /\ m.phase \in {"OFF", "SHUTDOWN"}
  /\ \A k \in Required(config) : Contact(m, k) = "open"
  /\ config.bus => m.plausible

(* Seeded fault: a clear in SHUTDOWN gives permission back. *)
ClearedAnywhere(m) ==
  [m EXCEPT !.latched = FALSE, !.permit = TRUE, !.authorized = TRUE]

Cleared(m) ==
  [m EXCEPT !.latched = FALSE, !.permit = m.phase = "OFF",
            !.authorized = m.phase = "OFF"]

RequestClear ==
  /\ config # NoConfig
  /\ \E d \in Lags, in \in Inputs :
       LET m == Step(in, d)
       IN  /\ in.command \in {"OFF", "SHUTDOWN"}
           /\ Clearable(m) /\ mon' = Cleared(m)
  /\ UNCHANGED config

Next == AcceptConfig \/ Evaluate \/ RequestClear

Spec == Init /\ [][Next]_vars

-----------------------------------------------------------------------------
(* Properties.                                                             *)

Filter == [candidate : States \cup {"none"}, debounced : States \cup {"none"},
           age : 0..Horizon]

MonType ==
  [phase : Phases \cup {"UNKNOWN"}, age : 0..Horizon,
   authorized : BOOLEAN, bootOpen : BOOLEAN, feedback : BOOLEAN,
   steady : BOOLEAN, pending : BOOLEAN, complete : BOOLEAN,
   plausible : BOOLEAN, permit : BOOLEAN, active : BOOLEAN,
   latched : BOOLEAN, filter : [Contacts -> Filter]]

(* Every variable has its type (ams_air_monitor_t).                        *)
TypeOK ==
  /\ config \in Configs \cup {NoConfig}
  /\ mon \in MonType

Permission == INSTANCE ContactorPermission
  WITH Phases <- Phases \cup {"UNKNOWN"}, Unknown <- "UNKNOWN",
       phase <- mon.phase, permit <- mon.permit, latched <- mon.latched

(* The evaluator gives permission in the order the contactors must close,  *)
(* latches what it loses while they are energised and never gives it back  *)
(* without a clear (ams_air_monitor_step, ams_air_monitor_request_clear).  *)
KeepsPermission == Permission!Spec

(* A published permit is never vetoed by the supervisor's stricter test of *)
(* the same snapshot (ams_air_monitor_ready), which is also the one a      *)
(* closing transition inherits: a disagreement would latch a legal close.  *)
PermitIsReady == mon.permit => Ready(mon)

InTime(m) == Overdue(m) = {} /\ ~PrechargeOverrun(m) /\ ~LineFault(m)

(* With permission given, no contact is out of place past its deadline,    *)
(* and no precharge lasts past its limit, however late the evaluation or   *)
(* whatever was lost on the way.                                           *)
PermitIsInTime == mon.permit => InTime(mon)

(* RUN is permitted only after a precharge that was steady and, with the   *)
(* voltages at hand, complete, both one evaluation earlier and when RUN    *)
(* was commanded.                                                          *)
RunIsEarned ==
  [][mon'.permit /\ mon'.phase = "RUN" /\ mon.phase # "RUN" =>
       /\ mon.phase = "PRECHARGE" /\ mon.steady /\ mon.permit
       /\ config.bus => mon.complete]_vars
=============================================================================
