---------------------------- MODULE TaskWatchdog ----------------------------
(***************************************************************************)
(* Heartbeats and the hardware watchdog (app.c, error_task.c,              *)
(* ams_safety.c).  Every task kicks its heartbeat once per cycle with the  *)
(* tick it read at the cycle's start; the supervisor judges the ages,      *)
(* withdraws BMS_OK and stops feeding the watchdog when a safety task is   *)
(* stale; the watchdog resets the processor.  After a reset a task that    *)
(* has not kicked yet is not stale before the startup grace has passed:    *)
(* the grace withholds the fault, not the permission.                      *)
(***************************************************************************)
EXTENDS Integers

CONSTANTS
  Tasks,        \* the tasks that kick a heartbeat
  Safety,       \* AMS_HEARTBEAT_SAFETY_MASK, a subset of Tasks
  Timeout,      \* AMS_HEARTBEAT_*_TIMEOUT_MS, of each task
  Grace,        \* AMS_HEARTBEAT_STARTUP_GRACE_MS
  Period,       \* bound: the supervisor's period, 1000 / ERR_FREQ
  Iwdg,         \* AMS_IWDG_TIMEOUT_MS
  MaxLate       \* bound: how old the tick of a kick may be when it kicks

Supervisor == "supervisor"
Integrity == "integrity"    \* rtos_fault, rtos_stack_critical: they stay
Culprits == Tasks \cup {Supervisor, Integrity}
Unseen == -1
Stopped == -1

Least(a, b) == IF a < b THEN a ELSE b
Horizon(t) == Timeout[t] + Period + 1

(* Where the history of a task's silence saturates. *)
Silence(t) == Horizon(t) + Grace

VARIABLES
  beat,     \* the age of each task's last kick, Unseen before the first
  boot,     \* ticks since ams_heartbeat_init, up to Grace
  monitor,  \* the supervisor's last pass: its age and what it published
  iwdg,     \* ticks since the watchdog was fed, Stopped before it is started
  hung,     \* what does not work any more, and for how many ticks
  silent    \* history: ticks since each task really kicked, or since boot

vars == <<beat, boot, monitor, iwdg, hung, silent>>

Longest == CHOOSE n \in {Timeout[t] : t \in Safety} \cup {Grace} :
             /\ n >= Grace
             /\ \A t \in Safety : n >= Timeout[t]

Patience == Longest + Period + Iwdg

TypeOK ==
  /\ \A t \in Tasks : beat[t] \in Unseen .. Horizon(t)
  /\ boot \in 0 .. Grace
  /\ monitor \in [age : 0 .. Period + Patience + 1, fault : BOOLEAN,
                  permit : BOOLEAN]
  /\ iwdg \in Stopped .. Iwdg
  /\ \A c \in Culprits : hung[c] \in -1 .. Patience + 1
  /\ \A t \in Tasks : silent[t] \in 0 .. Silence(t)

Works(c) == hung[c] = -1
AllWork == \A c \in Culprits : Works(c)

(* A reset, of the heartbeats as of the processor; the watchdog is started *)
(* on the way up, if its registers take the values.                        *)
Booted(started) ==
  /\ beat' = [t \in Tasks |-> Unseen]
  /\ boot' = 0
  /\ monitor' = [age |-> 0, fault |-> FALSE, permit |-> FALSE]
  /\ iwdg' = IF started THEN 0 ELSE Stopped
  /\ hung' = [c \in Culprits |-> -1]
  /\ silent' = [t \in Tasks |-> 0]

Init ==
  /\ beat = [t \in Tasks |-> Unseen]
  /\ boot = 0
  /\ monitor = [age |-> 0, fault |-> FALSE, permit |-> FALSE]
  /\ iwdg \in {0, Stopped}
  /\ hung = [c \in Culprits |-> -1]
  /\ silent = [t \in Tasks |-> 0]

-----------------------------------------------------------------------------
(* A kick that carries a tick of up to MaxLate ago.                        *)
Kick(t, late) ==
  /\ Works(t)
  /\ beat' = [beat EXCEPT ![t] = late]
  /\ silent' = [silent EXCEPT ![t] = 0]
  /\ UNCHANGED <<boot, monitor, iwdg, hung>>

Hang(c) ==
  /\ AllWork
  /\ hung' = [hung EXCEPT ![c] = 0]
  /\ UNCHANGED <<beat, boot, monitor, iwdg, silent>>

InGrace == boot < Grace

Stale(t) == IF beat[t] = Unseen THEN ~InGrace ELSE beat[t] > Timeout[t]

HeartbeatFault == \E t \in Safety : Stale(t)

Healthy == ~HeartbeatFault /\ Works(Integrity)

(* Seeded fault: the heartbeats are left out of the readiness.             *)
ReadyIfStarted == iwdg # Stopped /\ Works(Integrity)

(* What error_task_bms_ready asks of the watchdog and of the heartbeats.   *)
Ready == iwdg # Stopped /\ Healthy

(* Seeded fault: the heartbeats do not stop the feeding.                   *)
MayFeedUnlessBroken == InGrace \/ Works(Integrity)

(* In the grace the watchdog is fed whatever the heartbeats say.           *)
MayFeed == InGrace \/ Healthy

Fed(started) ==
  IF MayFeed /\ (iwdg # Stopped \/ started) THEN 0 ELSE iwdg

(* One pass of error_task_update: BMS_OK is decided before the watchdog is *)
(* seen to.  Its other conditions are not here and may deny it.            *)
Supervise(allowed, started) ==
  /\ Works(Supervisor)
  /\ monitor' = [age |-> 0, fault |-> HeartbeatFault,
                 permit |-> Ready /\ allowed]
  /\ iwdg' = Fed(started)
  /\ UNCHANGED <<beat, boot, hung, silent>>

(* A task that works kicks in time, a supervisor that works keeps its      *)
(* period, and a watchdog that has run out resets before the next tick.    *)
InTime ==
  /\ \A t \in Tasks : Works(t) =>
       IF beat[t] = Unseen THEN boot + 1 < Grace ELSE beat[t] < Timeout[t]
  /\ Works(Supervisor) => monitor.age < Period
  /\ iwdg # Iwdg

Aged(age, limit) == IF age = -1 THEN -1 ELSE Least(age + 1, limit)

Tick ==
  /\ InTime
  /\ beat' = [t \in Tasks |-> Aged(beat[t], Horizon(t))]
  /\ boot' = Least(boot + 1, Grace)
  /\ monitor' = [monitor EXCEPT !.age = Least(@ + 1, Period + Patience + 1)]
  /\ iwdg' = Aged(iwdg, Iwdg)
  /\ hung' = [c \in Culprits |-> Aged(hung[c], Patience + 1)]
  /\ silent' = [t \in Tasks |-> Least(silent[t] + 1, Silence(t))]

Reset(started) ==
  /\ iwdg = Iwdg
  /\ Booted(started)

Next ==
  \/ \E t \in Tasks, late \in 0 .. MaxLate : Kick(t, late)
  \/ \E c \in Culprits : Hang(c)
  \/ \E allowed, started \in BOOLEAN : Supervise(allowed, started)
  \/ \E started \in BOOLEAN : Reset(started)
  \/ Tick

Spec == Init /\ [][Next]_vars

-----------------------------------------------------------------------------
(* How long BMS_OK may stand over a task that says nothing: its timeout,   *)
(* or the whole grace while it has not kicked since the reset.             *)
Tolerated(t) == IF beat[t] = Unseen THEN Grace ELSE Timeout[t]

(* The permission does not outlive a silent safety task: it is withdrawn   *)
(* within what is tolerated of the task and one period of the supervisor,  *)
(* and it is never given without a running watchdog (error_task_bms_ready, *)
(* ams_heartbeat_update).                                                  *)
PermitIsAlive ==
  monitor.permit /\ Works(Supervisor) =>
    /\ iwdg # Stopped
    /\ \A t \in Safety : silent[t] <= Tolerated(t) + Period

(* With the watchdog running, nothing the software needs stays hung for    *)
(* longer than the patience: the supervisor, a safety task, the kernel.    *)
HungIsReset ==
  iwdg # Stopped =>
    \A c \in Safety \cup {Supervisor, Integrity} : hung[c] <= Patience

(* A system that works is never reset, and a task outside the mask cannot  *)
(* cause a reset (ams_safety.c 896-900).                                   *)
ResetIsEarned ==
  \A started \in BOOLEAN :
    Reset(started) => \E c \in Safety \cup {Supervisor, Integrity} :
                        ~Works(c)
=============================================================================
