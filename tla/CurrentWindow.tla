--------------------------- MODULE CurrentWindow ---------------------------
(***************************************************************************)
(* The current-integration window (ams_measurement.c 116-372).  The        *)
(* current task and the service calibration commands add samples to it,    *)
(* the ADBMS task closes it at each voltage boundary; a mutex serialises   *)
(* them, and ticks wrap.  The charge is abstracted to the time it covers:  *)
(* what a constant current of one ampere would integrate to.               *)
(***************************************************************************)
EXTENDS Integers

CONSTANTS
  Wrap,       \* ticks are counted modulo Wrap (2^32 in the code)
  MaxGap,     \* AMS_CURRENT_WINDOW_MAX_INTEGRATION_GAP_MS and _SAMPLE_AGE_MS
  MaxWindow,  \* bound: a window is closed at the latest after so many ticks
  MaxLate,    \* how old a caller's tick may be when it gets the mutex
  Calibrations \* the identities of calibration records

(* Half a round of the ticks is more than a window, and more than a call   *)
(* is late; WindowAssumption of Subsystems says so, as it is in the code.  *)

Ticks == 0 .. Wrap - 1
Half == Wrap \div 2 - 1                    \* INT32_MAX
Since(now, tick) == (now - tick) % Wrap    \* (uint32_t)(now - tick)

NoCal == "none"     \* a sample without a confident calibration record
Unset == "unset"    \* no sample has told its calibration record yet

VARIABLES
  clock,    \* the RTOS tick
  active,   \* acc->active
  last,     \* the last valid sample, kept across windows
  used,     \* history: the calibrations that contributed to the window
  spacing   \* history: the last valid sample or start after an outage, and
            \* the longest time without a sample, up to MaxGap + 1

vars == <<clock, active, last, used, spacing>>

Cals == Calibrations \cup {NoCal}

TypeOK ==
  /\ clock \in Ticks
  /\ active \in [start : Ticks, end : Ticks, sampled : BOOLEAN,
                 invalid : BOOLEAN, covered : Nat, cal : Cals \cup {Unset}]
  /\ last \in [valid : BOOLEAN, tick : Ticks, integrated : Ticks, cal : Cals]
  /\ used \subseteq Cals
  /\ spacing \in [from : Ticks, gap : 0 .. MaxGap + 1]

Window(tick) ==
  [start |-> tick, end |-> tick, sampled |-> FALSE, invalid |-> FALSE,
   covered |-> 0, cal |-> Unset]

Init ==
  /\ clock \in Ticks
  /\ active = Window(clock)
  /\ last = [valid |-> FALSE, tick |-> 0, integrated |-> 0, cal |-> NoCal]
  /\ used = {}
  /\ spacing = [from |-> clock, gap |-> 0]

-----------------------------------------------------------------------------
(* A caller whose tick is older than the window's end does not rewind it.  *)
IsLate(now) == Since(now, active.end) > Half

Longer(gap, now) ==
  LET g == Since(now, spacing.from)
  IN  IF g <= gap THEN gap ELSE IF g > MaxGap THEN MaxGap + 1 ELSE g

Merged(cal, new) == IF cal \in {Unset, new} THEN new ELSE NoCal

(* What a valid sample lets the window integrate, if anything.             *)
Interval(now) ==
  IF last.valid THEN Since(now, last.integrated)
  ELSE IF ~active.sampled THEN Since(now, active.start)
  ELSE 0

(* Seeded fault: what a boundary split is judged piece by piece.           *)
GapInOnePiece(now) == Interval(now) > MaxGap

GapTooLong(now) ==
  \/ Interval(now) > MaxGap
  \/ last.valid /\ Since(now, last.tick) > MaxGap

WithSample(now, cal) ==
  [active EXCEPT
     !.covered = IF GapTooLong(now) THEN @ ELSE @ + Interval(now),
     !.invalid = @ \/ GapTooLong(now),
     !.cal = Merged(@, cal),
     !.sampled = TRUE,
     !.end = now]

ValidSample(now, cal) ==
  /\ ~IsLate(now)
  /\ active' = WithSample(now, cal)
  /\ last' = [valid |-> TRUE, tick |-> now, integrated |-> now, cal |-> cal]
  /\ used' = used \cup {cal}
  /\ spacing' = [from |-> now, gap |-> Longer(spacing.gap, now)]
  /\ UNCHANGED clock

(* A failed conversion, or a change of calibration by the service CLI.     *)
InvalidSample(now) ==
  /\ ~IsLate(now)
  /\ active' = [active EXCEPT !.invalid = TRUE, !.end = now]
  /\ last' = [last EXCEPT !.valid = FALSE]
  /\ UNCHANGED <<clock, used, spacing>>

LateCall(now) ==
  /\ IsLate(now)
  /\ active' = [active EXCEPT !.invalid = TRUE]
  /\ UNCHANGED <<clock, last, used, spacing>>

(* The last sample is held up to the boundary if it is recent enough.      *)
TailIsFresh(now) ==
  /\ last.valid
  /\ Since(now, last.tick) <= MaxGap
  /\ Since(now, last.integrated) <= MaxGap

Tail(now) == Since(now, last.integrated)

Completed(now) ==
  [covered |-> active.covered + (IF TailIsFresh(now) THEN Tail(now) ELSE 0),
   length |-> Since(now, active.start),
   cal |-> active.cal,
   valid |-> active.sampled /\ ~active.invalid /\ TailIsFresh(now)]

(* The next window starts from the sample that is held.                    *)
NextWindow(now) ==
  [Window(now) EXCEPT !.cal = IF TailIsFresh(now) THEN last.cal ELSE Unset]

HeldSample(now) ==
  IF TailIsFresh(now) THEN [last EXCEPT !.integrated = now]
                      ELSE [last EXCEPT !.valid = FALSE]

Rotate(now) ==
  /\ ~IsLate(now)
  /\ active' = NextWindow(now)
  /\ last' = HeldSample(now)
  /\ used' = IF TailIsFresh(now) THEN {last.cal} ELSE {}
  /\ spacing' = [from |-> IF TailIsFresh(now) THEN spacing.from ELSE now,
                 gap |-> 0]
  /\ UNCHANGED clock

Tick ==
  /\ Since(clock, active.start) < MaxWindow
  /\ clock' = (clock + 1) % Wrap
  /\ UNCHANGED <<active, last, used, spacing>>

Caller(now) ==
  \/ \E cal \in Cals : ValidSample(now, cal)
  \/ InvalidSample(now)
  \/ LateCall(now)
  \/ Rotate(now)

Next ==
  \/ Tick
  \/ \E late \in 0 .. MaxLate : Caller((clock - late) % Wrap)

Spec == Init /\ [][Next]_vars

-----------------------------------------------------------------------------
(* A window that is published as valid has integrated every tick between   *)
(* its boundaries exactly once: nothing of an invalid sample or of the     *)
(* previous window is in it, and nothing is missing                        *)
(* (CONCURRENCY_OWNERSHIP.md 71-77).                                       *)
ValidWindowIsCovered ==
  \A now \in Ticks :
    Rotate(now) /\ Completed(now).valid
      => Completed(now).covered = Completed(now).length

(* No sample of a valid window stands for more than MaxGap ticks, not even *)
(* when a boundary splits the time it is held (272-372).                   *)
ValidWindowIsSampled ==
  \A now \in Ticks :
    Rotate(now) /\ Completed(now).valid
      => Longer(spacing.gap, now) <= MaxGap

(* No tick is integrated twice, not even in a window that will be invalid: *)
(* its charge still goes into the running totals.                          *)
NoTickTwice == active.covered <= Since(active.end, active.start)

(* A window that names a calibration record used no other one, the sample  *)
(* it carried over from the window before included.                        *)
ProvenanceIsUniform == active.cal \in Calibrations => used = {active.cal}
=============================================================================
