----------------------------- MODULE ImdCapture -----------------------------
(***************************************************************************)
(* The insulation monitor's pulse capture (imd.c, imd_task.c).  The timer  *)
(* interrupt stores a tuple (period, high time, tick) under a sequence     *)
(* number; the IMD task copies it piece by piece, checks that no interrupt *)
(* came in between, and judges its age against the tick it read on entry.  *)
(* The interrupt is atomic for the task.  A captured count is named by the *)
(* sequence number of its capture, which is all that tearing is about.     *)
(***************************************************************************)
EXTENDS Integers, Sequences

CONSTANTS
  Wrap,        \* ticks are counted modulo Wrap (2^32 in the code)
  SeqMod,      \* the sequence is counted modulo SeqMod, even (2^32)
  Timeout,     \* AMS_IMD_CAPTURE_TIMEOUT_MS
  MaxSilence,  \* bound: the signal is never silent for longer
  MaxRun       \* bound: a pass of the task takes at most so many ticks

(* Nothing below holds of a signal that is silent for Wrap ticks: its last *)
(* capture then looks fresh again.  So MaxSilence + Timeout + MaxRun must  *)
(* be less than Wrap, here as in the 49 days of the code.                  *)

Attempts == 3
Order == <<"total", "high", "tick", "seen">>   \* the volatile reads
Signals == {"normal", "abnormal", "implausible"}
Since(now, tick) == (now - tick) % Wrap

VARIABLES
  clock,      \* the RTOS tick
  capture,    \* what the interrupt publishes
  task,       \* where the task is, and its copy
  imd,        \* what the task publishes
  silence,    \* history: ticks since the last capture
  pass        \* history: what the pass met: a capture on entry, and how
              \* many came since, up to Attempts

vars == <<clock, capture, task, imd, silence, pass>>

Ticks == 0 .. Wrap - 1
Sequences == {s \in 0 .. SeqMod - 1 : s % 2 = 0}
Tuples == [total : Sequences, high : Sequences, tick : Ticks, seen : BOOLEAN]
Nothing == [total |-> 0, high |-> 0, tick |-> 0, seen |-> FALSE]

TypeOK ==
  /\ clock \in Ticks
  /\ capture \in [sequence : Sequences, tuple : Tuples]
  /\ task \in [pc : {"idle", "attempt", "copy"}, entry : Ticks,
               attempt : 0 .. Attempts - 1, before : Sequences,
               read : 0 .. Len(Order), copy : Tuples]
  /\ imd \in [valid : BOOLEAN, ok : BOOLEAN, fault : BOOLEAN]
  /\ silence \in 0 .. MaxSilence
  /\ pass \in [seen : BOOLEAN, captures : 0 .. Attempts]

Idle ==
  [pc |-> "idle", entry |-> 0, attempt |-> 0, before |-> 0, read |-> 0,
   copy |-> Nothing]

Init ==
  /\ clock \in Ticks
  /\ capture = [sequence |-> 0, tuple |-> Nothing]
  /\ task = Idle
  /\ imd = [valid |-> FALSE, ok |-> FALSE, fault |-> TRUE]
  /\ silence = 0
  /\ pass = [seen |-> FALSE, captures |-> 0]

Running == task.pc # "idle"
Elapsed == IF Running THEN Since(clock, task.entry) ELSE 0

-----------------------------------------------------------------------------
(* Seeded fault: a capture leaves the sequence odd.                        *)
NextSequenceOdd == (capture.sequence + 1) % SeqMod

NextSequence == (capture.sequence + 2) % SeqMod

Stored == [total |-> NextSequence, high |-> NextSequence, tick |-> clock,
           seen |-> TRUE]

(* Bound: the sequence does not come round within one attempt.             *)
Capture ==
  /\ task.pc = "copy" => NextSequence # task.before
  /\ capture' = [sequence |-> NextSequence, tuple |-> Stored]
  /\ silence' = 0
  /\ pass' = [pass EXCEPT !.captures = IF Running /\ @ < Attempts
                                           THEN @ + 1 ELSE @]
  /\ UNCHANGED <<clock, task, imd>>

Enter ==
  /\ task.pc = "idle"
  /\ task' = [task EXCEPT !.pc = "attempt", !.entry = clock]
  /\ pass' = [seen |-> capture.tuple.seen, captures |-> 0]
  /\ UNCHANGED <<clock, capture, imd, silence>>

BeginAttempt ==
  /\ task.pc = "attempt"
  /\ task' = [task EXCEPT !.pc = "copy", !.before = capture.sequence,
                          !.read = 0, !.copy = Nothing]
  /\ UNCHANGED <<clock, capture, imd, silence, pass>>

CopyField ==
  /\ task.pc = "copy"
  /\ task.read < Len(Order)
  /\ LET field == Order[task.read + 1]
     IN  task' = [task EXCEPT !.copy[field] = capture.tuple[field],
                              !.read = @ + 1]
  /\ UNCHANGED <<clock, capture, imd, silence, pass>>

Copied == task.pc = "copy" /\ task.read = Len(Order)

(* Seeded fault: the sequence is not looked at again.                      *)
AcceptedUnchecked == task.copy.seen

Accepted == task.copy.seen /\ task.before = capture.sequence

(* (uint32_t)(now - captured_tick) against the tick read on entry.         *)
IsRecent == Since(task.entry, task.copy.tick) <= Timeout

(* imd_task_update: what the reading means once it is to be trusted.       *)
Publish(trusted, signal) ==
  LET valid == trusted /\ signal # "implausible"
      ok == valid /\ signal = "normal"
  IN  imd' = [valid |-> valid, ok |-> ok, fault |-> ~ok]

LastAttempt == task.attempt = Attempts - 1

Retry ==
  /\ Copied /\ ~Accepted /\ ~LastAttempt
  /\ task' = [task EXCEPT !.pc = "attempt", !.attempt = @ + 1]
  /\ UNCHANGED <<clock, capture, imd, silence, pass>>

Conclude(signal) ==
  /\ Copied
  /\ Accepted \/ LastAttempt
  /\ Publish(Accepted /\ IsRecent, signal)
  /\ task' = Idle
  /\ UNCHANGED <<clock, capture, silence, pass>>

Tick ==
  /\ capture.tuple.seen => silence < MaxSilence
  /\ Elapsed < MaxRun \/ ~Running
  /\ clock' = (clock + 1) % Wrap
  /\ silence' = IF capture.tuple.seen THEN silence + 1 ELSE silence
  /\ UNCHANGED <<capture, task, imd, pass>>

Next ==
  \/ Capture \/ Enter \/ BeginAttempt \/ CopyField \/ Retry \/ Tick
  \/ \E signal \in Signals : Conclude(signal)

Spec == Init /\ [][Next]_vars

-----------------------------------------------------------------------------
(* A reading the task trusts is the tuple of one capture, the latest one:  *)
(* never the period of one cycle with the high time or the tick of another *)
(* (imd.c 93-96).                                                          *)
TupleIsOne ==
  \A signal \in Signals :
    Conclude(signal) /\ imd'.valid => task.copy = capture.tuple

(* A signal that had been silent for longer than the timeout when the task *)
(* began its pass is not trusted, however the ticks wrap (imd.c 163-166).  *)
SilenceIsNoticed ==
  \A signal \in Signals :
    Conclude(signal) /\ silence - Elapsed > Timeout => ~imd'.valid

(* A plausible signal is refused for one of four reasons only: there was   *)
(* none yet, it was silent, it interrupted every attempt, or its latest    *)
(* capture came in a tick after the one the task read on entry.            *)
RefusalIsExplained ==
  \A signal \in Signals :
    /\ Conclude(signal)
    /\ signal # "implausible"
    /\ ~imd'.valid
    => \/ ~pass.seen
       \/ silence - Elapsed > Timeout
       \/ pass.captures = Attempts
       \/ silence < Elapsed
=============================================================================
