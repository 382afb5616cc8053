---------------------------- MODULE SharedLocks ----------------------------
(***************************************************************************)
(* The two locks between tasks (app.c 297-427): the recursive lock of the  *)
(* ADBMS bus, with its own record of owner and depth beside the kernel's   *)
(* mutex, and the lock of the current window.  A lock that cannot be had   *)
(* in time, or that is given back by someone else, ends in a panic.        *)
(***************************************************************************)
EXTENDS Integers, FiniteSets

CONSTANT MaxNest    \* bound: how deep bus operations call one another

Users == {"adbms", "cli", "current", "can"}
BusTasks == {"adbms", "cli"}
None == "none"

VARIABLES
  mutex,   \* the kernel's recursive mutex of the bus: its holder and count
  book,    \* adbms_spi_owner, adbms_spi_lock_depth
  window,  \* the holder of the current window's mutex
  at,      \* where each task is
  panic    \* why the firmware stopped: ams_safety_panic does not return

vars == <<mutex, book, window, at, panic>>

TypeOK ==
  /\ mutex \in [holder : BusTasks \cup {None}, count : 0 .. MaxNest]
  /\ book \in [owner : BusTasks \cup {None}, depth : 0 .. MaxNest]
  /\ window \in Users \cup {None}
  /\ at \in [Users -> {"run", "want", "record", "release", "want window"}]
  /\ panic \in {None, "timeout", "acquire", "release"}

Init ==
  /\ mutex = [holder |-> None, count |-> 0]
  /\ book = [owner |-> None, depth |-> 0]
  /\ window = None
  /\ at = [t \in Users |-> "run"]
  /\ panic = None

-----------------------------------------------------------------------------
Goes(t, from, to) ==
  /\ panic = None
  /\ at[t] = from
  /\ at' = [at EXCEPT ![t] = to]

Held(t) == IF mutex.holder = t THEN mutex.count ELSE 0

(* Seeded fault: the bus is also used where the window is held.            *)
MayWantAnywhere(t) == Held(t) < MaxNest

(* A bus operation begins, perhaps inside another one: the scan holds the  *)
(* lock around its operations, an operation around its transfers.  No one  *)
(* uses the bus while it holds the window.                                 *)
MayWant(t) == Held(t) < MaxNest /\ window # t

Want(t) ==
  /\ MayWant(t)
  /\ Goes(t, "run", "want")
  /\ UNCHANGED <<mutex, book, window, panic>>

Acquire(t) ==
  /\ mutex.holder \in {None, t}
  /\ Goes(t, "want", "record")
  /\ mutex' = [holder |-> t, count |-> mutex.count + 1]
  /\ UNCHANGED <<book, window, panic>>

Record(t) ==
  /\ Goes(t, "record", "run")
  /\ \/ /\ book.depth = 0
        /\ book' = [owner |-> t, depth |-> 1]
        /\ UNCHANGED panic
     \/ /\ book.depth # 0 /\ book.owner = t
        /\ book' = [book EXCEPT !.depth = @ + 1]
        /\ UNCHANGED panic
     \/ /\ book.depth # 0 /\ book.owner # t
        /\ panic' = "acquire"
        /\ UNCHANGED book
  /\ UNCHANGED <<mutex, window>>

Unrecorded ==
  [owner |-> IF book.depth = 1 THEN None ELSE book.owner,
   depth |-> book.depth - 1]

(* Unlocking settles the record first, while the mutex still keeps the     *)
(* others out.                                                             *)
Unrecord(t) ==
  /\ Held(t) > 0
  /\ window # t
  /\ Goes(t, "run", "release")
  /\ IF book.depth # 0 /\ book.owner = t
       THEN book' = Unrecorded /\ UNCHANGED panic
       ELSE panic' = "release" /\ UNCHANGED book
  /\ UNCHANGED <<mutex, window>>

Release(t) ==
  /\ Goes(t, "release", "run")
  /\ IF mutex.holder = t
       THEN /\ mutex' = IF mutex.count = 1
                          THEN [holder |-> None, count |-> 0]
                          ELSE [mutex EXCEPT !.count = @ - 1]
            /\ UNCHANGED panic
       ELSE panic' = "release" /\ UNCHANGED mutex
  /\ UNCHANGED <<book, window>>

-----------------------------------------------------------------------------
(* The current window: the scan takes it inside its bus operation, the     *)
(* others, and the command line, outside of any.                           *)
WantWindow(t) ==
  /\ window # t
  /\ Held(t) > 0 => t = "adbms"
  /\ Goes(t, "run", "want window")
  /\ UNCHANGED <<mutex, book, window, panic>>

TakeWindow(t) ==
  /\ window = None
  /\ Goes(t, "want window", "run")
  /\ window' = t
  /\ UNCHANGED <<mutex, book, panic>>

LeaveWindow(t) ==
  /\ window = t
  /\ Goes(t, "run", "run")
  /\ window' = None
  /\ UNCHANGED <<mutex, book, panic>>

(* A wait for somebody else's lock may take too long.                      *)
TimeOut(t) ==
  /\ \/ at[t] = "want" /\ mutex.holder \notin {None, t}
     \/ at[t] = "want window" /\ window # None
  /\ panic = None
  /\ panic' = "timeout"
  /\ UNCHANGED <<mutex, book, window, at>>

Next ==
  \E t \in Users :
    \/ (t \in BusTasks /\ (Want(t) \/ Acquire(t) \/ Record(t)
                           \/ Unrecord(t) \/ Release(t)))
    \/ WantWindow(t) \/ TakeWindow(t) \/ LeaveWindow(t) \/ TimeOut(t)

Spec == Init /\ [][Next]_vars

-----------------------------------------------------------------------------
(* The record beside the mutex says who has the bus and how deep, except   *)
(* in the moment between the two, and there it says one less: nobody else  *)
(* can be recorded while the mutex is held.                                *)
RecordIsTheMutex ==
  panic = None =>
    LET lag == Cardinality({t \in BusTasks : at[t] \in {"record", "release"}})
    IN  /\ lag <= 1
        /\ book.depth = mutex.count - lag
        /\ book.owner = IF book.depth = 0 THEN None ELSE mutex.holder

(* Users that pair their calls never meet the two misuse exits of the      *)
(* locks, whatever interrupts them between mutex and record: the only      *)
(* panic is a wait that took too long.                                     *)
OnlyTimeoutsPanic == panic \in {None, "timeout"}

(* The locks are taken in one order, bus before window: no task waits for  *)
(* one that waits for it, so a time limit is only met by a holder that is  *)
(* slow.                                                                   *)
WaitsFor(t) ==
  CASE at[t] = "want" -> mutex.holder
    [] at[t] = "want window" -> window
    [] OTHER -> None

NoCircularWait ==
  panic = None =>
    \A S \in (SUBSET Users) \ {{}} : \E t \in S : WaitsFor(t) \notin S \ {t}
=============================================================================
