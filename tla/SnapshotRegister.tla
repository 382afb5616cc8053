-------------------------- MODULE SnapshotRegister --------------------------
(***************************************************************************)
(* What the measurement store promises its readers: a register.  A read    *)
(* that overlaps any number of publications answers with one published     *)
(* epoch, whole, and it is the one that was the latest when the read began.*)
(***************************************************************************)
EXTENDS Integers

CONSTANTS
  Readers,   \* the readers
  Epochs     \* the names an epoch may have, NoEpoch not among them

NoEpoch == 0   \* nothing published yet, or no read in progress

VARIABLES latest, reading, answer
vars == <<latest, reading, answer>>

Init ==
  /\ latest = NoEpoch
  /\ reading = [r \in Readers |-> NoEpoch]
  /\ answer = [r \in Readers |-> NoEpoch]

Publish ==
  /\ latest' \in Epochs
  /\ UNCHANGED <<reading, answer>>

BeginRead(r) ==
  /\ reading[r] = NoEpoch
  /\ latest # NoEpoch
  /\ reading' = [reading EXCEPT ![r] = latest]
  /\ UNCHANGED <<latest, answer>>

EndRead(r) ==
  /\ reading[r] # NoEpoch
  /\ answer' = [answer EXCEPT ![r] = reading[r]]
  /\ reading' = [reading EXCEPT ![r] = NoEpoch]
  /\ UNCHANGED latest

Next == Publish \/ \E r \in Readers : BeginRead(r) \/ EndRead(r)

Spec == Init /\ [][Next]_vars
=============================================================================
