---------------------------- MODULE RetainedLog ----------------------------
(***************************************************************************)
(* What the retained fault log promises its reader: a bounded, ordered     *)
(* journal.  A reported event enters at the end, with the next number, and *)
(* its call does not return before; a full journal gives up its oldest     *)
(* record first.  Only the service command empties it.  Nothing else takes *)
(* a record away but a reset or an exception that cuts a call short: that  *)
(* may take the one record the call had in its hands, and while the supply *)
(* is away the memory may lose another, each loss being counted.           *)
(***************************************************************************)
EXTENDS Naturals, Sequences

CONSTANTS Depth,           \* AMS_FAULT_LOG_DEPTH
          Events,          \* the events whose records are kept
          Rejected,        \* the events whose records are not
          Boots,           \* boot numbers
          Successor(_)     \* the number after a number

VARIABLES log,             \* the records, the oldest first
          reported,        \* the event whose record is being written, or none
          clearing,        \* whether the service command is in progress
          loose,           \* the record a call has in its hands, or none
          cuts,            \* rises whenever a call is cut short
          damages          \* records and headers the memory has lost

journal == <<log, reported, clearing, loose, cuts, damages>>

Last == log[Len(log)]

Record(e, b) == [seq |-> IF log = <<>> THEN 1 ELSE Successor(Last.seq),
                 event |-> e, boot |-> b]

Init ==
  /\ log = <<>> /\ reported = {} /\ clearing = FALSE /\ loose = {}
  /\ cuts = 0 /\ damages = 0

-----------------------------------------------------------------------------
Idle == reported = {} /\ ~clearing

Report(e) ==
  /\ Idle /\ reported' = {e}
  /\ UNCHANGED <<log, clearing, loose, cuts, damages>>

(* Room is made before the new record is complete.                         *)
Evict ==
  /\ reported # {} /\ Len(log) = Depth /\ log' = Tail(log)
  /\ UNCHANGED <<reported, clearing, loose, cuts, damages>>

Publish(e, b) ==
  /\ reported = {e} /\ Len(log) < Depth
  /\ log # <<>> => b >= Last.boot
  /\ log' = Append(log, Record(e, b)) /\ reported' = {}
  /\ UNCHANGED <<clearing, loose, cuts, damages>>

Reject(e) ==
  /\ reported = {e} /\ reported' = {}
  /\ UNCHANGED <<log, clearing, loose, cuts, damages>>

Command ==
  /\ Idle /\ clearing' = TRUE
  /\ UNCHANGED <<log, reported, loose, cuts, damages>>

Clear ==
  /\ clearing /\ log' = <<>> /\ clearing' = FALSE
  /\ UNCHANGED <<reported, loose, cuts, damages>>

TakeUp(i) ==
  /\ loose' = {log[i]}
  /\ UNCHANGED <<log, reported, clearing, cuts, damages>>

PutBack ==
  /\ loose' = {}
  /\ UNCHANGED <<log, reported, clearing, cuts, damages>>

-----------------------------------------------------------------------------
(* What a call cut short leaves.                                           *)

Without(s, i) == SubSeq(s, 1, i - 1) \o SubSeq(s, i + 1, Len(s))

Survivors ==
  {log} \cup {Without(log, i) : i \in {k \in 1..Len(log) : log[k] \in loose}}

Ended == cuts' > cuts /\ loose' = {} /\ clearing' = FALSE

(* A reset, or an exception that reports an event of its own.              *)
CutShort ==
  /\ Ended /\ log' \in Survivors
  /\ reported' = {} \/ \E e \in Events : reported' = {e}
  /\ UNCHANGED damages

(* A reset with the supply away.                                           *)
Damage ==
  /\ Ended /\ reported' = {} /\ damages' = damages + 1
  /\ \E s \in Survivors :
       log' = s \/ \E i \in 1..Len(s) : log' = Without(s, i)

Next ==
  \/ \E e \in Events \cup Rejected : Report(e)
  \/ Evict
  \/ \E e \in Events, b \in Boots : Publish(e, b)
  \/ \E e \in Rejected : Reject(e)
  \/ Command \/ Clear
  \/ \E i \in 1..Len(log) : TakeUp(i)
  \/ PutBack
  \/ CutShort \/ Damage

Spec == Init /\ [][Next]_journal
=============================================================================
