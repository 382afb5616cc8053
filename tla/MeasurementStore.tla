-------------------------- MODULE MeasurementStore --------------------------
(***************************************************************************)
(* The measurement store (ams_measurement.c): one writer, the ADBMS task,  *)
(* publishes an epoch of measurements through two buffers; the CAN task    *)
(* and the estimator copy the latest one.  Only the index bookkeeping is   *)
(* done in critical sections: filling a buffer and copying one are long    *)
(* and anything may happen in between.                                     *)
(***************************************************************************)
EXTENDS Integers, FiniteSets

CONSTANTS
  Readers,   \* the tasks that call copy_latest
  Parts,     \* the pieces of a snapshot that are written one by one
  SeqMod,    \* sequence numbers are 1 .. SeqMod - 1 (2^32 in the code)
  PinMax     \* the largest reader count (UINT16_MAX)

ASSUME StoreAssumption ==
  /\ IsFiniteSet(Readers)
  /\ "sequence" \notin Parts
  /\ SeqMod \in Nat /\ SeqMod > 2
  /\ PinMax \in Nat \ {0}

Index == {0, 1}
Sequences == 1 .. SeqMod - 1
Fields == Parts \cup {"sequence"}

(* A field of a buffer holds the sequence number of the epoch its content  *)
(* was measured in; 0 is what memset leaves.                               *)
Snapshot == [Fields -> 0 .. SeqMod - 1]
Blank == [f \in Fields |-> 0]
IsEpoch(snapshot, s) == \A f \in Fields : snapshot[f] = s

VARIABLES
  store,    \* the index bookkeeping of ams_measurement_store_t
  buffer,   \* buffer[2]
  writer,   \* where the ADBMS task is, and the parts it has still to write
  reader,   \* where each reader is, its index and what it has still to copy
  answer    \* the last snapshot each reader was given

vars == <<store, buffer, writer, reader, answer>>

TypeOK ==
  /\ store \in [next_sequence : 0 .. SeqMod - 1, published : BOOLEAN,
                published_index : Index, write_in_progress : BOOLEAN,
                write_index : Index, write_sequence : 0 .. SeqMod - 1,
                reader_count : [Index -> 0 .. PinMax]]
  /\ buffer \in [Index -> Snapshot]
  /\ writer \in [pc : {"idle", "memset", "fill"}, left : SUBSET Parts]
  /\ reader \in [Readers -> [pc : {"idle", "copy"}, index : Index,
                             left : SUBSET Fields, copy : Snapshot]]
  /\ answer \in [Readers -> Snapshot]

Init ==
  /\ store = [next_sequence |-> 0, published |-> FALSE,
              published_index |-> 0, write_in_progress |-> FALSE,
              write_index |-> 0, write_sequence |-> 0,
              reader_count |-> [i \in Index |-> 0]]
  /\ buffer = [i \in Index |-> Blank]
  /\ writer = [pc |-> "idle", left |-> {}]
  /\ reader = [r \in Readers |-> [pc |-> "idle", index |-> 0,
                                  left |-> {}, copy |-> Blank]]
  /\ answer = [r \in Readers |-> Blank]

-----------------------------------------------------------------------------
(* The writer.  *)

NextSequence ==
  IF store.next_sequence = SeqMod - 1 THEN 1 ELSE store.next_sequence + 1

TargetIndex ==
  IF store.published THEN 1 - store.published_index ELSE 0

(* Seeded fault: the pins are not looked at.                               *)
MayWriteAnyway(index) == ~store.write_in_progress

MayWrite(index) ==
  ~store.write_in_progress /\ store.reader_count[index] = 0

(* An attempt consumes a sequence number whether or not it gets a buffer.  *)
BeginWrite ==
  /\ writer.pc = "idle"
  /\ MayWrite(TargetIndex)
  /\ store' = [store EXCEPT !.next_sequence = NextSequence,
                            !.write_index = TargetIndex,
                            !.write_sequence = NextSequence,
                            !.write_in_progress = TRUE]
  /\ writer' = [writer EXCEPT !.pc = "memset"]
  /\ UNCHANGED <<buffer, reader, answer>>

(* No buffer: prepare and publish return at once on the null snapshot.     *)
DropEpoch ==
  /\ writer.pc = "idle"
  /\ ~MayWrite(TargetIndex)
  /\ store' = [store EXCEPT !.next_sequence = NextSequence]
  /\ UNCHANGED <<buffer, writer, reader, answer>>

Clear ==
  /\ writer.pc = "memset"
  /\ buffer' = [buffer EXCEPT ![store.write_index] = Blank]
  /\ writer' = [pc |-> "fill", left |-> Parts]
  /\ UNCHANGED <<store, reader, answer>>

Fill(part) ==
  /\ writer.pc = "fill"
  /\ part \in writer.left
  /\ buffer' =
       [buffer EXCEPT ![store.write_index][part] = store.write_sequence]
  /\ writer' = [writer EXCEPT !.left = @ \ {part}]
  /\ UNCHANGED <<store, reader, answer>>

MayPublish ==
  /\ store.write_in_progress
  /\ store.write_sequence # 0
  /\ store.reader_count[store.write_index] = 0

Published == [store EXCEPT !.published_index = store.write_index,
                           !.published = TRUE,
                           !.write_in_progress = FALSE,
                           !.write_sequence = 0]

Publish ==
  /\ writer.pc = "fill"
  /\ writer.left = {}
  /\ IF MayPublish
       THEN /\ buffer' = [buffer EXCEPT ![store.write_index]["sequence"] =
                                          store.write_sequence]
            /\ store' = Published
       ELSE UNCHANGED <<buffer, store>>
  /\ writer' = [writer EXCEPT !.pc = "idle"]
  /\ UNCHANGED <<reader, answer>>

-----------------------------------------------------------------------------
(* A reader.  *)

(* The pin that keeps the writer off the buffer while it is copied.        *)
Pinned(i) ==
  [store EXCEPT !.reader_count[i] = @ + 1]

BeginCopy(r) ==
  /\ reader[r].pc = "idle"
  /\ store.published
  /\ store.reader_count[store.published_index] # PinMax
  /\ store' = Pinned(store.published_index)
  /\ reader' = [reader EXCEPT ![r].pc = "copy",
                              ![r].index = store.published_index,
                              ![r].left = Fields]
  /\ UNCHANGED <<buffer, writer, answer>>

CopyPart(r, f) ==
  /\ reader[r].pc = "copy"
  /\ f \in reader[r].left
  /\ reader' = [reader EXCEPT ![r].copy[f] = buffer[reader[r].index][f],
                              ![r].left = @ \ {f}]
  /\ UNCHANGED <<store, buffer, writer, answer>>

(* Seeded fault: the pin is not taken off.                                 *)
UnpinnedNever(i) == store

Unpinned(i) ==
  [store EXCEPT !.reader_count[i] = IF @ > 0 THEN @ - 1 ELSE @]

EndCopy(r) ==
  /\ reader[r].pc = "copy"
  /\ reader[r].left = {}
  /\ store' = Unpinned(reader[r].index)
  /\ reader' = [reader EXCEPT ![r].pc = "idle"]
  /\ answer' = [answer EXCEPT ![r] = reader[r].copy]
  /\ UNCHANGED <<buffer, writer>>

Writer ==
  BeginWrite \/ DropEpoch \/ Clear \/ Publish \/ \E p \in Parts : Fill(p)

Reader(r) ==
  BeginCopy(r) \/ EndCopy(r) \/ \E f \in Fields : CopyPart(r, f)

Next == Writer \/ \E r \in Readers : Reader(r)

Spec == Init /\ [][Next]_vars

(* The ADBMS task runs every cycle (its heartbeat feeds the watchdog) and  *)
(* a copy is a bounded piece of code: it ends once its task runs.          *)
LiveSpec ==
  /\ Spec
  /\ WF_vars(Writer)
  /\ \A r \in Readers :
       WF_vars(EndCopy(r) \/ \E f \in Fields : CopyPart(r, f))

-----------------------------------------------------------------------------
(* What a reader was given is one epoch: never a mixture of two, never a   *)
(* buffer that was being cleared (ams_measurement.c 516-553 against        *)
(* 419-484).                                                               *)
NoTornSnapshot == \A r \in Readers : IsEpoch(answer[r], answer[r]["sequence"])

(* The pin count of a buffer is the number of readers in the middle of     *)
(* copying it.  A count too high would shut the writer out for ever, one   *)
(* too low would let it overwrite a buffer under a reader.                 *)
Copying(i) == {r \in Readers : reader[r].pc = "copy" /\ reader[r].index = i}

PinsAreReaders ==
  \A i \in Index : store.reader_count[i] = Cardinality(Copying(i))

(* An epoch is dropped only because a reader is still copying the one      *)
(* before the latest; with the latest being read, however long, the other  *)
(* buffer is free (begin_write 401-414).                                   *)
DropsAreExplained ==
  [][DropEpoch => \E r \in Readers : /\ reader[r].pc = "copy"
                                     /\ reader[r].index = TargetIndex]_vars

(* The store implements the register: a read answers with the epoch that   *)
(* was the latest when it began.  A torn snapshot maps to no epoch at all. *)
EpochOf(snapshot) ==
  IF IsEpoch(snapshot, snapshot["sequence"]) THEN snapshot["sequence"] ELSE -1

Register ==
  INSTANCE SnapshotRegister WITH
    Epochs <- Sequences,
    latest <- IF store.published THEN EpochOf(buffer[store.published_index])
                                 ELSE 0,
    reading <- [r \in Readers |-> IF reader[r].pc = "copy"
                                    THEN EpochOf(buffer[reader[r].index])
                                    ELSE 0],
    answer <- [r \in Readers |-> EpochOf(answer[r])]

KeepsRegister == Register!Spec

(* Epochs keep being published, whatever the readers do: a pinned buffer   *)
(* is released in the end and no new reader can come to it.                *)
EpochsKeepComing ==
  []<>store.write_in_progress /\ []<>~store.write_in_progress
=============================================================================
