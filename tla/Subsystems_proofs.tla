------------------------- MODULE Subsystems_proofs -------------------------
(***************************************************************************)
(* What the shared objects promise, for every value of their constants.    *)
(*                                                                         *)
(* The argument: no two objects share a variable, so a step of the system  *)
(* is a step of one of them and changes nothing of the others; each has an *)
(* inductive invariant of its own.  The watchdog and the ring take theirs  *)
(* from the modules of their proofs.  Where ticks wrap, the invariant      *)
(* speaks of ages, the time since a tick on the circle: an age grows by    *)
(* one with the clock as long as it is short of a round, which is what the *)
(* assumptions on the constants are for, and then differences of ages are  *)
(* differences of ticks.                                                   *)
(***************************************************************************)
EXTENDS Subsystems, FiniteSetTheorems, TLAPS

-----------------------------------------------------------------------------
(* The measurement store is a register for any number of readers, any      *)
(* division of a snapshot into pieces and any width of its counters.  The  *)
(* pin count of a buffer is the number of readers that copy it, so the     *)
(* writer, who only takes an unpinned buffer that is not the latest, never *)
(* touches the latest buffer nor one that is being copied; both hold one   *)
(* whole epoch from their publication on.                                  *)

Holds(snapshot) ==
  /\ IsEpoch(snapshot, snapshot["sequence"])
  /\ snapshot["sequence"] # 0

(* The writer's buffer is neither the latest nor pinned.                   *)
WriterAgrees ==
  /\ (writer.pc = "idle") <=> ~store.write_in_progress
  /\ store.write_in_progress =>
       /\ store.write_sequence # 0
       /\ store.published => store.write_index # store.published_index
       /\ store.reader_count[store.write_index] = 0

(* What has been filled belongs to the epoch that is being written.        *)
FillAgrees ==
  writer.pc = "fill" =>
    \A p \in Parts \ writer.left :
      buffer[store.write_index][p] = store.write_sequence

LatestIsWhole == store.published => Holds(buffer[store.published_index])

(* What has been copied is what the buffer still holds.                    *)
CopiesAgree ==
  \A r \in Readers : reader[r].pc = "copy" =>
    /\ Holds(buffer[reader[r].index])
    /\ \A f \in Fields \ reader[r].left :
         reader[r].copy[f] = buffer[reader[r].index][f]

Inv ==
  /\ TypeOK /\ PinsAreReaders /\ NoTornSnapshot
  /\ WriterAgrees /\ FillAgrees /\ LatestIsWhole /\ CopiesAgree

-----------------------------------------------------------------------------
(* A buffer that is being copied has a pin.                                *)
LEMMA CopiedIsPinned ==
  ASSUME TypeOK, PinsAreReaders, NEW r \in Readers, reader[r].pc = "copy"
  PROVE  /\ reader[r].index \in Index
         /\ store.reader_count[reader[r].index] > 0
  <1> DEFINE i == reader[r].index
             c == Copying(i)
  <1>1. i \in Index
    BY DEF TypeOK
  <1>2. c \subseteq Readers /\ r \in c
    BY DEF Copying
  <1>3. IsFiniteSet(c)
    BY <1>2, StoreAssumption, FS_Subset DEF StoreAssumption
  <1>4. Cardinality(c) \in Nat /\ Cardinality(c) # 0
    BY <1>2, <1>3, FS_CardinalityType, FS_EmptySet
  <1>5. store.reader_count[i] = Cardinality(c)
    BY <1>1 DEF PinsAreReaders
  <1> QED BY <1>1, <1>4, <1>5

(* A writer never has the buffer that is being copied.                     *)
LEMMA WriterKeepsOff ==
  ASSUME TypeOK, PinsAreReaders, WriterAgrees, store.write_in_progress,
         NEW r \in Readers, reader[r].pc = "copy"
  PROVE  reader[r].index # store.write_index
  BY CopiedIsPinned DEF WriterAgrees

(* Nothing is published, pinned or written.                                *)
LEMMA InitInv == Init => Inv
  <1> SUFFICES ASSUME Init
               PROVE  Inv
    OBVIOUS
  <1> USE StoreAssumption DEF StoreAssumption
  <1>1. TypeOK
    BY DEF Init, TypeOK, Index, Blank, Snapshot, Fields
  <1>2. PinsAreReaders
    <2>1. \A i \in Index : Copying(i) = {}
      BY DEF Init, Copying
    <2> QED BY <2>1, FS_EmptySet DEF PinsAreReaders, Init
  <1>3. NoTornSnapshot
    BY DEF Init, NoTornSnapshot, IsEpoch, Blank, Fields
  <1>4. WriterAgrees /\ FillAgrees /\ LatestIsWhole /\ CopiesAgree
    BY DEF Init, WriterAgrees, FillAgrees, LatestIsWhole, CopiesAgree
  <1> QED BY <1>1, <1>2, <1>3, <1>4 DEF Inv

(* Sequence numbers are never 0.                                           *)
LEMMA SequenceIsOne ==
  ASSUME TypeOK
  PROVE  NextSequence \in Sequences
  BY StoreAssumption DEF StoreAssumption, TypeOK, NextSequence, Sequences

(* The pins are only moved by readers.                                     *)
LEMMA PinsStay ==
  ASSUME PinsAreReaders, UNCHANGED reader,
         store'.reader_count = store.reader_count
  PROVE  PinsAreReaders'
  <1>1. \A i : Copying(i)' = Copying(i)
    BY DEF Copying
  <1> QED BY <1>1 DEF PinsAreReaders

-----------------------------------------------------------------------------
(* The writer's steps.  *)
LEMMA BeginWriteInv == Inv /\ BeginWrite => Inv'
  <1> SUFFICES ASSUME Inv, BeginWrite
               PROVE  Inv'
    OBVIOUS
  <1> DEFINE t == TargetIndex
  <1>1. t \in Index /\ (store.published => t # store.published_index)
    BY DEF Inv, TypeOK, TargetIndex, Index
  <1>2. NextSequence \in Sequences
    BY SequenceIsOne DEF Inv
  <1> HIDE DEF t
  <1>3. /\ store' = [store EXCEPT !.next_sequence = NextSequence,
                                  !.write_index = t,
                                  !.write_sequence = NextSequence,
                                  !.write_in_progress = TRUE]
        /\ store.reader_count[t] = 0
        /\ writer' = [writer EXCEPT !.pc = "memset"]
        /\ UNCHANGED <<buffer, reader, answer>>
    BY DEF BeginWrite, MayWrite, t
  <1> HIDE DEF NextSequence
  <1>4. TypeOK'
    <2>1. NextSequence \in 0 .. SeqMod - 1
      BY <1>2, StoreAssumption DEF StoreAssumption, Sequences
    <2>2. store' \in
            [next_sequence : 0 .. SeqMod - 1, published : BOOLEAN,
             published_index : Index, write_in_progress : BOOLEAN,
             write_index : Index, write_sequence : 0 .. SeqMod - 1,
             reader_count : [Index -> 0 .. PinMax]]
      BY <1>1, <1>3, <2>1 DEF Inv, TypeOK
    <2>3. writer' \in [pc : {"idle", "memset", "fill"}, left : SUBSET Parts]
      BY <1>3 DEF Inv, TypeOK
    <2> QED BY <1>3, <2>2, <2>3 DEF Inv, TypeOK
  <1>5. /\ store'.published = store.published
        /\ store'.published_index = store.published_index
        /\ store'.reader_count = store.reader_count
        /\ store'.write_index = t /\ store'.write_in_progress
        /\ store'.write_sequence = NextSequence
        /\ writer'.pc = "memset"
    BY <1>3 DEF Inv, TypeOK
  <1>6. PinsAreReaders'
    BY <1>3, <1>5, PinsStay DEF Inv
  <1>7. WriterAgrees'
    <2>1. NextSequence # 0
      BY <1>2, StoreAssumption DEF StoreAssumption, Sequences
    <2>2. store'.reader_count[t] = 0
      BY <1>3, <1>5
    <2>3. store'.write_sequence # 0
      BY <1>5, <2>1
    <2>4. store'.published => store'.write_index # store'.published_index
      BY <1>1, <1>5
    <2>5. store'.reader_count[store'.write_index] = 0
      BY <1>5, <2>2
    <2>6. (writer'.pc = "idle") <=> ~store'.write_in_progress
      BY <1>5
    <2> QED BY <2>3, <2>4, <2>5, <2>6 DEF WriterAgrees
  <1>8. FillAgrees' /\ LatestIsWhole' /\ CopiesAgree' /\ NoTornSnapshot'
    BY <1>3, <1>5
    DEF Inv, FillAgrees, LatestIsWhole, CopiesAgree, NoTornSnapshot,
        Holds, IsEpoch
  <1> QED BY <1>4, <1>6, <1>7, <1>8 DEF Inv

(* A dropped epoch leaves everything but its number.                       *)
LEMMA DropEpochInv == Inv /\ DropEpoch => Inv'
  <1> SUFFICES ASSUME Inv, DropEpoch
               PROVE  Inv'
    OBVIOUS
  <1>1. NextSequence \in Sequences
    BY SequenceIsOne DEF Inv
  <1>2. /\ store' = [store EXCEPT !.next_sequence = NextSequence]
        /\ UNCHANGED <<buffer, writer, reader, answer>>
    BY DEF DropEpoch
  <1> HIDE DEF NextSequence
  <1>3. TypeOK'
    BY <1>1, <1>2 DEF Inv, TypeOK, Sequences
  <1>4. /\ store'.published = store.published
        /\ store'.published_index = store.published_index
        /\ store'.reader_count = store.reader_count
        /\ store'.write_index = store.write_index
        /\ store'.write_in_progress = store.write_in_progress
        /\ store'.write_sequence = store.write_sequence
    BY <1>2 DEF Inv, TypeOK
  <1>5. PinsAreReaders'
    BY <1>2, <1>4, PinsStay DEF Inv
  <1>6. /\ WriterAgrees' /\ FillAgrees' /\ LatestIsWhole' /\ CopiesAgree'
        /\ NoTornSnapshot'
    BY <1>2, <1>4
    DEF Inv, WriterAgrees, FillAgrees, LatestIsWhole, CopiesAgree,
        NoTornSnapshot, Holds, IsEpoch
  <1> QED BY <1>3, <1>5, <1>6 DEF Inv

(* Clearing touches the writer's buffer only.                              *)
LEMMA ClearInv == Inv /\ Clear => Inv'
  <1> SUFFICES ASSUME Inv, Clear
               PROVE  Inv'
    OBVIOUS
  <1> DEFINE w == store.write_index
  <1>1. /\ writer.pc = "memset" /\ store.write_in_progress
        /\ w \in Index
    BY DEF Inv, Clear, WriterAgrees, TypeOK
  <1>2. /\ buffer' = [buffer EXCEPT ![w] = Blank]
        /\ writer' = [pc |-> "fill", left |-> Parts]
        /\ UNCHANGED <<store, reader, answer>>
    BY DEF Clear
  <1>3. \A r \in Readers : reader[r].pc = "copy" => reader[r].index # w
    BY <1>1, WriterKeepsOff DEF Inv
  <1>4. Blank \in Snapshot
    BY StoreAssumption DEF Blank, Snapshot, StoreAssumption
  <1>5. TypeOK'
    BY <1>1, <1>2, <1>4 DEF Inv, TypeOK
  <1>6. \A i \in Index : i # w => buffer'[i] = buffer[i]
    BY <1>1, <1>2 DEF Inv, TypeOK
  <1> HIDE DEF w
  <1>7. PinsAreReaders'
    BY <1>2, PinsStay DEF Inv
  <1>8. WriterAgrees' /\ FillAgrees' /\ NoTornSnapshot'
    BY <1>1, <1>2 DEF Inv, WriterAgrees, FillAgrees, NoTornSnapshot, IsEpoch
  <1>9. LatestIsWhole'
    BY <1>1, <1>2, <1>6
    DEF Inv, LatestIsWhole, WriterAgrees, TypeOK, Holds, IsEpoch, w
  <1>10. CopiesAgree'
    BY <1>2, <1>3, <1>6 DEF Inv, TypeOK, CopiesAgree, Holds, IsEpoch
  <1> QED BY <1>5, <1>7, <1>8, <1>9, <1>10 DEF Inv

(* So does filling it.                                                     *)
LEMMA FillInv == ASSUME Inv, NEW part \in Parts, Fill(part)
                 PROVE  Inv'
  <1> DEFINE w == store.write_index
             s == store.write_sequence
  <1>1. /\ writer.pc = "fill" /\ store.write_in_progress
        /\ w \in Index /\ part \in Fields
        /\ buffer[w] \in Snapshot /\ s \in 0 .. SeqMod - 1
    BY DEF Inv, Fill, WriterAgrees, TypeOK, Fields
  <1>2. /\ buffer' = [buffer EXCEPT ![w][part] = s]
        /\ writer' = [writer EXCEPT !.left = @ \ {part}]
        /\ UNCHANGED <<store, reader, answer>>
    BY DEF Fill
  <1>3. \A r \in Readers : reader[r].pc = "copy" => reader[r].index # w
    BY <1>1, WriterKeepsOff DEF Inv
  <1>4. /\ \A i \in Index : i # w => buffer'[i] = buffer[i]
        /\ buffer'[w] = [buffer[w] EXCEPT ![part] = s]
    BY <1>1, <1>2 DEF Inv, TypeOK
  <1>5. writer'.pc = "fill" /\ writer'.left = writer.left \ {part}
    BY <1>1, <1>2 DEF Inv, TypeOK
  <1>6. TypeOK'
    <2>1. buffer'[w] \in Snapshot
      BY <1>1, <1>4 DEF Snapshot
    <2>2. buffer' \in [Index -> Snapshot]
      BY <1>1, <1>2, <2>1 DEF Inv, TypeOK
    <2>3. writer' \in [pc : {"idle", "memset", "fill"}, left : SUBSET Parts]
      BY <1>2 DEF Inv, TypeOK
    <2> QED BY <1>2, <2>2, <2>3 DEF Inv, TypeOK
  <1> HIDE DEF w, s
  <1>7. PinsAreReaders'
    BY <1>2, PinsStay DEF Inv
  <1>8. WriterAgrees' /\ NoTornSnapshot'
    BY <1>1, <1>2, <1>5 DEF Inv, WriterAgrees, NoTornSnapshot, IsEpoch
  <1>9. FillAgrees'
    <2> SUFFICES ASSUME NEW p \in Parts \ writer'.left
                 PROVE  buffer'[w][p] = s
      BY <1>2 DEF FillAgrees, w, s
    <2>1. p \in Fields
      BY DEF Fields
    <2>2. CASE p = part
      BY <1>1, <1>4, <2>1, <2>2 DEF Snapshot
    <2>3. CASE p # part
      <3>1. buffer[w][p] = s
        BY <1>1, <1>5, <2>3 DEF Inv, FillAgrees, w, s
      <3> QED BY <1>1, <1>4, <2>1, <2>3, <3>1 DEF Snapshot
    <2> QED BY <2>2, <2>3
  <1>10. LatestIsWhole'
    BY <1>1, <1>2, <1>4
    DEF Inv, LatestIsWhole, WriterAgrees, TypeOK, Holds, IsEpoch, w
  <1>11. CopiesAgree'
    BY <1>2, <1>3, <1>4 DEF Inv, TypeOK, CopiesAgree, Holds, IsEpoch
  <1> QED BY <1>6, <1>7, <1>8, <1>9, <1>10, <1>11 DEF Inv

(* The buffer that becomes the latest is whole, and no reader is on it.    *)
LEMMA PublishInv == Inv /\ Publish => Inv'
  <1> SUFFICES ASSUME Inv, Publish
               PROVE  Inv'
    OBVIOUS
  <1> DEFINE w == store.write_index
             s == store.write_sequence
  <1>1. /\ writer.pc = "fill" /\ writer.left = {}
        /\ store.write_in_progress /\ MayPublish
        /\ w \in Index /\ "sequence" \in Fields
        /\ buffer[w] \in Snapshot /\ s \in 0 .. SeqMod - 1 /\ s # 0
    BY DEF Inv, Publish, MayPublish, WriterAgrees, TypeOK, Fields
  <1>2. /\ buffer' = [buffer EXCEPT ![w]["sequence"] = s]
        /\ store' = Published
        /\ writer' = [writer EXCEPT !.pc = "idle"]
        /\ UNCHANGED <<reader, answer>>
    BY <1>1 DEF Publish
  <1>3. \A r \in Readers : reader[r].pc = "copy" => reader[r].index # w
    BY <1>1, WriterKeepsOff DEF Inv
  <1>4. /\ \A i \in Index : i # w => buffer'[i] = buffer[i]
        /\ buffer'[w] = [buffer[w] EXCEPT !["sequence"] = s]
    BY <1>1, <1>2 DEF Inv, TypeOK
  <1>5. /\ store'.published /\ store'.published_index = w
        /\ ~store'.write_in_progress
        /\ store'.reader_count = store.reader_count
        /\ writer'.pc = "idle"
    BY <1>2 DEF Inv, TypeOK, Published
  <1>6. TypeOK'
    <2>1. buffer'[w] \in Snapshot
      BY <1>1, <1>4 DEF Snapshot
    <2>2. buffer' \in [Index -> Snapshot]
      BY <1>1, <1>2, <2>1 DEF Inv, TypeOK
    <2>3. writer' \in [pc : {"idle", "memset", "fill"}, left : SUBSET Parts]
      BY <1>2 DEF Inv, TypeOK
    <2>4. store' \in
            [next_sequence : 0 .. SeqMod - 1, published : BOOLEAN,
             published_index : Index, write_in_progress : BOOLEAN,
             write_index : Index, write_sequence : 0 .. SeqMod - 1,
             reader_count : [Index -> 0 .. PinMax]]
      <3>1. 0 \in 0 .. SeqMod - 1
        BY StoreAssumption DEF StoreAssumption
      <3>2. store' = [store EXCEPT !.published_index = w,
                                   !.published = TRUE,
                                   !.write_in_progress = FALSE,
                                   !.write_sequence = 0]
        BY <1>2 DEF Published
      <3> HIDE DEF w
      <3> QED BY <1>1, <3>1, <3>2 DEF Inv, TypeOK
    <2> QED BY <1>2, <2>2, <2>3, <2>4 DEF Inv, TypeOK
  <1>7. Holds(buffer'[w])
    <2>1. \A p \in Parts : buffer[w][p] = s
      BY <1>1 DEF Inv, FillAgrees
    <2>2. \A f \in Fields : buffer'[w][f] = s
      BY <1>1, <1>4, <2>1 DEF Snapshot, Fields
    <2> QED BY <1>1, <2>2 DEF Holds, IsEpoch
  <1> HIDE DEF w, s
  <1>8. PinsAreReaders'
    BY <1>2, <1>5, PinsStay DEF Inv
  <1>9. /\ WriterAgrees' /\ FillAgrees' /\ LatestIsWhole'
        /\ NoTornSnapshot'
    BY <1>2, <1>5, <1>7
    DEF Inv, WriterAgrees, FillAgrees, LatestIsWhole, NoTornSnapshot,
        Holds, IsEpoch
  <1>10. CopiesAgree'
    BY <1>2, <1>3, <1>4 DEF Inv, TypeOK, CopiesAgree, Holds, IsEpoch
  <1> QED BY <1>6, <1>8, <1>9, <1>10 DEF Inv

-----------------------------------------------------------------------------
(* A reader's steps.  *)

(* A snapshot that is being copied stays what it was.                      *)
LEMMA BeginCopyInv == ASSUME Inv, NEW r \in Readers, BeginCopy(r)
                      PROVE  Inv'
  <1> DEFINE i == store.published_index
             n == store.reader_count[i]
             now == [reader[r] EXCEPT !.pc = "copy", !.index = i,
                                      !.left = Fields]
  <1>1. /\ reader[r].pc = "idle" /\ store.published
        /\ i \in Index /\ n \in 0 .. PinMax /\ n # PinMax
        /\ n + 1 \in 0 .. PinMax
    BY StoreAssumption DEF Inv, BeginCopy, TypeOK, StoreAssumption
  <1>2. /\ store' = [store EXCEPT !.reader_count[i] = n + 1]
        /\ UNCHANGED <<buffer, writer, answer>>
    BY DEF BeginCopy, Pinned
  <1>3. /\ reader'[r] = now
        /\ \A q \in Readers : q # r => reader'[q] = reader[q]
        /\ reader' = [reader EXCEPT ![r] = now]
    <2>3. reader' = [reader EXCEPT ![r].pc = "copy", ![r].index = i,
                                   ![r].left = Fields]
      BY DEF BeginCopy
    <2>4. reader' = [reader EXCEPT ![r] = now]
      BY <2>3 DEF Inv, TypeOK
    <2> HIDE DEF now
    <2> QED BY <2>4 DEF Inv, TypeOK
  <1>4. /\ store'.published = store.published
        /\ store'.published_index = store.published_index
        /\ store'.write_index = store.write_index
        /\ store'.write_in_progress = store.write_in_progress
        /\ store'.write_sequence = store.write_sequence
        /\ store'.reader_count = [store.reader_count EXCEPT ![i] = n + 1]
    BY <1>2 DEF Inv, TypeOK
  <1>5. TypeOK'
    <2>1. reader[r].copy \in Snapshot
      BY DEF Inv, TypeOK
    <2>2. now \in [pc : {"idle", "copy"}, index : Index,
                   left : SUBSET Fields, copy : Snapshot]
      BY <1>1, <2>1 DEF Inv, TypeOK
    <2>3. reader' \in [Readers -> [pc : {"idle", "copy"}, index : Index,
                                   left : SUBSET Fields, copy : Snapshot]]
      BY <1>3, <2>2 DEF Inv, TypeOK
    <2>4. store'.reader_count \in [Index -> 0 .. PinMax]
      BY <1>1, <1>4 DEF Inv, TypeOK
    <2>5. store' = [store EXCEPT !.reader_count = store'.reader_count]
      BY <1>2, <1>4 DEF Inv, TypeOK
    <2>6. store' \in
            [next_sequence : 0 .. SeqMod - 1, published : BOOLEAN,
             published_index : Index, write_in_progress : BOOLEAN,
             write_index : Index, write_sequence : 0 .. SeqMod - 1,
             reader_count : [Index -> 0 .. PinMax]]
      BY <2>4, <2>5 DEF Inv, TypeOK
    <2> QED BY <1>2, <2>3, <2>6 DEF Inv, TypeOK
  <1>6. PinsAreReaders'
    <2>1. Copying(i)' = Copying(i) \cup {r} /\ r \notin Copying(i)
      <3>1. now.pc = "copy" /\ now.index = i
        BY DEF Inv, TypeOK
      <3> HIDE DEF now
      <3> QED BY <1>1, <1>3, <1>4, <3>1 DEF Copying
    <2>2. \A j \in Index : j # i => Copying(j)' = Copying(j)
      BY <1>1, <1>3 DEF Copying
    <2>3. IsFiniteSet(Copying(i))
      BY StoreAssumption, FS_Subset DEF StoreAssumption, Copying
    <2>4. Cardinality(Copying(i)') = n + 1
      <3>1. Cardinality(Copying(i)) = n
        BY <1>1 DEF Inv, PinsAreReaders
      <3> DEFINE c == Copying(i)
      <3> HIDE DEF c, n
      <3>2. Cardinality(c \cup {r}) = n + 1
        BY <2>1, <2>3, <3>1, FS_AddElement DEF c
      <3> QED BY <2>1, <3>2 DEF c, n
    <2> SUFFICES ASSUME NEW j \in Index
                 PROVE  store'.reader_count[j] = Cardinality(Copying(j)')
      BY DEF PinsAreReaders
    <2>5. CASE j = i
      BY <1>1, <1>4, <2>4, <2>5 DEF Inv, TypeOK
    <2>6. CASE j # i
      BY <1>4, <2>2, <2>6 DEF Inv, TypeOK, PinsAreReaders
    <2> QED BY <2>5, <2>6
  <1> HIDE DEF i, n, now
  <1>7. WriterAgrees'
    <2>1. store.write_in_progress => store.write_index # i
      BY <1>1 DEF Inv, WriterAgrees, i
    <2>2. store.write_in_progress =>
            store'.reader_count[store.write_index] = 0
      BY <1>4, <2>1 DEF Inv, TypeOK, WriterAgrees
    <2> QED BY <1>2, <1>4, <2>2 DEF Inv, WriterAgrees
  <1>8. FillAgrees' /\ LatestIsWhole' /\ NoTornSnapshot'
    BY <1>2, <1>4
    DEF Inv, FillAgrees, LatestIsWhole, NoTornSnapshot, Holds, IsEpoch
  <1>9. CopiesAgree'
    <2> SUFFICES ASSUME NEW q \in Readers, reader'[q].pc = "copy"
                 PROVE  /\ Holds(buffer[reader'[q].index])
                        /\ \A f \in Fields \ reader'[q].left :
                             reader'[q].copy[f] =
                               buffer[reader'[q].index][f]
      BY <1>2 DEF CopiesAgree, Holds, IsEpoch
    <2>1. CASE q = r
      <3>1. reader'[q].index = i /\ reader'[q].left = Fields
        BY <1>3, <2>1 DEF now, Inv, TypeOK
      <3>2. Holds(buffer[i])
        BY <1>1 DEF Inv, LatestIsWhole, i
      <3> QED BY <3>1, <3>2
    <2>2. CASE q # r
      <3>1. reader'[q] = reader[q]
        BY <1>3, <2>2
      <3> QED BY <3>1 DEF Inv, CopiesAgree
    <2> QED BY <2>1, <2>2
  <1> QED BY <1>5, <1>6, <1>7, <1>8, <1>9 DEF Inv

(* A piece that is copied is the buffer's.                                 *)
LEMMA CopyPartInv ==
  ASSUME Inv, NEW r \in Readers, NEW f \in Fields, CopyPart(r, f)
  PROVE  Inv'
  <1> DEFINE i == reader[r].index
             v == buffer[i][f]
             now == [reader[r] EXCEPT !.copy[f] = v, !.left = @ \ {f}]
  <1>1. /\ reader[r].pc = "copy" /\ i \in Index /\ v \in 0 .. SeqMod - 1
        /\ reader[r].copy \in Snapshot /\ reader[r].left \in SUBSET Fields
    BY DEF Inv, TypeOK, CopyPart, Snapshot
  <1>2. UNCHANGED <<store, buffer, writer, answer>>
    BY DEF CopyPart
  <1>3. reader' = [reader EXCEPT ![r] = now]
    BY DEF CopyPart, Inv, TypeOK
  <1>4. /\ now.pc = "copy" /\ now.index = i
        /\ now.left = reader[r].left \ {f}
        /\ now.copy = [reader[r].copy EXCEPT ![f] = v]
    BY <1>1 DEF Inv, TypeOK
  <1>5. now \in [pc : {"idle", "copy"}, index : Index,
                 left : SUBSET Fields, copy : Snapshot]
    <2>1. now.copy \in Snapshot
      BY <1>1, <1>4 DEF Snapshot
    <2>2. now = [pc |-> "copy", index |-> i, left |-> reader[r].left \ {f},
                 copy |-> [reader[r].copy EXCEPT ![f] = v]]
      <3>1. now = [[reader[r] EXCEPT !.copy = [reader[r].copy EXCEPT ![f] = v]]
                     EXCEPT !.left = reader[r].left \ {f}]
        BY <1>1 DEF Inv, TypeOK
      <3> HIDE DEF now, i, v
      <3> QED BY <1>1, <3>1 DEF Inv, TypeOK, i
    <2> QED BY <1>1, <1>4, <2>1, <2>2
  <1> HIDE DEF i, v, now
  <1>6. /\ reader'[r] = now
        /\ \A q \in Readers : q # r => reader'[q] = reader[q]
    BY <1>3 DEF Inv, TypeOK
  <1>7. TypeOK'
    BY <1>2, <1>3, <1>5 DEF Inv, TypeOK
  <1>8. PinsAreReaders'
    <2>1. \A j : Copying(j)' = Copying(j)
      BY <1>1, <1>4, <1>6 DEF Copying, i
    <2> QED BY <1>2, <2>1 DEF Inv, PinsAreReaders
  <1>9. WriterAgrees' /\ FillAgrees' /\ LatestIsWhole' /\ NoTornSnapshot'
    BY <1>2
    DEF Inv, WriterAgrees, FillAgrees, LatestIsWhole, NoTornSnapshot,
        Holds, IsEpoch
  <1>10. CopiesAgree'
    <2> SUFFICES ASSUME NEW q \in Readers, reader'[q].pc = "copy"
                 PROVE  /\ Holds(buffer[reader'[q].index])
                        /\ \A g \in Fields \ reader'[q].left :
                             reader'[q].copy[g] =
                               buffer[reader'[q].index][g]
      BY <1>2 DEF CopiesAgree, Holds, IsEpoch
    <2>1. CASE q = r
      <3>1. reader'[q] = now
        BY <1>6, <2>1
      <3>2. Holds(buffer[i])
        BY <1>1 DEF Inv, CopiesAgree, i
      <3>3. ASSUME NEW g \in Fields \ now.left
            PROVE  now.copy[g] = buffer[i][g]
        <4>1. CASE g = f
          BY <1>1, <1>4, <4>1 DEF Snapshot, v
        <4>2. CASE g # f
          <5>1. reader[r].copy[g] = buffer[i][g]
            BY <1>1, <1>4, <4>2 DEF Inv, CopiesAgree, i
          <5> QED BY <1>1, <1>4, <4>2, <5>1 DEF Snapshot
        <4> QED BY <4>1, <4>2
      <3> QED BY <1>4, <3>1, <3>2, <3>3
    <2>2. CASE q # r
      <3>1. reader'[q] = reader[q]
        BY <1>6, <2>2
      <3> QED BY <3>1 DEF Inv, CopiesAgree
    <2> QED BY <2>1, <2>2
  <1> QED BY <1>7, <1>8, <1>9, <1>10 DEF Inv

(* What a reader takes away is the whole epoch it found.                   *)
LEMMA EndCopyInv == ASSUME Inv, NEW r \in Readers, EndCopy(r)
                    PROVE  Inv'
  <1> DEFINE i == reader[r].index
             n == store.reader_count[i]
  <1>1. /\ reader[r].pc = "copy" /\ reader[r].left = {} /\ i \in Index
        /\ n \in 0 .. PinMax /\ n > 0 /\ n - 1 \in 0 .. PinMax
        /\ reader[r].copy \in Snapshot
    BY CopiedIsPinned, StoreAssumption
    DEF Inv, EndCopy, TypeOK, StoreAssumption
  <1>2. /\ store' = [store EXCEPT !.reader_count[i] = n - 1]
        /\ UNCHANGED <<buffer, writer>>
    BY <1>1 DEF EndCopy, Unpinned
  <1>3. /\ reader'[r].pc = "idle" /\ reader'[r].index = i
        /\ \A q \in Readers : q # r => reader'[q] = reader[q]
        /\ reader' = [reader EXCEPT ![r].pc = "idle"]
        /\ answer' = [answer EXCEPT ![r] = reader[r].copy]
    BY DEF Inv, TypeOK, EndCopy
  <1>4. /\ store'.published = store.published
        /\ store'.published_index = store.published_index
        /\ store'.write_index = store.write_index
        /\ store'.write_in_progress = store.write_in_progress
        /\ store'.write_sequence = store.write_sequence
        /\ store'.reader_count = [store.reader_count EXCEPT ![i] = n - 1]
    BY <1>2 DEF Inv, TypeOK
  <1>5. TypeOK'
    <2>1. reader' \in [Readers -> [pc : {"idle", "copy"}, index : Index,
                                   left : SUBSET Fields, copy : Snapshot]]
      BY <1>3 DEF Inv, TypeOK
    <2>2. answer' \in [Readers -> Snapshot]
      BY <1>1, <1>3 DEF Inv, TypeOK
    <2>3. store'.reader_count \in [Index -> 0 .. PinMax]
      BY <1>1, <1>4 DEF Inv, TypeOK
    <2>4. store' = [store EXCEPT !.reader_count = store'.reader_count]
      BY <1>2, <1>4 DEF Inv, TypeOK
    <2>5. store' \in
            [next_sequence : 0 .. SeqMod - 1, published : BOOLEAN,
             published_index : Index, write_in_progress : BOOLEAN,
             write_index : Index, write_sequence : 0 .. SeqMod - 1,
             reader_count : [Index -> 0 .. PinMax]]
      BY <2>3, <2>4 DEF Inv, TypeOK
    <2> QED BY <1>2, <2>1, <2>2, <2>5 DEF Inv, TypeOK
  <1>6. PinsAreReaders'
    <2>1. Copying(i)' = Copying(i) \ {r} /\ r \in Copying(i)
      BY <1>1, <1>3 DEF Copying
    <2>2. \A j \in Index : j # i => Copying(j)' = Copying(j)
      BY <1>1, <1>3 DEF Copying
    <2>3. IsFiniteSet(Copying(i))
      BY StoreAssumption, FS_Subset DEF StoreAssumption, Copying
    <2>4. Cardinality(Copying(i)') = n - 1
      <3>1. Cardinality(Copying(i)) = n
        BY <1>1 DEF Inv, PinsAreReaders
      <3> DEFINE c == Copying(i)
      <3> HIDE DEF c, n
      <3>2. Cardinality(c \ {r}) = n - 1
        BY <2>1, <2>3, <3>1, FS_RemoveElement DEF c
      <3> QED BY <2>1, <3>2 DEF c, n
    <2> SUFFICES ASSUME NEW j \in Index
                 PROVE  store'.reader_count[j] = Cardinality(Copying(j)')
      BY DEF PinsAreReaders
    <2>5. CASE j = i
      <3>1. Copying(j)' = Copying(i)'
        BY <1>3, <2>5 DEF Copying
      <3> QED BY <1>1, <1>4, <2>4, <2>5, <3>1 DEF Inv, TypeOK
    <2>6. CASE j # i
      BY <1>4, <2>2, <2>6 DEF Inv, TypeOK, PinsAreReaders
    <2> QED BY <2>5, <2>6
  <1> HIDE DEF i, n
  <1>7. WriterAgrees'
    <2>1. store.write_in_progress => store.write_index # i
      BY <1>1, WriterKeepsOff DEF Inv, i
    <2>2. store.write_in_progress =>
            store'.reader_count[store.write_index] = 0
      BY <1>4, <2>1 DEF Inv, TypeOK, WriterAgrees
    <2> QED BY <1>2, <1>4, <2>2 DEF Inv, WriterAgrees
  <1>8. FillAgrees' /\ LatestIsWhole'
    BY <1>2, <1>4 DEF Inv, FillAgrees, LatestIsWhole, Holds, IsEpoch
  <1>9. CopiesAgree'
    BY <1>2, <1>3 DEF Inv, TypeOK, CopiesAgree, Holds, IsEpoch
  <1>10. NoTornSnapshot'
    <2>1. IsEpoch(reader[r].copy, reader[r].copy["sequence"])
      <3>1. \A f \in Fields : reader[r].copy[f] = buffer[i][f]
        BY <1>1 DEF Inv, CopiesAgree, i
      <3>2. \A f \in Fields : buffer[i][f] = buffer[i]["sequence"]
        BY <1>1 DEF Inv, CopiesAgree, Holds, IsEpoch, i
      <3>3. "sequence" \in Fields
        BY DEF Fields
      <3> QED BY <3>1, <3>2, <3>3 DEF IsEpoch
    <2>2. \A q \in Readers : answer'[q] = IF q = r THEN reader[r].copy
                                          ELSE answer[q]
      BY <1>3 DEF Inv, TypeOK
    <2> QED BY <2>1, <2>2 DEF Inv, NoTornSnapshot, IsEpoch
  <1> QED BY <1>5, <1>6, <1>7, <1>8, <1>9, <1>10 DEF Inv

(* Nothing changes.                                                        *)
LEMMA StutterInv == Inv /\ UNCHANGED vars => Inv'
  <1> SUFFICES ASSUME Inv, UNCHANGED vars
               PROVE  Inv'
    OBVIOUS
  <1>1. PinsAreReaders'
    BY PinsStay DEF Inv, vars
  <1>2. TypeOK'
    BY DEF Inv, vars, TypeOK
  <1> QED
    BY <1>1, <1>2
    DEF Inv, vars, WriterAgrees, FillAgrees, LatestIsWhole, CopiesAgree,
        NoTornSnapshot, Holds, IsEpoch

(* All steps together.                                                     *)
LEMMA NextInv == Inv /\ [Next]_vars => Inv'
  <1> SUFFICES ASSUME Inv, [Next]_vars
               PROVE  Inv'
    OBVIOUS
  <1>1. CASE BeginWrite
    BY <1>1, BeginWriteInv
  <1>2. CASE DropEpoch
    BY <1>2, DropEpochInv
  <1>3. CASE Clear
    BY <1>3, ClearInv
  <1>4. CASE Publish
    BY <1>4, PublishInv
  <1>5. CASE \E p \in Parts : Fill(p)
    BY <1>5, FillInv
  <1>6. ASSUME NEW r \in Readers, BeginCopy(r)
        PROVE  Inv'
    BY <1>6, BeginCopyInv
  <1>7. ASSUME NEW r \in Readers, EndCopy(r)
        PROVE  Inv'
    BY <1>7, EndCopyInv
  <1>8. ASSUME NEW r \in Readers, NEW f \in Fields, CopyPart(r, f)
        PROVE  Inv'
    BY <1>8, CopyPartInv
  <1>9. CASE UNCHANGED vars
    BY <1>9, StutterInv
  <1> QED
    BY <1>1, <1>2, <1>3, <1>4, <1>5, <1>6, <1>7, <1>8, <1>9
    DEF Next, Writer, Reader

(* The invariant.                                                          *)
LEMMA InvAlways == Spec => []Inv
  BY InitInv, NextInv, PTL DEF Spec

-----------------------------------------------------------------------------
(* Every variable keeps its type; in particular no pin count goes below    *)
(* zero or above its width, whatever the readers do.                       *)
THEOREM StoreTypes == Spec => []TypeOK
  <1>1. Inv => TypeOK
    BY DEF Inv
  <1> QED BY <1>1, InvAlways, PTL

(* No reader is ever given a mixture of two epochs.                        *)
THEOREM SnapshotsAreWhole == Spec => []NoTornSnapshot
  <1>1. Inv => NoTornSnapshot
    BY DEF Inv
  <1> QED BY <1>1, InvAlways, PTL

(* No pin is lost or left behind.                                          *)
THEOREM PinsAreKept == Spec => []PinsAreReaders
  <1>1. Inv => PinsAreReaders
    BY DEF Inv
  <1> QED BY <1>1, InvAlways, PTL

(* A reader blocks the writer only while it copies the older buffer.       *)
THEOREM DropsNeedAReader == Spec => DropsAreExplained
  <1>1. Inv /\ [Next]_vars =>
          [DropEpoch => \E r \in Readers :
                          /\ reader[r].pc = "copy"
                          /\ reader[r].index = TargetIndex]_vars
    <2> SUFFICES ASSUME Inv, DropEpoch
                 PROVE  \E r \in Readers : /\ reader[r].pc = "copy"
                                           /\ reader[r].index = TargetIndex
      OBVIOUS
    <2>1. TargetIndex \in Index
      BY DEF Inv, TypeOK, TargetIndex, Index
    <2>2. ~store.write_in_progress
      BY DEF Inv, DropEpoch, WriterAgrees
    <2>3. store.reader_count[TargetIndex] # 0
      BY <2>2 DEF DropEpoch, MayWrite
    <2>4. Copying(TargetIndex) # {}
      BY <2>1, <2>3, FS_EmptySet DEF Inv, PinsAreReaders
    <2> QED BY <2>4 DEF Copying
  <1> QED BY <1>1, InvAlways, PTL DEF Spec, DropsAreExplained

-----------------------------------------------------------------------------
(* The refinement: the publication of a buffer is the register's write,    *)
(* and a copy takes effect where it begins.                                *)
LEMMA InitRefines == Init => Register!Init
  <1> SUFFICES ASSUME Init
               PROVE  Register!Init
    OBVIOUS
  <1>1. EpochOf(Blank) = 0
    BY DEF EpochOf, IsEpoch, Blank, Fields
  <1> QED BY <1>1 DEF Init, Register!Init, Register!NoEpoch

(* The register's variables, named.                                        *)
Latest ==
  IF store.published THEN EpochOf(buffer[store.published_index]) ELSE 0
Reading(r) ==
  IF reader[r].pc = "copy" THEN EpochOf(buffer[reader[r].index]) ELSE 0
Answered(r) == EpochOf(answer[r])

(* A whole snapshot is the epoch of its sequence number.                   *)
LEMMA WholeEpoch ==
  ASSUME NEW snapshot \in Snapshot, Holds(snapshot)
  PROVE  EpochOf(snapshot) \in Sequences /\ EpochOf(snapshot) # 0
  <1>1. "sequence" \in Fields
    BY DEF Fields
  <1>2. snapshot["sequence"] \in Sequences
    BY <1>1, StoreAssumption
    DEF Snapshot, Holds, Sequences, StoreAssumption
  <1> QED BY <1>2 DEF EpochOf, Holds

(* A step that leaves the three alone is a stutter of the register.        *)
LEMMA RegisterStutters ==
  ASSUME Latest' = Latest, \A r \in Readers : Reading(r)' = Reading(r),
         \A r \in Readers : Answered(r)' = Answered(r)
  PROVE  UNCHANGED Register!vars
  BY DEF Register!vars, Latest, Reading, Answered

(* So is one that touches neither the latest buffer nor a copied one.      *)
LEMMA BuffersStutter ==
  ASSUME UNCHANGED answer,
         store'.published = store.published,
         store'.published_index = store.published_index,
         store.published =>
           buffer'[store.published_index] = buffer[store.published_index],
         \A r \in Readers :
           /\ reader'[r].pc = reader[r].pc
           /\ reader'[r].index = reader[r].index
           /\ reader[r].pc = "copy" =>
                buffer'[reader[r].index] = buffer[reader[r].index]
  PROVE  UNCHANGED Register!vars
  <1>1. Latest' = Latest
    BY DEF Latest, EpochOf, IsEpoch
  <1>2. \A r \in Readers : Reading(r)' = Reading(r)
    BY DEF Reading, EpochOf, IsEpoch
  <1>3. \A r \in Readers : Answered(r)' = Answered(r)
    BY DEF Answered, EpochOf, IsEpoch
  <1> QED BY <1>1, <1>2, <1>3, RegisterStutters

(* The writer's private steps are invisible.                               *)
LEMMA WriterRefines ==
  ASSUME Inv,
         BeginWrite \/ DropEpoch \/ Clear \/ \E p \in Parts : Fill(p)
  PROVE  UNCHANGED Register!vars
  <1>1. /\ UNCHANGED <<reader, answer>>
        /\ store'.published = store.published
        /\ store'.published_index = store.published_index
    BY DEF Inv, TypeOK, BeginWrite, DropEpoch, Clear, Fill
  <1>2. CASE BeginWrite \/ DropEpoch
    BY <1>1, <1>2, BuffersStutter DEF BeginWrite, DropEpoch
  <1>3. CASE Clear \/ \E p \in Parts : Fill(p)
    <2>1. store.write_in_progress /\ store.write_index \in Index
      BY <1>3 DEF Inv, TypeOK, WriterAgrees, Clear, Fill
    <2>2. \A i \in Index : i # store.write_index => buffer'[i] = buffer[i]
      BY <1>3, <2>1 DEF Inv, TypeOK, Clear, Fill
    <2>3. store.published =>
            buffer'[store.published_index] = buffer[store.published_index]
      BY <2>1, <2>2 DEF Inv, TypeOK, WriterAgrees
    <2>4. \A r \in Readers :
            reader[r].pc = "copy" =>
              buffer'[reader[r].index] = buffer[reader[r].index]
      BY <2>1, <2>2, WriterKeepsOff DEF Inv, TypeOK
    <2> QED BY <1>1, <2>3, <2>4, BuffersStutter
  <1> QED BY <1>2, <1>3

(* The publication is the register's write.                                *)
LEMMA PublishRefines == Inv /\ Publish => Register!Publish
  <1> SUFFICES ASSUME Inv, Publish
               PROVE  Register!Publish
    OBVIOUS
  <1>1. Inv'
    BY PublishInv
  <1>2. Latest' \in Sequences
    <2>1. store'.published
      BY DEF Inv, TypeOK, Publish, MayPublish, Published, WriterAgrees
    <2>2. /\ buffer'[store'.published_index] \in Snapshot
          /\ Holds(buffer'[store'.published_index])
      BY <1>1, <2>1 DEF Inv, TypeOK, LatestIsWhole, Holds, IsEpoch
    <2>3. EpochOf(buffer'[store'.published_index]) \in Sequences
      BY <2>2, WholeEpoch
    <2> QED BY <2>1, <2>3 DEF Latest, EpochOf, IsEpoch
  <1>3. UNCHANGED <<reader, answer>>
    BY DEF Publish
  <1>4. store.write_in_progress /\ store.write_index \in Index
    BY DEF Inv, TypeOK, WriterAgrees, Publish
  <1>5. \A i \in Index : i # store.write_index => buffer'[i] = buffer[i]
    BY <1>4 DEF Inv, TypeOK, Publish
  <1>6. \A r \in Readers : Reading(r)' = Reading(r)
    <2> SUFFICES ASSUME NEW r \in Readers, reader[r].pc = "copy"
                 PROVE  EpochOf(buffer'[reader[r].index]) =
                          EpochOf(buffer[reader[r].index])
      BY <1>3 DEF Reading, EpochOf, IsEpoch
    <2> QED BY <1>4, <1>5, WriterKeepsOff DEF Inv, TypeOK
  <1>7. \A r \in Readers : Answered(r)' = Answered(r)
    BY <1>3 DEF Answered, EpochOf, IsEpoch
  <1> QED
    BY <1>2, <1>6, <1>7 DEF Register!Publish, Latest, Reading, Answered

(* A copy begins as a read of the latest epoch                             *)
LEMMA BeginCopyRefines ==
  ASSUME Inv, NEW r \in Readers, BeginCopy(r)
  PROVE  Register!BeginRead(r)
  <1>1. /\ reader[r].pc = "idle" /\ store.published
        /\ store.published_index \in Index
        /\ UNCHANGED <<buffer, answer>>
    BY DEF Inv, TypeOK, BeginCopy
  <1>2. /\ store'.published = store.published
        /\ store'.published_index = store.published_index
    BY DEF Inv, TypeOK, BeginCopy, Pinned
  <1>3. /\ reader'[r].pc = "copy"
        /\ reader'[r].index = store.published_index
        /\ \A q \in Readers : q # r => reader'[q] = reader[q]
    BY DEF Inv, TypeOK, BeginCopy
  <1>4. Reading(r) = 0
    BY <1>1 DEF Reading
  <1>5. Latest # 0
    <2>1. /\ buffer[store.published_index] \in Snapshot
          /\ Holds(buffer[store.published_index])
      BY <1>1 DEF Inv, TypeOK, LatestIsWhole
    <2> QED BY <1>1, <2>1, WholeEpoch DEF Latest
  <1>6. Latest' = Latest
    BY <1>1, <1>2 DEF Latest, EpochOf, IsEpoch
  <1>7. \A q \in Readers : Reading(q)' = IF q = r THEN Latest ELSE Reading(q)
    BY <1>1, <1>3 DEF Reading, Latest, EpochOf, IsEpoch
  <1>8. \A q \in Readers : Answered(q)' = Answered(q)
    BY <1>1 DEF Answered, EpochOf, IsEpoch
  <1> QED
    BY <1>4, <1>5, <1>6, <1>7, <1>8
    DEF Register!BeginRead, Register!NoEpoch, Latest, Reading, Answered

(* and ends with that epoch.                                               *)
LEMMA EndCopyRefines ==
  ASSUME Inv, NEW r \in Readers, EndCopy(r)
  PROVE  Register!EndRead(r)
  <1> DEFINE i == reader[r].index
  <1>1. /\ reader[r].pc = "copy" /\ reader[r].left = {} /\ i \in Index
        /\ UNCHANGED buffer
    BY DEF Inv, TypeOK, EndCopy
  <1>2. /\ store'.published = store.published
        /\ store'.published_index = store.published_index
    BY <1>1 DEF Inv, TypeOK, EndCopy, Unpinned
  <1>3. /\ reader'[r].pc = "idle"
        /\ \A q \in Readers : q # r => reader'[q] = reader[q]
        /\ \A q \in Readers : answer'[q] = IF q = r THEN reader[r].copy
                                            ELSE answer[q]
    BY DEF Inv, TypeOK, EndCopy
  <1>4. Reading(r) # 0
    <2>1. buffer[i] \in Snapshot /\ Holds(buffer[i])
      BY <1>1 DEF Inv, TypeOK, CopiesAgree
    <2> QED BY <1>1, <2>1, WholeEpoch DEF Reading
  <1>5. EpochOf(reader[r].copy) = Reading(r)
    <2>1. \A f \in Fields : reader[r].copy[f] = buffer[i][f]
      BY <1>1 DEF Inv, CopiesAgree
    <2>2. "sequence" \in Fields
      BY DEF Fields
    <2> QED BY <1>1, <2>1, <2>2 DEF Reading, EpochOf, IsEpoch
  <1>6. Latest' = Latest
    BY <1>1, <1>2 DEF Latest, EpochOf, IsEpoch
  <1>7. \A q \in Readers : Reading(q)' = IF q = r THEN 0 ELSE Reading(q)
    BY <1>1, <1>3 DEF Reading, EpochOf, IsEpoch
  <1>8. \A q \in Readers :
          Answered(q)' = IF q = r THEN Reading(r) ELSE Answered(q)
    BY <1>3, <1>5 DEF Answered, EpochOf, IsEpoch
  <1> QED
    BY <1>4, <1>6, <1>7, <1>8
    DEF Register!EndRead, Register!NoEpoch, Latest, Reading, Answered

(* In between nothing shows.                                               *)
LEMMA CopyPartRefines ==
  ASSUME Inv, NEW r \in Readers, NEW f \in Fields, CopyPart(r, f)
  PROVE  UNCHANGED Register!vars
  <1>1. UNCHANGED <<store, buffer, answer>>
    BY DEF CopyPart
  <1>2. \A q \in Readers : /\ reader'[q].pc = reader[q].pc
                           /\ reader'[q].index = reader[q].index
    BY DEF Inv, TypeOK, CopyPart
  <1> QED BY <1>1, <1>2, BuffersStutter

(* Every step is one of the register's, or a stutter.                      *)
LEMMA NextRefines == Inv /\ [Next]_vars => [Register!Next]_Register!vars
  <1> SUFFICES ASSUME Inv, [Next]_vars
               PROVE  [Register!Next]_Register!vars
    OBVIOUS
  <1>1. CASE BeginWrite \/ DropEpoch \/ Clear \/ \E p \in Parts : Fill(p)
    BY <1>1, WriterRefines
  <1>2. CASE Publish
    BY <1>2, PublishRefines DEF Register!Next
  <1>3. ASSUME NEW r \in Readers, BeginCopy(r)
        PROVE  Register!Next
    BY <1>3, BeginCopyRefines DEF Register!Next
  <1>4. ASSUME NEW r \in Readers, EndCopy(r)
        PROVE  Register!Next
    BY <1>4, EndCopyRefines DEF Register!Next
  <1>5. ASSUME NEW r \in Readers, NEW f \in Fields, CopyPart(r, f)
        PROVE  UNCHANGED Register!vars
    BY <1>5, CopyPartRefines
  <1>6. CASE UNCHANGED vars
    <2>1. UNCHANGED <<store, buffer, reader, answer>>
      BY <1>6 DEF vars
    <2> QED BY <2>1, BuffersStutter
  <1> QED
    BY <1>1, <1>2, <1>3, <1>4, <1>5, <1>6 DEF Next, Writer, Reader

(* The store is a register: every read answers with the epoch that was the *)
(* latest when it began, whatever is published meanwhile.                  *)
THEOREM StoreIsARegister == Spec => KeepsRegister
  BY InitRefines, NextRefines, InvAlways, PTL
  DEF Spec, KeepsRegister, Register!Spec

-----------------------------------------------------------------------------
(* Ticks on a circle.                                                      *)

(* How long ago b was at a, on a circle of W ticks.                        *)
Ago(W, a, b) == (a - b) % W

(* It is less than a round, and the clock goes round.                      *)
LEMMA Circle ==
  ASSUME NEW W \in Nat \ {0}, NEW a \in 0 .. W - 1, NEW b \in 0 .. W - 1
  PROVE  /\ Ago(W, a, b) = IF a >= b THEN a - b ELSE a - b + W
         /\ Ago(W, a, b) \in 0 .. W - 1
         /\ (a + 1) % W = IF a = W - 1 THEN 0 ELSE a + 1
         /\ (a + 1) % W \in 0 .. W - 1
  BY DEF Ago

(* Two ticks differ by the difference of their ages, round the circle.     *)
LEMMA AgesDiffer ==
  ASSUME NEW W \in Nat \ {0}, NEW k \in 0 .. W - 1,
         NEW a \in 0 .. W - 1, NEW b \in 0 .. W - 1
  PROVE  Ago(W, a, b) = IF Ago(W, k, b) >= Ago(W, k, a)
                        THEN Ago(W, k, b) - Ago(W, k, a)
                        ELSE Ago(W, k, b) - Ago(W, k, a) + W
  <1>1. /\ Ago(W, a, b) = IF a >= b THEN a - b ELSE a - b + W
        /\ Ago(W, k, a) = IF k >= a THEN k - a ELSE k - a + W
        /\ Ago(W, k, b) = IF k >= b THEN k - b ELSE k - b + W
    BY Circle
  <1> QED BY <1>1

(* A tick of the clock makes everything one older, short of the round.     *)
LEMMA AgesGrow ==
  ASSUME NEW W \in Nat \ {0}, NEW k \in 0 .. W - 1, NEW a \in 0 .. W - 1,
         Ago(W, k, a) < W - 1
  PROVE  Ago(W, (k + 1) % W, a) = Ago(W, k, a) + 1
  <1> DEFINE n == (k + 1) % W
  <1>1. /\ n = IF k = W - 1 THEN 0 ELSE k + 1
        /\ n \in 0 .. W - 1
        /\ Ago(W, k, a) = IF k >= a THEN k - a ELSE k - a + W
    BY Circle
  <1> HIDE DEF n
  <1>2. Ago(W, n, a) = IF n >= a THEN n - a ELSE n - a + W
    BY <1>1, Circle
  <1>3. Ago(W, n, a) = Ago(W, k, a) + 1
    BY <1>1, <1>2
  <1> QED BY <1>3 DEF n

(* Now is no time ago.                                                     *)
LEMMA NowIsNow ==
  ASSUME NEW W \in Nat \ {0}, NEW a \in 0 .. W - 1
  PROVE  Ago(W, a, a) = 0
  BY Circle

(* A tick some ticks back on the circle is so old.                         *)
LEMMA SomeTicksBack ==
  ASSUME NEW W \in Nat \ {0}, NEW k \in 0 .. W - 1, NEW n \in 0 .. W - 1
  PROVE  (k - n) % W \in 0 .. W - 1 /\ Ago(W, k, (k - n) % W) = n
  <1> DEFINE m == (k - n) % W
  <1>1. m \in 0 .. W - 1 /\ m = IF k >= n THEN k - n ELSE k - n + W
    OBVIOUS
  <1> HIDE DEF m
  <1>2. Ago(W, k, m) = IF k >= m THEN k - m ELSE k - m + W
    BY <1>1, Circle
  <1>3. Ago(W, k, m) = n
    BY <1>1, <1>2
  <1> QED BY <1>1, <1>3 DEF m

-----------------------------------------------------------------------------
(* The watchdog and the receive ring: what is proved of each alone.        *)

(* The proofs about the watchdog alone, and about the ring alone.          *)
WatchdogP ==
  INSTANCE TaskWatchdog_proofs WITH
    Timeout <- TaskTimeout, Grace <- StartupGrace, MaxLate <- KickLate

RingP == INSTANCE CanRxRing_proofs WITH task <- rxTask

(* The constants are what the proofs of the watchdog ask for.              *)
LEMMA WatchdogReady == WatchdogP!WatchdogConstants
  BY WatchdogAssumption
     DEF WatchdogP!WatchdogConstants, WatchdogP!Supervisor,
         WatchdogP!Integrity

(* The watchdog of the system is the one the proofs are about.             *)
LEMMA WatchdogIsSame ==
  /\ Watchdog!Init <=> WatchdogP!Init
  /\ [Watchdog!Next]_watchdogVars <=> [WatchdogP!Next]_(WatchdogP!vars)
  /\ Watchdog!PermitIsAlive <=> WatchdogP!PermitIsAlive
  /\ Watchdog!HungIsReset <=> WatchdogP!HungIsReset
  /\ Watchdog!ResetIsEarned <=> WatchdogP!ResetIsEarned
  /\ Watchdog!TypeOK <=> WatchdogP!TypeOK
  BY DEF Watchdog!Init, WatchdogP!Init,
         Watchdog!Next, WatchdogP!Next, watchdogVars, WatchdogP!vars,
         Watchdog!PermitIsAlive, WatchdogP!PermitIsAlive,
         Watchdog!HungIsReset, WatchdogP!HungIsReset,
         Watchdog!ResetIsEarned, WatchdogP!ResetIsEarned,
         Watchdog!TypeOK, WatchdogP!TypeOK,
         Watchdog!Supervisor, WatchdogP!Supervisor,
         Watchdog!Integrity, WatchdogP!Integrity,
         Watchdog!Culprits, WatchdogP!Culprits,
         Watchdog!Unseen, WatchdogP!Unseen,
         Watchdog!Stopped, WatchdogP!Stopped,
         Watchdog!Least, WatchdogP!Least,
         Watchdog!Horizon, WatchdogP!Horizon,
         Watchdog!Silence, WatchdogP!Silence,
         Watchdog!Tolerated, WatchdogP!Tolerated,
         Watchdog!Longest, WatchdogP!Longest,
         Watchdog!Patience, WatchdogP!Patience,
         Watchdog!Works, WatchdogP!Works,
         Watchdog!AllWork, WatchdogP!AllWork,
         Watchdog!Booted, WatchdogP!Booted,
         Watchdog!Kick, WatchdogP!Kick,
         Watchdog!Hang, WatchdogP!Hang,
         Watchdog!InGrace, WatchdogP!InGrace,
         Watchdog!Stale, WatchdogP!Stale,
         Watchdog!HeartbeatFault, WatchdogP!HeartbeatFault,
         Watchdog!Healthy, WatchdogP!Healthy,
         Watchdog!Ready, WatchdogP!Ready,
         Watchdog!MayFeed, WatchdogP!MayFeed,
         Watchdog!Fed, WatchdogP!Fed,
         Watchdog!Supervise, WatchdogP!Supervise,
         Watchdog!InTime, WatchdogP!InTime,
         Watchdog!Aged, WatchdogP!Aged,
         Watchdog!Tick, WatchdogP!Tick,
         Watchdog!Reset, WatchdogP!Reset

(* The same of the ring.                                                   *)
LEMMA RingReady == RingP!RingConstants
  BY RingAssumption DEF RingP!RingConstants

(* The ring of the system is the one the proofs are about.                 *)
LEMMA RingIsSame ==
  /\ Ring!Init <=> RingP!Init
  /\ [Ring!Next]_ringVars <=> [RingP!Next]_(RingP!vars)
  /\ Ring!DeliversInOrder <=> RingP!DeliversInOrder
  /\ Ring!DropsMeanFull <=> RingP!DropsMeanFull
  /\ Ring!LossesAreRecorded <=> RingP!LossesAreRecorded
  /\ Ring!CycleServesWaiting <=> RingP!CycleServesWaiting
  /\ Ring!TypeOK <=> RingP!TypeOK
  BY DEF Ring!Init, RingP!Init, ringVars, RingP!vars, Ring!Next, RingP!Next,
         Ring!DeliversInOrder, RingP!DeliversInOrder,
         Ring!DropsMeanFull, RingP!DropsMeanFull,
         Ring!LossesAreRecorded, RingP!LossesAreRecorded,
         Ring!CycleServesWaiting, RingP!CycleServesWaiting,
         Ring!TypeOK, RingP!TypeOK,
         Ring!Halves, RingP!Halves, Ring!FrameNames, RingP!FrameNames,
         Ring!Frames, RingP!Frames, Ring!Whole, RingP!Whole,
         Ring!Slots, RingP!Slots, Ring!QueueNext, RingP!QueueNext,
         Ring!QueueCount, RingP!QueueCount, Ring!Full, RingP!Full,
         Ring!Filled, RingP!Filled, Ring!Arrive, RingP!Arrive,
         Ring!Enqueue, RingP!Enqueue, Ring!Counted, RingP!Counted,
         Ring!Drop, RingP!Drop,
         Ring!LoseInHardware, RingP!LoseInHardware,
         Ring!BeginCycle, RingP!BeginCycle, Ring!Settled, RingP!Settled,
         Ring!RecordRxLoss, RingP!RecordRxLoss,
         Ring!MayTake, RingP!MayTake, Ring!Look, RingP!Look,
         Ring!EndCycle, RingP!EndCycle, Ring!CopyPart, RingP!CopyPart,
         Ring!Advance, RingP!Advance

(* The invariants of the two hold in the system.                           *)
LEMMA LiftedInvariants ==
  SubsystemsSpec => [](WatchdogP!Inv /\ RingP!Inv)
  <1>1. SubsystemsInit => WatchdogP!Inv /\ RingP!Inv
    BY WatchdogReady, WatchdogIsSame, WatchdogP!InitInv,
       RingReady, RingIsSame, RingP!InitInv DEF SubsystemsInit
  <1>2. [SubsystemsNext]_allVars =>
          [Watchdog!Next]_watchdogVars /\ [Ring!Next]_ringVars
    BY DEF SubsystemsNext, allVars, watchdogVars, ringVars
  <1>3. WatchdogP!Inv /\ RingP!Inv /\ [SubsystemsNext]_allVars =>
          (WatchdogP!Inv /\ RingP!Inv)'
    BY <1>2, WatchdogReady, WatchdogIsSame, WatchdogP!NextInv,
       RingReady, RingIsSame, RingP!NextInv
  <1> QED BY <1>1, <1>3, PTL DEF SubsystemsSpec

(* A silent task loses the permission within its timeout, or the grace if  *)
(* it never kicked, and a supervisor's period; what stays hung has the     *)
(* processor reset; a system that works is not: for every set of tasks,    *)
(* their timeouts, the grace, the supervisor's period and the watchdog's   *)
(* time (app.c 246-298, error_task.c 268-293, ams_safety.c 910-985).       *)
THEOREM WatchdogSoundness == SubsystemsSpec => WatchdogIsSound
  <1>1. WatchdogP!Inv =>
          /\ Watchdog!PermitIsAlive /\ Watchdog!HungIsReset
          /\ Watchdog!ResetIsEarned
    BY WatchdogReady, WatchdogIsSame, WatchdogP!PermitSound,
       WatchdogP!HangSound, WatchdogP!ResetSound
  <1>2. WatchdogP!Inv' =>
          Watchdog!PermitIsAlive' /\ Watchdog!HungIsReset'
    BY <1>1, PTL
  <1>3. /\ WatchdogP!Inv /\ RingP!Inv
        /\ (WatchdogP!Inv /\ RingP!Inv)'
        /\ [SubsystemsNext]_allVars
        => [unit = "watchdog" =>
              /\ Watchdog!PermitIsAlive'
              /\ Watchdog!HungIsReset'
              /\ Watchdog!ResetIsEarned]_allVars
    BY <1>1, <1>2
  <1> QED BY <1>3, LiftedInvariants, PTL DEF SubsystemsSpec, WatchdogIsSound

-----------------------------------------------------------------------------
(* The locks.                                                              *)

(* A task between the mutex and its record holds the mutex; what a task    *)
(* waits for it may want.                                                  *)
LockOrdered(t) ==
  /\ at[t] \in {"record", "release"} => mutex.holder = t
  /\ at[t] \in {"want", "record", "release"} =>
       t \in {"adbms", "cli"} /\ window # t
  /\ at[t] = "want" => Locks!Held(t) < MaxNest
  /\ at[t] = "want window" => window # t

(* One less is recorded while the holder is between the two.               *)
Unsettled ==
  mutex.holder # "none" /\ at[mutex.holder] \in {"record", "release"}

RecordAgrees ==
  /\ (mutex.holder = "none") <=> (mutex.count = 0)
  /\ book.depth = mutex.count - (IF Unsettled THEN 1 ELSE 0)
  /\ book.owner = IF book.depth = 0 THEN "none" ELSE mutex.holder

LocksInv ==
  /\ Locks!TypeOK
  /\ panic = "none" =>
       (\A t \in Locks!Users : LockOrdered(t)) /\ RecordAgrees
  /\ panic \in {"none", "timeout"}

(* The counts of the locks are numbers.                                    *)
LEMMA LockCounts ==
  ASSUME Locks!TypeOK
  PROVE  /\ mutex.count \in Int /\ 0 <= mutex.count /\ mutex.count <= MaxNest
         /\ book.depth \in Int /\ 0 <= book.depth /\ book.depth <= MaxNest
  <1>1. mutex.count \in 0 .. MaxNest /\ book.depth \in 0 .. MaxNest
    BY DEF Locks!TypeOK
  <1> QED BY <1>1, LocksAssumption

(* The parties of the locks are tasks.                                     *)
LEMMA LockParties ==
  ASSUME Locks!TypeOK
  PROVE  /\ mutex.holder \in {"adbms", "cli", "none"}
         /\ book.owner \in {"adbms", "cli", "none"}
         /\ at \in [Locks!Users ->
              {"run", "want", "record", "release", "want window"}]
         /\ window \in Locks!Users \cup {"none"}
  BY DEF Locks!TypeOK, Locks!BusTasks, Locks!None

(* Taking the mutex keeps the invariant of the locks.                      *)
LEMMA AcquireInv ==
  ASSUME LocksInv, NEW t \in Locks!BusTasks, Locks!Acquire(t)
  PROVE  LocksInv'
  <1>t. t \in Locks!Users /\ t \in {"adbms", "cli"} /\ t # "none"
    BY DEF Locks!BusTasks, Locks!Users
  <1>y. Locks!TypeOK
    BY DEF LocksInv
  <1>1. /\ panic = "none" /\ panic' = "none" /\ at[t] = "want"
        /\ at' = [at EXCEPT ![t] = "record"]
        /\ mutex' = [holder |-> t, count |-> mutex.count + 1]
        /\ mutex.holder \in {"none", t}
        /\ book' = book /\ window' = window
    BY DEF Locks!Acquire, Locks!Goes, Locks!None
  <1>2. /\ \A u \in Locks!Users : LockOrdered(u)
        /\ RecordAgrees
    BY <1>1 DEF LocksInv
  <1>3. mutex.count < MaxNest /\ window # t
    <2>1. LockOrdered(t)
      BY <1>2, <1>t
    <2>2. Locks!Held(t) < MaxNest /\ window # t
      BY <2>1, <1>1 DEF LockOrdered
    <2>3. mutex.count = Locks!Held(t)
      <3>1. CASE mutex.holder = t
        BY <3>1 DEF Locks!Held
      <3>2. CASE mutex.holder = "none"
        BY <3>2, <1>t, <1>2 DEF Locks!Held, RecordAgrees
      <3> QED BY <3>1, <3>2, <1>1
    <2> QED BY <2>2, <2>3
  <1>4. at'[t] = "record" /\ \A u \in Locks!Users \ {t} : at'[u] = at[u]
    BY <1>1, <1>t, LockParties, <1>y
  <1>5. Locks!TypeOK'
    <2>1. mutex' \in [holder : Locks!BusTasks \cup {"none"},
                      count : 0 .. MaxNest]
      <3>1. mutex.count + 1 \in 0 .. MaxNest
        BY <1>3, LockCounts, <1>y, LocksAssumption
      <3> QED BY <3>1, <1>1
    <2>2. at' \in [Locks!Users ->
             {"run", "want", "record", "release", "want window"}]
      BY <1>1, LockParties, <1>y
    <2> QED BY <2>1, <2>2, <1>1, <1>y DEF Locks!TypeOK, Locks!None
  <1>6. ASSUME NEW u \in Locks!Users PROVE LockOrdered(u)'
    <2>1. CASE u = t
      BY <2>1, <1>1, <1>3, <1>4, <1>t DEF LockOrdered
    <2>2. CASE u # t
      <3>1. at'[u] = at[u] /\ LockOrdered(u)
        BY <2>2, <1>2, <1>4
      <3>2. (mutex.holder # u /\ mutex'.holder # u) \/ u = "none"
        BY <2>2, <1>1
      <3>3. u # "none"
        BY DEF Locks!Users
      <3> QED BY <3>1, <3>2, <3>3, <1>1 DEF LockOrdered, Locks!Held
    <2> QED BY <2>1, <2>2
  <1>7. RecordAgrees'
    <2>1. ~Unsettled
      BY <1>1, <1>t DEF Unsettled
    <2>2. Unsettled'
      BY <1>1, <1>4, <1>t DEF Unsettled
    <2>3. mutex'.count = mutex.count + 1 /\ mutex'.holder = t
      BY <1>1
    <2>4. book.depth = mutex.count
      <3> HIDE DEF Unsettled
      <3>1. book.depth = mutex.count - 0
        BY <1>2, <2>1 DEF RecordAgrees
      <3> QED BY <3>1, <1>y, LockCounts
    <2>5. book.owner = IF book.depth = 0 THEN "none" ELSE t
      BY <1>1, <1>2, <2>4 DEF RecordAgrees
    <2>6. /\ book'.depth = mutex'.count - 1
          /\ mutex'.count # 0
          /\ book'.owner = IF book'.depth = 0 THEN "none" ELSE mutex'.holder
      <3>1. mutex'.count # 0 /\ mutex'.count - 1 = mutex.count
        BY <2>3, <1>y, LockCounts
      <3> QED BY <3>1, <2>3, <2>4, <2>5, <1>1
    <2> QED BY <2>2, <2>3, <2>6, <1>t DEF RecordAgrees
  <1> QED BY <1>1, <1>5, <1>6, <1>7 DEF LocksInv

(* Recording keeps the invariant of the locks: only the holder can be      *)
(* recorded, so that it is never refused.                                  *)
LEMMA RecordInv ==
  ASSUME LocksInv, NEW t \in Locks!BusTasks, Locks!Record(t)
  PROVE  LocksInv'
  <1>t. t \in Locks!Users /\ t \in {"adbms", "cli"} /\ t # "none"
    BY DEF Locks!BusTasks, Locks!Users
  <1>y. Locks!TypeOK
    BY DEF LocksInv
  <1>1. /\ panic = "none" /\ at[t] = "record"
        /\ at' = [at EXCEPT ![t] = "run"]
        /\ mutex' = mutex /\ window' = window
    BY DEF Locks!Record, Locks!Goes, Locks!None
  <1>2. (\A u \in Locks!Users : LockOrdered(u)) /\ RecordAgrees
    BY <1>1 DEF LocksInv
  <1>3. mutex.holder = t /\ LockOrdered(t)
    BY <1>1, <1>2, <1>t DEF LockOrdered
  <1>4. at'[t] = "run" /\ \A u \in Locks!Users \ {t} : at'[u] = at[u]
    BY <1>1, <1>t, LockParties, <1>y
  <1>5. Unsettled /\ ~Unsettled'
    BY <1>1, <1>3, <1>4, <1>t DEF Unsettled
  <1>6. /\ book.depth = mutex.count - 1
        /\ book.owner = IF book.depth = 0 THEN "none" ELSE t
        /\ mutex.count # 0
    BY <1>2, <1>3, <1>5, <1>t DEF RecordAgrees
  <1>7. panic' = "none" /\ book' = [owner |-> t, depth |-> mutex.count]
    <2>1. CASE book.depth = 0
      <3>1. mutex.count = 1
        BY <2>1, <1>6, <1>y, LockCounts
      <3> QED BY <2>1, <3>1, <1>1 DEF Locks!Record
    <2>2. CASE book.depth # 0
      <3>1. book.owner = t
        BY <2>2, <1>6
      <3>2. book' = [book EXCEPT !.depth = @ + 1] /\ panic' = panic
        BY <2>2, <3>1 DEF Locks!Record
      <3>3. book = [owner |-> book.owner, depth |-> book.depth]
        BY <1>y DEF Locks!TypeOK
      <3>4. book.depth + 1 = mutex.count
        BY <1>6, <1>y, LockCounts
      <3>5. book' = [owner |-> book.owner, depth |-> book.depth + 1]
        BY <3>2, <3>3
      <3> QED BY <3>1, <3>2, <3>4, <3>5, <1>1
    <2> QED BY <2>1, <2>2
  <1>8. Locks!TypeOK'
    <2>1. mutex.count \in 0 .. MaxNest
      BY <1>y DEF Locks!TypeOK
    <2>2. book' \in [owner : Locks!BusTasks \cup {"none"},
                     depth : 0 .. MaxNest]
      BY <2>1, <1>7
    <2>3. at' \in [Locks!Users ->
             {"run", "want", "record", "release", "want window"}]
      BY <1>1, LockParties, <1>y
    <2> QED BY <2>2, <2>3, <1>1, <1>7, <1>y DEF Locks!TypeOK, Locks!None
  <1>9. ASSUME NEW u \in Locks!Users PROVE LockOrdered(u)'
    <2>1. CASE u = t
      BY <2>1, <1>4 DEF LockOrdered
    <2>2. CASE u # t
      BY <2>2, <1>1, <1>2, <1>4 DEF LockOrdered, Locks!Held
    <2> QED BY <2>1, <2>2
  <1>10. RecordAgrees'
    <2>1. /\ book'.depth = mutex'.count - 0
          /\ book'.depth # 0 /\ book'.owner = t
      BY <1>1, <1>6, <1>7, <1>y, LockCounts
    <2> QED BY <2>1, <1>1, <1>3, <1>5, <1>6, <1>t DEF RecordAgrees
  <1> QED BY <1>7, <1>8, <1>9, <1>10 DEF LocksInv

(* Settling the record keeps the invariant of the locks.                   *)
LEMMA UnrecordInv ==
  ASSUME LocksInv, NEW t \in Locks!BusTasks, Locks!Unrecord(t)
  PROVE  LocksInv'
  <1>t. t \in Locks!Users /\ t \in {"adbms", "cli"} /\ t # "none"
    BY DEF Locks!BusTasks, Locks!Users
  <1>y. Locks!TypeOK
    BY DEF LocksInv
  <1>1. /\ panic = "none" /\ at[t] = "run"
        /\ at' = [at EXCEPT ![t] = "release"]
        /\ mutex' = mutex /\ window' = window /\ window # t
        /\ Locks!Held(t) > 0
    BY DEF Locks!Unrecord, Locks!Goes, Locks!None
  <1>2. (\A u \in Locks!Users : LockOrdered(u)) /\ RecordAgrees
    BY <1>1 DEF LocksInv
  <1>3. mutex.holder = t /\ mutex.count > 0
    BY <1>1 DEF Locks!Held
  <1>4. at'[t] = "release" /\ \A u \in Locks!Users \ {t} : at'[u] = at[u]
    BY <1>1, <1>t, LockParties, <1>y
  <1>5. ~Unsettled /\ Unsettled'
    BY <1>1, <1>3, <1>4, <1>t DEF Unsettled
  <1>6. book.depth = mutex.count /\ book.owner = t /\ book.depth # 0
    <2>1. book.depth = mutex.count - 0
      BY <1>2, <1>5 DEF RecordAgrees
    <2>2. book.depth = mutex.count /\ book.depth # 0
      BY <2>1, <1>3, <1>y, LockCounts
    <2> QED BY <2>2, <1>2, <1>3 DEF RecordAgrees
  <1>7. /\ panic' = "none"
        /\ book' = [owner |-> IF mutex.count = 1 THEN "none" ELSE t,
                    depth |-> mutex.count - 1]
    BY <1>6, <1>1 DEF Locks!Unrecord, Locks!Unrecorded, Locks!None
  <1>8. Locks!TypeOK'
    <2>1. mutex.count - 1 \in 0 .. MaxNest
      BY <1>3, <1>y, LockCounts, LocksAssumption
    <2>2. book' \in [owner : Locks!BusTasks \cup {"none"},
                     depth : 0 .. MaxNest]
      BY <2>1, <1>7
    <2>3. at' \in [Locks!Users ->
             {"run", "want", "record", "release", "want window"}]
      BY <1>1, LockParties, <1>y
    <2> QED BY <2>2, <2>3, <1>1, <1>7, <1>y DEF Locks!TypeOK, Locks!None
  <1>9. ASSUME NEW u \in Locks!Users PROVE LockOrdered(u)'
    <2>1. CASE u = t
      BY <2>1, <1>1, <1>3, <1>4, <1>t DEF LockOrdered
    <2>2. CASE u # t
      BY <2>2, <1>1, <1>2, <1>4 DEF LockOrdered, Locks!Held
    <2> QED BY <2>1, <2>2
  <1>10. RecordAgrees'
    <2>1. book'.depth = 0 <=> mutex.count = 1
      BY <1>7, <1>y, LockCounts
    <2>2. /\ book'.depth = mutex'.count - 1
          /\ book'.owner = IF book'.depth = 0 THEN "none" ELSE t
      BY <2>1, <1>1, <1>7
    <2> QED BY <2>2, <1>1, <1>2, <1>3, <1>5 DEF RecordAgrees
  <1> QED BY <1>7, <1>8, <1>9, <1>10 DEF LocksInv

(* Giving the mutex back keeps the invariant of the locks.                 *)
LEMMA ReleaseInv ==
  ASSUME LocksInv, NEW t \in Locks!BusTasks, Locks!Release(t)
  PROVE  LocksInv'
  <1>t. t \in Locks!Users /\ t \in {"adbms", "cli"} /\ t # "none"
    BY DEF Locks!BusTasks, Locks!Users
  <1>y. Locks!TypeOK
    BY DEF LocksInv
  <1>1. /\ panic = "none" /\ at[t] = "release"
        /\ at' = [at EXCEPT ![t] = "run"]
        /\ book' = book /\ window' = window
    BY DEF Locks!Release, Locks!Goes, Locks!None
  <1>2. (\A u \in Locks!Users : LockOrdered(u)) /\ RecordAgrees
    BY <1>1 DEF LocksInv
  <1>3. mutex.holder = t
    BY <1>1, <1>2, <1>t DEF LockOrdered
  <1>4. at'[t] = "run" /\ \A u \in Locks!Users \ {t} : at'[u] = at[u]
    BY <1>1, <1>t, LockParties, <1>y
  <1>5. Unsettled /\ ~Unsettled'
    <2>1. \A u \in Locks!Users \ {t} : at'[u] \notin {"record", "release"}
      BY <1>2, <1>3, <1>4 DEF LockOrdered
    <2>2. mutex'.holder \in {"none", t}
      <3>1. CASE mutex.count = 1
        BY <3>1, <1>3 DEF Locks!Release, Locks!None
      <3>2. CASE mutex.count # 1
        <4>1. mutex' = [mutex EXCEPT !.count = @ - 1]
          BY <3>2, <1>3 DEF Locks!Release
        <4>2. mutex'.holder = mutex.holder
          BY <4>1, <1>y DEF Locks!TypeOK
        <4> QED BY <4>2, <1>3
      <3> QED BY <3>1, <3>2
    <2> QED BY <2>1, <2>2, <1>1, <1>3, <1>4, <1>t DEF Unsettled
  <1>6. /\ book.depth = mutex.count - 1
        /\ book.owner = IF book.depth = 0 THEN "none" ELSE t
        /\ mutex.count # 0
    BY <1>2, <1>3, <1>5, <1>t DEF RecordAgrees
  <1>7. /\ panic' = "none"
        /\ mutex' = [holder |-> IF mutex.count = 1 THEN "none" ELSE t,
                     count |-> mutex.count - 1]
    <2>1. mutex = [holder |-> mutex.holder, count |-> mutex.count]
      BY <1>y DEF Locks!TypeOK
    <2>2. CASE mutex.count = 1
      BY <2>2, <1>1, <1>3 DEF Locks!Release, Locks!None
    <2>3. CASE mutex.count # 1
      <3>1. mutex' = [mutex EXCEPT !.count = @ - 1] /\ panic' = panic
        BY <2>3, <1>3 DEF Locks!Release
      <3>2. mutex' = [holder |-> mutex.holder, count |-> mutex.count - 1]
        BY <2>1, <3>1
      <3> QED BY <3>1, <3>2, <2>3, <1>1, <1>3
    <2> QED BY <2>2, <2>3
  <1>8. Locks!TypeOK'
    <2>1. mutex.count - 1 \in 0 .. MaxNest
      BY <1>6, <1>y, LockCounts, LocksAssumption
    <2>2. mutex' \in [holder : Locks!BusTasks \cup {"none"},
                      count : 0 .. MaxNest]
      BY <2>1, <1>7
    <2>3. at' \in [Locks!Users ->
             {"run", "want", "record", "release", "want window"}]
      BY <1>1, LockParties, <1>y
    <2> QED BY <2>2, <2>3, <1>1, <1>7, <1>y DEF Locks!TypeOK, Locks!None
  <1>9. ASSUME NEW u \in Locks!Users PROVE LockOrdered(u)'
    <2>1. CASE u = t
      BY <2>1, <1>4 DEF LockOrdered
    <2>2. CASE u # t
      <3>1. at'[u] = at[u] /\ LockOrdered(u)
        BY <2>2, <1>2, <1>4
      <3>2. mutex.holder # u /\ mutex'.holder # u
        <4>1. u # "none"
          BY DEF Locks!Users
        <4> QED BY <4>1, <2>2, <1>3, <1>7
      <3> QED BY <3>1, <3>2, <1>1 DEF LockOrdered, Locks!Held
    <2> QED BY <2>1, <2>2
  <1>10. RecordAgrees'
    <2>1. /\ mutex'.count = mutex.count - 1
          /\ mutex'.holder = IF mutex.count = 1 THEN "none" ELSE t
      BY <1>7
    <2>2. mutex'.count = 0 <=> mutex.count = 1
      BY <2>1, <1>y, LockCounts
    <2>3. book'.depth = mutex'.count - 0
      BY <2>1, <1>1, <1>6, <1>y, LockCounts
    <2>4. book'.owner = IF book'.depth = 0 THEN "none" ELSE mutex'.holder
      <3>1. book'.depth = 0 <=> mutex.count = 1
        BY <1>1, <1>6, <1>y, LockCounts
      <3> QED BY <3>1, <2>1, <1>1, <1>6
    <2> QED BY <2>1, <2>2, <2>3, <2>4, <1>5, <1>t DEF RecordAgrees
  <1> QED BY <1>7, <1>8, <1>9, <1>10 DEF LocksInv

(* The other steps of the locks keep the invariant.                        *)
LEMMA WaitInv ==
  ASSUME LocksInv, NEW t \in Locks!Users,
         \/ t \in Locks!BusTasks /\ Locks!Want(t)
         \/ Locks!WantWindow(t)
         \/ Locks!TakeWindow(t)
         \/ Locks!LeaveWindow(t)
  PROVE  LocksInv'
  <1>y. Locks!TypeOK
    BY DEF LocksInv
  <1>1. PICK x \in {"run", "want", "want window"} :
          /\ panic = "none" /\ panic' = "none"
          /\ at[t] \in {"run", "want window"}
          /\ at' = [at EXCEPT ![t] = x]
          /\ mutex' = mutex /\ book' = book
          /\ x = "want" => /\ t \in Locks!BusTasks /\ window # t
                           /\ Locks!Held(t) < MaxNest
          /\ x = "want window" => window # t
          /\ \/ window' = window
             \/ at[t] \in {"run", "want window"} /\ x = "run"
                  /\ window' \in {t, "none"}
    BY DEF Locks!Want, Locks!MayWant, Locks!WantWindow, Locks!TakeWindow,
           Locks!LeaveWindow, Locks!Goes, Locks!None
  <1>2. (\A u \in Locks!Users : LockOrdered(u)) /\ RecordAgrees
    BY <1>1 DEF LocksInv
  <1>4. at'[t] = x /\ \A u \in Locks!Users \ {t} : at'[u] = at[u]
    BY <1>1, LockParties, <1>y
  <1>5. Unsettled <=> Unsettled'
    <2>1. mutex.holder \in Locks!Users \/ mutex.holder = "none"
      BY LockParties, <1>y DEF Locks!Users
    <2> QED BY <2>1, <1>1, <1>4 DEF Unsettled
  <1>8. Locks!TypeOK'
    <2>1. at' \in [Locks!Users ->
             {"run", "want", "record", "release", "want window"}]
      BY <1>1, LockParties, <1>y
    <2>2. window' \in Locks!Users \cup {"none"}
      BY <1>1, LockParties, <1>y
    <2> QED BY <2>1, <2>2, <1>1, <1>y DEF Locks!TypeOK, Locks!None
  <1>9. ASSUME NEW u \in Locks!Users PROVE LockOrdered(u)'
    <2>1. CASE u = t
      <3>1. x # "run" => window' = window
        BY <1>1
      <3> QED BY <2>1, <3>1, <1>1, <1>4
              DEF LockOrdered, Locks!Held, Locks!BusTasks
    <2>2. CASE u # t
      <3>1. u # "none"
        BY DEF Locks!Users
      <3>2. at'[u] = at[u] /\ LockOrdered(u)
        BY <2>2, <1>2, <1>4
      <3>3. window # u => window' # u
        BY <3>1, <2>2, <1>1
      <3> QED BY <3>2, <3>3, <1>1 DEF LockOrdered, Locks!Held
    <2> QED BY <2>1, <2>2
  <1>10. RecordAgrees'
    BY <1>1, <1>2, <1>5 DEF RecordAgrees
  <1> QED BY <1>1, <1>8, <1>9, <1>10 DEF LocksInv

(* Every step of the locks keeps the invariant.                            *)
LEMMA LocksNext ==
  ASSUME LocksInv, [Locks!Next]_lockVars PROVE LocksInv'
  <1>1. ASSUME NEW t \in Locks!Users, Locks!TimeOut(t) PROVE LocksInv'
    <2>1. Locks!TypeOK'
      BY <1>1 DEF LocksInv, Locks!TypeOK, Locks!TimeOut, Locks!None
    <2>2. panic' = "timeout"
      BY <1>1 DEF Locks!TimeOut
    <2> QED BY <2>1, <2>2 DEF LocksInv
  <1>2. CASE UNCHANGED lockVars
    BY <1>2 DEF lockVars, LocksInv, Locks!TypeOK, LockOrdered, RecordAgrees,
                Unsettled, Locks!Held
  <1>3. CASE Locks!Next
    BY <1>3, <1>1, AcquireInv, RecordInv, UnrecordInv, ReleaseInv, WaitInv
       DEF Locks!Next
  <1> QED BY <1>2, <1>3

(* The locks begin sound.                                                  *)
LEMMA LocksInit == Locks!Init => LocksInv
  <1> SUFFICES ASSUME Locks!Init PROVE LocksInv
    OBVIOUS
  <1>1. 0 \in 0 .. MaxNest
    BY LocksAssumption
  <1>2. Locks!TypeOK
    BY <1>1 DEF Locks!Init, Locks!TypeOK, Locks!None, Locks!Users,
                Locks!BusTasks
  <1>3. \A t \in Locks!Users : LockOrdered(t)
    BY DEF Locks!Init, LockOrdered, Locks!None
  <1>4. RecordAgrees
    BY DEF Locks!Init, RecordAgrees, Unsettled, Locks!None
  <1> QED BY <1>2, <1>3, <1>4 DEF LocksInv, Locks!Init, Locks!None

(* Beside a settled mutex the record is equal to it, beside an unsettled   *)
(* one it says one less.                                                   *)
LEMMA LagIsUnsettled ==
  ASSUME LocksInv, panic = "none"
  PROVE  Locks!RecordIsTheMutex
  <1> DEFINE Between ==
        {t \in Locks!BusTasks : at[t] \in {"record", "release"}}
  <1>1. RecordAgrees /\ \A t \in Locks!Users : LockOrdered(t)
    BY DEF LocksInv
  <1>0. \A S : Locks!Cardinality(S) = Cardinality(S)
    BY DEF Cardinality, Locks!Cardinality
  <1>2. Cardinality(Between) = IF Unsettled THEN 1 ELSE 0
    <2>1. CASE Unsettled
      <3>1. mutex.holder \in Locks!BusTasks
        BY <2>1, LockParties DEF LocksInv, Unsettled, Locks!BusTasks
      <3>2. Between = {mutex.holder}
        BY <3>1, <2>1, <1>1 DEF LockOrdered, Unsettled, Locks!BusTasks,
                                Locks!Users
      <3> QED BY <3>2, <2>1, FS_Singleton
    <2>2. CASE ~Unsettled
      <3>1. Between = {}
        BY <2>2, <1>1 DEF LockOrdered, Unsettled, Locks!BusTasks, Locks!Users
      <3> QED BY <3>1, <2>2, FS_EmptySet
    <2> QED BY <2>1, <2>2
  <1> HIDE DEF Between
  <1>3. /\ Locks!Cardinality(Between) <= 1
        /\ book.depth = mutex.count - Locks!Cardinality(Between)
        /\ book.owner = IF book.depth = 0 THEN "none" ELSE mutex.holder
    BY <1>0, <1>1, <1>2 DEF RecordAgrees
  <1> QED BY <1>3, Zenon DEF Locks!RecordIsTheMutex, Locks!None, Between

(* Whoever holds the window does not wait for the bus.                     *)
LEMMA WindowHolderIsFree ==
  ASSUME LocksInv, panic = "none",
         NEW S \in SUBSET Locks!Users, S # {}
  PROVE  \E t \in S : Locks!WaitsFor(t) \notin S \ {t}
  <1>1. \A t \in Locks!Users : LockOrdered(t)
    BY DEF LocksInv
  <1> SUFFICES ASSUME \A t \in S : Locks!WaitsFor(t) \in S \ {t}
               PROVE  FALSE
    OBVIOUS
  <1>2. "none" \notin S
    BY DEF Locks!Users
  <1>3. \A t \in S : at[t] \in {"want", "want window"}
    BY <1>2 DEF Locks!WaitsFor, Locks!None
  <1>4. ASSUME NEW t \in S, at[t] = "want window" PROVE FALSE
    <2>1. window \in S
      BY <1>4 DEF Locks!WaitsFor
    <2>2. at[window] # "want window" /\ at[window] # "want"
      BY <2>1, <1>1 DEF LockOrdered
    <2> QED BY <2>1, <2>2, <1>3
  <1>5. PICK t \in S : at[t] = "want"
    BY <1>3, <1>4
  <1>6. mutex.holder \in S
    BY <1>5 DEF Locks!WaitsFor
  <1>7. at[mutex.holder] = "want"
    BY <1>6, <1>3, <1>4
  <1> QED BY <1>6, <1>7 DEF Locks!WaitsFor

(* The invariant is enough for what the run checks.                        *)
LEMMA LocksSound == LocksInv => LocksAreSound
  <1> SUFFICES ASSUME LocksInv PROVE LocksAreSound
    OBVIOUS
  <1>1. Locks!RecordIsTheMutex
    BY LagIsUnsettled DEF Locks!RecordIsTheMutex, Locks!None
  <1>2. Locks!OnlyTimeoutsPanic
    BY DEF LocksInv, Locks!OnlyTimeoutsPanic, Locks!None
  <1>3. Locks!NoCircularWait
    BY WindowHolderIsFree DEF Locks!NoCircularWait, Locks!None
  <1> QED BY <1>1, <1>2, <1>3 DEF LocksAreSound

(* A step of the system is a step of the locks or leaves them alone.       *)
LEMMA LocksStep == [SubsystemsNext]_allVars => [Locks!Next]_lockVars
  BY DEF SubsystemsNext, allVars, lockVars

(* The invariant of the locks holds in the system.                         *)
LEMMA LocksAlways == SubsystemsSpec => []LocksInv
  <1>1. SubsystemsInit => LocksInv
    BY LocksInit DEF SubsystemsInit
  <1>2. LocksInv /\ [SubsystemsNext]_allVars => LocksInv'
    BY LocksStep, LocksNext
  <1> QED BY <1>1, <1>2, PTL DEF SubsystemsSpec

(* The record beside the bus mutex agrees with it whenever a task looks,   *)
(* tasks that pair their calls end in a panic only by a wait that took too *)
(* long, and no set of tasks waits within itself, at every nesting depth   *)
(* (app.c 297-427, adbms_task.c 1492).                                     *)
THEOREM LocksSoundness == SubsystemsSpec => []LocksAreSound
  BY LocksAlways, LocksSound, PTL

-----------------------------------------------------------------------------
(* The fault policies.                                                     *)

Seen ==
  [missed : 0 .. Grace, hard : BOOLEAN,
   load : Policies!Reasons, loads : Nat, overload : BOOLEAN,
   silent : 0 .. SensorConfirm,
   heat : Policies!Hot \cup {"NONE"}, heats : 0 .. HotConfirm,
   overheat : BOOLEAN]

(* A measurement that counts is as old as the failures since.              *)
VoltageAgrees ==
  /\ voltage.valid => /\ seen.missed = voltage.streak
                      /\ voltage.streak < Grace
                      /\ seen.missed > 0 => voltage.charge_stop
  /\ ~voltage.valid => voltage.read_fault /\ ~voltage.pending
  /\ seen.hard => voltage.latched

(* Both count the run, up to different ceilings that no confirmation       *)
(* reaches.                                                                *)
CurrentAgrees ==
  /\ current.reason = seen.load
  /\ \/ current.pending = seen.loads
     \/ current.pending >= Policies!Longest /\ seen.loads >= Policies!Longest
  /\ current.latched = seen.overload
  /\ current.invalid = seen.silent
  /\ seen.silent >= SensorConfirm => current.sensor_fault

TemperatureAgrees ==
  /\ temperature.reason = seen.heat
  /\ temperature.pending = seen.heats
  /\ temperature.latched = seen.overheat

PoliciesInv ==
  /\ Policies!TypeOK /\ seen \in Seen
  /\ VoltageAgrees /\ CurrentAgrees /\ TemperatureAgrees

(* The longest confirmation bounds them all.                               *)
LEMMA LongestConfirm ==
  /\ Policies!Longest \in Nat
  /\ \A f \in Policies!Families, l \in Policies!TripLevels :
       Confirm[f][l] \in Nat /\ Confirm[f][l] <= Policies!Longest
  <1> DEFINE F == Policies!Families
             L == Policies!TripLevels
             S == {Confirm[f][l] : f \in F, l \in L}
             Bounds(n) == \A f \in F, l \in L : Confirm[f][l] <= n
  <1>1. \A f \in F, l \in L : Confirm[f][l] \in Nat
    BY PoliciesAssumption DEF Policies!Families, Policies!TripLevels
  <1>2. ASSUME NEW f \in F
        PROVE  \E m \in L : \A l \in L : Confirm[f][l] <= Confirm[f][m]
    <2>1. /\ Confirm[f]["trip"] \in Nat /\ Confirm[f]["fast"] \in Nat
          /\ Confirm[f]["extreme"] \in Nat
      BY <1>1, <1>2 DEF Policies!TripLevels
    <2> QED BY <2>1 DEF Policies!TripLevels
  <1>3. PICK m \in [F -> L] :
          \A f \in F : \A l \in L : Confirm[f][l] <= Confirm[f][m[f]]
    <2> DEFINE m == [f \in F |-> CHOOSE k \in L :
                       \A l \in L : Confirm[f][l] <= Confirm[f][k]]
    <2>1. \A f \in F : /\ m[f] \in L
                       /\ \A l \in L : Confirm[f][l] <= Confirm[f][m[f]]
      BY <1>2
    <2>2. m \in [F -> L]
      BY <2>1
    <2> QED BY <2>1, <2>2
  <1>4. \E g \in F : \A f \in F : Confirm[f][m[f]] <= Confirm[g][m[g]]
    <2> DEFINE V(f) == Confirm[f][m[f]]
    <2>1. \A f \in F : V(f) \in Nat
      BY <1>1, <1>3
    <2> HIDE DEF V
    <2>2. \E g \in F : \A f \in F : V(f) <= V(g)
      <3>1. /\ V("discharge") \in Nat /\ V("charge") \in Nat
            /\ V("regen") \in Nat /\ V("precharge") \in Nat
        BY <2>1 DEF Policies!Families
      <3> QED BY <3>1 DEF Policies!Families
    <2> QED BY <2>2 DEF V
  <1>5. \E n \in S : Bounds(n)
    <2>1. PICK g \in F : \A f \in F : Confirm[f][m[f]] <= Confirm[g][m[g]]
      BY <1>4
    <2>2. m[g] \in L
      BY <1>3
    <2>3. ASSUME NEW f \in F, NEW l \in L
          PROVE  Confirm[f][l] <= Confirm[g][m[g]]
      <3>1. /\ Confirm[f][l] \in Nat /\ Confirm[f][m[f]] \in Nat
            /\ Confirm[g][m[g]] \in Nat
        BY <1>1, <1>3, <2>2
      <3>2. /\ Confirm[f][l] <= Confirm[f][m[f]]
            /\ Confirm[f][m[f]] <= Confirm[g][m[g]]
        BY <1>3, <2>1
      <3> QED BY <3>1, <3>2
    <2>4. Confirm[g][m[g]] \in S
      BY <2>2
    <2>5. Bounds(Confirm[g][m[g]])
      BY <2>3
    <2> HIDE DEF S, Bounds
    <2> QED BY <2>4, <2>5
  <1>6. Policies!Longest \in S /\ Bounds(Policies!Longest)
    <2>1. Policies!Longest = CHOOSE n \in S : Bounds(n)
      BY DEF Policies!Longest
    <2> HIDE DEF S, Bounds
    <2> QED BY <1>5, <2>1
  <1>7. \A n \in S : n \in Nat
    BY <1>1
  <1> QED BY <1>1, <1>6, <1>7

(* The policies begin in agreement with their history.                     *)
LEMMA PoliciesInit == Policies!Init => PoliciesInv
  <1> SUFFICES ASSUME Policies!Init PROVE PoliciesInv
    OBVIOUS
  <1> USE DEF Policies!Init, Policies!None
  <1>1. /\ 0 \in 0 .. Grace /\ Grace \in 0 .. Grace
        /\ 0 \in 0 .. SensorConfirm /\ 0 \in 0 .. HotConfirm
        /\ 0 \in 0 .. Policies!Longest + 1
        /\ ~(0 >= SensorConfirm)
    BY LongestConfirm, PoliciesAssumption
  <1>2. Policies!TypeOK
    BY <1>1 DEF Policies!TypeOK, Policies!Reasons
  <1>3. seen \in Seen
    BY <1>1 DEF Seen, Policies!Reasons
  <1>4. VoltageAgrees /\ CurrentAgrees /\ TemperatureAgrees
    BY <1>1 DEF VoltageAgrees, CurrentAgrees, TemperatureAgrees
  <1> QED BY <1>2, <1>3, <1>4 DEF PoliciesInv

(* A scan of the voltages keeps the invariant: only a scan that could be   *)
(* read begins the grace.                                                  *)
LEMMA VoltageInv ==
  ASSUME PoliciesInv, NEW read \in Policies!VoltageScans,
         Policies!VoltageScan(read)
  PROVE  PoliciesInv'
  <1>y. /\ voltage \in [valid : BOOLEAN, read_fault : BOOLEAN,
                        pending : BOOLEAN, streak : 0 .. Grace,
                        charge_stop : BOOLEAN, out_of_range : BOOLEAN,
                        latched : BOOLEAN]
        /\ seen \in Seen /\ VoltageAgrees
    BY DEF PoliciesInv, Policies!TypeOK
  <1>1. /\ voltage' = Policies!VoltageUpdate(read)
        /\ current' = current /\ temperature' = temperature
    BY DEF Policies!VoltageScan
  <1>2. PICK n \in 0 .. Grace, h \in BOOLEAN :
          /\ seen' = [seen EXCEPT !.missed = n, !.hard = h]
          /\ h <=> (seen.hard \/ read = "HARD")
          /\ read = "MISSED" => n = Policies!Least(seen.missed + 1, Grace)
          /\ read \in {"HARD", "STOP", "OK"} => n = 0
    <2> DEFINE k == CASE read \in {"NOT_READY", "CORRUPT"} -> Grace
                      [] read = "MISSED" ->
                           Policies!Least(seen.missed + 1, Grace)
                      [] read = "MISSED_TOPOLOGY" -> Grace
                      [] OTHER -> 0
               g == seen.hard \/ read = "HARD"
    <2>2. seen' = [seen EXCEPT !.missed = k, !.hard = g]
      BY DEF Policies!VoltageScan
    <2>3. seen.missed \in 0 .. Grace
      BY <1>y DEF Seen
    <2>4. Policies!Least(seen.missed + 1, Grace) \in 0 .. Grace
      BY <2>3, PoliciesAssumption DEF Policies!Least
    <2>5. k \in 0 .. Grace
      <3>1. 0 \in 0 .. Grace /\ Grace \in 0 .. Grace
        BY PoliciesAssumption
      <3> QED BY <3>1, <2>4
    <2>6. /\ read = "MISSED" => k = Policies!Least(seen.missed + 1, Grace)
          /\ read \in {"HARD", "STOP", "OK"} => k = 0
      OBVIOUS
    <2>7. g \in BOOLEAN
      OBVIOUS
    <2> HIDE DEF k
    <2> QED BY <2>2, <2>5, <2>6, <2>7
  <1>3. voltage' \in [valid : BOOLEAN, read_fault : BOOLEAN,
                      pending : BOOLEAN, streak : 0 .. Grace,
                      charge_stop : BOOLEAN, out_of_range : BOOLEAN,
                      latched : BOOLEAN]
    <2>1. Policies!Least(voltage.streak + 1, Grace) \in 0 .. Grace
      <3>1. voltage.streak \in 0 .. Grace
        BY <1>y
      <3> QED BY <3>1, PoliciesAssumption DEF Policies!Least
    <2>2. 0 \in 0 .. Grace
      BY PoliciesAssumption
    <2>3. CASE read \in {"NOT_READY", "CORRUPT"}
      BY <2>2, <2>3, <1>1, <1>y
         DEF Policies!VoltageUpdate, Policies!VoltageNotReady,
             Policies!VoltageCleared
    <2>4. CASE read \in {"MISSED", "MISSED_TOPOLOGY"}
      <3>1. PICK e \in BOOLEAN : voltage' = Policies!VoltageMissed(e)
        BY <2>4, <1>1 DEF Policies!VoltageUpdate
      <3>2. Policies!InGrace(e) \in BOOLEAN
        BY DEF Policies!InGrace
      <3> QED BY <2>1, <3>1, <3>2, <1>y
              DEF Policies!VoltageMissed, Policies!VoltageCleared
    <2>5. CASE read \in {"HARD", "STOP", "OK"}
      BY <2>2, <2>5, <1>1, <1>y
         DEF Policies!VoltageUpdate, Policies!VoltageRead,
             Policies!VoltageCleared
    <2> QED BY <2>3, <2>4, <2>5 DEF Policies!VoltageScans
  <1>4. seen' \in Seen
    BY <1>y, <1>2 DEF Seen
  <1>5. VoltageAgrees'
    <2>1. seen'.missed = n /\ seen'.hard = h
      BY <1>y, <1>2 DEF Seen
    <2>2. CASE read \in {"NOT_READY", "CORRUPT"}
      <3>1. /\ ~voltage'.valid /\ voltage'.read_fault
            /\ ~voltage'.pending /\ voltage'.latched = voltage.latched
        BY <2>2, <1>1, <1>y
           DEF Policies!VoltageUpdate, Policies!VoltageNotReady,
               Policies!VoltageCleared
      <3> QED BY <3>1, <2>1, <2>2, <1>2, <1>y DEF VoltageAgrees
    <2>3. CASE read = "MISSED_TOPOLOGY"
      <3>1. /\ ~voltage'.valid /\ voltage'.read_fault
            /\ ~voltage'.pending /\ voltage'.latched = voltage.latched
        BY <2>3, <1>1, <1>y
           DEF Policies!VoltageUpdate, Policies!VoltageMissed,
               Policies!VoltageCleared, Policies!InGrace
      <3> QED BY <3>1, <2>1, <2>3, <1>2, <1>y DEF VoltageAgrees
    <2>4. CASE read = "MISSED"
      <3> DEFINE g == Policies!InGrace(TRUE)
      <3>1. /\ voltage'.valid = g /\ voltage'.read_fault
            /\ voltage'.pending = g /\ voltage'.charge_stop = g
            /\ voltage'.latched = voltage.latched
            /\ voltage'.streak = Policies!Least(voltage.streak + 1, Grace)
        BY <2>4, <1>1, <1>y
           DEF Policies!VoltageUpdate, Policies!VoltageMissed,
               Policies!VoltageCleared
      <3>2. seen'.missed = Policies!Least(seen.missed + 1, Grace)
        BY <2>1, <2>4, <1>2
      <3>3. seen'.hard <=> seen.hard
        BY <2>1, <2>4, <1>2
      <3>4. CASE g
        <4>1. /\ seen.missed = voltage.streak
              /\ voltage.streak + 1 < Grace /\ voltage.streak \in Nat
          BY <3>4, <1>y DEF Policies!InGrace, VoltageAgrees
        <4>2. voltage'.streak = voltage.streak + 1
          BY <4>1, <3>1, PoliciesAssumption DEF Policies!Least
        <4>3. seen'.missed = voltage'.streak /\ voltage'.streak < Grace
          BY <4>1, <4>2, <3>1, <3>2
        <4> QED BY <4>3, <3>1, <3>3, <3>4, <1>y DEF VoltageAgrees
      <3>5. CASE ~g
        BY <3>1, <3>3, <3>5, <1>y DEF VoltageAgrees
      <3> QED BY <3>4, <3>5
    <2>5. CASE read \in {"HARD", "STOP", "OK"}
      <3>1. /\ voltage'.valid /\ voltage'.streak = 0
            /\ voltage'.latched <=> (voltage.latched \/ read = "HARD")
        BY <2>5, <1>1, <1>y
           DEF Policies!VoltageUpdate, Policies!VoltageRead,
               Policies!VoltageCleared
      <3>2. seen'.missed = 0 /\ 0 < Grace
        BY <2>1, <2>5, <1>2, PoliciesAssumption
      <3> QED BY <3>1, <3>2, <2>1, <1>2, <1>y DEF VoltageAgrees
    <2> QED BY <2>2, <2>3, <2>4, <2>5 DEF Policies!VoltageScans
  <1>6. CurrentAgrees' /\ TemperatureAgrees'
    BY <1>y, <1>1, <1>2 DEF PoliciesInv, CurrentAgrees, TemperatureAgrees, Seen
  <1>7. Policies!TypeOK'
    BY <1>1, <1>3 DEF PoliciesInv, Policies!TypeOK
  <1> QED BY <1>4, <1>5, <1>6, <1>7 DEF PoliciesInv

CurrentState ==
  [reason : Policies!Reasons, pending : 0 .. Policies!Longest + 1,
   confirmed : BOOLEAN, latched : BOOLEAN,
   invalid : 0 .. SensorConfirm, sensor_fault : BOOLEAN]

(* A sample of the current keeps the invariant: both runs reach a          *)
(* confirmation at the same sample, or both are past it.                   *)
LEMMA CurrentInv ==
  ASSUME PoliciesInv, NEW mode \in Policies!Modes,
         NEW discharging \in BOOLEAN, NEW level \in Policies!Levels,
         Policies!CurrentSample(mode, discharging, level)
  PROVE  PoliciesInv'
  <1> DEFINE family == Policies!Family(mode, discharging)
             r == Policies!Reason(family, level)
             C == Confirm[r[1]][r[2]]
             L == Policies!Longest
  <1>y. /\ current \in CurrentState /\ seen \in Seen /\ CurrentAgrees
    BY DEF PoliciesInv, Policies!TypeOK, CurrentState
  <1>1. voltage' = voltage /\ temperature' = temperature
    BY DEF Policies!CurrentSample
  <1>n. /\ L \in Nat /\ SensorConfirm \in Nat \ {0}
        /\ 0 \in 0 .. L + 1 /\ 0 \in 0 .. SensorConfirm
    BY LongestConfirm, PoliciesAssumption
  <1>2. CASE level \notin Policies!TripLevels
    <2>1. /\ current' = Policies!CurrentInactive
          /\ seen' = Policies!Load(Policies!None)
      BY <1>2 DEF Policies!CurrentSample
    <2>2. current' = [current EXCEPT !.reason = Policies!None, !.pending = 0,
                        !.confirmed = FALSE, !.invalid = 0,
                        !.sensor_fault = FALSE]
      BY <2>1 DEF Policies!CurrentInactive
    <2>3. seen' = [seen EXCEPT !.load = Policies!None, !.loads = 0,
                               !.silent = 0, !.overload = seen.overload]
      BY <2>1, <1>y DEF Policies!Load, Seen
    <2>4. current' \in CurrentState
      BY <2>2, <1>y, <1>n DEF CurrentState, Policies!Reasons
    <2>5. seen' \in Seen
      BY <2>3, <1>y, <1>n DEF Seen, Policies!Reasons
    <2>6. CurrentAgrees'
      BY <2>2, <2>3, <1>y, <1>n DEF CurrentAgrees, CurrentState, Seen
    <2>7. VoltageAgrees' /\ TemperatureAgrees'
      BY <2>3, <1>1, <1>y DEF PoliciesInv, VoltageAgrees, TemperatureAgrees,
                              Seen
    <2>8. Policies!TypeOK'
      BY <2>4, <1>1 DEF PoliciesInv, Policies!TypeOK, CurrentState
    <2> QED BY <2>5, <2>6, <2>7, <2>8 DEF PoliciesInv
  <1>3. CASE level \in Policies!TripLevels
    <2>1. /\ r \in Policies!Reasons /\ r # Policies!None
          /\ C \in Nat /\ C <= L
      <3>1. family \in Policies!Families
        BY DEF Policies!Family, Policies!Families
      <3>2. PICK l \in Policies!TripLevels : r = <<family, l>>
        BY <1>3 DEF Policies!Reason, Policies!TripLevels
      <3>3. r[1] = family /\ r[2] = l
        BY <3>2
      <3>4. r \in Policies!Reasons
        BY <3>1, <3>2 DEF Policies!Reasons
      <3>5. r # Policies!None
        BY <3>1, <3>3 DEF Policies!None, Policies!Families
      <3> HIDE DEF r
      <3>6. C = Confirm[family][l]
        BY <3>3
      <3> QED BY <3>1, <3>4, <3>5, <3>6, LongestConfirm
    <2> DEFINE same == seen.load = r
               p == IF current.reason = r THEN current.pending + 1 ELSE 1
               q == IF same THEN Policies!Least(seen.loads + 1, L) ELSE 1
    <2>2. /\ current' =
               [current EXCEPT
                  !.reason = r, !.pending = Policies!Least(p, L + 1),
                  !.confirmed = current.confirmed \/ p >= C,
                  !.latched = current.latched \/ p >= C,
                  !.invalid = 0, !.sensor_fault = FALSE]
          /\ seen' =
               [seen EXCEPT
                  !.load = r, !.loads = q, !.silent = 0,
                  !.overload = seen.overload \/ q >= C]
      <3>1. /\ current' = Policies!CurrentPending(r)
            /\ seen' = Policies!Load(r)
        BY <1>3 DEF Policies!CurrentSample
      <3> HIDE DEF r
      <3>2. current' =
               [current EXCEPT
                  !.reason = r, !.pending = Policies!Least(p, L + 1),
                  !.confirmed = current.confirmed \/ p >= C,
                  !.latched = current.latched \/ p >= C,
                  !.invalid = 0, !.sensor_fault = FALSE]
        BY <3>1, <1>y DEF Policies!CurrentPending, CurrentState
      <3>3. seen' =
               [seen EXCEPT
                  !.load = r, !.loads = q, !.silent = 0,
                  !.overload = seen.overload \/ q >= C]
        BY <3>1, <2>1, <1>y DEF Policies!Load, Seen
      <3> QED BY <3>2, <3>3
    <2> HIDE DEF r, C
    <2>3. /\ current.pending \in Nat /\ seen.loads \in Nat
          /\ current.latched \in BOOLEAN /\ seen.overload \in BOOLEAN
          /\ current.confirmed \in BOOLEAN
      BY <1>y, <1>n DEF CurrentState, Seen
    <2>4. same <=> current.reason = r
      BY <1>y DEF CurrentAgrees
    <2>5. /\ \/ current.pending = seen.loads
             \/ current.pending >= L /\ seen.loads >= L
          /\ current.latched = seen.overload
      BY <1>y DEF CurrentAgrees
    <2> HIDE DEF same
    <2>6. /\ p \in Nat /\ q \in Nat /\ (p >= C <=> q >= C)
          /\ Policies!Least(p, L + 1) \in 0 .. L + 1
          /\ \/ Policies!Least(p, L + 1) = q
             \/ Policies!Least(p, L + 1) >= L /\ q >= L
      <3> HIDE DEF L
      <3>1. CASE same
        <4>1. /\ p = current.pending + 1
              /\ q = IF seen.loads + 1 < L THEN seen.loads + 1 ELSE L
          BY <3>1, <2>4 DEF Policies!Least
        <4> HIDE DEF p, q
        <4>2. Policies!Least(p, L + 1) = IF p < L + 1 THEN p ELSE L + 1
          BY DEF Policies!Least
        <4> QED BY <4>1, <4>2, <2>1, <2>3, <2>5, <1>n
      <3>2. CASE ~same
        <4>1. p = 1 /\ q = 1
          BY <3>2, <2>4
        <4> HIDE DEF p, q
        <4> QED BY <4>1, <2>1, <1>n DEF Policies!Least
      <3> QED BY <3>1, <3>2
    <2> HIDE DEF p, q
    <2> DEFINE x == p >= C
               z == q >= C
    <2>b. /\ (current.confirmed \/ x) \in BOOLEAN
          /\ (current.latched \/ x) \in BOOLEAN
          /\ (seen.overload \/ z) \in BOOLEAN
          /\ (current.latched \/ x) = (seen.overload \/ z)
      <3>1. x \in BOOLEAN /\ z \in BOOLEAN /\ x = z
        BY <2>6
      <3> HIDE DEF x, z
      <3> QED BY <3>1, <2>5, Zenon
    <2> HIDE DEF x, z
    <2>c. /\ current' =
               [current EXCEPT
                  !.reason = r, !.pending = Policies!Least(p, L + 1),
                  !.confirmed = current.confirmed \/ x,
                  !.latched = current.latched \/ x,
                  !.invalid = 0, !.sensor_fault = FALSE]
          /\ seen' =
               [seen EXCEPT
                  !.load = r, !.loads = q, !.silent = 0,
                  !.overload = seen.overload \/ z]
      BY <2>2 DEF x, z
    <2>7. current' \in CurrentState
      BY <2>1, <2>b, <2>c, <2>6, <1>y, <1>n DEF CurrentState
    <2>8. seen' \in Seen
      <3> DEFINE o == seen.overload \/ z
      <3>1. o \in BOOLEAN
        BY <2>b
      <3>2. q \in Nat /\ 0 \in 0 .. SensorConfirm
        BY <2>6, <1>n
      <3> HIDE DEF o
      <3>3. seen' = [seen EXCEPT !.load = r, !.loads = q, !.silent = 0,
                                 !.overload = o]
        BY <2>c DEF o
      <3> QED BY <2>1, <3>1, <3>2, <3>3, <1>y DEF Seen
    <2>9. CurrentAgrees'
      <3>1. /\ current'.reason = r /\ seen'.load = r
            /\ current'.pending = Policies!Least(p, L + 1)
            /\ seen'.loads = q /\ current'.invalid = 0 /\ seen'.silent = 0
            /\ current'.latched = (current.latched \/ x)
            /\ seen'.overload = (seen.overload \/ z)
        BY <2>c, <1>y DEF CurrentState, Seen
      <3>2. current'.latched = seen'.overload
        BY <3>1, <2>b
      <3>3. ~(0 >= SensorConfirm)
        BY <1>n
      <3> QED BY <3>1, <3>2, <3>3, <2>6 DEF CurrentAgrees
    <2>10. VoltageAgrees' /\ TemperatureAgrees'
      <3>1. /\ seen'.missed = seen.missed /\ seen'.hard = seen.hard
            /\ seen'.heat = seen.heat /\ seen'.heats = seen.heats
            /\ seen'.overheat = seen.overheat
        BY <2>2, <1>y DEF Seen
      <3> QED BY <3>1, <1>1
              DEF PoliciesInv, VoltageAgrees, TemperatureAgrees
    <2>11. Policies!TypeOK'
      BY <2>7, <1>1 DEF PoliciesInv, Policies!TypeOK, CurrentState
    <2> QED BY <2>8, <2>9, <2>10, <2>11 DEF PoliciesInv
  <1> QED BY <1>2, <1>3

(* A sample that cannot be read ends both runs and lengthens the silence.  *)
LEMMA UnreadInv ==
  ASSUME PoliciesInv, Policies!CurrentUnread
  PROVE  PoliciesInv'
  <1>y. /\ current \in CurrentState /\ seen \in Seen /\ CurrentAgrees
    BY DEF PoliciesInv, Policies!TypeOK, CurrentState
  <1> DEFINE s == Policies!Least(seen.silent + 1, SensorConfirm)
             f == current.sensor_fault \/ current.invalid + 1 >= SensorConfirm
  <1>1. /\ voltage' = voltage /\ temperature' = temperature
        /\ current' = [current EXCEPT !.reason = Policies!None,
                          !.pending = 0, !.confirmed = FALSE,
                          !.invalid = Policies!Least(current.invalid + 1,
                                                     SensorConfirm),
                          !.sensor_fault = f]
    BY <1>y DEF Policies!CurrentUnread, Policies!CurrentInvalid, CurrentState
  <1>2. seen' = [seen EXCEPT !.load = Policies!None, !.loads = 0,
                             !.silent = s, !.overload = seen.overload]
    <2>1. Policies!Load(Policies!None) =
            [seen EXCEPT !.load = Policies!None, !.loads = 0,
                         !.silent = 0, !.overload = seen.overload]
      BY <1>y DEF Policies!Load, Seen
    <2>2. seen' = [Policies!Load(Policies!None) EXCEPT !.silent = s]
      BY DEF Policies!CurrentUnread
    <2> QED BY <2>1, <2>2, <1>y DEF Seen
  <1>3. /\ current.invalid = seen.silent
        /\ s \in 0 .. SensorConfirm
        /\ s >= SensorConfirm => f
        /\ 0 \in 0 .. Policies!Longest + 1
    <2>1. /\ seen.silent \in 0 .. SensorConfirm
          /\ current.invalid = seen.silent
      BY <1>y DEF Seen, CurrentAgrees
    <2>2. s \in 0 .. SensorConfirm
      BY <2>1, PoliciesAssumption DEF Policies!Least
    <2>3. s >= SensorConfirm => seen.silent + 1 >= SensorConfirm
      BY <2>1, PoliciesAssumption DEF Policies!Least
    <2> QED BY <2>1, <2>2, <2>3, LongestConfirm
  <1>4. f \in BOOLEAN
    OBVIOUS
  <1> HIDE DEF s, f
  <1>5. /\ current'.invalid = seen'.silent /\ seen'.silent = s
        /\ current'.sensor_fault = f
        /\ current' \in CurrentState
    <2>1. Policies!Least(current.invalid + 1, SensorConfirm) = s
      BY <1>3 DEF s
    <2> QED BY <2>1, <1>1, <1>2, <1>3, <1>4, <1>y
            DEF CurrentState, Seen, Policies!Reasons
  <1>6. seen' \in Seen
    BY <1>2, <1>3, <1>y DEF Seen, Policies!Reasons
  <1>7. CurrentAgrees'
    <2>1. /\ current'.reason = seen'.load /\ current'.pending = seen'.loads
          /\ current'.latched = seen'.overload
      BY <1>1, <1>2, <1>y DEF CurrentState, Seen, CurrentAgrees
    <2> QED BY <2>1, <1>3, <1>5 DEF CurrentAgrees
  <1>8. VoltageAgrees' /\ TemperatureAgrees'
    <2>1. /\ seen'.missed = seen.missed /\ seen'.hard = seen.hard
          /\ seen'.heat = seen.heat /\ seen'.heats = seen.heats
          /\ seen'.overheat = seen.overheat
      BY <1>2, <1>y DEF Seen
    <2> QED BY <2>1, <1>1 DEF PoliciesInv, VoltageAgrees, TemperatureAgrees
  <1>9. Policies!TypeOK'
    BY <1>5, <1>1 DEF PoliciesInv, Policies!TypeOK, CurrentState
  <1> QED BY <1>6, <1>7, <1>8, <1>9 DEF PoliciesInv

TemperatureState ==
  [valid : BOOLEAN, reason : Policies!Hot \cup {"NONE"},
   pending : 0 .. HotConfirm, charge_stop : BOOLEAN,
   overtemp : BOOLEAN, latched : BOOLEAN]

(* A read of the temperatures counts both runs alike.                      *)
LEMMA TemperatureInv ==
  ASSUME PoliciesInv, NEW read \in Policies!TemperatureScans,
         Policies!TemperatureScan(read)
  PROVE  PoliciesInv'
  <1>y. /\ temperature \in TemperatureState /\ seen \in Seen
        /\ TemperatureAgrees
    BY DEF PoliciesInv, Policies!TypeOK, TemperatureState
  <1> DEFINE m == Policies!Least(temperature.pending + 1, HotConfirm)
             hot == read \in Policies!Hot
             n == IF ~hot THEN 0
                  ELSE IF temperature.reason = read THEN m ELSE 1
             t == hot /\ n >= HotConfirm
             w == IF hot THEN read ELSE "NONE"
  <1>1. /\ voltage' = voltage /\ current' = current
    BY DEF Policies!TemperatureScan
  <1>2. PICK v \in BOOLEAN, c \in BOOLEAN :
          temperature' =
            [temperature EXCEPT !.valid = v, !.reason = w, !.pending = n,
                                !.charge_stop = c, !.overtemp = t,
                                !.latched = temperature.latched \/ t]
    <2>1. CASE hot
      <3>1. temperature' = Policies!TemperatureHot(read)
        BY <2>1 DEF Policies!TemperatureScan
      <3>2. temperature' =
              [temperature EXCEPT
                 !.valid = TRUE, !.reason = w, !.pending = n,
                 !.charge_stop = FALSE, !.overtemp = t,
                 !.latched = temperature.latched \/ t]
        <4> DEFINE k == IF temperature.reason = read THEN m ELSE 1
        <4>1. n = k /\ w = read /\ t = (k >= HotConfirm)
          BY <2>1
        <4>2. temperature' =
                [temperature EXCEPT
                   !.valid = TRUE, !.reason = read, !.pending = k,
                   !.charge_stop = FALSE, !.overtemp = (k >= HotConfirm),
                   !.latched = temperature.latched \/ (k >= HotConfirm)]
          BY <3>1, <1>y DEF Policies!TemperatureHot, TemperatureState
        <4> HIDE DEF k, n, w, t
        <4> QED BY <4>1, <4>2
      <3> QED BY <3>2
    <2>2. CASE ~hot
      <3>1. temperature' = Policies!TemperatureOther(read)
        BY <2>2 DEF Policies!TemperatureScan
      <3>2. temperature' =
              [temperature EXCEPT
                 !.valid = (read # "UNUSABLE"), !.reason = w, !.pending = n,
                 !.charge_stop = (read = "STOP"), !.overtemp = t,
                 !.latched = temperature.latched \/ t]
        BY <2>2, <3>1, <1>y DEF Policies!TemperatureOther, TemperatureState
      <3> QED BY <3>2
    <2> QED BY <2>1, <2>2
  <1>3. seen' = [seen EXCEPT !.heat = w, !.heats = n,
                             !.overheat = seen.overheat \/ t]
    <2>1. seen' = Policies!Heat(read)
      BY DEF Policies!TemperatureScan
    <2>2. temperature.reason = seen.heat /\ temperature.pending = seen.heats
      BY <1>y DEF TemperatureAgrees
    <2>3. ~(0 >= HotConfirm)
      BY PoliciesAssumption
    <2> QED BY <2>1, <2>2, <2>3, <1>y DEF Policies!Heat, Seen
  <1>4. n \in 0 .. HotConfirm
    <2>1. temperature.pending \in 0 .. HotConfirm
      BY <1>y DEF TemperatureState
    <2> QED BY <2>1, PoliciesAssumption DEF Policies!Least
  <1>5. t \in BOOLEAN /\ w \in Policies!Hot \cup {"NONE"}
    OBVIOUS
  <1> HIDE DEF n, t, w, hot, m
  <1>6. temperature' \in TemperatureState
    BY <1>2, <1>4, <1>5, <1>y DEF TemperatureState
  <1>7. seen' \in Seen
    BY <1>3, <1>4, <1>5, <1>y DEF Seen
  <1>8. TemperatureAgrees'
    BY <1>2, <1>3, <1>y DEF TemperatureAgrees, TemperatureState, Seen
  <1>9. VoltageAgrees' /\ CurrentAgrees'
    <2>1. /\ seen'.missed = seen.missed /\ seen'.hard = seen.hard
          /\ seen'.load = seen.load /\ seen'.loads = seen.loads
          /\ seen'.overload = seen.overload /\ seen'.silent = seen.silent
      BY <1>3, <1>y DEF Seen
    <2> QED BY <2>1, <1>1 DEF PoliciesInv, VoltageAgrees, CurrentAgrees
  <1>10. Policies!TypeOK'
    BY <1>6, <1>1 DEF PoliciesInv, Policies!TypeOK, TemperatureState
  <1> QED BY <1>7, <1>8, <1>9, <1>10 DEF PoliciesInv

(* Every step of the policies keeps the invariant.                         *)
LEMMA PoliciesNext ==
  ASSUME PoliciesInv, [Policies!Next]_policyVars PROVE PoliciesInv'
  <1>1. CASE Policies!Next
    BY <1>1, VoltageInv, CurrentInv, UnreadInv, TemperatureInv
       DEF Policies!Next
  <1>2. CASE UNCHANGED policyVars
    BY <1>2 DEF policyVars, PoliciesInv, Policies!TypeOK, VoltageAgrees,
                CurrentAgrees, TemperatureAgrees
  <1> QED BY <1>1, <1>2

(* The invariant is enough for what the run checks.                        *)
LEMMA PoliciesFaithful == PoliciesInv => PoliciesAreFaithful
  <1> SUFFICES ASSUME PoliciesInv PROVE PoliciesAreFaithful
    OBVIOUS
  <1>v. voltage \in [valid : BOOLEAN, read_fault : BOOLEAN,
                     pending : BOOLEAN, streak : 0 .. Grace,
                     charge_stop : BOOLEAN, out_of_range : BOOLEAN,
                     latched : BOOLEAN]
    BY DEF PoliciesInv, Policies!TypeOK
  <1>1. Policies!GraceIsBounded
    BY <1>v DEF PoliciesInv, VoltageAgrees, Policies!GraceIsBounded,
                Policies!VoltageFault
  <1>2. Policies!OutOfRangeHolds
    BY <1>v DEF PoliciesInv, VoltageAgrees, Policies!OutOfRangeHolds,
                Policies!VoltageFault
  <1>3. Policies!SensorLossIsFault
    BY DEF PoliciesInv, CurrentAgrees, Policies!SensorLossIsFault,
           Policies!CurrentFault
  <1>4. Policies!OvercurrentIsConfirmed
    BY DEF PoliciesInv, CurrentAgrees, Policies!OvercurrentIsConfirmed
  <1>5. Policies!OvertemperatureIsConfirmed
    BY DEF PoliciesInv, TemperatureAgrees, Policies!TemperatureFault,
           Policies!OvertemperatureIsConfirmed
  <1> QED BY <1>1, <1>2, <1>3, <1>4, <1>5 DEF PoliciesAreFaithful

(* A step of the system is a step of the policies or leaves them alone.    *)
LEMMA PoliciesStep == [SubsystemsNext]_allVars => [Policies!Next]_policyVars
  BY DEF SubsystemsNext, allVars, policyVars

(* The invariant of the policies holds in the system.                      *)
LEMMA PoliciesAlways == SubsystemsSpec => []PoliciesInv
  <1>1. SubsystemsInit => PoliciesInv
    BY PoliciesInit DEF SubsystemsInit
  <1>2. PoliciesInv /\ [SubsystemsNext]_allVars => PoliciesInv'
    BY PoliciesStep, PoliciesNext
  <1> QED BY <1>1, <1>2, PTL DEF SubsystemsSpec

(* For every grace, confirmation time and classification of the            *)
(* measurements: the grace of an unread pack is bounded and not renewed, a *)
(* hard limit once passed stays a fault, a silent current sensor becomes   *)
(* one, and overcurrent and overtemperature latch exactly after an         *)
(* unbroken run of their confirmation (voltage_fault.c 51-345,             *)
(* current_fault.c 320-400, temperature_fault.c 90-126).                   *)
THEOREM PoliciesFaithfulness == SubsystemsSpec => []PoliciesAreFaithful
  BY PoliciesAlways, PoliciesFaithful, PTL

-----------------------------------------------------------------------------
(* The insulation capture.                                                 *)

(* The age of the last capture is the silence; what was copied under the   *)
(* sequence number that still stands is that capture; every attempt that   *)
(* failed was met by a capture.                                            *)
SilenceIsAge ==
  capture.tuple.seen => Imd!Since(imdClock, capture.tuple.tick) = silence

RunIsBounded ==
  imdTask.pc # "idle" => Imd!Since(imdClock, imdTask.entry) <= MaxRun

CopyIsCurrent ==
  imdTask.pc = "copy" /\ imdTask.before = capture.sequence =>
    /\ imdTask.read >= 1 => imdTask.copy.total = capture.tuple.total
    /\ imdTask.read >= 2 => imdTask.copy.high = capture.tuple.high
    /\ imdTask.read >= 3 => imdTask.copy.tick = capture.tuple.tick
    /\ imdTask.read >= 4 => imdTask.copy.seen = capture.tuple.seen

PassAgrees ==
  /\ pass.seen => capture.tuple.seen
  /\ imdTask.pc = "idle" => imdTask.attempt = 0
  /\ imdTask.pc # "idle" /\ pass.seen => pass.captures >= imdTask.attempt
  /\ /\ imdTask.pc = "copy" /\ pass.seen
     /\ imdTask.before # capture.sequence
     => pass.captures >= imdTask.attempt + 1

ImdInv ==
  /\ Imd!TypeOK /\ SilenceIsAge /\ RunIsBounded /\ CopyIsCurrent /\ PassAgrees

(* The numbers the arithmetic of the capture is about.                     *)
LEMMA ImdNumbers ==
  /\ ImdWrap \in Nat \ {0} /\ ImdSeqMod \in Nat \ {0} /\ ImdSeqMod % 2 = 0
  /\ CaptureTimeout \in Nat /\ MaxSilence \in Nat /\ MaxRun \in Nat
  /\ MaxSilence + CaptureTimeout + MaxRun < ImdWrap
  /\ MaxSilence < ImdWrap /\ MaxRun < ImdWrap
  BY ImdAssumption

(* The next sequence is even, too.                                         *)
LEMMA NextIsEven ==
  ASSUME NEW s \in Imd!Sequences
  PROVE  (s + 2) % ImdSeqMod \in Imd!Sequences
  <1>1. s \in 0 .. ImdSeqMod - 1 /\ s % 2 = 0
    BY DEF Imd!Sequences
  <1>2. (s + 2) % ImdSeqMod \in 0 .. ImdSeqMod - 1
    BY <1>1, ImdNumbers
  <1>3. ((s + 2) % ImdSeqMod) % 2 = 0
    BY <1>1, ImdNumbers
  <1> QED BY <1>2, <1>3 DEF Imd!Sequences

(* The parts of the type that the steps use.                               *)
LEMMA ImdTypes ==
  ASSUME Imd!TypeOK
  PROVE  /\ imdClock \in 0 .. ImdWrap - 1
         /\ capture.sequence \in Imd!Sequences
         /\ capture.tuple \in Imd!Tuples
         /\ capture.tuple.tick \in 0 .. ImdWrap - 1
         /\ imdTask.entry \in 0 .. ImdWrap - 1
         /\ imdTask.copy \in Imd!Tuples
         /\ imdTask.attempt \in 0 .. 2
         /\ imdTask.read \in 0 .. 4
         /\ silence \in 0 .. MaxSilence
         /\ pass.captures \in 0 .. 3
  BY DEF Imd!TypeOK, Imd!Ticks, Imd!Tuples, Imd!Attempts, Imd!Order

(* Ages of the capture are on the circle of its ticks.                     *)
LEMMA ImdSince == \A a, b : Imd!Since(a, b) = Ago(ImdWrap, a, b)
  BY DEF Imd!Since, Ago

(* The capture begins sound.                                               *)
LEMMA ImdInit == Imd!Init => ImdInv
  <1> SUFFICES ASSUME Imd!Init PROVE ImdInv
    OBVIOUS
  <1>0. /\ 0 \in 0 .. ImdWrap - 1 /\ 0 \in 0 .. MaxSilence
        /\ 0 \in Imd!Sequences
    BY ImdNumbers DEF Imd!Sequences
  <1>1. Imd!Nothing \in Imd!Tuples
    BY <1>0 DEF Imd!Nothing, Imd!Tuples, Imd!Ticks
  <1>2. Imd!TypeOK
    BY <1>0, <1>1 DEF Imd!TypeOK, Imd!Init, Imd!Idle, Imd!Ticks,
                      Imd!Attempts, Imd!Order
  <1>3. SilenceIsAge /\ RunIsBounded /\ CopyIsCurrent /\ PassAgrees
    BY DEF SilenceIsAge, RunIsBounded, CopyIsCurrent, PassAgrees,
           Imd!Init, Imd!Idle, Imd!Nothing
  <1> QED BY <1>2, <1>3 DEF ImdInv

(* A capture is no age old, and one the copy in progress is not of.        *)
LEMMA CaptureInv ==
  ASSUME ImdInv, Imd!Capture
  PROVE  ImdInv'
  <1>y. Imd!TypeOK
    BY DEF ImdInv
  <1> DEFINE n == (capture.sequence + 2) % ImdSeqMod
             t == [total |-> n, high |-> n, tick |-> imdClock, seen |-> TRUE]
  <1>1. /\ capture' = [sequence |-> n, tuple |-> t]
        /\ silence' = 0 /\ imdClock' = imdClock /\ imdTask' = imdTask
        /\ imd' = imd
        /\ imdTask.pc = "copy" => n # imdTask.before
    BY DEF Imd!Capture, Imd!NextSequence, Imd!Stored
  <1>2. /\ pass' \in [seen : BOOLEAN, captures : 0 .. 3]
        /\ pass'.seen = pass.seen
        /\ imdTask.pc # "idle" =>
             pass'.captures = IF pass.captures < 3 THEN pass.captures + 1
                                                   ELSE pass.captures
    <2>1. pass \in [seen : BOOLEAN, captures : 0 .. 3]
      BY <1>y DEF Imd!TypeOK, Imd!Attempts
    <2>2. pass.captures < 3 => pass.captures + 1 \in 0 .. 3
      BY <2>1
    <2> QED BY <2>1, <2>2 DEF Imd!Capture, Imd!Running, Imd!Attempts
  <1>3. n \in Imd!Sequences /\ t \in Imd!Tuples
    <2>1. n \in Imd!Sequences
      BY NextIsEven, ImdTypes, <1>y
    <2>2. imdClock \in 0 .. ImdWrap - 1
      BY ImdTypes, <1>y
    <2> HIDE DEF n
    <2> QED BY <2>1, <2>2 DEF Imd!Tuples, Imd!Ticks
  <1> HIDE DEF n
  <1>4. Imd!TypeOK'
    <2>1. 0 \in 0 .. MaxSilence
      BY ImdNumbers
    <2>2. capture' \in [sequence : Imd!Sequences, tuple : Imd!Tuples]
      BY <1>1, <1>3
    <2> QED BY <2>1, <2>2, <1>1, <1>2, <1>y DEF Imd!TypeOK, Imd!Attempts
  <1>5. SilenceIsAge'
    <2>1. Imd!Since(imdClock, imdClock) = 0
      BY NowIsNow, ImdSince, ImdTypes, ImdNumbers, <1>y
    <2> QED BY <2>1, <1>1, ImdSince DEF SilenceIsAge, Imd!Since
  <1>6. RunIsBounded'
    BY <1>1 DEF ImdInv, RunIsBounded, Imd!Since
  <1>7. CopyIsCurrent'
    BY <1>1 DEF CopyIsCurrent
  <1>8. PassAgrees'
    <2>1. /\ imdTask.attempt \in 0 .. 2 /\ pass.captures \in 0 .. 3
          /\ imdTask.pc # "idle" /\ pass.seen =>
               pass.captures >= imdTask.attempt
          /\ imdTask.pc = "idle" => imdTask.attempt = 0
      BY ImdTypes, <1>y DEF ImdInv, PassAgrees
    <2>2. imdTask.pc # "idle" /\ pass.seen =>
            /\ pass'.captures >= imdTask.attempt + 1
            /\ pass'.captures >= imdTask.attempt
      BY <2>1, <1>2
    <2> QED BY <2>1, <2>2, <1>1, <1>2 DEF PassAgrees
  <1> QED BY <1>4, <1>5, <1>6, <1>7, <1>8 DEF ImdInv

ImdTask ==
  [pc : {"idle", "attempt", "copy"}, entry : Imd!Ticks,
   attempt : 0 .. 2, before : Imd!Sequences, read : 0 .. 4,
   copy : Imd!Tuples]

(* The task reads its tick and begins.                                     *)
LEMMA EnterInv == ASSUME ImdInv, Imd!Enter PROVE ImdInv'
  <1>y. /\ Imd!TypeOK /\ imdTask \in ImdTask
    BY DEF ImdInv, Imd!TypeOK, ImdTask, Imd!Attempts, Imd!Order
  <1>1. /\ imdTask' = [imdTask EXCEPT !.pc = "attempt", !.entry = imdClock]
        /\ pass' = [seen |-> capture.tuple.seen, captures |-> 0]
        /\ imdClock' = imdClock /\ capture' = capture /\ imd' = imd
        /\ silence' = silence /\ imdTask.pc = "idle"
    BY DEF Imd!Enter
  <1>2. /\ imdTask' \in ImdTask
        /\ imdTask'.pc = "attempt" /\ imdTask'.entry = imdClock
        /\ imdTask'.attempt = imdTask.attempt
    BY <1>1, <1>y DEF ImdTask, Imd!TypeOK
  <1>3. pass' \in [seen : BOOLEAN, captures : 0 .. 3]
    BY <1>1, ImdTypes, <1>y DEF Imd!Tuples
  <1>4. Imd!TypeOK'
    BY <1>1, <1>2, <1>3, <1>y
       DEF Imd!TypeOK, ImdTask, Imd!Attempts, Imd!Order
  <1>5. RunIsBounded'
    <2>1. Imd!Since(imdClock, imdClock) = 0
      BY NowIsNow, ImdSince, ImdTypes, ImdNumbers, <1>y
    <2>2. 0 <= MaxRun
      BY ImdNumbers
    <2> QED BY <2>1, <2>2, <1>1, <1>2 DEF RunIsBounded, Imd!Since
  <1>6. SilenceIsAge'
    BY <1>1 DEF ImdInv, SilenceIsAge, Imd!Since
  <1>7. CopyIsCurrent' /\ PassAgrees'
    <2>1. imdTask.attempt = 0
      BY <1>1 DEF ImdInv, PassAgrees
    <2> QED BY <2>1, <1>1, <1>2 DEF CopyIsCurrent, PassAgrees
  <1> QED BY <1>4, <1>5, <1>6, <1>7 DEF ImdInv

(* A step of the task that leaves its entry, or its attempt too.           *)
LEMMA AttemptInv ==
  ASSUME ImdInv,
         Imd!BeginAttempt \/ Imd!CopyField \/ Imd!Retry
  PROVE  ImdInv'
  <1>y. /\ Imd!TypeOK /\ imdTask \in ImdTask
    BY DEF ImdInv, Imd!TypeOK, ImdTask, Imd!Attempts, Imd!Order
  <1>1. /\ imdClock' = imdClock /\ capture' = capture /\ imd' = imd
        /\ silence' = silence /\ pass' = pass
    BY DEF Imd!BeginAttempt, Imd!CopyField, Imd!Retry
  <1>2. SilenceIsAge'
    BY <1>1 DEF ImdInv, SilenceIsAge, Imd!Since
  <1>3. ASSUME imdTask' \in ImdTask, imdTask'.entry = imdTask.entry,
               imdTask.pc # "idle", CopyIsCurrent', PassAgrees'
        PROVE  ImdInv'
    <2>1. Imd!TypeOK'
      BY <1>1, <1>3, <1>y DEF Imd!TypeOK, ImdTask, Imd!Attempts, Imd!Order
    <2>2. RunIsBounded'
      BY <1>1, <1>3 DEF ImdInv, RunIsBounded, Imd!Since
    <2> QED BY <1>2, <1>3, <2>1, <2>2 DEF ImdInv
  <1>4. CASE Imd!BeginAttempt
    <2>1. /\ imdTask' = [imdTask EXCEPT !.pc = "copy",
                           !.before = capture.sequence, !.read = 0,
                           !.copy = Imd!Nothing]
          /\ imdTask.pc = "attempt"
      BY <1>4 DEF Imd!BeginAttempt
    <2>2. Imd!Nothing \in Imd!Tuples /\ 0 \in 0 .. 4
      <3>1. 0 \in Imd!Ticks /\ 0 \in Imd!Sequences
        BY ImdNumbers DEF Imd!Ticks, Imd!Sequences
      <3> QED BY <3>1 DEF Imd!Nothing, Imd!Tuples
    <2>3. /\ imdTask' \in ImdTask /\ imdTask'.entry = imdTask.entry
          /\ imdTask'.before = capture.sequence /\ imdTask'.read = 0
          /\ imdTask'.attempt = imdTask.attempt /\ imdTask'.pc = "copy"
      BY <2>1, <2>2, <1>y, ImdTypes DEF ImdTask
    <2>4. CopyIsCurrent'
      BY <2>3 DEF CopyIsCurrent
    <2>5. PassAgrees'
      BY <2>1, <2>3, <1>1 DEF ImdInv, PassAgrees
    <2> QED BY <2>1, <2>3, <2>4, <2>5, <1>3
  <1>5. CASE Imd!CopyField
    <2> DEFINE field == Imd!Order[imdTask.read + 1]
    <2>1. /\ imdTask.pc = "copy" /\ imdTask.read \in 0 .. 3
          /\ imdTask' = [imdTask EXCEPT
                           !.copy[field] = capture.tuple[field],
                           !.read = imdTask.read + 1]
      BY <1>5, ImdTypes, <1>y DEF Imd!CopyField, Imd!Order
    <2>2. /\ imdTask.read = 0 => field = "total"
          /\ imdTask.read = 1 => field = "high"
          /\ imdTask.read = 2 => field = "tick"
          /\ imdTask.read = 3 => field = "seen"
      BY DEF Imd!Order
    <2> DEFINE c == [imdTask.copy EXCEPT ![field] = capture.tuple[field]]
    <2> HIDE DEF field
    <2>3. c \in Imd!Tuples
      BY <2>1, <2>2, ImdTypes, <1>y DEF Imd!Tuples
    <2>4. /\ imdTask' \in ImdTask /\ imdTask'.entry = imdTask.entry
          /\ imdTask'.pc = "copy" /\ imdTask'.before = imdTask.before
          /\ imdTask'.read = imdTask.read + 1 /\ imdTask'.copy = c
          /\ imdTask'.attempt = imdTask.attempt
      <3>1. imdTask.read + 1 \in 0 .. 4
        BY <2>1
      <3>2. imdTask' = [imdTask EXCEPT !.copy = c,
                                       !.read = imdTask.read + 1]
        BY <2>1, <1>y DEF ImdTask
      <3> HIDE DEF c
      <3> QED BY <3>1, <3>2, <2>1, <2>3, <1>y DEF ImdTask
    <2>5. CopyIsCurrent'
      <3>1. CASE imdTask.before # capture.sequence
        BY <3>1, <2>4, <1>1 DEF CopyIsCurrent
      <3>2. CASE imdTask.before = capture.sequence
        <4>1. CASE imdTask.read = 0
          BY <4>1, <3>2, <2>1, <2>2, <2>4, <1>1, <1>y, ImdTypes
             DEF CopyIsCurrent, Imd!Tuples
        <4>2. CASE imdTask.read = 1
          BY <4>2, <3>2, <2>1, <2>2, <2>4, <1>1, <1>y, ImdTypes
             DEF ImdInv, CopyIsCurrent, Imd!Tuples
        <4>3. CASE imdTask.read = 2
          BY <4>3, <3>2, <2>1, <2>2, <2>4, <1>1, <1>y, ImdTypes
             DEF ImdInv, CopyIsCurrent, Imd!Tuples
        <4>4. CASE imdTask.read = 3
          BY <4>4, <3>2, <2>1, <2>2, <2>4, <1>1, <1>y, ImdTypes
             DEF ImdInv, CopyIsCurrent, Imd!Tuples
        <4> QED BY <2>1, <4>1, <4>2, <4>3, <4>4
      <3> QED BY <3>1, <3>2
    <2>6. PassAgrees'
      BY <2>1, <2>4, <1>1 DEF ImdInv, PassAgrees
    <2> QED BY <2>1, <2>4, <2>5, <2>6, <1>3
  <1>6. CASE Imd!Retry
    <2>1. /\ imdTask' = [imdTask EXCEPT !.pc = "attempt",
                           !.attempt = imdTask.attempt + 1]
          /\ imdTask.pc = "copy" /\ imdTask.read = 4
          /\ ~(imdTask.copy.seen /\ imdTask.before = capture.sequence)
          /\ imdTask.attempt # 2
      BY <1>6 DEF Imd!Retry, Imd!Copied, Imd!Accepted, Imd!LastAttempt,
                  Imd!Attempts, Imd!Order
    <2>2. imdTask.attempt + 1 \in 0 .. 2
      BY <2>1, ImdTypes, <1>y
    <2>3. /\ imdTask' \in ImdTask /\ imdTask'.entry = imdTask.entry
          /\ imdTask'.pc = "attempt"
          /\ imdTask'.attempt = imdTask.attempt + 1
      BY <2>1, <2>2, <1>y DEF ImdTask
    <2>4. pass.seen => pass.captures >= imdTask.attempt + 1
      <3>1. CASE imdTask.before # capture.sequence
        BY <3>1, <2>1 DEF ImdInv, PassAgrees
      <3>2. CASE imdTask.before = capture.sequence
        <4>1. ~capture.tuple.seen
          BY <3>2, <2>1 DEF ImdInv, CopyIsCurrent
        <4> QED BY <4>1 DEF ImdInv, PassAgrees
      <3> QED BY <3>1, <3>2
    <2>5. PassAgrees'
      BY <2>3, <2>4, <1>1 DEF ImdInv, PassAgrees
    <2>6. CopyIsCurrent'
      BY <2>3 DEF CopyIsCurrent
    <2> QED BY <2>1, <2>3, <2>5, <2>6, <1>3
  <1> QED BY <1>4, <1>5, <1>6

(* The end of a pass.                                                      *)
LEMMA ConcludeInv ==
  ASSUME ImdInv, NEW signal \in Imd!Signals, Imd!Conclude(signal)
  PROVE  ImdInv'
  <1>y. Imd!TypeOK
    BY DEF ImdInv
  <1>1. /\ imdTask' = Imd!Idle
        /\ imdClock' = imdClock /\ capture' = capture
        /\ silence' = silence /\ pass' = pass
        /\ imd' \in [valid : BOOLEAN, ok : BOOLEAN, fault : BOOLEAN]
    BY DEF Imd!Conclude, Imd!Publish
  <1>2. imdTask'.pc = "idle" /\ imdTask'.attempt = 0
    BY <1>1 DEF Imd!Idle
  <1>3. Imd!TypeOK'
    <2>1. /\ 0 \in Imd!Ticks /\ 0 \in Imd!Sequences
      BY ImdNumbers DEF Imd!Ticks, Imd!Sequences
    <2>2. Imd!Idle \in [pc : {"idle", "attempt", "copy"}, entry : Imd!Ticks,
                        attempt : 0 .. 2, before : Imd!Sequences,
                        read : 0 .. 4, copy : Imd!Tuples]
      BY <2>1 DEF Imd!Idle, Imd!Nothing, Imd!Tuples
    <2> QED BY <2>2, <1>1, <1>y DEF Imd!TypeOK, Imd!Attempts, Imd!Order
  <1>4. SilenceIsAge' /\ RunIsBounded' /\ CopyIsCurrent' /\ PassAgrees'
    BY <1>1, <1>2 DEF ImdInv, SilenceIsAge, RunIsBounded, CopyIsCurrent,
                      PassAgrees, Imd!Since
  <1> QED BY <1>3, <1>4 DEF ImdInv

(* A tick makes the capture and the pass one older.                        *)
LEMMA TickInv == ASSUME ImdInv, Imd!Tick PROVE ImdInv'
  <1>y. Imd!TypeOK
    BY DEF ImdInv
  <1>1. /\ imdClock' = (imdClock + 1) % ImdWrap
        /\ capture' = capture /\ imdTask' = imdTask /\ imd' = imd
        /\ pass' = pass
        /\ capture.tuple.seen => silence < MaxSilence
        /\ silence' = IF capture.tuple.seen THEN silence + 1 ELSE silence
        /\ imdTask.pc # "idle" =>
             Imd!Since(imdClock, imdTask.entry) < MaxRun
    BY DEF Imd!Tick, Imd!Elapsed, Imd!Running
  <1>2. imdClock' \in 0 .. ImdWrap - 1
    BY <1>1, ImdTypes, <1>y, ImdNumbers, Circle
  <1>3. silence' \in 0 .. MaxSilence
    BY <1>1, ImdTypes, <1>y, ImdNumbers
  <1>4. Imd!TypeOK'
    BY <1>1, <1>2, <1>3, <1>y DEF Imd!TypeOK, Imd!Ticks
  <1>5. SilenceIsAge'
    <2>1. ASSUME capture.tuple.seen
          PROVE  Ago(ImdWrap, imdClock', capture.tuple.tick) = silence + 1
      <3>1. Ago(ImdWrap, imdClock, capture.tuple.tick) = silence
        BY <2>1, ImdSince DEF ImdInv, SilenceIsAge
      <3>2. silence < ImdWrap - 1
        BY <1>1, <2>1, ImdTypes, <1>y, ImdNumbers
      <3> QED BY <3>1, <3>2, <1>1, ImdTypes, <1>y, ImdNumbers, AgesGrow
    <2> QED BY <2>1, <1>1 DEF SilenceIsAge, Imd!Since, Ago
  <1>6. RunIsBounded'
    <2>1. ASSUME imdTask.pc # "idle"
          PROVE  Ago(ImdWrap, imdClock', imdTask.entry) <= MaxRun
      <3> DEFINE e == Ago(ImdWrap, imdClock, imdTask.entry)
      <3>1. e < MaxRun /\ e \in 0 .. ImdWrap - 1
        BY <2>1, <1>1, ImdTypes, <1>y, ImdNumbers, Circle, ImdSince
      <3>2. e < ImdWrap - 1
        BY <3>1, ImdNumbers
      <3>3. Ago(ImdWrap, imdClock', imdTask.entry) = e + 1
        BY <3>2, <1>1, ImdTypes, <1>y, ImdNumbers, AgesGrow
      <3> HIDE DEF e
      <3> QED BY <3>1, <3>3, ImdNumbers
    <2> QED BY <2>1, <1>1 DEF RunIsBounded, Imd!Since, Ago
  <1>7. CopyIsCurrent' /\ PassAgrees'
    BY <1>1 DEF ImdInv, CopyIsCurrent, PassAgrees
  <1> QED BY <1>4, <1>5, <1>6, <1>7 DEF ImdInv

(* Every step of the capture keeps the invariant.                          *)
LEMMA ImdNext == ASSUME ImdInv, [Imd!Next]_imdVars PROVE ImdInv'
  <1>1. CASE Imd!Next
    BY <1>1, CaptureInv, EnterInv, AttemptInv, ConcludeInv, TickInv
       DEF Imd!Next
  <1>2. CASE UNCHANGED imdVars
    BY <1>2 DEF imdVars, ImdInv, Imd!TypeOK, SilenceIsAge, RunIsBounded,
                CopyIsCurrent, PassAgrees, Imd!Since
  <1> QED BY <1>1, <1>2

(* An accepted copy is the last capture.                                   *)
LEMMA AcceptedIsLast ==
  ASSUME ImdInv, Imd!Copied, Imd!Accepted
  PROVE  imdTask.copy = capture.tuple /\ capture.tuple.seen
  <1>1. /\ imdTask.pc = "copy" /\ imdTask.read = 4
        /\ imdTask.before = capture.sequence
    BY DEF Imd!Copied, Imd!Accepted, Imd!Order
  <1>2. /\ imdTask.copy.total = capture.tuple.total
        /\ imdTask.copy.high = capture.tuple.high
        /\ imdTask.copy.tick = capture.tuple.tick
        /\ imdTask.copy.seen = capture.tuple.seen
    <2>1. CopyIsCurrent
      BY DEF ImdInv
    <2> QED BY <1>1, <2>1 DEF CopyIsCurrent
  <1>3. imdTask.copy \in Imd!Tuples /\ capture.tuple \in Imd!Tuples
    BY ImdTypes DEF ImdInv
  <1>4. imdTask.copy = capture.tuple
    BY <1>2, <1>3 DEF Imd!Tuples
  <1> QED BY <1>4 DEF Imd!Accepted

(* On entry a capture was as old as the silence that preceded it.          *)
LEMMA AgeOnEntry ==
  ASSUME ImdInv, imdTask.pc = "copy"
  PROVE  /\ silence \in Nat /\ Imd!Elapsed \in Nat
         /\ capture.tuple.seen /\ silence >= Imd!Elapsed =>
              Imd!Since(imdTask.entry, capture.tuple.tick)
                = silence - Imd!Elapsed
  <1>y. Imd!TypeOK
    BY DEF ImdInv
  <1> DEFINE e == Ago(ImdWrap, imdClock, imdTask.entry)
             a == Ago(ImdWrap, imdClock, capture.tuple.tick)
             d == Ago(ImdWrap, imdTask.entry, capture.tuple.tick)
  <1>1. d = IF a >= e THEN a - e ELSE a - e + ImdWrap
    BY ImdTypes, <1>y, ImdNumbers, AgesDiffer
  <1>2. /\ Imd!Elapsed = e
        /\ capture.tuple.seen => a = silence
    BY ImdSince DEF Imd!Elapsed, Imd!Running, ImdInv, SilenceIsAge
  <1>3. e \in 0 .. ImdWrap - 1 /\ silence \in 0 .. MaxSilence
    BY ImdTypes, <1>y, ImdNumbers, Circle
  <1>4. Imd!Since(imdTask.entry, capture.tuple.tick) = d
    BY ImdSince
  <1> HIDE DEF a, d, e
  <1> QED BY <1>1, <1>2, <1>3, <1>4, ImdNumbers

(* The invariant is enough for what the run checks.                        *)
LEMMA CaptureSound ==
  ASSUME ImdInv
  PROVE  Imd!TupleIsOne /\ Imd!SilenceIsNoticed /\ Imd!RefusalIsExplained
  <1>1. ASSUME NEW signal \in Imd!Signals, Imd!Conclude(signal)
        PROVE  /\ Imd!Copied
               /\ Imd!Accepted \/ Imd!LastAttempt
               /\ imdTask.pc = "copy" /\ imdTask.read = 4
               /\ imd'.valid <=> /\ Imd!Accepted /\ Imd!IsRecent
                                 /\ signal # "implausible"
    BY <1>1 DEF Imd!Conclude, Imd!Copied, Imd!Publish, Imd!Order
  <1>2. Imd!TupleIsOne
    BY <1>1, AcceptedIsLast DEF Imd!TupleIsOne
  <1>3. Imd!SilenceIsNoticed
    <2>1. ASSUME NEW signal \in Imd!Signals, Imd!Conclude(signal),
                 silence - Imd!Elapsed > CaptureTimeout, imd'.valid
          PROVE  FALSE
      <3>1. /\ imdTask.copy = capture.tuple /\ capture.tuple.seen
            /\ imdTask.pc = "copy"
        BY <2>1, <1>1, AcceptedIsLast
      <3>2. Imd!Since(imdTask.entry, capture.tuple.tick) <= CaptureTimeout
        BY <2>1, <1>1, <3>1 DEF Imd!IsRecent
      <3>3. silence \in Nat /\ Imd!Elapsed \in Nat
        BY <3>1, AgeOnEntry
      <3>4. silence >= Imd!Elapsed
        BY <2>1, <3>3, ImdNumbers
      <3>5. Imd!Since(imdTask.entry, capture.tuple.tick)
              = silence - Imd!Elapsed
        BY <3>1, <3>4, AgeOnEntry
      <3> QED BY <2>1, <3>2, <3>3, <3>5, ImdNumbers
    <2> QED BY <2>1 DEF Imd!SilenceIsNoticed
  <1>4. Imd!RefusalIsExplained
    <2>1. ASSUME NEW signal \in Imd!Signals, Imd!Conclude(signal),
                 signal # "implausible", ~imd'.valid,
                 pass.seen, ~(silence - Imd!Elapsed > CaptureTimeout),
                 pass.captures # 3, ~(silence < Imd!Elapsed)
          PROVE  FALSE
      <3>1. /\ Imd!Copied /\ imdTask.pc = "copy" /\ imdTask.read = 4
            /\ ~(Imd!Accepted /\ Imd!IsRecent)
            /\ Imd!Accepted \/ Imd!LastAttempt
        BY <2>1, <1>1
      <3>2. capture.tuple.seen
        BY <2>1 DEF ImdInv, PassAgrees
      <3>3. CASE Imd!Accepted
        <4>1. imdTask.copy = capture.tuple
          BY <3>1, <3>3, AcceptedIsLast
        <4>2. silence \in Nat /\ Imd!Elapsed \in Nat
          BY <3>1, AgeOnEntry
        <4>3. silence >= Imd!Elapsed
          BY <2>1, <4>2
        <4>4. Imd!Since(imdTask.entry, imdTask.copy.tick)
                = silence - Imd!Elapsed
          BY <3>1, <3>2, <4>1, <4>3, AgeOnEntry
        <4>5. silence - Imd!Elapsed <= CaptureTimeout
          BY <2>1, <4>2, ImdNumbers
        <4> QED BY <3>1, <3>3, <4>4, <4>5 DEF Imd!IsRecent
      <3>4. CASE ~Imd!Accepted
        <4>1. imdTask.attempt = 2
          BY <3>1, <3>4 DEF Imd!LastAttempt, Imd!Attempts
        <4>2. CASE imdTask.before # capture.sequence
          <5>1. pass.captures >= 3
            BY <2>1, <3>1, <4>1, <4>2 DEF ImdInv, PassAgrees
          <5>2. pass.captures \in 0 .. 3
            BY ImdTypes DEF ImdInv
          <5> QED BY <2>1, <5>1, <5>2
        <4>3. CASE imdTask.before = capture.sequence
          <5>1. imdTask.copy.seen = capture.tuple.seen
            <6>1. CopyIsCurrent
              BY DEF ImdInv
            <6> QED BY <6>1, <3>1, <4>3 DEF CopyIsCurrent
          <5> QED BY <5>1, <3>2, <3>4, <4>3 DEF Imd!Accepted
        <4> QED BY <4>2, <4>3
      <3> QED BY <3>3, <3>4
    <2> QED BY <2>1 DEF Imd!RefusalIsExplained, Imd!Attempts
  <1> QED BY <1>2, <1>3, <1>4

(* A step of the system is a step of the capture or leaves it alone.       *)
LEMMA ImdStep == [SubsystemsNext]_allVars => [Imd!Next]_imdVars
  BY DEF SubsystemsNext, allVars, imdVars

(* The invariant of the capture holds in the system.                       *)
LEMMA ImdAlways == SubsystemsSpec => []ImdInv
  <1>1. SubsystemsInit => ImdInv
    BY ImdInit DEF SubsystemsInit
  <1>2. ImdInv /\ [SubsystemsNext]_allVars => ImdInv'
    BY ImdStep, ImdNext
  <1> QED BY <1>1, <1>2, PTL DEF SubsystemsSpec

(* What the IMD task trusts is one capture, the latest, and was not older  *)
(* than the timeout when the pass began; a plausible signal is refused     *)
(* only because there was none, or it was silent, or it interrupted every  *)
(* attempt, or came after the pass began: for every wrap of the ticks,     *)
(* length of the sequence, timeout, and time a pass takes (imd.c 117-167). *)
THEOREM CaptureHonesty == SubsystemsSpec => CaptureIsHonest
  <1>1. ImdInv /\ [SubsystemsNext]_allVars =>
          [unit = "imd" =>
             /\ Imd!TupleIsOne
             /\ Imd!SilenceIsNoticed
             /\ Imd!RefusalIsExplained]_allVars
    BY CaptureSound
  <1> QED BY <1>1, ImdAlways, PTL DEF SubsystemsSpec, CaptureIsHonest

-----------------------------------------------------------------------------
(* The current window.                                                     *)

(* The age of a tick of the window.                                        *)
Age(t) == Ago(WindowWrap, windowClock, t)

(* The window ends after it starts and is not too long; the last sample    *)
(* is integrated up to the window's end and not much older than it.        *)
WindowAges ==
  /\ Age(active.end) <= Age(active.start)
  /\ Age(active.start) <= MaxWindow
  /\ last.valid =>
       /\ last.integrated = active.end
       /\ Age(active.end) <= Age(last.tick)
       /\ Age(last.tick) <= Age(active.start) + MaxGap

(* No tick is covered twice, and all are unless the window is invalid.     *)
ChargeAgrees ==
  /\ active.covered <= Age(active.start) - Age(active.end)
  /\ ~active.invalid =>
       active.covered = Age(active.start) - Age(active.end)
  /\ ~active.sampled => active.covered = 0

(* A window that is not invalid has a last sample, or waits for its first. *)
OutageAgrees ==
  ~active.invalid /\ ~last.valid =>
    ~active.sampled /\ active.end = active.start

(* The history of the spacing follows the samples.                         *)
SpacingAgrees ==
  /\ last.valid => spacing.from = last.tick
  /\ ~active.invalid /\ ~last.valid => spacing.from = active.start
  /\ ~active.invalid => spacing.gap <= MaxGap

(* The calibration of the window is that of its samples.                   *)
CalibrationAgrees ==
  /\ active.cal = "unset" => used = {}
  /\ active.cal \in Calibrations => used = {active.cal}

WindowInv ==
  /\ Window!TypeOK /\ WindowAges /\ ChargeAgrees /\ OutageAgrees
  /\ SpacingAgrees /\ CalibrationAgrees

(* The numbers of the window.                                              *)
LEMMA WindowNumbers ==
  /\ WindowWrap \in Nat \ {0} /\ WindowWrap \in Nat /\ WindowWrap >= 2
  /\ MaxGap \in Nat /\ MaxWindow \in Nat /\ WindowLate \in Nat
  /\ 2 * (MaxWindow + 1) <= WindowWrap /\ 2 * WindowLate <= WindowWrap
  /\ MaxGap + MaxWindow < WindowWrap
  <1>1. /\ WindowWrap \in Nat
        /\ MaxGap \in Nat /\ MaxWindow \in Nat /\ WindowLate \in Nat
        /\ 2 * (MaxWindow + 1) <= WindowWrap /\ 2 * WindowLate <= WindowWrap
        /\ MaxGap + MaxWindow < WindowWrap
    BY WindowAssumption
  <1> QED BY <1>1

(* A time since is a difference of ages.                                   *)
LEMMA SinceIsAgo ==
  ASSUME NEW now, NEW t
  PROVE  Window!Since(now, t) = Ago(WindowWrap, now, t)
  BY DEF Window!Since, Ago

(* Half a round of the ticks is less than any call is late.                *)
LEMMA HalfARound ==
  ASSUME NEW late \in 0 .. WindowLate
  PROVE  WindowWrap - late > Window!Half
  <1>1. 2 * Window!Half <= WindowWrap - 2
    BY WindowNumbers DEF Window!Half
  <1>2. Window!Half \in Int
    BY WindowNumbers DEF Window!Half
  <1> QED BY <1>1, <1>2, WindowNumbers

(* Every age is less than a round.                                         *)
LEMMA AgesAreShort ==
  ASSUME Window!TypeOK, NEW t \in 0 .. WindowWrap - 1
  PROVE  Age(t) \in 0 .. WindowWrap - 1
  BY Circle, WindowNumbers DEF Age, Window!TypeOK, Window!Ticks

(* A call that is not late comes after the window's end, and what is       *)
(* older than the call is so by the difference of their ages.              *)
LEMMA CallIsInTime ==
  ASSUME Window!TypeOK, WindowAges,
         NEW late \in 0 .. WindowLate, NEW now,
         now = (windowClock - late) % WindowWrap,
         ~Window!IsLate(now)
  PROVE  /\ now \in 0 .. WindowWrap - 1
         /\ Age(now) = late
         /\ late <= Age(active.end)
         /\ \A t \in 0 .. WindowWrap - 1 :
              Age(t) >= late => Window!Since(now, t) = Age(t) - late
  <1>1. /\ windowClock \in 0 .. WindowWrap - 1
        /\ active.end \in 0 .. WindowWrap - 1
    BY DEF Window!TypeOK, Window!Ticks
  <1>2. late \in 0 .. WindowWrap - 1
    BY WindowNumbers
  <1>3. now \in 0 .. WindowWrap - 1 /\ Age(now) = late
    BY <1>1, <1>2, SomeTicksBack, WindowNumbers DEF Age
  <1>4. ASSUME NEW t \in 0 .. WindowWrap - 1
        PROVE  /\ Age(t) \in 0 .. WindowWrap - 1
               /\ Window!Since(now, t) = IF Age(t) >= late
                                         THEN Age(t) - late
                                         ELSE Age(t) - late + WindowWrap
    <2>1. Age(t) \in 0 .. WindowWrap - 1
      BY AgesAreShort
    <2>2. Ago(WindowWrap, now, t) =
            IF Age(t) >= Age(now) THEN Age(t) - Age(now)
                                  ELSE Age(t) - Age(now) + WindowWrap
      BY <1>1, <1>3, AgesDiffer, WindowNumbers DEF Age
    <2> QED BY <2>1, <2>2, <1>3, SinceIsAgo
  <1>5. late <= Age(active.end)
    <2>1. ~(Window!Since(now, active.end) > Window!Half)
      BY DEF Window!IsLate
    <2>2. /\ Age(active.end) \in 0 .. WindowWrap - 1
          /\ Window!Since(now, active.end) =
               IF Age(active.end) >= late THEN Age(active.end) - late
               ELSE Age(active.end) - late + WindowWrap
      BY <1>1, <1>4
    <2>3. WindowWrap - late > Window!Half /\ Window!Half \in Int
      BY HalfARound, WindowNumbers DEF Window!Half
    <2> QED BY <2>1, <2>2, <2>3, WindowNumbers
  <1> QED BY <1>3, <1>4, <1>5

(* What a window's fields are.                                             *)
WindowState ==
  [start : 0 .. WindowWrap - 1, end : 0 .. WindowWrap - 1,
   sampled : BOOLEAN, invalid : BOOLEAN, covered : Nat,
   cal : Calibrations \cup {"none", "unset"}]

LastState ==
  [valid : BOOLEAN, tick : 0 .. WindowWrap - 1,
   integrated : 0 .. WindowWrap - 1, cal : Calibrations \cup {"none"}]

SpacingState == [from : 0 .. WindowWrap - 1, gap : 0 .. MaxGap + 1]

(* The type of the window, in its parts.                                   *)
LEMMA WindowTypes ==
  Window!TypeOK <=>
    /\ windowClock \in 0 .. WindowWrap - 1
    /\ active \in WindowState /\ last \in LastState
    /\ used \subseteq Calibrations \cup {"none"}
    /\ spacing \in SpacingState
  BY DEF Window!TypeOK, WindowState, LastState, SpacingState, Window!Ticks,
         Window!Cals, Window!NoCal, Window!Unset

(* The window begins empty.                                                *)
LEMMA WindowInit == Window!Init => WindowInv
  <1> SUFFICES ASSUME Window!Init PROVE WindowInv
    OBVIOUS
  <1>1. /\ windowClock \in 0 .. WindowWrap - 1 /\ 0 \in 0 .. WindowWrap - 1
        /\ 0 \in 0 .. MaxGap + 1
    BY WindowNumbers DEF Window!Init, Window!Ticks
  <1>2. /\ active = [start |-> windowClock, end |-> windowClock,
                     sampled |-> FALSE, invalid |-> FALSE, covered |-> 0,
                     cal |-> "unset"]
        /\ last = [valid |-> FALSE, tick |-> 0, integrated |-> 0,
                   cal |-> "none"]
        /\ used = {} /\ spacing = [from |-> windowClock, gap |-> 0]
    BY DEF Window!Init, Window!Window, Window!NoCal, Window!Unset
  <1>3. Window!TypeOK
    BY <1>1, <1>2, WindowTypes DEF WindowState, LastState, SpacingState
  <1>4. Age(windowClock) = 0
    BY <1>1, NowIsNow, WindowNumbers DEF Age
  <1>5. WindowAges /\ ChargeAgrees
    BY <1>2, <1>4, WindowNumbers DEF WindowAges, ChargeAgrees
  <1>6. OutageAgrees /\ SpacingAgrees
    BY <1>2, WindowNumbers DEF OutageAgrees, SpacingAgrees
  <1>7. CalibrationAgrees
    BY <1>2, WindowAssumption DEF CalibrationAgrees
  <1> QED BY <1>3, <1>5, <1>6, <1>7 DEF WindowInv

(* The longest time without a sample.                                      *)
LEMMA LongerIsBounded ==
  ASSUME Window!TypeOK, NEW now \in 0 .. WindowWrap - 1
  PROVE  /\ Window!Longer(spacing.gap, now) \in 0 .. MaxGap + 1
         /\ spacing.gap <= MaxGap /\ Window!Since(now, spacing.from) <= MaxGap
              => Window!Longer(spacing.gap, now) <= MaxGap
  <1> DEFINE g == Window!Since(now, spacing.from)
  <1>1. /\ spacing.from \in 0 .. WindowWrap - 1
        /\ spacing.gap \in 0 .. MaxGap + 1
    BY WindowTypes DEF SpacingState
  <1>2. g \in 0 .. WindowWrap - 1
    BY <1>1, Circle, SinceIsAgo, WindowNumbers
  <1>3. Window!Longer(spacing.gap, now) =
          IF g <= spacing.gap THEN spacing.gap
          ELSE IF g > MaxGap THEN MaxGap + 1 ELSE g
    BY DEF Window!Longer
  <1> HIDE DEF g
  <1>4. /\ Window!Longer(spacing.gap, now) \in 0 .. MaxGap + 1
        /\ spacing.gap <= MaxGap /\ g <= MaxGap
             => Window!Longer(spacing.gap, now) <= MaxGap
    BY <1>1, <1>2, <1>3, WindowNumbers
  <1> QED BY <1>4 DEF g

(* A tick of the clock makes everything one older; nothing is so old that  *)
(* it would seem new.                                                      *)
LEMMA WindowTickInv ==
  ASSUME WindowInv, Window!Tick
  PROVE  WindowInv'
  <1>y. /\ Window!TypeOK /\ windowClock \in 0 .. WindowWrap - 1
        /\ active.start \in 0 .. WindowWrap - 1
        /\ active.end \in 0 .. WindowWrap - 1
        /\ last.tick \in 0 .. WindowWrap - 1
        /\ active.covered \in Nat
    BY WindowTypes DEF WindowInv, WindowState, LastState
  <1>1. /\ Age(active.start) < MaxWindow
        /\ windowClock' = (windowClock + 1) % WindowWrap
        /\ active' = active /\ last' = last /\ used' = used
        /\ spacing' = spacing
    BY SinceIsAgo DEF Window!Tick, Age
  <1>2. Window!TypeOK'
    <2>1. windowClock' \in 0 .. WindowWrap - 1
      BY <1>1, <1>y, Circle, WindowNumbers
    <2> QED BY <2>1, <1>1, <1>y
        DEF Window!TypeOK, Window!Ticks, Window!Cals
  <1>3. /\ Age(active.start) \in 0 .. WindowWrap - 1
        /\ Age(active.end) \in 0 .. WindowWrap - 1
        /\ Age(last.tick) \in 0 .. WindowWrap - 1
    BY <1>y, AgesAreShort
  <1>4. /\ Age(active.end) <= Age(active.start)
        /\ last.valid => /\ Age(active.end) <= Age(last.tick)
                         /\ Age(last.tick) <= Age(active.start) + MaxGap
                         /\ last.integrated = active.end
    BY DEF WindowInv, WindowAges
  <1>5. ASSUME NEW t \in 0 .. WindowWrap - 1, Age(t) < WindowWrap - 1
        PROVE  Ago(WindowWrap, windowClock', t) = Age(t) + 1
    BY <1>5, <1>1, <1>y, AgesGrow, WindowNumbers DEF Age
  <1>6. /\ Age(active.start)' = Age(active.start) + 1
        /\ Age(active.end)' = Age(active.end) + 1
        /\ last.valid => Age(last.tick)' = Age(last.tick) + 1
    <2>1. /\ Age(active.start) < WindowWrap - 1
          /\ Age(active.end) < WindowWrap - 1
          /\ last.valid => Age(last.tick) < WindowWrap - 1
      BY <1>1, <1>3, <1>4, WindowNumbers
    <2> QED BY <2>1, <1>1, <1>y, <1>5 DEF Age
  <1>7. WindowAges'
    <2>1. /\ Age(active.end)' <= Age(active.start)'
          /\ Age(active.start)' <= MaxWindow
          /\ last.valid =>
               /\ Age(active.end)' <= Age(last.tick)'
               /\ Age(last.tick)' <= Age(active.start)' + MaxGap
      BY <1>1, <1>3, <1>4, <1>6, WindowNumbers
    <2> QED BY <2>1, <1>1, <1>4 DEF WindowAges
  <1>8. ChargeAgrees'
    <2>1. Age(active.start)' - Age(active.end)' =
            Age(active.start) - Age(active.end)
      BY <1>3, <1>6
    <2> QED BY <2>1, <1>1 DEF WindowInv, ChargeAgrees
  <1>9. OutageAgrees' /\ SpacingAgrees' /\ CalibrationAgrees'
    BY <1>1 DEF WindowInv, OutageAgrees, SpacingAgrees, CalibrationAgrees
  <1> QED BY <1>2, <1>7, <1>8, <1>9 DEF WindowInv

(* The ages that a call is judged by.                                      *)
LEMMA CallFacts ==
  ASSUME WindowInv, NEW late \in 0 .. WindowLate, NEW now,
         now = (windowClock - late) % WindowWrap,
         ~Window!IsLate(now)
  PROVE  /\ now \in 0 .. WindowWrap - 1 /\ Age(now) = late
         /\ Age(active.start) \in 0 .. WindowWrap - 1
         /\ Age(active.end) \in 0 .. WindowWrap - 1
         /\ Age(last.tick) \in 0 .. WindowWrap - 1
         /\ late <= Age(active.end)
         /\ Window!Since(now, active.start) = Age(active.start) - late
         /\ last.valid =>
              /\ Window!Since(now, last.integrated) = Age(active.end) - late
              /\ Window!Since(now, last.tick) = Age(last.tick) - late
  <1>y. /\ Window!TypeOK
        /\ active.start \in 0 .. WindowWrap - 1
        /\ active.end \in 0 .. WindowWrap - 1
        /\ last.tick \in 0 .. WindowWrap - 1
    BY WindowTypes DEF WindowInv, WindowState, LastState
  <1>1. /\ now \in 0 .. WindowWrap - 1
        /\ Age(now) = late
        /\ late <= Age(active.end)
        /\ \A t \in 0 .. WindowWrap - 1 :
             Age(t) >= late => Window!Since(now, t) = Age(t) - late
    BY <1>y, CallIsInTime DEF WindowInv
  <1>2. /\ Age(active.start) \in 0 .. WindowWrap - 1
        /\ Age(active.end) \in 0 .. WindowWrap - 1
        /\ Age(last.tick) \in 0 .. WindowWrap - 1
    BY <1>y, AgesAreShort
  <1>3. /\ Age(active.end) <= Age(active.start)
        /\ last.valid => /\ Age(active.end) <= Age(last.tick)
                         /\ last.integrated = active.end
    BY DEF WindowInv, WindowAges
  <1>4. /\ Age(active.start) >= late /\ Age(active.end) >= late
        /\ last.valid => Age(last.tick) >= late
    BY <1>1, <1>2, <1>3, WindowNumbers
  <1>5. Window!Since(now, active.start) = Age(active.start) - late
    BY <1>1, <1>4, <1>y
  <1>6. last.valid =>
          /\ Window!Since(now, last.integrated) = Age(active.end) - late
          /\ Window!Since(now, last.tick) = Age(last.tick) - late
    BY <1>1, <1>3, <1>4, <1>y
  <1> QED BY <1>1, <1>2, <1>5, <1>6

(* A sample that is refused, and a call that comes too late, only make the *)
(* window invalid.                                                         *)
LEMMA RefusalInv ==
  ASSUME WindowInv, NEW late \in 0 .. WindowLate, NEW now,
         now = (windowClock - late) % WindowWrap,
         Window!InvalidSample(now) \/ Window!LateCall(now)
  PROVE  WindowInv'
  <1>y. /\ Window!TypeOK /\ active \in WindowState /\ last \in LastState
    BY WindowTypes DEF WindowInv
  <1>1. CASE Window!InvalidSample(now)
    <2>1. /\ active' = [active EXCEPT !.invalid = TRUE, !.end = now]
          /\ last' = [last EXCEPT !.valid = FALSE]
          /\ windowClock' = windowClock /\ used' = used /\ spacing' = spacing
      BY <1>1 DEF Window!InvalidSample
    <2>2. /\ now \in 0 .. WindowWrap - 1 /\ Age(now) = late
          /\ Age(active.start) \in 0 .. WindowWrap - 1
          /\ Age(active.end) \in 0 .. WindowWrap - 1
          /\ late <= Age(active.end)
      BY <1>1, CallFacts DEF Window!InvalidSample
    <2>3. /\ active' \in WindowState /\ last' \in LastState
          /\ active'.start = active.start /\ active'.end = now
          /\ active'.covered = active.covered /\ active'.cal = active.cal
      BY <2>1, <2>2, <1>y DEF WindowState, LastState
    <2>4. /\ active'.invalid /\ ~last'.valid
          /\ active'.sampled <=> active.sampled
      BY <2>1, <1>y DEF WindowState, LastState
    <2>5. Window!TypeOK'
      BY <2>1, <2>3, <1>y
         DEF Window!TypeOK, WindowState, LastState, Window!Ticks,
             Window!Cals, Window!NoCal, Window!Unset
    <2>6. /\ Age(active.end)' = late
          /\ Age(active.start)' = Age(active.start)
      BY <2>1, <2>2, <2>3 DEF Age
    <2>7. /\ Age(active.end) <= Age(active.start)
          /\ Age(active.start) <= MaxWindow
          /\ active.covered <= Age(active.start) - Age(active.end)
          /\ active.covered \in Nat
      BY <1>y DEF WindowInv, WindowAges, ChargeAgrees, WindowState
    <2>8. /\ late <= Age(active.start)
          /\ active.covered <= Age(active.start) - late
      BY <2>2, <2>7, WindowNumbers
    <2>9. WindowAges' /\ ChargeAgrees'
      BY <2>3, <2>4, <2>6, <2>7, <2>8
         DEF WindowAges, ChargeAgrees, WindowInv
    <2> QED BY <2>1, <2>3, <2>4, <2>5, <2>9
        DEF WindowInv, OutageAgrees, SpacingAgrees, CalibrationAgrees
  <1>2. CASE Window!LateCall(now)
    <2>1. /\ active' = [active EXCEPT !.invalid = TRUE]
          /\ windowClock' = windowClock /\ last' = last
          /\ used' = used /\ spacing' = spacing
      BY <1>2 DEF Window!LateCall
    <2>2. /\ active' \in WindowState
          /\ active'.start = active.start /\ active'.end = active.end
          /\ active'.covered = active.covered /\ active'.cal = active.cal
      BY <2>1, <1>y DEF WindowState
    <2>3. active'.invalid /\ (active'.sampled <=> active.sampled)
      BY <2>1, <1>y DEF WindowState
    <2>4. Window!TypeOK'
      BY <2>1, <2>2, <1>y
         DEF Window!TypeOK, WindowState, Window!Ticks,
             Window!Cals, Window!NoCal, Window!Unset
    <2>5. WindowAges' /\ ChargeAgrees'
      BY <2>1, <2>2, <2>3 DEF WindowInv, WindowAges, ChargeAgrees, Age
    <2> QED BY <2>1, <2>2, <2>3, <2>4, <2>5
        DEF WindowInv, OutageAgrees, SpacingAgrees, CalibrationAgrees
  <1> QED BY <1>1, <1>2

(* What a valid sample integrates has not been integrated yet, and is all  *)
(* there is unless the window is invalid.                                  *)
LEMMA IntervalFacts ==
  ASSUME WindowInv, NEW late \in 0 .. WindowLate, NEW now,
         now = (windowClock - late) % WindowWrap,
         ~Window!IsLate(now)
  PROVE  /\ Window!Interval(now) \in Nat
         /\ active.covered + Window!Interval(now) <= Age(active.start) - late
         /\ ~active.invalid =>
              active.covered + Window!Interval(now)
                = Age(active.start) - late
  <1>1. /\ Age(active.start) \in 0 .. WindowWrap - 1
        /\ Age(active.end) \in 0 .. WindowWrap - 1
        /\ late <= Age(active.end)
        /\ Window!Since(now, active.start) = Age(active.start) - late
        /\ last.valid =>
             Window!Since(now, last.integrated) = Age(active.end) - late
    BY CallFacts
  <1>2. /\ active.covered \in Nat
        /\ Age(active.end) <= Age(active.start)
        /\ active.covered <= Age(active.start) - Age(active.end)
    BY WindowTypes DEF WindowInv, WindowAges, ChargeAgrees, WindowState
  <1>3. CASE last.valid
    <2>1. Window!Interval(now) = Age(active.end) - late
      BY <1>1, <1>3 DEF Window!Interval
    <2>2. ~active.invalid =>
            active.covered = Age(active.start) - Age(active.end)
      BY DEF WindowInv, ChargeAgrees
    <2> QED BY <1>1, <1>2, <2>1, <2>2, WindowNumbers
  <1>4. CASE ~last.valid /\ ~active.sampled
    <2>1. Window!Interval(now) = Age(active.start) - late
      BY <1>1, <1>4 DEF Window!Interval
    <2>2. active.covered = 0
      BY <1>4 DEF WindowInv, ChargeAgrees
    <2> QED BY <1>1, <1>2, <2>1, <2>2, WindowNumbers
  <1>5. CASE ~last.valid /\ active.sampled
    <2>1. Window!Interval(now) = 0
      BY <1>5 DEF Window!Interval
    <2>2. active.invalid
      BY <1>5 DEF WindowInv, OutageAgrees
    <2> QED BY <1>1, <1>2, <2>1, <2>2, WindowNumbers
  <1> QED BY <1>3, <1>4, <1>5

(* A valid sample.                                                         *)
LEMMA SampleInv ==
  ASSUME WindowInv, NEW late \in 0 .. WindowLate, NEW now,
         now = (windowClock - late) % WindowWrap,
         NEW new \in Calibrations \cup {"none"},
         Window!ValidSample(now, new)
  PROVE  WindowInv'
  <1>y. /\ Window!TypeOK /\ active \in WindowState
        /\ spacing \in SpacingState
        /\ used \subseteq Calibrations \cup {"none"}
    BY WindowTypes DEF WindowInv
  <1>n. ~Window!IsLate(now)
    BY DEF Window!ValidSample
  <1> DEFINE i == Window!Interval(now)
             g == Window!GapTooLong(now)
             c == Window!Merged(active.cal, new)
             m == IF g THEN active.covered ELSE active.covered + i
  <1>1. /\ active' = [active EXCEPT !.covered = m,
                                    !.invalid = active.invalid \/ g,
                                    !.cal = c, !.sampled = TRUE, !.end = now]
        /\ last' = [valid |-> TRUE, tick |-> now, integrated |-> now,
                    cal |-> new]
        /\ used' = used \cup {new}
        /\ spacing' = [from |-> now,
                       gap |-> Window!Longer(spacing.gap, now)]
        /\ windowClock' = windowClock
    BY DEF Window!ValidSample, Window!WithSample
  <1>2. /\ now \in 0 .. WindowWrap - 1 /\ Age(now) = late
        /\ Age(active.start) \in 0 .. WindowWrap - 1
        /\ Age(active.end) \in 0 .. WindowWrap - 1
        /\ late <= Age(active.end)
    BY <1>n, CallFacts
  <1>3. /\ active.covered \in Nat
        /\ Age(active.end) <= Age(active.start)
        /\ Age(active.start) <= MaxWindow
        /\ active.covered <= Age(active.start) - Age(active.end)
    BY <1>y DEF WindowInv, WindowAges, ChargeAgrees, WindowState
  <1>4. /\ i \in Nat /\ g \in BOOLEAN
        /\ active.covered + i <= Age(active.start) - late
        /\ ~active.invalid => active.covered + i = Age(active.start) - late
    BY <1>n, IntervalFacts DEF Window!GapTooLong
  <1>5. c \in Calibrations \cup {"none", "unset"}
    BY DEF Window!Merged, Window!NoCal
  <1>6. ~g /\ ~active.invalid => Window!Longer(spacing.gap, now) <= MaxGap
    <2> SUFFICES ASSUME ~g, ~active.invalid
                 PROVE  Window!Longer(spacing.gap, now) <= MaxGap
      OBVIOUS
    <2>1. spacing.gap <= MaxGap
      BY DEF WindowInv, SpacingAgrees
    <2>2. i \in Nat /\ ~(i > MaxGap)
      BY <1>4 DEF Window!GapTooLong
    <2>3. CASE last.valid
      <3>1. /\ spacing.from = last.tick
            /\ ~(Window!Since(now, last.tick) > MaxGap)
        BY <2>3 DEF Window!GapTooLong, WindowInv, SpacingAgrees
      <3>2. Window!Since(now, last.tick) \in 0 .. WindowWrap - 1
        BY <1>y, <1>2, WindowTypes, Circle, SinceIsAgo, WindowNumbers
           DEF LastState
      <3> QED BY <2>1, <3>1, <3>2, <1>y, <1>2, LongerIsBounded,
                 WindowNumbers
    <2>4. CASE ~last.valid
      <3>1. /\ spacing.from = active.start
            /\ i = Window!Since(now, active.start)
        BY <2>4 DEF Window!Interval, WindowInv, SpacingAgrees, OutageAgrees
      <3> QED BY <2>1, <2>2, <3>1, <1>y, <1>2, LongerIsBounded,
                 WindowNumbers
    <2> QED BY <2>3, <2>4
  <1>7. Window!Longer(spacing.gap, now) \in 0 .. MaxGap + 1
    BY <1>y, <1>2, LongerIsBounded
  <1>8. m \in Nat
    BY <1>3, <1>4
  <1> HIDE DEF i, g, c
  <1>9. /\ active' \in WindowState
        /\ active'.start = active.start /\ active'.end = now
        /\ active'.covered = m /\ active'.cal = c
    BY <1>1, <1>2, <1>4, <1>5, <1>8, <1>y DEF WindowState
  <1>10. /\ active'.sampled /\ last'.valid
         /\ active'.invalid <=> active.invalid \/ g
    BY <1>1, <1>y DEF WindowState
  <1>11. Window!TypeOK'
    <2>1. last' \in LastState /\ spacing' \in SpacingState
      BY <1>1, <1>2, <1>7 DEF LastState, SpacingState
    <2>2. used' \subseteq Calibrations \cup {"none"}
      BY <1>1, <1>y
    <2> QED BY <1>1, <1>9, <1>y, <2>1, <2>2
        DEF Window!TypeOK, WindowState, LastState, SpacingState,
            Window!Ticks, Window!Cals, Window!NoCal, Window!Unset
  <1>12. /\ Age(active.end)' = late /\ Age(last.tick)' = late
         /\ Age(active.start)' = Age(active.start)
    BY <1>1, <1>2, <1>9 DEF Age
  <1>13. WindowAges'
    <2>1. /\ late <= Age(active.start)
          /\ late <= Age(active.start) + MaxGap /\ late <= late
      BY <1>2, <1>3, WindowNumbers
    <2>2. last'.integrated = active'.end
      BY <1>1, <1>9
    <2> QED BY <2>1, <2>2, <1>3, <1>12 DEF WindowAges
  <1>14. ChargeAgrees'
    <2>1. /\ m <= Age(active.start) - late
          /\ ~active.invalid /\ ~g => m = Age(active.start) - late
      BY <1>2, <1>3, <1>4, WindowNumbers
    <2> HIDE DEF m
    <2> QED BY <2>1, <1>9, <1>10, <1>12 DEF ChargeAgrees
  <1>15. OutageAgrees' /\ SpacingAgrees'
    <2>1. spacing'.from = last'.tick
          /\ spacing'.gap = Window!Longer(spacing.gap, now)
      BY <1>1
    <2> QED BY <2>1, <1>6, <1>10 DEF OutageAgrees, SpacingAgrees
  <1>16. CalibrationAgrees'
    <2>1. "unset" \notin Calibrations /\ "none" \notin Calibrations
      BY WindowAssumption
    <2>2. /\ c # "unset"
          /\ c \in Calibrations =>
               c = new /\ (active.cal = "unset" \/ active.cal = new)
      BY <2>1 DEF Window!Merged, Window!NoCal, Window!Unset, c
    <2>3. c \in Calibrations => used \cup {new} = {c}
      BY <2>2 DEF WindowInv, CalibrationAgrees
    <2> QED BY <2>2, <2>3, <1>1, <1>9 DEF CalibrationAgrees
  <1> QED BY <1>11, <1>13, <1>14, <1>15, <1>16 DEF WindowInv

(* A boundary.                                                             *)
LEMMA RotateInv ==
  ASSUME WindowInv, NEW late \in 0 .. WindowLate, NEW now,
         now = (windowClock - late) % WindowWrap,
         Window!Rotate(now)
  PROVE  WindowInv'
  <1>y. /\ Window!TypeOK /\ last \in LastState /\ spacing \in SpacingState
    BY WindowTypes DEF WindowInv
  <1>n. ~Window!IsLate(now)
    BY DEF Window!Rotate
  <1> DEFINE f == Window!TailIsFresh(now)
             c == IF f THEN last.cal ELSE "unset"
  <1>1. /\ active' = [start |-> now, end |-> now, sampled |-> FALSE,
                      invalid |-> FALSE, covered |-> 0, cal |-> c]
        /\ last' = IF f THEN [last EXCEPT !.integrated = now]
                        ELSE [last EXCEPT !.valid = FALSE]
        /\ used' = IF f THEN {last.cal} ELSE {}
        /\ spacing' = [from |-> IF f THEN spacing.from ELSE now, gap |-> 0]
        /\ windowClock' = windowClock
    BY DEF Window!Rotate, Window!NextWindow, Window!Window,
           Window!HeldSample, Window!Unset
  <1>2. /\ now \in 0 .. WindowWrap - 1 /\ Age(now) = late
        /\ Age(active.start) \in 0 .. WindowWrap - 1
        /\ Age(active.end) \in 0 .. WindowWrap - 1
        /\ Age(last.tick) \in 0 .. WindowWrap - 1
        /\ late <= Age(active.end)
        /\ last.valid => Window!Since(now, last.tick) = Age(last.tick) - late
    BY <1>n, CallFacts
  <1>3. f => last.valid /\ Window!Since(now, last.tick) <= MaxGap
    BY DEF Window!TailIsFresh
  <1> HIDE DEF f
  <1>4. last' \in LastState /\ (last'.valid => f)
    BY <1>1, <1>2, <1>3, <1>y DEF LastState
  <1>5. f => /\ last'.integrated = now /\ last'.tick = last.tick
             /\ last'.cal = last.cal
    BY <1>1, <1>y DEF LastState
  <1>6. last.cal \in Calibrations \cup {"none"}
    BY <1>y DEF LastState
  <1>7. Window!TypeOK'
    <2>1. active' \in WindowState
      BY <1>1, <1>2, <1>6 DEF WindowState
    <2>2. spacing' \in SpacingState
      <3>1. 0 \in 0 .. MaxGap + 1
        BY WindowNumbers
      <3> QED BY <3>1, <1>1, <1>2, <1>y DEF SpacingState
    <2>3. used' \subseteq Calibrations \cup {"none"}
      BY <1>1, <1>6
    <2> QED BY <1>1, <1>4, <1>y, <2>1, <2>2, <2>3
        DEF Window!TypeOK, WindowState, LastState, SpacingState,
            Window!Ticks, Window!Cals, Window!NoCal, Window!Unset
  <1>8. /\ Age(active.end)' = late /\ Age(active.start)' = late
        /\ f => Age(last.tick)' = Age(last.tick)
    BY <1>1, <1>2, <1>5 DEF Age
  <1>9. WindowAges'
    <2>1. late <= MaxWindow /\ late <= late
      BY <1>2, WindowNumbers DEF WindowInv, WindowAges
    <2>2. f => late <= Age(last.tick) /\ Age(last.tick) <= late + MaxGap
      BY <1>2, <1>3, WindowNumbers DEF WindowInv, WindowAges
    <2> QED BY <2>1, <2>2, <1>1, <1>4, <1>5, <1>8 DEF WindowAges
  <1>10. ChargeAgrees'
    <2>1. 0 = late - late /\ 0 <= late - late
      OBVIOUS
    <2> QED BY <2>1, <1>1, <1>8 DEF ChargeAgrees
  <1>11. OutageAgrees'
    BY <1>1 DEF OutageAgrees
  <1>12. SpacingAgrees'
    <2>1. ~f => ~last'.valid
      BY <1>4
    <2>2. f => last'.valid /\ spacing.from = last.tick
      BY <1>1, <1>3, <1>y DEF LastState, WindowInv, SpacingAgrees
    <2>3. 0 <= MaxGap
      BY WindowNumbers
    <2> QED BY <2>1, <2>2, <2>3, <1>1, <1>5 DEF SpacingAgrees
  <1>13. CalibrationAgrees'
    <2>1. "unset" \notin Calibrations /\ "none" \notin Calibrations
      BY WindowAssumption
    <2>2. /\ f => active'.cal = last.cal /\ used' = {last.cal}
          /\ ~f => active'.cal = "unset" /\ used' = {}
      BY <1>1
    <2>3. last.cal # "unset"
      BY <2>1, <1>6
    <2> QED BY <2>1, <2>2, <2>3 DEF CalibrationAgrees
  <1> QED BY <1>7, <1>9, <1>10, <1>11, <1>12, <1>13 DEF WindowInv

(* Every step of the system keeps the window sound.                        *)
LEMMA WindowStep ==
  WindowInv /\ [SubsystemsNext]_allVars => WindowInv'
  <1> SUFFICES ASSUME WindowInv, [SubsystemsNext]_allVars
               PROVE  WindowInv'
    OBVIOUS
  <1>1. CASE Window!Tick
    BY <1>1, WindowTickInv
  <1>2. ASSUME NEW late \in 0 .. WindowLate,
               Window!Caller((windowClock - late) % WindowWrap)
        PROVE  WindowInv'
    <2> DEFINE now == (windowClock - late) % WindowWrap
    <2>1. \/ \E new \in Calibrations \cup {"none"} :
               Window!ValidSample(now, new)
          \/ Window!InvalidSample(now) \/ Window!LateCall(now)
          \/ Window!Rotate(now)
      BY <1>2 DEF Window!Caller, Window!Cals, Window!NoCal
    <2>2. now = (windowClock - late) % WindowWrap
      OBVIOUS
    <2> HIDE DEF now
    <2> QED BY <2>1, <2>2, SampleInv, RefusalInv, RotateInv
  <1>3. CASE UNCHANGED windowVars
    BY <1>3 DEF windowVars, WindowInv, Window!TypeOK, WindowAges, Age,
                ChargeAgrees, OutageAgrees, SpacingAgrees, CalibrationAgrees
  <1>4. Window!Next \/ UNCHANGED windowVars
    BY DEF SubsystemsNext, allVars, windowVars
  <1> QED BY <1>1, <1>2, <1>3, <1>4 DEF Window!Next

(* The invariant of the window holds in the system.                        *)
LEMMA WindowAlways == SubsystemsSpec => []WindowInv
  <1>1. SubsystemsInit => WindowInv
    BY WindowInit DEF SubsystemsInit
  <1> QED BY <1>1, WindowStep, PTL DEF SubsystemsSpec

(* A boundary is called with a tick that is not older than a call may be.  *)
LEMMA BoundaryIsACall ==
  ASSUME WindowInv, [Window!Next]_windowVars,
         NEW now \in 0 .. WindowWrap - 1, Window!Rotate(now)
  PROVE  \/ ~active.sampled
         \/ \E late \in 0 .. WindowLate :
              now = (windowClock - late) % WindowWrap
  <1>1. /\ active'.start = now /\ ~active'.sampled /\ ~active'.invalid
        /\ windowClock' = windowClock
    BY DEF Window!Rotate, Window!NextWindow, Window!Window
  <1>y. windowClock \in 0 .. WindowWrap - 1 /\ active \in WindowState
    BY WindowTypes DEF WindowInv
  <1>2. CASE Window!Tick
    <2>1. windowClock' = (windowClock + 1) % WindowWrap
      BY <1>2 DEF Window!Tick
    <2>2. windowClock' # windowClock
      BY <2>1, <1>y, Circle, WindowNumbers
    <2> QED BY <2>2, <1>1
  <1>3. ASSUME NEW late \in 0 .. WindowLate,
               Window!Caller((windowClock - late) % WindowWrap)
        PROVE  now = (windowClock - late) % WindowWrap
    <2> DEFINE n == (windowClock - late) % WindowWrap
    <2>1. \/ \E new \in Window!Cals : Window!ValidSample(n, new)
          \/ Window!InvalidSample(n) \/ Window!LateCall(n)
          \/ Window!Rotate(n)
      BY <1>3 DEF Window!Caller
    <2> HIDE DEF n
    <2>2. ~\E new \in Window!Cals : Window!ValidSample(n, new)
      BY <1>1, <1>y DEF Window!ValidSample, Window!WithSample, WindowState
    <2>3. ~Window!InvalidSample(n) /\ ~Window!LateCall(n)
      BY <1>1, <1>y DEF Window!InvalidSample, Window!LateCall, WindowState
    <2>4. Window!Rotate(n)
      BY <2>1, <2>2, <2>3
    <2>5. active'.start = n
      BY <2>4 DEF Window!Rotate, Window!NextWindow, Window!Window
    <2> QED BY <2>5, <1>1 DEF n
  <1>4. CASE UNCHANGED windowVars
    BY <1>1, <1>4 DEF windowVars
  <1> QED BY <1>2, <1>3, <1>4 DEF Window!Next

(* A valid window has integrated every tick between its boundaries once.   *)
LEMMA CoverageSound ==
  ASSUME WindowInv, [Window!Next]_windowVars
  PROVE  Window!ValidWindowIsCovered
  <1> SUFFICES ASSUME NEW now \in 0 .. WindowWrap - 1, Window!Rotate(now),
                      Window!Completed(now).valid
               PROVE  Window!Completed(now).covered
                        = Window!Completed(now).length
    BY DEF Window!ValidWindowIsCovered, Window!Ticks
  <1>1. /\ active.sampled /\ ~active.invalid /\ Window!TailIsFresh(now)
        /\ last.valid
    BY DEF Window!Completed, Window!TailIsFresh
  <1>2. PICK late \in 0 .. WindowLate :
          now = (windowClock - late) % WindowWrap
    BY <1>1, BoundaryIsACall
  <1>3. ~Window!IsLate(now)
    BY DEF Window!Rotate
  <1>4. /\ Age(active.start) \in 0 .. WindowWrap - 1
        /\ Age(active.end) \in 0 .. WindowWrap - 1
        /\ Window!Since(now, active.start) = Age(active.start) - late
        /\ Window!Since(now, last.integrated) = Age(active.end) - late
    BY <1>1, <1>2, <1>3, CallFacts
  <1>5. active.covered = Age(active.start) - Age(active.end)
    BY <1>1 DEF WindowInv, ChargeAgrees
  <1>6. active.covered + Window!Tail(now) = Age(active.start) - late
    BY <1>4, <1>5 DEF Window!Tail
  <1> QED BY <1>1, <1>4, <1>6 DEF Window!Completed

(* No sample of a valid window stands for too long.                        *)
LEMMA SamplingSound == ASSUME WindowInv PROVE Window!ValidWindowIsSampled
  <1> SUFFICES ASSUME NEW now \in 0 .. WindowWrap - 1, Window!Rotate(now),
                      Window!Completed(now).valid
               PROVE  Window!Longer(spacing.gap, now) <= MaxGap
    BY DEF Window!ValidWindowIsSampled, Window!Ticks
  <1>1. /\ ~active.invalid /\ last.valid
        /\ Window!Since(now, last.tick) <= MaxGap
    BY DEF Window!Completed, Window!TailIsFresh
  <1>2. spacing.gap <= MaxGap /\ spacing.from = last.tick
    BY <1>1 DEF WindowInv, SpacingAgrees
  <1> QED BY <1>1, <1>2, LongerIsBounded DEF WindowInv

(* No tick is covered twice, and a calibration named is the only one.      *)
LEMMA ChargeSound ==
  WindowInv => Window!NoTickTwice /\ Window!ProvenanceIsUniform
  <1> SUFFICES ASSUME WindowInv
               PROVE  Window!NoTickTwice /\ Window!ProvenanceIsUniform
    OBVIOUS
  <1>y. /\ windowClock \in 0 .. WindowWrap - 1
        /\ active.start \in 0 .. WindowWrap - 1
        /\ active.end \in 0 .. WindowWrap - 1
    BY WindowTypes DEF WindowInv, WindowState
  <1>1. Ago(WindowWrap, active.end, active.start) =
          IF Age(active.start) >= Age(active.end)
          THEN Age(active.start) - Age(active.end)
          ELSE Age(active.start) - Age(active.end) + WindowWrap
    BY <1>y, AgesDiffer, WindowNumbers DEF Age
  <1>2. /\ Age(active.start) \in 0 .. WindowWrap - 1
        /\ Age(active.end) \in 0 .. WindowWrap - 1
    BY <1>y, AgesAreShort DEF WindowInv
  <1>3. Window!Since(active.end, active.start)
          = Age(active.start) - Age(active.end)
    BY <1>1, <1>2, SinceIsAgo DEF WindowInv, WindowAges
  <1>4. Window!NoTickTwice
    BY <1>3 DEF Window!NoTickTwice, WindowInv, ChargeAgrees
  <1>5. Window!ProvenanceIsUniform
    BY DEF Window!ProvenanceIsUniform, WindowInv, CalibrationAgrees
  <1> QED BY <1>4, <1>5

(* A window that is published as valid integrated every tick between its   *)
(* boundaries exactly once and was sampled without a gap, no window        *)
(* integrates a tick twice, and one that names a calibration used no       *)
(* other: for every wrap of the ticks, gap, length of a window and         *)
(* lateness of a call (ams_measurement.c 133-372).                         *)
THEOREM WindowHonesty == SubsystemsSpec => WindowIsHonest
  <1>1. [SubsystemsNext]_allVars => [Window!Next]_windowVars
    BY DEF SubsystemsNext, allVars, windowVars
  <1>2. WindowInv' => Window!NoTickTwice' /\ Window!ProvenanceIsUniform'
    BY ChargeSound, PTL
  <1>3. WindowInv /\ WindowInv' /\ [SubsystemsNext]_allVars =>
          [unit = "window" =>
             /\ Window!ValidWindowIsCovered
             /\ Window!ValidWindowIsSampled
             /\ Window!NoTickTwice'
             /\ Window!ProvenanceIsUniform']_allVars
    BY <1>1, <1>2, CoverageSound, SamplingSound
  <1> QED BY <1>3, WindowAlways, PTL DEF SubsystemsSpec, WindowIsHonest

-----------------------------------------------------------------------------
(* The mission request.                                                    *)

(* How many frames of the controller are still before the one the link     *)
(* awaits.                                                                 *)
Awaited == Ago(CounterMod, Mission!After(request.counter), ecu.counter)

(* Undisturbed frames bring the awaited one nearer; from then on they are  *)
(* believed.                                                               *)
LinkAgrees ==
  /\ ~request.seen => ecu.clean = 0
  /\ request.seen =>
       \/ Awaited + ecu.clean <= CounterMod - 1
       \/ /\ Awaited = 0
          /\ request.profile = ecu.profile
          /\ request.streak >= 1
          /\ request.streak = 2 \/ ecu.clean <= CounterMod

(* A request that confirms a standstill is no younger than it.             *)
StandstillAgrees == request.still => driven <= request.age

LimpAgrees ==
  strategy.limp => /\ strategy.active = "limp home"
                   /\ published \in {"none", "limp home"}

MissionInv ==
  Mission!TypeOK /\ LinkAgrees /\ StandstillAgrees /\ LimpAgrees

Ecu == [counter : 0 .. CounterMod - 1, profile : Requests,
        clean : 0 .. CounterMod + 1]

RequestState ==
  [seen : BOOLEAN, counter : 0 .. CounterMod - 1,
   profile : {"endurance", "qualify", "limp home"}, streak : 0 .. 2,
   still : BOOLEAN, age : 0 .. Mission!Oldest]

(* The type of the mission request, in its parts.                          *)
LEMMA MissionTypes ==
  Mission!TypeOK <=>
    /\ ecu \in Ecu /\ request \in RequestState
    /\ driven \in 0 .. Mission!Oldest
    /\ estimator \in [pc : {"idle", "update"}, late : 0 .. MissionLate]
    /\ strategy \in [active : {"endurance", "qualify", "limp home"},
                     limp : BOOLEAN]
    /\ published \in {"endurance", "qualify", "limp home", "none"}
  BY DEF Mission!TypeOK, Ecu, RequestState, Mission!Profiles,
         Mission!Trusted

(* The same after a step.                                                  *)
LEMMA MissionKeepsType ==
  ASSUME Mission!TypeOK, ecu' \in Ecu, request' \in RequestState,
         driven' \in 0 .. Mission!Oldest \/ driven' = driven,
         estimator' = estimator, strategy' = strategy, published' = published
  PROVE  Mission!TypeOK'
  BY DEF Mission!TypeOK, Ecu, RequestState, Mission!Profiles,
         Mission!Trusted

(* The numbers of the mission request.                                     *)
LEMMA MissionNumbers ==
  /\ CounterMod \in Nat \ {0} /\ CounterMod \in Nat /\ CounterMod >= 1
  /\ MaxAge \in Nat /\ MissionLate \in Nat /\ MaxHold \in Nat
  /\ Mission!Oldest \in Nat
  /\ Mission!Oldest = MaxAge + MissionLate + 1
  <1>1. CounterMod \in Nat \ {0}
    BY MissionAssumption
  <1>2. MaxAge \in Nat /\ MissionLate \in Nat /\ MaxHold \in Nat
    BY MissionAssumption
  <1>3. CounterMod \in Nat /\ CounterMod >= 1
    BY <1>1
  <1>4. Mission!Oldest \in Nat /\ Mission!Oldest = MaxAge + MissionLate + 1
    BY <1>2 DEF Mission!Oldest
  <1> QED BY <1>1, <1>2, <1>3, <1>4

(* A counter's successor is a counter.                                     *)
LEMMA CountersFollow ==
  ASSUME NEW c \in 0 .. CounterMod - 1
  PROVE  /\ Mission!After(c) \in 0 .. CounterMod - 1
         /\ (c - 1) % CounterMod \in 0 .. CounterMod - 1
  BY MissionNumbers DEF Mission!After

(* The awaited frame is the next one exactly when none is before it, and   *)
(* every frame of the controller brings it one nearer.                     *)
LEMMA AwaitedCounts ==
  ASSUME NEW r \in 0 .. CounterMod - 1, NEW c \in 0 .. CounterMod - 1
  PROVE  /\ Ago(CounterMod, r, c) \in 0 .. CounterMod - 1
         /\ Ago(CounterMod, r, c) = 0 <=> c = r
         /\ c # r => Ago(CounterMod, r, Mission!After(c))
                       = Ago(CounterMod, r, c) - 1
  <1>1. /\ Ago(CounterMod, r, c) = IF r >= c THEN r - c ELSE r - c + CounterMod
        /\ Ago(CounterMod, r, c) \in 0 .. CounterMod - 1
    BY Circle, MissionNumbers
  <1> DEFINE n == Mission!After(c)
  <1>2. /\ n = IF c = CounterMod - 1 THEN 0 ELSE c + 1
        /\ n \in 0 .. CounterMod - 1
    BY Circle, MissionNumbers DEF Mission!After
  <1> HIDE DEF n
  <1>3. Ago(CounterMod, r, n) = IF r >= n THEN r - n ELSE r - n + CounterMod
    BY <1>2, Circle, MissionNumbers
  <1>4. c # r => Ago(CounterMod, r, n) = Ago(CounterMod, r, c) - 1
    BY <1>1, <1>2, <1>3, MissionNumbers
  <1>5. Ago(CounterMod, r, c) = 0 <=> c = r
    BY <1>1, MissionNumbers
  <1> QED BY <1>1, <1>4, <1>5 DEF n

(* The mission request begins sound.                                       *)
LEMMA MissionInit == Mission!Init => MissionInv
  <1> SUFFICES ASSUME Mission!Init PROVE MissionInv
    OBVIOUS
  <1>1. /\ 0 \in 0 .. CounterMod - 1 /\ 0 \in 0 .. CounterMod + 1
        /\ 0 \in 0 .. Mission!Oldest
        /\ Mission!Oldest \in 0 .. Mission!Oldest
        /\ 0 \in 0 .. MissionLate
    BY MissionNumbers
  <1>2. ecu \in Ecu /\ ecu.clean = 0
    BY <1>1 DEF Mission!Init, Ecu
  <1>3. request \in RequestState /\ ~request.seen /\ ~request.still
    BY <1>1 DEF Mission!Init, RequestState
  <1>4. Mission!TypeOK
    BY <1>1, <1>2, <1>3, MissionTypes DEF Mission!Init
  <1>5. LinkAgrees /\ StandstillAgrees /\ LimpAgrees
    BY <1>2, <1>3 DEF LinkAgrees, StandstillAgrees, LimpAgrees, Mission!Init
  <1> QED BY <1>4, <1>5 DEF MissionInv

(* What the CAN task does with a frame.                                    *)
LEMMA IngestFacts ==
  ASSUME Mission!TypeOK, NEW c \in 0 .. CounterMod - 1, NEW p \in Requests,
         NEW still \in BOOLEAN, NEW age \in 0 .. MaxHold,
         still => driven <= age, StandstillAgrees,
         Mission!Ingest(c, p, still, age)
  PROVE  /\ request' \in RequestState
         /\ request'.still => driven <= request'.age
         /\ ~request.seen \/ c = Mission!After(request.counter) =>
              /\ request'.seen /\ request'.counter = c
              /\ request'.profile = p /\ request'.streak >= 1
              /\ /\ request.seen /\ request.profile = p
                 /\ request.streak >= 1
                 => request'.streak = 2
         /\ request.seen /\ c # Mission!After(request.counter) =>
              /\ request'.seen /\ request'.counter = request.counter
  <1>1. request \in RequestState /\ p \in {"endurance", "qualify", "limp home"}
    BY MissionTypes, MissionAssumption
  <1>r. /\ request.age \in 0 .. Mission!Oldest
        /\ request.streak \in 0 .. 2 /\ request.seen \in BOOLEAN
    BY <1>1 DEF RequestState
  <1>2. age \in 0 .. Mission!Oldest
    <2>1. age <= request.age
      BY DEF Mission!Ingest
    <2> QED BY <2>1, <1>r, MissionNumbers
  <1>3. CASE ~request.seen \/ c = Mission!After(request.counter)
    <2> DEFINE s == IF request.seen /\ request.profile = p
                      THEN Mission!UpTo(2, request.streak + 1) ELSE 1
    <2>1. request' = [seen |-> TRUE, counter |-> c, profile |-> p,
                      streak |-> s, still |-> still, age |-> age]
      BY <1>3 DEF Mission!Ingest, Mission!InSequence, Mission!Believed,
                  Mission!Trusted
    <2>2. /\ s \in 0 .. 2 /\ s >= 1
          /\ request.seen /\ request.profile = p /\ request.streak >= 1
             => s = 2
      BY <1>r DEF Mission!UpTo
    <2> HIDE DEF s
    <2> QED BY <2>1, <2>2, <1>1, <1>2, <1>3 DEF RequestState
  <1>4. CASE request.seen /\ c # Mission!After(request.counter)
    <2>1. request' = [request EXCEPT !.streak = 0]
      BY <1>4 DEF Mission!Ingest, Mission!InSequence, Mission!Rejected
    <2>2. request' \in RequestState
      <3>1. 0 \in 0 .. 2
        OBVIOUS
      <3> QED BY <3>1, <2>1, <1>1, Zenon DEF RequestState
    <2>3. /\ request'.seen = request.seen
          /\ request'.counter = request.counter
          /\ request'.still = request.still /\ request'.age = request.age
      BY <2>1, <1>1 DEF RequestState
    <2> QED BY <2>2, <2>3, <1>4 DEF StandstillAgrees
  <1> QED BY <1>1, <1>3, <1>4 DEF RequestState

(* A frame that comes through brings the awaited one nearer, or is it.     *)
LEMMA ReceiveInv ==
  ASSUME MissionInv, NEW p \in Requests, NEW still \in BOOLEAN,
         NEW age \in 0 .. MaxHold, Mission!Receive(p, still, age)
  PROVE  MissionInv'
  <1>y. Mission!TypeOK /\ ecu \in Ecu /\ request \in RequestState
    BY MissionTypes DEF MissionInv
  <1>c. /\ ecu.counter \in 0 .. CounterMod - 1
        /\ request.counter \in 0 .. CounterMod - 1
        /\ Mission!After(request.counter) \in 0 .. CounterMod - 1
        /\ ecu.clean \in 0 .. CounterMod + 1
        /\ request.streak \in 0 .. 2
    BY <1>y, CountersFollow DEF Ecu, RequestState
  <1> DEFINE k == IF p = ecu.profile
                    THEN Mission!UpTo(CounterMod + 1, ecu.clean + 1) ELSE 1
  <1>1. /\ ecu' = [counter |-> Mission!After(ecu.counter), profile |-> p,
                   clean |-> k]
        /\ still => driven <= age
        /\ Mission!Ingest(ecu.counter, p, still, age)
        /\ driven' = driven /\ estimator' = estimator
        /\ strategy' = strategy /\ published' = published
    BY DEF Mission!Receive
  <1>2. /\ k \in 0 .. CounterMod + 1 /\ k <= ecu.clean + 1
        /\ p # ecu.profile => k = 1
        /\ k >= 1
    BY <1>c, MissionNumbers DEF Mission!UpTo
  <1> HIDE DEF k
  <1>3. /\ request' \in RequestState
        /\ request'.still => driven <= request'.age
        /\ ~request.seen \/ ecu.counter = Mission!After(request.counter) =>
             /\ request'.seen /\ request'.counter = ecu.counter
             /\ request'.profile = p /\ request'.streak >= 1
             /\ /\ request.seen /\ request.profile = p
                /\ request.streak >= 1
                => request'.streak = 2
        /\ request.seen /\ ecu.counter # Mission!After(request.counter) =>
             /\ request'.seen /\ request'.counter = request.counter
    BY <1>1, <1>c, <1>y, IngestFacts DEF MissionInv
  <1>4. Mission!TypeOK'
    <2>1. ecu' \in Ecu
      BY <1>1, <1>2, <1>c, CountersFollow DEF Ecu
    <2> QED BY <2>1, <1>1, <1>3, <1>y, MissionKeepsType
  <1>5. LinkAgrees'
    <2>1. CASE ~request.seen \/ ecu.counter = Mission!After(request.counter)
      <3>1. Awaited' = 0
        <4>1. Mission!After(ecu.counter) \in 0 .. CounterMod - 1
          BY <1>c, CountersFollow
        <4>2. Ago(CounterMod, Mission!After(ecu.counter),
                  Mission!After(ecu.counter)) = 0
          BY <4>1, NowIsNow, MissionNumbers
        <4>3. request'.counter = ecu.counter
              /\ ecu'.counter = Mission!After(ecu.counter)
          BY <2>1, <1>1, <1>3
        <4> QED BY <4>2, <4>3 DEF Awaited
      <3>2. ecu'.clean = k /\ ecu'.profile = p
        BY <1>1
      <3>3. CASE p # ecu.profile \/ ~request.seen
        <4>1. k <= CounterMod
          BY <3>3, <1>2, <1>c, MissionNumbers DEF MissionInv, LinkAgrees
        <4> QED BY <3>1, <3>2, <4>1, <2>1, <1>3 DEF LinkAgrees
      <3>4. CASE p = ecu.profile /\ request.seen
        <4>1. Awaited = 0
          BY <3>4, <2>1, <1>c, AwaitedCounts DEF Awaited
        <4>2. \/ ecu.clean <= CounterMod - 1
              \/ request.profile = p /\ request.streak >= 1
          BY <4>1, <3>4, <1>c, MissionNumbers DEF MissionInv, LinkAgrees
        <4>3. request'.streak = 2 \/ k <= CounterMod
          BY <4>2, <3>4, <2>1, <1>2, <1>3, <1>c, MissionNumbers
        <4> QED BY <3>1, <3>2, <4>3, <2>1, <1>3 DEF LinkAgrees
      <3> QED BY <3>3, <3>4
    <2>2. CASE request.seen /\ ecu.counter # Mission!After(request.counter)
      <3>1. Awaited' = Awaited - 1 /\ Awaited \in 1 .. CounterMod - 1
        <4>1. /\ Awaited \in 0 .. CounterMod - 1 /\ Awaited # 0
              /\ Ago(CounterMod, Mission!After(request.counter),
                     Mission!After(ecu.counter)) = Awaited - 1
          BY <2>2, <1>c, AwaitedCounts DEF Awaited
        <4>2. /\ request'.counter = request.counter
              /\ ecu'.counter = Mission!After(ecu.counter)
          BY <2>2, <1>1, <1>3
        <4> QED BY <4>1, <4>2, MissionNumbers DEF Awaited
      <3>2. Awaited + ecu.clean <= CounterMod - 1
        BY <3>1, <2>2 DEF MissionInv, LinkAgrees
      <3>3. Awaited' + k <= CounterMod - 1
        BY <3>1, <3>2, <1>2, <1>c, MissionNumbers
      <3>4. request'.seen /\ ecu'.clean = k
        BY <2>2, <1>1, <1>3
      <3> QED BY <3>3, <3>4 DEF LinkAgrees
    <2> QED BY <2>1, <2>2
  <1>6. StandstillAgrees' /\ LimpAgrees'
    BY <1>1, <1>3 DEF MissionInv, StandstillAgrees, LimpAgrees
  <1> QED BY <1>4, <1>5, <1>6 DEF MissionInv

(* After a disturbance no frame counts yet.                                *)
LEMMA DisturbedAgrees ==
  ASSUME ecu' \in Ecu, request' \in RequestState, ecu'.clean = 0
  PROVE  LinkAgrees'
  <1>1. /\ ecu'.counter \in 0 .. CounterMod - 1
        /\ request'.counter \in 0 .. CounterMod - 1
    BY DEF Ecu, RequestState
  <1>2. Mission!After(request'.counter) \in 0 .. CounterMod - 1
    BY <1>1, CountersFollow
  <1>3. Ago(CounterMod, Mission!After(request'.counter), ecu'.counter)
          \in 0 .. CounterMod - 1
    BY <1>1, <1>2, AwaitedCounts
  <1>4. Awaited' + ecu'.clean <= CounterMod - 1
    BY <1>3, MissionNumbers DEF Awaited
  <1> QED BY <1>4 DEF LinkAgrees

(* A frame that comes twice breaks the row and confirms what the first     *)
(* one could.                                                              *)
LEMMA RepeatInv ==
  ASSUME MissionInv, NEW still \in BOOLEAN, NEW age \in 0 .. MaxHold,
         Mission!Repeat(still, age)
  PROVE  MissionInv'
  <1>y. Mission!TypeOK /\ ecu \in Ecu /\ request \in RequestState
    BY MissionTypes DEF MissionInv
  <1>c. /\ ecu.counter \in 0 .. CounterMod - 1 /\ ecu.profile \in Requests
        /\ (ecu.counter - 1) % CounterMod \in 0 .. CounterMod - 1
    BY <1>y, CountersFollow DEF Ecu
  <1>1. /\ ecu' = [ecu EXCEPT !.clean = 0]
        /\ still => driven <= age
        /\ Mission!Ingest((ecu.counter - 1) % CounterMod, ecu.profile, still,
                          age)
        /\ driven' = driven /\ estimator' = estimator
        /\ strategy' = strategy /\ published' = published
    BY DEF Mission!Repeat
  <1>2. ecu' \in Ecu /\ ecu'.clean = 0
    <2>1. 0 \in 0 .. CounterMod + 1
      BY MissionNumbers
    <2> QED BY <2>1, <1>1, <1>y DEF Ecu
  <1>3. request' \in RequestState /\ (request'.still => driven <= request'.age)
    <2> DEFINE c == (ecu.counter - 1) % CounterMod
    <2>1. /\ c \in 0 .. CounterMod - 1
          /\ Mission!Ingest(c, ecu.profile, still, age)
      BY <1>1, <1>c
    <2> HIDE DEF c
    <2> QED BY <2>1, <1>1, <1>c, <1>y, IngestFacts DEF MissionInv
  <1>4. Mission!TypeOK'
    BY <1>1, <1>2, <1>3, <1>y, MissionKeepsType
  <1>5. LinkAgrees'
    BY <1>2, <1>3, DisturbedAgrees
  <1>6. StandstillAgrees' /\ LimpAgrees'
    BY <1>1, <1>3 DEF MissionInv, StandstillAgrees, LimpAgrees
  <1> QED BY <1>4, <1>5, <1>6 DEF MissionInv

(* A lost, a garbled frame and a controller that starts again.             *)
LEMMA DisturbInv ==
  ASSUME MissionInv, Mission!Lose \/ Mission!Garble \/ Mission!Restart
  PROVE  MissionInv'
  <1>y. Mission!TypeOK /\ ecu \in Ecu /\ request \in RequestState
    BY MissionTypes DEF MissionInv
  <1>1. /\ driven' = driven /\ estimator' = estimator
        /\ strategy' = strategy /\ published' = published
    BY DEF Mission!Lose, Mission!Garble, Mission!Restart
  <1>2. ecu' \in Ecu /\ ecu'.clean = 0
    <2>1. /\ Mission!After(ecu.counter) \in 0 .. CounterMod - 1
          /\ 0 \in 0 .. CounterMod - 1 /\ 0 \in 0 .. CounterMod + 1
      BY <1>y, CountersFollow, MissionNumbers DEF Ecu
    <2>2. CASE Mission!Lose \/ Mission!Garble
      <3>1. ecu' = [ecu EXCEPT !.counter = Mission!After(@), !.clean = 0]
        BY <2>2 DEF Mission!Lose, Mission!Garble, Mission!Disturbed
      <3> QED BY <3>1, <2>1, <1>y DEF Ecu
    <2>3. CASE Mission!Restart
      <3>1. ecu' = [ecu EXCEPT !.counter = 0, !.clean = 0]
        BY <2>3 DEF Mission!Restart
      <3> QED BY <3>1, <2>1, <1>y DEF Ecu
    <2> QED BY <2>2, <2>3
  <1>3. /\ request' \in RequestState
        /\ request'.still = request.still /\ request'.age = request.age
    <2>1. CASE Mission!Lose \/ Mission!Restart
      BY <2>1, <1>y DEF Mission!Lose, Mission!Restart
    <2>2. CASE Mission!Garble
      <3>1. request' = [request EXCEPT !.streak = 0] /\ 0 \in 0 .. 2
        BY <2>2 DEF Mission!Garble, Mission!Rejected
      <3>2. request' \in RequestState
        BY <3>1, <1>y, Zenon DEF RequestState
      <3>3. request'.still = request.still /\ request'.age = request.age
        BY <3>1, <1>y DEF RequestState
      <3> QED BY <3>2, <3>3
    <2> QED BY <2>1, <2>2
  <1>4. Mission!TypeOK'
    BY <1>1, <1>2, <1>3, <1>y, MissionKeepsType
  <1>5. LinkAgrees'
    BY <1>2, <1>3, DisturbedAgrees
  <1>6. StandstillAgrees' /\ LimpAgrees'
    BY <1>1, <1>3 DEF MissionInv, StandstillAgrees, LimpAgrees
  <1> QED BY <1>4, <1>5, <1>6 DEF MissionInv

(* The estimator's steps leave the link alone; it is given a larger        *)
(* profile only while the pack never was too low.                          *)
LEMMA EstimatorInv ==
  ASSUME MissionInv,
         \/ Mission!Enter \/ Mission!Invalidate \/ Mission!Skip
         \/ \E low \in BOOLEAN : Mission!Solve(low)
  PROVE  MissionInv'
  <1>y. Mission!TypeOK /\ ecu \in Ecu /\ request \in RequestState
    BY MissionTypes DEF MissionInv
  <1>z. /\ estimator \in [pc : {"idle", "update"}, late : 0 .. MissionLate]
        /\ strategy \in [active : {"endurance", "qualify", "limp home"},
                         limp : BOOLEAN]
        /\ published \in {"endurance", "qualify", "limp home", "none"}
        /\ driven \in 0 .. Mission!Oldest
    BY <1>y, MissionTypes
  <1>1. ecu' = ecu /\ driven' = driven /\ request' = request
    BY DEF Mission!Enter, Mission!Invalidate, Mission!Skip, Mission!Solve
  <1>2. estimator' \in [pc : {"idle", "update"}, late : 0 .. MissionLate]
    <2>1. 0 \in 0 .. MissionLate
      BY MissionNumbers
    <2>2. \/ estimator' = [pc |-> "idle", late |-> 0]
          \/ estimator' = [pc |-> "update", late |-> 0]
      BY DEF Mission!Enter, Mission!Invalidate, Mission!Skip, Mission!Solve
    <2> QED BY <2>1, <2>2
  <1>3. /\ strategy' \in [active : {"endurance", "qualify", "limp home"},
                          limp : BOOLEAN]
        /\ published' \in {"endurance", "qualify", "limp home", "none"}
        /\ LimpAgrees'
    <2>1. CASE Mission!Enter \/ Mission!Invalidate \/ Mission!Skip
      <3>1. strategy' = strategy /\ published' \in {published, "none"}
        BY <2>1 DEF Mission!Enter, Mission!Invalidate, Mission!Skip
      <3> QED BY <3>1, <1>z DEF MissionInv, LimpAgrees
    <2>2. CASE \E low \in BOOLEAN : Mission!Solve(low)
      <3>1. PICK low \in BOOLEAN : Mission!Solve(low)
        BY <2>2
      <3> DEFINE l == strategy.limp \/ low
                 a == Mission!Chosen(l)
      <3>2. strategy' = [active |-> a, limp |-> l] /\ published' = a
        BY <3>1 DEF Mission!Solve
      <3>3. /\ a \in {"endurance", "qualify", "limp home"}
            /\ l => a = "limp home"
            /\ l \in BOOLEAN
        BY <1>y DEF Mission!Chosen, RequestState
      <3> HIDE DEF l, a
      <3>4. strategy'.active = a /\ strategy'.limp = l
        BY <3>2
      <3> QED BY <3>2, <3>3, <3>4 DEF LimpAgrees
    <2> QED BY <2>1, <2>2
  <1>4. Mission!TypeOK'
    BY <1>y, <1>z, <1>1, <1>2, <1>3
       DEF Mission!TypeOK, Ecu, RequestState, Mission!Profiles,
           Mission!Trusted
  <1>5. LinkAgrees' /\ StandstillAgrees'
    BY <1>1 DEF MissionInv, LinkAgrees, StandstillAgrees, Awaited
  <1> QED BY <1>3, <1>4, <1>5 DEF MissionInv

(* Time makes a request older by as much as a drive longer.                *)
LEMMA MissionTickInv ==
  ASSUME MissionInv, NEW stands \in BOOLEAN, Mission!Tick(stands)
  PROVE  MissionInv'
  <1>y. Mission!TypeOK /\ ecu \in Ecu /\ request \in RequestState
    BY MissionTypes DEF MissionInv
  <1>z. /\ estimator \in [pc : {"idle", "update"}, late : 0 .. MissionLate]
        /\ driven \in 0 .. Mission!Oldest
        /\ request.age \in 0 .. Mission!Oldest
    BY <1>y, MissionTypes DEF RequestState
  <1> DEFINE a == Mission!UpTo(Mission!Oldest, request.age + 1)
  <1>1. /\ ecu' = ecu /\ strategy' = strategy /\ published' = published
        /\ request' = [request EXCEPT !.age = a]
        /\ driven' = IF stands THEN 0
                     ELSE Mission!UpTo(Mission!Oldest, driven + 1)
    BY DEF Mission!Tick
  <1>2. /\ a \in 0 .. Mission!Oldest /\ driven' \in 0 .. Mission!Oldest
        /\ driven <= request.age => driven' <= a
    BY <1>1, <1>z, MissionNumbers DEF Mission!UpTo
  <1> HIDE DEF a
  <1>3. /\ request' \in RequestState /\ request'.age = a
        /\ request'.counter = request.counter
        /\ request'.profile = request.profile
        /\ request'.streak = request.streak
    BY <1>1, <1>2, <1>y DEF RequestState
  <1>4. (request'.seen <=> request.seen) /\ (request'.still <=> request.still)
    BY <1>1, <1>y DEF RequestState
  <1>5. estimator' \in [pc : {"idle", "update"}, late : 0 .. MissionLate]
    <2>1. CASE estimator.pc = "update"
      <3>1. estimator.late + 1 \in 0 .. MissionLate
        BY <2>1, <1>z, MissionNumbers DEF Mission!Tick
      <3>2. estimator' = [estimator EXCEPT !.late = estimator.late + 1]
        BY <2>1 DEF Mission!Tick
      <3> QED BY <3>1, <3>2, <1>z
    <2>2. CASE estimator.pc # "update"
      BY <2>2, <1>z DEF Mission!Tick
    <2> QED BY <2>1, <2>2
  <1>6. Mission!TypeOK'
    BY <1>y, <1>1, <1>2, <1>3, <1>5
       DEF Mission!TypeOK, Ecu, RequestState, Mission!Profiles,
           Mission!Trusted
  <1>7. LinkAgrees'
    BY <1>1, <1>3, <1>4 DEF MissionInv, LinkAgrees, Awaited
  <1>8. StandstillAgrees' /\ LimpAgrees'
    BY <1>1, <1>2, <1>3, <1>4 DEF MissionInv, StandstillAgrees, LimpAgrees
  <1> QED BY <1>6, <1>7, <1>8 DEF MissionInv

(* Every step of the mission request keeps it sound.                       *)
LEMMA MissionNext ==
  ASSUME MissionInv, Mission!Next
  PROVE  MissionInv'
  <1>1. ASSUME NEW still \in BOOLEAN, NEW age \in 0 .. MaxHold,
               \/ \E p \in Requests : Mission!Receive(p, still, age)
               \/ Mission!Repeat(still, age)
        PROVE  MissionInv'
    BY <1>1, ReceiveInv, RepeatInv
  <1>2. CASE Mission!Lose \/ Mission!Garble \/ Mission!Restart
    BY <1>2, DisturbInv
  <1>3. CASE \/ Mission!Enter \/ Mission!Invalidate \/ Mission!Skip
             \/ \E low \in BOOLEAN : Mission!Solve(low)
    BY <1>3, EstimatorInv
  <1>4. CASE \E stands \in BOOLEAN : Mission!Tick(stands)
    BY <1>4, MissionTickInv
  <1> QED BY <1>1, <1>2, <1>3, <1>4 DEF Mission!Next

(* Every step of the system keeps the mission request sound.               *)
LEMMA MissionStep ==
  MissionInv /\ [SubsystemsNext]_allVars => MissionInv'
  <1> SUFFICES ASSUME MissionInv, [SubsystemsNext]_allVars
               PROVE  MissionInv'
    OBVIOUS
  <1>1. CASE Mission!Next
    BY <1>1, MissionNext
  <1>2. CASE UNCHANGED missionVars
    BY <1>2 DEF missionVars, MissionInv, Mission!TypeOK, LinkAgrees, Awaited,
                StandstillAgrees, LimpAgrees
  <1>3. Mission!Next \/ UNCHANGED missionVars
    BY DEF SubsystemsNext, allVars, missionVars
  <1> QED BY <1>1, <1>2, <1>3

(* The invariant of the mission request holds in the system.               *)
LEMMA MissionAlways == SubsystemsSpec => []MissionInv
  <1>1. SubsystemsInit => MissionInv
    BY MissionInit DEF SubsystemsInit
  <1> QED BY <1>1, MissionStep, PTL DEF SubsystemsSpec

(* A controller that is undisturbed long enough is believed.               *)
LEMMA LinkSound == MissionInv => Mission!LinkResynchronizes
  <1> SUFFICES ASSUME MissionInv, ecu.clean > CounterMod
               PROVE  request.streak = 2
    BY DEF Mission!LinkResynchronizes, Mission!Trusted
  <1>1. /\ ecu.counter \in 0 .. CounterMod - 1
        /\ request.counter \in 0 .. CounterMod - 1
        /\ ecu.clean \in 0 .. CounterMod + 1
    BY MissionTypes DEF MissionInv, Ecu, RequestState
  <1>2. Awaited \in 0 .. CounterMod - 1
    BY <1>1, CountersFollow, AwaitedCounts DEF Awaited
  <1> QED BY <1>1, <1>2, MissionNumbers DEF MissionInv, LinkAgrees

(* Its profile is then applied by an update that finds the request fresh.  *)
LEMMA SteadySound ==
  ASSUME MissionInv
  PROVE  Mission!SteadyRequestIsApplied
  <1> SUFFICES ASSUME NEW low \in BOOLEAN, Mission!Solve(low),
                      ~strategy'.limp, ecu.clean > CounterMod,
                      request.age - estimator.late \in 0 .. MaxAge,
                      \/ request.still \/ ecu.profile # "qualify"
                      \/ strategy.active = "qualify"
               PROVE  published' = ecu.profile
    BY DEF Mission!SteadyRequestIsApplied
  <1>y. /\ ecu \in Ecu /\ request \in RequestState
        /\ estimator \in [pc : {"idle", "update"}, late : 0 .. MissionLate]
    BY MissionTypes DEF MissionInv
  <1>1. request.streak = 2
    BY LinkSound DEF Mission!LinkResynchronizes, Mission!Trusted
  <1>2. request.profile = ecu.profile
    <2>1. /\ ecu.counter \in 0 .. CounterMod - 1
          /\ request.counter \in 0 .. CounterMod - 1
          /\ ecu.clean \in 0 .. CounterMod + 1
      BY <1>y DEF Ecu, RequestState
    <2>2. Awaited \in 0 .. CounterMod - 1
      BY <2>1, CountersFollow, AwaitedCounts DEF Awaited
    <2>3. ~(Awaited + ecu.clean <= CounterMod - 1) /\ ecu.clean # 0
      BY <2>1, <2>2, MissionNumbers
    <2> QED BY <2>3 DEF MissionInv, LinkAgrees
  <1>3. Mission!IsFresh
    <2>1. request.age \in Int /\ estimator.late \in Int
      <3>1. request.age \in 0 .. Mission!Oldest
            /\ estimator.late \in 0 .. MissionLate
        BY <1>y DEF RequestState
      <3> QED BY <3>1
    <2>2. /\ request.age >= estimator.late
          /\ request.age - estimator.late <= MaxAge
      BY <2>1, MissionNumbers
    <2> QED BY <1>1, <2>2 DEF Mission!IsFresh, Mission!Trusted
  <1>4. ~Mission!QualifyBlocked
    BY <1>2 DEF Mission!QualifyBlocked
  <1> DEFINE l == strategy.limp \/ low
  <1>5. strategy' = [active |-> Mission!Chosen(l), limp |-> l]
        /\ published' = strategy'.active
    BY DEF Mission!Solve
  <1>6. ~l
    BY <1>5
  <1>7. Mission!Chosen(l) = request.profile
    BY <1>3, <1>4, <1>6 DEF Mission!Chosen
  <1> QED BY <1>2, <1>5, <1>7

(* The qualifying profile is entered only after a confirmed standstill.    *)
LEMMA QualifySound ==
  ASSUME MissionInv, [Mission!Next]_missionVars
  PROVE  Mission!QualifyFromStandstill
  <1> SUFFICES ASSUME strategy.active # "qualify",
                      strategy'.active = "qualify"
               PROVE  driven <= MaxAge + estimator.late
    BY DEF Mission!QualifyFromStandstill
  <1>y. /\ request \in RequestState /\ driven \in 0 .. Mission!Oldest
        /\ estimator \in [pc : {"idle", "update"}, late : 0 .. MissionLate]
    BY MissionTypes DEF MissionInv
  <1>1. \E low \in BOOLEAN : Mission!Solve(low)
    BY DEF Mission!Next, missionVars, Mission!Receive, Mission!Repeat,
           Mission!Lose, Mission!Garble, Mission!Restart, Mission!Enter,
           Mission!Invalidate, Mission!Skip, Mission!Tick
  <1>2. PICK low \in BOOLEAN : Mission!Solve(low)
    BY <1>1
  <1> DEFINE l == strategy.limp \/ low
  <1>3. Mission!Chosen(l) = "qualify"
    BY <1>2 DEF Mission!Solve
  <1>4. Mission!IsFresh /\ ~Mission!QualifyBlocked
        /\ request.profile = "qualify"
    BY <1>3 DEF Mission!Chosen
  <1>5. request.still /\ driven <= request.age
    BY <1>4 DEF Mission!QualifyBlocked, MissionInv, StandstillAgrees
  <1>6. request.age - estimator.late <= MaxAge
    BY <1>4 DEF Mission!IsFresh
  <1>7. /\ request.age \in Int /\ estimator.late \in Int /\ driven \in Int
    <2>1. /\ request.age \in 0 .. Mission!Oldest
          /\ driven \in 0 .. Mission!Oldest
          /\ estimator.late \in 0 .. MissionLate
      BY <1>y DEF RequestState
    <2> QED BY <2>1
  <1> QED BY <1>5, <1>6, <1>7, MissionNumbers

(* A pack once too low keeps its limits.                                   *)
LEMMA LimpSound ==
  ASSUME MissionInv, MissionInv', [Mission!Next]_missionVars
  PROVE  Mission!LimpIsForEver
  <1> SUFFICES ASSUME strategy.limp
               PROVE  strategy'.limp
    BY DEF Mission!LimpIsForEver, MissionInv, LimpAgrees
  <1>1. CASE \E low \in BOOLEAN : Mission!Solve(low)
    <2>1. PICK low \in BOOLEAN : Mission!Solve(low)
      BY <1>1
    <2> DEFINE l == strategy.limp \/ low
    <2>2. strategy' = [active |-> Mission!Chosen(l), limp |-> l]
      BY <2>1 DEF Mission!Solve
    <2>3. strategy'.limp = l
      BY <2>2
    <2> QED BY <2>3
  <1>2. CASE strategy' = strategy
    BY <1>2
  <1> QED BY <1>1, <1>2
    DEF Mission!Next, missionVars, Mission!Receive, Mission!Repeat,
        Mission!Lose, Mission!Garble, Mission!Restart, Mission!Enter,
        Mission!Invalidate, Mission!Skip, Mission!Tick

-----------------------------------------------------------------------------
(* Cell balancing.                                                         *)

(* The types of cell balancing.                                            *)
ChipState == [mute : BOOLEAN, plan : BOOLEAN]
DriverState == [shadow : BOOLEAN, mute : BOOLEAN, durable : BOOLEAN]
AppState == [request : BOOLEAN, active : BOOLEAN, durable : BOOLEAN,
             fault : BOOLEAN, diag : BOOLEAN]
PolicyState == [mode : {"charge", "drive"}, changing : BOOLEAN,
                inhibit : BOOLEAN, permit : BOOLEAN]
ScanState ==
  [pc : {"asleep", "serve", "mute", "clear", "record", "copy",
         "measure", "diagnose", "gate", "apply", "activate"},
   phase : {"start", "measured", "gate"}, required : BOOLEAN,
   ok : BOOLEAN, recovered : BOOLEAN, applied : BOOLEAN]
CliState == [pc : {"idle", "clear", "record", "finish"}, ok : BOOLEAN,
             transition : BOOLEAN]

LEMMA BalancingTypes ==
  Balancing!TypeOK <=>
    /\ chip \in ChipState /\ driver \in DriverState /\ app \in AppState
    /\ policy \in PolicyState /\ scan \in ScanState /\ cli \in CliState
    /\ dropper \in {"no", "ask", "skip"}
  BY DEF Balancing!TypeOK, ChipState, DriverState, AppState, PolicyState,
         ScanState, CliState

(* What a transaction leaves.                                              *)
LEMMA TransactionTypes ==
  ASSUME Balancing!TypeOK, NEW o,
         o \in Balancing!Zeroing \/ o \in Balancing!Planning
  PROVE  o.chip \in ChipState /\ o.driver \in DriverState /\ o.ok \in BOOLEAN
  <1>1. CASE o \in Balancing!Inhibit
    BY <1>1 DEF Balancing!Inhibit, ChipState, DriverState
  <1>2. ASSUME NEW ok \in BOOLEAN,
               o = [chip |-> chip, driver |-> driver, ok |-> ok]
        PROVE  /\ o.chip \in ChipState /\ o.driver \in DriverState
               /\ o.ok \in BOOLEAN
    <2>1. o.chip = chip /\ o.driver = driver /\ o.ok = ok
      BY <1>2
    <2> QED BY <2>1, BalancingTypes
  <1>3. CASE o = Balancing!Programmed
    BY <1>3 DEF Balancing!Programmed, ChipState, DriverState
  <1>4. CASE o \in Balancing!ProgramFailed
    <2>1. PICK c \in ChipState, m \in BOOLEAN :
            o = [chip |-> c,
                 driver |-> [shadow |-> FALSE, mute |-> m, durable |-> FALSE],
                 ok |-> FALSE]
      BY <1>4 DEF Balancing!ProgramFailed, ChipState
    <2> QED BY <2>1 DEF DriverState
  <1>5. CASE o = Balancing!Unready \/ o = Balancing!Kept
    BY <1>2, <1>5 DEF Balancing!Unready, Balancing!Kept
  <1> QED BY <1>1, <1>3, <1>4, <1>5
      DEF Balancing!Zeroing, Balancing!Planning

(* The fields that a step of the scan, the command line and the others     *)
(* change are still of their type.                                         *)
LEMMA BalancingTypeStep ==
  ASSUME Balancing!TypeOK, Balancing!Next
  PROVE  Balancing!TypeOK'
  <1>y. /\ chip \in ChipState /\ driver \in DriverState /\ app \in AppState
        /\ policy \in PolicyState /\ scan \in ScanState /\ cli \in CliState
        /\ dropper \in {"no", "ask", "skip"}
    BY BalancingTypes
  <1> DEFINE typed == /\ chip' \in ChipState /\ driver' \in DriverState
                      /\ app' \in AppState /\ policy' \in PolicyState
                      /\ scan' \in ScanState /\ cli' \in CliState
                      /\ dropper' \in {"no", "ask", "skip"}
  <1> SUFFICES typed
    BY DEF Balancing!TypeOK, ChipState, DriverState, AppState, PolicyState,
           ScanState, CliState
  <1>a. /\ Balancing!Dropped(policy) \in PolicyState
        /\ Balancing!Asked(app) \in AppState
        /\ Balancing!AfterService \in {"clear", "measure", "diagnose", "gate"}
    BY <1>y DEF Balancing!Dropped, Balancing!Asked, Balancing!AfterService,
                PolicyState, AppState
  <1>r. ASSUME NEW ok \in BOOLEAN, Balancing!Recorded(ok)
        PROVE  app' \in AppState /\ policy' \in PolicyState
    BY <1>r, <1>y, <1>a DEF Balancing!Recorded, AppState
  <1>1. CASE Balancing!Begin
    BY <1>1, <1>y DEF Balancing!Begin, ScanState, DriverState, AppState
  <1>2. CASE Balancing!Serve
    BY <1>2, <1>y, <1>a DEF Balancing!Serve, ScanState, AppState
  <1>3. CASE Balancing!Record
    <2>1. scan.ok \in BOOLEAN
      BY <1>y DEF ScanState
    <2>2. scan' \in ScanState
      BY <1>3, <1>y DEF Balancing!Record, ScanState
    <2> QED BY <1>3, <2>1, <2>2, <1>y, <1>r DEF Balancing!Record
  <1>4. CASE Balancing!Copy
    BY <1>4, <1>y DEF Balancing!Copy, Balancing!CopiedDurable, ScanState,
                      AppState, DriverState
  <1>5. CASE Balancing!Measure
    BY <1>5, <1>y DEF Balancing!Measure, ScanState
  <1>6. CASE Balancing!Diagnose
    BY <1>6, <1>y, <1>a DEF Balancing!Diagnose, ScanState, AppState
  <1>7. CASE Balancing!Activate
    BY <1>7, <1>y DEF Balancing!Activate, ScanState, AppState
  <1>8. ASSUME NEW healthy \in BOOLEAN, Balancing!Gate(healthy)
        PROVE  typed
    BY <1>8, <1>y DEF Balancing!Gate, ScanState
  <1>9. ASSUME NEW o \in Balancing!Zeroing, Balancing!Mute(o)
        PROVE  typed
    <2>1. /\ o.chip \in ChipState /\ o.driver \in DriverState
          /\ o.ok \in BOOLEAN
      BY TransactionTypes
    <2>2. app' \in AppState
      BY <1>9, <2>1, <1>y
         DEF Balancing!Mute, Balancing!Muted, AppState, DriverState
    <2> QED BY <1>9, <2>1, <2>2, <1>y, <1>a
        DEF Balancing!Mute, Balancing!Transact, ScanState
  <1>10. ASSUME NEW o \in Balancing!Zeroing, Balancing!Clear(o)
         PROVE  typed
    <2>1. /\ o.chip \in ChipState /\ o.driver \in DriverState
          /\ o.ok \in BOOLEAN
      BY TransactionTypes
    <2>2. o.driver.shadow \in BOOLEAN
      BY <2>1 DEF DriverState
    <2> QED BY <1>10, <2>1, <2>2, <1>y
        DEF Balancing!Clear, Balancing!Transact, ScanState
  <1>11. ASSUME NEW o \in Balancing!Planning, Balancing!Apply(o)
         PROVE  typed
    <2>1. /\ o.chip \in ChipState /\ o.driver \in DriverState
          /\ o.ok \in BOOLEAN
      BY TransactionTypes
    <2>2. o.driver.shadow \in BOOLEAN
      BY <2>1 DEF DriverState
    <2> QED BY <1>11, <2>1, <2>2, <1>y
        DEF Balancing!Apply, Balancing!Transact, ScanState
  <1>12. CASE Balancing!Release \/ Balancing!CliFinish
    BY <1>12, <1>y DEF Balancing!Release, Balancing!CliFinish, PolicyState,
                       CliState
  <1>13. CASE Balancing!CliRecord
    <2>1. cli.ok \in BOOLEAN
      BY <1>y DEF CliState
    <2>2. cli' \in CliState
      BY <1>13, <1>y DEF Balancing!CliRecord, CliState
    <2> QED BY <1>13, <2>1, <2>2, <1>y, <1>r DEF Balancing!CliRecord
  <1>14. ASSUME NEW inhibits \in BOOLEAN, Balancing!Command(inhibits)
         PROVE  typed
    BY <1>14, <1>y DEF Balancing!Command, PolicyState, CliState
  <1>15. ASSUME NEW to \in {"charge", "drive"}, Balancing!SetState(to)
         PROVE  typed
    BY <1>15, <1>y, <1>a DEF Balancing!SetState, PolicyState, CliState
  <1>16. ASSUME NEW o \in Balancing!Zeroing, Balancing!CliClear(o)
         PROVE  typed
    <2>1. /\ o.chip \in ChipState /\ o.driver \in DriverState
          /\ o.ok \in BOOLEAN
      BY TransactionTypes
    <2> QED BY <1>16, <2>1, <1>y
        DEF Balancing!CliClear, Balancing!Transact, CliState
  <1>17. CASE Balancing!Look \/ Balancing!Drop
    BY <1>17, <1>y, <1>a DEF Balancing!Look, Balancing!Drop
  <1>18. CASE Balancing!ChipForgets
    <2>1. PICK plan \in {chip.plan, FALSE} :
            chip' = [mute |-> FALSE, plan |-> plan]
      BY <1>18 DEF Balancing!ChipForgets
    <2>2. plan \in BOOLEAN
      BY <1>y DEF ChipState
    <2>3. chip' \in ChipState
      BY <2>1, <2>2 DEF ChipState
    <2> QED BY <1>18, <2>3, <1>y DEF Balancing!ChipForgets
  <1>19. ASSUME NEW healthy \in BOOLEAN, Balancing!Supervise(healthy)
         PROVE  typed
    BY <1>19, <1>y, <1>a DEF Balancing!Supervise, PolicyState, AppState
  <1> HIDE DEF typed
  <1>20. CASE Balancing!ScanStep
    <2>1. CASE \/ Balancing!Begin \/ Balancing!Serve \/ Balancing!Record
               \/ Balancing!Copy \/ Balancing!Measure
               \/ Balancing!Diagnose \/ Balancing!Activate
      BY <2>1, <1>1, <1>2, <1>3, <1>4, <1>5, <1>6, <1>7
    <2>2. CASE \E healthy \in BOOLEAN : Balancing!Gate(healthy)
      BY <2>2, <1>8
    <2>3. CASE \E o \in Balancing!Zeroing :
                 Balancing!Mute(o) \/ Balancing!Clear(o)
      BY <2>3, <1>9, <1>10
    <2>4. CASE \E o \in Balancing!Planning : Balancing!Apply(o)
      BY <2>4, <1>11
    <2> QED BY <1>20, <2>1, <2>2, <2>3, <2>4 DEF Balancing!ScanStep
  <1>21. CASE Balancing!Cli
    BY <1>21, <1>12, <1>13, <1>14, <1>15, <1>16 DEF Balancing!Cli
  <1> QED BY <1>20, <1>21, <1>17, <1>19, <1>18 DEF Balancing!Next

(* Where a scan may be in each of its phases; what it has applied is in    *)
(* the shadow until it sleeps.                                             *)
ScanPhases ==
  /\ scan.pc \in {"asleep", "measure"} => scan.phase = "start"
  /\ scan.pc = "diagnose" => scan.phase = "measured"
  /\ scan.pc \in {"gate", "apply", "activate"} => scan.phase = "gate"
  /\ scan.pc \in {"clear", "record", "copy"} => scan.phase # "measured"
  /\ scan.applied => /\ scan.pc \in {"record", "copy", "activate"}
                     /\ scan.phase = "gate" /\ driver.shadow

(* A write that is recorded as good left no request but the one applied,   *)
(* and a scan that recovered cleared the chips.                            *)
WritesAreJudged ==
  /\ driver.durable => ~chip.plan
  /\ scan.pc = "record" /\ scan.ok /\ chip.plan => scan.applied
  /\ scan.pc = "copy" /\ scan.phase = "start" /\ scan.recovered => ~chip.plan

(* A clearing by the command line whose result is not recorded yet.        *)
FailureUnrecorded == cli.pc = "record" /\ ~cli.ok
SuccessUnrecorded == cli.pc = "record" /\ cli.ok

(* A request the shadow does not show.                                     *)
Left == chip.plan /\ ~driver.shadow

(* Whoever left it has asked for a mute or raised the fault, and at each   *)
(* point of a scan one of the two still stands, although the scan consumes *)
(* the request and the command line may clear the fault.                   *)
LeftIsOwed ==
  /\ scan.pc = "asleep" /\ Left =>
       \/ FailureUnrecorded
       \/ /\ app.request /\ (app.fault \/ ~app.active)
          /\ SuccessUnrecorded => app.fault /\ ~app.active
  /\ scan.phase = "start" /\ scan.pc \in {"serve", "mute"} =>
       /\ driver.shadow => scan.required
       /\ SuccessUnrecorded /\ chip.plan => scan.required
  /\ scan.phase \in {"start", "gate"} /\ scan.pc = "serve" /\ Left =>
       FailureUnrecorded \/ app.request
  /\ scan.pc = "measure" /\ Left =>
       FailureUnrecorded \/ app.request \/ (app.fault /\ ~SuccessUnrecorded)
  /\ scan.phase = "measured" /\ scan.pc = "serve" /\ Left =>
       FailureUnrecorded \/ app.request \/ app.fault
  /\ scan.pc \in {"diagnose", "gate"} /\ Left =>
       FailureUnrecorded \/ app.fault
  /\ scan.pc = "copy" /\ Left => app.request /\ app.fault
  /\ scan.pc = "activate" /\ Left =>
       FailureUnrecorded \/ (app.request /\ app.fault)

(* A request that a recovered scan did not clear is known.                 *)
RestIsKnown ==
  scan.pc = "measure" /\ scan.recovered /\ chip.plan =>
    FailureUnrecorded \/ (app.fault /\ ~SuccessUnrecorded)

(* A change of state is one of the command line and holds the permit down  *)
(* until it has tried to clear the plan.                                   *)
ChangesAreHeld ==
  /\ policy.changing <=> cli.transition
  /\ policy.changing => cli.pc # "idle" /\ ~policy.permit
  /\ cli.pc = "finish" => cli.transition

(* Once it has, no scan applies a plan in drive, and a request that is     *)
(* still there keeps the permit away by itself: its fault shows, or        *)
(* nothing of the bleeding is believed.                                    *)
DriveIsSettled ==
  policy.mode = "drive" =>
    /\ ~policy.changing \/ cli.pc \in {"record", "finish"} =>
         scan.pc # "apply" /\ ~scan.applied
    /\ SuccessUnrecorded => ~chip.plan
    /\ (~policy.changing \/ cli.pc = "finish") /\ chip.plan =>
         (app.diag /\ app.fault) \/ (~app.active /\ ~app.durable)
    /\ policy.permit => ~chip.plan

BalancingInv ==
  /\ Balancing!TypeOK /\ ScanPhases /\ WritesAreJudged /\ LeftIsOwed
  /\ RestIsKnown /\ ChangesAreHeld /\ DriveIsSettled
  /\ Balancing!DurableIsZero

(* A clearing that reports success left nothing, and none adds a request.  *)
LEMMA ZeroingClears ==
  ASSUME BalancingInv, NEW o \in Balancing!Zeroing
  PROVE  /\ o.chip \in ChipState /\ o.driver \in DriverState
         /\ o.ok \in BOOLEAN
         /\ o.ok => o.driver.durable
         /\ o.driver.durable => ~o.chip.plan
         /\ o.chip.plan => chip.plan
         /\ o.driver.shadow => driver.shadow
  <1>1. /\ o.chip \in ChipState /\ o.driver \in DriverState
        /\ o.ok \in BOOLEAN
    BY TransactionTypes DEF BalancingInv
  <1>2. CASE o \in Balancing!Inhibit
    BY <1>1, <1>2 DEF Balancing!Inhibit, ChipState, DriverState
  <1>3. CASE o = Balancing!Unready
    BY <1>1, <1>3 DEF Balancing!Unready, BalancingInv, WritesAreJudged
  <1> QED BY <1>1, <1>2, <1>3 DEF Balancing!Zeroing

(* A plan that reports success with a request in the chips shows it in the *)
(* shadow.                                                                 *)
LEMMA PlanningShows ==
  ASSUME BalancingInv, NEW o \in Balancing!Planning
  PROVE  /\ o.chip \in ChipState /\ o.driver \in DriverState
         /\ o.ok \in BOOLEAN
         /\ o.driver.durable => ~o.chip.plan
         /\ o.ok /\ o.chip.plan => o.driver.shadow
  <1>1. /\ o.chip \in ChipState /\ o.driver \in DriverState
        /\ o.ok \in BOOLEAN
    BY TransactionTypes DEF BalancingInv
  <1>2. CASE o \in Balancing!Zeroing
    BY <1>2, ZeroingClears
  <1>3. CASE o = Balancing!Programmed
    <2>1. ~o.driver.durable /\ o.driver.shadow
      BY <1>3 DEF Balancing!Programmed
    <2> QED BY <1>1, <2>1
  <1>4. CASE o \in Balancing!ProgramFailed
    <2>1. PICK c \in ChipState, m \in BOOLEAN :
            o = [chip |-> c,
                 driver |-> [shadow |-> FALSE, mute |-> m, durable |-> FALSE],
                 ok |-> FALSE]
      BY <1>4 DEF Balancing!ProgramFailed, ChipState
    <2> QED BY <1>1, <2>1
  <1>5. CASE o = Balancing!Unready
    BY <1>5, ZeroingClears DEF Balancing!Zeroing
  <1>6. CASE o = Balancing!Kept /\ driver.durable
    BY <1>1, <1>6 DEF Balancing!Kept, BalancingInv, WritesAreJudged
  <1> QED BY <1>2, <1>3, <1>4, <1>5, <1>6 DEF Balancing!Planning

(* What the record of a write changes: a failure asks for a mute, raises   *)
(* the fault and drops the permit, a success clears the fault.             *)
LEMMA RecordTells ==
  ASSUME BalancingInv, NEW ok \in BOOLEAN, Balancing!Recorded(ok)
  PROVE  /\ app'.active = app.active /\ app'.durable = app.durable
         /\ policy'.mode = policy.mode /\ policy'.changing = policy.changing
         /\ ok => /\ ~app'.fault /\ app'.request = app.request
                  /\ policy' = policy
         /\ ~ok => /\ app'.fault /\ app'.diag /\ app'.request
                   /\ ~policy'.permit
  <1>1. app \in AppState /\ policy \in PolicyState
    BY BalancingTypes DEF BalancingInv
  <1>2. CASE ok
    BY <1>1, <1>2 DEF Balancing!Recorded, AppState
  <1>3. CASE ~ok
    BY <1>1, <1>3 DEF Balancing!Recorded, Balancing!Asked,
                      Balancing!Dropped, AppState, PolicyState
  <1> QED BY <1>2, <1>3

(* Every step of the balancing keeps the invariant.                        *)
LEMMA BalancingStep ==
  ASSUME BalancingInv, Balancing!Next
  PROVE  BalancingInv'
  <1>a. /\ chip \in ChipState /\ driver \in DriverState /\ app \in AppState
        /\ policy \in PolicyState /\ scan \in ScanState /\ cli \in CliState
    BY BalancingTypes DEF BalancingInv
  <1>b. /\ chip' \in ChipState /\ driver' \in DriverState
        /\ app' \in AppState /\ policy' \in PolicyState
        /\ scan' \in ScanState /\ cli' \in CliState /\ Balancing!TypeOK'
    BY BalancingTypeStep
       DEF BalancingInv, Balancing!TypeOK, ChipState, DriverState, AppState,
           PolicyState, ScanState, CliState
  <1> DEFINE promised ==
        /\ ScanPhases' /\ WritesAreJudged' /\ LeftIsOwed' /\ RestIsKnown'
        /\ ChangesAreHeld' /\ DriveIsSettled' /\ Balancing!DurableIsZero'
  <1> SUFFICES promised
    BY <1>b DEF BalancingInv
  <1> USE DEF BalancingInv, ScanPhases, WritesAreJudged, LeftIsOwed,
              RestIsKnown, ChangesAreHeld, DriveIsSettled,
              Balancing!DurableIsZero, Left, FailureUnrecorded,
              SuccessUnrecorded, ChipState, DriverState, AppState,
              PolicyState, ScanState, CliState
  <1>1. CASE Balancing!Begin
    BY <1>1, <1>a, <1>b DEF Balancing!Begin
  <1>2. CASE Balancing!Serve
    BY <1>2, <1>a, <1>b DEF Balancing!Serve, Balancing!AfterService
  <1>3. CASE Balancing!Record
    <2>1. Balancing!Recorded(scan.ok) /\ scan.ok \in BOOLEAN
      BY <1>3, <1>a DEF Balancing!Record
    <2> QED BY <1>3, <2>1, <1>a, <1>b, RecordTells DEF Balancing!Record
  <1>4. CASE Balancing!Copy
    BY <1>4, <1>a, <1>b DEF Balancing!Copy, Balancing!CopiedDurable
  <1>5. CASE Balancing!Measure
    BY <1>5, <1>a, <1>b DEF Balancing!Measure
  <1>6. CASE Balancing!Diagnose
    BY <1>6, <1>a, <1>b DEF Balancing!Diagnose, Balancing!Dropped
  <1>7. CASE Balancing!Activate
    BY <1>7, <1>a, <1>b DEF Balancing!Activate
  <1>8. ASSUME NEW healthy \in BOOLEAN, Balancing!Gate(healthy)
        PROVE  promised
    BY <1>8, <1>a, <1>b DEF Balancing!Gate, Balancing!MayBalance
  <1>9. ASSUME NEW o \in Balancing!Zeroing, Balancing!Mute(o)
        PROVE  promised
    <2>1. /\ chip' = o.chip /\ driver' = o.driver
          /\ app'.request = app.request /\ ~app'.active
          /\ app'.durable = driver'.durable /\ app'.diag = app.diag
          /\ app.fault \/ ~o.ok => app'.fault
          /\ scan.pc = "mute"
          /\ scan' = [scan EXCEPT !.pc = Balancing!AfterService]
          /\ UNCHANGED <<policy, cli>>
      BY <1>9, <1>a
         DEF Balancing!Mute, Balancing!Muted, Balancing!Transact
    <2> QED BY <2>1, <1>a, <1>b, ZeroingClears DEF Balancing!AfterService
  <1>10. ASSUME NEW o \in Balancing!Zeroing, Balancing!Clear(o)
         PROVE  promised
    <2>1. chip' = o.chip /\ driver' = o.driver
      BY <1>10 DEF Balancing!Clear, Balancing!Transact
    <2> QED BY <1>10, <2>1, <1>a, <1>b, ZeroingClears DEF Balancing!Clear
  <1>11. ASSUME NEW o \in Balancing!Planning, Balancing!Apply(o)
         PROVE  promised
    <2>1. chip' = o.chip /\ driver' = o.driver
      BY <1>11 DEF Balancing!Apply, Balancing!Transact
    <2> QED BY <1>11, <2>1, <1>a, <1>b, PlanningShows DEF Balancing!Apply
  <1>12. ASSUME NEW o \in Balancing!Zeroing, Balancing!CliClear(o)
         PROVE  promised
    <2>1. chip' = o.chip /\ driver' = o.driver
      BY <1>12 DEF Balancing!CliClear, Balancing!Transact
    <2> QED BY <1>12, <2>1, <1>a, <1>b, ZeroingClears DEF Balancing!CliClear
  <1>13. CASE Balancing!CliRecord
    <2>1. Balancing!Recorded(cli.ok) /\ cli.ok \in BOOLEAN
      BY <1>13, <1>a DEF Balancing!CliRecord
    <2> QED BY <1>13, <2>1, <1>a, <1>b, RecordTells
        DEF Balancing!CliRecord, Balancing!CliRuns, Balancing!Waits
  <1>14. CASE Balancing!CliFinish
    BY <1>14, <1>a, <1>b DEF Balancing!CliFinish
  <1>15. ASSUME NEW inhibits \in BOOLEAN, Balancing!Command(inhibits)
         PROVE  promised
    BY <1>15, <1>a, <1>b DEF Balancing!Command
  <1>16. CASE Balancing!Release
    BY <1>16, <1>a, <1>b DEF Balancing!Release
  <1>17. ASSUME NEW to \in {"charge", "drive"}, Balancing!SetState(to)
         PROVE  promised
    BY <1>17, <1>a, <1>b DEF Balancing!SetState, Balancing!Dropped,
                             Balancing!Asked, Balancing!CliRuns,
                             Balancing!Waits
  <1>18. CASE Balancing!Look
    BY <1>18, <1>a, <1>b DEF Balancing!Look
  <1>19. CASE Balancing!Drop
    BY <1>19, <1>a, <1>b DEF Balancing!Drop, Balancing!Dropped, Balancing!Asked
  <1>20. CASE Balancing!ChipForgets
    <2>1. PICK plan \in {chip.plan, FALSE} :
            chip' = [mute |-> FALSE, plan |-> plan]
      BY <1>20 DEF Balancing!ChipForgets
    <2>2. chip'.plan => chip.plan
      BY <2>1
    <2> QED BY <1>20, <2>2, <1>a, <1>b DEF Balancing!ChipForgets
  <1>21. ASSUME NEW healthy \in BOOLEAN, Balancing!Supervise(healthy)
         PROVE  promised
    BY <1>21, <1>a, <1>b DEF Balancing!Supervise, Balancing!Asked
  <1> HIDE DEF promised, BalancingInv
  <1>22. CASE Balancing!ScanStep
    <2>1. CASE \/ Balancing!Begin \/ Balancing!Serve \/ Balancing!Record
               \/ Balancing!Copy \/ Balancing!Measure
               \/ Balancing!Diagnose \/ Balancing!Activate
      BY <2>1, <1>1, <1>2, <1>3, <1>4, <1>5, <1>6, <1>7
    <2>2. CASE \E healthy \in BOOLEAN : Balancing!Gate(healthy)
      BY <2>2, <1>8
    <2>3. CASE \E o \in Balancing!Zeroing :
                 Balancing!Mute(o) \/ Balancing!Clear(o)
      BY <2>3, <1>9, <1>10
    <2>4. CASE \E o \in Balancing!Planning : Balancing!Apply(o)
      BY <2>4, <1>11
    <2> QED BY <1>22, <2>1, <2>2, <2>3, <2>4 DEF Balancing!ScanStep
  <1>23. CASE Balancing!Cli
    BY <1>23, <1>12, <1>13, <1>14, <1>15, <1>16, <1>17 DEF Balancing!Cli
  <1> QED BY <1>22, <1>23, <1>18, <1>19, <1>20, <1>21 DEF Balancing!Next

(* The chips start in any state; nothing is believed of them but what was  *)
(* read back.                                                              *)
LEMMA BalancingInit == Balancing!Init => BalancingInv
  <1> SUFFICES ASSUME Balancing!Init PROVE BalancingInv
    OBVIOUS
  <1>1. PICK mute \in BOOLEAN, durable \in BOOLEAN :
          /\ durable => ~chip.plan
          /\ driver = [shadow |-> FALSE, mute |-> mute, durable |-> durable]
          /\ app = [request |-> TRUE, active |-> FALSE, durable |-> durable,
                    fault |-> FALSE, diag |-> FALSE]
    BY DEF Balancing!Init
  <1>2. driver \in DriverState /\ app \in AppState
    BY <1>1 DEF DriverState, AppState
  <1>3. /\ chip \in ChipState /\ policy \in PolicyState
        /\ scan \in ScanState /\ cli \in CliState
        /\ dropper \in {"no", "ask", "skip"}
    BY DEF Balancing!Init, ChipState, PolicyState, ScanState, CliState
  <1>4. Balancing!TypeOK
    BY <1>2, <1>3, BalancingTypes
  <1>5. /\ scan.pc = "asleep" /\ scan.phase = "start" /\ ~scan.applied
        /\ cli.pc = "idle" /\ ~cli.transition /\ ~policy.changing
        /\ ~policy.permit
    BY DEF Balancing!Init
  <1> QED BY <1>1, <1>2, <1>4, <1>5
      DEF BalancingInv, ScanPhases, WritesAreJudged, LeftIsOwed,
          RestIsKnown, ChangesAreHeld, DriveIsSettled,
          Balancing!DurableIsZero, Left, FailureUnrecorded,
          SuccessUnrecorded

(* The invariant is enough for what the run checks.                        *)
LEMMA BalancingSound ==
  ASSUME BalancingInv
  PROVE  /\ Balancing!DurableIsZero /\ Balancing!PlanIsRemembered
         /\ Balancing!DriveDoesNotBleed /\ Balancing!MeasuredAtRest
  <1>1. Balancing!PlanIsRemembered
    BY BalancingTypes
       DEF BalancingInv, LeftIsOwed, Left, FailureUnrecorded,
           Balancing!DurableIsZero, Balancing!PlanIsRemembered, AppState,
           ScanState, DriverState, ChipState
  <1>2. Balancing!DriveDoesNotBleed
    BY DEF BalancingInv, DriveIsSettled, Balancing!DriveDoesNotBleed,
           Balancing!Bleeding
  <1>3. Balancing!MeasuredAtRest
    BY DEF BalancingInv, RestIsKnown, FailureUnrecorded,
           Balancing!MeasuredAtRest, Balancing!Measure, Balancing!Bleeding
  <1> QED BY <1>1, <1>2, <1>3 DEF BalancingInv

-----------------------------------------------------------------------------
(* The system.                                                             *)

(* Every step of the system keeps the invariants of the balancing and of   *)
(* the measurement store.                                                  *)
LEMMA OthersStep ==
  Inv /\ BalancingInv /\ [SubsystemsNext]_allVars => Inv' /\ BalancingInv'
  <1> SUFFICES ASSUME Inv, BalancingInv, [SubsystemsNext]_allVars
               PROVE  Inv' /\ BalancingInv'
    OBVIOUS
  <1>1. [Next]_vars /\ (Balancing!Next \/ UNCHANGED balancingVars)
    BY DEF SubsystemsNext, allVars, vars, balancingVars
  <1>2. Inv'
    BY <1>1, NextInv
  <1>3. CASE UNCHANGED balancingVars
    BY <1>2, <1>3
       DEF balancingVars, BalancingInv, Balancing!TypeOK, ScanPhases,
           WritesAreJudged, LeftIsOwed, RestIsKnown, ChangesAreHeld,
           DriveIsSettled, Balancing!DurableIsZero, Left,
           FailureUnrecorded, SuccessUnrecorded
  <1>4. CASE Balancing!Next
    BY <1>2, <1>4, BalancingStep
  <1> QED BY <1>1, <1>3, <1>4

(* ... and they hold in the beginning and ever after.                      *)
LEMMA OthersAlways == SubsystemsSpec => [](Inv /\ BalancingInv)
  <1>1. SubsystemsInit => Inv /\ BalancingInv
    BY InitInv, BalancingInit DEF SubsystemsInit
  <1> QED BY <1>1, OthersStep, PTL DEF SubsystemsSpec

(* In the composed system too the store is a register: a read answers with *)
(* the epoch that was the latest when it began, for any number of readers, *)
(* parts and sequence numbers (ams_measurement.c 382-553).                 *)
THEOREM SubsystemsRegister == SubsystemsSpec => KeepsRegister
  <1>1. SubsystemsInit => Register!Init
    BY InitRefines DEF SubsystemsInit
  <1>2. Inv /\ [SubsystemsNext]_allVars => [Register!Next]_Register!vars
    <2>1. [SubsystemsNext]_allVars => [Next]_vars
      BY DEF SubsystemsNext, allVars, vars
    <2> QED BY <2>1, NextRefines
  <1> QED BY <1>1, <1>2, OthersAlways, PTL
      DEF SubsystemsSpec, KeepsRegister, Register!Spec

(* What the firmware believes of the bleed resistors is so: a zero state   *)
(* called verified is one, a request left in the chips is not forgotten, a *)
(* pack that drives does not bleed, and no cell is measured under load     *)
(* unnoticed: whatever the writes to the chips do, wherever a mute is      *)
(* asked for, a state changed, a plan cleared or a chip times out between  *)
(* two steps of a scan (adbms_task.c 1341-1793, accumulator.c 1880-2100).  *)
THEOREM BalancingHonesty == SubsystemsSpec => BalancingIsHonest
  <1>1. BalancingInv' =>
          /\ Balancing!DurableIsZero' /\ Balancing!PlanIsRemembered'
          /\ Balancing!DriveDoesNotBleed'
    BY BalancingSound, PTL
  <1>2. BalancingInv /\ BalancingInv' /\ [SubsystemsNext]_allVars =>
          [unit = "balancing" =>
             /\ Balancing!DurableIsZero'
             /\ Balancing!PlanIsRemembered'
             /\ Balancing!DriveDoesNotBleed'
             /\ Balancing!MeasuredAtRest]_allVars
    BY <1>1, BalancingSound
  <1> QED BY <1>2, OthersAlways, PTL DEF SubsystemsSpec, BalancingIsHonest

(* Every object keeps its type.                                            *)
THEOREM SubsystemsTypes == SubsystemsSpec => []SubsystemsTypeOK
  <1>1. /\ Inv /\ BalancingInv /\ WindowInv /\ ImdInv /\ PoliciesInv
        /\ LocksInv /\ MissionInv /\ WatchdogP!Inv /\ RingP!Inv
        => SubsystemsTypeOK
    <2>1. WatchdogP!Inv => Watchdog!TypeOK
      BY WatchdogIsSame DEF WatchdogP!Inv, WatchdogP!Types
    <2>2. RingP!Inv => Ring!TypeOK
      BY RingIsSame DEF RingP!Inv
    <2>3. /\ WindowInv => Window!TypeOK
          /\ ImdInv => Imd!TypeOK
          /\ PoliciesInv => Policies!TypeOK
          /\ LocksInv => Locks!TypeOK
          /\ MissionInv => Mission!TypeOK
          /\ Inv => TypeOK
          /\ BalancingInv => Balancing!TypeOK
      BY DEF WindowInv, ImdInv, PoliciesInv, LocksInv, MissionInv, Inv,
             BalancingInv
    <2> QED BY <2>1, <2>2, <2>3 DEF SubsystemsTypeOK
  <1> QED BY <1>1, OthersAlways, WindowAlways, ImdAlways,
             PoliciesAlways, LocksAlways, MissionAlways, LiftedInvariants, PTL

(* What arrives on CAN reaches the decisions it is for: the ring delivers  *)
(* whole frames in order, loses one only when it is full and reports every *)
(* loss once; a mission request is believed after a round of the counter   *)
(* without a disturbance, applied while it is fresh, entered from a        *)
(* standstill only, and never against a pack once too low: for every depth *)
(* of the ring, modulus of the counter, age and delay (canbus.c 321-392,   *)
(* 1910-2044, ams_power_strategy.c 58-121, 248-280).                       *)
THEOREM CanInputsSoundness == SubsystemsSpec => CanInputsAreSound
  <1>1. [SubsystemsNext]_allVars => [Mission!Next]_missionVars
    BY DEF SubsystemsNext, allVars, missionVars
  <1>2. RingP!Inv => /\ Ring!DeliversInOrder /\ Ring!DropsMeanFull
                     /\ Ring!CycleServesWaiting /\ Ring!LossesAreRecorded
    BY RingReady, RingIsSame, RingP!DeliverySound, RingP!DropSound,
       RingP!CycleSound, RingP!LossSound
  <1>3. RingP!Inv' => Ring!LossesAreRecorded'
    BY <1>2, PTL
  <1>4. MissionInv' => Mission!LinkResynchronizes'
    BY LinkSound, PTL
  <1>5. MissionInv /\ MissionInv' /\ [SubsystemsNext]_allVars =>
          MissionIsHonest
    BY <1>1, <1>4, SteadySound, QualifySound, LimpSound
       DEF MissionIsHonest
  <1>6. RingP!Inv /\ RingP!Inv' => RingIsAQueue
    BY <1>2, <1>3 DEF RingIsAQueue
  <1>7. /\ MissionInv /\ MissionInv' /\ WatchdogP!Inv /\ RingP!Inv
        /\ (WatchdogP!Inv /\ RingP!Inv)' /\ [SubsystemsNext]_allVars
        => [RingIsAQueue /\ MissionIsHonest]_allVars
    BY <1>5, <1>6
  <1> QED BY <1>7, MissionAlways, LiftedInvariants, PTL
          DEF SubsystemsSpec, CanInputsAreSound
=============================================================================
