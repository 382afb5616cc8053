------------------------------ MODULE FaultLog ------------------------------
(***************************************************************************)
(* The fault log kept in .noinit RAM across resets (ams_safety.c): a ring  *)
(* of records whose header is never believed.  Every call first recovers   *)
(* the ring from the records themselves, and may be cut short at any word  *)
(* it writes, by a reset or by a panic that logs from its own context and  *)
(* never returns.                                                          *)
(*                                                                         *)
(* Data.  An entry is "zero" (commit word 0), "torn" (commit word set, CRC *)
(* wrong) or "committed"; what an entry that is not committed holds is not *)
(* looked at by anybody and is forgotten.  An entry half copied or half    *)
(* zeroed is torn.  A sequence number is a number modulo Modulus (2^32 in   *)
(* the code), 0 left out.                                                  *)
(***************************************************************************)
EXTENDS Integers, Sequences, FiniteSets

CONSTANTS
  Depth,        \* AMS_FAULT_LOG_DEPTH
  Modulus,      \* 2^32
  Known,        \* events up to AMS_FAULT_LOG_STATE_TRANSITION
  Later,        \* events after it: the ADBMS events, or {} for none
  MaxBoots,     \* bound: boots in a behaviour
  MaxDamages    \* bound: resets over which the memory loses something

ASSUME ConstantsAssumption ==
  /\ Depth \in Nat /\ Depth > 1
  /\ MaxBoots \in Nat /\ MaxDamages \in Nat
  /\ Modulus \in Nat
  /\ Modulus > 2 * (Depth + MaxDamages + 2 * MaxBoots) + 4
  /\ Known # {} /\ Known \cap Later = {}

VARIABLES
  ram,     \* g_fault_log: magic word, header and entries
  cpu,     \* the call in progress and its locals
  life     \* boots so far, records lost to the memory, panic in progress

vars == <<ram, cpu, life>>

Slots == 0..Depth - 1
NoEvent == "none"

Zero == [st |-> "zero", seq |-> 0, event |-> NoEvent, boot |-> 0]
Torn == [Zero EXCEPT !.st = "torn"]
Committed(s, e, b) == [st |-> "committed", seq |-> s, event |-> e, boot |-> b]

Resting == [pc |-> "idle", op |-> "none", event |-> NoEvent, dirty |-> FALSE,
            read |-> 0, packed |-> 0, index |-> 0, newest |-> 0, key |-> Zero,
            count |-> 0, write |-> 0, boot |-> 0, replacing |-> FALSE]

(* After power-on the RAM holds anything but a valid schema.               *)
Init ==
  /\ ram = [magic |-> FALSE, write |-> 0, count |-> 0, boot |-> 0,
            next |-> 0, entry |-> [i \in Slots |-> Torn]]
  /\ cpu = Resting
  /\ life = [boots |-> 0, booting |-> TRUE, panic |-> FALSE, damages |-> 0]

-----------------------------------------------------------------------------
(* Sequence numbers and validity.                                          *)

After(a, b) == LET d == (a - b) % Modulus IN d # 0 /\ d < Modulus \div 2

NextSequence(s) == IF s + 1 = Modulus THEN 1 ELSE s + 1

Valid(e) == e.st = "committed" /\ e.event \in Known

ValidSlots == {i \in Slots : Valid(ram.entry[i])}

(* The slot of the newest record.                                          *)
Newest ==
  CHOOSE i \in ValidSlots :
    \A j \in ValidSlots : ~After(ram.entry[j].seq, ram.entry[i].seq)

Duplicates ==
  {i \in ValidSlots : \E j \in ValidSlots :
                        j < i /\ ram.entry[j].seq = ram.entry[i].seq}

(* The valid records must be the n slots that end with the newest, and     *)
(* nothing else may look written.                                          *)
NeedsCompaction(first, n) ==
  \/ cpu.dirty
  \/ \E i \in Slots \ ValidSlots : ram.entry[i].st # "zero"
  \/ \E k \in 0..n - 1 : (first + k) % Depth \notin ValidSlots

-----------------------------------------------------------------------------
(* ams_fault_log_recover_raw, the first thing every call does.             *)

At(pc) == cpu.pc = pc
Goto(pc) == cpu' = [cpu EXCEPT !.pc = pc]

(* ams_fault_log_reset_raw: the magic word goes first and comes back last. *)
Erased == [magic |-> FALSE, write |-> 0, count |-> 0, boot |-> 0, next |-> 1,
           entry |-> [i \in Slots |-> Zero]]

Erase ==
  /\ At("scan") /\ ~ram.magic
  /\ ram' = Erased /\ Goto("stamp") /\ UNCHANGED life

Stamp ==
  /\ At("stamp") /\ ram' = [ram EXCEPT !.magic = TRUE]
  /\ Goto(cpu.op) /\ UNCHANGED life

Drop(i) == ram' = [ram EXCEPT !.entry[i] = Zero]

(* A second copy of a record is dropped, lowest slot first.                *)
DropDuplicate ==
  /\ At("scan") /\ ram.magic
  /\ \E i \in Duplicates : (\A j \in Duplicates : i <= j) /\ Drop(i)
  /\ cpu' = [cpu EXCEPT !.dirty = TRUE] /\ UNCHANGED life

ScanEmpty ==
  /\ At("scan") /\ ram.magic /\ ValidSlots = {}
  /\ ram' = [ram EXCEPT !.entry = [i \in Slots |-> Zero], !.write = 0,
                        !.count = 0, !.next = 1]
  /\ Goto(cpu.op) /\ UNCHANGED life

Scan ==
  /\ At("scan") /\ ram.magic /\ Duplicates = {} /\ ValidSlots # {}
  /\ LET n     == Cardinality(ValidSlots)
         write == (Newest + 1) % Depth
         first == (write + Depth - n) % Depth
     IN  cpu' = [cpu EXCEPT
                   !.pc = IF NeedsCompaction(first, n)
                          THEN "pack" ELSE "header",
                   !.newest = ram.entry[Newest].seq,
                   !.count = n, !.write = write]
  /\ UNCHANGED <<ram, life>>

(* Pack: each valid record is copied down, then its old place is zeroed.   *)
Pack ==
  /\ At("pack") /\ UNCHANGED life
  /\ IF cpu.read = Depth
     THEN cpu' = [cpu EXCEPT !.pc = "sort", !.index = 1] /\ UNCHANGED ram
     ELSE IF cpu.read \notin ValidSlots
     THEN cpu' = [cpu EXCEPT !.read = @ + 1] /\ UNCHANGED ram
     ELSE IF cpu.read = cpu.packed
     THEN /\ cpu' = [cpu EXCEPT !.read = @ + 1, !.packed = @ + 1]
          /\ UNCHANGED ram
     ELSE /\ ram' = [ram EXCEPT !.entry[cpu.packed] = ram.entry[cpu.read]]
          /\ Goto("clean")

Clean ==
  /\ At("clean") /\ ram' = [ram EXCEPT !.entry[cpu.read] = Zero]
  /\ cpu' = [cpu EXCEPT !.pc = "pack", !.read = @ + 1, !.packed = @ + 1]
  /\ UNCHANGED life

(* Insertion sort, oldest first; the record being placed is held in a      *)
(* local while the others move up.                                         *)
Age(e) == (cpu.newest - e.seq) % Modulus

Pick ==
  /\ At("sort") /\ UNCHANGED <<ram, life>>
  /\ IF cpu.index >= cpu.packed THEN Goto("trim")
     ELSE cpu' = [cpu EXCEPT !.pc = "shift", !.key = ram.entry[cpu.index],
                             !.read = cpu.index]

MovesUp == cpu.read > 0 /\ Age(ram.entry[cpu.read - 1]) < Age(cpu.key)

Shift ==
  /\ At("shift") /\ MovesUp
  /\ ram' = [ram EXCEPT !.entry[cpu.read] = ram.entry[cpu.read - 1]]
  /\ cpu' = [cpu EXCEPT !.read = @ - 1] /\ UNCHANGED life

Place ==
  /\ At("shift") /\ ~MovesUp
  /\ ram' = [ram EXCEPT !.entry[cpu.read] = cpu.key]
  /\ cpu' = [cpu EXCEPT !.pc = "sort", !.index = @ + 1, !.key = Zero]
  /\ UNCHANGED life

(* Seeded fault: compaction leaves the write index where the scan put it. *)
TrimKeepingIndex ==
  /\ At("trim")
  /\ ram' = [ram EXCEPT !.entry = [i \in Slots |->
               IF i < cpu.packed THEN ram.entry[i] ELSE Zero]]
  /\ cpu' = [cpu EXCEPT !.pc = "header", !.count = cpu.packed]
  /\ UNCHANGED life

(* Seeded fault: the clean-up after the sort takes one slot too many. *)
TrimOneTooMany ==
  /\ At("trim")
  /\ ram' = [ram EXCEPT !.entry = [i \in Slots |->
               IF i + 1 < cpu.packed THEN ram.entry[i] ELSE Zero]]
  /\ cpu' = [cpu EXCEPT !.pc = "header", !.count = cpu.packed,
                        !.write = cpu.packed % Depth]
  /\ UNCHANGED life

Trim ==
  /\ At("trim")
  /\ ram' = [ram EXCEPT !.entry = [i \in Slots |->
               IF i < cpu.packed THEN ram.entry[i] ELSE Zero]]
  /\ cpu' = [cpu EXCEPT !.pc = "header", !.count = cpu.packed,
                        !.write = cpu.packed % Depth]
  /\ UNCHANGED life

(* The header follows from the records.                                    *)
Header ==
  /\ At("header") /\ Goto(cpu.op) /\ UNCHANGED life
  /\ LET newest == ram.entry[(cpu.write + Depth - 1) % Depth]
     IN  ram' = [ram EXCEPT
                   !.count = cpu.count, !.write = cpu.write,
                   !.boot = IF @ = 0 \/ After(newest.boot, @)
                            THEN newest.boot ELSE @,
                   !.next = NextSequence(cpu.newest)]

-----------------------------------------------------------------------------
(* The calls: append (ams_fault_log_event), snapshot, clear, and the boot   *)
(* number taken before the reset cause is logged.                          *)

Call(op, e) == [Resting EXCEPT !.pc = "scan", !.op = op, !.event = e]

Request ==
  /\ At("idle") /\ ~life.panic /\ UNCHANGED <<ram, life>>
  /\ IF life.booting THEN cpu' = Call("boot", NoEvent)
     ELSE \/ \E e \in Known \cup Later : cpu' = Call("append", e)
          \/ \E op \in {"snapshot", "clear"} : cpu' = Call(op, NoEvent)

(* The commit word of the slot is cleared before its payload changes.      *)
Invalidate ==
  /\ At("append") /\ UNCHANGED life
  /\ ram' = [ram EXCEPT !.entry[ram.write] = Zero]
  /\ cpu' = [cpu EXCEPT !.pc = "commit",
                        !.replacing = Valid(ram.entry[ram.write])]

(* The commit word is the publication of the record.                       *)
Commit ==
  /\ At("commit") /\ Goto("bump") /\ UNCHANGED life
  /\ ram' = [ram EXCEPT !.entry[ram.write] =
               Committed(IF ram.next = 0 THEN 1 ELSE ram.next,
                         cpu.event, ram.boot)]

(* Seeded fault: the write index is not wrapped.                           *)
BumpPastTheEnd ==
  /\ At("bump") /\ cpu' = Resting
  /\ ram' = [ram EXCEPT !.write = @ + 1, !.next = NextSequence(@)]
  /\ life' = [life EXCEPT !.booting = FALSE]

Bump ==
  /\ At("bump") /\ cpu' = Resting
  /\ ram' = [ram EXCEPT
               !.write = (@ + 1) % Depth,
               !.count = IF ~cpu.replacing /\ @ < Depth THEN @ + 1 ELSE @,
               !.next = NextSequence(IF @ = 0 THEN 1 ELSE @)]
  /\ life' = [life EXCEPT !.booting = FALSE]

Snapshot == At("snapshot") /\ cpu' = Resting /\ UNCHANGED <<ram, life>>

Clear ==
  /\ At("clear") /\ ram' = Erased /\ UNCHANGED life
  /\ cpu' = [cpu EXCEPT !.pc = "stamp", !.op = "restore", !.boot = ram.boot]

Restore ==
  /\ At("restore") /\ ram' = [ram EXCEPT !.boot = cpu.boot]
  /\ cpu' = Resting /\ UNCHANGED life

Boot ==
  /\ At("boot") /\ ram' = [ram EXCEPT !.boot = NextSequence(@)]
  /\ \E e \in Known : cpu' = Call("append", e)
  /\ UNCHANGED life

-----------------------------------------------------------------------------
(* A call cut short.  What is being written at that moment may be half     *)
(* written.                                                                *)

Tearing(r, i, e) == [r EXCEPT !.entry[i] = e]

Tear(i, how) == {Tearing(ram, i, e) : e \in how}

Copying == At("pack") /\ cpu.read \in ValidSlots /\ cpu.read # cpu.packed

Cut ==
  {ram} \cup
  (IF Copying THEN Tear(cpu.packed, {Zero, Torn})
   ELSE IF At("clean") THEN Tear(cpu.read, {Torn})
   ELSE IF At("shift") /\ (MovesUp \/ ram.entry[cpu.read] # cpu.key)
        THEN Tear(cpu.read, {Torn})
   ELSE IF At("commit") /\ ram.entry[ram.write].st = "committed"
        THEN Tear(ram.write, {Torn})
   ELSE {})

(* The memory may lose a record, or the header, while the supply is away.  *)
RecordLost(r) == {Tearing(r, i, e) : i \in Slots, e \in {Zero, Torn}}

HeaderLost(r) ==
  {[r EXCEPT !.write = w, !.count = Depth, !.next = 0] : w \in Slots}

Damaged(r) == RecordLost(r) \cup HeaderLost(r)

Reset ==
  /\ life.boots < MaxBoots /\ cpu' = Resting
  /\ \E lose \in BOOLEAN, r \in Cut :
       /\ lose => life.damages < MaxDamages
       /\ ram' \in IF lose THEN Damaged(r) ELSE {r}
       /\ life' = [boots |-> life.boots + 1, booting |-> TRUE,
                   panic |-> FALSE,
                   damages |-> life.damages + (IF lose THEN 1 ELSE 0)]

(* ams_safety_panic, from an exception that no lock keeps out.             *)
Panic ==
  /\ ~life.panic
  /\ life' = [life EXCEPT !.panic = TRUE]
  /\ ram' \in Cut
  /\ \E e \in Known : cpu' = Call("append", e)

Recover ==
  \/ Erase \/ Stamp \/ DropDuplicate \/ ScanEmpty \/ Scan
  \/ Pack \/ Clean \/ Pick \/ Shift \/ Place \/ Trim \/ Header

Next ==
  \/ Request \/ Recover
  \/ Invalidate \/ Commit \/ Bump \/ Snapshot \/ Clear \/ Restore \/ Boot
  \/ Reset \/ Panic

Spec == Init /\ [][Next]_vars

-----------------------------------------------------------------------------
(* Properties.                                                             *)

Entry ==
  [st : {"zero", "torn", "committed"}, seq : 0..Modulus - 1,
   event : Known \cup Later \cup {NoEvent}, boot : 0..MaxBoots + 1]

(* Every variable has its type; the ring indices stay inside the ring      *)
(* (ams_fault_log_t).                                                      *)
TypeOK ==
  /\ ram.magic \in BOOLEAN /\ ram.write \in Slots /\ ram.count \in 0..Depth
  /\ ram.boot \in 0..MaxBoots + 1 /\ ram.next \in 0..Modulus - 1
  /\ ram.entry \in [Slots -> Entry]
  /\ cpu.read \in 0..Depth /\ cpu.packed \in 0..Depth
  /\ cpu.index \in 0..Depth /\ cpu.key \in Entry
  /\ cpu.newest \in 0..Modulus - 1 /\ cpu.boot \in 0..MaxBoots + 1
  /\ life.boots \in 0..MaxBoots /\ life.damages \in 0..MaxDamages

(* The records a reader would be given: each once, oldest first.  The one  *)
(* the sort holds in a local counts as long as the call is alive.          *)
Record(e) == [seq |-> e.seq, event |-> e.event, boot |-> e.boot]

Held == {Record(e) : e \in {f \in {ram.entry[i] : i \in Slots} \cup {cpu.key} :
                            Valid(f)}}

(* The records of S in the order of their numbers: the k-th has k - 1      *)
(* before it.                                                              *)
Rank(S, r) == Cardinality({q \in S : After(r.seq, q.seq)})

InOrder(S) ==
  [k \in 1..Cardinality(S) |-> CHOOSE r \in S : Rank(S, r) = k - 1]

Retained == IF ram.magic THEN InOrder(Held) ELSE <<>>

(* What the journal's user sees of the call in progress.                   *)
Reported == IF cpu.op = "append" /\ ~At("bump") THEN {cpu.event} ELSE {}

InHand == IF At("shift") THEN {Record(cpu.key)} ELSE {}

Cuts == 2 * life.boots + (IF life.panic THEN 1 ELSE 0)

Journal == INSTANCE RetainedLog
  WITH Events <- Known, Rejected <- Later, Boots <- 0..MaxBoots + 1,
       Successor <- NextSequence, log <- Retained, reported <- Reported,
       clearing <- cpu.op = "clear", loose <- InHand, cuts <- Cuts,
       damages <- life.damages

(* The retained memory behaves like the journal of RetainedLog, wherever a *)
(* call is cut short: records keep their order, their consecutive numbers  *)
(* and a boot number that never goes back, each is there once; an append   *)
(* that returns has published its event (those of Later excepted) and has  *)
(* given up at most the oldest record; a recovery loses none, and a reset  *)
(* or panic none but the one the insertion sort has in a local, besides    *)
(* what the memory itself lost (ams_fault_log_recover_raw,                 *)
(* ams_fault_log_event_raw_tick).                                          *)
KeepsJournal == Journal!Spec

(* A snapshot read from the header, write index minus count, is exactly    *)
(* the journal: the header agrees with the records whenever a reader sees  *)
(* it (ams_fault_log_snapshot).                                            *)
SnapshotIsTheJournal ==
  At("snapshot") =>
    /\ ram.count = Len(Retained)
    /\ \A k \in 1..ram.count :
         LET e == ram.entry[(ram.write + Depth - ram.count + k - 1) % Depth]
         IN  Valid(e) /\ Record(e) = Retained[k]

Intact == {e \in {ram.entry[i] : i \in Slots} : e.st = "committed"}

(* After a call returned, the header is what the next recovery would       *)
(* compute, unless the call logged an event recovery will reject           *)
(* (ams_fault_log_event_raw_tick's own bookkeeping).                       *)
HeaderAgrees ==
  (At("idle") /\ ~life.booting /\ ram.magic /\ \A e \in Intact : Valid(e)) =>
    /\ ram.count = Cardinality(ValidSlots)
    /\ ValidSlots # {} =>
         /\ ram.write = (Newest + 1) % Depth
         /\ ram.next = NextSequence(ram.entry[Newest].seq)

(* Header and records tell the same story, to a reader and to the next     *)
(* recovery (ams_fault_log_snapshot, ams_fault_log_recover_raw).           *)
HeaderIsTheJournal == SnapshotIsTheJournal /\ HeaderAgrees

(* A reset takes no committed record with it unless the memory itself lost *)
(* it: "recovery discards uncommitted or corrupt entries"                  *)
(* (CONCURRENCY_OWNERSHIP.md 66), and all that a reset during a recovery   *)
(* leaves behind is "a second committed copy" (ams_safety.c 197).          *)
ResetKeepsRecords ==
  [][(life'.boots # life.boots /\ life'.damages = life.damages)
       => Retained' = Retained]_vars
=============================================================================
