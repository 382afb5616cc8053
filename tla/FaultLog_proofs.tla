-------------------------- MODULE FaultLog_proofs --------------------------
(***************************************************************************)
(* Wherever a call is cut short, the retained memory is a bounded, ordered *)
(* journal, and its header tells what its records tell; for any depth,     *)
(* width of the sequence numbers, events, boots and losses.                *)
(*                                                                         *)
(* The argument.  Numbers go round, so nothing can be said of "greater";   *)
(* what is invariant is how many steps a number is behind the newest       *)
(* (Steps).  The records held are the last numbers given but for those     *)
(* lost (Near): by the memory, or with the local of a sort that was cut    *)
(* short, and there are no more of the latter than calls cut short (Lost). *)
(* So all are within half a round and the code's comparison is the order   *)
(* in which they were given (AfterInWindow).  At every step the ring is    *)
(* two runs in order, the lower one the newer (Split), which is what a     *)
(* pack and an interrupted pack keep and what a ring written round its end *)
(* is (RingSplit); a record the sort has already moved down is older than  *)
(* the whole upper run, and then the last slot is free (Elder).  A         *)
(* recovery that finds the records in the slots the header will name needs *)
(* no more (SplitRing); any other packs them, loses none (Packing), sorts  *)
(* them, one held in a local (Sorting), and ends with a ring (Ring).  An   *)
(* append needs the header to fit the ring (HeaderFits) and leaves it so.  *)
(*                                                                         *)
(* Every action is shown to keep this and what it does to the set of       *)
(* records held: nothing, but for an append, which gives up the oldest of  *)
(* a full ring and adds the next, a clear, and a call cut short (Survive). *)
(* The journal is that set put in order (InOrder), so the refinement is    *)
(* three lemmas on sets in order - JournalAppends, JournalEvicts,          *)
(* JournalLoses - and one lemma for each kind of call.                     *)
(***************************************************************************)
EXTENDS FaultLog, FiniteSetTheorems, SequenceTheorems, WellFoundedInduction,
        TLAPS

-----------------------------------------------------------------------------
(* Numbers and slots.                                                      *)

(* The numbers a record may carry: 0 is left out.                          *)
Numbers == 1 .. Modulus - 1

Half == Modulus \div 2

(* How many numbers s is behind t.                                         *)
Steps(t, s) == (t - s) % (Modulus - 1)

(* How many slots i is behind the last one written, w being the next.      *)
Behind(w, i) == (w - 1 - i) % Depth

Entries == [Slots -> Entry]

Valids(en) == {i \in Slots : Valid(en[i])}

(* The valid records of a ring, with the one the sort holds in a local.    *)
Among(en, key) == {e \in {en[i] : i \in Slots} \cup {key} : Valid(e)}

HeldNow == Among(ram.entry, cpu.key)

SeqsOf(R) == {e.seq : e \in R}

-----------------------------------------------------------------------------
(* The inductive invariant.                                                *)

(* Records lost so far at most: one whenever a call was cut short in its   *)
(* sort, and those the memory lost.                                        *)
Lost == life.damages + Cuts
MaxLost == MaxDamages + 2 * MaxBoots + 1

(* The records of R are the last numbers up to top, d of them missing.     *)
Near(R, d, top) ==
  \A e \in R : Steps(top, e.seq) < Cardinality(SeqsOf(R)) + d

Unique(R) == \A e, f \in R : e.seq = f.seq => e = f

Distinct(en) ==
  \A i, j \in Valids(en) : en[i].seq = en[j].seq => i = j

(* The ring, cut at c, is two runs in order.  The lower run is the newer,  *)
(* but for records the sort has put before the rest of the upper run, and  *)
(* the last slot is free where there are such.                             *)
Elder(en, i, c, top) ==
  /\ ~Valid(en[Depth - 1])
  /\ \A k \in Valids(en) :
       c <= k => Steps(top, en[k].seq) <= Steps(top, en[i].seq)

Split(en, c, top) ==
  \A i, j \in Valids(en) : i < j =>
    IF i < c /\ c <= j THEN \/ Steps(top, en[i].seq) <= Steps(top, en[j].seq)
                           \/ Elder(en, i, c, top)
                       ELSE Steps(top, en[j].seq) <= Steps(top, en[i].seq)

(* The n slots before w hold the records in order, and no other slot one.  *)
Ring(en, w, n, top) ==
  /\ Valids(en) = {i \in Slots : Behind(w, i) < n}
  /\ \A i, j \in Valids(en) : Behind(w, i) < Behind(w, j) =>
       Steps(top, en[i].seq) < Steps(top, en[j].seq)
  /\ \A i \in Valids(en) : Behind(w, i) = 0 => en[i].seq = top

Calls == {"append", "snapshot", "clear", "boot"}
Ops == Calls \cup {"restore"}
Newer == {"pack", "clean", "sort", "shift", "trim", "header"}
Pcs == {"idle", "scan", "stamp", "commit", "bump"} \cup Newer \cup Ops
BootNo == 0 .. MaxBoots + 1
Events == Known \cup Later \cup {NoEvent}

RamType ==
  [magic : BOOLEAN, write : Slots, count : 0 .. Depth, boot : BootNo,
   next : 0 .. Modulus - 1, entry : Entries]

CpuType ==
  [pc : Pcs, op : Ops \cup {"none"}, event : Events, dirty : BOOLEAN,
   read : 0 .. Depth, packed : 0 .. Depth, index : 0 .. Depth,
   newest : 0 .. Modulus - 1, key : Entry, count : 0 .. Depth,
   write : Slots, boot : BootNo, replacing : BOOLEAN]

LifeType ==
  [boots : 0 .. MaxBoots, booting : BOOLEAN, panic : BOOLEAN,
   damages : 0 .. MaxDamages]

Types ==
  /\ ram \in RamType /\ cpu \in CpuType /\ life \in LifeType
  /\ \A e \in HeldNow : e.seq \in Numbers

(* The boot number is raised once per boot, before the first record.       *)
Booted == ~(life.booting /\ cpu.op \in {"none", "boot"})
HighestBoot == life.boots + (IF Booted THEN 1 ELSE 0)

BootsAgree ==
  /\ ram.boot <= HighestBoot /\ cpu.boot <= HighestBoot
  /\ \A e \in HeldNow : e.boot <= ram.boot

Control ==
  /\ At("stamp") => ram = Erased
  /\ ~At("idle") /\ ~At("scan") /\ ~At("stamp") => ram.magic
  /\ ~At("shift") => cpu.key = Zero
  /\ ~ram.magic => HeldNow = {}
  /\ At("scan") => cpu.op \in Calls /\ cpu.read = 0 /\ cpu.packed = 0
  /\ At("scan") /\ cpu.dirty => \E i \in Slots : ~Valid(ram.entry[i])
  /\ cpu.op = "none" <=> At("idle")
  /\ cpu.pc \in Ops => cpu.pc = cpu.op
  /\ cpu.op = "boot" => life.booting
  /\ cpu.op \in {"snapshot", "clear", "restore"} => ~life.booting
  /\ cpu.op = "restore" => HeldNow = {} /\ (At("stamp") \/ At("restore"))

Calm ==
  \E top \in Numbers, c \in 0 .. Depth :
    Near(HeldNow, Lost, top) /\ Split(ram.entry, c, top)

NewestHeld ==
  cpu.pc \in Newer =>
    /\ cpu.newest \in SeqsOf(HeldNow)
    /\ Near(HeldNow, Lost, cpu.newest)

Packing ==
  /\ At("pack") =>
       /\ cpu.packed <= cpu.read
       /\ \E i \in Slots : ~Valid(ram.entry[i])
       /\ \A i \in Slots : i < cpu.packed => Valid(ram.entry[i])
       /\ \A i \in Slots :
            cpu.packed <= i /\ i < cpu.read => ~Valid(ram.entry[i])
       /\ Distinct(ram.entry)
       /\ \E c \in 0 .. Depth : Split(ram.entry, c, cpu.newest)
  /\ At("clean") =>
       /\ cpu.packed < cpu.read /\ cpu.read < Depth
       /\ Valid(ram.entry[cpu.read])
       /\ ram.entry[cpu.packed] = ram.entry[cpu.read]
       /\ \A i \in Slots : i < cpu.packed => Valid(ram.entry[i])
       /\ \A i \in Slots :
            cpu.packed < i /\ i < cpu.read => ~Valid(ram.entry[i])
       /\ Distinct([ram.entry EXCEPT ![cpu.read] = Zero])
       /\ \E c \in 0 .. Depth : Split(ram.entry, c, cpu.newest)

Packed(en, p) == Valids(en) = {i \in Slots : i < p}

(* The slots of S hold records, the later the newer.                       *)
Sorted(en, S, top) ==
  \A a, b \in S : a < b => Steps(top, en[b].seq) < Steps(top, en[a].seq)

Sorting ==
  /\ At("sort") =>
       /\ Packed(ram.entry, cpu.packed) /\ Distinct(ram.entry)
       /\ cpu.index >= 1 /\ cpu.index <= cpu.packed /\ cpu.packed < Depth
       /\ Sorted(ram.entry, {i \in Slots : i < cpu.index}, cpu.newest)
       /\ \E c \in cpu.index .. Depth : Split(ram.entry, c, cpu.newest)
  /\ At("shift") =>
       /\ Packed(ram.entry, cpu.packed) /\ Valid(cpu.key)
       /\ cpu.read <= cpu.index /\ cpu.index < cpu.packed /\ cpu.index >= 1
       /\ cpu.packed < Depth
       /\ IF cpu.read = cpu.index
          THEN \E c \in cpu.index .. Depth : Split(ram.entry, c, cpu.newest)
          ELSE /\ Split(ram.entry, cpu.index + 1, cpu.newest)
               /\ \A k \in Valids(ram.entry) : cpu.index < k =>
                    Steps(cpu.newest, ram.entry[k].seq)
                      <= Steps(cpu.newest, cpu.key.seq)
       /\ Distinct([ram.entry EXCEPT ![cpu.read] = cpu.key])
       /\ ram.entry[cpu.read] = IF cpu.read = cpu.index THEN cpu.key
                                ELSE ram.entry[cpu.read + 1]
       /\ Sorted(ram.entry, {i \in Slots : i <= cpu.index /\ i # cpu.read},
                 cpu.newest)
       /\ \A b \in Slots : cpu.read < b /\ b <= cpu.index =>
            Steps(cpu.newest, ram.entry[b].seq)
              < Steps(cpu.newest, cpu.key.seq)
  /\ At("trim") =>
       /\ Packed(ram.entry, cpu.packed) /\ cpu.packed >= 1
       /\ Sorted(ram.entry, {i \in Slots : i < cpu.packed}, cpu.newest)
  /\ At("header") =>
       cpu.count >= 1 /\ Ring(ram.entry, cpu.write, cpu.count, cpu.newest)

(* Write index w, count n and next number nx tell what the records tell.   *)
HeaderFits(w, n, nx) ==
  \E top \in Numbers :
    /\ Near(HeldNow, Lost, top)
    /\ Ring(ram.entry, w, n, top)
    /\ nx = IF n = 0 THEN 1 ELSE NextSequence(top)

(* What an append leaves of the ring before it adds to it.                 *)
Left == IF cpu.replacing THEN Depth - 1 ELSE ram.count

Room == IF cpu.replacing THEN ram.count = Depth ELSE ram.count < Depth

Appending ==
  /\ cpu.pc \in Ops => HeaderFits(ram.write, ram.count, ram.next)
  /\ At("commit") =>
       /\ Room /\ ram.entry[ram.write] = Zero
       /\ HeaderFits(ram.write, Left, ram.next)
  /\ At("bump") =>
       /\ Room /\ ram.next \in Numbers
       /\ \/ HeaderFits((ram.write + 1) % Depth, Left + 1,
                        NextSequence(ram.next))
          \/ /\ ram.entry[ram.write].st = "committed"
             /\ ~Valid(ram.entry[ram.write])
  /\ At("idle") /\ ~life.booting /\ ram.magic
       /\ (\A e \in Intact : Valid(e))
     => HeaderFits(ram.write, ram.count, ram.next)

Inv ==
  /\ Types /\ BootsAgree /\ Control /\ Calm /\ Unique(HeldNow)
  /\ NewestHeld /\ Packing /\ Sorting /\ Appending

-----------------------------------------------------------------------------
(* Arithmetic.                                                             *)

(* What the assumption on the constants gives.                             *)
LEMMA Big ==
  /\ Depth \in Nat /\ Depth > 1 /\ Modulus \in Nat /\ MaxDamages \in Nat
  /\ MaxLost \in Nat /\ MaxBoots < Half
  /\ MaxBoots \in Nat /\ Modulus > 6
  /\ Half \in Nat /\ 2 * Half <= Modulus /\ Modulus <= 2 * Half + 1
  /\ Half >= Depth + MaxLost + 1
  BY ConstantsAssumption DEF Half, MaxLost

(* Steps without the remainder.                                            *)
LEMMA StepsIs ==
  ASSUME NEW t \in Numbers, NEW s \in Numbers
  PROVE  /\ Steps(t, s) = IF t >= s THEN t - s ELSE t - s + (Modulus - 1)
         /\ Steps(t, s) \in 0 .. Modulus - 2
  BY Big DEF Steps, Numbers

(* The comparison of two numbers without the remainder.                    *)
LEMMA AfterIs ==
  ASSUME NEW a \in 0 .. Modulus - 1, NEW b \in 0 .. Modulus - 1
  PROVE  After(a, b) <=> IF a >= b THEN a # b /\ a - b < Half
                         ELSE a - b + Modulus < Half
  <1> DEFINE d == (a - b) % Modulus
  <1>1. d = IF a >= b THEN a - b ELSE a - b + Modulus
    BY Big
  <1>2. After(a, b) <=> d # 0 /\ d < Half
    BY DEF After, Half
  <1> HIDE DEF d
  <1> QED BY <1>1, <1>2, Big

(* The number after a number is a number.                                  *)
LEMMA NextIs ==
  ASSUME NEW s \in Numbers
  PROVE  NextSequence(s) \in Numbers
  BY Big DEF NextSequence, Numbers

(* One number later, every number is one step further behind.              *)
LEMMA NextSteps ==
  ASSUME NEW t \in Numbers, NEW s \in Numbers, Steps(t, s) < Modulus - 2
  PROVE  Steps(NextSequence(t), s) = Steps(t, s) + 1
  <1> DEFINE n == NextSequence(t)
  <1>1. n = IF t + 1 = Modulus THEN 1 ELSE t + 1
    BY DEF NextSequence
  <1>2. n \in Numbers
    BY NextIs
  <1> HIDE DEF n
  <1>3. /\ Steps(t, s) = IF t >= s THEN t - s ELSE t - s + (Modulus - 1)
        /\ Steps(n, s) = IF n >= s THEN n - s ELSE n - s + (Modulus - 1)
    BY <1>2, StepsIs
  <1>4. Steps(n, s) = Steps(t, s) + 1
    BY <1>1, <1>3, Big DEF Numbers
  <1> QED BY <1>4 DEF n

(* Only a number itself is no step behind it.                              *)
LEMMA StepsZero ==
  ASSUME NEW t \in Numbers, NEW s \in Numbers
  PROVE  Steps(t, s) = 0 <=> s = t
  <1>1. Steps(t, s) = IF t >= s THEN t - s ELSE t - s + (Modulus - 1)
    BY StepsIs
  <1> QED BY <1>1, Big DEF Numbers

(* Numbers equally far behind are equal.                                   *)
LEMMA StepsInjective ==
  ASSUME NEW t \in Numbers, NEW a \in Numbers, NEW b \in Numbers,
         Steps(t, a) = Steps(t, b)
  PROVE  a = b
  <1>1. /\ Steps(t, a) = IF t >= a THEN t - a ELSE t - a + (Modulus - 1)
        /\ Steps(t, b) = IF t >= b THEN t - b ELSE t - b + (Modulus - 1)
    BY StepsIs
  <1>2. a \in Int /\ b \in Int /\ t \in Int /\ Modulus \in Int
    BY Big DEF Numbers
  <1>3. 1 <= a /\ a < Modulus /\ 1 <= b /\ b < Modulus
    BY Big DEF Numbers
  <1>4. (IF t >= a THEN t - a ELSE t - a + (Modulus - 1))
          = IF t >= b THEN t - b ELSE t - b + (Modulus - 1)
    BY <1>1
  <1>5. a <= b /\ b <= a
    BY ONLY <1>2, <1>3, <1>4
  <1> QED BY <1>2, <1>5

(* How far behind n is what is behind t, n being nearer to t.              *)
LEMMA StepsAdd ==
  ASSUME NEW t \in Numbers, NEW n \in Numbers, NEW s \in Numbers,
         Steps(t, n) <= Steps(t, s)
  PROVE  Steps(n, s) = Steps(t, s) - Steps(t, n)
  <1>1. /\ Steps(t, n) = IF t >= n THEN t - n ELSE t - n + (Modulus - 1)
        /\ Steps(t, s) = IF t >= s THEN t - s ELSE t - s + (Modulus - 1)
        /\ Steps(n, s) = IF n >= s THEN n - s ELSE n - s + (Modulus - 1)
    BY StepsIs
  <1> QED BY <1>1, Big DEF Numbers

(* Within half the numbers, the code's comparison is the order in which    *)
(* the numbers were given.                                                 *)
LEMMA AfterInWindow ==
  ASSUME NEW t \in Numbers, NEW a \in Numbers, NEW b \in Numbers,
         Steps(t, a) < Depth + MaxLost, Steps(t, b) < Depth + MaxLost
  PROVE  After(a, b) <=> Steps(t, a) < Steps(t, b)
  <1>1. After(a, b) <=> IF a >= b THEN a # b /\ a - b < Half
                         ELSE a - b + Modulus < Half
    BY AfterIs DEF Numbers
  <1>2. /\ Steps(t, a) = IF t >= a THEN t - a ELSE t - a + (Modulus - 1)
        /\ Steps(t, b) = IF t >= b THEN t - b ELSE t - b + (Modulus - 1)
    BY StepsIs
  <1>3. (IF a >= b THEN a # b /\ a - b < Half ELSE a - b + Modulus < Half)
          <=> Steps(t, a) < Steps(t, b)
    BY <1>2, Big DEF Numbers
  <1> QED BY <1>1, <1>3

(* The sort's comparison of ages is that order too.                        *)
LEMMA AgeInWindow ==
  ASSUME NEW t \in Numbers, NEW a \in Numbers, NEW b \in Numbers
  PROVE  (t - a) % Modulus < (t - b) % Modulus <=> Steps(t, a) < Steps(t, b)
  <1> DEFINE x == (t - a) % Modulus
             y == (t - b) % Modulus
  <1>1. /\ x = IF t >= a THEN t - a ELSE t - a + Modulus
        /\ y = IF t >= b THEN t - b ELSE t - b + Modulus
    BY Big DEF Numbers
  <1> HIDE DEF x, y
  <1>2. x < y <=> Steps(t, a) < Steps(t, b)
    <2>1. /\ Steps(t, a) = IF t >= a THEN t - a ELSE t - a + (Modulus - 1)
          /\ Steps(t, b) = IF t >= b THEN t - b ELSE t - b + (Modulus - 1)
      BY StepsIs
    <2> QED BY <1>1, <2>1, Big DEF Numbers
  <1> QED BY <1>2 DEF x, y

(* Slot arithmetic without the remainder.                                  *)
LEMMA BehindIs ==
  ASSUME NEW w \in Slots, NEW i \in Slots
  PROVE  /\ Behind(w, i) = IF w > i THEN w - 1 - i ELSE w - 1 - i + Depth
         /\ Behind(w, i) \in 0 .. Depth - 1
         /\ (w + 1) % Depth = IF w + 1 = Depth THEN 0 ELSE w + 1
         /\ (w + 1) % Depth \in Slots
         /\ (w + Depth - 1) % Depth = IF w = 0 THEN Depth - 1 ELSE w - 1
         /\ (w + Depth - 1) % Depth \in Slots
  BY Big DEF Behind, Slots

(* Writing one slot moves every other one further behind.                  *)
LEMMA BehindNext ==
  ASSUME NEW w \in Slots, NEW i \in Slots
  PROVE  Behind((w + 1) % Depth, i) = IF i = w THEN 0 ELSE Behind(w, i) + 1
  <1> DEFINE v == (w + 1) % Depth
  <1>1. v = (IF w + 1 = Depth THEN 0 ELSE w + 1) /\ v \in Slots
    BY BehindIs
  <1> HIDE DEF v
  <1>2. Behind(v, i) = IF v > i THEN v - 1 - i ELSE v - 1 - i + Depth
    BY <1>1, BehindIs
  <1>3. Behind(v, i) = IF i = w THEN 0 ELSE Behind(w, i) + 1
    <2>1. Behind(w, i) = IF w > i THEN w - 1 - i ELSE w - 1 - i + Depth
      BY BehindIs
    <2> QED BY <1>1, <1>2, <2>1, Big DEF Slots
  <1> QED BY <1>3 DEF v

(* Slots equally far behind are the same.                                  *)
LEMMA BehindInjective ==
  ASSUME NEW w \in Slots, NEW i \in Slots, NEW j \in Slots,
         Behind(w, i) = Behind(w, j)
  PROVE  i = j
  <1>1. /\ Behind(w, i) = IF w > i THEN w - 1 - i ELSE w - 1 - i + Depth
        /\ Behind(w, j) = IF w > j THEN w - 1 - j ELSE w - 1 - j + Depth
    BY BehindIs
  <1>2. w \in Int /\ i \in Int /\ j \in Int /\ Depth \in Int
    BY Big DEF Slots
  <1>3. 0 <= i /\ i < Depth /\ 0 <= j /\ j < Depth
    BY Big DEF Slots
  <1>4. (IF w > i THEN w - 1 - i ELSE w - 1 - i + Depth)
          = IF w > j THEN w - 1 - j ELSE w - 1 - j + Depth
    BY <1>1
  <1>5. i <= j /\ j <= i
    BY ONLY <1>2, <1>3, <1>4
  <1> QED BY <1>2, <1>5

(* There is a slot at every distance.                                      *)
LEMMA SlotBehind ==
  ASSUME NEW w \in Slots, NEW k \in 0 .. Depth - 1
  PROVE  \E i \in Slots : Behind(w, i) = k
  <1> DEFINE i == IF w - 1 - k >= 0 THEN w - 1 - k ELSE w - 1 - k + Depth
  <1>1. i \in Slots
    BY Big DEF Slots
  <1>2. Behind(w, i) = k
    <2> HIDE DEF i
    <2>1. Behind(w, i) = IF w > i THEN w - 1 - i ELSE w - 1 - i + Depth
      BY <1>1, BehindIs
    <2> QED BY <1>1, <2>1, Big DEF Slots, i
  <1> QED BY <1>1, <1>2

(* A set of numbers has a least one.                                       *)
LEMMA LeastNumber ==
  ASSUME NEW T \in SUBSET Nat, T # {}
  PROVE  \E m \in T : \A k \in T : m <= k
  <1> DEFINE R == OpToRel(<, Nat)
  <1>1. IsWellFoundedOn(R, Nat)
    BY NatLessThanWellFounded, Zenon
  <1> HIDE DEF R
  <1>2. PICK m \in T : \A k \in T : ~(<<k, m>> \in R)
    BY <1>1, WFMin, Zenon
  <1>3. ASSUME NEW k \in T PROVE m <= k
    <2>1. k \in Nat /\ m \in Nat
      OBVIOUS
    <2>2. k < m => <<k, m>> \in R
      BY <2>1 DEF R, OpToRel
    <2> QED BY <1>2, <2>1, <2>2
  <1> QED BY <1>3
-----------------------------------------------------------------------------
(* Records and what a set of them holds.                                   *)

(* The two values an entry without a record can have.                      *)
LEMMA BlankEntries ==
  /\ Zero \in Entry /\ Torn \in Entry
  /\ ~Valid(Zero) /\ ~Valid(Torn)
  /\ Zero.st = "zero" /\ Zero.seq = 0 /\ Torn.st = "torn"
  <1>1. Zero \in Entry /\ Zero.st = "zero" /\ Zero.seq = 0
    BY Big DEF Entry, Zero
  <1>2. Torn \in Entry /\ Torn.st = "torn"
    BY Big DEF Entry, Torn, Zero
  <1> QED BY <1>1, <1>2 DEF Valid

(* An entry's fields.                                                      *)
LEMMA EntryFields ==
  ASSUME NEW e \in Entry
  PROVE  /\ e.seq \in 0 .. Modulus - 1 /\ e.boot \in BootNo
         /\ e.event \in Events
         /\ e.st \in {"zero", "torn", "committed"}
  BY DEF Entry, BootNo, Events

(* Membership in Among.                                                    *)
LEMMA AmongIs ==
  ASSUME NEW en, NEW key, NEW e
  PROVE  e \in Among(en, key)
           <=> /\ Valid(e)
               /\ (\E i \in Slots : e = en[i]) \/ e = key
  BY DEF Among

(* Writes that leave every record somewhere, and add none.                 *)
LEMMA AmongKept ==
  ASSUME NEW en, NEW key, NEW en2, NEW key2,
         \A i \in Slots : Valid(en[i]) =>
           (\E j \in Slots : en2[j] = en[i]) \/ key2 = en[i],
         Valid(key) => (\E j \in Slots : en2[j] = key) \/ key2 = key,
         \A i \in Slots : Valid(en2[i]) =>
           (\E j \in Slots : en[j] = en2[i]) \/ key = en2[i],
         Valid(key2) => (\E j \in Slots : en[j] = key2) \/ key = key2
  PROVE  Among(en2, key2) = Among(en, key)
  <1>1. ASSUME NEW e PROVE e \in Among(en, key) <=> e \in Among(en2, key2)
    <2>1. e \in Among(en, key) => e \in Among(en2, key2)
      BY AmongIs
    <2>2. e \in Among(en2, key2) => e \in Among(en, key)
      BY AmongIs
    <2> QED BY <2>1, <2>2
  <1> QED BY <1>1

(* The numbers of the records are finitely many, at most one per slot      *)
(* outside the sort.                                                       *)
LEMMA SeqsFinite ==
  ASSUME NEW en \in Entries, NEW key \in Entry
  PROVE  /\ IsFiniteSet(SeqsOf(Among(en, key)))
         /\ Cardinality(SeqsOf(Among(en, key))) \in Nat
         /\ ~Valid(key) => Cardinality(SeqsOf(Among(en, key))) <= Depth
  <1> DEFINE T == SeqsOf(Among(en, key))
  <1>1. \A i \in Slots : en[i] \in Entry
    BY DEF Entries
  <1>2. T \subseteq 0 .. Modulus - 1
    <2>1. ASSUME NEW e \in Among(en, key) PROVE e.seq \in 0 .. Modulus - 1
      <3>1. e \in Entry
        BY <1>1, AmongIs
      <3> QED BY <3>1, EntryFields
    <2> QED BY <2>1 DEF SeqsOf
  <1>3. IsFiniteSet(0 .. Modulus - 1)
    BY Big, FS_Interval
  <1>4. IsFiniteSet(T)
    BY <1>2, <1>3, FS_Subset
  <1>5. Cardinality(T) \in Nat
    BY <1>4, FS_CardinalityType
  <1>6. ASSUME ~Valid(key) PROVE Cardinality(T) <= Depth
    <2> DEFINE S == Valids(en)
               f == [i \in S |-> en[i].seq]
    <2>1. S \subseteq Slots
      BY DEF Valids
    <2>2. IsFiniteSet(Slots) /\ Cardinality(Slots) = Depth
      BY Big, FS_Interval DEF Slots
    <2>3. IsFiniteSet(S) /\ Cardinality(S) <= Depth
      BY <2>1, <2>2, FS_Subset
    <2>4. T = {en[i].seq : i \in S}
      BY <1>6 DEF SeqsOf, Among, Valids
    <2>5. f \in Surjection(S, T)
      BY <2>4 DEF Surjection
    <2>6. Cardinality(T) <= Cardinality(S)
      BY <2>3, <2>5, FS_Surjection
    <2>7. Cardinality(S) \in Nat
      BY <2>3, FS_CardinalityType
    <2> HIDE DEF T, S
    <2> QED BY <1>5, <2>3, <2>6, <2>7, Big
  <1> QED BY <1>4, <1>5, <1>6

(* Membership in SeqsOf.                                                   *)
LEMMA SeqsHas ==
  ASSUME NEW R, NEW e \in R
  PROVE  e.seq \in SeqsOf(R)
  BY DEF SeqsOf

(* Records are within the window the code's comparison needs.              *)
LEMMA NearWithin ==
  ASSUME NEW R, NEW d \in 0 .. MaxLost, NEW top \in Numbers,
         Near(R, d, top), Cardinality(SeqsOf(R)) \in 0 .. Depth,
         NEW e \in R, e.seq \in Numbers
  PROVE  /\ Steps(top, e.seq) \in Nat
         /\ Steps(top, e.seq) < Depth + MaxLost
         /\ Steps(top, e.seq) < Modulus - 2
  <1>1. Steps(top, e.seq) < Cardinality(SeqsOf(R)) + d
    BY DEF Near
  <1>2. Steps(top, e.seq) \in 0 .. Modulus - 2
    BY StepsIs
  <1> QED BY <1>1, <1>2, Big

(* Counting from the newest record instead.                                *)
LEMMA NearNewest ==
  ASSUME NEW R, NEW d \in Nat, NEW top \in Numbers, NEW n \in Numbers,
         Near(R, d, top), \A e \in R : e.seq \in Numbers,
         Cardinality(SeqsOf(R)) \in Nat,
         \A e \in R : Steps(top, n) <= Steps(top, e.seq)
  PROVE  Near(R, d, n)
  <1> SUFFICES ASSUME NEW e \in R
               PROVE  Steps(n, e.seq) < Cardinality(SeqsOf(R)) + d
    BY DEF Near
  <1>1. Steps(n, e.seq) = Steps(top, e.seq) - Steps(top, n)
    BY StepsAdd
  <1>2. Steps(top, e.seq) < Cardinality(SeqsOf(R)) + d
    BY DEF Near
  <1>3. /\ Steps(top, e.seq) \in 0 .. Modulus - 2
        /\ Steps(top, n) \in 0 .. Modulus - 2
    BY StepsIs
  <1> QED BY <1>1, <1>2, <1>3, Big

(* More numbers may be missing.                                            *)
LEMMA NearMore ==
  ASSUME NEW R, NEW d \in Nat, NEW d2 \in Nat, d <= d2, NEW top \in Numbers,
         Near(R, d, top), \A e \in R : e.seq \in Numbers,
         IsFiniteSet(SeqsOf(R))
  PROVE  Near(R, d2, top)
  <1>1. Cardinality(SeqsOf(R)) \in Nat
    BY FS_CardinalityType
  <1>2. ASSUME NEW e \in R
        PROVE  Steps(top, e.seq) < Cardinality(SeqsOf(R)) + d2
    <2>1. Steps(top, e.seq) \in 0 .. Modulus - 2
      BY StepsIs
    <2>2. Steps(top, e.seq) < Cardinality(SeqsOf(R)) + d
      BY DEF Near
    <2> QED BY <1>1, <2>1, <2>2, Big
  <1> QED BY <1>2 DEF Near

(* A record lost to the memory leaves one more number missing.             *)
LEMMA NearDamaged ==
  ASSUME NEW R, NEW R2, NEW d \in Nat, NEW top \in Numbers, NEW x,
         Near(R, d, top), \A e \in R : e.seq \in Numbers,
         IsFiniteSet(SeqsOf(R)), R2 \subseteq R, R \subseteq R2 \cup {x}
  PROVE  Near(R2, d + 1, top)
  <1>1. SeqsOf(R) \ {x.seq} \subseteq SeqsOf(R2)
    BY DEF SeqsOf
  <1>2. SeqsOf(R2) \subseteq SeqsOf(R)
    BY DEF SeqsOf
  <1>3. IsFiniteSet(SeqsOf(R2)) /\ Cardinality(SeqsOf(R2)) \in Nat
    BY <1>2, FS_Subset, FS_CardinalityType
  <1>4. /\ Cardinality(SeqsOf(R)) \in Nat
        /\ IsFiniteSet(SeqsOf(R) \ {x.seq})
        /\ Cardinality(SeqsOf(R) \ {x.seq}) \in Nat
        /\ Cardinality(SeqsOf(R) \ {x.seq}) >= Cardinality(SeqsOf(R)) - 1
    <2>1. /\ Cardinality(SeqsOf(R)) \in Nat
          /\ IsFiniteSet(SeqsOf(R) \ {x.seq})
      BY FS_RemoveElement, FS_CardinalityType
    <2>2. Cardinality(SeqsOf(R) \ {x.seq}) \in Nat
      BY <2>1, FS_CardinalityType
    <2>3. Cardinality(SeqsOf(R) \ {x.seq})
            = IF x.seq \in SeqsOf(R) THEN Cardinality(SeqsOf(R)) - 1
              ELSE Cardinality(SeqsOf(R))
      BY FS_RemoveElement
    <2> QED BY <2>1, <2>2, <2>3
  <1>5. Cardinality(SeqsOf(R) \ {x.seq}) <= Cardinality(SeqsOf(R2))
    BY <1>1, <1>3, FS_Subset
  <1>6. Cardinality(SeqsOf(R2)) >= Cardinality(SeqsOf(R)) - 1
    BY <1>3, <1>4, <1>5
  <1>7. ASSUME NEW e \in R2
        PROVE  Steps(top, e.seq) < Cardinality(SeqsOf(R2)) + (d + 1)
    <2>1. Steps(top, e.seq) < Cardinality(SeqsOf(R)) + d
      BY DEF Near
    <2>2. Steps(top, e.seq) \in 0 .. Modulus - 2
      BY StepsIs
    <2> QED BY <1>3, <1>4, <1>6, <2>1, <2>2, Big
  <1> QED BY <1>7 DEF Near

(* Giving up the oldest record leaves none missing.                        *)
LEMMA NearEvicted ==
  ASSUME NEW R, NEW d \in Nat, NEW top \in Numbers, NEW x \in R,
         Near(R, d, top), \A e \in R : e.seq \in Numbers,
         IsFiniteSet(SeqsOf(R)),
         \A e \in R \ {x} : Steps(top, e.seq) < Steps(top, x.seq)
  PROVE  Near(R \ {x}, d, top)
  <1>1. SeqsOf(R \ {x}) = SeqsOf(R) \ {x.seq}
    <2>1. ASSUME NEW e \in R \ {x} PROVE e.seq # x.seq
      <3>1. Steps(top, x.seq) \in 0 .. Modulus - 2
        BY StepsIs
      <3> QED BY <3>1, Big
    <2> QED BY <2>1 DEF SeqsOf
  <1>2. /\ Cardinality(SeqsOf(R)) \in Nat
        /\ Cardinality(SeqsOf(R \ {x})) = Cardinality(SeqsOf(R)) - 1
    BY <1>1, FS_RemoveElement, FS_CardinalityType, SeqsHas
  <1>3. ASSUME NEW e \in R \ {x}
        PROVE  Steps(top, e.seq) < Cardinality(SeqsOf(R \ {x})) + d
    <2>1. Steps(top, x.seq) < Cardinality(SeqsOf(R)) + d
      BY DEF Near
    <2>2. /\ Steps(top, e.seq) \in 0 .. Modulus - 2
          /\ Steps(top, x.seq) \in 0 .. Modulus - 2
      BY StepsIs
    <2>3. Steps(top, e.seq) < Steps(top, x.seq)
      OBVIOUS
    <2> QED BY <1>2, <2>1, <2>2, <2>3, Big
  <1> QED BY <1>3 DEF Near

(* A record with the next number adds none missing.                        *)
LEMMA NearExtended ==
  ASSUME NEW R, NEW d \in Nat, NEW top \in Numbers, NEW x,
         Near(R, d, top), \A e \in R : e.seq \in Numbers,
         IsFiniteSet(SeqsOf(R)), x.seq = NextSequence(top),
         \A e \in R : Steps(top, e.seq) < Modulus - 2
  PROVE  /\ Near(R \cup {x}, d, x.seq)
         /\ \A e \in R : /\ e.seq # x.seq
                         /\ Steps(x.seq, e.seq) = Steps(top, e.seq) + 1
  <1>1. x.seq \in Numbers
    BY NextIs
  <1>2. ASSUME NEW e \in R
        PROVE  /\ Steps(x.seq, e.seq) = Steps(top, e.seq) + 1
               /\ e.seq # x.seq
    <2>1. Steps(x.seq, e.seq) = Steps(top, e.seq) + 1
      BY NextSteps
    <2>2. Steps(top, e.seq) \in 0 .. Modulus - 2
      BY StepsIs
    <2>3. Steps(x.seq, e.seq) # 0
      BY <2>1, <2>2, Big
    <2> QED BY <1>1, <2>1, <2>3, StepsZero
  <1>3. SeqsOf(R \cup {x}) = SeqsOf(R) \cup {x.seq}
    BY DEF SeqsOf
  <1>4. x.seq \notin SeqsOf(R)
    BY <1>2 DEF SeqsOf
  <1>5. /\ Cardinality(SeqsOf(R)) \in Nat
        /\ Cardinality(SeqsOf(R \cup {x})) = Cardinality(SeqsOf(R)) + 1
    BY <1>3, <1>4, FS_AddElement, FS_CardinalityType
  <1>6. ASSUME NEW e \in R \cup {x}
        PROVE  Steps(x.seq, e.seq) < Cardinality(SeqsOf(R \cup {x})) + d
    <2>1. CASE e = x
      <3>1. Steps(x.seq, e.seq) = 0
        BY <1>1, <2>1, StepsZero
      <3> QED BY <1>5, <3>1
    <2>2. CASE e \in R
      <3>1. Steps(top, e.seq) < Cardinality(SeqsOf(R)) + d
        BY <2>2 DEF Near
      <3>2. Steps(top, e.seq) \in 0 .. Modulus - 2
        BY <2>2, StepsIs
      <3>3. Steps(x.seq, e.seq) = Steps(top, e.seq) + 1
        BY <1>2, <2>2
      <3> QED BY <1>5, <3>1, <3>2, <3>3, Big
    <2> QED BY <2>1, <2>2
  <1> QED BY <1>2, <1>6 DEF Near

(* The first record of an empty ring.                                      *)
LEMMA NearFirst ==
  ASSUME NEW d \in Nat, NEW x, x.seq \in Numbers
  PROVE  Near({x}, d, x.seq)
  <1>1. SeqsOf({x}) = {x.seq}
    BY DEF SeqsOf
  <1>2. Cardinality(SeqsOf({x})) = 1
    BY <1>1, FS_Singleton
  <1>3. Steps(x.seq, x.seq) = 0
    BY StepsZero
  <1> QED BY <1>2, <1>3 DEF Near

-----------------------------------------------------------------------------
(* The order of the ring.                                                  *)

(* Entries without a record do not count.                                  *)
LEMMA ValidsIs ==
  ASSUME NEW en, NEW i
  PROVE  i \in Valids(en) <=> i \in Slots /\ Valid(en[i])
  BY DEF Valids

(* A ring is two runs in order, cut at the next slot to be written.        *)
LEMMA RingSplit ==
  ASSUME NEW en \in Entries, NEW w \in Slots, NEW n \in Nat,
         NEW top \in Numbers, Ring(en, w, n, top),
         \A i \in Valids(en) : en[i].seq \in Numbers
  PROVE  Split(en, w, top)
  <1> SUFFICES ASSUME NEW i \in Valids(en), NEW j \in Valids(en), i < j
               PROVE  IF i < w /\ w <= j
                      THEN Steps(top, en[i].seq) <= Steps(top, en[j].seq)
                      ELSE Steps(top, en[j].seq) <= Steps(top, en[i].seq)
    BY DEF Split
  <1>1. i \in Slots /\ j \in Slots
    BY DEF Valids
  <1>2. /\ Behind(w, i) = IF w > i THEN w - 1 - i ELSE w - 1 - i + Depth
        /\ Behind(w, j) = IF w > j THEN w - 1 - j ELSE w - 1 - j + Depth
    BY <1>1, BehindIs
  <1>3. /\ Steps(top, en[i].seq) \in 0 .. Modulus - 2
        /\ Steps(top, en[j].seq) \in 0 .. Modulus - 2
    BY StepsIs
  <1>4. IF i < w /\ w <= j THEN Behind(w, i) < Behind(w, j)
                           ELSE Behind(w, j) < Behind(w, i)
    BY <1>1, <1>2, Big DEF Slots
  <1>5. /\ Behind(w, i) < Behind(w, j) =>
             Steps(top, en[i].seq) < Steps(top, en[j].seq)
        /\ Behind(w, j) < Behind(w, i) =>
             Steps(top, en[j].seq) < Steps(top, en[i].seq)
    BY DEF Ring
  <1> QED BY <1>3, <1>4, <1>5, Big

(* A sorted pack is one run in order.                                      *)
LEMMA SortedSplit ==
  ASSUME NEW en \in Entries, NEW p \in Nat, NEW top \in Numbers,
         Packed(en, p), Sorted(en, {i \in Slots : i < p}, top),
         \A i \in Valids(en) : en[i].seq \in Numbers
  PROVE  Split(en, 0, top)
  <1> SUFFICES ASSUME NEW i \in Valids(en), NEW j \in Valids(en), i < j
               PROVE  Steps(top, en[j].seq) <= Steps(top, en[i].seq)
    <2>1. \A i \in Valids(en) : i \in Slots /\ i >= 0 /\ ~(i < 0)
      BY Big DEF Valids, Slots
    <2> QED BY <2>1 DEF Split
  <1>1. Steps(top, en[j].seq) < Steps(top, en[i].seq)
    BY DEF Packed, Sorted
  <1>2. /\ Steps(top, en[i].seq) \in 0 .. Modulus - 2
        /\ Steps(top, en[j].seq) \in 0 .. Modulus - 2
    BY StepsIs
  <1> QED BY <1>1, <1>2, Big

(* The number of slots less than n behind w is n.                          *)
LEMMA RingSlots ==
  ASSUME NEW w \in Slots, NEW n \in 0 .. Depth
  PROVE  /\ IsFiniteSet({i \in Slots : Behind(w, i) < n})
         /\ Cardinality({i \in Slots : Behind(w, i) < n}) = n
  <1> DEFINE S == {i \in Slots : Behind(w, i) < n}
             f == [i \in S |-> Behind(w, i)]
  <1>1. f \in [S -> 0 .. n - 1]
    <2>1. ASSUME NEW i \in S PROVE Behind(w, i) \in 0 .. n - 1
      <3>1. Behind(w, i) \in 0 .. Depth - 1
        BY BehindIs
      <3>2. Behind(w, i) < n
        OBVIOUS
      <3> QED BY <3>1, <3>2, Big
    <2> QED BY <2>1
  <1>2. \A i, j \in S : f[i] = f[j] => i = j
    BY BehindInjective
  <1>3. ASSUME NEW k \in 0 .. n - 1 PROVE \E i \in S : f[i] = k
    <2>1. k \in 0 .. Depth - 1 /\ k < n
      BY Big
    <2>2. PICK i \in Slots : Behind(w, i) = k
      BY <2>1, SlotBehind
    <2>3. i \in S
      BY <2>1, <2>2
    <2> QED BY <2>2, <2>3
  <1>4. f \in Bijection(S, 0 .. n - 1)
    <2> HIDE DEF f, S
    <2>1. f \in Injection(S, 0 .. n - 1)
      BY <1>1, <1>2 DEF Injection, IsInjective
    <2>2. f \in Surjection(S, 0 .. n - 1)
      BY <1>1, <1>3 DEF Surjection
    <2> QED BY <2>1, <2>2 DEF Bijection
  <1>5. IsFiniteSet(S)
    <2>1. IsFiniteSet(Slots)
      BY Big, FS_Interval DEF Slots
    <2> QED BY <2>1, FS_Subset
  <1>6. Cardinality(0 .. n - 1) = Cardinality(S)
    BY <1>4, <1>5, FS_Bijection DEF ExistsBijection
  <1>7. Cardinality(0 .. n - 1) = n
    BY FS_Interval, Big
  <1> QED BY <1>5, <1>6, <1>7

(* The slot before w.                                                      *)
LEMMA SlotBefore ==
  ASSUME NEW w \in Slots
  PROVE  /\ (w + Depth - 1) % Depth \in Slots
         /\ Behind(w, (w + Depth - 1) % Depth) = 0
         /\ (((w + Depth - 1) % Depth) + 1) % Depth = w
  <1> DEFINE v == (w + Depth - 1) % Depth
  <1>1. v = (IF w = 0 THEN Depth - 1 ELSE w - 1) /\ v \in Slots
    BY BehindIs
  <1> HIDE DEF v
  <1>2. Behind(w, v) = IF w > v THEN w - 1 - v ELSE w - 1 - v + Depth
    BY <1>1, BehindIs
  <1>3. Behind(w, v) = 0
    BY <1>1, <1>2, Big DEF Slots
  <1>4. (v + 1) % Depth = IF v + 1 = Depth THEN 0 ELSE v + 1
    BY <1>1, BehindIs
  <1>5. (v + 1) % Depth = w
    BY <1>1, <1>4, Big DEF Slots
  <1> QED BY <1>1, <1>3, <1>5 DEF v

(* In a ring that is not empty the slot before w holds the newest record.  *)
LEMMA RingNewest ==
  ASSUME NEW en \in Entries, NEW w \in Slots, NEW n \in 1 .. Depth,
         NEW top \in Numbers, Ring(en, w, n, top)
  PROVE  LET v == (w + Depth - 1) % Depth
         IN  v \in Valids(en) /\ en[v].seq = top
  <1> DEFINE v == (w + Depth - 1) % Depth
  <1>1. v \in Slots /\ Behind(w, v) = 0
    BY SlotBefore
  <1> HIDE DEF v
  <1>2. 0 < n
    BY Big
  <1>3. v \in Valids(en)
    BY <1>1, <1>2 DEF Ring
  <1>4. en[v].seq = top
    BY <1>1, <1>3 DEF Ring
  <1> QED BY <1>3, <1>4 DEF v

(* The newest of several records exists.                                   *)
LEMMA NewestExists ==
  ASSUME NEW en \in Entries, NEW top \in Numbers, Valids(en) # {},
         \A i \in Valids(en) : en[i].seq \in Numbers
  PROVE  \E m \in Valids(en) : \A i \in Valids(en) :
           Steps(top, en[m].seq) <= Steps(top, en[i].seq)
  <1> DEFINE T == {Steps(top, en[i].seq) : i \in Valids(en)}
  <1>1. T \in SUBSET Nat /\ T # {}
    <2>1. \A i \in Valids(en) : Steps(top, en[i].seq) \in Nat
      BY StepsIs
    <2> QED BY <2>1
  <1>2. PICK t \in T : \A k \in T : t <= k
    <2> HIDE DEF T
    <2> QED BY <1>1, LeastNumber
  <1> QED BY <1>2

(* What recovery finds newest, of records of distinct numbers within the   *)
(* window, is the newest.                                                  *)
LEMMA NewestIs ==
  ASSUME NEW en \in Entries, NEW top \in Numbers, NEW m \in Valids(en),
         \A i \in Valids(en) : /\ en[i].seq \in Numbers
                               /\ Steps(top, en[i].seq) < Depth + MaxLost,
         \A i \in Valids(en) : Steps(top, en[m].seq) <= Steps(top, en[i].seq),
         Distinct(en)
  PROVE  m = CHOOSE i \in Valids(en) :
               \A j \in Valids(en) : ~After(en[j].seq, en[i].seq)
  <1>1. ASSUME NEW i \in Valids(en), NEW j \in Valids(en)
        PROVE  /\ After(en[i].seq, en[j].seq)
                    <=> Steps(top, en[i].seq) < Steps(top, en[j].seq)
               /\ Steps(top, en[i].seq) \in 0 .. Modulus - 2
    BY AfterInWindow, StepsIs
  <1>2. ASSUME NEW j \in Valids(en) PROVE ~After(en[j].seq, en[m].seq)
    <2>1. Steps(top, en[m].seq) <= Steps(top, en[j].seq)
      OBVIOUS
    <2>2. /\ Steps(top, en[m].seq) \in 0 .. Modulus - 2
          /\ Steps(top, en[j].seq) \in 0 .. Modulus - 2
      BY <1>1
    <2> QED BY <1>1, <2>1, <2>2, Big
  <1>3. ASSUME NEW i \in Valids(en),
               \A j \in Valids(en) : ~After(en[j].seq, en[i].seq)
        PROVE  i = m
    <2>1. ~(Steps(top, en[m].seq) < Steps(top, en[i].seq))
      BY <1>1, <1>3
    <2>2. Steps(top, en[m].seq) <= Steps(top, en[i].seq)
      OBVIOUS
    <2>3. /\ Steps(top, en[m].seq) \in 0 .. Modulus - 2
          /\ Steps(top, en[i].seq) \in 0 .. Modulus - 2
      BY <1>1
    <2>4. Steps(top, en[m].seq) = Steps(top, en[i].seq)
      BY <2>1, <2>2, <2>3, Big
    <2>5. en[m].seq = en[i].seq
      BY <2>4, StepsInjective
    <2> QED BY <2>5 DEF Distinct
  <1> QED BY <1>2, <1>3

(* Records in the ring's own slots and in two runs are in the ring's order.*)
LEMMA SplitRing ==
  ASSUME NEW en \in Entries, NEW c \in 0 .. Depth, NEW t \in Numbers,
         NEW m \in Valids(en), NEW n \in 1 .. Depth,
         Split(en, c, t), Distinct(en),
         \A i \in Valids(en) : en[i].seq \in Numbers,
         \A i \in Valids(en) : Steps(t, en[m].seq) <= Steps(t, en[i].seq),
         Valids(en) = {i \in Slots : Behind((m + 1) % Depth, i) < n}
  PROVE  Ring(en, (m + 1) % Depth, n, en[m].seq)
  <1> DEFINE w == (m + 1) % Depth
  <1>1. /\ m \in Slots /\ w \in Slots
        /\ w = IF m + 1 = Depth THEN 0 ELSE m + 1
    BY BehindIs DEF Valids
  <1>2. Valids(en) = {i \in Slots : Behind(w, i) < n}
    OBVIOUS
  <1> HIDE DEF w
  <1> DEFINE A(i) == Steps(t, en[i].seq)
  <1>3. ASSUME NEW i \in Valids(en)
        PROVE  /\ i \in Slots /\ A(i) \in 0 .. Modulus - 2 /\ A(m) <= A(i)
               /\ Behind(w, i) = IF i <= m THEN m - i ELSE m - i + Depth
    <2>1. i \in Slots
      BY DEF Valids
    <2>2. Behind(w, i) = IF w > i THEN w - 1 - i ELSE w - 1 - i + Depth
      BY <1>1, <2>1, BehindIs
    <2>3. Behind(w, i) = IF i <= m THEN m - i ELSE m - i + Depth
      BY <1>1, <2>1, <2>2, Big DEF Slots
    <2> QED BY <2>1, <2>3, StepsIs
  <1>4. ASSUME NEW i \in Valids(en), NEW j \in Valids(en), i # j
        PROVE  A(i) # A(j)
    BY <1>4, StepsInjective DEF Distinct
  <1>5. ASSUME NEW i \in Valids(en), NEW j \in Valids(en), i < j
        PROVE  IF i < c /\ c <= j
               THEN IF Elder(en, i, c, t) THEN j <= m /\ A(j) <= A(i)
                                          ELSE A(i) <= A(j)
               ELSE A(j) <= A(i)
    <2>1. CASE ~(i < c /\ c <= j)
      BY <1>5, <2>1 DEF Split
    <2>2. CASE i < c /\ c <= j /\ ~Elder(en, i, c, t)
      BY <1>5, <2>2 DEF Split
    <2>3. CASE i < c /\ c <= j /\ Elder(en, i, c, t)
      <3>1. A(j) <= A(i)
        BY <2>3 DEF Elder
      <3>2. j <= m
        <4>1. Depth - 1 \in Slots /\ Depth - 1 \notin Valids(en)
          BY <2>3, Big DEF Elder, Slots, Valids
        <4>2. Behind(w, Depth - 1) = m + 1
          <5>1. m # Depth - 1
            BY <4>1
          <5>2. /\ m \in 0 .. Depth - 1
                /\ Behind(w, Depth - 1)
                     = IF w > Depth - 1 THEN w - 1 - (Depth - 1)
                       ELSE w - 1 - (Depth - 1) + Depth
            BY <1>1, <4>1, BehindIs DEF Slots
          <5> QED BY <1>1, <5>1, <5>2, Big
        <4>3. ~(m + 1 < n)
          BY <1>2, <4>1, <4>2
        <4>4. Behind(w, j) < n
          BY <1>2
        <4>5. /\ j \in 0 .. Depth - 1 /\ m \in 0 .. Depth - 1
              /\ Behind(w, j) = IF j <= m THEN m - j ELSE m - j + Depth
          BY <1>1, <1>3 DEF Slots
        <4> QED BY <4>3, <4>4, <4>5, Big
      <3> QED BY <2>3, <3>1, <3>2
    <2> QED BY <2>1, <2>2, <2>3
  <1>6. ASSUME NEW i \in Valids(en), NEW j \in Valids(en),
               Behind(w, i) < Behind(w, j)
        PROVE  A(i) < A(j)
    <2>1. /\ i \in Int /\ j \in Int /\ m \in Int /\ c \in Int
          /\ 0 <= i /\ i < Depth /\ 0 <= j /\ j < Depth
          /\ 0 <= m /\ m < Depth
      BY <1>1, <1>3, Big DEF Slots
    <2>2. /\ A(i) \in Int /\ A(j) \in Int /\ A(m) \in Int
          /\ A(m) <= A(i) /\ A(m) <= A(j)
      BY <1>3, Big
    <2>3. i # j /\ A(i) # A(j)
      <3>1. Behind(w, i) \in Int
        BY <1>3, <2>1, Big
      <3>2. i # j
        BY <1>6, <3>1
      <3> QED BY <3>2, <1>4
    <2>4. /\ Behind(w, i) = IF i <= m THEN m - i ELSE m - i + Depth
          /\ Behind(w, j) = IF j <= m THEN m - j ELSE m - j + Depth
      BY <1>3
    <2> DEFINE E(x) == Elder(en, x, c, t)
    <2>5. /\ i < j => IF i < c /\ c <= j
                     THEN IF E(i) THEN j <= m /\ A(j) <= A(i)
                                  ELSE A(i) <= A(j)
                     ELSE A(j) <= A(i)
          /\ j < i => IF j < c /\ c <= i
                     THEN IF E(j) THEN i <= m /\ A(i) <= A(j)
                                  ELSE A(j) <= A(i)
                     ELSE A(i) <= A(j)
          /\ m < j => IF m < c /\ c <= j
                     THEN IF E(m) THEN j <= m /\ A(j) <= A(m)
                                  ELSE A(m) <= A(j)
                     ELSE A(j) <= A(m)
          /\ m < i => IF m < c /\ c <= i
                     THEN IF E(m) THEN i <= m /\ A(i) <= A(m)
                                  ELSE A(m) <= A(i)
                     ELSE A(i) <= A(m)
          /\ i < m => IF i < c /\ c <= m
                     THEN IF E(i) THEN m <= m /\ A(m) <= A(i)
                                  ELSE A(i) <= A(m)
                     ELSE A(m) <= A(i)
          /\ j < m => IF j < c /\ c <= m
                     THEN IF E(j) THEN m <= m /\ A(m) <= A(j)
                                  ELSE A(j) <= A(m)
                     ELSE A(m) <= A(j)
      BY <1>5
    <2>6. (m # i => A(m) # A(i)) /\ (m # j => A(m) # A(j))
      BY <1>4
    <2> HIDE DEF A, E
    <2> QED BY <1>6, <2>1, <2>2, <2>3, <2>4, <2>5, <2>6, Big
  <1>7. ASSUME NEW i \in Valids(en), NEW j \in Valids(en),
               Behind(w, i) < Behind(w, j)
        PROVE  Steps(en[m].seq, en[i].seq) < Steps(en[m].seq, en[j].seq)
    <2>1. A(i) < A(j)
      BY <1>6, <1>7
    <2>2. /\ Steps(en[m].seq, en[i].seq) = A(i) - A(m)
          /\ Steps(en[m].seq, en[j].seq) = A(j) - A(m)
      BY StepsAdd
    <2>3. A(i) \in Int /\ A(j) \in Int /\ A(m) \in Int
      BY <1>3, Big
    <2> HIDE DEF A
    <2> QED BY <2>1, <2>2, <2>3
  <1>8. ASSUME NEW i \in Valids(en), Behind(w, i) = 0
        PROVE  en[i].seq = en[m].seq
    <2>1. i = m
      BY <1>1, <1>3, <1>8, Big DEF Slots
    <2> QED BY <2>1
  <1>9. Ring(en, w, n, en[m].seq)
    BY <1>2, <1>7, <1>8 DEF Ring
  <1> QED BY <1>9 DEF w

-----------------------------------------------------------------------------
(* The journal in its order.                                               *)

(* A finite set of records of distinct numbers, all within the window.     *)
InWindow(S, top) ==
  /\ IsFiniteSet(S)
  /\ \A r \in S : /\ r.seq \in Numbers
                  /\ Steps(top, r.seq) < Depth + MaxLost
  /\ \A q, r \in S : q.seq = r.seq => q = r

Before(S, r) == {q \in S : After(r.seq, q.seq)}

(* The code's comparison puts such records in a strict order.              *)
LEMMA WindowOrder ==
  ASSUME NEW S, NEW top \in Numbers, InWindow(S, top)
  PROVE  /\ \A a \in S : ~After(a.seq, a.seq)
         /\ \A a, b \in S : a = b \/ After(a.seq, b.seq) \/ After(b.seq, a.seq)
         /\ \A a, b, c \in S :
              After(a.seq, b.seq) /\ After(b.seq, c.seq) => After(a.seq, c.seq)
         /\ \A a, b \in S : After(a.seq, b.seq) => ~After(b.seq, a.seq)
  <1> DEFINE A(r) == Steps(top, r.seq)
  <1>1. ASSUME NEW a \in S, NEW b \in S
        PROVE  /\ After(a.seq, b.seq) <=> A(a) < A(b)
               /\ A(a) \in Int /\ A(b) \in Int
    <2>1. /\ a.seq \in Numbers /\ A(a) < Depth + MaxLost
          /\ b.seq \in Numbers /\ A(b) < Depth + MaxLost
      BY DEF InWindow
    <2>2. A(a) \in 0 .. Modulus - 2 /\ A(b) \in 0 .. Modulus - 2
      BY <2>1, StepsIs
    <2> QED BY <2>1, <2>2, AfterInWindow, Big
  <1>2. ASSUME NEW a \in S, NEW b \in S, A(a) = A(b)
        PROVE  a = b
    <2>1. a.seq \in Numbers /\ b.seq \in Numbers
      BY DEF InWindow
    <2>2. a.seq = b.seq
      BY <1>2, <2>1, StepsInjective
    <2> QED BY <2>2 DEF InWindow
  <1> HIDE DEF A
  <1> QED BY <1>1, <1>2

(* The finitely many records before one.                                   *)
LEMMA BeforeFinite ==
  ASSUME NEW S, NEW r, IsFiniteSet(S)
  PROVE  /\ IsFiniteSet(Before(S, r)) /\ Before(S, r) \subseteq S
         /\ Rank(S, r) = Cardinality(Before(S, r)) /\ Rank(S, r) \in Nat
  <1>1. Before(S, r) \subseteq S
    BY DEF Before
  <1>2. IsFiniteSet(Before(S, r)) /\ Cardinality(Before(S, r)) \in Nat
    BY <1>1, FS_Subset, FS_CardinalityType
  <1>3. Rank(S, r) = Cardinality(Before(S, r))
    BY DEF Rank, Before
  <1> QED BY <1>1, <1>2, <1>3

(* A proper subset is smaller.                                             *)
LEMMA ProperSubset ==
  ASSUME NEW S, NEW T, NEW x \in T, IsFiniteSet(T), S \subseteq T, x \notin S
  PROVE  Cardinality(S) < Cardinality(T)
  <1>1. /\ Cardinality(S) \in Nat /\ Cardinality(T) \in Nat
        /\ Cardinality(S) <= Cardinality(T)
        /\ Cardinality(S) # Cardinality(T)
    BY FS_Subset, FS_CardinalityType
  <1> QED BY <1>1

(* An older record has a lower rank; no two records have the same.         *)
LEMMA RankRises ==
  ASSUME NEW S, NEW top \in Numbers, InWindow(S, top)
  PROVE  /\ \A q, r \in S : After(r.seq, q.seq) => Rank(S, q) < Rank(S, r)
         /\ \A q, r \in S : Rank(S, q) = Rank(S, r) => q = r
         /\ \A r \in S : Rank(S, r) \in 0 .. Cardinality(S) - 1
  <1>1. IsFiniteSet(S) /\ Cardinality(S) \in Nat
    BY FS_CardinalityType DEF InWindow
  <1>2. ASSUME NEW q \in S, NEW r \in S, After(r.seq, q.seq)
        PROVE  Rank(S, q) < Rank(S, r)
    <2>1. Before(S, q) \subseteq Before(S, r)
      BY <1>2, WindowOrder DEF Before
    <2>2. q \in Before(S, r) /\ q \notin Before(S, q)
      BY <1>2, WindowOrder DEF Before
    <2>3. Cardinality(Before(S, q)) < Cardinality(Before(S, r))
      BY <1>1, <2>1, <2>2, BeforeFinite, ProperSubset
    <2> QED BY <1>1, <2>3, BeforeFinite
  <1>3. ASSUME NEW q \in S, NEW r \in S, Rank(S, q) = Rank(S, r)
        PROVE  q = r
    <2>1. Rank(S, q) \in Nat /\ Rank(S, r) \in Nat
      BY <1>1, BeforeFinite
    <2>2. ~After(r.seq, q.seq) /\ ~After(q.seq, r.seq)
      BY <1>2, <1>3, <2>1
    <2> QED BY <2>2, WindowOrder
  <1>4. ASSUME NEW r \in S PROVE Rank(S, r) \in 0 .. Cardinality(S) - 1
    <2>1. r \notin Before(S, r)
      BY WindowOrder DEF Before
    <2>2. Cardinality(Before(S, r)) < Cardinality(S)
      BY <1>1, <2>1, BeforeFinite, ProperSubset
    <2>3. Rank(S, r) = Cardinality(Before(S, r)) /\ Rank(S, r) \in Nat
      BY <1>1, BeforeFinite
    <2> QED BY <1>1, <2>2, <2>3
  <1> QED BY <1>2, <1>3, <1>4

(* Every rank is some record's.                                            *)
LEMMA RankExists ==
  ASSUME NEW S, NEW top \in Numbers, InWindow(S, top),
         NEW k \in 0 .. Cardinality(S) - 1
  PROVE  \E r \in S : Rank(S, r) = k
  <1> DEFINE n == Cardinality(S)
             f == [r \in S |-> Rank(S, r)]
  <1>1. IsFiniteSet(S) /\ n \in Nat
    BY FS_CardinalityType DEF InWindow
  <1>2. f \in Injection(S, 0 .. n - 1)
    <2>1. f \in [S -> 0 .. n - 1]
      BY RankRises
    <2>2. \A a, b \in DOMAIN f : f[a] = f[b] => a = b
      BY RankRises
    <2> HIDE DEF f
    <2> QED BY <2>1, <2>2 DEF Injection, IsInjective
  <1>3. IsFiniteSet(0 .. n - 1) /\ Cardinality(0 .. n - 1) = n
    <2> HIDE DEF n
    <2> QED BY <1>1, FS_Interval
  <1>4. f \in Surjection(S, 0 .. n - 1)
    <2> HIDE DEF f
    <2>1. Cardinality(S) = Cardinality(0 .. n - 1)
      BY <1>3
    <2> QED BY <1>2, <1>3, <2>1, FS_Injection
  <1>5. PICK r \in S : f[r] = k
    BY <1>4 DEF Surjection
  <1> QED BY <1>5

(* InOrder lists the set, every record at its rank.                        *)
LEMMA InOrderIs ==
  ASSUME NEW S, NEW top \in Numbers, InWindow(S, top)
  PROVE  /\ InOrder(S) \in Seq(S) /\ Len(InOrder(S)) = Cardinality(S)
         /\ Cardinality(S) \in Nat
         /\ \A k \in 1 .. Cardinality(S) :
              InOrder(S)[k] \in S /\ Rank(S, InOrder(S)[k]) = k - 1
         /\ \A r \in S : /\ Rank(S, r) + 1 \in 1 .. Cardinality(S)
                         /\ InOrder(S)[Rank(S, r) + 1] = r
  <1> DEFINE n == Cardinality(S)
             L == InOrder(S)
  <1>1. IsFiniteSet(S) /\ n \in Nat
    BY FS_CardinalityType DEF InWindow
  <1>2. L = [k \in 1 .. n |-> CHOOSE r \in S : Rank(S, r) = k - 1]
    BY DEF InOrder
  <1>3. ASSUME NEW k \in 1 .. n
        PROVE  L[k] \in S /\ Rank(S, L[k]) = k - 1
    <2>1. k - 1 \in 0 .. n - 1
      BY <1>1
    <2>2. \E r \in S : Rank(S, r) = k - 1
      BY <2>1, RankExists
    <2>3. L[k] = CHOOSE r \in S : Rank(S, r) = k - 1
      BY <1>2
    <2> HIDE DEF L
    <2> QED BY <2>2, <2>3
  <1>4. L \in [1 .. n -> S]
    <2>1. ASSUME NEW k \in 1 .. n
          PROVE  (CHOOSE r \in S : Rank(S, r) = k - 1) \in S
      BY <1>2, <1>3
    <2> QED BY <1>2, <2>1
  <1> HIDE DEF n, L
  <1>5. L \in Seq(S) /\ Len(L) = n
    BY <1>1, <1>4
  <1>6. ASSUME NEW r \in S
        PROVE  Rank(S, r) + 1 \in 1 .. n /\ L[Rank(S, r) + 1] = r
    <2>1. Rank(S, r) \in 0 .. n - 1
      BY RankRises DEF n
    <2>2. Rank(S, r) + 1 \in 1 .. n
      BY <1>1, <2>1
    <2>3. L[Rank(S, r) + 1] \in S /\ Rank(S, L[Rank(S, r) + 1]) = Rank(S, r)
      <3>1. (Rank(S, r) + 1) - 1 = Rank(S, r)
        BY <1>1, <2>1
      <3> QED BY <1>3, <2>2, <3>1
    <2> QED BY <2>2, <2>3, RankRises
  <1> QED BY <1>1, <1>3, <1>5, <1>6 DEF n, L

(* A list that holds every record of the set at its rank is the journal.   *)
LEMMA InOrderUnique ==
  ASSUME NEW S, NEW top \in Numbers, InWindow(S, top),
         NEW L \in Seq(S), Len(L) = Cardinality(S),
         \A r \in S : L[Rank(S, r) + 1] = r
  PROVE  InOrder(S) = L
  <1>1. ASSUME NEW k \in 1 .. Cardinality(S)
        PROVE  InOrder(S)[k] = L[k]
    <2>1. InOrder(S)[k] \in S /\ Rank(S, InOrder(S)[k]) = k - 1
      BY InOrderIs
    <2>2. (k - 1) + 1 = k
      BY InOrderIs
    <2> QED BY <2>1, <2>2
  <1>2. InOrder(S) \in Seq(S) /\ Len(InOrder(S)) = Cardinality(S)
    BY InOrderIs
  <1> QED BY <1>1, <1>2

(* Nothing retained: the empty journal.                                    *)
LEMMA JournalEmpty == InOrder({}) = <<>>
  <1>1. Cardinality({}) = 0
    BY FS_EmptySet
  <1>2. InOrder({}) = [k \in 1 .. 0 |-> CHOOSE r \in {} : Rank({}, r) = k - 1]
    BY <1>1 DEF InOrder
  <1> QED BY <1>2

(* A smaller set is in the window too.                                     *)
LEMMA WindowSubset ==
  ASSUME NEW S, NEW top \in Numbers, InWindow(S, top), NEW T, T \subseteq S
  PROVE  InWindow(T, top)
  <1>1. IsFiniteSet(T)
    BY FS_Subset DEF InWindow
  <1> QED BY <1>1 DEF InWindow

(* A record newer than all others goes to the end.                         *)
LEMMA JournalAppends ==
  ASSUME NEW S, NEW x, NEW top \in Numbers, InWindow(S \cup {x}, top),
         x \notin S, \A q \in S : After(x.seq, q.seq)
  PROVE  InOrder(S \cup {x}) = Append(InOrder(S), x)
  <1> DEFINE T == S \cup {x}
             L == Append(InOrder(S), x)
  <1>1. InWindow(S, top)
    BY WindowSubset
  <1>2. IsFiniteSet(S) /\ Cardinality(S) \in Nat
        /\ Cardinality(T) = Cardinality(S) + 1
    BY <1>1, FS_AddElement, FS_CardinalityType DEF InWindow
  <1>3. ASSUME NEW r \in S PROVE Rank(T, r) = Rank(S, r)
    <2>1. ~After(r.seq, x.seq)
      BY WindowOrder
    <2>2. Before(T, r) = Before(S, r)
      BY <2>1 DEF Before
    <2>3. Rank(T, r) = Cardinality(Before(T, r))
      BY DEF Rank, Before
    <2>4. Rank(S, r) = Cardinality(Before(S, r))
      BY DEF Rank, Before
    <2> QED BY <2>2, <2>3, <2>4
  <1>4. Rank(T, x) = Cardinality(S)
    <2>1. Before(T, x) = S
      BY WindowOrder DEF Before
    <2>2. Rank(T, x) = Cardinality(Before(T, x))
      BY DEF Rank, Before
    <2> QED BY <2>1, <2>2
  <1>5. InOrder(S) \in Seq(T) /\ Len(InOrder(S)) = Cardinality(S)
    <2>1. InOrder(S) \in Seq(S)
      BY <1>1, InOrderIs
    <2>2. S \subseteq T
      OBVIOUS
    <2>3. InOrder(S) \in Seq(T)
      BY <2>1, <2>2, SeqMonotonic
    <2> QED BY <1>1, <2>3, InOrderIs
  <1>6. /\ L \in Seq(T) /\ Len(L) = Cardinality(T)
        /\ \A i \in 1 .. Cardinality(S) : L[i] = InOrder(S)[i]
        /\ L[Cardinality(S) + 1] = x
    <2> HIDE DEF T
    <2>1. x \in T
      BY DEF T
    <2> QED BY <1>2, <1>5, <2>1, AppendProperties
  <1>7. ASSUME NEW r \in T PROVE L[Rank(T, r) + 1] = r
    <2>1. CASE r = x
      BY <1>4, <1>6, <2>1
    <2>2. CASE r \in S
      <3>1. /\ Rank(S, r) + 1 \in 1 .. Cardinality(S)
            /\ InOrder(S)[Rank(S, r) + 1] = r
        BY <1>1, <2>2, InOrderIs
      <3> HIDE DEF L
      <3> QED BY <1>3, <1>6, <2>2, <3>1
    <2> QED BY <2>1, <2>2
  <1> HIDE DEF T, L
  <1>8. InOrder(T) = L
    <2>1. InWindow(T, top)
      BY DEF T
    <2> QED BY <1>6, <1>7, <2>1, InOrderUnique
  <1> QED BY <1>8 DEF T, L

(* The newest record is the last of the journal.                           *)
LEMMA JournalLast ==
  ASSUME NEW S, NEW top \in Numbers, InWindow(S, top), NEW x \in S,
         \A q \in S \ {x} : After(x.seq, q.seq)
  PROVE  /\ InOrder(S)[Len(InOrder(S))] = x
         /\ InOrder(S) # <<>>
  <1>1. Before(S, x) = S \ {x}
    BY WindowOrder DEF Before
  <1>2. /\ IsFiniteSet(S) /\ Cardinality(S) \in Nat
        /\ Cardinality(S \ {x}) = Cardinality(S) - 1
    BY FS_RemoveElement, FS_CardinalityType DEF InWindow
  <1>3. Rank(S, x) = Cardinality(S) - 1
    BY <1>1, <1>2 DEF Rank, Before
  <1>4. Rank(S, x) + 1 = Cardinality(S)
    BY <1>2, <1>3
  <1>5. InOrder(S)[Cardinality(S)] = x /\ Cardinality(S) \in 1 .. Cardinality(S)
    BY <1>4, InOrderIs
  <1>6. Len(InOrder(S)) = Cardinality(S)
    BY InOrderIs
  <1>7. InOrder(S) # <<>>
    BY <1>5, <1>6, <1>2
  <1> QED BY <1>5, <1>6, <1>7

(* What the loss of the i-th of n elements leaves.                         *)
LEMMA Without ==
  ASSUME NEW T, NEW L \in Seq(T), NEW i \in 1 .. Len(L)
  PROVE  LET W == SubSeq(L, 1, i - 1) \o SubSeq(L, i + 1, Len(L))
         IN  /\ W \in Seq(T) /\ Len(W) = Len(L) - 1
             /\ \A k \in 1 .. Len(L) - 1 :
                  W[k] = IF k < i THEN L[k] ELSE L[k + 1]
  <1> DEFINE n == Len(L)
             F == SubSeq(L, 1, i - 1)
             G == SubSeq(L, i + 1, n)
  <1>1. n \in Nat /\ i \in Nat /\ 1 <= i /\ i <= n
    OBVIOUS
  <1>2. \A k \in 1 .. n : L[k] \in T
    BY ElementOfSeq
  <1> HIDE DEF n
  <1>3. /\ F \in Seq(T) /\ Len(F) = i - 1
        /\ \A k \in 1 .. i - 1 : F[k] = L[k]
    <2>1. \A k \in 1 .. i - 1 : L[k] \in T
      BY <1>1, <1>2
    <2>2. /\ F \in Seq(T) /\ Len(F) = IF 1 <= i - 1 THEN (i - 1) - 1 + 1 ELSE 0
          /\ \A k \in 1 .. (i - 1) - 1 + 1 : F[k] = L[1 + k - 1]
      <3>1. 1 \in Int /\ i - 1 \in Int
        BY <1>1
      <3> HIDE DEF F
      <3> QED BY <2>1, <3>1, SubSeqProperties DEF F
    <2> HIDE DEF F
    <2> QED BY <1>1, <2>2
  <1>4. /\ G \in Seq(T) /\ Len(G) = n - i
        /\ \A k \in 1 .. n - i : G[k] = L[i + k]
    <2>1. \A k \in i + 1 .. n : L[k] \in T
      BY <1>1, <1>2
    <2>2. /\ G \in Seq(T) /\ Len(G) = IF i + 1 <= n THEN n - (i + 1) + 1 ELSE 0
          /\ \A k \in 1 .. n - (i + 1) + 1 : G[k] = L[(i + 1) + k - 1]
      <3>1. i + 1 \in Int /\ n \in Int
        BY <1>1
      <3> HIDE DEF G
      <3> QED BY <2>1, <3>1, SubSeqProperties DEF G
    <2> HIDE DEF G
    <2> QED BY <1>1, <2>2
  <1> HIDE DEF F, G
  <1>5. /\ F \o G \in Seq(T) /\ Len(F \o G) = Len(F) + Len(G)
        /\ \A k \in 1 .. Len(F) + Len(G) : (F \o G)[k] =
                     IF k <= Len(F) THEN F[k] ELSE G[k - Len(F)]
    BY <1>3, <1>4, ConcatProperties
  <1> DEFINE W == F \o G
  <1> HIDE DEF W
  <1>6. /\ W \in Seq(T) /\ Len(W) = n - 1
        /\ \A k \in 1 .. n - 1 : W[k] = IF k < i THEN L[k] ELSE L[k + 1]
    <2>1. /\ W \in Seq(T) /\ Len(W) = Len(F) + Len(G)
          /\ \A k \in 1 .. Len(F) + Len(G) : W[k] =
                     IF k <= Len(F) THEN F[k] ELSE G[k - Len(F)]
      BY <1>5 DEF W
    <2>2. Len(F) + Len(G) = n - 1
      BY <1>1, <1>3, <1>4
    <2>3. ASSUME NEW k \in 1 .. n - 1
          PROVE  W[k] = IF k < i THEN L[k] ELSE L[k + 1]
      <3>1. W[k] = IF k <= Len(F) THEN F[k] ELSE G[k - Len(F)]
        BY <2>1, <2>2
      <3>2. CASE k < i
        BY <1>1, <1>3, <3>1, <3>2
      <3>3. CASE ~(k < i)
        <4>1. W[k] = G[k - (i - 1)]
          BY <1>1, <1>3, <3>1, <3>3
        <4>2. k - (i - 1) \in 1 .. n - i
          BY <1>1, <3>3
        <4>3. G[k - (i - 1)] = L[i + (k - (i - 1))]
          BY <1>4, <4>2
        <4>4. i + (k - (i - 1)) = k + 1
          BY <1>1
        <4> QED BY <3>3, <4>1, <4>3, <4>4
      <3> QED BY <3>2, <3>3
    <2> QED BY <2>1, <2>2, <2>3
  <1> QED BY <1>6 DEF W, F, G, n

(* A record lost is lost from its place; the others close up.              *)
LEMMA JournalLoses ==
  ASSUME NEW S, NEW top \in Numbers, InWindow(S, top), NEW x \in S
  PROVE  LET L == InOrder(S)
             i == Rank(S, x) + 1
         IN  /\ i \in 1 .. Len(L)
             /\ InOrder(S \ {x})
                  = SubSeq(L, 1, i - 1) \o SubSeq(L, i + 1, Len(L))
  <1> DEFINE L == InOrder(S)
             i == Rank(S, x) + 1
             T == S \ {x}
             n == Cardinality(S)
             W == SubSeq(L, 1, i - 1) \o SubSeq(L, i + 1, Len(L))
  <1>1. /\ L \in Seq(S) /\ Len(L) = n /\ n \in Nat
        /\ \A k \in 1 .. n : L[k] \in S
        /\ \A r \in S : Rank(S, r) + 1 \in 1 .. n /\ L[Rank(S, r) + 1] = r
        /\ i \in 1 .. n
    BY InOrderIs
  <1>2. IsFiniteSet(S) /\ Cardinality(T) = n - 1
    BY FS_RemoveElement DEF InWindow
  <1>3. InWindow(T, top)
    BY WindowSubset
  <1>4. ASSUME NEW r \in T
        PROVE  /\ Rank(T, r) = IF After(r.seq, x.seq) THEN Rank(S, r) - 1
                                                      ELSE Rank(S, r)
               /\ Rank(T, r) \in Nat /\ Rank(S, r) \in Nat
               /\ Rank(S, r) + 1 \in 1 .. n
    <2>1. Before(T, r) = Before(S, r) \ {x}
      BY DEF Before
    <2>2. x \in Before(S, r) <=> After(r.seq, x.seq)
      BY DEF Before
    <2>3. /\ IsFiniteSet(Before(S, r)) /\ Rank(S, r) = Cardinality(Before(S, r))
          /\ Rank(T, r) = Cardinality(Before(T, r))
          /\ Rank(T, r) \in Nat /\ Rank(S, r) \in Nat
      BY <1>2, <1>3, BeforeFinite DEF InWindow
    <2>4. Cardinality(Before(S, r) \ {x})
            = IF x \in Before(S, r) THEN Cardinality(Before(S, r)) - 1
                                    ELSE Cardinality(Before(S, r))
      BY <2>3, FS_RemoveElement
    <2> QED BY <1>1, <2>1, <2>2, <2>3, <2>4
  <1>5. /\ W \in Seq(S) /\ Len(W) = n - 1
        /\ \A k \in 1 .. n - 1 : W[k] = IF k < i THEN L[k] ELSE L[k + 1]
    <2> HIDE DEF L, i, n
    <2> QED BY <1>1, Without
  <1>6. ASSUME NEW r \in T
        PROVE  W[Rank(T, r) + 1] = r /\ Rank(T, r) + 1 \in 1 .. n - 1
    <2>1. /\ Rank(T, r) + 1 \in 1 .. Cardinality(T)
          /\ Rank(T, r) + 1 \in 1 .. n - 1
      BY <1>2, <1>3, InOrderIs
    <2>2. CASE After(r.seq, x.seq)
      <3>1. Rank(S, x) < Rank(S, r)
        BY <2>2, RankRises
      <3>2. /\ ~(Rank(T, r) + 1 < i) /\ (Rank(T, r) + 1) + 1 = Rank(S, r) + 1
        <4>1. Rank(S, x) \in Nat
          BY <1>2, BeforeFinite
        <4>2. Rank(T, r) = Rank(S, r) - 1 /\ Rank(S, r) \in Nat
          BY <1>4, <2>2
        <4> HIDE DEF T, W, L, n
        <4> QED BY <3>1, <4>1, <4>2
      <3> HIDE DEF W, L, n, i, T
      <3>3. W[Rank(T, r) + 1] = L[Rank(S, r) + 1]
        BY <1>5, <2>1, <3>2
      <3>4. r \in S
        BY DEF T
      <3> QED BY <1>1, <2>1, <3>3, <3>4
    <2>3. CASE ~After(r.seq, x.seq)
      <3>1. After(x.seq, r.seq)
        BY <2>3, WindowOrder
      <3>2. Rank(S, r) < Rank(S, x)
        BY <3>1, RankRises
      <3>3. Rank(T, r) = Rank(S, r) /\ Rank(T, r) + 1 < i
        <4>1. Rank(S, x) \in Nat
          BY <1>2, BeforeFinite
        <4>2. Rank(T, r) = Rank(S, r) /\ Rank(S, r) \in Nat
          BY <1>4, <2>3
        <4> HIDE DEF T, W, L, n
        <4> QED BY <3>2, <4>1, <4>2
      <3> HIDE DEF W, L, n, i, T
      <3>4. W[Rank(T, r) + 1] = L[Rank(S, r) + 1]
        BY <1>5, <2>1, <3>3
      <3>5. r \in S
        BY DEF T
      <3> QED BY <1>1, <2>1, <3>4, <3>5
    <2> QED BY <2>2, <2>3
  <1>7. InOrder(T) = W
    <2>1. InOrder(T) \in Seq(S) /\ Len(InOrder(T)) = n - 1
      <3>1. InOrder(T) \in Seq(T) /\ Len(InOrder(T)) = n - 1
        BY <1>2, <1>3, InOrderIs
      <3>2. T \subseteq S
        OBVIOUS
      <3> QED BY <3>1, <3>2, SeqMonotonic
    <2>2. ASSUME NEW k \in 1 .. n - 1 PROVE InOrder(T)[k] = W[k]
      <3>1. /\ InOrder(T)[k] \in T
            /\ Rank(T, InOrder(T)[k]) = k - 1
        BY <1>2, <1>3, InOrderIs
      <3>2. (k - 1) + 1 = k
        BY <1>1
      <3> HIDE DEF W, T, n
      <3> QED BY <1>6, <3>1, <3>2
    <2> HIDE DEF W, T, n
    <2> QED BY <1>1, <1>5, <2>1, <2>2, SeqEqual
  <1> QED BY <1>1, <1>7

(* The oldest record lost leaves the tail.                                 *)
LEMMA JournalEvicts ==
  ASSUME NEW S, NEW top \in Numbers, InWindow(S, top), NEW x \in S,
         \A q \in S : ~After(x.seq, q.seq)
  PROVE  InOrder(S \ {x}) = Tail(InOrder(S))
  <1> DEFINE L == InOrder(S)
  <1>1. Rank(S, x) = 0
    <2>1. Before(S, x) = {}
      BY DEF Before
    <2> QED BY <2>1, FS_EmptySet DEF Rank, Before
  <1>2. /\ Rank(S, x) + 1 \in 1 .. Len(L)
        /\ InOrder(S \ {x}) = SubSeq(L, 1, (Rank(S, x) + 1) - 1)
                                \o SubSeq(L, (Rank(S, x) + 1) + 1, Len(L))
    BY JournalLoses
  <1>3. L \in Seq(S) /\ Len(L) \in Nat /\ L # <<>>
    BY <1>1, <1>2, InOrderIs
  <1>4. InOrder(S \ {x}) = SubSeq(L, 1, 0) \o SubSeq(L, 2, Len(L))
    <2>1. (Rank(S, x) + 1) - 1 = 0 /\ (Rank(S, x) + 1) + 1 = 2
      BY <1>1
    <2> HIDE DEF L
    <2> QED BY <1>2, <2>1
  <1> HIDE DEF L
  <1>5. SubSeq(L, 1, 0) = <<>>
    BY SubSeqEmpty
  <1>6. Tail(L) = SubSeq(L, 2, Len(L))
    BY <1>3, TailIsSubSeq
  <1>7. SubSeq(L, 2, Len(L)) \in Seq(S)
    BY <1>3, <1>6, HeadTailProperties
  <1>8. InOrder(S \ {x}) = Tail(L)
    BY <1>4, <1>5, <1>6, <1>7, ConcatEmptySeq
  <1> QED BY <1>8 DEF L

-----------------------------------------------------------------------------
(* What the invariant says of the state, unfolded.                         *)

(* The variables' fields.                                                  *)
LEMMA StateFields ==
  ASSUME Types
  PROVE  /\ ram \in RamType /\ cpu \in CpuType /\ life \in LifeType
         /\ ram.magic \in BOOLEAN /\ ram.write \in Slots
         /\ ram.count \in 0 .. Depth /\ ram.boot \in BootNo
         /\ ram.next \in 0 .. Modulus - 1 /\ ram.entry \in Entries
         /\ \A i \in Slots : ram.entry[i] \in Entry
         /\ cpu.pc \in Pcs /\ cpu.op \in Ops \cup {"none"}
         /\ cpu.event \in Events /\ cpu.read \in 0 .. Depth
         /\ cpu.packed \in 0 .. Depth /\ cpu.index \in 0 .. Depth
         /\ cpu.newest \in 0 .. Modulus - 1 /\ cpu.key \in Entry
         /\ cpu.count \in 0 .. Depth /\ cpu.write \in Slots
         /\ cpu.boot \in BootNo /\ cpu.replacing \in BOOLEAN
         /\ cpu.dirty \in BOOLEAN
         /\ life.boots \in 0 .. MaxBoots /\ life.booting \in BOOLEAN
         /\ life.panic \in BOOLEAN /\ life.damages \in 0 .. MaxDamages
         /\ Lost \in 0 .. MaxLost /\ Lost \in Nat
  <1>1. /\ ram \in RamType /\ cpu \in CpuType /\ life \in LifeType
    BY DEF Types
  <1>2. /\ ram.magic \in BOOLEAN /\ ram.write \in Slots
        /\ ram.count \in 0 .. Depth /\ ram.boot \in BootNo
        /\ ram.next \in 0 .. Modulus - 1 /\ ram.entry \in Entries
    BY <1>1 DEF RamType
  <1>3. \A i \in Slots : ram.entry[i] \in Entry
    BY <1>2 DEF Entries
  <1>4. /\ cpu.pc \in Pcs /\ cpu.op \in Ops \cup {"none"}
        /\ cpu.event \in Events /\ cpu.read \in 0 .. Depth
        /\ cpu.packed \in 0 .. Depth /\ cpu.index \in 0 .. Depth
        /\ cpu.newest \in 0 .. Modulus - 1 /\ cpu.key \in Entry
        /\ cpu.count \in 0 .. Depth /\ cpu.write \in Slots
        /\ cpu.boot \in BootNo /\ cpu.replacing \in BOOLEAN
        /\ cpu.dirty \in BOOLEAN
    BY <1>1 DEF CpuType
  <1>5. /\ life.boots \in 0 .. MaxBoots /\ life.booting \in BOOLEAN
        /\ life.panic \in BOOLEAN /\ life.damages \in 0 .. MaxDamages
    BY <1>1 DEF LifeType
  <1>6. /\ Lost \in 0 .. MaxLost /\ Lost \in Nat
    BY <1>5, Big DEF Lost, Cuts, MaxLost
  <1> QED BY <1>1, <1>2, <1>3, <1>4, <1>5, <1>6

(* The records held.                                                       *)
LEMMA HeldFacts ==
  ASSUME Types
  PROVE  /\ \A e \in HeldNow : /\ Valid(e) /\ e \in Entry
                               /\ e.seq \in Numbers /\ e.boot \in BootNo
         /\ \A i \in Valids(ram.entry) :
              /\ i \in Slots /\ ram.entry[i] \in HeldNow
              /\ ram.entry[i].seq \in Numbers
         /\ ValidSlots = Valids(ram.entry)
         /\ IsFiniteSet(SeqsOf(HeldNow))
         /\ Cardinality(SeqsOf(HeldNow)) \in Nat
         /\ ~Valid(cpu.key) => Cardinality(SeqsOf(HeldNow)) \in 0 .. Depth
  <1>1. ASSUME NEW e \in HeldNow
        PROVE  Valid(e) /\ e \in Entry /\ e.seq \in Numbers /\ e.boot \in BootNo
    <2>1. Valid(e) /\ ((\E i \in Slots : e = ram.entry[i]) \/ e = cpu.key)
      BY AmongIs DEF HeldNow
    <2>2. e \in Entry
      BY <2>1, StateFields
    <2>3. e.boot \in BootNo
      BY <2>2, EntryFields
    <2> QED BY <2>1, <2>2, <2>3 DEF Types
  <1>2. ASSUME NEW i \in Valids(ram.entry)
        PROVE  /\ i \in Slots /\ ram.entry[i] \in HeldNow
               /\ ram.entry[i].seq \in Numbers
    <2>1. i \in Slots /\ Valid(ram.entry[i])
      BY ValidsIs
    <2>2. ram.entry[i] \in HeldNow
      BY <2>1, AmongIs DEF HeldNow
    <2> QED BY <1>1, <2>1, <2>2
  <1>3. ValidSlots = Valids(ram.entry)
    BY DEF ValidSlots, Valids
  <1>4. ram.entry \in Entries /\ cpu.key \in Entry
    BY StateFields
  <1>5. /\ IsFiniteSet(SeqsOf(HeldNow))
        /\ Cardinality(SeqsOf(HeldNow)) \in Nat
        /\ ~Valid(cpu.key) => Cardinality(SeqsOf(HeldNow)) <= Depth
    BY <1>4, SeqsFinite DEF HeldNow
  <1>6. ~Valid(cpu.key) => Cardinality(SeqsOf(HeldNow)) \in 0 .. Depth
    BY <1>5, Big
  <1> QED BY <1>1, <1>2, <1>3, <1>5, <1>6

(* Outside the sort every record held is in a slot.                        *)
LEMMA HeldInSlots ==
  ASSUME Inv, ~At("shift")
  PROVE  /\ cpu.key = Zero /\ ~Valid(cpu.key)
         /\ \A e \in HeldNow : \E i \in Valids(ram.entry) : e = ram.entry[i]
  <1>1. cpu.key = Zero /\ ~Valid(cpu.key)
    BY BlankEntries DEF Inv, Control
  <1>2. ASSUME NEW e \in HeldNow
        PROVE  \E i \in Valids(ram.entry) : e = ram.entry[i]
    <2>1. Valid(e) /\ ((\E i \in Slots : e = ram.entry[i]) \/ e = cpu.key)
      BY AmongIs DEF HeldNow
    <2>2. PICK i \in Slots : e = ram.entry[i]
      BY <1>1, <2>1
    <2> QED BY <2>1, <2>2, ValidsIs
  <1> QED BY <1>1, <1>2

(* The records left are still two runs in order.                           *)
LEMMA SplitSubset ==
  ASSUME NEW en, NEW en2, NEW c, NEW top, Split(en, c, top),
         \A i \in Valids(en2) : i \in Valids(en) /\ en2[i] = en[i]
  PROVE  Split(en2, c, top)
  <1>1. Valids(en2) \subseteq Valids(en)
    OBVIOUS
  <1>2. ~Valid(en[Depth - 1]) => ~Valid(en2[Depth - 1])
    <2>1. Depth - 1 \in Slots
      BY Big DEF Slots
    <2> QED BY <1>1, <2>1, ValidsIs
  <1>3. ASSUME NEW i \in Valids(en2), NEW j \in Valids(en2), i < j
        PROVE  IF i < c /\ c <= j
               THEN \/ Steps(top, en2[i].seq) <= Steps(top, en2[j].seq)
                    \/ Elder(en2, i, c, top)
               ELSE Steps(top, en2[j].seq) <= Steps(top, en2[i].seq)
    <2>1. /\ i \in Valids(en) /\ j \in Valids(en)
          /\ en2[i] = en[i] /\ en2[j] = en[j]
      OBVIOUS
    <2>2. Elder(en, i, c, top) => Elder(en2, i, c, top)
      BY <1>1, <1>2, <2>1 DEF Elder
    <2> QED BY <1>3, <2>1, <2>2 DEF Split
  <1> QED BY <1>3 DEF Split

(* Records copied within the ring without changing their order.            *)
LEMMA SplitMoved ==
  ASSUME NEW en, NEW en2, NEW c, NEW c2, NEW top, NEW u,
         Split(en, c, top), ~Valid(en2[Depth - 1]),
         \A i \in Valids(en2) :
           /\ u[i] \in Valids(en) /\ en2[i] = en[u[i]]
           /\ i \in Int /\ u[i] \in Int,
         \A i \in Valids(en) : Steps(top, en[i].seq) \in Int,
         c \in Int, c2 \in Int,
         \A i \in Valids(en2) : i < c2 <=> u[i] < c,
         \A i, j \in Valids(en2) : i < j => u[i] <= u[j]
  PROVE  Split(en2, c2, top)
  <1>1. ASSUME NEW i \in Valids(en2), Elder(en, u[i], c, top)
        PROVE  Elder(en2, i, c2, top)
    <2>1. ASSUME NEW k \in Valids(en2), c2 <= k
          PROVE  Steps(top, en2[k].seq) <= Steps(top, en2[i].seq)
      <3>1. c <= u[k]
        BY <2>1
      <3> QED BY <1>1, <3>1 DEF Elder
    <2> QED BY <2>1 DEF Elder
  <1>2. ASSUME NEW i \in Valids(en2), NEW j \in Valids(en2), i < j
        PROVE  IF i < c2 /\ c2 <= j
               THEN \/ Steps(top, en2[i].seq) <= Steps(top, en2[j].seq)
                    \/ Elder(en2, i, c2, top)
               ELSE Steps(top, en2[j].seq) <= Steps(top, en2[i].seq)
    <2>1. /\ i < c2 <=> u[i] < c
          /\ c2 <= j <=> c <= u[j]
      OBVIOUS
    <2>2. CASE u[i] = u[j]
      <3>1. en2[i] = en2[j]
        BY <2>2
      <3>2. Steps(top, en2[i].seq) \in Int
        OBVIOUS
      <3> QED BY <3>1, <3>2
    <2>3. CASE u[i] # u[j]
      <3>1. u[i] < u[j]
        BY <1>2, <2>3
      <3>2. IF u[i] < c /\ c <= u[j]
            THEN \/ Steps(top, en[u[i]].seq) <= Steps(top, en[u[j]].seq)
                 \/ Elder(en, u[i], c, top)
            ELSE Steps(top, en[u[j]].seq) <= Steps(top, en[u[i]].seq)
        BY <3>1 DEF Split
      <3> QED BY <1>1, <2>1, <3>2
    <2> QED BY <2>2, <2>3
  <1> QED BY <1>2 DEF Split

(* One run in order may be cut at either end.                              *)
LEMMA OneRun ==
  ASSUME NEW en, NEW top, Split(en, 0, top)
  PROVE  Split(en, Depth, top)
  <1> SUFFICES ASSUME NEW i \in Valids(en), NEW j \in Valids(en), i < j
               PROVE  /\ ~(i < Depth /\ Depth <= j)
                      /\ Steps(top, en[j].seq) <= Steps(top, en[i].seq)
    BY DEF Split
  <1>1. i \in 0 .. Depth - 1 /\ j \in 0 .. Depth - 1
    BY DEF Valids, Slots
  <1>2. ~(i < 0) /\ ~(Depth <= j)
    BY <1>1, Big
  <1> QED BY <1>2 DEF Split

(* What loses nothing and cuts nothing short.                              *)
LEMMA LostSame ==
  ASSUME life'.boots = life.boots, life'.panic = life.panic,
         life'.damages = life.damages
  PROVE  Lost' = Lost
  BY DEF Lost, Cuts

(* Raising the boot number raises it by one.                               *)
LEMMA BootRaised ==
  ASSUME NEW b \in Nat, NEW n \in Nat, b <= n, n <= MaxBoots
  PROVE  /\ NextSequence(b) \in Nat /\ NextSequence(b) <= n + 1
         /\ b <= NextSequence(b)
  BY Big DEF NextSequence, Half

(* Where no compaction or append is under way, they ask for nothing.       *)
LEMMA QuietPc ==
  ASSUME cpu'.pc \in {"idle", "scan", "stamp"}
  PROVE  NewestHeld' /\ Packing' /\ Sorting'
  BY DEF NewestHeld, Packing, Sorting, At, Newer

(* The same while a call does its own work.                                *)
LEMMA WorkPc ==
  ASSUME cpu'.pc \in Ops \cup {"commit", "bump"}
  PROVE  NewestHeld' /\ Packing' /\ Sorting'
  BY DEF NewestHeld, Packing, Sorting, At, Newer, Ops, Calls

(* A compaction asks nothing of the header.                                *)
LEMMA RecoveryPc ==
  ASSUME cpu'.pc \in {"scan", "stamp"} \cup Newer
  PROVE  Appending'
  BY DEF Appending, At, Newer, Ops, Calls

(* Calls start at the top of the recovery, with their locals reset.        *)
LEMMA CallIs ==
  ASSUME NEW op \in Calls, NEW e \in Events
  PROVE  /\ Call(op, e) \in CpuType /\ Resting \in CpuType
         /\ Call(op, e).pc = "scan" /\ Call(op, e).op = op
         /\ Call(op, e).read = 0 /\ Call(op, e).packed = 0
         /\ Call(op, e).key = Zero /\ Call(op, e).boot = 0
         /\ Call(op, e).event = e /\ Call(op, e).dirty = FALSE
         /\ Resting.pc = "idle" /\ Resting.op = "none"
         /\ Resting.key = Zero /\ Resting.boot = 0
  <1>1. /\ 0 \in 0 .. Depth /\ 0 \in Slots /\ 0 \in BootNo
        /\ 0 \in 0 .. Modulus - 1
    BY Big DEF Slots, BootNo
  <1>2. Zero \in Entry
    BY BlankEntries
  <1>3. Resting \in CpuType
    BY <1>1, <1>2 DEF Resting, CpuType, Pcs, Events
  <1>4. /\ Call(op, e).pc = "scan" /\ Call(op, e).op = op
        /\ Call(op, e).read = 0 /\ Call(op, e).packed = 0
        /\ Call(op, e).key = Zero /\ Call(op, e).boot = 0
        /\ Call(op, e).event = e /\ Call(op, e).dirty = FALSE
        /\ Resting.pc = "idle" /\ Resting.op = "none"
        /\ Resting.key = Zero /\ Resting.boot = 0
    BY DEF Call, Resting
  <1>5. Call(op, e) \in CpuType
    BY <1>3 DEF Call, CpuType, Pcs, Ops
  <1> QED BY <1>3, <1>4, <1>5

-----------------------------------------------------------------------------
(* Every action keeps the invariant.                                       *)

(* An erased log.                                                          *)
LEMMA ErasedIs ==
  /\ Erased \in RamType /\ ~Erased.magic /\ Erased.boot = 0
  /\ Erased.write = 0 /\ Erased.count = 0 /\ Erased.next = 1
  /\ \A i \in Slots : Erased.entry[i] = Zero
  /\ Erased.entry = [i \in Slots |-> Zero]
  <1>1. /\ ~Erased.magic /\ Erased.boot = 0
        /\ Erased.write = 0 /\ Erased.count = 0 /\ Erased.next = 1
        /\ Erased.entry = [i \in Slots |-> Zero]
    BY DEF Erased
  <1>2. [i \in Slots |-> Zero] \in Entries
    BY BlankEntries DEF Entries
  <1>3. /\ 0 \in Slots /\ 0 \in 0 .. Depth /\ 0 \in BootNo
        /\ 1 \in 0 .. Modulus - 1
    BY Big DEF Slots, BootNo
  <1>4. Erased \in RamType
    BY <1>2, <1>3 DEF Erased, RamType
  <1> QED BY <1>1, <1>4

(* A ring of blank entries holds nothing, and fits a fresh header.         *)
LEMMA BlankRing ==
  ASSUME NEW top \in Numbers, NEW c
  PROVE  LET en == [i \in Slots |-> Zero]
         IN  /\ Among(en, Zero) = {} /\ Valids(en) = {}
             /\ Split(en, c, top) /\ Ring(en, 0, 0, top)
             /\ \A d : Near({}, d, top)
  <1> DEFINE en == [i \in Slots |-> Zero]
  <1>1. \A i \in Slots : en[i] = Zero
    OBVIOUS
  <1> HIDE DEF en
  <1>2. Among(en, Zero) = {} /\ Valids(en) = {}
    BY <1>1, BlankEntries DEF Among, Valids
  <1>3. ASSUME NEW i \in Slots PROVE ~(Behind(0, i) < 0)
    <2>1. 0 \in Slots
      BY Big DEF Slots
    <2>2. Behind(0, i) \in 0 .. Depth - 1
      BY <2>1, BehindIs
    <2> QED BY <2>2, Big
  <1>4. Split(en, c, top) /\ Ring(en, 0, 0, top)
    BY <1>2, <1>3 DEF Split, Ring
  <1>5. \A d : Near({}, d, top)
    BY DEF Near
  <1> QED BY <1>2, <1>4, <1>5 DEF en

(* HighestBoot is a number.                                                *)
LEMMA HighestIs ==
  ASSUME Types
  PROVE  /\ HighestBoot = IF Booted THEN life.boots + 1 ELSE life.boots
         /\ HighestBoot \in BootNo /\ life.boots \in Nat
  BY StateFields, Big DEF HighestBoot, BootNo

(* 1 is a number.                                                          *)
LEMMA OneIs == 1 \in Numbers
  BY Big DEF Numbers

(* ams_fault_log_reset_raw, up to the magic word.                          *)
LEMMA EraseKeeps ==
  ASSUME Inv, Erase
  PROVE  Inv' /\ HeldNow' = {}
  <1>1. Types
    BY DEF Inv
  <1>2. /\ At("scan") /\ ~ram.magic /\ ram' = Erased
        /\ cpu' = [cpu EXCEPT !.pc = "stamp"] /\ life' = life
    BY DEF Erase, Goto
  <1>3. /\ cpu'.pc = "stamp" /\ cpu'.op = cpu.op /\ cpu'.key = Zero
        /\ cpu'.boot = cpu.boot /\ cpu' \in CpuType
    BY <1>1, <1>2, StateFields DEF CpuType, Pcs, Inv, Control, At
  <1>4. HeldNow' = {}
    BY <1>2, <1>3, ErasedIs, BlankRing, OneIs DEF HeldNow
  <1>5. Types'
    BY <1>1, <1>2, <1>3, <1>4, ErasedIs DEF Types
  <1>6. BootsAgree'
    <2>1. HighestBoot' = HighestBoot
      BY <1>2, <1>3 DEF HighestBoot, Booted
    <2> QED BY <1>1, <1>2, <1>3, <1>4, <2>1, ErasedIs, HighestIs, Big
            DEF Inv, BootsAgree, BootNo
  <1>7. Control'
    BY <1>2, <1>3, <1>4, ErasedIs DEF Inv, Control, At, Ops, Calls
  <1>8. Calm'
    <2>1. /\ Near({}, Lost, 1) /\ Split(Erased.entry, 0, 1)
          /\ 0 \in 0 .. Depth
      BY ErasedIs, BlankRing, OneIs, Big
    <2> QED BY <1>2, <1>4, <2>1, OneIs, LostSame DEF Calm
  <1>9. Unique(HeldNow)' /\ NewestHeld' /\ Packing' /\ Sorting' /\ Appending'
    BY <1>3, <1>4, QuietPc, RecoveryPc DEF Unique
  <1> QED BY <1>4, <1>5, <1>6, <1>7, <1>8, <1>9 DEF Inv

(* ams_fault_log_reset_raw's magic word.                                   *)
LEMMA StampKeeps ==
  ASSUME Inv, Stamp
  PROVE  Inv' /\ HeldNow' = {} /\ HeldNow = {}
  <1>1. Types
    BY DEF Inv
  <1>2. /\ At("stamp") /\ ram' = [ram EXCEPT !.magic = TRUE]
        /\ cpu' = [cpu EXCEPT !.pc = cpu.op] /\ life' = life
        /\ ram = Erased
    BY DEF Stamp, Goto, Inv, Control
  <1>3. /\ cpu'.pc = cpu.op /\ cpu'.op = cpu.op /\ cpu'.key = Zero
        /\ cpu'.boot = cpu.boot /\ cpu.op \in Ops /\ cpu.key = Zero
    BY <1>1, <1>2, StateFields DEF CpuType, Inv, Control, At
  <1>4. cpu' \in CpuType
    BY <1>1, <1>2, <1>3, StateFields DEF CpuType, Pcs
  <1>5. /\ ram' \in RamType /\ ram'.magic /\ ram'.entry = Erased.entry
        /\ ram'.write = 0 /\ ram'.count = 0 /\ ram'.next = 1 /\ ram'.boot = 0
    BY <1>2, ErasedIs DEF RamType
  <1>6. HeldNow' = {} /\ HeldNow = {}
    BY <1>2, <1>3, <1>5, ErasedIs, BlankRing, OneIs DEF HeldNow
  <1>7. Types'
    BY <1>1, <1>2, <1>4, <1>5, <1>6 DEF Types
  <1>8. BootsAgree'
    <2>1. HighestBoot' = HighestBoot
      BY <1>2, <1>3 DEF HighestBoot, Booted
    <2> QED BY <1>1, <1>3, <1>5, <1>6, <2>1, HighestIs, Big
            DEF Inv, BootsAgree, BootNo
  <1>9. Control'
    BY <1>2, <1>3, <1>5, <1>6, ErasedIs DEF Inv, Control, At, Ops, Calls
  <1>10. /\ Near({}, Lost, 1) /\ Split(Erased.entry, 0, 1)
         /\ 0 \in 0 .. Depth /\ Ring(Erased.entry, 0, 0, 1)
    BY ErasedIs, BlankRing, OneIs, Big
  <1>11. Calm'
    BY <1>2, <1>5, <1>6, <1>10, OneIs, LostSame DEF Calm
  <1>12. HeaderFits(ram.write, ram.count, ram.next)'
    BY <1>2, <1>5, <1>6, <1>10, OneIs, LostSame DEF HeaderFits
  <1>13. Appending'
    BY <1>3, <1>12 DEF Appending, At, Ops, Calls
  <1>14. Unique(HeldNow)' /\ NewestHeld' /\ Packing' /\ Sorting'
    BY <1>3, <1>6, WorkPc DEF Unique
  <1> QED BY <1>6, <1>7, <1>8, <1>9, <1>11, <1>13, <1>14 DEF Inv

(* A second copy of a record is dropped: the record stays.                 *)
LEMMA DropDuplicateKeeps ==
  ASSUME Inv, DropDuplicate
  PROVE  Inv' /\ HeldNow' = HeldNow
  <1>1. Types
    BY DEF Inv
  <1>2. PICK i \in Duplicates : Drop(i)
    BY DEF DropDuplicate
  <1>3. /\ At("scan") /\ ram.magic /\ life' = life
        /\ cpu' = [cpu EXCEPT !.dirty = TRUE]
        /\ ram' = [ram EXCEPT !.entry[i] = Zero]
    BY <1>2 DEF DropDuplicate, Drop
  <1>4. /\ cpu'.pc = cpu.pc /\ cpu'.op = cpu.op /\ cpu'.key = cpu.key
        /\ cpu'.boot = cpu.boot /\ cpu'.read = cpu.read
        /\ cpu'.packed = cpu.packed /\ cpu' \in CpuType
    BY <1>1, <1>3, StateFields DEF CpuType
  <1>5. PICK j \in ValidSlots : j < i /\ ram.entry[j].seq = ram.entry[i].seq
    BY <1>2 DEF Duplicates
  <1>6. /\ i \in Slots /\ j \in Slots /\ i # j
        /\ i \in Valids(ram.entry) /\ j \in Valids(ram.entry)
    BY <1>2, <1>5, Big DEF Duplicates, ValidSlots, Valids, Slots
  <1>7. ram.entry[i] = ram.entry[j]
    BY <1>1, <1>5, <1>6, HeldFacts DEF Inv, Unique
  <1> DEFINE en == [ram.entry EXCEPT ![i] = Zero]
  <1>8. /\ en \in Entries /\ en[i] = Zero
        /\ \A k \in Slots : k # i => en[k] = ram.entry[k]
    BY <1>1, <1>6, StateFields, BlankEntries DEF Entries
  <1>9. /\ ram' \in RamType /\ ram'.entry = en /\ ram'.magic = ram.magic
        /\ ram'.boot = ram.boot
    <2>1. en \in Entries
      BY <1>8
    <2> QED BY <1>1, <1>3, <2>1, StateFields DEF RamType
  <1> HIDE DEF en
  <1>10. HeldNow' = HeldNow
    <2>1. Among(en, cpu.key) = Among(ram.entry, cpu.key)
      <3>1. \A k \in Slots : Valid(ram.entry[k]) =>
              (\E l \in Slots : en[l] = ram.entry[k]) \/ cpu.key = ram.entry[k]
        BY <1>6, <1>7, <1>8
      <3>2. \A k \in Slots : Valid(en[k]) =>
              (\E l \in Slots : ram.entry[l] = en[k]) \/ cpu.key = en[k]
        BY <1>8, BlankEntries
      <3> QED BY <3>1, <3>2, AmongKept
    <2> QED BY <1>4, <1>9, <2>1 DEF HeldNow
  <1>11. Types'
    BY <1>1, <1>3, <1>4, <1>9, <1>10 DEF Types
  <1>12. BootsAgree'
    <2>1. HighestBoot' = HighestBoot
      BY <1>3, <1>4 DEF HighestBoot, Booted
    <2> QED BY <1>4, <1>9, <1>10, <2>1 DEF Inv, BootsAgree
  <1>13. Control'
    <2>1. \E k \in Slots : ~Valid(ram'.entry[k])
      BY <1>6, <1>8, <1>9, BlankEntries
    <2> QED BY <1>3, <1>4, <1>9, <1>10, <2>1 DEF Inv, Control, At
  <1>14. Calm'
    <2>1. PICK top \in Numbers, c \in 0 .. Depth :
            Near(HeldNow, Lost, top) /\ Split(ram.entry, c, top)
      BY <1>3 DEF Inv, Calm, At
    <2>2. \A k \in Valids(en) : k \in Valids(ram.entry) /\ en[k] = ram.entry[k]
      BY <1>8, BlankEntries DEF Valids
    <2>3. Split(en, c, top)
      BY <2>1, <2>2, SplitSubset
    <2> QED BY <1>3, <1>9, <1>10, <2>1, <2>3, LostSame DEF Calm
  <1>15. /\ Unique(HeldNow)' /\ NewestHeld' /\ Packing' /\ Sorting'
         /\ Appending'
    <2>1. cpu'.pc = "scan"
      BY <1>3, <1>4 DEF At
    <2> QED BY <1>10, <2>1, QuietPc, RecoveryPc DEF Inv
  <1> QED BY <1>10, <1>11, <1>12, <1>13, <1>14, <1>15 DEF Inv

(* Recovery of a ring without a record.                                    *)
LEMMA ScanEmptyKeeps ==
  ASSUME Inv, ScanEmpty
  PROVE  Inv' /\ HeldNow' = HeldNow
  <1>1. Types
    BY DEF Inv
  <1> DEFINE en == [i \in Slots |-> Zero]
  <1>2. /\ At("scan") /\ ram.magic /\ ValidSlots = {} /\ life' = life
        /\ ram' = [ram EXCEPT !.entry = en, !.write = 0, !.count = 0,
                              !.next = 1]
        /\ cpu' = [cpu EXCEPT !.pc = cpu.op]
    BY DEF ScanEmpty, Goto
  <1>3. en \in Entries
    BY ErasedIs DEF RamType
  <1>4. /\ Among(en, Zero) = {} /\ Split(en, 0, 1) /\ Ring(en, 0, 0, 1)
        /\ Near({}, Lost, 1)
    BY BlankRing, OneIs
  <1> HIDE DEF en
  <1>5. /\ ram' \in RamType /\ ram'.entry = en /\ ram'.magic = ram.magic
        /\ ram'.boot = ram.boot /\ ram'.write = 0 /\ ram'.count = 0
        /\ ram'.next = 1
    <2>1. 0 \in Slots /\ 0 \in 0 .. Depth /\ 1 \in 0 .. Modulus - 1
      BY Big DEF Slots
    <2> QED BY <1>1, <1>2, <1>3, <2>1, StateFields DEF RamType
  <1>6. /\ cpu'.pc = cpu.op /\ cpu'.op = cpu.op /\ cpu'.key = cpu.key
        /\ cpu'.boot = cpu.boot /\ cpu.op \in Calls /\ cpu.key = Zero
    BY <1>1, <1>2, StateFields DEF CpuType, Inv, Control, At
  <1>7. cpu' \in CpuType
    BY <1>1, <1>2, <1>6, StateFields DEF CpuType, Pcs, Ops
  <1>8. HeldNow' = {} /\ HeldNow = {}
    <2>1. HeldNow = {}
      <3>1. ~At("shift")
        BY <1>2 DEF At
      <3> QED BY <1>1, <1>2, <3>1, HeldInSlots, HeldFacts
    <2> QED BY <1>4, <1>5, <1>6, <2>1 DEF HeldNow
  <1>9. Types'
    BY <1>1, <1>2, <1>5, <1>7, <1>8 DEF Types
  <1>10. BootsAgree'
    <2>1. HighestBoot' = HighestBoot
      BY <1>2, <1>6 DEF HighestBoot, Booted
    <2> QED BY <1>5, <1>6, <1>8, <2>1 DEF Inv, BootsAgree
  <1>11. Control'
    BY <1>2, <1>5, <1>6, <1>8 DEF Inv, Control, At, Ops, Calls
  <1>12. Calm'
    BY <1>2, <1>4, <1>5, <1>8, OneIs, LostSame, Big DEF Calm
  <1>13. Appending'
    <2>1. HeaderFits(ram.write, ram.count, ram.next)'
      BY <1>2, <1>4, <1>5, <1>8, OneIs, LostSame DEF HeaderFits
    <2> QED BY <1>6, <2>1 DEF Appending, At, Ops, Calls
  <1>14. Unique(HeldNow)' /\ NewestHeld' /\ Packing' /\ Sorting'
    BY <1>6, <1>8, WorkPc DEF Unique, Ops
  <1> QED BY <1>8, <1>9, <1>10, <1>11, <1>12, <1>13, <1>14 DEF Inv

(* The newest record of a ring that is in two runs and without a second    *)
(* copy, as recovery finds it.                                             *)
LEMMA NewestFound ==
  ASSUME Inv, ~At("shift"), ~At("sort"), ValidSlots # {}, Distinct(ram.entry)
  PROVE  \E top \in Numbers, c \in 0 .. Depth :
           /\ Near(HeldNow, Lost, top) /\ Split(ram.entry, c, top)
           /\ Newest \in Valids(ram.entry)
           /\ \A i \in Valids(ram.entry) : Steps(top, ram.entry[Newest].seq)
                                             <= Steps(top, ram.entry[i].seq)
           /\ Near(HeldNow, Lost, ram.entry[Newest].seq)
  <1>1. Types
    BY DEF Inv
  <1>2. PICK top \in Numbers, c \in 0 .. Depth :
          Near(HeldNow, Lost, top) /\ Split(ram.entry, c, top)
    BY DEF Inv, Calm
  <1>3. /\ ram.entry \in Entries /\ Valids(ram.entry) # {}
        /\ \A i \in Valids(ram.entry) : /\ ram.entry[i].seq \in Numbers
                                        /\ ram.entry[i] \in HeldNow
    BY <1>1, StateFields, HeldFacts
  <1>4. PICK m \in Valids(ram.entry) : \A i \in Valids(ram.entry) :
          Steps(top, ram.entry[m].seq) <= Steps(top, ram.entry[i].seq)
    BY <1>3, NewestExists
  <1>5. /\ Lost \in 0 .. MaxLost /\ Lost \in Nat
        /\ Cardinality(SeqsOf(HeldNow)) \in 0 .. Depth
    BY <1>1, StateFields, HeldFacts, HeldInSlots
  <1>6. \A i \in Valids(ram.entry) :
          Steps(top, ram.entry[i].seq) < Depth + MaxLost
    BY <1>2, <1>3, <1>5, NearWithin
  <1>7. m = CHOOSE i \in Valids(ram.entry) :
              \A j \in Valids(ram.entry) :
                ~After(ram.entry[j].seq, ram.entry[i].seq)
    BY <1>3, <1>4, <1>6, NewestIs
  <1>8. m = Newest
    BY <1>1, <1>7, HeldFacts DEF Newest
  <1>9. \A e \in HeldNow : /\ e.seq \in Numbers
                           /\ Steps(top, ram.entry[m].seq) <= Steps(top, e.seq)
    BY <1>1, <1>4, HeldFacts, HeldInSlots
  <1>10. Near(HeldNow, Lost, ram.entry[m].seq)
    BY <1>1, <1>2, <1>3, <1>5, <1>9, HeldFacts, NearNewest
  <1> QED BY <1>2, <1>4, <1>8, <1>10

(* The slots recovery expects the records in.                              *)
LEMMA ExpectedSlots ==
  ASSUME NEW w \in Slots, NEW n \in 1 .. Depth, NEW i \in Slots,
         Behind(w, i) < n
  PROVE  LET f == (w + Depth - n) % Depth
         IN  \E k \in 0 .. n - 1 : (f + k) % Depth = i
  <1> DEFINE f == (w + Depth - n) % Depth
             k == n - 1 - Behind(w, i)
  <1>1. /\ Behind(w, i) = IF w > i THEN w - 1 - i ELSE w - 1 - i + Depth
        /\ Behind(w, i) \in 0 .. Depth - 1
    BY BehindIs
  <1>2. /\ f = IF w - n >= 0 THEN w - n ELSE w - n + Depth
        /\ f \in 0 .. Depth - 1
    BY Big DEF Slots
  <1>3. k \in 0 .. n - 1
    BY <1>1, Big
  <1> HIDE DEF f
  <1>4. f + k = i \/ f + k = i + Depth
    BY <1>1, <1>2, Big DEF Slots
  <1> HIDE DEF k
  <1>5. (f + k) % Depth = i
    <2>1. i \in 0 .. Depth - 1 /\ Depth \in Nat /\ Depth > 1
      BY Big DEF Slots
    <2>2. CASE f + k = i
      <3>1. i % Depth = i
        BY <2>1
      <3> QED BY <2>2, <3>1
    <2>3. CASE f + k = i + Depth
      <3>1. (i + Depth) % Depth = i
        BY <2>1
      <3> QED BY <2>3, <3>1
    <2> QED BY <1>4, <2>2, <2>3
  <1> QED BY <1>3, <1>5 DEF f

(* Recovery's look at the records: the newest, and whether they lie as the *)
(* header will say.                                                        *)
LEMMA ScanKeeps ==
  ASSUME Inv, Scan
  PROVE  Inv' /\ HeldNow' = HeldNow
  <1>1. Types
    BY DEF Inv
  <1> DEFINE n == Cardinality(ValidSlots)
             w == (Newest + 1) % Depth
             f == (w + Depth - n) % Depth
             bad == NeedsCompaction(f, n)
  <1>2. /\ At("scan") /\ ram.magic /\ Duplicates = {} /\ ValidSlots # {}
        /\ ram' = ram /\ life' = life
        /\ cpu' = [cpu EXCEPT !.pc = IF bad THEN "pack" ELSE "header",
                              !.newest = ram.entry[Newest].seq,
                              !.count = n, !.write = w]
    BY DEF Scan
  <1> HIDE DEF n, w, f, bad
  <1>3. Distinct(ram.entry)
    <2> SUFFICES ASSUME NEW i \in Valids(ram.entry),
                        NEW j \in Valids(ram.entry),
                        ram.entry[i].seq = ram.entry[j].seq, i # j
                 PROVE  FALSE
      BY DEF Distinct
    <2>1. i \in Slots /\ j \in Slots /\ i \in ValidSlots /\ j \in ValidSlots
      BY <1>1, HeldFacts
    <2>2. i < j \/ j < i
      BY <2>1, Big DEF Slots
    <2> QED BY <1>2, <2>1, <2>2 DEF Duplicates
  <1>4. ~At("shift") /\ ~At("sort")
    BY <1>2 DEF At
  <1>5. PICK top \in Numbers, c \in 0 .. Depth :
           /\ Near(HeldNow, Lost, top) /\ Split(ram.entry, c, top)
           /\ Newest \in Valids(ram.entry)
           /\ \A i \in Valids(ram.entry) : Steps(top, ram.entry[Newest].seq)
                                             <= Steps(top, ram.entry[i].seq)
           /\ Near(HeldNow, Lost, ram.entry[Newest].seq)
    BY <1>2, <1>3, <1>4, NewestFound
  <1>6. /\ ram.entry \in Entries /\ Newest \in Slots
        /\ ValidSlots = Valids(ram.entry)
        /\ ram.entry[Newest].seq \in Numbers /\ ram.entry[Newest] \in HeldNow
        /\ \A i \in Valids(ram.entry) :
             i \in Slots /\ ram.entry[i].seq \in Numbers
    BY <1>1, <1>5, StateFields, HeldFacts
  <1>7. w \in Slots /\ w = (Newest + 1) % Depth
    BY <1>6, BehindIs DEF w
  <1>8. /\ IsFiniteSet(Slots) /\ Cardinality(Slots) = Depth
        /\ IsFiniteSet(ValidSlots) /\ n \in 1 .. Depth
    <2>1. IsFiniteSet(Slots) /\ Cardinality(Slots) = Depth
      BY Big, FS_Interval DEF Slots
    <2>2. ValidSlots \subseteq Slots
      BY DEF ValidSlots
    <2>3. IsFiniteSet(ValidSlots) /\ n \in Nat /\ n <= Depth
      BY <2>1, <2>2, FS_Subset, FS_CardinalityType DEF n
    <2>4. n # 0
      BY <1>2, <2>3, FS_EmptySet DEF n
    <2> QED BY <2>1, <2>3, <2>4, Big
  <1>9. /\ cpu'.pc = (IF bad THEN "pack" ELSE "header") /\ cpu'.op = cpu.op
        /\ cpu'.key = cpu.key /\ cpu'.boot = cpu.boot /\ cpu'.read = cpu.read
        /\ cpu'.packed = cpu.packed /\ cpu'.newest = ram.entry[Newest].seq
        /\ cpu'.count = n /\ cpu'.write = w
    BY <1>1, <1>2, StateFields DEF CpuType
  <1>10. cpu' \in CpuType
    <2>1. ram.entry[Newest].seq \in 0 .. Modulus - 1 /\ n \in 0 .. Depth
      BY <1>6, <1>8, Big DEF Numbers
    <2>2. (IF bad THEN "pack" ELSE "header") \in Pcs
      BY DEF Pcs, Newer
    <2> QED BY <1>1, <1>2, <1>7, <2>1, <2>2, StateFields DEF CpuType
  <1>11. cpu'.pc \in {"pack", "header"}
    BY <1>9
  <1>12. HeldNow' = HeldNow
    BY <1>2, <1>9 DEF HeldNow
  <1>13. Types' /\ Unique(HeldNow)'
    BY <1>1, <1>2, <1>10, <1>12 DEF Types, Inv
  <1>14. BootsAgree'
    <2>1. HighestBoot' = HighestBoot
      BY <1>2, <1>9 DEF HighestBoot, Booted
    <2> QED BY <1>2, <1>9, <1>12, <2>1 DEF Inv, BootsAgree
  <1>15. Control'
    BY <1>2, <1>9, <1>11, <1>12 DEF Inv, Control, At, Ops, Calls
  <1>16. Calm'
    BY <1>2, <1>5, <1>12, LostSame DEF Calm
  <1>17. NewestHeld'
    BY <1>2, <1>5, <1>6, <1>9, <1>12, SeqsHas, LostSame DEF NewestHeld
  <1>18. Split(ram.entry, c, ram.entry[Newest].seq)
    <2> SUFFICES ASSUME NEW i \in Valids(ram.entry), NEW j \in Valids(ram.entry)
                 PROVE  Steps(top, ram.entry[i].seq)
                          <= Steps(top, ram.entry[j].seq)
                          => Steps(ram.entry[Newest].seq, ram.entry[i].seq)
                               <= Steps(ram.entry[Newest].seq, ram.entry[j].seq)
      BY <1>5 DEF Split, Elder
    <2>1. /\ Steps(ram.entry[Newest].seq, ram.entry[i].seq)
               = Steps(top, ram.entry[i].seq)
                   - Steps(top, ram.entry[Newest].seq)
          /\ Steps(ram.entry[Newest].seq, ram.entry[j].seq)
               = Steps(top, ram.entry[j].seq)
                   - Steps(top, ram.entry[Newest].seq)
      BY <1>5, <1>6, StepsAdd
    <2>2. /\ Steps(top, ram.entry[i].seq) \in 0 .. Modulus - 2
          /\ Steps(top, ram.entry[j].seq) \in 0 .. Modulus - 2
          /\ Steps(top, ram.entry[Newest].seq) \in 0 .. Modulus - 2
      BY <1>6, StepsIs
    <2> QED BY <2>1, <2>2, Big
  <1>19. Packing'
    <2>1. CASE cpu'.pc = "pack"
      <3>1. cpu'.read = 0 /\ cpu'.packed = 0
        BY <1>2, <1>9 DEF Inv, Control
      <3>2. \A i \in Slots : ~(i < 0)
        BY Big DEF Slots
      <3>3. \E i \in Slots : ~Valid(ram.entry[i])
        <4>1. bad
          BY <1>9, <2>1
        <4>2. CASE cpu.dirty
          BY <1>2, <4>2 DEF Inv, Control
        <4>3. CASE \E i \in Slots \ ValidSlots : ram.entry[i].st # "zero"
          BY <4>3 DEF ValidSlots
        <4>4. CASE \E k \in 0 .. n - 1 : (f + k) % Depth \notin ValidSlots
          <5>1. PICK k \in 0 .. n - 1 : (f + k) % Depth \notin ValidSlots
            BY <4>4
          <5>2. f \in 0 .. Depth - 1
            BY <1>7, <1>8, Big DEF f, Slots
          <5>3. (f + k) % Depth \in Slots
            BY <1>8, <5>1, <5>2, Big DEF Slots
          <5> QED BY <5>1, <5>3 DEF ValidSlots
        <4> QED BY <4>1, <4>2, <4>3, <4>4 DEF NeedsCompaction, bad
      <3> QED BY <1>2, <1>3, <1>9, <1>18, <2>1, <3>1, <3>2, <3>3
              DEF Packing, At
    <2>2. CASE cpu'.pc = "header"
      BY <2>2 DEF Packing, At
    <2> QED BY <1>11, <2>1, <2>2
  <1>20. Sorting'
    <2>1. CASE cpu'.pc = "pack"
      BY <2>1 DEF Sorting, At
    <2>2. CASE cpu'.pc = "header"
      <3>1. ~bad
        BY <1>9, <2>2
      <3>2. \A k \in 0 .. n - 1 : (f + k) % Depth \in ValidSlots
        BY <3>1 DEF NeedsCompaction, bad
      <3>3. {i \in Slots : Behind(w, i) < n} \subseteq ValidSlots
        <4> SUFFICES ASSUME NEW i \in Slots, Behind(w, i) < n
                     PROVE  i \in ValidSlots
          OBVIOUS
        <4>1. PICK k \in 0 .. n - 1 : (f + k) % Depth = i
          BY <1>7, <1>8, ExpectedSlots DEF f
        <4> QED BY <3>2, <4>1
      <3>4. Cardinality({i \in Slots : Behind(w, i) < n}) = n
        BY <1>7, <1>8, RingSlots
      <3>5. {i \in Slots : Behind(w, i) < n} = Valids(ram.entry)
        <4> DEFINE S == {i \in Slots : Behind(w, i) < n}
        <4>1. /\ S \in SUBSET ValidSlots
              /\ Cardinality(S) = Cardinality(ValidSlots)
          BY <3>3, <3>4 DEF n
        <4> HIDE DEF S
        <4>2. S = ValidSlots
          BY <1>8, <4>1, FS_Subset
        <4> QED BY <1>6, <4>2 DEF S
      <3>6. Ring(ram.entry, w, n, ram.entry[Newest].seq)
        BY <1>3, <1>5, <1>6, <1>7, <1>8, <3>5, SplitRing
      <3> QED BY <1>2, <1>8, <1>9, <2>2, <3>6 DEF Sorting, At
    <2> QED BY <1>11, <2>1, <2>2
  <1>21. Appending'
    BY <1>11, RecoveryPc DEF Newer
  <1> QED BY <1>12, <1>13, <1>14, <1>15, <1>16, <1>17, <1>19, <1>20, <1>21
          DEF Inv

(* Copying a record down, or passing over a slot.                          *)
LEMMA PackKeeps ==
  ASSUME Inv, Pack
  PROVE  Inv' /\ HeldNow' = HeldNow
  <1>1. Types
    BY DEF Inv
  <1>2. At("pack") /\ life' = life /\ cpu.key = Zero /\ ~Valid(cpu.key)
    BY BlankEntries DEF Pack, Inv, Control, At
  <1>3. /\ cpu.packed <= cpu.read
        /\ \A i \in Slots : i < cpu.packed => Valid(ram.entry[i])
        /\ \A i \in Slots :
             cpu.packed <= i /\ i < cpu.read => ~Valid(ram.entry[i])
        /\ Distinct(ram.entry) /\ \E i \in Slots : ~Valid(ram.entry[i])
        /\ \E c \in 0 .. Depth : Split(ram.entry, c, cpu.newest)
    BY <1>2 DEF Inv, Packing
  <1>4. /\ cpu.newest \in SeqsOf(HeldNow)
        /\ Near(HeldNow, Lost, cpu.newest)
        /\ ram.magic /\ cpu.newest \in Numbers
    <2>1. /\ cpu.newest \in SeqsOf(HeldNow)
          /\ Near(HeldNow, Lost, cpu.newest) /\ ram.magic
      BY <1>2 DEF Inv, NewestHeld, Newer, Control, At
    <2>2. cpu.newest \in Numbers
      BY <1>1, <2>1, HeldFacts DEF SeqsOf
    <2> QED BY <2>1, <2>2
  <1>5. /\ cpu.read \in Nat /\ cpu.packed \in Nat /\ cpu.read <= Depth
        /\ \A i \in Slots : i \in Nat /\ i < Depth
        /\ \A i \in Nat : i < Depth => i \in Slots
    BY <1>1, StateFields, Big DEF Slots
  <1>6. ASSUME cpu'.op = cpu.op, cpu'.key = cpu.key, cpu'.boot = cpu.boot,
               cpu'.newest = cpu.newest, cpu' \in CpuType, ram' \in RamType,
               ram'.magic = ram.magic, ram'.boot = ram.boot,
               cpu'.pc \in {"pack", "clean", "sort"}, HeldNow' = HeldNow,
               Packing', Sorting',
               \E c \in 0 .. Depth : Split(ram.entry, c, cpu.newest)'
        PROVE  Inv'
    <2>1. Types' /\ Unique(HeldNow)'
      BY <1>1, <1>2, <1>6 DEF Types, Inv
    <2>2. BootsAgree'
      <3>1. HighestBoot' = HighestBoot
        BY <1>2, <1>6 DEF HighestBoot, Booted
      <3> QED BY <1>6, <3>1 DEF Inv, BootsAgree
    <2>3. Control'
      BY <1>2, <1>4, <1>6 DEF Inv, Control, At, Ops, Calls
    <2>4. Calm'
      BY <1>2, <1>4, <1>6, LostSame DEF Calm
    <2>5. NewestHeld'
      BY <1>2, <1>4, <1>6, LostSame DEF NewestHeld
    <2>6. Appending'
      BY <1>6, RecoveryPc DEF Newer
    <2> QED BY <1>6, <2>1, <2>2, <2>3, <2>4, <2>5, <2>6 DEF Inv
  <1>7. CASE cpu.read = Depth
    <2>1. cpu' = [cpu EXCEPT !.pc = "sort", !.index = 1] /\ ram' = ram
      BY <1>7 DEF Pack
    <2>2. /\ cpu'.op = cpu.op /\ cpu'.key = cpu.key /\ cpu'.boot = cpu.boot
          /\ cpu'.newest = cpu.newest /\ cpu'.pc = "sort" /\ cpu'.index = 1
          /\ cpu'.packed = cpu.packed
      BY <1>1, <2>1, StateFields DEF CpuType
    <2>3. cpu' \in CpuType
      <3>1. 1 \in 0 .. Depth /\ "sort" \in Pcs
        BY Big DEF Pcs, Newer
      <3> QED BY <1>1, <2>1, <3>1, StateFields DEF CpuType
    <2>4. HeldNow' = HeldNow
      BY <2>1, <2>2 DEF HeldNow
    <2>5. Packed(ram.entry, cpu.packed)
      <3>1. \A i \in Slots : Valid(ram.entry[i]) <=> i < cpu.packed
        BY <1>3, <1>5, <1>7
      <3> QED BY <3>1 DEF Packed, Valids
    <2>6. cpu.packed >= 1
      <3>1. PICK e \in HeldNow : e.seq = cpu.newest
        BY <1>4 DEF SeqsOf
      <3>2. ~At("shift")
        BY <1>2 DEF At
      <3>3. PICK i \in Valids(ram.entry) : e = ram.entry[i]
        BY <3>1, <3>2, HeldInSlots
      <3>4. i < cpu.packed /\ i \in Nat
        BY <2>5, <3>3, <1>5 DEF Packed
      <3> QED BY <1>5, <3>4
    <2>7. Sorted(ram.entry, {i \in Slots : i < 1}, cpu.newest)
      <3>1. \A a, b \in {i \in Slots : i < 1} : ~(a < b)
        BY <1>5
      <3> QED BY <3>1 DEF Sorted
    <2>8. Sorting'
      <3>1. \E c \in 1 .. Depth : Split(ram.entry, c, cpu.newest)
        <4>1. PICK c \in 0 .. Depth : Split(ram.entry, c, cpu.newest)
          BY <1>3
        <4>2. CASE c = 0
          <5>1. Split(ram.entry, Depth, cpu.newest)
            BY <4>1, <4>2, OneRun
          <5> QED BY <5>1, Big
        <4>3. CASE c # 0
          BY <4>1, <4>3, Big
        <4> QED BY <4>2, <4>3
      <3>2. cpu.packed < Depth
        <4>1. PICK i \in Slots : ~Valid(ram.entry[i])
          BY <1>3
        <4>2. ~(i < cpu.packed)
          BY <1>3, <4>1
        <4> QED BY <1>5, <4>1, <4>2, Big
      <3> QED BY <1>3, <1>5, <2>1, <2>2, <2>5, <2>6, <2>7, <3>1, <3>2, Big
              DEF Sorting, At
    <2>9. Packing'
      BY <2>2 DEF Packing, At
    <2>10. \E c \in 0 .. Depth : Split(ram.entry, c, cpu.newest)'
      BY <1>3, <2>1, <2>2
    <2>11. ram' \in RamType /\ ram'.magic = ram.magic /\ ram'.boot = ram.boot
      BY <1>1, <2>1, StateFields
    <2> QED BY <1>6, <2>2, <2>3, <2>4, <2>8, <2>9, <2>10, <2>11
  <1>8. CASE cpu.read # Depth /\ cpu.read \notin ValidSlots
    <2>1. cpu' = [cpu EXCEPT !.read = @ + 1] /\ ram' = ram
      BY <1>8 DEF Pack
    <2>2. /\ cpu'.op = cpu.op /\ cpu'.key = cpu.key /\ cpu'.boot = cpu.boot
          /\ cpu'.newest = cpu.newest /\ cpu'.pc = "pack"
          /\ cpu'.packed = cpu.packed /\ cpu'.read = cpu.read + 1
      BY <1>1, <1>2, <2>1, StateFields DEF CpuType, At
    <2>3. cpu' \in CpuType
      <3>1. cpu.read + 1 \in 0 .. Depth
        BY <1>5, <1>8, Big
      <3> QED BY <1>1, <2>1, <3>1, StateFields DEF CpuType
    <2>4. HeldNow' = HeldNow
      BY <2>1, <2>2 DEF HeldNow
    <2>5. ~Valid(ram.entry[cpu.read])
      BY <1>5, <1>8, Big DEF ValidSlots
    <2>6. Packing'
      <3>1. \A i \in Slots :
              cpu.packed <= i /\ i < cpu.read + 1 => ~Valid(ram.entry[i])
        <4> SUFFICES ASSUME NEW i \in Slots, cpu.packed <= i, i < cpu.read + 1
                     PROVE  ~Valid(ram.entry[i])
          OBVIOUS
        <4>1. i < cpu.read \/ i = cpu.read
          BY <1>5
        <4> QED BY <1>3, <2>5, <4>1
      <3>2. cpu.packed <= cpu.read + 1
        BY <1>3, <1>5
      <3> QED BY <1>3, <2>1, <2>2, <3>1, <3>2 DEF Packing, At
    <2>7. Sorting'
      BY <2>2 DEF Sorting, At
    <2>8. \E c \in 0 .. Depth : Split(ram.entry, c, cpu.newest)'
      BY <1>3, <2>1, <2>2
    <2>9. ram' \in RamType /\ ram'.magic = ram.magic /\ ram'.boot = ram.boot
      BY <1>1, <2>1, StateFields
    <2> QED BY <1>6, <2>2, <2>3, <2>4, <2>6, <2>7, <2>8, <2>9
  <1>9. CASE /\ cpu.read # Depth /\ cpu.read \in ValidSlots
             /\ cpu.read = cpu.packed
    <2>1. /\ cpu' = [cpu EXCEPT !.read = @ + 1, !.packed = @ + 1]
          /\ ram' = ram
      BY <1>9 DEF Pack
    <2>2. /\ cpu'.op = cpu.op /\ cpu'.key = cpu.key /\ cpu'.boot = cpu.boot
          /\ cpu'.newest = cpu.newest /\ cpu'.pc = "pack"
          /\ cpu'.packed = cpu.packed + 1 /\ cpu'.read = cpu.read + 1
      BY <1>1, <1>2, <2>1, StateFields DEF CpuType, At
    <2>3. cpu' \in CpuType
      <3>1. cpu.read + 1 \in 0 .. Depth /\ cpu.packed + 1 \in 0 .. Depth
        BY <1>5, <1>9, Big
      <3> QED BY <1>1, <2>1, <3>1, StateFields DEF CpuType
    <2>4. HeldNow' = HeldNow
      BY <2>1, <2>2 DEF HeldNow
    <2>5. Valid(ram.entry[cpu.read])
      BY <1>9 DEF ValidSlots
    <2>6. Packing'
      <3>1. \A i \in Slots : i < cpu.packed + 1 => Valid(ram.entry[i])
        <4> SUFFICES ASSUME NEW i \in Slots, i < cpu.packed + 1
                     PROVE  Valid(ram.entry[i])
          OBVIOUS
        <4>1. i < cpu.packed \/ i = cpu.packed
          BY <1>5
        <4> QED BY <1>3, <1>9, <2>5, <4>1
      <3>2. \A i \in Slots : ~(cpu.packed + 1 <= i /\ i < cpu.read + 1)
        BY <1>5, <1>9
      <3>3. cpu.packed + 1 <= cpu.read + 1
        BY <1>5, <1>9
      <3> QED BY <1>3, <2>1, <2>2, <3>1, <3>2, <3>3 DEF Packing, At
    <2>7. Sorting'
      BY <2>2 DEF Sorting, At
    <2>8. \E c \in 0 .. Depth : Split(ram.entry, c, cpu.newest)'
      BY <1>3, <2>1, <2>2
    <2>9. ram' \in RamType /\ ram'.magic = ram.magic /\ ram'.boot = ram.boot
      BY <1>1, <2>1, StateFields
    <2> QED BY <1>6, <2>2, <2>3, <2>4, <2>6, <2>7, <2>8, <2>9
  <1>10. CASE /\ cpu.read # Depth /\ cpu.read \in ValidSlots
              /\ cpu.read # cpu.packed
    <2> DEFINE p == cpu.packed
               r == cpu.read
               en == [ram.entry EXCEPT ![p] = ram.entry[r]]
    <2>1. /\ cpu' = [cpu EXCEPT !.pc = "clean"]
          /\ ram' = [ram EXCEPT !.entry[p] = ram.entry[r]]
      BY <1>10 DEF Pack, Goto
    <2>2. /\ cpu'.op = cpu.op /\ cpu'.key = cpu.key /\ cpu'.boot = cpu.boot
          /\ cpu'.newest = cpu.newest /\ cpu'.pc = "clean"
          /\ cpu'.packed = p /\ cpu'.read = r
      BY <1>1, <2>1, StateFields DEF CpuType
    <2>3. cpu' \in CpuType
      <3>1. "clean" \in Pcs
        BY DEF Pcs, Newer
      <3> QED BY <1>1, <2>1, <3>1, StateFields DEF CpuType
    <2>4. /\ p < r /\ r < Depth /\ p \in Slots /\ r \in Slots
          /\ p \in Nat /\ r \in Nat
          /\ Valid(ram.entry[r]) /\ ~Valid(ram.entry[p])
      <3>1. p < r /\ r < Depth
        BY <1>3, <1>5, <1>10, Big
      <3>2. p \in Slots /\ r \in Slots
        BY <1>5, <3>1, Big
      <3>3. ~Valid(ram.entry[p])
        BY <1>3, <1>5, <3>1, <3>2
      <3> QED BY <1>5, <1>10, <3>1, <3>2, <3>3 DEF ValidSlots
    <2>5. /\ en \in Entries /\ en[p] = ram.entry[r] /\ en[r] = ram.entry[r]
          /\ \A i \in Slots : i # p => en[i] = ram.entry[i]
      BY <1>1, <2>4, StateFields DEF Entries
    <2>6. /\ ram' \in RamType /\ ram'.entry = en /\ ram'.magic = ram.magic
          /\ ram'.boot = ram.boot
      <3>1. en \in Entries
        BY <2>5
      <3> QED BY <1>1, <2>1, <3>1, StateFields DEF RamType
    <2> HIDE DEF en
    <2>7. HeldNow' = HeldNow
      <3>1. Among(en, cpu.key) = Among(ram.entry, cpu.key)
        <4>1. \A k \in Slots : Valid(ram.entry[k]) =>
                (\E l \in Slots : en[l] = ram.entry[k])
                  \/ cpu.key = ram.entry[k]
          BY <2>4, <2>5
        <4>2. \A k \in Slots : Valid(en[k]) =>
                (\E l \in Slots : ram.entry[l] = en[k]) \/ cpu.key = en[k]
          BY <2>4, <2>5
        <4> QED BY <4>1, <4>2, AmongKept
      <3> QED BY <2>2, <2>6, <3>1 DEF HeldNow
    <2>8. \E c \in 0 .. Depth : Split(en, c, cpu.newest)
      <3>1. PICK c \in 0 .. Depth : Split(ram.entry, c, cpu.newest)
        BY <1>3
      <3> DEFINE b == IF p < c /\ c <= r THEN p ELSE c
                 S(i) == Steps(cpu.newest, ram.entry[i].seq)
      <3>2. b \in 0 .. Depth /\ c \in Int
        BY <1>5, <3>1, Big
      <3>3. ASSUME NEW i \in Valids(en)
            PROVE  /\ i \in Nat /\ i \in Slots
                   /\ IF i = p THEN en[i] = ram.entry[r]
                      ELSE i \in Valids(ram.entry) /\ en[i] = ram.entry[i]
                   /\ ~(p < i /\ i < r)
        BY <1>3, <1>5, <2>4, <2>5 DEF Valids
      <3>4. r \in Valids(ram.entry)
        BY <2>4 DEF Valids
      <3>5. ASSUME NEW i \in Valids(ram.entry) PROVE S(i) \in Int
        <4>1. ram.entry[i].seq \in Numbers
          BY <1>1, HeldFacts
        <4> QED BY <1>4, <4>1, StepsIs, Big
      <3>6. ASSUME NEW i \in Valids(ram.entry),
                   NEW j \in Valids(ram.entry), i < j
            PROVE  IF i < c /\ c <= j
                   THEN S(i) <= S(j) \/ Elder(ram.entry, i, c, cpu.newest)
                   ELSE S(j) <= S(i)
        BY <3>1, <3>6 DEF Split
      <3>10. ASSUME NEW i \in Valids(en)
             PROVE  LET u == IF i = p THEN r ELSE i
                    IN  /\ u \in Valids(ram.entry) /\ en[i] = ram.entry[u]
                        /\ b <= i <=> c <= u
        <4>1. ~(p < i /\ i < r) /\ i \in Nat /\ (i = r => i # p)
          BY <2>4, <3>3
        <4>2. b <= i <=> c <= IF i = p THEN r ELSE i
          BY <2>4, <3>1, <3>2, <4>1
        <4> QED BY <3>3, <3>4, <4>2
      <3>11. ~Valid(ram.entry[Depth - 1]) => ~Valid(en[Depth - 1])
        <4>1. Depth - 1 \in Slots /\ Depth - 1 # p
          BY <1>5, <2>4, Big
        <4> QED BY <2>5, <4>1
      <3>12. ASSUME NEW i \in Valids(en),
                    Elder(ram.entry, IF i = p THEN r ELSE i, c, cpu.newest)
             PROVE  Elder(en, i, b, cpu.newest)
        <4> DEFINE u == IF i = p THEN r ELSE i
        <4>1. ASSUME NEW k \in Valids(en), b <= k
              PROVE  Steps(cpu.newest, en[k].seq)
                       <= Steps(cpu.newest, en[i].seq)
          <5> DEFINE v == IF k = p THEN r ELSE k
          <5>1. v \in Valids(ram.entry) /\ en[k] = ram.entry[v] /\ c <= v
            BY <3>10, <4>1
          <5>2. en[i] = ram.entry[u]
            BY <3>10
          <5> QED BY <3>12, <5>1, <5>2 DEF Elder
        <4> QED BY <3>11, <3>12, <4>1 DEF Elder
      <3>7. ASSUME NEW i \in Valids(en), NEW j \in Valids(en), i < j
            PROVE  IF i < b /\ b <= j
                   THEN \/ Steps(cpu.newest, en[i].seq)
                            <= Steps(cpu.newest, en[j].seq)
                        \/ Elder(en, i, b, cpu.newest)
                   ELSE Steps(cpu.newest, en[j].seq)
                          <= Steps(cpu.newest, en[i].seq)
        <4> DEFINE u == IF i = p THEN r ELSE i
                   v == IF j = p THEN r ELSE j
        <4>1. /\ u \in Valids(ram.entry) /\ v \in Valids(ram.entry)
              /\ en[i] = ram.entry[u] /\ en[j] = ram.entry[v]
          BY <3>3, <3>4
        <4>3. /\ i \in Nat /\ j \in Nat /\ u \in Nat /\ v \in Nat
              /\ ~(p < i /\ i < r) /\ ~(p < j /\ j < r)
          BY <2>4, <3>3
        <4>4. u < v \/ u = v
          BY <2>4, <3>7, <4>3
        <4>5. (i < b /\ b <= j) => (u < c /\ c <= v) \/ u = v
          BY <2>4, <3>2, <3>7, <4>3
        <4>6. (u < c /\ c <= v) => (i < b /\ b <= j) \/ u = v
          BY <2>4, <3>2, <3>7, <4>3
        <4>7. S(u) \in Int /\ S(v) \in Int
          BY <3>5, <4>1
        <4>8. u < v => IF u < c /\ c <= v
                       THEN S(u) <= S(v) \/ Elder(en, i, b, cpu.newest)
                       ELSE S(v) <= S(u)
          BY <3>6, <3>12, <4>1
        <4>9. /\ Steps(cpu.newest, en[i].seq) = S(u)
              /\ Steps(cpu.newest, en[j].seq) = S(v)
          BY <4>1
        <4>10. u = v => S(u) = S(v)
          OBVIOUS
        <4> HIDE DEF S, b, u, v
        <4> QED BY <4>4, <4>5, <4>6, <4>7, <4>8, <4>9, <4>10
      <3> HIDE DEF b
      <3>8. Split(en, b, cpu.newest)
        BY <3>7 DEF Split
      <3> QED BY <3>2, <3>8
    <2>9. Distinct([en EXCEPT ![r] = Zero])
      <3> DEFINE e2 == [en EXCEPT ![r] = Zero]
      <3>1. /\ e2[p] = ram.entry[r] /\ e2[r] = Zero
            /\ \A i \in Slots : i # p /\ i # r => e2[i] = ram.entry[i]
        BY <2>4, <2>5 DEF Entries
      <3> HIDE DEF e2
      <3>2. ASSUME NEW i \in Valids(e2), NEW j \in Valids(e2),
                   e2[i].seq = e2[j].seq
            PROVE  i = j
        <4> DEFINE u == IF i = p THEN r ELSE i
                   v == IF j = p THEN r ELSE j
        <4>1. /\ u \in Valids(ram.entry) /\ v \in Valids(ram.entry)
              /\ e2[i] = ram.entry[u] /\ e2[j] = ram.entry[v]
              /\ i # r /\ j # r
          BY <2>4, <3>1, BlankEntries DEF Valids
        <4>2. u = v
          BY <1>3, <3>2, <4>1 DEF Distinct
        <4> QED BY <4>1, <4>2
      <3> QED BY <3>2 DEF Distinct, e2
    <2>10. Packing'
      <3>1. /\ \A i \in Slots : i < p => Valid(en[i])
            /\ \A i \in Slots : p < i /\ i < r => ~Valid(en[i])
        BY <1>3, <1>5, <2>4, <2>5
      <3> QED BY <2>2, <2>4, <2>5, <2>6, <2>8, <2>9, <3>1 DEF Packing, At
    <2>11. Sorting'
      BY <2>2 DEF Sorting, At
    <2>12. \E c \in 0 .. Depth : Split(ram.entry, c, cpu.newest)'
      BY <2>2, <2>6, <2>8
    <2> QED BY <1>6, <2>2, <2>3, <2>6, <2>7, <2>10, <2>11, <2>12
  <1>11. CASE cpu.read # Depth /\ cpu.read \in ValidSlots
    BY <1>9, <1>10, <1>11
  <1> QED BY <1>7, <1>8, <1>11

(* What every step of a compaction leaves alone.                           *)
LEMMA CompactionFrame ==
  ASSUME Inv, cpu.pc \in Newer, cpu'.pc \in Newer, cpu'.op = cpu.op,
         cpu'.boot = cpu.boot, cpu'.newest = cpu.newest, cpu' \in CpuType,
         ram' \in RamType, ram'.magic = ram.magic, ram'.boot = ram.boot,
         life' = life, HeldNow' = HeldNow,
         cpu'.pc # "shift" => cpu'.key = Zero, Packing', Sorting', Calm'
  PROVE  Inv'
  <1>1. Types' /\ Unique(HeldNow)'
    BY DEF Types, Inv
  <1>2. BootsAgree'
    <2>1. HighestBoot' = HighestBoot
      BY DEF HighestBoot, Booted
    <2> QED BY <2>1 DEF Inv, BootsAgree
  <1>3. Control'
    BY DEF Inv, Control, At, Ops, Calls, Newer
  <1>4. NewestHeld'
    BY LostSame DEF Inv, NewestHeld
  <1>5. Appending'
    BY RecoveryPc
  <1> QED BY <1>1, <1>2, <1>3, <1>4, <1>5 DEF Inv

(* During a compaction the newest record is held, and the others are near. *)
LEMMA CompactionFacts ==
  ASSUME Inv, cpu.pc \in Newer
  PROVE  /\ cpu.newest \in SeqsOf(HeldNow) /\ cpu.newest \in Numbers
         /\ Near(HeldNow, Lost, cpu.newest)
         /\ ram.magic
  <1>1. /\ cpu.newest \in SeqsOf(HeldNow) /\ ram.magic
        /\ Near(HeldNow, Lost, cpu.newest)
    BY DEF Inv, NewestHeld, Control, Newer, At
  <1>2. cpu.newest \in Numbers
    BY <1>1, HeldFacts DEF SeqsOf, Inv
  <1> QED BY <1>1, <1>2

(* Zeroing the old place of a record copied down.                          *)
LEMMA CleanKeeps ==
  ASSUME Inv, Clean
  PROVE  Inv' /\ HeldNow' = HeldNow
  <1> DEFINE p == cpu.packed
             r == cpu.read
             en == [ram.entry EXCEPT ![r] = Zero]
  <1>1. Types
    BY DEF Inv
  <1>2. /\ At("clean") /\ life' = life /\ ram' = [ram EXCEPT !.entry[r] = Zero]
        /\ cpu' = [cpu EXCEPT !.pc = "pack", !.read = @ + 1, !.packed = @ + 1]
        /\ cpu.key = Zero
    BY DEF Clean, Inv, Control, At
  <1>3. /\ p < r /\ r < Depth /\ Valid(ram.entry[r])
        /\ ram.entry[p] = ram.entry[r]
        /\ \A i \in Slots : i < p => Valid(ram.entry[i])
        /\ \A i \in Slots : p < i /\ i < r => ~Valid(ram.entry[i])
        /\ Distinct(en)
        /\ \E c \in 0 .. Depth : Split(ram.entry, c, cpu.newest)
    BY <1>2 DEF Inv, Packing
  <1>4. /\ p \in Nat /\ r \in Nat /\ p \in Slots /\ r \in Slots
        /\ \A i \in Slots : i \in Nat
    BY <1>1, <1>3, StateFields, Big DEF Slots
  <1>5. /\ en \in Entries /\ en[r] = Zero
        /\ \A i \in Slots : i # r => en[i] = ram.entry[i]
    BY <1>1, <1>4, StateFields, BlankEntries DEF Entries
  <1>6. /\ ram' \in RamType /\ ram'.entry = en /\ ram'.magic = ram.magic
        /\ ram'.boot = ram.boot
    <2>1. en \in Entries
      BY <1>5
    <2> QED BY <1>1, <1>2, <2>1, StateFields DEF RamType
  <1> HIDE DEF en
  <1>7. /\ cpu'.op = cpu.op /\ cpu'.key = cpu.key /\ cpu'.boot = cpu.boot
        /\ cpu'.newest = cpu.newest /\ cpu'.pc = "pack"
        /\ cpu'.packed = p + 1 /\ cpu'.read = r + 1
    BY <1>1, <1>2, StateFields DEF CpuType
  <1>8. cpu' \in CpuType
    <2>1. r + 1 \in 0 .. Depth /\ p + 1 \in 0 .. Depth /\ "pack" \in Pcs
      BY <1>3, <1>4, Big DEF Pcs, Newer
    <2> QED BY <1>1, <1>2, <2>1, StateFields DEF CpuType
  <1>9. HeldNow' = HeldNow
    <2>1. Among(en, cpu.key) = Among(ram.entry, cpu.key)
      <3>1. \A k \in Slots : Valid(ram.entry[k]) =>
              (\E l \in Slots : en[l] = ram.entry[k]) \/ cpu.key = ram.entry[k]
        <4>1. en[p] = ram.entry[r]
          BY <1>3, <1>4, <1>5
        <4> QED BY <1>4, <1>5, <4>1
      <3>2. \A k \in Slots : Valid(en[k]) =>
              (\E l \in Slots : ram.entry[l] = en[k]) \/ cpu.key = en[k]
        BY <1>5, BlankEntries
      <3> QED BY <3>1, <3>2, AmongKept
    <2> QED BY <1>6, <1>7, <2>1 DEF HeldNow
  <1>10. PICK c \in 0 .. Depth : Split(en, c, cpu.newest)
    <2>1. PICK c \in 0 .. Depth : Split(ram.entry, c, cpu.newest)
      BY <1>3
    <2>2. \A k \in Valids(en) : k \in Valids(ram.entry) /\ en[k] = ram.entry[k]
      BY <1>5, BlankEntries DEF Valids
    <2> QED BY <2>1, <2>2, SplitSubset
  <1>11. Packing'
    <2>1. \A i \in Slots : i < p + 1 => Valid(en[i])
      <3> SUFFICES ASSUME NEW i \in Slots, i < p + 1
                   PROVE  Valid(en[i])
        OBVIOUS
      <3>1. (i < p \/ i = p) /\ i # r
        BY <1>3, <1>4
      <3> QED BY <1>3, <1>5, <3>1
    <2>2. \A i \in Slots : p + 1 <= i /\ i < r + 1 => ~Valid(en[i])
      <3> SUFFICES ASSUME NEW i \in Slots, p + 1 <= i, i < r + 1
                   PROVE  ~Valid(en[i])
        OBVIOUS
      <3>1. p < i /\ (i < r \/ i = r)
        BY <1>3, <1>4
      <3> QED BY <1>3, <1>5, <3>1, BlankEntries
    <2>3. p + 1 <= r + 1
      BY <1>3, <1>4
    <2>4. \E i \in Slots : ~Valid(en[i])
      BY <1>4, <1>5, BlankEntries
    <2> QED BY <1>3, <1>6, <1>7, <1>10, <2>1, <2>2, <2>3, <2>4
            DEF Packing, At
  <1>12. Sorting'
    BY <1>7 DEF Sorting, At
  <1>13. /\ cpu.pc \in Newer /\ cpu'.pc \in Newer
    BY <1>2, <1>7 DEF At, Newer
  <1>14. Calm'
    BY <1>2, <1>6, <1>7, <1>9, <1>10, <1>13, CompactionFacts, LostSame
       DEF Calm
  <1> QED BY <1>2, <1>6, <1>7, <1>8, <1>9, <1>11, <1>12, <1>13, <1>14,
             CompactionFrame

(* Taking the next record to be placed.                                    *)
LEMMA PickKeeps ==
  ASSUME Inv, Pick
  PROVE  Inv' /\ HeldNow' = HeldNow
  <1>1. Types
    BY DEF Inv
  <1>2. At("sort") /\ life' = life /\ ram' = ram /\ cpu.key = Zero
    BY DEF Pick, Inv, Control, At
  <1>3. /\ Packed(ram.entry, cpu.packed) /\ Distinct(ram.entry)
        /\ cpu.index >= 1 /\ cpu.index <= cpu.packed /\ cpu.packed < Depth
        /\ Sorted(ram.entry, {i \in Slots : i < cpu.index}, cpu.newest)
        /\ \E c \in cpu.index .. Depth : Split(ram.entry, c, cpu.newest)
    BY <1>2 DEF Inv, Sorting
  <1>4. /\ cpu.pc \in Newer /\ ram' \in RamType /\ ram'.magic = ram.magic
        /\ ram'.boot = ram.boot
    BY <1>1, <1>2, StateFields DEF At, Newer
  <1>5. /\ cpu.index \in Nat /\ cpu.packed \in Nat /\ cpu.packed <= Depth
        /\ \A i \in Slots : i \in Nat
        /\ \A i \in Nat : i < Depth => i \in Slots
    BY <1>1, StateFields, Big DEF Slots
  <1>6. CASE cpu.index >= cpu.packed
    <2>1. cpu' = [cpu EXCEPT !.pc = "trim"]
      BY <1>6 DEF Pick, Goto
    <2>2. /\ cpu'.op = cpu.op /\ cpu'.key = cpu.key /\ cpu'.boot = cpu.boot
          /\ cpu'.newest = cpu.newest /\ cpu'.pc = "trim"
          /\ cpu'.packed = cpu.packed
      BY <1>1, <2>1, StateFields DEF CpuType
    <2>3. cpu' \in CpuType
      <3>1. "trim" \in Pcs
        BY DEF Pcs, Newer
      <3> QED BY <1>1, <2>1, <3>1, StateFields DEF CpuType
    <2>4. HeldNow' = HeldNow
      BY <1>2, <2>2 DEF HeldNow
    <2>5. cpu.index = cpu.packed
      BY <1>3, <1>5, <1>6
    <2>6. Sorting'
      BY <1>2, <1>3, <2>2, <2>5 DEF Sorting, At
    <2>7. Packing'
      BY <2>2 DEF Packing, At
    <2>8. Calm'
      <3>1. \A i \in Valids(ram.entry) : ram.entry[i].seq \in Numbers
        BY <1>1, HeldFacts
      <3>2. ram.entry \in Entries /\ cpu.newest \in Numbers
        BY <1>1, <1>4, StateFields, CompactionFacts
      <3>3. Split(ram.entry, 0, cpu.newest)
        BY <1>3, <1>5, <2>5, <3>1, <3>2, SortedSplit
      <3> QED BY <1>2, <1>4, <2>4, <2>2, <3>3, CompactionFacts, LostSame, Big
              DEF Calm
    <2> QED BY <1>2, <1>4, <2>2, <2>3, <2>4, <2>6, <2>7, <2>8,
               CompactionFrame DEF Newer
  <1>7. CASE ~(cpu.index >= cpu.packed)
    <2> DEFINE x == cpu.index
    <2>1. cpu' = [cpu EXCEPT !.pc = "shift", !.key = ram.entry[x], !.read = x]
      BY <1>7 DEF Pick
    <2>2. /\ x < cpu.packed /\ x \in Slots /\ x \in Nat
          /\ Valid(ram.entry[x]) /\ ram.entry[x] \in Entry
      <3>1. x < cpu.packed /\ x \in Slots
        BY <1>5, <1>7, Big
      <3>2. x \in Valids(ram.entry)
        BY <1>3, <3>1 DEF Packed
      <3> QED BY <1>1, <1>5, <3>1, <3>2, StateFields, ValidsIs
    <2>3. /\ cpu'.op = cpu.op /\ cpu'.key = ram.entry[x]
          /\ cpu'.boot = cpu.boot /\ cpu'.newest = cpu.newest
          /\ cpu'.pc = "shift" /\ cpu'.packed = cpu.packed
          /\ cpu'.index = x /\ cpu'.read = x
      BY <1>1, <2>1, StateFields DEF CpuType
    <2>4. cpu' \in CpuType
      <3>1. "shift" \in Pcs
        BY DEF Pcs, Newer
      <3> QED BY <1>1, <2>1, <2>2, <3>1, StateFields DEF CpuType
    <2>5. HeldNow' = HeldNow
      <3>1. Among(ram.entry, ram.entry[x]) = Among(ram.entry, Zero)
        BY <2>2, BlankEntries, AmongKept
      <3> QED BY <1>2, <2>3, <3>1 DEF HeldNow
    <2>6. Sorting'
      <3>1. [ram.entry EXCEPT ![x] = ram.entry[x]] = ram.entry
        BY <1>1, <2>2, StateFields DEF Entries
      <3>2. {i \in Slots : i <= x /\ i # x} = {i \in Slots : i < x}
        BY <1>5, <2>2
      <3>3. \A b \in Slots : ~(x < b /\ b <= x)
        BY <1>5, <2>2
      <3>4. Distinct([ram.entry EXCEPT ![x] = ram.entry[x]])
        BY <1>3, <3>1
      <3>5. Sorted(ram.entry, {i \in Slots : i <= x /\ i # x}, cpu.newest)
        BY <1>3, <3>2
      <3>6. x <= x
        BY <2>2
      <3> QED BY <1>2, <1>3, <2>2, <2>3, <3>3, <3>4, <3>5, <3>6
              DEF Sorting, At
    <2>7. Packing'
      BY <2>3 DEF Packing, At
    <2>8. Calm'
      <3>1. PICK c \in x .. Depth : Split(ram.entry, c, cpu.newest)
        BY <1>3
      <3>2. c \in 0 .. Depth
        BY <1>5, Big
      <3> QED BY <1>2, <1>4, <2>3, <2>5, <3>1, <3>2, CompactionFacts, LostSame
              DEF Calm
    <2> QED BY <1>2, <1>4, <2>3, <2>4, <2>5, <2>6, <2>7, <2>8,
               CompactionFrame DEF Newer
  <1> QED BY <1>6, <1>7

(* What the sort knows while it holds a record.                            *)
LEMMA ShiftFacts ==
  ASSUME Inv, At("shift")
  PROVE  /\ Packed(ram.entry, cpu.packed) /\ Valid(cpu.key)
         /\ cpu.read <= cpu.index /\ cpu.index < cpu.packed /\ cpu.index >= 1
         /\ Distinct([ram.entry EXCEPT ![cpu.read] = cpu.key])
         /\ ram.entry[cpu.read] = IF cpu.read = cpu.index THEN cpu.key
                                  ELSE ram.entry[cpu.read + 1]
         /\ Sorted(ram.entry, {i \in Slots : i <= cpu.index /\ i # cpu.read},
                   cpu.newest)
         /\ \A b \in Slots : cpu.read < b /\ b <= cpu.index =>
              Steps(cpu.newest, ram.entry[b].seq)
                < Steps(cpu.newest, cpu.key.seq)
         /\ cpu.read \in Nat /\ cpu.index \in Nat /\ cpu.packed \in Nat
         /\ cpu.packed <= Depth /\ cpu.packed < Depth /\ cpu.read \in Slots
         /\ IF cpu.read = cpu.index
            THEN \E c \in cpu.index .. Depth : Split(ram.entry, c, cpu.newest)
            ELSE /\ Split(ram.entry, cpu.index + 1, cpu.newest)
                 /\ \A k \in Valids(ram.entry) : cpu.index < k =>
                      Steps(cpu.newest, ram.entry[k].seq)
                        <= Steps(cpu.newest, cpu.key.seq)
         /\ \A i \in Slots : i \in Nat /\ i < Depth
         /\ \A i \in Nat : i < Depth => i \in Slots
         /\ \A i \in Slots : i < cpu.packed =>
              Valid(ram.entry[i]) /\ ram.entry[i].seq \in Numbers
         /\ cpu.key \in HeldNow /\ cpu.key.seq \in Numbers
  <1>1. Types
    BY DEF Inv
  <1>2. /\ Packed(ram.entry, cpu.packed) /\ Valid(cpu.key)
        /\ cpu.read <= cpu.index /\ cpu.index < cpu.packed /\ cpu.index >= 1
        /\ Distinct([ram.entry EXCEPT ![cpu.read] = cpu.key])
        /\ ram.entry[cpu.read] = IF cpu.read = cpu.index THEN cpu.key
                                 ELSE ram.entry[cpu.read + 1]
        /\ Sorted(ram.entry, {i \in Slots : i <= cpu.index /\ i # cpu.read},
                  cpu.newest)
        /\ \A b \in Slots : cpu.read < b /\ b <= cpu.index =>
             Steps(cpu.newest, ram.entry[b].seq)
               < Steps(cpu.newest, cpu.key.seq)
        /\ cpu.packed < Depth
        /\ IF cpu.read = cpu.index
           THEN \E c \in cpu.index .. Depth : Split(ram.entry, c, cpu.newest)
           ELSE /\ Split(ram.entry, cpu.index + 1, cpu.newest)
                /\ \A k \in Valids(ram.entry) : cpu.index < k =>
                     Steps(cpu.newest, ram.entry[k].seq)
                       <= Steps(cpu.newest, cpu.key.seq)
    BY DEF Inv, Sorting
  <1>3. /\ cpu.index \in Nat /\ cpu.packed \in Nat /\ cpu.packed <= Depth
        /\ \A i \in Slots : i \in Nat /\ i < Depth
        /\ \A i \in Nat : i < Depth => i \in Slots
        /\ cpu.read \in Nat
    BY <1>1, StateFields, Big DEF Slots
  <1>4. cpu.read \in Slots
    BY <1>2, <1>3, Big
  <1>5. \A i \in Slots : i < cpu.packed =>
          Valid(ram.entry[i]) /\ ram.entry[i].seq \in Numbers
    <2> SUFFICES ASSUME NEW i \in Slots, i < cpu.packed
                 PROVE  Valid(ram.entry[i]) /\ ram.entry[i].seq \in Numbers
      OBVIOUS
    <2>1. i \in Valids(ram.entry)
      BY <1>2 DEF Packed
    <2> QED BY <1>1, <2>1, HeldFacts, ValidsIs
  <1>6. cpu.key \in HeldNow /\ cpu.key.seq \in Numbers
    BY <1>1, <1>2, AmongIs, HeldFacts DEF HeldNow
  <1> QED BY <1>2, <1>3, <1>4, <1>5, <1>6

(* Moving a newer record up.                                               *)
LEMMA ShiftKeeps ==
  ASSUME Inv, Shift
  PROVE  Inv' /\ HeldNow' = HeldNow
  <1> DEFINE r == cpu.read
             x == cpu.index
             key == cpu.key
             old == ram.entry
             en == [old EXCEPT ![r] = old[r - 1]]
             S(e) == Steps(cpu.newest, e.seq)
  <1>1. Types
    BY DEF Inv
  <1>2. /\ At("shift") /\ life' = life /\ r > 0 /\ Age(old[r - 1]) < Age(key)
        /\ ram' = [ram EXCEPT !.entry[r] = old[r - 1]]
        /\ cpu' = [cpu EXCEPT !.read = @ - 1]
    BY DEF Shift, MovesUp
  <1>3. /\ Packed(old, cpu.packed) /\ Valid(key)
        /\ r <= x /\ x < cpu.packed /\ x >= 1
        /\ Distinct([old EXCEPT ![r] = key])
        /\ old[r] = IF r = x THEN key ELSE old[r + 1]
        /\ Sorted(old, {i \in Slots : i <= x /\ i # r}, cpu.newest)
        /\ \A b \in Slots : r < b /\ b <= x => S(old[b]) < S(key)
        /\ r \in Nat /\ x \in Nat /\ cpu.packed \in Nat
        /\ cpu.packed <= Depth /\ cpu.packed < Depth /\ r \in Slots
        /\ \A i \in Slots : i \in Nat /\ i < Depth
        /\ \A i \in Nat : i < Depth => i \in Slots
        /\ \A i \in Slots : i < cpu.packed =>
             Valid(old[i]) /\ old[i].seq \in Numbers
        /\ key.seq \in Numbers
    BY <1>2, ShiftFacts
  <1>4. /\ r - 1 \in Slots /\ r - 1 \in Nat /\ r - 1 < cpu.packed /\ r - 1 # r
        /\ r - 1 < r /\ r - 1 <= x /\ r - 1 # x
        /\ (r - 1) + 1 = r
    BY <1>2, <1>3, Big
  <1>5. cpu.pc \in Newer /\ cpu.newest \in Numbers
    BY <1>2, CompactionFacts DEF At, Newer
  <1>6. S(old[r - 1]) < S(key)
    <2>1. old[r - 1].seq \in Numbers
      BY <1>3, <1>4
    <2> QED BY <1>2, <1>3, <1>5, <2>1, AgeInWindow DEF Age
  <1>7. /\ en \in Entries /\ en[r] = old[r - 1]
        /\ \A i \in Slots : i # r => en[i] = old[i]
    BY <1>1, <1>3, <1>4, StateFields DEF Entries
  <1>8. /\ ram' \in RamType /\ ram'.entry = en /\ ram'.magic = ram.magic
        /\ ram'.boot = ram.boot
    <2>1. en \in Entries
      BY <1>7
    <2> QED BY <1>1, <1>2, <2>1, StateFields DEF RamType
  <1>9. /\ cpu'.op = cpu.op /\ cpu'.key = key /\ cpu'.boot = cpu.boot
        /\ cpu'.newest = cpu.newest /\ cpu'.pc = "shift"
        /\ cpu'.packed = cpu.packed /\ cpu'.index = x /\ cpu'.read = r - 1
    BY <1>1, <1>2, StateFields DEF CpuType, At
  <1>10. cpu' \in CpuType
    <2>1. r - 1 \in 0 .. Depth
      BY <1>4, <1>3, Big
    <2> QED BY <1>1, <1>2, <2>1, StateFields DEF CpuType
  <1> HIDE DEF en
  <1>11. HeldNow' = HeldNow
    <2>1. Among(en, key) = Among(old, key)
      <3>1. \A k \in Slots : Valid(old[k]) =>
              (\E l \in Slots : en[l] = old[k]) \/ key = old[k]
        <4>1. CASE r = x
          <5>1. old[r] = key
            BY <1>3, <4>1
          <5> QED BY <1>7, <5>1
        <4>2. CASE r # x
          <5>1. old[r] = old[r + 1] /\ r + 1 \in Slots /\ r + 1 # r
            BY <1>3, <4>2, Big
          <5>2. en[r + 1] = old[r]
            BY <1>7, <5>1
          <5> QED BY <1>7, <5>1, <5>2
        <4> QED BY <4>1, <4>2
      <3>2. \A k \in Slots : Valid(en[k]) =>
              (\E l \in Slots : old[l] = en[k]) \/ key = en[k]
        BY <1>4, <1>7
      <3> QED BY <3>1, <3>2, AmongKept
    <2> QED BY <1>8, <1>9, <2>1 DEF HeldNow
  <1>12. Packed(en, cpu.packed)
    <2>1. \A i \in Slots : Valid(en[i]) <=> Valid(old[i])
      <3>1. Valid(old[r]) /\ Valid(old[r - 1])
        <4>1. r < cpu.packed
          BY <1>3
        <4> QED BY <1>3, <1>4, <4>1
      <3> QED BY <1>7, <3>1
    <2>2. Valids(en) = Valids(old)
      BY <2>1 DEF Valids
    <2> QED BY <1>3, <2>2 DEF Packed
  <1>13. Distinct([en EXCEPT ![r - 1] = key])
    <2> DEFINE e1 == [old EXCEPT ![r] = key]
               e2 == [en EXCEPT ![r - 1] = key]
    <2>1. /\ e1[r] = key /\ e1[r - 1] = old[r - 1]
          /\ e2[r] = old[r - 1] /\ e2[r - 1] = key
          /\ \A i \in Slots : i # r /\ i # r - 1 =>
               e1[i] = old[i] /\ e2[i] = old[i]
      BY <1>1, <1>3, <1>4, <1>7, StateFields DEF Entries
    <2> HIDE DEF e1, e2
    <2>2. ASSUME NEW i \in Valids(e2), NEW j \in Valids(e2),
                 e2[i].seq = e2[j].seq
          PROVE  i = j
      <3> DEFINE u == IF i = r THEN r - 1 ELSE IF i = r - 1 THEN r ELSE i
                 v == IF j = r THEN r - 1 ELSE IF j = r - 1 THEN r ELSE j
      <3>1. i \in Slots /\ j \in Slots /\ Valid(e2[i]) /\ Valid(e2[j])
        BY ValidsIs
      <3>2. /\ u \in Slots /\ v \in Slots
            /\ e2[i] = e1[u] /\ e2[j] = e1[v]
        BY <1>3, <1>4, <2>1, <3>1
      <3>3. u \in Valids(e1) /\ v \in Valids(e1)
        BY <3>1, <3>2, ValidsIs
      <3>4. u = v
        <4> HIDE DEF u, v
        <4> QED BY <1>3, <2>2, <3>2, <3>3 DEF Distinct, e1
      <3> QED BY <1>4, <3>4
    <2> QED BY <2>2 DEF Distinct, e2
  <1>20. ASSUME NEW i \in Valids(old)
         PROVE  S(old[i]) \in Int /\ i \in Slots /\ i \in Nat
    <2>1. old[i].seq \in Numbers /\ i \in Slots
      BY <1>1, HeldFacts
    <2> QED BY <1>3, <1>5, <2>1, StepsIs, Big
  <1>21. Valids(en) = Valids(old) /\ ~Valid(en[Depth - 1])
    <2>1. Valids(en) = Valids(old)
      BY <1>3, <1>12 DEF Packed
    <2>2. Depth - 1 \in Slots /\ ~(Depth - 1 < cpu.packed)
      BY <1>3, Big
    <2> QED BY <1>12, <2>1, <2>2, ValidsIs DEF Packed
  <1>22. /\ Split(en, x + 1, cpu.newest)
         /\ \A k \in Valids(en) : x < k => S(en[k]) <= S(key)
    <2> DEFINE u == [i \in Slots |-> IF i = r THEN r - 1 ELSE i]
    <2>1. ASSUME NEW i \in Valids(en)
          PROVE  u[i] \in Valids(old) /\ en[i] = old[u[i]]
      <3>1. i \in Slots /\ (i # r => u[i] = i) /\ u[r] = r - 1
        BY <1>3, <1>20, <1>21
      <3>2. r - 1 \in Valids(old)
        BY <1>3, <1>4, ValidsIs
      <3> QED BY <1>7, <1>21, <3>1, <3>2
    <2>2. \A i, j \in Valids(en) : i < j => u[i] <= u[j]
      <3>1. \A i \in Valids(en) : i \in Slots /\ i \in Nat
        BY <1>20, <1>21
      <3> QED BY <1>3, <1>4, <3>1
    <2>5. /\ \A i \in Valids(en) :
               /\ u[i] \in Valids(old) /\ en[i] = old[u[i]]
               /\ i \in Int /\ u[i] \in Int
          /\ \A i \in Valids(old) : Steps(cpu.newest, old[i].seq) \in Int
          /\ x \in Int /\ x + 1 \in Int
      <3>1. \A i \in Valids(old) : i \in Int
        BY <1>20
      <3> QED BY <1>3, <1>20, <1>21, <2>1, <3>1
    <2>3. CASE r = x
      <3>1. PICK c \in x .. Depth : Split(old, c, cpu.newest)
        BY <1>3, <2>3, ShiftFacts, <1>2
      <3>2. c = x
        <4>1. r \in Valids(old) /\ r - 1 \in Valids(old) /\ old[r] = key
          BY <1>3, <1>4, <2>3, ValidsIs
        <4>2. r < c => S(old[r]) <= S(old[r - 1])
          BY <1>4, <3>1, <4>1, <1>3 DEF Split
        <4>3. S(old[r]) \in Int /\ S(old[r - 1]) \in Int
          BY <1>20, <4>1
        <4>4. ~(S(old[r]) <= S(old[r - 1]))
          <5> HIDE DEF S
          <5> QED BY <1>6, <4>1, <4>3
        <4> QED BY <1>3, <2>3, <3>1, <4>2, <4>4, Big
      <3>3. \A i \in Valids(en) : i < x + 1 <=> u[i] < x
        <4>1. \A i \in Valids(en) : i \in Slots /\ i \in Nat
          BY <1>20, <1>21
        <4> QED BY <1>3, <1>4, <2>3, <4>1
      <3>4. Split(en, x + 1, cpu.newest)
        <4> HIDE DEF u
        <4> QED BY <1>21, <2>2, <2>5, <3>1, <3>2, <3>3, SplitMoved
      <3>5. ASSUME NEW k \in Valids(en), x < k
            PROVE  S(en[k]) <= S(key)
        <4>1. k \in Valids(old) /\ x \in Valids(old) /\ k \in Nat
              /\ k \in Slots /\ old[x] = key
          BY <1>3, <1>20, <1>21, <2>3, ValidsIs
        <4>2. k # r /\ ~(x < x)
          BY <1>3, <2>3, <3>5, <4>1
        <4>3. S(old[k]) <= S(old[x])
          BY <3>1, <3>2, <3>5, <4>1, <4>2 DEF Split
        <4> QED BY <1>7, <4>1, <4>2, <4>3
      <3> QED BY <3>4, <3>5
    <2>4. CASE r # x
      <3>1. /\ Split(old, x + 1, cpu.newest)
            /\ \A k \in Valids(old) : x < k => S(old[k]) <= S(key)
        BY <1>2, <2>4, ShiftFacts
      <3>2. \A i \in Valids(en) : i < x + 1 <=> u[i] < x + 1
        <4>1. \A i \in Valids(en) : i \in Slots /\ i \in Nat
          BY <1>20, <1>21
        <4> QED BY <1>3, <1>4, <2>4, <4>1
      <3>3. Split(en, x + 1, cpu.newest)
        <4> HIDE DEF u
        <4> QED BY <1>21, <2>2, <2>5, <3>1, <3>2, SplitMoved
      <3>4. ASSUME NEW k \in Valids(en), x < k
            PROVE  S(en[k]) <= S(key)
        <4>1. k \in Valids(old) /\ k \in Nat /\ k \in Slots
          BY <1>20, <1>21
        <4>2. k # r
          BY <1>3, <3>4, <4>1
        <4> QED BY <1>7, <3>1, <3>4, <4>1, <4>2
      <3> QED BY <3>3, <3>4
    <2> QED BY <2>3, <2>4
  <1>14. en[r - 1] = IF r - 1 = x THEN key ELSE en[(r - 1) + 1]
    BY <1>4, <1>7
  <1>15. Sorted(en, {i \in Slots : i <= x /\ i # r - 1}, cpu.newest)
    <2> SUFFICES ASSUME NEW a \in Slots, NEW b \in Slots, a <= x, b <= x,
                        a # r - 1, b # r - 1, a < b
                 PROVE  S(en[b]) < S(en[a])
      BY DEF Sorted
    <2> DEFINE u == IF a = r THEN r - 1 ELSE a
               v == IF b = r THEN r - 1 ELSE b
    <2>1. en[a] = old[u] /\ en[b] = old[v]
      BY <1>7
    <2>2. /\ u \in Slots /\ v \in Slots /\ u <= x /\ v <= x
          /\ u # r /\ v # r /\ u < v
      BY <1>3, <1>4
    <2> HIDE DEF u, v, S
    <2>3. S(old[v]) < S(old[u])
      BY <1>3, <2>2 DEF Sorted, S
    <2> QED BY <2>1, <2>3
  <1>16. \A b \in Slots : r - 1 < b /\ b <= x => S(en[b]) < S(key)
    <2> SUFFICES ASSUME NEW b \in Slots, r - 1 < b, b <= x
                 PROVE  S(en[b]) < S(key)
      OBVIOUS
    <2>1. CASE b = r
      BY <1>6, <1>7, <2>1
    <2>2. CASE b # r
      <3>1. r < b
        BY <1>3, <2>2
      <3> QED BY <1>3, <1>7, <2>2, <3>1
    <2> QED BY <2>1, <2>2
  <1>17. r - 1 <= x
    BY <1>4
  <1> HIDE DEF r, x, key, S
  <1>18. Sorting'
    BY <1>3, <1>4, <1>8, <1>9, <1>12, <1>13, <1>14, <1>15, <1>16, <1>17,
       <1>22 DEF Sorting, At, S
  <1>19. Packing' /\ Calm'
    <2>1. x + 1 \in 0 .. Depth
      BY <1>3, Big
    <2>2. Calm'
      BY <1>2, <1>5, <1>8, <1>11, <1>22, <2>1, CompactionFacts, LostSame
         DEF Calm
    <2> QED BY <1>9, <2>2 DEF Packing, At
  <1> QED BY <1>2, <1>5, <1>8, <1>9, <1>10, <1>11, <1>18, <1>19,
             CompactionFrame DEF Newer, key

(* Placing the record held.                                                *)
LEMMA PlaceKeeps ==
  ASSUME Inv, Place
  PROVE  Inv' /\ HeldNow' = HeldNow
  <1> DEFINE r == cpu.read
             x == cpu.index
             key == cpu.key
             old == ram.entry
             en == [old EXCEPT ![r] = key]
             S(e) == Steps(cpu.newest, e.seq)
  <1>1. Types
    BY DEF Inv
  <1>2. /\ At("shift") /\ life' = life
        /\ ~(r > 0 /\ Age(old[r - 1]) < Age(key))
        /\ ram' = [ram EXCEPT !.entry[r] = key]
        /\ cpu' = [cpu EXCEPT !.pc = "sort", !.index = @ + 1, !.key = Zero]
    BY DEF Place, MovesUp
  <1>3. /\ Packed(old, cpu.packed) /\ Valid(key)
        /\ r <= x /\ x < cpu.packed /\ x >= 1
        /\ Distinct(en)
        /\ old[r] = IF r = x THEN key ELSE old[r + 1]
        /\ Sorted(old, {i \in Slots : i <= x /\ i # r}, cpu.newest)
        /\ \A b \in Slots : r < b /\ b <= x => S(old[b]) < S(key)
        /\ r \in Nat /\ x \in Nat /\ cpu.packed \in Nat
        /\ cpu.packed <= Depth /\ cpu.packed < Depth /\ r \in Slots
        /\ IF r = x THEN \E c \in x .. Depth : Split(old, c, cpu.newest)
           ELSE /\ Split(old, x + 1, cpu.newest)
                /\ \A k \in Valids(old) : x < k => S(old[k]) <= S(key)
        /\ \A i \in Slots : i \in Nat /\ i < Depth
        /\ \A i \in Nat : i < Depth => i \in Slots
        /\ \A i \in Slots : i < cpu.packed =>
             Valid(old[i]) /\ old[i].seq \in Numbers
        /\ key.seq \in Numbers
    BY <1>2, ShiftFacts
  <1>4. cpu.pc \in Newer /\ cpu.newest \in Numbers
    BY <1>2, CompactionFacts DEF At, Newer
  <1>5. /\ en \in Entries /\ en[r] = key
        /\ \A i \in Slots : i # r => en[i] = old[i]
    BY <1>1, <1>3, StateFields DEF Entries
  <1>6. /\ ram' \in RamType /\ ram'.entry = en /\ ram'.magic = ram.magic
        /\ ram'.boot = ram.boot
    <2>1. en \in Entries
      BY <1>5
    <2> QED BY <1>1, <1>2, <2>1, StateFields DEF RamType
  <1>7. /\ cpu'.op = cpu.op /\ cpu'.key = Zero /\ cpu'.boot = cpu.boot
        /\ cpu'.newest = cpu.newest /\ cpu'.pc = "sort"
        /\ cpu'.packed = cpu.packed /\ cpu'.index = x + 1
    BY <1>1, <1>2, StateFields DEF CpuType
  <1>8. cpu' \in CpuType
    <2>1. x + 1 \in 0 .. Depth /\ "sort" \in Pcs /\ Zero \in Entry
      BY <1>3, Big, BlankEntries DEF Pcs, Newer
    <2> QED BY <1>1, <1>2, <2>1, StateFields DEF CpuType
  <1> HIDE DEF en
  <1>9. HeldNow' = HeldNow
    <2>1. Among(en, Zero) = Among(old, key)
      <3>1. \A k \in Slots : Valid(old[k]) =>
              (\E l \in Slots : en[l] = old[k]) \/ Zero = old[k]
        <4>1. CASE r = x
          <5>1. old[r] = key
            BY <1>3, <4>1
          <5> QED BY <1>3, <1>5, <5>1
        <4>2. CASE r # x
          <5>1. old[r] = old[r + 1] /\ r + 1 \in Slots /\ r + 1 # r
            BY <1>3, <4>2, Big
          <5>2. en[r + 1] = old[r]
            BY <1>5, <5>1
          <5> QED BY <1>5, <5>1, <5>2
        <4> QED BY <4>1, <4>2
      <3>2. \A k \in Slots : Valid(en[k]) =>
              (\E l \in Slots : old[l] = en[k]) \/ key = en[k]
        BY <1>5
      <3>3. \E l \in Slots : en[l] = key
        BY <1>3, <1>5
      <3> QED BY <3>1, <3>2, <3>3, BlankEntries, AmongKept
    <2> QED BY <1>6, <1>7, <2>1 DEF HeldNow
  <1>10. Packed(en, cpu.packed)
    <2>1. \A i \in Slots : Valid(en[i]) <=> Valid(old[i])
      <3>1. Valid(old[r])
        <4>1. r < cpu.packed
          BY <1>3
        <4> QED BY <1>3, <4>1
      <3> QED BY <1>3, <1>5, <3>1
    <2>2. Valids(en) = Valids(old)
      BY <2>1 DEF Valids
    <2> QED BY <1>3, <2>2 DEF Packed
  <1>11. ASSUME NEW i \in Slots, i < cpu.packed
         PROVE  S(old[i]) \in Int
    <2>1. old[i].seq \in Numbers
      BY <1>3, <1>11
    <2> QED BY <1>4, <2>1, StepsIs, Big
  <1>12. S(key) \in Int
    BY <1>3, <1>4, StepsIs, Big
  <1>13. ASSUME NEW a \in Slots, a < r PROVE S(key) < S(old[a])
    <2>1. r > 0 /\ r - 1 \in Slots /\ r - 1 \in Nat /\ r - 1 < r /\ a \in Nat
      BY <1>3, <1>13, Big
    <2>2. /\ old[r - 1].seq \in Numbers /\ Valid(old[r - 1])
          /\ r - 1 < cpu.packed
      BY <1>3, <2>1
    <2>3. ~(S(old[r - 1]) < S(key))
      BY <1>2, <1>3, <1>4, <2>1, <2>2, AgeInWindow DEF Age
    <2>4. S(old[r - 1]) # S(key)
      <3>1. old[r - 1].seq # key.seq
        <4>1. en[r - 1] = old[r - 1] /\ en[r] = key
          BY <1>5, <2>1, <1>3
        <4>2. r \in Valids(en) /\ r - 1 \in Valids(en)
          BY <1>3, <2>1, <2>2, <4>1, ValidsIs
        <4>3. r # r - 1
          BY <2>1
        <4> QED BY <1>3, <4>1, <4>2, <4>3 DEF Distinct
      <3> QED BY <1>3, <1>4, <2>2, <3>1, StepsInjective
    <2>5. S(key) < S(old[r - 1])
      BY <1>11, <1>12, <2>1, <2>2, <2>3, <2>4
    <2>6. CASE a = r - 1
      BY <2>5, <2>6
    <2>7. CASE a # r - 1
      <3>1. a < r - 1 /\ a <= x /\ a # r /\ r - 1 <= x /\ r - 1 # r
            /\ a < cpu.packed
        BY <1>3, <1>13, <2>1, <2>7
      <3>2. S(old[r - 1]) < S(old[a])
        BY <1>3, <2>1, <3>1 DEF Sorted
      <3>3. S(old[a]) \in Int /\ S(old[r - 1]) \in Int
        BY <1>11, <2>1, <2>2, <3>1
      <3> HIDE DEF S
      <3> QED BY <1>12, <2>5, <3>2, <3>3
    <2> QED BY <2>6, <2>7
  <1>14. Sorted(en, {i \in Slots : i < x + 1}, cpu.newest)
    <2> SUFFICES ASSUME NEW a \in Slots, NEW b \in Slots, a < x + 1,
                        b < x + 1, a < b
                 PROVE  S(en[b]) < S(en[a])
      BY DEF Sorted
    <2>1. a <= x /\ b <= x /\ a \in Nat /\ b \in Nat
      BY <1>3
    <2>2. CASE a = r
      BY <1>3, <1>5, <2>1, <2>2
    <2>3. CASE b = r
      BY <1>5, <1>13, <2>1, <2>3
    <2>4. CASE a # r /\ b # r
      <3>1. S(old[b]) < S(old[a])
        BY <1>3, <2>1, <2>4 DEF Sorted
      <3> QED BY <1>5, <2>4, <3>1
    <2> QED BY <2>2, <2>3, <2>4
  <1>15. x + 1 >= 1 /\ x + 1 <= cpu.packed
    BY <1>3
  <1>18. /\ Valids(en) = Valids(old)
         /\ ~Valid(en[Depth - 1]) /\ ~Valid(old[Depth - 1])
         /\ \A i \in Valids(old) : i \in Slots /\ i \in Nat
         /\ x \in Valids(en)
    <2>1. Valids(en) = Valids(old)
      BY <1>3, <1>10 DEF Packed
    <2>2. Depth - 1 \in Slots /\ ~(Depth - 1 < cpu.packed) /\ x \in Slots
      BY <1>3, Big
    <2>3. \A i \in Valids(old) : i \in Slots
      BY ValidsIs
    <2> QED BY <1>3, <1>10, <2>1, <2>2, <2>3, ValidsIs DEF Packed
  <1>19. ASSUME NEW i \in Valids(en), NEW c, c <= x + 1, c \in Int, i # r,
                Elder(old, i, c, cpu.newest), \/ r = x
                                             \/ c = x + 1
         PROVE  Elder(en, i, x + 1, cpu.newest)
    <2>1. ASSUME NEW k \in Valids(en), x + 1 <= k
          PROVE  S(en[k]) <= S(en[i])
      <3>1. k \in Valids(old) /\ c <= k /\ k # r /\ k \in Slots /\ i \in Slots
        BY <1>3, <1>18, <1>19, <2>1
      <3> QED BY <1>5, <1>19, <3>1 DEF Elder
    <2> QED BY <1>18, <2>1 DEF Elder
  <1>20. ASSUME NEW j \in Valids(en), NEW i \in Valids(en), i < j
         PROVE  \/ j <= x /\ S(en[j]) <= S(en[i])
                \/ i <= x /\ x + 1 <= j
                \/ x + 1 <= i
    <2>1. i \in Slots /\ j \in Slots /\ i \in Nat /\ j \in Nat
      BY <1>18
    <2>2. CASE j <= x
      <3>1. S(en[j]) < S(en[i])
        BY <1>3, <1>14, <1>20, <2>1, <2>2 DEF Sorted
      <3>2. S(en[j]) \in Int /\ S(en[i]) \in Int
        BY <1>3, <1>5, <1>11, <1>12, <1>20, <2>1, <2>2
      <3> HIDE DEF S
      <3> QED BY <2>2, <3>1, <3>2
    <2>3. CASE ~(j <= x)
      BY <1>3, <2>1, <2>3
    <2> QED BY <2>2, <2>3
  <1>21. \E c \in x + 1 .. Depth : Split(en, c, cpu.newest)
    <2> DEFINE Ordered ==
          /\ \A i, j \in Valids(en) : i <= x /\ x + 1 <= j =>
               S(en[i]) <= S(en[j]) \/ Elder(en, i, x + 1, cpu.newest)
          /\ \A i, j \in Valids(en) : x + 1 <= i /\ i < j =>
               S(en[j]) <= S(en[i])
    <2>1. Ordered => Split(en, x + 1, cpu.newest)
      <3> SUFFICES ASSUME Ordered, NEW i \in Valids(en), NEW j \in Valids(en),
                          i < j
                   PROVE  IF i < x + 1 /\ x + 1 <= j
                          THEN \/ S(en[i]) <= S(en[j])
                               \/ Elder(en, i, x + 1, cpu.newest)
                          ELSE S(en[j]) <= S(en[i])
        BY DEF Split
      <3>1. i \in Nat /\ j \in Nat
        BY <1>18
      <3>2. CASE i <= x /\ x + 1 <= j
        BY <1>3, <3>1, <3>2
      <3>3. CASE j <= x /\ S(en[j]) <= S(en[i])
        BY <1>3, <3>1, <3>3
      <3>4. CASE x + 1 <= i
        BY <1>3, <3>1, <3>4
      <3> QED BY <1>20, <3>2, <3>3, <3>4
    <2>2. x + 1 \in x + 1 .. Depth
      BY <1>3, Big
    <2>3. CASE r = x
      <3>1. PICK c \in x .. Depth : Split(old, c, cpu.newest)
        BY <1>3, <2>3
      <3>2. \A i \in Slots : en[i] = old[i]
        BY <1>3, <1>5, <2>3
      <3>3. CASE c # x
        <4>1. c \in x + 1 .. Depth
          BY <1>3, <3>1, <3>3, Big
        <4>2. Split(en, c, cpu.newest)
          BY <1>18, <3>1, <3>2, SplitSubset
        <4> QED BY <4>1, <4>2
      <3>4. CASE c = x
        <4>1. ASSUME NEW i \in Valids(en), NEW j \in Valids(en),
                     x + 1 <= i, i < j
              PROVE  S(en[j]) <= S(en[i])
          <5>1. /\ i \in Valids(old) /\ j \in Valids(old) /\ ~(i < x)
                /\ en[i] = old[i] /\ en[j] = old[j]
            BY <1>3, <1>18, <3>2, <4>1
          <5> QED BY <3>1, <3>4, <4>1, <5>1 DEF Split
        <4>2. ASSUME NEW i \in Valids(en), NEW j \in Valids(en),
                     i <= x, x + 1 <= j
              PROVE  S(en[i]) <= S(en[j]) \/ Elder(en, i, x + 1, cpu.newest)
          <5>1. CASE i = x
            <6>1. ASSUME NEW k \in Valids(en), x + 1 <= k
                  PROVE  S(en[k]) <= S(en[x])
              <7>1. /\ x \in Valids(old) /\ k \in Valids(old) /\ ~(x < x)
                    /\ x < k /\ en[x] = old[x] /\ en[k] = old[k]
                BY <1>3, <1>18, <3>2, <6>1
              <7> QED BY <3>1, <3>4, <7>1 DEF Split
            <6> QED BY <1>18, <5>1, <6>1 DEF Elder
          <5>2. CASE i # x
            <6>1. /\ i \in Valids(old) /\ j \in Valids(old) /\ i < x
                  /\ x <= j /\ i < j /\ en[i] = old[i] /\ en[j] = old[j]
              BY <1>3, <1>18, <3>2, <4>2, <5>2
            <6>2. S(old[i]) <= S(old[j]) \/ Elder(old, i, x, cpu.newest)
              BY <3>1, <3>4, <6>1 DEF Split
            <6>3. x <= x + 1 /\ x \in Int /\ i # r
              BY <1>3, <2>3, <5>2
            <6> QED BY <1>19, <2>3, <6>1, <6>2, <6>3
          <5> QED BY <5>1, <5>2
        <4>3. Ordered
          BY <4>1, <4>2
        <4> HIDE DEF Ordered
        <4> QED BY <2>1, <2>2, <4>3
      <3> QED BY <3>3, <3>4
    <2>4. CASE r # x
      <3>1. /\ Split(old, x + 1, cpu.newest)
            /\ \A k \in Valids(old) : x < k => S(old[k]) <= S(key)
        BY <1>3, <2>4
      <3>2. ASSUME NEW k \in Valids(en), x + 1 <= k
            PROVE  k \in Valids(old) /\ x < k /\ en[k] = old[k]
        BY <1>3, <1>5, <1>18, <3>2
      <3>3. ASSUME NEW i \in Valids(en), NEW j \in Valids(en),
                   x + 1 <= i, i < j
            PROVE  S(en[j]) <= S(en[i])
        <4>1. x + 1 <= j /\ ~(i < x + 1)
          BY <1>3, <1>18, <3>3
        <4>2. /\ i \in Valids(old) /\ j \in Valids(old)
              /\ en[i] = old[i] /\ en[j] = old[j]
          BY <3>2, <3>3, <4>1
        <4> QED BY <3>1, <3>3, <4>1, <4>2 DEF Split
      <3>4. ASSUME NEW i \in Valids(en), NEW j \in Valids(en),
                   i <= x, x + 1 <= j
            PROVE  S(en[i]) <= S(en[j]) \/ Elder(en, i, x + 1, cpu.newest)
        <4>1. CASE i = r
          <5>1. ASSUME NEW k \in Valids(en), x + 1 <= k
                PROVE  S(en[k]) <= S(en[r])
            BY <1>5, <3>1, <3>2, <5>1
          <5> QED BY <1>18, <4>1, <5>1 DEF Elder
        <4>2. CASE i # r
          <5>1. /\ i \in Valids(old) /\ en[i] = old[i] /\ i < j
                /\ i < x + 1 /\ j \in Valids(old) /\ en[j] = old[j]
            BY <1>3, <1>5, <1>18, <3>2, <3>4, <4>2
          <5>2. \/ S(old[i]) <= S(old[j])
                \/ Elder(old, i, x + 1, cpu.newest)
            BY <3>1, <3>4, <5>1 DEF Split
          <5>3. x + 1 <= x + 1 /\ x + 1 \in Int
            BY <1>3
          <5> QED BY <1>19, <4>2, <5>1, <5>2, <5>3
        <4> QED BY <4>1, <4>2
      <3>5. Ordered
        BY <3>3, <3>4
      <3> HIDE DEF Ordered
      <3> QED BY <2>1, <2>2, <3>5
    <2> QED BY <2>3, <2>4
  <1> HIDE DEF r, x, key, S
  <1>16. Sorting'
    BY <1>3, <1>6, <1>7, <1>10, <1>14, <1>15, <1>21 DEF Sorting, At
  <1>17. Packing' /\ Calm'
    <2>1. PICK c \in x + 1 .. Depth : Split(en, c, cpu.newest)
      BY <1>21
    <2>2. c \in 0 .. Depth
      BY <1>3, Big
    <2>3. Calm'
      BY <1>2, <1>4, <1>6, <1>9, <2>1, <2>2, CompactionFacts, LostSame
         DEF Calm
    <2> QED BY <1>7, <2>3 DEF Packing, At
  <1> QED BY <1>2, <1>4, <1>6, <1>7, <1>8, <1>9, <1>16, <1>17,
             CompactionFrame DEF Newer

(* A sorted pack is a ring that ends before slot p.                        *)
LEMMA SortedRing ==
  ASSUME NEW en \in Entries, NEW p \in 1 .. Depth, NEW top \in Numbers,
         Packed(en, p), Sorted(en, {i \in Slots : i < p}, top),
         \A i \in Valids(en) : en[i].seq \in Numbers,
         \E i \in Valids(en) : en[i].seq = top
  PROVE  p % Depth \in Slots /\ Ring(en, p % Depth, p, top)
  <1> DEFINE w == p % Depth
             S(i) == Steps(top, en[i].seq)
  <1>1. w = (IF p = Depth THEN 0 ELSE p) /\ w \in Slots
    BY Big DEF Slots
  <1> HIDE DEF w
  <1>2. ASSUME NEW i \in Slots
        PROVE  /\ Behind(w, i) = IF i < p THEN p - 1 - i ELSE p - 1 - i + Depth
               /\ (Behind(w, i) < p <=> i < p)
               /\ i \in Int /\ 0 <= i
    <2>1. Behind(w, i) = IF w > i THEN w - 1 - i ELSE w - 1 - i + Depth
      BY <1>1, BehindIs
    <2> QED BY <1>1, <2>1, Big DEF Slots
  <1>3. Valids(en) = {i \in Slots : Behind(w, i) < p}
    BY <1>2 DEF Packed
  <1>4. ASSUME NEW i \in Valids(en), NEW j \in Valids(en),
               Behind(w, i) < Behind(w, j)
        PROVE  S(i) < S(j)
    <2>1. i \in Slots /\ j \in Slots /\ i < p /\ j < p
      BY DEF Packed
    <2>2. j < i
      BY <1>2, <1>4, <2>1, Big
    <2> QED BY <2>1, <2>2 DEF Sorted
  <1>5. ASSUME NEW i \in Valids(en), Behind(w, i) = 0
        PROVE  en[i].seq = top
    <2>1. PICK j \in Valids(en) : en[j].seq = top
      OBVIOUS
    <2>2. i \in Slots /\ j \in Slots /\ i < p /\ j < p
      BY DEF Packed
    <2>3. i = p - 1 /\ (j < i \/ j = i)
      BY <1>2, <1>5, <2>2, Big
    <2>4. CASE j < i
      <3>1. S(i) < S(j)
        BY <2>2, <2>4 DEF Sorted
      <3>2. S(j) = 0
        BY <2>1, StepsZero
      <3>3. S(i) \in 0 .. Modulus - 2
        BY StepsIs
      <3> QED BY <3>1, <3>2, <3>3, Big
    <2> QED BY <2>1, <2>3, <2>4
  <1>6. Ring(en, w, p, top)
    BY <1>3, <1>4, <1>5 DEF Ring
  <1> QED BY <1>1, <1>6 DEF w

(* Clearing what is behind the pack: nothing a record is in.               *)
LEMMA TrimKeeps ==
  ASSUME Inv, Trim
  PROVE  Inv' /\ HeldNow' = HeldNow
  <1> DEFINE p == cpu.packed
             en == [i \in Slots |-> IF i < p THEN ram.entry[i] ELSE Zero]
  <1>1. Types
    BY DEF Inv
  <1>2. /\ At("trim") /\ life' = life /\ ram' = [ram EXCEPT !.entry = en]
        /\ cpu' = [cpu EXCEPT !.pc = "header", !.count = p,
                              !.write = p % Depth]
        /\ cpu.key = Zero
    BY DEF Trim, Inv, Control, At
  <1>3. /\ Packed(ram.entry, p) /\ p >= 1
        /\ Sorted(ram.entry, {i \in Slots : i < p}, cpu.newest)
        /\ p \in 1 .. Depth
    BY <1>1, <1>2, StateFields, Big DEF Inv, Sorting
  <1>4. /\ en \in Entries
        /\ \A i \in Slots : en[i] = IF i < p THEN ram.entry[i] ELSE Zero
    BY <1>1, StateFields, BlankEntries DEF Entries
  <1> HIDE DEF en
  <1>5. /\ ram' \in RamType /\ ram'.entry = en /\ ram'.magic = ram.magic
        /\ ram'.boot = ram.boot
    BY <1>1, <1>2, <1>4, StateFields DEF RamType
  <1>6. /\ Valids(en) = Valids(ram.entry)
        /\ \A i \in Valids(en) : en[i] = ram.entry[i] /\ i \in Slots
    <2>1. \A i \in Slots : Valid(en[i]) <=> Valid(ram.entry[i]) /\ i < p
      BY <1>4, BlankEntries
    <2>2. \A i \in Slots : Valid(ram.entry[i]) <=> i < p
      BY <1>3 DEF Packed, Valids
    <2> QED BY <1>4, <2>1, <2>2 DEF Valids
  <1>7. cpu.pc \in Newer /\ cpu.newest \in Numbers
        /\ cpu.newest \in SeqsOf(HeldNow)
    BY <1>2, CompactionFacts DEF At, Newer
  <1>8. /\ \A i \in Valids(en) : en[i].seq \in Numbers
        /\ \E i \in Valids(en) : en[i].seq = cpu.newest
    <2>1. \A i \in Valids(en) : en[i].seq \in Numbers
      BY <1>1, <1>6, HeldFacts
    <2>2. PICK e \in HeldNow : e.seq = cpu.newest
      BY <1>7 DEF SeqsOf
    <2>3. ~At("shift")
      BY <1>2 DEF At
    <2>4. PICK i \in Valids(ram.entry) : e = ram.entry[i]
      BY <2>2, <2>3, HeldInSlots
    <2> QED BY <1>6, <2>1, <2>2, <2>4
  <1>9. Packed(en, p) /\ Sorted(en, {i \in Slots : i < p}, cpu.newest)
    <2>1. Packed(en, p)
      BY <1>3, <1>6 DEF Packed
    <2>2. Sorted(en, {i \in Slots : i < p}, cpu.newest)
      BY <1>3, <1>4 DEF Sorted
    <2> QED BY <2>1, <2>2
  <1>10. p % Depth \in Slots /\ Ring(en, p % Depth, p, cpu.newest)
    BY <1>3, <1>4, <1>7, <1>8, <1>9, SortedRing
  <1>11. /\ cpu'.op = cpu.op /\ cpu'.key = cpu.key /\ cpu'.boot = cpu.boot
         /\ cpu'.newest = cpu.newest /\ cpu'.pc = "header"
         /\ cpu'.count = p /\ cpu'.write = p % Depth
    BY <1>1, <1>2, StateFields DEF CpuType
  <1>12. cpu' \in CpuType
    <2>1. "header" \in Pcs /\ p \in 0 .. Depth
      BY <1>3, Big DEF Pcs, Newer
    <2> DEFINE w == p % Depth
    <2>2. w \in Slots
      BY <1>10
    <2>3. cpu' = [cpu EXCEPT !.pc = "header", !.count = p, !.write = w]
      BY <1>2
    <2> HIDE DEF w
    <2> QED BY <1>1, <2>1, <2>2, <2>3, StateFields DEF CpuType
  <1>13. HeldNow' = HeldNow
    <2>1. Among(en, cpu.key) = Among(ram.entry, cpu.key)
      <3>1. \A k \in Slots : Valid(ram.entry[k]) =>
              (\E l \in Slots : en[l] = ram.entry[k]) \/ cpu.key = ram.entry[k]
        BY <1>6, ValidsIs
      <3>2. \A k \in Slots : Valid(en[k]) =>
              (\E l \in Slots : ram.entry[l] = en[k]) \/ cpu.key = en[k]
        BY <1>6, ValidsIs
      <3> QED BY <3>1, <3>2, AmongKept
    <2> QED BY <1>5, <1>11, <2>1 DEF HeldNow
  <1>14. Split(en, 0, cpu.newest)
    BY <1>3, <1>4, <1>7, <1>8, <1>9, SortedSplit
  <1> DEFINE w == p % Depth
  <1>15. Ring(en, w, p, cpu.newest) /\ cpu'.write = w
    BY <1>10, <1>11
  <1> HIDE DEF w
  <1>16. Sorting'
    BY <1>3, <1>5, <1>11, <1>15 DEF Sorting, At
  <1>17. Packing'
    BY <1>11 DEF Packing, At
  <1>18. Calm'
    BY <1>2, <1>5, <1>7, <1>13, <1>14, CompactionFacts, LostSame, Big
       DEF Calm
  <1> QED BY <1>2, <1>5, <1>7, <1>11, <1>12, <1>13, <1>16, <1>17, <1>18,
             CompactionFrame DEF Newer

(* The header is written from the records.                                 *)
LEMMA HeaderKeeps ==
  ASSUME Inv, Header
  PROVE  Inv' /\ HeldNow' = HeldNow
  <1> DEFINE v == (cpu.write + Depth - 1) % Depth
             new == ram.entry[v]
             boot == IF ram.boot = 0 \/ After(new.boot, ram.boot)
                     THEN new.boot ELSE ram.boot
             nx == NextSequence(cpu.newest)
  <1>1. Types
    BY DEF Inv
  <1>2. /\ At("header") /\ life' = life /\ cpu.key = Zero
        /\ cpu' = [cpu EXCEPT !.pc = cpu.op]
        /\ ram' = [ram EXCEPT !.count = cpu.count, !.write = cpu.write,
                              !.boot = boot, !.next = nx]
    BY DEF Header, Goto, Inv, Control, At
  <1> HIDE DEF v, new, boot, nx
  <1>3. /\ cpu.count >= 1 /\ Ring(ram.entry, cpu.write, cpu.count, cpu.newest)
        /\ cpu.count \in 1 .. Depth /\ cpu.write \in Slots
        /\ ram.entry \in Entries
    BY <1>1, <1>2, StateFields, Big DEF Inv, Sorting
  <1>4. /\ cpu.pc \in Newer /\ cpu.newest \in Numbers /\ ram.magic
        /\ Near(HeldNow, Lost, cpu.newest)
    BY <1>2, CompactionFacts DEF At, Newer
  <1>5. v \in Valids(ram.entry) /\ new \in HeldNow
    BY <1>1, <1>3, <1>4, RingNewest, HeldFacts DEF v, new
  <1>6. boot = ram.boot
    <2>1. /\ new.boot \in Nat /\ ram.boot \in Nat /\ new.boot <= ram.boot
          /\ ram.boot <= MaxBoots + 1
      BY <1>1, <1>5, StateFields, HeldFacts, Big DEF Inv, BootsAgree, BootNo
    <2>2. new.boot \in 0 .. Modulus - 1 /\ ram.boot \in 0 .. Modulus - 1
      BY <2>1, Big
    <2>3. After(new.boot, ram.boot) <=>
            IF new.boot >= ram.boot
            THEN new.boot # ram.boot /\ new.boot - ram.boot < Half
            ELSE new.boot - ram.boot + Modulus < Half
      BY <2>2, AfterIs
    <2>4. ~After(new.boot, ram.boot)
      BY <2>1, <2>3, Big
    <2> QED BY <2>1, <2>4 DEF boot
  <1>7. nx \in Numbers /\ nx \in 0 .. Modulus - 1
    BY <1>4, NextIs, Big DEF nx, Numbers
  <1>8. /\ ram' \in RamType /\ ram'.entry = ram.entry /\ ram'.magic = ram.magic
        /\ ram'.boot = ram.boot /\ ram'.write = cpu.write
        /\ ram'.count = cpu.count /\ ram'.next = nx
    BY <1>1, <1>2, <1>6, <1>7, StateFields DEF RamType
  <1>9. /\ cpu.op \in Ops /\ cpu.op # "none"
    BY <1>1, <1>2, StateFields DEF Inv, Control, At
  <1>10. /\ cpu'.pc = cpu.op /\ cpu'.op = cpu.op /\ cpu'.key = cpu.key
         /\ cpu'.boot = cpu.boot
    BY <1>1, <1>2, StateFields DEF CpuType
  <1>11. cpu' \in CpuType
    BY <1>1, <1>2, <1>9, StateFields DEF CpuType, Pcs
  <1>12. HeldNow' = HeldNow
    BY <1>8, <1>10 DEF HeldNow
  <1>13. Types' /\ Unique(HeldNow)'
    BY <1>1, <1>2, <1>8, <1>11, <1>12 DEF Types, Inv
  <1>14. BootsAgree'
    <2>1. HighestBoot' = HighestBoot
      BY <1>2, <1>10 DEF HighestBoot, Booted
    <2> QED BY <1>8, <1>10, <1>12, <2>1 DEF Inv, BootsAgree
  <1>15. HeldNow # {}
    BY <1>5
  <1>16. cpu.op # "restore"
    BY <1>15 DEF Inv, Control
  <1>17. Control'
    BY <1>2, <1>4, <1>8, <1>9, <1>10, <1>12, <1>16
       DEF Inv, Control, At, Ops, Calls
  <1>18. Calm'
    <2>1. \A i \in Valids(ram.entry) : ram.entry[i].seq \in Numbers
      BY <1>1, HeldFacts
    <2>2. Split(ram.entry, cpu.write, cpu.newest)
      BY <1>3, <1>4, <2>1, RingSplit
    <2>3. cpu.write \in 0 .. Depth
      BY <1>3, Big DEF Slots
    <2> QED BY <1>2, <1>4, <1>8, <1>12, <2>2, <2>3, LostSame DEF Calm
  <1>19. HeaderFits(ram.write, ram.count, ram.next)'
    <2>1. cpu.count # 0
      BY <1>3
    <2> QED BY <1>2, <1>3, <1>4, <1>8, <1>12, <2>1, LostSame
            DEF HeaderFits, nx
  <1>20. Appending'
    BY <1>9, <1>10, <1>19 DEF Appending, At, Ops, Calls
  <1>21. NewestHeld' /\ Packing' /\ Sorting'
    BY <1>9, <1>10, WorkPc
  <1> QED BY <1>12, <1>13, <1>14, <1>17, <1>18, <1>20, <1>21 DEF Inv

(* A call begins.                                                          *)
LEMMA RequestKeeps ==
  ASSUME Inv, Request
  PROVE  Inv' /\ HeldNow' = HeldNow
  <1>1. Types
    BY DEF Inv
  <1>2. /\ At("idle") /\ ram' = ram /\ life' = life /\ cpu.key = Zero
        /\ cpu.op = "none"
    BY DEF Request, Inv, Control, At
  <1>3. PICK op \in Calls, e \in Events : /\ cpu' = Call(op, e)
                                          /\ op = "boot" <=> life.booting
    <2>1. CASE life.booting
      <3>1. cpu' = Call("boot", NoEvent)
        BY <2>1 DEF Request
      <3> QED BY <2>1, <3>1 DEF Calls, Events
    <2>2. CASE ~life.booting
      <3>1. \/ \E e \in Known \cup Later : cpu' = Call("append", e)
            \/ \E op \in {"snapshot", "clear"} : cpu' = Call(op, NoEvent)
        BY <2>2 DEF Request
      <3> QED BY <2>2, <3>1 DEF Calls, Events
    <2> QED BY <2>1, <2>2
  <1>4. /\ cpu' \in CpuType /\ cpu'.pc = "scan" /\ cpu'.op = op
        /\ cpu'.read = 0 /\ cpu'.packed = 0 /\ cpu'.key = Zero /\ cpu'.boot = 0
        /\ cpu'.dirty = FALSE
    BY <1>3, CallIs
  <1>5. HeldNow' = HeldNow
    BY <1>2, <1>4 DEF HeldNow
  <1>6. Types' /\ Unique(HeldNow)'
    BY <1>1, <1>2, <1>4, <1>5 DEF Types, Inv
  <1>7. BootsAgree'
    <2>1. HighestBoot' = HighestBoot
      <3>1. Booted' <=> Booted
        BY <1>2, <1>3, <1>4 DEF Booted, Calls
      <3> QED BY <1>2, <3>1 DEF HighestBoot
    <2> QED BY <1>1, <1>2, <1>4, <1>5, <2>1, HighestIs, Big
            DEF Inv, BootsAgree, BootNo
  <1>8. Control'
    BY <1>2, <1>3, <1>4, <1>5 DEF Inv, Control, At, Ops, Calls
  <1>9. Calm'
    BY <1>2, <1>4, <1>5, LostSame DEF Inv, Calm, At
  <1>10. NewestHeld' /\ Packing' /\ Sorting' /\ Appending'
    BY <1>4, QuietPc, RecoveryPc
  <1> QED BY <1>5, <1>6, <1>7, <1>8, <1>9, <1>10 DEF Inv

(* The slot to be written next is the one furthest behind.                 *)
LEMMA NextSlot ==
  ASSUME NEW w \in Slots
  PROVE  /\ Behind(w, w) = Depth - 1
         /\ \A i \in Slots : i # w => Behind(w, i) < Depth - 1
  <1>1. Behind(w, w) = Depth - 1
    <2>1. Behind(w, w) = IF w > w THEN w - 1 - w ELSE w - 1 - w + Depth
      BY BehindIs
    <2> QED BY <2>1, Big DEF Slots
  <1>2. ASSUME NEW i \in Slots, i # w PROVE Behind(w, i) < Depth - 1
    <2>1. Behind(w, i) # Behind(w, w)
      BY <1>2, BehindInjective
    <2>2. Behind(w, i) \in 0 .. Depth - 1
      BY BehindIs
    <2> QED BY <1>1, <2>1, <2>2, Big
  <1> QED BY <1>1, <1>2

(* The oldest record of a full ring gives up its slot.                     *)
LEMMA RingEvicts ==
  ASSUME NEW en \in Entries, NEW w \in Slots, NEW top \in Numbers,
         Ring(en, w, Depth, top), \A i \in Valids(en) : en[i].seq \in Numbers
  PROVE  LET e2 == [en EXCEPT ![w] = Zero]
         IN  /\ w \in Valids(en) /\ e2[w] = Zero
             /\ Ring(e2, w, Depth - 1, top)
             /\ Among(e2, Zero) = Among(en, Zero) \ {en[w]}
             /\ \A e \in Among(en, Zero) \ {en[w]} :
                  Steps(top, e.seq) < Steps(top, en[w].seq)
  <1> DEFINE e2 == [en EXCEPT ![w] = Zero]
             x == en[w]
  <1>1. e2[w] = Zero /\ \A i \in Slots : i # w => e2[i] = en[i]
    BY DEF Entries
  <1> HIDE DEF e2
  <1>2. Valids(en) = Slots
    <2>1. ASSUME NEW i \in Slots PROVE Behind(w, i) < Depth
      <3>1. Behind(w, i) \in 0 .. Depth - 1
        BY BehindIs
      <3> QED BY <3>1, Big
    <2> QED BY <2>1 DEF Ring
  <1>3. \A i \in Valids(e2) : i \in Slots /\ i # w /\ e2[i] = en[i]
    BY <1>1, BlankEntries DEF Valids
  <1>4. Valids(e2) = {i \in Slots : Behind(w, i) < Depth - 1}
    <2>1. ASSUME NEW i \in Slots
          PROVE  i \in Valids(e2) <=> Behind(w, i) < Depth - 1
      <3>1. CASE i = w
        <4>1. ~(Behind(w, w) < Depth - 1)
          BY NextSlot, Big
        <4> QED BY <1>3, <3>1, <4>1
      <3>2. CASE i # w
        <4>1. Valid(en[i])
          BY <1>2, ValidsIs
        <4> QED BY <1>1, <3>2, <4>1, NextSlot, ValidsIs
      <3> QED BY <3>1, <3>2
    <2>2. Valids(e2) \subseteq Slots
      BY DEF Valids
    <2> QED BY <2>1, <2>2
  <1>5. Ring(e2, w, Depth - 1, top)
    <2>1. \A i, j \in Valids(e2) : Behind(w, i) < Behind(w, j) =>
            Steps(top, e2[i].seq) < Steps(top, e2[j].seq)
      BY <1>2, <1>3 DEF Ring
    <2>2. \A i \in Valids(e2) : Behind(w, i) = 0 => e2[i].seq = top
      BY <1>2, <1>3 DEF Ring
    <2> QED BY <1>4, <2>1, <2>2 DEF Ring
  <1>6. ASSUME NEW i \in Slots, i # w
        PROVE  Steps(top, en[i].seq) < Steps(top, x.seq) /\ en[i] # x
    <2>1. Behind(w, i) < Behind(w, w)
      BY <1>6, NextSlot
    <2>2. Steps(top, en[i].seq) < Steps(top, x.seq)
      BY <1>2, <2>1 DEF Ring
    <2>3. Steps(top, x.seq) \in 0 .. Modulus - 2
      BY <1>2, StepsIs
    <2> QED BY <2>2, <2>3, Big
  <1>7. Among(e2, Zero) = Among(en, Zero) \ {x}
    <2>1. ASSUME NEW e \in Among(e2, Zero) PROVE e \in Among(en, Zero) \ {x}
      <3>1. Valid(e) /\ ((\E i \in Slots : e = e2[i]) \/ e = Zero)
        BY AmongIs
      <3>2. PICK i \in Slots : e = e2[i]
        BY <3>1, BlankEntries
      <3>3. i # w /\ e = en[i]
        BY <1>1, <3>1, <3>2, BlankEntries
      <3> QED BY <1>6, <3>1, <3>3, AmongIs
    <2>2. ASSUME NEW e \in Among(en, Zero) \ {x} PROVE e \in Among(e2, Zero)
      <3>1. Valid(e) /\ ((\E i \in Slots : e = en[i]) \/ e = Zero)
        BY AmongIs
      <3>2. PICK i \in Slots : e = en[i]
        BY <3>1, BlankEntries
      <3>3. e = e2[i]
        BY <1>1, <3>2
      <3> QED BY <3>1, <3>3, AmongIs
    <2> QED BY <2>1, <2>2
  <1>8. ASSUME NEW e \in Among(en, Zero) \ {x}
        PROVE  Steps(top, e.seq) < Steps(top, x.seq)
    <2>1. Valid(e) /\ ((\E i \in Slots : e = en[i]) \/ e = Zero)
      BY AmongIs
    <2>2. PICK i \in Slots : e = en[i]
      BY <2>1, BlankEntries
    <2> QED BY <1>6, <2>2
  <1> QED BY <1>1, <1>2, <1>5, <1>7, <1>8 DEF e2

(* The slot to be written is invalidated first: a full ring gives up its   *)
(* oldest record, and nothing else is lost.                                *)
LEMMA InvalidateKeeps ==
  ASSUME Inv, Invalidate
  PROVE  /\ Inv'
         /\ \/ HeldNow' = HeldNow
            \/ \E top \in Numbers, x \in HeldNow :
                 /\ Near(HeldNow, Lost, top)
                 /\ Ring(ram.entry, ram.write, Depth, top)
                 /\ HeldNow' = HeldNow \ {x}
                 /\ \A e \in HeldNow \ {x} :
                      Steps(top, e.seq) < Steps(top, x.seq)
  <1> DEFINE w == ram.write
             n == ram.count
             x == ram.entry[w]
             b == Valid(x)
             en == [ram.entry EXCEPT ![w] = Zero]
  <1>1. Types
    BY DEF Inv
  <1>2. /\ At("append") /\ life' = life /\ ram' = [ram EXCEPT !.entry[w] = Zero]
        /\ cpu' = [cpu EXCEPT !.pc = "commit", !.replacing = b]
        /\ cpu.key = Zero /\ ram.magic /\ cpu.op = "append"
    BY DEF Invalidate, Inv, Control, At, Ops, Calls
  <1>3. b \in BOOLEAN
    BY DEF Valid
  <1> HIDE DEF b
  <1>4. /\ w \in Slots /\ n \in 0 .. Depth /\ ram.entry \in Entries
    BY <1>1, StateFields
  <1>5. PICK top \in Numbers : /\ Near(HeldNow, Lost, top)
                               /\ Ring(ram.entry, w, n, top)
                               /\ ram.next = IF n = 0 THEN 1
                                             ELSE NextSequence(top)
    BY <1>2 DEF Inv, Appending, At, Ops, Calls, HeaderFits
  <1>6. /\ en \in Entries /\ en[w] = Zero
        /\ \A i \in Slots : i # w => en[i] = ram.entry[i]
    BY <1>4, BlankEntries DEF Entries
  <1>7. /\ ram' \in RamType /\ ram'.entry = en /\ ram'.magic = ram.magic
        /\ ram'.boot = ram.boot /\ ram'.write = w /\ ram'.count = n
        /\ ram'.next = ram.next
    <2>1. en \in Entries
      BY <1>6
    <2> QED BY <1>1, <1>2, <2>1, StateFields DEF RamType
  <1>8. /\ cpu'.op = cpu.op /\ cpu'.key = cpu.key /\ cpu'.boot = cpu.boot
        /\ cpu'.pc = "commit" /\ cpu'.replacing = b
    BY <1>1, <1>2, StateFields DEF CpuType
  <1>9. cpu' \in CpuType
    <2>1. "commit" \in Pcs
      BY DEF Pcs
    <2> QED BY <1>1, <1>2, <1>3, <2>1, StateFields DEF CpuType
  <1>10. HeldNow = Among(ram.entry, Zero) /\ HeldNow' = Among(en, Zero)
    BY <1>2, <1>7, <1>8 DEF HeldNow
  <1>11. \A i \in Valids(ram.entry) : ram.entry[i].seq \in Numbers
    BY <1>1, HeldFacts
  <1>12. b <=> n = Depth
    <2>1. w \in Valids(ram.entry) <=> Behind(w, w) < n
      BY <1>4, <1>5 DEF Ring
    <2>2. Behind(w, w) = Depth - 1
      BY <1>4, NextSlot
    <2> QED BY <1>4, <2>1, <2>2, ValidsIs, Big DEF b
  <1>13. /\ \/ HeldNow' = HeldNow
            \/ /\ x \in HeldNow /\ n = Depth
               /\ HeldNow' = HeldNow \ {x}
               /\ \A e \in HeldNow \ {x} :
                    Steps(top, e.seq) < Steps(top, x.seq)
         /\ Ring(en, w, IF b THEN Depth - 1 ELSE n, top)
         /\ Near(HeldNow', Lost, top)
    <2>1. CASE n = Depth
      <3>1. /\ w \in Valids(ram.entry) /\ Ring(en, w, Depth - 1, top)
            /\ Among(en, Zero) = Among(ram.entry, Zero) \ {x}
            /\ \A e \in Among(ram.entry, Zero) \ {x} :
                 Steps(top, e.seq) < Steps(top, x.seq)
        BY <1>4, <1>5, <1>11, <2>1, RingEvicts
      <3>2. /\ x \in HeldNow /\ HeldNow' = HeldNow \ {x}
            /\ \A e \in HeldNow \ {x} : Steps(top, e.seq) < Steps(top, x.seq)
        BY <1>1, <1>10, <3>1, HeldFacts
      <3>3. Lost \in Nat /\ IsFiniteSet(SeqsOf(HeldNow))
            /\ \A e \in HeldNow : e.seq \in Numbers
        BY <1>1, StateFields, HeldFacts
      <3>4. Near(HeldNow', Lost, top)
        BY <1>5, <3>2, <3>3, NearEvicted
      <3> HIDE DEF en, w, n, x
      <3> QED BY <1>12, <2>1, <3>1, <3>2, <3>4
    <2>2. CASE n # Depth
      <3>1. ~Valid(x)
        BY <1>12, <2>2 DEF b
      <3>2. Among(en, Zero) = Among(ram.entry, Zero)
        <4>1. \A k \in Slots : Valid(ram.entry[k]) =>
                (\E l \in Slots : en[l] = ram.entry[k]) \/ Zero = ram.entry[k]
          BY <1>6, <3>1
        <4>2. \A k \in Slots : Valid(en[k]) =>
                (\E l \in Slots : ram.entry[l] = en[k]) \/ Zero = en[k]
          BY <1>6, BlankEntries
        <4> HIDE DEF en
        <4> QED BY <4>1, <4>2, BlankEntries, AmongKept
      <3>3. \A i \in Slots : Valid(en[i]) <=> Valid(ram.entry[i])
        BY <1>6, <3>1, BlankEntries
      <3>4. /\ Valids(en) = Valids(ram.entry)
            /\ \A i \in Valids(en) : en[i] = ram.entry[i]
        BY <1>6, <3>1, <3>3, ValidsIs DEF Valids
      <3>5. Ring(en, w, n, top)
        BY <1>5, <3>4 DEF Ring
      <3> HIDE DEF en, w, n, x
      <3> QED BY <1>5, <1>10, <1>12, <2>2, <3>2, <3>5
    <2> QED BY <2>1, <2>2
  <1> HIDE DEF en, w, n, x
  <1>14. HeldNow' \subseteq HeldNow
    BY <1>13
  <1>15. Types' /\ Unique(HeldNow)'
    BY <1>1, <1>2, <1>7, <1>9, <1>14 DEF Types, Inv, Unique
  <1>16. BootsAgree'
    <2>1. HighestBoot' = HighestBoot
      BY <1>2, <1>8 DEF HighestBoot, Booted
    <2> QED BY <1>7, <1>8, <1>14, <2>1 DEF Inv, BootsAgree
  <1>17. Control'
    BY <1>2, <1>7, <1>8 DEF Inv, Control, At, Ops, Calls
  <1> DEFINE l == IF b THEN Depth - 1 ELSE n
  <1>18. Left' = l /\ Room' /\ l \in 0 .. Depth - 1 /\ (l = 0 <=> n = 0)
    BY <1>3, <1>4, <1>7, <1>8, <1>12, Big DEF Left, Room
  <1>19. Ring(en, w, l, top)
    BY <1>13
  <1> HIDE DEF l
  <1>20. Calm'
    <2>1. \A i \in Valids(en) : en[i].seq \in Numbers
      <3>1. \A i \in Valids(en) : i \in Slots /\ Valid(en[i])
        BY ValidsIs
      <3>2. \A i \in Valids(en) : en[i] \in HeldNow'
        BY <1>10, <3>1, AmongIs
      <3> QED BY <1>1, <1>14, <3>2, HeldFacts
    <2>2. en \in Entries /\ l \in Nat /\ w \in 0 .. Depth
      BY <1>4, <1>6, <1>18, Big DEF Slots, en, w
    <2>3. Split(en, w, top)
      BY <1>4, <1>19, <2>1, <2>2, RingSplit
    <2> QED BY <1>2, <1>7, <1>13, <2>2, <2>3, LostSame DEF Calm
  <1>21. Appending'
    <2>1. HeaderFits(ram.write, Left, ram.next)'
      BY <1>2, <1>5, <1>7, <1>13, <1>18, <1>19, LostSame DEF HeaderFits
    <2>2. (ram.entry[ram.write])' = Zero
      BY <1>6, <1>7 DEF w
    <2> QED BY <1>8, <1>18, <2>1, <2>2 DEF Appending, At, Ops, Calls
  <1>22. NewestHeld' /\ Packing' /\ Sorting'
    BY <1>8, WorkPc
  <1>23. \/ HeldNow' = HeldNow
         \/ \E t \in Numbers, y \in HeldNow :
              /\ Near(HeldNow, Lost, t)
              /\ Ring(ram.entry, ram.write, Depth, t)
              /\ HeldNow' = HeldNow \ {y}
              /\ \A e \in HeldNow \ {y} : Steps(t, e.seq) < Steps(t, y.seq)
    BY <1>5, <1>13 DEF w
  <1> QED BY <1>15, <1>16, <1>17, <1>20, <1>21, <1>22, <1>23 DEF Inv

(* A record with the next number joins a ring that has room.               *)
LEMMA RingGrows ==
  ASSUME NEW en \in Entries, NEW w \in Slots, NEW l \in 0 .. Depth - 1,
         NEW top \in Numbers, Ring(en, w, l, top), en[w] = Zero, NEW x,
         Valid(x), x.seq \in Numbers,
         \A i \in Valids(en) :
           /\ Steps(top, en[i].seq) \in Nat
           /\ Steps(x.seq, en[i].seq) = Steps(top, en[i].seq) + 1
  PROVE  LET e2 == [en EXCEPT ![w] = x]
         IN  Ring(e2, (w + 1) % Depth, l + 1, x.seq)
  <1> DEFINE e2 == [en EXCEPT ![w] = x]
             v == (w + 1) % Depth
  <1>1. e2[w] = x /\ \A i \in Slots : i # w => e2[i] = en[i]
    BY DEF Entries
  <1> HIDE DEF e2
  <1>2. ASSUME NEW i \in Slots
        PROVE  /\ Behind(v, i) = IF i = w THEN 0 ELSE Behind(w, i) + 1
               /\ Behind(w, i) \in 0 .. Depth - 1
    BY BehindNext, BehindIs
  <1> HIDE DEF v
  <1>3. \A i \in Slots : i # w => (i \in Valids(e2) <=> i \in Valids(en))
    BY <1>1, ValidsIs
  <1>4. w \in Valids(e2) /\ w \notin Valids(en)
    BY <1>1, BlankEntries, ValidsIs
  <1>5. Valids(e2) = {i \in Slots : Behind(v, i) < l + 1}
    <2>1. ASSUME NEW i \in Slots
          PROVE  i \in Valids(e2) <=> Behind(v, i) < l + 1
      <3>1. CASE i = w
        BY <1>2, <1>4, <3>1, Big
      <3>2. CASE i # w
        <4>1. i \in Valids(en) <=> Behind(w, i) < l
          BY DEF Ring
        <4> QED BY <1>2, <1>3, <3>2, <4>1, Big
      <3> QED BY <3>1, <3>2
    <2>2. Valids(e2) \subseteq Slots
      BY DEF Valids
    <2> QED BY <2>1, <2>2
  <1>6. Steps(x.seq, x.seq) = 0
    BY StepsZero
  <1>7. ASSUME NEW i \in Valids(e2), NEW j \in Valids(e2),
               Behind(v, i) < Behind(v, j)
        PROVE  Steps(x.seq, e2[i].seq) < Steps(x.seq, e2[j].seq)
    <2>1. i \in Slots /\ j \in Slots
      BY DEF Valids
    <2>2. j # w
      BY <1>2, <1>7, <2>1, Big
    <2>3. j \in Valids(en) /\ e2[j] = en[j]
      BY <1>1, <1>3, <2>1, <2>2
    <2>4. CASE i = w
      BY <1>1, <1>6, <2>3, <2>4
    <2>5. CASE i # w
      <3>1. i \in Valids(en) /\ e2[i] = en[i]
        BY <1>1, <1>3, <2>1, <2>5
      <3>2. Behind(w, i) < Behind(w, j)
        BY <1>2, <1>7, <2>1, <2>2, <2>5, Big
      <3>3. Steps(top, en[i].seq) < Steps(top, en[j].seq)
        BY <2>3, <3>1, <3>2 DEF Ring
      <3> QED BY <2>3, <3>1, <3>3
    <2> QED BY <2>4, <2>5
  <1>8. ASSUME NEW i \in Valids(e2), Behind(v, i) = 0
        PROVE  e2[i].seq = x.seq
    <2>1. i \in Slots
      BY DEF Valids
    <2>2. i = w
      BY <1>2, <1>8, <2>1, Big
    <2> QED BY <1>1, <2>2
  <1>9. Ring(e2, v, l + 1, x.seq)
    BY <1>5, <1>7, <1>8 DEF Ring
  <1> QED BY <1>9 DEF e2, v

(* What an append does to the journal.                                     *)
Appended(x) ==
  \E top \in Numbers, l \in 0 .. Depth - 1 :
    /\ x \notin HeldNow /\ x.seq \in Numbers /\ Valid(x) /\ x \in Entry
    /\ x.boot = ram.boot /\ x.event \in Known
    /\ Near(HeldNow \cup {x}, Lost, x.seq)
    /\ \A e \in HeldNow : e.seq # x.seq
    /\ Ring(ram.entry, ram.write, l, top)
    /\ x.seq = IF l = 0 THEN 1 ELSE NextSequence(top)
    /\ Near(HeldNow, Lost, top)

(* The commit word publishes the record with the next number, or an event  *)
(* that recovery will reject.                                              *)
LEMMA CommitKeeps ==
  ASSUME Inv, Commit
  PROVE  /\ Inv'
         /\ \/ cpu.event \notin Known /\ HeldNow' = HeldNow
            \/ /\ cpu.event \in Known
               /\ \E x : /\ Appended(x) /\ x.event = cpu.event
                         /\ HeldNow' = HeldNow \cup {x}
  <1> DEFINE w == ram.write
             x == Committed(ram.next, cpu.event, ram.boot)
             en == [ram.entry EXCEPT ![w] = x]
             v == (w + 1) % Depth
  <1>1. Types
    BY DEF Inv
  <1>2. /\ At("commit") /\ life' = life /\ cpu' = [cpu EXCEPT !.pc = "bump"]
        /\ cpu.key = Zero /\ ram.magic
        /\ ram' = [ram EXCEPT !.entry[w] =
                     Committed(IF ram.next = 0 THEN 1 ELSE ram.next,
                               cpu.event, ram.boot)]
    BY DEF Commit, Goto, Inv, Control, At
  <1>3. /\ w \in Slots /\ ram.count \in 0 .. Depth /\ ram.entry \in Entries
        /\ ram.boot \in BootNo /\ cpu.event \in Events
        /\ Lost \in 0 .. MaxLost /\ Lost \in Nat
    BY <1>1, StateFields
  <1>4. /\ Room /\ ram.entry[w] = Zero /\ HeaderFits(w, Left, ram.next)
    BY <1>2 DEF Inv, Appending
  <1>5. PICK top \in Numbers : /\ Near(HeldNow, Lost, top)
                               /\ Ring(ram.entry, w, Left, top)
                               /\ ram.next = IF Left = 0 THEN 1
                                             ELSE NextSequence(top)
    BY <1>4 DEF HeaderFits
  <1>6. Left \in 0 .. Depth - 1
    BY <1>1, <1>3, <1>4, StateFields, Big DEF Left, Room
  <1>7. ram.next \in Numbers /\ ram.next # 0
    BY <1>5, OneIs, NextIs, Big DEF Numbers
  <1>8. /\ x \in Entry /\ x.seq = ram.next /\ x.boot = ram.boot
        /\ x.event = cpu.event /\ x.st = "committed"
        /\ (Valid(x) <=> cpu.event \in Known)
    BY <1>3, <1>7, Big DEF Committed, Entry, BootNo, Events, Numbers, Valid
  <1>9. ram' = [ram EXCEPT !.entry[w] = x]
    BY <1>2, <1>7
  <1> HIDE DEF x
  <1>10. /\ en \in Entries /\ en[w] = x
         /\ \A i \in Slots : i # w => en[i] = ram.entry[i]
    BY <1>3, <1>8 DEF Entries
  <1>11. /\ ram' \in RamType /\ ram'.entry = en /\ ram'.magic = ram.magic
         /\ ram'.boot = ram.boot /\ ram'.write = w /\ ram'.count = ram.count
         /\ ram'.next = ram.next
    <2>1. en \in Entries
      BY <1>10
    <2> QED BY <1>1, <1>9, <2>1, StateFields DEF RamType
  <1>12. /\ cpu'.op = cpu.op /\ cpu'.key = cpu.key /\ cpu'.boot = cpu.boot
         /\ cpu'.pc = "bump" /\ cpu'.replacing = cpu.replacing
         /\ cpu' \in CpuType
    <2>1. "bump" \in Pcs
      BY DEF Pcs
    <2> QED BY <1>1, <1>2, <2>1, StateFields DEF CpuType
  <1>13. /\ HeldNow = Among(ram.entry, Zero) /\ HeldNow' = Among(en, Zero)
         /\ Left' = Left /\ Room'
    BY <1>2, <1>4, <1>11, <1>12 DEF HeldNow, Left, Room
  <1> HIDE DEF en, w, v
  <1>14. HeldNow' = IF Valid(x) THEN HeldNow \cup {x} ELSE HeldNow
    <2>1. ASSUME NEW e
          PROVE  e \in Among(en, Zero)
                   <=> e \in Among(ram.entry, Zero) \/ (Valid(x) /\ e = x)
      <3>1. e \in Among(en, Zero)
              <=> Valid(e) /\ ((\E i \in Slots : e = en[i]) \/ e = Zero)
        BY AmongIs
      <3>2. e \in Among(ram.entry, Zero)
              <=> Valid(e) /\ ((\E i \in Slots : e = ram.entry[i]) \/ e = Zero)
        BY AmongIs
      <3> QED BY <1>3, <1>4, <1>10, <3>1, <3>2, BlankEntries DEF w
    <2>2. CASE Valid(x)
      BY <1>13, <2>1, <2>2
    <2>3. CASE ~Valid(x)
      BY <1>13, <2>1, <2>3
    <2> QED BY <2>2, <2>3
  <1>15. \A i \in Valids(ram.entry) :
           /\ i \in Slots /\ ram.entry[i] \in HeldNow
           /\ ram.entry[i].seq \in Numbers
    BY <1>1, HeldFacts
  <1>16. /\ \A e \in HeldNow : e.seq \in Numbers /\ e.boot <= ram.boot
         /\ IsFiniteSet(SeqsOf(HeldNow))
         /\ Cardinality(SeqsOf(HeldNow)) \in 0 .. Depth
    BY <1>1, <1>2, HeldFacts, BlankEntries DEF Inv, BootsAgree
  <1>17. \A e \in HeldNow : /\ Steps(top, e.seq) < Modulus - 2
                            /\ Steps(top, e.seq) \in Nat
    BY <1>3, <1>5, <1>16, NearWithin
  <1>18. /\ Near(HeldNow \cup {x}, Lost, x.seq)
         /\ \A e \in HeldNow : /\ e.seq # x.seq
                               /\ Steps(x.seq, e.seq) = Steps(top, e.seq) + 1
    <2>1. CASE Left = 0
      <3>1. HeldNow = {}
        <4>1. ASSUME NEW e \in HeldNow PROVE FALSE
          <5>1. ~At("shift")
            BY <1>2 DEF At
          <5>2. PICK i \in Valids(ram.entry) : e = ram.entry[i]
            BY <5>1, HeldInSlots
          <5>3. Behind(w, i) < 0 /\ i \in Slots
            BY <1>5, <2>1, <5>2 DEF Ring
          <5>4. Behind(w, i) \in 0 .. Depth - 1
            BY <1>3, <5>3, BehindIs
          <5> QED BY <5>3, <5>4, Big
        <4> QED BY <4>1
      <3>2. HeldNow \cup {x} = {x}
        BY <3>1
      <3> QED BY <1>3, <1>7, <1>8, <3>1, <3>2, NearFirst
    <2>2. CASE Left # 0
      <3>1. x.seq = NextSequence(top)
        BY <1>5, <1>8, <2>2
      <3> QED BY <1>3, <1>5, <1>16, <1>17, <3>1, NearExtended
    <2> QED BY <2>1, <2>2
  <1>19. x \notin HeldNow
    BY <1>18
  <1>20. Valid(x) => Appended(x)
    BY <1>5, <1>6, <1>7, <1>8, <1>18, <1>19 DEF Appended, w
  <1>21. Types'
    BY <1>1, <1>2, <1>7, <1>8, <1>11, <1>12, <1>14, <1>16 DEF Types
  <1>22. Unique(HeldNow)'
    BY <1>14, <1>18 DEF Inv, Unique
  <1>23. BootsAgree'
    <2>1. HighestBoot' = HighestBoot
      BY <1>2, <1>12 DEF HighestBoot, Booted
    <2>2. ram.boot <= ram.boot
      BY <1>3, Big DEF BootNo
    <2> QED BY <1>8, <1>11, <1>12, <1>14, <2>1, <2>2 DEF Inv, BootsAgree
  <1>24. Control'
    <2>1. HeldNow' = {} \/ cpu.op # "restore"
      BY <1>2 DEF Inv, Control, At
    <2> QED BY <1>2, <1>11, <1>12, <2>1 DEF Inv, Control, At, Ops, Calls
  <1>25. NewestHeld' /\ Packing' /\ Sorting'
    BY <1>12, WorkPc
  <1>26. ASSUME Valid(x)
         PROVE  /\ v \in Slots
                /\ Near(HeldNow', Lost, x.seq)
                /\ Ring(en, v, Left + 1, x.seq)
    <2>1. v \in Slots
      BY <1>3, BehindIs DEF v
    <2>2. \A i \in Valids(ram.entry) :
            /\ Steps(top, ram.entry[i].seq) \in Nat
            /\ Steps(x.seq, ram.entry[i].seq)
                 = Steps(top, ram.entry[i].seq) + 1
      BY <1>15, <1>17, <1>18
    <2>3. Ring(en, v, Left + 1, x.seq)
      BY <1>3, <1>4, <1>5, <1>6, <1>7, <1>8, <1>26, <2>2, RingGrows
         DEF en, v
    <2> QED BY <1>14, <1>18, <1>26, <2>1, <2>3
  <1>27. Calm'
    <2>1. CASE Valid(x)
      <3>1. \A i \in Valids(en) : en[i].seq \in Numbers
        <4>1. \A i \in Valids(en) : i \in Slots /\ Valid(en[i])
          BY ValidsIs
        <4>2. \A i \in Valids(en) : en[i] \in HeldNow'
          BY <1>13, <4>1, AmongIs
        <4> QED BY <1>7, <1>8, <1>14, <1>16, <4>2
      <3>2. Left + 1 \in Nat /\ v \in 0 .. Depth
        BY <1>6, <1>26, <2>1, Big DEF Slots
      <3>3. Split(en, v, x.seq)
        BY <1>7, <1>8, <1>10, <1>26, <2>1, <3>1, <3>2, RingSplit DEF en
      <3> QED BY <1>2, <1>7, <1>8, <1>11, <1>26, <2>1, <3>2, <3>3, LostSame
             DEF Calm
    <2>2. CASE ~Valid(x)
      <3>1. Left \in Nat /\ w \in 0 .. Depth
        BY <1>3, <1>6, Big DEF Slots
      <3>2. Split(ram.entry, w, top)
        BY <1>3, <1>5, <1>15, <3>1, RingSplit
      <3>3. \A i \in Valids(en) :
              i \in Valids(ram.entry) /\ en[i] = ram.entry[i]
        BY <1>10, <2>2, ValidsIs
      <3>4. Split(en, w, top)
        BY <3>2, <3>3, SplitSubset
      <3> QED BY <1>2, <1>5, <1>11, <1>14, <2>2, <3>1, <3>4, LostSame DEF Calm
    <2> QED BY <2>1, <2>2
  <1>28. Appending'
    <2>1. \/ HeaderFits((ram.write + 1) % Depth, Left + 1,
                        NextSequence(ram.next))'
          \/ (ram.entry[ram.write].st = "committed"
              /\ ~Valid(ram.entry[ram.write]))'
      <3>1. CASE Valid(x)
        <4>1. Left + 1 # 0
          BY <1>6
        <4>2. HeaderFits((ram.write + 1) % Depth, Left + 1,
                         NextSequence(ram.next))'
          BY <1>2, <1>7, <1>8, <1>11, <1>13, <1>26, <3>1, <4>1, LostSame
             DEF HeaderFits, v
        <4> QED BY <4>2
      <3>2. CASE ~Valid(x)
        BY <1>8, <1>10, <1>11, <3>2
      <3> QED BY <3>1, <3>2
    <2> QED BY <1>7, <1>11, <1>12, <1>13, <2>1 DEF Appending, At, Ops, Calls
  <1>29. \/ cpu.event \notin Known /\ HeldNow' = HeldNow
         \/ /\ cpu.event \in Known
            /\ \E y : /\ Appended(y) /\ y.event = cpu.event
                      /\ HeldNow' = HeldNow \cup {y}
    BY <1>8, <1>14, <1>20
  <1> QED BY <1>21, <1>22, <1>23, <1>24, <1>25, <1>27, <1>28, <1>29 DEF Inv

(* The header follows the record.                                          *)
LEMMA BumpKeeps ==
  ASSUME Inv, Bump
  PROVE  Inv' /\ HeldNow' = HeldNow
  <1> DEFINE w == (ram.write + 1) % Depth
             c == IF ~cpu.replacing /\ ram.count < Depth THEN ram.count + 1
                  ELSE ram.count
             nx == NextSequence(IF ram.next = 0 THEN 1 ELSE ram.next)
  <1>1. Types
    BY DEF Inv
  <1>2. /\ At("bump") /\ cpu' = Resting /\ cpu.key = Zero /\ ram.magic
        /\ ram' = [ram EXCEPT !.write = w, !.count = c, !.next = nx]
        /\ life' = [life EXCEPT !.booting = FALSE]
    BY DEF Bump, Inv, Control, At
  <1>3. /\ Room /\ ram.next \in Numbers
        /\ \/ HeaderFits(w, Left + 1, NextSequence(ram.next))
           \/ /\ ram.entry[ram.write].st = "committed"
              /\ ~Valid(ram.entry[ram.write])
    BY <1>2 DEF Inv, Appending
  <1>4. /\ w \in Slots /\ c \in 0 .. Depth /\ c = Left + 1
        /\ nx = NextSequence(ram.next) /\ nx \in Numbers
        /\ nx \in 0 .. Modulus - 1
    <2>1. w \in Slots
      BY <1>1, StateFields, BehindIs
    <2>2. c \in 0 .. Depth /\ c = Left + 1
      BY <1>1, <1>3, StateFields, Big DEF Left, Room
    <2>3. nx = NextSequence(ram.next)
      BY <1>3, Big DEF Numbers
    <2>4. NextSequence(ram.next) \in Numbers
      BY <1>3, NextIs
    <2>5. nx \in 0 .. Modulus - 1
      BY <2>3, <2>4, Big DEF Numbers
    <2> QED BY <2>1, <2>2, <2>3, <2>4, <2>5
  <1> HIDE DEF w, c, nx
  <1>5. /\ ram' \in RamType /\ ram'.entry = ram.entry /\ ram'.magic = ram.magic
        /\ ram'.boot = ram.boot /\ ram'.write = w /\ ram'.count = c
        /\ ram'.next = nx
    BY <1>1, <1>2, <1>4, StateFields DEF RamType
  <1>6. /\ life' \in LifeType /\ ~life'.booting /\ life'.boots = life.boots
        /\ life'.damages = life.damages /\ life'.panic = life.panic
    BY <1>1, <1>2, StateFields DEF LifeType
  <1>7. /\ cpu' \in CpuType /\ cpu'.pc = "idle" /\ cpu'.op = "none"
        /\ cpu'.key = Zero /\ cpu'.boot = 0
    BY <1>2, CallIs DEF Calls, Events
  <1>8. HeldNow' = HeldNow
    BY <1>2, <1>5, <1>7 DEF HeldNow
  <1>9. Types' /\ Unique(HeldNow)'
    BY <1>1, <1>5, <1>6, <1>7, <1>8 DEF Types, Inv
  <1>10. BootsAgree'
    <2>1. HighestBoot' = life.boots + 1
      BY <1>6 DEF HighestBoot, Booted
    <2>2. ram.boot \in Nat /\ ram.boot <= HighestBoot
      BY <1>1, StateFields DEF Inv, BootsAgree, BootNo
    <2>3. ram.boot <= life.boots + 1 /\ 0 <= life.boots + 1
      BY <1>1, <2>2, HighestIs
    <2> QED BY <1>5, <1>7, <1>8, <2>1, <2>3 DEF Inv, BootsAgree
  <1>11. Control'
    BY <1>2, <1>5, <1>6, <1>7 DEF Inv, Control, At, Ops, Calls
  <1>12. Calm'
    BY <1>2, <1>5, <1>6, <1>7, <1>8, LostSame DEF Inv, Calm, At
  <1>13. Appending'
    <2> SUFFICES ASSUME (\A e \in Intact : Valid(e))'
                 PROVE  HeaderFits(ram.write, ram.count, ram.next)'
      BY <1>7 DEF Appending, At, Ops, Calls
    <2>1. \A i \in Slots : ram.entry[i].st = "committed" => Valid(ram.entry[i])
      BY <1>5 DEF Intact
    <2>2. ram.write \in Slots
      BY <1>1, StateFields
    <2>3. HeaderFits(w, Left + 1, NextSequence(ram.next))
      BY <1>3, <2>1, <2>2
    <2>4. HeaderFits(w, c, nx)
      BY <1>4, <2>3
    <2> QED BY <1>5, <1>6, <1>8, <2>4, LostSame DEF HeaderFits
  <1>14. NewestHeld' /\ Packing' /\ Sorting'
    BY <1>7, QuietPc
  <1> QED BY <1>8, <1>9, <1>10, <1>11, <1>12, <1>13, <1>14 DEF Inv

(* A snapshot changes nothing.                                             *)
LEMMA SnapshotKeeps ==
  ASSUME Inv, Snapshot
  PROVE  Inv' /\ HeldNow' = HeldNow
  <1>1. Types
    BY DEF Inv
  <1>2. /\ At("snapshot") /\ cpu' = Resting /\ cpu.key = Zero /\ ram.magic
        /\ ram' = ram /\ life' = life /\ cpu.op = "snapshot" /\ ~life.booting
    BY DEF Snapshot, Inv, Control, At, Ops, Calls
  <1>3. /\ cpu' \in CpuType /\ cpu'.pc = "idle" /\ cpu'.op = "none"
        /\ cpu'.key = Zero /\ cpu'.boot = 0
    BY <1>2, CallIs DEF Calls, Events
  <1>4. HeldNow' = HeldNow
    BY <1>2, <1>3 DEF HeldNow
  <1>5. Types' /\ Unique(HeldNow)'
    BY <1>1, <1>2, <1>3, <1>4 DEF Types, Inv
  <1>6. BootsAgree'
    <2>1. HighestBoot' = HighestBoot
      BY <1>2, <1>3 DEF HighestBoot, Booted
    <2> QED BY <1>1, <1>2, <1>3, <1>4, <2>1, HighestIs, Big
            DEF Inv, BootsAgree, BootNo
  <1>7. Control'
    BY <1>2, <1>3, <1>4 DEF Inv, Control, At, Ops, Calls
  <1>8. Calm'
    BY <1>2, <1>3, <1>4, LostSame DEF Inv, Calm, At
  <1>9. Appending'
    <2>1. HeaderFits(ram.write, ram.count, ram.next)
      BY <1>2 DEF Inv, Appending, At, Ops, Calls
    <2>2. HeaderFits(ram.write, ram.count, ram.next)'
      BY <1>2, <1>4, <2>1, LostSame DEF HeaderFits
    <2> QED BY <1>3, <2>2 DEF Appending, At, Ops, Calls
  <1>10. NewestHeld' /\ Packing' /\ Sorting'
    BY <1>3, QuietPc
  <1> QED BY <1>4, <1>5, <1>6, <1>7, <1>8, <1>9, <1>10 DEF Inv

(* The service command erases the log, the boot number excepted.           *)
LEMMA ClearKeeps ==
  ASSUME Inv, Clear
  PROVE  Inv' /\ HeldNow' = {}
  <1>1. Types
    BY DEF Inv
  <1>2. /\ At("clear") /\ ram' = Erased /\ life' = life
        /\ cpu' = [cpu EXCEPT !.pc = "stamp", !.op = "restore",
                              !.boot = ram.boot]
        /\ cpu.key = Zero /\ cpu.op = "clear" /\ ~life.booting
    BY DEF Clear, Inv, Control, At, Ops, Calls
  <1>3. /\ cpu'.pc = "stamp" /\ cpu'.op = "restore" /\ cpu'.key = Zero
        /\ cpu'.boot = ram.boot
    BY <1>1, <1>2, StateFields DEF CpuType
  <1>4. cpu' \in CpuType
    <2>1. "stamp" \in Pcs /\ "restore" \in Ops
      BY DEF Pcs, Ops
    <2> QED BY <1>1, <1>2, <2>1, StateFields DEF CpuType
  <1>5. HeldNow' = {}
    BY <1>2, <1>3, ErasedIs, BlankRing, OneIs DEF HeldNow
  <1>6. Types'
    BY <1>1, <1>2, <1>4, <1>5, ErasedIs DEF Types
  <1>7. BootsAgree'
    <2>1. HighestBoot' = HighestBoot
      BY <1>2, <1>3 DEF HighestBoot, Booted
    <2> QED BY <1>1, <1>2, <1>3, <1>5, <2>1, ErasedIs, HighestIs, Big
            DEF Inv, BootsAgree, BootNo
  <1>8. Control'
    BY <1>2, <1>3, <1>5, ErasedIs DEF Inv, Control, At, Ops, Calls
  <1>9. Calm'
    <2>1. /\ Near({}, Lost, 1) /\ Split(Erased.entry, 0, 1)
          /\ 0 \in 0 .. Depth
      BY ErasedIs, BlankRing, OneIs, Big
    <2> QED BY <1>2, <1>5, <2>1, OneIs, LostSame DEF Calm
  <1>10. Unique(HeldNow)' /\ NewestHeld' /\ Packing' /\ Sorting' /\ Appending'
    BY <1>3, <1>5, QuietPc, RecoveryPc DEF Unique
  <1> QED BY <1>5, <1>6, <1>7, <1>8, <1>9, <1>10 DEF Inv

(* The boot number comes back.                                             *)
LEMMA RestoreKeeps ==
  ASSUME Inv, Restore
  PROVE  Inv' /\ HeldNow' = HeldNow
  <1>1. Types
    BY DEF Inv
  <1>2. /\ At("restore") /\ cpu' = Resting /\ cpu.key = Zero /\ ram.magic
        /\ ram' = [ram EXCEPT !.boot = cpu.boot] /\ life' = life
        /\ cpu.op = "restore" /\ ~life.booting /\ HeldNow = {}
    BY DEF Restore, Inv, Control, At, Ops, Calls
  <1>3. /\ cpu' \in CpuType /\ cpu'.pc = "idle" /\ cpu'.op = "none"
        /\ cpu'.key = Zero /\ cpu'.boot = 0
    BY <1>2, CallIs DEF Calls, Events
  <1>4. /\ ram' \in RamType /\ ram'.entry = ram.entry /\ ram'.magic = ram.magic
        /\ ram'.boot = cpu.boot /\ ram'.write = ram.write
        /\ ram'.count = ram.count /\ ram'.next = ram.next
    BY <1>1, <1>2, StateFields DEF RamType
  <1>5. HeldNow' = HeldNow
    BY <1>2, <1>3, <1>4 DEF HeldNow
  <1>6. Types' /\ Unique(HeldNow)'
    BY <1>1, <1>2, <1>3, <1>4, <1>5 DEF Types, Inv
  <1>7. BootsAgree'
    <2>1. HighestBoot' = HighestBoot
      BY <1>2, <1>3 DEF HighestBoot, Booted
    <2> QED BY <1>1, <1>2, <1>3, <1>4, <1>5, <2>1, HighestIs, Big
            DEF Inv, BootsAgree, BootNo
  <1>8. Control'
    BY <1>2, <1>3, <1>4, <1>5 DEF Inv, Control, At, Ops, Calls
  <1>9. Calm'
    BY <1>2, <1>3, <1>4, <1>5, LostSame DEF Inv, Calm, At
  <1>10. Appending'
    <2>1. HeaderFits(ram.write, ram.count, ram.next)
      BY <1>2 DEF Inv, Appending, At, Ops, Calls
    <2>2. HeaderFits(ram.write, ram.count, ram.next)'
      BY <1>2, <1>4, <1>5, <2>1, LostSame DEF HeaderFits
    <2> QED BY <1>3, <2>2 DEF Appending, At, Ops, Calls
  <1>11. NewestHeld' /\ Packing' /\ Sorting'
    BY <1>3, QuietPc
  <1> QED BY <1>5, <1>6, <1>7, <1>8, <1>9, <1>10, <1>11 DEF Inv

(* The boot number is raised before the reset cause is logged.             *)
LEMMA BootKeeps ==
  ASSUME Inv, Boot
  PROVE  Inv' /\ HeldNow' = HeldNow
  <1> DEFINE b == NextSequence(ram.boot)
  <1>1. Types
    BY DEF Inv
  <1>2. /\ At("boot") /\ life' = life /\ cpu.key = Zero /\ ram.magic
        /\ ram' = [ram EXCEPT !.boot = b]
        /\ cpu.op = "boot" /\ life.booting
    BY DEF Boot, Inv, Control, At, Ops, Calls
  <1>3. PICK e \in Known : cpu' = Call("append", e)
    BY DEF Boot
  <1>4. /\ cpu' \in CpuType /\ cpu'.pc = "scan" /\ cpu'.op = "append"
        /\ cpu'.read = 0 /\ cpu'.packed = 0 /\ cpu'.key = Zero /\ cpu'.boot = 0
        /\ cpu'.dirty = FALSE
    <2>1. "append" \in Calls /\ e \in Events
      BY DEF Calls, Events
    <2> QED BY <1>3, <2>1, CallIs
  <1>5. /\ ram.boot \in Nat /\ ram.boot <= life.boots
        /\ life.boots \in Nat /\ life.boots <= MaxBoots
    <2>1. HighestBoot = life.boots
      BY <1>1, <1>2, HighestIs DEF Booted
    <2> QED BY <1>1, <2>1, StateFields, Big DEF Inv, BootsAgree, BootNo
  <1>6. b \in Nat /\ b <= life.boots + 1 /\ ram.boot <= b /\ b \in BootNo
    BY <1>5, BootRaised, Big DEF BootNo
  <1> HIDE DEF b
  <1>7. /\ ram' \in RamType /\ ram'.entry = ram.entry /\ ram'.magic = ram.magic
        /\ ram'.boot = b
    BY <1>1, <1>2, <1>6, StateFields DEF RamType
  <1>8. HeldNow' = HeldNow
    BY <1>2, <1>4, <1>7 DEF HeldNow
  <1>9. Types' /\ Unique(HeldNow)'
    BY <1>1, <1>2, <1>4, <1>7, <1>8 DEF Types, Inv
  <1>10. BootsAgree'
    <2>1. HighestBoot' = life.boots + 1
      BY <1>2, <1>4 DEF HighestBoot, Booted
    <2>2. \A f \in HeldNow : f.boot <= b
      <3> SUFFICES ASSUME NEW f \in HeldNow PROVE f.boot <= b
        OBVIOUS
      <3>1. f.boot <= ram.boot
        BY DEF Inv, BootsAgree
      <3>2. f.boot \in BootNo
        BY <1>1, HeldFacts
      <3> QED BY <1>5, <1>6, <3>1, <3>2, Big DEF BootNo
    <2> QED BY <1>4, <1>5, <1>6, <1>7, <1>8, <2>1, <2>2 DEF BootsAgree
  <1>11. Control'
    BY <1>2, <1>4, <1>7 DEF Inv, Control, At, Ops, Calls
  <1>12. Calm'
    BY <1>2, <1>4, <1>7, <1>8, LostSame DEF Inv, Calm, At
  <1>13. NewestHeld' /\ Packing' /\ Sorting' /\ Appending'
    BY <1>4, QuietPc, RecoveryPc
  <1> QED BY <1>8, <1>9, <1>10, <1>11, <1>12, <1>13 DEF Inv

-----------------------------------------------------------------------------
(* Calls cut short.                                                        *)

(* Memory r is q without what slot i held.                                 *)
Blanked(q, r, i) ==
  /\ r \in RamType /\ r.magic = q.magic /\ r.boot = q.boot
  /\ ~Valid(r.entry[i])
  /\ \A j \in Slots : j # i => r.entry[j] = q.entry[j]
  /\ \A j \in Valids(r.entry) :
       j \in Valids(q.entry) /\ r.entry[j] = q.entry[j]

(* Nothing else of it changes.                                             *)
LEMMA TearIs ==
  ASSUME NEW q \in RamType, NEW i \in Slots, NEW e \in {Zero, Torn}
  PROVE  Blanked(q, Tearing(q, i, e), i)
  <1> DEFINE r == Tearing(q, i, e)
  <1>1. q.entry \in Entries
    BY DEF RamType
  <1>2. e \in Entry /\ ~Valid(e)
    BY BlankEntries
  <1>3. [q.entry EXCEPT ![i] = e] \in Entries
    BY <1>1, <1>2 DEF Entries
  <1>4. /\ r.entry = [q.entry EXCEPT ![i] = e]
        /\ r.magic = q.magic /\ r.boot = q.boot
    BY DEF RamType, Tearing
  <1>5. r \in RamType
    BY <1>3 DEF RamType, Tearing
  <1> HIDE DEF r
  <1>6. /\ r.entry[i] = e
        /\ \A j \in Slots : j # i => r.entry[j] = q.entry[j]
    BY <1>1, <1>4 DEF Entries
  <1>7. \A j \in Valids(r.entry) :
          j \in Valids(q.entry) /\ r.entry[j] = q.entry[j]
    BY <1>2, <1>6 DEF Valids
  <1>8. Blanked(q, r, i)
    BY <1>2, <1>4, <1>5, <1>6, <1>7 DEF Blanked
  <1> QED BY <1>8 DEF r

(* The records A are what a call cut short leaves: all, but for the one    *)
(* the sort has in its local.                                              *)
Survive(A) ==
  /\ A \subseteq HeldNow /\ HeldNow \subseteq A \cup {cpu.key}
  /\ ~At("shift") => A = HeldNow

(* A call cut short takes no record with it but the one the sort has in a  *)
(* local.                                                                  *)
LEMMA CutFacts ==
  ASSUME Inv, NEW r \in Cut
  PROVE  /\ r \in RamType /\ r.magic = ram.magic /\ r.boot = ram.boot
         /\ Survive(Among(r.entry, Zero))
         /\ \A i \in Valids(r.entry) :
              i \in Valids(ram.entry) /\ r.entry[i] = ram.entry[i]
  <1>1. Types
    BY DEF Inv
  <1>2. ram \in RamType /\ ~Valid(Zero) /\ (~At("shift") => cpu.key = Zero)
    BY <1>1, BlankEntries DEF Types, Inv, Control
  <1>3. CASE r = ram
    <2>1. Survive(Among(ram.entry, Zero))
      <3>1. ASSUME NEW e \in Among(ram.entry, Zero) PROVE e \in HeldNow
        BY <1>2, <3>1 DEF HeldNow, Among
      <3>2. ASSUME NEW e \in HeldNow
            PROVE  e \in Among(ram.entry, Zero) \cup {cpu.key}
        BY DEF HeldNow, Among
      <3>3. ~At("shift") => Among(ram.entry, Zero) = HeldNow
        BY <1>2 DEF HeldNow
      <3> QED BY <3>1, <3>2, <3>3 DEF Survive
    <2> QED BY <1>2, <1>3, <2>1
  <1>4. CASE Copying /\ r \in Tear(cpu.packed, {Zero, Torn})
    <2>1. PICK e \in {Zero, Torn} : r = Tearing(ram, cpu.packed, e)
      BY <1>4 DEF Tear
    <2>2. /\ cpu.packed \in Slots /\ cpu.read \in Slots
          /\ ~Valid(ram.entry[cpu.packed])
      <3>1. At("pack") /\ cpu.read \in Slots /\ cpu.read # cpu.packed
        BY <1>4 DEF Copying, ValidSlots
      <3>2. cpu.packed \in 0 .. Depth /\ cpu.packed <= cpu.read
        BY <1>1, <3>1, StateFields DEF Inv, Packing
      <3>3. cpu.packed < cpu.read /\ cpu.packed \in Slots
        BY <3>1, <3>2, Big DEF Slots
      <3>4. \A i \in Slots :
              cpu.packed <= i /\ i < cpu.read => ~Valid(ram.entry[i])
        BY <3>1 DEF Inv, Packing
      <3> QED BY <3>1, <3>3, <3>4, Big DEF Slots
    <2>3. /\ r \in RamType /\ r.magic = ram.magic /\ r.boot = ram.boot
          /\ ~Valid(r.entry[cpu.packed])
          /\ \A j \in Slots : j # cpu.packed => r.entry[j] = ram.entry[j]
          /\ \A j \in Valids(r.entry) :
               j \in Valids(ram.entry) /\ r.entry[j] = ram.entry[j]
      <3>1. /\ ram \in RamType /\ cpu.packed \in Slots /\ e \in {Zero, Torn}
        BY <1>2, <2>2
      <3>2. Blanked(ram, Tearing(ram, cpu.packed, e), cpu.packed)
        BY <3>1, TearIs
      <3> QED BY <2>1, <3>2 DEF Blanked
    <2>4. /\ \A i \in Slots : Valid(ram.entry[i]) => r.entry[i] = ram.entry[i]
          /\ \A i \in Slots : Valid(r.entry[i]) => ram.entry[i] = r.entry[i]
      BY <2>2, <2>3
    <2>5. Among(r.entry, Zero) = Among(ram.entry, Zero)
      BY <1>2, <2>4, AmongKept
    <2>6. cpu.key = Zero
      BY <1>2, <1>4 DEF Copying, At
    <2> QED BY <2>3, <2>5, <2>6 DEF HeldNow, Survive
  <1>5. CASE At("clean") /\ r \in Tear(cpu.read, {Torn})
    <2>1. r = Tearing(ram, cpu.read, Torn)
      BY <1>5 DEF Tear
    <2>2. /\ cpu.packed \in Slots /\ cpu.read \in Slots
          /\ cpu.packed # cpu.read
          /\ ram.entry[cpu.packed] = ram.entry[cpu.read]
      <3>1. /\ cpu.packed < cpu.read /\ cpu.read < Depth
            /\ ram.entry[cpu.packed] = ram.entry[cpu.read]
        BY <1>5 DEF Inv, Packing
      <3>2. cpu.packed \in 0 .. Depth /\ cpu.read \in 0 .. Depth
        BY <1>1, StateFields
      <3> QED BY <3>1, <3>2, Big DEF Slots
    <2>3. /\ r \in RamType /\ r.magic = ram.magic /\ r.boot = ram.boot
          /\ ~Valid(r.entry[cpu.read])
          /\ \A j \in Slots : j # cpu.read => r.entry[j] = ram.entry[j]
          /\ \A j \in Valids(r.entry) :
               j \in Valids(ram.entry) /\ r.entry[j] = ram.entry[j]
      <3>1. /\ ram \in RamType /\ cpu.read \in Slots /\ Torn \in {Zero, Torn}
        BY <1>2, <2>2
      <3>2. Blanked(ram, Tearing(ram, cpu.read, Torn), cpu.read)
        BY <3>1, TearIs
      <3> QED BY <2>1, <3>2 DEF Blanked
    <2>4. r.entry[cpu.packed] = ram.entry[cpu.read]
      BY <2>2, <2>3
    <2>5. /\ \A i \in Slots : Valid(ram.entry[i]) =>
                \E j \in Slots : r.entry[j] = ram.entry[i]
          /\ \A i \in Slots : Valid(r.entry[i]) => ram.entry[i] = r.entry[i]
      BY <2>2, <2>3, <2>4
    <2>6. Among(r.entry, Zero) = Among(ram.entry, Zero)
      BY <1>2, <2>5, AmongKept
    <2>7. cpu.key = Zero
      BY <1>2, <1>5 DEF At
    <2> QED BY <2>3, <2>6, <2>7 DEF HeldNow, Survive
  <1>6. CASE At("shift") /\ r \in Tear(cpu.read, {Torn})
    <2>1. r = Tearing(ram, cpu.read, Torn)
      BY <1>6 DEF Tear
    <2>2. /\ cpu.read \in Slots
          /\ \/ ram.entry[cpu.read] = cpu.key
             \/ /\ cpu.read + 1 \in Slots
                /\ ram.entry[cpu.read] = ram.entry[cpu.read + 1]
      <3>1. /\ cpu.read <= cpu.index /\ cpu.index < cpu.packed
            /\ ram.entry[cpu.read] = IF cpu.read = cpu.index THEN cpu.key
                                     ELSE ram.entry[cpu.read + 1]
        BY <1>6 DEF Inv, Sorting
      <3>2. /\ cpu.read \in 0 .. Depth /\ cpu.index \in 0 .. Depth
            /\ cpu.packed \in 0 .. Depth
        BY <1>1, StateFields
      <3> QED BY <3>1, <3>2, Big DEF Slots
    <2>3. /\ r \in RamType /\ r.magic = ram.magic /\ r.boot = ram.boot
          /\ ~Valid(r.entry[cpu.read])
          /\ \A j \in Slots : j # cpu.read => r.entry[j] = ram.entry[j]
          /\ \A j \in Valids(r.entry) :
               j \in Valids(ram.entry) /\ r.entry[j] = ram.entry[j]
      <3>1. /\ ram \in RamType /\ cpu.read \in Slots /\ Torn \in {Zero, Torn}
        BY <1>2, <2>2
      <3>2. Blanked(ram, Tearing(ram, cpu.read, Torn), cpu.read)
        BY <3>1, TearIs
      <3> QED BY <2>1, <3>2 DEF Blanked
    <2>4. ASSUME NEW e \in Among(r.entry, Zero) PROVE e \in HeldNow
      <3>1. PICK j \in Slots : Valid(e) /\ e = r.entry[j]
        BY <1>2, AmongIs
      <3>2. j # cpu.read
        BY <2>3, <3>1
      <3> QED BY <2>3, <3>1, <3>2, AmongIs DEF HeldNow
    <2>5. ASSUME NEW e \in HeldNow
          PROVE  e \in Among(r.entry, Zero) \cup {cpu.key}
      <3> SUFFICES ASSUME e # cpu.key PROVE e \in Among(r.entry, Zero)
        OBVIOUS
      <3>1. PICK j \in Slots : Valid(e) /\ e = ram.entry[j]
        BY AmongIs DEF HeldNow
      <3>2. CASE j # cpu.read
        BY <2>3, <3>1, <3>2, AmongIs
      <3>3. CASE j = cpu.read
        <4>1. /\ cpu.read + 1 \in Slots
              /\ ram.entry[cpu.read] = ram.entry[cpu.read + 1]
          BY <2>2, <3>1, <3>3
        <4>2. cpu.read + 1 # cpu.read
          BY <2>2, Big DEF Slots
        <4>3. r.entry[cpu.read + 1] = e
          BY <2>3, <3>1, <3>3, <4>1, <4>2
        <4> QED BY <3>1, <4>1, <4>3, AmongIs
      <3> QED BY <3>2, <3>3
    <2> QED BY <1>6, <2>3, <2>4, <2>5 DEF Survive
  <1>7. ~(At("commit") /\ ram.entry[ram.write].st = "committed")
    BY BlankEntries DEF Inv, Appending
  <1> QED BY <1>3, <1>4, <1>5, <1>6, <1>7 DEF Cut

(* What it leaves is still the last numbers, one more missing at most.     *)
LEMMA SurviveNear ==
  ASSUME Inv, NEW A, Survive(A), NEW top \in Numbers,
         Near(HeldNow, Lost, top)
  PROVE  /\ Near(A, Lost + 1, top) /\ \A e \in A : e.seq \in Numbers
         /\ IsFiniteSet(SeqsOf(A))
  <1>1. /\ \A e \in HeldNow : e.seq \in Numbers
        /\ IsFiniteSet(SeqsOf(HeldNow)) /\ Lost \in Nat
    BY HeldFacts, StateFields DEF Inv
  <1>2. A \subseteq HeldNow /\ HeldNow \subseteq A \cup {cpu.key}
    BY DEF Survive
  <1>3. Near(A, Lost + 1, top)
    BY <1>1, <1>2, NearDamaged
  <1>4. SeqsOf(A) \subseteq SeqsOf(HeldNow)
    BY <1>2 DEF SeqsOf
  <1> QED BY <1>1, <1>2, <1>3, <1>4, FS_Subset

(* A panic logs from its own context, whatever was under way.              *)
LEMMA PanicKeeps ==
  ASSUME Inv, Panic
  PROVE  /\ Inv' /\ Survive(HeldNow') /\ ram'.magic = ram.magic
         /\ life'.damages = life.damages /\ Cuts' > Cuts
  <1>1. Types
    BY DEF Inv
  <1>2. /\ ~life.panic /\ life' = [life EXCEPT !.panic = TRUE]
        /\ life.boots \in 0 .. MaxBoots /\ Lost \in Nat
    BY <1>1, StateFields DEF Panic
  <1>3. PICK r \in Cut : ram' = r
    BY DEF Panic
  <1>4. PICK e \in Known : cpu' = Call("append", e)
    BY DEF Panic
  <1>5. /\ r \in RamType /\ r.magic = ram.magic /\ r.boot = ram.boot
        /\ Survive(Among(r.entry, Zero))
        /\ \A i \in Valids(r.entry) :
             i \in Valids(ram.entry) /\ r.entry[i] = ram.entry[i]
    BY CutFacts
  <1>6. /\ cpu' \in CpuType /\ cpu'.pc = "scan" /\ cpu'.op = "append"
        /\ cpu'.read = 0 /\ cpu'.packed = 0 /\ cpu'.key = Zero /\ cpu'.boot = 0
        /\ cpu'.dirty = FALSE
    <2>1. "append" \in Calls /\ e \in Events
      BY DEF Calls, Events
    <2> QED BY <1>4, <2>1, CallIs
  <1>7. /\ life' \in LifeType /\ life'.booting = life.booting
        /\ life'.boots = life.boots /\ life'.damages = life.damages
        /\ Lost' = Lost + 1 /\ Cuts' > Cuts
    <2>1. /\ life' \in LifeType /\ life'.booting = life.booting /\ life'.panic
          /\ life'.boots = life.boots /\ life'.damages = life.damages
      BY <1>1, <1>2, StateFields DEF LifeType
    <2> QED BY <1>1, <1>2, <2>1, StateFields, Big DEF Lost, Cuts
  <1>8. HeldNow' = Among(r.entry, Zero) /\ Survive(HeldNow')
        /\ HeldNow' \subseteq HeldNow
    <2>1. HeldNow' = Among(r.entry, Zero)
      BY <1>3, <1>6 DEF HeldNow
    <2> QED BY <1>5, <2>1 DEF Survive
  <1>9. Types' /\ Unique(HeldNow)'
    BY <1>1, <1>3, <1>5, <1>6, <1>7, <1>8 DEF Types, Inv, Unique
  <1>10. BootsAgree'
    <2>1. HighestBoot' = life.boots + 1
      BY <1>6, <1>7 DEF HighestBoot, Booted
    <2>2. /\ ram.boot \in Nat /\ ram.boot <= HighestBoot
          /\ HighestBoot <= life.boots + 1 /\ 0 <= life.boots + 1
      BY <1>1, StateFields, HighestIs, Big DEF Inv, BootsAgree, BootNo
    <2>3. ram.boot <= life.boots + 1
      BY <1>1, <2>2, HighestIs, Big DEF BootNo
    <2> QED BY <1>3, <1>5, <1>6, <1>8, <2>1, <2>2, <2>3
            DEF Inv, BootsAgree
  <1>11. Control'
    BY <1>3, <1>5, <1>6, <1>8 DEF Inv, Control, At, Ops, Calls
  <1>12. Calm'
    <2>1. PICK top \in Numbers, c \in 0 .. Depth :
            Near(HeldNow, Lost, top) /\ Split(ram.entry, c, top)
      BY DEF Inv, Calm
    <2>2. Split(r.entry, c, top)
      BY <1>5, <2>1, SplitSubset
    <2>3. Near(Among(r.entry, Zero), Lost + 1, top)
      BY <1>5, <2>1, SurviveNear
    <2> QED BY <1>3, <1>7, <1>8, <2>1, <2>2, <2>3 DEF Calm
  <1>13. NewestHeld' /\ Packing' /\ Sorting' /\ Appending'
    BY <1>6, QuietPc, RecoveryPc
  <1>14. ram'.magic = ram.magic
    BY <1>3, <1>5
  <1> QED BY <1>7, <1>8, <1>9, <1>10, <1>11, <1>12, <1>13, <1>14 DEF Inv

(* What the memory may lose while the supply is away: one record, or the   *)
(* header.                                                                 *)
LEMMA DamagedIs ==
  ASSUME NEW r \in RamType, NEW s \in Damaged(r)
  PROVE  /\ s \in RamType /\ s.magic = r.magic /\ s.boot = r.boot
         /\ Among(s.entry, Zero) \subseteq Among(r.entry, Zero)
         /\ \E x : Among(r.entry, Zero) \subseteq Among(s.entry, Zero) \cup {x}
         /\ \A i \in Valids(s.entry) :
              i \in Valids(r.entry) /\ s.entry[i] = r.entry[i]
  <1>1. CASE \E i \in Slots, e \in {Zero, Torn} : s = Tearing(r, i, e)
    <2>1. PICK i \in Slots, e \in {Zero, Torn} : s = Tearing(r, i, e)
      BY <1>1
    <2>2. Blanked(r, Tearing(r, i, e), i)
      BY TearIs
    <2>3. Blanked(r, s, i)
      BY <2>1, <2>2
    <2>4. /\ s \in RamType /\ s.magic = r.magic /\ s.boot = r.boot
          /\ \A j \in Slots : j # i => s.entry[j] = r.entry[j]
          /\ \A j \in Valids(s.entry) :
               j \in Valids(r.entry) /\ s.entry[j] = r.entry[j]
      BY <2>3 DEF Blanked
    <2>5. ~Valid(Zero)
      BY BlankEntries
    <2>6. ASSUME NEW f \in Among(s.entry, Zero)
          PROVE  f \in Among(r.entry, Zero)
      <3>1. PICK j \in Slots : Valid(f) /\ f = s.entry[j]
        BY <2>5, AmongIs
      <3>2. j \in Valids(s.entry)
        BY <3>1, ValidsIs
      <3> QED BY <2>4, <3>1, <3>2, AmongIs
    <2>7. ASSUME NEW f \in Among(r.entry, Zero)
          PROVE  f \in Among(s.entry, Zero) \cup {r.entry[i]}
      <3>1. PICK j \in Slots : Valid(f) /\ f = r.entry[j]
        BY <2>5, AmongIs
      <3>2. j # i => s.entry[j] = f
        BY <2>4, <3>1
      <3>3. j # i => f \in Among(s.entry, Zero)
        BY <3>1, <3>2, AmongIs
      <3> QED BY <3>1, <3>3
    <2> QED BY <2>4, <2>6, <2>7
  <1>2. CASE \E w \in Slots :
               s = [r EXCEPT !.write = w, !.count = Depth, !.next = 0]
    <2>1. PICK w \in Slots :
            s = [r EXCEPT !.write = w, !.count = Depth, !.next = 0]
      BY <1>2
    <2>2. Depth \in 0 .. Depth /\ 0 \in 0 .. Modulus - 1
      BY Big
    <2>3. s \in RamType
      BY <2>1, <2>2 DEF RamType
    <2>4. s.entry = r.entry /\ s.magic = r.magic /\ s.boot = r.boot
      BY <2>1 DEF RamType
    <2> QED BY <2>3, <2>4
  <1>3. s \in RecordLost(r) =>
          \E i \in Slots, e \in {Zero, Torn} : s = Tearing(r, i, e)
    BY DEF RecordLost
  <1>4. s \in HeaderLost(r) =>
          \E w \in Slots :
            s = [r EXCEPT !.write = w, !.count = Depth, !.next = 0]
    BY DEF HeaderLost
  <1> QED BY <1>1, <1>2, <1>3, <1>4 DEF Damaged

(* A reset, of the hardware or the supply.                                 *)
LEMMA ResetKeeps ==
  ASSUME Inv, Reset
  PROVE  /\ Inv' /\ ram'.magic = ram.magic
         /\ \E A : /\ Survive(A) /\ HeldNow' \subseteq A
                   /\ \E x : A \subseteq HeldNow' \cup {x}
                   /\ life'.damages = life.damages => HeldNow' = A
         /\ life'.damages \in {life.damages, life.damages + 1}
         /\ Cuts' > Cuts
  <1>1. Types
    BY DEF Inv
  <1>2. life.boots < MaxBoots /\ cpu' = Resting
    BY DEF Reset
  <1>3. PICK lose \in BOOLEAN, r \in Cut :
          /\ lose => life.damages < MaxDamages
          /\ ram' \in IF lose THEN Damaged(r) ELSE {r}
          /\ life' = [boots |-> life.boots + 1, booting |-> TRUE,
                      panic |-> FALSE,
                      damages |-> life.damages + (IF lose THEN 1 ELSE 0)]
    BY DEF Reset
  <1>4. /\ r \in RamType /\ r.magic = ram.magic /\ r.boot = ram.boot
        /\ Survive(Among(r.entry, Zero))
        /\ \A i \in Valids(r.entry) :
             i \in Valids(ram.entry) /\ r.entry[i] = ram.entry[i]
    BY CutFacts
  <1> DEFINE A == Among(r.entry, Zero)
  <1>5. /\ ram' \in RamType /\ ram'.magic = ram.magic /\ ram'.boot = ram.boot
        /\ Among(ram'.entry, Zero) \subseteq A
        /\ \E x : A \subseteq Among(ram'.entry, Zero) \cup {x}
        /\ ~lose => Among(ram'.entry, Zero) = A
        /\ \A i \in Valids(ram'.entry) :
             i \in Valids(ram.entry) /\ ram'.entry[i] = ram.entry[i]
    <2>1. CASE ~lose
      <3>1. ram' = r
        BY <1>3, <2>1
      <3> QED BY <1>4, <2>1, <3>1
    <2>2. CASE lose
      <3>1. ram' \in Damaged(r)
        BY <1>3, <2>2
      <3> QED BY <1>4, <2>2, <3>1, DamagedIs
    <2> QED BY <2>1, <2>2
  <1>6. /\ cpu' \in CpuType /\ cpu'.pc = "idle" /\ cpu'.op = "none"
        /\ cpu'.key = Zero /\ cpu'.boot = 0
    BY <1>2, CallIs DEF Calls, Events
  <1>7. /\ life'.booting /\ life'.boots = life.boots + 1
        /\ life'.damages = life.damages + (IF lose THEN 1 ELSE 0)
        /\ life.damages \in Nat /\ life.boots \in Nat /\ ~life'.panic
        /\ life' \in LifeType
    BY <1>1, <1>2, <1>3, StateFields, Big DEF LifeType
  <1>8. /\ HeldNow' = Among(ram'.entry, Zero) /\ Survive(A)
        /\ HeldNow' \subseteq A /\ A \subseteq HeldNow
    BY <1>4, <1>5, <1>6 DEF HeldNow, Survive
  <1>17. /\ Lost \in Nat /\ Lost' \in Nat /\ Cuts' > Cuts
         /\ Lost' >= Lost + 1 + (IF lose THEN 1 ELSE 0)
    BY <1>7 DEF Lost, Cuts
  <1>9. Types' /\ Unique(HeldNow)'
    BY <1>1, <1>5, <1>6, <1>7, <1>8 DEF Types, Inv, Unique
  <1>10. BootsAgree'
    <2>1. HighestBoot' = life.boots + 1
      BY <1>1, <1>6, <1>7, HighestIs DEF HighestBoot, Booted
    <2>2. ram.boot \in Nat /\ ram.boot <= life.boots + 1 /\ 0 <= life.boots + 1
      BY <1>1, StateFields, HighestIs, Big DEF Inv, BootsAgree, BootNo
    <2> QED BY <1>5, <1>6, <1>8, <2>1, <2>2 DEF Inv, BootsAgree
  <1>11. Control'
    BY <1>5, <1>6, <1>7, <1>8 DEF Inv, Control, At, Ops, Calls
  <1>12. Calm'
    <2>1. PICK top \in Numbers, c \in 0 .. Depth :
            Near(HeldNow, Lost, top) /\ Split(ram.entry, c, top)
      BY DEF Inv, Calm
    <2>2. Split(ram'.entry, c, top)
      BY <1>5, <2>1, SplitSubset
    <2>3. /\ Near(A, Lost + 1, top) /\ \A e \in A : e.seq \in Numbers
          /\ IsFiniteSet(SeqsOf(A))
      BY <1>8, <2>1, SurviveNear
    <2>4. Near(HeldNow', Lost', top)
      <3> DEFINE R == HeldNow'
                 d == Lost'
      <3>1. d \in Nat /\ R \subseteq A /\ \A e \in R : e.seq \in Numbers
        BY <1>8, <1>17, <2>3
      <3>2. SeqsOf(R) \subseteq SeqsOf(A)
        BY <3>1 DEF SeqsOf
      <3>3. IsFiniteSet(SeqsOf(R))
        BY <2>3, <3>2, FS_Subset
      <3>4. CASE ~lose
        <4>1. R = A /\ Lost + 1 <= d /\ Lost + 1 \in Nat
          BY <1>5, <1>8, <1>17, <3>4
        <4> HIDE DEF R, d
        <4> QED BY <2>3, <3>1, <4>1, NearMore DEF R, d
      <3>5. CASE lose
        <4>1. PICK x : A \subseteq R \cup {x}
          BY <1>5, <1>8
        <4>2. Lost + 1 + 1 <= d /\ Lost + 1 \in Nat /\ Lost + 1 + 1 \in Nat
          BY <1>17, <3>5
        <4> HIDE DEF R, d, A
        <4>3. Near(R, Lost + 1 + 1, top)
          BY <2>3, <3>1, <4>1, <4>2, NearDamaged
        <4>4. Near(R, d, top)
          BY <3>1, <3>3, <4>2, <4>3, NearMore
        <4> QED BY <4>4 DEF R, d
      <3> QED BY <3>4, <3>5
    <2> QED BY <2>1, <2>2, <2>4 DEF Calm
  <1>13. NewestHeld' /\ Packing' /\ Sorting'
    BY <1>6, QuietPc
  <1>14. Appending'
    BY <1>6, <1>7 DEF Appending, At, Ops, Calls
  <1>15. Inv'
    BY <1>9, <1>10, <1>11, <1>12, <1>13, <1>14 DEF Inv
  <1>16. /\ life'.damages = life.damages => ~lose
         /\ life'.damages \in {life.damages, life.damages + 1}
    BY <1>7
  <1> QED BY <1>5, <1>8, <1>15, <1>16, <1>17

(* After power-on.                                                         *)
LEMMA InitKeeps ==
  ASSUME Init
  PROVE  Inv /\ ~ram.magic
  <1>1. /\ ~ram.magic /\ ram.write = 0 /\ ram.count = 0 /\ ram.boot = 0
        /\ ram.next = 0 /\ ram.entry = [i \in Slots |-> Torn]
        /\ ram = [magic |-> FALSE, write |-> 0, count |-> 0, boot |-> 0,
                  next |-> 0, entry |-> [i \in Slots |-> Torn]]
    BY DEF Init
  <1>2. /\ cpu = Resting /\ life.boots = 0 /\ life.booting /\ ~life.panic
        /\ life.damages = 0
        /\ life = [boots |-> 0, booting |-> TRUE, panic |-> FALSE,
                   damages |-> 0]
    BY DEF Init
  <1>3. /\ cpu \in CpuType /\ cpu.pc = "idle" /\ cpu.op = "none"
        /\ cpu.key = Zero /\ cpu.boot = 0
    BY <1>2, CallIs DEF Calls, Events
  <1>4. \A i \in Slots : ram.entry[i] = Torn
    BY <1>1
  <1>5. HeldNow = {} /\ Valids(ram.entry) = {}
    BY <1>3, <1>4, BlankEntries DEF HeldNow, Among, Valids
  <1>6. ram \in RamType
    <2>1. [i \in Slots |-> Torn] \in Entries
      BY BlankEntries DEF Entries
    <2>2. 0 \in Slots /\ 0 \in 0 .. Depth /\ 0 \in BootNo
          /\ 0 \in 0 .. Modulus - 1
      BY Big DEF Slots, BootNo
    <2> QED BY <1>1, <2>1, <2>2 DEF RamType
  <1>7. life \in LifeType
    BY <1>2, Big DEF LifeType
  <1>8. Types /\ Unique(HeldNow)
    BY <1>3, <1>5, <1>6, <1>7 DEF Types, Unique
  <1>9. BootsAgree
    <2>1. HighestBoot = 0
      BY <1>2, <1>3 DEF HighestBoot, Booted
    <2> QED BY <1>1, <1>3, <1>5, <2>1 DEF BootsAgree
  <1>10. Control
    BY <1>1, <1>2, <1>3, <1>5 DEF Control, At, Ops, Calls
  <1>11. Calm
    <2>1. /\ Near({}, Lost, 1) /\ Split(ram.entry, 0, 1)
          /\ 0 \in 0 .. Depth /\ 1 \in Numbers
      BY <1>5, OneIs, Big DEF Near, Split
    <2> QED BY <1>5, <2>1 DEF Calm
  <1>12. NewestHeld /\ Packing /\ Sorting
    BY <1>3 DEF NewestHeld, Packing, Sorting, At, Newer
  <1>13. Appending
    BY <1>2, <1>3 DEF Appending, At, Ops, Calls
  <1> QED BY <1>1, <1>8, <1>9, <1>10, <1>11, <1>12, <1>13 DEF Inv

-----------------------------------------------------------------------------
(* The journal as the ring holds it.                                       *)

(* A set of entries as a reader sees it.                                   *)
Records(R) == {Record(e) : e \in R}

(* What a reader sees of a record, field by field.                         *)
LEMMA RecordFields ==
  ASSUME NEW e
  PROVE  /\ Record(e).seq = e.seq /\ Record(e).event = e.event
         /\ Record(e).boot = e.boot
  BY DEF Record

(* The records of a set of entries, with their numbers.                    *)
LEMMA RecordsHas ==
  ASSUME NEW R, NEW r
  PROVE  r \in Records(R) <=> \E e \in R : r = Record(e) /\ r.seq = e.seq
  BY DEF Records, Record

(* Records of distinct numbers, close enough to the last one given, are in *)
(* the window the code's comparison needs.                                 *)
LEMMA RecordsIn ==
  ASSUME NEW R, NEW d \in 0 .. MaxLost, NEW top \in Numbers,
         Near(R, d, top), IsFiniteSet(R),
         Cardinality(SeqsOf(R)) \in 0 .. Depth,
         \A e \in R : e.seq \in Numbers, Unique(R)
  PROVE  InWindow(Records(R), top)
  <1> DEFINE S == Records(R)
  <1>1. IsFiniteSet(S)
    <2> DEFINE f == [e \in R |-> Record(e)]
    <2>1. f \in Surjection(R, S)
      BY DEF Surjection, Records
    <2> HIDE DEF f, S
    <2> QED BY <2>1, FS_Surjection
  <1>2. ASSUME NEW r \in S
        PROVE  /\ r.seq \in Numbers
               /\ Steps(top, r.seq) < Depth + MaxLost
    <2>1. PICK e \in R : r = Record(e) /\ r.seq = e.seq
      BY RecordsHas
    <2>2. Steps(top, e.seq) < Depth + MaxLost
      BY NearWithin
    <2> QED BY <2>1, <2>2
  <1>3. ASSUME NEW q \in S, NEW r \in S, q.seq = r.seq
        PROVE  q = r
    <2>1. PICK e \in R : q = Record(e) /\ q.seq = e.seq
      BY RecordsHas
    <2>2. PICK f \in R : r = Record(f) /\ r.seq = f.seq
      BY RecordsHas
    <2>3. e = f
      BY <1>3, <2>1, <2>2 DEF Unique
    <2> QED BY <2>1, <2>2, <2>3
  <1> HIDE DEF S
  <1>4. InWindow(S, top)
    BY <1>1, <1>2, <1>3 DEF InWindow
  <1> QED BY <1>4 DEF S

(* The records held are finitely many.                                     *)
LEMMA AmongFinite ==
  ASSUME NEW en, NEW key
  PROVE  IsFiniteSet(Among(en, key))
  <1>1. IsFiniteSet(Slots)
    BY Big, FS_Interval DEF Slots
  <1>2. IsFiniteSet({en[i] : i \in Slots})
    <2> DEFINE T == {en[i] : i \in Slots}
               f == [i \in Slots |-> en[i]]
    <2>1. f \in Surjection(Slots, T)
      BY DEF Surjection
    <2> HIDE DEF f, T
    <2>2. IsFiniteSet(T)
      BY <1>1, <2>1, FS_Surjection
    <2> QED BY <2>2 DEF T
  <1>3. IsFiniteSet({en[i] : i \in Slots} \cup {key})
    BY <1>2, FS_AddElement
  <1>4. Among(en, key) \subseteq {en[i] : i \in Slots} \cup {key}
    BY DEF Among
  <1> QED BY <1>3, <1>4, FS_Subset

(* As many records as slots.                                               *)
LEMMA RecordsCount ==
  ASSUME NEW en, NEW D, D \subseteq Valids(en), Distinct(en)
  PROVE  /\ IsFiniteSet({Record(en[j]) : j \in D}) /\ IsFiniteSet(D)
         /\ Cardinality({Record(en[j]) : j \in D}) = Cardinality(D)
  <1> DEFINE T == {Record(en[j]) : j \in D}
             f == [j \in D |-> Record(en[j])]
  <1>1. IsFiniteSet(D)
    <2>1. IsFiniteSet(Slots)
      BY Big, FS_Interval DEF Slots
    <2> QED BY <2>1, FS_Subset DEF Valids
  <1>2. \A i, j \in D : Record(en[i]) = Record(en[j]) => i = j
    <2> SUFFICES ASSUME NEW i \in D, NEW j \in D,
                        Record(en[i]) = Record(en[j])
                 PROVE  i = j
      OBVIOUS
    <2>1. en[i].seq = en[j].seq
      BY RecordFields
    <2> QED BY <2>1 DEF Distinct
  <1>3. f \in Bijection(D, T)
    <2>1. f \in [D -> T] /\ \A t \in T : \E j \in D : f[j] = t
      OBVIOUS
    <2>2. \A i, j \in D : f[i] = f[j] => i = j
      BY <1>2
    <2> HIDE DEF f, T
    <2> QED BY <2>1, <2>2 DEF Bijection, Injection, Surjection, IsInjective
  <1>4. IsFiniteSet(T) /\ Cardinality(T) = Cardinality(D)
    <2> HIDE DEF f, T
    <2> QED BY <1>1, <1>3, FS_Bijection DEF ExistsBijection
  <1> QED BY <1>1, <1>4

(* The slots between b and n behind w.                                     *)
LEMMA SlotsBetween ==
  ASSUME NEW w \in Slots, NEW n \in 0 .. Depth, NEW b \in 0 .. n - 1
  PROVE  Cardinality({j \in Slots : Behind(w, j) < n /\ b < Behind(w, j)})
           = n - 1 - b
  <1> DEFINE A == {j \in Slots : Behind(w, j) < n}
             B == {j \in Slots : Behind(w, j) < b + 1}
             D == {j \in Slots : Behind(w, j) < n /\ b < Behind(w, j)}
  <1>1. n \in Int /\ b \in Int /\ b + 1 \in 0 .. Depth /\ b + 1 <= n
    BY Big
  <1>2. /\ IsFiniteSet(A) /\ Cardinality(A) = n
        /\ IsFiniteSet(B) /\ Cardinality(B) = b + 1
    BY <1>1, RingSlots
  <1>3. D = A \ B /\ B \subseteq A
    <2>1. ASSUME NEW j \in Slots
          PROVE  /\ Behind(w, j) \in Int
                 /\ Behind(w, j) < b + 1 <=> ~(b < Behind(w, j))
                 /\ Behind(w, j) < b + 1 => Behind(w, j) < n
      <3>1. Behind(w, j) \in 0 .. Depth - 1
        BY BehindIs
      <3>2. Behind(w, j) \in Int
        BY <3>1, Big
      <3> QED BY <1>1, <3>2
    <2> QED BY <2>1
  <1>4. Cardinality(A \ B) = Cardinality(A) - Cardinality(A \cap B)
    BY <1>2, FS_Difference
  <1>5. A \cap B = B
    BY <1>3
  <1> HIDE DEF A, B, D
  <1>6. Cardinality(D) = n - 1 - b
    <2>1. Cardinality(D) = n - (b + 1)
      BY <1>2, <1>3, <1>4, <1>5
    <2> QED BY <1>1, <2>1
  <1> QED BY <1>6 DEF D

(* A ring holds its records at their places in the journal.                *)
LEMMA RingJournal ==
  ASSUME NEW en \in Entries, NEW w \in Slots, NEW n \in 0 .. Depth,
         NEW top \in Numbers, Ring(en, w, n, top),
         InWindow(Records(Among(en, Zero)), top)
  PROVE  LET S == Records(Among(en, Zero))
         IN  /\ Cardinality(S) = n
             /\ \A i \in Valids(en) :
                  /\ Record(en[i]) \in S
                  /\ Rank(S, Record(en[i])) = n - 1 - Behind(w, i)
  <1> DEFINE S == Records(Among(en, Zero))
             V == Valids(en)
  <1>1. S = {Record(en[i]) : i \in V}
    <2>1. \A e : e \in Among(en, Zero) <=> \E i \in V : e = en[i]
      BY AmongIs, BlankEntries, ValidsIs
    <2> QED BY <2>1 DEF Records
  <1>2. ASSUME NEW i \in V
        PROVE  /\ i \in Slots /\ Behind(w, i) \in 0 .. n - 1
               /\ Record(en[i]) \in S /\ en[i].seq \in Numbers
               /\ Steps(top, en[i].seq) < Depth + MaxLost
               /\ Record(en[i]).seq = en[i].seq
    <2>1. i \in Slots /\ Behind(w, i) < n
      BY DEF Ring
    <2>2. Behind(w, i) \in 0 .. n - 1
      <3>1. Behind(w, i) \in 0 .. Depth - 1
        BY <2>1, BehindIs
      <3> QED BY <2>1, <3>1, Big
    <2>3. Record(en[i]) \in S /\ Record(en[i]).seq = en[i].seq
      BY <1>1, RecordFields
    <2> HIDE DEF S
    <2> QED BY <2>1, <2>2, <2>3 DEF InWindow, S
  <1>3. ASSUME NEW i \in V, NEW j \in V
        PROVE  /\ Behind(w, i) < Behind(w, j) =>
                    Steps(top, en[i].seq) < Steps(top, en[j].seq)
               /\ Steps(top, en[i].seq) \in Nat
               /\ After(en[i].seq, en[j].seq)
                    <=> Steps(top, en[i].seq) < Steps(top, en[j].seq)
    BY <1>2, StepsIs, AfterInWindow DEF Ring
  <1>4. ASSUME NEW i \in V, NEW j \in V
        PROVE  After(en[i].seq, en[j].seq) <=> Behind(w, i) < Behind(w, j)
    <2>1. Behind(w, i) \in Int /\ Behind(w, j) \in Int
      BY <1>2
    <2>2. CASE Behind(w, i) = Behind(w, j)
      <3>1. i = j
        BY <1>2, <2>2, BehindInjective
      <3> QED BY <1>3, <2>1, <3>1
    <2>3. CASE Behind(w, i) < Behind(w, j)
      BY <1>3, <2>1, <2>3
    <2>4. CASE Behind(w, j) < Behind(w, i)
      BY <1>3, <2>1, <2>4
    <2> QED BY <2>1, <2>2, <2>3, <2>4
  <1>5. Distinct(en)
    <2> SUFFICES ASSUME NEW i \in V, NEW j \in V, en[i].seq = en[j].seq
                 PROVE  i = j
      BY DEF Distinct
    <2>1. ~(Behind(w, i) < Behind(w, j)) /\ ~(Behind(w, j) < Behind(w, i))
      BY <1>3
    <2>2. Behind(w, i) = Behind(w, j)
      BY <1>2, <2>1
    <2> QED BY <1>2, <2>2, BehindInjective
  <1>6. V = {i \in Slots : Behind(w, i) < n}
    BY DEF Ring
  <1>7. Cardinality(S) = n
    <2>1. Cardinality(S) = Cardinality(V)
      BY <1>1, <1>5, RecordsCount
    <2> QED BY <1>6, <2>1, RingSlots
  <1>8. ASSUME NEW i \in V
        PROVE  Rank(S, Record(en[i])) = n - 1 - Behind(w, i)
    <2> DEFINE b == Behind(w, i)
               D == {j \in Slots : Behind(w, j) < n /\ b < Behind(w, j)}
    <2>1. D \subseteq V /\ \A j \in V : j \in D <=> b < Behind(w, j)
      BY <1>6
    <2>2. Before(S, Record(en[i])) = {Record(en[j]) : j \in D}
      <3>1. ASSUME NEW q
            PROVE  q \in Before(S, Record(en[i]))
                     <=> \E j \in D : q = Record(en[j])
        <4>1. q \in Before(S, Record(en[i]))
                <=> \E j \in V : /\ q = Record(en[j])
                                 /\ After(en[i].seq, en[j].seq)
          BY <1>1, <1>2 DEF Before
        <4> QED BY <1>4, <2>1, <4>1
      <3> HIDE DEF D
      <3> QED BY <3>1
    <2>3. Cardinality({Record(en[j]) : j \in D}) = Cardinality(D)
      BY <1>5, <2>1, RecordsCount
    <2>4. Cardinality(D) = n - 1 - b
      BY <1>2, SlotsBetween
    <2>5. Rank(S, Record(en[i])) = Cardinality(Before(S, Record(en[i])))
      BY DEF Rank, Before
    <2> QED BY <2>2, <2>3, <2>4, <2>5
  <1> QED BY <1>2, <1>7, <1>8

-----------------------------------------------------------------------------
(* What the invariant says of the journal.                                 *)

(* The journal lists the records held.                                     *)
LEMMA RetainedIs ==
  ASSUME Inv
  PROVE  /\ Held = Records(HeldNow) /\ IsFiniteSet(HeldNow)
         /\ Retained = InOrder(Records(HeldNow))
         /\ ~At("shift") => HeldNow = Among(ram.entry, Zero)
  <1>1. Held = Records(HeldNow)
    BY DEF Held, Records, HeldNow, Among
  <1>2. IsFiniteSet(HeldNow)
    BY AmongFinite DEF HeldNow
  <1>3. ~ram.magic => Held = {} /\ Retained = <<>>
    BY <1>1 DEF Inv, Control, Records, Retained
  <1>4. ram.magic => Retained = InOrder(Held)
    BY DEF Retained
  <1>5. ~At("shift") => HeldNow = Among(ram.entry, Zero)
    BY HeldInSlots DEF HeldNow
  <1> QED BY <1>1, <1>2, <1>3, <1>4, <1>5, JournalEmpty

(* No more records than slots, the one in the sort's local included: the   *)
(* slot it is about to be written to holds nothing of its own.             *)
LEMMA HeldCount ==
  ASSUME Inv
  PROVE  Cardinality(SeqsOf(HeldNow)) \in 0 .. Depth
  <1>1. Types
    BY DEF Inv
  <1>2. CASE ~At("shift")
    BY <1>1, <1>2, HeldFacts, HeldInSlots
  <1>3. CASE At("shift")
    <2> DEFINE en == [ram.entry EXCEPT ![cpu.read] = cpu.key]
               R == Among(en, Zero)
    <2>1. /\ cpu.read \in Slots /\ Valid(cpu.key)
          /\ cpu.read <= cpu.index /\ cpu.index < cpu.packed
          /\ cpu.packed < Depth
          /\ cpu.read \in Nat /\ cpu.index \in Nat /\ cpu.packed \in Nat
          /\ ram.entry[cpu.read] = IF cpu.read = cpu.index THEN cpu.key
                                   ELSE ram.entry[cpu.read + 1]
      BY <1>3, ShiftFacts
    <2>2. ram.entry \in Entries /\ cpu.key \in Entry /\ Zero \in Entry
          /\ ~Valid(Zero)
      BY <1>1, StateFields, BlankEntries
    <2>3. /\ en \in Entries /\ en[cpu.read] = cpu.key
          /\ \A j \in Slots : j # cpu.read => en[j] = ram.entry[j]
      BY <2>1, <2>2 DEF Entries
    <2> HIDE DEF en
    <2>4. ASSUME NEW e \in HeldNow PROVE e \in R
      <3>1. Valid(e) /\ ((\E i \in Slots : e = ram.entry[i]) \/ e = cpu.key)
        BY AmongIs DEF HeldNow
      <3>2. CASE e = cpu.key
        BY <2>1, <2>3, <3>1, <3>2, AmongIs
      <3>3. CASE e # cpu.key
        <4>1. PICK j \in Slots : e = ram.entry[j]
          BY <3>1, <3>3
        <4>2. CASE j # cpu.read
          BY <2>3, <3>1, <4>1, <4>2, AmongIs
        <4>3. CASE j = cpu.read
          <5>1. e = ram.entry[cpu.read + 1] /\ cpu.read # cpu.index
            BY <2>1, <3>3, <4>1, <4>3
          <5>2. cpu.read + 1 \in Slots /\ cpu.read + 1 # cpu.read
            BY <2>1, <5>1, Big DEF Slots
          <5> QED BY <2>3, <3>1, <5>1, <5>2, AmongIs
        <4> QED BY <4>2, <4>3
      <3> QED BY <3>2, <3>3
    <2>5. /\ IsFiniteSet(SeqsOf(R)) /\ Cardinality(SeqsOf(R)) \in Nat
          /\ Cardinality(SeqsOf(R)) <= Depth
      BY <2>2, <2>3, SeqsFinite
    <2>6. SeqsOf(HeldNow) \subseteq SeqsOf(R)
      BY <2>4 DEF SeqsOf
    <2> HIDE DEF R
    <2>7. Cardinality(SeqsOf(HeldNow)) <= Cardinality(SeqsOf(R))
      BY <2>5, <2>6, FS_Subset
    <2>8. Cardinality(SeqsOf(HeldNow)) \in Nat
      BY <1>1, HeldFacts
    <2> QED BY <2>5, <2>7, <2>8, Big
  <1> QED BY <1>2, <1>3

(* The records are in the window, counted from a number that is close      *)
(* enough to them.                                                         *)
LEMMA HeldWindow ==
  ASSUME Inv, NEW top \in Numbers, Near(HeldNow, Lost, top)
  PROVE  InWindow(Records(HeldNow), top)
  <1>1. Types /\ Unique(HeldNow)
    BY DEF Inv
  <1>2. /\ Lost \in 0 .. MaxLost
        /\ Cardinality(SeqsOf(HeldNow)) \in 0 .. Depth
        /\ \A e \in HeldNow : e.seq \in Numbers
    BY <1>1, StateFields, HeldFacts, HeldCount
  <1> QED BY <1>1, <1>2, RetainedIs, RecordsIn

(* A ring that fits its header holds the journal.                          *)
LEMMA RingIsJournal ==
  ASSUME Inv, ~At("shift"), NEW w \in Slots, NEW n \in 0 .. Depth,
         NEW top \in Numbers, Near(HeldNow, Lost, top),
         Ring(ram.entry, w, n, top)
  PROVE  /\ Retained \in Seq(Records(HeldNow)) /\ Len(Retained) = n
         /\ Cardinality(Valids(ram.entry)) = n
         /\ \A i \in Valids(ram.entry) :
              /\ Behind(w, i) \in 0 .. n - 1
              /\ Retained[n - Behind(w, i)] = Record(ram.entry[i])
  <1> DEFINE S == Records(HeldNow)
  <1>1. /\ Retained = InOrder(S) /\ HeldNow = Among(ram.entry, Zero)
        /\ ram.entry \in Entries /\ InWindow(S, top)
    BY RetainedIs, HeldWindow, StateFields DEF Inv
  <1>2. /\ Cardinality(S) = n
        /\ \A i \in Valids(ram.entry) :
             /\ Record(ram.entry[i]) \in S
             /\ Rank(S, Record(ram.entry[i])) = n - 1 - Behind(w, i)
    BY <1>1, RingJournal
  <1>3. /\ Retained \in Seq(S) /\ Len(Retained) = Cardinality(S)
        /\ \A r \in S : Retained[Rank(S, r) + 1] = r
    <2> HIDE DEF S
    <2> QED BY <1>1, InOrderIs
  <1>4. ASSUME NEW i \in Valids(ram.entry)
        PROVE  /\ Behind(w, i) \in 0 .. n - 1
               /\ Retained[n - Behind(w, i)] = Record(ram.entry[i])
    <2>1. i \in Slots /\ Behind(w, i) < n
      BY DEF Ring
    <2>2. Behind(w, i) \in 0 .. Depth - 1
      BY <2>1, BehindIs
    <2>3. n - 1 - Behind(w, i) + 1 = n - Behind(w, i)
      BY <2>2, Big
    <2>4. Behind(w, i) \in 0 .. n - 1
      BY <2>1, <2>2, Big
    <2> HIDE DEF S
    <2> QED BY <1>2, <1>3, <2>3, <2>4
  <1>5. Cardinality(Valids(ram.entry)) = n
    <2>1. Valids(ram.entry) = {i \in Slots : Behind(w, i) < n}
      BY DEF Ring
    <2> QED BY <2>1, RingSlots
  <1> QED BY <1>2, <1>3, <1>4, <1>5

(* The k-th slot of the n that end before w.                               *)
LEMMA SlotAt ==
  ASSUME NEW w \in Slots, NEW n \in 0 .. Depth, NEW k \in 1 .. n
  PROVE  LET i == (w + Depth - n + k - 1) % Depth
         IN  i \in Slots /\ Behind(w, i) = n - k
  <1> DEFINE i == (w + Depth - n + k - 1) % Depth
  <1>1. /\ w \in Int /\ n \in Int /\ k \in Int /\ 0 <= w /\ w < Depth
        /\ n <= Depth /\ 1 <= k /\ k <= n
    BY Big DEF Slots
  <1>2. i = IF w + Depth - n + k - 1 >= Depth THEN w - n + k - 1
            ELSE w + Depth - n + k - 1
    BY <1>1, Big
  <1> HIDE DEF i
  <1>3. i \in Slots
    BY <1>1, <1>2, Big DEF Slots
  <1>4. Behind(w, i) = IF w > i THEN w - 1 - i ELSE w - 1 - i + Depth
    BY <1>3, BehindIs
  <1>5. Behind(w, i) = n - k
    BY <1>1, <1>2, <1>4, Big
  <1> QED BY <1>3, <1>5 DEF i

(* A snapshot reads the journal.                                           *)
LEMMA InvSnapshot == Inv => SnapshotIsTheJournal
  <1> SUFFICES ASSUME Inv, At("snapshot")
               PROVE  /\ ram.count = Len(Retained)
                      /\ \A k \in 1 .. ram.count :
                           LET e == ram.entry[(ram.write + Depth - ram.count
                                                 + k - 1) % Depth]
                           IN  Valid(e) /\ Record(e) = Retained[k]
    BY DEF SnapshotIsTheJournal
  <1> DEFINE w == ram.write
             n == ram.count
  <1>1. /\ ~At("shift") /\ w \in Slots /\ n \in 0 .. Depth
        /\ HeaderFits(w, n, ram.next)
    BY StateFields DEF Inv, Appending, At, Ops, Calls
  <1>2. PICK top \in Numbers : /\ Near(HeldNow, Lost, top)
                               /\ Ring(ram.entry, w, n, top)
    BY <1>1 DEF HeaderFits
  <1> HIDE DEF w, n
  <1>3. /\ Len(Retained) = n
        /\ \A i \in Valids(ram.entry) :
             Retained[n - Behind(w, i)] = Record(ram.entry[i])
    BY <1>1, <1>2, RingIsJournal
  <1>4. ASSUME NEW k \in 1 .. n
        PROVE  LET e == ram.entry[(w + Depth - n + k - 1) % Depth]
               IN  Valid(e) /\ Record(e) = Retained[k]
    <2> DEFINE i == (w + Depth - n + k - 1) % Depth
    <2>1. i \in Slots /\ Behind(w, i) = n - k
      BY <1>1, SlotAt
    <2> HIDE DEF i
    <2>2. Behind(w, i) < n /\ n - Behind(w, i) = k
      BY <1>1, <2>1, Big
    <2>3. i \in Valids(ram.entry)
      BY <1>2, <2>1, <2>2 DEF Ring
    <2>4. Valid(ram.entry[i]) /\ Record(ram.entry[i]) = Retained[k]
      BY <1>3, <2>2, <2>3 DEF Valids
    <2> QED BY <2>4 DEF i
  <1> QED BY <1>3, <1>4 DEF w, n

(* The header a call leaves is the one recovery would compute.             *)
LEMMA InvHeader == Inv => HeaderAgrees
  <1> SUFFICES ASSUME Inv, At("idle"), ~life.booting, ram.magic,
                      \A e \in Intact : Valid(e)
               PROVE  /\ ram.count = Cardinality(ValidSlots)
                      /\ ValidSlots # {} =>
                           /\ ram.write = (Newest + 1) % Depth
                           /\ ram.next = NextSequence(ram.entry[Newest].seq)
    BY DEF HeaderAgrees
  <1>1. /\ ~At("shift") /\ ram.write \in Slots /\ ram.count \in 0 .. Depth
        /\ HeaderFits(ram.write, ram.count, ram.next)
        /\ ram.entry \in Entries /\ Lost \in 0 .. MaxLost
    BY StateFields DEF Inv, Appending, At
  <1>2. PICK top \in Numbers : /\ Near(HeldNow, Lost, top)
                               /\ Ring(ram.entry, ram.write, ram.count, top)
                               /\ ram.next = IF ram.count = 0 THEN 1
                                             ELSE NextSequence(top)
    BY <1>1 DEF HeaderFits
  <1>3. /\ Cardinality(Valids(ram.entry)) = ram.count
        /\ ValidSlots = Valids(ram.entry)
    BY <1>1, <1>2, RingIsJournal, HeldFacts DEF Inv
  <1>4. ASSUME ValidSlots # {}
        PROVE  /\ ram.write = (Newest + 1) % Depth
               /\ ram.next = NextSequence(ram.entry[Newest].seq)
    <2> DEFINE m == (ram.write + Depth - 1) % Depth
    <2>1. PICK i \in Valids(ram.entry) : TRUE
      BY <1>3, <1>4
    <2>2. i \in Slots /\ Behind(ram.write, i) < ram.count
      BY <1>2 DEF Ring
    <2>3. ram.count \in 1 .. Depth
      <3>1. Behind(ram.write, i) \in 0 .. Depth - 1
        BY <1>1, <2>2, BehindIs
      <3> QED BY <1>1, <2>2, <3>1, Big
    <2>4. m \in Valids(ram.entry) /\ ram.entry[m].seq = top
      BY <1>1, <1>2, <2>3, RingNewest
    <2>5. (m + 1) % Depth = ram.write
      BY <1>1, SlotBefore
    <2> HIDE DEF m
    <2>6. ASSUME NEW j \in Valids(ram.entry)
          PROVE  /\ ram.entry[j].seq \in Numbers
                 /\ Steps(top, ram.entry[j].seq) < Depth + MaxLost
                 /\ Steps(top, ram.entry[m].seq) <= Steps(top, ram.entry[j].seq)
      <3>1. ram.entry[j] \in HeldNow /\ ram.entry[j].seq \in Numbers
        BY HeldFacts DEF Inv
      <3>2. Cardinality(SeqsOf(HeldNow)) \in 0 .. Depth
        BY <1>1, HeldFacts, HeldInSlots DEF Inv
      <3>3. Steps(top, ram.entry[j].seq) < Depth + MaxLost
        BY <1>1, <1>2, <3>1, <3>2, NearWithin
      <3>4. Steps(top, ram.entry[m].seq) = 0
        BY <2>4, StepsZero
      <3>5. Steps(top, ram.entry[j].seq) \in 0 .. Modulus - 2
        BY <3>1, StepsIs
      <3> QED BY <3>1, <3>3, <3>4, <3>5, Big
    <2>7. Distinct(ram.entry)
      <3> SUFFICES ASSUME NEW j \in Valids(ram.entry),
                          NEW k \in Valids(ram.entry),
                          ram.entry[j].seq = ram.entry[k].seq
                   PROVE  j = k
        BY DEF Distinct
      <3>1. j \in Slots /\ k \in Slots
        BY DEF Valids
      <3>2. Steps(top, ram.entry[j].seq) \in 0 .. Modulus - 2
        BY <2>6, StepsIs
      <3>3. /\ ~(Behind(ram.write, j) < Behind(ram.write, k))
            /\ ~(Behind(ram.write, k) < Behind(ram.write, j))
        BY <1>2, <3>2, Big DEF Ring
      <3>4. /\ Behind(ram.write, j) \in 0 .. Depth - 1
            /\ Behind(ram.write, k) \in 0 .. Depth - 1
        BY <1>1, <3>1, BehindIs
      <3>5. Behind(ram.write, j) = Behind(ram.write, k)
        BY <3>3, <3>4, Big
      <3> QED BY <1>1, <3>1, <3>5, BehindInjective
    <2>8. m = CHOOSE j \in Valids(ram.entry) :
                \A k \in Valids(ram.entry) :
                  ~After(ram.entry[k].seq, ram.entry[j].seq)
      BY <1>1, <2>4, <2>6, <2>7, NewestIs
    <2>9. m = Newest
      BY <1>3, <2>8 DEF Newest
    <2>10. ram.next = NextSequence(top)
      BY <1>2, <2>3, Big
    <2> QED BY <2>4, <2>5, <2>9, <2>10
  <1> QED BY <1>3, <1>4

(* The invariant gives the types.                                          *)
LEMMA InvTypes == Inv => TypeOK
  BY StateFields DEF Inv, TypeOK, BootNo, Entries

-----------------------------------------------------------------------------
(* The theorems.                                                           *)

(* Every step keeps the invariant.                                         *)
LEMMA InvStep ==
  ASSUME Inv, [Next]_vars
  PROVE  Inv'
  <1>1. CASE UNCHANGED vars
    <2>1. ram' = ram /\ cpu' = cpu /\ life' = life
      BY <1>1 DEF vars
    <2>2. Lost' = Lost
      BY <2>1, LostSame
    <2> QED BY <2>1, <2>2
                    DEF Inv, Types, BootsAgree, Control, Calm, Unique,
                        NewestHeld, Packing, Sorting, Appending, HeldNow, At,
                        HighestBoot, Booted, Left, Room, HeaderFits, Intact
  <1>2. CASE Recover
    BY <1>2, EraseKeeps, StampKeeps, DropDuplicateKeeps, ScanEmptyKeeps,
       ScanKeeps, PackKeeps, CleanKeeps, PickKeeps, ShiftKeeps, PlaceKeeps,
       TrimKeeps, HeaderKeeps DEF Recover
  <1>3. CASE Request
    BY <1>3, RequestKeeps
  <1>4. CASE Invalidate \/ Commit \/ Bump
    BY <1>4, InvalidateKeeps, CommitKeeps, BumpKeeps
  <1>5. CASE Snapshot \/ Clear \/ Restore \/ Boot
    BY <1>5, SnapshotKeeps, ClearKeeps, RestoreKeeps, BootKeeps
  <1>6. CASE Reset
    BY <1>6, ResetKeeps
  <1>7. CASE Panic
    BY <1>7, PanicKeeps
  <1> QED BY <1>1, <1>2, <1>3, <1>4, <1>5, <1>6, <1>7 DEF Next

(* The invariant holds throughout.                                         *)
LEMMA InvAlways ==
  Spec => []Inv
  <1>1. Init => Inv
    BY InitKeeps
  <1>2. Inv /\ [Next]_vars => Inv'
    BY InvStep
  <1> QED BY <1>1, <1>2, PTL DEF Spec

(* Every variable keeps its type and every ring index stays in the ring.   *)
THEOREM RingIsTyped ==
  Spec => []TypeOK
  <1>1. Inv => TypeOK
    BY InvTypes
  <1> QED BY <1>1, InvAlways, PTL

(* Header and records tell the same story, to a reader and to the next     *)
(* recovery.                                                               *)
THEOREM HeaderIsAlwaysTheJournal ==
  Spec => []HeaderIsTheJournal
  <1>1. Inv => HeaderIsTheJournal
    BY InvSnapshot, InvHeader DEF HeaderIsTheJournal
  <1> QED BY <1>1, InvAlways, PTL

-----------------------------------------------------------------------------
(* The journal, step by step.                                              *)

(* What the journal becomes.                                               *)
LEMMA RetainedNext ==
  ASSUME Inv, [Next]_vars
  PROVE  Retained' = InOrder(Records(HeldNow'))
  <1>1. Inv'
    BY InvStep
  <1>2. Held' = Records(HeldNow')
    BY DEF Held, Records, HeldNow, Among
  <1>3. ~ram'.magic => HeldNow' = {} /\ Retained' = <<>>
    BY <1>1 DEF Inv, Control, Retained
  <1>4. ram'.magic => Retained' = InOrder(Held')
    BY DEF Retained
  <1>5. Records({}) = {}
    BY DEF Records
  <1> QED BY <1>2, <1>3, <1>4, <1>5, JournalEmpty

(* The records of the entries but one.                                     *)
LEMMA RecordsWithout ==
  ASSUME NEW R, NEW x \in R, Unique(R)
  PROVE  /\ Record(x) \in Records(R)
         /\ Records(R \ {x}) = Records(R) \ {Record(x)}
  <1>1. Record(x) \in Records(R)
    BY DEF Records
  <1>2. ASSUME NEW e \in R, Record(e) = Record(x) PROVE e = x
    <2>1. e.seq = x.seq
      BY <1>2, RecordFields
    <2> QED BY <2>1 DEF Unique
  <1>3. Records(R \ {x}) = Records(R) \ {Record(x)}
    BY <1>2 DEF Records
  <1> QED BY <1>1, <1>3

(* Invalidating the slot to be written: at most the oldest record of a     *)
(* full journal goes.                                                      *)
LEMMA InvalidateJournal ==
  ASSUME Inv, Invalidate
  PROVE  \/ Retained' = Retained
         \/ Len(Retained) = Depth /\ Retained' = Tail(Retained)
  <1> DEFINE S == Records(HeldNow)
  <1>1. /\ Retained = InOrder(S) /\ Retained' = InOrder(Records(HeldNow'))
        /\ ~At("shift") /\ Unique(HeldNow) /\ ram.write \in Slots
    BY RetainedIs, RetainedNext, StateFields
       DEF Inv, Next, Invalidate, At
  <1>2. CASE HeldNow' = HeldNow
    BY <1>1, <1>2
  <1>3. CASE \E top \in Numbers, x \in HeldNow :
               /\ Near(HeldNow, Lost, top)
               /\ Ring(ram.entry, ram.write, Depth, top)
               /\ HeldNow' = HeldNow \ {x}
               /\ \A e \in HeldNow \ {x} :
                    Steps(top, e.seq) < Steps(top, x.seq)
    <2>1. PICK top \in Numbers, x \in HeldNow :
               /\ Near(HeldNow, Lost, top)
               /\ Ring(ram.entry, ram.write, Depth, top)
               /\ HeldNow' = HeldNow \ {x}
               /\ \A e \in HeldNow \ {x} :
                    Steps(top, e.seq) < Steps(top, x.seq)
      BY <1>3
    <2>2. InWindow(S, top)
      BY <1>1, <2>1, HeldWindow
    <2>3. Record(x) \in S /\ Records(HeldNow') = S \ {Record(x)}
      BY <1>1, <2>1, RecordsWithout
    <2>4. ASSUME NEW q \in S PROVE ~After(Record(x).seq, q.seq)
      <3>1. PICK e \in HeldNow : q = Record(e) /\ q.seq = e.seq
        BY RecordsHas
      <3>2. /\ Record(x).seq \in Numbers /\ q.seq \in Numbers
            /\ Steps(top, Record(x).seq) < Depth + MaxLost
            /\ Steps(top, q.seq) < Depth + MaxLost
        BY <2>2, <2>3 DEF InWindow
      <3>3. Record(x).seq = x.seq
        BY RecordFields
      <3>4. Steps(top, q.seq) \in Nat /\ Steps(top, x.seq) \in Nat
        BY <3>2, <3>3, StepsIs
      <3>5. ~(Steps(top, x.seq) < Steps(top, q.seq))
        BY <2>1, <3>1, <3>4
      <3> QED BY <3>2, <3>3, <3>5, AfterInWindow
    <2> HIDE DEF S
    <2>5. InOrder(S \ {Record(x)}) = Tail(InOrder(S))
      BY <2>2, <2>3, <2>4, JournalEvicts
    <2>6. Len(Retained) = Depth
      BY <1>1, <2>1, RingIsJournal, Big
    <2> QED BY <1>1, <2>3, <2>5, <2>6
  <1> QED BY <1>2, <1>3, InvalidateKeeps

(* The commit word: at most one record enters, at the end.                 *)
LEMMA CommitJournal ==
  ASSUME Inv, Commit
  PROVE  IF cpu.event \in Known
         THEN \E b \in 0 .. MaxBoots + 1 :
                /\ Len(Retained) < Depth
                /\ Retained # <<>> => b >= Retained[Len(Retained)].boot
                /\ Retained' = Append(Retained, Journal!Record(cpu.event, b))
         ELSE Retained' = Retained
  <1> DEFINE S == Records(HeldNow)
  <1>1. /\ Retained = InOrder(S) /\ Retained' = InOrder(Records(HeldNow'))
        /\ ~At("shift") /\ Unique(HeldNow) /\ ram.write \in Slots
        /\ ram.boot \in BootNo /\ Lost \in 0 .. MaxLost
        /\ ram.entry \in Entries /\ Inv' /\ Types
    BY RetainedIs, RetainedNext, InvStep, StateFields
       DEF Inv, Next, Commit, At
  <1>2. CASE cpu.event \notin Known /\ HeldNow' = HeldNow
    BY <1>1, <1>2
  <1>3. CASE /\ cpu.event \in Known
             /\ \E x : /\ Appended(x) /\ x.event = cpu.event
                       /\ HeldNow' = HeldNow \cup {x}
    <2>1. PICK x : /\ Appended(x) /\ x.event = cpu.event
                   /\ HeldNow' = HeldNow \cup {x}
      BY <1>3
    <2>2. PICK top \in Numbers, l \in 0 .. Depth - 1 :
            /\ x \notin HeldNow /\ x.seq \in Numbers /\ Valid(x) /\ x \in Entry
            /\ x.boot = ram.boot /\ x.event \in Known
            /\ Near(HeldNow \cup {x}, Lost, x.seq)
            /\ \A e \in HeldNow : e.seq # x.seq
            /\ Ring(ram.entry, ram.write, l, top)
            /\ x.seq = IF l = 0 THEN 1 ELSE NextSequence(top)
            /\ Near(HeldNow, Lost, top)
      BY <2>1 DEF Appended
    <2> DEFINE y == Record(x)
               R == HeldNow \cup {x}
    <2>3. y.seq = x.seq /\ y.event = x.event /\ y.boot = x.boot
      BY RecordFields
    <2>4. Records(R) = S \cup {y}
      BY DEF Records
    <2>5. InWindow(Records(R), x.seq)
      <3>1. \A e \in R : e.seq \in Numbers
        BY <1>1, <2>2, HeldFacts
      <3>2. Unique(R)
        BY <1>1, <2>2 DEF Unique
      <3>3. IsFiniteSet(R)
        BY RetainedIs, FS_AddElement
      <3>4. Cardinality(SeqsOf(R)) \in 0 .. Depth
        <4>1. R = Among(ram'.entry, cpu'.key)
          BY <2>1 DEF HeldNow
        <4>2. cpu'.key = Zero
          BY <1>1 DEF Inv, Control, Commit, Goto, At, Types, CpuType
        <4>3. ram'.entry \in Entries
          BY <1>1 DEF Inv, Types, RamType
        <4> HIDE DEF R
        <4>4. /\ Cardinality(SeqsOf(R)) \in Nat
              /\ Cardinality(SeqsOf(R)) <= Depth
          BY <4>1, <4>2, <4>3, BlankEntries, SeqsFinite
        <4> QED BY <4>4, Big
      <3> HIDE DEF R
      <3>5. Near(R, Lost, x.seq)
        BY <2>2 DEF R
      <3> QED BY <1>1, <2>2, <3>1, <3>2, <3>3, <3>4, <3>5, RecordsIn
    <2>6. ASSUME NEW q \in S PROVE After(y.seq, q.seq) /\ q.seq # y.seq
      <3>1. PICK e \in HeldNow : q = Record(e) /\ q.seq = e.seq
        BY RecordsHas
      <3>2. q.seq # x.seq /\ q.seq \in Numbers /\ x.seq \in Numbers
        BY <1>1, <2>2, <3>1, HeldFacts
      <3>3. Steps(x.seq, x.seq) = 0 /\ Steps(x.seq, q.seq) # 0
        BY <3>2, StepsZero
      <3>4. Steps(x.seq, q.seq) \in 0 .. Modulus - 2
        BY <3>2, StepsIs
      <3>5. Steps(x.seq, q.seq) < Depth + MaxLost
        BY <2>4, <2>5 DEF InWindow
      <3>6. 0 < Depth + MaxLost /\ 0 < Steps(x.seq, q.seq)
        BY <3>3, <3>4, Big
      <3>7. After(x.seq, q.seq)
        BY <3>2, <3>3, <3>5, <3>6, AfterInWindow
      <3> QED BY <2>3, <3>2, <3>7
    <2>7. y \notin S
      BY <2>6
    <2>8. InOrder(S \cup {y}) = Append(InOrder(S), y)
      <3> HIDE DEF S, y, R
      <3>1. InWindow(S \cup {y}, x.seq)
        BY <2>4, <2>5
      <3> QED BY <2>2, <2>6, <2>7, <3>1, JournalAppends
    <2>9. /\ Retained' = Append(Retained, y)
      BY <1>1, <2>1, <2>4, <2>8
    <2>10. /\ Retained \in Seq(S) /\ Len(Retained) = l /\ l \in Nat /\ l < Depth
           /\ \A i \in Valids(ram.entry) :
                Retained[l - Behind(ram.write, i)] = Record(ram.entry[i])
      <3>1. l \in 0 .. Depth /\ l \in Nat /\ l < Depth
        BY Big
      <3> QED BY <1>1, <2>2, <3>1, RingIsJournal
    <2>11. ASSUME Retained # <<>>
           PROVE  /\ l # 0 /\ Retained[l].seq = top
                  /\ Retained[l].boot \in BootNo
                  /\ Retained[l].boot <= ram.boot
      <3>1. l # 0
        BY <2>10, <2>11
      <3>2. l \in 1 .. Depth
        BY <2>10, <3>1, Big
      <3> DEFINE v == (ram.write + Depth - 1) % Depth
      <3>3. v \in Valids(ram.entry) /\ ram.entry[v].seq = top
        BY <1>1, <2>2, <3>2, RingNewest
      <3>4. Behind(ram.write, v) = 0
        BY <1>1, SlotBefore
      <3> HIDE DEF v
      <3>5. l - Behind(ram.write, v) = l
        BY <2>10, <3>4
      <3>6. Retained[l] = Record(ram.entry[v])
        BY <2>10, <3>3, <3>5
      <3>7. ram.entry[v] \in HeldNow
        BY <1>1, <3>3, HeldFacts
      <3>8. ram.entry[v].boot <= ram.boot /\ ram.entry[v].boot \in BootNo
        BY <1>1, <3>7, HeldFacts DEF Inv, BootsAgree
      <3> QED BY <3>1, <3>3, <3>6, <3>8, RecordFields
    <2>12. Retained = <<>> => l = 0
      BY <2>10
    <2>13. Retained # <<>> => ram.boot >= Retained[Len(Retained)].boot
      BY <1>1, <2>10, <2>11, Big DEF BootNo
    <2>14. y = [seq |-> IF Retained = <<>> THEN 1
                        ELSE NextSequence(Retained[Len(Retained)].seq),
                event |-> x.event, boot |-> ram.boot]
      <3>1. y = [seq |-> x.seq, event |-> x.event, boot |-> ram.boot]
        BY <2>2 DEF Record
      <3>2. x.seq = IF Retained = <<>> THEN 1
                    ELSE NextSequence(Retained[Len(Retained)].seq)
        BY <2>2, <2>10, <2>11, <2>12
      <3> QED BY <3>1, <3>2
    <2>15. Retained' = Append(Retained, Journal!Record(cpu.event, ram.boot))
      <3> HIDE DEF y, S, R
      <3> QED BY <2>1, <2>9, <2>14 DEF Journal!Record, Journal!Last
    <2> HIDE DEF y, S, R
    <2> QED BY <1>1, <1>3, <2>10, <2>13, <2>15 DEF BootNo
  <1> QED BY <1>2, <1>3, CommitKeeps

(* What a call cut short leaves is one of the journal's survivors.         *)
LEMMA SurviveJournal ==
  ASSUME Inv, NEW A, Survive(A)
  PROVE  InOrder(Records(A)) \in Journal!Survivors
  <1> DEFINE S == Records(HeldNow)
  <1>1. Retained = InOrder(S) /\ Unique(HeldNow)
    BY RetainedIs DEF Inv
  <1>2. CASE A = HeldNow
    BY <1>1, <1>2 DEF Journal!Survivors
  <1>3. CASE A # HeldNow
    <2> DEFINE x == cpu.key
    <2>1. x \in HeldNow /\ A = HeldNow \ {x} /\ At("shift")
      BY <1>3 DEF Survive
    <2>2. PICK top \in Numbers : Near(HeldNow, Lost, top)
      BY DEF Inv, Calm
    <2>3. InWindow(S, top)
      BY <2>2, HeldWindow
    <2>4. Record(x) \in S /\ Records(A) = S \ {Record(x)}
      BY <1>1, <2>1, RecordsWithout
    <2>5. InHand = {Record(x)}
      BY <2>1 DEF InHand
    <2> DEFINE i == Rank(S, Record(x)) + 1
    <2> HIDE DEF S, x
    <2>6. /\ i \in 1 .. Len(InOrder(S))
          /\ InOrder(S \ {Record(x)})
               = SubSeq(InOrder(S), 1, i - 1)
                   \o SubSeq(InOrder(S), i + 1, Len(InOrder(S)))
          /\ InOrder(S)[i] = Record(x)
      BY <2>3, <2>4, JournalLoses, InOrderIs
    <2> HIDE DEF i
    <2>7. InOrder(Records(A)) = Journal!Without(Retained, i)
      BY <1>1, <2>4, <2>6 DEF Journal!Without
    <2>8. i \in {k \in 1 .. Len(Retained) : Retained[k] \in InHand}
      BY <1>1, <2>5, <2>6
    <2> QED BY <2>7, <2>8 DEF Journal!Survivors
  <1> QED BY <1>2, <1>3

(* One record less, wherever it was.                                       *)
LEMMA LosesJournal ==
  ASSUME Inv, NEW A, Survive(A), NEW R, NEW x, R \subseteq A,
         A \subseteq R \cup {x}
  PROVE  \/ InOrder(Records(R)) = InOrder(Records(A))
         \/ \E i \in 1 .. Len(InOrder(Records(A))) :
              InOrder(Records(R)) = Journal!Without(InOrder(Records(A)), i)
  <1> DEFINE S == Records(A)
  <1>1. CASE R = A
    BY <1>1
  <1>2. CASE R # A
    <2>1. x \in A /\ R = A \ {x}
      BY <1>2
    <2>2. A \subseteq HeldNow /\ Unique(A)
      BY DEF Survive, Inv, Unique
    <2>3. PICK top \in Numbers : Near(HeldNow, Lost, top)
      BY DEF Inv, Calm
    <2>4. S \subseteq Records(HeldNow)
      BY <2>2 DEF Records
    <2>5. InWindow(S, top)
      <3> HIDE DEF S
      <3> QED BY <2>3, <2>4, HeldWindow, WindowSubset
    <2>6. Record(x) \in S /\ Records(R) = S \ {Record(x)}
      BY <2>1, <2>2, RecordsWithout
    <2> DEFINE i == Rank(S, Record(x)) + 1
    <2> HIDE DEF S
    <2>7. /\ i \in 1 .. Len(InOrder(S))
          /\ InOrder(S \ {Record(x)})
               = SubSeq(InOrder(S), 1, i - 1)
                   \o SubSeq(InOrder(S), i + 1, Len(InOrder(S)))
      BY <2>5, <2>6, JournalLoses
    <2> HIDE DEF i
    <2>8. InOrder(Records(R)) = Journal!Without(InOrder(S), i)
      BY <2>6, <2>7 DEF Journal!Without
    <2> QED BY <2>7, <2>8 DEF S
  <1> QED BY <1>1, <1>2

-----------------------------------------------------------------------------
(* What the journal's user sees of a call.                                 *)

(* A record is written in an append, and its event is a real one.          *)
Calling ==
  /\ At("commit") \/ At("bump") => cpu.op = "append"
  /\ cpu.op = "append" => cpu.event \in Known \cup Later

(* A recovery is part of its call, and hands over to it.                   *)
LEMMA RecoverFrame ==
  ASSUME Inv, Recover
  PROVE  /\ cpu'.op = cpu.op /\ cpu'.event = cpu.event /\ life' = life
         /\ cpu.pc \notin {"idle", "commit", "bump"}
         /\ cpu'.pc \notin {"idle", "commit", "bump"}
         /\ ~Pick => cpu'.pc # "shift" \/ Shift
         /\ ~Shift /\ ~Place => ~At("shift")
  <1>1. cpu \in CpuType /\ cpu.op \in Ops \cup {"none"}
    BY StateFields DEF Inv
  <1>2. cpu.op = "none" <=> At("idle")
    BY DEF Inv, Control
  <1>3. CASE Erase \/ Stamp \/ DropDuplicate \/ ScanEmpty
    BY <1>1, <1>2, <1>3 DEF Erase, Stamp, DropDuplicate, ScanEmpty, Goto, At,
       CpuType, Ops, Calls
  <1>4. CASE Scan \/ Pack \/ Clean
    BY <1>1, <1>2, <1>4 DEF Scan, Pack, Clean, Goto, At, CpuType
  <1>5. CASE Pick \/ Shift \/ Place
    BY <1>1, <1>2, <1>5 DEF Pick, Shift, Place, Goto, At, CpuType
  <1>6. CASE Trim \/ Header
    BY <1>1, <1>2, <1>6 DEF Trim, Header, Goto, At, CpuType, Ops, Calls
  <1> QED BY <1>3, <1>4, <1>5, <1>6 DEF Recover

(* Every step keeps Calling.                                               *)
LEMMA CallingStep ==
  ASSUME Inv, Calling, [Next]_vars
  PROVE  Calling'
  <1>1. cpu \in CpuType
    BY DEF Inv, Types
  <1>2. cpu.pc \in Ops => cpu.pc = cpu.op
    BY DEF Inv, Control
  <1>3. CASE UNCHANGED vars
    BY <1>3 DEF vars, Calling, At
  <1>4. CASE Recover
    BY <1>4, RecoverFrame DEF Calling, At
  <1>5. CASE Request
    BY <1>5 DEF Request, Call, Calling, At, Resting
  <1>6. CASE Invalidate \/ Commit
    BY <1>1, <1>2, <1>6
       DEF Invalidate, Commit, Goto, Calling, At, CpuType, Ops, Calls
  <1>7. CASE Bump \/ Snapshot \/ Restore \/ Reset
    BY <1>7 DEF Bump, Snapshot, Restore, Reset, Resting, Calling, At
  <1>8. CASE Clear
    BY <1>1, <1>8 DEF Clear, Calling, At, CpuType
  <1>9. CASE Boot \/ Panic
    BY <1>9 DEF Boot, Panic, Call, Resting, Calling, At
  <1> QED BY <1>3, <1>4, <1>5, <1>6, <1>7, <1>8, <1>9 DEF Next

(* A step the journal's user does not see.                                 *)
LEMMA Unseen ==
  ASSUME Retained' = Retained, Reported' = Reported, InHand' = InHand,
         (cpu'.op = "clear") = (cpu.op = "clear"),
         Cuts' = Cuts, life'.damages = life.damages
  PROVE  UNCHANGED Journal!journal
  BY DEF Journal!journal

(* The counters stand still unless a call is cut short.                    *)
LEMMA CutsSame ==
  ASSUME life'.boots = life.boots, life'.panic = life.panic
  PROVE  Cuts' = Cuts
  BY DEF Cuts

(* Records held as before are the same journal.                            *)
LEMMA RetainedSame ==
  ASSUME Inv, [Next]_vars, HeldNow' = HeldNow
  PROVE  Retained' = Retained
  BY RetainedIs, RetainedNext

(* Recovery is not seen, but for the record the sort takes up and puts     *)
(* back.                                                                   *)
LEMMA RecoverStep ==
  ASSUME Inv, Recover
  PROVE  [Journal!Next]_(Journal!journal)
  <1>1. HeldNow' = HeldNow
    <2>1. CASE Erase
      <3>1. HeldNow = {}
        BY <2>1 DEF Erase, Inv, Control
      <3> QED BY <2>1, <3>1, EraseKeeps
    <2>2. CASE Stamp \/ DropDuplicate \/ ScanEmpty \/ Scan
      BY <2>2, StampKeeps, DropDuplicateKeeps, ScanEmptyKeeps, ScanKeeps
    <2>3. CASE Pack \/ Clean \/ Pick \/ Shift
      BY <2>3, PackKeeps, CleanKeeps, PickKeeps, ShiftKeeps
    <2>4. CASE Place \/ Trim \/ Header
      BY <2>4, PlaceKeeps, TrimKeeps, HeaderKeeps
    <2> QED BY <2>1, <2>2, <2>3, <2>4 DEF Recover
  <1>2. Retained' = Retained
    BY <1>1, RetainedSame DEF Next
  <1>3. /\ Reported' = Reported /\ Cuts' = Cuts
        /\ (cpu'.op = "clear") = (cpu.op = "clear")
        /\ life'.damages = life.damages
    BY RecoverFrame, CutsSame DEF Reported, At
  <1>4. CASE Pick
    <2>1. /\ cpu \in CpuType /\ At("sort") /\ ~At("shift") /\ Unique(HeldNow)
          /\ cpu.index <= cpu.packed /\ cpu.index \in Nat /\ cpu.packed \in Nat
          /\ cpu.packed < Depth /\ Packed(ram.entry, cpu.packed)
      <3>1. /\ At("sort") /\ ~At("shift")
        BY <1>4 DEF Pick, At
      <3>2. cpu.index \in 0 .. Depth /\ cpu.packed \in 0 .. Depth
        BY StateFields DEF Inv
      <3> QED BY <3>1, <3>2, Big DEF Inv, Types, Sorting
    <2>2. CASE cpu.index >= cpu.packed
      <3>1. cpu'.pc = "trim"
        BY <1>4, <2>1, <2>2 DEF Pick, Goto, CpuType
      <3>2. InHand' = InHand
        BY <2>1, <3>1 DEF InHand, At
      <3> QED BY <1>2, <1>3, <3>2, Unseen
    <2>3. CASE ~(cpu.index >= cpu.packed)
      <3> DEFINE e == ram.entry[cpu.index]
                 S == Records(HeldNow)
                 i == Rank(S, Record(e)) + 1
      <3>1. cpu'.pc = "shift" /\ cpu'.key = e
        BY <1>4, <2>1, <2>3 DEF Pick, CpuType
      <3>2. InHand' = {Record(e)}
        BY <3>1 DEF InHand, At
      <3>3. cpu.index \in Valids(ram.entry)
        BY <2>1, <2>3, Big DEF Packed, Slots
      <3>4. e \in HeldNow
        BY <3>3, HeldFacts DEF Inv
      <3>5. Record(e) \in S
        BY <3>4 DEF Records
      <3>6. PICK top \in Numbers : Near(HeldNow, Lost, top)
        BY DEF Inv, Calm
      <3>7. InWindow(S, top) /\ Retained = InOrder(S)
        BY <3>6, HeldWindow, RetainedIs
      <3> HIDE DEF S, e
      <3>8. i \in 1 .. Len(Retained) /\ Retained[i] = Record(e)
        BY <3>5, <3>7, InOrderIs
      <3> HIDE DEF i
      <3>9. Journal!TakeUp(i)
        BY <1>2, <1>3, <3>2, <3>8 DEF Journal!TakeUp
      <3> QED BY <3>8, <3>9 DEF Journal!Next
    <2> QED BY <2>2, <2>3
  <1>5. CASE Shift
    <2>1. cpu \in CpuType /\ At("shift")
      BY <1>5 DEF Shift, Inv, Types
    <2>2. cpu'.pc = "shift" /\ cpu'.key = cpu.key
      BY <1>5, <2>1 DEF Shift, CpuType, At
    <2>3. InHand' = InHand
      BY <2>1, <2>2 DEF InHand, At
    <2> QED BY <1>2, <1>3, <2>3, Unseen
  <1>6. CASE Place
    <2>1. cpu'.pc = "sort"
      BY <1>6 DEF Place, Inv, Types, CpuType
    <2>2. InHand' = {}
      BY <2>1 DEF InHand, At
    <2>3. Journal!PutBack
      BY <1>2, <1>3, <2>2 DEF Journal!PutBack
    <2> QED BY <2>3 DEF Journal!Next
  <1>7. CASE ~Pick /\ ~Shift /\ ~Place
    <2>1. InHand = {} /\ InHand' = {}
      BY <1>7, RecoverFrame DEF InHand, At
    <2> QED BY <1>2, <1>3, <2>1, Unseen
  <1> QED BY <1>4, <1>5, <1>6, <1>7

(* A call begins: an event is reported, or the log is to be cleared.       *)
LEMMA RequestStep ==
  ASSUME Inv, Request \/ Boot
  PROVE  [Journal!Next]_(Journal!journal)
  <1>1. /\ HeldNow' = HeldNow /\ life' = life
        /\ cpu.op \in {"none", "boot"} /\ cpu.pc \notin {"bump", "shift"}
    <2>1. HeldNow' = HeldNow
      BY RequestKeeps, BootKeeps
    <2> QED BY <2>1 DEF Request, Boot, Inv, Control, At, Ops, Calls
  <1>2. Retained' = Retained /\ Cuts' = Cuts /\ life'.damages = life.damages
    BY <1>1, RetainedSame, CutsSame DEF Next
  <1>3. /\ Reported = {} /\ InHand = {} /\ (cpu.op = "clear") = FALSE
    BY <1>1 DEF Reported, InHand, At
  <1>4. cpu'.pc = "scan" /\ InHand' = {}
    <2>1. cpu'.pc = "scan"
      BY DEF Request, Boot, Call, Resting
    <2> QED BY <2>1 DEF InHand, At
  <1>5. CASE \E e \in Known \cup Later : cpu' = Call("append", e)
    <2>1. PICK e \in Known \cup Later : cpu' = Call("append", e)
      BY <1>5
    <2>2. cpu'.op = "append" /\ cpu'.event = e
      BY <2>1 DEF Call, Resting
    <2>3. Reported' = {e} /\ (cpu'.op = "clear") = FALSE
      BY <1>4, <2>2 DEF Reported, At
    <2>4. Journal!Report(e)
      BY <1>2, <1>3, <1>4, <2>3 DEF Journal!Report, Journal!Idle
    <2> QED BY <2>4 DEF Journal!Next
  <1>6. CASE cpu' = Call("clear", NoEvent)
    <2>1. cpu'.op = "clear"
      BY <1>6 DEF Call, Resting
    <2>2. Reported' = {} /\ (cpu'.op = "clear") = TRUE
      BY <2>1 DEF Reported
    <2>3. Journal!Command
      BY <1>2, <1>3, <1>4, <2>2 DEF Journal!Command, Journal!Idle
    <2> QED BY <2>3 DEF Journal!Next
  <1>7. CASE cpu' = Call("snapshot", NoEvent) \/ cpu' = Call("boot", NoEvent)
    <2>1. cpu'.op \in {"snapshot", "boot"}
      BY <1>7 DEF Call, Resting
    <2>2. Reported' = {} /\ (cpu'.op = "clear") = FALSE
      BY <2>1 DEF Reported
    <2> QED BY <1>2, <1>3, <1>4, <2>2, Unseen
  <1> QED BY <1>5, <1>6, <1>7 DEF Request, Boot

(* An append makes room, then publishes, then returns.                     *)
LEMMA AppendStep ==
  ASSUME Inv, Calling, Invalidate \/ Commit \/ Bump
  PROVE  [Journal!Next]_(Journal!journal)
  <1>1. /\ cpu \in CpuType /\ life \in LifeType /\ cpu.op = "append"
        /\ cpu.event \in Known \cup Later /\ cpu.pc # "shift"
        /\ (cpu.op = "clear") = FALSE
    BY DEF Inv, Types, Control, Calling, Invalidate, Commit, Bump, At, Ops,
           Calls
  <1>2. InHand = {}
    BY <1>1 DEF InHand, At
  <1>3. CASE Invalidate
    <2>1. /\ cpu'.pc = "commit" /\ cpu'.op = cpu.op /\ cpu'.event = cpu.event
          /\ life' = life /\ cpu.pc = "append"
      BY <1>1, <1>3 DEF Invalidate, CpuType, At
    <2>2. /\ Reported' = {cpu.event} /\ Reported = {cpu.event}
          /\ InHand' = {} /\ Cuts' = Cuts /\ life'.damages = life.damages
          /\ (cpu'.op = "clear") = FALSE
      BY <1>1, <2>1, CutsSame DEF Reported, InHand, At
    <2>3. CASE Retained' = Retained
      BY <1>1, <1>2, <2>2, <2>3, Unseen
    <2>4. CASE Len(Retained) = Depth /\ Retained' = Tail(Retained)
      <3>1. Journal!Evict
        BY <1>1, <1>2, <2>2, <2>4 DEF Journal!Evict
      <3> QED BY <3>1 DEF Journal!Next
    <2> QED BY <1>3, <2>3, <2>4, InvalidateJournal
  <1>4. CASE Commit
    <2>1. /\ cpu'.pc = "bump" /\ cpu'.op = cpu.op /\ cpu'.event = cpu.event
          /\ life' = life /\ cpu.pc = "commit"
      BY <1>1, <1>4 DEF Commit, Goto, CpuType, At
    <2>2. /\ Reported' = {} /\ Reported = {cpu.event}
          /\ InHand' = {} /\ Cuts' = Cuts /\ life'.damages = life.damages
          /\ (cpu'.op = "clear") = FALSE
      BY <1>1, <2>1, CutsSame DEF Reported, InHand, At
    <2>3. CASE cpu.event \in Known
      <3>1. PICK b \in 0 .. MaxBoots + 1 :
              /\ Len(Retained) < Depth
              /\ Retained # <<>> => b >= Retained[Len(Retained)].boot
              /\ Retained' = Append(Retained, Journal!Record(cpu.event, b))
        BY <1>4, <2>3, CommitJournal
      <3>2. Journal!Publish(cpu.event, b)
        BY <1>1, <1>2, <2>2, <3>1 DEF Journal!Publish, Journal!Last
      <3> QED BY <2>3, <3>2 DEF Journal!Next
    <2>4. CASE cpu.event \notin Known
      <3>1. Retained' = Retained /\ cpu.event \in Later
        BY <1>1, <1>4, <2>4, CommitJournal
      <3>2. Journal!Reject(cpu.event)
        BY <1>1, <1>2, <2>2, <3>1 DEF Journal!Reject
      <3> QED BY <3>1, <3>2 DEF Journal!Next
    <2> QED BY <2>3, <2>4
  <1>5. CASE Bump
    <2>1. /\ cpu'.pc = "idle" /\ cpu'.op = "none" /\ cpu.pc = "bump"
          /\ life' = [life EXCEPT !.booting = FALSE]
      BY <1>5 DEF Bump, Resting, At
    <2>2. /\ life'.boots = life.boots /\ life'.panic = life.panic
          /\ life'.damages = life.damages
      BY <1>1, <2>1 DEF LifeType
    <2>3. Retained' = Retained
      BY <1>5, BumpKeeps, RetainedSame DEF Next
    <2>4. /\ Reported' = {} /\ Reported = {} /\ InHand' = {} /\ Cuts' = Cuts
          /\ (cpu'.op = "clear") = FALSE
      BY <2>1, <2>2, CutsSame DEF Reported, InHand, At
    <2> QED BY <1>1, <1>2, <2>2, <2>3, <2>4, Unseen
  <1> QED BY <1>3, <1>4, <1>5

(* The other calls: a snapshot reads, the service command empties the log. *)
LEMMA OtherStep ==
  ASSUME Inv, Snapshot \/ Clear \/ Restore
  PROVE  [Journal!Next]_(Journal!journal)
  <1>1. /\ cpu \in CpuType /\ life' = life
        /\ cpu.op = cpu.pc /\ cpu.pc \in {"snapshot", "clear", "restore"}
    BY DEF Inv, Types, Control, Snapshot, Clear, Restore, At, Ops, Calls
  <1>2. /\ InHand = {} /\ Reported = {} /\ Cuts' = Cuts
        /\ life'.damages = life.damages
    BY <1>1, CutsSame DEF InHand, Reported, At
  <1>3. CASE Snapshot \/ Restore
    <2>1. /\ cpu'.pc = "idle" /\ cpu'.op = "none"
          /\ cpu.op \in {"snapshot", "restore"}
      BY <1>1, <1>3 DEF Snapshot, Restore, Resting, At
    <2>2. Retained' = Retained
      BY <1>3, SnapshotKeeps, RestoreKeeps, RetainedSame DEF Next
    <2>3. /\ Reported' = {} /\ InHand' = {}
          /\ (cpu'.op = "clear") = FALSE /\ (cpu.op = "clear") = FALSE
      BY <2>1 DEF Reported, InHand, At
    <2> QED BY <1>2, <2>2, <2>3, Unseen
  <1>4. CASE Clear
    <2>1. cpu'.pc = "stamp" /\ cpu'.op = "restore" /\ cpu.op = "clear"
      BY <1>1, <1>4 DEF Clear, CpuType, At
    <2>2. Retained' = <<>>
      <3>1. HeldNow' = {} /\ Records({}) = {}
        BY <1>4, ClearKeeps DEF Records
      <3> QED BY <1>4, <3>1, RetainedNext, JournalEmpty DEF Next
    <2>3. /\ Reported' = {} /\ InHand' = {}
          /\ (cpu'.op = "clear") = FALSE /\ (cpu.op = "clear") = TRUE
      BY <2>1 DEF Reported, InHand, At
    <2>4. Journal!Clear
      BY <1>2, <2>2, <2>3 DEF Journal!Clear
    <2> QED BY <2>4 DEF Journal!Next
  <1> QED BY <1>3, <1>4

(* A reset or a panic cuts a call short.                                   *)
LEMMA CutStep ==
  ASSUME Inv, Reset \/ Panic
  PROVE  [Journal!Next]_(Journal!journal)
  <1>1. Retained' = InOrder(Records(HeldNow'))
    BY RetainedNext DEF Next
  <1>2. CASE Panic
    <2>1. PICK e \in Known : cpu' = Call("append", e)
      BY <1>2 DEF Panic
    <2>2. cpu'.op = "append" /\ cpu'.event = e /\ cpu'.pc = "scan"
      BY <2>1 DEF Call, Resting
    <2>3. /\ Reported' = {e} /\ InHand' = {} /\ (cpu'.op = "clear") = FALSE
      BY <2>2 DEF Reported, InHand, At
    <2>4. /\ Survive(HeldNow') /\ life'.damages = life.damages /\ Cuts' > Cuts
      BY <1>2, PanicKeeps
    <2>5. Retained' \in Journal!Survivors
      BY <1>1, <2>4, SurviveJournal
    <2>6. Journal!CutShort
      BY <2>3, <2>4, <2>5 DEF Journal!CutShort, Journal!Ended
    <2> QED BY <2>6 DEF Journal!Next
  <1>3. CASE Reset
    <2>1. cpu'.op = "none" /\ cpu'.pc = "idle"
      BY <1>3 DEF Reset, Resting
    <2>2. /\ Reported' = {} /\ InHand' = {} /\ (cpu'.op = "clear") = FALSE
      BY <2>1 DEF Reported, InHand, At
    <2>3. PICK A : /\ Survive(A) /\ HeldNow' \subseteq A
                   /\ \E x : A \subseteq HeldNow' \cup {x}
                   /\ life'.damages = life.damages => HeldNow' = A
      BY <1>3, ResetKeeps
    <2>4. /\ life'.damages \in {life.damages, life.damages + 1}
          /\ Cuts' > Cuts
      BY <1>3, ResetKeeps
    <2> DEFINE q == InOrder(Records(A))
    <2>5. q \in Journal!Survivors
      BY <2>3, SurviveJournal
    <2>6. CASE life'.damages = life.damages
      <3>1. Journal!CutShort
        BY <1>1, <2>2, <2>3, <2>4, <2>5, <2>6
           DEF Journal!CutShort, Journal!Ended
      <3> QED BY <3>1 DEF Journal!Next
    <2>7. CASE life'.damages = life.damages + 1
      <3>1. \/ Retained' = q
            \/ \E i \in 1 .. Len(q) : Retained' = Journal!Without(q, i)
        BY <1>1, <2>3, LosesJournal
      <3> HIDE DEF q
      <3>2. Journal!Damage
        BY <2>2, <2>4, <2>5, <2>7, <3>1 DEF Journal!Damage, Journal!Ended
      <3> QED BY <3>2 DEF Journal!Next
    <2> QED BY <2>4, <2>6, <2>7
  <1> QED BY <1>2, <1>3

(* Every step is a step of the journal, or is not seen.                    *)
LEMMA JournalStep ==
  ASSUME Inv, Calling, [Next]_vars
  PROVE  [Journal!Next]_(Journal!journal)
  <1>1. CASE UNCHANGED vars
    BY <1>1 DEF vars, Journal!journal, Retained, Held, Reported, InHand, Cuts,
                At
  <1>2. CASE Next
    BY <1>2, RecoverStep, RequestStep, AppendStep, OtherStep, CutStep DEF Next
  <1> QED BY <1>1, <1>2

(* Wherever a call is cut short, the retained memory is the journal of     *)
(* RetainedLog: what was published stays, in order and numbered without a  *)
(* gap, but for the oldest record of a full log, the one the sort had in   *)
(* its local, and what the memory lost.                                    *)
THEOREM LogIsAJournal ==
  Spec => KeepsJournal
  <1>1. Init => Journal!Init /\ Calling
    <2> SUFFICES ASSUME Init PROVE Journal!Init /\ Calling
      OBVIOUS
    <2>1. /\ cpu.op = "none" /\ cpu.pc = "idle" /\ life.boots = 0
          /\ life.panic = FALSE /\ life.damages = 0 /\ ~ram.magic
      BY InitKeeps DEF Init, Resting
    <2>2. /\ Retained = <<>> /\ Reported = {} /\ InHand = {} /\ Cuts = 0
          /\ (cpu.op = "clear") = FALSE
      BY <2>1 DEF Retained, Reported, InHand, Cuts, At
    <2> QED BY <2>1, <2>2 DEF Journal!Init, Calling, At
  <1>2. Inv /\ Calling /\ [Next]_vars => Calling'
    BY CallingStep
  <1>3. Inv /\ Calling /\ [Next]_vars => [Journal!Next]_(Journal!journal)
    BY JournalStep
  <1> QED BY <1>1, <1>2, <1>3, InvAlways, PTL
          DEF Spec, KeepsJournal, Journal!Spec
=============================================================================
