----------------------- MODULE CanTxScheduler_proofs -----------------------
(***************************************************************************)
(* Ownership of mailboxes, recall of obsolete frames, and the order of     *)
(* what goes out on each stream of CanTxScheduler (that it implements      *)
(* FrameStream), for every set of frames and mailboxes and any number of   *)
(* generations and bus-offs.                                               *)
(***************************************************************************)
EXTENDS CanTxScheduler, TLAPS

Busy == {"reserved", "loaded", "abort"}

(* The streams have their types, and one without a generation is done.     *)
StreamOK(s, x) ==
  /\ x \in QueueType(s)
  /\ x.active.gen = NoGen => \A f \in Frames[s] : x.active.frame[f] = "complete"

QueueOK(q) == DOMAIN q = Streams /\ \A s \in Streams : StreamOK(s, q[s])

(* Constants, unfolded. *)
LEMMA ConstantFacts ==
  /\ NoGen = 0
  /\ \A s \in Streams : s # "none" /\ MaxGen[s] \in Nat /\ 0 \in 0..MaxGen[s]
  /\ \A s \in Streams : \A f \in Frames[s] : f \in Nat
  /\ "protected" \in Streams /\ Required \subseteq Frames["protected"]
  BY ConstantsAssumption DEF ConstantsAssumption, NoGen, Required

(* A token names a frame of a generation that was published. *)
LEMMA TokenFacts ==
  ASSUME NEW t \in Tokens, t # NoToken
  PROVE  /\ t.stream \in Streams /\ t.gen \in 1..MaxGen[t.stream]
         /\ t.frame \in Frames[t.stream]
         /\ t = Token(t.stream, t.gen, t.frame)
  BY DEF Tokens, Token

(* Conversely. *)
LEMMA TokenType ==
  ASSUME NEW s \in Streams, NEW g \in 1..MaxGen[s], NEW f \in Frames[s]
  PROVE  Token(s, g, f) \in Tokens /\ Token(s, g, f) # NoToken
  BY ConstantFacts DEF Tokens, Token, NoToken

(* What a stream is given to hold. *)
LEMMA ActiveFacts ==
  ASSUME NEW s \in Streams
  PROVE  /\ Empty(s) \in GenerationType(s) /\ Empty(s).gen = NoGen
         /\ ~Empty(s).stale
         /\ \A f \in Frames[s] : Empty(s).frame[f] = "complete"
         /\ \A g \in 1..MaxGen[s] :
              /\ Fresh(s, g) \in GenerationType(s) /\ Fresh(s, g).gen = g
              /\ g # NoGen /\ g \in 0..MaxGen[s] /\ ~Fresh(s, g).stale
              /\ \A f \in Frames[s] : Fresh(s, g).frame[f] = "pending"
  BY ConstantFacts DEF GenerationType, Empty, Fresh, FrameStates

(* Promotion leaves a stream alone that is not done; what it makes of one  *)
(* that is done has no frame in hardware and is not stale.                 *)
LEMMA PromotedFacts ==
  ASSUME NEW s \in Streams, NEW x, StreamOK(s, x)
  PROVE  /\ StreamOK(s, Promoted(s, x))
         /\ Promoted(s, x).last = x.last
         /\ Promoted(s, x).published = x.published
         /\ Promoted(s, x).tuning = x.tuning
         /\ \/ Promoted(s, x) = x
            \/ /\ \A f \in Frames[s] : x.active.frame[f] \notin Busy
               /\ \A f \in Frames[s] :
                    Promoted(s, x).active.frame[f] \notin Busy
               /\ ~Promoted(s, x).active.stale
  <1>1. CASE x.active.gen = NoGen \/ ~Done(x)
    BY <1>1 DEF Promoted
  <1>2. CASE ~(x.active.gen = NoGen \/ ~Done(x))
    <2> DEFINE a == IF x.pending = NoGen THEN Empty(s) ELSE Fresh(s, x.pending)
    <2>1. Promoted(s, x) = [x EXCEPT !.active = a, !.pending = NoGen]
      BY <1>2 DEF Promoted, StreamOK, QueueType
    <2>2. \A f \in Frames[s] : x.active.frame[f] \notin Busy
      BY <1>2 DEF Done, Settled, StreamOK, QueueType, GenerationType, Busy
    <2>3. x.pending \in 0..MaxGen[s] /\ x.pending # NoGen
            => x.pending \in 1..MaxGen[s]
      BY ConstantFacts
    <2>4. x.pending \in 0..MaxGen[s]
      BY DEF StreamOK, QueueType
    <2>5. a \in GenerationType(s)
      BY <2>3, <2>4, ActiveFacts
    <2>6. a.gen = NoGen => \A f \in Frames[s] : a.frame[f] = "complete"
      BY <2>3, <2>4, ActiveFacts
    <2>7. ~a.stale /\ \A f \in Frames[s] : a.frame[f] \notin Busy
      BY <2>3, <2>4, ActiveFacts DEF Busy
    <2>8. NoGen \in 0..MaxGen[s]
      BY ConstantFacts
    <2> HIDE DEF a
    <2>9. /\ StreamOK(s, Promoted(s, x)) /\ Promoted(s, x).active = a
          /\ Promoted(s, x).last = x.last
          /\ Promoted(s, x).published = x.published
          /\ Promoted(s, x).tuning = x.tuning
      BY <2>1, <2>5, <2>6, <2>8 DEF StreamOK, QueueType
    <2> QED BY <2>2, <2>7, <2>9
  <1> QED BY <1>1, <1>2

(* What a step may do to a stream without touching a frame in hardware. *)
Idle(s, x) == \A f \in Frames[s] : x.active.frame[f] \notin Busy

Quiet(s, x, y) ==
  \/ /\ y.active.gen = x.active.gen
     /\ \A f \in Frames[s] :
          \/ y.active.frame[f] = x.active.frame[f]
          \/ x.active.frame[f] \notin Busy /\ y.active.frame[f] \notin Busy
  \/ Idle(s, x) /\ Idle(s, y)

(* Quiet steps compose. *)
LEMMA QuietTrans ==
  ASSUME NEW s, NEW x, NEW y, NEW z, Quiet(s, x, y), Quiet(s, y, z)
  PROVE  Quiet(s, x, z)
  BY DEF Quiet, Idle

(* Promotion is quiet. *)
LEMMA PromotedQuiet ==
  ASSUME NEW s \in Streams, NEW x, StreamOK(s, x)
  PROVE  Quiet(s, x, Promoted(s, x))
  BY PromotedFacts DEF Quiet, Idle

(* A new generation in a stream with nothing in hardware. *)
LEMMA StartedFacts ==
  ASSUME NEW s \in Streams, NEW x, StreamOK(s, x), NEW g \in 1..MaxGen[s],
         Idle(s, x)
  PROVE  /\ StreamOK(s, Started(s, x, g)) /\ Quiet(s, x, Started(s, x, g))
         /\ Started(s, x, g).last = x.last
  <1> DEFINE y == Started(s, x, g)
             a == Fresh(s, g)
  <1>1. y = [x EXCEPT !.active = a, !.pending = NoGen]
    BY DEF Started
  <1>2. /\ a \in GenerationType(s) /\ a.gen # NoGen
        /\ \A f \in Frames[s] : a.frame[f] = "pending"
    BY ActiveFacts
  <1>3. NoGen \in 0..MaxGen[s]
    BY ConstantFacts
  <1> HIDE DEF y, a
  <1>4. StreamOK(s, y) /\ y.active = a /\ y.last = x.last
    BY <1>1, <1>2, <1>3 DEF StreamOK, QueueType
  <1>5. Quiet(s, x, y)
    BY <1>2, <1>4 DEF Quiet, Idle, Busy
  <1> QED BY <1>4, <1>5 DEF y

(* Dropping what waits is quiet. *)
LEMMA DiscardedFacts ==
  ASSUME NEW s \in Streams, NEW x, StreamOK(s, x), NEW g \in 1..MaxGen[s],
         x.active.gen # NoGen, NEW b \in BOOLEAN, NEW y,
         y = [x EXCEPT !.active = IF b THEN Discarded(@) ELSE @, !.pending = g]
  PROVE  StreamOK(s, y) /\ Quiet(s, x, y) /\ y.last = x.last
  <1> DEFINE a == IF b THEN Discarded(x.active) ELSE x.active
  <1>1. /\ x.active \in GenerationType(s) /\ g \in 0..MaxGen[s]
    BY ConstantFacts DEF StreamOK, QueueType
  <1>2. /\ a \in GenerationType(s) /\ a.gen = x.active.gen
        /\ \A f \in Frames[s] :
             \/ a.frame[f] = x.active.frame[f]
             \/ x.active.frame[f] \notin Busy /\ a.frame[f] \notin Busy
    BY <1>1 DEF Discarded, GenerationType, FrameStates, Busy
  <1>3. y = [x EXCEPT !.active = a, !.pending = g]
    BY DEF StreamOK, QueueType
  <1> HIDE DEF a
  <1>4. StreamOK(s, y) /\ y.active = a /\ y.last = x.last
    BY <1>1, <1>2, <1>3 DEF StreamOK, QueueType
  <1> QED BY <1>2, <1>4 DEF Quiet

(* What publication does to a stream that is promoted already. *)
Accepts(s, x, y) == StreamOK(s, y) /\ Quiet(s, x, y)

(* Nothing in hardware means nothing reserved, loaded or to be aborted. *)
LEMMA NotInHardware ==
  ASSUME NEW s \in Streams, NEW x, StreamOK(s, x),
         x.active.gen = NoGen \/ ~InHardware(x)
  PROVE  Idle(s, x)
  BY DEF Idle, InHardware, StreamOK, QueueType, GenerationType, Busy

(* ams_can_tx_publish_critical *)
LEMMA CommandFacts ==
  ASSUME "critical" \in Streams, NEW x, StreamOK("critical", x),
         NEW g \in 1..MaxGen["critical"]
  PROVE  Accepts("critical", x, Command(x, g))
  <1>1. CASE x.active.gen = NoGen \/ ~InHardware(x)
    BY <1>1, NotInHardware, StartedFacts DEF Command, Accepts
  <1>2. CASE ~(x.active.gen = NoGen \/ ~InHardware(x))
    <2>1. Command(x, g)
            = [x EXCEPT !.active = IF TRUE THEN Discarded(@) ELSE @,
                        !.pending = g]
      BY <1>2 DEF Command
    <2> QED BY <1>2, <2>1, DiscardedFacts DEF Accepts
  <1> QED BY <1>1, <1>2

(* ams_can_tx_publish_protected *)
LEMMA BundleFacts ==
  ASSUME NEW x, StreamOK("protected", x),
         NEW g \in 1..MaxGen["protected"], NEW b \in BOOLEAN
  PROVE  Accepts("protected", x, Bundle(x, g, b))
  <1>0. "protected" \in Streams
    BY ConstantFacts
  <1>1. CASE x.active.gen = NoGen
    BY <1>0, <1>1, NotInHardware, StartedFacts DEF Bundle, Accepts
  <1>2. CASE x.active.gen # NoGen
    <2> DEFINE y == [x EXCEPT !.active = IF b THEN Discarded(@) ELSE @,
                              !.pending = g]
    <2>1. Bundle(x, g, b) = Promoted("protected", y)
      BY <1>2 DEF Bundle
    <2>2. StreamOK("protected", y) /\ Quiet("protected", x, y)
      BY <1>0, <1>2, DiscardedFacts
    <2> HIDE DEF y
    <2> QED BY <1>0, <2>1, <2>2, PromotedFacts, PromotedQuiet, QuietTrans
            DEF Accepts
  <1> QED BY <1>1, <1>2

(* publish_detail *)
LEMMA DetailFacts ==
  ASSUME "detail" \in Streams, NEW x, StreamOK("detail", x),
         NEW g \in 1..MaxGen["detail"], NEW b \in BOOLEAN
  PROVE  Accepts("detail", x, Detail(x, g, b))
  <1>1. CASE x.active.gen = NoGen
    BY <1>1, NotInHardware, StartedFacts DEF Detail, Accepts
  <1>2. CASE x.active.gen # NoGen /\ x.pending # NoGen /\ b /\ ~x.tuning
    BY <1>2 DEF Detail, Accepts, Quiet
  <1>3. CASE /\ x.active.gen # NoGen
             /\ ~(x.pending # NoGen /\ b /\ ~x.tuning)
    <2>1. Detail(x, g, b) = [x EXCEPT !.pending = g, !.tuning = b]
      BY <1>3 DEF Detail
    <2>2. g \in 0..MaxGen["detail"]
      BY ConstantFacts
    <2> QED BY <1>3, <2>1, <2>2 DEF Accepts, Quiet, StreamOK, QueueType
  <1> QED BY <1>1, <1>2, <1>3

(* Publication is quiet, whatever the stream and its options. *)
LEMMA PublishedFacts ==
  ASSUME NEW s \in Streams, NEW x, StreamOK(s, x),
         x.published < MaxGen[s], NEW option \in BOOLEAN
  PROVE  Accepts(s, x, Published(s, x, option))
  <1> DEFINE p == Promoted(s, x)
             g == x.published + 1
             n == CASE s = "critical"  -> Command(p, g)
                    [] s = "protected" -> Bundle(p, g, option)
                    [] s = "detail"    -> Detail(p, g, option)
  <1>1. StreamOK(s, p) /\ Quiet(s, x, p)
    BY PromotedFacts, PromotedQuiet
  <1>2. g \in 1..MaxGen[s] /\ g \in 0..MaxGen[s]
    BY ConstantFacts DEF StreamOK, QueueType
  <1>3. s \in {"critical", "protected", "detail"}
    BY ConstantsAssumption DEF ConstantsAssumption
  <1>4. Published(s, x, option) = [n EXCEPT !.published = g]
    BY DEF Published
  <1> HIDE DEF p, g
  <1>5. Accepts(s, p, n)
    BY <1>1, <1>2, <1>3, CommandFacts, BundleFacts, DetailFacts
  <1> HIDE DEF n
  <1>6. Accepts(s, p, Published(s, x, option))
    BY <1>2, <1>4, <1>5 DEF Accepts, Quiet, Idle, StreamOK, QueueType
  <1> QED BY <1>1, <1>6, QuietTrans DEF Accepts

-----------------------------------------------------------------------------
(* The inductive invariant.                                                *)

(* What a mailbox is to software and what it holds.                        *)
HeldInv(q, b, p) ==
  \A m \in Mailboxes :
    /\ b[m].sw = "free" =>
         /\ b[m].owner = NoToken
         /\ b[m].hw = "empty" => b[m].holds = NoToken
         /\ b[m].hw # "empty" => p.pc = "mark" /\ b[m].holds = p.token
    /\ b[m].sw # "free" =>
         /\ b[m].owner = b[m].holds /\ b[m].owner # NoToken
         /\ q[b[m].owner.stream].active.gen = b[m].owner.gen
         /\ q[b[m].owner.stream].active.frame[b[m].owner.frame] = b[m].sw
         /\ b[m].hw # "empty"
         /\ b[m].sw = "abort" => b[m].hw # "request"

(* No two mailboxes are one frame's, and one at most is being written.     *)
SingleInv(b) ==
  \A m, n \in Mailboxes :
    \/ m = n
    \/ b[m].sw # "free" /\ b[m].owner # b[n].owner
    \/ b[n].sw # "free" /\ b[m].owner # b[n].owner
    \/ b[m].sw = "free" /\ b[n].sw = "free"
         /\ (b[m].hw = "empty" \/ b[n].hw = "empty")

(* The pump has a token exactly while it loads, and that frame is reserved. *)
PumpInv(q, p) ==
  /\ p.by = "none" <=> p.pc = "idle"
  /\ p.token # NoToken <=> p.pc \in {"load", "mark"}
  /\ p.token # NoToken =>
       /\ q[p.token.stream].active.gen = p.token.gen
       /\ q[p.token.stream].active.frame[p.token.frame] = "reserved"

(* Every selected frame is somebody's.                                     *)
SelectedInv(q, b, p) ==
  \A s \in Streams : \A f \in Frames[s] :
    /\ q[s].active.frame[f] = "reserved"
         => p.token = Token(s, q[s].active.gen, f)
    /\ q[s].active.frame[f] \in {"loaded", "abort"}
         => \E m \in Mailboxes :
              /\ b[m].sw # "free"
              /\ b[m].owner = Token(s, q[s].active.gen, f)

Own(q, b, p) ==
  HeldInv(q, b, p) /\ SingleInv(b) /\ PumpInv(q, p) /\ SelectedInv(q, b, p)

WireOK(w) ==
  /\ DOMAIN w = Streams
  /\ \A s \in Streams : w[s] \in [gen : 0..MaxGen[s], sent : SUBSET Frames[s]]

OwnInv ==
  /\ QueueOK(queue) /\ mailbox \in [Mailboxes -> MailboxType]
  /\ pump \in PumpType /\ task \in {"idle", "abort"} /\ gate \in GateType
  /\ WireOK(wire) /\ Own(queue, mailbox, pump)

(* It says what the runs check. *)
LEMMA OwnImplies == OwnInv => TypeOK /\ OwnershipAgrees
  <1> SUFFICES ASSUME OwnInv PROVE TypeOK /\ OwnershipAgrees
    OBVIOUS
  <1>1. TypeOK
    BY DEF OwnInv, TypeOK, QueueOK, StreamOK, WireOK
  <1>2. ASSUME NEW m \in Mailboxes
        PROVE  IF mailbox[m].sw = "free"
               THEN mailbox[m].hw # "empty" =>
                      pump.pc = "mark" /\ mailbox[m].holds = pump.token
               ELSE /\ mailbox[m].owner = mailbox[m].holds
                    /\ Found(queue, mailbox[m].owner)
                    /\ StateOf(mailbox[m].owner) = mailbox[m].sw
                    /\ \A n \in Mailboxes :
                         mailbox[n].owner = mailbox[m].owner => m = n
    BY DEF OwnInv, Own, HeldInv, SingleInv, Found, StateOf
  <1>3. pump.token # NoToken =>
          Found(queue, pump.token) /\ StateOf(pump.token) = "reserved"
    BY DEF OwnInv, Own, PumpInv, Found, StateOf
  <1>4. ASSUME NEW s \in Streams, NEW f \in Frames[s]
        PROVE  LET t == Token(s, queue[s].active.gen, f)
               IN  CASE StateOf(t) = "reserved" -> pump.token = t
                     [] StateOf(t) \in {"loaded", "abort"} ->
                          \E m \in Mailboxes :
                            mailbox[m].sw # "free" /\ mailbox[m].owner = t
                     [] OTHER -> TRUE
    BY DEF OwnInv, Own, SelectedInv, StateOf, Token
  <1> QED BY <1>1, <1>2, <1>3, <1>4 DEF OwnershipAgrees

-----------------------------------------------------------------------------
(* Steps that leave ownership alone.                                       *)

(* Streams that change quietly: what is in hardware is not touched. *)
LEMMA QuietStep ==
  ASSUME NEW q, NEW n, NEW b \in [Mailboxes -> MailboxType],
         NEW p \in PumpType, Own(q, b, p),
         \A s \in Streams : Quiet(s, q[s], n[s])
  PROVE  Own(n, b, p)
  <1>1. \A t \in Tokens :
          /\ t # NoToken /\ q[t.stream].active.gen = t.gen
          /\ q[t.stream].active.frame[t.frame] \in Busy
          => /\ n[t.stream].active.gen = t.gen
             /\ n[t.stream].active.frame[t.frame]
                  = q[t.stream].active.frame[t.frame]
    BY TokenFacts DEF Quiet, Idle
  <1>2. \A s \in Streams : \A f \in Frames[s] :
          n[s].active.frame[f] \in Busy
          => /\ n[s].active.gen = q[s].active.gen
             /\ n[s].active.frame[f] = q[s].active.frame[f]
    BY DEF Quiet, Idle
  <1>3. HeldInv(n, b, p)
    BY <1>1 DEF Own, HeldInv, MailboxType, Busy
  <1>4. PumpInv(n, p)
    BY <1>1 DEF Own, PumpInv, PumpType, Busy
  <1>5. SelectedInv(n, b, p)
    BY <1>2 DEF Own, SelectedInv, Busy
  <1> QED BY <1>3, <1>4, <1>5 DEF Own

(* Hardware that works on what it was asked to do. *)
Works(b, c) ==
  \A m \in Mailboxes :
    /\ c[m].sw = b[m].sw /\ c[m].owner = b[m].owner /\ c[m].holds = b[m].holds
    /\ c[m].hw = "empty" <=> b[m].hw = "empty"
    /\ c[m].hw = "request" => b[m].hw = "request"

(* Such work leaves ownership alone. *)
LEMMA HardwareStep ==
  ASSUME NEW q, NEW b, NEW c, NEW p, Own(q, b, p), Works(b, c)
  PROVE  Own(q, c, p)
  <1>1. HeldInv(q, c, p)
    BY DEF Own, HeldInv, Works
  <1>2. SingleInv(c)
    BY DEF Own, SingleInv, Works
  <1>3. SelectedInv(q, c, p)
    BY DEF Own, SelectedInv, Works
  <1> QED BY <1>1, <1>2, <1>3 DEF Own

(* A pump that moves without a token. *)
LEMMA PumpStep ==
  ASSUME NEW q, NEW b, NEW p, NEW r, Own(q, b, p),
         r.token = p.token,
         r.pc = p.pc \/ {p.pc, r.pc} \cap {"load", "mark"} = {},
         r.by = "none" <=> r.pc = "idle"
  PROVE  Own(q, b, r)
  <1>1. r.pc \in {"load", "mark"} <=> p.pc \in {"load", "mark"}
    OBVIOUS
  <1>2. HeldInv(q, b, r)
    BY <1>1 DEF Own, HeldInv
  <1>3. PumpInv(q, r)
    BY <1>1 DEF Own, PumpInv
  <1>4. SelectedInv(q, b, r)
    BY DEF Own, SelectedInv
  <1> QED BY <1>2, <1>3, <1>4 DEF Own

(* HAL_CAN_AbortTxRequest *)
LEMMA AbortAskedFacts ==
  ASSUME NEW b \in [Mailboxes -> MailboxType], NEW which
  PROVE  /\ AbortAsked(b, which) \in [Mailboxes -> MailboxType]
         /\ Works(b, AbortAsked(b, which))
         /\ \A m \in which \cap Mailboxes :
              AbortAsked(b, which)[m].hw # "request"
  BY DEF AbortAsked, MailboxType, Works

(* A kick. *)
LEMMA KickedFacts ==
  ASSUME pump \in PumpType, NEW who \in {"task", "isr"}, NEW q, NEW b,
         Own(q, b, pump)
  PROVE  Kicked(who) \in PumpType /\ Own(q, b, Kicked(who))
  <1> DEFINE r == Kicked(who)
  <1>1. CASE pump.by # "none"
    <2>1. r = [pump EXCEPT !.kick = TRUE]
      BY <1>1 DEF Kicked
    <2>2. /\ r \in PumpType /\ r.token = pump.token /\ r.pc = pump.pc
          /\ r.by = pump.by
      BY <2>1 DEF PumpType
    <2>3. r.by = "none" <=> r.pc = "idle"
      BY <2>2 DEF Own, PumpInv
    <2> HIDE DEF r
    <2> QED BY <2>2, <2>3, PumpStep DEF r
  <1>2. CASE pump.by = "none"
    <2>1. r = [pump EXCEPT !.by = who, !.pc = "reserve"]
      BY <1>2 DEF Kicked
    <2>2. /\ r \in PumpType /\ r.token = pump.token /\ r.pc = "reserve"
          /\ r.by # "none"
      BY <2>1 DEF PumpType
    <2>3. pump.pc = "idle"
      BY <1>2 DEF Own, PumpInv
    <2> HIDE DEF r
    <2> QED BY <2>2, <2>3, PumpStep DEF r
  <1> QED BY <1>1, <1>2

(* Promotion of all streams. *)
LEMMA PromotedAllFacts ==
  ASSUME NEW q, QueueOK(q), NEW b \in [Mailboxes -> MailboxType],
         NEW p \in PumpType, Own(q, b, p)
  PROVE  QueueOK(PromotedAll(q)) /\ Own(PromotedAll(q), b, p)
  <1>1. QueueOK(PromotedAll(q))
    BY PromotedFacts DEF QueueOK, PromotedAll
  <1>2. \A s \in Streams : Quiet(s, q[s], PromotedAll(q)[s])
    BY PromotedQuiet DEF QueueOK, PromotedAll
  <1> QED BY <1>1, <1>2, QuietStep

-----------------------------------------------------------------------------
(* Steps of one frame.                                                     *)

(* What marking a token changes. *)
LEMMA MarkedFacts ==
  ASSUME NEW q, QueueOK(q), NEW t \in Tokens, Found(q, t), NEW from,
         q[t.stream].active.frame[t.frame] \in from, NEW to \in FrameStates
  PROVE  LET n == Marked(q, t, from, to)
         IN  /\ QueueOK(n)
             /\ \A s \in Streams :
                  /\ n[s].active.gen = q[s].active.gen
                  /\ n[s].active.stale = q[s].active.stale
                  /\ \A f \in Frames[s] :
                       n[s].active.frame[f]
                         = IF s = t.stream /\ f = t.frame THEN to
                           ELSE q[s].active.frame[f]
  <1> DEFINE n == Marked(q, t, from, to)
             x == q[t.stream]
             a == x.active
             fr == [a.frame EXCEPT ![t.frame] = to]
             c == [a EXCEPT !.frame = fr]
             y == [x EXCEPT !.active = c]
  <1>1. t # NoToken /\ t.stream \in Streams /\ t.frame \in Frames[t.stream]
        /\ t.gen # NoGen
    BY TokenFacts, ConstantFacts DEF Found
  <1>2. n = [q EXCEPT ![t.stream] = y]
    BY DEF Marked
  <1>3. StreamOK(t.stream, x)
    BY <1>1 DEF QueueOK
  <1>4. a \in GenerationType(t.stream) /\ a.gen = t.gen
    BY <1>3 DEF StreamOK, QueueType, Found
  <1>5. /\ fr \in [Frames[t.stream] -> FrameStates]
        /\ \A f \in Frames[t.stream] :
             fr[f] = IF f = t.frame THEN to ELSE a.frame[f]
    BY <1>1, <1>4 DEF GenerationType
  <1> HIDE DEF fr
  <1>6. /\ c \in GenerationType(t.stream) /\ c.gen = a.gen
        /\ c.stale = a.stale /\ c.frame = fr
    BY <1>4, <1>5 DEF GenerationType
  <1> HIDE DEF c
  <1>7. StreamOK(t.stream, y) /\ y.active = c
    BY <1>1, <1>3, <1>4, <1>6 DEF StreamOK, QueueType
  <1> HIDE DEF y
  <1>8. /\ DOMAIN n = Streams /\ n[t.stream] = y
        /\ \A s \in Streams : s # t.stream => n[s] = q[s]
    BY <1>1, <1>2 DEF QueueOK
  <1> HIDE DEF n
  <1>9. QueueOK(n)
    BY <1>7, <1>8 DEF QueueOK
  <1>10. ASSUME NEW s \in Streams
         PROVE  /\ n[s].active.gen = q[s].active.gen
                /\ n[s].active.stale = q[s].active.stale
                /\ \A f \in Frames[s] :
                     n[s].active.frame[f]
                       = IF s = t.stream /\ f = t.frame THEN to
                         ELSE q[s].active.frame[f]
    BY <1>5, <1>6, <1>7, <1>8
  <1> QED BY <1>9, <1>10 DEF n

(* A waiting frame may be the next token. *)
LEMMA FirstFacts ==
  ASSUME NEW q, QueueOK(q), NEW t \in First(q)
  PROVE  /\ t \in Tokens /\ Found(q, t)
         /\ q[t.stream].active.frame[t.frame] = "pending"
  <1>1. /\ t \in [stream : Streams, gen : {q[s].active.gen : s \in Streams},
                  frame : UNION {Frames[s] : s \in Streams}]
        /\ t.gen = q[t.stream].active.gen /\ t.frame \in Frames[t.stream]
        /\ q[t.stream].active.frame[t.frame] = "pending"
    BY DEF First, Waiting
  <1>2. t = Token(t.stream, t.gen, t.frame) /\ t.stream \in Streams
    BY <1>1 DEF Token
  <1>3. StreamOK(t.stream, q[t.stream])
    BY <1>2 DEF QueueOK
  <1>4. t.gen # NoGen /\ t.gen \in 0..MaxGen[t.stream]
    BY <1>1, <1>3 DEF StreamOK, QueueType, GenerationType
  <1>5. t.gen \in 1..MaxGen[t.stream]
    BY <1>2, <1>4, ConstantFacts
  <1>6. t \in Tokens /\ t # NoToken
    BY <1>1, <1>2, <1>5, TokenType
  <1> QED BY <1>1, <1>6 DEF Found

(* Reserve *)
LEMMA ReserveOwn ==
  ASSUME OwnInv, Reserve
  PROVE  OwnInv'
  <1>0. Own(queue, mailbox, pump) /\ QueueOK(queue) /\ pump \in PumpType
        /\ mailbox \in [Mailboxes -> MailboxType]
    BY DEF OwnInv
  <1>1. CASE pump' = [pump EXCEPT !.pc = "release"] /\ UNCHANGED queue
    <2>1. /\ pump' \in PumpType /\ pump'.token = pump.token
          /\ pump'.pc = "release" /\ pump.pc = "reserve" /\ pump'.by = pump.by
      BY <1>0, <1>1 DEF Reserve, PumpType
    <2>2. pump'.by # "none"
      BY <1>0, <2>1 DEF Own, PumpInv
    <2>3. Own(queue, mailbox, pump')
      BY <1>0, <2>1, <2>2, PumpStep
    <2> QED BY <1>1, <2>1, <2>3 DEF OwnInv, Reserve
  <1>2. CASE /\ queue' = PromotedAll(queue)
             /\ pump' = [pump EXCEPT !.pc = "release"]
    <2>1. /\ pump' \in PumpType /\ pump'.token = pump.token
          /\ pump'.pc = "release" /\ pump.pc = "reserve" /\ pump'.by = pump.by
      BY <1>0, <1>2 DEF Reserve, PumpType
    <2>2. pump'.by # "none"
      BY <1>0, <2>1 DEF Own, PumpInv
    <2>3. QueueOK(queue') /\ Own(queue', mailbox, pump)
      BY <1>0, <1>2, PromotedAllFacts
    <2>4. Own(queue', mailbox, pump')
      BY <2>1, <2>2, <2>3, PumpStep
    <2> QED BY <2>1, <2>3, <2>4 DEF OwnInv, Reserve
  <1>3. ASSUME NEW t \in First(PromotedAll(queue)),
               queue' = Marked(PromotedAll(queue), t, {"pending"}, "reserved"),
               pump' = [pump EXCEPT !.pc = "load", !.token = t]
        PROVE  OwnInv'
    <2> DEFINE q == PromotedAll(queue)
    <2>1. QueueOK(q) /\ Own(q, mailbox, pump)
      BY <1>0, PromotedAllFacts
    <2>2. /\ t \in Tokens /\ Found(q, t)
          /\ q[t.stream].active.frame[t.frame] = "pending"
      BY <2>1, FirstFacts
    <2> HIDE DEF q
    <2>3. queue' = Marked(q, t, {"pending"}, "reserved")
      BY <1>3 DEF q
    <2>4. /\ QueueOK(queue')
          /\ \A s \in Streams :
               /\ queue'[s].active.gen = q[s].active.gen
               /\ \A f \in Frames[s] :
                    queue'[s].active.frame[f]
                      = IF s = t.stream /\ f = t.frame THEN "reserved"
                        ELSE q[s].active.frame[f]
      BY <2>1, <2>2, <2>3, MarkedFacts DEF FrameStates
    <2>5. /\ pump' \in PumpType /\ pump'.token = t /\ pump'.pc = "load"
          /\ pump.pc = "reserve" /\ pump'.by = pump.by /\ pump.token = NoToken
      BY <1>0, <1>3, <2>2 DEF Reserve, PumpType, Own, PumpInv
    <2>6. /\ t # NoToken /\ t.stream \in Streams /\ t.frame \in Frames[t.stream]
          /\ t = Token(t.stream, t.gen, t.frame)
          /\ t.gen = q[t.stream].active.gen
      BY <2>2, TokenFacts DEF Found
    <2>7. HeldInv(queue', mailbox, pump')
      <3>1. ASSUME NEW m \in Mailboxes, mailbox[m].sw # "free"
            PROVE  /\ queue'[mailbox[m].owner.stream].active.gen
                        = mailbox[m].owner.gen
                   /\ queue'[mailbox[m].owner.stream].active
                        .frame[mailbox[m].owner.frame] = mailbox[m].sw
        <4>1. /\ mailbox[m].owner \in Tokens /\ mailbox[m].owner # NoToken
              /\ mailbox[m].sw \in {"loaded", "abort"}
          BY <1>0, <3>1 DEF Own, HeldInv, MailboxType
        <4>2. /\ q[mailbox[m].owner.stream].active.gen = mailbox[m].owner.gen
              /\ q[mailbox[m].owner.stream].active
                   .frame[mailbox[m].owner.frame] = mailbox[m].sw
          BY <2>1, <3>1 DEF Own, HeldInv
        <4> QED BY <2>2, <2>4, <4>1, <4>2, TokenFacts
      <3> QED BY <2>1, <2>5, <3>1 DEF Own, HeldInv
    <2>8. PumpInv(queue', pump')
      BY <2>1, <2>4, <2>5, <2>6 DEF Own, PumpInv
    <2>9. SelectedInv(queue', mailbox, pump')
      <3>1. ASSUME NEW s \in Streams, NEW f \in Frames[s],
                   queue'[s].active.frame[f] = "reserved"
            PROVE  t = Token(s, queue'[s].active.gen, f)
        <4>1. CASE s = t.stream /\ f = t.frame
          BY <2>4, <2>6, <4>1
        <4>2. CASE ~(s = t.stream /\ f = t.frame)
          <5>1. q[s].active.frame[f] = "reserved"
            BY <2>4, <3>1, <4>2
          <5>2. pump.token = Token(s, q[s].active.gen, f)
            BY <2>1, <5>1 DEF Own, SelectedInv
          <5> QED BY <2>5, <5>2, ConstantFacts DEF Token, NoToken
        <4> QED BY <4>1, <4>2
      <3>2. ASSUME NEW s \in Streams, NEW f \in Frames[s],
                   queue'[s].active.frame[f] \in {"loaded", "abort"}
            PROVE  \E m \in Mailboxes :
                     /\ mailbox[m].sw # "free"
                     /\ mailbox[m].owner = Token(s, queue'[s].active.gen, f)
        BY <2>1, <2>4, <3>2 DEF Own, SelectedInv
      <3> QED BY <2>5, <3>1, <3>2 DEF SelectedInv
    <2>10. Own(queue', mailbox, pump')
      BY <2>1, <2>7, <2>8, <2>9 DEF Own
    <2> QED BY <2>4, <2>5, <2>10 DEF OwnInv, Reserve
  <1> QED BY <1>1, <1>2, <1>3 DEF Reserve

(* Giving a reserved frame back, or up. *)
LEMMA GivenUpFacts ==
  ASSUME OwnInv, pump.pc = "load", NEW to \in {"pending", "discarded"},
         NEW q, q = Marked(queue, pump.token, {"reserved"}, to),
         NEW r, r = [pump EXCEPT !.pc = "release", !.token = NoToken]
  PROVE  QueueOK(q) /\ r \in PumpType /\ Own(q, mailbox, r)
  <1> DEFINE t == pump.token
  <1>0. Own(queue, mailbox, pump) /\ QueueOK(queue) /\ pump \in PumpType
        /\ mailbox \in [Mailboxes -> MailboxType]
    BY DEF OwnInv
  <1>1. /\ t \in Tokens /\ t # NoToken /\ Found(queue, t)
        /\ queue[t.stream].active.frame[t.frame] = "reserved"
    BY <1>0 DEF Own, PumpInv, PumpType, Found
  <1>2. /\ t.stream \in Streams /\ t.frame \in Frames[t.stream]
        /\ t = Token(t.stream, t.gen, t.frame)
        /\ t.gen = queue[t.stream].active.gen
    BY <1>1, TokenFacts DEF Found
  <1>3. /\ QueueOK(q)
        /\ \A s \in Streams :
             /\ q[s].active.gen = queue[s].active.gen
             /\ \A f \in Frames[s] :
                  q[s].active.frame[f]
                    = IF s = t.stream /\ f = t.frame THEN to
                      ELSE queue[s].active.frame[f]
    <2>1. /\ q = Marked(queue, t, {"reserved"}, to) /\ to \in FrameStates
          /\ queue[t.stream].active.frame[t.frame] \in {"reserved"}
      BY <1>1 DEF FrameStates
    <2> HIDE DEF t
    <2> QED BY <1>0, <1>1, <2>1, MarkedFacts
  <1>4. /\ r \in PumpType /\ r.token = NoToken /\ r.pc = "release"
        /\ r.by = pump.by /\ r.by # "none"
    <2>1. NoToken \in Tokens
      BY DEF Tokens
    <2> QED BY <1>0, <2>1 DEF PumpType, Own, PumpInv
  <1> HIDE DEF t
  <1>5. ASSUME NEW m \in Mailboxes
        PROVE  mailbox[m].sw # "free" =>
                 /\ q[mailbox[m].owner.stream].active.gen
                      = mailbox[m].owner.gen
                 /\ q[mailbox[m].owner.stream].active
                      .frame[mailbox[m].owner.frame] = mailbox[m].sw
    <2> SUFFICES ASSUME mailbox[m].sw # "free"
                 PROVE  /\ q[mailbox[m].owner.stream].active.gen
                             = mailbox[m].owner.gen
                        /\ q[mailbox[m].owner.stream].active
                             .frame[mailbox[m].owner.frame] = mailbox[m].sw
      OBVIOUS
    <2>1. /\ mailbox[m].owner \in Tokens /\ mailbox[m].owner # NoToken
          /\ mailbox[m].sw \in {"loaded", "abort"}
      BY <1>0 DEF Own, HeldInv, MailboxType
    <2>2. /\ queue[mailbox[m].owner.stream].active.gen = mailbox[m].owner.gen
          /\ queue[mailbox[m].owner.stream].active
               .frame[mailbox[m].owner.frame] = mailbox[m].sw
      BY <1>0 DEF Own, HeldInv
    <2> QED BY <1>1, <1>3, <2>1, <2>2, TokenFacts
  <1>6. HeldInv(q, mailbox, r)
    BY <1>0, <1>5 DEF Own, HeldInv
  <1>7. SelectedInv(q, mailbox, r)
    <2>1. ASSUME NEW s \in Streams, NEW f \in Frames[s]
          PROVE  q[s].active.frame[f] # "reserved"
      <3>1. CASE s = t.stream /\ f = t.frame
        BY <1>3, <3>1
      <3>2. CASE ~(s = t.stream /\ f = t.frame)
        <4>1. queue[s].active.frame[f] = "reserved"
                => t = Token(s, queue[s].active.gen, f)
          BY <1>0 DEF Own, SelectedInv, t
        <4> QED BY <1>3, <3>2, <4>1 DEF Token
      <3> QED BY <3>1, <3>2
    <2>2. ASSUME NEW s \in Streams, NEW f \in Frames[s],
                 q[s].active.frame[f] \in {"loaded", "abort"}
          PROVE  \E m \in Mailboxes :
                   /\ mailbox[m].sw # "free"
                   /\ mailbox[m].owner = Token(s, q[s].active.gen, f)
      BY <1>0, <1>3, <2>2 DEF Own, SelectedInv
    <2> QED BY <2>1, <2>2 DEF SelectedInv
  <1>8. PumpInv(q, r)
    BY <1>4 DEF PumpInv
  <1> QED BY <1>0, <1>3, <1>4, <1>6, <1>7, <1>8 DEF Own

(* Load *)
LEMMA LoadOwn ==
  ASSUME OwnInv, Load
  PROVE  OwnInv'
  <1>0. Own(queue, mailbox, pump) /\ QueueOK(queue) /\ pump \in PumpType
        /\ mailbox \in [Mailboxes -> MailboxType] /\ pump.pc = "load"
        /\ UNCHANGED <<task, gate, wire>>
    BY DEF OwnInv, Load
  <1>1. CASE LoadFails
    <2> DEFINE to == IF RequiresAbort(queue, pump.token) THEN "discarded"
                     ELSE "pending"
               q == Marked(queue, pump.token, {"reserved"}, to)
    <2>1. to \in {"pending", "discarded"}
      OBVIOUS
    <2>2. /\ queue' = PromotedAll(q) /\ UNCHANGED mailbox
          /\ pump' = [pump EXCEPT !.pc = "release", !.token = NoToken]
      BY <1>1 DEF LoadFails
    <2> HIDE DEF to
    <2>3. QueueOK(q) /\ pump' \in PumpType /\ Own(q, mailbox, pump')
      BY <1>0, <2>1, <2>2, GivenUpFacts
    <2> HIDE DEF q
    <2>4. QueueOK(queue') /\ Own(queue', mailbox, pump')
      BY <1>0, <2>2, <2>3, PromotedAllFacts
    <2> QED BY <1>0, <2>2, <2>3, <2>4 DEF OwnInv
  <1>2. ASSUME NEW m \in Usable, LoadWorks(m)
        PROVE  OwnInv'
    <2>1. /\ m \in Mailboxes /\ mailbox[m].sw = "free"
          /\ mailbox[m].hw = "empty" /\ mailbox[m].owner = NoToken
      BY <1>0 DEF Usable, Own, HeldInv
    <2>2. /\ mailbox' \in [Mailboxes -> MailboxType]
          /\ mailbox'[m].sw = "free" /\ mailbox'[m].owner = NoToken
          /\ mailbox'[m].hw = "request" /\ mailbox'[m].holds = pump.token
          /\ \A n \in Mailboxes : n # m => mailbox'[n] = mailbox[n]
      BY <1>0, <1>2, <2>1 DEF LoadWorks, MailboxType, PumpType
    <2>3. /\ pump' \in PumpType /\ pump'.pc = "mark" /\ pump'.by = pump.by
          /\ pump'.token = pump.token /\ UNCHANGED queue
      BY <1>0, <1>2 DEF LoadWorks, PumpType
    <2>4. HeldInv(queue, mailbox', pump')
      BY <1>0, <2>2, <2>3 DEF Own, HeldInv
    <2>5. SingleInv(mailbox')
      BY <1>0, <2>1, <2>2 DEF Own, SingleInv, HeldInv
    <2>6. PumpInv(queue, pump')
      BY <1>0, <2>3 DEF Own, PumpInv
    <2>7. SelectedInv(queue, mailbox', pump')
      BY <1>0, <2>1, <2>2, <2>3 DEF Own, SelectedInv
    <2> QED BY <1>0, <2>2, <2>3, <2>4, <2>5, <2>6, <2>7 DEF OwnInv, Own
  <1> QED BY <1>1, <1>2 DEF Load

(* Mark *)
LEMMA MarkOwn ==
  ASSUME OwnInv, Mark
  PROVE  OwnInv'
  <1> DEFINE t == pump.token
             state == IF Obsolete THEN "abort" ELSE "loaded"
  <1>0. Own(queue, mailbox, pump) /\ QueueOK(queue) /\ pump \in PumpType
        /\ mailbox \in [Mailboxes -> MailboxType] /\ pump.pc = "mark"
        /\ UNCHANGED <<task, gate, wire>>
    BY DEF OwnInv, Mark
  <1>1. /\ t \in Tokens /\ t # NoToken /\ Found(queue, t)
        /\ queue[t.stream].active.frame[t.frame] = "reserved"
    BY <1>0 DEF Own, PumpInv, PumpType, Found
  <1>2. /\ t.stream \in Streams /\ t.frame \in Frames[t.stream]
        /\ t = Token(t.stream, t.gen, t.frame)
        /\ t.gen = queue[t.stream].active.gen
    BY <1>1, TokenFacts DEF Found
  <1>3. /\ pump' \in PumpType /\ pump'.token = NoToken
        /\ pump'.pc = "reserve" /\ pump'.by = pump.by /\ pump.by # "none"
    <2>1. NoToken \in Tokens
      BY DEF Tokens
    <2> QED BY <1>0, <2>1 DEF Mark, PumpType, Own, PumpInv
  <1>4. PICK m \in Mailboxes :
          /\ mailbox[m].holds = t
          /\ queue' = Marked(queue, t, {"reserved"}, state)
          /\ LET b == [mailbox EXCEPT ![m].sw = state, ![m].owner = t]
             IN  mailbox' = IF Obsolete THEN AbortAsked(b, {m}) ELSE b
    BY DEF Mark
  <1>5. state \in {"loaded", "abort"} /\ (Obsolete <=> state = "abort")
    OBVIOUS
  <1>6. /\ QueueOK(queue')
        /\ \A s \in Streams :
             /\ queue'[s].active.gen = queue[s].active.gen
             /\ \A f \in Frames[s] :
                  queue'[s].active.frame[f]
                    = IF s = t.stream /\ f = t.frame THEN state
                      ELSE queue[s].active.frame[f]
    <2>1. state \in FrameStates /\ "reserved" \in {"reserved"}
      BY DEF FrameStates
    <2> HIDE DEF state
    <2> QED BY <1>0, <1>1, <1>4, <2>1, MarkedFacts
  <1>7. mailbox[m].sw = "free" /\ mailbox[m].hw # "empty"
    BY <1>0, <1>1, <1>4 DEF Own, HeldInv, MailboxType
  <1>8. /\ mailbox' \in [Mailboxes -> MailboxType]
        /\ mailbox'[m].sw = state /\ mailbox'[m].owner = t
        /\ mailbox'[m].holds = t /\ mailbox'[m].hw # "empty"
        /\ state = "abort" => mailbox'[m].hw # "request"
        /\ \A n \in Mailboxes : n # m => mailbox'[n] = mailbox[n]
    <2> DEFINE b == [mailbox EXCEPT ![m].sw = state, ![m].owner = t]
    <2>1. /\ b \in [Mailboxes -> MailboxType]
          /\ b[m].sw = state /\ b[m].owner = t
          /\ b[m].holds = t /\ b[m].hw # "empty"
          /\ \A n \in Mailboxes : n # m => b[n] = mailbox[n]
      <3> HIDE DEF state, t
      <3> QED BY <1>0, <1>1, <1>4, <1>5, <1>7 DEF MailboxType
    <2>2. mailbox' = IF Obsolete THEN AbortAsked(b, {m}) ELSE b
      BY <1>4
    <2> HIDE DEF b, state, t
    <2>3. /\ AbortAsked(b, {m}) \in [Mailboxes -> MailboxType]
          /\ AbortAsked(b, {m})[m].hw # "request"
          /\ Works(b, AbortAsked(b, {m}))
      BY <2>1, AbortAskedFacts
    <2>4. \A n \in Mailboxes : n # m => AbortAsked(b, {m})[n] = b[n]
      BY DEF AbortAsked
    <2> QED BY <1>5, <2>1, <2>2, <2>3, <2>4 DEF Works
  <1> HIDE DEF state, t
  <1>9. ASSUME NEW n \in Mailboxes, n # m, mailbox[n].sw # "free"
        PROVE  /\ mailbox[n].owner # t
               /\ queue'[mailbox[n].owner.stream].active.gen
                    = mailbox[n].owner.gen
               /\ queue'[mailbox[n].owner.stream].active
                    .frame[mailbox[n].owner.frame] = mailbox[n].sw
    <2>1. /\ mailbox[n].owner \in Tokens /\ mailbox[n].owner # NoToken
          /\ mailbox[n].sw \in {"loaded", "abort"}
      BY <1>0, <1>9 DEF Own, HeldInv, MailboxType
    <2>2. /\ queue[mailbox[n].owner.stream].active.gen = mailbox[n].owner.gen
          /\ queue[mailbox[n].owner.stream].active
               .frame[mailbox[n].owner.frame] = mailbox[n].sw
      BY <1>0, <1>9 DEF Own, HeldInv
    <2> QED BY <1>1, <1>6, <2>1, <2>2, TokenFacts
  <1>10. ASSUME NEW n \in Mailboxes, n # m, mailbox[n].sw = "free"
         PROVE  mailbox[n].hw = "empty"
    BY <1>0, <1>7, <1>10 DEF Own, SingleInv
  <1>11. HeldInv(queue', mailbox', pump')
    <2>1. ASSUME NEW n \in Mailboxes, n # m
          PROVE  /\ mailbox'[n].sw = "free" =>
                      /\ mailbox'[n].owner = NoToken
                      /\ mailbox'[n].hw = "empty"
                      /\ mailbox'[n].holds = NoToken
                 /\ mailbox'[n].sw # "free" =>
                      /\ mailbox'[n].owner = mailbox'[n].holds
                      /\ mailbox'[n].owner # NoToken
                      /\ mailbox'[n].hw # "empty"
                      /\ mailbox'[n].sw = "abort" => mailbox'[n].hw # "request"
      BY <1>0, <1>8, <1>10, <2>1 DEF Own, HeldInv
    <2>2. /\ queue'[t.stream].active.gen = t.gen
          /\ queue'[t.stream].active.frame[t.frame] = state
      BY <1>2, <1>6
    <2> QED BY <1>1, <1>5, <1>8, <1>9, <2>1, <2>2 DEF HeldInv
  <1>12. SingleInv(mailbox')
    BY <1>0, <1>1, <1>5, <1>8, <1>9, <1>10 DEF Own, SingleInv, HeldInv
  <1>13. PumpInv(queue', pump')
    BY <1>3 DEF PumpInv
  <1>14. SelectedInv(queue', mailbox', pump')
    <2>1. ASSUME NEW s \in Streams, NEW f \in Frames[s]
          PROVE  queue'[s].active.frame[f] # "reserved"
      <3>1. CASE s = t.stream /\ f = t.frame
        BY <1>5, <1>6, <3>1
      <3>2. CASE ~(s = t.stream /\ f = t.frame)
        <4>1. queue[s].active.frame[f] = "reserved"
                => t = Token(s, queue[s].active.gen, f)
          BY <1>0 DEF Own, SelectedInv, t
        <4> QED BY <1>6, <3>2, <4>1 DEF Token
      <3> QED BY <3>1, <3>2
    <2>2. ASSUME NEW s \in Streams, NEW f \in Frames[s],
                 queue'[s].active.frame[f] \in {"loaded", "abort"}
          PROVE  \E n \in Mailboxes :
                   /\ mailbox'[n].sw # "free"
                   /\ mailbox'[n].owner = Token(s, queue'[s].active.gen, f)
      <3>1. CASE s = t.stream /\ f = t.frame
        BY <1>2, <1>5, <1>6, <1>8, <3>1
      <3>2. CASE ~(s = t.stream /\ f = t.frame)
        <4>1. PICK n \in Mailboxes :
                /\ mailbox[n].sw # "free"
                /\ mailbox[n].owner = Token(s, queue[s].active.gen, f)
          BY <1>0, <1>6, <2>2, <3>2 DEF Own, SelectedInv
        <4>2. n # m
          BY <1>7, <4>1
        <4> QED BY <1>6, <1>8, <4>1, <4>2
      <3> QED BY <3>1, <3>2
    <2> QED BY <2>1, <2>2 DEF SelectedInv
  <1> QED BY <1>0, <1>3, <1>6, <1>8, <1>11, <1>12, <1>13, <1>14
          DEF OwnInv, Own

-----------------------------------------------------------------------------
(* The interrupt and the task.                                             *)

(* Retiring the finished mailboxes of a snapshot. *)
LEMMA RetiredFacts ==
  ASSUME OwnInv, NEW which \in SUBSET Mailboxes, MailboxIrqOpen,
         \A m \in which : Served(m),
         NEW c, c = [m \in Mailboxes |->
                       IF m \in which THEN FreeMailbox ELSE mailbox[m]]
  PROVE  /\ QueueOK(Retired(which)) /\ c \in [Mailboxes -> MailboxType]
         /\ Own(Retired(which), c, pump)
         /\ \A s \in Streams :
              /\ Retired(which)[s].active.stale = queue[s].active.stale
              /\ Retired(which)[s].active.gen = queue[s].active.gen
  <1> DEFINE q == Retired(which)
  <1>0. /\ Own(queue, mailbox, pump) /\ QueueOK(queue) /\ pump \in PumpType
        /\ mailbox \in [Mailboxes -> MailboxType] /\ pump.pc # "mark"
    BY DEF OwnInv, MailboxIrqOpen
  <1>1. c \in [Mailboxes -> MailboxType]
    BY <1>0 DEF FreeMailbox, MailboxType, Tokens
  <1>2. ASSUME NEW s \in Streams
        PROVE  /\ StreamOK(s, q[s]) /\ q[s].active.gen = queue[s].active.gen
               /\ q[s].active.stale = queue[s].active.stale
               /\ \A f \in Frames[s] :
                    q[s].active.frame[f] = Outcome(s, f, which)
    <2> DEFINE x == queue[s]
               a == x.active
               fr == [f \in Frames[s] |-> Outcome(s, f, which)]
               y == [x EXCEPT !.active.frame = fr]
               d == [a EXCEPT !.frame = fr]
    <2>1. q[s] = y
      BY DEF Retired
    <2>2. StreamOK(s, x) /\ a \in GenerationType(s)
      BY <1>0 DEF QueueOK, StreamOK, QueueType
    <2>3. \A f \in Frames[s] : a.frame[f] \in FrameStates
      BY <2>2 DEF GenerationType
    <2>4. /\ fr \in [Frames[s] -> FrameStates]
          /\ \A f \in Frames[s] :
               fr[f] = Outcome(s, f, which)
               /\ (a.frame[f] = "complete" => fr[f] = "complete")
      BY <2>3 DEF Outcome, FrameStates
    <2> HIDE DEF fr
    <2>5. /\ d \in GenerationType(s) /\ d.gen = a.gen /\ d.stale = a.stale
          /\ d.frame = fr
      BY <2>2, <2>4 DEF GenerationType
    <2>6. y = [x EXCEPT !.active = d]
      OBVIOUS
    <2> HIDE DEF d, y
    <2>7. StreamOK(s, y) /\ y.active = d
      BY <2>2, <2>4, <2>5, <2>6 DEF StreamOK, QueueType
    <2> QED BY <2>1, <2>4, <2>5, <2>7
  <1>3. QueueOK(q)
    BY <1>2 DEF QueueOK, Retired
  <1> HIDE DEF q
  <1>4. ASSUME NEW m \in which
        PROVE  mailbox[m].sw # "free"
    BY DEF Served
  <1>5. ASSUME NEW m \in Mailboxes, m \notin which, mailbox[m].sw # "free"
        PROVE  /\ q[mailbox[m].owner.stream].active.gen = mailbox[m].owner.gen
               /\ q[mailbox[m].owner.stream].active
                    .frame[mailbox[m].owner.frame] = mailbox[m].sw
    <2> DEFINE t == mailbox[m].owner
    <2>1. t \in Tokens /\ t # NoToken
      BY <1>0, <1>5 DEF Own, HeldInv, MailboxType
    <2>2. /\ queue[t.stream].active.gen = t.gen
          /\ queue[t.stream].active.frame[t.frame] = mailbox[m].sw
      BY <1>0, <1>5 DEF Own, HeldInv
    <2>3. \A n \in which : mailbox[n].owner # t
      BY <1>0, <1>4, <1>5 DEF Own, SingleInv
    <2>4. /\ t.stream \in Streams /\ t.frame \in Frames[t.stream]
          /\ t = Token(t.stream, t.gen, t.frame)
      BY <2>1, TokenFacts
    <2> HIDE DEF t
    <2>5. Outcome(t.stream, t.frame, which)
            = queue[t.stream].active.frame[t.frame]
      BY <2>2, <2>3, <2>4 DEF Outcome
    <2> QED BY <1>2, <2>2, <2>4, <2>5 DEF t
  <1>6. HeldInv(q, c, pump)
    BY <1>0, <1>5 DEF Own, HeldInv, FreeMailbox
  <1>7. SingleInv(c)
    <2>1. \A m \in which : c[m].sw = "free" /\ c[m].hw = "empty"
                           /\ c[m].owner = NoToken
      BY DEF FreeMailbox
    <2>2. \A m \in Mailboxes : m \notin which => c[m] = mailbox[m]
      OBVIOUS
    <2>3. \A m \in Mailboxes : mailbox[m].sw # "free"
                                 => mailbox[m].owner # NoToken
      BY <1>0 DEF Own, HeldInv
    <2> QED BY <1>0, <2>1, <2>2, <2>3 DEF Own, SingleInv
  <1>8. ASSUME NEW s \in Streams, NEW f \in Frames[s],
               q[s].active.frame[f] \in Busy
        PROVE  /\ q[s].active.frame[f] = queue[s].active.frame[f]
               /\ q[s].active.frame[f] \in {"loaded", "abort"} =>
                    \A m \in which :
                      mailbox[m].owner # Token(s, queue[s].active.gen, f)
    BY <1>2, <1>8 DEF Outcome, Busy
  <1>9. SelectedInv(q, c, pump)
    <2>1. ASSUME NEW s \in Streams, NEW f \in Frames[s],
                 q[s].active.frame[f] \in {"loaded", "abort"}
          PROVE  \E m \in Mailboxes :
                   /\ c[m].sw # "free"
                   /\ c[m].owner = Token(s, q[s].active.gen, f)
      <3>1. PICK m \in Mailboxes :
              /\ mailbox[m].sw # "free"
              /\ mailbox[m].owner = Token(s, queue[s].active.gen, f)
        BY <1>0, <1>8, <2>1 DEF Own, SelectedInv, Busy
      <3>2. m \notin which
        BY <1>8, <2>1, <3>1 DEF Busy
      <3> QED BY <1>2, <3>1, <3>2
    <2>2. ASSUME NEW s \in Streams, NEW f \in Frames[s],
                 q[s].active.frame[f] = "reserved"
          PROVE  pump.token = Token(s, q[s].active.gen, f)
      BY <1>0, <1>2, <1>8, <2>2 DEF Own, SelectedInv, Busy
    <2> QED BY <2>1, <2>2 DEF SelectedInv
  <1>10. PumpInv(q, pump)
    <2>1. pump.token # NoToken =>
            /\ pump.token.stream \in Streams
            /\ pump.token.frame \in Frames[pump.token.stream]
      BY <1>0, TokenFacts DEF PumpType
    <2> QED BY <1>0, <1>2, <2>1 DEF Own, PumpInv, Outcome
  <1> QED BY <1>1, <1>2, <1>3, <1>6, <1>7, <1>9, <1>10 DEF Own, q

(* Reporting a delivery touches no frame. *)
LEMMA ReportedFacts ==
  ASSUME NEW q, QueueOK(q), NEW b \in [Mailboxes -> MailboxType],
         NEW p \in PumpType, Own(q, b, p)
  PROVE  QueueOK(Reported(q)) /\ Own(Reported(q), b, p)
  <1> DEFINE x == q["protected"]
             y == [x EXCEPT !.last = x.active.gen]
             n == [q EXCEPT !["protected"] = y]
  <1>0. "protected" \in Streams
    BY ConstantFacts
  <1>1. StreamOK("protected", x) /\ x.active.gen \in 0..MaxGen["protected"]
    BY <1>0 DEF QueueOK, StreamOK, QueueType, GenerationType
  <1>2. StreamOK("protected", y) /\ y.active = x.active
    BY <1>1 DEF StreamOK, QueueType
  <1>3. Reported(q) = q \/ Reported(q) = n
    BY DEF Reported
  <1> HIDE DEF y
  <1>4. n["protected"] = y /\ \A s \in Streams : s # "protected" => n[s] = q[s]
    BY <1>0 DEF QueueOK
  <1>5. QueueOK(n)
    BY <1>2, <1>4 DEF QueueOK
  <1> HIDE DEF n
  <1>6. \A s \in Streams : Quiet(s, q[s], n[s])
    BY <1>2, <1>4 DEF Quiet
  <1> QED BY <1>3, <1>5, <1>6, QuietStep

(* MailboxIrq *)
LEMMA MailboxIrqOwn ==
  ASSUME OwnInv, NEW which \in SUBSET Mailboxes, MailboxIrq(which)
  PROVE  OwnInv'
  <1> DEFINE q == Retired(which)
             r == Reported(q)
  <1>1. /\ QueueOK(q) /\ mailbox' \in [Mailboxes -> MailboxType]
        /\ Own(q, mailbox', pump) /\ pump \in PumpType
    BY RetiredFacts DEF MailboxIrq, OwnInv
  <1> HIDE DEF q
  <1>2. QueueOK(r) /\ Own(r, mailbox', pump)
    BY <1>1, ReportedFacts
  <1>3. queue' = PromotedAll(r)
    BY DEF MailboxIrq, q
  <1> HIDE DEF r
  <1>4. QueueOK(queue') /\ Own(queue', mailbox', pump)
    BY <1>1, <1>2, <1>3, PromotedAllFacts
  <1>5. pump' \in PumpType /\ Own(queue', mailbox', pump')
    BY <1>1, <1>4, KickedFacts DEF MailboxIrq
  <1> QED BY <1>1, <1>4, <1>5 DEF OwnInv, MailboxIrq

(* AbortStale *)
LEMMA AbortStaleOwn ==
  ASSUME OwnInv, AbortStale
  PROVE  OwnInv'
  <1> DEFINE b == [m \in Mailboxes |->
                     IF m \in Recalled THEN [mailbox[m] EXCEPT !.sw = "abort"]
                     ELSE mailbox[m]]
             Mine(s, f) == \E m \in Recalled :
                mailbox[m].owner = Token(s, queue[s].active.gen, f)
  <1>0. /\ Own(queue, mailbox, pump) /\ QueueOK(queue) /\ pump \in PumpType
        /\ mailbox \in [Mailboxes -> MailboxType]
        /\ Recalled \subseteq Mailboxes
        /\ \A m \in Recalled : mailbox[m].sw = "loaded"
    BY DEF OwnInv, Recalled
  <1>1. ASSUME NEW s \in Streams
        PROVE  /\ StreamOK(s, queue'[s])
               /\ queue'[s].active.gen = queue[s].active.gen
               /\ \A f \in Frames[s] :
                    queue'[s].active.frame[f]
                      = IF Mine(s, f) THEN "abort" ELSE queue[s].active.frame[f]
    <2> DEFINE x == queue[s]
               a == x.active
               fr == [f \in Frames[s] |->
                        IF Mine(s, f) THEN "abort" ELSE a.frame[f]]
               y == [x EXCEPT !.active.frame = fr]
               d == [a EXCEPT !.frame = fr]
    <2>1. queue'[s] = y
      BY DEF AbortStale
    <2>2. StreamOK(s, x) /\ a \in GenerationType(s)
      BY <1>0 DEF QueueOK, StreamOK, QueueType
    <2>3. ASSUME NEW f \in Frames[s], Mine(s, f)
          PROVE  a.gen # NoGen
      <3>1. PICK m \in Recalled :
              mailbox[m].owner = Token(s, queue[s].active.gen, f)
        BY <2>3
      <3>2. mailbox[m].owner \in Tokens /\ mailbox[m].owner # NoToken
        BY <1>0 DEF Own, HeldInv, MailboxType
      <3>3. mailbox[m].owner.gen = a.gen /\ mailbox[m].owner.stream = s
        BY <3>1 DEF Token
      <3> QED BY <3>2, <3>3, TokenFacts, ConstantFacts
    <2> HIDE DEF Mine
    <2>4. \A f \in Frames[s] : a.frame[f] \in FrameStates
      BY <2>2 DEF GenerationType
    <2>5. /\ fr \in [Frames[s] -> FrameStates]
          /\ \A f \in Frames[s] :
               /\ fr[f] = IF Mine(s, f) THEN "abort" ELSE a.frame[f]
               /\ a.gen = NoGen => fr[f] = a.frame[f]
      BY <2>3, <2>4 DEF FrameStates
    <2> HIDE DEF fr
    <2>6. d \in GenerationType(s) /\ d.gen = a.gen /\ d.frame = fr
      BY <2>2, <2>5 DEF GenerationType
    <2>7. y = [x EXCEPT !.active = d]
      OBVIOUS
    <2> HIDE DEF d, y
    <2>8. StreamOK(s, y) /\ y.active = d
      BY <2>2, <2>5, <2>6, <2>7 DEF StreamOK, QueueType
    <2> QED BY <2>1, <2>5, <2>6, <2>8
  <1>2. QueueOK(queue')
    BY <1>1 DEF QueueOK, AbortStale
  <1>3. /\ b \in [Mailboxes -> MailboxType]
        /\ \A m \in Mailboxes :
             /\ b[m].owner = mailbox[m].owner /\ b[m].holds = mailbox[m].holds
             /\ b[m].hw = mailbox[m].hw
             /\ b[m].sw = IF m \in Recalled THEN "abort" ELSE mailbox[m].sw
    BY <1>0 DEF MailboxType
  <1>4. mailbox' = AbortAsked(b, Recalled) /\ pump' = Kicked("task")
    BY DEF AbortStale
  <1> HIDE DEF b
  <1>5. /\ mailbox' \in [Mailboxes -> MailboxType] /\ Works(b, mailbox')
        /\ \A m \in Recalled : mailbox'[m].hw # "request"
    BY <1>0, <1>3, <1>4, AbortAskedFacts
  <1>6. \A m \in Mailboxes :
          /\ mailbox'[m].owner = mailbox[m].owner
          /\ mailbox'[m].holds = mailbox[m].holds
          /\ mailbox'[m].hw = "empty" <=> mailbox[m].hw = "empty"
          /\ mailbox'[m].hw = "request" => mailbox[m].hw = "request"
          /\ mailbox'[m].sw = IF m \in Recalled THEN "abort" ELSE mailbox[m].sw
    BY <1>3, <1>5 DEF Works
  <1>7. ASSUME NEW m \in Mailboxes, mailbox[m].sw # "free"
        PROVE  /\ queue'[mailbox[m].owner.stream].active.gen
                    = mailbox[m].owner.gen
               /\ queue'[mailbox[m].owner.stream].active
                    .frame[mailbox[m].owner.frame] = mailbox'[m].sw
    <2> DEFINE t == mailbox[m].owner
    <2>1. t \in Tokens /\ t # NoToken
      BY <1>0, <1>7 DEF Own, HeldInv, MailboxType
    <2>2. /\ queue[t.stream].active.gen = t.gen
          /\ queue[t.stream].active.frame[t.frame] = mailbox[m].sw
      BY <1>0, <1>7 DEF Own, HeldInv
    <2>3. /\ t.stream \in Streams /\ t.frame \in Frames[t.stream]
          /\ t = Token(t.stream, t.gen, t.frame)
      BY <2>1, TokenFacts
    <2>4. Mine(t.stream, t.frame) <=> m \in Recalled
      <3>1. m \in Recalled => Mine(t.stream, t.frame)
        BY <2>2, <2>3
      <3>2. ASSUME NEW n \in Recalled, mailbox[n].owner = t
            PROVE  n = m
        BY <1>0, <1>7, <3>2 DEF Own, SingleInv
      <3> QED BY <2>2, <2>3, <3>1, <3>2
    <2> HIDE DEF t, Mine
    <2> QED BY <1>1, <1>6, <2>2, <2>3, <2>4 DEF t
  <1>8. HeldInv(queue', mailbox', pump)
    BY <1>0, <1>5, <1>6, <1>7 DEF Own, HeldInv
  <1>9. SingleInv(mailbox')
    BY <1>0, <1>6 DEF Own, SingleInv
  <1>10. ASSUME NEW s \in Streams, NEW f \in Frames[s], Mine(s, f)
         PROVE  queue[s].active.frame[f] = "loaded"
    <2>1. PICK m \in Recalled :
            mailbox[m].owner = Token(s, queue[s].active.gen, f)
      BY <1>10
    <2>2. /\ queue[mailbox[m].owner.stream].active
               .frame[mailbox[m].owner.frame] = "loaded"
      BY <1>0 DEF Own, HeldInv
    <2> QED BY <2>1, <2>2 DEF Token
  <1>11. PumpInv(queue', pump)
    <2>1. pump.token # NoToken =>
            /\ pump.token.stream \in Streams
            /\ pump.token.frame \in Frames[pump.token.stream]
      BY <1>0, TokenFacts DEF PumpType
    <2> HIDE DEF Mine
    <2> QED BY <1>0, <1>1, <1>10, <2>1 DEF Own, PumpInv
  <1>12. SelectedInv(queue', mailbox', pump)
    <2> HIDE DEF Mine
    <2>1. ASSUME NEW s \in Streams, NEW f \in Frames[s],
                 queue'[s].active.frame[f] \in {"loaded", "abort"}
          PROVE  \E m \in Mailboxes :
                   /\ mailbox'[m].sw # "free"
                   /\ mailbox'[m].owner = Token(s, queue'[s].active.gen, f)
      <3>1. queue[s].active.frame[f] \in {"loaded", "abort"}
        BY <1>1, <1>10, <2>1
      <3>2. PICK m \in Mailboxes :
              /\ mailbox[m].sw # "free"
              /\ mailbox[m].owner = Token(s, queue[s].active.gen, f)
        BY <1>0, <3>1 DEF Own, SelectedInv
      <3> QED BY <1>1, <1>6, <3>2
    <2>2. ASSUME NEW s \in Streams, NEW f \in Frames[s],
                 queue'[s].active.frame[f] = "reserved"
          PROVE  pump.token = Token(s, queue'[s].active.gen, f)
      BY <1>0, <1>1, <2>2 DEF Own, SelectedInv
    <2> QED BY <2>1, <2>2 DEF SelectedInv
  <1>13. Own(queue', mailbox', pump)
    BY <1>8, <1>9, <1>11, <1>12 DEF Own
  <1>14. pump' \in PumpType /\ Own(queue', mailbox', pump')
    BY <1>0, <1>4, <1>13, KickedFacts
  <1> QED BY <1>2, <1>5, <1>14 DEF OwnInv, AbortStale

(* The controller works on what it was asked to do. *)
LEMMA ControllerOwn ==
  ASSUME OwnInv, NEW m \in Mailboxes, WireSend(m) \/ WireAbort(m)
  PROVE  OwnInv'
  <1>1. CASE WireSend(m)
    <2>1. mailbox' \in [Mailboxes -> MailboxType] /\ Works(mailbox, mailbox')
      BY <1>1 DEF OwnInv, WireSend, MailboxType, Works
    <2>2. Own(queue, mailbox', pump)
      BY <2>1, HardwareStep DEF OwnInv
    <2>3. mailbox[m].holds \in Tokens /\ mailbox[m].holds # NoToken
      <3>1. CASE mailbox[m].sw = "free"
        BY <1>1, <3>1 DEF OwnInv, WireSend, MailboxType, Own, HeldInv, PumpInv
      <3>2. CASE mailbox[m].sw # "free"
        BY <1>1, <3>2 DEF OwnInv, WireSend, MailboxType, Own, HeldInv
      <3> QED BY <3>1, <3>2
    <2>4. WireOK(wire')
      <3> DEFINE t == mailbox[m].holds
                 w == [gen |-> t.gen,
                       sent |-> IF t.gen = wire[t.stream].gen
                                THEN wire[t.stream].sent \cup {t.frame}
                                ELSE {t.frame}]
      <3>1. /\ t.stream \in Streams /\ t.gen \in 1..MaxGen[t.stream]
            /\ t.frame \in Frames[t.stream]
        BY <2>3, TokenFacts
      <3>2. WireOK(wire)
        BY DEF OwnInv
      <3>3. wire' = [wire EXCEPT ![t.stream] = w]
        BY <1>1 DEF WireSend
      <3> HIDE DEF t
      <3>4. t.gen \in 0..MaxGen[t.stream]
        BY <3>1, ConstantFacts
      <3>5. w \in [gen : 0..MaxGen[t.stream], sent : SUBSET Frames[t.stream]]
        BY <3>1, <3>2, <3>4 DEF WireOK
      <3> HIDE DEF w
      <3> QED BY <3>1, <3>2, <3>3, <3>5 DEF WireOK
    <2> QED BY <1>1, <2>1, <2>2, <2>4 DEF OwnInv, WireSend
  <1>2. CASE WireAbort(m)
    <2>1. mailbox' \in [Mailboxes -> MailboxType] /\ Works(mailbox, mailbox')
      BY <1>2 DEF OwnInv, WireAbort, MailboxType, Works
    <2>2. Own(queue, mailbox', pump)
      BY <2>1, HardwareStep DEF OwnInv
    <2> QED BY <1>2, <2>1, <2>2 DEF OwnInv, WireAbort
  <1> QED BY <1>1, <1>2

(* Nothing outstanding means nothing in hardware. *)
LEMMA SettledIsIdle ==
  ASSUME OwnInv, AllSettled, pump.by = "none", NEW s \in Streams
  PROVE  Idle(s, queue[s])
  <1>1. pump.token = NoToken
    BY DEF OwnInv, Own, PumpInv
  <1>2. ASSUME NEW f \in Frames[s]
        PROVE  queue[s].active.frame[f] \notin Busy
    <2>1. queue[s].active.frame[f] # "reserved"
      <3>1. Token(s, queue[s].active.gen, f) # NoToken
        BY ConstantFacts DEF Token, NoToken
      <3> QED BY <1>1, <3>1 DEF OwnInv, Own, SelectedInv
    <2>2. queue[s].active.frame[f] \notin {"loaded", "abort"}
      BY DEF OwnInv, Own, SelectedInv, AllSettled, FreeMailbox
    <2> QED BY <2>1, <2>2 DEF Busy
  <1> QED BY <1>2 DEF Idle

(* The poll *)
LEMMA PollOwn ==
  ASSUME OwnInv, Poll
  PROVE  OwnInv'
  <1>0. /\ Own(queue, mailbox, pump) /\ QueueOK(queue) /\ gate \in GateType
        /\ mailbox \in [Mailboxes -> MailboxType] /\ pump.by = "none"
        /\ pump \in PumpType
        /\ UNCHANGED <<pump, task, wire>>
    BY DEF OwnInv, Poll, TaskRuns
  <1>1. gate' \in GateType
    BY <1>0 DEF Poll, GateType
  <1>2. CASE mailbox' = AbortAsked(mailbox, Mailboxes) /\ UNCHANGED queue
    <2>1. mailbox' \in [Mailboxes -> MailboxType] /\ Works(mailbox, mailbox')
      BY <1>0, <1>2, AbortAskedFacts
    <2>2. Own(queue, mailbox', pump)
      BY <1>0, <2>1, HardwareStep
    <2> QED BY <1>0, <1>1, <1>2, <2>1, <2>2 DEF OwnInv
  <1>3. CASE UNCHANGED <<mailbox, queue>>
    BY <1>0, <1>1, <1>3 DEF OwnInv
  <1>4. CASE /\ AllSettled /\ UNCHANGED mailbox
             /\ queue' = [s \in Streams |->
                  [queue[s] EXCEPT !.active = Empty(s), !.pending = NoGen]]
    <2>1. ASSUME NEW s \in Streams
          PROVE  StreamOK(s, queue'[s]) /\ Quiet(s, queue[s], queue'[s])
      <3> DEFINE x == queue[s]
                 a == Empty(s)
                 y == [x EXCEPT !.active = a, !.pending = NoGen]
      <3>1. queue'[s] = y /\ StreamOK(s, x) /\ Idle(s, x)
        BY <1>0, <1>4, SettledIsIdle DEF QueueOK
      <3>2. /\ a \in GenerationType(s)
            /\ \A f \in Frames[s] : a.frame[f] = "complete"
            /\ NoGen \in 0..MaxGen[s]
        BY ActiveFacts, ConstantFacts
      <3> HIDE DEF a
      <3>3. StreamOK(s, y) /\ y.active = a
        BY <3>1, <3>2 DEF StreamOK, QueueType
      <3> HIDE DEF y
      <3> QED BY <3>1, <3>2, <3>3 DEF Quiet, Idle, Busy
    <2>2. QueueOK(queue')
      BY <1>4, <2>1 DEF QueueOK
    <2>3. Own(queue', mailbox, pump)
      BY <1>0, <2>1, QuietStep
    <2> QED BY <1>0, <1>1, <1>4, <2>2, <2>3 DEF OwnInv
  <1> QED BY <1>2, <1>3, <1>4 DEF Poll

(* Publish *)
LEMMA PublishOwn ==
  ASSUME OwnInv, NEW s \in Streams, Publish(s)
  PROVE  OwnInv'
  <1>0. /\ Own(queue, mailbox, pump) /\ QueueOK(queue)
        /\ mailbox \in [Mailboxes -> MailboxType] /\ pump \in PumpType
        /\ UNCHANGED <<mailbox, pump, gate, wire>> /\ task' = "abort"
        /\ queue[s].published < MaxGen[s]
    BY DEF OwnInv, Publish
  <1>1. PICK option \in BOOLEAN :
          queue' = [queue EXCEPT ![s] = Published(s, @, option)]
    BY DEF Publish
  <1>2. Accepts(s, queue[s], Published(s, queue[s], option))
    BY <1>0, PublishedFacts DEF QueueOK
  <1>3. /\ DOMAIN queue' = Streams
        /\ queue'[s] = Published(s, queue[s], option)
        /\ \A r \in Streams : r # s => queue'[r] = queue[r]
    BY <1>0, <1>1 DEF QueueOK
  <1>4. QueueOK(queue')
    BY <1>0, <1>2, <1>3 DEF QueueOK, Accepts
  <1>5. \A r \in Streams : Quiet(r, queue[r], queue'[r])
    BY <1>2, <1>3 DEF Accepts, Quiet
  <1>6. Own(queue', mailbox, pump)
    BY <1>0, <1>5, QuietStep
  <1> QED BY <1>0, <1>4, <1>6 DEF OwnInv

(* Release, and the actions that only kick or shut the gate *)
LEMMA OthersOwn ==
  ASSUME OwnInv, Release \/ OtherIrq \/ BusOff \/ Resume \/ UNCHANGED vars
  PROVE  OwnInv'
  <1>0. /\ Own(queue, mailbox, pump) /\ QueueOK(queue) /\ gate \in GateType
        /\ mailbox \in [Mailboxes -> MailboxType] /\ pump \in PumpType
    BY DEF OwnInv
  <1>1. CASE Release
    <2>1. CASE pump.kick
      <3>1. pump' = [pump EXCEPT !.kick = FALSE, !.pc = "reserve"]
        BY <1>1, <2>1 DEF Release
      <3>2. /\ pump' \in PumpType /\ pump'.token = pump.token
            /\ pump'.pc = "reserve" /\ pump.pc = "release"
            /\ pump'.by = pump.by
        BY <1>0, <1>1, <3>1 DEF Release, PumpType
      <3>3. pump'.by # "none"
        BY <1>0, <3>2 DEF Own, PumpInv
      <3>4. Own(queue, mailbox, pump')
        BY <1>0, <3>2, <3>3, PumpStep
      <3> QED BY <1>1, <3>2, <3>4 DEF OwnInv, Release
    <2>2. CASE ~pump.kick
      <3>1. pump' = NotPumping /\ pump.pc = "release"
        BY <1>1, <2>2 DEF Release
      <3>2. pump.token = NoToken
        BY <1>0, <3>1 DEF Own, PumpInv
      <3>3. /\ pump' \in PumpType /\ pump'.token = NoToken
            /\ pump'.pc = "idle" /\ pump'.by = "none"
        BY <3>1 DEF NotPumping, PumpType, Tokens
      <3>4. Own(queue, mailbox, pump')
        BY <1>0, <3>1, <3>2, <3>3, PumpStep
      <3> QED BY <1>1, <3>3, <3>4 DEF OwnInv, Release
    <2> QED BY <2>1, <2>2
  <1>2. CASE OtherIrq
    <2>1. pump' \in PumpType /\ Own(queue, mailbox, pump')
      BY <1>0, <1>2, KickedFacts DEF OtherIrq
    <2> QED BY <1>2, <2>1 DEF OwnInv, OtherIrq
  <1>3. CASE BusOff
    <2>1. mailbox' \in [Mailboxes -> MailboxType] /\ Works(mailbox, mailbox')
      BY <1>0, <1>3, AbortAskedFacts DEF BusOff
    <2>2. Own(queue, mailbox', pump)
      BY <1>0, <2>1, HardwareStep
    <2>3. gate.busOffs + 1 \in 0..MaxBusOffs
      BY <1>0, <1>3, ConstantsAssumption
      DEF BusOff, GateType, ConstantsAssumption
    <2>4. gate' \in GateType
      BY <1>0, <1>3, <2>3 DEF BusOff, GateType
    <2> QED BY <1>3, <2>1, <2>2, <2>4 DEF OwnInv, BusOff
  <1>4. CASE Resume
    <2>1. pump' \in PumpType /\ Own(queue, mailbox, pump')
      BY <1>0, <1>4, KickedFacts DEF Resume
    <2>2. gate' \in GateType
      BY <1>0, <1>4 DEF Resume, GateType
    <2> QED BY <1>4, <2>1, <2>2 DEF OwnInv, Resume
  <1>5. CASE UNCHANGED vars
    BY <1>5 DEF OwnInv, vars
  <1> QED BY <1>1, <1>2, <1>3, <1>4, <1>5

(* canbus_device_init *)
LEMMA InitOwn == Init => OwnInv
  <1> SUFFICES ASSUME Init PROVE OwnInv
    OBVIOUS
  <1>1. QueueOK(queue)
    <2>1. ASSUME NEW s \in Streams
          PROVE  StreamOK(s, queue[s])
      <3> DEFINE a == Empty(s)
      <3>1. queue[s] = [active |-> a, pending |-> NoGen, published |-> 0,
                        tuning |-> FALSE, last |-> NoGen]
        BY DEF Init
      <3>2. /\ a \in GenerationType(s)
            /\ \A f \in Frames[s] : a.frame[f] = "complete"
            /\ NoGen \in 0..MaxGen[s] /\ 0 \in 0..MaxGen[s]
        BY ActiveFacts, ConstantFacts
      <3> HIDE DEF a
      <3> QED BY <3>1, <3>2 DEF StreamOK, QueueType
    <2> QED BY <2>1 DEF QueueOK, Init
  <1>2. mailbox \in [Mailboxes -> MailboxType] /\ pump \in PumpType
    BY DEF Init, FreeMailbox, MailboxType, NotPumping, PumpType, Tokens
  <1>3. gate \in GateType /\ task \in {"idle", "abort"}
    BY ConstantsAssumption DEF Init, GateType, ConstantsAssumption
  <1>4. WireOK(wire)
    BY ConstantFacts DEF Init, WireOK
  <1>5. \A s \in Streams : \A f \in Frames[s] :
          queue[s].active.frame[f] = "complete"
    BY DEF Init, Empty
  <1>6. Own(queue, mailbox, pump)
    BY <1>5 DEF Own, HeldInv, SingleInv, PumpInv, SelectedInv, Init,
                FreeMailbox, NotPumping
  <1> QED BY <1>1, <1>2, <1>3, <1>4, <1>6 DEF OwnInv

(* Every step keeps the invariant. *)
LEMMA NextOwn == OwnInv /\ [Next]_vars => OwnInv'
  <1> SUFFICES ASSUME OwnInv, [Next]_vars PROVE OwnInv'
    OBVIOUS
  <1>1. CASE Controller
    BY <1>1, ControllerOwn DEF Controller
  <1>2. CASE Interrupt
    BY <1>2, MailboxIrqOwn, OthersOwn DEF Interrupt
  <1>3. CASE Pump
    BY <1>3, ReserveOwn, LoadOwn, MarkOwn, OthersOwn DEF Pump
  <1>4. CASE CanTask
    BY <1>4, PublishOwn, AbortStaleOwn, PollOwn, OthersOwn DEF CanTask
  <1> QED BY <1>1, <1>2, <1>3, <1>4, OthersOwn DEF Next

(* The invariant always holds. *)
LEMMA OwnAlways == Spec => []OwnInv
  BY InitOwn, NextOwn, PTL DEF Spec

(* The state always has its types. *)
THEOREM TypeCorrect == Spec => []TypeOK
  BY OwnAlways, OwnImplies, PTL

(* Mailbox, owner and frame state always agree: no completion settles a    *)
(* frame other than the one that was sent.                                 *)
THEOREM OwnershipAgreesAlways == Spec => []OwnershipAgrees
  BY OwnAlways, OwnImplies, PTL

-----------------------------------------------------------------------------
(* Obsolete frames are recalled, the closed gate holds nothing back and no *)
(* kick is lost.  Each is inductive once OwnInv is known.                  *)

(* Mailboxes whose owners stay or leave and that request nothing new.      *)
Settles(b, c) ==
  \A m \in Mailboxes :
    /\ c[m].sw # "free" => b[m].sw # "free" /\ c[m].owner = b[m].owner
    /\ c[m].hw = "request" => b[m].hw = "request"

(* Hardware that works, a recall and a completion do that. *)
LEMMA SettlesFacts ==
  ASSUME NEW b \in [Mailboxes -> MailboxType]
  PROVE  /\ Settles(b, b)
         /\ \A c : Works(b, c) => Settles(b, c)
         /\ \A which : Settles(b, AbortAsked(b, which))
  BY AbortAskedFacts DEF Settles, Works

(* Streams in which no generation becomes obsolete. *)
NotStaler(q, n) ==
  \A s \in Streams :
    n[s].active.stale => q[s].active.stale /\ n[s].active.gen = q[s].active.gen

(* Promotion replaces an obsolete generation and makes none. *)
LEMMA PromotedAllNotStaler ==
  ASSUME NEW q, QueueOK(q)
  PROVE  NotStaler(q, PromotedAll(q))
  BY PromotedFacts DEF NotStaler, PromotedAll, QueueOK

(* Nor does any other step of a token. *)
LEMMA MarkedNotStaler ==
  ASSUME NEW q, QueueOK(q), NEW t \in Tokens, NEW from, NEW to \in FrameStates
  PROVE  QueueOK(Marked(q, t, from, to)) /\ NotStaler(q, Marked(q, t, from, to))
  <1>1. CASE Found(q, t) /\ q[t.stream].active.frame[t.frame] \in from
    BY <1>1, MarkedFacts DEF NotStaler
  <1>2. CASE ~(Found(q, t) /\ q[t.stream].active.frame[t.frame] \in from)
    BY <1>2 DEF Marked, NotStaler
  <1> QED BY <1>1, <1>2

-----------------------------------------------------------------------------
(* The gate.                                                               *)

(* With the gate shut no step requests anything. *)
LEMMA SuspendedStep ==
  ASSUME OwnInv, SuspendedIsRecalled, Next
  PROVE  SuspendedIsRecalled'
  <1>0. mailbox \in [Mailboxes -> MailboxType]
    BY DEF OwnInv
  <1>1. ASSUME NEW m \in Mailboxes, WireSend(m) \/ WireAbort(m)
        PROVE  SuspendedIsRecalled'
    BY <1>0, <1>1
    DEF SuspendedIsRecalled, WireSend, WireAbort, MailboxType
  <1>2. CASE Reserve \/ Release \/ OtherIrq \/ \E s \in Streams : Publish(s)
    BY <1>2 DEF SuspendedIsRecalled, Reserve, Release, OtherIrq, Publish
  <1>3. CASE Load
    BY <1>3 DEF SuspendedIsRecalled, Load, Refused, LoadFails
  <1>4. CASE Mark
    <2>1. PICK m \in Mailboxes :
            LET state == IF Obsolete THEN "abort" ELSE "loaded"
                b == [mailbox EXCEPT ![m].sw = state, ![m].owner = pump.token]
            IN  mailbox' = IF Obsolete THEN AbortAsked(b, {m}) ELSE b
      BY <1>4 DEF Mark
    <2>2. \A n \in Mailboxes :
            mailbox'[n].hw = "request" => mailbox[n].hw = "request"
      BY <1>0, <2>1 DEF AbortAsked, MailboxType
    <2> QED BY <1>4, <2>2 DEF Mark, SuspendedIsRecalled
  <1>5. ASSUME NEW which \in SUBSET Mailboxes, MailboxIrq(which)
        PROVE  SuspendedIsRecalled'
    BY <1>5 DEF SuspendedIsRecalled, MailboxIrq, FreeMailbox
  <1>6. CASE BusOff
    BY <1>0, <1>6, AbortAskedFacts DEF SuspendedIsRecalled, BusOff
  <1>7. CASE AbortStale
    <2> DEFINE b == [m \in Mailboxes |->
                       IF m \in Recalled THEN [mailbox[m] EXCEPT !.sw = "abort"]
                       ELSE mailbox[m]]
    <2>1. /\ b \in [Mailboxes -> MailboxType]
          /\ \A m \in Mailboxes : b[m].hw = mailbox[m].hw
      BY <1>0 DEF MailboxType
    <2>2. mailbox' = AbortAsked(b, Recalled) /\ UNCHANGED gate
      BY <1>7 DEF AbortStale
    <2> HIDE DEF b
    <2>3. Settles(b, mailbox')
      BY <2>1, <2>2, SettlesFacts
    <2> QED BY <2>1, <2>2, <2>3 DEF SuspendedIsRecalled, Settles
  <1>8. CASE Poll
    <2>1. CASE mailbox' = AbortAsked(mailbox, Mailboxes)
      BY <1>0, <2>1, AbortAskedFacts DEF SuspendedIsRecalled
    <2>2. CASE AllSettled /\ UNCHANGED mailbox
      BY <2>2 DEF SuspendedIsRecalled, AllSettled, FreeMailbox
    <2>3. CASE UNCHANGED <<gate, mailbox>>
      BY <2>3 DEF SuspendedIsRecalled
    <2> QED BY <1>8, <2>1, <2>2, <2>3 DEF Poll
  <1>9. CASE Resume
    BY <1>0, <1>9 DEF SuspendedIsRecalled, Resume, OwnInv, GateType
  <1> QED
    BY <1>1, <1>2, <1>3, <1>4, <1>5, <1>6, <1>7, <1>8, <1>9
    DEF Next, Controller, Interrupt, Pump, CanTask

(* With the gate shut no mailbox holds a frame that was not asked to       *)
(* abort, one loaded after it shut included.                               *)
THEOREM SuspendedIsAlwaysRecalled == Spec => []SuspendedIsRecalled
  <1>1. Init => SuspendedIsRecalled
    BY DEF Init, SuspendedIsRecalled
  <1>2. OwnInv /\ SuspendedIsRecalled /\ [Next]_vars => SuspendedIsRecalled'
    BY SuspendedStep DEF vars, SuspendedIsRecalled
  <1> QED BY <1>1, <1>2, OwnAlways, PTL DEF Spec

-----------------------------------------------------------------------------
(* Obsolete frames.                                                        *)

Recalls(q, b) ==
  \A m \in Mailboxes :
    b[m].sw # "free" /\ RequiresAbort(q, b[m].owner) => b[m].hw # "request"

(* What makes nothing obsolete and requests nothing leaves nothing to do. *)
LEMMA RecallsKept ==
  ASSUME NEW q, NEW n, NEW b \in [Mailboxes -> MailboxType], NEW c,
         Recalls(q, b), NotStaler(q, n), Settles(b, c)
  PROVE  Recalls(n, c)
  <1> SUFFICES ASSUME NEW m \in Mailboxes, c[m].sw # "free",
                      RequiresAbort(n, c[m].owner)
               PROVE  c[m].hw # "request"
    BY DEF Recalls
  <1> DEFINE t == b[m].owner
  <1>1. c[m].owner = t /\ b[m].sw # "free" /\ t \in Tokens
    BY DEF Settles, MailboxType
  <1>2. t # NoToken /\ n[t.stream].active.gen = t.gen
        /\ n[t.stream].active.stale /\ t.stream \in {"critical", "protected"}
    BY <1>1 DEF RequiresAbort, Found
  <1>3. t.stream \in Streams
    BY <1>1, <1>2, TokenFacts
  <1>4. RequiresAbort(q, t)
    BY <1>2, <1>3 DEF NotStaler, RequiresAbort, Found
  <1> QED BY <1>1, <1>4 DEF Recalls, Settles

(* The pump loads nothing obsolete without asking it back. *)
LEMMA PumpRecalls ==
  ASSUME OwnInv, Recalls(queue, mailbox), Reserve \/ Load \/ Mark
  PROVE  Recalls(queue', mailbox')
  <1>0. /\ QueueOK(queue) /\ pump.token \in Tokens
        /\ mailbox \in [Mailboxes -> MailboxType]
    BY DEF OwnInv, PumpType
  <1>1. QueueOK(PromotedAll(queue)) /\ NotStaler(queue, PromotedAll(queue))
    BY <1>0, PromotedAllFacts, PromotedAllNotStaler DEF OwnInv
  <1>2. CASE Reserve
    <2>1. CASE UNCHANGED queue
      BY <1>2, <2>1 DEF Reserve, Recalls
    <2>2. CASE queue' = PromotedAll(queue)
      BY <1>0, <1>1, <1>2, <2>2, RecallsKept, SettlesFacts DEF Reserve
    <2>3. ASSUME NEW t \in First(PromotedAll(queue)),
                 queue' = Marked(PromotedAll(queue), t, {"pending"}, "reserved")
          PROVE  Recalls(queue', mailbox')
      <3>1. t \in Tokens
        BY <1>1, FirstFacts
      <3>2. NotStaler(PromotedAll(queue), queue')
        BY <1>1, <2>3, <3>1, MarkedNotStaler DEF FrameStates
      <3>3. NotStaler(queue, queue')
        BY <1>1, <3>2 DEF NotStaler
      <3> QED BY <1>0, <1>2, <3>3, RecallsKept, SettlesFacts DEF Reserve
    <2> QED BY <1>2, <2>1, <2>2, <2>3 DEF Reserve
  <1>3. CASE Load /\ LoadFails
    <2> DEFINE to == IF RequiresAbort(queue, pump.token) THEN "discarded"
                     ELSE "pending"
               q == Marked(queue, pump.token, {"reserved"}, to)
    <2>1. to \in FrameStates
      BY DEF FrameStates
    <2>2. queue' = PromotedAll(q) /\ UNCHANGED mailbox
      BY <1>3 DEF LoadFails
    <2> HIDE DEF to
    <2>3. QueueOK(q) /\ NotStaler(queue, q)
      BY <1>0, <2>1, MarkedNotStaler
    <2> HIDE DEF q
    <2>4. NotStaler(q, queue')
      BY <2>2, <2>3, PromotedAllNotStaler
    <2>5. NotStaler(queue, queue')
      BY <2>3, <2>4 DEF NotStaler
    <2> QED BY <1>0, <2>2, <2>5, RecallsKept, SettlesFacts
  <1>4. ASSUME NEW m \in Usable, LoadWorks(m)
        PROVE  Recalls(queue', mailbox')
    BY <1>0, <1>4 DEF LoadWorks, Usable, Recalls, MailboxType
  <1>5. CASE Mark
    <2> DEFINE state == IF Obsolete THEN "abort" ELSE "loaded"
    <2>1. PICK m \in Mailboxes :
            /\ queue' = Marked(queue, pump.token, {"reserved"}, state)
            /\ LET b == [mailbox EXCEPT ![m].sw = state,
                                        ![m].owner = pump.token]
               IN  mailbox' = IF Obsolete THEN AbortAsked(b, {m}) ELSE b
      BY <1>5 DEF Mark
    <2>2. state \in FrameStates
      BY DEF FrameStates
    <2>3. NotStaler(queue, queue')
      BY <1>0, <2>1, <2>2, MarkedNotStaler
    <2>4. /\ mailbox'[m].owner = pump.token
          /\ Obsolete => mailbox'[m].hw # "request"
          /\ \A n \in Mailboxes : n # m => mailbox'[n] = mailbox[n]
      BY <1>0, <2>1 DEF AbortAsked, MailboxType
    <2> HIDE DEF state
    <2>5. ASSUME NEW t \in Tokens, RequiresAbort(queue', t)
          PROVE  RequiresAbort(queue, t)
      BY <2>3, <2>5, TokenFacts DEF RequiresAbort, Found, NotStaler
    <2>6. ASSUME NEW n \in Mailboxes, mailbox'[n].sw # "free",
                 RequiresAbort(queue', mailbox'[n].owner)
          PROVE  mailbox'[n].hw # "request"
      <3>1. CASE n = m
        BY <1>0, <2>4, <2>5, <2>6, <3>1 DEF Obsolete
      <3>2. CASE n # m
        <4>1. mailbox[n].owner \in Tokens
          BY <1>0 DEF MailboxType
        <4> QED BY <2>4, <2>5, <2>6, <3>2, <4>1 DEF Recalls
      <3> QED BY <3>1, <3>2
    <2> QED BY <2>6 DEF Recalls
  <1> QED BY <1>2, <1>3, <1>4, <1>5 DEF Load

(* canbus_tx_abort_stale leaves none behind. *)
LEMMA AbortStaleRecalls ==
  ASSUME OwnInv, AbortStale
  PROVE  Recalls(queue', mailbox')
  <1> DEFINE b == [m \in Mailboxes |->
                     IF m \in Recalled THEN [mailbox[m] EXCEPT !.sw = "abort"]
                     ELSE mailbox[m]]
  <1>0. mailbox \in [Mailboxes -> MailboxType] /\ HeldInv(queue, mailbox, pump)
        /\ QueueOK(queue)
    BY DEF OwnInv, Own
  <1>1. /\ b \in [Mailboxes -> MailboxType]
        /\ \A m \in Mailboxes :
             /\ b[m].owner = mailbox[m].owner /\ b[m].hw = mailbox[m].hw
             /\ b[m].sw = "free" <=> mailbox[m].sw = "free"
    BY <1>0 DEF MailboxType, Recalled
  <1>2. mailbox' = AbortAsked(b, Recalled)
    BY DEF AbortStale
  <1> HIDE DEF b
  <1>3. /\ Settles(b, mailbox')
        /\ \A m \in Recalled : mailbox'[m].hw # "request"
    BY <1>1, <1>2, SettlesFacts, AbortAskedFacts DEF Recalled
  <1>4. ASSUME NEW s \in Streams
        PROVE  /\ queue'[s].active.gen = queue[s].active.gen
               /\ queue'[s].active.stale = queue[s].active.stale
    BY <1>0 DEF AbortStale, QueueOK, StreamOK, QueueType, GenerationType
  <1>5. ASSUME NEW m \in Mailboxes, mailbox'[m].sw # "free",
               RequiresAbort(queue', mailbox'[m].owner)
        PROVE  mailbox'[m].hw # "request"
    <2> DEFINE t == mailbox[m].owner
    <2>1. mailbox[m].sw # "free" /\ mailbox'[m].owner = t /\ t \in Tokens
      BY <1>0, <1>1, <1>3, <1>5 DEF Settles, MailboxType
    <2>2. t # NoToken /\ queue'[t.stream].active.gen = t.gen
          /\ queue'[t.stream].active.stale
          /\ t.stream \in {"critical", "protected"}
      BY <1>5, <2>1 DEF RequiresAbort, Found
    <2>3. RequiresAbort(queue, t)
      BY <1>4, <2>1, <2>2, TokenFacts DEF RequiresAbort, Found
    <2>4. CASE mailbox[m].sw = "loaded"
      BY <1>3, <2>3, <2>4 DEF Recalled
    <2>5. CASE mailbox[m].sw = "abort"
      BY <1>0, <1>1, <1>3, <2>5 DEF HeldInv, Settles
    <2> QED BY <1>0, <2>1, <2>4, <2>5 DEF MailboxType
  <1> QED BY <1>5 DEF Recalls

(* Every step, a publication until it has recalled. *)
LEMMA StaleStep ==
  ASSUME OwnInv, StaleIsRecalled, Next
  PROVE  StaleIsRecalled'
  <1>0. /\ QueueOK(queue) /\ mailbox \in [Mailboxes -> MailboxType]
        /\ Own(queue, mailbox, pump) /\ pump \in PumpType
    BY DEF OwnInv
  <1>1. StaleIsRecalled <=> (task = "idle" => Recalls(queue, mailbox))
    BY DEF StaleIsRecalled, Recalls
  <1>2. StaleIsRecalled' <=> (task' = "idle" => Recalls(queue', mailbox'))
    BY DEF StaleIsRecalled, Recalls
  <1>3. ASSUME NotStaler(queue, queue'), Settles(mailbox, mailbox'),
               UNCHANGED task
        PROVE  StaleIsRecalled'
    BY <1>0, <1>1, <1>2, <1>3, RecallsKept
  <1>4. NotStaler(queue, queue)
    BY DEF NotStaler
  <1>5. ASSUME NEW m \in Mailboxes, WireSend(m) \/ WireAbort(m)
        PROVE  StaleIsRecalled'
    <2>1. Settles(mailbox, mailbox')
      BY <1>0, <1>5 DEF Settles, WireSend, WireAbort, MailboxType
    <2> QED BY <1>3, <1>4, <1>5, <2>1 DEF WireSend, WireAbort
  <1>6. CASE Reserve \/ Load \/ Mark
    BY <1>1, <1>2, <1>6, PumpRecalls DEF Reserve, Load, Mark
  <1>7. CASE Release \/ OtherIrq \/ BusOff \/ Resume
    BY <1>0, <1>3, <1>4, <1>7, SettlesFacts
    DEF Release, OtherIrq, BusOff, Resume
  <1>8. ASSUME NEW which \in SUBSET Mailboxes, MailboxIrq(which)
        PROVE  StaleIsRecalled'
    <2> DEFINE q == Retired(which)
               n == Reported(q)
    <2>1. /\ QueueOK(q) /\ NotStaler(queue, q)
          /\ Own(q, mailbox', pump) /\ mailbox' \in [Mailboxes -> MailboxType]
      BY <1>8, RetiredFacts DEF MailboxIrq, NotStaler
    <2>2. /\ queue' = PromotedAll(n) /\ Settles(mailbox, mailbox')
          /\ UNCHANGED task
      BY <1>0, <1>8 DEF MailboxIrq, Settles, FreeMailbox
    <2> HIDE DEF q
    <2>3. QueueOK(n)
      BY <1>0, <2>1, ReportedFacts
    <2>4. NotStaler(q, n)
      BY <2>1 DEF Reported, NotStaler, QueueOK, StreamOK, QueueType
    <2> HIDE DEF n
    <2>5. NotStaler(n, queue')
      BY <2>2, <2>3, PromotedAllNotStaler
    <2>6. NotStaler(queue, queue')
      BY <2>1, <2>4, <2>5 DEF NotStaler
    <2> QED BY <1>3, <2>2, <2>6
  <1>9. ASSUME NEW s \in Streams, Publish(s)
        PROVE  StaleIsRecalled'
    BY <1>2, <1>9 DEF Publish
  <1>10. CASE AbortStale
    BY <1>2, <1>10, AbortStaleRecalls
  <1>11. CASE Poll
    <2>1. CASE UNCHANGED queue
      BY <1>0, <1>3, <1>4, <1>11, <2>1, SettlesFacts DEF Poll
    <2>2. CASE AllSettled /\ UNCHANGED mailbox
      BY <1>2, <2>2 DEF AllSettled, FreeMailbox, Recalls
    <2> QED BY <1>11, <2>1, <2>2 DEF Poll
  <1> QED
    BY <1>5, <1>6, <1>7, <1>8, <1>9, <1>10, <1>11
    DEF Next, Controller, Interrupt, Pump, CanTask

(* Between publications no obsolete command or protected frame waits in a  *)
(* mailbox without having been asked to abort.                             *)
THEOREM StaleIsAlwaysRecalled == Spec => []StaleIsRecalled
  <1>1. Init => StaleIsRecalled
    BY DEF Init, StaleIsRecalled, FreeMailbox
  <1>2. OwnInv /\ StaleIsRecalled /\ [Next]_vars => StaleIsRecalled'
    BY StaleStep DEF vars, StaleIsRecalled, RequiresAbort, Found
  <1> QED BY <1>1, <1>2, OwnAlways, PTL DEF Spec

(* No mailbox may win the bus with a frame nobody wants sent: neither an   *)
(* obsolete one nor one the gate holds back.                               *)
THEOREM UnwantedIsNeverSent == Spec => []NothingUnwantedIsSent
  BY StaleIsAlwaysRecalled, SuspendedIsAlwaysRecalled, PTL
  DEF NothingUnwantedIsSent

-----------------------------------------------------------------------------
(* Kicks.                                                                  *)

(* A pump about to stop, or stopped, without a kick to come has left       *)
(* nothing behind that a mailbox could take; a kick is not kept for later. *)
KickInv ==
  /\ pump.by = "none" => ~pump.kick
  /\ ~gate.suspended /\ pump.pc \in {"idle", "release"} /\ ~pump.kick
       /\ task = "idle" /\ Waiting(queue) # {} => Usable = {}

(* Mailboxes of which no more are usable than before. *)
NoMoreUsable ==
  \A m \in Mailboxes :
    mailbox'[m].sw = "free" /\ mailbox'[m].hw = "empty"
      => mailbox[m].sw = "free" /\ mailbox[m].hw = "empty"

(* A kick starts the pump or is remembered by it. *)
LEMMA KickedKicks ==
  ASSUME OwnInv, pump.by = "none" => ~pump.kick, NEW who \in {"task", "isr"}
  PROVE  /\ Kicked(who).by # "none"
         /\ Kicked(who).pc \in {"idle", "release"} => Kicked(who).kick
  BY DEF Kicked, OwnInv, PumpType, Own, PumpInv

(* Every step. *)
LEMMA KickStep ==
  ASSUME OwnInv, KickInv, Next
  PROVE  KickInv'
  <1>0. /\ mailbox \in [Mailboxes -> MailboxType] /\ pump \in PumpType
        /\ Own(queue, mailbox, pump) /\ gate \in GateType
        /\ (pump.by = "none" <=> pump.pc = "idle")
    BY DEF OwnInv, Own, PumpInv
  <1>1. Usable' # {} /\ NoMoreUsable => Usable # {}
    BY DEF NoMoreUsable, Usable
  <1>2. ASSUME UNCHANGED <<queue, pump, task, gate>>, NoMoreUsable
        PROVE  KickInv'
    BY <1>1, <1>2 DEF KickInv, Waiting
  <1>3. \A which : \A b \in [Mailboxes -> MailboxType], m \in Mailboxes :
          /\ AbortAsked(b, which)[m].sw = b[m].sw
          /\ AbortAsked(b, which)[m].hw = "empty" <=> b[m].hw = "empty"
    BY AbortAskedFacts DEF Works
  <1>4. ASSUME NEW m \in Mailboxes, WireSend(m) \/ WireAbort(m)
        PROVE  KickInv'
    <2>1. NoMoreUsable
      BY <1>0, <1>4 DEF NoMoreUsable, WireSend, WireAbort, MailboxType
    <2> QED BY <1>2, <1>4, <2>1 DEF WireSend, WireAbort
  <1>5. ASSUME \E who \in {"task", "isr"} : pump' = Kicked(who)
        PROVE  KickInv'
    BY <1>5, KickedKicks DEF KickInv
  <1>6. CASE \/ OtherIrq \/ AbortStale \/ Resume
             \/ \E which \in SUBSET Mailboxes : MailboxIrq(which)
    BY <1>5, <1>6 DEF OtherIrq, AbortStale, Resume, MailboxIrq
  <1>7. CASE BusOff
    BY <1>7 DEF BusOff, KickInv
  <1>8. CASE Poll
    <2>1. CASE gate.event \/ (gate.recovery /\ AllSettled)
      BY <1>0, <1>8, <2>1 DEF Poll, KickInv, GateType
    <2>2. CASE UNCHANGED <<queue, mailbox, gate>>
      <3>1. NoMoreUsable
        BY <2>2 DEF NoMoreUsable
      <3> QED BY <1>2, <1>8, <2>2, <3>1 DEF Poll
    <2>3. CASE UNCHANGED <<queue, gate>>
               /\ mailbox' = AbortAsked(mailbox, Mailboxes)
      <3>1. NoMoreUsable
        BY <1>0, <1>3, <2>3 DEF NoMoreUsable
      <3> QED BY <1>2, <1>8, <2>3, <3>1 DEF Poll
    <2> QED BY <1>8, <2>1, <2>2, <2>3 DEF Poll
  <1>9. CASE \E s \in Streams : Publish(s)
    BY <1>9 DEF Publish, KickInv, TaskRuns
  <1>10. CASE Release
    BY <1>0, <1>10 DEF Release, KickInv, NotPumping, PumpType, Waiting, Usable
  <1>11. CASE Mark
    BY <1>0, <1>11 DEF Mark, KickInv, PumpType
  <1>12. CASE Load
    <2>1. CASE LoadFails
      <3>1. /\ pump'.by = pump.by /\ pump.by # "none"
            /\ UNCHANGED <<mailbox, gate>>
        BY <1>0, <1>12, <2>1 DEF Load, LoadFails, PumpType
      <3>2. gate.suspended \/ Usable = {}
        <4>1. pump'.pc = "release"
          BY <1>0, <2>1 DEF LoadFails, PumpType
        <4>2. ASSUME NEW m \in Usable, LoadWorks(m)
              PROVE  FALSE
          BY <1>0, <4>1, <4>2 DEF LoadWorks, PumpType
        <4> QED BY <1>12, <4>2 DEF Load, Refused
      <3>3. Usable' = Usable
        BY <3>1 DEF Usable
      <3> QED BY <3>1, <3>2, <3>3 DEF KickInv
    <2>2. CASE \E m \in Usable : LoadWorks(m)
      BY <1>0, <1>12, <2>2 DEF Load, LoadWorks, KickInv, PumpType
    <2> QED BY <1>12, <2>1, <2>2 DEF Load
  <1>13. CASE Reserve
    <2>1. UNCHANGED <<mailbox, task, gate>> /\ pump'.by = pump.by
          /\ pump.by # "none"
      BY <1>0, <1>13 DEF Reserve, PumpType
    <2>2. CASE gate.suspended \/ ~\E m \in Mailboxes : HwEmpty(m)
      <3>1. gate.suspended \/ Usable = {}
        BY <2>2 DEF Usable, HwEmpty
      <3> QED BY <2>1, <3>1 DEF KickInv, Usable
    <2>3. CASE ~(gate.suspended \/ ~\E m \in Mailboxes : HwEmpty(m))
               /\ Waiting(PromotedAll(queue)) = {}
      <3>1. queue' = PromotedAll(queue)
        BY <1>13, <2>3 DEF Reserve
      <3>2. Waiting(queue') = {}
        BY <2>3, <3>1
      <3> QED BY <2>1, <3>2 DEF KickInv
    <2>4. CASE ~(gate.suspended \/ ~\E m \in Mailboxes : HwEmpty(m))
               /\ Waiting(PromotedAll(queue)) # {}
      <3>1. pump'.pc = "load"
        BY <1>0, <1>13, <2>4 DEF Reserve, PumpType
      <3> QED BY <2>1, <3>1 DEF KickInv
    <2> QED BY <2>2, <2>3, <2>4
  <1> QED
    BY <1>4, <1>6, <1>7, <1>8, <1>9, <1>10, <1>11, <1>12, <1>13
    DEF Next, Controller, Interrupt, Pump, CanTask

(* No kick is lost: with the gate open and all at rest a frame waits only  *)
(* while every mailbox still has a completion to come.                     *)
THEOREM NoKickIsLost == Spec => []NoLostKick
  <1>1. Init => KickInv
    <2>1. ASSUME Init PROVE Waiting(queue) = {}
      BY <2>1 DEF Init, Waiting, Empty
    <2> QED BY <2>1 DEF Init, KickInv, NotPumping
  <1>2. OwnInv /\ KickInv /\ [Next]_vars => KickInv'
    <2>1. UNCHANGED vars => Waiting(queue)' = Waiting(queue) /\ Usable' = Usable
      BY DEF vars, Waiting, Usable
    <2> QED BY <2>1, KickStep DEF vars, KickInv
  <1>3. OwnInv /\ KickInv => NoLostKick
    BY DEF KickInv, NoLostKick, OwnInv, Own, PumpInv
  <1> QED BY <1>1, <1>2, <1>3, OwnAlways, PTL DEF Spec

-----------------------------------------------------------------------------
(* The order of generations.                                               *)

(* The frame a token names was on the wire, in the generation seen last.   *)
OnWire(w, t) == w[t.stream].gen = t.gen /\ t.frame \in w[t.stream].sent

(* The generations of a stream follow each other: the last one delivered,  *)
(* the last one seen, the active one, the one that waits, the newest, top. *)
GenOK(x, w, top) ==
  /\ w.gen <= top /\ x.active.gen <= top /\ x.pending <= top
  /\ x.active.gen = NoGen => x.pending = NoGen
  /\ x.active.gen # NoGen => w.gen <= x.active.gen
  /\ x.pending # NoGen => x.active.gen < x.pending
  /\ x.last <= w.gen

(* Of the active generation no waiting frame was seen, and every complete  *)
(* one was.                                                                *)
SeenOK(s, x, w) ==
  x.active.gen # NoGen =>
    \A f \in Frames[s] :
      /\ x.active.frame[f] = "pending"
           => w.gen # x.active.gen \/ f \notin w.sent
      /\ x.active.frame[f] = "complete"
           => w.gen = x.active.gen /\ f \in w.sent

Ordered(s, x, w, top) == GenOK(x, w, top) /\ SeenOK(s, x, w)

StreamsInv(q, w) == \A s \in Streams : Ordered(s, q[s], w[s], q[s].published)

(* A frame about to be loaded, or loaded and not sent yet, was not seen; a *)
(* sent one was.                                                           *)
LoadInv(p, w) == p.pc = "load" => ~OnWire(w, p.token)

MailInv(b, w) ==
  \A m \in Mailboxes :
    /\ b[m].hw \in {"request", "aborting"} => ~OnWire(w, b[m].holds)
    /\ b[m].hw = "sent" => OnWire(w, b[m].holds)

OrderInv ==
  StreamsInv(queue, wire) /\ LoadInv(pump, wire) /\ MailInv(mailbox, wire)

WireType(s) == [gen : 0..MaxGen[s], sent : SUBSET Frames[s]]

(* An empty stream is ordered, and so is one that starts a generation      *)
(* newer than all before.                                                  *)
LEMMA StartedOrdered ==
  ASSUME NEW s \in Streams, NEW x, StreamOK(s, x), NEW w \in WireType(s),
         NEW top \in Nat, w.gen <= top, x.last <= w.gen,
         NEW g \in 0..MaxGen[s], g <= top, g # NoGen => w.gen < g,
         NEW y, y.active = IF g = NoGen THEN Empty(s) ELSE Fresh(s, g),
         y.pending = NoGen, y.last = x.last
  PROVE  Ordered(s, y, w, top)
  <1>1. /\ y.active.gen = g /\ w.gen \in Nat /\ NoGen = 0
        /\ g # NoGen =>
             \A f \in Frames[s] : y.active.frame[f] = "pending"
    BY ConstantFacts, ActiveFacts DEF WireType
  <1>2. GenOK(y, w, top)
    BY <1>1 DEF GenOK
  <1>3. SeenOK(s, y, w)
    BY <1>1 DEF SeenOK
  <1> QED BY <1>2, <1>3 DEF Ordered

(* Promotion keeps the order. *)
LEMMA PromotedOrdered ==
  ASSUME NEW s \in Streams, NEW x, StreamOK(s, x), NEW w \in WireType(s),
         NEW top \in Nat, Ordered(s, x, w, top)
  PROVE  Ordered(s, Promoted(s, x), w, top)
  <1>1. CASE x.active.gen = NoGen \/ ~Done(x)
    BY <1>1 DEF Promoted
  <1>2. CASE ~(x.active.gen = NoGen \/ ~Done(x))
    <2> DEFINE y == Promoted(s, x)
               g == x.pending
    <2>1. /\ y.active = IF g = NoGen THEN Empty(s) ELSE Fresh(s, g)
          /\ y.pending = NoGen /\ y.last = x.last
      BY <1>2 DEF Promoted, StreamOK, QueueType
    <2>2. /\ g \in 0..MaxGen[s] /\ g <= top /\ x.last <= w.gen
          /\ w.gen <= top /\ w.gen <= x.active.gen
          /\ g # NoGen => x.active.gen < g
          /\ w.gen \in Nat /\ x.active.gen \in Nat /\ MaxGen[s] \in Nat
      BY <1>2, ConstantFacts
         DEF Ordered, GenOK, StreamOK, QueueType, GenerationType, WireType
    <2>3. g # NoGen => w.gen < g
      BY <2>2
    <2> HIDE DEF y, g
    <2> QED BY <2>1, <2>2, <2>3, StartedOrdered DEF y
  <1> QED BY <1>1, <1>2

(* A frame that changes keeps the order unless it is to wait although it   *)
(* was seen, or is complete although it was not.                           *)
LEMMA FramesOrdered ==
  ASSUME NEW s \in Streams, NEW x, NEW y, NEW w, NEW top,
         Ordered(s, x, w, top),
         y.active.gen = x.active.gen, y.pending = x.pending, y.last = x.last,
         \A f \in Frames[s] :
           \/ y.active.frame[f] = x.active.frame[f]
           \/ y.active.frame[f] \notin {"pending", "complete"}
           \/ /\ y.active.frame[f] = "pending"
              /\ w.gen # x.active.gen \/ f \notin w.sent
           \/ /\ y.active.frame[f] = "complete"
              /\ w.gen = x.active.gen /\ f \in w.sent
  PROVE  Ordered(s, y, w, top)
  <1>1. GenOK(y, w, top)
    BY DEF Ordered, GenOK
  <1>2. SeenOK(s, y, w)
    BY DEF Ordered, SeenOK
  <1> QED BY <1>1, <1>2 DEF Ordered

(* Publication: the new generation is the top one.                         *)

(* Replacing what waits, the active generation kept or made obsolete. *)
LEMMA WaitsOrdered ==
  ASSUME NEW s \in Streams, NEW x, StreamOK(s, x), NEW w \in WireType(s),
         NEW g \in 1..MaxGen[s], Ordered(s, x, w, g - 1),
         x.active.gen # NoGen, NEW b \in BOOLEAN, NEW y,
         y.active = IF b THEN Discarded(x.active) ELSE x.active,
         y.pending = g, y.last = x.last
  PROVE  Ordered(s, y, w, g)
  <1>1. /\ y.active.gen = x.active.gen /\ x.active.gen \in Nat
        /\ \A f \in Frames[s] :
             \/ y.active.frame[f] = x.active.frame[f]
             \/ y.active.frame[f] = "discarded"
        /\ w.gen \in Nat /\ x.last \in Nat /\ g \in Nat /\ g # NoGen
    BY ConstantFacts
       DEF Discarded, StreamOK, QueueType, GenerationType, WireType
  <1>2. GenOK(y, w, g)
    BY <1>1 DEF Ordered, GenOK
  <1>3. SeenOK(s, y, w)
    BY <1>1 DEF Ordered, SeenOK
  <1> QED BY <1>2, <1>3 DEF Ordered

(* Starting at once. *)
LEMMA StartsOrdered ==
  ASSUME NEW s \in Streams, NEW x, StreamOK(s, x), NEW w \in WireType(s),
         NEW g \in 1..MaxGen[s], Ordered(s, x, w, g - 1)
  PROVE  Ordered(s, Started(s, x, g), w, g)
  <1> DEFINE y == Started(s, x, g)
  <1>1. y.active = Fresh(s, g) /\ y.pending = NoGen /\ y.last = x.last
    BY DEF Started, StreamOK, QueueType
  <1>2. /\ g \in Nat /\ g \in 0..MaxGen[s] /\ g # NoGen /\ g <= g
        /\ w.gen <= g /\ w.gen < g /\ x.last <= w.gen
    BY ConstantFacts DEF Ordered, GenOK, WireType
  <1> HIDE DEF y
  <1> QED BY <1>1, <1>2, StartedOrdered DEF y

(* Whatever the stream and its options. *)
LEMMA PublishedOrdered ==
  ASSUME NEW s \in Streams, NEW x, StreamOK(s, x), NEW w \in WireType(s),
         Ordered(s, x, w, x.published), x.published < MaxGen[s],
         NEW option \in BOOLEAN
  PROVE  /\ Ordered(s, Published(s, x, option), w, x.published + 1)
         /\ Published(s, x, option).published = x.published + 1
         /\ Published(s, x, option).last = x.last
  <1> DEFINE p == Promoted(s, x)
             g == x.published + 1
             n == CASE s = "critical"  -> Command(p, g)
                    [] s = "protected" -> Bundle(p, g, option)
                    [] s = "detail"    -> Detail(p, g, option)
             y == [n EXCEPT !.published = g]
  <1>1. x.published \in Nat /\ MaxGen[s] \in Nat
    BY ConstantFacts DEF StreamOK, QueueType
  <1>2. g \in 1..MaxGen[s] /\ g - 1 = x.published /\ g \in 0..MaxGen[s]
        /\ g \in Nat /\ g - 1 \in Nat
    BY <1>1
  <1>3. s \in {"critical", "protected", "detail"}
    BY ConstantsAssumption DEF ConstantsAssumption
  <1>4. Published(s, x, option) = y
    BY DEF Published
  <1>5. StreamOK(s, p) /\ p.last = x.last
    BY PromotedFacts
  <1>6. Ordered(s, p, w, g - 1)
    BY <1>2, PromotedOrdered
  <1> HIDE DEF p, g
  <1>7. Started(s, p, g) \in QueueType(s) /\ Started(s, p, g).last = p.last
        /\ Ordered(s, Started(s, p, g), w, g)
    <2>1. StreamOK(s, Started(s, p, g)) /\ Started(s, p, g).last = p.last
      <3>1. Fresh(s, g) \in GenerationType(s) /\ NoGen \in 0..MaxGen[s]
        BY <1>2, ActiveFacts, ConstantFacts
      <3>2. Fresh(s, g).gen # NoGen
        BY <1>2, ActiveFacts
      <3> QED BY <1>5, <3>1, <3>2 DEF Started, StreamOK, QueueType
    <2> QED BY <1>2, <1>5, <1>6, <2>1, StartsOrdered DEF StreamOK
  <1> DEFINE z(b) == [p EXCEPT !.active = IF b THEN Discarded(@) ELSE @,
                               !.pending = g]
  <1>8. ASSUME NEW b \in BOOLEAN, p.active.gen # NoGen
        PROVE  StreamOK(s, z(b)) /\ z(b).last = p.last /\ Ordered(s, z(b), w, g)
    <2>0. StreamOK(s, p) /\ g \in 1..MaxGen[s]
      BY <1>2, <1>5
    <2> DEFINE a == IF b THEN Discarded(p.active) ELSE p.active
    <2>1. /\ a \in GenerationType(s) /\ a.gen # NoGen
          /\ z(b) = [p EXCEPT !.active = a, !.pending = g]
      BY <1>8, <2>0 DEF StreamOK, QueueType, GenerationType, Discarded,
                        FrameStates
    <2> HIDE DEF a, z
    <2>2. /\ z(b) \in QueueType(s) /\ z(b).last = p.last
          /\ z(b).active = a /\ z(b).pending = g
      <3>1. g \in 0..MaxGen[s] /\ p \in QueueType(s)
        BY <1>2, <2>0 DEF StreamOK
      <3> QED BY ONLY <2>1, <3>1 DEF QueueType
    <2>3. StreamOK(s, z(b))
      BY <2>1, <2>2 DEF StreamOK
    <2> QED BY <1>2, <1>5, <1>6, <1>8, <2>2, <2>3, WaitsOrdered DEF a
  <1>9. n \in QueueType(s) /\ n.last = p.last /\ Ordered(s, n, w, g)
    <2>1. CASE s = "critical"
      <3>1. n = Command(p, g)
        BY <2>1
      <3>2. CASE p.active.gen = NoGen \/ ~InHardware(p)
        BY <1>7, <2>1, <3>1, <3>2 DEF Command
      <3>3. CASE ~(p.active.gen = NoGen \/ ~InHardware(p))
        <4>1. n = z(TRUE)
          BY <3>1, <3>3 DEF Command
        <4> HIDE DEF n, z
        <4> QED BY <1>8, <3>3, <4>1 DEF StreamOK
      <3> QED BY <3>2, <3>3
    <2>2. CASE s = "protected"
      <3>1. n = Bundle(p, g, option)
        BY <2>2
      <3>2. CASE p.active.gen = NoGen
        BY <1>7, <2>2, <3>1, <3>2 DEF Bundle
      <3>3. CASE p.active.gen # NoGen
        <4>1. n = Promoted(s, z(option))
          BY <2>2, <3>1, <3>3 DEF Bundle
        <4> HIDE DEF z, n
        <4>2. /\ StreamOK(s, z(option)) /\ z(option).last = p.last
              /\ Ordered(s, z(option), w, g)
          BY <1>8, <3>3
        <4> QED BY <1>2, <4>1, <4>2, PromotedFacts, PromotedOrdered DEF StreamOK
      <3> QED BY <3>2, <3>3
    <2>3. CASE s = "detail"
      <3>1. n = Detail(p, g, option)
        BY <2>3
      <3>2. CASE p.active.gen = NoGen
        BY <1>7, <2>3, <3>1, <3>2 DEF Detail
      <3>3. CASE p.active.gen # NoGen /\ p.pending # NoGen /\ option
                   /\ ~p.tuning
        <4>1. n = p
          BY <3>1, <3>3 DEF Detail
        <4>2. Ordered(s, p, w, g)
          BY <1>2, <1>5, <1>6 DEF Ordered, GenOK, StreamOK, QueueType,
                                  GenerationType, WireType
        <4> QED BY <1>5, <4>1, <4>2 DEF StreamOK
      <3>4. CASE /\ p.active.gen # NoGen
                 /\ ~(p.pending # NoGen /\ option /\ ~p.tuning)
        <4>1. n = [p EXCEPT !.pending = g, !.tuning = option]
          BY <3>1, <3>4 DEF Detail
        <4>2. Ordered(s, z(FALSE), w, g) /\ z(FALSE).last = p.last
          BY <1>8, <3>4
        <4>3. z(FALSE).active = p.active /\ z(FALSE).pending = g
          BY <1>5 DEF StreamOK, QueueType
        <4> HIDE DEF z, n
        <4>4. /\ n.active = p.active /\ n.pending = g /\ n.last = p.last
              /\ n \in QueueType(s)
          BY <1>2, <1>5, <4>1 DEF StreamOK, QueueType
        <4> QED BY <4>2, <4>3, <4>4 DEF Ordered, GenOK, SeenOK
      <3> QED BY <3>2, <3>3, <3>4
    <2> QED BY <1>3, <2>1, <2>2, <2>3
  <1> HIDE DEF n
  <1>10. /\ y.active = n.active /\ y.pending = n.pending /\ y.last = n.last
         /\ y.published = g
    BY <1>9 DEF QueueType
  <1> HIDE DEF y
  <1>11. Ordered(s, y, w, g)
    BY <1>9, <1>10 DEF Ordered, GenOK, SeenOK
  <1> QED BY <1>4, <1>5, <1>9, <1>10, <1>11 DEF g

-----------------------------------------------------------------------------
(* The steps.                                                              *)

(* The histories of all streams are as they were. *)
SameHistory(q, n) ==
  \A s \in Streams :
    n[s].published = q[s].published /\ n[s].last = q[s].last

OrderTypes ==
  /\ QueueOK(queue) /\ WireOK(wire) /\ pump \in PumpType
  /\ mailbox \in [Mailboxes -> MailboxType] /\ Own(queue, mailbox, pump)

(* All streams promoted. *)
LEMMA PromotedAllOrdered ==
  ASSUME NEW q, QueueOK(q), NEW w, WireOK(w), StreamsInv(q, w)
  PROVE  StreamsInv(PromotedAll(q), w) /\ SameHistory(q, PromotedAll(q))
  <1> SUFFICES ASSUME NEW s \in Streams
               PROVE  /\ Ordered(s, PromotedAll(q)[s], w[s],
                                 PromotedAll(q)[s].published)
                      /\ PromotedAll(q)[s].published = q[s].published
                      /\ PromotedAll(q)[s].last = q[s].last
    BY DEF StreamsInv, SameHistory
  <1>1. /\ StreamOK(s, q[s]) /\ w[s] \in WireType(s)
        /\ Ordered(s, q[s], w[s], q[s].published) /\ q[s].published \in Nat
    BY ConstantFacts DEF QueueOK, WireOK, WireType, StreamsInv, StreamOK,
                         QueueType
  <1>2. PromotedAll(q)[s] = Promoted(s, q[s])
    BY DEF PromotedAll
  <1> QED BY <1>1, <1>2, PromotedFacts, PromotedOrdered

(* What marking a token leaves alone. *)
LEMMA MarkedKeeps ==
  ASSUME NEW q, QueueOK(q), NEW t \in Tokens, Found(q, t), NEW from, NEW to
  PROVE  LET n == Marked(q, t, from, to)
         IN  /\ SameHistory(q, n)
             /\ \A s \in Streams : n[s].pending = q[s].pending
  <1> DEFINE n == Marked(q, t, from, to)
             a == [q[t.stream].active EXCEPT !.frame[t.frame] = to]
             y == [q[t.stream] EXCEPT !.active = a]
  <1>1. t.stream \in Streams /\ q[t.stream] \in QueueType(t.stream)
    BY TokenFacts DEF Found, QueueOK, StreamOK
  <1>2. n = q \/ n = [q EXCEPT ![t.stream] = y]
    BY DEF Marked
  <1> HIDE DEF a
  <1>3. /\ y.published = q[t.stream].published /\ y.last = q[t.stream].last
        /\ y.pending = q[t.stream].pending
    BY <1>1 DEF QueueType
  <1> HIDE DEF y
  <1>4. \A s \in Streams : n[s] = q[s] \/ (s = t.stream /\ n[s] = y)
    BY <1>1, <1>2 DEF QueueOK
  <1> QED BY <1>3, <1>4 DEF SameHistory

(* A marked frame is selected, given up, or waits although it was not sent. *)
LEMMA MarkedOrdered ==
  ASSUME NEW q, QueueOK(q), NEW w, StreamsInv(q, w),
         NEW t \in Tokens, Found(q, t), NEW from,
         q[t.stream].active.frame[t.frame] \in from, NEW to \in FrameStates,
         to # "complete", to = "pending" => ~OnWire(w, t)
  PROVE  StreamsInv(Marked(q, t, from, to), w)
  <1> DEFINE n == Marked(q, t, from, to)
  <1>1. /\ \A s \in Streams :
             /\ n[s].active.gen = q[s].active.gen
             /\ \A f \in Frames[s] :
                  n[s].active.frame[f]
                    = IF s = t.stream /\ f = t.frame THEN to
                      ELSE q[s].active.frame[f]
    BY MarkedFacts
  <1>2. /\ SameHistory(q, n)
        /\ \A s \in Streams : n[s].pending = q[s].pending
    BY MarkedKeeps
  <1> HIDE DEF n
  <1>3. t.gen = q[t.stream].active.gen
    BY DEF Found
  <1>4. ASSUME NEW s \in Streams
        PROVE  Ordered(s, n[s], w[s], n[s].published)
    <2>1. /\ Ordered(s, q[s], w[s], q[s].published)
          /\ n[s].active.gen = q[s].active.gen
          /\ n[s].pending = q[s].pending /\ n[s].last = q[s].last
          /\ n[s].published = q[s].published
      BY <1>1, <1>2 DEF StreamsInv, SameHistory
    <2>2. ASSUME NEW f \in Frames[s]
          PROVE  \/ n[s].active.frame[f] = q[s].active.frame[f]
                 \/ n[s].active.frame[f] \notin {"pending", "complete"}
                 \/ /\ n[s].active.frame[f] = "pending"
                    /\ w[s].gen # q[s].active.gen \/ f \notin w[s].sent
      <3>1. CASE s = t.stream /\ f = t.frame
        BY <1>1, <1>3, <3>1 DEF OnWire
      <3>2. CASE ~(s = t.stream /\ f = t.frame)
        BY <1>1, <3>2
      <3> QED BY <3>1, <3>2
    <2> QED BY <2>1, <2>2, FramesOrdered
  <1> QED BY <1>4 DEF StreamsInv, n

(* Mailboxes that were freed or asked to abort, or whose hardware has      *)
(* aborted.                                                                *)
Recedes(b, c) ==
  \A m \in Mailboxes :
    \/ c[m].hw = "empty"
    \/ c[m].holds = b[m].holds
       /\ \/ c[m].hw = b[m].hw
          \/ c[m].hw = "aborted"
          \/ b[m].hw = "request" /\ c[m].hw = "aborting"

(* They keep the order. *)
LEMMA RecedesOrdered ==
  ASSUME NEW b, NEW c, NEW w, MailInv(b, w), Recedes(b, c)
  PROVE  MailInv(c, w)
  BY DEF MailInv, Recedes

(* An abort request is such a step. *)
LEMMA AbortAskedRecedes ==
  ASSUME NEW b \in [Mailboxes -> MailboxType], NEW which
  PROVE  Recedes(b, AbortAsked(b, which))
  BY DEF AbortAsked, MailboxType, Recedes

(* A pump that does not begin a load. *)
LEMMA PumpOrdered ==
  ASSUME NEW p, NEW r, NEW w, LoadInv(p, w),
         r.pc # "load" \/ (r.pc = p.pc /\ r.token = p.token)
  PROVE  LoadInv(r, w)
  BY DEF LoadInv

(* A kick does not. *)
LEMMA KickedOrdered ==
  ASSUME pump \in PumpType, NEW who \in {"task", "isr"}, NEW w,
         LoadInv(pump, w)
  PROVE  LoadInv(Kicked(who), w)
  <1>1. \/ Kicked(who).pc = "reserve"
        \/ Kicked(who).pc = pump.pc /\ Kicked(who).token = pump.token
    BY DEF Kicked, PumpType
  <1> QED BY <1>1, PumpOrdered

(* What the receiver and the publishers see does not change. *)
Unseen == wire' = wire /\ SameHistory(queue, queue')

(* Reserve *)
LEMMA ReserveOrdered ==
  ASSUME OrderTypes, OrderInv, Reserve
  PROVE  OrderInv' /\ Unseen
  <1>1. /\ StreamsInv(PromotedAll(queue), wire) /\ QueueOK(PromotedAll(queue))
        /\ SameHistory(queue, PromotedAll(queue))
    BY PromotedAllOrdered, PromotedAllFacts DEF OrderTypes, OrderInv
  <1>2. wire' = wire /\ mailbox' = mailbox /\ MailInv(mailbox', wire')
    BY DEF Reserve, OrderInv
  <1>3. CASE /\ queue' = queue \/ queue' = PromotedAll(queue)
             /\ pump' = [pump EXCEPT !.pc = "release"]
    <2>1. LoadInv(pump', wire')
      BY <1>3 DEF OrderTypes, PumpType, LoadInv
    <2>2. StreamsInv(queue', wire') /\ SameHistory(queue, queue')
      BY <1>1, <1>2, <1>3 DEF OrderInv, SameHistory
    <2> QED BY <1>2, <2>1, <2>2 DEF OrderInv, Unseen
  <1>4. ASSUME NEW t \in First(PromotedAll(queue)),
               queue' = Marked(PromotedAll(queue), t, {"pending"}, "reserved"),
               pump' = [pump EXCEPT !.pc = "load", !.token = t]
        PROVE  OrderInv' /\ Unseen
    <2> DEFINE q == PromotedAll(queue)
    <2> HIDE DEF q
    <2>1. /\ t \in Tokens /\ Found(q, t)
          /\ q[t.stream].active.frame[t.frame] = "pending"
      BY <1>1, <1>4, FirstFacts DEF q
    <2>2. /\ StreamsInv(q, wire) /\ QueueOK(q)
          /\ queue' = Marked(q, t, {"pending"}, "reserved")
      BY <1>1, <1>4 DEF q
    <2>3. StreamsInv(queue', wire)
      BY <2>1, <2>2, MarkedOrdered DEF FrameStates
    <2>4. SameHistory(q, queue')
      BY <2>1, <2>2, MarkedKeeps
    <2>5. SameHistory(queue, queue')
      BY <1>1, <2>4 DEF SameHistory, q
    <2>6. /\ t.stream \in Streams /\ t.frame \in Frames[t.stream]
          /\ t.gen = q[t.stream].active.gen /\ t.gen # NoGen
      BY <2>1, TokenFacts, ConstantFacts DEF Found
    <2>7. ~OnWire(wire, t)
      BY <2>1, <2>2, <2>6 DEF StreamsInv, Ordered, SeenOK, OnWire
    <2>8. pump'.token = t
      BY <1>4 DEF OrderTypes, PumpType
    <2>9. LoadInv(pump', wire')
      BY <1>2, <2>7, <2>8 DEF LoadInv
    <2> QED BY <1>2, <2>3, <2>5, <2>9 DEF OrderInv, Unseen
  <1> QED BY <1>3, <1>4 DEF Reserve

(* Load *)
LEMMA LoadOrdered ==
  ASSUME OrderTypes, OrderInv, Load
  PROVE  OrderInv' /\ Unseen
  <1>0. wire' = wire /\ pump.pc = "load"
    BY DEF Load
  <1>1. CASE LoadFails
    <2> DEFINE to == IF RequiresAbort(queue, pump.token) THEN "discarded"
                     ELSE "pending"
               q == Marked(queue, pump.token, {"reserved"}, to)
    <2>1. /\ pump.token \in Tokens /\ Found(queue, pump.token)
          /\ queue[pump.token.stream].active.frame[pump.token.frame]
               \in {"reserved"}
          /\ ~OnWire(wire, pump.token)
      BY <1>0 DEF OrderTypes, OrderInv, LoadInv, Own, PumpInv, PumpType, Found
    <2>2. to \in FrameStates /\ to # "complete"
      BY DEF FrameStates
    <2> HIDE DEF to
    <2>3. StreamsInv(q, wire) /\ SameHistory(queue, q) /\ QueueOK(q)
      BY <2>1, <2>2, MarkedOrdered, MarkedKeeps, MarkedFacts
         DEF OrderTypes, OrderInv
    <2> HIDE DEF q
    <2>4. queue' = PromotedAll(q)
      BY <1>1 DEF LoadFails, q, to
    <2>5. StreamsInv(queue', wire) /\ SameHistory(q, queue')
      BY <2>3, <2>4, PromotedAllOrdered DEF OrderTypes
    <2>6. SameHistory(queue, queue')
      BY <2>3, <2>5 DEF SameHistory
    <2>7. LoadInv(pump', wire')
      BY <1>1 DEF LoadFails, OrderTypes, PumpType, LoadInv
    <2>8. MailInv(mailbox', wire')
      BY <1>0, <1>1 DEF LoadFails, OrderInv
    <2> QED BY <1>0, <2>5, <2>6, <2>7, <2>8 DEF OrderInv, Unseen
  <1>2. ASSUME NEW m \in Usable, LoadWorks(m)
        PROVE  OrderInv' /\ Unseen
    <2>1. queue' = queue /\ pump'.pc = "mark" /\ m \in Mailboxes
      BY <1>2 DEF LoadWorks, OrderTypes, PumpType, Usable
    <2>2. /\ mailbox'[m].hw = "request" /\ mailbox'[m].holds = pump.token
          /\ \A n \in Mailboxes : n # m => mailbox'[n] = mailbox[n]
      BY <1>2, <2>1 DEF LoadWorks, OrderTypes, MailboxType
    <2>3. MailInv(mailbox', wire')
      BY <1>0, <2>2 DEF OrderInv, MailInv, LoadInv
    <2>4. LoadInv(pump', wire')
      BY <2>1 DEF LoadInv
    <2> QED BY <1>0, <2>1, <2>3, <2>4 DEF OrderInv, Unseen, SameHistory
  <1> QED BY <1>1, <1>2 DEF Load

(* Mark *)
LEMMA MarkOrdered ==
  ASSUME OrderTypes, OrderInv, Mark
  PROVE  OrderInv' /\ Unseen
  <1> DEFINE t == pump.token
             state == IF Obsolete THEN "abort" ELSE "loaded"
  <1>1. /\ t \in Tokens /\ Found(queue, t)
        /\ queue[t.stream].active.frame[t.frame] \in {"reserved"}
    BY DEF Mark, OrderTypes, Own, PumpInv, PumpType, Found
  <1>2. PICK m \in Mailboxes :
          /\ mailbox[m].holds = t
          /\ queue' = Marked(queue, t, {"reserved"}, state)
          /\ LET b == [mailbox EXCEPT ![m].sw = state, ![m].owner = t]
             IN  mailbox' = IF Obsolete THEN AbortAsked(b, {m}) ELSE b
    BY DEF Mark
  <1>3. state \in FrameStates /\ state \notin {"pending", "complete"}
        /\ state \in {"free", "loaded", "abort"}
    BY DEF FrameStates
  <1>4. wire' = wire /\ pump'.pc = "reserve"
    BY DEF Mark, OrderTypes, PumpType
  <1> DEFINE b == [mailbox EXCEPT ![m].sw = state, ![m].owner = t]
  <1>5. mailbox' = IF Obsolete THEN AbortAsked(b, {m}) ELSE b
    BY <1>2
  <1> HIDE DEF state, t
  <1>6. StreamsInv(queue', wire) /\ SameHistory(queue, queue')
    BY <1>1, <1>2, <1>3, MarkedOrdered, MarkedKeeps DEF OrderTypes, OrderInv
  <1>7. b \in [Mailboxes -> MailboxType] /\ Recedes(mailbox, b)
    BY <1>1, <1>3 DEF OrderTypes, MailboxType, Recedes
  <1> HIDE DEF b
  <1>8. MailInv(mailbox', wire)
    <2>1. MailInv(b, wire)
      BY <1>7, RecedesOrdered DEF OrderInv
    <2>2. MailInv(AbortAsked(b, {m}), wire)
      BY <1>7, <2>1, AbortAskedRecedes, RecedesOrdered
    <2> QED BY <1>5, <2>1, <2>2
  <1>9. LoadInv(pump', wire')
    BY <1>4 DEF LoadInv
  <1> QED BY <1>4, <1>6, <1>8, <1>9 DEF OrderInv, Unseen

(* Frames retired by a snapshot: complete only if they were sent. *)
LEMMA RetiredOrdered ==
  ASSUME OrderTypes, OrderInv, NEW which \in SUBSET Mailboxes,
         \A m \in which : Served(m)
  PROVE  StreamsInv(Retired(which), wire) /\ SameHistory(queue, Retired(which))
  <1> SUFFICES ASSUME NEW s \in Streams
               PROVE  /\ Ordered(s, Retired(which)[s], wire[s],
                                 Retired(which)[s].published)
                      /\ Retired(which)[s].published = queue[s].published
                      /\ Retired(which)[s].last = queue[s].last
    BY DEF StreamsInv, SameHistory
  <1> DEFINE x == queue[s]
             fr == [f \in Frames[s] |-> Outcome(s, f, which)]
             a == [x.active EXCEPT !.frame = fr]
             y == [x EXCEPT !.active = a]
  <1>1. Retired(which)[s] = y
    BY DEF Retired
  <1>2. x \in QueueType(s) /\ x.active \in GenerationType(s)
        /\ Ordered(s, x, wire[s], x.published)
    BY DEF OrderTypes, OrderInv, QueueOK, StreamOK, QueueType, StreamsInv
  <1>3. \A f \in Frames[s] : fr[f] = Outcome(s, f, which)
    OBVIOUS
  <1> HIDE DEF fr
  <1>4. a.gen = x.active.gen /\ a.frame = fr
    BY <1>2 DEF GenerationType
  <1> HIDE DEF a
  <1>5. /\ y.active = a /\ y.pending = x.pending /\ y.last = x.last
        /\ y.published = x.published
    BY <1>2 DEF QueueType
  <1> HIDE DEF y
  <1>6. ASSUME NEW f \in Frames[s]
        PROVE  \/ y.active.frame[f] = x.active.frame[f]
               \/ y.active.frame[f] \notin {"pending", "complete"}
               \/ /\ y.active.frame[f] = "complete"
                  /\ wire[s].gen = x.active.gen /\ f \in wire[s].sent
    <2>1. CASE \E m \in which : /\ mailbox[m].owner = Token(s, x.active.gen, f)
                                /\ mailbox[m].hw = "sent"
      <3>1. PICK m \in which : /\ mailbox[m].owner = Token(s, x.active.gen, f)
                               /\ mailbox[m].hw = "sent"
        BY <2>1
      <3>2. mailbox[m].holds = Token(s, x.active.gen, f)
        BY <3>1 DEF OrderTypes, Own, HeldInv, Served
      <3>3. OnWire(wire, Token(s, x.active.gen, f))
        BY <3>1, <3>2 DEF OrderInv, MailInv
      <3>4. wire[s].gen = x.active.gen /\ f \in wire[s].sent
        BY <3>3 DEF OnWire, Token
      <3>5. fr[f] \in {"complete", x.active.frame[f]}
        BY <1>3, <2>1 DEF Outcome
      <3> QED BY <1>4, <1>5, <3>4, <3>5
    <2>2. CASE ~\E m \in which : /\ mailbox[m].owner = Token(s, x.active.gen, f)
                                 /\ mailbox[m].hw = "sent"
      <3>1. fr[f] \in {"discarded", x.active.frame[f]}
        BY <1>3, <2>2 DEF Outcome
      <3> QED BY <1>4, <1>5, <3>1
    <2> QED BY <2>1, <2>2
  <1> HIDE DEF x
  <1>7. Ordered(s, y, wire[s], x.published)
    BY <1>2, <1>4, <1>5, <1>6, FramesOrdered
  <1> QED BY <1>1, <1>5, <1>7 DEF x

(* A delivery is told of the generation last seen, all of whose required   *)
(* frames were.                                                            *)
Delivers(q, n, w) ==
  /\ \A s \in Streams : n[s].published = q[s].published
  /\ \A s \in Streams : s # "protected" => n[s].last = q[s].last
  /\ q["protected"].last < w["protected"].gen
  /\ n["protected"].last = w["protected"].gen
  /\ Required \subseteq w["protected"].sent

(* The report. *)
LEMMA ReportedOrdered ==
  ASSUME NEW q, QueueOK(q), NEW w, WireOK(w), StreamsInv(q, w)
  PROVE  /\ StreamsInv(Reported(q), w)
         /\ SameHistory(q, Reported(q)) \/ Delivers(q, Reported(q), w)
  <1> DEFINE x == q["protected"]
             y == [x EXCEPT !.last = x.active.gen]
             n == [q EXCEPT !["protected"] = y]
  <1>0. "protected" \in Streams /\ Required \subseteq Frames["protected"]
        /\ Required # {}
    BY ConstantFacts, ConstantsAssumption DEF ConstantsAssumption, Required
  <1>1. CASE ~DeliveredNow(x)
    BY <1>1 DEF Reported, SameHistory
  <1>2. CASE DeliveredNow(x)
    <2>1. Reported(q) = n
      BY <1>2 DEF Reported
    <2>2. /\ x \in QueueType("protected")
          /\ x.active \in GenerationType("protected")
          /\ Ordered("protected", x, w["protected"], x.published)
          /\ w["protected"] \in WireType("protected")
      BY <1>0 DEF QueueOK, StreamOK, QueueType, StreamsInv, WireOK, WireType
    <2>3. /\ w["protected"].gen = x.active.gen
          /\ Required \subseteq w["protected"].sent
      BY <1>0, <1>2, <2>2 DEF DeliveredNow, Ordered, SeenOK
    <2>4. x.last < w["protected"].gen
      <3>1. x.last \in Nat /\ w["protected"].gen \in Nat
        BY <1>0, <2>2, ConstantFacts DEF QueueType, WireType
      <3> QED BY <1>2, <2>2, <2>3, <3>1 DEF DeliveredNow, Ordered, GenOK
    <2>5. /\ y.active = x.active /\ y.pending = x.pending
          /\ y.published = x.published /\ y.last = x.active.gen
      BY <2>2 DEF QueueType
    <2> HIDE DEF y
    <2>6. /\ n["protected"] = y
          /\ \A s \in Streams : s # "protected" => n[s] = q[s]
      BY <1>0 DEF QueueOK
    <2> HIDE DEF n
    <2>7. Ordered("protected", y, w["protected"], y.published)
      <3>1. w["protected"].gen \in Nat
        BY <1>0, <2>2, ConstantFacts DEF WireType
      <3> HIDE DEF x
      <3> QED BY <2>2, <2>3, <2>5, <3>1 DEF Ordered, GenOK, SeenOK
    <2>8. StreamsInv(n, w)
      BY <2>6, <2>7 DEF StreamsInv
    <2>9. Delivers(q, n, w)
      BY <2>3, <2>4, <2>5, <2>6 DEF Delivers
    <2> QED BY <2>1, <2>8, <2>9
  <1> QED BY <1>1, <1>2

(* MailboxIrq *)
LEMMA MailboxIrqOrdered ==
  ASSUME OrderTypes, OwnInv, OrderInv, NEW which \in SUBSET Mailboxes,
         MailboxIrq(which)
  PROVE  /\ OrderInv' /\ wire' = wire
         /\ SameHistory(queue, queue') \/ Delivers(queue, queue', wire)
  <1> DEFINE q == Retired(which)
             r == Reported(q)
  <1>1. /\ wire' = wire /\ pump' = Kicked("isr")
        /\ MailboxIrqOpen /\ \A m \in which : Served(m)
        /\ mailbox' = [m \in Mailboxes |->
                         IF m \in which THEN FreeMailbox ELSE mailbox[m]]
        /\ queue' = PromotedAll(r)
    BY DEF MailboxIrq
  <1>2. /\ QueueOK(q) /\ Own(q, mailbox', pump) /\ StreamsInv(q, wire)
        /\ mailbox' \in [Mailboxes -> MailboxType] /\ SameHistory(queue, q)
    BY <1>1, RetiredFacts, RetiredOrdered
  <1> HIDE DEF q
  <1>3. /\ StreamsInv(r, wire) /\ QueueOK(r)
        /\ SameHistory(q, r) \/ Delivers(q, r, wire)
    BY <1>2, ReportedOrdered, ReportedFacts DEF OrderTypes
  <1> HIDE DEF r
  <1>4. StreamsInv(queue', wire) /\ SameHistory(r, queue')
    BY <1>1, <1>3, PromotedAllOrdered DEF OrderTypes
  <1>5. SameHistory(queue, queue') \/ Delivers(queue, queue', wire)
    BY <1>2, <1>3, <1>4, ConstantFacts DEF SameHistory, Delivers
  <1>6. Recedes(mailbox, mailbox')
    BY <1>1 DEF Recedes, FreeMailbox
  <1>7. MailInv(mailbox', wire)
    BY <1>6, RecedesOrdered DEF OrderInv
  <1>8. LoadInv(pump', wire)
    BY <1>1, KickedOrdered DEF OrderTypes, OrderInv
  <1> QED BY <1>1, <1>4, <1>5, <1>7, <1>8 DEF OrderInv

(* AbortStale *)
LEMMA AbortStaleOrdered ==
  ASSUME OrderTypes, OrderInv, AbortStale
  PROVE  OrderInv' /\ Unseen
  <1> DEFINE b == [m \in Mailboxes |->
                     IF m \in Recalled THEN [mailbox[m] EXCEPT !.sw = "abort"]
                     ELSE mailbox[m]]
             Mine(s, f) == \E m \in Recalled :
                mailbox[m].owner = Token(s, queue[s].active.gen, f)
  <1>1. /\ wire' = wire /\ pump' = Kicked("task")
        /\ mailbox' = AbortAsked(b, Recalled)
    BY DEF AbortStale
  <1>2. ASSUME NEW s \in Streams
        PROVE  /\ Ordered(s, queue'[s], wire[s], queue'[s].published)
               /\ queue'[s].published = queue[s].published
               /\ queue'[s].last = queue[s].last
    <2> DEFINE x == queue[s]
               fr == [f \in Frames[s] |->
                        IF Mine(s, f) THEN "abort" ELSE x.active.frame[f]]
               a == [x.active EXCEPT !.frame = fr]
               y == [x EXCEPT !.active = a]
    <2>1. queue'[s] = y
      BY DEF AbortStale
    <2>2. x \in QueueType(s) /\ x.active \in GenerationType(s)
          /\ Ordered(s, x, wire[s], x.published)
      BY DEF OrderTypes, OrderInv, QueueOK, StreamOK, QueueType, StreamsInv
    <2>3. \A f \in Frames[s] : fr[f] = "abort" \/ fr[f] = x.active.frame[f]
      OBVIOUS
    <2> HIDE DEF fr
    <2>4. a.gen = x.active.gen /\ a.frame = fr
      BY <2>2 DEF GenerationType
    <2> HIDE DEF a
    <2>5. /\ y.active = a /\ y.pending = x.pending /\ y.last = x.last
          /\ y.published = x.published
      BY <2>2 DEF QueueType
    <2> HIDE DEF y, x
    <2>6. \A f \in Frames[s] :
            \/ y.active.frame[f] = x.active.frame[f]
            \/ y.active.frame[f] \notin {"pending", "complete"}
      BY <2>3, <2>4, <2>5
    <2>7. Ordered(s, y, wire[s], x.published)
      BY <2>2, <2>4, <2>5, <2>6, FramesOrdered
    <2> QED BY <2>1, <2>5, <2>7 DEF x
  <1>3. StreamsInv(queue', wire) /\ SameHistory(queue, queue')
    BY <1>2 DEF StreamsInv, SameHistory
  <1>4. b \in [Mailboxes -> MailboxType] /\ Recedes(mailbox, b)
    BY DEF OrderTypes, MailboxType, Recedes
  <1> HIDE DEF b
  <1>5. MailInv(mailbox', wire)
    BY <1>1, <1>4, AbortAskedRecedes, RecedesOrdered DEF OrderInv
  <1>6. LoadInv(pump', wire)
    BY <1>1, KickedOrdered DEF OrderTypes, OrderInv
  <1> QED BY <1>1, <1>3, <1>5, <1>6 DEF OrderInv, Unseen

(* The poll *)
LEMMA PollOrdered ==
  ASSUME OrderTypes, OrderInv, Poll
  PROVE  OrderInv' /\ Unseen
  <1>0. wire' = wire /\ LoadInv(pump', wire')
    BY DEF Poll, OrderInv
  <1>1. mailbox' = mailbox \/ mailbox' = AbortAsked(mailbox, Mailboxes)
    BY DEF Poll
  <1>2. MailInv(mailbox', wire')
    BY <1>0, <1>1, AbortAskedRecedes, RecedesOrdered DEF OrderTypes, OrderInv
  <1>3. CASE queue' = queue
    BY <1>0, <1>2, <1>3 DEF OrderInv, Unseen, SameHistory
  <1>4. CASE queue' = [s \in Streams |->
               [queue[s] EXCEPT !.active = Empty(s), !.pending = NoGen]]
    <2>1. ASSUME NEW s \in Streams
          PROVE  /\ Ordered(s, queue'[s], wire[s], queue'[s].published)
                 /\ queue'[s].published = queue[s].published
                 /\ queue'[s].last = queue[s].last
      <3> DEFINE x == queue[s]
                 a == Empty(s)
                 y == [x EXCEPT !.active = a, !.pending = NoGen]
      <3>1. queue'[s] = y
        BY <1>4
      <3>2. /\ StreamOK(s, x) /\ x.published \in Nat
            /\ x.last <= wire[s].gen /\ wire[s].gen <= x.published
            /\ wire[s] \in WireType(s)
        BY ConstantFacts DEF OrderTypes, OrderInv, QueueOK, StreamOK, QueueType,
                             StreamsInv, Ordered, GenOK, WireOK, WireType
      <3>3. NoGen \in 0..MaxGen[s] /\ NoGen <= x.published
        BY <3>2, ConstantFacts
      <3> HIDE DEF a
      <3>4. /\ y.active = a /\ y.pending = NoGen /\ y.last = x.last
            /\ y.published = x.published
        BY <3>2 DEF StreamOK, QueueType
      <3> HIDE DEF y, x
      <3>5. y.active = IF NoGen = NoGen THEN Empty(s) ELSE Fresh(s, NoGen)
        BY <3>4 DEF a
      <3>6. Ordered(s, y, wire[s], x.published)
        BY <3>2, <3>3, <3>4, <3>5, StartedOrdered
      <3> QED BY <3>1, <3>4, <3>6 DEF x
    <2> QED BY <1>0, <1>2, <2>1 DEF OrderInv, StreamsInv, Unseen, SameHistory
  <1> QED BY <1>3, <1>4 DEF Poll

(* A new generation of one stream. *)
Publishes(s, q, n) ==
  /\ n[s].published = q[s].published + 1 /\ n[s].last = q[s].last
  /\ \A r \in Streams :
       r # s => n[r].published = q[r].published /\ n[r].last = q[r].last

(* Publish *)
LEMMA PublishOrdered ==
  ASSUME OrderTypes, OrderInv, NEW s \in Streams, Publish(s)
  PROVE  OrderInv' /\ wire' = wire /\ Publishes(s, queue, queue')
  <1>1. PICK option \in BOOLEAN :
          queue' = [queue EXCEPT ![s] = Published(s, @, option)]
    BY DEF Publish
  <1>2. /\ StreamOK(s, queue[s]) /\ wire[s] \in WireType(s)
        /\ Ordered(s, queue[s], wire[s], queue[s].published)
        /\ queue[s].published < MaxGen[s]
    BY DEF OrderTypes, OrderInv, QueueOK, WireOK, WireType, StreamsInv, Publish
  <1> DEFINE y == Published(s, queue[s], option)
  <1>3. /\ Ordered(s, y, wire[s], queue[s].published + 1)
        /\ y.published = queue[s].published + 1 /\ y.last = queue[s].last
    BY <1>2, PublishedOrdered
  <1>4. queue'[s] = y /\ \A r \in Streams : r # s => queue'[r] = queue[r]
    BY <1>1 DEF OrderTypes, QueueOK
  <1> HIDE DEF y
  <1>5. StreamsInv(queue', wire) /\ Publishes(s, queue, queue')
    BY <1>3, <1>4 DEF OrderInv, StreamsInv, Publishes
  <1> QED BY <1>5 DEF Publish, OrderInv

(* Steps that only kick, shut the gate, release the pump or abort. *)
LEMMA OthersOrdered ==
  ASSUME OrderTypes, OrderInv,
         \/ Release \/ OtherIrq \/ BusOff \/ Resume \/ UNCHANGED vars
         \/ \E m \in Mailboxes : WireAbort(m)
  PROVE  OrderInv' /\ Unseen
  <1>1. wire' = wire /\ queue' = queue
    BY DEF Release, OtherIrq, BusOff, Resume, vars, WireAbort
  <1>2. LoadInv(pump', wire)
    <2>1. CASE pump' = pump
      BY <2>1 DEF OrderInv
    <2>2. CASE pump' = Kicked("isr") \/ pump' = Kicked("task")
      BY <2>2, KickedOrdered DEF OrderTypes, OrderInv
    <2>3. CASE Release
      BY <2>3 DEF Release, NotPumping, OrderTypes, PumpType, LoadInv
    <2> QED BY <2>1, <2>2, <2>3 DEF OtherIrq, BusOff, Resume, vars, WireAbort
  <1>3. MailInv(mailbox', wire)
    <2>1. CASE mailbox' = mailbox
      BY <2>1 DEF OrderInv
    <2>2. CASE mailbox' = AbortAsked(mailbox, Mailboxes)
      BY <2>2, AbortAskedRecedes, RecedesOrdered DEF OrderTypes, OrderInv
    <2>3. ASSUME NEW m \in Mailboxes, WireAbort(m)
          PROVE  MailInv(mailbox', wire)
      <3>1. Recedes(mailbox, mailbox')
        BY <2>3 DEF WireAbort, OrderTypes, MailboxType, Recedes
      <3> QED BY <3>1, RecedesOrdered DEF OrderInv
    <2> QED BY <2>1, <2>2, <2>3 DEF Release, OtherIrq, BusOff, Resume, vars
  <1> QED BY <1>1, <1>2, <1>3 DEF OrderInv, Unseen, SameHistory

(* What a mailbox holds is selected in the active generation, and held by  *)
(* no other mailbox.                                                       *)
LEMMA HoldsFacts ==
  ASSUME OrderTypes, NEW m \in Mailboxes, mailbox[m].hw # "empty",
         NEW t, t = mailbox[m].holds
  PROVE  /\ t \in Tokens /\ t # NoToken
         /\ t.stream \in Streams /\ t.frame \in Frames[t.stream]
         /\ t.gen \in 1..MaxGen[t.stream]
         /\ queue[t.stream].active.gen = t.gen
         /\ queue[t.stream].active.frame[t.frame] \in Busy
         /\ pump.pc = "load" => t # pump.token
         /\ \A n \in Mailboxes :
              n # m /\ mailbox[n].hw # "empty" => mailbox[n].holds # t
  <1>1. CASE mailbox[m].sw = "free"
    <2>1. /\ pump.pc = "mark" /\ t = pump.token /\ t \in Tokens
          /\ t # NoToken /\ queue[t.stream].active.gen = t.gen
          /\ queue[t.stream].active.frame[t.frame] = "reserved"
      BY <1>1 DEF OrderTypes, Own, HeldInv, PumpInv, PumpType
    <2>2. ASSUME NEW n \in Mailboxes, n # m, mailbox[n].hw # "empty"
          PROVE  mailbox[n].holds # t
      <3>1. mailbox[n].sw \in {"loaded", "abort"}
        BY <1>1, <2>2 DEF OrderTypes, Own, SingleInv, MailboxType
      <3>2. queue[mailbox[n].holds.stream].active.frame[mailbox[n].holds.frame]
              = mailbox[n].sw
        BY <3>1 DEF OrderTypes, Own, HeldInv
      <3> QED BY <2>1, <3>1, <3>2
    <2> QED BY <2>1, <2>2, TokenFacts DEF Busy
  <1>2. CASE mailbox[m].sw # "free"
    <2>1. /\ mailbox[m].owner = t /\ t \in Tokens /\ t # NoToken
          /\ queue[t.stream].active.gen = t.gen
          /\ queue[t.stream].active.frame[t.frame] = mailbox[m].sw
          /\ mailbox[m].sw \in {"loaded", "abort"}
      BY <1>2 DEF OrderTypes, Own, HeldInv, MailboxType
    <2>2. pump.pc \in {"load", "mark"} => t # pump.token
      BY <2>1 DEF OrderTypes, Own, PumpInv
    <2>3. ASSUME NEW n \in Mailboxes, n # m, mailbox[n].hw # "empty"
          PROVE  mailbox[n].holds # t
      <3>1. CASE mailbox[n].sw = "free"
        BY <2>2, <2>3, <3>1 DEF OrderTypes, Own, HeldInv
      <3>2. CASE mailbox[n].sw # "free"
        BY <1>2, <2>1, <2>3, <3>2 DEF OrderTypes, Own, HeldInv, SingleInv
      <3> QED BY <3>1, <3>2
    <2> QED BY <2>1, <2>2, <2>3, TokenFacts DEF Busy
  <1> QED BY <1>1, <1>2

(* The receiver sees a frame, of no older generation and for the first time. *)
Seen(s, q, w, n) ==
  \E f \in Frames[s], g \in w[s].gen..q[s].published :
    /\ 0 < g /\ w[s].gen <= g /\ g <= q[s].published
    /\ g = w[s].gen => f \notin w[s].sent
    /\ n[s].gen = g
    /\ n[s].sent = IF g = w[s].gen THEN w[s].sent \cup {f} ELSE {f}
    /\ \A r \in Streams : r # s => n[r] = w[r]

(* WireSend *)
LEMMA WireSendOrdered ==
  ASSUME OrderTypes, OrderInv, NEW m \in Mailboxes, WireSend(m)
  PROVE  /\ OrderInv' /\ queue' = queue
         /\ \E s \in Streams : Seen(s, queue, wire, wire')
  <1> DEFINE t == mailbox[m].holds
             s == t.stream
             v == [gen |-> t.gen,
                   sent |-> IF t.gen = wire[s].gen
                            THEN wire[s].sent \cup {t.frame}
                            ELSE {t.frame}]
  <1>1. /\ mailbox[m].hw \in {"request", "aborting"} /\ ~OnWire(wire, t)
        /\ wire' = [wire EXCEPT ![s] = v]
        /\ queue' = queue /\ pump' = pump
        /\ mailbox' = [mailbox EXCEPT ![m].hw = "sent"]
    BY DEF WireSend, OrderInv, MailInv
  <1>2. /\ t \in Tokens /\ t # NoToken /\ s \in Streams /\ t.frame \in Frames[s]
        /\ t.gen \in 1..MaxGen[s] /\ queue[s].active.gen = t.gen
        /\ queue[s].active.frame[t.frame] \in Busy
        /\ pump.pc = "load" => t # pump.token
        /\ \A n \in Mailboxes :
             n # m /\ mailbox[n].hw # "empty" => mailbox[n].holds # t
    BY <1>1, HoldsFacts
  <1>3. /\ wire'[s] = v /\ \A r \in Streams : r # s => wire'[r] = wire[r]
    BY <1>1, <1>2 DEF OrderTypes, WireOK
  <1>4. /\ v.gen = t.gen
        /\ v.sent = IF t.gen = wire[s].gen THEN wire[s].sent \cup {t.frame}
                    ELSE {t.frame}
    OBVIOUS
  <1>5. /\ mailbox'[m].hw = "sent" /\ mailbox'[m].holds = t
        /\ \A n \in Mailboxes : n # m => mailbox'[n] = mailbox[n]
    BY <1>1 DEF OrderTypes, MailboxType
  <1> HIDE DEF v
  <1>6. ASSUME NEW u \in Tokens, u # NoToken, u # t,
               queue[u.stream].active.gen = u.gen
        PROVE  OnWire(wire', u) <=> OnWire(wire, u)
    <2>1. CASE u.stream # s
      BY <1>3, <1>6, <2>1, TokenFacts DEF OnWire
    <2>2. CASE u.stream = s
      <3>1. u.gen = t.gen /\ u.frame # t.frame
        <4>1. /\ u = Token(u.stream, u.gen, u.frame)
              /\ t = Token(t.stream, t.gen, t.frame)
          BY <1>2, <1>6, TokenFacts
        <4>2. u.gen = t.gen
          BY <1>2, <1>6, <2>2
        <4> HIDE DEF t
        <4> QED BY <1>6, <2>2, <4>1, <4>2
      <3> QED BY <1>3, <1>4, <2>2, <3>1 DEF OnWire
    <2> QED BY <2>1, <2>2
  <1>7. OnWire(wire', t)
    BY <1>3, <1>4 DEF OnWire
  <1>8. MailInv(mailbox', wire')
    <2>1. ASSUME NEW n \in Mailboxes, n # m, mailbox[n].hw # "empty"
          PROVE  OnWire(wire', mailbox[n].holds)
                   <=> OnWire(wire, mailbox[n].holds)
      <3>1. /\ mailbox[n].holds \in Tokens /\ mailbox[n].holds # NoToken
            /\ queue[mailbox[n].holds.stream].active.gen = mailbox[n].holds.gen
        BY <2>1, HoldsFacts
      <3> QED BY <1>2, <1>6, <2>1, <3>1
    <2> HIDE DEF t
    <2> QED BY <1>5, <1>7, <2>1 DEF OrderInv, MailInv
  <1>9. LoadInv(pump', wire')
    <2>1. pump.pc = "load" =>
            /\ pump.token \in Tokens /\ pump.token # NoToken
            /\ queue[pump.token.stream].active.gen = pump.token.gen
      BY DEF OrderTypes, Own, PumpInv, PumpType
    <2> QED BY <1>1, <1>2, <1>6, <2>1 DEF OrderInv, LoadInv
  <1>10. /\ Ordered(s, queue[s], wire[s], queue[s].published)
         /\ wire[s].gen \in Nat /\ t.gen \in Nat /\ t.gen # 0
         /\ queue[s].published \in Nat /\ queue[s].pending \in Nat
         /\ queue[s].last \in Nat
    BY <1>2, ConstantFacts DEF OrderTypes, OrderInv, StreamsInv, QueueOK,
                               StreamOK, QueueType, WireOK
  <1>11. wire[s].gen <= t.gen /\ t.gen <= queue[s].published
    BY <1>2, <1>10 DEF Ordered, GenOK, NoGen
  <1>12. GenOK(queue[s], wire'[s], queue[s].published)
    BY <1>2, <1>3, <1>4, <1>10, <1>11 DEF Ordered, GenOK, NoGen
  <1>13. SeenOK(s, queue[s], wire'[s])
    <2>1. /\ wire'[s].gen = queue[s].active.gen
          /\ wire'[s].sent = IF queue[s].active.gen = wire[s].gen
                             THEN wire[s].sent \cup {t.frame} ELSE {t.frame}
          /\ SeenOK(s, queue[s], wire[s])
          /\ queue[s].active.frame[t.frame] \notin {"pending", "complete"}
      BY <1>2, <1>3, <1>4, <1>10 DEF Ordered, Busy
    <2> HIDE DEF t, s
    <2> QED BY <2>1 DEF SeenOK
  <1>14. StreamsInv(queue', wire')
    BY <1>1, <1>2, <1>3, <1>12, <1>13 DEF OrderInv, StreamsInv, Ordered
  <1>15. t.gen = wire[s].gen => t.frame \notin wire[s].sent
    BY <1>1 DEF OnWire
  <1>16. Seen(s, queue, wire, wire')
    <2>1. t.gen \in wire[s].gen..queue[s].published /\ 0 < t.gen
      BY <1>10, <1>11
    <2>2. wire'[s].gen = t.gen
      BY <1>3, <1>4
    <2>3. wire'[s].sent = IF t.gen = wire[s].gen
                          THEN wire[s].sent \cup {t.frame} ELSE {t.frame}
      BY <1>3, <1>4
    <2> HIDE DEF t, s
    <2> QED BY <1>2, <1>3, <1>11, <1>15, <2>1, <2>2, <2>3 DEF Seen
  <1> QED BY <1>1, <1>2, <1>8, <1>9, <1>14, <1>16 DEF OrderInv

(* What a step shows of the streams: nothing, a publication, a frame on    *)
(* the wire, or the report of a delivery.                                  *)
Shown(q, n, w, x) ==
  \/ x = w /\ SameHistory(q, n)
  \/ x = w /\ Delivers(q, n, w)
  \/ x = w /\ \E s \in Streams : Publishes(s, q, n)
  \/ n = q /\ \E s \in Streams : Seen(s, q, w, x)

(* Every step. *)
LEMMA OrderStep ==
  ASSUME OwnInv, OrderInv, [Next]_vars
  PROVE  OrderInv' /\ Shown(queue, queue', wire, wire')
  <1>0. OrderTypes
    BY DEF OwnInv, OrderTypes
  <1>1. Unseen => Shown(queue, queue', wire, wire')
    BY DEF Unseen, Shown
  <1>2. ASSUME NEW m \in Mailboxes, WireSend(m)
        PROVE  OrderInv' /\ Shown(queue, queue', wire, wire')
    BY <1>0, <1>2, WireSendOrdered DEF Shown
  <1>3. ASSUME NEW which \in SUBSET Mailboxes, MailboxIrq(which)
        PROVE  OrderInv' /\ Shown(queue, queue', wire, wire')
    BY <1>0, <1>3, MailboxIrqOrdered DEF Shown
  <1>4. ASSUME NEW s \in Streams, Publish(s)
        PROVE  OrderInv' /\ Shown(queue, queue', wire, wire')
    BY <1>0, <1>4, PublishOrdered DEF Shown
  <1>5. ASSUME \/ Release \/ OtherIrq \/ BusOff \/ Resume \/ UNCHANGED vars
               \/ \E m \in Mailboxes : WireAbort(m)
        PROVE  OrderInv' /\ Shown(queue, queue', wire, wire')
    BY <1>0, <1>1, <1>5, OthersOrdered
  <1>6. CASE Pump
    <2>1. CASE Reserve
      BY <1>0, <1>1, <2>1, ReserveOrdered
    <2>2. CASE Load
      BY <1>0, <1>1, <2>2, LoadOrdered
    <2>3. CASE Mark
      BY <1>0, <1>1, <2>3, MarkOrdered
    <2> QED BY <1>5, <1>6, <2>1, <2>2, <2>3 DEF Pump
  <1>7. CASE CanTask
    <2>1. CASE AbortStale
      BY <1>0, <1>1, <2>1, AbortStaleOrdered
    <2>2. CASE Poll
      BY <1>0, <1>1, <2>2, PollOrdered
    <2> QED BY <1>4, <1>5, <1>7, <2>1, <2>2 DEF CanTask
  <1>8. CASE Controller \/ Interrupt
    BY <1>2, <1>3, <1>5, <1>8 DEF Controller, Interrupt
  <1> QED BY <1>5, <1>6, <1>7, <1>8 DEF Next

(* At first nothing is published, seen or delivered. *)
LEMMA OrderInit == Init => OrderInv
  <1> SUFFICES ASSUME Init PROVE OrderInv
    OBVIOUS
  <1>1. ASSUME NEW s \in Streams
        PROVE  Ordered(s, queue[s], wire[s], queue[s].published)
    <2>1. /\ queue[s].active = Empty(s) /\ queue[s].pending = NoGen
          /\ queue[s].published = 0 /\ queue[s].last = NoGen
          /\ wire[s].gen = NoGen
      BY DEF Init
    <2>2. queue[s].active.gen = NoGen
      BY <2>1 DEF Empty
    <2> QED BY <2>1, <2>2 DEF Ordered, GenOK, SeenOK, NoGen
  <1>2. LoadInv(pump, wire)
    BY DEF Init, NotPumping, LoadInv
  <1>3. MailInv(mailbox, wire)
    BY DEF Init, FreeMailbox, MailInv
  <1> QED BY <1>1, <1>2, <1>3 DEF OrderInv, StreamsInv

(* The invariant of the order. *)
LEMMA OrderAlways == Spec => [](OwnInv /\ OrderInv)
  <1>1. Init => OwnInv /\ OrderInv
    BY InitOwn, OrderInit
  <1>2. OwnInv /\ OrderInv /\ [Next]_vars => OwnInv' /\ OrderInv'
    BY NextOwn, OrderStep
  <1> QED BY <1>1, <1>2, PTL DEF Spec

-----------------------------------------------------------------------------
(* The refinements.                                                        *)

(* What FrameStream allows the stream s to show, with the deliveries of    *)
(* the protected stream, and none of the others.                           *)
LEMMA ShownStream ==
  ASSUME OwnInv, OrderInv, NEW s \in Streams,
         Shown(queue, queue', wire, wire')
  PROVE  LET p == queue[s].published
             w == wire[s]
             n == wire'[s]
         IN  \/ /\ queue'[s].published = p /\ n = w
                /\ queue'[s].last = queue[s].last
             \/ /\ queue'[s].published = p + 1 /\ n = w
                /\ queue'[s].last = queue[s].last
             \/ /\ s = "protected" /\ queue'[s].published = p /\ n = w
                /\ queue[s].last < w.gen /\ Required \subseteq w.sent
                /\ queue'[s].last = w.gen
             \/ /\ queue'[s].published = p /\ queue'[s].last = queue[s].last
                /\ \E f \in Frames[s], g \in w.gen..p :
                     /\ 0 < g /\ w.gen <= g /\ g <= p /\ n.gen = g
                     /\ g = w.gen => f \notin w.sent
                     /\ n.sent = IF g = w.gen THEN w.sent \cup {f} ELSE {f}
  <1>1. CASE wire' = wire /\ SameHistory(queue, queue')
    BY <1>1 DEF SameHistory
  <1>2. CASE wire' = wire /\ Delivers(queue, queue', wire)
    BY <1>2 DEF Delivers
  <1>3. ASSUME wire' = wire, NEW r \in Streams, Publishes(r, queue, queue')
        PROVE  /\ wire'[s] = wire[s] /\ queue'[s].last = queue[s].last
               /\ queue'[s].published
                    \in {queue[s].published, queue[s].published + 1}
    BY <1>3 DEF Publishes
  <1>4. ASSUME queue' = queue, NEW r \in Streams, Seen(r, queue, wire, wire')
        PROVE  \/ wire'[s] = wire[s]
               \/ Seen(s, queue, wire, wire')
    BY <1>4 DEF Seen
  <1>5. CASE queue' = queue /\ Seen(s, queue, wire, wire')
    BY <1>5 DEF Seen
  <1>6. CASE queue' = queue /\ wire'[s] = wire[s]
    BY <1>6
  <1> QED BY <1>1, <1>2, <1>3, <1>4, <1>5, <1>6 DEF Shown

(* Protected generations go out in order, no frame twice, and authority is *)
(* told of one only when its required frames were all on the wire.         *)
THEOREM ProtectedIsAStream == Spec => KeepsProtected
  <1>1. Init => Bundles!Init
    BY ConstantFacts DEF Init, Bundles!Init, NoGen
  <1>2. OwnInv /\ OrderInv /\ [Next]_vars => [Bundles!Next]_Bundles!vars
    <2> SUFFICES ASSUME OwnInv, OrderInv, [Next]_vars
                 PROVE  [Bundles!Next]_Bundles!vars
      OBVIOUS
    <2> DEFINE s == "protected"
    <2>1. s \in Streams /\ Shown(queue, queue', wire, wire')
      BY ConstantFacts, OrderStep
    <2> HIDE DEF s
    <2> QED BY <2>1, ShownStream
        DEF s, Bundles!Next, Bundles!vars, Bundles!Publish, Bundles!Send,
            Bundles!Deliver
  <1> QED BY <1>1, <1>2, OrderAlways, PTL DEF Spec, KeepsProtected, Bundles!Spec

(* A command never follows a newer one on the wire, and none is repeated.  *)
THEOREM CommandsAreAStream ==
  ASSUME "critical" \in Streams
  PROVE  Spec => KeepsCritical
  <1>1. Init => Commands!Init
    BY DEF Init, Commands!Init, NoGen
  <1>2. OwnInv /\ OrderInv /\ [Next]_vars => [Commands!Next]_Commands!vars
    <2> SUFFICES ASSUME OwnInv, OrderInv, [Next]_vars
                 PROVE  [Commands!Next]_Commands!vars
      OBVIOUS
    <2>1. Shown(queue, queue', wire, wire')
      BY OrderStep
    <2> QED BY <2>1, ShownStream
        DEF Commands!Next, Commands!vars, Commands!Publish, Commands!Send, NoGen
  <1> QED BY <1>1, <1>2, OrderAlways, PTL DEF Spec, KeepsCritical, Commands!Spec

(* Detail snapshots go out in order too, although nothing recalls them.    *)
THEOREM DetailsAreAStream ==
  ASSUME "detail" \in Streams
  PROVE  Spec => KeepsDetails
  <1>1. Init => Details!Init
    BY DEF Init, Details!Init, NoGen
  <1>2. OwnInv /\ OrderInv /\ [Next]_vars => [Details!Next]_Details!vars
    <2> SUFFICES ASSUME OwnInv, OrderInv, [Next]_vars
                 PROVE  [Details!Next]_Details!vars
      OBVIOUS
    <2>1. Shown(queue, queue', wire, wire')
      BY OrderStep
    <2> QED BY <2>1, ShownStream
        DEF Details!Next, Details!vars, Details!Publish, Details!Send, NoGen
  <1> QED BY <1>1, <1>2, OrderAlways, PTL DEF Spec, KeepsDetails, Details!Spec
=============================================================================
