---------------------- MODULE CanAuthority_proofs ----------------------
(***************************************************************************)
(* The safety invariants of CanAuthority for every deadline, window,       *)
(* repeat limit, number of bus-offs and build profile.                     *)
(***************************************************************************)
EXTENDS CanAuthority, TLAPS

(* A pending error interrupt still has an event number to take. *)
TypeInv == TypeOK /\ (hw.sce => dev.seq < MaxEvents)

USE DEF NoGen, Generations, Errors

(* What the pump may do to the stream and to the gates. *)
LEMMA KickCases ==
  ASSUME NEW t, NEW d, Kick(t, d)
  PROVE  \/ tx' = t /\ dev' = d
         \/ /\ t.frame = "free" /\ ~d.suspended /\ ~d.inhibit /\ dev' = d
            /\ tx' = [t EXCEPT !.frame = "loaded"]
         \/ /\ tx' = t
            /\ dev' = [d EXCEPT !.suspended = TRUE, !.loadError = TRUE]
  BY DEF Kick, MayLoad

(* The pump keeps the types and the event count.                           *)
LEMMA KickType ==
  ASSUME NEW t \in TxType, NEW d \in DevType, Kick(t, d)
  PROVE  tx' \in TxType /\ dev' \in DevType /\ dev'.seq = d.seq
  <1>1. CASE tx' = t /\ dev' = d BY <1>1
  <1>2. CASE tx' = [t EXCEPT !.frame = "loaded"] /\ dev' = d
    BY <1>2 DEF TxType
  <1>3. CASE /\ tx' = t
             /\ dev' = [d EXCEPT !.suspended = TRUE, !.loadError = TRUE]
    BY <1>3 DEF DevType
  <1> QED BY <1>1, <1>2, <1>3, KickCases

(* An abort request changes the frame only.                                *)
LEMMA AbortedType ==
  ASSUME NEW t \in TxType
  PROVE  Aborted(t) \in TxType
  BY DEF Aborted, TxType

(* Moving the authority baseline keeps the type of the stream.             *)
LEMMA RebasedType ==
  ASSUME NEW t \in TxType
  PROVE  Rebased(t) \in TxType
  <1>1. Deadline \in 0..Deadline /\ 0 \in 0..MaxEvents + 1
    BY ConstantsAssumption DEF ConstantsAssumption
  <1> QED BY <1>1 DEF Rebased, TxType

(* Recording an event keeps the array of ages well formed.                 *)
LEMMA PushEventType ==
  ASSUME NEW r \in [1..RepeatLimit -> 0..Window + 1]
  PROVE  PushEvent(r) \in [1..RepeatLimit -> 0..Window + 1]
  BY ConstantsAssumption DEF PushEvent

(* ams_app_create leaves a well-typed state.                               *)
THEOREM TypeInit == Init => TypeInv
  BY ConstantsAssumption
  DEF Init, TypeInv, TypeOK, AppType, DevType, TxType, CanType, CanIdle,
      CliIdle, NoEvents, States, NoState, Operating, Unlatched

(* The CAN task's resting state is one of its states.                      *)
LEMMA CanIdleType == CanIdle \in CanType
  BY ConstantsAssumption DEF CanIdle, CanType, ConstantsAssumption

(* A poll returns into the cycle with its locals cleared.                  *)
LEMMA AfterPollType ==
  ASSUME can \in CanType, AfterPoll
  PROVE  can' \in CanType
  <1>1. 0 \in 0..MaxEvents
    BY ConstantsAssumption DEF ConstantsAssumption
  <1> QED BY <1>1 DEF CanType, AfterPoll

(* The first bus-off of an epoch records state and age in range.           *)
LEMMA OpenEpochType ==
  ASSUME NEW a \in AppType
  PROVE  OpenEpoch(a) \in AppType
  <1>1. 0 \in 0..Deadline /\ a.state \in States \cup {NoState}
    BY ConstantsAssumption DEF AppType, ConstantsAssumption
  <1>2. CASE a.recoveryActive
    BY <1>2 DEF OpenEpoch
  <1>3. CASE ~a.recoveryActive
    BY <1>1, <1>3 DEF OpenEpoch, AppType
  <1> QED BY <1>2, <1>3

(* Retiring a frame hands over to a well-typed stream.                     *)
LEMMA RetiredType ==
  ASSUME NEW t \in TxType
  PROVE  [t EXCEPT !.active = t.pending, !.pending = NoGen, !.frame = "free"]
           \in TxType
  <1>1. 0 \in 0..MaxEvents + 1
    BY ConstantsAssumption DEF ConstantsAssumption
  <1> QED BY <1>1 DEF TxType

(* Every step keeps the types; the transmit path and the interrupts first. *)
LEMMA WireType ==
  ASSUME TypeInv,
         \/ BusOff \/ AbomRecover \/ SoftError \/ Refill \/ WireSend
         \/ TxCompleteIrq \/ TxAbortIrq
  PROVE  TypeInv'
  <1> USE DEF TypeInv, TypeOK
  <1>1. CASE BusOff
    BY <1>1, ConstantsAssumption DEF BusOff, ConstantsAssumption
  <1>2. CASE AbomRecover
    BY <1>2 DEF AbomRecover
  <1>3. CASE SoftError
    <2>1. Aborted(tx) \in TxType
      BY AbortedType
    <2> QED BY <1>3, <2>1 DEF SoftError, DevType
  <1>4. CASE Refill
    <2>1. tx' \in TxType /\ dev' \in DevType /\ dev'.seq = dev.seq
      BY <1>4, KickType DEF Refill
    <2> QED BY <1>4, <2>1 DEF Refill
  <1>5. CASE WireSend
    BY <1>5 DEF WireSend, TxType
  <1>6. CASE TxCompleteIrq
    <2> DEFINE e == IF app.recoveryActive THEN app.epochAge ELSE Deadline
               t == [tx EXCEPT !.fresh = tx.active, !.elapsed = e]
               u == [t EXCEPT !.active = t.pending, !.pending = NoGen,
                              !.frame = "free"]
    <2>0. e \in 0..Deadline
      BY ConstantsAssumption DEF AppType, ConstantsAssumption
    <2> HIDE DEF e
    <2>1. t \in TxType
      BY <2>0 DEF TxType
    <2>2. u \in TxType
      BY <2>1, RetiredType
    <2>3. Kick(u, dev)
      BY <1>6 DEF TxCompleteIrq, Retire, e
    <2> HIDE DEF u
    <2>4. tx' \in TxType /\ dev' \in DevType /\ dev'.seq = dev.seq
      BY <2>2, <2>3, KickType
    <2>5. hist' \in [timely : BOOLEAN]
      BY <1>6 DEF TxCompleteIrq
    <2> QED BY <1>6, <2>4, <2>5 DEF TxCompleteIrq
  <1>7. CASE TxAbortIrq
    <2> DEFINE u == [tx EXCEPT !.active = tx.pending, !.pending = NoGen,
                               !.frame = "free"]
    <2>1. u \in TxType
      BY RetiredType
    <2>2. Kick(u, dev)
      BY <1>7 DEF TxAbortIrq, Retire
    <2> HIDE DEF u
    <2>3. tx' \in TxType /\ dev' \in DevType /\ dev'.seq = dev.seq
      BY <2>1, <2>2, KickType
    <2> QED BY <1>7, <2>3 DEF TxAbortIrq
  <1> QED BY <1>1, <1>2, <1>3, <1>4, <1>5, <1>6, <1>7

(* The bus-off interrupt: there is a number left for its event.            *)
LEMMA SceType ==
  ASSUME TypeInv, SceIrq
  PROVE  TypeInv'
  <1> USE DEF TypeInv, TypeOK
  <1>1. IsrLatch \in Reasons \cup {Unlatched}
    BY DEF IsrLatch, AppType, Reasons
  <1>2. PICK e \in ElapsedAfterEvent :
          tx' = Aborted([tx EXCEPT !.elapsed = e])
    BY DEF SceIrq
  <1>3. e \in 0..Deadline
    BY ConstantsAssumption DEF ElapsedAfterEvent, TxType, ConstantsAssumption
  <1>4. tx' \in TxType
    BY <1>2, <1>3, AbortedType DEF TxType
  <1>5. dev' \in DevType
    <2>1. PushEvent(dev.recent) \in [1..RepeatLimit -> 0..Window + 1]
      BY PushEventType DEF DevType
    <2>2. dev.seq + 1 \in 0..MaxEvents
      BY ConstantsAssumption DEF SceIrq, DevType, ConstantsAssumption
    <2>3. RepeatedEvent \in BOOLEAN
      BY DEF RepeatedEvent
    <2>4. hw'.error \in SUBSET Errors
      BY DEF SceIrq
    <2> QED BY <2>1, <2>2, <2>3, <2>4 DEF SceIrq, DevType
  <1>6. app' \in AppType
    <2> DEFINE b == app.bms /\ ~IsrForcesLow
               a == [app EXCEPT !.authority = FALSE, !.busOffFault = TRUE,
                                !.canbusFault = TRUE, !.latch = IsrLatch,
                                !.bms = b]
    <2>1. app' = OpenEpoch(a)
      BY DEF SceIrq
    <2>2. b \in BOOLEAN
      BY DEF AppType, IsrForcesLow
    <2> HIDE DEF b
    <2>3. a \in AppType
      BY <1>1, <2>2 DEF AppType
    <2> HIDE DEF a
    <2> QED BY <2>1, <2>3, OpenEpochType
  <1> QED BY <1>4, <1>5, <1>6 DEF SceIrq

(* The policy latches for one of the declared reasons or for none.         *)
LEMMA ApplyPolicyType ==
  ASSUME NEW a \in AppType
  PROVE  ApplyPolicy(a) \in AppType
  <1>1. PolicyReason \in Reasons \cup {Unlatched}
    BY DEF PolicyReason, Reasons
  <1>2. CASE PolicyReason = Unlatched
    BY <1>2 DEF ApplyPolicy
  <1>3. CASE PolicyReason # Unlatched
    <2> DEFINE l == IF a.latch = Unlatched THEN PolicyReason ELSE a.latch
    <2>1. l \in Reasons \cup {Unlatched}
      BY <1>1 DEF AppType
    <2>2. ApplyPolicy(a) = [a EXCEPT !.authority = FALSE, !.latch = l]
      BY <1>3 DEF ApplyPolicy, AppType
    <2> HIDE DEF l
    <2> QED BY <2>1, <2>2 DEF AppType
  <1> QED BY <1>2, <1>3

(* An iteration of the ERROR task, startup or not.                         *)
LEMMA SupervisorType ==
  ASSUME TypeInv, NEW inputsOk \in BOOLEAN, ErrorTask(inputsOk)
  PROVE  TypeInv'
  <1> USE DEF TypeInv, TypeOK
  <1> DEFINE a == ApplyPolicy(app)
             b == inputsOk /\ BmsReady(a)
             startup == a.state = "START" /\ inputsOk /\ CanStartupReady(a)
  <1>1. a \in AppType
    BY ApplyPolicyType
  <1>2. app' = IF startup THEN [a EXCEPT !.state = "DISCHARGE",
                                         !.inTransition = FALSE, !.bms = FALSE]
                          ELSE [a EXCEPT !.bms = b]
    BY DEF ErrorTask
  <1>3. b \in BOOLEAN
    BY DEF BmsReady
  <1> HIDE DEF a, b, startup
  <1>4. app' \in AppType
    <2>1. CASE startup
      <3>1. "DISCHARGE" \in States
        BY DEF States, Operating
      <3> QED BY ZenonT(40), <1>1, <1>2, <2>1, <3>1 DEF AppType
    <2>2. CASE ~startup
      BY <1>1, <1>2, <1>3, <2>2 DEF AppType
    <2> QED BY <2>1, <2>2
  <1> QED BY <1>4 DEF ErrorTask

(* Another task drops BMS_OK.                                              *)
LEMMA ForceLowType ==
  ASSUME TypeInv, ForceLow
  PROVE  TypeInv'
  BY DEF TypeInv, TypeOK, ForceLow, AppType

(* Ages saturate inside their ranges.                                      *)
LEMMA TickType ==
  ASSUME TypeInv, Tick
  PROVE  TypeInv'
  <1> USE DEF TypeInv, TypeOK
  <1>1. \A n \in Nat : \A k \in 0..n : UpTo(k + 1, n) \in 0..n
    BY DEF UpTo
  <1> DEFINE e == IF app.recoveryActive THEN UpTo(app.epochAge + 1, Deadline)
                                        ELSE app.epochAge
             s == UpTo(app.errAge + 1, SoftHold + 1)
             r == [i \in 1..RepeatLimit |->
                     UpTo(dev.recent[i] + 1, Window + 1)]
  <1>2. e \in 0..Deadline /\ s \in 0..SoftHold + 1
    BY <1>1, ConstantsAssumption DEF AppType, ConstantsAssumption
  <1>3. r \in [1..RepeatLimit -> 0..Window + 1]
    <2>1. \A i \in 1..RepeatLimit : dev.recent[i] \in 0..Window + 1
      BY DEF DevType
    <2> QED BY <1>1, <2>1, ConstantsAssumption DEF ConstantsAssumption
  <1>4. app' = [app EXCEPT !.epochAge = e, !.errAge = s]
    BY DEF Tick, AppType
  <1>5. dev' = [dev EXCEPT !.recent = r]
    BY DEF Tick, DevType
  <1> HIDE DEF e, s, r
  <1>6. app' \in AppType
    BY <1>2, <1>4 DEF AppType
  <1>7. dev' \in DevType /\ dev'.seq = dev.seq
    BY <1>3, <1>5 DEF DevType
  <1> QED BY <1>6, <1>7 DEF Tick

(* The two polls of a cycle.                                               *)
LEMMA SnapshotType ==
  ASSUME TypeInv, CanWake \/ SecondPoll
  PROVE  TypeInv'
  <1> USE DEF TypeInv, TypeOK
  <1>1. PICK pass \in {1, 2} : PollSnapshot(pass)
    BY DEF CanWake, SecondPoll
  <1>2. due' \in [error : BOOLEAN, can : BOOLEAN]
    BY DEF CanWake, SecondPoll
  <1>3. can' \in CanType
    <2> DEFINE e == hw.error \cup dev.isrError
               n == (dev.seq # dev.consumed)
    <2>1. e \in SUBSET Errors /\ n \in BOOLEAN /\ dev.loadError \in BOOLEAN
      BY DEF DevType
    <2>2. can' = [can EXCEPT !.pc = "classify", !.pass = pass, !.event = n,
                             !.err = e, !.loadSeen = dev.loadError]
      BY <1>1 DEF PollSnapshot
    <2> HIDE DEF e, n
    <2> QED BY <1>1, <2>1, <2>2 DEF CanType
  <1>4. dev' \in DevType /\ dev'.seq = dev.seq
    BY <1>1 DEF PollSnapshot, DevType
  <1> QED BY <1>1, <1>2, <1>3, <1>4 DEF PollSnapshot

(* Noting a load error restarts the age of the soft fault.                 *)
LEMMA NoteLoadType ==
  ASSUME NEW a \in AppType
  PROVE  NoteLoad(a) \in AppType
  <1>1. 0 \in 0..SoftHold + 1
    BY ConstantsAssumption DEF ConstantsAssumption
  <1> QED BY <1>1 DEF NoteLoad, AppType

(* Noting a bus-off keeps the gates and the stream well typed.             *)
LEMMA NoteBusOffType ==
  ASSUME tx \in TxType, dev \in DevType, NoteBusOff
  PROVE  tx' \in TxType /\ dev' \in DevType /\ dev'.seq = dev.seq
  <1>1. dev' \in DevType /\ dev'.seq = dev.seq
    BY DEF NoteBusOff, DevType
  <1> QED BY <1>1, AbortedType DEF NoteBusOff

(* An epoch reset empties the queue and keeps the types.                   *)
LEMMA EpochResetType ==
  ASSUME tx \in TxType, dev \in DevType, EpochReset
  PROVE  tx' \in TxType /\ dev' \in DevType /\ dev'.seq = dev.seq
  <1>1. 0 \in 0..MaxEvents + 1
    BY ConstantsAssumption DEF ConstantsAssumption
  <1>2. tx' \in TxType
    BY <1>1 DEF EpochReset, TxType
  <1>3. dev' \in DevType /\ dev'.seq = dev.seq
    BY DEF EpochReset, DevType
  <1> QED BY <1>2, <1>3

(* The steps of a poll, from the classification to the commit.             *)
LEMMA PollType ==
  ASSUME TypeInv,
         \/ PollEvent \/ PollRecover \/ PollInhibited \/ PollHealthy
         \/ PollSettle \/ PollEpoch \/ PollCommit
  PROVE  TypeInv'
  <1> USE DEF TypeInv, TypeOK
  <1>z. 0 \in 0..SoftHold + 1 /\ 0 \in 0..MaxEvents
    BY ConstantsAssumption DEF ConstantsAssumption
  <1>n. NoteLoad(app) \in AppType
    BY NoteLoadType
  <1>a. Aborted(tx) \in TxType /\ Rebased(tx) \in TxType
        /\ Aborted(Rebased(tx)) \in TxType
    BY AbortedType, RebasedType
  <1>1. CASE PollEvent
    <2>1. app' \in AppType
      BY <1>1, <1>z DEF PollEvent, AppType
    <2>2. dev' \in DevType /\ dev'.seq = dev.seq
      BY <1>1 DEF PollEvent, DevType
    <2>3. can' \in CanType
      BY <1>1, AfterPollType DEF PollEvent
    <2> QED BY <1>1, <1>a, <2>1, <2>2, <2>3 DEF PollEvent
  <1>2. CASE PollRecover
    <2>1. can' \in CanType
      BY <1>2 DEF PollRecover, CanType, DevType
    <2>2. app' \in AppType
      BY <1>2, <1>n DEF PollRecover, AppType
    <2> QED BY <1>2, <2>1, <2>2 DEF PollRecover
  <1>3. CASE PollInhibited
    <2> DEFINE l == IF NoteLoad(app).latch = Unlatched THEN "TX_INHIBIT"
                    ELSE NoteLoad(app).latch
    <2>1. l \in Reasons \cup {Unlatched}
      BY <1>n DEF AppType, Reasons
    <2>2. app' = [NoteLoad(app) EXCEPT
                    !.busOffFault = TRUE, !.canbusFault = TRUE,
                    !.authority = FALSE, !.bms = FALSE, !.latch = l]
      BY <1>3, <1>n DEF PollInhibited, AppType
    <2> HIDE DEF l
    <2>3. app' \in AppType
      BY <1>n, <2>1, <2>2 DEF AppType
    <2>4. can' \in CanType
      BY <1>3, AfterPollType DEF PollInhibited
    <2> QED BY <1>3, <2>3, <2>4 DEF PollInhibited
  <1>4. CASE PollHealthy
    <2> DEFINE err == can.err # {} \/ hw.busOff
               a == NoteLoad(app)
               b == a.canbusFault /\ a.errAge <= SoftHold
               c == dev.suspended /\ ~ReopenGate(err)
    <2>1. b \in BOOLEAN /\ c \in BOOLEAN
      OBVIOUS
    <2>2. app' = IF err THEN [a EXCEPT !.canbusFault = TRUE, !.errAge = 0]
                        ELSE [a EXCEPT !.canbusFault = b]
      BY <1>4, <1>n DEF PollHealthy, AppType
    <2>3. dev' = [dev EXCEPT !.suspended = c]
      BY <1>4 DEF PollHealthy, DevType
    <2>4. hw' = IF err THEN [hw EXCEPT !.error = {}] ELSE hw
      BY <1>4 DEF PollHealthy
    <2> HIDE DEF err, b, c
    <2>5. app' \in AppType
      BY <1>z, <1>n, <2>1, <2>2 DEF AppType
    <2>6. dev' \in DevType /\ dev'.seq = dev.seq
      BY <2>1, <2>3 DEF DevType
    <2>7. can' \in CanType
      BY <1>4, AfterPollType DEF PollHealthy
    <2>8. hw' \in [busOff : BOOLEAN, sce : BOOLEAN, error : SUBSET Errors]
          /\ hw'.sce = hw.sce
      BY <2>4
    <2> QED BY <1>4, <2>5, <2>6, <2>7, <2>8 DEF PollHealthy
  <1>5. CASE PollSettle
    <2>1. can' \in CanType
      BY <1>5, AfterPollType DEF PollSettle, CanType
    <2>2. app' = app \/ app' = [app EXCEPT !.canbusFault = TRUE]
      BY <1>5 DEF PollSettle
    <2>5. app' \in AppType
      <3>1. CASE app' = app BY <3>1
      <3>2. CASE app' = [app EXCEPT !.canbusFault = TRUE]
        BY <3>2 DEF AppType
      <3> QED BY <2>2, <3>1, <3>2
    <2>3. hw' \in [busOff : BOOLEAN, sce : BOOLEAN, error : SUBSET Errors]
          /\ hw'.sce = hw.sce
      BY <1>5 DEF PollSettle
    <2>4. tx' \in TxType
      BY <1>5, <1>a DEF PollSettle
    <2> QED BY <1>5, <2>1, <2>3, <2>4, <2>5 DEF PollSettle
  <1>6. CASE PollEpoch
    <2>1. can' \in CanType
      BY <1>6, AfterPollType DEF PollEpoch, CanType
    <2>2. CASE EpochMayReset(can.recSeq)
      <3>1. EpochReset /\ app' = app
        BY <1>6, <2>2 DEF PollEpoch
      <3>2. tx' \in TxType /\ dev' \in DevType /\ dev'.seq = dev.seq
        BY <3>1, EpochResetType
      <3> QED BY <1>6, <2>1, <3>1, <3>2 DEF PollEpoch
    <2>3. CASE ~EpochMayReset(can.recSeq)
      <3>1. /\ app' = [app EXCEPT !.canbusFault = TRUE, !.errAge = 0]
            /\ tx' = Aborted(tx) /\ dev' = dev
        BY <1>6, <2>3 DEF PollEpoch
      <3>2. app' \in AppType
        BY <1>z, <3>1 DEF AppType
      <3> QED BY <1>6, <1>a, <2>1, <3>1, <3>2 DEF PollEpoch
    <2> QED BY <2>2, <2>3
  <1>7. CASE PollCommit
    <2>1. can' \in CanType
      BY <1>7, AfterPollType DEF PollCommit
    <2>2. CASE CommitStands(can.recSeq)
      <3>1. /\ app' = [app EXCEPT !.recoverPending = FALSE,
                                  !.busOffFault = dev.inhibit,
                                  !.canbusFault = dev.inhibit]
            /\ tx' = Rebased(tx) /\ dev' = dev
        BY <1>7, <2>2 DEF PollCommit
      <3>2. app' \in AppType
        BY <3>1 DEF AppType, DevType
      <3> QED BY <1>7, <1>a, <2>1, <3>1, <3>2 DEF PollCommit
    <2>3. CASE ~CommitStands(can.recSeq)
      <3>1. /\ app' = [app EXCEPT !.recoverPending = TRUE,
                                  !.busOffFault = TRUE, !.canbusFault = TRUE,
                                  !.errAge = 0, !.authority = FALSE]
            /\ NoteBusOff
        BY <1>7, <2>3 DEF PollCommit
      <3>2. app' \in AppType
        BY <1>z, <3>1 DEF AppType
      <3>3. tx' \in TxType /\ dev' \in DevType /\ dev'.seq = dev.seq
        BY <3>1, NoteBusOffType
      <3> QED BY <1>7, <2>1, <3>2, <3>3 DEF PollCommit
    <2> QED BY <2>2, <2>3
  <1> QED BY <1>1, <1>2, <1>3, <1>4, <1>5, <1>6, <1>7

(* The middle and the end of the cycle.                                    *)
LEMMA CycleType ==
  ASSUME TypeInv,
         \/ Skip \/ Publish \/ Resume \/ FoldRead \/ FoldWrite
         \/ UpdateAuthority
  PROVE  TypeInv'
  <1> USE DEF TypeInv, TypeOK
  <1>z. 0 \in 0..Deadline /\ dev.seq + 1 \in 0..MaxEvents + 1
    BY ConstantsAssumption DEF DevType, ConstantsAssumption
  <1>1. CASE Skip
    <2>1. app' \in AppType
      BY <1>1 DEF Skip, AppType
    <2> QED BY <1>1, <2>1, CanIdleType DEF Skip
  <1>2. CASE Publish
    <2>1. can' \in CanType
      BY <1>2 DEF Publish, CanType
    <2>2. PICK boundary \in BOOLEAN : Kick(Published(tx, boundary), dev)
      BY <1>2 DEF Publish
    <2>3. Published(tx, boundary) \in TxType
      <3>1. [tx EXCEPT !.pending = dev.seq + 1] \in TxType
        BY <1>z DEF TxType
      <3>2. [tx EXCEPT !.active = dev.seq + 1, !.pending = NoGen] \in TxType
        <4>1. 0 \in 0..MaxEvents + 1
          BY ConstantsAssumption DEF ConstantsAssumption
        <4> QED BY <1>z, <4>1 DEF TxType
      <3> QED BY <3>1, <3>2, AbortedType DEF Published
    <2>4. tx' \in TxType /\ dev' \in DevType /\ dev'.seq = dev.seq
      BY <2>2, <2>3, KickType
    <2> QED BY <1>2, <2>1, <2>4 DEF Publish
  <1>3. CASE Resume
    <2>1. can' \in CanType
      BY <1>3 DEF Resume, CanType
    <2>2. CASE dev.refreshPending
      <3> DEFINE d == IF MayResume THEN [dev EXCEPT !.refreshPending = FALSE,
                                                    !.suspended = FALSE]
                                   ELSE dev
      <3>1. d \in DevType /\ d.seq = dev.seq
        BY DEF DevType
      <3>2. Kick(tx, d)
        BY <1>3, <2>2 DEF Resume
      <3> HIDE DEF d
      <3>3. tx' \in TxType /\ dev' \in DevType /\ dev'.seq = dev.seq
        BY <3>1, <3>2, KickType
      <3> QED BY <1>3, <2>1, <3>3 DEF Resume
    <2>3. CASE ~dev.refreshPending
      BY <1>3, <2>1, <2>3 DEF Resume
    <2> QED BY <2>2, <2>3
  <1>4. CASE FoldRead
    <2> DEFINE f == \/ /\ app.canbusFault
                       /\ \/ app.busOffFault \/ app.recoverPending
                          \/ app.errAge <= SoftHold
                    \/ app.busOffFault \/ dev.inhibit
    <2>1. f \in BOOLEAN
      OBVIOUS
    <2>2. can' = [can EXCEPT !.pc = "store", !.fold = f]
      BY <1>4 DEF FoldRead
    <2> HIDE DEF f
    <2>3. can' \in CanType
      BY <2>1, <2>2 DEF CanType
    <2> QED BY <1>4, <2>3 DEF FoldRead
  <1>5. CASE FoldWrite
    <2>1. can' \in CanType /\ app' \in AppType
      BY <1>5 DEF FoldWrite, CanType, AppType
    <2> QED BY <1>5, <2>1 DEF FoldWrite
  <1>6. CASE UpdateAuthority
    <2>1. tx' \in TxType
      BY <1>6, RebasedType DEF UpdateAuthority
    <2>2. hist' \in [timely : BOOLEAN]
      <3>1. hist' = hist \/ hist' = [timely |-> FALSE]
        BY <1>6 DEF UpdateAuthority
      <3>2. CASE hist' = hist
        BY <3>2
      <3>3. CASE hist' = [timely |-> FALSE]
        BY <3>3
      <3> QED BY <3>1, <3>2, <3>3
    <2>3. NoState \in States \cup {NoState}
      OBVIOUS
    <2>4. \/ app' = app
          \/ app' = [app EXCEPT !.authority = FALSE]
          \/ app' = [app EXCEPT !.authority = TRUE, !.authRefresh = FALSE,
                                !.recoveryActive = FALSE,
                                !.recoveryState = NoState, !.epochAge = 0]
      BY <1>6 DEF UpdateAuthority
    <2>5. CASE app' = app
      BY <1>6, <2>1, <2>2, <2>5, CanIdleType DEF UpdateAuthority
    <2>6. CASE app' = [app EXCEPT !.authority = FALSE]
      <3>1. app' \in AppType
        BY <2>6 DEF AppType
      <3> QED BY <1>6, <2>1, <2>2, <3>1, CanIdleType DEF UpdateAuthority
    <2>7. CASE app' = [app EXCEPT !.authority = TRUE, !.authRefresh = FALSE,
                                  !.recoveryActive = FALSE,
                                  !.recoveryState = NoState, !.epochAge = 0]
      <3>1. app' \in AppType
        BY <1>z, <2>3, <2>7 DEF AppType
      <3> QED BY <1>6, <2>1, <2>2, <3>1, CanIdleType DEF UpdateAuthority
    <2> QED BY <2>4, <2>5, <2>6, <2>7
  <1> QED BY <1>1, <1>2, <1>3, <1>4, <1>5, <1>6

(* The service commands.                                                   *)
LEMMA ServiceType ==
  ASSUME TypeInv, Service
  PROVE  TypeInv'
  <1> USE DEF TypeInv, TypeOK
  <1> DEFINE CliType == [pc : {"idle", "restart", "epoch", "commit", "clear"},
                         seq : 0..MaxEvents]
  <1>z. 0 \in 0..Deadline /\ CliIdle \in CliType
    BY ConstantsAssumption DEF CliIdle, ConstantsAssumption
  <1>1. CASE RecoverBegin
    <2>1. tx' \in TxType /\ dev' \in DevType /\ dev'.seq = dev.seq
      BY <1>1, NoteBusOffType DEF RecoverBegin
    <2>2. cli' \in CliType
      BY <1>1 DEF RecoverBegin, DevType
    <2> QED BY <1>1, <2>1, <2>2 DEF RecoverBegin
  <1>2. CASE \E ok \in BOOLEAN : RecoverRestart(ok)
    <2>1. PICK ok \in BOOLEAN : RecoverRestart(ok)
      BY <1>2
    <2>2. dev' \in DevType /\ dev'.seq = dev.seq
      BY <2>1 DEF RecoverRestart, DevType
    <2>3. hw' \in [busOff : BOOLEAN, sce : BOOLEAN, error : SUBSET Errors]
          /\ hw'.sce = hw.sce
      BY <2>1 DEF RecoverRestart
    <2>4. cli' \in CliType
      BY <1>z, <2>1 DEF RecoverRestart
    <2> QED BY <2>1, <2>2, <2>3, <2>4 DEF RecoverRestart
  <1>3. CASE RecoverEpoch
    <2>1. cli' \in CliType
      BY <1>3, <1>z DEF RecoverEpoch
    <2>2. tx' \in TxType /\ dev' \in DevType /\ dev'.seq = dev.seq
      BY <1>3, EpochResetType, AbortedType DEF RecoverEpoch
    <2> QED BY <1>3, <2>1, <2>2 DEF RecoverEpoch
  <1>4. CASE RecoverCommit
    <2>1. CASE CommitStands(cli.seq)
      <3>1. Unlatched \in Reasons \cup {Unlatched}
            /\ NoState \in States \cup {NoState}
        OBVIOUS
      <3>2. app' = [app EXCEPT
                      !.busOffFault = FALSE, !.recoverPending = FALSE,
                      !.canbusFault = FALSE, !.authority = FALSE,
                      !.authRefresh = TRUE, !.recoveryActive = FALSE,
                      !.recoveryState = NoState, !.epochAge = 0,
                      !.latch = Unlatched]
        BY <1>4, <2>1 DEF RecoverCommit
      <3>3. app' \in AppType
        BY ZenonT(40), <1>z, <3>1, <3>2 DEF AppType
      <3>4. NoEvents \in [1..RepeatLimit -> 0..Window + 1]
        BY ConstantsAssumption DEF NoEvents, ConstantsAssumption
      <3>5. dev' = [dev EXCEPT !.inhibit = FALSE, !.recent = NoEvents]
        BY <1>4, <2>1 DEF RecoverCommit
      <3>6. dev' \in DevType /\ dev'.seq = dev.seq
        BY <3>4, <3>5 DEF DevType
      <3>7. tx' = Rebased(tx) /\ hist' = [timely |-> FALSE]
        BY <1>4, <2>1 DEF RecoverCommit
      <3>8. tx' \in TxType
        BY <3>7, RebasedType
      <3>9. hist' \in [timely : BOOLEAN]
        BY <3>7
      <3> QED BY <1>4, <1>z, <3>3, <3>6, <3>8, <3>9 DEF RecoverCommit
    <2>2. CASE ~CommitStands(cli.seq)
      <3>1. NoteBusOff /\ app' = app /\ hist' = hist
        BY <1>4, <2>2 DEF RecoverCommit
      <3>2. tx' \in TxType /\ dev' \in DevType /\ dev'.seq = dev.seq
        BY <3>1, NoteBusOffType
      <3> QED BY <1>4, <1>z, <3>1, <3>2 DEF RecoverCommit
    <2> QED BY <2>1, <2>2
  <1>5. CASE \E command \in {"charge", "discharge"} : StateBegin(command)
    <2>1. PICK command \in {"charge", "discharge"} : StateBegin(command)
      BY <1>5
    <2>2. StateOf[command] \in States
      BY <2>1 DEF StateOf, States, Operating
    <2>3. app' \in AppType
      BY <2>1, <2>2 DEF StateBegin, AppType
    <2>4. cli' \in CliType
      BY <2>1 DEF StateBegin
    <2> QED BY <2>1, <2>3, <2>4 DEF StateBegin
  <1>6. CASE StateFinish
    <2>1. app' \in AppType
      BY <1>6 DEF StateFinish, AppType
    <2> QED BY <1>6, <1>z, <2>1 DEF StateFinish
  <1> QED BY <1>1, <1>2, <1>3, <1>4, <1>5, <1>6 DEF Service

(* Every step keeps the types.                                             *)
LEMMA TypeStep == TypeInv /\ [Next]_vars => TypeInv'
  <1> SUFFICES ASSUME TypeInv, [Next]_vars PROVE TypeInv'
    OBVIOUS
  <1>1. CASE UNCHANGED vars
    BY <1>1 DEF TypeInv, TypeOK, vars
  <1>2. CASE Supervise
    BY <1>2, SupervisorType DEF Supervise
  <1>3. CASE CanTask
    BY <1>3, SnapshotType, PollType, CycleType DEF CanTask
  <1> QED BY <1>1, <1>2, <1>3, WireType, SceType, ForceLowType, ServiceType,
             TickType DEF Next

(* The state always has the declared types, whatever the constants are.    *)
THEOREM TypeCorrect == Spec => []TypeOK
  <1>1. TypeInv => TypeOK
    BY DEF TypeInv
  <1> QED BY <1>1, TypeInit, TypeStep, PTL DEF Spec

-----------------------------------------------------------------------------
(* BMS_OK and the latch.  The invariant is inductive as it stands: whoever *)
(* sets a latch lowers the pin in the same step, and the supervisor, alone *)
(* in raising it, looks at the latch it has just decided.                  *)
LEMMA LatchStep ==
  ASSUME TypeInv, LatchedKeepsBmsLow, [Next]_vars
  PROVE  LatchedKeepsBmsLow'
  <1> USE DEF TypeInv, TypeOK, AppType, LatchedKeepsBmsLow
  <1>1. CASE app' = app
    BY <1>1
  <1>2. CASE SceIrq
    BY <1>2 DEF SceIrq, OpenEpoch, IsrForcesLow
  <1>3. CASE Supervise
    <2>1. PICK inputsOk \in BOOLEAN : ErrorTask(inputsOk)
      BY <1>3 DEF Supervise
    <2> DEFINE a == ApplyPolicy(app)
    <2>2. a \in AppType
      BY ApplyPolicyType
    <2>3. \/ app' = [a EXCEPT !.state = "DISCHARGE", !.inTransition = FALSE,
                              !.bms = FALSE]
          \/ app' = [a EXCEPT !.bms = inputsOk /\ BmsReady(a)]
      BY <2>1 DEF ErrorTask
    <2> HIDE DEF a
    <2>4. app'.bms => a.latch = Unlatched /\ app'.latch = a.latch
      BY ZenonT(40), <2>2, <2>3 DEF BmsReady
    <2> QED BY <2>4
  <1>4. CASE ForceLow \/ Tick \/ PollEvent \/ PollRecover \/ PollInhibited
             \/ PollHealthy
    BY ZenonT(40), <1>4
    DEF ForceLow, Tick, PollEvent, PollRecover, PollInhibited, PollHealthy,
        NoteLoad
  <1>5. CASE PollSettle \/ PollEpoch \/ PollCommit
    BY <1>5 DEF PollSettle, PollEpoch, PollCommit
  <1>6. CASE Skip \/ FoldWrite \/ UpdateAuthority
    BY ZenonT(40), <1>6 DEF Skip, FoldWrite, UpdateAuthority
  <1>7. CASE RecoverCommit \/ StateFinish
             \/ \E command \in {"charge", "discharge"} : StateBegin(command)
    BY <1>7 DEF RecoverCommit, StateFinish, StateBegin
  <1>8. CASE CanTask
    <2>1. CASE CanWake \/ SecondPoll \/ Publish \/ Resume \/ FoldRead
      BY <1>1, <2>1 DEF CanWake, SecondPoll, PollSnapshot, Publish, Resume,
                        FoldRead
    <2> QED BY <1>4, <1>5, <1>6, <1>8, <2>1 DEF CanTask
  <1>9. CASE Service
    <2>1. CASE RecoverBegin \/ RecoverEpoch
               \/ \E ok \in BOOLEAN : RecoverRestart(ok)
      BY <1>1, <2>1 DEF RecoverBegin, RecoverEpoch, RecoverRestart
    <2> QED BY <1>7, <1>9, <2>1 DEF Service
  <1>10. CASE BusOff \/ AbomRecover \/ SoftError \/ Refill \/ WireSend
              \/ TxCompleteIrq \/ TxAbortIrq \/ UNCHANGED vars
    BY <1>1, <1>10 DEF BusOff, AbomRecover, SoftError, Refill, WireSend,
                       TxCompleteIrq, TxAbortIrq, vars
  <1> QED BY <1>2, <1>3, <1>4, <1>8, <1>9, <1>10 DEF Next

(* A latched CAN policy fault and BMS_OK are never high together.          *)
THEOREM LatchedKeepsBmsLowAlways == Spec => []LatchedKeepsBmsLow
  <1>1. Init => LatchedKeepsBmsLow
    BY DEF Init, LatchedKeepsBmsLow
  <1>2. TypeInv /\ LatchedKeepsBmsLow /\ [Next]_vars => LatchedKeepsBmsLow'
    BY LatchStep
  <1> QED BY <1>1, <1>2, TypeInit, TypeStep, PTL DEF Spec

-----------------------------------------------------------------------------
(* What the two helpers of the transmit path change, field by field.       *)
LEMMA AbortedFields ==
  ASSUME NEW t \in TxType
  PROVE  /\ Aborted(t).active = t.active /\ Aborted(t).pending = t.pending
         /\ Aborted(t).fresh = t.fresh /\ Aborted(t).elapsed = t.elapsed
         /\ Aborted(t).frame # "loaded"
         /\ Aborted(t).frame = "free" <=> t.frame = "free"
  BY DEF Aborted, TxType

(* Moving the baseline forgets the completion and leaves the frame alone.  *)
LEMMA RebasedFields ==
  ASSUME NEW t \in TxType
  PROVE  /\ Rebased(t).active = t.active /\ Rebased(t).pending = t.pending
         /\ Rebased(t).fresh = NoGen /\ Rebased(t).elapsed = Deadline
         /\ Rebased(t).frame = t.frame
  BY DEF Rebased, TxType

(* A frame enters its mailbox through open gates only; nothing else of the *)
(* stream moves.                                                           *)
LEMMA KickFields ==
  ASSUME NEW t \in TxType, NEW d \in DevType, Kick(t, d)
  PROVE  /\ tx'.active = t.active /\ tx'.pending = t.pending
         /\ tx'.fresh = t.fresh /\ tx'.elapsed = t.elapsed
         /\ \/ tx'.frame = t.frame
            \/ tx'.frame = "loaded" /\ ~d.suspended /\ ~d.inhibit
         /\ dev'.seq = d.seq /\ dev'.consumed = d.consumed
         /\ dev'.inhibit = d.inhibit /\ dev'.refreshPending = d.refreshPending
         /\ d.suspended => dev'.suspended
  <1>1. CASE tx' = t /\ dev' = d BY <1>1
  <1>2. CASE /\ ~d.suspended /\ ~d.inhibit /\ dev' = d
             /\ tx' = [t EXCEPT !.frame = "loaded"]
    BY <1>2 DEF TxType
  <1>3. CASE /\ tx' = t
             /\ dev' = [d EXCEPT !.suspended = TRUE, !.loadError = TRUE]
    BY <1>3 DEF DevType
  <1> QED BY <1>1, <1>2, <1>3, KickCases

(* A retired frame leaves its mailbox free and hands over to the waiting   *)
(* generation.                                                             *)
LEMMA RetireFields ==
  ASSUME NEW t \in TxType, dev \in DevType, Retire(t)
  PROVE  /\ tx'.active = t.pending /\ tx'.pending = NoGen
         /\ tx'.fresh = t.fresh /\ tx'.elapsed = t.elapsed
         /\ \/ tx'.frame = "free"
            \/ tx'.frame = "loaded" /\ ~dev.suspended /\ ~dev.inhibit
         /\ dev'.seq = dev.seq /\ dev'.consumed = dev.consumed
         /\ dev'.inhibit = dev.inhibit
         /\ dev'.refreshPending = dev.refreshPending
         /\ dev.suspended => dev'.suspended
  <1> DEFINE r == [t EXCEPT !.active = t.pending, !.pending = NoGen,
                            !.frame = "free"]
  <1>1. 0 \in 0..MaxEvents + 1
    BY ConstantsAssumption DEF ConstantsAssumption
  <1>2. /\ r \in TxType /\ r.active = t.pending /\ r.pending = NoGen
        /\ r.fresh = t.fresh /\ r.elapsed = t.elapsed /\ r.frame = "free"
    BY <1>1 DEF TxType
  <1>3. Kick(r, dev)
    BY DEF Retire
  <1> HIDE DEF r
  <1> QED BY <1>2, <1>3, KickFields

(* A published generation takes the free place or the waiting one, and     *)
(* never puts a frame into a mailbox itself.                               *)
LEMMA PublishedFields ==
  ASSUME NEW t \in TxType, NEW boundary \in BOOLEAN, dev \in DevType
  PROVE  /\ Published(t, boundary) \in TxType
         /\ Published(t, boundary).active \in {t.active, dev.seq + 1}
         /\ Published(t, boundary).pending \in {NoGen, dev.seq + 1}
         /\ Published(t, boundary).fresh = t.fresh
         /\ Published(t, boundary).elapsed = t.elapsed
         /\ Published(t, boundary).frame = "loaded" => t.frame = "loaded"
         /\ Published(t, boundary).frame = "free" <=> t.frame = "free"
  <1> DEFINE w == [t EXCEPT !.pending = dev.seq + 1]
             n == [t EXCEPT !.active = dev.seq + 1, !.pending = NoGen]
  <1>1. 0 \in 0..MaxEvents + 1 /\ dev.seq + 1 \in 0..MaxEvents + 1
    BY ConstantsAssumption DEF ConstantsAssumption, DevType
  <1>2. w \in TxType /\ n \in TxType
    BY <1>1 DEF TxType
  <1>3. /\ w.active = t.active /\ w.pending = dev.seq + 1
        /\ w.fresh = t.fresh /\ w.elapsed = t.elapsed /\ w.frame = t.frame
        /\ n.active = dev.seq + 1 /\ n.pending = NoGen
        /\ n.fresh = t.fresh /\ n.elapsed = t.elapsed /\ n.frame = t.frame
    BY DEF TxType
  <1>4. Published(t, boundary) \in {w, n, Aborted(w)}
    BY DEF Published
  <1> HIDE DEF w, n
  <1> QED BY <1>2, <1>3, <1>4, AbortedFields, AbortedType
(* An epoch reset forgets the queue, keeps the mailbox and shuts the gate  *)
(* until the refresh.                                                      *)
LEMMA EpochResetFields ==
  ASSUME tx \in TxType, dev \in DevType, EpochReset
  PROVE  /\ tx'.active = NoGen /\ tx'.pending = NoGen
         /\ tx'.fresh = tx.fresh /\ tx'.elapsed = tx.elapsed
         /\ tx'.frame = tx.frame
         /\ dev'.seq = dev.seq /\ dev'.consumed = dev.consumed
         /\ dev'.inhibit = dev.inhibit
         /\ dev'.refreshPending /\ dev'.suspended
  BY DEF EpochReset, TxType, DevType

(* Noting a bus-off aborts what is loaded and shuts the gate.              *)
LEMMA NoteBusOffFields ==
  ASSUME tx \in TxType, dev \in DevType, NoteBusOff
  PROVE  /\ tx' = Aborted(tx)
         /\ dev'.seq = dev.seq /\ dev'.consumed = dev.consumed
         /\ dev'.inhibit = dev.inhibit
         /\ dev'.refreshPending = dev.refreshPending /\ dev'.suspended
  BY DEF NoteBusOff, DevType

(* The bus-off interrupt.                                                  *)
LEMMA SceFields ==
  ASSUME TypeInv, SceIrq
  PROVE  /\ tx'.active = tx.active /\ tx'.pending = tx.pending
         /\ tx'.frame # "loaded" /\ (tx'.frame = "free" <=> tx.frame = "free")
         /\ dev'.seq = dev.seq + 1 /\ dev'.consumed = dev.consumed
         /\ dev'.inhibit = (dev.inhibit \/ RepeatedEvent)
         /\ dev'.refreshPending = dev.refreshPending /\ dev'.suspended
         /\ app'.latch = IsrLatch /\ app'.busOffFault /\ ~app'.authority
  <1> USE DEF TypeInv, TypeOK
  <1>1. PICK e \in ElapsedAfterEvent : tx' = Aborted([tx EXCEPT !.elapsed = e])
    BY DEF SceIrq
  <1> DEFINE t == [tx EXCEPT !.elapsed = e]
  <1>2. e \in 0..Deadline
    BY ConstantsAssumption DEF ConstantsAssumption, ElapsedAfterEvent, TxType
  <1>3. /\ t \in TxType /\ t.active = tx.active /\ t.pending = tx.pending
        /\ t.frame = tx.frame /\ tx' = Aborted(t)
    BY <1>1, <1>2 DEF TxType
  <1> HIDE DEF t
  <1>4. /\ tx'.active = tx.active /\ tx'.pending = tx.pending
        /\ tx'.frame # "loaded" /\ (tx'.frame = "free" <=> tx.frame = "free")
    BY <1>3, AbortedFields
  <1>5. app'.latch = IsrLatch /\ app'.busOffFault /\ ~app'.authority
    BY DEF SceIrq, OpenEpoch, AppType
  <1> QED BY <1>4, <1>5 DEF SceIrq, DevType

(* The completion interrupt.                                               *)
LEMMA CompleteFields ==
  ASSUME TypeInv, TxCompleteIrq
  PROVE  /\ tx.frame = "sent" /\ app' = app
         /\ tx'.active = tx.pending /\ tx'.pending = NoGen
         /\ tx'.fresh = tx.active
         /\ tx'.elapsed = IF app.recoveryActive THEN app.epochAge
                                                ELSE Deadline
         /\ tx'.frame = "loaded" => ~dev.suspended /\ ~dev.inhibit
         /\ dev'.seq = dev.seq /\ dev'.consumed = dev.consumed
         /\ dev'.inhibit = dev.inhibit
         /\ dev'.refreshPending = dev.refreshPending
  <1> USE DEF TypeInv, TypeOK
  <1> DEFINE e == IF app.recoveryActive THEN app.epochAge ELSE Deadline
             t == [tx EXCEPT !.fresh = tx.active, !.elapsed = e]
  <1>1. e \in 0..Deadline
    BY ConstantsAssumption DEF ConstantsAssumption, AppType
  <1>2. Retire(t)
    BY DEF TxCompleteIrq
  <1> HIDE DEF e
  <1>3. /\ t \in TxType /\ t.fresh = tx.active /\ t.elapsed = e
        /\ t.pending = tx.pending
    BY <1>1 DEF TxType
  <1> HIDE DEF t
  <1>4. /\ tx'.active = tx.pending /\ tx'.pending = NoGen
        /\ tx'.fresh = tx.active /\ tx'.elapsed = e
        /\ tx'.frame = "loaded" => ~dev.suspended /\ ~dev.inhibit
        /\ dev'.seq = dev.seq /\ dev'.consumed = dev.consumed
        /\ dev'.inhibit = dev.inhibit
        /\ dev'.refreshPending = dev.refreshPending
    BY <1>2, <1>3, RetireFields
  <1> QED BY <1>4 DEF TxCompleteIrq, e

(* A publication.                                                          *)
LEMMA PublishFields ==
  ASSUME TypeInv, Publish
  PROVE  /\ tx'.active \in {tx.active, dev.seq + 1}
         /\ tx'.pending \in {NoGen, dev.seq + 1}
         /\ tx'.fresh = tx.fresh /\ tx'.elapsed = tx.elapsed
         /\ \/ tx'.frame = "free" <=> tx.frame = "free"
            \/ tx'.frame = "loaded" /\ ~dev.suspended /\ ~dev.inhibit
         /\ tx'.frame = "loaded" => tx.frame = "loaded" \/ ~dev.inhibit
         /\ dev'.seq = dev.seq /\ dev'.consumed = dev.consumed
         /\ dev'.inhibit = dev.inhibit
         /\ dev'.refreshPending = dev.refreshPending
         /\ dev.suspended => dev'.suspended
         /\ app' = app
  <1> USE DEF TypeInv, TypeOK
  <1>1. PICK boundary \in BOOLEAN : Kick(Published(tx, boundary), dev)
    BY DEF Publish
  <1> DEFINE t == Published(tx, boundary)
  <1>2. /\ t \in TxType /\ Kick(t, dev)
        /\ t.active \in {tx.active, dev.seq + 1}
        /\ t.pending \in {NoGen, dev.seq + 1}
        /\ t.fresh = tx.fresh /\ t.elapsed = tx.elapsed
        /\ t.frame = "loaded" => tx.frame = "loaded"
        /\ t.frame = "free" <=> tx.frame = "free"
    BY <1>1, PublishedFields
  <1> HIDE DEF t
  <1> QED BY <1>2, KickFields DEF Publish

(* The refresh: it reopens the gate only together with forgetting that it  *)
(* is owed.                                                                *)
LEMMA ResumeFields ==
  ASSUME TypeInv, Resume
  PROVE  /\ tx'.active = tx.active /\ tx'.pending = tx.pending
         /\ tx'.fresh = tx.fresh /\ tx'.elapsed = tx.elapsed
         /\ dev'.seq = dev.seq /\ dev'.consumed = dev.consumed
         /\ dev'.inhibit = dev.inhibit
         /\ tx'.frame = "loaded" => tx.frame = "loaded" \/ ~dev.inhibit
         /\ \/ ~dev'.refreshPending
            \/ /\ dev.refreshPending /\ (dev.suspended => dev'.suspended)
               /\ \/ tx'.frame = tx.frame
                  \/ tx'.frame = "loaded" /\ ~dev.suspended
         /\ app' = app
  <1> USE DEF TypeInv, TypeOK
  <1>1. CASE dev.refreshPending
    <2> DEFINE d == IF MayResume THEN [dev EXCEPT !.refreshPending = FALSE,
                                                  !.suspended = FALSE]
                                 ELSE dev
    <2>1. /\ d \in DevType /\ d.inhibit = dev.inhibit
          /\ d.seq = dev.seq /\ d.consumed = dev.consumed
          /\ ~d.refreshPending \/ d = dev
      BY DEF DevType
    <2>2. Kick(tx, d)
      BY <1>1 DEF Resume
    <2> HIDE DEF d
    <2>3. app' = app
      BY DEF Resume
    <2>4. /\ dev' \in DevType /\ dev'.refreshPending = d.refreshPending
          /\ d.suspended => dev'.suspended
          /\ tx'.active = tx.active /\ tx'.pending = tx.pending
          /\ tx'.fresh = tx.fresh /\ tx'.elapsed = tx.elapsed
          /\ \/ tx'.frame = tx.frame
             \/ tx'.frame = "loaded" /\ ~d.suspended /\ ~d.inhibit
          /\ dev'.seq = d.seq /\ dev'.consumed = d.consumed
          /\ dev'.inhibit = d.inhibit
      BY <2>1, <2>2, KickFields, KickType
    <2>5. CASE d = dev
      BY <1>1, <2>3, <2>4, <2>5
    <2>6. CASE ~d.refreshPending
      BY <2>1, <2>3, <2>4, <2>6 DEF DevType
    <2> QED BY <2>1, <2>5, <2>6
  <1>2. CASE ~dev.refreshPending
    BY <1>2 DEF Resume, TxType
  <1> QED BY <1>1, <1>2

-----------------------------------------------------------------------------
(* The repeat limit.  Inductive as it stands: the interrupt that shuts the *)
(* transport latches and aborts in the same step, no gate opens while it   *)
(* stands, and the service restart takes back both together.               *)
LEMMA InhibitStep ==
  ASSUME TypeInv, InhibitIsComplete, [Next]_vars
  PROVE  InhibitIsComplete'
  <1> USE DEF TypeInv, TypeOK, InhibitIsComplete
  <1>1. CASE /\ dev'.inhibit = dev.inhibit /\ app' = app
             /\ tx'.frame = "loaded" => tx.frame = "loaded" \/ ~dev.inhibit
    BY <1>1
  <1>2. CASE SceIrq
    <2>1. dev.inhibit \/ RepeatedEvent => IsrLatch # Unlatched
      BY DEF IsrLatch, Unlatched
    <2> QED BY <1>2, <2>1, SceFields
  <1>3. CASE Supervise
    <2>1. PICK inputsOk \in BOOLEAN : ErrorTask(inputsOk)
      BY <1>3 DEF Supervise
    <2> DEFINE a == ApplyPolicy(app)
    <2>2. a \in AppType /\ (app.latch # Unlatched => a.latch # Unlatched)
      BY ApplyPolicyType DEF ApplyPolicy, AppType
    <2>3. \/ app' = [a EXCEPT !.state = "DISCHARGE", !.inTransition = FALSE,
                              !.bms = FALSE]
          \/ app' = [a EXCEPT !.bms = inputsOk /\ BmsReady(a)]
      BY <2>1 DEF ErrorTask
    <2>4. dev' = dev /\ tx' = tx
      BY <2>1 DEF ErrorTask
    <2> HIDE DEF a
    <2>5. app.latch # Unlatched => app'.latch # Unlatched
      BY <2>2, <2>3 DEF AppType
    <2> QED BY <2>4, <2>5
  <1>4. CASE ForceLow \/ Tick
    BY ZenonT(40), <1>4 DEF ForceLow, Tick, AppType, DevType
  <1>5. CASE SoftError
    BY <1>5, AbortedFields DEF SoftError, DevType
  <1>6. CASE Refill
    BY <1>6, KickFields DEF Refill
  <1>7. CASE TxCompleteIrq
    BY <1>7, CompleteFields
  <1>8. CASE TxAbortIrq
    BY <1>8, RetireFields DEF TxAbortIrq
  <1>9. CASE BusOff \/ AbomRecover \/ WireSend \/ UNCHANGED vars
    BY <1>9 DEF BusOff, AbomRecover, WireSend, TxType, vars
  <1>10. CASE CanTask
    <2>1. CASE CanWake \/ SecondPoll \/ FoldRead
      BY <2>1 DEF CanWake, SecondPoll, PollSnapshot, FoldRead, DevType
    <2>2. CASE PollEvent
      BY <2>2, AbortedFields, RebasedType DEF PollEvent, AppType, DevType
    <2>3. CASE PollRecover \/ PollInhibited \/ PollHealthy
      BY ZenonT(40), <2>3
      DEF PollRecover, PollInhibited, PollHealthy, NoteLoad, AppType, DevType,
          Unlatched
    <2>4. CASE PollSettle
      BY <2>4, AbortedFields DEF PollSettle, AppType
    <2>5. CASE PollEpoch
      <3>1. app'.latch = app.latch
        BY ZenonT(40), <2>5 DEF PollEpoch, AppType
      <3>2. EpochReset \/ (tx' = Aborted(tx) /\ dev' = dev)
        BY <2>5 DEF PollEpoch
      <3> QED BY <3>1, <3>2, EpochResetFields, AbortedFields
    <2>6. CASE PollCommit
      <3>1. app'.latch = app.latch
        BY ZenonT(40), <2>6 DEF PollCommit, AppType
      <3>2. NoteBusOff \/ (tx' = Rebased(tx) /\ dev' = dev)
        BY <2>6 DEF PollCommit
      <3> QED BY ZenonT(40), <3>1, <3>2, NoteBusOffFields, AbortedFields,
                 RebasedFields
    <2>7. CASE Skip \/ FoldWrite
      BY <2>7 DEF Skip, FoldWrite, AppType
    <2>8. CASE Publish
      BY <2>8, PublishFields
    <2>9. CASE Resume
      BY <2>9, ResumeFields
    <2>10. CASE UpdateAuthority
      BY ZenonT(40), <2>10, RebasedFields DEF UpdateAuthority, AppType
    <2> QED BY <1>10, <2>1, <2>2, <2>3, <2>4, <2>5, <2>6, <2>7, <2>8, <2>9,
               <2>10 DEF CanTask
  <1>11. CASE Service
    <2>1. CASE RecoverBegin
      BY <2>1, AbortedFields DEF RecoverBegin, NoteBusOff, DevType
    <2>2. CASE \E ok \in BOOLEAN : RecoverRestart(ok)
      BY <2>2 DEF RecoverRestart, DevType
    <2>3. CASE RecoverEpoch
      <3>1. EpochReset \/ (tx' = Aborted(tx) /\ dev' = dev)
        BY <2>3 DEF RecoverEpoch
      <3> QED BY <2>3, <3>1, EpochResetFields, AbortedFields DEF RecoverEpoch
    <2>4. CASE RecoverCommit
      <3>1. CASE NoteBusOff /\ app' = app
        BY <3>1, NoteBusOffFields, AbortedFields
      <3>2. CASE dev' = [dev EXCEPT !.inhibit = FALSE, !.recent = NoEvents]
        BY <3>2 DEF DevType
      <3> QED BY <2>4, <3>1, <3>2 DEF RecoverCommit
    <2>5. CASE StateFinish
               \/ \E command \in {"charge", "discharge"} : StateBegin(command)
      BY ZenonT(40), <2>5 DEF StateFinish, StateBegin, AppType
    <2> QED BY <1>11, <2>1, <2>2, <2>3, <2>4, <2>5 DEF Service
  <1> QED BY <1>2, <1>3, <1>4, <1>5, <1>6, <1>7, <1>8, <1>9, <1>10, <1>11
          DEF Next

(* Once the repeat limit shut the transport, the application has latched   *)
(* and no frame waits in a mailbox without an abort request.               *)
THEOREM InhibitIsCompleteAlways == Spec => []InhibitIsComplete
  <1>1. Init => InhibitIsComplete
    BY DEF Init, InhibitIsComplete
  <1>2. TypeInv /\ InhibitIsComplete /\ [Next]_vars => InhibitIsComplete'
    BY InhibitStep
  <1> QED BY <1>1, <1>2, TypeInit, TypeStep, PTL DEF Spec
-----------------------------------------------------------------------------
(* The silence between recovery and refresh: while a refresh is owed the   *)
(* gate is shut as well, so nothing can be loaded into the settled         *)
(* mailboxes.                                                              *)
QuietInv == dev.refreshPending => dev.suspended /\ tx.frame = "free"

(* Every step keeps the gate shut and the mailbox free meanwhile.          *)
LEMMA QuietStep ==
  ASSUME TypeInv, QuietInv, [Next]_vars
  PROVE  QuietInv'
  <1> USE DEF TypeInv, TypeOK, QuietInv
  <1>1. CASE SceIrq
    BY <1>1, SceFields
  <1>2. CASE Refill
    BY <1>2, KickFields DEF Refill
  <1>3. CASE TxCompleteIrq
    BY <1>3, CompleteFields
  <1>4. CASE TxAbortIrq
    BY <1>4, RetireFields DEF TxAbortIrq
  <1>5. CASE SoftError
    BY <1>5, AbortedFields DEF SoftError, DevType
  <1>6. CASE BusOff \/ AbomRecover \/ WireSend \/ ForceLow \/ UNCHANGED vars
    BY <1>6 DEF BusOff, AbomRecover, WireSend, ForceLow, vars
  <1>7. CASE Tick
    BY <1>7 DEF Tick, DevType
  <1>8. CASE Supervise
    BY <1>8 DEF Supervise, ErrorTask
  <1>9. CASE CanTask
    <2>1. CASE CanWake \/ SecondPoll \/ FoldRead
      BY ZenonT(40), <2>1
      DEF CanWake, SecondPoll, PollSnapshot, FoldRead, DevType
    <2>2. CASE PollEvent
      BY <2>2, AbortedFields, RebasedFields, RebasedType DEF PollEvent, DevType
    <2>3. CASE PollRecover \/ PollInhibited
      BY <2>3 DEF PollRecover, PollInhibited
    <2>4. CASE PollHealthy
      BY <2>4 DEF PollHealthy, ReopenGate, DevType
    <2>5. CASE PollSettle
      BY <2>5, AbortedFields DEF PollSettle
    <2>6. CASE PollEpoch
      <3>1. CASE EpochMayReset(can.recSeq)
        BY <2>6, <3>1, EpochResetFields DEF PollEpoch, EpochMayReset, Settled
      <3>2. CASE ~EpochMayReset(can.recSeq)
        BY <2>6, <3>2, AbortedFields DEF PollEpoch
      <3> QED BY <3>1, <3>2
    <2>7. CASE PollCommit
      <3>1. NoteBusOff \/ (tx' = Rebased(tx) /\ dev' = dev)
        BY <2>7 DEF PollCommit
      <3> QED BY ZenonT(40), <3>1, NoteBusOffFields, AbortedFields,
                 RebasedFields
    <2>8. CASE Skip \/ FoldWrite
      BY <2>8 DEF Skip, FoldWrite
    <2>9. CASE Publish
      BY <2>9, PublishFields
    <2>10. CASE Resume
      BY <2>10, ResumeFields
    <2>11. CASE UpdateAuthority
      BY <2>11, RebasedFields DEF UpdateAuthority
    <2> QED BY <1>9, <2>1, <2>2, <2>3, <2>4, <2>5, <2>6, <2>7, <2>8, <2>9,
               <2>10, <2>11 DEF CanTask
  <1>10. CASE Service
    <2>1. CASE RecoverBegin
      BY <2>1, NoteBusOffFields, AbortedFields DEF RecoverBegin
    <2>2. CASE \E ok \in BOOLEAN : RecoverRestart(ok)
      BY <2>2 DEF RecoverRestart, DevType
    <2>3. CASE RecoverEpoch
      <3>1. CASE EpochMayReset(cli.seq)
        BY <2>3, <3>1, EpochResetFields DEF RecoverEpoch, EpochMayReset, Settled
      <3>2. CASE ~EpochMayReset(cli.seq)
        BY <2>3, <3>2, AbortedFields DEF RecoverEpoch
      <3> QED BY <3>1, <3>2
    <2>4. CASE RecoverCommit
      <3>1. CASE NoteBusOff
        BY <3>1, NoteBusOffFields, AbortedFields
      <3>2. CASE /\ dev' = [dev EXCEPT !.inhibit = FALSE, !.recent = NoEvents]
                 /\ tx' = Rebased(tx)
        BY <3>2, RebasedFields DEF DevType
      <3> QED BY <2>4, <3>1, <3>2 DEF RecoverCommit
    <2>5. CASE StateFinish
               \/ \E command \in {"charge", "discharge"} : StateBegin(command)
      BY <2>5 DEF StateFinish, StateBegin
    <2> QED BY <1>10, <2>1, <2>2, <2>3, <2>4, <2>5 DEF Service
  <1> QED BY <1>1, <1>2, <1>3, <1>4, <1>5, <1>6, <1>7, <1>8, <1>9, <1>10
          DEF Next

(* Between electrical recovery and the first fresh publication no frame of *)
(* the old controller epoch is in a mailbox.                               *)
THEOREM QuietUntilRefreshedAlways == Spec => []QuietUntilRefreshed
  <1>1. Init => QuietInv
    BY DEF Init, QuietInv
  <1>2. TypeInv /\ QuietInv /\ [Next]_vars => QuietInv'
    BY QuietStep
  <1>3. QuietInv => QuietUntilRefreshed
    BY DEF QuietInv, QuietUntilRefreshed
  <1> QED BY <1>1, <1>2, <1>3, TypeInit, TypeStep, PTL DEF Spec
(* A poll ends in the middle of the cycle or near its end.                 *)
LEMMA AfterPollFields ==
  ASSUME can \in CanType, AfterPoll
  PROVE  /\ can'.pass = can.pass /\ can'.recSeq = 0
         /\ \/ can.pass = 1 /\ can'.pc = "decide"
            \/ can.pass = 2 /\ can'.pc = "fold"
  BY DEF AfterPoll, CanType

-----------------------------------------------------------------------------
(* Authority.  It is granted at the end of a cycle, after the second poll: *)
(* an event recorded since that poll has set the bus-off fault, which only *)
(* a commit takes back, and a commit leaves a refresh owed that only the   *)
(* next cycle settles.                                                     *)
SoundInv ==
  /\ AuthorityIsSound
  /\ can.pass = 2 => \/ dev.seq = dev.consumed
                     \/ app.busOffFault \/ dev.refreshPending
  /\ can.pc \in {"idle", "decide", "resume"} => can.pass = 1
  /\ can.pc \in {"fold", "store", "grant"} => can.pass = 2
  /\ can.pc = "commit" => dev.refreshPending

(* Every step keeps authority sound.                                       *)
LEMMA SoundStep ==
  ASSUME TypeInv, SoundInv, [Next]_vars
  PROVE  SoundInv'
  <1> USE DEF TypeInv, TypeOK, SoundInv, AuthorityIsSound
  <1>1. CASE /\ dev'.seq = dev.seq /\ dev'.consumed = dev.consumed
             /\ dev'.inhibit = dev.inhibit
             /\ dev'.refreshPending = dev.refreshPending
             /\ app' = app /\ can' = can
    BY <1>1
  <1>2. CASE SceIrq
    <2>1. can' = can
      BY <1>2 DEF SceIrq
    <2> QED BY <1>2, <2>1, SceFields
  <1>3. CASE Refill \/ TxCompleteIrq \/ TxAbortIrq
    BY <1>1, <1>3, KickFields, CompleteFields, RetireFields
    DEF Refill, TxCompleteIrq, TxAbortIrq
  <1>4. CASE SoftError
    BY <1>1, <1>4 DEF SoftError, DevType
  <1>5. CASE BusOff \/ AbomRecover \/ WireSend \/ UNCHANGED vars
    BY <1>1, <1>5 DEF BusOff, AbomRecover, WireSend, vars
  <1>6. CASE ForceLow \/ Tick
    <2>1. /\ app'.busOffFault = app.busOffFault /\ app'.latch = app.latch
          /\ app'.authority = app.authority
      BY ZenonT(40), <1>6 DEF ForceLow, Tick, AppType
    <2>2. /\ dev'.seq = dev.seq /\ dev'.consumed = dev.consumed
          /\ dev'.inhibit = dev.inhibit
          /\ dev'.refreshPending = dev.refreshPending /\ can' = can
      BY <1>6 DEF ForceLow, Tick, DevType
    <2> QED BY <2>1, <2>2
  <1>7. CASE Supervise
    <2>1. PICK inputsOk \in BOOLEAN : ErrorTask(inputsOk)
      BY <1>7 DEF Supervise
    <2> DEFINE a == ApplyPolicy(app)
    <2>2. /\ a \in AppType /\ a.busOffFault = app.busOffFault
          /\ a.authority => app.authority /\ a.latch = app.latch
      BY ApplyPolicyType DEF ApplyPolicy, AppType
    <2>3. \/ app' = [a EXCEPT !.state = "DISCHARGE", !.inTransition = FALSE,
                              !.bms = FALSE]
          \/ app' = [a EXCEPT !.bms = inputsOk /\ BmsReady(a)]
      BY <2>1 DEF ErrorTask
    <2>4. dev' = dev /\ can' = can
      BY <2>1 DEF ErrorTask
    <2> HIDE DEF a
    <2>5. /\ app'.busOffFault = app.busOffFault
          /\ app'.authority => app.authority /\ app'.latch = app.latch
      BY ZenonT(40), <2>2, <2>3 DEF AppType
    <2> QED BY <2>4, <2>5
  <1>8. CASE CanTask
    <2>1. CASE CanWake \/ SecondPoll
      <3>1. PICK pass \in {1, 2} : PollSnapshot(pass)
        BY <2>1 DEF CanWake, SecondPoll
      <3>2. /\ dev'.seq = dev'.consumed /\ dev'.inhibit = dev.inhibit
            /\ dev'.refreshPending = dev.refreshPending
        BY <3>1 DEF PollSnapshot, DevType
      <3>3. can'.pc = "classify" /\ app' = app
        BY <3>1 DEF PollSnapshot, CanType
      <3> QED BY <3>2, <3>3
    <2>2. CASE PollEvent
      <3>1. /\ dev'.seq = dev.seq /\ dev'.inhibit = dev.inhibit
            /\ app'.busOffFault /\ ~app'.authority
        BY <2>2 DEF PollEvent, AppType, DevType
      <3> QED BY <2>2, <3>1, AfterPollFields DEF PollEvent
    <2>3. CASE PollRecover
      BY <2>3 DEF PollRecover, NoteLoad, AppType, CanType
    <2>4. CASE PollInhibited
      <3>1. dev' = dev /\ app'.busOffFault /\ ~app'.authority
        BY <2>4 DEF PollInhibited, NoteLoad, AppType
      <3> QED BY <2>4, <3>1, AfterPollFields DEF PollInhibited
    <2>5. CASE PollHealthy
      <3>1. /\ app'.busOffFault = app.busOffFault /\ app'.latch = app.latch
            /\ app'.authority = app.authority
        BY <2>5 DEF PollHealthy, NoteLoad, AppType
      <3>2. /\ dev'.seq = dev.seq /\ dev'.consumed = dev.consumed
            /\ dev'.inhibit = dev.inhibit
            /\ dev'.refreshPending = dev.refreshPending
        BY <2>5 DEF PollHealthy, DevType
      <3> QED BY <2>5, <3>1, <3>2, AfterPollFields DEF PollHealthy
    <2>6. CASE PollSettle
      <3>1. /\ app'.busOffFault = app.busOffFault /\ app'.latch = app.latch
            /\ app'.authority = app.authority /\ dev' = dev
        BY <2>6 DEF PollSettle, AppType
      <3>2. AfterPoll \/ can' = [can EXCEPT !.pc = "epoch"]
        BY <2>6 DEF PollSettle
      <3> QED BY <3>1, <3>2, AfterPollFields DEF CanType
    <2>7. CASE PollEpoch
      <3>1. CASE EpochMayReset(can.recSeq)
        <4>1. EpochReset /\ can' = [can EXCEPT !.pc = "commit"] /\ app' = app
          BY <2>7, <3>1 DEF PollEpoch
        <4> QED BY <4>1, EpochResetFields DEF CanType
      <3>2. CASE ~EpochMayReset(can.recSeq)
        <4>1. /\ app'.busOffFault = app.busOffFault /\ app'.latch = app.latch
              /\ app'.authority = app.authority /\ dev' = dev
          BY ZenonT(40), <2>7, <3>2 DEF PollEpoch, AppType
        <4> QED BY <2>7, <3>2, <4>1, AfterPollFields DEF PollEpoch
      <3> QED BY <3>1, <3>2
    <2>8. CASE PollCommit
      <3>1. CASE CommitStands(can.recSeq)
        <4>1. dev.refreshPending /\ dev' = dev /\ AfterPoll
          BY <2>8, <3>1 DEF PollCommit, At
        <4>2. /\ app'.busOffFault = dev.inhibit /\ app'.latch = app.latch
              /\ app'.authority = app.authority
          BY ZenonT(40), <2>8, <3>1 DEF PollCommit, AppType
        <4> QED BY <4>1, <4>2, AfterPollFields DEF DevType
      <3>2. CASE ~CommitStands(can.recSeq)
        <4>1. ~app'.authority /\ app'.busOffFault /\ NoteBusOff /\ AfterPoll
          BY <2>8, <3>2 DEF PollCommit, AppType
        <4> QED BY <4>1, NoteBusOffFields, AfterPollFields
      <3> QED BY <3>1, <3>2
    <2>9. CASE Skip
      BY <2>9, CanIdleType DEF Skip, CanIdle, AppType
    <2>10. CASE Publish
      <3>1. can' = [can EXCEPT !.pc = "resume"] /\ can.pc = "decide"
        BY <2>10 DEF Publish, At
      <3> QED BY <2>10, <3>1, PublishFields DEF CanType
    <2>11. CASE Resume
      <3>1. can' = [can EXCEPT !.pc = "poll"] /\ can.pc = "resume"
        BY <2>11 DEF Resume, At
      <3> QED BY <2>11, <3>1, ResumeFields DEF CanType
    <2>12. CASE FoldRead \/ FoldWrite
      <3>1. /\ can.pc \in {"fold", "store"} /\ can'.pc \in {"store", "grant"}
            /\ can'.pass = can.pass /\ dev' = dev
        BY <2>12 DEF FoldRead, FoldWrite, At, CanType
      <3>2. /\ app'.busOffFault = app.busOffFault /\ app'.latch = app.latch
            /\ app'.authority = app.authority
        BY <2>12 DEF FoldRead, FoldWrite, AppType
      <3> QED BY <3>1, <3>2
    <2>13. CASE UpdateAuthority
      <3>1. dev' = dev /\ can' = CanIdle /\ can.pc = "grant"
        BY <2>13 DEF UpdateAuthority, At
      <3>2. \/ app' = app \/ app' = [app EXCEPT !.authority = FALSE]
            \/ /\ TransportHealthy
               /\ app' = [app EXCEPT !.authority = TRUE, !.authRefresh = FALSE,
                                     !.recoveryActive = FALSE,
                                     !.recoveryState = NoState, !.epochAge = 0]
        BY <2>13 DEF UpdateAuthority
      <3> QED BY <3>1, <3>2 DEF TransportHealthy, CanIdle, AppType
    <2> QED BY <1>8, <2>1, <2>2, <2>3, <2>4, <2>5, <2>6, <2>7, <2>8, <2>9,
               <2>10, <2>11, <2>12, <2>13 DEF CanTask
  <1>9. CASE Service
    <2>1. CASE RecoverBegin
      BY <1>1, <2>1, NoteBusOffFields DEF RecoverBegin
    <2>2. CASE \E ok \in BOOLEAN : RecoverRestart(ok)
      BY <1>1, <2>2 DEF RecoverRestart, DevType
    <2>3. CASE RecoverEpoch
      <3>1. app' = app /\ can' = can
        BY <2>3 DEF RecoverEpoch
      <3>2. EpochReset \/ dev' = dev
        BY <2>3 DEF RecoverEpoch
      <3> QED BY <3>1, <3>2, EpochResetFields
    <2>4. CASE RecoverCommit
      <3>1. can' = can /\ can.pc = "idle"
        BY <2>4 DEF RecoverCommit, ServiceAt, At
      <3>2. CASE NoteBusOff /\ app' = app
        BY <3>1, <3>2, NoteBusOffFields
      <3>3. CASE CommitStands(cli.seq)
        <4>1. ~app'.authority
          BY ZenonT(40), <2>4, <3>3 DEF RecoverCommit, AppType
        <4> QED BY <3>1, <4>1
      <3> QED BY <2>4, <3>2, <3>3 DEF RecoverCommit
    <2>5. CASE StateFinish
               \/ \E command \in {"charge", "discharge"} : StateBegin(command)
      <3>1. /\ app'.busOffFault = app.busOffFault /\ app'.latch = app.latch
            /\ app'.authority = app.authority
        BY ZenonT(40), <2>5 DEF StateFinish, StateBegin, AppType
      <3>2. dev' = dev /\ can' = can
        BY <2>5 DEF StateFinish, StateBegin
      <3> QED BY <3>1, <3>2
    <2> QED BY <1>9, <2>1, <2>2, <2>3, <2>4, <2>5 DEF Service
  <1> QED BY <1>2, <1>3, <1>4, <1>5, <1>6, <1>7, <1>8, <1>9 DEF Next

(* CAN authority is never held over an unresolved bus-off.                 *)
THEOREM AuthorityIsSoundAlways == Spec => []AuthorityIsSound
  <1>1. Init => SoundInv
    BY DEF Init, SoundInv, AuthorityIsSound, CanIdle
  <1>2. TypeInv /\ SoundInv /\ [Next]_vars => SoundInv'
    BY SoundStep
  <1>3. SoundInv => AuthorityIsSound
    BY DEF SoundInv
  <1> QED BY <1>1, <1>2, <1>3, TypeInit, TypeStep, PTL DEF Spec
-----------------------------------------------------------------------------
(* The generations.  Without a standing bus-off fault everything queued    *)
(* and everything completed since the baseline was published after the     *)
(* last event; a recovery between its epoch reset and its commit has       *)
(* emptied the queue already, unless a newer event came.  In a discharge   *)
(* epoch a completion that is in time by its elapsed time really was.      *)
Current(g) == g \in {NoGen, dev.seq + 1}

QueueCurrent == Current(tx.active) /\ Current(tx.pending)

LinkInv ==
  /\ can.recSeq <= dev.seq /\ cli.seq <= dev.seq
  /\ ~app.busOffFault => QueueCurrent /\ Current(tx.fresh)
  /\ can.pc = "commit" /\ can.recSeq = dev.seq => QueueCurrent
  /\ cli.pc = "commit" /\ cli.seq = dev.seq => QueueCurrent
  /\ DischargeEpoch /\ ~app.busOffFault /\ tx.fresh # NoGen
       /\ tx.elapsed < Deadline => hist.timely

(* A step that leaves the queue, the event count and the epoch alone.      *)
LEMMA LinkFrame ==
  ASSUME LinkInv,
         tx'.active = tx.active, tx'.pending = tx.pending,
         \/ tx'.fresh = tx.fresh /\ tx'.elapsed = tx.elapsed
         \/ tx'.fresh = NoGen,
         dev'.seq = dev.seq, hist' = hist,
         DischargeEpoch' => DischargeEpoch,
         app.busOffFault => app'.busOffFault,
         can'.recSeq \in {0, can.recSeq, dev.seq}, dev.seq \in Nat,
         can'.pc = "commit" => can.pc = "commit" /\ can'.recSeq = can.recSeq,
         cli'.seq \in {cli.seq, dev.seq},
         cli'.pc = "commit" => cli.pc = "commit" /\ cli'.seq = cli.seq
  PROVE  LinkInv'
  BY DEF LinkInv, QueueCurrent, Current
(* Every step keeps the generations current.                               *)
LEMMA LinkStep ==
  ASSUME TypeInv, SoundInv, LinkInv, [Next]_vars
  PROVE  LinkInv'
  <1> USE DEF TypeInv, TypeOK
  <1> DEFINE TxSame == /\ tx'.active = tx.active /\ tx'.pending = tx.pending
                       /\ \/ tx'.fresh = tx.fresh /\ tx'.elapsed = tx.elapsed
                          \/ tx'.fresh = NoGen
             AppSame == /\ DischargeEpoch' => DischargeEpoch
                        /\ app.busOffFault => app'.busOffFault
             CanSame == /\ can'.recSeq \in {0, can.recSeq, dev.seq}
                        /\ can'.pc = "commit"
                             => can.pc = "commit" /\ can'.recSeq = can.recSeq
             CliSame == /\ cli'.seq \in {cli.seq, dev.seq}
                        /\ cli'.pc = "commit"
                             => cli.pc = "commit" /\ cli'.seq = cli.seq
  <1>0. dev.seq \in Nat /\ cli.seq \in Nat /\ can.recSeq \in Nat
    BY ConstantsAssumption DEF ConstantsAssumption, DevType, CanType
  <1>a. ASSUME TxSame, AppSame, CanSame, CliSame, dev'.seq = dev.seq,
               hist' = hist
        PROVE  LinkInv'
    BY <1>0, <1>a, LinkFrame
  <1>b. app' = app => AppSame
    BY DEF DischargeEpoch
  <1>c. AfterPoll => CanSame
    BY AfterPollFields
  <1>d. tx' \in {tx, Aborted(tx), Rebased(tx), Aborted(Rebased(tx))} => TxSame
    BY AbortedFields, RebasedFields, RebasedType
  <1> HIDE DEF TxSame, AppSame
  <1>1. CASE SceIrq
    <2>1. UNCHANGED <<can, cli>>
      BY <1>1 DEF SceIrq
    <2> QED BY <1>0, <1>1, <2>1, SceFields DEF LinkInv
  <1>2. CASE Refill
    <2>1. TxSame /\ dev'.seq = dev.seq
      BY <1>2, KickFields DEF Refill, TxSame
    <2> QED BY <1>2, <2>1, <1>a, <1>b DEF Refill
  <1>3. CASE TxCompleteIrq
    <2>1. UNCHANGED <<can, cli>>
          /\ hist' = [hist EXCEPT !.timely = @ \/ /\ DischargeEpoch
                                                  /\ app.epochAge < Deadline
                                                  /\ tx.active = dev.seq + 1]
      BY <1>3 DEF TxCompleteIrq
    <2>2. QueueCurrent => QueueCurrent'
      BY <1>3, CompleteFields DEF QueueCurrent, Current
    <2>3. ~app.busOffFault => Current(tx.fresh)'
      BY <1>3, CompleteFields DEF QueueCurrent, Current, LinkInv
    <2>4. DischargeEpoch' /\ ~app'.busOffFault /\ tx'.fresh # NoGen
            /\ tx'.elapsed < Deadline => hist'.timely
      <3> SUFFICES ASSUME DischargeEpoch', ~app'.busOffFault,
                          tx'.fresh # NoGen, tx'.elapsed < Deadline
                   PROVE  hist'.timely
        OBVIOUS
      <3>1. DischargeEpoch /\ app.recoveryActive /\ ~app.busOffFault
        BY <1>3, CompleteFields DEF DischargeEpoch
      <3>2. app.epochAge < Deadline /\ tx.active = dev.seq + 1
        BY <1>3, <3>1, CompleteFields DEF LinkInv, QueueCurrent, Current
      <3> QED BY <2>1, <3>1, <3>2
    <2> QED BY <1>3, <2>1, <2>2, <2>3, <2>4, CompleteFields DEF LinkInv
  <1>4. CASE TxAbortIrq
    <2>1. UNCHANGED <<app, can, cli, hist>>
      BY <1>4 DEF TxAbortIrq
    <2>2. /\ QueueCurrent => QueueCurrent'
          /\ Current(tx.fresh) => Current(tx.fresh)'
          /\ tx'.fresh = tx.fresh /\ tx'.elapsed = tx.elapsed
          /\ dev'.seq = dev.seq
      BY <1>4, RetireFields DEF TxAbortIrq, QueueCurrent, Current
    <2> QED BY <2>1, <2>2 DEF LinkInv, DischargeEpoch
  <1>5. CASE SoftError
    <2>1. tx' \in {tx, Aborted(tx)} /\ dev'.seq = dev.seq
      BY <1>5 DEF SoftError, DevType
    <2> QED BY <1>5, <2>1, <1>a, <1>b, <1>d DEF SoftError
  <1>6. CASE WireSend
    <2>1. TxSame
      BY <1>6 DEF WireSend, TxSame, TxType
    <2> QED BY <1>6, <2>1, <1>a, <1>b DEF WireSend
  <1>7. CASE BusOff \/ AbomRecover \/ UNCHANGED vars
    BY <1>7, <1>a, <1>b, <1>d DEF BusOff, AbomRecover, vars
  <1>8. CASE ForceLow \/ Tick
    <2>1. AppSame /\ dev'.seq = dev.seq
      BY ZenonT(40), <1>8
      DEF ForceLow, Tick, AppType, DevType, AppSame, DischargeEpoch
    <2> QED BY <1>8, <2>1, <1>a, <1>d DEF ForceLow, Tick
  <1>9. CASE Supervise
    <2>1. PICK inputsOk \in BOOLEAN : ErrorTask(inputsOk)
      BY <1>9 DEF Supervise
    <2> DEFINE a == ApplyPolicy(app)
    <2>2. /\ a \in AppType /\ a.busOffFault = app.busOffFault
          /\ a.recoveryActive = app.recoveryActive
          /\ a.recoveryState = app.recoveryState
      BY ApplyPolicyType DEF ApplyPolicy, AppType
    <2>3. \/ app' = [a EXCEPT !.state = "DISCHARGE", !.inTransition = FALSE,
                              !.bms = FALSE]
          \/ app' = [a EXCEPT !.bms = inputsOk /\ BmsReady(a)]
      BY <2>1 DEF ErrorTask
    <2> HIDE DEF a
    <2>4. AppSame
      BY ZenonT(40), <2>2, <2>3 DEF AppType, AppSame, DischargeEpoch
    <2> QED BY <2>1, <2>4, <1>a, <1>d DEF ErrorTask
  <1>10. CASE CanTask
    <2>1. CASE CanWake \/ SecondPoll
      <3>1. PICK pass \in {1, 2} : PollSnapshot(pass)
        BY <2>1 DEF CanWake, SecondPoll
      <3>2. CanSame
        BY <3>1 DEF PollSnapshot, CanType
      <3>3. dev'.seq = dev.seq
        BY <3>1 DEF PollSnapshot, DevType
      <3> QED BY <3>1, <3>2, <3>3, <1>a, <1>b, <1>d DEF PollSnapshot
    <2>2. CASE PollEvent
      <3>1. AppSame /\ dev'.seq = dev.seq
        BY <2>2 DEF PollEvent, AppType, DevType, AppSame, DischargeEpoch
      <3> QED BY <2>2, <3>1, <1>a, <1>c, <1>d DEF PollEvent
    <2>3. CASE PollRecover
      <3>1. AppSame
        BY <2>3 DEF PollRecover, NoteLoad, AppType, AppSame, DischargeEpoch
      <3>2. CanSame
        BY <2>3 DEF PollRecover, CanType
      <3> QED BY <2>3, <3>1, <3>2, <1>a, <1>d DEF PollRecover
    <2>4. CASE PollInhibited
      <3>1. AppSame
        BY <2>4 DEF PollInhibited, NoteLoad, AppType, AppSame, DischargeEpoch
      <3> QED BY <2>4, <3>1, <1>a, <1>c, <1>d DEF PollInhibited
    <2>5. CASE PollHealthy
      <3>1. AppSame /\ dev'.seq = dev.seq
        BY <2>5
        DEF PollHealthy, NoteLoad, AppType, DevType, AppSame, DischargeEpoch
      <3> QED BY <2>5, <3>1, <1>a, <1>c, <1>d DEF PollHealthy
    <2>6. CASE PollSettle
      <3>1. AppSame
        BY <2>6 DEF PollSettle, AppType, AppSame, DischargeEpoch
      <3>2. CASE can' = [can EXCEPT !.pc = "epoch"]
        <4>1. CanSame
          BY <3>2 DEF CanType
        <4> QED BY <2>6, <3>1, <4>1, <1>a, <1>d DEF PollSettle
      <3>3. CASE AfterPoll
        BY <2>6, <3>1, <3>3, <1>a, <1>c, <1>d DEF PollSettle
      <3> QED BY <2>6, <3>2, <3>3 DEF PollSettle
    <2>7. CASE PollEpoch
      <3>1. CASE EpochMayReset(can.recSeq)
        <4>1. EpochReset /\ can' = [can EXCEPT !.pc = "commit"]
              /\ UNCHANGED <<app, cli, hist>>
          BY <2>7, <3>1 DEF PollEpoch
        <4>2. can'.recSeq = can.recSeq
          BY <4>1 DEF CanType
        <4> QED BY <4>1, <4>2, EpochResetFields
                DEF LinkInv, QueueCurrent, Current, DischargeEpoch
      <3>2. CASE ~EpochMayReset(can.recSeq)
        <4>1. AppSame
          BY <2>7, <3>2 DEF PollEpoch, AppType, AppSame, DischargeEpoch
        <4> QED BY <2>7, <3>2, <4>1, <1>a, <1>c, <1>d DEF PollEpoch
      <3> QED BY <3>1, <3>2
    <2>8. CASE PollCommit
      <3>1. CASE CommitStands(can.recSeq)
        <4>1. /\ tx' = Rebased(tx) /\ dev' = dev /\ UNCHANGED <<cli, hist>>
              /\ can.pc = "commit" /\ can.recSeq = dev.seq /\ AfterPoll
          BY <2>8, <3>1 DEF PollCommit, CommitStands, At
        <4>2. QueueCurrent' /\ tx'.fresh = NoGen
          BY <4>1, RebasedFields DEF LinkInv, QueueCurrent, Current
        <4> QED BY <1>0, <4>1, <4>2, AfterPollFields DEF LinkInv, Current
      <3>2. CASE ~CommitStands(can.recSeq)
        <4>1. NoteBusOff /\ AfterPoll /\ UNCHANGED <<cli, hist>>
          BY <2>8, <3>2 DEF PollCommit
        <4>2. AppSame
          BY ZenonT(40), <2>8, <3>2
          DEF PollCommit, AppType, AppSame, DischargeEpoch
        <4> QED BY <4>1, <4>2, <1>a, <1>c, <1>d, NoteBusOffFields
      <3> QED BY <3>1, <3>2
    <2>9. CASE Skip
      <3>1. AppSame
        BY <2>9 DEF Skip, AppType, AppSame, DischargeEpoch
      <3>2. CanSame
        BY <2>9 DEF Skip, CanIdle
      <3> QED BY <2>9, <3>1, <3>2, <1>a, <1>d DEF Skip
    <2>10. CASE Publish
      <3>1. /\ can' = [can EXCEPT !.pc = "resume"] /\ UNCHANGED <<cli, hist>>
        BY <2>10 DEF Publish
      <3>2. can'.pc = "resume" /\ can'.recSeq = can.recSeq
        BY <3>1 DEF CanType
      <3>3. /\ QueueCurrent => QueueCurrent'
            /\ Current(tx.fresh) => Current(tx.fresh)'
        BY <2>10, PublishFields DEF QueueCurrent, Current
      <3> QED BY <2>10, <3>1, <3>2, <3>3, PublishFields
              DEF LinkInv, DischargeEpoch
    <2>11. CASE Resume
      <3>1. TxSame /\ dev'.seq = dev.seq /\ app' = app
        BY <2>11, ResumeFields DEF TxSame
      <3>2. UNCHANGED <<cli, hist>> /\ CanSame
        BY <2>11 DEF Resume, CanType
      <3> QED BY <3>1, <3>2, <1>a, <1>b
    <2>12. CASE FoldRead \/ FoldWrite
      <3>1. AppSame
        BY <2>12 DEF FoldRead, FoldWrite, AppType, AppSame, DischargeEpoch
      <3>2. CanSame
        BY <2>12 DEF FoldRead, FoldWrite, CanType
      <3> QED BY <2>12, <3>1, <3>2, <1>a, <1>d DEF FoldRead, FoldWrite
    <2>13. CASE UpdateAuthority
      <3>1. CanSame
        BY <2>13 DEF UpdateAuthority, CanIdle
      <3>2. CASE /\ app' \in {app, [app EXCEPT !.authority = FALSE]}
                 /\ UNCHANGED <<tx, hist>>
        <4>1. AppSame
          BY <3>2 DEF AppType, AppSame, DischargeEpoch
        <4> QED BY <2>13, <3>1, <3>2, <4>1, <1>a, <1>d DEF UpdateAuthority
      <3>3. CASE /\ app' = [app EXCEPT
                              !.authority = TRUE, !.authRefresh = FALSE,
                              !.recoveryActive = FALSE,
                              !.recoveryState = NoState, !.epochAge = 0]
                 /\ tx' = Rebased(tx)
        <4>1. app'.busOffFault = app.busOffFault
          BY <3>3 DEF AppType
        <4>2. QueueCurrent => QueueCurrent'
          BY <2>13, <3>3, RebasedFields
          DEF UpdateAuthority, QueueCurrent, Current
        <4>3. tx'.fresh = NoGen
          BY <3>3, RebasedFields
        <4> QED BY <1>0, <2>13, <4>1, <4>2, <4>3
                DEF UpdateAuthority, CanIdle, LinkInv, Current
      <3> QED BY <2>13, <3>2, <3>3 DEF UpdateAuthority
    <2> QED BY <1>10, <2>1, <2>2, <2>3, <2>4, <2>5, <2>6, <2>7, <2>8, <2>9,
               <2>10, <2>11, <2>12, <2>13 DEF CanTask
  <1>11. CASE Service
    <2>1. CASE RecoverBegin
      BY <2>1, <1>a, <1>b, <1>d, NoteBusOffFields DEF RecoverBegin
    <2>2. CASE \E ok \in BOOLEAN : RecoverRestart(ok)
      <3>1. PICK ok \in BOOLEAN : RecoverRestart(ok)
        BY <2>2
      <3>2. dev'.seq = dev.seq
        BY <3>1 DEF RecoverRestart, DevType
      <3>3. CASE cli' = [cli EXCEPT !.pc = "epoch"]
        BY <3>1, <3>2, <3>3, <1>a, <1>b, <1>d DEF RecoverRestart
      <3>4. CASE cli' = CliIdle
        BY <1>0, <3>1, <3>2, <3>4 DEF RecoverRestart, CliIdle, LinkInv,
                                      QueueCurrent, Current, DischargeEpoch
      <3> QED BY <3>1, <3>3, <3>4 DEF RecoverRestart
    <2>3. CASE RecoverEpoch
      <3>1. CASE EpochMayReset(cli.seq)
        <4>1. EpochReset /\ cli' = [cli EXCEPT !.pc = "commit"]
              /\ UNCHANGED <<app, can, hist>>
          BY <2>3, <3>1 DEF RecoverEpoch
        <4> QED BY <4>1, EpochResetFields
                DEF LinkInv, QueueCurrent, Current, DischargeEpoch
      <3>2. CASE ~EpochMayReset(cli.seq)
        <4>1. tx' = Aborted(tx) /\ cli' = CliIdle
              /\ UNCHANGED <<app, dev, can, hist>>
          BY <2>3, <3>2 DEF RecoverEpoch
        <4> QED BY <1>0, <4>1, AbortedFields
                DEF CliIdle, LinkInv, QueueCurrent, Current, DischargeEpoch
      <3> QED BY <3>1, <3>2
    <2>4. CASE RecoverCommit
      <3>0. can' = can /\ cli' = CliIdle /\ cli.pc = "commit"
        BY <2>4 DEF RecoverCommit, ServiceAt
      <3>1. CASE CommitStands(cli.seq)
        <4>1. /\ dev' = [dev EXCEPT !.inhibit = FALSE, !.recent = NoEvents]
              /\ tx' = Rebased(tx) /\ cli.seq = dev.seq
          BY <2>4, <3>1 DEF RecoverCommit, CommitStands
        <4>2. dev'.seq = dev.seq
          BY <4>1 DEF DevType
        <4>3. QueueCurrent' /\ tx'.fresh = NoGen
          BY <3>0, <4>1, <4>2, RebasedFields DEF LinkInv, QueueCurrent, Current
        <4> QED BY <1>0, <3>0, <4>2, <4>3 DEF LinkInv, CliIdle, Current
      <3>2. CASE ~CommitStands(cli.seq)
        <4>1. NoteBusOff /\ UNCHANGED <<app, hist>>
          BY <2>4, <3>2 DEF RecoverCommit
        <4> QED BY <1>0, <3>0, <4>1, NoteBusOffFields, AbortedFields
                DEF CliIdle, LinkInv, QueueCurrent, Current, DischargeEpoch
      <3> QED BY <3>1, <3>2
    <2>5. CASE \E command \in {"charge", "discharge"} : StateBegin(command)
      <3>1. AppSame
        BY <2>5 DEF StateBegin, AppType, AppSame, DischargeEpoch
      <3> QED BY <2>5, <3>1, <1>a, <1>d DEF StateBegin
    <2>6. CASE StateFinish
      <3>1. AppSame
        BY <2>6 DEF StateFinish, AppType, AppSame, DischargeEpoch
      <3>2. UNCHANGED <<tx, dev, can, hist>> /\ cli' = CliIdle
        BY <2>6 DEF StateFinish
      <3> QED BY <1>0, <3>1, <3>2
              DEF CliIdle, LinkInv, QueueCurrent, Current, AppSame
    <2> QED BY <1>11, <2>1, <2>2, <2>3, <2>4, <2>5, <2>6 DEF Service
  <1> QED BY <1>1, <1>2, <1>3, <1>4, <1>5, <1>6, <1>7, <1>8, <1>9, <1>10,
             <1>11 DEF Next

(* The three invariants hold at power-up.                                  *)
LEMMA LinkInit == Init => TypeInv /\ SoundInv /\ LinkInv
  <1> SUFFICES ASSUME Init PROVE SoundInv /\ LinkInv
    BY TypeInit
  <1>1. SoundInv
    BY DEF Init, SoundInv, AuthorityIsSound, CanIdle
  <1>2. LinkInv
    BY DEF Init, LinkInv, QueueCurrent, Current, CanIdle, CliIdle,
           DischargeEpoch
  <1> QED BY <1>1, <1>2
(* Only the CAN task's last step grants authority, and only that step and  *)
(* the service commit close an epoch.                                      *)
LEMMA GrantStep ==
  ASSUME TypeInv, [Next]_vars, ~UpdateAuthority, ~RecoverCommit
  PROVE  /\ app'.authority => app.authority
         /\ app.recoveryActive => app'.recoveryActive
  <1> USE DEF TypeInv, TypeOK
  <1>1. CASE app' = app
    BY <1>1
  <1>2. CASE SceIrq
    BY <1>2 DEF SceIrq, OpenEpoch, AppType
  <1>3. CASE Supervise
    <2>1. PICK inputsOk \in BOOLEAN : ErrorTask(inputsOk)
      BY <1>3 DEF Supervise
    <2> DEFINE a == ApplyPolicy(app)
    <2>2. /\ a \in AppType /\ a.recoveryActive = app.recoveryActive
          /\ a.authority => app.authority
      BY ApplyPolicyType DEF ApplyPolicy, AppType
    <2>3. \/ app' = [a EXCEPT !.state = "DISCHARGE", !.inTransition = FALSE,
                              !.bms = FALSE]
          \/ app' = [a EXCEPT !.bms = inputsOk /\ BmsReady(a)]
      BY <2>1 DEF ErrorTask
    <2> HIDE DEF a
    <2> QED BY ZenonT(40), <2>2, <2>3 DEF AppType
  <1>4. CASE ForceLow \/ Tick
    BY <1>4 DEF ForceLow, Tick, AppType
  <1>5. CASE PollEvent \/ PollRecover \/ PollInhibited \/ PollHealthy
    <2>1. CASE PollEvent
      BY <2>1 DEF PollEvent, AppType
    <2>2. CASE PollRecover
      BY <2>2 DEF PollRecover, NoteLoad, AppType
    <2>3. CASE PollInhibited
      BY <2>3 DEF PollInhibited, NoteLoad, AppType
    <2>4. CASE PollHealthy
      BY <2>4 DEF PollHealthy, NoteLoad, AppType
    <2> QED BY <1>5, <2>1, <2>2, <2>3, <2>4
  <1>6. CASE PollSettle \/ PollEpoch \/ PollCommit
    BY ZenonT(40), <1>6 DEF PollSettle, PollEpoch, PollCommit, AppType
  <1>7. CASE Skip \/ FoldWrite
    BY <1>7 DEF Skip, FoldWrite, AppType
  <1>8. CASE StateFinish
             \/ \E command \in {"charge", "discharge"} : StateBegin(command)
    BY ZenonT(40), <1>8 DEF StateFinish, StateBegin, AppType
  <1>9. CASE CanWake \/ SecondPoll \/ Publish \/ Resume \/ FoldRead
    BY <1>1, <1>9 DEF CanWake, SecondPoll, PollSnapshot, Publish, Resume,
                      FoldRead
  <1>10. CASE RecoverBegin \/ RecoverEpoch
              \/ \E ok \in BOOLEAN : RecoverRestart(ok)
    BY <1>1, <1>10 DEF RecoverBegin, RecoverEpoch, RecoverRestart
  <1>11. CASE BusOff \/ AbomRecover \/ SoftError \/ Refill \/ WireSend
              \/ TxCompleteIrq \/ TxAbortIrq \/ UNCHANGED vars
    BY <1>1, <1>11 DEF BusOff, AbomRecover, SoftError, Refill, WireSend,
                       TxCompleteIrq, TxAbortIrq, vars
  <1> QED BY <1>2, <1>3, <1>4, <1>5, <1>6, <1>7, <1>8, <1>9, <1>10, <1>11
          DEF Next, CanTask, Service

Granted == ~app.authority /\ app'.authority => tx.fresh = dev.seq + 1

ClosedInTime ==
  DischargeEpoch /\ ~app'.recoveryActive => hist.timely \/ cli.pc = "commit"

(* A step that grants authority, or that closes a discharge epoch.         *)
LEMMA CloseStep ==
  ASSUME TypeInv, LinkInv, [Next]_vars
  PROVE  Granted /\ ClosedInTime
  <1> USE DEF TypeInv, TypeOK, Granted, ClosedInTime
  <1>1. CASE UpdateAuthority
    <2>1. CASE /\ TransportHealthy /\ tx.fresh # NoGen
               /\ ~(DischargeEpoch /\ tx.elapsed >= Deadline)
      <3>1. ~app.busOffFault
        BY <2>1 DEF TransportHealthy
      <3>2. tx.fresh = dev.seq + 1
        BY <2>1, <3>1 DEF LinkInv, Current
      <3>3. DischargeEpoch => tx.elapsed < Deadline
        BY <2>1, ConstantsAssumption DEF ConstantsAssumption, TxType
      <3> QED BY <2>1, <3>1, <3>2, <3>3 DEF LinkInv
    <2>2. CASE app' \in {app, [app EXCEPT !.authority = FALSE]}
      BY <2>2 DEF AppType, DischargeEpoch
    <2> QED BY <1>1, <2>1, <2>2 DEF UpdateAuthority, TooLate
  <1>2. CASE RecoverCommit
    <2>1. cli.pc = "commit"
      BY <1>2 DEF RecoverCommit, ServiceAt
    <2>2. app' = app \/ ~app'.authority
      BY ZenonT(40), <1>2 DEF RecoverCommit, AppType
    <2> QED BY <2>1, <2>2
  <1>3. CASE ~UpdateAuthority /\ ~RecoverCommit
    BY <1>3, GrantStep DEF DischargeEpoch
  <1> QED BY <1>1, <1>2, <1>3

(* Authority is only granted on the completion of a generation published   *)
(* after the last bus-off, never on one that waited through it.            *)
THEOREM AuthorityIsEarnedAlways == Spec => AuthorityIsEarned
  <1>1. TypeInv /\ SoundInv /\ LinkInv /\ [Next]_vars
          => (TypeInv /\ SoundInv /\ LinkInv)'
    BY TypeStep, SoundStep, LinkStep
  <1>2. TypeInv /\ SoundInv /\ LinkInv /\ [Next]_vars => [Granted]_vars
    BY CloseStep
  <1> QED BY <1>1, <1>2, LinkInit, PTL DEF Spec, AuthorityIsEarned, Granted

(* A discharge epoch is closed by a completion in time and nothing else,   *)
(* the service restart aside.                                              *)
THEOREM RecoveryIsTimelyAlways == Spec => RecoveryIsTimely
  <1>1. TypeInv /\ SoundInv /\ LinkInv /\ [Next]_vars
          => (TypeInv /\ SoundInv /\ LinkInv)'
    BY TypeStep, SoundStep, LinkStep
  <1>2. TypeInv /\ SoundInv /\ LinkInv /\ [Next]_vars => [ClosedInTime]_vars
    BY CloseStep
  <1> QED BY <1>1, <1>2, LinkInit, PTL DEF Spec, RecoveryIsTimely, ClosedInTime
-----------------------------------------------------------------------------
(* What the pump leaves of the gates: all of them, unless a load failed.   *)
LEMMA KickGates ==
  ASSUME NEW t \in TxType, NEW d \in DevType, Kick(t, d)
  PROVE  /\ dev' \in DevType
         /\ dev'.seq = d.seq /\ dev'.consumed = d.consumed
         /\ dev'.recent = d.recent /\ dev'.inhibit = d.inhibit
         /\ dev'.recoveryPending = d.recoveryPending
         /\ dev'.refreshPending = d.refreshPending
         /\ dev'.isrError = d.isrError
         /\ \/ dev' = d
            \/ "load" \in Anomalies /\ dev'.suspended /\ dev'.loadError
  <1>0. \/ dev' = d
        \/ /\ "load" \in Anomalies
           /\ dev' = [d EXCEPT !.suspended = TRUE, !.loadError = TRUE]
    BY DEF Kick
  <1>1. CASE dev' = d
    BY <1>1
  <1>2. CASE /\ "load" \in Anomalies
             /\ dev' = [d EXCEPT !.suspended = TRUE, !.loadError = TRUE]
    BY <1>2 DEF DevType
  <1> QED BY <1>0, <1>1, <1>2

(* The hand-over of a retired frame is such a step of the pump.            *)
LEMMA RetireGates ==
  ASSUME NEW t \in TxType, dev \in DevType, Retire(t)
  PROVE  /\ dev' \in DevType
         /\ dev'.seq = dev.seq /\ dev'.consumed = dev.consumed
         /\ dev'.recent = dev.recent /\ dev'.inhibit = dev.inhibit
         /\ dev'.recoveryPending = dev.recoveryPending
         /\ dev'.refreshPending = dev.refreshPending
         /\ dev'.isrError = dev.isrError
         /\ \/ dev' = dev
            \/ "load" \in Anomalies /\ dev'.suspended /\ dev'.loadError
  <1> DEFINE r == [t EXCEPT !.active = t.pending, !.pending = NoGen,
                            !.frame = "free"]
  <1>1. r \in TxType /\ Kick(r, dev)
    BY RetiredType DEF Retire
  <1> HIDE DEF r
  <1> QED BY <1>1, KickGates

(* So is a completion,                                                     *)
LEMMA CompleteGates ==
  ASSUME TypeInv, TxCompleteIrq
  PROVE  /\ dev'.seq = dev.seq /\ dev'.consumed = dev.consumed
         /\ dev'.recent = dev.recent /\ dev'.inhibit = dev.inhibit
         /\ dev'.recoveryPending = dev.recoveryPending
         /\ dev'.refreshPending = dev.refreshPending
         /\ dev'.isrError = dev.isrError
         /\ \/ dev' = dev
            \/ "load" \in Anomalies /\ dev'.suspended /\ dev'.loadError
  <1> USE DEF TypeInv, TypeOK
  <1> DEFINE e == IF app.recoveryActive THEN app.epochAge ELSE Deadline
             t == [tx EXCEPT !.fresh = tx.active, !.elapsed = e]
  <1>1. e \in 0..Deadline
    BY ConstantsAssumption DEF ConstantsAssumption, AppType
  <1>2. Retire(t)
    BY DEF TxCompleteIrq
  <1> HIDE DEF e
  <1>3. t \in TxType
    BY <1>1 DEF TxType
  <1> HIDE DEF t
  <1> QED BY <1>2, <1>3, RetireGates

(* a publication,                                                          *)
LEMMA PublishGates ==
  ASSUME TypeInv, Publish
  PROVE  /\ dev'.seq = dev.seq /\ dev'.consumed = dev.consumed
         /\ dev'.recent = dev.recent /\ dev'.inhibit = dev.inhibit
         /\ dev'.recoveryPending = dev.recoveryPending
         /\ dev'.refreshPending = dev.refreshPending
         /\ dev'.isrError = dev.isrError
         /\ \/ dev' = dev
            \/ "load" \in Anomalies /\ dev'.suspended /\ dev'.loadError
  <1> USE DEF TypeInv, TypeOK
  <1>1. PICK boundary \in BOOLEAN : Kick(Published(tx, boundary), dev)
    BY DEF Publish
  <1>2. Published(tx, boundary) \in TxType
    BY PublishedFields
  <1> QED BY <1>1, <1>2, KickGates

(* and the refresh, which may open the gate first.                         *)
LEMMA ResumeGates ==
  ASSUME TypeInv, Resume
  PROVE  /\ dev'.seq = dev.seq /\ dev'.consumed = dev.consumed
         /\ dev'.recent = dev.recent /\ dev'.inhibit = dev.inhibit
         /\ dev'.recoveryPending = dev.recoveryPending
         /\ dev'.isrError = dev.isrError
         /\ \/ dev' = dev
            \/ "load" \in Anomalies /\ dev'.suspended /\ dev'.loadError
            \/ ~dev'.suspended /\ dev'.loadError = dev.loadError
         /\ \/ dev'.refreshPending = dev.refreshPending
            \/ ~dev.inhibit
  <1> USE DEF TypeInv, TypeOK
  <1>1. CASE dev.refreshPending
    <2> DEFINE o == [dev EXCEPT !.refreshPending = FALSE, !.suspended = FALSE]
    <2>1. /\ o \in DevType /\ o.seq = dev.seq /\ o.consumed = dev.consumed
          /\ o.recent = dev.recent /\ o.inhibit = dev.inhibit
          /\ o.recoveryPending = dev.recoveryPending
          /\ o.isrError = dev.isrError /\ ~o.suspended
          /\ o.loadError = dev.loadError
      BY DEF DevType
    <2>2. \/ Kick(tx, dev) \/ (Kick(tx, o) /\ ~dev.inhibit)
      BY <1>1 DEF Resume, MayResume
    <2> HIDE DEF o
    <2>3. CASE Kick(tx, dev)
      BY <2>3, KickGates
    <2>4. CASE Kick(tx, o) /\ ~dev.inhibit
      <3>1. /\ dev'.seq = o.seq /\ dev'.consumed = o.consumed
            /\ dev'.recent = o.recent /\ dev'.inhibit = o.inhibit
            /\ dev'.recoveryPending = o.recoveryPending
            /\ dev'.isrError = o.isrError
            /\ \/ dev' = o
               \/ "load" \in Anomalies /\ dev'.suspended /\ dev'.loadError
        BY <2>1, <2>4, KickGates
      <3> QED BY <2>1, <2>4, <3>1
    <2> QED BY <2>2, <2>3, <2>4
  <1>2. CASE ~dev.refreshPending
    BY <1>2 DEF Resume
  <1> QED BY <1>1, <1>2

-----------------------------------------------------------------------------
(* Riding through a bus-off, in the vehicle build.  Without service the    *)
(* state moves once, from START to DISCHARGE and with no epoch open, so an *)
(* epoch under a high pin is a discharge epoch: the deadline applies.      *)
RideInv ==
  /\ app.state \in {"START", "DISCHARGE"}
  /\ app.state = "START" => ~app.bms
  /\ app.recoveryActive => app.recoveryState = app.state
  /\ RideThroughIsBounded

(* What everybody but the bus-off interrupt, the supervisor, the clock and *)
(* the grant leave alone.                                                  *)
RideSame ==
  /\ app'.state = app.state /\ (app'.bms => app.bms)
  /\ app'.recoveryActive = app.recoveryActive
  /\ app'.recoveryState = app.recoveryState /\ app'.epochAge = app.epochAge
  /\ hist.timely => hist'.timely
  /\ due'.error = due.error /\ dev'.recent = dev.recent

(* A step that leaves these alone keeps the invariant.                     *)
LEMMA RideFrame ==
  ASSUME RideInv, RideSame
  PROVE  RideInv'
  BY DEF RideInv, RideSame, RideThroughIsBounded

(* The transmit path, the controller and the other tasks.                  *)
LEMMA WireRide ==
  ASSUME TypeInv,
         \/ BusOff \/ AbomRecover \/ SoftError \/ Refill \/ WireSend
         \/ TxCompleteIrq \/ TxAbortIrq \/ ForceLow \/ UNCHANGED vars
  PROVE  RideSame
  <1> USE DEF TypeInv, TypeOK, RideSame
  <1>1. CASE BusOff \/ AbomRecover \/ WireSend \/ UNCHANGED vars
    BY <1>1 DEF BusOff, AbomRecover, WireSend, vars
  <1>2. CASE SoftError
    BY <1>2 DEF SoftError, DevType
  <1>3. CASE Refill
    BY <1>3, KickGates DEF Refill
  <1>4. CASE TxCompleteIrq
    <2>1. dev'.recent = dev.recent
      BY <1>4, CompleteGates
    <2>2. hist.timely => hist'.timely
      BY <1>4 DEF TxCompleteIrq
    <2> QED BY <1>4, <2>1, <2>2 DEF TxCompleteIrq
  <1>5. CASE TxAbortIrq
    BY <1>5, RetireGates DEF TxAbortIrq
  <1>6. CASE ForceLow
    BY <1>6 DEF ForceLow, AppType
  <1> QED BY <1>1, <1>2, <1>3, <1>4, <1>5, <1>6

(* The CAN task up to its last step.                                       *)
LEMMA TaskRide ==
  ASSUME TypeInv, CanTask, ~UpdateAuthority
  PROVE  RideSame
  <1> USE DEF TypeInv, TypeOK, RideSame
  <1>1. CASE CanWake \/ SecondPoll
    BY <1>1 DEF CanWake, SecondPoll, PollSnapshot, DevType
  <1>2. CASE PollEvent
    BY <1>2 DEF PollEvent, AppType, DevType
  <1>3. CASE PollRecover
    BY <1>3 DEF PollRecover, NoteLoad, AppType
  <1>4. CASE PollInhibited
    BY ZenonT(40), <1>4 DEF PollInhibited, NoteLoad, AppType
  <1>5. CASE PollHealthy
    <2>1. dev'.recent = dev.recent
      BY <1>5 DEF PollHealthy, DevType
    <2>2. /\ app'.state = app.state /\ app'.bms = app.bms
          /\ app'.recoveryActive = app.recoveryActive
          /\ app'.recoveryState = app.recoveryState
          /\ app'.epochAge = app.epochAge
      BY ZenonT(40), <1>5 DEF PollHealthy, NoteLoad, AppType
    <2> QED BY <1>5, <2>1, <2>2 DEF PollHealthy
  <1>6. CASE PollSettle \/ PollEpoch \/ PollCommit
    <2>1. /\ app'.state = app.state /\ app'.bms = app.bms
          /\ app'.recoveryActive = app.recoveryActive
          /\ app'.recoveryState = app.recoveryState
          /\ app'.epochAge = app.epochAge
      BY ZenonT(40), <1>6 DEF PollSettle, PollEpoch, PollCommit, AppType
    <2>2. dev'.recent = dev.recent
      BY <1>6 DEF PollSettle, PollEpoch, PollCommit, EpochReset, NoteBusOff,
                  DevType
    <2> QED BY <1>6, <2>1, <2>2 DEF PollSettle, PollEpoch, PollCommit
  <1>7. CASE Skip \/ FoldRead \/ FoldWrite
    BY <1>7 DEF Skip, FoldRead, FoldWrite, AppType
  <1>8. CASE Publish
    BY <1>8, PublishGates DEF Publish
  <1>9. CASE Resume
    BY <1>9, ResumeGates DEF Resume
  <1> QED BY <1>1, <1>2, <1>3, <1>4, <1>5, <1>6, <1>7, <1>8, <1>9 DEF CanTask

(* A supervisor that runs past the deadline believes a completion in time  *)
(* or latches, and with the latch the pin is low.                          *)
LEMMA SupervisorRide ==
  ASSUME TypeInv, LinkInv, RideInv,
         NEW inputsOk \in BOOLEAN, ErrorTask(inputsOk)
  PROVE  RideInv'
  <1> USE DEF TypeInv, TypeOK
  <1> DEFINE a == ApplyPolicy(app)
             b == inputsOk /\ BmsReady(a)
             startup == a.state = "START" /\ inputsOk /\ CanStartupReady(a)
  <1>1. /\ a \in AppType /\ a.state = app.state
        /\ a.recoveryActive = app.recoveryActive
        /\ a.recoveryState = app.recoveryState
        /\ a.epochAge = app.epochAge
    BY ApplyPolicyType DEF ApplyPolicy, AppType
  <1>2. a.latch = Unlatched => PolicyReason = Unlatched
    BY DEF ApplyPolicy, AppType, PolicyReason
  <1>3. app' = IF startup THEN [a EXCEPT !.state = "DISCHARGE",
                                         !.inTransition = FALSE, !.bms = FALSE]
                          ELSE [a EXCEPT !.bms = b]
    BY DEF ErrorTask
  <1>4. startup => ~app.recoveryActive
    BY <1>1 DEF CanStartupReady
  <1>5. b => a.latch = Unlatched /\ a.state # "START"
    BY DEF BmsReady, Operating
  <1>6. hist' = hist /\ b \in BOOLEAN
    BY DEF ErrorTask, BmsReady
  <1> HIDE DEF a, b, startup
  <1>7. CASE startup
    <2>1. /\ app'.state = "DISCHARGE" /\ ~app'.bms
          /\ app'.recoveryActive = app.recoveryActive
      BY ZenonT(40), <1>1, <1>3, <1>7 DEF AppType
    <2> QED BY <1>4, <1>7, <2>1 DEF RideInv, RideThroughIsBounded
  <1>8. CASE ~startup
    <2>1. /\ app'.state = app.state /\ app'.bms = b
          /\ app'.recoveryActive = app.recoveryActive
          /\ app'.recoveryState = app.recoveryState
          /\ app'.epochAge = app.epochAge
      BY ZenonT(40), <1>1, <1>3, <1>8 DEF AppType
    <2>2. ASSUME b, app.recoveryActive, ~(app.epochAge < Deadline)
          PROVE  hist.timely
      <3>1. DischargeEpoch
        BY <1>1, <1>5, <2>2 DEF RideInv, DischargeEpoch
      <3>2. DeadlinePassed
        BY <2>2, ConstantsAssumption
        DEF DeadlinePassed, AppType, ConstantsAssumption
      <3>3. PolicyReason = Unlatched
        BY <1>2, <1>5, <2>2
      <3>4. RecoveredInTime
        BY <3>1, <3>2, <3>3 DEF PolicyReason, DischargeEpoch, Unlatched
      <3> QED BY <3>1, <3>4 DEF RecoveredInTime, TransportSettled, LinkInv
    <2> QED BY <1>1, <1>5, <1>6, <2>1, <2>2 DEF RideInv, RideThroughIsBounded
  <1> QED BY <1>7, <1>8

(* Every step keeps the ride bounded.                                      *)
LEMMA RideStep ==
  ASSUME ServiceCommands = {}, TypeInv, LinkInv, RideInv, [Next]_vars
  PROVE  RideInv'
  <1> USE DEF TypeInv, TypeOK
  <1>1. CASE SceIrq
    <2>1. /\ app'.state = app.state /\ (app'.bms => app.bms)
          /\ app.recoveryActive => app'.recoveryState = app.recoveryState
          /\ ~app.recoveryActive => app'.recoveryState = app.state
      BY <1>1 DEF SceIrq, OpenEpoch, AppType
    <2>2. dev'.recent[RepeatLimit] = 0
      <3>1. /\ dev'.recent = PushEvent(dev.recent)
            /\ RepeatLimit \in 1..RepeatLimit
        BY <1>1, ConstantsAssumption DEF SceIrq, DevType, ConstantsAssumption
      <3> QED BY <3>1 DEF PushEvent
    <2> QED BY <2>1, <2>2 DEF RideInv, RideThroughIsBounded
  <1>2. CASE Supervise
    BY <1>2, SupervisorRide DEF Supervise
  <1>3. CASE Tick
    <2>1. /\ app'.state = app.state /\ app'.bms = app.bms
          /\ app'.recoveryActive = app.recoveryActive
          /\ app'.recoveryState = app.recoveryState
      BY ZenonT(40), <1>3 DEF Tick, AppType
    <2>2. due'.error
      BY <1>3 DEF Tick
    <2> QED BY <2>1, <2>2 DEF RideInv, RideThroughIsBounded
  <1>4. CASE UpdateAuthority
    <2>1. CASE app' = app /\ hist' = hist
      BY <1>4, <2>1, RideFrame DEF UpdateAuthority, RideSame
    <2>2. CASE app' = [app EXCEPT !.authority = FALSE] /\ hist' = hist
      <3>1. /\ app'.state = app.state /\ app'.bms = app.bms
            /\ app'.recoveryActive = app.recoveryActive
            /\ app'.recoveryState = app.recoveryState
            /\ app'.epochAge = app.epochAge
        BY <2>2 DEF AppType
      <3> QED BY <1>4, <2>2, <3>1, RideFrame DEF UpdateAuthority, RideSame
    <2>3. CASE app' = [app EXCEPT !.authority = TRUE, !.authRefresh = FALSE,
                                  !.recoveryActive = FALSE,
                                  !.recoveryState = NoState, !.epochAge = 0]
      <3>1. app'.state = app.state /\ app'.bms = app.bms /\ ~app'.recoveryActive
        BY ZenonT(40), <2>3 DEF AppType
      <3> QED BY <3>1 DEF RideInv, RideThroughIsBounded
    <2> QED BY <1>4, <2>1, <2>2, <2>3 DEF UpdateAuthority
  <1>5. CASE CanTask /\ ~UpdateAuthority
    BY <1>5, TaskRide, RideFrame
  <1>6. CASE Service
    <2>1. CASE StateFinish
      <3>1. /\ app'.state = app.state /\ app'.bms = app.bms
            /\ app'.recoveryActive = app.recoveryActive
            /\ app'.recoveryState = app.recoveryState
            /\ app'.epochAge = app.epochAge
        BY <2>1 DEF StateFinish, AppType
      <3> QED BY <2>1, <3>1, RideFrame DEF StateFinish, RideSame
    <2> QED BY <1>6, <2>1 DEF Service, RecoverBegin, RecoverRestart,
                              RecoverEpoch, RecoverCommit, StateBegin,
                              ServiceAt
  <1> QED BY <1>1, <1>2, <1>3, <1>4, <1>5, <1>6, WireRide, RideFrame DEF Next

(* BMS_OK rides through a bus-off only up to the deadline, in a build      *)
(* without the service command line.                                       *)
THEOREM RideThroughIsBoundedAlways ==
  ASSUME ServiceCommands = {}
  PROVE  Spec => []RideThroughIsBounded
  <1>1. Init => RideInv
    BY DEF Init, RideInv, RideThroughIsBounded
  <1>2. TypeInv /\ SoundInv /\ LinkInv /\ [Next]_vars
          => (TypeInv /\ SoundInv /\ LinkInv)'
    BY TypeStep, SoundStep, LinkStep
  <1>3. TypeInv /\ LinkInv /\ RideInv /\ [Next]_vars => RideInv'
    BY RideStep
  <1>4. RideInv => RideThroughIsBounded
    BY DEF RideInv
  <1> QED BY <1>1, <1>2, <1>3, <1>4, LinkInit, PTL DEF Spec
-----------------------------------------------------------------------------
(* The transmit gate.  A step may take one reason away from a shut gate    *)
(* only by putting another in its place.  The proof needs where each of    *)
(* them can be: a load error between its callback and the end of the poll  *)
(* that takes it, a recovery owed while the fault is pending, a bus-off    *)
(* the HAL remembers only under a standing fault.                          *)
PathInv ==
  /\ dev.consumed <= dev.seq
  /\ can.loadSeen => can.pc = "classify"
  /\ app.recoverPending => Owed
  /\ can.pc = "resume" => ~app.recoverPending

(* A commit is reached with the HAL's memory of the bus-off cleared, or    *)
(* a newer event makes it fail.                                            *)
BusInv ==
  /\ hw.busOff => hw.sce \/ app.busOffFault
  /\ "BOF" \in hw.error => app.busOffFault
  /\ can.pc \in {"epoch", "commit"} /\ can.recSeq = dev.seq
       => "BOF" \notin hw.error
  /\ cli.pc \in {"epoch", "commit"} /\ cli.seq = dev.seq
       => "BOF" \notin hw.error

(* The service recovery has emptied the queue and no bus-off came since:   *)
(* its commit will clear the bus-off fault, which by then explains no gate *)
(* on its own, whatever the CAN task did in between.                       *)
Answered == cli.pc = "commit" /\ cli.seq = dev.seq

AnsweredInv ==
  Answered => /\ hw.busOff => hw.sce
              /\ dev.inhibit => dev.refreshPending
              /\ app.busOffFault => Owed \/ hw.sce
              /\ can.pc = "resume" => ~app.busOffFault

GateInv == PathInv /\ BusInv /\ AnsweredInv

GateKept == GateInv' /\ (GateIsExplained => GateIsExplained')

(* All that the invariant reads of the gates but the load errors.          *)
GatesSame ==
  /\ dev'.seq = dev.seq /\ dev'.consumed = dev.consumed
  /\ dev'.inhibit = dev.inhibit
  /\ dev'.recoveryPending = dev.recoveryPending
  /\ dev'.refreshPending = dev.refreshPending
  /\ dev'.isrError = dev.isrError

(* A step of the pump: a failed load explains the gate it shuts.           *)
LEMMA PumpGate ==
  ASSUME GateInv, GatesSame,
         \/ /\ dev'.suspended = dev.suspended
            /\ dev'.loadError = dev.loadError
         \/ "load" \in Anomalies /\ dev'.suspended /\ dev'.loadError,
         UNCHANGED <<app, hw, can, cli>>
  PROVE  GateKept
  BY DEF GateInv, GateIsExplained, GateKept, PathInv, BusInv,
         Answered, AnsweredInv, Owed, LoadNoted, GatesSame

(* The transmit path and the controller.                                   *)
LEMMA WireGate ==
  ASSUME TypeInv, GateInv,
         \/ BusOff \/ AbomRecover \/ SoftError \/ Refill \/ WireSend
         \/ TxCompleteIrq \/ TxAbortIrq
  PROVE  GateKept
  <1> USE DEF TypeInv, TypeOK
  <1>1. CASE BusOff
    <2>1. UNCHANGED <<app, dev, can, cli>> /\ hw'.error = hw.error /\ hw'.sce
      BY <1>1 DEF BusOff
    <2> QED BY <2>1
            DEF GateInv, GateIsExplained, GateKept, PathInv, BusInv,
                Answered, AnsweredInv, Owed, LoadNoted
  <1>2. CASE AbomRecover
    <2>1. /\ UNCHANGED <<app, dev, can, cli>> /\ hw'.error = hw.error
          /\ hw'.sce = hw.sce /\ ~hw'.busOff
      BY <1>2 DEF AbomRecover
    <2> QED BY <2>1
            DEF GateInv, GateIsExplained, GateKept, PathInv, BusInv,
                Answered, AnsweredInv, Owed, LoadNoted
  <1>3. CASE SoftError
    <2>1. /\ UNCHANGED <<app, can, cli>> /\ hw'.sce = hw.sce
          /\ hw'.busOff = hw.busOff
          /\ "BOF" \in hw'.error <=> "BOF" \in hw.error
      BY <1>3 DEF SoftError
    <2>2. /\ dev'.seq = dev.seq /\ dev'.consumed = dev.consumed
          /\ dev'.inhibit = dev.inhibit /\ dev'.loadError = dev.loadError
          /\ dev'.recoveryPending = dev.recoveryPending
          /\ dev'.refreshPending = dev.refreshPending
          /\ dev'.suspended => dev.suspended \/ "BOF" \in hw.error
      BY <1>3 DEF SoftError, DevType
    <2> QED BY <2>1, <2>2
            DEF GateInv, GateIsExplained, GateKept, PathInv, BusInv,
                Answered, AnsweredInv, Owed, LoadNoted
  <1>4. CASE Refill
    <2>1. GatesSame
      BY <1>4, KickGates DEF Refill, GatesSame
    <2> QED BY <1>4, <2>1, KickGates, PumpGate DEF Refill
  <1>5. CASE WireSend
    BY <1>5, PumpGate DEF WireSend, GatesSame
  <1>6. CASE TxCompleteIrq
    <2>1. GatesSame
      BY <1>6, CompleteGates DEF GatesSame
    <2> QED BY <1>6, <2>1, CompleteGates, PumpGate DEF TxCompleteIrq
  <1>7. CASE TxAbortIrq
    <2>1. GatesSame
      BY <1>7, RetireGates DEF TxAbortIrq, GatesSame
    <2> QED BY <1>7, <2>1, RetireGates, PumpGate DEF TxAbortIrq
  <1> QED BY <1>1, <1>2, <1>3, <1>4, <1>5, <1>6, <1>7

(* The bus-off interrupt: the fault stands from here on, and every answer  *)
(* in progress is one event late.                                          *)
LEMMA SceGate ==
  ASSUME TypeInv, LinkInv, GateInv, SceIrq
  PROVE  GateKept
  <1> USE DEF TypeInv, TypeOK
  <1>1. /\ app'.busOffFault /\ app'.recoverPending = app.recoverPending
        /\ UNCHANGED <<can, cli>>
    BY DEF SceIrq, OpenEpoch, AppType
  <1>2. /\ dev'.seq = dev.seq + 1 /\ dev'.consumed = dev.consumed
        /\ dev'.recoveryPending = dev.recoveryPending
        /\ dev'.refreshPending = dev.refreshPending
        /\ dev'.loadError = dev.loadError
        /\ dev'.isrError = dev.isrError \cup hw.error \cup {"BOF"}
        /\ hw'.error = hw.error \cup {"BOF"}
    BY DEF SceIrq, DevType
  <1>3. /\ dev.consumed <= dev.seq => dev.consumed # dev'.seq
        /\ dev.consumed <= dev.seq => dev.consumed <= dev'.seq
        /\ cli.seq # dev'.seq /\ can.recSeq # dev'.seq
    BY <1>2, ConstantsAssumption
    DEF LinkInv, DevType, CanType, ConstantsAssumption
  <1>4. GateIsExplained' /\ PathInv'
    BY <1>1, <1>2, <1>3
    DEF GateInv, GateIsExplained, PathInv, Owed, LoadNoted
  <1>5. BusInv' /\ ~Answered'
    BY <1>1, <1>3 DEF BusInv, Answered
  <1> QED BY <1>4, <1>5 DEF GateInv, GateKept, AnsweredInv

(* Tasks other than the CAN task and service, and the clock.               *)
LEMMA OtherGate ==
  ASSUME TypeInv, GateInv,
         Supervise \/ ForceLow \/ Tick \/ UNCHANGED vars
  PROVE  GateKept
  <1> USE DEF TypeInv, TypeOK
  <1>1. /\ app'.busOffFault = app.busOffFault
        /\ app'.recoverPending = app.recoverPending
    <2>1. CASE Supervise
      <3>1. PICK inputsOk \in BOOLEAN : ErrorTask(inputsOk)
        BY <2>1 DEF Supervise
      <3> DEFINE a == ApplyPolicy(app)
      <3>2. /\ a \in AppType /\ a.busOffFault = app.busOffFault
            /\ a.recoverPending = app.recoverPending
        BY ApplyPolicyType DEF ApplyPolicy, AppType
      <3>3. \/ app' = [a EXCEPT !.state = "DISCHARGE", !.inTransition = FALSE,
                                !.bms = FALSE]
            \/ app' = [a EXCEPT !.bms = inputsOk /\ BmsReady(a)]
        BY <3>1 DEF ErrorTask
      <3> HIDE DEF a
      <3> QED BY ZenonT(40), <3>2, <3>3 DEF AppType
    <2>2. CASE ForceLow \/ Tick \/ UNCHANGED vars
      BY ZenonT(40), <2>2 DEF ForceLow, Tick, vars, AppType
    <2> QED BY <2>1, <2>2
  <1>2. /\ GatesSame /\ dev'.suspended = dev.suspended
        /\ dev'.loadError = dev.loadError /\ UNCHANGED <<hw, can, cli>>
    BY DEF Supervise, ErrorTask, ForceLow, Tick, vars, DevType, GatesSame
  <1> QED BY <1>1, <1>2
          DEF GateInv, GateIsExplained, GateKept, PathInv, BusInv,
              Answered, AnsweredInv, Owed, LoadNoted, GatesSame

(* A poll leaves its snapshot behind: no load error is still to be dealt   *)
(* with, and it goes on in the middle of the cycle or at its end.          *)
LEMMA AfterPollClears ==
  ASSUME can \in CanType, AfterPoll
  PROVE  /\ can'.pc \in {"decide", "fold"} /\ ~can'.loadSeen
         /\ can'.err = {}
  BY DEF AfterPoll, CanType

(* The snapshot: a load error passes from the callback to the poll, and a  *)
(* bus-off the poll can see without its event has a standing fault.        *)
LEMMA SnapshotGate ==
  ASSUME TypeInv, GateInv, CanWake \/ SecondPoll
  PROVE  GateKept
  <1> USE DEF TypeInv, TypeOK
  <1>1. PICK pass \in {1, 2} : PollSnapshot(pass)
    BY DEF CanWake, SecondPoll
  <1>2. /\ can'.pc = "classify" /\ can'.loadSeen = dev.loadError
        /\ can'.err = hw.error \cup dev.isrError
        /\ can'.event <=> dev.seq # dev.consumed
    BY <1>1 DEF PollSnapshot, CanType
  <1>3. /\ dev'.seq = dev.seq /\ dev'.consumed = dev.seq
        /\ dev'.inhibit = dev.inhibit /\ dev'.suspended = dev.suspended
        /\ dev'.recoveryPending = dev.recoveryPending
        /\ dev'.refreshPending = dev.refreshPending
        /\ ~dev'.loadError /\ dev'.isrError = {}
    BY <1>1 DEF PollSnapshot, DevType
  <1>4. UNCHANGED <<app, hw, cli>>
    BY <1>1 DEF PollSnapshot
  <1>5. ~can.loadSeen
    BY DEF CanWake, SecondPoll, At, GateInv, PathInv
  <1>6. /\ GateIsExplained => GateIsExplained'
        /\ BusInv' /\ AnsweredInv'
    BY <1>2, <1>3, <1>4, <1>5
    DEF GateInv, GateIsExplained, BusInv, Answered, AnsweredInv, Owed,
        LoadNoted
  <1>7. dev'.consumed <= dev'.seq
    BY <1>3, ConstantsAssumption DEF DevType, ConstantsAssumption
  <1>8. PathInv'
    BY <1>2, <1>3, <1>4, <1>7 DEF GateInv, PathInv, Owed
  <1> QED BY <1>6, <1>8 DEF GateInv, GateKept

(* The branches of a poll after the snapshot.                              *)
LEMMA ClassifyGate ==
  ASSUME TypeInv, GateInv,
         PollEvent \/ PollRecover \/ PollInhibited \/ PollHealthy
  PROVE  /\ GateInv'
         /\ GateIsExplained => GateIsExplained' \/ ForgetsLoad
  <1> USE DEF TypeInv, TypeOK
  <1>0. can.pc = "classify"
    BY DEF PollEvent, PollRecover, PollInhibited, PollHealthy, At
  <1>1. CASE PollEvent
    <2>1. /\ can'.pc \in {"decide", "fold"} /\ ~can'.loadSeen
          /\ can'.err = {}
      BY <1>1, AfterPollClears DEF PollEvent
    <2>2. app'.busOffFault /\ app'.recoverPending /\ UNCHANGED <<hw, cli>>
      BY <1>1 DEF PollEvent, AppType
    <2>3. /\ dev'.seq = dev.seq /\ dev'.consumed = dev.consumed
          /\ dev'.inhibit = dev.inhibit /\ dev'.recoveryPending
          /\ dev'.refreshPending = dev.refreshPending
          /\ dev'.loadError = dev.loadError /\ dev'.isrError = dev.isrError
      BY <1>1 DEF PollEvent, DevType
    <2> QED BY <2>1, <2>2, <2>3
            DEF GateInv, GateIsExplained, GateKept, PathInv, BusInv,
                Answered, AnsweredInv, Owed, LoadNoted
  <1>2. CASE PollRecover
    <2>1. /\ can'.pc = "settle" /\ can'.err = {} /\ ~can'.loadSeen
          /\ can.event = can'.event
      BY <1>2 DEF PollRecover, CanType
    <2>2. app'.busOffFault = app.busOffFault /\ app'.recoverPending
          /\ UNCHANGED <<dev, hw, cli>>
      BY <1>2 DEF PollRecover, NoteLoad, AppType
    <2>3. Owed
      BY <1>2 DEF PollRecover, RecoveryOwed, GateInv, PathInv, Owed
    <2> QED BY <2>1, <2>2, <2>3
            DEF GateInv, GateIsExplained, GateKept, PathInv, BusInv,
                Answered, AnsweredInv, Owed, LoadNoted
  <1>3. CASE PollInhibited
    <2>1. /\ can'.pc \in {"decide", "fold"} /\ ~can'.loadSeen
          /\ can'.err = {}
      BY <1>3, AfterPollClears DEF PollInhibited
    <2>2. app'.busOffFault /\ app'.recoverPending = app.recoverPending
          /\ UNCHANGED <<dev, hw, cli>> /\ dev.inhibit
      BY <1>3 DEF PollInhibited, NoteLoad, AppType
    <2> QED BY <2>1, <2>2
            DEF GateInv, GateIsExplained, GateKept, PathInv, BusInv,
                Answered, AnsweredInv, Owed, LoadNoted
  <1>4. CASE PollHealthy
    <2> DEFINE err == can.err # {} \/ hw.busOff
    <2>1. /\ can'.pc \in {"decide", "fold"} /\ ~can'.loadSeen
          /\ can'.err = {}
      BY <1>4, AfterPollClears DEF PollHealthy
    <2>2. /\ app'.busOffFault = app.busOffFault
          /\ app'.recoverPending = app.recoverPending
      BY ZenonT(40), <1>4 DEF PollHealthy, NoteLoad, AppType
    <2>3. /\ GatesSame /\ dev'.loadError = dev.loadError
          /\ dev'.suspended => dev.suspended /\ ~ReopenGate(err)
      BY <1>4 DEF PollHealthy, DevType, GatesSame
    <2>4. /\ hw'.busOff = hw.busOff /\ hw'.sce = hw.sce
          /\ hw'.error \subseteq hw.error /\ cli' = cli
      BY <1>4 DEF PollHealthy
    <2>5. ~can.event
      BY <1>4 DEF PollHealthy
    <2>6. ASSUME dev'.suspended, can.loadSeen, ~Owed
          PROVE  ForgetsLoad
      BY <1>4, <2>3, <2>6 DEF ReopenGate, Owed, ForgetsLoad
    <2> HIDE DEF err
    <2>7. /\ GateIsExplained => GateIsExplained' \/ ForgetsLoad
          /\ AnsweredInv'
      BY <2>1, <2>2, <2>3, <2>4, <2>6
      DEF GateInv, GateIsExplained, Answered, AnsweredInv, Owed, LoadNoted,
          GatesSame
    <2>8. PathInv' /\ BusInv'
      BY <2>1, <2>2, <2>3, <2>4
      DEF GateInv, PathInv, BusInv, Owed,
          GatesSame
    <2> QED BY <2>7, <2>8 DEF GateInv
  <1> QED BY <1>1, <1>2, <1>3, <1>4

(* The recovery of the CAN task.                                           *)
LEMMA RecoverGate ==
  ASSUME TypeInv, SoundInv, LinkInv, GateInv,
         PollSettle \/ PollEpoch \/ PollCommit
  PROVE  GateKept
  <1> USE DEF TypeInv, TypeOK
  <1>1. CASE PollSettle
    <2>1. /\ \/ can'.pc = "epoch" /\ hw'.error = {}
             \/ can'.pc \in {"decide", "fold"} /\ hw'.error = hw.error
          /\ ~can'.loadSeen
      <3>1. CASE AfterPoll /\ hw' = hw
        BY <3>1, AfterPollClears
      <3>2. CASE can' = [can EXCEPT !.pc = "epoch"]
                 /\ hw' = [hw EXCEPT !.error = {}]
        BY <1>1, <3>2 DEF PollSettle, At, CanType, GateInv, PathInv
      <3> QED BY <1>1, <3>1, <3>2 DEF PollSettle
    <2>2. /\ hw'.busOff = hw.busOff /\ hw'.sce = hw.sce
          /\ hw'.error \subseteq hw.error /\ UNCHANGED <<dev, cli>>
      BY <1>1 DEF PollSettle
    <2>3. /\ app'.busOffFault = app.busOffFault
          /\ app'.recoverPending = app.recoverPending
      BY ZenonT(40), <1>1 DEF PollSettle, AppType
    <2>4. can'.err \subseteq can.err
      BY <1>1, AfterPollClears DEF PollSettle, CanType
    <2>5. ~can.loadSeen
      BY <1>1 DEF PollSettle, At, GateInv, PathInv
    <2> QED BY <2>1, <2>2, <2>3, <2>4, <2>5
            DEF GateInv, GateIsExplained, GateKept, PathInv, BusInv,
                Answered, AnsweredInv, Owed, LoadNoted
  <1>2. CASE PollEpoch
    <2>0. UNCHANGED <<hw, cli>> /\ can.pc = "epoch" /\ ~can.loadSeen
      BY <1>2 DEF PollEpoch, At, GateInv, PathInv
    <2>1. CASE EpochMayReset(can.recSeq)
      <3>1. /\ EpochReset /\ app' = app
            /\ can' = [can EXCEPT !.pc = "commit"]
        BY <1>2, <2>1 DEF PollEpoch
      <3>2. /\ dev'.seq = dev.seq /\ dev'.consumed = dev.consumed
            /\ dev'.inhibit = dev.inhibit /\ dev'.refreshPending
            /\ dev'.loadError = dev.loadError /\ dev'.isrError = dev.isrError
        BY <3>1 DEF EpochReset, DevType
      <3>3. /\ can'.pc = "commit" /\ can'.recSeq = can.recSeq
            /\ can'.err = can.err /\ ~can'.loadSeen
        BY <2>0, <3>1 DEF CanType
      <3> QED BY <2>0, <3>1, <3>2, <3>3
              DEF GateInv, GateIsExplained, GateKept, PathInv, BusInv,
                  Answered, AnsweredInv, Owed, LoadNoted
    <2>2. CASE ~EpochMayReset(can.recSeq)
      <3>1. /\ can'.pc \in {"decide", "fold"} /\ ~can'.loadSeen
            /\ can'.err = {} /\ dev' = dev
        BY <1>2, <2>2, AfterPollClears DEF PollEpoch
      <3>2. /\ app'.busOffFault = app.busOffFault
            /\ app'.recoverPending = app.recoverPending
        BY ZenonT(40), <1>2 DEF PollEpoch, AppType
      <3> QED BY <2>0, <3>1, <3>2
              DEF GateInv, GateIsExplained, GateKept, PathInv, BusInv,
                  Answered, AnsweredInv, Owed, LoadNoted
    <2> QED BY <2>1, <2>2
  <1>3. CASE PollCommit
    <2>0. /\ UNCHANGED <<hw, cli>> /\ can.pc = "commit" /\ ~can.loadSeen
          /\ dev.refreshPending
      BY <1>3 DEF PollCommit, At, GateInv, PathInv, SoundInv
    <2>1. /\ can'.pc \in {"decide", "fold"} /\ ~can'.loadSeen
          /\ can'.err = {}
      BY <1>3, AfterPollClears DEF PollCommit
    <2>2. CASE CommitStands(can.recSeq)
      <3>1. /\ dev' = dev /\ ~hw.busOff /\ "BOF" \notin hw.error
            /\ ~app'.recoverPending
        <4>1. "BOF" \notin hw.error /\ ~hw.busOff
          BY <2>0, <2>2 DEF CommitStands, GateInv, BusInv
        <4>2. ~app'.recoverPending
          BY ZenonT(40), <1>3, <2>2 DEF PollCommit, AppType
        <4> QED BY <1>3, <2>2, <4>1, <4>2 DEF PollCommit
      <3> QED BY <2>0, <2>1, <3>1
              DEF GateInv, GateIsExplained, GateKept, PathInv, BusInv,
                  Answered, AnsweredInv, Owed, LoadNoted
    <2>3. CASE ~CommitStands(can.recSeq)
      <3>1. NoteBusOff /\ app'.busOffFault
        BY ZenonT(40), <1>3, <2>3 DEF PollCommit, AppType
      <3>2. /\ dev'.seq = dev.seq /\ dev'.consumed = dev.consumed
            /\ dev'.inhibit = dev.inhibit /\ dev'.recoveryPending
            /\ dev'.refreshPending = dev.refreshPending
            /\ dev'.loadError = dev.loadError /\ dev'.isrError = dev.isrError
        BY <3>1 DEF NoteBusOff, DevType
      <3> QED BY <2>0, <2>1, <3>1, <3>2
              DEF GateInv, GateIsExplained, GateKept, PathInv, BusInv,
                  Answered, AnsweredInv, Owed, LoadNoted
    <2> QED BY <2>2, <2>3
  <1> QED BY <1>1, <1>2, <1>3

(* The middle and the end of the cycle: the gate is opened by the refresh, *)
(* and only where no recovery is pending.                                  *)
LEMMA CycleGate ==
  ASSUME TypeInv, GateInv,
         \/ Skip \/ Publish \/ Resume \/ FoldRead \/ FoldWrite
         \/ UpdateAuthority
  PROVE  GateKept
  <1> USE DEF TypeInv, TypeOK
  <1>0. ~can.loadSeen /\ UNCHANGED <<hw, cli>> /\ can.pc # "classify"
    BY DEF Skip, Publish, Resume, FoldRead, FoldWrite, UpdateAuthority, At,
           GateInv, PathInv
  <1>1. CASE Skip \/ FoldRead \/ FoldWrite \/ UpdateAuthority
    <2>1. /\ app'.busOffFault = app.busOffFault
          /\ app'.recoverPending = app.recoverPending
      <3>1. CASE Skip \/ FoldRead \/ FoldWrite
        BY <3>1 DEF Skip, FoldRead, FoldWrite, AppType
      <3>2. CASE UpdateAuthority
        BY ZenonT(40), <3>2 DEF UpdateAuthority, AppType
      <3> QED BY <1>1, <3>1, <3>2
    <2>2. /\ can'.pc \in {"idle", "store", "grant"} /\ ~can'.loadSeen
          /\ can'.err \subseteq can.err
      <3>1. CASE Skip \/ UpdateAuthority
        BY <3>1 DEF Skip, UpdateAuthority, CanIdle
      <3>2. CASE FoldRead \/ FoldWrite
        BY ZenonT(40), <1>0, <3>2 DEF FoldRead, FoldWrite, CanType
      <3> QED BY <1>1, <3>1, <3>2
    <2>3. dev' = dev
      BY <1>1 DEF Skip, FoldRead, FoldWrite, UpdateAuthority
    <2> QED BY <1>0, <2>1, <2>2, <2>3
            DEF GateInv, GateIsExplained, GateKept, PathInv, BusInv,
                Answered, AnsweredInv, Owed, LoadNoted
  <1>2. CASE Publish
    <2>1. /\ can'.pc = "resume" /\ ~can'.loadSeen /\ can'.err = can.err
          /\ app' = app /\ ~app.recoverPending /\ ~app.busOffFault
      BY <1>0, <1>2 DEF Publish, CycleSkipped, CanType
    <2>2. /\ GatesSame
          /\ \/ dev' = dev
             \/ "load" \in Anomalies /\ dev'.suspended /\ dev'.loadError
      BY <1>2, PublishGates DEF GatesSame
    <2> QED BY <1>0, <2>1, <2>2
            DEF GateInv, GateIsExplained, GateKept, PathInv, BusInv,
                Answered, AnsweredInv, Owed, LoadNoted, GatesSame
  <1>3. CASE Resume
    <2>1. /\ can'.pc = "poll" /\ ~can'.loadSeen /\ can'.err = can.err
          /\ app' = app /\ ~app.recoverPending /\ can.pc = "resume"
      BY <1>0, <1>3 DEF Resume, At, GateInv, PathInv, CanType
    <2>2. /\ dev'.seq = dev.seq /\ dev'.consumed = dev.consumed
          /\ dev'.inhibit = dev.inhibit /\ dev'.isrError = dev.isrError
          /\ dev'.recoveryPending = dev.recoveryPending
          /\ \/ dev' = dev
             \/ "load" \in Anomalies /\ dev'.suspended /\ dev'.loadError
             \/ ~dev'.suspended /\ dev'.loadError = dev.loadError
          /\ \/ dev'.refreshPending = dev.refreshPending
             \/ ~dev.inhibit
      BY <1>3, ResumeGates
    <2>3. /\ GateIsExplained => GateIsExplained'
          /\ AnsweredInv'
      BY <1>0, <2>1, <2>2
      DEF GateInv, GateIsExplained, PathInv, Answered, AnsweredInv, Owed,
          LoadNoted
    <2>4. PathInv' /\ BusInv'
      BY <1>0, <2>1, <2>2
      DEF GateInv, PathInv, BusInv, Owed
    <2> QED BY <2>3, <2>4 DEF GateInv, GateKept
  <1> QED BY <1>1, <1>2, <1>3

(* The service recovery.  The CAN task rests, so no poll is in between.    *)
LEMMA ServiceGate ==
  ASSUME TypeInv, GateInv, Service
  PROVE  GateKept
  <1> USE DEF TypeInv, TypeOK
  <1>0. can' = can /\ can.pc = "idle" /\ ~can.loadSeen
    BY DEF Service, RecoverBegin, RecoverRestart, RecoverEpoch,
           RecoverCommit, StateBegin, StateFinish, ServiceAt, At, GateInv,
           PathInv
  <1>1. CASE RecoverBegin \/ (RecoverCommit /\ ~CommitStands(cli.seq))
    <2>1. /\ NoteBusOff /\ UNCHANGED <<app, hw>>
          /\ cli'.pc \in {"idle", "restart"}
      BY <1>1 DEF RecoverBegin, RecoverCommit, CliIdle
    <2>2. /\ dev'.seq = dev.seq /\ dev'.consumed = dev.consumed
          /\ dev'.inhibit = dev.inhibit /\ dev'.recoveryPending
          /\ dev'.refreshPending = dev.refreshPending
          /\ dev'.loadError = dev.loadError /\ dev'.isrError = dev.isrError
      BY <2>1 DEF NoteBusOff, DevType
    <2> QED BY <1>0, <2>1, <2>2
            DEF GateInv, GateIsExplained, GateKept, PathInv, BusInv,
                Answered, AnsweredInv, Owed, LoadNoted
  <1>2. CASE \E ok \in BOOLEAN : RecoverRestart(ok)
    <2>1. /\ hw'.error = {} /\ hw'.busOff = hw.busOff /\ hw'.sce = hw.sce
          /\ app' = app /\ cli'.pc \in {"idle", "epoch"}
      BY <1>2 DEF RecoverRestart, CliIdle
    <2>2. /\ GatesSame /\ dev'.suspended = dev.suspended
          /\ dev'.loadError = dev.loadError
      BY <1>2 DEF RecoverRestart, DevType, GatesSame
    <2> QED BY <1>0, <2>1, <2>2
            DEF GateInv, GateIsExplained, GateKept, PathInv, BusInv,
                Answered, AnsweredInv, Owed, LoadNoted, GatesSame
  <1>3. CASE RecoverEpoch
    <2>1. CASE EpochMayReset(cli.seq)
      <3>1. /\ EpochReset /\ UNCHANGED <<app, hw>> /\ ~hw.busOff
            /\ cli'.pc = "commit" /\ cli'.seq = cli.seq
            /\ cli.pc = "epoch" /\ cli.seq = dev.seq
        BY <1>3, <2>1
        DEF RecoverEpoch, EpochMayReset, Settled, ServiceAt
      <3>2. /\ dev'.seq = dev.seq /\ dev'.consumed = dev.consumed
            /\ dev'.inhibit = dev.inhibit /\ dev'.refreshPending
            /\ dev'.loadError = dev.loadError /\ dev'.isrError = dev.isrError
        BY <3>1 DEF EpochReset, DevType
      <3> QED BY <1>0, <3>1, <3>2
              DEF GateInv, GateIsExplained, GateKept, PathInv, BusInv,
                  Answered, AnsweredInv, Owed, LoadNoted
    <2>2. CASE ~EpochMayReset(cli.seq)
      <3>1. UNCHANGED <<app, hw, dev>> /\ cli'.pc = "idle"
        BY <1>3, <2>2 DEF RecoverEpoch, CliIdle
      <3> QED BY <1>0, <3>1
              DEF GateInv, GateIsExplained, GateKept, PathInv, BusInv,
                  Answered, AnsweredInv, Owed, LoadNoted
    <2> QED BY <2>1, <2>2
  <1>4. CASE RecoverCommit /\ CommitStands(cli.seq)
    <2>1. Answered /\ ~hw.busOff /\ hw' = hw /\ cli'.pc = "idle"
      BY <1>4 DEF RecoverCommit, CommitStands, ServiceAt, Answered, CliIdle
    <2>2. /\ dev'.seq = dev.seq /\ dev'.consumed = dev.consumed
          /\ dev'.suspended = dev.suspended
          /\ dev'.recoveryPending = dev.recoveryPending
          /\ dev'.refreshPending = dev.refreshPending
          /\ dev'.loadError = dev.loadError /\ dev'.isrError = dev.isrError
      <3>1. dev' = [dev EXCEPT !.inhibit = FALSE, !.recent = NoEvents]
        BY <1>4 DEF RecoverCommit
      <3> QED BY <3>1 DEF DevType
    <2>3. ~app'.recoverPending
      BY ZenonT(40), <1>4 DEF RecoverCommit, AppType
    <2> QED BY <1>0, <2>1, <2>2, <2>3
            DEF GateInv, GateIsExplained, GateKept, PathInv, BusInv,
                Answered, AnsweredInv, Owed, LoadNoted
  <1>5. CASE StateFinish
             \/ \E command \in {"charge", "discharge"} : StateBegin(command)
    <2>1. /\ app'.busOffFault = app.busOffFault
          /\ app'.recoverPending = app.recoverPending
      BY ZenonT(40), <1>5 DEF StateFinish, StateBegin, AppType
    <2>2. UNCHANGED <<dev, hw>> /\ cli'.pc \in {"idle", "clear"}
      BY <1>5 DEF StateFinish, StateBegin, CliIdle
    <2> QED BY <1>0, <2>1, <2>2
            DEF GateInv, GateIsExplained, GateKept, PathInv, BusInv,
                Answered, AnsweredInv, Owed, LoadNoted
  <1> QED BY <1>1, <1>2, <1>3, <1>4, <1>5 DEF Service

(* Every step but the one poll keeps the gate explained.                   *)
LEMMA GateStep ==
  ASSUME TypeInv, SoundInv, LinkInv, GateInv, [Next]_vars
  PROVE  /\ GateInv'
         /\ GateIsExplained => GateIsExplained' \/ ForgetsLoad
  <1>1. CASE CanTask
    BY <1>1, SnapshotGate, ClassifyGate, RecoverGate, CycleGate
    DEF CanTask, GateKept
  <1> QED BY <1>1, WireGate, SceGate, OtherGate, ServiceGate
          DEF Next, GateKept

(* The transmit gate loses the reason it is shut for only in the poll that *)
(* takes a load error together with another error, whatever errors meet.   *)
THEOREM GateStaysExplainedAlways == Spec => GateStaysExplained
  <1>1. Init => GateInv
    BY DEF Init, CanIdle, CliIdle, GateInv, PathInv, BusInv, Answered,
           AnsweredInv
  <1>2. TypeInv /\ SoundInv /\ LinkInv /\ [Next]_vars
          => (TypeInv /\ SoundInv /\ LinkInv)'
    BY TypeStep, SoundStep, LinkStep
  <1>3. TypeInv /\ SoundInv /\ LinkInv /\ GateInv /\ [Next]_vars => GateInv'
    BY GateStep
  <1>4. TypeInv /\ SoundInv /\ LinkInv /\ GateInv /\ [Next]_vars
          => [GateIsExplained => GateIsExplained' \/ ForgetsLoad]_vars
    BY GateStep
  <1> QED BY <1>1, <1>2, <1>3, <1>4, LinkInit, PTL
          DEF Spec, GateStaysExplained
=============================================================================
