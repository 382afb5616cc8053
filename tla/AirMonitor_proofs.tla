------------------------- MODULE AirMonitor_proofs -------------------------
(***************************************************************************)
(* The contactor evaluator keeps the promise of ContactorPermission for    *)
(* every configuration, whatever is sampled and however late it runs.      *)
(*                                                                         *)
(* The argument is about what one evaluation hands on.  While the          *)
(* contactors are energised and were once proven open, either a fault is   *)
(* latched or permission and the authority to move on are both there; so   *)
(* permission cannot come back in PRECHARGE or RUN.                        *)
(***************************************************************************)
EXTENDS AirMonitor, TLAPS

(* Permission and authority go together while energised.                   *)
Guarded(m) ==
  /\ m.phase = "UNKNOWN" => ~m.bootOpen /\ ~m.authorized
  /\ m.phase = "SHUTDOWN" => ~m.authorized
  /\ Supervised(m) /\ ~m.latched => m.permit /\ m.authorized
  /\ m.bootOpen => config # NoConfig /\ AllDebounced(m)

(* A judgement that finds nothing has every contact in time.               *)
Judged(m) == m.feedback /\ ~m.active => InTime(m)

Inv == TypeOK /\ PermitIsReady /\ PermitIsInTime /\ Guarded(mon)

(* The last evaluation was a steady precharge, complete if the voltages    *)
(* can tell.                                                               *)
Precharged ==
  /\ mon.phase = "PRECHARGE" /\ mon.steady /\ mon.permit
  /\ config.bus => mon.complete

(* What the stages of an evaluation hand on until it is decided: a fault   *)
(* seen under supervision is latched, and authority is there unless a      *)
(* fault is latched.                                                       *)
Staged(m) ==
  /\ m \in MonType /\ m.phase \in Phases
  /\ m.phase = "SHUTDOWN" => ~m.authorized
  /\ Supervised(m) /\ ~m.latched => m.authorized /\ ~m.active
  /\ m.bootOpen => AllDebounced(m)
  /\ ~m.permit

(* The samples an evaluation gets to see.                                  *)
LEMMA InputType ==
  ASSUME NEW in \in Inputs, in.command # "lost"
  PROVE  /\ in.command \in Phases
         /\ in.contact \in Samples
  <1>1. in \notin {LostInput}
    BY DEF LostInput
  <1>2. in \in Inputs \ {LostInput} =>
          \E c, l : in \in Acquired(c, l)
    <2>1. CASE config.bus
      BY <2>1 DEF Inputs
    <2>2. CASE ~config.bus
      BY <2>2 DEF Inputs
    <2> QED BY <2>1, <2>2
  <1>3. PICK c, l : in \in Acquired(c, l)
    BY <1>1, <1>2
  <1> QED BY <1>3 DEF Acquired

(* An accepted configuration is a configuration.                           *)
LEMMA ConfigIsTyped ==
  ASSUME config \in Configs
  PROVE  config \in ConfigType /\ config # NoConfig
  BY ConstantsAssumption DEF ConstantsAssumption

(* Ages stay within their bound.                                           *)
LEMMA OlderType ==
  ASSUME NEW most \in 0..Horizon, NEW age \in 0..Horizon, NEW d \in Nat
  PROVE  Older(age, d, most) \in 0..Horizon
  BY ConstantsAssumption DEF ConstantsAssumption, Older

(* Dropping the outputs leaves the phase, the proof and the latch alone.   *)
LEMMA ResetFacts ==
  ASSUME NEW m \in MonType, NEW d \in Lags, config \in Configs \cup {NoConfig}
  PROVE  /\ Reset(m, d) \in MonType
         /\ Reset(m, d).phase = m.phase
         /\ Reset(m, d).bootOpen = m.bootOpen
         /\ Reset(m, d).authorized = m.authorized
         /\ Reset(m, d).latched = m.latched
         /\ ~Reset(m, d).active /\ ~Reset(m, d).permit
         /\ ~Reset(m, d).feedback
         /\ \A k \in Contacts :
              Reset(m, d).filter[k].debounced = m.filter[k].debounced
  <1>1. d \in Nat
    BY ConstantsAssumption DEF ConstantsAssumption
  <1>2. Settled \in 0..Horizon
    BY ConfigIsTyped, ConstantsAssumption
    DEF Settled, ConfigType, ConstantsAssumption
  <1>3. Horizon \in 0..Horizon
    BY ConstantsAssumption DEF ConstantsAssumption
  <1>4. m.age \in 0..Horizon /\ m.filter \in [Contacts -> Filter]
    BY DEF MonType
  <1>5. \A k \in Contacts : /\ AgedFilter(m.filter[k], d) \in Filter
                            /\ AgedFilter(m.filter[k], d).debounced
                                 = m.filter[k].debounced
    <2>1. SUFFICES ASSUME NEW f \in Filter
                   PROVE  /\ AgedFilter(f, d) \in Filter
                          /\ AgedFilter(f, d).debounced = f.debounced
      BY <1>4
    <2>2. CASE f = NoFilter
      BY <2>2 DEF AgedFilter
    <2>3. CASE f # NoFilter
      <3>1. Older(f.age, d, Settled) \in 0..Horizon
        BY <1>1, <1>2, OlderType DEF Filter
      <3>2. AgedFilter(f, d) = [f EXCEPT !.age = Older(f.age, d, Settled)]
        BY <2>3 DEF AgedFilter
      <3> QED BY <3>1, <3>2 DEF Filter
    <2> QED BY <2>2, <2>3
  <1>6. Older(m.age, d, Horizon) \in 0..Horizon
    BY <1>1, <1>3, <1>4, OlderType
  <1>7. [k \in Contacts |-> AgedFilter(m.filter[k], d)]
          \in [Contacts -> Filter]
    BY <1>5
  <1> QED BY <1>5, <1>6, <1>7 DEF Reset, MonType

(* Finalizing only withdraws permission.                                   *)
LEMMA FinalizeFacts ==
  ASSUME NEW m \in MonType, NEW n, n = Finalize(m)
  PROVE  /\ n \in MonType
         /\ n.permit = (m.permit /\ ~m.active /\ ~m.latched)
         /\ n.phase = m.phase /\ n.age = m.age
         /\ n.bootOpen = m.bootOpen /\ n.authorized = m.authorized
         /\ n.latched = m.latched /\ n.active = m.active
         /\ n.feedback = m.feedback /\ n.steady = m.steady
         /\ n.pending = m.pending /\ n.filter = m.filter
  BY DEF Finalize, MonType

(* Marking raises the two fault flags and nothing else.                    *)
LEMMA MarkFacts ==
  ASSUME NEW m \in MonType, NEW latch \in BOOLEAN,
         NEW b, b = Mark(m, latch)
  PROVE  /\ b \in MonType /\ b.active
         /\ m.latched => b.latched
         /\ latch => b.latched
         /\ b.phase = m.phase /\ b.bootOpen = m.bootOpen
         /\ b.authorized = m.authorized /\ b.permit = m.permit
         /\ b.feedback = m.feedback /\ b.filter = m.filter
  BY DEF Mark, MonType

(* The first stage, with the command taken over.                           *)
LEMMA PhasedStaged ==
  ASSUME Inv, config \in Configs, NEW in \in Inputs, in.command # "lost",
         NEW d \in Lags, NEW p, p = Phased(Reset(mon, d), in)
  PROVE  /\ Staged(p) /\ p.phase = in.command /\ ~p.feedback
         /\ p.bootOpen = mon.bootOpen
         /\ mon.latched => p.latched
         /\ p.phase # mon.phase /\ p.phase \in Energized
              /\ p.bootOpen /\ ~p.latched =>
              /\ mon.permit
              /\ <<mon.phase, p.phase>> \in {<<"OFF", "PRECHARGE">>,
                                             <<"PRECHARGE", "RUN">>}
              /\ p.phase = "RUN" => Precharged
  <1> DEFINE r == Reset(mon, d)
             n == [r EXCEPT !.phase = in.command, !.age = 0,
                            !.authorized = /\ in.command \in Energized
                                           /\ TransitionAllowed(in)
                                           /\ Ready(mon)]
  <1>1. mon \in MonType /\ Guarded(mon) /\ (mon.permit => Ready(mon))
    BY DEF Inv, TypeOK, PermitIsReady
  <1>2. /\ r \in MonType /\ r.phase = mon.phase /\ r.bootOpen = mon.bootOpen
        /\ r.authorized = mon.authorized /\ r.latched = mon.latched
        /\ ~r.active /\ ~r.permit /\ ~r.feedback
        /\ \A k \in Contacts :
             r.filter[k].debounced = mon.filter[k].debounced
    BY <1>1, ResetFacts
  <1>3. in.command \in Phases
    BY InputType
  <1>4. r.bootOpen => AllDebounced(r)
    <2>1. Required(config) \subseteq Contacts
      BY DEF Required, Contacts
    <2> QED BY <1>1, <1>2, <2>1 DEF Guarded, AllDebounced
  <1>5. 0 \in 0..Horizon
    BY ConstantsAssumption DEF ConstantsAssumption
  <1>6. CASE r.phase = in.command
    <2>1. p = r
      BY <1>6 DEF Phased
    <2> HIDE DEF r
    <2> QED BY <1>1, <1>2, <1>3, <1>4, <1>6, <2>1
            DEF Staged, Guarded, Supervised
  <1>7. CASE r.phase # in.command /\ r.phase = "UNKNOWN"
    <2>1. p = [r EXCEPT !.phase = in.command, !.age = 0,
                        !.authorized = FALSE]
      BY <1>7 DEF Phased
    <2> HIDE DEF r
    <2>2. /\ p \in MonType /\ p.phase = in.command /\ ~p.authorized
          /\ p.bootOpen = r.bootOpen /\ p.latched = r.latched
          /\ p.active = r.active /\ p.permit = r.permit
          /\ p.filter = r.filter /\ p.feedback = r.feedback
      BY <1>2, <1>3, <1>5, <2>1 DEF MonType
    <2>3. ~p.bootOpen
      BY <1>1, <1>2, <1>7, <2>2 DEF Guarded
    <2> QED BY <1>2, <1>3, <2>2, <2>3 DEF Staged, Supervised
  <1>8. CASE r.phase # in.command /\ r.phase # "UNKNOWN"
    <2>1. p = IF TransitionAllowed(in) THEN n ELSE Mark(n, TRUE)
      BY <1>8 DEF Phased, Enter
    <2> HIDE DEF r
    <2>2. (/\ in.command \in Energized /\ TransitionAllowed(in)
           /\ Ready(mon)) \in BOOLEAN
      BY ZenonT(40)
    <2>3. /\ n \in MonType /\ n.phase = in.command
          /\ n.authorized = (/\ in.command \in Energized
                             /\ TransitionAllowed(in) /\ Ready(mon))
          /\ n.bootOpen = r.bootOpen /\ n.latched = r.latched
          /\ n.active = r.active /\ n.permit = r.permit
          /\ n.filter = r.filter /\ n.feedback = r.feedback
      BY <1>2, <1>3, <1>5, <2>2 DEF MonType
    <2>4. n.phase = "SHUTDOWN" => ~n.authorized
      BY <2>3 DEF Energized
    <2>5. CASE TransitionAllowed(in)
      <3>1. in.command \in Energized =>
              /\ Ready(mon) /\ mon.permit
              /\ <<mon.phase, in.command>> \in {<<"OFF", "PRECHARGE">>,
                                                <<"PRECHARGE", "RUN">>}
              /\ in.command = "RUN" => Precharged
        BY <2>5 DEF TransitionAllowed, Ready, Energized, Precharged,
                    PrechargeProven
      <3>2. p = n
        BY <2>1, <2>5
      <3> HIDE DEF n
      <3>3. Staged(p)
        BY <1>2, <1>3, <1>4, <2>3, <2>4, <2>5, <3>1, <3>2
        DEF Staged, Supervised, AllDebounced
      <3> QED BY <1>2, <2>3, <3>1, <3>2, <3>3
    <2>6. CASE ~TransitionAllowed(in)
      <3>1. p = Mark(n, TRUE)
        BY <2>1, <2>6
      <3> HIDE DEF n
      <3>2. /\ p \in MonType /\ p.phase = n.phase /\ p.latched
            /\ p.bootOpen = n.bootOpen /\ p.authorized = n.authorized
            /\ p.permit = n.permit /\ p.filter = n.filter
            /\ p.feedback = n.feedback
        BY <2>3, <3>1, MarkFacts
      <3>3. Staged(p)
        BY <1>2, <1>3, <1>4, <2>3, <2>4, <3>2 DEF Staged, AllDebounced
      <3> QED BY <1>2, <2>3, <3>2, <3>3
    <2> QED BY <2>5, <2>6
  <1> QED BY <1>6, <1>7, <1>8

(* Nothing of the proof, the phase and the authority is touched.           *)
Kept(m, n) ==
  /\ n.phase = m.phase /\ n.bootOpen = m.bootOpen
  /\ n.authorized = m.authorized /\ n.permit = m.permit
  /\ m.latched => n.latched

(* The second stage, on samples of which none is stale.                    *)
LEMMA FilteredStaged ==
  ASSUME config \in Configs, NEW in \in Inputs, in.command # "lost",
         ~Missing(in), NEW m, Staged(m), NEW f, f = Filtered(m, in)
  PROVE  Staged(f) /\ Kept(m, f) /\ f.feedback = m.feedback
  <1> DEFINE g == [k \in Contacts |->
               IF k \in Required(config)
               THEN FilterUpdate(m.filter[k], in.contact[k])
               ELSE m.filter[k]]
  <1>1. Required(config) \subseteq Contacts
    BY DEF Required, Contacts
  <1>2. \A k \in Required(config) : in.contact[k] \in States
    <2>1. in.contact \in Samples
      BY InputType
    <2>2. in.contact \in [Required(config) -> States \cup {"stale"}]
      BY <2>1 DEF Samples, States
    <2> QED BY <2>2 DEF Missing
  <1>3. m.filter \in [Contacts -> Filter]
    BY DEF Staged, MonType
  <1>4. ASSUME NEW h \in Filter, NEW s \in States
        PROVE  /\ FilterUpdate(h, s) \in Filter
               /\ h.debounced # "none" =>
                    FilterUpdate(h, s).debounced # "none"
    <2>1. 0 \in 0..Horizon
      BY ConstantsAssumption DEF ConstantsAssumption
    <2> QED BY <2>1 DEF FilterUpdate, Filter, States
  <1>5. /\ g \in [Contacts -> Filter]
        /\ \A k \in Required(config) :
             m.filter[k].debounced # "none" => g[k].debounced # "none"
    BY <1>1, <1>2, <1>3, <1>4
  <1>6. f = [m EXCEPT !.filter = g]
    BY DEF Filtered
  <1> HIDE DEF g
  <1>7. /\ f \in MonType /\ f.filter = g /\ f.active = m.active
        /\ f.latched = m.latched /\ Kept(m, f)
        /\ f.feedback = m.feedback
    BY <1>5, <1>6 DEF Staged, MonType, Kept
  <1> QED BY <1>5, <1>7 DEF Staged, Kept, Supervised, AllDebounced

(* The third stage: what a line fault or lost voltages add is latched.     *)
LEMMA ObservedStaged ==
  ASSUME NEW in, NEW m, Staged(m), config \in Configs,
         NEW o, o = Observed(m, in)
  PROVE  /\ Staged(o) /\ Kept(m, o) /\ o.feedback /\ o.filter = m.filter
         /\ LineFault(o) => o.active
  <1> DEFINE n == [m EXCEPT !.feedback = TRUE, !.plausible = ~config.bus]
             l == IF LineFault(n) THEN Mark(n, TRUE) ELSE n
  <1>1. (~config.bus) \in BOOLEAN
    BY ConfigIsTyped DEF ConfigType
  <1>2. /\ n \in MonType /\ Kept(m, n) /\ n.active = m.active
        /\ n.latched = m.latched /\ n.feedback /\ n.filter = m.filter
    BY <1>1 DEF Staged, MonType, Kept
  <1>3. o = IF config.bus /\ in.bus = "stale"
            THEN Mark(l, Supervised(l)) ELSE l
    BY DEF Observed
  <1>4. Staged(n)
    BY <1>2 DEF Staged, Kept, Supervised, AllDebounced
  <1> HIDE DEF n
  <1>5. ASSUME NEW a, Staged(a), a.feedback, NEW latch \in BOOLEAN,
               Supervised(a) => latch
        PROVE  /\ Staged(Mark(a, latch)) /\ Kept(a, Mark(a, latch))
               /\ Mark(a, latch).feedback /\ Mark(a, latch).active
               /\ Mark(a, latch).filter = a.filter
    <2>1. PICK b : b = Mark(a, latch)
      OBVIOUS
    <2>2. a \in MonType
      BY <1>5 DEF Staged
    <2>3. /\ b \in MonType /\ b.feedback /\ b.active
          /\ b.phase = a.phase /\ b.bootOpen = a.bootOpen
          /\ b.authorized = a.authorized /\ b.permit = a.permit
          /\ b.filter = a.filter
      BY <1>5, <2>1, <2>2, MarkFacts
    <2>4. (a.latched => b.latched) /\ (latch => b.latched)
      BY <2>1, <2>2, MarkFacts
    <2>5. Supervised(b) => b.latched
      BY <1>5, <2>3, <2>4 DEF Supervised
    <2>6. Staged(b)
      BY <1>5, <2>3, <2>5 DEF Staged, AllDebounced
    <2> QED BY <2>1, <2>3, <2>4, <2>5, <2>6 DEF Kept
  <1>6. /\ Staged(l) /\ Kept(m, l) /\ l.feedback /\ l.filter = m.filter
        /\ LineFault(n) => l.active
    <2>1. CASE LineFault(n)
      <3>1. l = Mark(n, TRUE)
        BY <2>1
      <3> HIDE DEF l
      <3>2. /\ Staged(l) /\ Kept(n, l) /\ l.feedback /\ l.active
            /\ l.filter = n.filter
        BY <1>2, <1>4, <1>5, <3>1
      <3> QED BY <1>2, <3>2 DEF Kept
    <2>2. CASE ~LineFault(n)
      <3>1. l = n
        BY <2>2
      <3> HIDE DEF l
      <3> QED BY <1>2, <1>4, <2>2, <3>1
    <2> QED BY <2>1, <2>2
  <1> HIDE DEF l
  <1>7. Supervised(l) \in BOOLEAN
    BY <1>6 DEF Supervised, Staged, MonType
  <1>8. /\ Staged(o) /\ Kept(m, o) /\ o.feedback /\ o.filter = m.filter
        /\ LineFault(n) => o.active
    BY <1>3, <1>5, <1>6, <1>7 DEF Kept
  <1>9. LineFault(o) = LineFault(n)
    BY <1>2, <1>8 DEF LineFault, Contact
  <1> QED BY <1>8, <1>9

(* An evaluation that ends: it is well formed, and lets through no more    *)
(* than it was handed.                                                     *)
Ended(m, n) ==
  /\ n \in MonType /\ Guarded(n) /\ (n.permit => Ready(n)) /\ Judged(n)
  /\ n.phase = m.phase /\ (m.latched => n.latched)
  /\ n.bootOpen /\ n.phase \in Energized => m.bootOpen
  /\ m.bootOpen => n.bootOpen

(* What is lost is latched if it was supervised, and nothing is permitted. *)
LEMMA LoseEnds ==
  ASSUME NEW m, Staged(m), config \in Configs, NEW n, n = Lose(m)
  PROVE  Ended(m, n) /\ ~n.permit
  <1>1. m \in MonType /\ Supervised(m) \in BOOLEAN
    BY DEF Staged, MonType, Supervised
  <1>2. PICK b : b = Mark(m, Supervised(m))
    OBVIOUS
  <1>3. /\ b \in MonType /\ b.phase = m.phase /\ b.bootOpen = m.bootOpen
        /\ b.authorized = m.authorized /\ b.permit = m.permit
        /\ b.filter = m.filter /\ b.active
    BY <1>1, <1>2, MarkFacts
  <1>4. (m.latched => b.latched) /\ (Supervised(m) => b.latched)
    BY <1>1, <1>2, MarkFacts
  <1>5. n = Finalize(b)
    BY <1>2 DEF Lose
  <1>6. /\ n \in MonType /\ n.phase = b.phase /\ n.bootOpen = b.bootOpen
        /\ n.authorized = b.authorized /\ n.filter = b.filter
        /\ n.latched = b.latched /\ n.active /\ ~n.permit
    <2>1. /\ n \in MonType /\ n.phase = b.phase /\ n.bootOpen = b.bootOpen
          /\ n.authorized = b.authorized /\ n.filter = b.filter
          /\ n.latched = b.latched /\ n.active = b.active
          /\ n.permit = (b.permit /\ ~b.active /\ ~b.latched)
      BY <1>3, <1>5, FinalizeFacts
    <2> QED BY <1>3, <1>5, <2>1
  <1>7. config # NoConfig
    BY ConfigIsTyped
  <1>8. Guarded(n)
    BY <1>3, <1>4, <1>6, <1>7
    DEF Guarded, Staged, Supervised, AllDebounced, Phases
  <1> QED BY <1>3, <1>4, <1>6, <1>8 DEF Ended, Judged

(* A contact still undebounced was never proven open, so nothing is        *)
(* permitted on its account.                                               *)
LEMMA UndebouncedEnds ==
  ASSUME NEW m, Staged(m), config \in Configs, ~AllDebounced(m),
         ~m.feedback, NEW n, n = Undebounced(m)
  PROVE  Ended(m, n) /\ ~n.permit
  <1>1. m \in MonType /\ ~m.bootOpen
    BY DEF Staged
  <1>2. PICK a : a = [m EXCEPT !.pending = TRUE,
                               !.permit = m.authorized /\ m.bootOpen]
    OBVIOUS
  <1>3. (m.authorized /\ m.bootOpen) = FALSE
    BY <1>1, Zenon
  <1>4. /\ a \in MonType /\ a.phase = m.phase /\ a.bootOpen = m.bootOpen
        /\ a.authorized = m.authorized /\ ~a.permit /\ ~a.feedback
        /\ a.latched = m.latched
    BY <1>1, <1>2, <1>3 DEF MonType
  <1>5. PICK b : b = IF LongestPassed(m) THEN Mark(a, TRUE) ELSE a
    OBVIOUS
  <1>6. /\ b \in MonType /\ b.phase = m.phase /\ b.bootOpen = m.bootOpen
        /\ b.authorized = m.authorized /\ ~b.permit /\ ~b.feedback
        /\ m.latched => b.latched
    <2>1. CASE LongestPassed(m)
      <3>1. b = Mark(a, TRUE)
        BY <1>5, <2>1
      <3>2. /\ b \in MonType /\ b.phase = a.phase
            /\ b.bootOpen = a.bootOpen /\ b.authorized = a.authorized
            /\ b.permit = a.permit /\ b.feedback = a.feedback
        BY <1>4, <3>1, MarkFacts
      <3>3. a.latched => b.latched
        BY <1>4, <3>1, MarkFacts
      <3> QED BY <1>4, <3>2, <3>3
    <2>2. CASE ~LongestPassed(m)
      BY <1>4, <1>5, <2>2
    <2> QED BY <2>1, <2>2
  <1>7. n = Finalize(b)
    BY <1>2, <1>5 DEF Undebounced
  <1>8. /\ n \in MonType /\ n.phase = b.phase /\ n.bootOpen = b.bootOpen
        /\ n.authorized = b.authorized /\ n.latched = b.latched
        /\ ~n.permit /\ ~n.feedback
    BY <1>6, <1>7, FinalizeFacts
  <1>9. Guarded(n)
    BY <1>1, <1>6, <1>8 DEF Guarded, Staged, Supervised, Phases
  <1> QED BY <1>1, <1>6, <1>8, <1>9 DEF Ended, Judged

(* The last stage.  Energised and proven open, either a fault is latched   *)
(* or the evaluation was clean all along and permission stays; open, it    *)
(* comes back only with what ams_air_monitor_ready asks for.               *)
LEMMA DecidedEnds ==
  ASSUME NEW in, NEW m, Staged(m), m.feedback, config \in Configs,
         AllDebounced(m), LineFault(m) => m.active,
         NEW n, n = Finalize(Decided(m, in))
  PROVE  Ended(m, n)
  <1> DEFINE fault == Faulty(m, in)
             judged == config.bus /\ in.bus # "stale"
             waiting == judged /\ BusSettling(m)
             complete == /\ judged /\ m.phase = "PRECHARGE"
                         /\ in.bus \in {"weak", "charged", "over"}
             plausible == m.plausible \/ (judged /\ ~BusSettling(m)
                                           /\ BusPlausible(m, in.bus))
             active == m.active \/ fault \/ Unproven(m)
             latched == m.latched \/ fault
             f == [m EXCEPT !.active = active, !.latched = latched,
                            !.complete = complete, !.plausible = plausible]
             steady == Wrong(m) = {} /\ ~waiting /\ ~f.active
             clean == ~f.active /\ ~f.latched
             open == f.bootOpen \/ ProvenOpen(f, in)
             rearm == steady /\ m.phase # "SHUTDOWN"
             pending == IF clean THEN ~steady ELSE Wrong(m) # {} \/ waiting
             authorized == IF clean /\ steady THEN rearm ELSE f.authorized
             permit == clean /\ open /\ (rearm \/ (~steady /\ f.authorized))
             x == [f EXCEPT !.steady = steady, !.bootOpen = open,
                            !.pending = pending, !.authorized = authorized,
                            !.permit = permit]
  <1>1. m \in MonType
    BY DEF Staged
  <1>2. Decided(m, in) = x
    BY Zenon DEF Decided
  <1>3. /\ active \in BOOLEAN /\ latched \in BOOLEAN
        /\ complete \in BOOLEAN /\ plausible \in BOOLEAN
    BY Zenon
  <1>4. /\ f \in MonType /\ f.phase = m.phase /\ f.bootOpen = m.bootOpen
        /\ f.authorized = m.authorized /\ f.feedback = m.feedback
        /\ f.filter = m.filter /\ f.age = m.age
        /\ f.active = active /\ f.latched = latched
    <2> HIDE DEF active, latched, complete, plausible
    <2>1. PICK g : g = [m EXCEPT !.active = active, !.latched = latched]
      OBVIOUS
    <2>2. /\ g \in MonType /\ g.phase = m.phase
          /\ g.bootOpen = m.bootOpen /\ g.authorized = m.authorized
          /\ g.feedback = m.feedback /\ g.filter = m.filter
          /\ g.age = m.age
          /\ g.active = active /\ g.latched = latched
      BY <1>1, <1>3, <2>1 DEF MonType
    <2>3. f = [g EXCEPT !.complete = complete, !.plausible = plausible]
      BY <2>1
    <2> HIDE DEF f
    <2> QED BY <1>3, <2>2, <2>3 DEF MonType
  <1> HIDE DEF f
  <1>5. /\ steady \in BOOLEAN /\ open \in BOOLEAN /\ clean \in BOOLEAN
        /\ rearm \in BOOLEAN /\ permit \in BOOLEAN
    BY Zenon
  <1>6. pending \in BOOLEAN /\ authorized \in BOOLEAN
    <2>1. f.authorized \in BOOLEAN
      BY <1>4 DEF MonType
    <2>2. (Wrong(m) # {} \/ waiting) \in BOOLEAN /\ (~steady) \in BOOLEAN
      BY Zenon
    <2> HIDE DEF clean, steady, rearm, waiting
    <2> QED BY <1>5, <2>1, <2>2
  <1>7. /\ steady => ~f.active
        /\ f.bootOpen => open
        /\ open /\ m.phase \in Energized => f.bootOpen
        /\ m.latched => latched
    BY <1>4 DEF ProvenOpen, Unproven, Energized
  <1>8. /\ x \in MonType /\ x.phase = m.phase /\ x.bootOpen = open
        /\ x.authorized = authorized /\ x.permit = permit
        /\ x.active = active /\ x.latched = latched
        /\ x.steady = steady /\ x.pending = pending
        /\ x.feedback /\ x.filter = m.filter /\ x.age = m.age
    <2> HIDE DEF steady, open, pending, authorized, permit, active, latched
    <2>1. PICK g : g = [f EXCEPT !.steady = steady, !.bootOpen = open,
                                 !.pending = pending]
      OBVIOUS
    <2>2. /\ g \in MonType /\ g.phase = m.phase /\ g.bootOpen = open
          /\ g.active = active /\ g.latched = latched
          /\ g.steady = steady /\ g.pending = pending
          /\ g.feedback /\ g.filter = m.filter /\ g.age = m.age
      BY <1>4, <1>5, <1>6, <2>1 DEF MonType
    <2>3. x = [g EXCEPT !.authorized = authorized, !.permit = permit]
      BY <2>1
    <2> HIDE DEF x
    <2> QED BY <1>5, <1>6, <2>2, <2>3 DEF MonType
  <1> HIDE DEF x
  <1>9. n = Finalize(x)
    BY <1>2
  <1>10. /\ n \in MonType /\ n.phase = m.phase /\ n.bootOpen = open
         /\ n.authorized = authorized /\ n.active = active
         /\ n.latched = latched /\ n.steady = steady
         /\ n.pending = pending /\ n.feedback /\ n.filter = m.filter
         /\ n.age = m.age
         /\ n.permit = (permit /\ ~active /\ ~latched)
    <2> HIDE DEF steady, open, pending, authorized, permit, active, latched
    <2> QED BY <1>8, <1>9, FinalizeFacts
  <1>11. m.phase \in Phases /\ (m.phase = "SHUTDOWN" => ~m.authorized)
    BY DEF Staged
  <1>12. n.permit => Ready(n)
    <2>1. SUFFICES ASSUME permit, ~active, ~latched, n.permit
                   PROVE  Ready(n)
      <3> HIDE DEF permit, active, latched
      <3> QED BY <1>10
    <2>2. clean /\ open /\ (rearm \/ (~steady /\ f.authorized))
      BY <2>1
    <2>3. CASE rearm
      <3>1. steady /\ m.phase # "SHUTDOWN"
        BY <2>3
      <3>2. authorized
        BY <2>2, <2>3, <3>1
      <3> HIDE DEF steady, clean, rearm, open, authorized, pending, permit,
                   active, latched
      <3> QED BY <1>10, <1>11, <2>1, <2>2, <3>1, <3>2 DEF Ready, Phases
    <2>4. CASE ~steady /\ f.authorized
      <3>1. authorized /\ pending
        BY <2>2, <2>4
      <3>2. m.phase # "SHUTDOWN"
        BY <1>4, <1>11, <2>4
      <3> HIDE DEF steady, clean, rearm, open, authorized, pending, permit,
                   active, latched
      <3> QED BY <1>10, <1>11, <2>1, <2>2, <3>1, <3>2 DEF Ready, Phases
    <2> QED BY <2>2, <2>3, <2>4
  <1>13. m.phase = "SHUTDOWN" => ~authorized
    BY <1>4, <1>11
  <1>14. open /\ m.phase \in Energized /\ ~latched =>
           permit /\ authorized /\ ~active
    <2>1. SUFFICES ASSUME open, m.phase \in Energized, ~latched
                   PROVE  permit /\ authorized /\ ~active
      OBVIOUS
    <2>2. m.bootOpen
      BY <1>4, <1>7, <2>1
    <2>3. ~m.latched /\ ~fault
      BY <2>1
    <2>4. m.authorized /\ ~m.active
      BY <2>1, <2>2, <2>3 DEF Staged, Supervised
    <2>5. ~active
      BY <2>2, <2>3, <2>4 DEF Unproven
    <2>6. clean /\ f.authorized
      BY <1>4, <2>1, <2>4, <2>5
    <2>7. m.phase # "SHUTDOWN"
      BY <2>1 DEF Energized
    <2>8. rearm = steady
      BY <2>7, Zenon
    <2> HIDE DEF clean, steady, rearm, open, active
    <2> QED BY <1>5, <2>1, <2>5, <2>6, <2>8
  <1>15. config # NoConfig
    BY ConfigIsTyped
  <1>16. Guarded(n)
    <2> HIDE DEF open, authorized, permit, active, latched, steady, pending
    <2> QED BY <1>10, <1>11, <1>13, <1>14, <1>15
            DEF Guarded, Supervised, AllDebounced, Phases
  <1>17. /\ open /\ m.phase \in Energized => m.bootOpen
         /\ m.bootOpen => open
    BY <1>4, <1>7
  <1>18. Judged(n)
    <2>1. SUFFICES ASSUME ~n.active
                   PROVE  InTime(n)
      BY DEF Judged
    <2>2. ~m.active /\ ~fault
      <3>1. ~active
        BY <1>10, <2>1
      <3> QED BY <3>1
    <2>3. Overdue(m) = {} /\ ~PrechargeOverrun(m) /\ ~LineFault(m)
      BY <2>2 DEF Faulty
    <2>4. n.phase = m.phase /\ n.age = m.age /\ n.filter = m.filter
      BY <1>10
    <2>5. /\ Overdue(n) = Overdue(m)
          /\ PrechargeOverrun(n) = PrechargeOverrun(m)
          /\ LineFault(n) = LineFault(m)
      BY <2>4, Zenon
      DEF Overdue, Wrong, Deadline, Contact, PrechargeOverrun, LineFault
    <2> QED BY <2>3, <2>5 DEF InTime
  <1> HIDE DEF open, latched
  <1> QED BY <1>7, <1>10, <1>12, <1>16, <1>17, <1>18 DEF Ended

(* One evaluation.                                                         *)
Evaluated(n) ==
  /\ n \in MonType /\ Guarded(n) /\ (n.permit => Ready(n)) /\ Judged(n)
  /\ mon.latched => n.latched
  /\ mon.permit /\ n.phase \in Energized => n.permit \/ n.latched
  /\ n.permit /\ n.phase \in Energized =>
       /\ mon.permit
       /\ <<mon.phase, n.phase>> \in
            {<<"PRECHARGE", "PRECHARGE">>, <<"RUN", "RUN">>,
             <<"OFF", "PRECHARGE">>, <<"PRECHARGE", "RUN">>}
  /\ n.permit /\ n.phase = "RUN" /\ mon.phase # "RUN" => Precharged

(* What an evaluation that took the command over hands on.                 *)
LEMMA PhasedEvaluates ==
  ASSUME Inv, config \in Configs, NEW in \in Inputs, in.command # "lost",
         NEW d \in Lags, NEW p, p = Phased(Reset(mon, d), in),
         NEW n, Ended(p, n)
  PROVE  Evaluated(n)
  <1>1. mon \in MonType /\ Guarded(mon) /\ (mon.permit => Ready(mon))
    BY DEF Inv, TypeOK, PermitIsReady
  <1>2. /\ p.bootOpen = mon.bootOpen /\ (mon.latched => p.latched)
        /\ p.phase # mon.phase /\ p.phase \in Energized
             /\ p.bootOpen /\ ~p.latched =>
             /\ mon.permit
             /\ <<mon.phase, p.phase>> \in {<<"OFF", "PRECHARGE">>,
                                            <<"PRECHARGE", "RUN">>}
             /\ p.phase = "RUN" => Precharged
    BY PhasedStaged
  <1>3. /\ n \in MonType /\ Guarded(n) /\ (n.permit => Ready(n)) /\ Judged(n)
        /\ n.phase = p.phase /\ (p.latched => n.latched)
        /\ n.bootOpen /\ n.phase \in Energized => p.bootOpen
        /\ p.bootOpen => n.bootOpen
    BY DEF Ended
  <1>4. mon.permit /\ n.phase \in Energized => n.permit \/ n.latched
    <2>1. mon.permit => mon.bootOpen
      BY <1>1 DEF Ready
    <2> QED BY <1>2, <1>3, <2>1 DEF Guarded, Supervised
  <1>5. ASSUME n.permit, n.phase \in Energized
        PROVE  /\ mon.permit
               /\ <<mon.phase, n.phase>> \in
                    {<<"PRECHARGE", "PRECHARGE">>, <<"RUN", "RUN">>,
                     <<"OFF", "PRECHARGE">>, <<"PRECHARGE", "RUN">>}
               /\ n.phase = "RUN" /\ mon.phase # "RUN" => Precharged
    <2>1. n.bootOpen /\ ~n.latched
      BY <1>3, <1>5 DEF Ready
    <2>2. p.bootOpen /\ ~p.latched /\ p.phase \in Energized
      BY <1>3, <1>5, <2>1
    <2>3. CASE p.phase = mon.phase
      <3>1. Supervised(mon) /\ ~mon.latched
        BY <1>2, <2>2, <2>3 DEF Supervised
      <3>2. mon.permit
        BY <1>1, <3>1 DEF Guarded
      <3> QED BY <1>3, <2>2, <2>3, <3>2 DEF Energized
    <2>4. CASE p.phase # mon.phase
      BY <1>2, <1>3, <2>2, <2>4
    <2> QED BY <2>3, <2>4
  <1> QED BY <1>2, <1>3, <1>4, <1>5 DEF Evaluated, Energized

(* A command that cannot be read, or no configuration, is a loss.          *)
LEMMA UnreadEvaluates ==
  ASSUME Inv, NEW d \in Lags, NEW n, n = Lose(Reset(mon, d))
  PROVE  Evaluated(n)
  <1>1. /\ mon \in MonType /\ Guarded(mon) /\ (mon.permit => Ready(mon))
        /\ config \in Configs \cup {NoConfig}
    BY DEF Inv, TypeOK, PermitIsReady
  <1>2. PICK r : r = Reset(mon, d)
    OBVIOUS
  <1>3. /\ r \in MonType /\ r.phase = mon.phase /\ r.bootOpen = mon.bootOpen
        /\ r.authorized = mon.authorized /\ r.latched = mon.latched
        /\ ~r.active /\ ~r.permit
        /\ \A k \in Contacts :
             r.filter[k].debounced = mon.filter[k].debounced
    BY <1>1, <1>2, ResetFacts
  <1>4. PICK b : b = Mark(r, Supervised(r))
    OBVIOUS
  <1>5. Supervised(r) \in BOOLEAN
    BY <1>3 DEF Supervised, MonType
  <1>6. /\ b \in MonType /\ b.phase = r.phase /\ b.bootOpen = r.bootOpen
        /\ b.authorized = r.authorized /\ b.permit = r.permit
        /\ b.filter = r.filter /\ b.active
    BY <1>3, <1>4, <1>5, MarkFacts
  <1>7. (r.latched => b.latched) /\ (Supervised(r) => b.latched)
    BY <1>3, <1>4, <1>5, MarkFacts
  <1>8. n = Finalize(b)
    BY <1>2, <1>4 DEF Lose
  <1>9. /\ n \in MonType /\ n.phase = b.phase /\ n.bootOpen = b.bootOpen
        /\ n.authorized = b.authorized /\ n.filter = b.filter
        /\ n.latched = b.latched /\ n.active /\ ~n.permit
    <2>1. /\ n \in MonType /\ n.phase = b.phase /\ n.bootOpen = b.bootOpen
          /\ n.authorized = b.authorized /\ n.filter = b.filter
          /\ n.latched = b.latched /\ n.active = b.active
          /\ n.permit = (b.permit /\ ~b.active /\ ~b.latched)
      BY <1>6, <1>8, FinalizeFacts
    <2> QED BY <1>3, <1>6, <1>8, <2>1
  <1>10. Required(config) \subseteq Contacts
    BY DEF Required, Contacts
  <1>11. n.bootOpen => config # NoConfig /\ AllDebounced(n)
    BY <1>1, <1>3, <1>6, <1>9, <1>10 DEF Guarded, AllDebounced
  <1>12. Guarded(n)
    BY <1>1, <1>3, <1>6, <1>7, <1>9, <1>11 DEF Guarded, Supervised
  <1>13. mon.permit => mon.bootOpen
    BY <1>1 DEF Ready
  <1>14. mon.permit /\ n.phase \in Energized => n.latched
    BY <1>3, <1>6, <1>7, <1>9, <1>13 DEF Supervised
  <1> QED BY <1>3, <1>6, <1>7, <1>9, <1>12, <1>14 DEF Evaluated, Judged

(* Every path through ams_air_monitor_step.                                *)
LEMMA StepEvaluates ==
  ASSUME Inv, NEW d \in Lags, NEW in,
         in \in Inputs \/ config = NoConfig, NEW n, n = Step(in, d)
  PROVE  Evaluated(n)
  <1>1. config \in Configs \cup {NoConfig}
    BY DEF Inv, TypeOK
  <1>2. CASE config = NoConfig \/ in.command = "lost"
    <2>1. n = Lose(Reset(mon, d))
      BY <1>2 DEF Step
    <2> QED BY <2>1, UnreadEvaluates
  <1>3. CASE config # NoConfig /\ in.command # "lost"
    <2>1. config \in Configs /\ in \in Inputs
      BY <1>1, <1>3
    <2>2. PICK p : p = Phased(Reset(mon, d), in)
      OBVIOUS
    <2>3. Staged(p) /\ ~p.feedback
      BY <1>3, <2>1, <2>2, PhasedStaged
    <2>4. SUFFICES Ended(p, n)
      BY <1>3, <2>1, <2>2, PhasedEvaluates
    <2>5. CASE Missing(in)
      <3>1. n = Lose(p)
        BY <1>3, <2>2, <2>5 DEF Step
      <3> QED BY <2>1, <2>3, <3>1, LoseEnds
    <2>6. CASE ~Missing(in)
      <3>1. PICK f : f = Filtered(p, in)
        OBVIOUS
      <3>2. Staged(f) /\ Kept(p, f) /\ ~f.feedback
        BY <1>3, <2>1, <2>3, <2>6, <3>1, FilteredStaged
      <3>3. Ended(f, n) => Ended(p, n)
        BY <3>2 DEF Kept, Ended
      <3>4. CASE ~AllDebounced(f)
        <4>1. n = Undebounced(f)
          BY <1>3, <2>2, <2>6, <3>1, <3>4 DEF Step
        <4> QED BY <2>1, <3>2, <3>3, <3>4, <4>1, UndebouncedEnds
      <3>5. CASE AllDebounced(f)
        <4>1. PICK o : o = Observed(f, in)
          OBVIOUS
        <4>2. /\ Staged(o) /\ Kept(f, o) /\ o.feedback
              /\ o.filter = f.filter /\ (LineFault(o) => o.active)
          BY <2>1, <3>2, <4>1, ObservedStaged
        <4>3. Ended(o, n) => Ended(f, n)
          BY <4>2 DEF Kept, Ended
        <4>4. AllDebounced(o)
          BY <3>5, <4>2 DEF AllDebounced
        <4>5. CASE ~o.active /\ ~in.coherent
          <5>1. n = Lose(o)
            BY <1>3, <2>2, <2>6, <3>1, <3>5, <4>1, <4>5 DEF Step
          <5> QED BY <2>1, <3>3, <4>2, <4>3, <5>1, LoseEnds
        <4>6. CASE ~(~o.active /\ ~in.coherent)
          <5>1. n = Finalize(Decided(o, in))
            BY <1>3, <2>2, <2>6, <3>1, <3>5, <4>1, <4>6 DEF Step
          <5> QED BY <2>1, <3>3, <4>2, <4>3, <4>4, <5>1, DecidedEnds
        <4> QED BY <4>5, <4>6
      <3> QED BY <3>4, <3>5
    <2> QED BY <2>5, <2>6
  <1> QED BY <1>2, <1>3

(* A clear ends in a state an evaluation could end in.                     *)
LEMMA ClearHolds ==
  ASSUME config \in Configs, NEW m, Evaluated(m), Clearable(m),
         NEW n, n = Cleared(m)
  PROVE  /\ n \in MonType /\ Guarded(n) /\ (n.permit => Ready(n))
         /\ InTime(n) /\ n.phase \in {"OFF", "SHUTDOWN"} /\ n.latched = FALSE
         /\ n.permit = (n.phase = "OFF")
  <1>1. m \in MonType /\ Guarded(m) /\ Judged(m)
    BY DEF Evaluated
  <1>2. /\ m.feedback /\ ~m.active /\ m.steady /\ m.bootOpen
        /\ m.phase \in {"OFF", "SHUTDOWN"}
    BY DEF Clearable
  <1>3. /\ n \in MonType /\ n.phase = m.phase /\ n.latched = FALSE
        /\ n.permit = (m.phase = "OFF") /\ n.authorized = (m.phase = "OFF")
        /\ n.feedback = m.feedback /\ n.active = m.active
        /\ n.steady = m.steady /\ n.bootOpen = m.bootOpen
        /\ n.filter = m.filter /\ n.age = m.age
    BY <1>1 DEF Cleared, MonType
  <1>4. n.permit => Ready(n)
    BY <1>2, <1>3 DEF Ready
  <1>5. Guarded(n)
    BY <1>1, <1>2, <1>3
    DEF Guarded, Supervised, AllDebounced, Energized
  <1>6. InTime(n)
    <2>1. InTime(m)
      BY <1>1, <1>2 DEF Judged
    <2>2. InTime(n) = InTime(m)
      BY <1>3, Zenon
      DEF InTime, Overdue, Wrong, Deadline, Contact, PrechargeOverrun,
          LineFault
    <2> QED BY <2>1, <2>2
  <1> QED BY <1>2, <1>3, <1>4, <1>5, <1>6

(* The invariant holds at power-up.                                        *)
LEMMA InitInv == Init => Inv
  <1> SUFFICES ASSUME Init PROVE Inv
    OBVIOUS
  <1>1. 0 \in 0..Horizon
    BY ConstantsAssumption DEF ConstantsAssumption
  <1>2. [k \in Contacts |-> NoFilter] \in [Contacts -> Filter]
    BY <1>1 DEF NoFilter, Filter
  <1>3. mon \in MonType
    BY <1>1, <1>2 DEF Init, MonType
  <1> QED BY <1>3
          DEF Init, Inv, TypeOK, PermitIsReady, PermitIsInTime, Guarded,
              Supervised, Energized

(* Every step preserves the invariant, and is a step of what the monitor   *)
(* promises or leaves the three promised fields alone.                     *)
LEMMA NextInv ==
  ASSUME Inv, [Next]_vars
  PROVE  Inv' /\ [Permission!Next]_(Permission!vars)
  <1>1. /\ mon \in MonType /\ Guarded(mon) /\ (mon.permit => Ready(mon))
        /\ config \in Configs \cup {NoConfig}
    BY DEF Inv, TypeOK, PermitIsReady
  <1> DEFINE Holds(n) == /\ n \in MonType /\ Guarded(n)
                         /\ (n.permit => Ready(n) /\ InTime(n))
  <1>0. ASSUME NEW n, n = mon', config' = config, Holds(n)
        PROVE  Inv'
    <2>1. TypeOK' /\ PermitIsReady'
      BY <1>0, <1>1 DEF TypeOK, PermitIsReady, Ready
    <2>2. Guarded(mon)'
      BY <1>0 DEF Guarded, Supervised, AllDebounced
    <2>3. PermitIsInTime'
      BY <1>0
      DEF PermitIsInTime, InTime, Overdue, Wrong, Deadline, Contact,
          PrechargeOverrun, LineFault
    <2> QED BY <2>1, <2>2, <2>3 DEF Inv
  <1>2. CASE AcceptConfig
    <2>1. /\ config = NoConfig /\ config' \in Configs /\ mon' = mon
      BY <1>2 DEF AcceptConfig
    <2>2. ~mon.bootOpen
      BY <1>1, <2>1 DEF Guarded
    <2>3. ~mon.permit
      BY <1>1, <2>2 DEF Ready
    <2>4. Inv'
      BY <1>1, <2>1, <2>2, <2>3
      DEF Inv, TypeOK, PermitIsReady, PermitIsInTime, Guarded, Supervised
    <2> QED BY <2>1, <2>4 DEF Permission!vars
  <1>3. CASE Evaluate
    <2>1. config' = config
      BY <1>3 DEF Evaluate
    <2>2. PICK d \in Lags :
            \E in : /\ in \in Inputs \/ config = NoConfig
                    /\ mon' = Step(in, d)
      <3>1. CASE config = NoConfig
        BY <1>3, <3>1 DEF Evaluate
      <3>2. CASE config # NoConfig
        BY <1>3, <3>2 DEF Evaluate
      <3> QED BY <3>1, <3>2
    <2>3. PICK n : n = mon'
      OBVIOUS
    <2>4. Evaluated(n)
      <3>1. PICK in : /\ in \in Inputs \/ config = NoConfig
                      /\ n = Step(in, d)
        BY <2>2, <2>3
      <3> QED BY <3>1, StepEvaluates
    <2>5. Inv'
      <3>1. Holds(n)
        BY <2>4 DEF Evaluated, Judged, Ready
      <3> QED BY <1>0, <2>1, <2>3, <3>1
    <2>6. Permission!Next
      <3>1. /\ n.phase \in Phases \cup {"UNKNOWN"} /\ n.permit \in BOOLEAN
            /\ n.latched \in BOOLEAN /\ mon.latched \in BOOLEAN
        BY <1>1, <2>4 DEF Evaluated, MonType
      <3>2. CASE ~n.permit
        <4>1. Permission!Withhold
          BY <2>3, <2>4, <3>1, <3>2
          DEF Permission!Withhold, Permission!Energized, Evaluated, Energized
        <4> QED BY <4>1 DEF Permission!Next
      <3>3. CASE n.permit /\ n.phase \in Energized
        <4>1. n.latched = FALSE /\ n.permit = TRUE
          BY <2>4, <3>1, <3>3 DEF Evaluated, Ready
        <4>2. Permission!Hold
          BY <2>3, <2>4, <3>3, <4>1 DEF Permission!Hold, Evaluated
        <4> QED BY <4>2 DEF Permission!Next
      <3>4. CASE n.permit /\ n.phase \notin Energized
        <4>1. n.latched = FALSE /\ n.permit = TRUE /\ n.phase = "OFF"
          BY <2>4, <3>1, <3>4 DEF Evaluated, Ready, Energized
        <4>2. Permission!Arm
          BY <2>3, <2>4, <4>1 DEF Permission!Arm, Evaluated
        <4> QED BY <4>2 DEF Permission!Next
      <3> QED BY <3>2, <3>3, <3>4
    <2> QED BY <2>5, <2>6
  <1>4. CASE RequestClear
    <2>1. config' = config /\ config \in Configs
      BY <1>1, <1>4 DEF RequestClear
    <2>2. PICK d \in Lags, in \in Inputs :
            Clearable(Step(in, d)) /\ mon' = Cleared(Step(in, d))
      BY <1>4 DEF RequestClear
    <2>3. PICK m : m = Step(in, d)
      OBVIOUS
    <2>4. Evaluated(m)
      BY <2>3, StepEvaluates
    <2>5. PICK n : n = mon'
      OBVIOUS
    <2>6. n = Cleared(m) /\ Clearable(m)
      BY <2>2, <2>3, <2>5
    <2>7. /\ n \in MonType /\ Guarded(n) /\ (n.permit => Ready(n))
          /\ InTime(n) /\ n.phase \in {"OFF", "SHUTDOWN"} /\ n.latched = FALSE
          /\ n.permit = (n.phase = "OFF")
      BY <2>1, <2>4, <2>6, ClearHolds
    <2>8. Inv'
      BY <1>0, <2>1, <2>5, <2>7
    <2>9. Permission!Clear
      BY <2>5, <2>7 DEF Permission!Clear
    <2> QED BY <2>8, <2>9 DEF Permission!Next
  <1>5. CASE UNCHANGED vars
    BY <1>5
    DEF vars, Inv, TypeOK, PermitIsReady, PermitIsInTime, Guarded,
        Supervised, Ready, AllDebounced, InTime, Overdue, Wrong, Deadline,
        Contact, PrechargeOverrun, LineFault, Permission!vars
  <1> QED BY <1>2, <1>3, <1>4, <1>5 DEF Next

(* The invariant is one of the specification.                              *)
LEMMA InvAlways == Spec => []Inv
  <1>1. Inv /\ [Next]_vars => Inv'
    BY NextInv
  <1> QED BY InitInv, <1>1, PTL DEF Spec

(* ams_air_monitor_t stays well formed, for every configuration.           *)
THEOREM TypeCorrect == Spec => []TypeOK
  <1>1. Inv => TypeOK
    BY DEF Inv
  <1> QED BY InvAlways, <1>1, PTL

(* Permission is never published without everything ams_air_monitor_ready  *)
(* asks for, so the supervisor and a closing transition never find a       *)
(* permit they must refuse.                                                *)
THEOREM PermitStaysReady == Spec => []PermitIsReady
  <1>1. Inv => PermitIsReady
    BY DEF Inv
  <1> QED BY InvAlways, <1>1, PTL

(* Permission never outlives a deadline of a contact or of the precharge,  *)
(* however late an evaluation runs.                                        *)
THEOREM PermitStaysInTime == Spec => []PermitIsInTime
  <1>1. Inv => PermitIsInTime
    BY DEF Inv
  <1> QED BY InvAlways, <1>1, PTL

(* The evaluator implements ContactorPermission: what it loses while the   *)
(* contactors are energised it latches, and gives back only after a clear. *)
THEOREM PermissionIsKept == Spec => KeepsPermission
  <1>1. Init => Permission!Init
    BY DEF Init, Permission!Init
  <1>2. Inv /\ [Next]_vars => [Permission!Next]_(Permission!vars)
    BY NextInv
  <1> QED BY InvAlways, <1>1, <1>2, PTL
          DEF Spec, KeepsPermission, Permission!Spec

(* RUN is permitted only right after an evaluation that found a precharge  *)
(* steady, permitted and, with the voltages at hand, complete.             *)
THEOREM RunIsAlwaysEarned == Spec => RunIsEarned
  <1>1. Inv /\ [Next]_vars =>
          [mon'.permit /\ mon'.phase = "RUN" /\ mon.phase # "RUN" =>
             /\ mon.phase = "PRECHARGE" /\ mon.steady /\ mon.permit
             /\ config.bus => mon.complete]_vars
    <2> SUFFICES ASSUME Inv, [Next]_vars, mon'.permit, mon'.phase = "RUN",
                        mon.phase # "RUN"
                 PROVE  Precharged
      BY DEF Precharged
    <2>1. CASE Evaluate
      <3>1. PICK d \in Lags :
              \E in : /\ in \in Inputs \/ config = NoConfig
                      /\ mon' = Step(in, d)
        BY <2>1 DEF Evaluate
      <3>2. PICK in : /\ in \in Inputs \/ config = NoConfig
                      /\ mon' = Step(in, d)
        BY <3>1
      <3>3. PICK n : n = mon'
        OBVIOUS
      <3>4. Evaluated(n)
        BY <3>2, <3>3, StepEvaluates
      <3> QED BY <3>3, <3>4 DEF Evaluated
    <2>2. CASE RequestClear
      <3>1. PICK d \in Lags, in \in Inputs :
              Clearable(Step(in, d)) /\ mon' = Cleared(Step(in, d))
        BY <2>2 DEF RequestClear
      <3>2. PICK m : m = Step(in, d)
        OBVIOUS
      <3>3. Evaluated(m) /\ Clearable(m) /\ mon' = Cleared(m)
        BY <3>1, <3>2, StepEvaluates
      <3>4. mon'.phase = m.phase /\ m.phase \in {"OFF", "SHUTDOWN"}
        BY <3>3 DEF Evaluated, Clearable, Cleared, MonType
      <3> QED BY <3>4
    <2>3. CASE mon' = mon
      BY <2>3
    <2> QED BY <2>1, <2>2, <2>3 DEF Next, AcceptConfig, vars
  <1> QED BY InvAlways, <1>1, PTL DEF Spec, RunIsEarned
=============================================================================
