------------------------- MODULE TaskWatchdog_proofs -------------------------
(***************************************************************************)
(* The watchdog is sound for every set of tasks, every timeout, grace,     *)
(* supervisor period and watchdog time.                                    *)
(*                                                                         *)
(* The argument: an age the supervisor sees is at least the time the task  *)
(* has been silent, and hung, unless it has reached its ceiling, where it  *)
(* counts as stale all the same.  So the watchdog is fed only when nothing *)
(* the software needs has been hung for longer than the longest timeout,   *)
(* and from then on it counts with the hang.                               *)
(***************************************************************************)
EXTENDS TaskWatchdog, TLAPS

(* A kick carries a tick that is not stale yet, and the supervisor runs at *)
(* least once in a watchdog time.  A longest timeout exists whenever there *)
(* are finitely many tasks.                                                *)
WatchdogConstants ==
  /\ Safety \subseteq Tasks
  /\ Supervisor \notin Tasks /\ Integrity \notin Tasks
  /\ Timeout \in [Tasks -> Nat]
  /\ Grace \in Nat \ {0} /\ Period \in Nat /\ Iwdg \in Nat /\ MaxLate \in Nat
  /\ Period < Iwdg
  /\ \A t \in Tasks : MaxLate <= Timeout[t]
  /\ \E n \in {Timeout[t] : t \in Safety} \cup {Grace} :
       n >= Grace /\ \A t \in Safety : n >= Timeout[t]

Needed == Safety \cup {Supervisor, Integrity}

(* What the type invariant says, with the variables' domains.              *)
Types ==
  /\ beat \in [Tasks -> Int] /\ silent \in [Tasks -> Nat]
  /\ hung \in [Culprits -> Int]
  /\ \A t \in Tasks : beat[t] >= Unseen
  /\ \A c \in Culprits : hung[c] >= -1
  /\ TypeOK

(* An age is no shorter than the silence and the hang, up to its ceiling;  *)
(* before the first kick the time since boot is.                           *)
AgeAgrees(t) ==
  /\ beat[t] = Unseen => /\ silent[t] <= boot \/ boot = Grace
                         /\ hung[t] <= boot \/ boot = Grace
  /\ beat[t] # Unseen => /\ silent[t] <= beat[t] \/ beat[t] = Horizon(t)
                         /\ hung[t] <= beat[t] \/ beat[t] = Horizon(t)

AgesAgree == \A t \in Tasks : AgeAgrees(t)

(* In the grace nothing has been hung for longer than the processor runs.  *)
GraceAgrees == boot < Grace => \A c \in Culprits : hung[c] <= boot

(* A task that works is never stale, a supervisor that works never late.   *)
WorkersAreFresh ==
  /\ \A t \in Tasks : Works(t) =>
       IF beat[t] = Unseen THEN boot < Grace ELSE beat[t] <= Timeout[t]
  /\ Works(Supervisor) => monitor.age <= Period

(* The watchdog counts with the hang.                                      *)
WatchdogCounts ==
  iwdg # Stopped => \A c \in Needed : hung[c] <= Longest + iwdg

(* While everything needed works, every pass of the supervisor feeds.      *)
WorkIsFed == (\A c \in Needed : Works(c)) => iwdg <= monitor.age

(* What the permit was given on was fresh at the supervisor's last pass.   *)
PermitIsFresh ==
  monitor.permit /\ Works(Supervisor) =>
    /\ iwdg # Stopped
    /\ \A t \in Safety : silent[t] <= Tolerated(t) + monitor.age

Inv ==
  /\ Types /\ AgesAgree /\ GraceAgrees /\ WorkersAreFresh
  /\ WatchdogCounts /\ WorkIsFed /\ PermitIsFresh
-----------------------------------------------------------------------------
(* The longest timeout bounds them all.                                    *)
LEMMA LongestBounds ==
  ASSUME WatchdogConstants
  PROVE  /\ Longest \in Nat /\ Longest >= Grace
         /\ \A t \in Safety : Timeout[t] \in Nat /\ Longest >= Timeout[t]
         /\ Patience \in Nat
         /\ \A t \in Tasks : /\ Timeout[t] \in Nat /\ Horizon(t) \in Nat
                             /\ Timeout[t] < Horizon(t)
                             /\ Silence(t) \in Nat /\ Tolerated(t) \in Nat
  <1> DEFINE S == {Timeout[t] : t \in Safety} \cup {Grace}
             Bounds(n) == n >= Grace /\ \A t \in Safety : n >= Timeout[t]
  <1>1. S \subseteq Nat
    BY DEF WatchdogConstants
  <1>2. \E n \in S : Bounds(n)
    BY DEF WatchdogConstants
  <1>3. Longest \in S /\ Bounds(Longest)
    <2>1. Longest = CHOOSE n \in S : Bounds(n)
      BY DEF Longest
    <2> QED BY <1>2, <2>1
  <1>4. Longest \in Nat /\ Longest >= Grace
    BY <1>1, <1>3
  <1>5. \A t \in Safety : Timeout[t] \in Nat /\ Longest >= Timeout[t]
    BY <1>3 DEF WatchdogConstants
  <1>6. Patience \in Nat
    BY <1>4 DEF Patience, WatchdogConstants
  <1>7. \A t \in Tasks : /\ Timeout[t] \in Nat /\ Horizon(t) \in Nat
                         /\ Timeout[t] < Horizon(t)
                         /\ Silence(t) \in Nat /\ Tolerated(t) \in Nat
    <2>1. /\ Period \in Nat /\ \A t \in Tasks : Timeout[t] \in Nat
          /\ Grace \in Nat
      BY DEF WatchdogConstants
    <2>2. TAKE t \in Tasks
    <2>3. Timeout[t] \in Nat /\ Horizon(t) = Timeout[t] + Period + 1
      BY <2>1 DEF Horizon
    <2> QED BY <2>1, <2>3 DEF Silence, Tolerated
  <1> QED BY <1>4, <1>5, <1>6, <1>7

(* Ageing stops at its ceiling, and leaves "never" alone.                  *)
LEMMA Ageing ==
  ASSUME NEW age \in Int, NEW limit \in Nat, -1 <= age, age <= limit
  PROVE  /\ Aged(age, limit) \in Int
         /\ Aged(age, limit) >= -1 /\ Aged(age, limit) <= limit
         /\ Aged(age, limit) <= age + 1
         /\ Aged(age, limit) = -1 <=> age = -1
         /\ age # -1 /\ age # limit => Aged(age, limit) = age + 1
         /\ age = limit => Aged(age, limit) \in {limit, -1}
  BY DEF Aged, Least

(* The facts about the types that the steps use.                           *)
LEMMA TypeFacts ==
  ASSUME WatchdogConstants, Types
  PROVE  /\ \A t \in Tasks : /\ beat[t] \in Int /\ -1 <= beat[t]
                             /\ beat[t] <= Horizon(t)
                             /\ silent[t] \in Nat
                             /\ silent[t] <= Silence(t)
         /\ \A c \in Culprits : /\ hung[c] \in Int /\ -1 <= hung[c]
                                /\ hung[c] <= Patience + 1
         /\ boot \in Nat /\ boot <= Grace
         /\ iwdg \in Int /\ -1 <= iwdg /\ iwdg <= Iwdg
         /\ monitor.age \in Nat
         /\ Tasks \subseteq Culprits /\ Needed \subseteq Culprits
         /\ Supervisor \in Culprits /\ Integrity \in Culprits
  <1>1. /\ \A t \in Tasks : Horizon(t) \in Nat
        /\ Patience \in Nat /\ MaxLate \in Nat /\ Grace \in Nat
        /\ Iwdg \in Nat /\ Period \in Nat
    BY LongestBounds DEF WatchdogConstants
  <1>2. \A t \in Tasks : /\ beat[t] \in Int /\ -1 <= beat[t]
                         /\ beat[t] <= Horizon(t)
                         /\ silent[t] \in Nat
                         /\ silent[t] <= Silence(t)
    <2>1. TAKE t \in Tasks
    <2>2. /\ beat[t] \in -1 .. Horizon(t)
          /\ silent[t] \in 0 .. Silence(t)
      BY <2>1 DEF Types, TypeOK, Unseen
    <2>3. Horizon(t) \in Nat
      BY <1>1, <2>1
    <2> QED BY <1>1, <2>2, <2>3
  <1>3. \A c \in Culprits : /\ hung[c] \in Int /\ -1 <= hung[c]
                            /\ hung[c] <= Patience + 1
    BY <1>1 DEF Types, TypeOK
  <1>4. /\ boot \in Nat /\ boot <= Grace
        /\ iwdg \in Int /\ -1 <= iwdg /\ iwdg <= Iwdg
        /\ monitor.age \in Nat
    BY <1>1 DEF Types, TypeOK, Stopped
  <1> QED BY <1>2, <1>3, <1>4 DEF Culprits, Needed, WatchdogConstants

JustBooted ==
  /\ beat = [t \in Tasks |-> Unseen] /\ boot = 0
  /\ monitor = [age |-> 0, fault |-> FALSE, permit |-> FALSE]
  /\ iwdg \in {0, Stopped}
  /\ hung = [c \in Culprits |-> -1]
  /\ silent = [t \in Tasks |-> 0]

(* After a boot nothing has happened yet.                                  *)
LEMMA BootedInv ==
  ASSUME WatchdogConstants, JustBooted
  PROVE  Inv
  <1> USE DEF JustBooted
  <1>1. /\ Longest \in Nat /\ Patience \in Nat
        /\ \A t \in Tasks : Horizon(t) \in Nat
        /\ Grace \in Nat \ {0} /\ Period \in Nat /\ Iwdg \in Nat
        /\ MaxLate \in Nat
    BY LongestBounds DEF WatchdogConstants
  <1>2. \A t \in Tasks : beat[t] = -1 /\ silent[t] = 0
    BY DEF Unseen
  <1>3. \A c \in Culprits : hung[c] = -1
    OBVIOUS
  <1>4. Tasks \subseteq Culprits /\ Needed \subseteq Culprits
    BY DEF Culprits, Needed, WatchdogConstants
  <1>5. TypeOK
    BY <1>1, <1>2, <1>3, LongestBounds DEF TypeOK, Unseen, Stopped
  <1>6. Types
    BY <1>5 DEF Types, Unseen
  <1>7. AgesAgree /\ GraceAgrees /\ WorkersAreFresh
    BY <1>1, <1>2, <1>3, <1>4
    DEF AgesAgree, AgeAgrees, GraceAgrees, WorkersAreFresh, Unseen
  <1>8. WatchdogCounts /\ WorkIsFed /\ PermitIsFresh
    BY <1>1, <1>3, <1>4
    DEF WatchdogCounts, WorkIsFed, PermitIsFresh, Stopped
  <1> QED BY <1>6, <1>7, <1>8 DEF Inv

(* The invariant holds in the beginning.                                   *)
LEMMA InitInv == ASSUME WatchdogConstants, Init PROVE Inv
  BY BootedInv DEF Init, JustBooted

(* A reset leads to such a state.                                          *)
LEMMA ResetInv ==
  ASSUME WatchdogConstants
  PROVE  \A started \in BOOLEAN : Reset(started) => Inv'
  <1>1. JustBooted' => Inv'
    BY BootedInv, PTL
  <1>2. \A started \in BOOLEAN : Reset(started) => JustBooted'
    BY DEF Reset, Booted, JustBooted
  <1> QED BY <1>1, <1>2

(* A kick makes its task young.                                            *)
LEMMA KickInv ==
  ASSUME WatchdogConstants, Inv, NEW t \in Tasks, NEW late \in 0 .. MaxLate,
         Kick(t, late)
  PROVE  Inv'
  <1> USE DEF Inv
  <1>1. /\ Works(t) /\ t \in Culprits
        /\ beat' = [beat EXCEPT ![t] = late]
        /\ silent' = [silent EXCEPT ![t] = 0]
        /\ UNCHANGED <<boot, monitor, iwdg, hung>>
    BY TypeFacts DEF Kick
  <1>2. /\ late \in Nat /\ late <= Timeout[t] /\ late < Horizon(t)
        /\ Timeout[t] \in Nat /\ Horizon(t) \in Nat /\ MaxLate \in Nat
    <2>1. /\ MaxLate \in Nat /\ MaxLate <= Timeout[t]
          /\ Timeout[t] \in Nat /\ Horizon(t) \in Nat
          /\ Timeout[t] < Horizon(t)
      BY LongestBounds DEF WatchdogConstants
    <2> QED BY <2>1
  <1>3. /\ \A u \in Tasks : u # t => beat'[u] = beat[u]
                                     /\ silent'[u] = silent[u]
        /\ beat'[t] = late /\ silent'[t] = 0
    BY <1>1 DEF Types
  <1>4. Types'
    <2>1. beat' \in [Tasks -> Int] /\ silent' \in [Tasks -> Nat]
      BY <1>1, <1>2 DEF Types
    <2>2. \A u \in Tasks : /\ beat'[u] \in Unseen .. Horizon(u)
                           /\ silent'[u] \in 0 .. Silence(u)
                           /\ beat'[u] >= Unseen
      <3>1. TAKE u \in Tasks
      <3>2. CASE u = t
        BY <3>2, <1>2, <1>3, LongestBounds DEF Unseen
      <3>3. CASE u # t
        BY <3>3, <1>3 DEF Types, TypeOK
      <3> QED BY <3>2, <3>3
    <2> QED BY <1>1, <2>1, <2>2 DEF Types, TypeOK
  <1>5. AgesAgree'
    <2>1. ASSUME NEW u \in Tasks PROVE AgeAgrees(u)'
      <3>1. CASE u = t
        BY <3>1, <1>1, <1>2, <1>3 DEF AgeAgrees, Unseen, Works
      <3>2. CASE u # t
        BY <3>2, <1>1, <1>3 DEF AgesAgree, AgeAgrees
      <3> QED BY <3>1, <3>2
    <2> QED BY <2>1 DEF AgesAgree
  <1>6. WorkersAreFresh'
    <2>1. ASSUME NEW u \in Tasks, Works(u)
          PROVE  IF beat'[u] = Unseen THEN boot < Grace
                                      ELSE beat'[u] <= Timeout[u]
      <3>1. CASE u = t
        BY <3>1, <1>2, <1>3 DEF Unseen
      <3>2. CASE u # t
        BY <2>1, <3>2, <1>3 DEF WorkersAreFresh
      <3> QED BY <3>1, <3>2
    <2> QED BY <2>1, <1>1 DEF WorkersAreFresh, Works
  <1>7. PermitIsFresh'
    <2>1. ASSUME monitor.permit, Works(Supervisor), NEW u \in Safety
          PROVE  silent'[u] <= Tolerated(u)' + monitor.age
      <3>1. u \in Tasks /\ Timeout[u] \in Nat /\ monitor.age \in Nat
        BY LongestBounds, TypeFacts DEF WatchdogConstants
      <3>2. CASE u = t
        BY <3>1, <3>2, <1>1, <1>2, <1>3 DEF Tolerated, Unseen
      <3>3. CASE u # t
        BY <2>1, <3>1, <3>3, <1>3 DEF PermitIsFresh, Tolerated
      <3> QED BY <3>2, <3>3
    <2> QED BY <2>1, <1>1 DEF PermitIsFresh, Works
  <1>8. GraceAgrees' /\ WatchdogCounts' /\ WorkIsFed'
    BY <1>1 DEF GraceAgrees, WatchdogCounts, WorkIsFed, Works
  <1> QED BY <1>4, <1>5, <1>6, <1>7, <1>8

(* A hang begins with age 0.                                               *)
LEMMA HangInv ==
  ASSUME WatchdogConstants, Inv, NEW c \in Culprits, Hang(c)
  PROVE  Inv'
  <1> USE DEF Inv
  <1>1. /\ AllWork /\ hung' = [hung EXCEPT ![c] = 0]
        /\ UNCHANGED <<beat, boot, monitor, iwdg, silent>>
    BY DEF Hang
  <1>2. \A d \in Culprits : /\ hung[d] = -1
                            /\ hung'[d] \in {-1, 0} /\ hung'[d] <= 0
    BY <1>1 DEF AllWork, Works, Types
  <1>3. Types'
    <2>1. \A d \in Culprits : hung'[d] \in -1 .. Patience + 1
      BY <1>2, LongestBounds
    <2>2. hung' \in [Culprits -> Int]
      BY <1>1 DEF Types
    <2> QED BY <1>1, <1>2, <2>1, <2>2 DEF Types, TypeOK
  <1>4. AgesAgree'
    <2>1. ASSUME NEW t \in Tasks PROVE AgeAgrees(t)'
      <3>1. /\ t \in Culprits /\ beat[t] \in Int /\ beat[t] >= -1
            /\ boot \in Nat
        BY TypeFacts
      <3>2. hung'[t] <= 0 /\ hung'[t] \in Int
        BY <3>1, <1>2
      <3> QED BY <3>1, <3>2, <1>1 DEF AgesAgree, AgeAgrees, Unseen
    <2> QED BY <2>1 DEF AgesAgree
  <1>5. GraceAgrees'
    BY <1>1, <1>2, TypeFacts DEF GraceAgrees
  <1>6. WorkersAreFresh' /\ PermitIsFresh' /\ WorkIsFed'
    <2>1. \A d \in Culprits : Works(d)
      BY <1>2 DEF Works
    <2> QED BY <2>1, <1>1, TypeFacts
            DEF WorkersAreFresh, PermitIsFresh, WorkIsFed, Tolerated
  <1>7. WatchdogCounts'
    <2>1. ASSUME iwdg # Stopped, NEW d \in Needed
          PROVE  hung'[d] <= Longest + iwdg
      <3>1. /\ hung'[d] <= 0 /\ hung'[d] \in Int
            /\ iwdg \in Nat /\ Longest \in Nat
        BY <1>2, <2>1, TypeFacts, LongestBounds DEF Stopped
      <3> QED BY <3>1
    <2> QED BY <2>1, <1>1 DEF WatchdogCounts
  <1> QED BY <1>3, <1>4, <1>5, <1>6, <1>7

(* When the watchdog is fed, nothing it needs has been hung for long.      *)
LEMMA FeedingIsEarned ==
  ASSUME WatchdogConstants, Inv, MayFeed, Works(Supervisor)
  PROVE  \A c \in Needed : hung[c] <= Longest
  <1> USE DEF Inv
  <1>1. TAKE c \in Needed
  <1>2. /\ c \in Culprits /\ hung[c] \in Int /\ Longest \in Nat
        /\ boot \in Nat /\ Grace \in Nat /\ Longest >= Grace
    BY TypeFacts, LongestBounds DEF WatchdogConstants
  <1>3. CASE InGrace
    BY <1>2, <1>3 DEF InGrace, GraceAgrees
  <1>4. CASE ~InGrace /\ c \in Safety
    <2>1. ~Stale(c)
      BY <1>4 DEF MayFeed, Healthy, HeartbeatFault
    <2>2. /\ c \in Tasks /\ Timeout[c] \in Nat /\ Longest >= Timeout[c]
          /\ Timeout[c] < Horizon(c) /\ beat[c] \in Int
      BY <1>4, LongestBounds, TypeFacts DEF WatchdogConstants
    <2>3. beat[c] # Unseen /\ beat[c] <= Timeout[c]
      BY <1>4, <2>1, <2>2 DEF Stale
    <2>4. hung[c] <= beat[c]
      BY <2>2, <2>3, LongestBounds DEF AgesAgree, AgeAgrees
    <2> QED BY <1>2, <2>2, <2>3, <2>4
  <1>5. CASE ~InGrace /\ c \in {Supervisor, Integrity}
    BY <1>2, <1>5 DEF MayFeed, Healthy, Works
  <1> QED BY <1>3, <1>4, <1>5 DEF Needed

(* A pass of the supervisor feeds only what is earned and permits only     *)
(* what is fresh.                                                          *)
LEMMA SuperviseInv ==
  ASSUME WatchdogConstants, Inv, NEW allowed \in BOOLEAN,
         NEW started \in BOOLEAN, Supervise(allowed, started)
  PROVE  Inv'
  <1> USE DEF Inv
  <1>1. /\ Works(Supervisor) /\ iwdg' = Fed(started)
        /\ monitor' = [age |-> 0, fault |-> HeartbeatFault,
                       permit |-> Ready /\ allowed]
        /\ UNCHANGED <<beat, boot, hung, silent>>
    BY DEF Supervise
  <1>2. /\ Longest \in Nat /\ Patience \in Nat /\ Period \in Nat
        /\ Grace \in Nat /\ Iwdg \in Nat
    BY LongestBounds DEF WatchdogConstants
  <1>3. \/ MayFeed /\ iwdg' = 0 /\ (iwdg # Stopped \/ started)
        \/ iwdg' = iwdg /\ (~MayFeed \/ iwdg = Stopped)
    BY <1>1 DEF Fed
  <1>4. Types'
    <2>1. /\ monitor'.age = 0
          /\ monitor' \in [age : 0 .. Period + Patience + 1,
                           fault : BOOLEAN, permit : BOOLEAN]
      <3>1. 0 \in 0 .. Period + Patience + 1
        BY <1>2
      <3>2. HeartbeatFault \in BOOLEAN /\ (Ready /\ allowed) \in BOOLEAN
        BY DEF HeartbeatFault, Ready
      <3> QED BY <3>1, <3>2, <1>1
    <2>2. iwdg' \in Stopped .. Iwdg
      BY <1>2, <1>3 DEF Types, TypeOK, Stopped
    <2> QED BY <1>1, <2>1, <2>2 DEF Types, TypeOK
  <1>5. AgesAgree' /\ GraceAgrees'
    BY <1>1 DEF AgesAgree, AgeAgrees, GraceAgrees
  <1>6. WorkersAreFresh'
    BY <1>1, <1>2 DEF WorkersAreFresh, Works
  <1>7. WatchdogCounts'
    <2>1. CASE MayFeed /\ iwdg' = 0
      <3>1. \A c \in Needed : hung[c] <= Longest
        BY <1>1, <2>1, FeedingIsEarned
      <3> QED BY <3>1, <2>1, <1>1, <1>2 DEF WatchdogCounts
    <2>2. CASE iwdg' = iwdg
      BY <2>2, <1>1 DEF WatchdogCounts
    <2> QED BY <2>1, <2>2, <1>3
  <1>8. WorkIsFed'
    <2>1. ASSUME \A c \in Needed : Works(c) PROVE MayFeed
      <3>1. ASSUME NEW t \in Safety, ~InGrace PROVE ~Stale(t)
        <4>1. t \in Tasks /\ Works(t)
          BY <2>1 DEF Needed, WatchdogConstants
        <4>2. ~(boot < Grace)
          BY <3>1 DEF InGrace
        <4>3. beat[t] # Unseen /\ beat[t] <= Timeout[t]
          BY <4>1, <4>2 DEF WorkersAreFresh
        <4>4. beat[t] \in Int /\ Timeout[t] \in Nat
          BY <4>1, TypeFacts, LongestBounds
        <4> QED BY <4>3, <4>4 DEF Stale
      <3> QED BY <2>1, <3>1 DEF MayFeed, Healthy, HeartbeatFault, Needed
    <2>2. ASSUME \A c \in Needed : Works(c) PROVE iwdg' <= 0
      BY <2>1, <2>2, <1>3 DEF Stopped
    <2> QED BY <2>2, <1>1 DEF WorkIsFed, Works
  <1>9. PermitIsFresh'
    <2>1. ASSUME monitor'.permit
          PROVE  iwdg # Stopped /\ ~HeartbeatFault
      BY <2>1, <1>1 DEF Ready, Healthy
    <2>2. ASSUME monitor'.permit PROVE iwdg' # Stopped
      BY <2>1, <2>2, <1>3 DEF Stopped
    <2>3. ASSUME monitor'.permit, NEW t \in Safety
          PROVE  silent[t] <= Tolerated(t)
      <3>1. /\ t \in Tasks /\ Timeout[t] \in Nat /\ Timeout[t] < Horizon(t)
            /\ beat[t] \in Int /\ silent[t] \in Nat /\ Horizon(t) \in Nat
            /\ boot \in Nat /\ Grace \in Nat
        BY <1>2, LongestBounds, TypeFacts DEF WatchdogConstants
      <3>2. CASE beat[t] = Unseen
        <4>1. boot < Grace
          BY <2>1, <2>3, <3>2 DEF HeartbeatFault, Stale, InGrace
        <4> QED BY <3>1, <3>2, <4>1 DEF AgesAgree, AgeAgrees, Tolerated
      <3>3. CASE beat[t] # Unseen
        <4>1. ~(beat[t] > Timeout[t])
          BY <2>1, <2>3, <3>3 DEF HeartbeatFault, Stale
        <4> QED BY <3>1, <3>3, <4>1 DEF AgesAgree, AgeAgrees, Tolerated
      <3> QED BY <3>2, <3>3
    <2>4. ASSUME monitor'.permit, NEW t \in Safety
          PROVE  silent'[t] <= Tolerated(t)' + monitor'.age
      <3>1. /\ t \in Tasks /\ Timeout[t] \in Nat /\ Grace \in Nat
            /\ monitor'.age = 0 /\ silent' = silent /\ beat' = beat
        BY <1>1, <1>2, LongestBounds DEF WatchdogConstants
      <3>2. Tolerated(t)' = Tolerated(t) /\ Tolerated(t) \in Nat
        BY <3>1 DEF Tolerated
      <3> QED BY <3>1, <3>2, <2>3, <2>4
    <2> QED BY <2>2, <2>4 DEF PermitIsFresh
  <1> QED BY <1>4, <1>5, <1>6, <1>7, <1>8, <1>9

(* A tick ages everything alike; what works is in time before it.          *)
LEMMA TickInv == ASSUME WatchdogConstants, Inv, Tick PROVE Inv'
  <1> USE DEF Inv
  <1>1. /\ InTime
        /\ beat' = [t \in Tasks |-> Aged(beat[t], Horizon(t))]
        /\ boot' = Least(boot + 1, Grace)
        /\ monitor' = [monitor EXCEPT
                         !.age = Least(@ + 1, Period + Patience + 1)]
        /\ iwdg' = Aged(iwdg, Iwdg)
        /\ hung' = [c \in Culprits |-> Aged(hung[c], Patience + 1)]
        /\ silent' = [t \in Tasks |-> Least(silent[t] + 1, Silence(t))]
    BY DEF Tick
  <1>2. /\ Longest \in Nat /\ Patience \in Nat /\ Period \in Nat
        /\ Grace \in Nat /\ Iwdg \in Nat /\ MaxLate \in Nat
        /\ Longest >= Grace /\ Period < Iwdg
    BY LongestBounds DEF WatchdogConstants
  <1>3. ASSUME NEW t \in Tasks
        PROVE  /\ Horizon(t) \in Nat /\ beat'[t] = Aged(beat[t], Horizon(t))
               /\ beat'[t] \in Int /\ -1 <= beat'[t]
               /\ beat'[t] <= Horizon(t) /\ beat'[t] <= beat[t] + 1
               /\ beat'[t] = -1 <=> beat[t] = -1
               /\ beat[t] # -1 /\ beat'[t] # Horizon(t) =>
                    beat'[t] = beat[t] + 1 /\ beat[t] # Horizon(t)
    <2>1. /\ Horizon(t) \in Nat /\ beat[t] \in Int /\ -1 <= beat[t]
          /\ beat[t] <= Horizon(t)
      BY LongestBounds, TypeFacts
    <2>2. beat'[t] = Aged(beat[t], Horizon(t))
      BY <1>1
    <2>3. /\ Aged(beat[t], Horizon(t)) \in Int
          /\ Aged(beat[t], Horizon(t)) >= -1
          /\ Aged(beat[t], Horizon(t)) <= Horizon(t)
          /\ Aged(beat[t], Horizon(t)) <= beat[t] + 1
          /\ Aged(beat[t], Horizon(t)) = -1 <=> beat[t] = -1
          /\ beat[t] # -1 /\ beat[t] # Horizon(t) =>
               Aged(beat[t], Horizon(t)) = beat[t] + 1
          /\ beat[t] = Horizon(t) =>
               Aged(beat[t], Horizon(t)) \in {Horizon(t), -1}
      BY <2>1, Ageing
    <2> QED BY <2>1, <2>2, <2>3
  <1>4. ASSUME NEW t \in Tasks
        PROVE  silent'[t] \in 0 .. Silence(t)
               /\ silent'[t] <= silent[t] + 1
    BY <1>1, <1>2, LongestBounds, TypeFacts DEF Least
  <1>5. ASSUME NEW c \in Culprits
        PROVE  /\ hung'[c] \in Int /\ -1 <= hung'[c]
               /\ hung'[c] <= Patience + 1 /\ hung'[c] <= hung[c] + 1
               /\ hung'[c] = -1 <=> hung[c] = -1
    <2>1. hung[c] \in Int /\ -1 <= hung[c] /\ hung[c] <= Patience + 1
      BY TypeFacts
    <2>2. hung'[c] = Aged(hung[c], Patience + 1) /\ Patience + 1 \in Nat
      BY <1>1, <1>2
    <2> QED BY <2>1, <2>2, Ageing
  <1>6. /\ boot' \in 0 .. Grace /\ boot' <= boot + 1
        /\ boot' = Grace \/ (boot' = boot + 1 /\ boot < Grace)
    BY <1>1, <1>2, TypeFacts DEF Least
  <1>7. /\ monitor' \in [age : 0 .. Period + Patience + 1,
                         fault : BOOLEAN, permit : BOOLEAN]
        /\ monitor'.permit = monitor.permit
        /\ monitor.age < Period => monitor'.age = monitor.age + 1
        /\ monitor.age \in Nat
    <2>1. /\ monitor \in [age : 0 .. Period + Patience + 1,
                          fault : BOOLEAN, permit : BOOLEAN]
          /\ monitor.age \in Nat
      BY TypeFacts DEF Types, TypeOK
    <2>2. /\ Least(monitor.age + 1, Period + Patience + 1)
               \in 0 .. Period + Patience + 1
          /\ monitor.age < Period =>
               Least(monitor.age + 1, Period + Patience + 1)
                 = monitor.age + 1
      BY <2>1, <1>2 DEF Least
    <2> QED BY <1>1, <2>1, <2>2
  <1>8. /\ iwdg' \in Stopped .. Iwdg
        /\ iwdg # Stopped => iwdg' = iwdg + 1
        /\ iwdg' = Stopped <=> iwdg = Stopped
        /\ iwdg \in Int
    <2>1. iwdg \in Int /\ -1 <= iwdg /\ iwdg <= Iwdg /\ iwdg # Iwdg
      BY <1>1, TypeFacts DEF InTime
    <2> QED BY <1>1, <1>2, <2>1, Ageing DEF Stopped
  <1>9. \A c \in Culprits : Works(c)' <=> Works(c)
    BY <1>5 DEF Works
  <1>10. Types'
    <2>1. /\ beat' \in [Tasks -> Int] /\ silent' \in [Tasks -> Nat]
          /\ hung' \in [Culprits -> Int]
      <3>1. \A t \in Tasks : Aged(beat[t], Horizon(t)) \in Int
        BY <1>3
      <3>2. \A t \in Tasks :
              Least(silent[t] + 1, Silence(t)) \in Nat
        BY <1>1, <1>2, <1>4, LongestBounds
      <3>3. \A c \in Culprits : Aged(hung[c], Patience + 1) \in Int
        BY <1>1, <1>5
      <3> QED BY <3>1, <3>2, <3>3, <1>1
    <2>2. \A t \in Tasks : beat'[t] \in Unseen .. Horizon(t)
      BY <1>3 DEF Unseen
    <2>3. \A c \in Culprits : hung'[c] \in -1 .. Patience + 1
      BY <1>2, <1>5
    <2> QED BY <2>1, <2>2, <2>3, <1>3, <1>4, <1>5, <1>6, <1>7, <1>8
            DEF Types, TypeOK, Unseen
  <1>11. AgesAgree'
    <2>1. ASSUME NEW t \in Tasks PROVE AgeAgrees(t)'
      <3>1. /\ t \in Culprits /\ beat[t] \in Int /\ silent[t] \in Nat
            /\ hung[t] \in Int /\ hung'[t] \in Int /\ silent'[t] \in Int
            /\ hung'[t] <= hung[t] + 1 /\ silent'[t] <= silent[t] + 1
            /\ boot \in Nat /\ boot' \in Int
        BY TypeFacts, <1>2, <1>4, <1>5, <1>6, LongestBounds
      <3>2. CASE beat[t] = -1
        <4>1. beat'[t] = -1
          BY <3>2, <1>3
        <4>2. /\ silent[t] <= boot \/ boot = Grace
              /\ hung[t] <= boot \/ boot = Grace
          BY <3>2 DEF AgesAgree, AgeAgrees, Unseen
        <4>3. /\ silent'[t] <= boot' \/ boot' = Grace
              /\ hung'[t] <= boot' \/ boot' = Grace
          BY <3>1, <4>2, <1>2, <1>6
        <4> QED BY <4>1, <4>3 DEF AgeAgrees, Unseen
      <3>3. CASE beat[t] # -1
        <4>1. /\ beat'[t] # -1
              /\ beat'[t] # Horizon(t) =>
                   beat'[t] = beat[t] + 1 /\ beat[t] # Horizon(t)
          BY <3>3, <1>3
        <4>2. /\ silent[t] <= beat[t] \/ beat[t] = Horizon(t)
              /\ hung[t] <= beat[t] \/ beat[t] = Horizon(t)
          BY <3>3 DEF AgesAgree, AgeAgrees, Unseen
        <4>3. /\ silent'[t] <= beat'[t] \/ beat'[t] = Horizon(t)
              /\ hung'[t] <= beat'[t] \/ beat'[t] = Horizon(t)
          BY <3>1, <4>1, <4>2
        <4> QED BY <4>1, <4>3 DEF AgeAgrees, Unseen, Horizon
      <3> QED BY <3>2, <3>3
    <2> QED BY <2>1 DEF AgesAgree
  <1>12. GraceAgrees'
    <2>1. ASSUME boot' < Grace, NEW c \in Culprits PROVE hung'[c] <= boot'
      <3>1. /\ boot' = boot + 1 /\ boot < Grace /\ boot \in Nat
            /\ hung[c] \in Int /\ hung'[c] \in Int
            /\ hung'[c] <= hung[c] + 1
        BY <2>1, <1>2, <1>5, <1>6, TypeFacts
      <3> QED BY <3>1 DEF GraceAgrees
    <2> QED BY <2>1 DEF GraceAgrees
  <1>13. WorkersAreFresh'
    <2>1. ASSUME NEW t \in Tasks, Works(t)'
          PROVE  IF beat'[t] = Unseen THEN boot' < Grace
                                      ELSE beat'[t] <= Timeout[t]
      <3>1. t \in Culprits /\ Works(t)
        BY <2>1, <1>9, TypeFacts
      <3>2. IF beat[t] = Unseen THEN boot + 1 < Grace
                                ELSE beat[t] < Timeout[t]
        BY <3>1, <1>1 DEF InTime
      <3>3. /\ beat[t] \in Int /\ Timeout[t] \in Nat /\ boot \in Nat
            /\ boot' \in Int /\ boot' <= boot + 1
        BY TypeFacts, LongestBounds, <1>2, <1>6
      <3>4. /\ beat'[t] \in Int /\ beat'[t] <= beat[t] + 1
            /\ beat'[t] = -1 <=> beat[t] = -1
        BY <1>3
      <3> QED BY <3>2, <3>3, <3>4, <1>2 DEF Unseen
    <2>2. ASSUME Works(Supervisor)' PROVE monitor'.age <= Period
      <3>1. Works(Supervisor)
        BY <2>2, <1>9, TypeFacts
      <3>2. monitor.age < Period
        BY <3>1, <1>1 DEF InTime
      <3> QED BY <3>2, <1>2, <1>7
    <2> QED BY <2>1, <2>2 DEF WorkersAreFresh
  <1>14. WatchdogCounts'
    <2>1. ASSUME iwdg' # Stopped, NEW c \in Needed
          PROVE  hung'[c] <= Longest + iwdg'
      <3>1. /\ c \in Culprits /\ iwdg # Stopped /\ iwdg' = iwdg + 1
            /\ iwdg \in Int /\ hung[c] \in Int
        BY <2>1, <1>8, TypeFacts
      <3>2. hung[c] <= Longest + iwdg
        BY <3>1 DEF WatchdogCounts
      <3>3. hung'[c] \in Int /\ hung'[c] <= hung[c] + 1
        BY <3>1, <1>5
      <3> QED BY <3>1, <3>2, <3>3, <1>2
    <2> QED BY <2>1 DEF WatchdogCounts
  <1>15. WorkIsFed'
    <2>1. ASSUME \A c \in Needed : Works(c)' PROVE iwdg' <= monitor'.age
      <3>1. \A c \in Needed : Works(c)
        BY <2>1, <1>9, TypeFacts
      <3>2. iwdg <= monitor.age /\ monitor.age < Period
        BY <3>1, <1>1 DEF WorkIsFed, InTime, Needed
      <3>3. monitor'.age = monitor.age + 1
        BY <3>2, <1>7
      <3> QED BY <3>2, <3>3, <1>7, <1>8 DEF Stopped
    <2> QED BY <2>1 DEF WorkIsFed
  <1>16. PermitIsFresh'
    <2>1. ASSUME monitor'.permit, Works(Supervisor)'
          PROVE  /\ monitor.permit /\ Works(Supervisor)
                 /\ monitor'.age = monitor.age + 1
      BY <2>1, <1>1, <1>7, <1>9, TypeFacts DEF InTime
    <2>2. ASSUME monitor'.permit, Works(Supervisor)', NEW t \in Safety
          PROVE  silent'[t] <= Tolerated(t)' + monitor'.age
      <3>1. /\ t \in Tasks /\ Timeout[t] \in Nat /\ silent[t] \in Nat
            /\ Horizon(t) \in Nat
        BY LongestBounds, TypeFacts DEF WatchdogConstants
      <3>2. silent[t] <= Tolerated(t) + monitor.age
        BY <2>1, <2>2 DEF PermitIsFresh
      <3>3. silent'[t] \in Int /\ silent'[t] <= silent[t] + 1
        BY <3>1, <1>2, <1>4
      <3>4. Tolerated(t)' = Tolerated(t) /\ Tolerated(t) \in Nat
        BY <3>1, <1>3, LongestBounds DEF Tolerated, Unseen
      <3> QED BY <2>1, <2>2, <3>1, <3>2, <3>3, <3>4, <1>7
    <2>3. ASSUME monitor'.permit, Works(Supervisor)' PROVE iwdg' # Stopped
      BY <2>1, <2>3, <1>8 DEF PermitIsFresh
    <2> QED BY <2>2, <2>3 DEF PermitIsFresh
  <1> QED BY <1>10, <1>11, <1>12, <1>13, <1>14, <1>15, <1>16

(* Every step keeps the invariant.                                         *)
LEMMA NextInv == ASSUME WatchdogConstants, Inv, [Next]_vars PROVE Inv'
  <1>1. CASE Next
    BY <1>1, ResetInv, KickInv, HangInv, SuperviseInv, TickInv DEF Next
  <1>2. CASE UNCHANGED vars
    BY <1>2 DEF vars, Inv, Types, TypeOK, AgesAgree, AgeAgrees, GraceAgrees,
                WorkersAreFresh, WatchdogCounts, WorkIsFed, PermitIsFresh,
                Tolerated, Works
  <1> QED BY <1>1, <1>2

(* The invariant always holds.                                             *)
LEMMA InvAlways == ASSUME WatchdogConstants PROVE Spec => []Inv
  BY InitInv, NextInv, PTL DEF Spec

-----------------------------------------------------------------------------
(* What was fresh at the supervisor's last pass is a period older at most. *)
LEMMA PermitSound == ASSUME WatchdogConstants, Inv PROVE PermitIsAlive
  <1>1. ASSUME monitor.permit, Works(Supervisor), NEW t \in Safety
        PROVE  silent[t] <= Tolerated(t) + Period
    <2>1. /\ t \in Tasks /\ silent[t] \in Nat /\ Timeout[t] \in Nat
          /\ monitor.age \in Nat /\ Period \in Nat /\ Tolerated(t) \in Nat
      BY LongestBounds, TypeFacts DEF Inv, WatchdogConstants
    <2>2. /\ silent[t] <= Tolerated(t) + monitor.age
          /\ monitor.age <= Period
      BY <1>1 DEF Inv, PermitIsFresh, WorkersAreFresh
    <2> QED BY <2>1, <2>2
  <1> QED BY <1>1 DEF Inv, PermitIsFresh, PermitIsAlive

(* The watchdog has counted with the hang since it was last fed.           *)
LEMMA HangSound == ASSUME WatchdogConstants, Inv PROVE HungIsReset
  <1>1. ASSUME iwdg # Stopped, NEW c \in Safety \cup {Supervisor, Integrity}
        PROVE  hung[c] <= Patience
    <2>1. c \in Needed /\ hung[c] \in Int /\ iwdg \in Int /\ iwdg <= Iwdg
      BY TypeFacts DEF Inv, Needed
    <2>2. hung[c] <= Longest + iwdg
      BY <1>1, <2>1 DEF Inv, WatchdogCounts
    <2>3. Longest \in Nat /\ Period \in Nat /\ Iwdg \in Nat
      BY LongestBounds DEF WatchdogConstants
    <2> QED BY <2>1, <2>2, <2>3 DEF Patience
  <1> QED BY <1>1 DEF HungIsReset

(* While everything needed works, the watchdog is no older than the        *)
(* supervisor's last pass.                                                 *)
LEMMA ResetSound == ASSUME WatchdogConstants, Inv PROVE ResetIsEarned
  <1>1. ASSUME iwdg = Iwdg, \A c \in Needed : Works(c) PROVE FALSE
    <2>1. iwdg <= monitor.age /\ monitor.age <= Period
      BY <1>1 DEF Inv, WorkIsFed, WorkersAreFresh, Needed
    <2>2. /\ monitor.age \in Nat /\ Period \in Nat /\ Iwdg \in Nat
          /\ Period < Iwdg
      BY TypeFacts DEF Inv, WatchdogConstants
    <2> QED BY <1>1, <2>1, <2>2
  <1> QED BY <1>1 DEF ResetIsEarned, Reset, Needed

-----------------------------------------------------------------------------
(* The permission does not outlive a silent safety task: within its        *)
(* timeout, or within the grace if it has not kicked since the reset, and  *)
(* one period of error_task_fn it is gone, and it is never given without a *)
(* running watchdog.                                                       *)
THEOREM PermitIsAliveAlways ==
  ASSUME WatchdogConstants PROVE Spec => []PermitIsAlive
  <1>1. Inv => PermitIsAlive
    BY PermitSound
  <1> QED BY <1>1, InvAlways, PTL

(* With the watchdog running, nothing the software needs stays hung for    *)
(* longer than the longest timeout, a period and the watchdog's own time.  *)
THEOREM HungIsAlwaysReset ==
  ASSUME WatchdogConstants PROVE Spec => []HungIsReset
  <1>1. Inv => HungIsReset
    BY HangSound
  <1> QED BY <1>1, InvAlways, PTL

(* A system that works is never reset, whatever a task outside             *)
(* AMS_HEARTBEAT_SAFETY_MASK does.                                         *)
THEOREM ResetIsAlwaysEarned ==
  ASSUME WatchdogConstants PROVE Spec => [][ResetIsEarned]_vars
  <1>1. Inv /\ [Next]_vars => [ResetIsEarned]_vars
    BY ResetSound
  <1> QED BY <1>1, InvAlways, PTL DEF Spec

=============================================================================
