-------------------------- MODULE ModeSwitchProofs --------------------------
(***************************************************************************)
(* A profile change for every set of profiles, every list and every fault:  *)
(* what the daemon remembers of it across crashes, what it asks the module  *)
(* to do, when it gives up and how often it rolls back, and that a change   *)
(* is one step or none to who asked for it: ProfileSwitch is implemented.   *)
(***************************************************************************)
EXTENDS ModeSwitch, TLAPS

(***************************************************************************)
(* The clocks: the age of a pending switch, in memory and as the next       *)
(* daemon would read it, does not run ahead of the time since the request.  *)
(***************************************************************************)
AgesBehind ==
  /\ m.pending => m.age <= waited
  /\ disk.pending => disk.age <= waited

\* A rollback may only be sent by a life of the daemon that has sent none.
RollbackLeft ==
  /\ m.pending /\ ~m.rolledBack /\ lives < MaxLives => rollbacks <= lives
  /\ RollbackPerLife

IInv ==
  /\ TypeOK
  /\ Mirrored
  /\ WayBackIsOrigin
  /\ AgesBehind
  /\ RollbackLeft

-----------------------------------------------------------------------------

\* Counting up to a bound.
LEMMA UptoBound ==
  ASSUME NEW max \in Nat, NEW n \in 0..max
  PROVE  /\ Upto(max, n) \in 0..max
         /\ n <= Upto(max, n)
         /\ Upto(max, n) <= n + 1
         /\ n < max => Upto(max, n) = n + 1
         /\ n >= max => Upto(max, n) = n
BY DEF Upto

\* Two clocks that are advanced together stay in order.
LEMMA UptoMonotone ==
  ASSUME NEW max \in Nat, NEW n \in 0..max, NEW k \in 0..max, n <= k
  PROVE  Upto(max, n) <= Upto(max, k)
BY DEF Upto

\* Clocks that have just been reset.
LEMMA Zero == 0 \in 0..StuckAfter /\ 0 \in 0..(Grace + 1)
BY ConstantsAssumption

\* The daemon that starts from a section of the right type is of the right
\* type, and believes what the section says.
LEMMA BootType ==
  ASSUME NEW d \in Section
  PROVE  /\ Boot(d) \in Switch
         /\ Boot(d).pending = d.pending
         /\ Boot(d).pending => /\ Boot(d).target = d.target
                               /\ Boot(d).rollback = d.rollback
                               /\ Boot(d).age = d.age
         /\ Boot(d).pending <=> Boot(d).st # "IDLE"
         /\ Boot(d).rolledBack = FALSE
         /\ Boot(d).st # "STUCK"
BY Zero DEF Boot, CarriedAge, Section, Switch, AnyMode

\* A section that is written, wholly or in part, is of the right type.
LEMMA NotePendingType ==
  ASSUME NEW d \in Section, NEW t \in AnyMode, NEW r \in AnyMode,
         NEW k \in 0..4
  PROVE  /\ NotePending(d, t, r, k) \in Section
         /\ d.pending => NotePending(d, t, r, k).pending
         /\ NotePending(d, t, r, k).rollback \in {r, d.rollback}
         /\ NotePending(d, t, r, k).age <= d.age
         /\ ~d.pending /\ NotePending(d, t, r, k).pending
              => k = 4
<1>1. NotePending(d, t, r, k).pending \in BOOLEAN
  BY DEF NotePending, Section
<1>2. /\ NotePending(d, t, r, k).target \in AnyMode
      /\ NotePending(d, t, r, k).rollback \in AnyMode
  BY DEF NotePending, Section
<1>3. NotePending(d, t, r, k).age \in 0..StuckAfter
  BY Zero DEF NotePending, Section
<1>4. NotePending(d, t, r, k) \in Section
  BY <1>1, <1>2, <1>3, Zero DEF NotePending, Section
<1>5. NotePending(d, t, r, k).age <= d.age
  BY ConstantsAssumption DEF NotePending, Section
<1>6. k >= 4 => k = 4
  OBVIOUS
<1>7. /\ d.pending => NotePending(d, t, r, k).pending
      /\ ~d.pending /\ NotePending(d, t, r, k).pending => k = 4
  BY <1>6, Zenon DEF NotePending
<1> QED
  BY <1>4, <1>5, <1>7 DEF NotePending

\* A section that is written as a whole says what the daemon knows.
LEMMA NotedWhole ==
  ASSUME NEW d \in Section, NEW t \in AnyMode, NEW r \in AnyMode
  PROVE  /\ NotePending(d, t, r, 4) \in Section
         /\ NotePending(d, t, r, 4).pending = TRUE
         /\ NotePending(d, t, r, 4).rollback = r
         /\ NotePending(d, t, r, 4).target = t
         /\ NotePending(d, t, r, 4).age = 0
<1>1. NotePending(d, t, r, 4)
        = [rollback |-> r, target |-> t, age |-> 0, pending |-> TRUE]
  <2>1. 4 >= 1 /\ 4 >= 2 /\ 4 >= 3 /\ 4 >= 4
    OBVIOUS
  <2> QED
    BY <2>1, Zenon DEF NotePending
<1>2. [rollback |-> r, target |-> t, age |-> 0, pending |-> TRUE] \in Section
  BY Zero DEF Section
<1>3. NotePending(d, t, r, 4) \in Section
  BY <1>1, <1>2, Zenon
<1>4. NotePending(d, t, r, 4).pending = TRUE
  BY <1>1, <1>3, SMT DEF Section
<1>5. /\ NotePending(d, t, r, 4).rollback = r
      /\ NotePending(d, t, r, 4).target = t
      /\ NotePending(d, t, r, 4).age = 0
  BY <1>1
<1> QED
  BY <1>3, <1>4, <1>5, Zenon

\* The initial states satisfy the inductive invariant.
LEMMA InitIInv == Init => IInv
<1> SUFFICES ASSUME Init PROVE IInv
  OBVIOUS
<1>1. disk \in Section /\ disk.pending = FALSE
  BY ConstantsAssumption DEF Init, Section, AnyMode
<1>2. m = Boot(disk)
  BY DEF Init
<1>3. m \in Switch /\ m.pending = FALSE /\ m.st = "IDLE"
  BY <1>1, <1>2, BootType DEF Switch
<1>4. TypeOK
  <2>1. 0 \in 0..(MaxLives + 1) /\ 0 \in 0..MaxLives
    BY ConstantsAssumption
  <2> QED
    BY <1>1, <1>3, <2>1, Zero DEF Init, TypeOK, AnyMode
<1>5. Mirrored /\ WayBackIsOrigin /\ AgesBehind
  BY <1>1, <1>3 DEF Mirrored, WayBackIsOrigin, AgesBehind
<1>6. RollbackLeft
  BY <1>3 DEF RollbackLeft, RollbackPerLife, Init
<1> QED
  BY <1>4, <1>5, <1>6 DEF IInv

-----------------------------------------------------------------------------

\* What the exchange leaves in the module is a profile.
LEMMA WriteModeType ==
  ASSUME NEW t \in Mode, NEW answer, written \in AnyMode, WriteMode(t, answer)
  PROVE  written' \in AnyMode /\ written' \in {written, t}
BY DEF WriteMode, AnyMode

\* A request of the user preserves the invariant.
LEMMA ApplyIInv == IInv /\ Apply => IInv'
<1> SUFFICES ASSUME IInv, Apply PROVE IInv'
  OBVIOUS
<1> PICK t \in Mode, answer \in {"ok", "error", "timeout"} :
      /\ MayApply(t)
      /\ WriteMode(t, answer)
      /\ m' = Applied(Begun(t), answer)
      /\ disk' = IF answer = "error"
                 THEN ClearPending(NotePending(disk, t, m.current, 4))
                 ELSE NotePending(disk, t, m.current, 4)
      /\ BeginHistory
      /\ UNCHANGED <<portFound, mode, present, hotplug>>
  BY DEF Apply
<1> DEFINE noted == NotePending(disk, t, m.current, 4)
<1>1. m \in Switch /\ disk \in Section /\ t \in AnyMode
      /\ m.current \in AnyMode
  BY DEF IInv, TypeOK, AnyMode, Switch
<1>2. /\ noted \in Section /\ noted.pending /\ noted.rollback = m.current
      /\ noted.target = t /\ noted.age = 0
  BY <1>1, NotedWhole, ZenonT(60)
<1> HIDE DEF noted
<1>3. Begun(t) \in Switch /\ Begun(t).target = t /\ Begun(t).pending
      /\ Begun(t).rollback = m.current /\ Begun(t).age = 0
      /\ Begun(t).rolledBack = FALSE
  BY <1>1, Zero DEF Begun, Switch
<1>4. CASE answer = "error"
  <2>1. disk' = ClearPending(noted) /\ m' = Settle(Begun(t), -1, FALSE)
    BY <1>4 DEF Applied, noted
  <2>2. disk' \in Section /\ disk'.pending = FALSE
    BY <1>2, <2>1 DEF ClearPending, Section
  <2>3. m' \in Switch /\ m'.pending = FALSE /\ m'.st = "IDLE"
    BY <1>3, <2>1 DEF Settle, Switch
  <2>4. TypeOK'
    BY <1>1, <2>2, <2>3, WriteModeType, ConstantsAssumption
    DEF IInv, TypeOK, BeginHistory
  <2>5. Mirrored' /\ WayBackIsOrigin' /\ AgesBehind'
    BY <2>2, <2>3 DEF Mirrored, WayBackIsOrigin, AgesBehind
  <2>6. RollbackLeft'
    BY <2>3 DEF RollbackLeft, RollbackPerLife, BeginHistory
  <2> QED
    BY <2>4, <2>5, <2>6 DEF IInv
<1>5. CASE answer # "error"
  <2>1. disk' = noted
        /\ m' = [Begun(t) EXCEPT !.st = "VERIFY", !.applied = 0]
    BY <1>5 DEF Applied, noted
  <2>2. /\ m' \in Switch /\ m'.pending /\ m'.st = "VERIFY"
        /\ m'.target = t /\ m'.rollback = m.current /\ m'.age = 0
    BY <1>3, <2>1, Zero DEF Switch
  <2>3. disk' \in Section /\ disk'.pending = TRUE
    BY <1>2, <2>1 DEF Section
  <2>4. TypeOK'
    BY <1>1, <2>2, <2>3, WriteModeType, ConstantsAssumption
    DEF IInv, TypeOK, BeginHistory
  <2>5. Mirrored' /\ WayBackIsOrigin'
    BY <1>2, <2>1, <2>2, <2>3
    DEF Mirrored, WayBackIsOrigin, BeginHistory, Switch
  <2>6. AgesBehind'
    BY <1>2, <2>1, <2>2 DEF AgesBehind, BeginHistory
  <2>7. RollbackLeft'
    BY DEF RollbackLeft, RollbackPerLife, BeginHistory
  <2> QED
    BY <2>4, <2>5, <2>6, <2>7 DEF IInv
<1> QED
  BY <1>4, <1>5

\* The identity chain preserves the invariant.
LEMMA IdentifyIInv ==
  ASSUME IInv, Identify, portFound' \in BOOLEAN,
         UNCHANGED <<mode, present, hotplug>>
  PROVE  IInv'
<1>0. m \in Switch /\ disk \in Section /\ mode \in Mode
  BY DEF IInv, TypeOK
<1>1. CASE ReadFailed
  <2>1. PICK caps \in BOOLEAN : m' = [Forgotten EXCEPT !.caps = caps]
    BY <1>1 DEF ReadFailed
  <2>2. /\ m' \in Switch /\ m'.pending = m.pending /\ m'.st = m.st
        /\ m'.target = m.target /\ m'.rollback = m.rollback
        /\ m'.age = m.age /\ m'.rolledBack = m.rolledBack
    BY <1>0, <2>1 DEF Forgotten, Switch, AnyMode
  <2> QED
    BY <1>1, <2>2
    DEF ReadFailed, history, IInv, TypeOK, Mirrored, WayBackIsOrigin,
        AgesBehind, RollbackLeft, RollbackPerLife
<1>2. CASE ReadSettles
  <2>1. PICK caps \in BOOLEAN : m' = [Noted(Forgotten, mode) EXCEPT !.caps = caps]
    BY <1>2 DEF ReadSettles
  <2>2. UNCHANGED <<written, history>>
    BY <1>2 DEF ReadSettles
  <2>3. CASE ~m.pending \/ m.target = NoMode
    <3>1. /\ m' \in Switch /\ m'.pending = m.pending /\ m'.st = m.st
          /\ m'.target = m.target /\ m'.rollback = m.rollback
          /\ m'.age = m.age /\ m'.rolledBack = m.rolledBack
      BY <1>0, <2>1, <2>3 DEF Noted, Forgotten, Switch, AnyMode
    <3>2. UNCHANGED disk
      BY <1>2, <2>3 DEF ReadSettles
    <3> QED
      BY <2>2, <3>1, <3>2
      DEF history, IInv, TypeOK, Mirrored, WayBackIsOrigin, AgesBehind,
          RollbackLeft, RollbackPerLife
  <2>4. CASE m.pending /\ m.target # NoMode
    <3>1. m' \in Switch /\ m'.pending = FALSE /\ m'.st = "IDLE"
      BY <1>0, <2>1, <2>4 DEF Noted, Forgotten, Settle, Switch, AnyMode
    <3>2. disk' = ClearPending(disk)
      BY <1>2, <2>4 DEF ReadSettles
    <3>3. disk' \in Section /\ disk'.pending = FALSE
      BY <1>0, <3>2 DEF ClearPending, Section
    <3> QED
      BY <2>2, <3>1, <3>3
      DEF history, IInv, TypeOK, Mirrored, WayBackIsOrigin, AgesBehind,
          RollbackLeft, RollbackPerLife
  <2> QED
    BY <1>0, <2>3, <2>4 DEF Switch
<1>3. CASE ReadRollsBack
  <2>1. PICK caps \in BOOLEAN :
          m' = [RolledBack(Forgotten, mode) EXCEPT !.caps = caps]
    BY <1>3 DEF ReadRollsBack
  <2>2. /\ m.pending /\ m.rolledBack = FALSE /\ m.rollback \in Mode
        /\ m.rollback \in AnyMode
    BY <1>0, <1>3 DEF ReadRollsBack, RollsBack, GivesUp, Switch, AnyMode
  <2>3. /\ m' \in Switch /\ m'.pending = TRUE /\ m'.st = "APPLY"
        /\ m'.target = m.rollback /\ m'.rollback = m.rollback
        /\ m'.age = m.age /\ m'.rolledBack = TRUE
    BY <1>0, <2>1, <2>2, Zero
    DEF RolledBack, Forgotten, Switch, AnyMode
  <2>4. /\ disk' \in Section /\ disk'.pending = TRUE
        /\ disk'.rollback = m.rollback /\ disk'.target = m.rollback
        /\ disk'.age = 0
    <3>1. disk' = NotePending(disk, m.rollback, m.rollback, 4)
      BY <1>3 DEF ReadRollsBack
    <3> QED
      BY <1>0, <2>2, <3>1, NotedWhole, ZenonT(60)
  <2>5. /\ rollbacks' = Upto(MaxLives + 1, rollbacks)
        /\ UNCHANGED <<origin, waited, lives>>
    BY <1>3 DEF ReadRollsBack
  <2>6. written' \in AnyMode
    <3>1. \E answer \in {"ok", "error", "timeout"} :
            WriteMode(m.rollback, answer)
      BY <1>3 DEF ReadRollsBack
    <3> QED
      BY <2>2, <3>1, WriteModeType DEF IInv, TypeOK
  <2>7. /\ rollbacks' \in 0..(MaxLives + 1)
        /\ rollbacks' <= rollbacks + 1
    BY <2>5, UptoBound, ConstantsAssumption DEF IInv, TypeOK
  <2>8. TypeOK'
    BY <2>3, <2>4, <2>5, <2>6, <2>7 DEF IInv, TypeOK
  <2>9. Mirrored' /\ WayBackIsOrigin'
    BY <2>2, <2>3, <2>4, <2>5 DEF IInv, Mirrored, WayBackIsOrigin
  <2>10. AgesBehind'
    BY <2>2, <2>3, <2>4, <2>5 DEF IInv, TypeOK, AgesBehind
  <2>11. RollbackLeft'
    <3>1. lives \in 0..MaxLives /\ rollbacks \in 0..(MaxLives + 1)
      BY DEF IInv, TypeOK
    <3>2. CASE lives < MaxLives
      <4>1. rollbacks <= lives
        BY <2>2, <3>2 DEF IInv, RollbackLeft
      <4> QED
        BY <2>3, <2>5, <2>7, <3>1, <4>1, ConstantsAssumption
        DEF RollbackLeft, RollbackPerLife
    <3>3. CASE lives = MaxLives
      BY <2>3, <2>5, <2>7, <3>1, <3>3, ConstantsAssumption
      DEF RollbackLeft, RollbackPerLife
    <3> QED
      BY <3>1, <3>2, <3>3, ConstantsAssumption
  <2> QED
    BY <2>8, <2>9, <2>10, <2>11 DEF IInv
<1> QED
  BY <1>1, <1>2, <1>3 DEF Identify

\* A bound that holds below the maximum, and one more at it.
LEMMA AtMostOneMore ==
  ASSUME NEW max \in Nat, NEW n \in 0..max, NEW k \in 0..(max + 1),
         n < max => k <= n
  PROVE  k <= 1 + n
OBVIOUS

\* A restart after a crash, wherever it hit, preserves what the section says.
LEMMA RespawnIInv ==
  ASSUME NEW d \in Section, Respawn(d), TypeOK,
         written' \in AnyMode, origin' \in AnyMode, waited' \in 0..StuckAfter,
         rollbacks' \in 0..(MaxLives + 1), lives' \in 0..MaxLives,
         d.pending => /\ d.rollback = origin'
                      /\ d.age <= waited',
         lives' < MaxLives => rollbacks' <= lives'
  PROVE  IInv'
<1>1. /\ disk' = d /\ m' = Boot(d)
      /\ UNCHANGED <<mode, present, hotplug>>
      /\ portFound' \in BOOLEAN
  BY DEF Respawn
<1>2. /\ m' \in Switch
      /\ m'.pending = d.pending
      /\ m'.pending => /\ m'.target = d.target
                       /\ m'.rollback = d.rollback
                       /\ m'.age = d.age
      /\ m'.pending <=> m'.st # "IDLE"
  BY <1>1, BootType
<1>3. TypeOK'
  BY <1>1, <1>2 DEF TypeOK
<1>4. Mirrored' /\ WayBackIsOrigin' /\ AgesBehind'
  BY <1>1, <1>2 DEF Mirrored, WayBackIsOrigin, AgesBehind
<1>5. rollbacks' <= 1 + lives'
  BY AtMostOneMore, ConstantsAssumption
<1>6. RollbackLeft'
  BY <1>5 DEF RollbackLeft, RollbackPerLife
<1> QED
  BY <1>3, <1>4, <1>6 DEF IInv

\* The daemon dies between two handlers.
LEMMA CrashIInv == IInv /\ Crash => IInv'
<1> SUFFICES ASSUME IInv, Crash PROVE IInv'
  OBVIOUS
<1>1. /\ Respawn(disk) /\ lives' = Upto(MaxLives, lives)
      /\ UNCHANGED <<written, origin, waited, rollbacks>>
  BY DEF Crash
<1>2. /\ disk \in Section /\ written \in AnyMode /\ origin \in AnyMode
      /\ waited \in 0..StuckAfter /\ rollbacks \in 0..(MaxLives + 1)
      /\ lives \in 0..MaxLives
  BY DEF IInv, TypeOK
<1>3. /\ lives' \in 0..MaxLives
      /\ lives' < MaxLives => lives' = lives + 1
  BY <1>1, <1>2, ConstantsAssumption DEF Upto
<1>4. lives' < MaxLives => rollbacks' <= lives'
  BY <1>1, <1>2, <1>3 DEF IInv, RollbackLeft, RollbackPerLife
<1>5. disk.pending => disk.rollback = origin' /\ disk.age <= waited'
  BY <1>1 DEF IInv, WayBackIsOrigin, AgesBehind
<1> QED
  BY <1>1, <1>2, <1>3, <1>4, <1>5, RespawnIInv DEF IInv

\* It dies while a request of the user is carried out.
LEMMA CrashInApplyIInv == IInv /\ CrashInApply => IInv'
<1> SUFFICES ASSUME IInv, CrashInApply PROVE IInv'
  OBVIOUS
<1> PICK t \in Mode, k \in 0..4 :
      /\ MayApply(t)
      /\ Respawn(NotePending(disk, t, m.current, k))
      /\ written' \in IF k = 4 /\ present THEN {written, t} ELSE {written}
      /\ BeginHistory
  BY DEF CrashInApply
<1> DEFINE d == NotePending(disk, t, m.current, k)
<1>1. /\ m \in Switch /\ disk \in Section /\ t \in AnyMode
      /\ m.current \in AnyMode /\ written \in AnyMode
  BY DEF IInv, TypeOK, AnyMode, Switch
<1>2. ~disk.pending
  BY DEF IInv, Mirrored, MayApply
<1>3. /\ d \in Section
      /\ d.pending => d.rollback = m.current /\ d.age = 0
  <2>1. d \in Section /\ (d.pending => k = 4)
    BY <1>1, <1>2, NotePendingType
  <2>2. k = 4 => d.rollback = m.current /\ d.age = 0
    <3>1. /\ NotePending(disk, t, m.current, 4).rollback = m.current
          /\ NotePending(disk, t, m.current, 4).age = 0
      BY <1>1, NotedWhole, ZenonT(60)
    <3> QED
      BY <3>1
  <2> QED
    BY <2>1, <2>2
<1>4. /\ origin' = m.current /\ waited' = 0 /\ rollbacks' = 0 /\ lives' = 0
  BY DEF BeginHistory
<1>5. 0 \in 0..(MaxLives + 1) /\ 0 \in 0..MaxLives
  BY ConstantsAssumption
<1>6. written' \in AnyMode
  BY <1>1
<1>7. Respawn(d)
  OBVIOUS
<1> HIDE DEF d
<1> QED
  BY <1>1, <1>3, <1>4, <1>5, <1>6, <1>7, Zero, RespawnIInv DEF IInv

\* It dies while it rolls a switch back.
LEMMA CrashInRollbackIInv == IInv /\ CrashInRollback => IInv'
<1> SUFFICES ASSUME IInv, CrashInRollback PROVE IInv'
  OBVIOUS
<1> PICK k \in 0..4 :
      /\ Respawn(NotePending(disk, m.rollback, m.rollback, k))
      /\ \/ written' = written /\ UNCHANGED rollbacks
         \/ /\ k = 4
            /\ written' \in {written, m.rollback}
            /\ rollbacks' = Upto(MaxLives + 1, rollbacks)
  BY DEF CrashInRollback
<1> DEFINE d == NotePending(disk, m.rollback, m.rollback, k)
<1>1. /\ m \in Switch /\ disk \in Section /\ m.rollback \in AnyMode
      /\ written \in AnyMode /\ origin \in AnyMode
      /\ waited \in 0..StuckAfter /\ rollbacks \in 0..(MaxLives + 1)
      /\ lives \in 0..MaxLives /\ disk.age \in 0..StuckAfter
  BY DEF IInv, TypeOK, Switch, Section
<1>2. /\ m.pending /\ ~m.rolledBack /\ disk.pending
      /\ m.rollback = origin /\ disk.rollback = origin
      /\ disk.age <= waited
  BY DEF CrashInRollback, RollsBack, GivesUp, IInv, Mirrored,
         WayBackIsOrigin, AgesBehind
<1>3. /\ lives' = Upto(MaxLives, lives) /\ UNCHANGED <<origin, waited>>
  BY DEF CrashInRollback
<1>4. /\ d \in Section /\ d.rollback = origin /\ d.age <= disk.age
      /\ d.age \in 0..StuckAfter
  <2>1. d \in Section /\ d.rollback = origin /\ d.age <= disk.age
    BY <1>1, <1>2, NotePendingType
  <2> QED
    BY <2>1 DEF Section
<1>5. d.pending => d.rollback = origin' /\ d.age <= waited'
  BY <1>1, <1>2, <1>3, <1>4
<1>6. /\ lives' \in 0..MaxLives
      /\ lives' < MaxLives => lives' = lives + 1 /\ lives < MaxLives
  BY <1>1, <1>3, ConstantsAssumption DEF Upto
<1>7. rollbacks' \in 0..(MaxLives + 1) /\ rollbacks' <= rollbacks + 1
  <2>1. CASE UNCHANGED rollbacks
    BY <1>1, <2>1, ConstantsAssumption
  <2>2. CASE rollbacks' = Upto(MaxLives + 1, rollbacks)
    BY <1>1, <2>2, ConstantsAssumption DEF Upto
  <2> QED
    BY <2>1, <2>2
<1>8. lives' < MaxLives => rollbacks' <= lives'
  <2> SUFFICES ASSUME lives' < MaxLives PROVE rollbacks' <= lives'
    OBVIOUS
  <2>1. rollbacks <= lives
    BY <1>2, <1>6 DEF IInv, RollbackLeft
  <2> QED
    BY <1>1, <1>6, <1>7, <2>1
<1>9. written' \in AnyMode
  BY <1>1
<1>10. Respawn(d)
  OBVIOUS
<1> HIDE DEF d
<1> QED
  BY <1>1, <1>3, <1>4, <1>5, <1>6, <1>7, <1>8, <1>9, <1>10, RespawnIInv
  DEF IInv

-----------------------------------------------------------------------------

\* The clocks are advanced together.
LEMMA ElapseIInv == IInv /\ Elapse => IInv'
<1> SUFFICES ASSUME IInv, Elapse PROVE IInv'
  OBVIOUS
<1>1. /\ m \in Switch /\ disk \in Section /\ waited \in 0..StuckAfter
      /\ m.age \in 0..StuckAfter /\ m.applied \in 0..(Grace + 1)
      /\ disk.age \in 0..StuckAfter
  BY DEF IInv, TypeOK, Switch, Section
<1>2. /\ Upto(StuckAfter, m.age) \in 0..StuckAfter
      /\ Upto(Grace + 1, m.applied) \in 0..(Grace + 1)
      /\ Upto(StuckAfter, disk.age) \in 0..StuckAfter
      /\ Upto(StuckAfter, waited) \in 0..StuckAfter
      /\ waited <= Upto(StuckAfter, waited)
  BY <1>1, ConstantsAssumption DEF Upto
<1>3. /\ m' \in Switch /\ m'.st = m.st /\ m'.pending = m.pending
      /\ m'.target = m.target /\ m'.rollback = m.rollback
      /\ m'.rolledBack = m.rolledBack
      /\ m.pending => m'.age = Upto(StuckAfter, m.age)
  BY <1>1, <1>2 DEF Elapse, Switch
<1>4. /\ disk' \in Section /\ disk'.pending = disk.pending
      /\ disk'.target = disk.target /\ disk'.rollback = disk.rollback
      /\ disk.pending => disk'.age = Upto(StuckAfter, disk.age)
  BY <1>1, <1>2 DEF Elapse, Section
<1>5. /\ waited' = Upto(StuckAfter, waited)
      /\ UNCHANGED <<portFound, mode, written, present, hotplug, origin,
                     rollbacks, lives>>
  BY DEF Elapse, module
<1>6. TypeOK'
  BY <1>2, <1>3, <1>4, <1>5 DEF IInv, TypeOK
<1>7. Mirrored' /\ WayBackIsOrigin' /\ RollbackLeft'
  BY <1>3, <1>4, <1>5
  DEF IInv, Mirrored, WayBackIsOrigin, RollbackLeft, RollbackPerLife
<1>8. AgesBehind'
  <2>1. m.pending => Upto(StuckAfter, m.age) <= Upto(StuckAfter, waited)
    BY <1>1, UptoMonotone, ConstantsAssumption DEF IInv, AgesBehind
  <2>2. disk.pending => Upto(StuckAfter, disk.age) <= Upto(StuckAfter, waited)
    BY <1>1, UptoMonotone, ConstantsAssumption DEF IInv, AgesBehind
  <2> QED
    BY <1>3, <1>4, <1>5, <2>1, <2>2 DEF AgesBehind
<1> QED
  BY <1>6, <1>7, <1>8 DEF IInv

\* The housekeeping timer touches nothing but the stage of a pending switch.
LEMMA TickIInv == IInv /\ Tick => IInv'
<1> SUFFICES ASSUME IInv, Tick PROVE IInv'
  OBVIOUS
<1>1. m \in Switch /\ m.pending = TRUE /\ m.st # "IDLE"
  BY DEF IInv, TypeOK, Mirrored, Tick, Switch
<1>2. /\ m' \in Switch /\ m'.st # "IDLE" /\ m'.pending = m.pending
      /\ m'.target = m.target /\ m'.rollback = m.rollback
      /\ m'.age = m.age /\ m'.rolledBack = m.rolledBack
  BY <1>1 DEF Tick, Looking, Switch
<1> QED
  BY <1>1, <1>2
  DEF Tick, module, history, IInv, TypeOK, Mirrored, WayBackIsOrigin,
      AgesBehind, RollbackLeft, RollbackPerLife

\* A switch that is given up by hand leaves nothing behind.
LEMMA ClearByHandIInv == IInv /\ ClearByHand => IInv'
<1> SUFFICES ASSUME IInv, ClearByHand PROVE IInv'
  OBVIOUS
<1>1. /\ disk' = ClearPending(disk) /\ m' = Boot(disk')
      /\ portFound' \in BOOLEAN /\ UNCHANGED <<module, hotplug, history>>
  BY DEF ClearByHand
<1>2. disk' \in Section /\ disk'.pending = FALSE
  BY <1>1 DEF ClearPending, Section, IInv, TypeOK
<1>3. m' \in Switch /\ m'.pending = FALSE /\ m'.st = "IDLE"
  BY <1>1, <1>2, BootType DEF Switch
<1> QED
  BY <1>1, <1>2, <1>3
  DEF module, history, IInv, TypeOK, Mirrored, WayBackIsOrigin, AgesBehind,
      RollbackLeft, RollbackPerLife

\* Every step preserves the inductive invariant.
LEMMA NextIInv == IInv /\ [Next]_vars => IInv'
<1> SUFFICES ASSUME IInv, [Next]_vars PROVE IInv'
  OBVIOUS
<1>1. CASE Apply
  BY <1>1, ApplyIInv
<1>2. CASE Probe
  BY <1>2, IdentifyIInv DEF Probe
<1>3. CASE Ident
  <2>1. portFound' \in BOOLEAN
    BY <1>3 DEF Ident, IInv, TypeOK
  <2> QED
    BY <1>3, <2>1, IdentifyIInv DEF Ident
<1>4. CASE Rescan
  BY <1>4
  DEF Rescan, module, history, IInv, TypeOK, Mirrored, WayBackIsOrigin,
      AgesBehind, RollbackLeft, RollbackPerLife
<1>5. CASE Tick
  BY <1>5, TickIInv
<1>6. CASE Elapse
  BY <1>6, ElapseIInv
<1>7. CASE Leave
  BY <1>7
  DEF Leave, history, IInv, TypeOK, Mirrored, WayBackIsOrigin,
      AgesBehind, RollbackLeft, RollbackPerLife
<1>8. CASE Return
  BY <1>8
  DEF Return, history, AnyMode, IInv, TypeOK, Mirrored, WayBackIsOrigin,
      AgesBehind, RollbackLeft, RollbackPerLife
<1>9. CASE Recover
  BY <1>9
  DEF Recover, history, AnyMode, IInv, TypeOK, Mirrored, WayBackIsOrigin,
      AgesBehind, RollbackLeft, RollbackPerLife
<1>10. CASE ClearByHand
  BY <1>10, ClearByHandIInv
<1>11. CASE Crash
  BY <1>11, CrashIInv
<1>12. CASE CrashInApply
  BY <1>12, CrashInApplyIInv
<1>13. CASE CrashInRollback
  BY <1>13, CrashInRollbackIInv
<1>14. CASE UNCHANGED vars
  BY <1>14
  DEF vars, IInv, TypeOK, Mirrored, WayBackIsOrigin, AgesBehind,
      RollbackLeft, RollbackPerLife
<1> QED
  BY <1>1, <1>2, <1>3, <1>4, <1>5, <1>6, <1>7, <1>8, <1>9, <1>10, <1>11,
     <1>12, <1>13, <1>14 DEF Next, Daemon, Environment

\* Every reachable state satisfies the inductive invariant.
THEOREM Invariance == Spec => []IInv
BY InitIInv, NextIInv, PTL DEF Spec

\* Every variable has its type.
THEOREM TypeCorrect == Spec => []TypeOK
BY Invariance, PTL DEF IInv

\* No crash, wherever it hits, forgets a switch, invents one or changes the
\* way back: memory and configuration agree after every handler.
THEOREM MemoryIsDisk == Spec => []Mirrored
BY Invariance, PTL DEF IInv

\* The rollback point is the profile the module was in when the user asked.
THEOREM WayBack == Spec => []WayBackIsOrigin
BY Invariance, PTL DEF IInv

\* A life of the daemon sends at most one rollback for a switch.
THEOREM OneRollbackPerLife == Spec => []RollbackPerLife
BY Invariance, PTL DEF IInv, RollbackLeft

-----------------------------------------------------------------------------

\* The identity chain never ends in the stage STUCK if it did not start in it.
LEMMA IdentifyStage ==
  ASSUME TypeOK, Identify, m.st # "STUCK"
  PROVE  m'.st # "STUCK"
<1>0. m \in Switch
  BY DEF TypeOK
<1>1. CASE ReadFailed
  BY <1>0, <1>1 DEF ReadFailed, Forgotten, Switch
<1>2. CASE ReadSettles
  <2>1. PICK caps \in BOOLEAN : m' = [Noted(Forgotten, mode) EXCEPT !.caps = caps]
    BY <1>2 DEF ReadSettles
  <2>2. CASE ~m.pending \/ m.target = NoMode
    BY <1>0, <2>1, <2>2 DEF Noted, Forgotten, Switch
  <2>3. CASE m.pending /\ m.target # NoMode
    BY <1>0, <2>1, <2>3 DEF Noted, Forgotten, Settle, Switch
  <2> QED
    BY <1>0, <2>2, <2>3 DEF Switch
<1>3. CASE ReadRollsBack
  BY <1>0, <1>3 DEF ReadRollsBack, RolledBack, Forgotten, Switch
<1> QED
  BY <1>1, <1>2, <1>3 DEF Identify

\* The verdict "no AT port" is given on a switch that has had its time.
THEOREM StuckOnlyLate == Spec => StuckHasWaited
<1> DEFINE Late == m.st # "STUCK" /\ m'.st = "STUCK" => waited >= StuckAfter
<1>1. IInv /\ [Next]_vars => Late
  <2> SUFFICES ASSUME IInv, [Next]_vars, m.st # "STUCK" PROVE Late
    OBVIOUS
  <2>0. m \in Switch /\ TypeOK
    BY DEF IInv, TypeOK
  <2>1. CASE Apply
    <3> PICK t \in Mode, answer \in {"ok", "error", "timeout"} :
          m' = Applied(Begun(t), answer)
      BY <2>1 DEF Apply
    <3> QED
      BY <2>0 DEF Applied, Begun, Settle, Switch
  <2>2. CASE Probe \/ Ident
    BY <2>0, <2>2, IdentifyStage DEF Probe, Ident
  <2>3. CASE Tick
    <3>1. m.pending /\ (m'.st = "STUCK" => m.age >= StuckAfter)
      BY <2>0, <2>3 DEF Tick, Looking, Switch
    <3>2. m.age \in 0..StuckAfter /\ waited \in 0..StuckAfter
      BY <2>0 DEF TypeOK, Switch
    <3> QED
      BY <3>1, <3>2, ConstantsAssumption DEF IInv, AgesBehind
  <2>4. CASE Elapse
    BY <2>0, <2>4 DEF Elapse, Switch
  <2>5. CASE ClearByHand
    <3>1. disk' \in Section /\ m' = Boot(disk')
      BY <2>0, <2>5 DEF ClearByHand, ClearPending, TypeOK, Section
    <3> QED
      BY <3>1, BootType
  <2>6. CASE Crash \/ CrashInApply \/ CrashInRollback
    <3>1. PICK d : m' = Boot(d)
      BY <2>6 DEF Crash, CrashInApply, CrashInRollback, Respawn
    <3>2. m'.st # "STUCK"
      BY <3>1 DEF Boot
    <3> QED
      BY <3>2
  <2>7. CASE UNCHANGED m
    BY <2>7
  <2> QED
    BY <2>1, <2>2, <2>3, <2>4, <2>5, <2>6, <2>7
    DEF Next, Daemon, Environment, Rescan, Leave, Return, Recover, vars
<1> QED
  BY <1>1, Invariance, PTL DEF Spec, StuckHasWaited

\* The module is only asked to take a profile both gates allow, or to go back
\* to the one it had.
THEOREM Gates == Spec => GatesHold
<1> DEFINE Gated == \/ written' \in {written, NoMode}
                    \/ written' \in Whitelist \cap Offered
                    \/ written' = origin
<1>1. IInv /\ [Next]_vars => Gated
  <2> SUFFICES ASSUME IInv, [Next]_vars PROVE Gated
    OBVIOUS
  <2>1. CASE Apply
    <3> PICK t \in Mode, answer \in {"ok", "error", "timeout"} :
          MayApply(t) /\ WriteMode(t, answer)
      BY <2>1 DEF Apply
    <3>1. t \in Whitelist \cap Offered
      BY DEF MayApply, Allowed
    <3>2. written' \in {written, t}
      BY DEF WriteMode
    <3> QED
      BY <3>1, <3>2
  <2>2. m.pending => m.rollback = origin
    BY DEF IInv, Mirrored, WayBackIsOrigin
  <2>3. CASE Probe \/ Ident
    <3>1. CASE ReadFailed \/ ReadSettles
      BY <3>1 DEF ReadFailed, ReadSettles
    <3>2. CASE ReadRollsBack
      <4>1. \E answer \in {"ok", "error", "timeout"} :
              WriteMode(m.rollback, answer)
        BY <3>2 DEF ReadRollsBack
      <4>2. written' \in {written, m.rollback}
        BY <4>1 DEF WriteMode
      <4> QED
        BY <2>2, <3>2, <4>2 DEF ReadRollsBack, RollsBack
    <3> QED
      BY <2>3, <3>1, <3>2 DEF Probe, Ident, Identify
  <2>4. CASE CrashInApply
    <3> PICK t \in Mode, k \in 0..4 :
          /\ MayApply(t)
          /\ written' \in IF k = 4 /\ present THEN {written, t} ELSE {written}
      BY <2>4 DEF CrashInApply
    <3> QED
      BY DEF MayApply, Allowed
  <2>5. CASE CrashInRollback
    <3>1. written' \in {written, m.rollback} /\ m.pending
      BY <2>5 DEF CrashInRollback, RollsBack
    <3> QED
      BY <2>2, <3>1
  <2>6. CASE written' = written \/ written' = NoMode
    BY <2>6
  <2> QED
    BY <2>1, <2>3, <2>4, <2>5, <2>6
    DEF Next, Daemon, Environment, Rescan, Tick, Elapse, Leave, Return,
        Recover, ClearByHand, Crash, module, vars
<1> QED
  BY <1>1, Invariance, PTL DEF Spec, GatesHold

-----------------------------------------------------------------------------
(***************************************************************************)
(* The journal is atomic: ProfileSwitch is implemented.  A pending switch   *)
(* has both its profiles, and one that was sent back has the way back as    *)
(* its target.                                                              *)
(***************************************************************************)
PlanOK ==
  m.pending => /\ m.target \in Mode /\ m.rollback \in Mode
               /\ m.rolledBack => m.target = m.rollback

\* The switch a section describes.
PlanOf(d) ==
  IF d.pending THEN {[to |-> d.target, home |-> d.rollback]} ELSE {}

\* A step leaves the plan as it was, or is one of those of ProfileSwitch.
Steps == PlanOK' /\ (Journal!Next \/ UNCHANGED Journal!vars)

LEMMA PlanKnown ==
  ASSUME IInv, PlanOK
  PROVE  /\ Plan = PlanOf(disk) /\ Plan = PlanOf(m)
         /\ m.st = "STUCK" => m.pending
         /\ mode \in Mode /\ mode # NoMode
         /\ m \in Switch /\ disk \in Section
<1>1. m \in Switch /\ disk \in Section /\ mode \in Mode /\ mode # NoMode
  BY ConstantsAssumption DEF IInv, TypeOK
<1> QED
  BY <1>1 DEF IInv, Mirrored, Plan, PlanOf

\* A daemon that comes back has the plan of the section it finds.
LEMMA RespawnPlan ==
  ASSUME NEW d \in Section, Respawn(d),
         d.pending => d.target \in Mode /\ d.rollback \in Mode
  PROVE  /\ PlanOK' /\ Plan' = PlanOf(d)
         /\ m'.st # "STUCK" /\ mode' = mode
<1>1. disk' = d /\ m' = Boot(d) /\ mode' = mode
  BY DEF Respawn
<1>2. /\ m'.pending = d.pending /\ m'.rolledBack = FALSE /\ m'.st # "STUCK"
      /\ m'.pending => m'.target = d.target /\ m'.rollback = d.rollback
  BY <1>1, BootType
<1> QED
  BY <1>1, <1>2 DEF PlanOK, Plan, PlanOf

LEMMA ApplyPlan == ASSUME IInv, PlanOK, Apply PROVE Steps
<1>1. PICK t \in Mode, answer \in {"ok", "error", "timeout"} :
        /\ MayApply(t) /\ WriteMode(t, answer)
        /\ m' = Applied(Begun(t), answer)
        /\ disk' = IF answer = "error"
                   THEN ClearPending(NotePending(disk, t, m.current, 4))
                   ELSE NotePending(disk, t, m.current, 4)
        /\ mode' = mode
  BY DEF Apply
<1>2. /\ m \in Switch /\ disk \in Section /\ Plan = {} /\ m.st # "STUCK"
      /\ t \in AnyMode /\ m.current \in AnyMode /\ m.current \in Mode
      /\ t # m.current /\ t \in Whitelist \cap Offered
  BY <1>1, PlanKnown DEF MayApply, Allowed, PlanOf, Switch, AnyMode
<1>3. PICK noted : noted = NotePending(disk, t, m.current, 4)
  OBVIOUS
<1>4. /\ noted \in Section /\ noted.pending = TRUE
      /\ noted.target = t /\ noted.rollback = m.current
  <2>1. disk \in Section /\ t \in AnyMode /\ m.current \in AnyMode
    BY <1>2
  <2>2. /\ NotePending(disk, t, m.current, 4) \in Section
        /\ NotePending(disk, t, m.current, 4).pending = TRUE
        /\ NotePending(disk, t, m.current, 4).target = t
        /\ NotePending(disk, t, m.current, 4).rollback = m.current
    BY <2>1, NotedWhole, ZenonT(60)
  <2> QED
    BY <1>3, <2>2
<1>5. CASE answer = "error"
  <2>1. m'.pending = FALSE /\ m'.st = "IDLE"
    BY <1>1, <1>2, <1>5 DEF Applied, Begun, Settle, Switch
  <2>2. disk'.pending = FALSE
    BY <1>1, <1>3, <1>4, <1>5 DEF ClearPending, Section
  <2>3. written' = written
    BY <1>1, <1>5 DEF WriteMode
  <2>4. PlanOK' /\ Plan' = {}
    BY <2>1, <2>2 DEF PlanOK, Plan
  <2> QED
    BY <1>1, <1>2, <2>1, <2>3, <2>4 DEF Steps, Journal!vars
<1>6. CASE answer # "error"
  <2>1. /\ m'.pending = TRUE /\ m'.target = t /\ m'.rollback = m.current
        /\ m'.rolledBack = FALSE /\ m'.st = "VERIFY"
    BY <1>1, <1>2, <1>6 DEF Applied, Begun, Switch
  <2>2. disk' = noted
    BY <1>1, <1>3, <1>6
  <2>3. Plan' = {[to |-> t, home |-> m.current]}
    BY <1>4, <2>2 DEF Plan
  <2>4. written' \in {written, t}
    BY <1>1 DEF WriteMode
  <2>5. PlanOK'
    BY <1>2, <2>1 DEF PlanOK
  <2>6. Journal!Begin
    BY <1>1, <1>2, <2>1, <2>3, <2>4 DEF Journal!Begin
  <2> QED
    BY <2>5, <2>6 DEF Steps, Journal!Next
<1> QED
  BY <1>5, <1>6

LEMMA IdentifyPlan ==
  ASSUME IInv, PlanOK, Identify, mode' = mode
  PROVE  Steps
<1>0. /\ m \in Switch /\ disk \in Section /\ mode \in Mode /\ mode # NoMode
      /\ Plan = PlanOf(m) /\ m.pending = disk.pending
  BY PlanKnown DEF IInv, Mirrored
<1>1. PICK caps \in BOOLEAN :
        \/ ReadFailed /\ m' = [Forgotten EXCEPT !.caps = caps]
        \/ ReadSettles /\ m' = [Noted(Forgotten, mode) EXCEPT !.caps = caps]
        \/ ReadRollsBack /\ m' = [RolledBack(Forgotten, mode) EXCEPT !.caps = caps]
  BY DEF Identify, ReadFailed, ReadSettles, ReadRollsBack
<1>2. ASSUME UNCHANGED <<disk, written>>, m'.st = m.st,
             m'.pending = m.pending, m'.target = m.target,
             m'.rollback = m.rollback, m'.rolledBack = m.rolledBack
      PROVE  Steps
  BY <1>2 DEF Steps, Journal!vars, PlanOK, Plan
<1>3. CASE ReadFailed /\ m' = [Forgotten EXCEPT !.caps = caps]
  BY <1>0, <1>2, <1>3 DEF ReadFailed, Forgotten, Switch
<1>4. CASE ReadSettles /\ m' = [Noted(Forgotten, mode) EXCEPT !.caps = caps]
  <2>1. CASE ~m.pending
    <3>1. UNCHANGED <<disk, written>>
      BY <1>4, <2>1 DEF ReadSettles
    <3> QED
      BY <1>0, <1>2, <1>4, <2>1, <3>1 DEF Noted, Forgotten, Switch
  <2>2. CASE m.pending
    <3>1. m.target \in Mode /\ m.rollback \in Mode /\ m.target # NoMode
      BY <2>2, ConstantsAssumption DEF PlanOK
    <3>2. m'.pending = FALSE /\ m'.st = "IDLE"
      BY <1>0, <1>4, <2>2, <3>1 DEF Noted, Forgotten, Settle, Switch
    <3>3. disk'.pending = FALSE /\ written' = written
      BY <1>0, <1>4, <2>2, <3>1 DEF ReadSettles, ClearPending, Section
    <3>4. PlanOK' /\ Plan' = {}
      BY <3>2, <3>3 DEF PlanOK, Plan
    <3>5. mode \in {m.target, m.rollback} \/ m.target = m.rollback
      BY <1>0, <1>4, <2>2, <3>1, ConstantsAssumption
         DEF ReadSettles, RollsBack, GivesUp, PlanOK
    <3>6. Plan = {[to |-> m.target, home |-> m.rollback]}
      BY <1>0, <2>2 DEF PlanOf
    <3>7. Journal!End
      BY <3>2, <3>3, <3>4, <3>5, <3>6 DEF Journal!End
    <3> QED
      BY <3>4, <3>7 DEF Steps, Journal!Next
  <2> QED
    BY <1>0, <2>1, <2>2 DEF Switch
<1>5. CASE /\ ReadRollsBack
           /\ m' = [RolledBack(Forgotten, mode) EXCEPT !.caps = caps]
  <2>1. /\ m.pending /\ m.target \in Mode /\ m.rollback \in Mode
        /\ mode \notin {m.target, m.rollback}
    BY <1>5 DEF ReadRollsBack, RollsBack, GivesUp, PlanOK
  <2>2. /\ m'.pending = m.pending /\ m'.target = m.rollback
        /\ m'.rollback = m.rollback /\ m'.st = "APPLY"
    BY <1>0, <1>5 DEF RolledBack, Forgotten, Switch
  <2>3. disk' = NotePending(disk, m.rollback, m.rollback, 4)
    BY <1>5 DEF ReadRollsBack
  <2>4. /\ disk'.pending = TRUE /\ disk'.target = m.rollback
        /\ disk'.rollback = m.rollback
    <3>1. disk \in Section /\ m.rollback \in AnyMode
      BY <1>0, <2>1 DEF AnyMode
    <3>2. /\ NotePending(disk, m.rollback, m.rollback, 4).pending = TRUE
          /\ NotePending(disk, m.rollback, m.rollback, 4).target = m.rollback
          /\ NotePending(disk, m.rollback, m.rollback, 4).rollback = m.rollback
      BY <3>1, NotedWhole, ZenonT(60)
    <3> QED
      BY <2>3, <3>2
  <2>5. written' \in {written, m.rollback}
    BY <1>5 DEF ReadRollsBack, WriteMode
  <2>6. /\ Plan = {[to |-> m.target, home |-> m.rollback]}
        /\ Plan' = {[to |-> m.rollback, home |-> m.rollback]}
    BY <1>0, <2>1, <2>4 DEF PlanOf, Plan
  <2>7. Journal!GoBack
    BY <2>1, <2>2, <2>5, <2>6 DEF Journal!GoBack
  <2>8. PlanOK'
    BY <2>1, <2>2 DEF PlanOK
  <2> QED
    BY <2>7, <2>8 DEF Steps, Journal!Next
<1> QED
  BY <1>1, <1>3, <1>4, <1>5

LEMMA CrashPlan ==
  ASSUME IInv, PlanOK, Crash \/ CrashInApply \/ CrashInRollback
  PROVE  Steps
<1>0. /\ m \in Switch /\ disk \in Section /\ mode \in Mode
      /\ Plan = PlanOf(m) /\ Plan = PlanOf(disk)
      /\ m.pending = disk.pending
      /\ m.pending => /\ m.target = disk.target /\ m.rollback = disk.rollback
                      /\ disk.target \in Mode /\ disk.rollback \in Mode
  BY PlanKnown DEF IInv, Mirrored, PlanOK
<1>1. ASSUME NEW d \in Section, Respawn(d), PlanOf(d) = Plan,
             d.pending => d.target \in Mode /\ d.rollback \in Mode,
             written' = written
      PROVE  Steps
  <2>1. PlanOK' /\ Plan' = Plan /\ m'.st # "STUCK" /\ mode' = mode
    BY <1>1, RespawnPlan
  <2>2. Journal!TakeUp
    BY <1>1, <2>1 DEF Journal!TakeUp
  <2> QED
    BY <2>1, <2>2 DEF Steps, Journal!Next
<1>2. CASE Crash
  BY <1>0, <1>1, <1>2 DEF Crash
<1>3. CASE CrashInApply
  <2>1. PICK t \in Mode, k \in 0..4 :
          /\ MayApply(t)
          /\ Respawn(NotePending(disk, t, m.current, k))
          /\ written' \in IF k = 4 /\ present THEN {written, t} ELSE {written}
    BY <1>3 DEF CrashInApply
  <2>2. /\ t \in AnyMode /\ m.current \in AnyMode /\ m.current \in Mode
        /\ t # m.current /\ t \in Whitelist \cap Offered
        /\ ~m.pending /\ m.st # "STUCK" /\ Plan = {}
    BY <1>0, <2>1 DEF MayApply, Allowed, Switch, AnyMode, PlanOf
  <2>3. PICK d : d = NotePending(disk, t, m.current, k)
    OBVIOUS
  <2>4. d \in Section /\ (d.pending => k = 4)
    BY <1>0, <2>2, <2>3, NotePendingType
  <2>5. k = 4 => /\ d.pending = TRUE
                 /\ d.target = t /\ d.rollback = m.current
    <3>1. disk \in Section /\ t \in AnyMode /\ m.current \in AnyMode
      BY <1>0, <2>2
    <3>2. /\ NotePending(disk, t, m.current, 4).pending = TRUE
          /\ NotePending(disk, t, m.current, 4).target = t
          /\ NotePending(disk, t, m.current, 4).rollback = m.current
      BY <3>1, NotedWhole, ZenonT(60)
    <3> QED
      BY <2>3, <3>2
  <2>6. CASE ~d.pending
    <3>1. PlanOf(d) = Plan
      BY <2>2, <2>6 DEF PlanOf
    <3>2. CASE written' = written
      BY <1>1, <2>1, <2>3, <2>4, <2>6, <3>1, <3>2
    <3>3. k # 4
      BY <2>6, <2>5
    <3> QED
      BY <2>1, <3>2, <3>3
  <2>7. CASE d.pending
    <3>1. d.target = t /\ d.rollback = m.current
      BY <2>4, <2>7, <2>5
    <3>2. /\ PlanOK' /\ Plan' = PlanOf(d) /\ m'.st # "STUCK" /\ mode' = mode
      BY <2>1, <2>2, <2>3, <2>4, <3>1, RespawnPlan
    <3>3. Plan' = {[to |-> t, home |-> m.current]}
      BY <2>7, <3>1, <3>2 DEF PlanOf
    <3>4. written' \in {written, t}
      BY <2>1
    <3>5. Journal!Begin
      BY <2>2, <3>2, <3>3, <3>4 DEF Journal!Begin
    <3> QED
      BY <3>2, <3>5 DEF Steps, Journal!Next
  <2> QED
    BY <2>6, <2>7
<1>4. CASE CrashInRollback
  <2>1. PICK k \in 0..4 :
          /\ Respawn(NotePending(disk, m.rollback, m.rollback, k))
          /\ written' \in {written, m.rollback}
          /\ k # 4 => written' = written
    BY <1>4 DEF CrashInRollback
  <2>2. /\ m.pending /\ m.target \in Mode /\ m.rollback \in Mode
        /\ mode \notin {m.target, m.rollback} /\ m.rollback \in AnyMode
        /\ disk.pending /\ disk.target = m.target
        /\ disk.rollback = m.rollback
    BY <1>0, <1>4 DEF CrashInRollback, RollsBack, GivesUp, AnyMode
  <2>3. PICK d : d = NotePending(disk, m.rollback, m.rollback, k)
    OBVIOUS
  <2>4. /\ d \in Section /\ d.pending /\ d.rollback = m.rollback
        /\ d.target \in {m.target, m.rollback}
        /\ k = 4 => d.target = m.rollback
    <3>1. d \in Section /\ d.pending /\ d.rollback = m.rollback
      BY <1>0, <2>2, <2>3, NotePendingType
    <3>2. d.target = IF k >= 2 THEN m.rollback ELSE disk.target
      BY <2>3 DEF NotePending
    <3> QED
      BY <2>2, <3>1, <3>2
  <2>5. /\ PlanOK' /\ Plan' = PlanOf(d) /\ m'.st # "STUCK" /\ mode' = mode
    BY <2>1, <2>2, <2>3, <2>4, RespawnPlan
  <2>6. /\ Plan = {[to |-> m.target, home |-> m.rollback]}
        /\ Plan' = {[to |-> d.target, home |-> m.rollback]}
    BY <1>0, <2>2, <2>4, <2>5 DEF PlanOf
  <2>7. CASE d.target = m.rollback
    <3>1. Journal!GoBack
      BY <2>1, <2>2, <2>5, <2>6, <2>7 DEF Journal!GoBack
    <3> QED
      BY <2>5, <3>1 DEF Steps, Journal!Next
  <2>8. CASE d.target # m.rollback
    <3>1. Plan' = Plan /\ written' = written
      BY <2>1, <2>4, <2>6, <2>8
    <3>2. Journal!TakeUp
      BY <2>5, <3>1 DEF Journal!TakeUp
    <3> QED
      BY <2>5, <3>2 DEF Steps, Journal!Next
  <2> QED
    BY <2>7, <2>8
<1> QED
  BY <1>2, <1>3, <1>4

LEMMA PlanStep ==
  ASSUME IInv, PlanOK, [Next]_vars
  PROVE  Steps
<1>0. /\ m \in Switch /\ disk \in Section /\ mode \in Mode
      /\ Plan = PlanOf(m) /\ m.pending = disk.pending
  BY PlanKnown DEF IInv, Mirrored
<1>1. ASSUME UNCHANGED <<m, disk, written, mode>> PROVE Steps
  BY <1>1 DEF Steps, Journal!vars, PlanOK, Plan
<1>2. CASE Apply
  BY <1>2, ApplyPlan
<1>3. CASE Probe \/ Ident
  BY <1>3, IdentifyPlan DEF Probe, Ident
<1>4. CASE Rescan \/ Leave \/ UNCHANGED vars
  BY <1>1, <1>4 DEF Rescan, Leave, module, vars
<1>5. CASE Tick
  <2>1. /\ UNCHANGED <<disk, written, mode>> /\ m.pending
        /\ m' = [m EXCEPT !.st = m'.st]
    BY <1>0, <1>5 DEF Tick, module, Switch
  <2>2. PlanOK' /\ UNCHANGED Plan /\ Plan # {}
    BY <1>0, <2>1 DEF PlanOK, Plan, PlanOf, Switch
  <2>3. CASE m'.st = "STUCK"
    BY <2>1, <2>2, <2>3 DEF Steps, Journal!Next, Journal!GiveUp
  <2>4. CASE m'.st # "STUCK"
    BY <2>1, <2>2, <2>4 DEF Steps, Journal!Next, Journal!TakeUp
  <2> QED
    BY <2>3, <2>4
<1>6. CASE Elapse
  <2>1. /\ UNCHANGED <<written, mode>> /\ m'.st = m.st
        /\ m'.pending = m.pending /\ m'.target = m.target
        /\ m'.rollback = m.rollback /\ m'.rolledBack = m.rolledBack
    BY <1>0, <1>6 DEF Elapse, module, Switch
  <2>2. /\ disk'.pending = disk.pending /\ disk'.target = disk.target
        /\ disk'.rollback = disk.rollback
    BY <1>0, <1>6 DEF Elapse, Section
  <2> QED
    BY <2>1, <2>2 DEF Steps, Journal!vars, PlanOK, Plan
<1>7. CASE Return \/ Recover
  <2>1. /\ UNCHANGED <<m, disk>> /\ mode' \in Mode /\ written' = NoMode
    BY <1>0, <1>7 DEF Return, Recover
  <2>2. Journal!Take
    BY <2>1 DEF Journal!Take, Plan
  <2> QED
    BY <2>1, <2>2 DEF Steps, Journal!Next, PlanOK
<1>8. CASE ClearByHand
  <2>1. /\ m.st = "STUCK" /\ m.pending /\ Plan # {}
        /\ UNCHANGED <<written, mode>>
    BY <1>0, <1>8, PlanKnown DEF ClearByHand, module, PlanOf
  <2>2. disk' \in Section /\ disk'.pending = FALSE /\ m' = Boot(disk')
    BY <1>0, <1>8 DEF ClearByHand, ClearPending, Section
  <2>3. m'.pending = FALSE /\ m'.st # "STUCK"
    BY <2>2, BootType
  <2>4. PlanOK' /\ Plan' = {}
    BY <2>2, <2>3 DEF PlanOK, Plan
  <2>5. Journal!End
    BY <2>1, <2>3, <2>4 DEF Journal!End
  <2> QED
    BY <2>4, <2>5 DEF Steps, Journal!Next
<1>9. CASE Crash \/ CrashInApply \/ CrashInRollback
  BY <1>9, CrashPlan
<1> QED
  BY <1>2, <1>3, <1>4, <1>5, <1>6, <1>7, <1>8, <1>9
     DEF Next, Daemon, Environment

LEMMA PlanInit == Init => PlanOK /\ Journal!Init
<1> SUFFICES ASSUME Init PROVE PlanOK /\ Journal!Init
  OBVIOUS
<1>1. IInv
  BY InitIInv
<1>2. disk.pending = FALSE /\ m = Boot(disk) /\ disk \in Section
  BY <1>1 DEF Init, IInv, TypeOK
<1>3. m.pending = FALSE /\ m.st # "STUCK"
  BY <1>2, BootType
<1> QED
  BY <1>2, <1>3 DEF PlanOK, Journal!Init, Plan, Init

\* A switch is begun, sent back and ended whole or not at all, wherever the
\* daemon dies (modesw.c:76-135, 177-221): ProfileSwitch is implemented.
THEOREM JournalIsAtomic == Spec => JournalSpec
<1>1. IInv /\ PlanOK /\ [Next]_vars
        => PlanOK' /\ [Journal!Next]_(Journal!vars)
  BY PlanStep DEF Steps
<1> QED
  BY <1>1, PlanInit, Invariance, PTL DEF Spec, JournalSpec, Journal!Spec

-----------------------------------------------------------------------------
(***************************************************************************)
(* The clock of a switch after which the module cannot be read.  What a     *)
(* respawned daemon goes on from is the age of the section, which may be    *)
(* behind the one in memory: a rollback writes a new stamp and leaves the   *)
(* old one in memory.                                                       *)
(***************************************************************************)
AgeAhead == m.pending => disk.age <= m.age

Unreadable == m.pending /\ ~Readable

\* No step sets the clock back, time moves it, and when it has run out a tick
\* without a port is the verdict.
ClockCarried ==
  Unreadable /\ Unreadable' =>
    /\ disk.age <= disk'.age
    /\ Elapse => disk'.age = Upto(StuckAfter, disk.age)
    /\ Tick /\ m.st = "VERIFY" /\ ~portFound /\ disk.age = StuckAfter
         => m'.st = "STUCK"

LEMMA AgeAheadStep ==
  ASSUME IInv, AgeAhead, [Next]_vars
  PROVE  AgeAhead'
<1>0. /\ m \in Switch /\ disk \in Section /\ m.pending = disk.pending
      /\ disk.age \in 0..StuckAfter /\ m.age \in 0..StuckAfter
      /\ StuckAfter \in Nat
  BY ConstantsAssumption DEF IInv, Mirrored, TypeOK, Section, Switch
<1>1. ASSUME disk'.age = disk.age, m'.age = m.age, m'.pending => m.pending
      PROVE  AgeAhead'
  BY <1>1 DEF AgeAhead
<1>2. ASSUME NEW d \in Section, Respawn(d) PROVE AgeAhead'
  <2>1. disk' = d /\ m' = Boot(d)
    BY <1>2 DEF Respawn
  <2>2. d.age \in 0..StuckAfter
    BY DEF Section
  <2>3. m'.pending = d.pending /\ (d.pending => m'.age = d.age)
    BY <2>1, BootType
  <2> QED
    BY <1>0, <2>1, <2>2, <2>3 DEF AgeAhead
<1>3. CASE Apply
  <2>1. PICK t \in Mode, answer \in {"ok", "error", "timeout"} :
          /\ MayApply(t)
          /\ m' = Applied(Begun(t), answer)
          /\ disk' = IF answer = "error"
                     THEN ClearPending(NotePending(disk, t, m.current, 4))
                     ELSE NotePending(disk, t, m.current, 4)
    BY <1>3 DEF Apply
  <2>2. t \in AnyMode /\ m.current \in AnyMode
    BY <1>0, <2>1 DEF Switch, AnyMode
  <2>3. PICK noted : noted = NotePending(disk, t, m.current, 4)
    OBVIOUS
  <2>4. noted.age = 0 /\ noted \in Section
    <3>1. /\ NotePending(disk, t, m.current, 4) \in Section
          /\ NotePending(disk, t, m.current, 4).age = 0
      BY <1>0, <2>2, NotedWhole, ZenonT(60)
    <3> QED
      BY <2>3, <3>1
  <2>5. disk'.age = 0
    BY <2>1, <2>3, <2>4 DEF ClearPending, Section
  <2>6. m'.age = 0
    BY <1>0, <2>1, Zero DEF Applied, Begun, Settle, Switch
  <2> QED
    BY <2>5, <2>6 DEF AgeAhead
<1>4. CASE Probe \/ Ident
  <2>1. Identify
    BY <1>4 DEF Probe, Ident
  <2>2. m'.age = m.age /\ (m'.pending => m.pending)
    BY <1>0, <2>1 DEF Identify, ReadFailed, ReadSettles, ReadRollsBack,
       Forgotten, Noted, Settle, RolledBack, Switch
  <2>3. CASE ReadFailed \/ ReadSettles
    <3>1. disk'.age = disk.age
      BY <1>0, <2>3 DEF ReadFailed, ReadSettles, ClearPending, Section
    <3> QED
      BY <1>1, <2>2, <3>1
  <2>4. CASE ReadRollsBack
    <3>1. disk' = NotePending(disk, m.rollback, m.rollback, 4)
      BY <2>4 DEF ReadRollsBack
    <3>2. m.rollback \in AnyMode
      BY <1>0 DEF Switch
    <3>3. NotePending(disk, m.rollback, m.rollback, 4).age = 0
      BY <1>0, <3>2, NotedWhole, ZenonT(60)
    <3> QED
      BY <1>0, <2>2, <3>1, <3>3 DEF AgeAhead
  <2> QED
    BY <2>1, <2>3, <2>4 DEF Identify
<1>5. CASE Rescan \/ Leave \/ Return \/ Recover \/ UNCHANGED vars
  BY <1>1, <1>5 DEF Rescan, Leave, Return, Recover, vars
<1>6. CASE Tick
  <2>1. m'.age = m.age /\ m'.pending = m.pending /\ disk' = disk
    BY <1>0, <1>6 DEF Tick, Switch
  <2> QED
    BY <1>1, <2>1
<1>7. CASE Elapse
  <2>1. m'.pending = m.pending
        /\ m'.age = IF m.pending THEN Upto(StuckAfter, m.age) ELSE m.age
    BY <1>0, <1>7 DEF Elapse, Switch
  <2>2. disk'.age = IF disk.pending THEN Upto(StuckAfter, disk.age) ELSE disk.age
    BY <1>0, <1>7 DEF Elapse, Section
  <2> QED
    BY <1>0, <2>1, <2>2 DEF AgeAhead, Upto
<1>8. CASE Crash
  BY <1>0, <1>2, <1>8 DEF Crash
<1>9. CASE CrashInApply
  <2>1. PICK t \in Mode, k \in 0..4 : Respawn(NotePending(disk, t, m.current, k))
    BY <1>9 DEF CrashInApply
  <2>2. NotePending(disk, t, m.current, k) \in Section
    BY <1>0, NotePendingType DEF Switch, AnyMode
  <2> QED
    BY <1>2, <2>1, <2>2
<1>10. CASE CrashInRollback
  <2>1. PICK k \in 0..4 : Respawn(NotePending(disk, m.rollback, m.rollback, k))
    BY <1>10 DEF CrashInRollback
  <2>2. NotePending(disk, m.rollback, m.rollback, k) \in Section
    BY <1>0, NotePendingType DEF Switch
  <2> QED
    BY <1>2, <2>1, <2>2
<1>11. CASE ClearByHand
  <2>1. disk' \in Section /\ disk'.pending = FALSE /\ m' = Boot(disk')
    BY <1>0, <1>11 DEF ClearByHand, ClearPending, Section
  <2> QED
    BY <2>1, BootType DEF AgeAhead
<1> QED
  BY <1>3, <1>4, <1>5, <1>6, <1>7, <1>8, <1>9, <1>10, <1>11
     DEF Next, Daemon, Environment

LEMMA ClockStep ==
  ASSUME IInv, AgeAhead, [Next]_vars
  PROVE  ClockCarried
<1> SUFFICES ASSUME Unreadable, Unreadable' PROVE ClockCarried
  BY DEF ClockCarried
<1>0. /\ m \in Switch /\ disk \in Section /\ m.pending /\ disk.pending
      /\ ~Readable /\ disk.age \in 0..StuckAfter /\ m.age \in 0..StuckAfter
      /\ StuckAfter \in Nat /\ disk.age <= m.age
  BY ConstantsAssumption
     DEF IInv, Mirrored, TypeOK, Section, Switch, Unreadable, AgeAhead
<1>1. Elapse => disk'.age = Upto(StuckAfter, disk.age)
  BY <1>0 DEF Elapse, Section
<1>2. Tick /\ m.st = "VERIFY" /\ ~portFound /\ disk.age = StuckAfter
        => m'.st = "STUCK"
  BY <1>0 DEF Tick, Looking, Switch
<1>3. disk.age <= disk'.age
  <2>1. CASE Elapse
    BY <1>0, <1>1, <2>1 DEF Upto
  <2>2. CASE Apply \/ CrashInApply
    BY <1>0, <2>2 DEF Apply, CrashInApply, MayApply
  <2>3. CASE Probe \/ CrashInRollback \/ ClearByHand
    BY <1>0, <2>3 DEF Probe, CrashInRollback, ClearByHand, Readable
  <2>4. CASE \/ Ident \/ Rescan \/ Tick \/ Leave \/ Return \/ Recover \/ Crash
             \/ UNCHANGED vars
    <3>1. disk' = disk
      BY <1>0, <2>4 DEF Ident, Identify, ReadFailed, ReadSettles,
         ReadRollsBack, Rescan, Tick, Leave, Return, Recover, Crash, Respawn,
         vars
    <3> QED
      BY <1>0, <3>1
  <2> QED
    BY <2>1, <2>2, <2>3, <2>4 DEF Next, Daemon, Environment
<1> QED
  BY <1>1, <1>2, <1>3 DEF ClockCarried

\* While the module cannot be read the clock of the switch only goes forward,
\* however often the daemon is respawned, and when it has run out a tick gives
\* the verdict (modesw.c:118-130, 420-444): what UnreachableIsReported rests on.
THEOREM ClockNeverBack == Spec => [][ClockCarried]_vars
<1>1. Init => AgeAhead
  <2> SUFFICES ASSUME Init PROVE AgeAhead
    OBVIOUS
  <2>1. disk \in Section /\ disk.pending = FALSE /\ m = Boot(disk)
    BY InitIInv DEF Init, IInv, TypeOK
  <2> QED
    BY <2>1, BootType DEF AgeAhead
<1>2. IInv /\ AgeAhead /\ [Next]_vars => AgeAhead'
  BY AgeAheadStep
<1>3. IInv /\ AgeAhead /\ [Next]_vars => ClockCarried
  BY ClockStep
<1> QED
  BY <1>1, <1>2, <1>3, Invariance, PTL DEF Spec
=============================================================================
