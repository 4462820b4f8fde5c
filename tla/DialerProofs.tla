---------------------------- MODULE DialerProofs ----------------------------
(***************************************************************************)
(* Proofs about Dialer, and at the end about the session beside it.         *)
(* What bounds the module resets is that the daemon                         *)
(* counts at least the stamps that are recent, and that the ledger holds    *)
(* every reset that was sent: neither is lost when the daemon dies, because *)
(* the stamp is written first and the count is read back from the ledger.   *)
(***************************************************************************)
EXTENDS DialerSession, FiniteSetTheorems, TLAPS

Flags(x) ==
  /\ x.up <=> x.step = "UP"
  /\ x.wanted /\ x.stopped = "no" <=> x.step \in Working
  /\ x.wanted /\ x.stopped # "no" <=> x.step = "FAILED"

Sub(x) ==
  /\ x.step = "REG" => x.sub < RegSubs
  /\ x.step = "ACTIVATE" /\ x.verb = "none" => x.sub < 2

Good(x) == x \in DialState /\ Flags(x) /\ Sub(x)

EnvOK ==
  /\ port \in {"none", "ok", "dead"}
  /\ profile \in {"unknown", "ecm", "other"}
  /\ clock \in 0..MaxClock
  /\ active \in BOOLEAN
  /\ good \in BOOLEAN

\* The count is no less than what the ledger holds of the window, and what was
\* sent within the window is among it.
LedgerInv(count) ==
  /\ ledger \subseteq Stamp
  /\ sent \subseteq RecentAt(ledger, clock)
  /\ total \in Nat
  /\ IsFiniteSet(ledger)
  /\ Cardinality(RecentAt(ledger, clock)) <= count

IInv == Good(d) /\ EnvOK /\ LedgerInv(d.counted)

-----------------------------------------------------------------------------

(***************************************************************************)
(* The steps of the dialler's own state.                                    *)
(***************************************************************************)

LEMMA ToGood ==
  ASSUME NEW x, Good(x), x.wanted, x.stopped = "no", ~x.up,
         NEW step \in {"PIN", "REG", "APN", "ACTIVATE", "IP"}
  PROVE  /\ Good(To(x, step))
         /\ To(x, step).counted = x.counted
<1> DEFINE y == To(x, step)
<1>1. y \in DialState
  BY DEF Good, To, DialState, Step
<1>2. /\ y.step = step /\ y.sub = 0 /\ y.wanted = x.wanted
      /\ y.stopped = x.stopped /\ y.up = x.up /\ y.counted = x.counted
  BY DEF Good, To, DialState
<1>3. Flags(y)
  <2> HIDE DEF y
  <2> QED
    BY <1>2 DEF Flags, Working
<1>4. Sub(y)
  <2> HIDE DEF y
  <2> QED
    BY <1>2, ConstantsAssumption DEF Sub
<1> QED
  BY <1>1, <1>2, <1>3, <1>4 DEF Good

\* What the flags are about is untouched.
LEMMA SameGood ==
  ASSUME NEW x, Good(x), NEW y \in DialState,
         y.step = x.step, y.sub = x.sub, y.verb = x.verb,
         y.wanted = x.wanted, y.stopped = x.stopped, y.up = x.up
  PROVE  Good(y)
BY DEF Good, Flags, Sub

LEMMA ConfiguredGood ==
  ASSUME NEW x, Good(x), NEW c \in Confs
  PROVE  /\ Good(Configured(x, c))
         /\ Configured(x, c).counted = x.counted
<1> DEFINE y == Configured(x, c)
           r == "reset" \in c
           a == "auto" \in c
           e == ("auto" \in c) /\ x.autostartDone
           p == ("apn" \in c) \/ x.apn
<1>1. y = [x EXCEPT !.allowReset = r, !.autostart = a, !.autostartDone = e,
                    !.apn = p]
  BY DEF Configured, Good, DialState
<1>2. r \in BOOLEAN /\ a \in BOOLEAN /\ e \in BOOLEAN /\ p \in BOOLEAN
  <2>1. x.autostartDone \in BOOLEAN /\ x.apn \in BOOLEAN
    BY DEF Good, DialState
  <2>2. (r = TRUE \/ r = FALSE) /\ (a = TRUE \/ a = FALSE)
    OBVIOUS
  <2>3. e = TRUE \/ e = FALSE
    BY <2>1, Zenon
  <2>4. p = TRUE \/ p = FALSE
    BY <2>1, Zenon
  <2> HIDE DEF r, a, e, p
  <2> QED
    BY <2>2, <2>3, <2>4
<1> HIDE DEF y, r, a, e, p
<1>3. y \in DialState
  BY <1>1, <1>2, ZenonT(60) DEF Good, DialState
<1>4. /\ y.step = x.step /\ y.sub = x.sub /\ y.verb = x.verb
      /\ y.wanted = x.wanted /\ y.stopped = x.stopped /\ y.up = x.up
      /\ y.counted = x.counted
  BY <1>1 DEF Good, DialState
<1>5. Good(y)
  BY <1>3, <1>4, SameGood
<1> QED
  BY <1>4, <1>5 DEF y

LEMMA BootGood ==
  ASSUME NEW c \in Confs, NEW count \in 0..Limit
  PROVE  /\ Good(Boot(c, count))
         /\ Boot(c, count).counted = count
<1> DEFINE fresh ==
    [step |-> "IDLE", sub |-> 0, wanted |-> FALSE, stopped |-> "no",
     verb |-> "none", attempt |-> 0, ipPolls |-> 0, up |-> FALSE,
     wasUp |-> FALSE, resting |-> FALSE, counted |-> count,
     allowReset |-> FALSE, autostart |-> FALSE, autostartDone |-> FALSE,
     configError |-> FALSE, apn |-> FALSE, kind |-> "unknown"]
<1>1. Good(fresh)
  <2>1. fresh \in DialState
    BY ConstantsAssumption DEF DialState, Step
  <2>2. Flags(fresh)
    BY DEF Flags, Working
  <2>3. Sub(fresh)
    BY DEF Sub
  <2> QED
    BY <2>1, <2>2, <2>3 DEF Good
<1>2. fresh.counted = count
  OBVIOUS
<1>3. Boot(c, count) = Configured(fresh, c)
  BY DEF Boot
<1> QED
  BY <1>1, <1>2, <1>3, ConfiguredGood

LEMMA StartedGood ==
  ASSUME NEW x, Good(x)
  PROVE  /\ Good(Started(x))
         /\ Started(x).counted = x.counted
<1>1. ASSUME NEW y, y = [x EXCEPT !.configError = TRUE]
      PROVE  Good(y) /\ y.counted = x.counted
  <2>1. /\ y \in DialState
        /\ y.step = x.step /\ y.sub = x.sub /\ y.verb = x.verb
        /\ y.wanted = x.wanted /\ y.stopped = x.stopped /\ y.up = x.up
        /\ y.counted = x.counted
    BY <1>1 DEF Good, DialState
  <2> QED
    BY <2>1, SameGood
<1>2. ASSUME NEW y, y = Begun(x)
      PROVE  Good(y) /\ y.counted = x.counted
  <2>1. y \in DialState
    <3>1. To(x, "PIN") \in DialState
      BY DEF To, Good, DialState, Step
    <3>2. 0 \in 0..Rungs /\ 0 \in 0..(IpPolls - 1)
      BY ConstantsAssumption
    <3> QED
      BY <1>2, <3>1, <3>2 DEF Begun, DialState
  <2>2. /\ y.step = "PIN" /\ y.wanted /\ y.stopped = "no" /\ ~y.up
        /\ y.counted = x.counted
    BY <1>2 DEF Begun, To, Good, DialState
  <2> QED
    BY <2>1, <2>2 DEF Good, Flags, Sub, Working
<1> QED
  BY <1>1, <1>2 DEF Started

LEMMA CurrentGood ==
  ASSUME Good(d), EnvOK
  PROVE  /\ Good(Current)
         /\ Current.counted = d.counted
<1> DEFINE seen == [d EXCEPT !.kind = profile]
           tried == [seen EXCEPT !.autostartDone = TRUE]
<1>1. Good(seen) /\ seen.counted = d.counted
  <2>1. /\ seen \in DialState
        /\ seen.step = d.step /\ seen.sub = d.sub /\ seen.verb = d.verb
        /\ seen.wanted = d.wanted /\ seen.stopped = d.stopped
        /\ seen.up = d.up /\ seen.counted = d.counted
    BY DEF Good, DialState, EnvOK
  <2> HIDE DEF seen
  <2> QED
    BY <2>1, SameGood
<1>2. Good(tried) /\ tried.counted = seen.counted
  <2> HIDE DEF seen
  <2>1. /\ tried \in DialState
        /\ tried.step = seen.step /\ tried.sub = seen.sub
        /\ tried.verb = seen.verb /\ tried.wanted = seen.wanted
        /\ tried.stopped = seen.stopped /\ tried.up = seen.up
        /\ tried.counted = seen.counted
    BY <1>1 DEF Good, DialState
  <2> HIDE DEF tried
  <2> QED
    BY <1>1, <2>1, SameGood
<1>3. Current = seen \/ Current = Started(tried)
  BY DEF Current, Autostarted
<1> QED
  BY <1>1, <1>2, <1>3, StartedGood

\* What the tick finds at a step it works on.
LEMMA AtWork ==
  ASSUME Good(d), EnvOK, NEW steps \in SUBSET Working, At(steps)
  PROVE  /\ Good(Current)
         /\ Current.counted = d.counted
         /\ Current.wanted
         /\ Current.stopped = "no"
         /\ Current.step \in steps
BY CurrentGood DEF At, Ready

-----------------------------------------------------------------------------

(***************************************************************************)
(* The ledger.                                                              *)
(***************************************************************************)

LEMMA RecentFinite ==
  ASSUME NEW stamps, IsFiniteSet(stamps), NEW t
  PROVE  /\ IsFiniteSet(RecentAt(stamps, t))
         /\ Cardinality(RecentAt(stamps, t)) \in Nat
<1>1. RecentAt(stamps, t) \subseteq stamps
  BY DEF RecentAt
<1>2. IsFiniteSet(RecentAt(stamps, t))
  BY <1>1, FS_Subset
<1> QED
  BY <1>2, FS_CardinalityType

LEMMA LoadedInRange ==
  ASSUME IInv
  PROVE  Loaded(ledger) \in 0..Limit
<1>1. Cardinality(RecentAt(ledger, clock)) \in Nat
  BY RecentFinite DEF IInv, LedgerInv
<1>2. d.counted \in 0..Limit
  BY DEF IInv, Good, DialState
<1> QED
  BY <1>1, <1>2, ConstantsAssumption DEF IInv, LedgerInv, Loaded

\* Noting a reset keeps every stamp of the window and adds one to the count.
LEMMA NotedLedger ==
  ASSUME LedgerInv(d.counted), Good(d), clock \in 0..MaxClock,
         d.counted < Limit
  PROVE  LET noted == Kept(ledger) \cup {NewStamp}
         IN  /\ noted \subseteq Stamp
             /\ sent \cup {NewStamp} \subseteq RecentAt(noted, clock)
             /\ IsFiniteSet(noted)
             /\ Cardinality(RecentAt(noted, clock)) \in 0..(d.counted + 1)
<1> DEFINE recent == RecentAt(ledger, clock)
           noted == Kept(ledger) \cup {NewStamp}
<1>1. d.counted \in Nat /\ d.counted + 1 <= LedgerMax
  <2>1. d.counted \in 0..Limit
    BY DEF Good, DialState
  <2> QED
    BY <2>1, ConstantsAssumption
<1>2. IsFiniteSet(recent) /\ Cardinality(recent) \in Nat
  BY RecentFinite DEF LedgerInv
<1>3. Cardinality(recent) <= d.counted
  BY DEF LedgerInv
<1>4. Kept(ledger) = recent
  <2>1. ASSUME NEW s \in recent
        PROVE  Cardinality({q \in recent : q.n >= s.n}) <= LedgerMax - 1
    <3>1. {q \in recent : q.n >= s.n} \subseteq recent
      OBVIOUS
    <3>2. Cardinality({q \in recent : q.n >= s.n}) <= Cardinality(recent)
      BY <3>1, <1>2, FS_Subset
    <3>3. Cardinality({q \in recent : q.n >= s.n}) \in Nat
      BY <3>1, <1>2, FS_Subset, FS_CardinalityType
    <3> HIDE DEF recent
    <3> QED
      BY <3>2, <3>3, <1>1, <1>2, <1>3, ConstantsAssumption
  <2> HIDE DEF recent
  <2>2. Kept(ledger) = {s \in recent :
          Cardinality({q \in recent : q.n >= s.n}) <= LedgerMax - 1}
    BY DEF Kept, recent
  <2> QED
    BY <2>1, <2>2
<1>5. NewStamp \in Stamp /\ clock - NewStamp.at < Window
  BY ConstantsAssumption DEF NewStamp, Stamp, LedgerInv
<1>6. recent \subseteq Stamp /\ recent \subseteq ledger
  BY DEF RecentAt, LedgerInv
<1>7. RecentAt(noted, clock) = noted
  BY <1>4, <1>5 DEF RecentAt
<1>8. IsFiniteSet(noted) /\ Cardinality(noted) \in 0..(Cardinality(recent) + 1)
  <2>1. /\ IsFiniteSet(recent \cup {NewStamp})
        /\ Cardinality(recent \cup {NewStamp}) =
             IF NewStamp \in recent THEN Cardinality(recent)
                                    ELSE Cardinality(recent) + 1
    BY <1>2, FS_AddElement
  <2> HIDE DEF recent
  <2> QED
    BY <2>1, <1>2, <1>4
<1>9. Cardinality(noted) \in 0..(d.counted + 1)
  <2> HIDE DEF recent, noted
  <2> QED
    BY <1>1, <1>2, <1>3, <1>8
<1>10. sent \subseteq recent
  BY DEF LedgerInv
<1> QED
  BY <1>4, <1>5, <1>6, <1>7, <1>8, <1>9, <1>10

\* The ledger is left alone.
LEMMA LedgerKept ==
  ASSUME LedgerInv(d.counted), UNCHANGED <<resets, clock>>, d'.counted = d.counted
  PROVE  LedgerInv(d.counted)'
BY DEF LedgerInv, resets, RecentAt

-----------------------------------------------------------------------------

(***************************************************************************)
(* The failure of a step: the next rung, the end, or a reset.               *)
(***************************************************************************)

LEMMA FailGood ==
  ASSUME NEW x, Good(x), x.wanted, x.stopped = "no",
         NEW y, y = Failed(x)
  PROVE  /\ y.allowReset = x.allowReset /\ y.counted = x.counted
         /\ x.attempt < Rungs =>
              Good(Retried(y)) /\ Retried(y).counted = x.counted
         /\ \A reason \in {"resets off", "too many"} :
              /\ Good(StoppedFor(y, reason))
              /\ StoppedFor(y, reason).counted = x.counted
         /\ x.counted < Limit =>
              Good(WasReset(y)) /\ WasReset(y).counted = x.counted + 1
<1>1. 0 \in 0..Rungs /\ 0 \in 0..(IpPolls - 1)
  BY ConstantsAssumption
<1>2. y \in DialState
  BY <1>1 DEF Failed, Good, DialState
<1>3. /\ y.wanted /\ y.stopped = "no" /\ ~y.up
      /\ y.allowReset = x.allowReset /\ y.counted = x.counted
      /\ y.attempt = x.attempt
  BY DEF Failed, Good, DialState
<1>4. ASSUME x.attempt < Rungs
      PROVE  Good(Retried(y)) /\ Retried(y).counted = x.counted
  <2> DEFINE z == Retried(y)
  <2>1. y.attempt + 1 \in 0..Rungs /\ (y.attempt > 0) \in BOOLEAN
    <3>1. y.attempt \in 0..Rungs
      BY <1>2 DEF DialState
    <3> QED
      BY <3>1, <1>3, <1>4, ConstantsAssumption
  <2>2. To(y, "PIN") \in DialState
    BY <1>2, ZenonT(60) DEF To, DialState, Step
  <2>3. z \in DialState
    BY <2>1, <2>2, ZenonT(60) DEF Retried, DialState
  <2>4. /\ z.step = "PIN" /\ z.wanted = y.wanted /\ z.stopped = y.stopped
        /\ z.up = y.up /\ z.counted = y.counted
    BY <1>2 DEF Retried, To, DialState
  <2> HIDE DEF z
  <2>5. Good(z) /\ z.counted = x.counted
    BY <1>3, <2>3, <2>4 DEF Good, Flags, Sub, Working
  <2> QED
    BY <2>5 DEF z
<1>5. ASSUME NEW reason \in {"resets off", "too many"}
      PROVE  /\ Good(StoppedFor(y, reason))
             /\ StoppedFor(y, reason).counted = x.counted
  <2> DEFINE z == StoppedFor(y, reason)
  <2>1. z \in DialState
    BY <1>2, ZenonT(60) DEF StoppedFor, To, DialState, Step
  <2>2. /\ z.step = "FAILED" /\ z.wanted = y.wanted /\ z.stopped = reason
        /\ z.up = y.up /\ z.counted = y.counted
    BY <1>2 DEF StoppedFor, To, DialState
  <2> HIDE DEF z
  <2>3. Good(z) /\ z.counted = x.counted
    BY <1>3, <2>1, <2>2 DEF Good, Flags, Sub, Working
  <2> QED
    BY <2>3 DEF z
<1>6. ASSUME x.counted < Limit
      PROVE  Good(WasReset(y)) /\ WasReset(y).counted = x.counted + 1
  <2> DEFINE z == WasReset(y)
  <2>1. y.counted + 1 \in 0..Limit
    <3>1. y.counted \in 0..Limit
      BY <1>2 DEF DialState
    <3> QED
      BY <3>1, <1>3, <1>6, ConstantsAssumption
  <2>2. To(y, "PIN") \in DialState
    BY <1>2, ZenonT(60) DEF To, DialState, Step
  <2>3. To(y, "PIN").counted = y.counted
    BY <1>2 DEF To, DialState
  <2>4. z \in DialState
    BY <1>1, <2>1, <2>2, <2>3 DEF WasReset, DialState
  <2>5. /\ z.step = "PIN" /\ z.wanted = y.wanted /\ z.stopped = y.stopped
        /\ z.up = y.up /\ z.counted = y.counted + 1
    BY <1>2 DEF WasReset, To, DialState
  <2> HIDE DEF z
  <2>6. Good(z) /\ z.counted = x.counted + 1
    BY <1>3, <2>4, <2>5 DEF Good, Flags, Sub, Working
  <2> QED
    BY <2>6 DEF z
<1> QED
  BY <1>3, <1>4, <1>5, <1>6

LEMMA FailIInv ==
  ASSUME IInv, NEW x, Good(x), x.counted = d.counted, x.wanted,
         x.stopped = "no", Fail(x), UNCHANGED env
  PROVE  IInv'
<1>1. PICK y : y = Failed(x)
  OBVIOUS
<1>2. EnvOK /\ Good(d) /\ LedgerInv(d.counted)
  BY DEF IInv
<1>3. EnvOK'
  BY <1>2 DEF EnvOK, env, Fail, resets
<1>4. /\ y.allowReset = x.allowReset /\ y.counted = x.counted
      /\ x.attempt < Rungs =>
           Good(Retried(y)) /\ Retried(y).counted = x.counted
      /\ \A reason \in {"resets off", "too many"} :
           /\ Good(StoppedFor(y, reason))
           /\ StoppedFor(y, reason).counted = x.counted
      /\ x.counted < Limit =>
           Good(WasReset(y)) /\ WasReset(y).counted = x.counted + 1
  BY <1>1, FailGood
<1>5. CASE x.attempt < Rungs
  <2>1. d' = Retried(y) /\ UNCHANGED resets
    BY <1>1, <1>5 DEF Fail
  <2> QED
    BY <1>2, <1>3, <1>4, <1>5, <2>1, LedgerKept DEF IInv, env
<1>6. CASE ~(x.attempt < Rungs) /\ ~MayReset(y)
  <2>1. \E reason \in {"resets off", "too many"} : d' = StoppedFor(y, reason)
    BY <1>1, <1>6 DEF Fail
  <2>2. UNCHANGED resets
    BY <1>1, <1>6 DEF Fail
  <2> QED
    BY <1>2, <1>3, <1>4, <2>1, <2>2, LedgerKept DEF IInv, env
<1>7. CASE ~(x.attempt < Rungs) /\ MayReset(y)
  <2>1. /\ d' = WasReset(y)
        /\ ledger' = Kept(ledger) \cup {NewStamp}
        /\ total' = total + 1
        /\ sent' = sent \cup {NewStamp}
    BY <1>1, <1>7 DEF Fail
  <2>2. d.counted < Limit
    BY <1>4, <1>7 DEF MayReset
  <2>3. Good(d)' /\ d'.counted = d.counted + 1
    BY <1>4, <2>1, <2>2
  <2>4. LedgerInv(d.counted)'
    <3>1. clock' = clock /\ clock \in 0..MaxClock
      BY <1>2 DEF env, EnvOK
    <3>2. /\ ledger' \subseteq Stamp
          /\ sent' \subseteq RecentAt(ledger', clock)
          /\ IsFiniteSet(ledger')
          /\ Cardinality(RecentAt(ledger', clock)) \in 0..(d.counted + 1)
      BY <1>2, <2>1, <2>2, <3>1, NotedLedger
    <3>3. total' \in Nat
      BY <1>2, <2>1 DEF LedgerInv
    <3>4. Cardinality(RecentAt(ledger', clock)) <= d'.counted
      BY <2>3, <3>2
    <3> QED
      BY <3>1, <3>2, <3>3, <3>4 DEF LedgerInv
  <2> QED
    BY <1>3, <2>3, <2>4 DEF IInv
<1> QED
  BY <1>5, <1>6, <1>7

-----------------------------------------------------------------------------

\* A step of the tick that touches neither the ledger nor the count.
LEMMA QuietIInv ==
  ASSUME IInv, Good(d)', d'.counted = d.counted, EnvOK',
         UNCHANGED <<resets, clock>>
  PROVE  IInv'
BY LedgerKept DEF IInv

LEMMA InitIInv == Init => IInv
<1> SUFFICES ASSUME Init PROVE IInv
  OBVIOUS
<1>1. 0 \in 0..Limit /\ 0 \in 0..MaxClock
  BY ConstantsAssumption
<1>2. Good(d) /\ d.counted = 0
  BY <1>1, BootGood DEF Init
<1>3. EnvOK
  BY <1>1 DEF Init, EnvOK
<1>4. RecentAt(ledger, clock) = {}
  BY DEF Init, RecentAt
<1>5. LedgerInv(d.counted)
  BY <1>2, <1>4, FS_EmptySet DEF Init, LedgerInv
<1> QED
  BY <1>2, <1>3, <1>5 DEF IInv

LEMMA TickIInv ==
  ASSUME IInv, Tick
  PROVE  IInv'
<1>1. EnvOK /\ Good(d)
  BY DEF IInv
<1>2. UNCHANGED env /\ EnvOK'
  BY <1>1 DEF EnvOK, env, resets, Tick, TickIdle, TickPin, TickReg, TickApn,
     TickProbe, TickDeactivate, TickActivate, TickRead, Fail
<1> DEFINE x == Current
<1>3. ASSUME Good(x), x.counted = d.counted, x.wanted, x.stopped = "no",
             Fail(x)
      PROVE  IInv'
  BY <1>2, <1>3, FailIInv
<1>4. ASSUME Good(d)', d'.counted = d.counted, UNCHANGED resets
      PROVE  IInv'
  BY <1>2, <1>4, QuietIInv DEF env
<1>5. CASE TickIdle
  BY <1>1, <1>4, <1>5, CurrentGood DEF TickIdle
<1>6. ASSUME NEW steps \in SUBSET Working, At(steps)
      PROVE  /\ Good(x) /\ x.counted = d.counted /\ x.wanted
             /\ x.stopped = "no" /\ x.step \in steps
  BY <1>1, <1>6, AtWork
<1>7. ASSUME Good(x), x.wanted, x.stopped = "no", x.step # "UP",
             x.counted = d.counted,
             NEW step \in {"PIN", "REG", "APN", "ACTIVATE", "IP"},
             d' = To(x, step), UNCHANGED resets
      PROVE  IInv'
  <2>1. ~x.up
    BY <1>7 DEF Good, Flags
  <2> HIDE DEF x
  <2>2. Good(d)' /\ d'.counted = d.counted
    BY <1>7, <2>1, ToGood
  <2> QED
    BY <1>4, <1>7, <2>2
<1>8. ASSUME Good(x), x.counted = d.counted, UNCHANGED resets,
             d' \in DialState, d'.counted = x.counted, d'.up = x.up,
             d'.step = x.step, d'.wanted = x.wanted, d'.stopped = x.stopped,
             Sub(d')
      PROVE  IInv'
  <2> HIDE DEF x
  <2>1. Good(d)' /\ d'.counted = d.counted
    BY <1>8 DEF Good, Flags
  <2> QED
    BY <1>4, <1>8, <2>1
<1>9. CASE TickPin
  <2>1. Good(x) /\ x.counted = d.counted /\ x.wanted /\ x.stopped = "no"
          /\ x.step = "PIN"
    BY <1>6, <1>9 DEF TickPin, Working
  <2> QED
    BY <1>3, <1>7, <1>9, <2>1 DEF TickPin, Fail
<1>10. CASE TickReg
  <2>1. Good(x) /\ x.counted = d.counted /\ x.wanted /\ x.stopped = "no"
          /\ x.step = "REG"
    BY <1>6, <1>10 DEF TickReg, Working
  <2>2. CASE d' = To(x, "APN") /\ UNCHANGED resets
    BY <1>7, <2>1, <2>2
  <2>3. CASE NextDomain(x) /\ d' = [x EXCEPT !.sub = @ + 1] /\ UNCHANGED resets
    <3> HIDE DEF x
    <3>1. x \in DialState /\ x.sub \in Nat
      BY <2>1 DEF Good, DialState
    <3>2. d' \in DialState
      <4>1. x.sub + 1 \in Nat
        BY <3>1
      <4> QED
        BY <2>3, <3>1, <4>1 DEF DialState
    <3>3. /\ d'.sub = x.sub + 1 /\ d'.counted = x.counted /\ d'.up = x.up
          /\ d'.step = x.step /\ d'.wanted = x.wanted
          /\ d'.stopped = x.stopped
      BY <2>3, <3>1 DEF DialState
    <3>4. Sub(d')
      BY <2>1, <2>3, <3>3 DEF Sub, NextDomain
    <3> QED
      BY <1>8, <2>1, <2>3, <3>2, <3>3, <3>4
  <2>4. CASE Fail(x)
    BY <1>3, <2>1, <2>4
  <2> QED
    BY <1>10, <2>2, <2>3, <2>4 DEF TickReg
<1>11. CASE TickApn
  <2>1. Good(x) /\ x.counted = d.counted /\ x.wanted /\ x.stopped = "no"
          /\ x.step = "APN"
    BY <1>6, <1>11 DEF TickApn, Working
  <2> QED
    BY <1>3, <1>7, <1>11, <2>1 DEF TickApn
<1>12. CASE TickProbe
  <2>1. Good(x) /\ x.counted = d.counted /\ x.wanted /\ x.stopped = "no"
          /\ x.step = "ACTIVATE"
    BY <1>6, <1>12 DEF TickProbe, Working
  <2>2. CASE Fail(x)
    BY <1>3, <2>1, <2>2
  <2>3. CASE /\ \/ d' = [x EXCEPT !.sub = 0, !.verb =
                           IF x.sub = 0 THEN "GTWWAN" ELSE "GTRNDIS"]
                \/ d' = [x EXCEPT !.sub = 1]
             /\ UNCHANGED resets
    <3> HIDE DEF x
    <3>1. x \in DialState
      BY <2>1 DEF Good
    <3>2. d' \in DialState
      <4>1. CASE d' = [x EXCEPT !.sub = 1]
        BY <3>1, <4>1 DEF DialState
      <4>2. CASE x.sub = 0 /\ d' = [x EXCEPT !.sub = 0, !.verb = "GTWWAN"]
        BY <3>1, <4>2 DEF DialState
      <4>3. CASE x.sub # 0 /\ d' = [x EXCEPT !.sub = 0, !.verb = "GTRNDIS"]
        BY <3>1, <4>3 DEF DialState
      <4> QED
        BY <2>3, <4>1, <4>2, <4>3
    <3>3. /\ d'.sub \in {0, 1} /\ d'.counted = x.counted /\ d'.up = x.up
          /\ d'.step = x.step /\ d'.wanted = x.wanted
          /\ d'.stopped = x.stopped
      BY <2>3, <3>1 DEF DialState
    <3>4. Sub(d')
      BY <2>1, <3>3 DEF Sub
    <3> QED
      BY <1>8, <2>1, <2>3, <3>2, <3>3, <3>4
  <2> QED
    BY <1>12, <2>2, <2>3 DEF TickProbe
<1>13. CASE TickDeactivate
  <2>1. Good(x) /\ x.counted = d.counted /\ x.verb # "none"
          /\ x.step = "ACTIVATE"
    BY <1>6, <1>13 DEF TickDeactivate, Working
  <2>2. d' = LetGo(x) /\ UNCHANGED resets
    BY <1>13 DEF TickDeactivate
  <2> HIDE DEF x
  <2>3. x \in DialState
    BY <2>1 DEF Good
  <2>4. d' \in DialState
    BY <2>2, <2>3 DEF LetGo, DialState
  <2>5. /\ d'.verb = x.verb /\ d'.counted = x.counted /\ d'.up = x.up
        /\ d'.step = x.step /\ d'.wanted = x.wanted /\ d'.stopped = x.stopped
    BY <2>2, <2>3 DEF LetGo, DialState
  <2>6. Sub(d')
    BY <2>1, <2>5 DEF Sub
  <2> QED
    BY <1>8, <2>1, <2>2, <2>4, <2>5, <2>6
<1>14. CASE TickActivate
  <2>1. Good(x) /\ x.counted = d.counted /\ x.wanted /\ x.stopped = "no"
          /\ x.step = "ACTIVATE"
    BY <1>6, <1>14 DEF TickActivate, Working
  <2> QED
    BY <1>3, <1>7, <1>14, <2>1 DEF TickActivate
<1>15. CASE TickRead
  <2>1. Good(x) /\ x.counted = d.counted /\ x.wanted /\ x.stopped = "no"
          /\ x.step \in {"IP", "UP"}
    BY <1>6, <1>15 DEF TickRead, Working
  <2>2. CASE Fail(x)
    BY <1>3, <2>1, <2>2
  <2>3. CASE d' = HasAddress(x) /\ UNCHANGED resets
    <3> HIDE DEF x
    <3>1. x \in DialState
      BY <2>1 DEF Good
    <3>2. 0 \in 0..Rungs /\ 0 \in 0..(IpPolls - 1)
      BY ConstantsAssumption
    <3>3. d' \in DialState
      BY <2>3, <3>1, <3>2 DEF HasAddress, DialState, Step
    <3>4. /\ d'.counted = x.counted /\ d'.up /\ d'.step = "UP"
          /\ d'.wanted = x.wanted /\ d'.stopped = x.stopped
      BY <2>3, <3>1 DEF HasAddress, DialState
    <3>5. Good(d)' /\ d'.counted = d.counted
      BY <2>1, <3>3, <3>4 DEF Good, Flags, Sub, Working
    <3> QED
      BY <1>4, <2>3, <3>5
  <2>4. CASE /\ NotYet(x).ipPolls < IpPolls /\ d' = NotYet(x)
             /\ UNCHANGED resets
    <3> HIDE DEF x
    <3>1. x \in DialState /\ x.ipPolls \in Nat
      <4>1. x \in DialState /\ x.ipPolls \in 0..(IpPolls - 1)
        BY <2>1 DEF Good, DialState
      <4> QED
        BY <4>1, ConstantsAssumption
    <3>2. d'.ipPolls = x.ipPolls + 1
      BY <2>4, <3>1 DEF NotYet, DialState
    <3>3. x.ipPolls + 1 \in 0..(IpPolls - 1)
      BY <2>4, <3>1, <3>2, ConstantsAssumption
    <3>4. d' \in DialState
      BY <2>4, <3>1, <3>3 DEF NotYet, DialState
    <3>5. /\ d'.counted = x.counted /\ d'.up = x.up
          /\ d'.step = x.step /\ d'.wanted = x.wanted
          /\ d'.stopped = x.stopped
      BY <2>4, <3>1 DEF NotYet, DialState
    <3>6. Sub(d')
      BY <2>1, <3>5 DEF Sub
    <3> QED
      BY <1>8, <2>1, <2>4, <3>4, <3>5, <3>6
  <2> QED
    BY <1>15, <2>2, <2>3, <2>4 DEF TickRead
<1> QED
  BY <1>5, <1>9, <1>10, <1>11, <1>12, <1>13, <1>14, <1>15 DEF Tick

LEMMA StopIInv ==
  ASSUME IInv, Stop
  PROVE  IInv'
<1>1. Good(d) /\ EnvOK
  BY DEF IInv
<1>2. EnvOK' /\ UNCHANGED <<resets, clock>>
  BY <1>1 DEF EnvOK, env, Stop, StopUntold, StopTold
<1>3. PICK r \in BOOLEAN, w \in {d.wasUp, FALSE} :
        d' = [Stopping(d) EXCEPT !.resting = r, !.wasUp = w]
  <2>1. CASE StopUntold
    <3>1. /\ d' = [Stopping(d) EXCEPT !.resting = (d.verb # "none"),
                                      !.wasUp = d.wasUp]
          /\ (d.verb # "none") \in BOOLEAN
      BY <1>1, <2>1 DEF StopUntold, Stopping, Good, DialState
    <3> QED
      BY <3>1
  <2>2. CASE StopTold
    <3>1. d' = [Stopping(d) EXCEPT !.resting = FALSE, !.wasUp = FALSE]
      BY <1>1, <2>2 DEF StopTold, Stopping, Good, DialState
    <3> QED
      BY <3>1
  <2> QED
    BY <2>1, <2>2 DEF Stop
<1>4. Stopping(d) \in DialState
  <2>1. 0 \in 0..(IpPolls - 1)
    BY ConstantsAssumption
  <2> QED
    BY <1>1, <2>1 DEF Stopping, Good, DialState, Step
<1>5. d' \in DialState
  <2>1. d.wasUp \in BOOLEAN
    BY <1>1 DEF Good, DialState
  <2> QED
    BY <1>3, <1>4, <2>1 DEF DialState
<1>6. /\ ~d'.wanted /\ ~d'.up /\ d'.step = "DOWN"
      /\ d'.counted = d.counted
  BY <1>1, <1>3 DEF Stopping, Good, DialState
<1>7. Good(d)'
  BY <1>5, <1>6 DEF Good, Flags, Sub, Working
<1> QED
  BY <1>2, <1>6, <1>7, QuietIInv

LEMMA CrashIInv ==
  ASSUME IInv, Crash
  PROVE  IInv'
<1>1. Loaded(ledger) \in 0..Limit
  BY LoadedInRange
<1>2. Good(d)' /\ d'.counted = Loaded(ledger)
  BY <1>1, BootGood DEF Crash
<1>3. EnvOK' /\ UNCHANGED <<resets, clock>>
  BY DEF IInv, EnvOK, env, Crash
<1>4. LedgerInv(d.counted)'
  BY <1>1, <1>2, <1>3 DEF IInv, LedgerInv, Loaded, RecentAt, resets
<1> QED
  BY <1>2, <1>3, <1>4 DEF IInv

LEMMA CrashBeforeResetIInv ==
  ASSUME IInv, CrashBeforeReset
  PROVE  IInv'
<1>1. Good(d) /\ EnvOK /\ LedgerInv(d.counted)
  BY DEF IInv
<1>2. EnvOK' /\ clock' = clock /\ clock \in 0..MaxClock
  BY <1>1 DEF EnvOK, env, CrashBeforeReset
<1>3. d.counted < Limit
  BY <1>1, CurrentGood DEF CrashBeforeReset, MayReset
<1>4. /\ ledger' \subseteq Stamp
      /\ sent \cup {NewStamp} \subseteq RecentAt(ledger', clock)
      /\ IsFiniteSet(ledger')
      /\ Cardinality(RecentAt(ledger', clock)) \in 0..(d.counted + 1)
  BY <1>1, <1>2, <1>3, NotedLedger DEF CrashBeforeReset
<1> DEFINE count == Cardinality(RecentAt(ledger', clock))
<1>5. count \in 0..Limit
  <2>1. d.counted \in 0..Limit
    BY <1>1 DEF Good, DialState
  <2> HIDE DEF count
  <2>2. count \in 0..(d.counted + 1)
    BY <1>4 DEF count
  <2> QED
    BY <2>1, <2>2, <1>3, ConstantsAssumption
<1>6. Good(d)' /\ d'.counted = count
  BY <1>5, BootGood DEF CrashBeforeReset
<1>7. total' \in Nat /\ sent' = sent
  BY <1>1 DEF CrashBeforeReset, LedgerInv
<1>8. LedgerInv(d.counted)'
  BY <1>2, <1>4, <1>5, <1>6, <1>7 DEF LedgerInv
<1> QED
  BY <1>2, <1>6, <1>8 DEF IInv

\* The window slides: what leaves it leaves both the ledger's count and the
\* history.
LEMMA HoursIInv ==
  ASSUME IInv, Hours
  PROVE  IInv'
<1>1. Good(d) /\ EnvOK /\ LedgerInv(d.counted)
  BY DEF IInv
<1>2. clock \in 0..MaxClock /\ clock' = clock + 1 /\ clock' \in 0..MaxClock
  BY <1>1, ConstantsAssumption DEF EnvOK, Hours
<1>3. EnvOK'
  BY <1>1, <1>2 DEF EnvOK, Hours
<1>4. d' = d /\ ledger' = ledger /\ total' = total
        /\ sent' = RecentAt(sent, clock')
  BY DEF Hours
<1>5. RecentAt(ledger, clock') \subseteq RecentAt(ledger, clock)
  <2>1. ASSUME NEW s \in ledger, clock' - s.at < Window
        PROVE  clock - s.at < Window
    <3>1. s.at \in 0..MaxClock
      BY <1>1 DEF LedgerInv, Stamp
    <3> QED
      BY <1>2, <2>1, <3>1, ConstantsAssumption
  <2> QED
    BY <2>1 DEF RecentAt
<1>6. /\ Cardinality(RecentAt(ledger, clock')) \in Nat
      /\ Cardinality(RecentAt(ledger, clock)) \in Nat
  BY <1>1, RecentFinite DEF LedgerInv
<1>7. Cardinality(RecentAt(ledger, clock')) <=
        Cardinality(RecentAt(ledger, clock))
  BY <1>1, <1>5, RecentFinite, FS_Subset DEF LedgerInv
<1>8. d.counted \in Nat /\ Cardinality(RecentAt(ledger, clock)) <= d.counted
  <2>1. d.counted \in 0..Limit
    BY <1>1 DEF Good, DialState
  <2> QED
    BY <1>1, <2>1, ConstantsAssumption DEF LedgerInv
<1>9. Cardinality(RecentAt(ledger, clock')) <= d.counted
  BY <1>6, <1>7, <1>8
<1>10. sent' \subseteq RecentAt(ledger, clock')
  BY <1>1, <1>4 DEF LedgerInv, RecentAt
<1>11. LedgerInv(d.counted)'
  BY <1>1, <1>4, <1>9, <1>10 DEF LedgerInv
<1> QED
  BY <1>1, <1>3, <1>4, <1>11 DEF IInv

LEMMA NextIInv == IInv /\ [Next]_vars => IInv'
<1> SUFFICES ASSUME IInv, [Next]_vars PROVE IInv'
  OBVIOUS
<1>1. Good(d) /\ EnvOK
  BY DEF IInv
<1>2. CASE Tick
  BY <1>2, TickIInv
<1>3. CASE Start
  <2>1. Good(d)' /\ d'.counted = d.counted
    BY <1>1, <1>3, StartedGood DEF Start
  <2>2. EnvOK' /\ UNCHANGED <<resets, clock>>
    BY <1>1, <1>3 DEF Start, EnvOK, env
  <2> QED
    BY <2>1, <2>2, QuietIInv
<1>4. CASE Stop
  BY <1>4, StopIInv
<1>5. CASE Configure
  <2>1. Good(d)' /\ d'.counted = d.counted
    BY <1>1, <1>5, ConfiguredGood DEF Configure
  <2>2. EnvOK' /\ UNCHANGED <<resets, clock>>
    BY <1>1, <1>5 DEF Configure, EnvOK, env
  <2> QED
    BY <2>1, <2>2, QuietIInv
<1>6. CASE Rest
  <2>1. /\ d' \in DialState
        /\ d'.step = d.step /\ d'.sub = d.sub /\ d'.verb = d.verb
        /\ d'.wanted = d.wanted /\ d'.stopped = d.stopped /\ d'.up = d.up
        /\ d'.counted = d.counted
    BY <1>1, <1>6 DEF Rest, Good, DialState
  <2>2. Good(d)'
    BY <1>1, <2>1, SameGood
  <2>3. EnvOK' /\ UNCHANGED <<resets, clock>>
    BY <1>1, <1>6 DEF Rest, EnvOK, env
  <2> QED
    BY <2>1, <2>2, <2>3, QuietIInv
<1>7. CASE Crash
  BY <1>7, CrashIInv
<1>8. CASE CrashBeforeReset
  BY <1>8, CrashBeforeResetIInv
<1>9. CASE Hours
  BY <1>9, HoursIInv
<1>10. ASSUME d' = d, EnvOK', UNCHANGED <<resets, clock>>
       PROVE  IInv'
  BY <1>1, <1>10, QuietIInv
<1>11. CASE \/ PortChanges \/ ProfileChanges \/ ContextChanges
            \/ ServiceRestored \/ UNCHANGED vars
  <2>1. d' = d /\ UNCHANGED <<resets, clock>>
    BY <1>11
       DEF PortChanges, ProfileChanges, ContextChanges, ServiceRestored,
           env, resets, vars
  <2>2. EnvOK'
    <3>1. CASE PortChanges
      BY <1>1, <3>1 DEF PortChanges, EnvOK
    <3>2. CASE ProfileChanges
      BY <1>1, <3>2, ConstantsAssumption DEF ProfileChanges, EnvOK
    <3>3. CASE ContextChanges
      BY <1>1, <3>3 DEF ContextChanges, EnvOK, env
    <3>4. CASE ServiceRestored
      BY <1>1, <3>4 DEF ServiceRestored, EnvOK
    <3>5. CASE UNCHANGED vars
      BY <1>1, <3>5 DEF vars, EnvOK
    <3> QED
      BY <1>11, <3>1, <3>2, <3>3, <3>4, <3>5
  <2> QED
    BY <1>10, <2>1, <2>2
<1> QED
  BY <1>2, <1>3, <1>4, <1>5, <1>6, <1>7, <1>8, <1>9, <1>11
     DEF Next, Daemon, Environment

-----------------------------------------------------------------------------

(***************************************************************************)
(* The theorems.                                                            *)
(***************************************************************************)

\* The inductive invariant holds throughout.
THEOREM Invariance == Spec => []IInv
BY InitIInv, NextIInv, PTL DEF Spec

\* dialer.c:237-322, 461-558: the state is well typed and the index of the
\* domain and of the verb stays within its table.
THEOREM TypeCorrect == Spec => []TypeOK
<1>1. IInv => TypeOK
  <2> SUFFICES ASSUME IInv PROVE TypeOK
    OBVIOUS
  <2>1. sent \subseteq Stamp
    BY DEF IInv, LedgerInv, RecentAt
  <2> QED
    BY <2>1 DEF IInv, Good, EnvOK, LedgerInv, Sub, SubInRange, TypeOK
<1> QED
  BY <1>1, Invariance, PTL

\* dialer.c:326-418, 840-930: what netifd is told agrees with the step.
THEOREM FlagsAlwaysAgree == Spec => []FlagsAgree
<1>1. IInv => FlagsAgree
  BY DEF IInv, Good, Flags, FlagsAgree
<1> QED
  BY <1>1, Invariance, PTL

\* dialer.c:277-322: no reset of the window is forgotten by the ledger.
THEOREM LedgerForgetsNone == Spec => []LedgerComplete
<1>1. IInv => LedgerComplete
  BY DEF IInv, LedgerInv, RecentAt, LedgerComplete
<1> QED
  BY <1>1, Invariance, PTL

\* dialer.c:229-243, 356-388: the bound on the resets of a window holds however
\* often the daemon dies and at whatever point.
THEOREM ResetsAreBounded == Spec => []ResetsBounded
<1>1. IInv => ResetsBounded
  <2> SUFFICES ASSUME IInv PROVE ResetsBounded
    OBVIOUS
  <2>1. /\ sent \subseteq RecentAt(ledger, clock)
        /\ IsFiniteSet(RecentAt(ledger, clock))
        /\ Cardinality(RecentAt(ledger, clock)) \in Nat
    BY RecentFinite DEF IInv, LedgerInv
  <2>2. Cardinality(sent) <= Cardinality(RecentAt(ledger, clock))
    BY <2>1, FS_Subset
  <2>3. Cardinality(sent) \in Nat
    BY <2>1, FS_Subset, FS_CardinalityType
  <2>4. d.counted \in 0..Limit
    BY DEF IInv, Good, DialState
  <2>5. Cardinality(RecentAt(ledger, clock)) <= d.counted
    BY DEF IInv, LedgerInv
  <2> QED
    BY <2>1, <2>2, <2>3, <2>4, <2>5, ConstantsAssumption DEF ResetsBounded
<1> QED
  BY <1>1, Invariance, PTL

-----------------------------------------------------------------------------
(***************************************************************************)
(* The ladder ends.  What a dialler that is at work has still before it:    *)
(* the resets the ledger leaves, the rungs, the stages of the sequence, and *)
(* the tries of a stage.  Each rest that is over and each tick that acts    *)
(* takes something of it, from the left; a reset gives back the rungs, a    *)
(* rung the stages, a stage the tries.                                      *)
(***************************************************************************)
Stages(x) ==
  CASE x.step = "PIN" -> 5
    [] x.step = "REG" -> 4
    [] x.step = "APN" -> 3
    [] x.step = "ACTIVATE" -> 2
    [] x.step = "IP" -> 1
    [] OTHER -> 0

\* A context that was up is let go once, a verb is found once.
Chores(x) == (IF x.wasUp THEN 1 ELSE 0) + (IF x.verb = "none" THEN 1 ELSE 0)

Tries(x) ==
  CASE x.step = "REG" -> RegSubs - x.sub
    [] x.step = "ACTIVATE" /\ x.verb = "none" -> 2 - x.sub
    [] x.step = "IP" -> IpPolls - x.ipPolls
    [] OTHER -> 0

Rank(x) ==
  [resets |-> Limit - x.counted, rungs |-> Rungs - x.attempt,
   stages |-> 3 * Stages(x) + Chores(x),
   tries |-> 2 * Tries(x) + (IF x.resting THEN 1 ELSE 0)]

Ranks == [resets : Nat, rungs : Nat, stages : Nat, tries : Nat]

Below(a, b) ==
  \/ a.resets < b.resets
  \/ /\ a.resets = b.resets
     /\ \/ a.rungs < b.rungs
        \/ /\ a.rungs = b.rungs
           /\ \/ a.stages < b.stages
              \/ a.stages = b.stages /\ a.tries < b.tries

Lower == {p \in Ranks \X Ranks : Below(p[1], p[2])}

AtWorkOn(x) == x.wanted /\ x.stopped = "no" /\ ~x.up
Climbing == AtWorkOn(d) /\ port = "ok"

Descends ==
  Climbing /\ Climbing' =>
    /\ Rank(d)' = Rank(d) \/ Below(Rank(d)', Rank(d))
    /\ (Tick /\ ~d.resting) \/ Rest => Below(Rank(d)', Rank(d))

\* A set of numbers has a least one: of its intervals from 1, which are
\* finite, one is in no other.
LEMMA LeastNumber ==
  ASSUME NEW T, T \subseteq Nat, T # {}
  PROVE  \E x \in T : \A y \in T : x <= y
<1>1. PICK S : S = {1..n : n \in T}
  OBVIOUS
<1>2. \A n \in Nat : IsFiniteSet(1..n) /\ 1..n \subseteq Nat
  BY FS_Interval
<1>3. S \subseteq FiniteSubsetsOf(Nat) /\ S # {}
  BY <1>1, <1>2 DEF FiniteSubsetsOf
<1>4. PICK s \in S : \A t \in S : <<t, s>> \notin StrictSubsetOrdering(Nat)
  BY <1>3, WFMin, FS_StrictSubsetOrderingWellFounded
<1>5. PICK x \in T : s = 1..x
  BY <1>1
<1>6. ASSUME NEW y \in T, ~(x <= y) PROVE FALSE
  <2>1. 1..y \subseteq 1..x /\ x \in 1..x /\ x \notin 1..y
    BY <1>6
  <2>2. 1..y \in S /\ 1..y \subseteq Nat /\ s \subseteq Nat
    BY <1>1, <1>5
  <2>3. <<1..y, s>> \in StrictSubsetOrdering(Nat)
    BY <1>5, <2>1, <2>2 DEF StrictSubsetOrdering
  <2> QED
    BY <1>4, <2>2, <2>3
<1> QED
  BY <1>6

\* Nothing can be taken for ever.
LEMMA LowerWellFounded == IsWellFoundedOn(Lower, Ranks)
<1>1. ASSUME NEW T \in SUBSET Ranks, T # {}
      PROVE  \E x \in T : \A y \in T : ~(<<y, x>> \in Lower)
  <2>1. PICK a \in {x.resets : x \in T} : \A y \in T : a <= y.resets
    <3>1. PICK N : N = {x.resets : x \in T}
      OBVIOUS
    <3>2. N \subseteq Nat /\ N # {}
      BY <1>1, <3>1 DEF Ranks
    <3>3. PICK n \in N : \A k \in N : n <= k
      BY <3>2, LeastNumber
    <3>4. \A y \in T : n <= y.resets
      BY <3>1, <3>3
    <3> QED
      BY <3>1, <3>3, <3>4
  <2>2. PICK T1 : T1 = {x \in T : x.resets = a}
    OBVIOUS
  <2>3. PICK b \in {x.rungs : x \in T1} : \A y \in T1 : b <= y.rungs
    <3>1. PICK N : N = {x.rungs : x \in T1}
      OBVIOUS
    <3>2. N \subseteq Nat /\ N # {}
      BY <1>1, <2>1, <2>2, <3>1 DEF Ranks
    <3>3. PICK n \in N : \A k \in N : n <= k
      BY <3>2, LeastNumber
    <3>4. \A y \in T1 : n <= y.rungs
      BY <3>1, <3>3
    <3> QED
      BY <3>1, <3>3, <3>4
  <2>4. PICK T2 : T2 = {x \in T1 : x.rungs = b}
    OBVIOUS
  <2>5. PICK c \in {x.stages : x \in T2} : \A y \in T2 : c <= y.stages
    <3>1. PICK N : N = {x.stages : x \in T2}
      OBVIOUS
    <3>2. N \subseteq Nat /\ N # {}
      BY <1>1, <2>2, <2>3, <2>4, <3>1 DEF Ranks
    <3>3. PICK n \in N : \A k \in N : n <= k
      BY <3>2, LeastNumber
    <3>4. \A y \in T2 : n <= y.stages
      BY <3>1, <3>3
    <3> QED
      BY <3>1, <3>3, <3>4
  <2>6. PICK T3 : T3 = {x \in T2 : x.stages = c}
    OBVIOUS
  <2>7. PICK e \in {x.tries : x \in T3} : \A y \in T3 : e <= y.tries
    <3>1. PICK N : N = {x.tries : x \in T3}
      OBVIOUS
    <3>2. N \subseteq Nat /\ N # {}
      BY <1>1, <2>2, <2>4, <2>5, <2>6, <3>1 DEF Ranks
    <3>3. PICK n \in N : \A k \in N : n <= k
      BY <3>2, LeastNumber
    <3>4. \A y \in T3 : n <= y.tries
      BY <3>1, <3>3
    <3> QED
      BY <3>1, <3>3, <3>4
  <2>8. PICK x \in T3 : x.tries = e
    BY <2>7
  <2>9. /\ x \in T /\ x.resets = a /\ x.rungs = b /\ x.stages = c
    BY <2>2, <2>4, <2>6, <2>8
  <2>10. ASSUME NEW y \in T PROVE ~(<<y, x>> \in Lower)
    <3>1. ~Below(y, x)
      <4>1. /\ y.resets \in Nat /\ y.rungs \in Nat /\ y.stages \in Nat
            /\ y.tries \in Nat
            /\ a \in Nat /\ b \in Nat /\ c \in Nat /\ e \in Nat
        BY <1>1, <2>8, <2>9 DEF Ranks
      <4>2. /\ a <= y.resets
            /\ y.resets = a => b <= y.rungs
            /\ y.resets = a /\ y.rungs = b => c <= y.stages
            /\ y.resets = a /\ y.rungs = b /\ y.stages = c => e <= y.tries
        BY <2>1, <2>2, <2>3, <2>4, <2>5, <2>6, <2>7
      <4> QED
        BY <2>8, <2>9, <4>1, <4>2 DEF Below
    <3> QED
      BY <3>1 DEF Lower
  <2> QED
    BY <2>9, <2>10
<1> QED
  BY <1>1, MinWF

\* What is left is counted in natural numbers.
LEMMA RankType ==
  ASSUME NEW x, Good(x)
  PROVE  /\ Rank(x) \in Ranks
         /\ Rank(x).resets = Limit - x.counted
         /\ Rank(x).rungs = Rungs - x.attempt
         /\ Rank(x).stages = 3 * Stages(x) + Chores(x)
         /\ Rank(x).tries = 2 * Tries(x) + (IF x.resting THEN 1 ELSE 0)
         /\ Stages(x) \in 0..5 /\ Chores(x) \in 0..2 /\ Tries(x) \in Nat
         /\ x.counted \in Nat /\ x.attempt \in Nat
<1>1. /\ x \in DialState /\ x.counted \in 0..Limit /\ x.attempt \in 0..Rungs
      /\ x.sub \in Nat /\ x.ipPolls \in 0..(IpPolls - 1) /\ Sub(x)
  BY DEF Good, DialState
<1>2. Stages(x) \in 0..5
  BY DEF Stages
<1>3. Chores(x) \in 0..2
  BY DEF Chores
<1>4. Tries(x) \in Nat
  BY <1>1, ConstantsAssumption DEF Tries, Sub
<1>5. /\ Limit - x.counted \in Nat /\ Rungs - x.attempt \in Nat
      /\ 3 * Stages(x) + Chores(x) \in Nat
      /\ 2 * Tries(x) + (IF x.resting THEN 1 ELSE 0) \in Nat
      /\ x.counted \in Nat /\ x.attempt \in Nat
  BY <1>1, <1>2, <1>3, <1>4, ConstantsAssumption
<1>6. Rank(x) \in Ranks
  BY <1>5 DEF Rank, Ranks
<1> QED
  BY <1>2, <1>3, <1>4, <1>5, <1>6 DEF Rank

\* The next stage of the sequence.
LEMMA OnBelow ==
  ASSUME NEW x, Good(x), AtWorkOn(x),
         NEW step \in {"REG", "APN", "ACTIVATE", "IP"},
         \/ step = "REG" /\ x.step = "PIN"
         \/ step = "APN" /\ x.step = "REG"
         \/ step = "ACTIVATE" /\ x.step = "APN"
         \/ step = "IP" /\ x.step = "ACTIVATE"
  PROVE  Below(Rank(To(x, step)), Rank(x))
<1>1. PICK y : y = To(x, step)
  OBVIOUS
<1>2. Good(y)
  BY <1>1, ToGood DEF AtWorkOn
<1>3. /\ y.step = step /\ y.counted = x.counted /\ y.attempt = x.attempt
      /\ y.wasUp = x.wasUp /\ y.verb = x.verb
  BY <1>1 DEF To, Good, DialState
<1>4. Chores(y) = Chores(x) /\ Stages(y) < Stages(x)
  BY <1>3 DEF Chores, Stages
<1>5. Below(Rank(y), Rank(x))
  BY <1>2, <1>3, <1>4, RankType DEF Below
<1> QED
  BY <1>1, <1>5

\* A step that has failed: a rung or a reset less, or the end.
LEMMA FailBelow ==
  ASSUME NEW x, Good(x), AtWorkOn(x), Fail(x), AtWorkOn(d')
  PROVE  Below(Rank(d'), Rank(x))
<1>1. PICK y : y = Failed(x)
  OBVIOUS
<1>2. /\ x.attempt < Rungs =>
           Good(Retried(y)) /\ Retried(y).counted = x.counted
      /\ x.counted < Limit =>
           Good(WasReset(y)) /\ WasReset(y).counted = x.counted + 1
      /\ y.counted = x.counted
  BY <1>1, FailGood DEF AtWorkOn
<1>3. y \in DialState /\ y.attempt = x.attempt
  <2>1. x \in DialState /\ 0 \in 0..(IpPolls - 1) /\ 0 \in Nat
    BY ConstantsAssumption DEF Good
  <2> QED
    BY <1>1, <2>1 DEF Failed, DialState
<1>4. CASE x.attempt < Rungs
  <2>1. d' = Retried(y)
    BY <1>1, <1>4 DEF Fail
  <2>2. Retried(y).attempt = x.attempt + 1
    BY <1>3 DEF Retried, To, DialState
  <2> QED
    BY <1>2, <1>4, <2>1, <2>2, RankType, ConstantsAssumption DEF Below
<1>5. CASE ~(x.attempt < Rungs) /\ ~MayReset(y)
  <2>1. \E reason \in {"resets off", "too many"} : d' = StoppedFor(y, reason)
    BY <1>1, <1>5 DEF Fail
  <2>2. d'.stopped # "no"
    BY <1>3, <2>1 DEF StoppedFor, To, DialState
  <2> QED
    BY <2>2 DEF AtWorkOn
<1>6. CASE ~(x.attempt < Rungs) /\ MayReset(y)
  <2>1. d' = WasReset(y) /\ x.counted < Limit
    BY <1>1, <1>2, <1>6 DEF Fail, MayReset
  <2> QED
    BY <1>2, <2>1, RankType, ConstantsAssumption DEF Below
<1> QED
  BY <1>4, <1>5, <1>6

\* What a tick that finds the dialler at work begins with.
LEMMA CurrentAtWork ==
  ASSUME IInv, Climbing
  PROVE  /\ Good(Current) /\ AtWorkOn(Current) /\ Rank(Current) = Rank(d)
         /\ Ready <=> ~d.resting
         /\ Current.resting = d.resting
<1>1. Good(d) /\ EnvOK /\ d \in DialState
  BY DEF IInv, Good
<1>2. Good(Current)
  BY <1>1, CurrentGood
<1>3. PICK x : x = [d EXCEPT !.kind = profile]
  OBVIOUS
<1>4. /\ x.step = d.step /\ x.sub = d.sub /\ x.verb = d.verb
      /\ x.wanted = d.wanted /\ x.stopped = d.stopped /\ x.up = d.up
      /\ x.counted = d.counted /\ x.attempt = d.attempt
      /\ x.wasUp = d.wasUp /\ x.ipPolls = d.ipPolls /\ x.resting = d.resting
  BY <1>1, <1>3 DEF DialState
<1>5. Current = x
  BY <1>3, <1>4 DEF Current, Autostarted, Climbing, AtWorkOn
<1>6. Rank(x) = Rank(d)
  BY <1>4 DEF Rank, Stages, Chores, Tries
<1> QED
  BY <1>2, <1>4, <1>5, <1>6 DEF Climbing, AtWorkOn, Ready

\* A try less in the same stage, or a chore less.
LEMMA LessBelow ==
  ASSUME NEW x, Good(x), NEW y, Good(y), y.step = x.step,
         y.counted = x.counted, y.attempt = x.attempt,
         \/ Chores(y) < Chores(x)
         \/ /\ Chores(y) = Chores(x)
            /\ \/ Tries(y) < Tries(x) /\ x.resting = FALSE
               \/ Tries(y) = Tries(x) /\ x.resting = TRUE /\ y.resting = FALSE
  PROVE  Below(Rank(y), Rank(x))
<1>1. Stages(y) = Stages(x)
  BY DEF Stages
<1>2. PICK a, b : a = Rank(x) /\ b = Rank(y)
  OBVIOUS
<1>3. /\ b.resets = a.resets /\ b.rungs = a.rungs
      /\ a.stages = 3 * Stages(x) + Chores(x)
      /\ b.stages = 3 * Stages(x) + Chores(y)
      /\ a.tries = 2 * Tries(x) + (IF x.resting THEN 1 ELSE 0)
      /\ b.tries = 2 * Tries(y) + (IF y.resting THEN 1 ELSE 0)
      /\ Stages(x) \in Int /\ Chores(x) \in Int /\ Chores(y) \in Int
      /\ Tries(x) \in Int /\ Tries(y) \in Int
      /\ a.resets \in Nat /\ a.rungs \in Nat
  BY <1>1, <1>2, RankType DEF Ranks
<1>4. Below(b, a)
  BY <1>3 DEF Below
<1> QED
  BY <1>2, <1>4

LEMMA TickBelow ==
  ASSUME IInv, IInv', Climbing, AtWorkOn(d'), Tick, ~d.resting
  PROVE  Below(Rank(d'), Rank(d))
<1>1. PICK x : x = Current
  OBVIOUS
<1>2. /\ Good(x) /\ AtWorkOn(x) /\ Rank(x) = Rank(d) /\ Ready
      /\ x.resting = FALSE
  <2>1. /\ Good(Current) /\ AtWorkOn(Current) /\ Rank(Current) = Rank(d)
        /\ Ready /\ Current.resting = d.resting
    BY CurrentAtWork
  <2>2. d.resting \in BOOLEAN
    BY DEF IInv, Good, DialState
  <2> QED
    BY <1>1, <2>1, <2>2
<1>3. x \in DialState /\ x.step # "UP" /\ Good(d')
  BY <1>2 DEF Good, Flags, AtWorkOn, IInv
<1>4. Fail(x) => Below(Rank(d'), Rank(x))
  BY <1>2, FailBelow
<1>5. CASE TickIdle
  BY <1>2, <1>5 DEF TickIdle
<1>6. CASE TickPin \/ TickApn \/ TickActivate
  <2>1. \/ Fail(x)
        \/ x.step = "PIN" /\ d' = To(x, "REG")
        \/ x.step = "APN" /\ d' = To(x, "ACTIVATE")
        \/ x.step = "ACTIVATE" /\ d' = To(x, "IP")
    BY <1>1, <1>6 DEF TickPin, TickApn, TickActivate, At
  <2> QED
    BY <1>2, <1>4, <2>1, OnBelow
<1>7. CASE TickReg
  <2>1. /\ x.step = "REG"
        /\ \/ d' = To(x, "APN")
           \/ NextDomain(x) /\ d' = [x EXCEPT !.sub = @ + 1]
           \/ Fail(x)
    BY <1>1, <1>7 DEF TickReg, At
  <2>2. CASE NextDomain(x) /\ d' = [x EXCEPT !.sub = @ + 1]
    <3>1. /\ d'.step = x.step /\ d'.counted = x.counted
          /\ d'.attempt = x.attempt /\ d'.sub = x.sub + 1
          /\ d'.wasUp = x.wasUp /\ d'.verb = x.verb /\ x.sub \in Nat
      BY <1>3, <2>2 DEF DialState
    <3>2. Chores(d') = Chores(x) /\ Tries(d') < Tries(x)
      BY <2>1, <3>1, ConstantsAssumption DEF Chores, Tries
    <3> QED
      BY <1>2, <1>3, <3>1, <3>2, LessBelow
  <2>3. CASE d' = To(x, "APN")
    BY <1>2, <2>1, <2>3, OnBelow
  <2> QED
    BY <1>2, <1>4, <2>1, <2>2, <2>3
<1>8. CASE TickProbe
  <2>1. /\ x.step = "ACTIVATE" /\ x.verb = "none"
        /\ \/ d' = [x EXCEPT !.sub = 0, !.verb =
                      IF x.sub = 0 THEN "GTWWAN" ELSE "GTRNDIS"]
           \/ x.sub = 0 /\ d' = [x EXCEPT !.sub = 1]
           \/ Fail(x)
    BY <1>1, <1>8 DEF TickProbe, At
  <2>2. CASE d' = [x EXCEPT !.sub = 0, !.verb =
                      IF x.sub = 0 THEN "GTWWAN" ELSE "GTRNDIS"]
    <3>1. /\ d'.step = x.step /\ d'.counted = x.counted
          /\ d'.attempt = x.attempt /\ d'.verb # "none"
          /\ d'.wasUp = x.wasUp
      BY <1>3, <2>2 DEF DialState
    <3>2. Chores(d') < Chores(x)
      BY <2>1, <3>1 DEF Chores
    <3> QED
      BY <1>2, <1>3, <3>1, <3>2, LessBelow
  <2>3. CASE x.sub = 0 /\ d' = [x EXCEPT !.sub = 1]
    <3>1. /\ d'.step = x.step /\ d'.counted = x.counted
          /\ d'.attempt = x.attempt /\ d'.verb = x.verb
          /\ d'.wasUp = x.wasUp /\ d'.sub = 1
      BY <1>3, <2>3 DEF DialState
    <3>2. Chores(d') = Chores(x) /\ Tries(d') < Tries(x)
      BY <2>1, <2>3, <3>1 DEF Chores, Tries
    <3> QED
      BY <1>2, <1>3, <3>1, <3>2, LessBelow
  <2> QED
    BY <1>2, <1>4, <2>1, <2>2, <2>3
<1>9. CASE TickDeactivate
  <2>1. x.wasUp /\ d' = LetGo(x)
    BY <1>1, <1>9 DEF TickDeactivate
  <2>2. /\ d'.step = x.step /\ d'.counted = x.counted
        /\ d'.attempt = x.attempt /\ d'.verb = x.verb /\ ~d'.wasUp
    BY <1>3, <2>1 DEF LetGo, DialState
  <2>3. Chores(d') < Chores(x)
    BY <2>1, <2>2 DEF Chores
  <2> QED
    BY <1>2, <1>3, <2>2, <2>3, LessBelow
<1>10. CASE TickRead
  <2>1. /\ x.step = "IP"
        /\ \/ d' = HasAddress(x)
           \/ NotYet(x).ipPolls < IpPolls /\ d' = NotYet(x)
           \/ Fail(x)
    BY <1>1, <1>3, <1>10 DEF TickRead, At
  <2>2. CASE d' = HasAddress(x)
    <3>1. d'.up
      BY <1>3, <2>2 DEF HasAddress, DialState
    <3> QED
      BY <3>1 DEF AtWorkOn
  <2>3. CASE NotYet(x).ipPolls < IpPolls /\ d' = NotYet(x)
    <3>1. /\ d'.step = x.step /\ d'.counted = x.counted
          /\ d'.attempt = x.attempt /\ d'.verb = x.verb
          /\ d'.wasUp = x.wasUp /\ d'.ipPolls = x.ipPolls + 1
          /\ x.ipPolls \in Int
      <4>1. x \in DialState /\ x.ipPolls \in 0..(IpPolls - 1)
        BY <1>3 DEF DialState
      <4>2. x.ipPolls \in Int
        BY <4>1, ConstantsAssumption
      <4> QED
        BY <2>3, <4>1, <4>2 DEF NotYet, DialState
    <3>2. Chores(d') = Chores(x) /\ Tries(d') < Tries(x)
      BY <2>1, <3>1, ConstantsAssumption DEF Chores, Tries
    <3> QED
      BY <1>2, <1>3, <3>1, <3>2, LessBelow
  <2> QED
    BY <1>2, <1>4, <2>1, <2>2, <2>3
<1> QED
  BY <1>5, <1>6, <1>7, <1>8, <1>9, <1>10 DEF Tick

LEMMA DescendsStep ==
  ASSUME IInv, IInv', [Next]_vars
  PROVE  Descends
<1> SUFFICES ASSUME Climbing, Climbing' PROVE
      /\ Rank(d') = Rank(d) \/ Below(Rank(d'), Rank(d))
      /\ (Tick /\ ~d.resting) \/ Rest => Below(Rank(d'), Rank(d))
  BY DEF Descends
<1>0. d \in DialState /\ Good(d) /\ Good(d') /\ AtWorkOn(d) /\ AtWorkOn(d')
  BY DEF IInv, Good, Climbing
<1>1. CASE Rest
  <2>1. /\ d'.step = d.step /\ d'.counted = d.counted
        /\ d'.attempt = d.attempt /\ d'.verb = d.verb /\ d'.wasUp = d.wasUp
        /\ d'.ipPolls = d.ipPolls /\ d'.sub = d.sub
        /\ d.resting = TRUE /\ d'.resting = FALSE
    BY <1>0, <1>1 DEF Rest, DialState
  <2>2. Chores(d') = Chores(d) /\ Tries(d') = Tries(d)
    BY <2>1 DEF Chores, Tries
  <2> QED
    BY <1>0, <2>1, <2>2, LessBelow
<1>2. CASE Tick /\ ~d.resting
  BY <1>0, <1>2, TickBelow
<1>3. CASE Tick /\ d.resting
  <2>1. ~Ready /\ Rank(Current) = Rank(d)
    BY <1>3, CurrentAtWork
  <2>2. d' = Current
    BY <1>3, <2>1 DEF Tick, TickIdle, TickPin, TickReg, TickApn, TickProbe,
       TickDeactivate, TickActivate, TickRead, At
  <2>3. ~Rest
    <3>1. CASE Rest
      <4>1. d'.resting = FALSE
        BY <1>0, <3>1 DEF Rest, DialState
      <4> QED
        BY <1>0, <1>3, <2>2, <4>1, CurrentAtWork
    <3> QED
      BY <3>1
  <2> QED
    BY <1>3, <2>1, <2>2, <2>3
<1>4. CASE ~Tick /\ ~Rest
  <2>1. CASE Start \/ PortChanges \/ ProfileChanges \/ ContextChanges
               \/ ServiceRestored \/ Hours \/ UNCHANGED vars
    <3>1. d' = d
      BY <1>0, <2>1 DEF Start, Started, AtWorkOn, PortChanges,
         ProfileChanges, ContextChanges, ServiceRestored, Hours, vars
    <3> QED
      BY <1>4, <3>1
  <2>2. CASE Configure
    <3>1. PICK c \in Confs : d' = Configured(d, c)
      BY <2>2 DEF Configure
    <3>2. /\ d'.step = d.step /\ d'.counted = d.counted
          /\ d'.attempt = d.attempt /\ d'.verb = d.verb
          /\ d'.wasUp = d.wasUp /\ d'.ipPolls = d.ipPolls /\ d'.sub = d.sub
          /\ d'.resting = d.resting
      BY <1>0, <3>1 DEF Configured, DialState
    <3>3. Rank(d') = Rank(d)
      BY <3>2 DEF Rank, Stages, Chores, Tries
    <3> QED
      BY <1>4, <3>3
  <2>3. CASE Stop
    <3>1. d'.wanted = FALSE
      BY <1>0, <2>3 DEF Stop, StopUntold, StopTold, Stopping, DialState
    <3> QED
      BY <1>0, <3>1 DEF AtWorkOn
  <2>4. CASE Crash \/ CrashBeforeReset
    <3>1. PICK c \in Confs : \E n : d' = Boot(c, n)
      BY <2>4 DEF Crash, CrashBeforeReset
    <3>2. d'.wanted = FALSE
      BY <3>1 DEF Boot, Configured
    <3> QED
      BY <1>0, <3>2 DEF AtWorkOn
  <2> QED
    BY <1>4, <2>1, <2>2, <2>3, <2>4 DEF Next, Daemon, Environment
<1> QED
  BY <1>1, <1>2, <1>3, <1>4

\* While the dialler is at work and neither up, stopped nor dead, each tick
\* that acts takes something of what it has before it and nothing gives back,
\* whatever the module answers, the user configures and the port does
\* (dialer.c:353-411): with LowerWellFounded, it comes to an end.
THEOREM LadderDescends == Spec => [][Descends]_vars
<1>1. IInv /\ IInv' /\ [Next]_vars => Descends
  BY DescendsStep
<1> QED
  BY <1>1, Invariance, PTL DEF Spec

-----------------------------------------------------------------------------
(***************************************************************************)
(* A context that is closed under a link that is up: the reads that are     *)
(* left, and the rests between them.                                        *)
(***************************************************************************)
Lost == d.up /\ ~active /\ port = "ok"

Reads(x) == 2 * (IpPolls - x.ipPolls) + (IF x.resting THEN 1 ELSE 0)

LossCounted ==
  Lost /\ Lost' =>
    /\ Reads(d)' \in 1..(2 * IpPolls + 1)
    /\ Reads(d)' = Reads(d) \/ Reads(d)' < Reads(d)
    /\ (Tick /\ ~d.resting) \/ Rest => Reads(d)' < Reads(d)

LEMMA ReadsType ==
  ASSUME NEW x, Good(x)
  PROVE  Reads(x) \in 1..(2 * IpPolls + 1)
<1>1. x.ipPolls \in 0..(IpPolls - 1)
  BY DEF Good, DialState
<1> QED
  BY <1>1, ConstantsAssumption DEF Reads

\* A step that has failed takes the link down.
LEMMA FailDown ==
  ASSUME NEW x, Good(x), x.wanted, x.stopped = "no", Fail(x)
  PROVE  ~d'.up
<1>1. PICK y : y = Failed(x)
  OBVIOUS
<1>2. y \in DialState /\ y.up = FALSE
  <2>1. x \in DialState /\ 0 \in 0..(IpPolls - 1) /\ 0 \in Nat
    BY ConstantsAssumption DEF Good
  <2> QED
    BY <1>1, <2>1 DEF Failed, DialState
<1>3. \/ d' = Retried(y) \/ d' = WasReset(y)
      \/ \E reason \in {"resets off", "too many"} : d' = StoppedFor(y, reason)
  BY <1>1 DEF Fail
<1> QED
  BY <1>2, <1>3 DEF Retried, WasReset, StoppedFor, To, DialState

LEMMA LossStep ==
  ASSUME IInv, IInv', [Next]_vars
  PROVE  LossCounted
<1> SUFFICES ASSUME Lost, Lost' PROVE
      /\ Reads(d') = Reads(d) \/ Reads(d') < Reads(d)
      /\ (Tick /\ ~d.resting) \/ Rest => Reads(d') < Reads(d)
  <2>1. Good(d')
    BY DEF IInv
  <2>2. Reads(d') \in 1..(2 * IpPolls + 1)
    BY <2>1, ReadsType
  <2> QED
    BY <2>2 DEF LossCounted, Reads
<1>0. /\ d \in DialState /\ Good(d) /\ Good(d') /\ d.up /\ d'.up /\ ~active
      /\ d.wanted /\ d.stopped = "no" /\ d.step = "UP" /\ port = "ok"
      /\ Reads(d) \in Int /\ Reads(d') \in Int
      /\ d.ipPolls \in Int /\ IpPolls \in Int
  <2>1. d \in DialState /\ Good(d) /\ Good(d') /\ d.up /\ d'.up
    BY DEF IInv, Good, Lost
  <2>2. d.step = "UP" /\ d.wanted /\ d.stopped = "no"
    BY <2>1 DEF Good, Flags, Working
  <2>3. Reads(d) \in Int /\ Reads(d') \in Int
    <3>1. Reads(d) \in 1..(2 * IpPolls + 1)
      BY <2>1, ReadsType
    <3>2. Reads(d') \in 1..(2 * IpPolls + 1)
      BY <2>1, ReadsType
    <3> QED
      BY <3>1, <3>2
  <2>4. d.ipPolls \in 0..(IpPolls - 1)
    BY <2>1 DEF DialState
  <2> QED
    BY <2>1, <2>2, <2>3, <2>4, ConstantsAssumption DEF Lost
<1>1. PICK x : x = [d EXCEPT !.kind = profile]
  OBVIOUS
<1>2. /\ x.step = d.step /\ x.wanted = d.wanted /\ x.stopped = d.stopped
      /\ x.up = d.up /\ x.ipPolls = d.ipPolls /\ x.resting = d.resting
  BY <1>0, <1>1 DEF DialState
<1>3. Current = x
  BY <1>0, <1>1, <1>2 DEF Current, Autostarted
<1>4. Good(x)
  BY <1>3, CurrentGood DEF IInv
<1>5. CASE Rest
  <2>1. d'.ipPolls = d.ipPolls /\ d.resting = TRUE /\ d'.resting = FALSE
    BY <1>0, <1>5 DEF Rest, DialState
  <2> QED
    BY <1>0, <2>1 DEF Reads
<1>6. CASE Tick /\ ~d.resting
  <2>1. Ready /\ Current.step = "UP"
    BY <1>0, <1>2, <1>3, <1>6 DEF Ready
  <2>2. TickRead
    BY <1>6, <2>1 DEF Tick, TickIdle, TickPin, TickReg, TickApn, TickProbe,
       TickDeactivate, TickActivate, At
  <2>3. d' = NotYet(x) \/ Fail(x)
    BY <1>0, <1>3, <2>2 DEF TickRead
  <2>4. ~Fail(x)
    BY <1>0, <1>2, <1>4, FailDown
  <2>5. d'.ipPolls = d.ipPolls + 1 /\ d'.resting = TRUE
    <3>1. x \in DialState
      BY <1>4 DEF Good
    <3>2. d' = NotYet(x)
      BY <2>3, <2>4
    <3>3. NotYet(x).ipPolls = x.ipPolls + 1 /\ NotYet(x).resting = TRUE
      BY <3>1 DEF NotYet, DialState
    <3> QED
      BY <1>2, <3>2, <3>3
  <2> QED
    BY <1>0, <1>6, <2>5 DEF Reads
<1>7. CASE Tick /\ d.resting
  <2>1. ~Ready
    BY <1>2, <1>3, <1>7 DEF Ready
  <2>2. d' = x
    BY <1>3, <1>7, <2>1 DEF Tick, TickIdle, TickPin, TickReg, TickApn,
       TickProbe, TickDeactivate, TickActivate, TickRead, At
  <2>3. Reads(d') = Reads(d)
    BY <1>2, <2>2 DEF Reads
  <2>4. ~Rest
    <3>1. ASSUME Rest PROVE FALSE
      <4>1. d'.resting = FALSE
        BY <1>0, <3>1 DEF Rest, DialState
      <4> QED
        BY <1>2, <1>7, <2>2, <4>1
    <3> QED
      BY <3>1
  <2> QED
    BY <1>7, <2>3, <2>4
<1>8. CASE ~Tick /\ ~Rest
  <2>1. Reads(d') = Reads(d)
    <3>1. CASE Start \/ PortChanges \/ ProfileChanges \/ ContextChanges
                 \/ ServiceRestored \/ Hours \/ UNCHANGED vars
      <4>1. d' = d
        BY <1>0, <3>1 DEF Start, Started, PortChanges, ProfileChanges,
           ContextChanges, ServiceRestored, Hours, vars
      <4> QED
        BY <4>1
    <3>2. CASE Configure
      <4>1. PICK c \in Confs : d' = Configured(d, c)
        BY <3>2 DEF Configure
      <4>2. d'.ipPolls = d.ipPolls /\ d'.resting = d.resting
        BY <1>0, <4>1 DEF Configured, DialState
      <4> QED
        BY <4>2 DEF Reads
    <3>3. CASE Stop
      <4>1. d'.up = FALSE
        <5>1. PICK y : y = Stopping(d)
          OBVIOUS
        <5>2. /\ \A r : [y EXCEPT !.resting = r].up = FALSE
              /\ [y EXCEPT !.wasUp = FALSE].up = FALSE
          BY <1>0, <5>1 DEF Stopping, DialState
        <5> QED
          BY <3>3, <5>1, <5>2 DEF Stop, StopUntold, StopTold
      <4> QED
        BY <1>0, <4>1
    <3>4. CASE Crash \/ CrashBeforeReset
      <4>1. PICK c \in Confs : \E n : d' = Boot(c, n)
        BY <3>4 DEF Crash, CrashBeforeReset
      <4>2. d'.up = FALSE
        BY <4>1 DEF Boot, Configured
      <4> QED
        BY <1>0, <4>2
    <3> QED
      BY <1>8, <3>1, <3>2, <3>3, <3>4 DEF Next, Daemon, Environment
  <2> QED
    BY <1>8, <2>1
<1> QED
  BY <1>5, <1>6, <1>7, <1>8

\* A link whose context was closed is found out after a bounded number of
\* reads, whatever they answer (dialer.c:705-713): what LossIsNoticed rests on.
THEOREM LossIsCounted == Spec => [][LossCounted]_vars
<1>1. IInv /\ IInv' /\ [Next]_vars => LossCounted
  BY LossStep
<1> QED
  BY <1>1, Invariance, PTL DEF Spec

-----------------------------------------------------------------------------
(***************************************************************************)
(* The session.  A life of the daemon that has sent an activation knows by  *)
(* which verb, and never forgets it: so its stop has a command to send.     *)
(***************************************************************************)
\* The verb that is known is never forgotten.
VerbKept == d.verb # "none" => d'.verb # "none"

LEMMA FailVerb ==
  ASSUME NEW x, Good(x), Fail(x)
  PROVE  d'.verb = x.verb
<1>1. PICK y : y = Failed(x)
  OBVIOUS
<1>2. y \in DialState /\ y.verb = x.verb
  <2>1. x \in DialState /\ 0 \in 0..(IpPolls - 1)
    BY ConstantsAssumption DEF Good
  <2> QED
    BY <1>1, <2>1 DEF Failed, DialState
<1>3. \/ d' = Retried(y) \/ d' = WasReset(y)
      \/ \E reason \in {"resets off", "too many"} : d' = StoppedFor(y, reason)
  BY <1>1 DEF Fail
<1> QED
  BY <1>2, <1>3 DEF Retried, WasReset, StoppedFor, To, DialState

LEMMA FailStep ==
  ASSUME NEW x, Good(x), Fail(x)
  PROVE  d'.step # "DOWN"
<1>1. PICK y : y = Failed(x)
  OBVIOUS
<1>2. y \in DialState
  <2>1. x \in DialState /\ 0 \in 0..(IpPolls - 1)
    BY ConstantsAssumption DEF Good
  <2> QED
    BY <1>1, <2>1 DEF Failed, DialState
<1>3. \/ d' = Retried(y) \/ d' = WasReset(y)
      \/ \E reason \in {"resets off", "too many"} : d' = StoppedFor(y, reason)
  BY <1>1 DEF Fail
<1> QED
  BY <1>2, <1>3 DEF Retried, WasReset, StoppedFor, To, DialState

LEMMA CurrentVerb ==
  ASSUME Good(d)
  PROVE  Current.verb = d.verb
<1>1. PICK x : x = [d EXCEPT !.kind = profile]
  OBVIOUS
<1>2. PICK y : y = [x EXCEPT !.autostartDone = TRUE]
  OBVIOUS
<1>3. Current = x \/ Current = Started(y)
  BY <1>1, <1>2 DEF Current, Autostarted
<1>4. x.verb = d.verb /\ y.verb = d.verb /\ y = [y EXCEPT !.verb = d.verb]
  BY <1>1, <1>2 DEF Good, DialState
<1>5. Started(y) \in {y, [y EXCEPT !.configError = TRUE], Begun(y)}
  BY DEF Started
<1>6. [y EXCEPT !.configError = TRUE].verb = d.verb
  BY <1>1, <1>2 DEF Good, DialState
<1>7. Begun(y).verb = d.verb
  BY <1>1, <1>2 DEF Good, DialState, Begun, To
<1> QED
  BY <1>3, <1>4, <1>5, <1>6, <1>7

LEMMA CurrentStep ==
  ASSUME Good(d)
  PROVE  Current.step \in {d.step, "PIN"}
<1>1. PICK x : x = [d EXCEPT !.kind = profile]
  OBVIOUS
<1>2. PICK y : y = [x EXCEPT !.autostartDone = TRUE]
  OBVIOUS
<1>3. Current = x \/ Current = Started(y)
  BY <1>1, <1>2 DEF Current, Autostarted
<1>4. Started(y) \in {y, [y EXCEPT !.configError = TRUE], Begun(y)}
  BY DEF Started
<1>5. /\ x.step = d.step /\ y.step = d.step
      /\ [y EXCEPT !.configError = TRUE].step = d.step
  BY <1>1, <1>2 DEF Good, DialState
<1>6. Begun(y).step = "PIN"
  BY <1>1, <1>2 DEF Good, DialState, Begun, To
<1> QED
  BY <1>3, <1>4, <1>5, <1>6

LEMMA TickNotDown ==
  ASSUME IInv, Tick
  PROVE  d.step = "DOWN" \/ d'.step # "DOWN"
<1>1. PICK x : x = Current
  OBVIOUS
<1>2. Good(x) /\ x \in DialState
  BY <1>1, CurrentGood DEF IInv, Good
<1>3. x.step \in {d.step, "PIN"}
  BY <1>1, CurrentStep DEF IInv
<1>4. CASE TickIdle
  BY <1>1, <1>3, <1>4 DEF TickIdle
<1>5. CASE ~TickIdle
  <2>1. At(Working)
    BY <1>5 DEF Tick, TickPin, TickReg, TickApn, TickProbe, TickDeactivate,
       TickActivate, TickRead, At, Working
  <2>2. x.step # "DOWN"
    BY <1>1, <2>1 DEF At, Working
  <2>3. CASE Fail(Current)
    BY <1>1, <1>2, <2>3, FailStep
  <2>4. CASE \E step \in {"REG", "APN", "ACTIVATE", "IP"} : d' = To(x, step)
    BY <1>2, <2>4 DEF To, DialState
  <2>5. CASE \/ d' = [x EXCEPT !.sub = x.sub + 1] \/ d' = LetGo(x)
             \/ d' = HasAddress(x) \/ d' = NotYet(x)
             \/ d' = [x EXCEPT !.sub = 1]
             \/ \E v \in {"GTWWAN", "GTRNDIS"} :
                  d' = [x EXCEPT !.sub = 0, !.verb = v]
    BY <1>2, <2>2, <2>5 DEF LetGo, HasAddress, NotYet, DialState
  <2> QED
    <3>1. CASE TickPin \/ TickApn \/ TickActivate
      BY <1>1, <2>3, <2>4, <3>1 DEF TickPin, TickApn, TickActivate
    <3>2. CASE TickReg
      BY <1>1, <2>3, <2>4, <2>5, <3>2 DEF TickReg
    <3>3. CASE TickProbe
      <4>1. \/ \E v \in {"GTWWAN", "GTRNDIS"} :
                 d' = [x EXCEPT !.sub = 0, !.verb = v]
            \/ d' = [x EXCEPT !.sub = 1]
            \/ Fail(Current)
        BY <1>1, <3>3 DEF TickProbe
      <4> QED
        BY <2>3, <2>5, <4>1
    <3>4. CASE TickDeactivate \/ TickRead
      BY <1>1, <2>3, <2>5, <3>4 DEF TickDeactivate, TickRead
    <3> QED
      BY <1>5, <3>1, <3>2, <3>3, <3>4 DEF Tick
<1> QED
  BY <1>4, <1>5

LEMMA OthersNotDown ==
  ASSUME IInv, Start \/ Configure \/ Rest
  PROVE  d.step = "DOWN" \/ d'.step # "DOWN"
<1>0. Good(d) /\ d \in DialState
  BY DEF IInv, Good
<1>1. CASE Start
  BY <1>0, <1>1 DEF Start, Started, Begun, To, DialState
<1>2. CASE Configure
  <2>1. PICK c \in Confs : d' = Configured(d, c)
    BY <1>2 DEF Configure
  <2> QED
    BY <1>0, <2>1 DEF Configured, DialState
<1>3. CASE Rest
  BY <1>0, <1>3 DEF Rest, DialState
<1> QED
  BY <1>1, <1>2, <1>3

LEMMA VerbStep ==
  ASSUME IInv, \/ Daemon \/ Rest \/ PortChanges \/ ProfileChanges
               \/ ContextChanges \/ ServiceRestored \/ Hours
  PROVE  /\ VerbKept
         /\ TickActivate => d'.verb # "none"
<1>0. Good(d) /\ d \in DialState /\ Good(Current) /\ Current \in DialState
  BY CurrentGood DEF IInv, Good
<1>1. PICK x : x = Current
  OBVIOUS
<1>2. Good(x) /\ x \in DialState /\ x.verb = d.verb
  BY <1>0, <1>1, CurrentVerb
<1>3. CASE Tick
  <2>1. Fail(Current) => d'.verb = d.verb
    <3>1. ASSUME Fail(x) PROVE d'.verb = x.verb
      BY <1>2, <3>1, FailVerb
    <3> QED
      BY <1>1, <1>2, <3>1
  <2>2. TickActivate => d'.verb # "none"
    <3>1. ASSUME TickActivate, d' = To(Current, "IP") PROVE d'.verb = d.verb
      BY <1>1, <1>2, <3>1 DEF To, DialState
    <3> QED
      BY <1>1, <1>2, <2>1, <3>1 DEF TickActivate
  <2>3. CASE TickIdle
    BY <1>1, <1>2, <2>2, <2>3 DEF TickIdle, VerbKept
  <2>4. CASE TickPin \/ TickApn \/ TickActivate
    <3>1. d' = To(Current, "REG") \/ d' = To(Current, "ACTIVATE")
            \/ d' = To(Current, "IP") \/ Fail(Current)
      BY <2>4 DEF TickPin, TickApn, TickActivate
    <3>2. Fail(Current) \/ d'.verb = d.verb
      BY <1>1, <1>2, <3>1 DEF To, DialState
    <3> QED
      BY <2>1, <2>2, <3>2 DEF VerbKept
  <2>5. CASE TickReg
    <3>1. d' = To(Current, "APN") \/ d' = [x EXCEPT !.sub = x.sub + 1]
            \/ Fail(Current)
      BY <1>1, <2>5 DEF TickReg
    <3>2. Fail(Current) \/ d'.verb = d.verb
      BY <1>1, <1>2, <3>1 DEF To, DialState
    <3> QED
      BY <2>1, <3>2, <2>2 DEF VerbKept
  <2>6. CASE TickProbe
    <3>1. \/ \E v \in {"GTWWAN", "GTRNDIS"} : d' = [x EXCEPT !.sub = 0, !.verb = v]
          \/ d' = [x EXCEPT !.sub = 1]
          \/ Fail(Current)
      BY <1>1, <2>6 DEF TickProbe
    <3>2. Fail(Current) \/ d'.verb = d.verb \/ d'.verb \in {"GTWWAN", "GTRNDIS"}
      BY <1>2, <3>1 DEF DialState
    <3> QED
      BY <2>1, <3>2, <2>2 DEF VerbKept
  <2>7. CASE TickDeactivate
    <3>1. d'.verb = d.verb
      BY <1>1, <1>2, <2>7 DEF TickDeactivate, LetGo, DialState
    <3> QED
      BY <3>1, <2>2 DEF VerbKept
  <2>8. CASE TickRead
    <3>1. d' = HasAddress(x) \/ d' = NotYet(x) \/ Fail(Current)
      BY <1>1, <2>8 DEF TickRead
    <3>2. Fail(Current) \/ d'.verb = d.verb
      BY <1>2, <3>1 DEF HasAddress, NotYet, DialState
    <3> QED
      BY <2>1, <3>2, <2>2 DEF VerbKept
  <2> QED
    BY <1>3, <2>2, <2>3, <2>4, <2>5, <2>6, <2>7, <2>8 DEF Tick, VerbKept
<1>4. CASE ~Tick
  <2>1. ~TickActivate
    BY <1>4 DEF Tick
  <2>2. d'.verb = d.verb
    <3>1. CASE Start
      BY <1>0, <3>1 DEF Start, Started, Begun, To, DialState
    <3>2. CASE Configure
      <4>1. PICK c \in Confs : d' = Configured(d, c)
        BY <3>2 DEF Configure
      <4> QED
        BY <1>0, <4>1 DEF Configured, DialState
    <3>3. CASE Stop
      BY <1>0, <3>3 DEF Stop, StopUntold, StopTold, Stopping, DialState
    <3>4. CASE Rest
      BY <1>0, <3>4 DEF Rest, DialState
    <3>5. CASE PortChanges \/ ProfileChanges \/ ContextChanges
               \/ ServiceRestored \/ Hours
      BY <3>5 DEF PortChanges, ProfileChanges, ContextChanges,
         ServiceRestored, Hours
    <3> QED
      BY <1>4, <3>1, <3>2, <3>3, <3>4, <3>5 DEF Daemon
  <2> QED
    BY <2>1, <2>2 DEF VerbKept
<1> QED
  BY <1>3, <1>4

Openings == [Cids -> {"none", "this", "before"}]

\* The life that has activated a context knows the verb.
SessionOK ==
  /\ cid \in Cids
  /\ opened \in Openings
  /\ \A c \in Cids : opened[c] = "this" => d.verb # "none"

StopLeaves ==
  Stops => \A c \in Cids :
    opened'[c] # "none" => port = "none" \/ opened[c] = "before" \/ c # cid

LEMMA SessionStep ==
  ASSUME IInv, SessionOK, [SessionNext]_sessionVars
  PROVE  [Next]_vars /\ SessionOK' /\ (StopLeaves \/ UNCHANGED sessionVars)
<1>0. Good(d) /\ d \in DialState /\ Good(Current) /\ Current \in DialState
  BY CurrentGood DEF IInv, Good
<1>1. CASE UNCHANGED sessionVars
  BY <1>1 DEF sessionVars, vars, SessionOK, Openings
<1>2. CASE Dies
  <2>1. Next /\ cid' \in Cids
    BY <1>2 DEF Dies, Next, Environment
  <2>2. opened' \in Openings /\ \A c \in Cids : opened'[c] # "this"
    BY <1>2 DEF Dies, SessionOK, Openings
  <2>3. ~Stops
    <3>1. PICK c \in Confs : \E n : d' = Boot(c, n)
      BY <1>2 DEF Dies, Crash, CrashBeforeReset
    <3>2. d'.step = "IDLE"
      BY <3>1 DEF Boot, Configured
    <3> QED
      BY <3>2 DEF Stops
  <2> QED
    BY <2>1, <2>2, <2>3 DEF SessionOK, StopLeaves
<1>3. CASE Closes
  <2>1. Next /\ Daemon /\ UNCHANGED cid
    BY <1>3 DEF Closes, Next, Daemon, Tick, Stop
  <2>2. VerbKept
    BY <2>1, <1>3, VerbStep DEF Closes
  <2>3. /\ opened' \in Openings
        /\ opened'[cid] = "none"
        /\ \A c \in Cids : opened'[c] = "this" => opened[c] = "this"
    BY <1>3 DEF Closes, SessionOK, Openings
  <2> QED
    BY <2>1, <2>2, <2>3 DEF SessionOK, VerbKept, StopLeaves
<1>4. CASE Opens
  <2>1. Next /\ Daemon /\ d'.verb # "none" /\ UNCHANGED cid
    BY <1>4, VerbStep DEF Opens, Next, Daemon, Tick
  <2>2. opened' \in Openings
    BY <1>4 DEF Opens, SessionOK, Openings
  <2>3. ~Stops
    BY <1>4, TickNotDown DEF Opens, Tick, Stops
  <2> QED
    BY <2>1, <2>2, <2>3 DEF SessionOK, StopLeaves
<1>5. CASE Renames
  <2>1. Next /\ Daemon /\ cid' \in Cids /\ UNCHANGED opened
    BY <1>5 DEF Renames, Next, Daemon
  <2>2. VerbKept
    BY <2>1, VerbStep
  <2>3. ~Stops
    BY <1>5, OthersNotDown DEF Renames, Stops
  <2> QED
    BY <2>1, <2>2, <2>3 DEF SessionOK, VerbKept, StopLeaves
<1>6. CASE Other
  <2>1. /\ Next /\ UNCHANGED <<cid, opened>>
        /\ \/ Daemon \/ Rest \/ PortChanges \/ ProfileChanges
           \/ ContextChanges \/ ServiceRestored \/ Hours
    BY <1>6 DEF Other, Next, Environment, Daemon, Tick, Stop
  <2>2. VerbKept
    BY <2>1, VerbStep
  <2>3. SessionOK'
    BY <2>1, <2>2 DEF SessionOK, VerbKept
  <2>4. ASSUME Stops, port # "none", NEW c \in Cids, opened'[c] # "none"
        PROVE  opened[c] = "before"
    <3>1. opened[c] \in {"this", "before"}
      BY <2>1, <2>4 DEF SessionOK, Openings
    <3>2. CASE StopUntold
      BY <2>4, <3>1, <3>2 DEF StopUntold, SessionOK
    <3>3. CASE Tick
      BY <1>0, <2>4, <3>3, TickNotDown DEF Stops
    <3>4. CASE Start \/ Rest
      BY <2>4, <3>4, OthersNotDown DEF Stops
    <3>5. CASE PortChanges \/ ProfileChanges \/ ContextChanges
               \/ ServiceRestored \/ Hours
      BY <2>4, <3>5 DEF PortChanges, ProfileChanges, ContextChanges,
         ServiceRestored, Hours, Stops
    <3> QED
      BY <1>6, <3>2, <3>3, <3>4, <3>5 DEF Other, Tick
  <2> QED
    BY <2>1, <2>3, <2>4 DEF StopLeaves
<1> QED
  BY <1>1, <1>2, <1>3, <1>4, <1>5, <1>6 DEF SessionNext

\* dialer.c:904-930: a stop closes the context that is configured if this life
\* of the daemon has opened it and there is a port.  What it leaves open was
\* opened by a life before, or under a context configured away since, or there
\* was no port.
THEOREM SessionEnds == SessionSpec => StopEndsOwnSession
<1>1. SessionInit => IInv /\ SessionOK
  BY InitIInv DEF SessionInit, SessionOK, Openings
<1>2. IInv /\ SessionOK /\ [SessionNext]_sessionVars => IInv' /\ SessionOK'
  BY SessionStep, NextIInv
<1>3. IInv /\ SessionOK /\ [SessionNext]_sessionVars
        => [Stops => \A c \in Cids :
              opened'[c] # "none" => \/ port = "none"
                                     \/ opened[c] = "before"
                                     \/ c # cid]_sessionVars
  BY SessionStep DEF StopLeaves
<1> QED
  BY <1>1, <1>2, <1>3, PTL DEF SessionSpec, StopEndsOwnSession

-----------------------------------------------------------------------------
(***************************************************************************)
(* The link.                                                                *)
(***************************************************************************)
ServedDown == good /\ active /\ d.up /\ ~d'.up

LEMMA ServedStep ==
  ASSUME IInv, [Next]_vars, ServedDown
  PROVE  Stop \/ Crash
<1>1. /\ d \in DialState /\ Good(d) /\ d.up /\ d.step = "UP" /\ d.wanted
      /\ d.stopped = "no" /\ d' # d
  BY DEF IInv, Good, Flags, ServedDown, Working
<1>2. PICK x : x = Current
  OBVIOUS
<1>3. x = [d EXCEPT !.kind = profile]
  <2>1. PICK y : y = [d EXCEPT !.kind = profile]
    OBVIOUS
  <2>2. y.wanted
    BY <1>1, <2>1 DEF DialState
  <2> QED
    BY <1>2, <2>1, <2>2 DEF Current, Autostarted
<1>4. x.up /\ x.step = "UP"
  BY <1>1, <1>3 DEF DialState
<1>5. CASE Tick
  <2>1. TickIdle \/ TickRead
    BY <1>2, <1>4, <1>5 DEF Tick, TickPin, TickReg, TickApn, TickProbe,
       TickDeactivate, TickActivate, At
  <2>2. d' = x \/ d' = HasAddress(x)
    BY <1>2, <2>1 DEF TickIdle, TickRead, ServedDown
  <2>3. HasAddress(x).up
    BY <1>1, <1>3 DEF HasAddress, DialState
  <2> QED
    BY <1>4, <2>2, <2>3 DEF ServedDown
<1>6. CASE Start
  BY <1>1, <1>6 DEF Start, Started
<1>7. CASE Configure
  <2>1. PICK c \in Confs : d' = Configured(d, c)
    BY <1>7 DEF Configure
  <2> QED
    BY <1>1, <2>1 DEF Configured, DialState, ServedDown
<1>8. CASE Rest
  BY <1>1, <1>8 DEF Rest, DialState, ServedDown
<1>9. CASE PortChanges \/ ProfileChanges \/ ContextChanges
             \/ ServiceRestored \/ Hours \/ UNCHANGED vars
  BY <1>1, <1>9 DEF PortChanges, ProfileChanges, ContextChanges,
     ServiceRestored, Hours, vars
<1>10. CASE CrashBeforeReset
  BY <1>10 DEF CrashBeforeReset, ServedDown
<1> QED
  BY <1>5, <1>6, <1>7, <1>8, <1>9, <1>10 DEF Next, Daemon, Environment

\* A link that is up on a service that works stays up until the dialler is
\* stopped or the daemon dies.
THEOREM ServedLinkStaysUp == Spec => ServedLinkStays
<1>1. IInv /\ [Next]_vars
        => [good /\ active /\ d.up /\ ~d'.up => Stop \/ Crash]_vars
  BY ServedStep DEF ServedDown
<1> QED
  BY <1>1, Invariance, PTL DEF Spec, ServedLinkStays
=============================================================================
