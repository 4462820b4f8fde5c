--------------------------- MODULE DiscoveryProofs ---------------------------
(***************************************************************************)
(* Port discovery for any devices, any size of the candidate list, any      *)
(* limits of the breaker and any length of the identity chain: the types,   *)
(* the pause between two sweeps, the identity, and why a search ends.       *)
(***************************************************************************)
EXTENDS Discovery, SequenceTheorems, FiniteSetTheorems, TLAPS

LEMMA DiscoveryNumbers ==
  /\ IsFiniteSet(Tty) /\ CandMax \in Nat \ {0}
  /\ SoftLimit \in Nat \ {0} /\ HardLimit \in Nat
  /\ IdentItems \in Nat \ {0} /\ MaxMoves \in Nat
BY DiscoveryAssumption DEF DiscoveryConstants

-----------------------------------------------------------------------------
(* The invariant *)

CandState == [list : Seq(Tty), idx : Nat \ {0}]
PortState == [found : BOOLEAN, name : Tty]
BreakerState == [state : 0..2, consec : Nat, age : {"unset", "fresh", "old"}]
IdentState == [left : 0..IdentItems, done : BOOLEAN]
SeenState == [probed : Seq(Tty), askedOff : BOOLEAN, settled : BOOLEAN,
              moves : 0..MaxMoves]

Distinct(q) == \A i, j \in DOMAIN q : q[i] = q[j] => i = j

\* Outside the long pause the devices probed since the last one are those the
\* daemon has passed in its list; during it there is no list.
SweepOK ==
  /\ Distinct(cands.list)
  /\ cands.idx <= Len(cands.list) + 1
  /\ IF held = "long"
     THEN cands = NoCands
     ELSE /\ Len(seen.probed) = cands.idx - 1
          /\ \A i \in 1..(cands.idx - 1) : seen.probed[i] = cands.list[i]
  /\ Distinct(seen.probed)

IdentOK == ident.left = 0 /\ port.found => ident.done \/ seen.askedOff

IInv == DiscoveryTypeOK /\ SweepOK /\ IdentOK

-----------------------------------------------------------------------------
(* Lists of candidates *)

\* A scan lists devices of the machine, none twice.
LEMMA ScanShape ==
  ASSUME NEW b, NEW q \in Scans(b)
  PROVE  q \in Seq(Tty) /\ Distinct(q)
<1>1. PICK S \in Noted(b) : q \in SetToSeqs(Eligible(b, S))
  BY DEF Scans
<1>2. PICK E : E = Eligible(b, S)
  OBVIOUS
<1>3. E \subseteq Tty
  BY <1>1, <1>2 DEF Noted, Own, Eligible
<1>4. PICK n : n = Cardinality(E)
  OBVIOUS
<1>5. n \in Nat
  BY <1>3, <1>4, DiscoveryNumbers, FS_Subset, FS_CardinalityType
<1>6. q \in [1..n -> E] /\ \A i, j \in 1..n : i # j => q[i] # q[j]
  BY <1>1, <1>2, <1>4 DEF SetToSeqs
<1>7. q \in [1..n -> Tty]
  BY <1>3, <1>6
<1>8. q \in Seq(Tty)
  BY <1>5, <1>7, SeqDef
<1>9. DOMAIN q = 1..n
  BY <1>6
<1> QED
  BY <1>6, <1>8, <1>9 DEF Distinct

LEMMA NoCandsOK ==
  /\ NoCands \in CandState /\ NoCands.list = <<>> /\ NoCands.idx = 1
  /\ Len(NoCands.list) = 0 /\ Distinct(NoCands.list)
BY EmptySeq DEF NoCands, CandState, Distinct

LEMMA NoneDistinct == <<>> \in Seq(Tty) /\ Len(<<>>) = 0 /\ Distinct(<<>>)
BY EmptySeq DEF Distinct

\* A device of the list is one more, and no longer than the list.
LEMMA PassedOn ==
  ASSUME NEW q \in Seq(Tty), Distinct(q), NEW i \in 1..Len(q),
         NEW p \in Seq(Tty), Len(p) = i - 1,
         \A k \in 1..(i - 1) : p[k] = q[k]
  PROVE  /\ Append(p, q[i]) \in Seq(Tty) /\ Len(Append(p, q[i])) = i
         /\ \A k \in 1..i : Append(p, q[i])[k] = q[k]
         /\ Distinct(Append(p, q[i]))
<1>1. q[i] \in Tty /\ Len(q) \in Nat
  BY ElementOfSeq, LenProperties
<1>2. PICK r : r = Append(p, q[i])
  OBVIOUS
<1>3. /\ r \in Seq(Tty) /\ Len(r) = i
      /\ \A k \in 1..(i - 1) : r[k] = p[k]
      /\ r[i] = q[i]
  BY <1>1, <1>2, AppendProperties
<1>4. \A k \in 1..i : r[k] = q[k]
  BY <1>3
<1>5. DOMAIN r = 1..i /\ DOMAIN q = 1..Len(q)
  BY <1>3, LenProperties
<1>6. Distinct(r)
  BY <1>1, <1>4, <1>5 DEF Distinct
<1> QED
  BY <1>2, <1>3, <1>4, <1>6

-----------------------------------------------------------------------------
(* Types *)

LEMMA HealthyType ==
  ASSUME NEW x \in {"unset", "fresh", "old"} PROVE Healthy(x) \in BreakerState
BY DEF Healthy, BreakerState

LEMMA ResetType ==
  ASSUME NEW r \in BreakerState, NEW s \in 0..2, NEW c \in Nat
  PROVE  [r EXCEPT !.state = s, !.consec = c] \in BreakerState
BY DEF BreakerState

\* sched_note_result keeps the breaker what it is.
LEMMA HeardType ==
  ASSUME breaker \in BreakerState, resting \in BOOLEAN, NEW o, Heard(o),
         o \in {"ok", "error", "timeout"}
  PROVE  breaker' \in BreakerState /\ resting' \in BOOLEAN
<1>1. Noticed(o) \in BreakerState
  <2>1. CASE o = "ok"
    <3>1. Noticed(o) = [breaker EXCEPT !.state = 0, !.consec = 0]
      BY <2>1 DEF Noticed
    <3>2. 0 \in 0..2 /\ 0 \in Nat
      OBVIOUS
    <3> QED
      BY <3>1, <3>2, ResetType
  <2>2. CASE o = "error"
    BY <2>2 DEF Noticed, BreakerState
  <2>3. CASE o = "timeout"
    BY <2>3, DiscoveryNumbers DEF Noticed, BreakerState
  <2> QED
    BY <2>1, <2>2, <2>3
<1> QED
  BY <1>1 DEF Heard

LEMMA OutcomesType == \A t : Outcomes(t) \subseteq {"ok", "error", "timeout"}
BY DEF Outcomes

LEMMA MovedType ==
  ASSUME seen \in SeenState, Moves PROVE
  /\ Moved \in SeenState /\ Moved.probed = seen.probed
  /\ Moved.askedOff = seen.askedOff
BY DiscoveryNumbers DEF Moved, Moves, SeenState

\* Each of the ways a history is written.
LEMMA ProbedType ==
  ASSUME NEW s \in SeenState, NEW p \in Seq(Tty)
  PROVE  /\ [s EXCEPT !.probed = p] \in SeenState
         /\ [s EXCEPT !.probed = p].probed = p
         /\ [s EXCEPT !.probed = p].askedOff = s.askedOff
BY DEF SeenState

LEMMA AskedType ==
  ASSUME NEW s \in SeenState, NEW b \in BOOLEAN
  PROVE  /\ [s EXCEPT !.askedOff = b] \in SeenState
         /\ [s EXCEPT !.askedOff = b].probed = s.probed
         /\ [s EXCEPT !.askedOff = b].askedOff = b
BY DEF SeenState

LEMMA FoundType ==
  ASSUME NEW s \in SeenState, NEW p \in Seq(Tty)
  PROVE  /\ [s EXCEPT !.probed = p, !.askedOff = FALSE] \in SeenState
         /\ [s EXCEPT !.probed = p, !.askedOff = FALSE].probed = p
BY DEF SeenState

LEMMA ChainType ==
  /\ [left |-> IdentItems, done |-> FALSE] \in IdentState
  /\ [left |-> 0, done |-> FALSE] \in IdentState
BY DiscoveryNumbers DEF IdentState

Typed ==
  /\ bus \in Layouts /\ alive \subseteq Tty
  /\ cands \in CandState /\ held \in {"no", "short", "long"}
  /\ port \in PortState /\ breaker \in BreakerState
  /\ resting \in BOOLEAN /\ enabled \in BOOLEAN
  /\ ident \in IdentState /\ seen \in SeenState

LEMMA TypedIsTypeOK == Typed <=> DiscoveryTypeOK
BY DEF Typed, DiscoveryTypeOK, CandState, PortState, BreakerState, IdentState,
       SeenState

-----------------------------------------------------------------------------
(* Each action, apart from the sweep *)

\* A command heard on the port.
LEMMA HeardKeeps ==
  ASSUME Typed, IdentOK, NEW o \in Outcomes(port.name), Heard(o)
  PROVE  breaker' \in BreakerState /\ resting' \in BOOLEAN
<1>1. o \in {"ok", "error", "timeout"}
  BY OutcomesType
<1> QED
  BY <1>1, HeardType DEF Typed

\* One probe, of the i-th device of a list.
LEMMA ProbeKeeps ==
  ASSUME Typed, IdentOK, held = "no",
         NEW q \in Seq(Tty), Distinct(q), NEW i \in 1..Len(q), Probe(q, i),
         Len(seen.probed) = i - 1, \A k \in 1..(i - 1) : seen.probed[k] = q[k],
         Distinct(seen.probed),
         UNCHANGED <<bus, alive, resting, enabled>>
  PROVE  Typed' /\ IdentOK' /\ SweepOK'
<1>1. q[i] \in Tty /\ Len(q) \in Nat /\ i \in Nat \ {0} /\ seen.probed \in Seq(Tty)
  BY ElementOfSeq, LenProperties DEF Typed, SeenState
<1>2. CASE ~enabled
  <2>1. /\ cands' = [list |-> q, idx |-> i] /\ held' = "short"
        /\ UNCHANGED <<port, breaker, ident, seen>>
    BY <1>2 DEF Probe
  <2>2. Typed' /\ IdentOK'
    BY <1>1, <2>1 DEF Typed, IdentOK, CandState
  <2>3. SweepOK'
    BY <1>1, <2>1 DEF SweepOK
  <2> QED
    BY <2>2, <2>3
<1>3. CASE enabled
  <2>1. PICK p : p = Append(seen.probed, q[i])
    OBVIOUS
  <2>2. /\ p \in Seq(Tty) /\ Len(p) = i /\ Distinct(p)
        /\ \A k \in 1..i : p[k] = q[k]
    BY <1>1, <2>1, PassedOn
  <2>3. /\ cands' = [list |-> q, idx |-> i + 1] /\ held' = "no"
        /\ \/ /\ port' = [found |-> TRUE, name |-> q[i]]
              /\ breaker' = Healthy(breaker.age)
              /\ ident' = [left |-> IdentItems, done |-> FALSE]
              /\ seen' = [seen EXCEPT !.probed = p, !.askedOff = FALSE]
           \/ /\ seen' = [seen EXCEPT !.probed = p]
              /\ UNCHANGED <<port, breaker, ident>>
    BY <1>3, <2>1 DEF Probe
  <2>4. cands' \in CandState /\ held' \in {"no", "short", "long"}
    BY <1>1, <2>3 DEF CandState
  <2>5. seen' \in SeenState /\ seen'.probed = p
    <3>1. seen \in SeenState
      BY DEF Typed
    <3>2. CASE seen' = [seen EXCEPT !.probed = p, !.askedOff = FALSE]
      BY <2>2, <3>1, <3>2, FoundType
    <3>3. CASE seen' = [seen EXCEPT !.probed = p]
      BY <2>2, <3>1, <3>3, ProbedType
    <3> QED
      BY <2>3, <3>2, <3>3
  <2>6. SweepOK'
    BY <1>1, <2>2, <2>3, <2>5 DEF SweepOK
  <2>7. CASE UNCHANGED <<port, breaker, ident>>
             /\ seen' = [seen EXCEPT !.probed = p]
    <3>1. seen'.askedOff = seen.askedOff
      BY <2>2, <2>7, ProbedType DEF Typed
    <3>2. Typed'
      BY <2>4, <2>5, <2>7 DEF Typed
    <3>3. IdentOK'
      BY <2>7, <3>1 DEF IdentOK
    <3> QED
      BY <2>6, <3>2, <3>3
  <2>8. CASE /\ port' = [found |-> TRUE, name |-> q[i]]
             /\ breaker' = Healthy(breaker.age)
             /\ ident' = [left |-> IdentItems, done |-> FALSE]
    <3>1. port' \in PortState
      BY <1>1, <2>8 DEF PortState
    <3>2. breaker' \in BreakerState
      BY <2>8, HealthyType DEF Typed, BreakerState
    <3>3. ident' \in IdentState /\ ident'.left # 0
      BY <2>8, ChainType, DiscoveryNumbers
    <3>4. Typed'
      BY <2>4, <2>5, <3>1, <3>2, <3>3 DEF Typed
    <3>5. IdentOK'
      BY <3>3 DEF IdentOK
    <3> QED
      BY <2>6, <3>4, <3>5
  <2> QED
    BY <2>3, <2>7, <2>8
<1> QED
  BY <1>2, <1>3 DEF Typed

\* The housekeeping timer.
LEMMA TickKeeps ==
  ASSUME Typed, IdentOK, SweepOK, Tick
  PROVE  Typed' /\ IdentOK' /\ SweepOK'
<1>1. /\ cands.list \in Seq(Tty) /\ Len(cands.list) \in Nat
      /\ cands.idx \in Nat \ {0} /\ seen.probed \in Seq(Tty)
  BY LenProperties DEF Typed, CandState, SeenState
<1>2. /\ held = "no" /\ Len(seen.probed) = cands.idx - 1
      /\ \A k \in 1..(cands.idx - 1) : seen.probed[k] = cands.list[k]
      /\ Distinct(cands.list) /\ Distinct(seen.probed)
  BY DEF Tick, WalkOver, ProbeNext, ScanAndProbe, MayProbe, SweepOK
<1>3. CASE WalkOver
  <2>1. /\ cands' = NoCands /\ held' = "long"
        /\ UNCHANGED <<bus, alive, port, breaker, resting, enabled, ident, seen>>
    BY <1>3 DEF WalkOver, Walked
  <2>2. Typed' /\ IdentOK'
    BY <2>1, NoCandsOK DEF Typed, IdentOK
  <2>3. SweepOK'
    BY <1>2, <2>1, NoCandsOK DEF SweepOK
  <2> QED
    BY <2>2, <2>3
<1>4. CASE ProbeNext
  <2>1. /\ cands.idx \in 1..Len(cands.list) /\ Probe(cands.list, cands.idx)
        /\ UNCHANGED <<bus, alive, resting, enabled>>
    BY <1>1, <1>4 DEF ProbeNext
  <2> QED
    BY <1>1, <1>2, <2>1, ProbeKeeps
<1>5. CASE ScanAndProbe
  <2>1. PICK q \in Scans(bus) :
          \/ q # <<>> /\ Probe(q, 1)
          \/ /\ q = <<>> /\ cands' = NoCands /\ held' = "long"
             /\ UNCHANGED <<port, breaker, ident, seen>>
    BY <1>5 DEF ScanAndProbe
  <2>2. q \in Seq(Tty) /\ Distinct(q) /\ Len(q) \in Nat
    BY ScanShape, LenProperties
  <2>3. UNCHANGED <<bus, alive, resting, enabled>> /\ cands.list = <<>>
    BY <1>5 DEF ScanAndProbe
  <2>4. cands.idx = 1 /\ Len(seen.probed) = 0
    BY <1>1, <1>2, <2>3, NoneDistinct DEF SweepOK
  <2>5. CASE q # <<>> /\ Probe(q, 1)
    <3>1. 1 \in 1..Len(q)
      BY <2>2, <2>5, EmptySeq
    <3> QED
      BY <1>2, <2>2, <2>3, <2>4, <2>5, <3>1, ProbeKeeps
  <2>6. CASE /\ cands' = NoCands /\ held' = "long"
             /\ UNCHANGED <<port, breaker, ident, seen>>
    <3>1. Typed' /\ IdentOK'
      BY <2>3, <2>6, NoCandsOK DEF Typed, IdentOK
    <3>2. SweepOK'
      BY <1>2, <2>6, NoCandsOK DEF SweepOK
    <3> QED
      BY <3>1, <3>2
  <2> QED
    BY <2>1, <2>5, <2>6
<1> QED
  BY <1>3, <1>4, <1>5 DEF Tick

\* The long pause begins or ends, or the user asks for a rescan.
LEMMA PauseKeeps ==
  ASSUME Typed, IdentOK, SweepOK, GapEnds \/ Drop \/ Rescan
  PROVE  Typed' /\ IdentOK' /\ SweepOK'
<1>1. seen \in SeenState
  BY DEF Typed
<1>2. CASE GapEnds
  <2>1. /\ held' = "no"
        /\ seen' = IF held = "long" THEN [seen EXCEPT !.probed = <<>>] ELSE seen
        /\ UNCHANGED <<bus, alive, cands, port, breaker, resting, enabled, ident>>
    BY <1>2 DEF GapEnds
  <2>2. /\ seen' \in SeenState /\ seen'.askedOff = seen.askedOff
        /\ seen'.probed = IF held = "long" THEN <<>> ELSE seen.probed
    BY <1>1, <2>1, ProbedType, NoneDistinct
  <2>3. Typed' /\ IdentOK'
    BY <2>1, <2>2 DEF Typed, IdentOK
  <2>4. SweepOK'
    BY <2>1, <2>2, NoCandsOK, NoneDistinct DEF SweepOK
  <2> QED
    BY <2>3, <2>4
<1>3. CASE Drop
  <2>1. /\ port' = [port EXCEPT !.found = FALSE]
        /\ cands' = NoCands /\ held' = "long"
        /\ UNCHANGED <<bus, alive, breaker, resting, enabled, ident, seen>>
    BY <1>3 DEF Drop
  <2>2. port' \in PortState /\ ~port'.found
    BY <2>1 DEF Typed, PortState
  <2>3. Typed' /\ IdentOK'
    BY <2>1, <2>2, NoCandsOK DEF Typed, IdentOK
  <2>4. SweepOK'
    BY <2>1, NoCandsOK DEF SweepOK
  <2> QED
    BY <2>3, <2>4
<1>4. CASE Rescan
  <2>1. /\ port' = [port EXCEPT !.found = FALSE]
        /\ cands' = NoCands /\ held' = "no"
        /\ breaker' = Healthy(breaker.age)
        /\ seen' = [Moved EXCEPT !.probed = <<>>] /\ Moves
        /\ UNCHANGED <<bus, alive, resting, enabled, ident>>
    BY <1>4 DEF Rescan
  <2>2. port' \in PortState /\ ~port'.found
    BY <2>1 DEF Typed, PortState
  <2>3. breaker' \in BreakerState
    BY <2>1, HealthyType DEF Typed, BreakerState
  <2>4. seen' \in SeenState /\ seen'.probed = <<>>
    BY <1>1, <2>1, MovedType, ProbedType, NoneDistinct
  <2>5. Typed' /\ IdentOK'
    BY <2>1, <2>2, <2>3, <2>4, NoCandsOK DEF Typed, IdentOK
  <2>6. SweepOK'
    BY <2>1, <2>4, NoCandsOK, NoneDistinct DEF SweepOK
  <2> QED
    BY <2>5, <2>6
<1> QED
  BY <1>2, <1>3, <1>4

\* What leaves the list, the pause and the probes alone keeps the sweep.
LEMMA SweepLeft ==
  ASSUME SweepOK, UNCHANGED <<cands, held>>, seen'.probed = seen.probed
  PROVE  SweepOK'
BY DEF SweepOK

\* The bus, the time, the commands and the other requests of the user.
LEMMA RestKeeps ==
  ASSUME Typed, IdentOK, SweepOK,
         \/ Enumerate \/ Settle \/ Age \/ RestEnds
         \/ Poll \/ OtherCommand \/ IdentStep \/ AskIdent \/ SetEnabled
  PROVE  Typed' /\ IdentOK' /\ SweepOK'
<1>1. seen \in SeenState /\ breaker \in BreakerState
  BY DEF Typed
<1>2. CASE Enumerate
  <2>1. /\ bus' \in Layouts /\ alive' \subseteq Tty /\ Moves /\ seen' = Moved
        /\ UNCHANGED <<cands, held, port, breaker, resting, enabled, ident>>
    BY <1>2 DEF Enumerate
  <2> QED
    BY <1>1, <2>1, MovedType, SweepLeft DEF Typed, IdentOK
<1>3. CASE Settle
  <2>1. /\ seen' \in SeenState /\ seen'.probed = seen.probed
        /\ seen'.askedOff = seen.askedOff
    BY <1>1, <1>3 DEF Settle, SeenState
  <2> QED
    BY <1>3, <2>1, SweepLeft DEF Settle, Typed, IdentOK
<1>4. CASE Age
  <2>1. breaker' \in BreakerState
    BY <1>1, <1>4 DEF Age, BreakerState
  <2> QED
    BY <1>4, <2>1, SweepLeft DEF Age, Typed, IdentOK
<1>5. CASE RestEnds
  BY <1>5, SweepLeft DEF RestEnds, Typed, IdentOK
<1>6. CASE Poll
  <2>1. PICK o \in Outcomes(port.name) : Heard(o)
    BY <1>6 DEF Poll
  <2>2. breaker' \in BreakerState /\ resting' \in BOOLEAN
    BY <2>1, HeardKeeps
  <2> QED
    BY <1>6, <2>2, SweepLeft DEF Poll, Typed, IdentOK
<1>7. CASE OtherCommand
  <2>1. PICK o \in Outcomes(port.name) : Heard(o)
    BY <1>7 DEF OtherCommand
  <2>2. breaker' \in BreakerState /\ resting' \in BOOLEAN
    BY <2>1, HeardKeeps
  <2>3. /\ Moves /\ seen' = Moved
        /\ UNCHANGED <<bus, alive, cands, held, port, enabled, ident>>
    BY <1>7 DEF OtherCommand
  <2> QED
    BY <1>1, <2>2, <2>3, MovedType, SweepLeft DEF Typed, IdentOK
<1>8. CASE IdentStep
  <2>1. PICK o \in Outcomes(port.name) : Heard(o) /\ ident' = Stepped(o)
    BY <1>8 DEF IdentStep
  <2>2. breaker' \in BreakerState /\ resting' \in BOOLEAN
    BY <2>1, HeardKeeps
  <2>3. /\ ident.left > 0
        /\ UNCHANGED <<bus, alive, cands, held, port, enabled, seen>>
    BY <1>8 DEF IdentStep
  <2>4. ident \in IdentState
    BY DEF Typed
  <2>5. ident' \in IdentState /\ (ident'.left = 0 => ident'.done)
    <3>1. PICK n : n = ident.left
      OBVIOUS
    <3>2. n \in 1..IdentItems /\ n - 1 \in 0..IdentItems
      BY <2>3, <2>4, <3>1, DiscoveryNumbers DEF IdentState
    <3>3. ident' = [left |-> n - 1, done |-> n = 1]
      BY <2>1, <3>1 DEF Stepped
    <3>4. ident' \in IdentState /\ ident'.left = n - 1 /\ ident'.done = (n = 1)
      BY <3>2, <3>3, Zenon DEF IdentState
    <3>5. n - 1 = 0 => n = 1
      BY <3>2
    <3> QED
      BY <3>4, <3>5, Zenon
  <2> QED
    BY <2>2, <2>3, <2>5, SweepLeft DEF Typed, IdentOK
<1>9. CASE AskIdent
  <2>1. PICK b \in BOOLEAN :
          /\ seen' = [Moved EXCEPT !.askedOff = b]
          /\ ident' = IF b THEN [left |-> 0, done |-> FALSE]
                           ELSE [left |-> IdentItems, done |-> FALSE]
    BY <1>9 DEF AskIdent
  <2>2. /\ Moves
        /\ UNCHANGED <<bus, alive, cands, held, port, breaker, resting, enabled>>
    BY <1>9 DEF AskIdent
  <2>3. /\ seen' \in SeenState /\ seen'.probed = seen.probed
        /\ seen'.askedOff = b
    BY <1>1, <2>1, <2>2, MovedType, AskedType
  <2>4. ident' \in IdentState /\ (b \/ ident'.left # 0)
    BY <2>1, ChainType, DiscoveryNumbers
  <2> QED
    BY <2>2, <2>3, <2>4, SweepLeft DEF Typed, IdentOK
<1>10. CASE SetEnabled
  <2>1. /\ Moves /\ seen' = Moved /\ enabled' \in BOOLEAN
        /\ breaker' = IF enabled' THEN Healthy(breaker.age) ELSE breaker
        /\ UNCHANGED <<bus, alive, cands, held, port, resting, ident>>
    BY <1>10 DEF SetEnabled
  <2>2. breaker' \in BreakerState
    BY <1>1, <2>1, HealthyType DEF BreakerState
  <2> QED
    BY <1>1, <2>1, <2>2, MovedType, SweepLeft DEF Typed, IdentOK
<1> QED
  BY <1>2, <1>3, <1>4, <1>5, <1>6, <1>7, <1>8, <1>9, <1>10

-----------------------------------------------------------------------------
(* The theorems *)

LEMMA DiscoveryStart == DiscoveryInit => IInv
<1> SUFFICES ASSUME DiscoveryInit PROVE IInv
  OBVIOUS
<1>1. PICK q \in Scans(bus) : cands = [list |-> q, idx |-> 1]
  BY DEF DiscoveryInit
<1>2. q \in Seq(Tty) /\ Distinct(q) /\ Len(q) \in Nat
  BY ScanShape, LenProperties
<1>3. seen \in SeenState /\ seen.probed = <<>>
  BY NoneDistinct, DiscoveryNumbers DEF DiscoveryInit, SeenState
<1>4. bus \in Layouts /\ alive \subseteq Tty /\ held = "no" /\ enabled \in BOOLEAN
      /\ resting = FALSE
  BY DEF DiscoveryInit
<1>5. cands \in CandState
  BY <1>1, <1>2 DEF CandState
<1>6. port \in PortState /\ ~port.found
  <2>1. \E t \in Tty : TRUE
    BY DiscoveryAssumption DEF DiscoveryConstants
  <2> QED
    BY <2>1 DEF DiscoveryInit, NoPort, PortState
<1>7. breaker \in BreakerState
  BY HealthyType DEF DiscoveryInit
<1>8. ident \in IdentState
  BY DiscoveryNumbers DEF DiscoveryInit, IdentState
<1>9. Typed
  BY <1>3, <1>4, <1>5, <1>6, <1>7, <1>8 DEF Typed
<1>10. SweepOK
  BY <1>1, <1>2, <1>3, <1>4, NoneDistinct DEF SweepOK
<1> QED
  BY <1>6, <1>9, <1>10, TypedIsTypeOK DEF IInv, IdentOK

\* The inductive invariant of port discovery (src/fm160d/src/sched.c).
THEOREM DiscoveryInvariance == DiscoverySpec => []IInv
<1>1. ASSUME Typed, IdentOK, SweepOK, [DiscoveryNext]_discoveryVars
      PROVE  Typed' /\ IdentOK' /\ SweepOK'
  <2>1. CASE UNCHANGED discoveryVars
    BY <1>1, <2>1 DEF discoveryVars, Typed, IdentOK, SweepOK
  <2>2. CASE Tick
    BY <1>1, <2>2, TickKeeps
  <2>3. CASE GapEnds \/ Drop \/ Rescan
    BY <1>1, <2>3, PauseKeeps
  <2>4. CASE \/ Enumerate \/ Settle \/ Age \/ RestEnds
             \/ Poll \/ OtherCommand \/ IdentStep \/ AskIdent \/ SetEnabled
    BY <1>1, <2>4, RestKeeps
  <2> QED
    BY <1>1, <2>1, <2>2, <2>3, <2>4 DEF DiscoveryNext
<1>2. IInv <=> Typed /\ SweepOK /\ IdentOK
  BY TypedIsTypeOK DEF IInv
<1>3. (IInv <=> Typed /\ SweepOK /\ IdentOK)'
  BY <1>2, PTL
<1>4. IInv /\ [DiscoveryNext]_discoveryVars => IInv'
  BY <1>1, <1>2, <1>3
<1> QED
  BY <1>4, DiscoveryStart, PTL DEF DiscoverySpec

\* The variables keep their types.
THEOREM DiscoveryTypeCorrect == DiscoverySpec => []DiscoveryTypeOK
<1>1. IInv => DiscoveryTypeOK
  BY DEF IInv
<1> QED
  BY <1>1, DiscoveryInvariance, PTL

\* Unless the user asks for a rescan, no device is probed twice without the
\* pause of a sweep between (sched.c:520-632).
THEOREM SweepsArePaced == DiscoverySpec => []ProbedOncePerSweep
<1>1. IInv => ProbedOncePerSweep
  BY DEF IInv, SweepOK, Distinct, ProbedOncePerSweep
<1> QED
  BY <1>1, DiscoveryInvariance, PTL

\* With a port and no chain running, the identity has been read to the end,
\* unless it was asked for while the management was disabled (cmds.c:660-760).
THEOREM IdentityReadWhole == DiscoverySpec => []IdentityIsWhole
<1>1. IInv => IdentityIsWhole
  BY DEF IInv, IdentOK, IdentityIsWhole, DiscoveryLoop
<1> QED
  BY <1>1, DiscoveryInvariance, PTL

-----------------------------------------------------------------------------
(***************************************************************************)
(* The search ends.  What lies between a daemon that has no port that       *)
(* answers, on a bus that has settled, and the port it is to find: a dead   *)
(* port has to be dropped, an old list to be walked to its end, the bus to  *)
(* be scanned and the new list to be walked; within each of them the chain, *)
(* the polls or the probes; below that the pauses.                          *)
(***************************************************************************)
Seeking ==
  seen.settled /\ enabled /\ Reachable /\ ~(port.found /\ port.name \in alive)

\* The list holds a device that answers, and the daemon has not come to it.
Hopeful == \E i \in cands.idx..Len(cands.list) : cands.list[i] \in alive

Phase ==
  CASE port.found -> 3
    [] ~port.found /\ ~Hopeful /\ cands.list # <<>> -> 2
    [] ~port.found /\ ~Hopeful /\ cands.list = <<>> -> 1
    [] ~port.found /\ Hopeful -> 0

Tries ==
  IF port.found
  THEN IF breaker.consec < HardLimit THEN HardLimit - breaker.consec ELSE 0
  ELSE Len(cands.list) + 1 - cands.idx

Pauses == (IF resting THEN 1 ELSE 0) + (IF held # "no" THEN 1 ELSE 0)
          + (IF breaker.age = "fresh" THEN 1 ELSE 0)

Left == [phase |-> Phase, chain |-> ident.left, tries |-> Tries,
         pauses |-> Pauses]

Below(a, b) ==
  \/ a.phase < b.phase
  \/ /\ a.phase = b.phase
     /\ \/ a.chain < b.chain
        \/ /\ a.chain = b.chain
           /\ \/ a.tries < b.tries
              \/ a.tries = b.tries /\ a.pauses < b.pauses

\* Each step of a search takes something of what lies before it.
SearchGoesOn == [][Seeking /\ Seeking' => Below(Left', Left)]_discoveryVars

\* As long as it has found nothing, it has something to do: the chain, the end
\* of a pause, a tick, a poll, the ageing of the last failure, or the drop.
NeverGivesUp ==
  Seeking =>
    \/ ident.left > 0 \/ held # "no" \/ MayProbe
    \/ port.found /\ (resting \/ breaker.state # 2)
    \/ port.found /\ (breaker.age = "fresh" \/ Due)

\* The breaker opens at its limit, and never without a failure to age.
BreakerOK ==
  /\ breaker.state # 2 => breaker.consec < HardLimit
  /\ breaker.state >= 1 => breaker.age # "unset"

\* A scan of a bus with room in the list lists every device that is eligible.
LEMMA ScanWhole ==
  ASSUME NEW b \in [Tty -> Class], Cardinality(Own(b)) <= CandMax,
         NEW q \in Scans(b), NEW t \in Eligible(b, Own(b))
  PROVE  \E i \in 1..Len(q) : q[i] = t
<1>1. PICK S \in Noted(b) : q \in SetToSeqs(Eligible(b, S))
  BY DEF Scans
<1>2. IsFiniteSet(Own(b)) /\ Cardinality(Own(b)) \in Nat
  <2>1. Own(b) \in SUBSET Tty
    BY DEF Own
  <2> QED
    BY <2>1, DiscoveryNumbers, FS_Subset, FS_CardinalityType
<1>3. S = Own(b)
  <2>1. S \in SUBSET Own(b) /\ Cardinality(S) = Cardinality(Own(b))
    BY <1>1, <1>2, DiscoveryNumbers DEF Noted
  <2> QED
    BY <1>2, <2>1, FS_Subset
<1>4. PICK E : E = Eligible(b, Own(b))
  OBVIOUS
<1>5. E \in SUBSET Own(b)
  BY <1>4 DEF Eligible
<1>6. PICK n : n = Cardinality(E)
  OBVIOUS
<1>7. IsFiniteSet(E) /\ n \in Nat
  BY <1>2, <1>5, <1>6, FS_Subset, FS_CardinalityType
<1>8. q \in [1..n -> E] /\ \A i, j \in 1..n : i # j => q[i] # q[j]
  BY <1>1, <1>3, <1>4, <1>6 DEF SetToSeqs
<1>9. IsFiniteSet(1..n) /\ Cardinality(1..n) = n
  BY <1>7, FS_Interval
<1>10. q \in Injection(1..n, E)
  BY <1>8 DEF Injection, IsInjective
<1>11. q \in Surjection(1..n, E)
  BY <1>6, <1>7, <1>9, <1>10, FS_Injection
<1>12. Len(q) = n
  BY <1>7, <1>8, LenProperties, SeqDef
<1> QED
  BY <1>4, <1>11, <1>12 DEF Surjection

LEMMA HeardBreaker ==
  ASSUME Typed, BreakerOK, NEW o \in {"ok", "error", "timeout"}, Heard(o)
  PROVE  BreakerOK'
<1>1. breaker \in BreakerState /\ breaker' = Noticed(o)
  BY DEF Typed, Heard
<1>2. breaker.state \in 0..2 /\ breaker.consec \in Nat
  BY <1>1 DEF BreakerState
<1>3. CASE o = "ok"
  <2>1. breaker'.state = 0 /\ breaker'.consec = 0
    BY <1>1, <1>3 DEF Noticed, BreakerState
  <2>2. 0 < HardLimit
    BY DiscoveryAssumption DEF DiscoveryConstants
  <2> QED
    BY <2>1, <2>2 DEF BreakerOK
<1>4. CASE o = "error"
  BY <1>1, <1>2, <1>4 DEF Noticed, BreakerState, BreakerOK
<1>5. CASE o = "timeout"
  BY <1>1, <1>2, <1>5, DiscoveryAssumption
     DEF Noticed, BreakerOK, DiscoveryConstants
<1> QED
  BY <1>3, <1>4, <1>5

LEMMA BreakerKeeps ==
  ASSUME Typed, BreakerOK, [DiscoveryNext]_discoveryVars
  PROVE  BreakerOK'
<1>1. breaker \in BreakerState /\ HardLimit \in Nat /\ 0 < HardLimit
  BY DiscoveryAssumption DEF Typed, DiscoveryConstants
<1>2. CASE Poll \/ OtherCommand \/ IdentStep
  <2>1. PICK o \in Outcomes(port.name) : Heard(o)
    BY <1>2 DEF Poll, OtherCommand, IdentStep
  <2>2. o \in {"ok", "error", "timeout"}
    BY OutcomesType
  <2> QED
    BY <2>1, <2>2, HeardBreaker
<1>3. ASSUME NEW x, breaker' = Healthy(x) PROVE BreakerOK'
  BY <1>1, <1>3 DEF Healthy, BreakerOK
<1>4. CASE Age
  BY <1>1, <1>4 DEF Age, BreakerOK, BreakerState
<1>5. CASE UNCHANGED breaker
  BY <1>5 DEF BreakerOK
<1>6. CASE Rescan \/ SetEnabled
  BY <1>3, <1>5, <1>6 DEF Rescan, SetEnabled
<1>7. CASE Tick
  <2>1. breaker' = breaker \/ breaker' = Healthy(breaker.age)
    BY <1>7 DEF Tick, WalkOver, ProbeNext, ScanAndProbe, Probe
  <2> QED
    BY <2>1, <1>3, <1>5
<1> QED
  BY <1>2, <1>4, <1>5, <1>6, <1>7
     DEF DiscoveryNext, Enumerate, Settle, GapEnds, RestEnds, Drop, AskIdent,
         discoveryVars

\* What is left is counted in natural numbers.
LEMMA LeftType ==
  ASSUME Typed, SweepOK
  PROVE  /\ Left.phase = Phase /\ Left.chain = ident.left
         /\ Left.tries = Tries /\ Left.pauses = Pauses
         /\ Phase \in 0..3 /\ ident.left \in Nat /\ Tries \in Nat
         /\ Pauses \in 0..3
<1>1. /\ cands.idx \in Nat \ {0} /\ Len(cands.list) \in Nat
      /\ breaker.consec \in Nat /\ HardLimit \in Nat
      /\ cands.idx <= Len(cands.list) + 1 /\ ident.left \in 0..IdentItems
  BY DiscoveryNumbers, LenProperties
     DEF Typed, SweepOK, CandState, BreakerState, IdentState
<1>2. Phase \in 0..3
  BY DEF Phase
<1>3. Tries \in Nat
  BY <1>1 DEF Tries
<1>4. Pauses \in 0..3
  BY DEF Pauses
<1> QED
  BY <1>1, <1>2, <1>3, <1>4, DiscoveryNumbers DEF Left

\* A probe of a search: the device did not answer, or the search is over.
LEMMA ProbeMissed ==
  ASSUME Typed, Seeking, ~port.found, NEW q \in Seq(Tty), NEW i \in 1..Len(q),
         Probe(q, i), UNCHANGED <<bus, alive, resting, enabled>>, Seeking'
  PROVE  /\ cands' = [list |-> q, idx |-> i + 1]
         /\ q[i] \notin alive
         /\ UNCHANGED <<port, breaker, ident, held>>
<1>1. enabled /\ seen.settled
  BY DEF Seeking
<1>2. cands' = [list |-> q, idx |-> i + 1] /\ UNCHANGED held
  BY <1>1 DEF Probe
<1>3. CASE q[i] \in alive
  <2>1. Outcomes(q[i]) = {"ok"}
    BY <1>1, <1>3 DEF Outcomes
  <2>2. port' = [found |-> TRUE, name |-> q[i]]
    BY <1>1, <2>1 DEF Probe
  <2> QED
    BY <1>3, <2>2 DEF Seeking
<1>4. CASE q[i] \notin alive
  <2>1. "ok" \notin Outcomes(q[i])
    BY <1>4 DEF Outcomes
  <2>2. UNCHANGED <<port, breaker, ident>>
    BY <1>1, <2>1 DEF Probe
  <2> QED
    BY <1>2, <1>4, <2>2
<1> QED
  BY <1>3, <1>4

\* A tick of a search.
LEMMA TickDescends ==
  ASSUME Typed, SweepOK, Typed', SweepOK', Seeking, Seeking', Tick
  PROVE  Below(Left', Left)
<1>1. /\ ~port.found /\ enabled /\ Reachable /\ UNCHANGED <<bus, alive>>
      /\ cands.list \in Seq(Tty) /\ Len(cands.list) \in Nat
      /\ cands.idx \in Nat \ {0} /\ cands.idx <= Len(cands.list) + 1
      /\ cands.list = <<>> <=> Len(cands.list) = 0
  BY LenProperties, EmptySeq
     DEF Tick, WalkOver, ProbeNext, ScanAndProbe, MayProbe, Seeking, Typed,
         CandState, SweepOK
<1>2. CASE WalkOver
  <2>1. /\ cands' = NoCands /\ cands.list # <<>> /\ cands.idx > Len(cands.list)
        /\ UNCHANGED port
    BY <1>2 DEF WalkOver, Walked
  <2>2. ~Hopeful
    BY <1>1, <2>1 DEF Hopeful
  <2>3. cands'.list = <<>> /\ cands'.idx = 1 /\ Len(cands'.list) = 0
    BY <2>1, NoCandsOK
  <2>4. ~Hopeful'
    BY <2>3 DEF Hopeful
  <2>5. Phase = 2 /\ Phase' = 1
    BY <1>1, <2>1, <2>2, <2>3, <2>4 DEF Phase
  <2> QED
    BY <2>5 DEF Below, Left
<1>3. CASE ProbeNext
  <2>1. /\ cands.idx \in 1..Len(cands.list) /\ Probe(cands.list, cands.idx)
        /\ UNCHANGED <<bus, alive, resting, enabled>>
    BY <1>1, <1>3 DEF ProbeNext
  <2>2. /\ cands' = [list |-> cands.list, idx |-> cands.idx + 1]
        /\ cands.list[cands.idx] \notin alive
        /\ UNCHANGED <<port, breaker, ident, held>>
    BY <1>1, <2>1, ProbeMissed
  <2>3. cands'.list = cands.list /\ cands'.idx = cands.idx + 1
    BY <2>2
  <2>4. Hopeful' <=> Hopeful
    BY <1>1, <2>1, <2>2, <2>3 DEF Hopeful
  <2>5. Phase' = Phase /\ ident'.left = ident.left
    BY <2>2, <2>3, <2>4 DEF Phase
  <2>6. Tries' < Tries
    BY <1>1, <2>2, <2>3 DEF Tries
  <2> QED
    BY <2>5, <2>6 DEF Below, Left
<1>4. CASE ScanAndProbe
  <2>1. PICK q \in Scans(bus) :
          \/ q # <<>> /\ Probe(q, 1)
          \/ /\ q = <<>> /\ cands' = NoCands
             /\ UNCHANGED <<port, breaker, ident, seen>>
    BY <1>4 DEF ScanAndProbe
  <2>2. q \in Seq(Tty) /\ Len(q) \in Nat
    BY ScanShape, LenProperties
  <2>3. cands.list = <<>> /\ UNCHANGED <<bus, alive, resting, enabled>>
    BY <1>4 DEF ScanAndProbe
  <2>4. PICK t \in Eligible(bus, Own(bus)) : t \in alive
    BY <1>1 DEF Reachable
  <2>5. PICK i \in 1..Len(q) : q[i] = t
    <3>1. bus \in [Tty -> Class]
      BY DiscoveryAssumption DEF Typed, DiscoveryConstants
    <3>2. Cardinality(Own(bus)) <= CandMax
      BY <1>1 DEF Reachable
    <3> QED
      BY <2>4, <3>1, <3>2, ScanWhole
  <2>6. q # <<>> /\ Probe(q, 1) /\ 1 \in 1..Len(q)
    BY <2>1, <2>2, <2>5, EmptySeq
  <2>7. /\ cands' = [list |-> q, idx |-> 2] /\ q[1] \notin alive
        /\ UNCHANGED <<port, breaker, ident, held>>
    <3>1. /\ cands' = [list |-> q, idx |-> 1 + 1] /\ q[1] \notin alive
          /\ UNCHANGED <<port, breaker, ident, held>>
      BY <1>1, <2>2, <2>3, <2>6, ProbeMissed
    <3> QED
      BY <3>1
  <2>8. Hopeful'
    BY <2>2, <2>3, <2>4, <2>5, <2>7 DEF Hopeful
  <2>9. ~Hopeful
    BY <1>1, <2>3 DEF Hopeful
  <2>10. Phase = 1 /\ Phase' = 0
    BY <1>1, <2>3, <2>7, <2>8, <2>9 DEF Phase
  <2> QED
    BY <2>10 DEF Below, Left
<1> QED
  BY <1>2, <1>3, <1>4 DEF Tick

LEMMA SearchStep ==
  ASSUME Typed, SweepOK, BreakerOK, Typed', SweepOK', DiscoveryNext,
         Seeking, Seeking'
  PROVE  Below(Left', Left)
<1>0. /\ seen.settled /\ enabled /\ ~(port.found /\ port.name \in alive)
      /\ breaker \in BreakerState /\ HardLimit \in Nat
      /\ breaker.consec \in Nat /\ ident \in IdentState
  BY DiscoveryNumbers DEF Seeking, Typed, BreakerState
<1>1. CASE Tick
  BY <1>1, TickDescends
<1>2. CASE \/ Enumerate \/ Settle \/ OtherCommand \/ AskIdent \/ Rescan
           \/ SetEnabled
  BY <1>0, <1>2 DEF Enumerate, Settle, OtherCommand, AskIdent, Rescan,
     SetEnabled, Moves
<1>3. CASE GapEnds \/ Age \/ RestEnds
  <2>1. UNCHANGED <<cands, port, ident, alive>> /\ breaker'.consec = breaker.consec
    BY <1>0, <1>3 DEF GapEnds, Age, RestEnds, BreakerState
  <2>2. Phase' = Phase /\ Tries' = Tries /\ ident'.left = ident.left
    BY <2>1 DEF Phase, Tries, Hopeful
  <2>3. Pauses' < Pauses
    <3>1. CASE GapEnds
      BY <3>1 DEF GapEnds, Pauses
    <3>2. CASE Age
      <4>1. breaker.age = "fresh" /\ breaker'.age = "old"
        BY <1>0, <3>2 DEF Age, BreakerState
      <4> QED
        BY <3>2, <4>1 DEF Age, Pauses
    <3>3. CASE RestEnds
      BY <3>3 DEF RestEnds, Pauses
    <3> QED
      BY <1>3, <3>1, <3>2, <3>3
  <2> QED
    BY <2>2, <2>3 DEF Below, Left
<1>4. CASE Poll
  <2>1. PICK o \in Outcomes(port.name) : Heard(o)
    BY <1>4 DEF Poll
  <2>2. /\ port.found /\ breaker.state # 2
        /\ UNCHANGED <<alive, cands, port, ident>>
    BY <1>4 DEF Poll
  <2>3. o = "timeout"
    BY <1>0, <2>1, <2>2 DEF Outcomes
  <2>4. breaker'.consec = breaker.consec + 1
    BY <2>1, <2>3 DEF Heard, Noticed
  <2>5. breaker.consec < HardLimit
    BY <2>2 DEF BreakerOK
  <2>6. Tries' < Tries
    BY <1>0, <2>2, <2>4, <2>5 DEF Tries
  <2>7. Phase' = Phase /\ ident'.left = ident.left
    BY <2>2 DEF Phase, Hopeful
  <2> QED
    BY <2>6, <2>7 DEF Below, Left
<1>5. CASE Drop
  <2>1. port.found /\ ~port'.found /\ cands' = NoCands
    BY <1>5 DEF Drop, Typed, PortState
  <2>2. cands'.list = <<>> /\ cands'.idx = 1 /\ Len(cands'.list) = 0
    BY <2>1, NoCandsOK
  <2>3. ~Hopeful'
    BY <2>2 DEF Hopeful
  <2>4. Phase = 3 /\ Phase' = 1
    BY <2>1, <2>2, <2>3 DEF Phase
  <2> QED
    BY <2>4 DEF Below, Left
<1>6. CASE IdentStep
  <2>1. /\ ident'.left = ident.left - 1 /\ ident.left \in Nat
        /\ UNCHANGED <<alive, cands, port>>
    BY <1>0, <1>6, DiscoveryNumbers DEF IdentStep, Stepped, IdentState
  <2>2. Phase' = Phase
    BY <2>1 DEF Phase, Hopeful
  <2> QED
    BY <2>1, <2>2 DEF Below, Left
<1> QED
  BY <1>1, <1>2, <1>3, <1>4, <1>5, <1>6 DEF DiscoveryNext

LEMMA BreakerInit == DiscoveryInit => BreakerOK
<1> SUFFICES ASSUME DiscoveryInit PROVE BreakerOK
  OBVIOUS
<1>1. breaker = Healthy("unset") /\ 0 < HardLimit
  BY DiscoveryAssumption DEF DiscoveryInit, DiscoveryConstants
<1> QED
  BY <1>1 DEF Healthy, BreakerOK

LEMMA BreakerInvariance == DiscoverySpec => [](IInv /\ BreakerOK)
<1>1. IInv /\ BreakerOK /\ [DiscoveryNext]_discoveryVars => BreakerOK'
  BY BreakerKeeps, TypedIsTypeOK DEF IInv
<1> QED
  BY <1>1, BreakerInit, DiscoveryInvariance, PTL DEF DiscoverySpec

\* On a bus that has settled with a device that answers, each step of the
\* daemon takes something of the polls, pauses and probes that lie before the
\* port, in lexicographic order, from any breaker and any old list
\* (sched.c:433-517, 520-632): what FoundAgain rests on.
THEOREM SearchDescends == DiscoverySpec => SearchGoesOn
<1>1. ASSUME Typed, SweepOK, BreakerOK, Typed', SweepOK',
             [DiscoveryNext]_discoveryVars
      PROVE  [Seeking /\ Seeking' => Below(Left', Left)]_discoveryVars
  BY <1>1, SearchStep
<1>2. IInv => Typed /\ SweepOK
  BY TypedIsTypeOK DEF IInv
<1>3. (IInv => Typed /\ SweepOK)'
  BY <1>2, PTL
<1>4. IInv /\ BreakerOK /\ IInv' /\ [DiscoveryNext]_discoveryVars
        => [Seeking /\ Seeking' => Below(Left', Left)]_discoveryVars
  BY <1>1, <1>2, <1>3
<1> QED
  BY <1>4, BreakerInvariance, PTL DEF DiscoverySpec, SearchGoesOn

\* And there is such a step: a daemon that polls no more has a failure that is
\* old or comes to be, so that the port is dropped.
THEOREM SearchNeverRests == DiscoverySpec => []NeverGivesUp
<1>1. IInv /\ BreakerOK => NeverGivesUp
  <2> SUFFICES ASSUME IInv, BreakerOK PROVE NeverGivesUp
    OBVIOUS
  <2>1. /\ breaker.age \in {"unset", "fresh", "old"} /\ breaker.state \in 0..2
        /\ ident.left \in Nat
    BY DiscoveryNumbers DEF IInv, DiscoveryTypeOK
  <2>2. ident.left = 0 /\ held = "no" /\ ~port.found => MayProbe
    BY DEF MayProbe, DiscoveryLoop
  <2>3. breaker.state = 2 => breaker.age = "fresh" \/ Due
    BY <2>1 DEF BreakerOK, Due
  <2> QED
    BY <2>1, <2>2, <2>3 DEF NeverGivesUp
<1> QED
  BY <1>1, BreakerInvariance, PTL
=============================================================================
