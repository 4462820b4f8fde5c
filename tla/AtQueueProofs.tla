--------------------------- MODULE AtQueueProofs ---------------------------
(***************************************************************************)
(* The AT request queue for every value of its constants: the safety        *)
(* invariants of AtQueue, and that it implements AtLine.                    *)
(***************************************************************************)
EXTENDS AtQueue, FiniteSetTheorems, TLAPS

(***************************************************************************)
(* The inductive invariant.  The properties of AtQueue say what holds at    *)
(* loop or when no callback runs; Frame adds what holds in between, which   *)
(* is how the nested calls of atq.c hand `inflight` to each other.          *)
(***************************************************************************)
Frame ==
  /\ pc = "loop" => queue = {}
  /\ pc \in {"loop", "dispatch"} <=> inflight = {}
  /\ \A r, q \in inflight : r = q
  /\ pc = "callback" => Ids(inflight) \subseteq answered

Bounded == IsFiniteSet(queue) /\ IsFiniteSet(inflight) /\ BoundedDepth

IInv ==
  /\ TypeOK
  /\ Frame
  /\ InOnePlace
  /\ Bounded
  /\ PollsCoalesced
  /\ Routable
  /\ BreakerAgrees

-----------------------------------------------------------------------------

\* Giving a job the next id makes a request of it.
LEMMA WithIdType ==
  ASSUME NEW job \in Job, NEW i \in 1..MaxReqs
  PROVE  /\ WithId(job, i) \in Request
         /\ WithId(job, i).id = i
         /\ WithId(job, i).prio = job.prio
         /\ WithId(job, i).cmd = job.cmd
         /\ WithId(job, i).shape = job.shape
         /\ job.prio \in Prio
BY DEF WithId, Job, Request, Prio, Interactive, State, Poll, NoCmd

\* One element more is at most one more to count.
LEMMA OneMore ==
  ASSUME NEW S, NEW x, IsFiniteSet(S)
  PROVE  /\ IsFiniteSet(S \cup {x})
         /\ Cardinality(S) \in Nat
         /\ Cardinality(S \cup {x}) \in Nat
         /\ Cardinality(S \cup {x}) <= Cardinality(S) + 1
<1>1. /\ IsFiniteSet(S \cup {x})
      /\ x \in S => Cardinality(S \cup {x}) = Cardinality(S)
      /\ x \notin S => Cardinality(S \cup {x}) = Cardinality(S) + 1
  <2>1. CASE x \in S
    <3>1. S \cup {x} = S
      BY <2>1
    <3> QED
      BY <2>1, <3>1
  <2>2. CASE x \notin S
    BY <2>2, FS_AddElement
  <2> QED
    BY <2>1, <2>2
<1>2. Cardinality(S) \in Nat
  BY FS_CardinalityType
<1> QED
  BY <1>1, <1>2

\* One element less is one less to count.
LEMMA OneLess ==
  ASSUME NEW S, NEW x \in S, IsFiniteSet(S)
  PROVE  /\ IsFiniteSet(S \ {x})
         /\ Cardinality(S) \in Nat
         /\ Cardinality(S \ {x}) \in Nat
         /\ Cardinality(S \ {x}) = Cardinality(S) - 1
<1>1. IsFiniteSet(S \ {x}) /\ Cardinality(S \ {x}) = Cardinality(S) - 1
  BY FS_RemoveElement
<1>2. Cardinality(S) \in Nat /\ Cardinality(S \ {x}) \in Nat
  BY <1>1, FS_CardinalityType
<1> QED
  BY <1>1, <1>2

\* The initial states satisfy the inductive invariant.
LEMMA InitIInv == Init => IInv
<1> SUFFICES ASSUME Init PROVE IInv
  OBVIOUS
<1>1. TypeOK
  <2>1. nextId \in 1..(MaxReqs + 1) /\ consec \in 0..HardLimit
    BY ConstantsAssumption DEF Init
  <2>2. /\ queue = {} /\ inflight = {} /\ answered = {} /\ evicted = {}
        /\ pc = "loop" /\ atState \in 0..2
    BY DEF Init
  <2>3. /\ enabled \in BOOLEAN /\ portFound \in BOOLEAN
        /\ quiet \in BOOLEAN /\ awaiting \in BOOLEAN
        /\ callbackPrios \in Callbacks
    BY DEF Init
  <2> QED
    BY <2>1, <2>2, <2>3 DEF TypeOK
<1>2. Frame /\ PollsCoalesced /\ Routable
  BY DEF Init, Frame, PollsCoalesced, Routable, Ids
<1>3. InOnePlace
  BY DEF Init, InOnePlace, Ids
<1>4. Bounded
  BY ConstantsAssumption, FS_EmptySet
  DEF Init, Bounded, BoundedDepth, Depth
<1>5. BreakerAgrees
  BY ConstantsAssumption DEF Init, BreakerAgrees, Level
<1> QED
  BY <1>1, <1>2, <1>3, <1>4, <1>5 DEF IInv

-----------------------------------------------------------------------------

\* A submission that finds room preserves the invariant.
LEMMA AcceptIInv == IInv /\ Accept /\ UNCHANGED callbackPrios => IInv'
<1> SUFFICES ASSUME IInv, Accept, UNCHANGED callbackPrios PROVE IInv'
  OBVIOUS
<1> PICK job \in Job :
      /\ Callable(job) /\ Admitted(job) /\ ~Duplicate(job)
      /\ Depth < MaxDepth
      /\ queue' = queue \cup {WithId(job, nextId)}
      /\ Enqueue(job)
      /\ UNCHANGED evicted
  BY DEF Accept
<1> DEFINE new == WithId(job, nextId)
<1>a. nextId \in 1..MaxReqs /\ pc \in {"loop", "callback"}
  BY ConstantsAssumption DEF IInv, TypeOK, Callable
<1>b. /\ new \in Request /\ new.id = nextId /\ new.prio = job.prio
      /\ new.cmd = job.cmd /\ new.shape = job.shape /\ job.prio \in Prio
  BY <1>a, WithIdType
<1>c. \A r \in queue \cup inflight : r.id # nextId
  BY <1>a, ConstantsAssumption DEF IInv, InOnePlace, Ids
<1> HIDE DEF new
<1>1. TypeOK'
  BY <1>a, <1>b, ConstantsAssumption
  DEF IInv, TypeOK, Enqueue, gates, health, new
<1>2. Frame'
  BY <1>a DEF IInv, Frame, Enqueue, gates, health, new
<1>3. InOnePlace'
  <2>1. Ids(queue)' = Ids(queue) \cup {nextId}
    BY <1>b DEF Ids, new
  <2>2. UNCHANGED <<Ids(inflight), answered, evicted>>
    BY DEF Enqueue, Ids
  <2>3. 1..(nextId' - 1) = 1..(nextId - 1) \cup {nextId}
    BY <1>a, ConstantsAssumption DEF Enqueue
  <2>4. nextId \notin Ids(queue) \cup Ids(inflight) \cup answered \cup evicted
    BY <1>a, ConstantsAssumption DEF IInv, InOnePlace
  <2>5. pc' # "callback" => pc # "callback"
    BY <1>a DEF IInv, Frame, Enqueue
  <2>6. UNCHANGED evicted
    OBVIOUS
  <2>7. \A r, q \in queue' : r.id = q.id => r = q
    BY <1>b, <1>c DEF IInv, InOnePlace, new
  <2>A. 1..(nextId' - 1)
          = Ids(queue)' \cup Ids(inflight)' \cup answered' \cup evicted'
    BY <2>1, <2>2, <2>3, <2>4, <2>5, <2>6 DEF IInv, InOnePlace
  <2>B. Ids(queue)' \cap (answered' \cup evicted' \cup Ids(inflight)') = {}
    BY <2>1, <2>2, <2>3, <2>4, <2>5, <2>6 DEF IInv, InOnePlace
  <2>C. answered' \cap evicted' = {}
    BY <2>1, <2>2, <2>3, <2>4, <2>5, <2>6 DEF IInv, InOnePlace
  <2>D. pc' # "callback" =>
          Ids(inflight)' \cap (answered' \cup evicted') = {}
    BY <2>1, <2>2, <2>3, <2>4, <2>5, <2>6 DEF IInv, InOnePlace
  <2> QED
    BY <2>A, <2>B, <2>C, <2>D, <2>7 DEF InOnePlace
<1>4. Bounded'
  <2>1. IsFiniteSet(queue) /\ IsFiniteSet(inflight) /\ UNCHANGED inflight
    BY DEF IInv, Bounded, Enqueue
  <2>2. /\ IsFiniteSet(queue')
        /\ Cardinality(queue) \in Nat
        /\ Cardinality(queue') \in Nat
        /\ Cardinality(queue') <= Cardinality(queue) + 1
    BY <2>1, OneMore
  <2>3. Cardinality(inflight) \in Nat
    BY <2>1, FS_CardinalityType
  <2> QED
    BY <2>1, <2>2, <2>3, ConstantsAssumption
    DEF Bounded, BoundedDepth, Depth
<1>5. PollsCoalesced'
  BY <1>b DEF IInv, PollsCoalesced, Duplicate, Enqueue, new
<1>6. Routable'
  BY <1>b DEF IInv, Routable, Admitted, Enqueue, gates, new
<1>7. BreakerAgrees'
  BY DEF IInv, BreakerAgrees, Enqueue, health
<1> QED
  BY <1>1, <1>2, <1>3, <1>4, <1>5, <1>6, <1>7 DEF IInv

\* A submission that takes the place of another one preserves the invariant.
LEMMA DisplaceIInv == IInv /\ Displace /\ UNCHANGED callbackPrios => IInv'
<1> SUFFICES ASSUME IInv, Displace, UNCHANGED callbackPrios PROVE IInv'
  OBVIOUS
<1> PICK job \in Job, victim \in queue :
      /\ Callable(job) /\ Admitted(job) /\ ~Duplicate(job)
      /\ queue' = (queue \ {victim}) \cup {WithId(job, nextId)}
      /\ evicted' = evicted \cup {victim.id}
      /\ Enqueue(job)
  BY DEF Displace, Unlinked
<1> DEFINE new == WithId(job, nextId)
<1>a. nextId \in 1..MaxReqs /\ pc \in {"loop", "callback"}
  BY ConstantsAssumption DEF IInv, TypeOK, Callable
<1>b. /\ new \in Request /\ new.id = nextId /\ new.prio = job.prio
      /\ new.cmd = job.cmd /\ new.shape = job.shape /\ job.prio \in Prio
  BY <1>a, WithIdType
<1>c. \A r \in queue \cup inflight : r.id # nextId
  BY <1>a, ConstantsAssumption DEF IInv, InOnePlace, Ids
<1> HIDE DEF new
<1>1. TypeOK'
  <2>1. victim.id \in 1..MaxReqs
    BY DEF IInv, TypeOK, Request
  <2>2. queue' \subseteq Request /\ evicted' \subseteq 1..MaxReqs
    BY <2>1, <1>b DEF IInv, TypeOK, new
  <2> QED
    BY <2>2, <1>a, ConstantsAssumption
    DEF IInv, TypeOK, Enqueue, gates, health
<1>2. Frame'
  BY <1>a DEF IInv, Frame, Enqueue, gates, health, new
<1>3. InOnePlace'
  <2>1. Ids(queue)' = (Ids(queue) \ {victim.id}) \cup {nextId}
    BY <1>b DEF Ids, new, IInv, InOnePlace
  <2>2. UNCHANGED <<Ids(inflight), answered>>
    BY DEF Enqueue, Ids
  <2>3. 1..(nextId' - 1) = 1..(nextId - 1) \cup {nextId}
    BY <1>a, ConstantsAssumption DEF Enqueue
  <2>4. nextId \notin Ids(queue) \cup Ids(inflight) \cup answered \cup evicted
    BY <1>a, ConstantsAssumption DEF IInv, InOnePlace
  <2>5. pc' # "callback" => pc # "callback"
    BY <1>a DEF IInv, Frame, Enqueue
  <2>6. victim.id \in Ids(queue)
    BY DEF Ids
  <2>7. \A r, q \in queue' : r.id = q.id => r = q
    BY <1>b, <1>c DEF IInv, InOnePlace, new
  <2>8. evicted' = evicted \cup {victim.id}
    OBVIOUS
  <2>A. 1..(nextId' - 1)
          = Ids(queue)' \cup Ids(inflight)' \cup answered' \cup evicted'
    <3>1. 1..(nextId - 1)
            = Ids(queue) \cup Ids(inflight) \cup answered \cup evicted
      BY DEF IInv, InOnePlace
    <3>2. Ids(queue)' \cup evicted' = Ids(queue) \cup evicted \cup {nextId}
      BY <2>1, <2>6, <2>8
    <3>3. Ids(queue)' \cup Ids(inflight)' \cup answered' \cup evicted'
            = (Ids(queue) \cup Ids(inflight) \cup answered \cup evicted)
                \cup {nextId}
      BY <2>2, <3>2
    <3> QED
      BY <2>3, <3>1, <3>3, Zenon
  <2>B. Ids(queue)' \cap (answered' \cup evicted' \cup Ids(inflight)') = {}
    <3>1. Ids(queue) \cap (answered \cup evicted \cup Ids(inflight)) = {}
      BY DEF IInv, InOnePlace
    <3> QED
      BY <2>1, <2>2, <2>4, <2>6, <2>8, <3>1
  <2>C. answered' \cap evicted' = {}
    BY <2>1, <2>2, <2>3, <2>4, <2>5, <2>6, <2>8 DEF IInv, InOnePlace
  <2>D. pc' # "callback" =>
          Ids(inflight)' \cap (answered' \cup evicted') = {}
    BY <2>1, <2>2, <2>3, <2>4, <2>5, <2>6, <2>8 DEF IInv, InOnePlace
  <2> QED
    BY <2>A, <2>B, <2>C, <2>D, <2>7 DEF InOnePlace
<1>4. Bounded'
  <2>1. IsFiniteSet(queue) /\ IsFiniteSet(inflight) /\ UNCHANGED inflight
    BY DEF IInv, Bounded, Enqueue
  <2>2. /\ IsFiniteSet(queue \ {victim})
        /\ Cardinality(queue) \in Nat
        /\ Cardinality(queue \ {victim}) \in Nat
        /\ Cardinality(queue \ {victim}) = Cardinality(queue) - 1
    BY <2>1, OneLess
  <2>3. /\ IsFiniteSet(queue')
        /\ Cardinality(queue') \in Nat
        /\ Cardinality(queue') <= Cardinality(queue \ {victim}) + 1
    BY <2>2, OneMore
  <2>4. Cardinality(inflight) \in Nat
    BY <2>1, FS_CardinalityType
  <2> QED
    BY <2>1, <2>2, <2>3, <2>4, ConstantsAssumption
    DEF IInv, Bounded, BoundedDepth, Depth
<1>5. PollsCoalesced'
  BY <1>b DEF IInv, PollsCoalesced, Duplicate, Enqueue, new
<1>6. Routable'
  BY <1>b DEF IInv, Routable, Admitted, Enqueue, gates, new
<1>7. BreakerAgrees'
  BY DEF IInv, BreakerAgrees, Enqueue, health
<1> QED
  BY <1>1, <1>2, <1>3, <1>4, <1>5, <1>6, <1>7 DEF IInv

\* What a step that moves no request keeps.
LEMMA SameRequests ==
  ASSUME IInv, UNCHANGED queueVars
  PROVE  /\ UNCHANGED <<Ids(queue), Ids(inflight), Depth>>
         /\ Bounded'
         /\ PollsCoalesced'
BY DEF IInv, queueVars, Ids, Depth, Bounded, BoundedDepth, PollsCoalesced

\* Steps inside an exchange that move no request preserve the invariant.
LEMMA ProgressIInv ==
  ASSUME IInv, Drained \/ WriteCommand \/ PromptSeen,
         UNCHANGED callbackPrios
  PROVE  IInv'
<1>1. UNCHANGED <<queueVars, gates, health>> /\ awaiting' \in {awaiting, TRUE}
  BY DEF Drained, WriteCommand, PromptSeen
<1>2. \/ pc = "dispatch" /\ pc' = "loop" /\ (inflight = {} => queue = {})
      \/ pc \in {"issue", "command"} /\ pc' \in {"command", "payload"}
  BY DEF Drained, WriteCommand, PromptSeen
<1>3. TypeOK'
  BY <1>1, <1>2 DEF IInv, TypeOK, queueVars, gates, health
<1>4. Frame'
  BY <1>1, <1>2 DEF IInv, Frame, queueVars
<1>5. Bounded' /\ PollsCoalesced'
  BY <1>1, SameRequests
<1>6. InOnePlace'
  BY <1>1, <1>2 DEF IInv, InOnePlace, queueVars, Ids
<1>7. Routable' /\ BreakerAgrees'
  BY <1>1 DEF IInv, Routable, BreakerAgrees, queueVars, gates, health
<1> QED
  BY <1>3, <1>4, <1>5, <1>6, <1>7 DEF IInv

\* Giving the line to a request preserves the invariant.  The NOPORT branch
\* of Take is never taken: Routable.
LEMMA TakeIInv == IInv /\ Take /\ UNCHANGED callbackPrios => IInv'
<1> SUFFICES ASSUME IInv, Take, UNCHANGED callbackPrios PROVE IInv'
  OBVIOUS
<1> PICK best \in queue :
      /\ queue' = queue \ {best}
      /\ IF best.shape # "probe" /\ ~portFound
         THEN /\ answered' = answered \cup {best.id}
              /\ UNCHANGED <<inflight, pc>>
         ELSE /\ \E r \in Promoted(best) : inflight' = {r}
              /\ pc' = "issue"
              /\ UNCHANGED answered
  BY DEF Take, Unlinked
<1>a. best.shape = "probe" \/ portFound
  BY DEF IInv, Routable
<1> PICK r \in Promoted(best) : inflight' = {r}
  BY <1>a
<1>b. /\ pc = "dispatch" /\ inflight = {} /\ pc' = "issue"
      /\ UNCHANGED <<answered, nextId, evicted, gates, health, awaiting>>
  BY <1>a DEF Take, Unlinked
<1>c. r \in Request /\ r.id = best.id /\ r.cmd = best.cmd
      /\ (r.prio = Poll => r = best)
  BY DEF IInv, TypeOK, Request, Promoted, Prio, Poll, State, Interactive
<1>1. TypeOK'
  BY <1>b, <1>c DEF IInv, TypeOK, gates, health
<1>2. Frame'
  BY <1>b DEF IInv, Frame
<1>3. InOnePlace'
  <2>1. Ids(queue)' = Ids(queue) \ {best.id}
    BY DEF Ids, IInv, InOnePlace
  <2>2. Ids(inflight) = {} /\ Ids(inflight)' = {best.id}
    BY <1>b, <1>c DEF Ids
  <2>3. best.id \in Ids(queue)
    BY DEF Ids
  <2>4. \A p, q \in queue' : p.id = q.id => p = q
    BY DEF IInv, InOnePlace
  <2>5. /\ Ids(queue)' \cup Ids(inflight)' = Ids(queue) \cup Ids(inflight)
        /\ Ids(queue)' \cap Ids(inflight)' = {}
    BY <2>1, <2>2, <2>3
  <2>6. /\ Ids(queue) \cap (answered \cup evicted) = {}
        /\ answered \cap evicted = {}
        /\ 1..(nextId - 1)
             = Ids(queue) \cup Ids(inflight) \cup answered \cup evicted
    BY DEF IInv, InOnePlace
  <2>7. Ids(inflight)' \cap (answered \cup evicted) = {}
    BY <2>2, <2>3, <2>6
  <2> QED
    BY <1>b, <2>1, <2>4, <2>5, <2>6, <2>7 DEF InOnePlace
<1>4. Bounded'
  <2>1. IsFiniteSet(queue) /\ Cardinality(queue) + 0 <= MaxDepth
    BY <1>b, FS_EmptySet, FS_CardinalityType
    DEF IInv, Bounded, BoundedDepth, Depth
  <2>2. /\ IsFiniteSet(queue')
        /\ Cardinality(queue) \in Nat
        /\ Cardinality(queue') = Cardinality(queue) - 1
    BY <2>1, OneLess
  <2>3. IsFiniteSet(inflight') /\ Cardinality(inflight') = 1
    BY FS_Singleton
  <2> QED
    BY <2>1, <2>2, <2>3, ConstantsAssumption
    DEF Bounded, BoundedDepth, Depth
<1>5. PollsCoalesced'
  BY <1>c DEF IInv, PollsCoalesced
<1>6. Routable'
  BY <1>b DEF IInv, Routable, gates
<1>7. BreakerAgrees'
  BY <1>b DEF IInv, BreakerAgrees, health
<1> QED
  BY <1>1, <1>2, <1>3, <1>4, <1>5, <1>6, <1>7 DEF IInv

\* What a result does to the breaker keeps its level and its counter in step.
LEMMA NoteResultAgrees ==
  ASSUME atState \in 0..2, consec \in 0..HardLimit, BreakerAgrees,
         NEW status \in {"ok", "error", "timeout"}, NoteResult(status)
  PROVE  atState' \in 0..2 /\ consec' \in 0..HardLimit /\ BreakerAgrees'
<1>1. CASE status = "ok"
  BY <1>1, ConstantsAssumption DEF NoteResult, BreakerAgrees, Level
<1>2. CASE status = "error"
  BY <1>2 DEF NoteResult, BreakerAgrees, Level, health
<1>3. CASE status = "timeout"
  BY <1>3, ConstantsAssumption DEF NoteResult, BreakerAgrees, Level
<1> QED
  BY <1>1, <1>2, <1>3

\* The end of an exchange preserves the invariant.
LEMMA FinishIInv ==
  ASSUME IInv, pc \in {"issue", "command", "payload"},
         NEW status \in {"ok", "error", "timeout"}, Finish(status),
         awaiting' \in BOOLEAN, UNCHANGED callbackPrios
  PROVE  IInv'
<1> PICK r \in inflight :
      /\ answered' = answered \cup {r.id}
      /\ pc' = "callback"
      /\ IF r.shape = "probe"
         THEN ProbeAnswered(status)
         ELSE NoteResult(status) /\ UNCHANGED portFound
      /\ UNCHANGED <<queue, inflight, nextId, evicted, enabled, quiet>>
  BY DEF Finish
<1>1. /\ atState' \in 0..2 /\ consec' \in 0..HardLimit /\ BreakerAgrees'
  <2>1. CASE r.shape = "probe"
    <3>1. \/ atState' = 0 /\ consec' = 0
          \/ UNCHANGED health
      BY <2>1 DEF ProbeAnswered
    <3> QED
      BY <3>1, ConstantsAssumption
      DEF IInv, TypeOK, BreakerAgrees, Level, health
  <2>2. CASE r.shape # "probe"
    BY <2>2, NoteResultAgrees DEF IInv, TypeOK
  <2> QED
    BY <2>1, <2>2
<1>p. portFound' = TRUE \/ UNCHANGED portFound
  BY DEF ProbeAnswered
<1>2. TypeOK'
  <2>1. r.id \in 1..MaxReqs
    BY DEF IInv, TypeOK, Request
  <2>2. answered' \subseteq 1..MaxReqs
    BY <2>1 DEF IInv, TypeOK
  <2>3. portFound' \in BOOLEAN
    BY <1>p DEF IInv, TypeOK
  <2> QED
    BY <1>1, <2>2, <2>3 DEF IInv, TypeOK
<1>3. Frame'
  <2>1. Ids(inflight)' = {r.id}
    BY DEF IInv, Frame, Ids
  <2> QED
    BY <2>1 DEF IInv, Frame
<1>4. InOnePlace'
  <2>1. r.id \in Ids(inflight) /\ UNCHANGED <<Ids(queue), Ids(inflight)>>
    BY DEF Ids
  <2> QED
    BY <2>1 DEF IInv, InOnePlace
<1>5. Bounded' /\ PollsCoalesced'
  BY DEF IInv, Bounded, BoundedDepth, Depth, PollsCoalesced
<1>6. Routable'
  BY <1>p DEF IInv, Routable
<1> QED
  BY <1>1, <1>2, <1>3, <1>4, <1>5, <1>6 DEF IInv

\* The return of a callback preserves the invariant.
LEMMA RetireIInv == IInv /\ Retire /\ UNCHANGED callbackPrios => IInv'
<1> SUFFICES ASSUME IInv, Retire, UNCHANGED callbackPrios PROVE IInv'
  OBVIOUS
<1>1. TypeOK' /\ Routable' /\ BreakerAgrees'
  BY DEF IInv, Retire, TypeOK, Routable, BreakerAgrees, gates, health
<1>2. Frame' /\ PollsCoalesced'
  BY DEF IInv, Retire, Frame, PollsCoalesced
<1>3. InOnePlace'
  <2>1. Ids(inflight) \subseteq answered /\ Ids(inflight)' = {}
    BY DEF IInv, Retire, Frame, Ids
  <2>2. UNCHANGED <<Ids(queue), queue, answered, evicted, nextId>>
    BY DEF Retire, Ids
  <2> QED
    BY <2>1, <2>2 DEF IInv, InOnePlace
<1>4. Bounded'
  <2>1. IsFiniteSet(inflight) /\ Cardinality(inflight) \in Nat
    BY FS_CardinalityType DEF IInv, Bounded
  <2>2. IsFiniteSet(inflight') /\ Cardinality(inflight') = 0
    BY FS_EmptySet DEF Retire
  <2>3. IsFiniteSet(queue) /\ Cardinality(queue) \in Nat /\ UNCHANGED queue
    BY FS_CardinalityType DEF IInv, Bounded, Retire
  <2> QED
    BY <2>1, <2>2, <2>3, ConstantsAssumption
    DEF IInv, Bounded, BoundedDepth, Depth
<1> QED
  BY <1>1, <1>2, <1>3, <1>4 DEF IInv

\* What happens around the queue moves no request: atq_state_reset finds
\* the queue empty.
LEMMA EnvironmentMovesNothing ==
  ASSUME IInv, Environment
  PROVE  UNCHANGED <<queueVars, pc>>
<1>1. CASE Rescan \/ Disable
  <2>1. queue = {} /\ Ids(queue) = {}
    BY <1>1 DEF IInv, Frame, Rescan, Disable, Ids
  <2> QED
    BY <1>1, <2>1 DEF Rescan, Disable, StateReset, queueVars
<1>2. CASE Enable \/ DropPort \/ SetQuiet \/ PromptExpires
  BY <1>2 DEF Enable, DropPort, SetQuiet, PromptExpires
<1> QED
  BY <1>1, <1>2 DEF Environment

\* What the daemon and the modem do around the queue preserves the invariant.
LEMMA EnvironmentIInv == IInv /\ Environment /\ UNCHANGED callbackPrios => IInv'
<1> SUFFICES ASSUME IInv, Environment, UNCHANGED callbackPrios PROVE IInv'
  OBVIOUS
<1>1. UNCHANGED <<queueVars, pc>>
  BY EnvironmentMovesNothing
<1>2. Frame' /\ InOnePlace'
  BY <1>1 DEF IInv, Frame, InOnePlace, queueVars, Ids
<1>3. Bounded' /\ PollsCoalesced'
  BY <1>1, SameRequests
<1>4. \/ UNCHANGED health
      \/ atState' = 0 /\ consec' = 0
  BY DEF Environment, Rescan, Disable, Enable, DropPort, SetQuiet,
         PromptExpires
<1>5. BreakerAgrees'
  BY <1>4, ConstantsAssumption DEF IInv, BreakerAgrees, Level, health
<1>6. portFound' = portFound \/ pc = "loop"
  BY DEF Environment, Rescan, Disable, Enable, DropPort, SetQuiet,
         PromptExpires, gates
<1>7. Routable'
  BY <1>1, <1>6 DEF IInv, Routable, Frame, queueVars
<1>8. /\ enabled' \in BOOLEAN /\ portFound' \in BOOLEAN
      /\ quiet' \in BOOLEAN /\ awaiting' \in BOOLEAN
  BY DEF IInv, TypeOK, Environment, Rescan, Disable, Enable, DropPort,
         SetQuiet, PromptExpires, gates
<1>9. TypeOK'
  BY <1>1, <1>4, <1>8, ConstantsAssumption
  DEF IInv, TypeOK, queueVars, health
<1> QED
  BY <1>2, <1>3, <1>5, <1>7, <1>9 DEF IInv

\* Every step preserves the inductive invariant.
LEMMA NextIInv == IInv /\ [Next]_vars => IInv'
<1> SUFFICES ASSUME IInv, [Next]_vars PROVE IInv'
  OBVIOUS
<1>0. UNCHANGED callbackPrios
  BY DEF Next, vars
<1>1. CASE Submit
  BY <1>0, <1>1, AcceptIInv, DisplaceIInv DEF Submit
<1>2. CASE Drained \/ WriteCommand \/ PromptSeen
  BY <1>0, <1>2, ProgressIInv
<1>3. CASE Take
  BY <1>0, <1>3, TakeIInv
<1>4. CASE NotReady
  BY <1>0, <1>4, FinishIInv DEF NotReady, IInv, TypeOK
<1>5. CASE Reply
  BY <1>0, <1>5, FinishIInv DEF Reply, IInv, TypeOK
<1>6. CASE PromptRefused
  BY <1>0, <1>6, FinishIInv DEF PromptRefused, IInv, TypeOK
<1>7. CASE PromptLost
  BY <1>0, <1>7, FinishIInv DEF PromptLost, IInv, TypeOK
<1>8. CASE PayloadReply
  BY <1>0, <1>8, FinishIInv DEF PayloadReply
<1>9. CASE Retire
  BY <1>0, <1>9, RetireIInv
<1>10. CASE Environment
  BY <1>0, <1>10, EnvironmentIInv
<1>11. CASE UNCHANGED vars
  <2>1. UNCHANGED <<Ids(queue), Ids(inflight), Depth>>
    BY <1>11 DEF vars, Ids, Depth
  <2> QED
    BY <1>11, <2>1
    DEF vars, IInv, TypeOK, Frame, InOnePlace, Bounded, BoundedDepth,
        PollsCoalesced, Routable, BreakerAgrees
<1> QED
  BY <1>1, <1>2, <1>3, <1>4, <1>5, <1>6, <1>7, <1>8, <1>9, <1>10, <1>11
  DEF Next, Exchange

\* The inductive invariant holds in every reachable state.
THEOREM Invariance == Spec => []IInv
<1>1. Init => IInv
  BY InitIInv
<1>2. IInv /\ [Next]_vars => IInv'
  BY NextIInv
<1> QED
  BY <1>1, <1>2, PTL DEF Spec

\* TypeOK holds in every reachable state: the state of the queue is what
\* atq.c can hold.
THEOREM TypeCorrect == Spec => []TypeOK
BY Invariance, PTL DEF IInv

\* atq.c never leaves a request behind: whenever the daemon is back in its
\* loop, the queue and the line are empty, whatever the callbacks submitted
\* and however each exchange ended.
THEOREM RunsToCompletion == Spec => []DrainedAtLoop
<1>1. IInv => DrainedAtLoop
  BY DEF IInv, Frame, DrainedAtLoop
<1> QED
  BY <1>1, Invariance, PTL

\* Every accepted request is in exactly one of the places a request can be.
THEOREM NothingLostOrDoubled == Spec => []InOnePlace
BY Invariance, PTL DEF IInv

\* The queue stays within ATQ_MAX_DEPTH.
THEOREM DepthBounded == Spec => []BoundedDepth
<1>1. IInv => BoundedDepth
  BY DEF IInv, Bounded
<1> QED
  BY <1>1, Invariance, PTL

\* No two background polls with one text are held.
THEOREM Coalescing == Spec => []PollsCoalesced
BY Invariance, PTL DEF IInv

\* The NOPORT exit of atq_dispatch is never taken.
THEOREM NoPortExitDead == Spec => []Routable
BY Invariance, PTL DEF IInv

\* The breaker's level is a function of its counter.
THEOREM BreakerConsistent == Spec => []BreakerAgrees
BY Invariance, PTL DEF IInv

-----------------------------------------------------------------------------

\* The gates of submission are still open when a poll leaves, if callbacks
\* submit no polls: a poll then waits alone, for the dispatch that follows it.
PollAlone ==
  \A r \in queue :
    r.prio = Poll =>
      queue = {r} /\ pc = "dispatch" /\ ~quiet /\ atState # 2

\* PollAlone is inductive when no callback submits a poll.
LEMMA PollAloneInductive ==
  ASSUME Poll \notin callbackPrios, IInv, PollAlone, [Next]_vars
  PROVE  PollAlone'
<1>1. CASE Accept
  <2> PICK job \in Job :
        /\ Callable(job) /\ Admitted(job)
        /\ queue' = queue \cup {WithId(job, nextId)}
        /\ Enqueue(job)
    BY <1>1 DEF Accept
  <2>1. /\ WithId(job, nextId).prio = job.prio
        /\ job.shape = "probe" => job.prio # Poll
    BY DEF WithId, Job, Poll, State
  <2>2. \A r \in queue : r.prio # Poll
    BY DEF PollAlone, Callable
  <2>3. CASE job.prio = Poll
    <3>1. pc = "loop" /\ queue = {} /\ inflight = {}
      BY <2>3 DEF Callable, IInv, Frame
    <3>2. pc' = "dispatch" /\ ~quiet' /\ atState' # 2
      BY <2>1, <2>3, <3>1 DEF Admitted, Enqueue, gates, health
    <3> QED
      BY <3>1, <3>2 DEF PollAlone
  <2>4. CASE job.prio # Poll
    BY <2>1, <2>2, <2>4 DEF PollAlone
  <2> QED
    BY <2>3, <2>4
<1>2. CASE Displace
  <2> PICK job \in Job, victim \in queue :
        /\ Callable(job)
        /\ queue' = (queue \ {victim}) \cup {WithId(job, nextId)}
    BY <1>2 DEF Displace, Unlinked
  <2>1. WithId(job, nextId).prio = job.prio
    BY DEF WithId
  <2>2. pc = "callback"
    BY DEF Callable, IInv, Frame
  <2>3. job.prio # Poll /\ \A r \in queue : r.prio # Poll
    BY <2>2 DEF Callable, PollAlone
  <2> QED
    BY <2>1, <2>3 DEF PollAlone
<1>3. CASE Drained
  BY <1>3 DEF Drained, IInv, Frame, PollAlone, queueVars
<1>4. CASE Take
  <2>1. PICK best \in queue : queue' = queue \ {best}
    BY <1>4 DEF Take, Unlinked
  <2>2. \A r \in queue' : r.prio # Poll
    BY <2>1 DEF PollAlone
  <2> QED
    BY <2>2 DEF PollAlone
<1>5. CASE \/ NotReady \/ WriteCommand \/ Reply \/ PromptSeen
           \/ PromptRefused \/ PromptLost \/ PayloadReply \/ Retire
  <2>1. pc # "dispatch" /\ UNCHANGED queue
    BY <1>5 DEF NotReady, WriteCommand, Reply, PromptSeen, PromptRefused,
                PromptLost, PayloadReply, Retire, Finish, queueVars
  <2> QED
    BY <2>1 DEF PollAlone
<1>6. CASE Rescan \/ Disable
  BY <1>6 DEF Rescan, Disable, StateReset, PollAlone
<1>7. CASE Enable \/ DropPort \/ SetQuiet
  <2>1. pc # "dispatch" /\ UNCHANGED queue
    BY <1>7 DEF Enable, DropPort, SetQuiet, queueVars
  <2> QED
    BY <2>1 DEF PollAlone
<1>8. CASE PromptExpires
  BY <1>8 DEF PromptExpires, PollAlone, queueVars, gates, health
<1>9. CASE UNCHANGED vars
  BY <1>9 DEF vars, PollAlone
<1> QED
  BY <1>1, <1>2, <1>3, <1>4, <1>5, <1>6, <1>7, <1>8, <1>9
  DEF Next, Submit, Exchange, Environment

\* A background poll is never put on the line in a quiet window or on a dead
\* link, as long as callbacks submit no background polls.
THEOREM PollsKeepOut == Spec => PollsRespectGates
<1> DEFINE J == Poll \notin callbackPrios => PollAlone
<1>1. Init => J
  BY DEF Init, PollAlone
<1>2. IInv /\ J /\ [Next]_vars => J'
  BY PollAloneInductive DEF Next, vars
<1>3. IInv /\ J /\ [Next]_vars =>
        [Poll \notin callbackPrios => \A r \in inflight' \ inflight :
           r.prio = Poll => ~quiet /\ atState # 2]_vars
  <2> SUFFICES ASSUME IInv, PollAlone, [Next]_vars,
                      NEW r \in inflight' \ inflight, r.prio = Poll
               PROVE  ~quiet /\ atState # 2
    OBVIOUS
  <2>1. CASE Take
    <3>1. r \in queue
      BY <2>1 DEF Take, Unlinked, Promoted, Poll, State, IInv, TypeOK, Request
    <3> QED
      BY <3>1 DEF PollAlone
  <2>2. CASE inflight' \subseteq inflight
    BY <2>2
  <2>3. Take \/ inflight' \subseteq inflight
    BY DEF Next, Submit, Accept, Displace, Unlinked, Enqueue, Exchange, Drained,
           NotReady, WriteCommand, Reply, PromptSeen, PromptRefused,
           PromptLost, PayloadReply, Finish, Retire, Environment, Rescan,
           Disable, Enable, DropPort, SetQuiet, PromptExpires, queueVars,
           vars
  <2> QED
    BY <2>1, <2>2, <2>3
<1> QED
  BY <1>1, <1>2, <1>3, Invariance, PTL DEF Spec, PollsRespectGates

-----------------------------------------------------------------------------

\* The initial states of the queue are initial states of the line.
LEMMA LineInit == Init => Line!Init
BY DEF Init, Line!Init, Waiting, OnLine, Ids

\* An accepted request is one the line has not known.
LEMMA FreshEntry ==
  ASSUME IInv, NEW job \in Job, Callable(job)
  PROVE  /\ Entry(WithId(job, nextId)) \in Line!Request
         /\ Entry(WithId(job, nextId)).id = nextId
         /\ Entry(WithId(job, nextId)).prio = job.prio
         /\ nextId \notin Line!Known
<1>1. nextId \in 1..MaxReqs
  BY ConstantsAssumption DEF IInv, TypeOK, Callable
<1>2. /\ WithId(job, nextId).id = nextId
      /\ WithId(job, nextId).prio = job.prio
      /\ job.prio \in Prio
  BY <1>1, WithIdType
<1>3. nextId \notin Ids(queue) \cup Ids(inflight) \cup answered \cup evicted
  BY <1>1, ConstantsAssumption DEF IInv, InOnePlace
<1>4. {e.id : e \in Waiting} \subseteq Ids(queue)
  <2> SUFFICES ASSUME NEW e \in Waiting PROVE e.id \in Ids(queue)
    OBVIOUS
  <2> PICK r \in queue : e = Entry(r)
    BY DEF Waiting
  <2>1. e.id = r.id
    BY DEF Entry
  <2> QED
    BY <2>1 DEF Ids
<1>5. nextId \notin Line!Known
  BY <1>3, <1>4 DEF Line!Known, OnLine
<1> QED
  BY <1>1, <1>2, <1>5 DEF Entry, Line!Request

\* Every step of the queue is a step of the line or leaves it alone.
LEMMA LineStep == IInv /\ [Next]_vars => [Line!Next]_(Line!vars)
<1> SUFFICES ASSUME IInv, [Next]_vars
             PROVE  Line!Next \/ UNCHANGED Line!vars
  OBVIOUS
<1>1. CASE Accept
  <2> PICK job \in Job :
        /\ Callable(job)
        /\ queue' = queue \cup {WithId(job, nextId)}
        /\ Enqueue(job)
        /\ UNCHANGED evicted
    BY <1>1 DEF Accept
  <2>1. Waiting' = Waiting \cup {Entry(WithId(job, nextId))}
    BY DEF Waiting
  <2>2. UNCHANGED <<OnLine, answered>>
    BY DEF OnLine, Ids, Enqueue, Callable, IInv, Frame
  <2>3. Line!Accept
    BY <2>1, <2>2, FreshEntry DEF Line!Accept
  <2> QED
    BY <2>3 DEF Line!Next
<1>2. CASE Displace
  <2> PICK job \in Job, victim \in queue :
        /\ Callable(job)
        /\ victim.prio > job.prio
        /\ queue' = (queue \ {victim}) \cup {WithId(job, nextId)}
        /\ evicted' = evicted \cup {victim.id}
        /\ Enqueue(job)
    BY <1>2 DEF Displace, Unlinked
  <2>1. Waiting' = (Waiting \ {Entry(victim)})
                     \cup {Entry(WithId(job, nextId))}
    <3>1. \A r \in queue : Entry(r) = Entry(victim) => r = victim
      BY DEF Entry, IInv, InOnePlace
    <3> QED
      BY <3>1 DEF Waiting
  <2>2. UNCHANGED <<OnLine, answered>>
    BY DEF OnLine, Ids, Enqueue, Callable, IInv, Frame
  <2>3. /\ Entry(victim) \in Waiting
        /\ Entry(victim).id = victim.id
        /\ Entry(victim).prio = victim.prio
    BY DEF Waiting, Entry
  <2>4. job.prio < victim.prio
    BY DEF IInv, TypeOK, Request, Job, Prio, Poll, State, Interactive
  <2>5. Line!Displace
    BY <2>1, <2>2, <2>3, <2>4, FreshEntry DEF Line!Displace
  <2> QED
    BY <2>5 DEF Line!Next
<1>3. CASE Take
  <2> PICK best \in queue :
        /\ \A q \in queue : Before(best, q)
        /\ queue' = queue \ {best}
        /\ IF best.shape # "probe" /\ ~portFound
           THEN /\ answered' = answered \cup {best.id}
                /\ UNCHANGED <<inflight, pc>>
           ELSE /\ \E r \in Promoted(best) : inflight' = {r}
                /\ pc' = "issue"
                /\ UNCHANGED answered
    BY <1>3 DEF Take, Unlinked
  <2>1. best.shape = "probe" \/ portFound
    BY DEF IInv, Routable
  <2>2. PICK r \in Promoted(best) : inflight' = {r}
    BY <2>1
  <2>3. r.id = best.id
    BY DEF Promoted, IInv, TypeOK, Request
  <2>4. OnLine = {} /\ OnLine' = {best.id}
    BY <1>3, <2>1, <2>2, <2>3 DEF Take, Unlinked, OnLine, Ids
  <2>5. Waiting' = Waiting \ {Entry(best)}
    <3>1. \A q \in queue : Entry(q) = Entry(best) => q = best
      BY DEF Entry, IInv, InOnePlace
    <3> QED
      BY <3>1 DEF Waiting
  <2>6. /\ Entry(best) \in Waiting
        /\ Entry(best).id = best.id
        /\ \A e \in Waiting : Line!Before(Entry(best), e)
    BY DEF Waiting, Entry, Before, Line!Before
  <2>7. UNCHANGED <<answered, evicted>>
    BY <1>3, <2>1 DEF Take, Unlinked
  <2>8. Line!Start
    BY <2>4, <2>5, <2>6, <2>7 DEF Line!Start
  <2> QED
    BY <2>8 DEF Line!Next
<1>4. CASE \/ NotReady \/ Reply \/ PromptRefused \/ PromptLost
           \/ PayloadReply
  <2>1. PICK status \in {"ok", "error", "timeout"} : Finish(status)
    BY <1>4 DEF NotReady, Reply, PromptRefused, PromptLost, PayloadReply
  <2>2. PICK r \in inflight :
          /\ answered' = answered \cup {r.id}
          /\ pc' = "callback"
          /\ UNCHANGED <<queue, inflight, nextId, evicted, enabled, quiet>>
    BY <2>1 DEF Finish
  <2>3. pc # "callback"
    BY <1>4 DEF NotReady, Reply, PromptRefused, PromptLost, PayloadReply
  <2>4. OnLine = {r.id} /\ OnLine' = {}
    BY <2>2, <2>3 DEF OnLine, Ids, IInv, Frame
  <2>5. UNCHANGED <<Waiting, evicted>>
    BY <2>2 DEF Waiting
  <2>6. Line!Answer
    BY <2>2, <2>4, <2>5 DEF Line!Answer
  <2> QED
    BY <2>6 DEF Line!Next
<1>5. CASE Drained \/ WriteCommand \/ PromptSeen \/ Retire
  <2>1. UNCHANGED <<Waiting, answered, evicted>>
    BY <1>5
    DEF Drained, WriteCommand, PromptSeen, Retire, queueVars, Waiting
  <2>2. UNCHANGED OnLine
    BY <1>5
    DEF Drained, WriteCommand, PromptSeen, Retire, queueVars, OnLine, Ids
  <2> QED
    BY <2>1, <2>2 DEF Line!vars
<1>6. CASE Environment
  <2>1. UNCHANGED <<queue, inflight, answered, evicted, pc>>
    BY <1>6, EnvironmentMovesNothing DEF queueVars
  <2> QED
    BY <2>1 DEF Line!vars, Waiting, OnLine, Ids
<1>7. CASE UNCHANGED vars
  BY <1>7 DEF vars, Line!vars, Waiting, OnLine, Ids
<1> QED
  BY <1>1, <1>2, <1>3, <1>4, <1>5, <1>6, <1>7 DEF Next, Submit, Exchange

\* AtQueue implements AtLine.
THEOREM Refinement == Spec => LineSpec
<1>1. Init => Line!Init
  BY LineInit
<1>2. IInv /\ [Next]_vars => [Line!Next]_(Line!vars)
  BY LineStep
<1> QED
  BY <1>1, <1>2, Invariance, PTL DEF Spec, LineSpec, Line!Spec

-----------------------------------------------------------------------------
(***************************************************************************)
(* How long a call may take.  A request is worth seven steps of the queue,  *)
(* one of them the last look of atq_dispatch; Spent is what has been used   *)
(* up of that.  It never shrinks and grows with each step of the queue, so  *)
(* a call makes no more than seven steps for each request that was          *)
(* submitted before it is over: it can only go on for ever by submitting    *)
(* for ever, as ubus_invoke has a timeout for each of them.                 *)
(***************************************************************************)
Stage ==
  CASE pc = "loop" -> 0
    [] pc = "dispatch" -> 1
    [] pc = "callback" -> 2
    [] pc = "payload" -> 3
    [] pc = "command" -> 4
    [] pc = "issue" -> 5

Spent == 7 * (nextId - 1) - 6 * Cardinality(queue) - Stage

\* Each step of the queue uses up what was submitted, and nothing gives back.
Spends == [][Spent' >= Spent /\ (Exchange => Spent' > Spent)]_vars

SpentInBounds == Spent \in 0..(7 * (nextId - 1))

LEMMA SpentNumbers ==
  ASSUME IInv
  PROVE  /\ nextId \in Nat /\ Cardinality(queue) \in Nat /\ Stage \in 0..5
         /\ Spent \in Int
<1>1. nextId \in Nat /\ IsFiniteSet(queue)
  BY ConstantsAssumption DEF IInv, TypeOK, Bounded
<1>2. Cardinality(queue) \in Nat
  BY <1>1, FS_CardinalityType
<1>3. Stage \in 0..5
  BY DEF IInv, TypeOK, Stage
<1> QED
  BY <1>1, <1>2, <1>3 DEF Spent

LEMMA SpentNext ==
  ASSUME IInv'
  PROVE  Spent' \in Int
<1>1. nextId' \in Nat /\ IsFiniteSet(queue')
  BY ConstantsAssumption DEF IInv, TypeOK, Bounded
<1>2. Cardinality(queue') \in Nat
  BY <1>1, FS_CardinalityType
<1>3. Stage' \in 0..5
  BY DEF IInv, TypeOK, Stage
<1> QED
  BY <1>1, <1>2, <1>3 DEF Spent

\* A request more, or one in the place of another.
LEMMA SubmitSpends ==
  ASSUME IInv, Submit
  PROVE  Spent' >= Spent
<1>0. /\ nextId \in Nat /\ Cardinality(queue) \in Nat /\ IsFiniteSet(queue)
      /\ pc \in {"loop", "callback"} /\ nextId' = nextId + 1
      /\ pc' = IF inflight = {} THEN "dispatch" ELSE pc
  BY SpentNumbers DEF Submit, Accept, Displace, Callable, Enqueue, IInv, Bounded
<1>1. Cardinality(queue') \in Nat /\ Cardinality(queue') <= Cardinality(queue) + 1
  <2>1. CASE Accept
    <3>1. PICK r : queue' = queue \cup {r}
      BY <2>1 DEF Accept
    <3> QED
      BY <1>0, <3>1, OneMore
  <2>2. CASE Displace
    <3>1. PICK v \in queue : \E r : queue' = (queue \ {v}) \cup {r}
      BY <2>2 DEF Displace, Unlinked
    <3>2. PICK r : queue' = (queue \ {v}) \cup {r}
      BY <3>1
    <3>3. /\ IsFiniteSet(queue \ {v}) /\ Cardinality(queue \ {v}) \in Nat
          /\ Cardinality(queue \ {v}) = Cardinality(queue) - 1
      BY <1>0, OneLess
    <3>4. /\ Cardinality(queue') \in Nat
          /\ Cardinality(queue') <= Cardinality(queue \ {v}) + 1
      BY <3>2, <3>3, OneMore
    <3> QED
      BY <1>0, <3>3, <3>4
  <2> QED
    BY <2>1, <2>2 DEF Submit
<1>2. Stage' <= Stage + 1 /\ Stage \in 0..5 /\ Stage' \in 0..5
  <2>1. CASE pc = "loop"
    BY <1>0, <2>1 DEF Stage, IInv, Frame
  <2>2. CASE pc = "callback"
    BY <1>0, <2>2 DEF Stage, IInv, Frame
  <2> QED
    BY <1>0, <2>1, <2>2
<1> QED
  BY <1>0, <1>1, <1>2 DEF Spent

\* A step of the queue.
LEMMA ExchangeSpends ==
  ASSUME IInv, Exchange
  PROVE  Spent' > Spent
<1>0. /\ nextId \in Nat /\ Cardinality(queue) \in Nat /\ IsFiniteSet(queue)
      /\ nextId' = nextId
  BY SpentNumbers
     DEF Exchange, Drained, Take, NotReady, WriteCommand, Reply, PromptSeen,
         PromptRefused, PromptLost, PayloadReply, Retire, Finish, queueVars,
         IInv, Bounded
<1>1. CASE Take
  <2>1. PICK best \in queue : queue' = queue \ {best}
    BY <1>1 DEF Take, Unlinked
  <2>2. /\ Cardinality(queue') \in Nat
        /\ Cardinality(queue') = Cardinality(queue) - 1
    BY <1>0, <2>1, OneLess
  <2>3. pc = "dispatch" /\ pc' \in {"dispatch", "issue"}
    BY <1>1 DEF Take
  <2>4. Stage = 1 /\ Stage' \in 0..5
    BY <2>3 DEF Stage
  <2> QED
    BY <1>0, <2>2, <2>4 DEF Spent
<1>2. CASE ~Take
  <2>1. UNCHANGED queue
    BY <1>2 DEF Exchange, Drained, NotReady, WriteCommand, Reply, PromptSeen,
         PromptRefused, PromptLost, PayloadReply, Retire, Finish, queueVars
  <2>2. \/ pc = "dispatch" /\ pc' = "loop"
        \/ pc \in {"issue", "command", "payload"} /\ pc' = "callback"
        \/ pc = "issue" /\ pc' = "command"
        \/ pc = "command" /\ pc' = "payload"
        \/ pc = "callback" /\ pc' = "dispatch"
    BY <1>2 DEF Exchange, Drained, NotReady, WriteCommand, Reply, PromptSeen,
         PromptRefused, PromptLost, PayloadReply, Retire, Finish
  <2>3. Stage \in 0..5 /\ Stage' \in 0..5 /\ Stage' < Stage
    BY <2>2 DEF Stage
  <2> QED
    BY <1>0, <2>1, <2>3 DEF Spent
<1> QED
  BY <1>1, <1>2

LEMMA SpendsStep ==
  ASSUME IInv, [Next]_vars
  PROVE  Spent' >= Spent /\ (Exchange => Spent' > Spent)
<1>0. Spent \in Int /\ Spent' \in Int
  BY NextIInv, SpentNumbers, SpentNext
<1>1. CASE Submit
  <2>1. Spent' >= Spent
    BY <1>1, SubmitSpends
  <2>2. nextId' # nextId
    BY <1>1, SpentNumbers DEF Submit, Accept, Displace, Enqueue
  <2>3. ~Exchange
    BY <2>2 DEF Exchange, Drained, Take, NotReady, WriteCommand, Reply,
         PromptSeen, PromptRefused, PromptLost, PayloadReply, Retire, Finish,
         queueVars
  <2> QED
    BY <2>1, <2>3
<1>2. CASE Exchange
  BY <1>0, <1>2, ExchangeSpends
<1>3. CASE ~Exchange /\ (Environment \/ UNCHANGED vars)
  <2>1. UNCHANGED <<queue, nextId, pc>>
    <3>1. CASE Rescan \/ Disable
      BY <3>1 DEF Rescan, Disable, StateReset, IInv, Frame
    <3> QED
      BY <1>3, <3>1 DEF Environment, Enable, DropPort, SetQuiet,
         PromptExpires, queueVars, vars
  <2>2. Spent' = Spent
    BY <2>1 DEF Spent, Stage
  <2> QED
    BY <1>0, <1>3, <2>2
<1> QED
  BY <1>1, <1>2, <1>3 DEF Next

\* Every step of a call uses up one of the seven that each request is worth,
\* whatever the callbacks submit: a call that is not over has a request to
\* serve, and there are no idle turns (atq.c:109-138, 357-399).
THEOREM CallsEnd == Spec => Spends
<1>1. IInv /\ [Next]_vars => Spent' >= Spent /\ (Exchange => Spent' > Spent)
  BY SpendsStep
<1> QED
  BY <1>1, Invariance, PTL DEF Spec, Spends

\* And no more than seven for each request are ever made.
THEOREM SevenStepsEach == Spec => []SpentInBounds
<1> DEFINE J == IInv /\ Spent >= 0
<1>1. Init => J
  <2> SUFFICES ASSUME Init PROVE J
    OBVIOUS
  <2>1. IInv /\ nextId = 1 /\ queue = {} /\ pc = "loop"
    BY InitIInv DEF Init
  <2> QED
    BY <2>1, FS_EmptySet DEF Spent, Stage
<1>2. J /\ [Next]_vars => J'
  <2> SUFFICES ASSUME J, [Next]_vars PROVE J'
    OBVIOUS
  <2>1. IInv' /\ Spent \in Int /\ Spent' >= Spent
    BY NextIInv, SpentNumbers, SpendsStep
  <2>2. Spent' \in Int
    BY <2>1, SpentNext
  <2> QED
    BY <2>1, <2>2
<1>3. J => SpentInBounds
  BY SpentNumbers DEF SpentInBounds, Spent
<1> QED
  BY <1>1, <1>2, <1>3, PTL DEF Spec
=============================================================================
