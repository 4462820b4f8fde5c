------------------------------ MODULE AtQueue ------------------------------
(***************************************************************************)
(* The AT request queue of fm160d (src/fm160d/src/atq.c): the one place     *)
(* every AT command of the daemon goes through on its way to at-daemon.     *)
(*                                                                         *)
(* The daemon is one uloop thread and every exchange with at-daemon is a    *)
(* synchronous ubus_invoke, so atq.c is a set of nested calls.  pc is where *)
(* the innermost of them stands:                                            *)
(*                                                                         *)
(*   loop      no call of atq.c is active: uloop may run any handler        *)
(*   dispatch  in atq_dispatch, about to choose                             *)
(*   issue     in atq_issue, nothing written to the modem yet               *)
(*   command   waiting for the answer (or the prompt) to the command        *)
(*   payload   second stage: the prompt was seen, the payload is going out  *)
(*   callback  in atq_finish, running the done callback of the request      *)
(*                                                                         *)
(* A callback submits requests of its own (the ident chain, the read-back   *)
(* after a write, the mode switch's rollback); `inflight` is still set      *)
(* then, so they are queued and chosen when the callback has returned.      *)
(* The daemon around the queue is open: at loop it may do anything its      *)
(* handlers and timers do to the state the queue reads.                     *)
(***************************************************************************)
EXTENDS Integers, FiniteSets

CONSTANTS
  Cmds,             \* command texts a background poll may have
  MaxDepth,         \* ATQ_MAX_DEPTH
  SoftLimit,        \* BREAKER_SOFT_LIMIT
  HardLimit,        \* BREAKER_HARD_LIMIT
  Callbacks,        \* kinds of callbacks: sets of priorities they submit with
  MaxReqs           \* bound of the model: requests accepted in one behaviour

Interactive == 0
State == 1
Poll == 2
Prio == {Interactive, State, Poll}

ASSUME ConstantsAssumption ==
  /\ MaxDepth \in Nat \ {0}
  /\ SoftLimit \in Nat \ {0}
  /\ HardLimit \in Nat
  /\ SoftLimit < HardLimit
  /\ Callbacks \subseteq SUBSET Prio
  /\ MaxReqs \in Nat

VARIABLES
  queue,            \* q_head: the waiting requests; their ids are the list order
  inflight,         \* {} or the singleton of the request being exchanged
  pc,               \* see above
  nextId,           \* next_id
  answered,         \* ids of the requests whose callback has been called
  evicted,          \* ids of the requests dropped to make room
  enabled,          \* g_state.enabled
  portFound,        \* g_state.port_found
  quiet,            \* atq_quiet_active()
  atState,          \* g_state.at_state: 0 ok, 1 degraded, 2 dead
  consec,           \* g_state.consec_timeout, no further than HardLimit
  awaiting,         \* the modem holds the line open after a "> " prompt
  callbackPrios     \* priorities the callbacks submit with: never changes

queueVars == <<queue, inflight, nextId, answered, evicted>>
health == <<atState, consec>>
gates == <<enabled, portFound, quiet>>
vars == <<queue, inflight, pc, nextId, answered, evicted,
          enabled, portFound, quiet, atState, consec, awaiting,
          callbackPrios>>

-----------------------------------------------------------------------------

(***************************************************************************)
(* A request.  shape: "plain" is one exchange, "prompt" a two-stage one     *)
(* (atq_submit_prompt), "probe" the silent one that names its own port      *)
(* (atq_probe_port).  The text of the command matters to the queue for      *)
(* background polls only.                                                   *)
(***************************************************************************)
NoCmd == "none"
Job ==
  [prio : {Poll}, cmd : Cmds, shape : {"plain"}]
    \cup [prio : {Interactive, State}, cmd : {NoCmd}, shape : {"plain"}]
    \cup [prio : {State}, cmd : {NoCmd}, shape : {"prompt", "probe"}]

Request == [id : 1..MaxReqs, prio : Prio, cmd : Cmds \cup {NoCmd},
            shape : {"plain", "prompt", "probe"}]

WithId(job, i) ==
  [id |-> i, prio |-> job.prio, cmd |-> job.cmd, shape |-> job.shape]

Ids(reqs) == {r.id : r \in reqs}

\* atq_depth.  Mutant: the request on the line is not counted.
DepthWaiting == Cardinality(queue)
Depth == Cardinality(queue) + Cardinality(inflight)

\* list_del: the queue without r.  Mutant: the request stays on the list.
StillLinked(r) == queue
Unlinked(r) == queue \ {r}

\* Mutant of Before: the scan of atq_dispatch does not look at the priority.
BeforeByAge(r, q) == r.id <= q.id

\* r is dispatched before q: the scan keeps the first of the lowest number.
Before(r, q) == r.prio < q.prio \/ (r.prio = q.prio /\ r.id <= q.id)

\* v gives way before w: the scan keeps the first of the highest number.
GivesWay(v, w) == v.prio > w.prio \/ (v.prio = w.prio /\ v.id <= w.id)

\* The state of the link as the circuit breaker sees it after n timeouts.
Level(n) == IF n >= HardLimit THEN 2 ELSE IF n >= SoftLimit THEN 1 ELSE 0

-----------------------------------------------------------------------------

Init ==
  /\ queue = {}
  /\ inflight = {}
  /\ pc = "loop"
  /\ nextId = 1
  /\ answered = {}
  /\ evicted = {}
  /\ enabled \in BOOLEAN
  /\ portFound = FALSE
  /\ quiet = FALSE
  /\ atState = 0
  /\ consec = 0
  /\ awaiting = FALSE
  /\ callbackPrios \in Callbacks

(***************************************************************************)
(* atq_submit, atq_submit_prompt, atq_probe_port -> atq_submit_full.        *)
(***************************************************************************)
\* Mutants of Admitted: no port is asked for; the quiet window is not.
AdmittedWithoutPort(job) ==
  enabled /\ (job.prio = Poll => ~quiet /\ atState # 2)

AdmittedInQuiet(job) ==
  /\ enabled
  /\ job.shape # "probe" => portFound /\ (job.prio = Poll => atState # 2)

Admitted(job) ==
  /\ enabled
  /\ job.shape # "probe" =>
       /\ portFound
       /\ job.prio = Poll => ~quiet /\ atState # 2

\* Mutant of Duplicate: the request on the line is not compared.
DuplicateWaiting(job) ==
  job.prio = Poll /\ \E r \in queue : r.prio = Poll /\ r.cmd = job.cmd

Duplicate(job) ==
  /\ job.prio = Poll
  /\ \E r \in queue \cup inflight : r.prio = Poll /\ r.cmd = job.cmd

Callable(job) ==
  /\ nextId <= MaxReqs
  /\ \/ pc = "loop"
     \/ pc = "callback" /\ job.prio \in callbackPrios

\* The tail of the submission: append, then atq_dispatch, which returns at
\* once while a request is in flight.
Enqueue(job) ==
  /\ nextId' = nextId + 1
  /\ pc' = IF inflight = {} THEN "dispatch" ELSE pc
  /\ UNCHANGED <<inflight, answered, gates, health, awaiting>>

Accept ==
  \E job \in Job :
    /\ Callable(job)
    /\ Admitted(job)
    /\ ~Duplicate(job)
    /\ Depth < MaxDepth
    /\ queue' = queue \cup {WithId(job, nextId)}
    /\ Enqueue(job)
    /\ UNCHANGED evicted

Displace ==
  \E job \in Job, victim \in queue :
    /\ Callable(job)
    /\ Admitted(job)
    /\ ~Duplicate(job)
    /\ Depth >= MaxDepth
    /\ \A w \in queue : GivesWay(victim, w)
    /\ victim.prio > job.prio
    /\ queue' = Unlinked(victim) \cup {WithId(job, nextId)}
    /\ evicted' = evicted \cup {victim.id}
    /\ Enqueue(job)

(***************************************************************************)
(* atq_dispatch.                                                            *)
(***************************************************************************)
Drained ==
  /\ pc = "dispatch"
  /\ inflight = {} => queue = {}
  /\ pc' = "loop"
  /\ UNCHANGED <<queueVars, gates, health, awaiting>>

\* A poll that has waited for more than ATQ_STARVE_MS leaves as a State one.
Promoted(r) == IF r.prio = Poll THEN {r, [r EXCEPT !.prio = State]} ELSE {r}

Take ==
  /\ pc = "dispatch"
  /\ inflight = {}
  /\ \E best \in queue :
       /\ \A q \in queue : Before(best, q)
       /\ queue' = Unlinked(best)
       /\ IF best.shape # "probe" /\ ~portFound
          THEN /\ answered' = answered \cup {best.id}
               /\ UNCHANGED <<inflight, pc>>
          ELSE /\ \E r \in Promoted(best) : inflight' = {r}
               /\ pc' = "issue"
               /\ UNCHANGED answered
  /\ UNCHANGED <<nextId, evicted, gates, health, awaiting>>

(***************************************************************************)
(* atq_finish, up to the end of the callback: the breaker takes note of     *)
(* every request but the silent ones, whose callback (probe_cb) adopts the  *)
(* port that has answered.                                                  *)
(***************************************************************************)
NoteResult(status) ==
  CASE status = "ok" -> consec' = 0 /\ atState' = 0
    [] status = "error" -> UNCHANGED health
    [] status = "timeout" ->
         /\ consec' = IF consec < HardLimit THEN consec + 1 ELSE consec
         /\ atState' = IF \/ consec + 1 = SoftLimit /\ atState < 1
                          \/ consec + 1 >= HardLimit /\ atState < 2
                       THEN IF consec + 1 = SoftLimit THEN 1 ELSE 2
                       ELSE atState

\* Mutant of ProbeAnswered: the count of timeouts survives the new port.
ProbeAnsweredHalf(status) ==
  /\ UNCHANGED consec
  /\ IF status = "ok" THEN portFound' = TRUE /\ atState' = 0
                      ELSE UNCHANGED <<portFound, atState>>

ProbeAnswered(status) ==
  IF status = "ok"
  THEN portFound' = TRUE /\ consec' = 0 /\ atState' = 0
  ELSE UNCHANGED <<portFound, health>>

Finish(status) ==
  \E r \in inflight :
    /\ answered' = answered \cup {r.id}
    /\ pc' = "callback"
    /\ IF r.shape = "probe"
       THEN ProbeAnswered(status)
       ELSE NoteResult(status) /\ UNCHANGED portFound
    /\ UNCHANGED <<queue, inflight, nextId, evicted, enabled, quiet>>

\* at-daemon is not on the bus: nothing is written.
NotReady ==
  /\ pc = "issue"
  /\ Finish("timeout")
  /\ UNCHANGED awaiting

WriteCommand ==
  /\ pc = "issue"
  /\ pc' = "command"
  /\ UNCHANGED <<queueVars, gates, health, awaiting>>

TwoStage == \E r \in inflight : r.shape = "prompt"

\* sendat_cb for a one-stage request; also the invoke that failed.
Reply ==
  /\ pc = "command"
  /\ ~TwoStage
  /\ \E status \in {"ok", "error", "timeout"} : Finish(status)
  /\ UNCHANGED awaiting

\* prompt_cb: the modem asks for the payload.
PromptSeen ==
  /\ pc = "command"
  /\ TwoStage
  /\ pc' = "payload"
  /\ awaiting' = TRUE
  /\ UNCHANGED <<queueVars, gates, health>>

\* prompt_cb: the modem answers instead of asking.
PromptRefused ==
  /\ pc = "command"
  /\ TwoStage
  /\ Finish("error")
  /\ UNCHANGED awaiting

\* No prompt in time, or the invoke failed; the modem may still have put
\* one out, or be about to.
PromptLost ==
  /\ pc = "command"
  /\ TwoStage
  /\ Finish("timeout")
  /\ awaiting' \in {awaiting, TRUE}

PayloadReply ==
  /\ pc = "payload"
  /\ \E status \in {"ok", "error", "timeout"} :
       /\ Finish(status)
       /\ awaiting' \in IF status = "timeout" THEN {FALSE, TRUE} ELSE {FALSE}

\* Mutant of Retire: atq_finish does not reset `inflight`.
RetireKeepingLine ==
  /\ pc = "callback"
  /\ pc' = "dispatch"
  /\ UNCHANGED <<queueVars, gates, health, awaiting>>

\* The rest of atq_finish.
Retire ==
  /\ pc = "callback"
  /\ inflight' = {}
  /\ pc' = "dispatch"
  /\ UNCHANGED <<queue, nextId, answered, evicted, gates, health, awaiting>>

-----------------------------------------------------------------------------

(***************************************************************************)
(* The daemon around the queue, and the modem.                              *)
(***************************************************************************)

\* atq_state_reset: everything that waits is called back with NOPORT.
StateReset ==
  /\ queue' = {}
  /\ answered' = answered \cup Ids(queue)

Rescan ==
  /\ pc = "loop"
  /\ StateReset
  /\ portFound' = FALSE
  /\ atState' = 0
  /\ consec' = 0
  /\ UNCHANGED <<inflight, pc, nextId, evicted, enabled, quiet, awaiting>>

Disable ==
  /\ pc = "loop"
  /\ enabled' = FALSE
  /\ StateReset
  /\ UNCHANGED <<inflight, pc, nextId, evicted, portFound, quiet, health,
                 awaiting>>

Enable ==
  /\ pc = "loop"
  /\ enabled' = TRUE
  /\ atState' = 0
  /\ consec' = 0
  /\ UNCHANGED <<queueVars, pc, portFound, quiet, awaiting>>

\* port_discovery_tick: the link has been unhealthy for too long.
DropPort ==
  /\ pc = "loop"
  /\ portFound
  /\ atState >= 1
  /\ portFound' = FALSE
  /\ UNCHANGED <<queueVars, pc, enabled, quiet, health, awaiting>>

\* atq_set_quiet, atq_clear_quiet and the expiry of the window.
SetQuiet ==
  /\ pc \in {"loop", "callback"}
  /\ quiet' = ~quiet
  /\ UNCHANGED <<queueVars, pc, enabled, portFound, health, awaiting>>

\* The modem gives up waiting for a payload.
PromptExpires ==
  /\ awaiting
  /\ pc # "payload"
  /\ awaiting' = FALSE
  /\ UNCHANGED <<queueVars, pc, gates, health>>

-----------------------------------------------------------------------------

Submit == Accept \/ Displace

\* The steps of a call that has begun: the daemon cannot leave it half way.
Exchange ==
  \/ Drained \/ Take \/ NotReady \/ WriteCommand \/ Reply
  \/ PromptSeen \/ PromptRefused \/ PromptLost \/ PayloadReply \/ Retire

Environment ==
  Rescan \/ Disable \/ Enable \/ DropPort \/ SetQuiet \/ PromptExpires

Next == (Submit \/ Exchange \/ Environment) /\ UNCHANGED callbackPrios

Spec == Init /\ [][Next]_vars

\* ubus_invoke has a timeout, so a call that has begun goes on.
FairSpec == Spec /\ WF_vars(Exchange /\ UNCHANGED callbackPrios)

-----------------------------------------------------------------------------

TypeOK ==
  /\ queue \subseteq Request
  /\ inflight \subseteq Request
  /\ pc \in {"loop", "dispatch", "issue", "command", "payload", "callback"}
  /\ nextId \in 1..(MaxReqs + 1)
  /\ answered \subseteq 1..MaxReqs
  /\ evicted \subseteq 1..MaxReqs
  /\ enabled \in BOOLEAN
  /\ portFound \in BOOLEAN
  /\ quiet \in BOOLEAN
  /\ atState \in 0..2
  /\ consec \in 0..HardLimit
  /\ awaiting \in BOOLEAN
  /\ callbackPrios \in Callbacks

\* When the daemon is back in its loop nothing is left in the queue or on the
\* line: a request retired anywhere but in atq_finish would leave `inflight`
\* set and the queue would stop dead (atq.c:109-113).  It is what lets the
\* other components treat a submission as one exchange.
DrainedAtLoop == pc = "loop" => queue = {} /\ inflight = {}

\* Every request accepted is in exactly one place: waiting, on the line,
\* answered, or displaced; it is never called back twice and never lost.
InOnePlace ==
  /\ 1..(nextId - 1) = Ids(queue) \cup Ids(inflight) \cup answered \cup evicted
  /\ Ids(queue) \cap (answered \cup evicted \cup Ids(inflight)) = {}
  /\ answered \cap evicted = {}
  /\ pc # "callback" => Ids(inflight) \cap (answered \cup evicted) = {}
  /\ \A r, q \in queue : r.id = q.id => r = q

\* Whatever the callbacks submit, no more than MaxDepth requests are held,
\* the one on the line included.
BoundedDepth == Cardinality(queue) + Cardinality(inflight) <= MaxDepth

\* Two background polls that are held at the same time have different texts:
\* a slow port does not pile up copies of the same question.
PollsCoalesced ==
  \A r, q \in queue \cup inflight :
    r.prio = Poll /\ q.prio = Poll /\ r.cmd = q.cmd => r.id = q.id

\* A waiting request without a port of its own always has one to go to, so
\* the NOPORT exit of atq_dispatch never drops a request that submission let
\* in: the port is only ever lost at loop, where nothing waits.
Routable == \A r \in queue : r.shape # "probe" => portFound

\* The breaker's level and its counter agree through every reset of one or
\* the other: by a result, a probe, a rescan and the management switch.
BreakerAgrees == atState = Level(consec)

\* The queue as AtLine sees it: a request is off the line as soon as its
\* callback is called.
Entry(r) == [id |-> r.id, prio |-> r.prio]
Waiting == {Entry(r) : r \in queue}
OnLine == IF pc = "callback" THEN {} ELSE Ids(inflight)

Line == INSTANCE AtLine WITH
  Id <- 1..MaxReqs,
  waiting <- Waiting,
  line <- OnLine,
  done <- answered,
  shed <- evicted

\* The queue implements the promise of AtLine: one request at a time on the
\* line, the most urgent and oldest first, each answered or displaced once.
LineSpec == Line!Spec

\* A background poll is put on the line only while background polls are
\* allowed: not in a quiet window and not on a dead link, although the test is
\* made at submission and the command leaves later.  It needs callbacks that
\* submit no polls, as is the case of every callback in the daemon.
PollsRespectGates ==
  [][Poll \notin callbackPrios =>
     \A r \in inflight' \ inflight :
       r.prio = Poll => ~quiet /\ atState # 2]_vars

\* A submission always ends with the daemon back in its loop.
ReturnsToLoop == (pc # "loop") ~> (pc = "loop")

\* DESIGN.md 3.3: nothing is slipped in between a prompt and its payload.
\* A command is never written to a modem that waits for a payload.
NothingTypedIntoPrompt ==
  [][pc = "issue" /\ pc' = "command" => ~awaiting]_vars
=============================================================================
