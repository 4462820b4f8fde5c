----------------------------- MODULE Discovery -----------------------------
(***************************************************************************)
(* How fm160d finds the AT port, notices that it is dead and finds it again *)
(* (src/fm160d/src/sched.c), with the identity chain that follows           *)
(* (cmds.c) and the requests of the user that reach into both               *)
(* (ubus_methods.c).                                                       *)
(*                                                                         *)
(* A handler runs to completion with the exchanges it starts                *)
(* (AtQueueProofs!RunsToCompletion): nothing but the module moves while a   *)
(* chain is left.  Deadlines are flags that a step of time raises.          *)
(***************************************************************************)
EXTENDS Integers, Sequences, FiniteSets, SequencesExt

CONSTANTS
  Tty,              \* names of serial devices
  Layouts,          \* what may be on the bus: class of each device
  CandMax,          \* FM160_CAND_MAX
  SoftLimit,        \* BREAKER_SOFT_LIMIT
  HardLimit,        \* BREAKER_HARD_LIMIT
  IdentItems,       \* commands of ident_plan
  MaxMoves          \* bound of the model: changes of the bus, requests of the
                    \* user and exchanges outside the polls

\* enum cand_class, with the devices that are not candidates.
Class == {"at", "at2", "fibocom", "unknown", "silent", "foreign", "absent"}
Rank == [c \in Class |-> CASE c = "at" -> 0 [] c = "at2" -> 1
                           [] c = "fibocom" -> 2 [] c = "unknown" -> 3
                           [] OTHER -> 4]

DiscoveryConstants ==
  /\ IsFiniteSet(Tty) /\ Tty # {}
  /\ Layouts \subseteq [Tty -> Class]
  /\ CandMax \in Nat \ {0}
  /\ SoftLimit \in Nat \ {0} /\ HardLimit \in Nat /\ SoftLimit < HardLimit
  /\ IdentItems \in Nat \ {0}
  /\ MaxMoves \in Nat

ASSUME DiscoveryAssumption == DiscoveryConstants

VARIABLES
  bus,              \* external: the class of each device
  alive,            \* external: the devices that answer AT
  cands,            \* g_state.cand[], cand_idx
  held,             \* port_next_probe_ms is ahead: "long" by
                    \* PORT_PROBE_GAP_MS, "short" by 500 ms
  port,             \* g_state.port_found, port
  breaker,          \* at_state, consec_timeout, whether last_fail_ms is
                    \* unset or more than 20 s ago
  resting,          \* now < poll_suspend_until_ms
  enabled,          \* g_state.enabled
  ident,            \* commands of the chain still to come, ident_done
  seen              \* history: devices probed since the last gap; ident asked
                    \* for while disabled; the bus is as it will stay; moves

discoveryVars == <<bus, alive, cands, held, port, breaker, resting, enabled,
                   ident, seen>>

-----------------------------------------------------------------------------
(* fm160_scan_candidates *)

Own(b) == {t \in Tty : b[t] \notin {"foreign", "absent"}}

\* readdir has its own order, and the scan stops when its array is full.
Noted(b) ==
  LET n == Cardinality(Own(b))
  IN {S \in SUBSET Own(b) : Cardinality(S) = IF n < CandMax THEN n ELSE CandMax}

\* Silent devices are candidates when there is nothing else.
Eligible(b, S) ==
  LET loud == {t \in S : b[t] # "silent"}
  IN IF loud = {} THEN S ELSE loud

Scans(b) ==
  UNION {{q \in SetToSeqs(Eligible(b, S)) :
            \A i, j \in DOMAIN q : i < j => Rank[b[q[i]]] <= Rank[b[q[j]]]}
         : S \in Noted(b)}

NoCands == [list |-> <<>>, idx |-> 1]
NoPort == [found |-> FALSE, name |-> CHOOSE t \in Tty : TRUE]
Healthy(age) == [state |-> 0, consec |-> 0, age |-> age]

\* fm160_sched_init scans once, after the configuration has been read.
DiscoveryInit ==
  /\ bus \in Layouts
  /\ alive \in SUBSET {t \in Tty : bus[t] # "absent"}
  /\ \E q \in Scans(bus) : cands = [list |-> q, idx |-> 1]
  /\ held = "no"
  /\ port = NoPort
  /\ breaker = Healthy("unset")
  /\ resting = FALSE
  /\ enabled \in BOOLEAN
  /\ ident = [left |-> 0, done |-> FALSE]
  /\ seen = [probed |-> <<>>, askedOff |-> FALSE, settled |-> FALSE,
             moves |-> 0]

-----------------------------------------------------------------------------
(* The module and the time *)

DiscoveryLoop == ident.left = 0

Moves == /\ ~seen.settled
         /\ seen.moves < MaxMoves
Moved == [seen EXCEPT !.moves = @ + 1]

Enumerate ==
  /\ Moves /\ seen' = Moved
  /\ bus' \in Layouts
  /\ alive' \in SUBSET {t \in Tty : bus'[t] # "absent"}
  /\ UNCHANGED <<cands, held, port, breaker, resting, enabled, ident>>

\* From here on the bus does not change, a device that is alive answers, and
\* nobody asks for anything.
Settle ==
  /\ ~seen.settled
  /\ seen' = [seen EXCEPT !.settled = TRUE]
  /\ UNCHANGED <<bus, alive, cands, held, port, breaker, resting, enabled,
                 ident>>

GapEnds ==
  /\ DiscoveryLoop /\ held # "no"
  /\ held' = "no"
  /\ seen' = IF held = "long" THEN [seen EXCEPT !.probed = <<>>] ELSE seen
  /\ UNCHANGED <<bus, alive, cands, port, breaker, resting, enabled, ident>>

Age ==
  /\ breaker.age = "fresh"
  /\ breaker' = [breaker EXCEPT !.age = "old"]
  /\ UNCHANGED <<bus, alive, cands, held, port, resting, enabled, ident, seen>>

RestEnds ==
  /\ resting
  /\ resting' = FALSE
  /\ UNCHANGED <<bus, alive, cands, held, port, breaker, enabled, ident, seen>>

Outcomes(t) ==
  IF t \notin alive THEN {"timeout"}
  ELSE IF seen.settled THEN {"ok"} ELSE {"ok", "error", "timeout"}

-----------------------------------------------------------------------------
(* fm160_sched_note_result *)

Noticed(outcome) ==
  CASE outcome = "ok" ->
         [breaker EXCEPT !.state = 0, !.consec = 0]
    [] outcome = "error" ->
         [breaker EXCEPT !.age = "fresh"]
    [] outcome = "timeout" ->
         [state |-> IF breaker.consec + 1 = SoftLimit /\ breaker.state < 1 THEN 1
                    ELSE IF breaker.consec + 1 >= HardLimit THEN 2
                    ELSE breaker.state,
          consec |-> breaker.consec + 1,
          age |-> "fresh"]

Heard(outcome) ==
  /\ breaker' = Noticed(outcome)
  /\ resting' = (resting \/ (breaker.state = 0 /\ breaker'.state = 1))

Poll ==
  /\ DiscoveryLoop
  /\ ~resting /\ breaker.state # 2 /\ port.found /\ enabled
  /\ \E outcome \in Outcomes(port.name) : Heard(outcome)
  /\ UNCHANGED <<bus, alive, cands, held, port, enabled, ident, seen>>

\* Commands of the user, of the dialler, of the messages.
OtherCommand ==
  /\ DiscoveryLoop
  /\ port.found /\ enabled
  /\ Moves /\ seen' = Moved
  /\ \E outcome \in Outcomes(port.name) : Heard(outcome)
  /\ UNCHANGED <<bus, alive, cands, held, port, enabled, ident>>

-----------------------------------------------------------------------------
(* port_discovery_tick *)

\* The list has been walked without an answer.  Mutants: no pause before the
\* next sweep; the list is kept.
WalkedAtOnce == /\ cands' = NoCands /\ held' = "no"
WalkedKeeping == /\ UNCHANGED cands /\ held' = "long"
Walked == /\ cands' = NoCands /\ held' = "long"

MayProbe == /\ DiscoveryLoop /\ ~port.found /\ held = "no"

WalkOver ==
  /\ MayProbe
  /\ cands.list # <<>> /\ cands.idx > Len(cands.list)
  /\ Walked
  /\ UNCHANGED <<bus, alive, port, breaker, resting, enabled, ident, seen>>

\* One probe: refused while the management is disabled; answered, which
\* begins the identity chain; not answered.  Silent for the breaker.
Probe(q, i) ==
  \/ /\ ~enabled
     /\ cands' = [list |-> q, idx |-> i]
     /\ held' = "short"
     /\ UNCHANGED <<port, breaker, ident, seen>>
  \/ /\ enabled
     /\ cands' = [list |-> q, idx |-> i + 1]
     /\ UNCHANGED held
     /\ LET probed == Append(seen.probed, q[i])
        IN \/ /\ "ok" \in Outcomes(q[i])
              /\ port' = [found |-> TRUE, name |-> q[i]]
              /\ breaker' = Healthy(breaker.age)
              /\ ident' = [left |-> IdentItems, done |-> FALSE]
              /\ seen' = [seen EXCEPT !.probed = probed, !.askedOff = FALSE]
           \/ /\ Outcomes(q[i]) # {"ok"}
              /\ seen' = [seen EXCEPT !.probed = probed]
              /\ UNCHANGED <<port, breaker, ident>>

ProbeNext ==
  /\ MayProbe
  /\ cands.list # <<>> /\ cands.idx <= Len(cands.list)
  /\ Probe(cands.list, cands.idx)
  /\ UNCHANGED <<bus, alive, resting, enabled>>

ScanAndProbe ==
  /\ MayProbe
  /\ cands.list = <<>>
  /\ \E q \in Scans(bus) :
       \/ /\ q # <<>>
          /\ Probe(q, 1)
       \/ /\ q = <<>>
          /\ cands' = NoCands /\ held' = "long"
          /\ UNCHANGED <<port, breaker, ident, seen>>
  /\ UNCHANGED <<bus, alive, resting, enabled>>

\* A port that has been ill for 20 s is dropped.  Mutant: only one that is
\* degraded is.
DueDegraded == breaker.state = 1 /\ breaker.age = "old"
Due == breaker.state >= 1 /\ breaker.age = "old"

Drop ==
  /\ DiscoveryLoop /\ port.found /\ Due
  /\ port' = [port EXCEPT !.found = FALSE]
  /\ cands' = NoCands /\ held' = "long"
  /\ UNCHANGED <<bus, alive, breaker, resting, enabled, ident, seen>>

-----------------------------------------------------------------------------
(* The identity chain *)

\* ident_store goes on whatever the answer was.  Mutant: it gives up.
GivenUp(outcome) ==
  IF outcome = "ok" THEN [left |-> ident.left - 1, done |-> ident.left = 1]
                    ELSE [left |-> 0, done |-> FALSE]
Stepped(outcome) == [left |-> ident.left - 1, done |-> ident.left = 1]

IdentStep ==
  /\ ident.left > 0
  /\ \E outcome \in Outcomes(port.name) :
       /\ Heard(outcome)
       /\ ident' = Stepped(outcome)
  /\ UNCHANGED <<bus, alive, cands, held, port, enabled, seen>>

\* handle_ident.  The first command is refused while the management is
\* disabled, which ident_next does not look at: the identity is cleared and
\* nobody reads it again.
AskIdent ==
  /\ DiscoveryLoop /\ Moves /\ port.found
  /\ \/ /\ enabled
        /\ ident' = [left |-> IdentItems, done |-> FALSE]
        /\ seen' = [Moved EXCEPT !.askedOff = FALSE]
     \/ /\ ~enabled
        /\ ident' = [left |-> 0, done |-> FALSE]
        /\ seen' = [Moved EXCEPT !.askedOff = TRUE]
  /\ UNCHANGED <<bus, alive, cands, held, port, breaker, resting, enabled>>

-----------------------------------------------------------------------------
(* handle_rescan, handle_enabled *)

Rescan ==
  /\ DiscoveryLoop /\ Moves
  /\ port' = [port EXCEPT !.found = FALSE]
  /\ cands' = NoCands /\ held' = "no"
  /\ breaker' = Healthy(breaker.age)
  /\ seen' = [Moved EXCEPT !.probed = <<>>]
  /\ UNCHANGED <<bus, alive, resting, enabled, ident>>

SetEnabled ==
  /\ DiscoveryLoop /\ Moves /\ seen' = Moved
  /\ enabled' \in BOOLEAN
  /\ breaker' = IF enabled' THEN Healthy(breaker.age) ELSE breaker
  /\ UNCHANGED <<bus, alive, cands, held, port, resting, ident>>

-----------------------------------------------------------------------------

Tick == WalkOver \/ ProbeNext \/ ScanAndProbe

DiscoveryNext ==
  \/ Enumerate \/ Settle \/ GapEnds \/ Age \/ RestEnds
  \/ Poll \/ OtherCommand
  \/ Tick \/ Drop
  \/ IdentStep \/ AskIdent \/ Rescan \/ SetEnabled

DiscoverySpec == DiscoveryInit /\ [][DiscoveryNext]_discoveryVars

(***************************************************************************)
(* The housekeeping timer comes every second, deadlines pass, the polls are *)
(* due again and again, and an exchange ends by its answer or its timeout.  *)
(***************************************************************************)
DiscoveryFairness ==
  /\ WF_discoveryVars(GapEnds) /\ WF_discoveryVars(Age)
  /\ WF_discoveryVars(RestEnds)
  /\ WF_discoveryVars(Poll)
  /\ WF_discoveryVars(Tick) /\ WF_discoveryVars(Drop)
  /\ WF_discoveryVars(IdentStep)

DiscoveryFairSpec == DiscoverySpec /\ DiscoveryFairness

-----------------------------------------------------------------------------
(* Properties *)

DiscoveryTypeOK ==
  /\ bus \in Layouts
  /\ alive \subseteq Tty
  /\ cands \in [list : Seq(Tty), idx : Nat \ {0}]
  /\ held \in {"no", "short", "long"}
  /\ port \in [found : BOOLEAN, name : Tty]
  /\ breaker \in [state : 0..2, consec : Nat, age : {"unset", "fresh", "old"}]
  /\ resting \in BOOLEAN /\ enabled \in BOOLEAN
  /\ ident \in [left : 0..IdentItems, done : BOOLEAN]
  /\ seen \in [probed : Seq(Tty), askedOff : BOOLEAN, settled : BOOLEAN,
               moves : 0..MaxMoves]

\* "A modem that is absent (or still booting) must not be probed in a tight
\* loop": unless the user asks for a rescan, no device is probed again before
\* the daemon has waited, whatever was dropped, found or re-enumerated since.
ProbedOncePerSweep ==
  \A i, j \in DOMAIN seen.probed : seen.probed[i] = seen.probed[j] => i = j

\* Whenever the daemon is back in its loop with a port, the identity that
\* licenses the writes and the message setup has been read to the end, whatever
\* the module answered, unless it was asked for while the management was
\* disabled.
IdentityIsWhole ==
  DiscoveryLoop /\ port.found => ident.done \/ seen.askedOff

\* If the bus settles with a device that answers among those the scan would
\* take, the daemon comes to use one that answers: from any state of the
\* breaker, also when it uses a dead device and polling was stopped.
Reachable ==
  /\ Cardinality(Own(bus)) <= CandMax
  /\ Eligible(bus, Own(bus)) \cap alive # {}
FoundAgain ==
  (seen.settled /\ enabled /\ Reachable) ~> (port.found /\ port.name \in alive)
=============================================================================
