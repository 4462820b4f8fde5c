------------------------------- MODULE AtLine -------------------------------
(***************************************************************************)
(* What the AT request queue of fm160d promises to the rest of the daemon,  *)
(* whatever the queue is made of:                                           *)
(*                                                                         *)
(*   - one request at a time is on the line to the modem;                   *)
(*   - the line is given to the most urgent waiting request, the oldest     *)
(*     among equals;                                                        *)
(*   - an accepted request waits, is on the line, is answered or is         *)
(*     displaced, it never comes back from the last two, and it is only     *)
(*     displaced to make room for a strictly more urgent one.               *)
(*                                                                         *)
(* AtQueue implements this specification (AtQueue!Line, AtQueueProofs).     *)
(***************************************************************************)
EXTENDS Integers

CONSTANTS
  Id,               \* the names of requests, integers in the order they are
                    \* given out
  Prio              \* the urgencies, integers, 0 the most urgent

VARIABLES
  waiting,          \* requests accepted and not yet started, [id, prio]
  line,             \* ids of the requests on the line
  done,             \* ids of the requests answered
  shed              \* ids of the requests displaced

vars == <<waiting, line, done, shed>>

Request == [id : Id, prio : Prio]

\* The ids given out so far.
Known == {r.id : r \in waiting} \cup line \cup done \cup shed

\* r is served before q.
Before(r, q) == r.prio < q.prio \/ (r.prio = q.prio /\ r.id <= q.id)

Init ==
  /\ waiting = {}
  /\ line = {}
  /\ done = {}
  /\ shed = {}

Accept ==
  \E r \in Request :
    /\ r.id \notin Known
    /\ waiting' = waiting \cup {r}
    /\ UNCHANGED <<line, done, shed>>

Displace ==
  \E r \in Request, v \in waiting :
    /\ r.id \notin Known
    /\ r.prio < v.prio
    /\ waiting' = (waiting \ {v}) \cup {r}
    /\ shed' = shed \cup {v.id}
    /\ UNCHANGED <<line, done>>

Start ==
  \E r \in waiting :
    /\ line = {}
    /\ \A q \in waiting : Before(r, q)
    /\ waiting' = waiting \ {r}
    /\ line' = {r.id}
    /\ UNCHANGED <<done, shed>>

Answer ==
  \E i \in line :
    /\ line' = line \ {i}
    /\ done' = done \cup {i}
    /\ UNCHANGED <<waiting, shed>>

Next == Accept \/ Displace \/ Start \/ Answer

Spec == Init /\ [][Next]_vars
=============================================================================
