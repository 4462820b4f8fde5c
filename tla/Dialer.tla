------------------------------- MODULE Dialer -------------------------------
(***************************************************************************)
(* The dialler of fm160d (src/fm160d/src/dialer.c): the sequence that       *)
(* activates the PDP context on an ECM profile, the ladder it climbs when a *)
(* step fails, the supervision of a link that is up, and the persistent     *)
(* ledger that bounds the module resets at the end of the ladder.           *)
(*                                                                         *)
(* A handler runs to completion with its AT exchange (AtQueueProofs!        *)
(* RunsToCompletion): st->running is never seen set by another handler, the *)
(* queue is empty when the tick looks at it, and a submission is refused    *)
(* only for want of a port.  Management is enabled throughout.  The wall    *)
(* clock runs forward and is coarse: what matters is whether a stamp is     *)
(* within the window.                                                       *)
(***************************************************************************)
EXTENDS Integers, FiniteSets

CONSTANTS
  Rungs,            \* FM160_NET_LADDER_MAX
  RegSubs,          \* DIAL_REG_SUBS
  IpPolls,          \* DIAL_IP_MAX_POLLS
  Limit,            \* FM160_NET_RESET_LIMIT
  Window,           \* FM160_NET_RESET_WINDOW_S, in units of the clock
  LedgerMax,        \* LEDGER_MAX
  Confs,            \* configurations: sets of the options that are set
  Kinds,            \* kinds of USB profile the module may be switched to
  MaxClock          \* bound of the model: how far the wall clock runs

ASSUME ConstantsAssumption ==
  /\ Rungs \in Nat
  /\ RegSubs \in Nat \ {0}
  /\ IpPolls \in Nat \ {0}
  /\ Limit \in Nat
  /\ Window \in Nat \ {0}
  /\ LedgerMax \in Nat
  /\ Limit <= LedgerMax
  /\ Confs \subseteq SUBSET {"apn", "reset", "auto"}
  /\ Kinds \subseteq {"ecm", "other"}
  /\ MaxClock \in Nat

VARIABLES
  d,                \* struct fm160_dial_state
  port,             \* "none", "ok", or "dead": found, and at_state is 2
  profile,          \* the kind of g_state.usb_mode
  ledger,           \* uci dial.reset_stamps, a set of stamps
  clock,            \* time(NULL)
  active,           \* the PDP context is active in the module
  good,             \* card, network and link to the module work
  total,            \* history: resets noted in the ledger
  sent              \* history: resets sent within the window

env == <<port, profile, clock, good>>
resets == <<ledger, total, sent>>
vars == <<d, port, profile, ledger, clock, active, good, total, sent>>

-----------------------------------------------------------------------------

(***************************************************************************)
(* The reset ledger.  A stamp carries its number, so that resets of the     *)
(* same instant are told apart.                                             *)
(***************************************************************************)
Stamp == [n : Nat, at : 0..MaxClock]

RecentAt(stamps, t) == {s \in stamps : t - s.at < Window}

\* ledger_load.  Mutant: the ledger is not read.
LoadedNothing(stamps) == 0
Loaded(stamps) == Cardinality(RecentAt(stamps, clock))

\* ledger_note_reset goes through the stamps from the newest to the first
\* that is out of the window, and keeps LEDGER_MAX - 1 of them.  Mutant: one
\* fewer.
KeptButOne(stamps) ==
  LET recent == RecentAt(stamps, clock)
  IN  {s \in recent :
         Cardinality({q \in recent : q.n >= s.n}) <= LedgerMax - 2}

Kept(stamps) ==
  LET recent == RecentAt(stamps, clock)
  IN  {s \in recent :
         Cardinality({q \in recent : q.n >= s.n}) <= LedgerMax - 1}

NewStamp == [n |-> total + 1, at |-> clock]

-----------------------------------------------------------------------------

(***************************************************************************)
(* The state of the dialler.  resting: next_try_ms lies ahead.  stopped is  *)
(* healing_stopped with its reason.                                         *)
(***************************************************************************)

\* fm160_dial_configure; an APN that is not usable is not stored.
Configured(x, c) ==
  [x EXCEPT !.allowReset = ("reset" \in c), !.autostart = ("auto" \in c),
            !.autostartDone = ("auto" \in c) /\ @, !.apn = ("apn" \in c) \/ @]

\* fm160_dial_init, then fm160_config_load.
Boot(c, count) ==
  Configured(
    [step |-> "IDLE", sub |-> 0, wanted |-> FALSE, stopped |-> "no",
     verb |-> "none", attempt |-> 0, ipPolls |-> 0, up |-> FALSE,
     wasUp |-> FALSE, resting |-> FALSE, counted |-> count,
     allowReset |-> FALSE, autostart |-> FALSE, autostartDone |-> FALSE,
     configError |-> FALSE, apn |-> FALSE, kind |-> "unknown"], c)

\* dial_to, and what the callbacks do before it.
To(x, step) == [x EXCEPT !.step = step, !.sub = 0, !.resting = FALSE]

\* fm160_dial_start.
Begun(x) ==
  [To(x, "PIN") EXCEPT !.configError = FALSE, !.stopped = "no",
                       !.wanted = TRUE, !.attempt = 0, !.ipPolls = 0,
                       !.wasUp = FALSE, !.up = FALSE]

Started(x) ==
  IF x.wanted /\ x.stopped = "no" THEN x
  ELSE IF ~x.apn THEN [x EXCEPT !.configError = TRUE]
  ELSE IF x.kind # "ecm" \/ port = "none" THEN x
  ELSE Begun(x)

\* The first part of fm160_dial_tick: the profile is looked at, and one
\* attempt is made if the configuration asks for it.
Autostarted(x) ==
  IF /\ x.autostart /\ ~x.autostartDone
     /\ x.kind # "unknown" /\ ~x.wanted /\ ~x.configError
  THEN Started([x EXCEPT !.autostartDone = TRUE])
  ELSE x

Current == Autostarted([d EXCEPT !.kind = profile])

\* The rest of it has something to do.
Ready == Current.wanted /\ Current.stopped = "no" /\ port = "ok" /\ ~Current.resting

\* dial_fail, first half.  Mutant: the link is still said to be up.
LeftUp(x) == [x EXCEPT !.ipPolls = 0]
Failed(x) == [x EXCEPT !.ipPolls = 0, !.up = FALSE]

\* dial_fail, second half: the next rung; the first retry is immediate.
\* Mutant: the rung is not counted.
RetriedForever(x) == [To(x, "PIN") EXCEPT !.resting = x.attempt > 0]
Retried(x) ==
  [To(x, "PIN") EXCEPT !.resting = x.attempt > 0, !.attempt = x.attempt + 1]

\* dial_stop_healing.
StoppedFor(x, reason) ==
  [To(x, "FAILED") EXCEPT !.stopped = reason, !.resting = TRUE]

\* dial_escalate, a reset.
WasReset(x) ==
  [To(x, "PIN") EXCEPT !.counted = @ + 1, !.attempt = 0, !.resting = TRUE]

MayReset(x) == x.allowReset /\ x.counted < Limit

\* A step has failed: dial_fail and dial_escalate.
Fail(x) ==
  LET y == Failed(x)
  IN  IF x.attempt < Rungs
      THEN d' = Retried(y) /\ UNCHANGED <<resets, active>>
      ELSE IF ~MayReset(y)
      THEN /\ d' = StoppedFor(y, IF y.allowReset THEN "too many"
                                                 ELSE "resets off")
           /\ UNCHANGED <<resets, active>>
      ELSE /\ d' = WasReset(y)
           /\ ledger' = Kept(ledger) \cup {NewStamp}
           /\ total' = total + 1
           /\ sent' = sent \cup {NewStamp}
           /\ active' \in {active, FALSE}

-----------------------------------------------------------------------------

Init ==
  /\ \E c \in Confs : d = Boot(c, 0)
  /\ port = "none"
  /\ profile = "unknown"
  /\ ledger = {}
  /\ clock = 0
  /\ active = FALSE
  /\ good = FALSE
  /\ total = 0
  /\ sent = {}

(***************************************************************************)
(* fm160_dial_tick, one action for each step it can be at, with the         *)
(* callback of the command it sends.                                        *)
(***************************************************************************)
At(steps) == Ready /\ Current.step \in steps

TickIdle ==
  /\ ~Ready
  /\ d' = Current
  /\ UNCHANGED <<resets, active, env>>

TickPin ==
  /\ At({"PIN"})
  /\ \/ d' = To(Current, "REG") /\ UNCHANGED <<resets, active>>
     \/ ~good /\ Fail(Current)
  /\ UNCHANGED env

\* One domain is asked; a refusal by one does not keep the next from being.
NextDomain(x) == x.sub + 1 < RegSubs

TickReg ==
  /\ At({"REG"})
  /\ \/ d' = To(Current, "APN") /\ UNCHANGED <<resets, active>>
     \/ /\ NextDomain(Current)
        /\ d' = [Current EXCEPT !.sub = @ + 1]
        /\ UNCHANGED <<resets, active>>
     \/ ~NextDomain(Current) /\ ~good /\ Fail(Current)
  /\ UNCHANGED env

TickApn ==
  /\ At({"APN"})
  /\ \/ d' = To(Current, "ACTIVATE") /\ UNCHANGED <<resets, active>>
     \/ ~good /\ Fail(Current)
  /\ UNCHANGED env

\* The activation verb is not known yet: the two are tried in turn.
TickProbe ==
  /\ At({"ACTIVATE"})
  /\ Current.verb = "none"
  /\ \/ /\ d' = [Current EXCEPT !.sub = 0, !.verb =
                   IF Current.sub = 0 THEN "GTWWAN" ELSE "GTRNDIS"]
        /\ UNCHANGED <<resets, active>>
     \/ /\ Current.sub = 0
        /\ d' = [Current EXCEPT !.sub = 1]
        /\ UNCHANGED <<resets, active>>
     \/ Current.sub = 1 /\ ~good /\ Fail(Current)
  /\ UNCHANGED env

\* The light reset: a context that was up is deactivated first, whatever the
\* answer.  Mutant: it is deactivated again at the next tick.
LetGoAgain(x) == [x EXCEPT !.resting = TRUE]
LetGo(x) == [x EXCEPT !.resting = TRUE, !.wasUp = FALSE]

TickDeactivate ==
  /\ At({"ACTIVATE"})
  /\ Current.verb # "none"
  /\ Current.wasUp
  /\ d' = LetGo(Current)
  /\ active' \in {active, FALSE}
  /\ UNCHANGED <<resets, env>>

\* A refusal and a timeout are decided by the read-back, only an OK that says
\* "+GTWWAN: 0" is a failure.
TickActivate ==
  /\ At({"ACTIVATE"})
  /\ Current.verb # "none"
  /\ ~Current.wasUp
  /\ \/ /\ d' = To(Current, "IP")
        /\ active' \in IF good THEN {TRUE} ELSE {active, TRUE}
        /\ UNCHANGED resets
     \/ ~good /\ Fail(Current)
  /\ UNCHANGED env

\* cb_ip: no answer, no address, or none that is acceptable.  Mutant: the
\* reads of a link that is up are not counted.
NotYetUncounted(x) ==
  [x EXCEPT !.resting = TRUE, !.ipPolls = IF x.up THEN 0 ELSE @ + 1]
NotYet(x) == [x EXCEPT !.resting = TRUE, !.ipPolls = @ + 1]

HasAddress(x) ==
  [x EXCEPT !.up = TRUE, !.wasUp = TRUE, !.attempt = 0, !.ipPolls = 0,
            !.step = "UP", !.sub = 0, !.resting = TRUE]

TickRead ==
  /\ At({"IP", "UP"})
  /\ \/ active /\ d' = HasAddress(Current) /\ UNCHANGED <<resets, active>>
     \/ /\ ~good
        /\ NotYet(Current).ipPolls < IpPolls
        /\ d' = NotYet(Current)
        /\ UNCHANGED <<resets, active>>
     \/ ~active /\ Fail(Current)
     \/ active /\ ~good /\ Fail(Current)
  /\ UNCHANGED env

Tick ==
  \/ TickIdle \/ TickPin \/ TickReg \/ TickApn
  \/ TickProbe \/ TickDeactivate \/ TickActivate \/ TickRead

-----------------------------------------------------------------------------

\* The ubus method dial_start.
Start ==
  /\ d' = Started(d)
  /\ UNCHANGED <<resets, active, env>>

\* fm160_dial_stop, and cb_down if the command could be submitted.
Stopping(x) ==
  [x EXCEPT !.wanted = FALSE, !.up = FALSE, !.configError = FALSE,
            !.ipPolls = 0, !.sub = 0, !.resting = FALSE, !.step = "DOWN"]

MayStop == d.wanted \/ d.step # "DOWN"

\* No verb is known, or the command is not accepted for want of a port.
StopUntold ==
  /\ MayStop
  /\ d.verb = "none" \/ port = "none"
  /\ d' = [Stopping(d) EXCEPT !.resting = (d.verb # "none")]
  /\ UNCHANGED <<resets, active, env>>

StopTold ==
  /\ MayStop
  /\ d.verb # "none" /\ port # "none"
  /\ d' = [Stopping(d) EXCEPT !.wasUp = FALSE]
  /\ active' \in {active, FALSE}
  /\ UNCHANGED <<resets, env>>

Stop == StopUntold \/ StopTold

\* The ubus method dial_config.
Configure ==
  /\ \E c \in Confs : d' = Configured(d, c)
  /\ UNCHANGED <<resets, active, env>>

\* next_try_ms is reached.
Rest ==
  /\ d.resting
  /\ d' = [d EXCEPT !.resting = FALSE]
  /\ UNCHANGED <<resets, active, env>>

\* The daemon dies between two handlers and is respawned.
Crash ==
  /\ \E c \in Confs : d' = Boot(c, Loaded(ledger))
  /\ UNCHANGED <<resets, active, env>>

\* It dies between the ledger entry and the reset.
CrashBeforeReset ==
  /\ Ready
  /\ Current.attempt >= Rungs
  /\ MayReset(Current)
  /\ ~good \/ ~active
  /\ ledger' = Kept(ledger) \cup {NewStamp}
  /\ total' = total + 1
  /\ \E c \in Confs :
       d' = Boot(c, Cardinality(RecentAt(ledger', clock)))
  /\ UNCHANGED <<sent, active, env>>

-----------------------------------------------------------------------------

(***************************************************************************)
(* What happens around the dialler.                                         *)
(***************************************************************************)
PortChanges ==
  /\ port' \in {"none", "ok", "dead"}
  /\ UNCHANGED <<d, resets, active, profile, clock, good>>

\* The identity chain reads the profile, or has just forgotten it.
ProfileChanges ==
  /\ profile' \in {"unknown"} \cup Kinds
  /\ UNCHANGED <<d, resets, active, port, clock, good>>

\* The network closes the context, or the module opens one by itself.
ContextChanges ==
  /\ active' = ~active
  /\ active => ~good
  /\ UNCHANGED <<d, resets, env>>

\* The faults end; as long as they last, everything may also go well.
ServiceRestored ==
  /\ ~good
  /\ good' = TRUE
  /\ UNCHANGED <<d, resets, active, port, profile, clock>>

\* The history of sent resets covers the window.
Hours ==
  /\ clock < MaxClock
  /\ clock' = clock + 1
  /\ sent' = RecentAt(sent, clock')
  /\ UNCHANGED <<d, ledger, total, active, port, profile, good>>

Daemon == Tick \/ Start \/ Stop \/ Configure

Environment ==
  \/ Rest \/ Crash \/ CrashBeforeReset
  \/ PortChanges \/ ProfileChanges \/ ContextChanges \/ ServiceRestored \/ Hours

Next == Daemon \/ Environment

Spec == Init /\ [][Next]_vars

\* The housekeeping timer runs every second, and time passes.
FairSpec == Spec /\ WF_vars(Tick) /\ WF_vars(Rest)

-----------------------------------------------------------------------------

Step == {"IDLE", "PIN", "REG", "APN", "ACTIVATE", "IP", "UP", "FAILED", "DOWN"}
Working == {"PIN", "REG", "APN", "ACTIVATE", "IP", "UP"}

DialState ==
  [step : Step, sub : Nat, wanted : BOOLEAN,
   stopped : {"no", "resets off", "too many"},
   verb : {"none", "GTWWAN", "GTRNDIS"}, attempt : 0..Rungs,
   ipPolls : 0..(IpPolls - 1), up : BOOLEAN, wasUp : BOOLEAN,
   resting : BOOLEAN, counted : 0..Limit, allowReset : BOOLEAN,
   autostart : BOOLEAN, autostartDone : BOOLEAN, configError : BOOLEAN,
   apn : BOOLEAN, kind : {"unknown", "ecm", "other"}]

\* The index of the domain and of the verb stay within their tables.
SubInRange ==
  /\ d.step = "REG" => d.sub < RegSubs
  /\ d.step = "ACTIVATE" /\ d.verb = "none" => d.sub < 2

TypeOK ==
  /\ d \in DialState
  /\ SubInRange
  /\ port \in {"none", "ok", "dead"}
  /\ profile \in {"unknown", "ecm", "other"}
  /\ ledger \subseteq Stamp
  /\ clock \in 0..MaxClock
  /\ active \in BOOLEAN
  /\ good \in BOOLEAN
  /\ total \in Nat
  /\ sent \subseteq Stamp

\* The flags the proto script and the page read agree with the step: netifd is
\* told the link is up in the step UP only, a sequence that is under way is
\* wanted and not given up, a dialler that has given up waits for a person.
FlagsAgree ==
  /\ d.up <=> d.step = "UP"
  /\ d.wanted /\ d.stopped = "no" <=> d.step \in Working
  /\ d.wanted /\ d.stopped # "no" <=> d.step = "FAILED"

\* A reset that was sent is in the ledger for as long as it counts, whatever
\* is noted after it and wherever the daemon dies.
LedgerComplete == sent \subseteq ledger

\* dialer.c:230-236: at most Limit resets in any window, across the restarts of
\* the daemon.
ResetsBounded == Cardinality(sent) <= Limit

\* A context that is closed under a link that is up does not go unnoticed.
LossIsNoticed == ~<>[](d.up /\ ~active /\ port = "ok")

\* A dialler that is left alone comes to an end, up or stopped: it does not
\* climb the ladder for ever.
HealingEnds ==
  ~<>[](d.wanted /\ d.stopped = "no" /\ ~d.up /\ port = "ok")

\* When the faults are over before the dialler has given up, the link comes up
\* and stays up.
Connects ==
  <>[](good /\ port = "ok" /\ d.wanted /\ d.stopped = "no") => <>[](d.up)

\* A link that is up on a service that works is taken down by a stop or by the
\* death of the daemon, and by nothing else: not by the port, the profile, the
\* configuration or a read that goes wrong.
ServedLinkStays ==
  [][good /\ active /\ d.up /\ ~d'.up => Stop \/ Crash]_vars

\* net.c:709-713: the refusal says there were too many resets in the window.
RefusalIsTrue ==
  [][d.stopped # "too many" /\ d'.stopped = "too many"
       => Loaded(ledger) >= Limit]_vars
=============================================================================
