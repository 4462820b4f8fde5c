----------------------------- MODULE Keepalive -----------------------------
(***************************************************************************)
(* The watchdog of the kernel-dialled link                                  *)
(* (src/fibocom-dial/files/usr/sbin/fm160-keepalive) and the script that    *)
(* dials, hangs up and changes its settings (fm160-dial-ctl).               *)
(*                                                                         *)
(* Loops, the scripts they run and the user's script are processes of a     *)
(* shell: they interleave at every command that another may notice.  A      *)
(* script that a loop started outlives the loop.  Whether a round fails and *)
(* whether the module gets to its profile is any of what it may be; how the *)
(* profile is bounced by a reload is left out, what follows it is not.      *)
(***************************************************************************)
EXTENDS Integers, Sequences

CONSTANTS
  StopRounds,       \* ka_stop_rounds
  MaxGen,           \* bound of the model: loops started for each family
  MaxFailures,      \* bound of the model: failed rounds
  MaxOrders         \* bound of the model: orders of the user

KeepaliveConstants ==
  /\ {StopRounds, MaxGen} \subseteq Nat \ {0}
  /\ {MaxFailures, MaxOrders} \subseteq Nat

ASSUME KeepaliveAssumption == KeepaliveConstants

VARIABLES
  config,           \* ka_enable, ka_split
  loops,            \* the loops by family and generation: where each is, failed rounds
  pids,             \* the pid files: the generation recorded for each family
  scripts,          \* what is left of each running script
  tally             \* history: orders, failed rounds; a start and a stop, or two
                    \* starts or stops, were under way at once

keepaliveVars == <<config, loops, pids, scripts, tally>>

-----------------------------------------------------------------------------

\* FAM: one loop for both families or one for each.
Family == {"both", "4", "6"}
Watches(f) == IF f = "both" THEN {"4", "6"} ELSE {f}

Gen == 1..MaxGen
Loop == Family \X Gen
User == <<"user", 0>>

Unborn == [at |-> "unborn", rounds |-> 0]
Over == [at |-> "over", rounds |-> 0]
Alive(l) == loops[l].at \notin {"unborn", "over"}

\* A command of a script: what, of which family, and for the end of a stop the
\* generation that was on record.
ScriptCommand ==
  [do : {"ensure", "start", "check", "spawn", "stop", "kill"},
   of : Family, gen : 0..MaxGen]
Do(what, f) == [do |-> what, of |-> f, gen |-> 0]
Kill(f, g) == [do |-> "kill", of |-> f, gen |-> g]

\* do_up, and stop, which takes the families one after the other.
UpScript == <<Do("ensure", "both"), Do("start", "both")>>
StopScript == <<Do("stop", "both"), Do("stop", "4"), Do("stop", "6")>>
RestartScript == StopScript \o <<Do("start", "both")>>

\* The router has started; with dial_autostart it dials (fm160-dial).
KeepaliveInit ==
  /\ config \in [enable : {TRUE}, split : BOOLEAN]
  /\ loops = [l \in Loop |-> Unborn]
  /\ pids = [f \in Family |-> 0]
  /\ \E script \in {<<>>, UpScript} :
       scripts = [p \in Loop \cup {User} |-> IF p = User THEN script ELSE <<>>]
  /\ tally = [orders |-> 0, failures |-> 0, raced |-> FALSE]

-----------------------------------------------------------------------------
(* A loop: run *)

At(l, here, there) ==
  /\ loops[l].at = here
  /\ loops' = [loops EXCEPT ![l] = there]

\* It then sleeps until the link is up, and between the rounds.
WritePid(l) ==
  /\ At(l, "born", [loops[l] EXCEPT !.at = "round"])
  /\ pids' = [pids EXCEPT ![l[1]] = l[2]]
  /\ UNCHANGED <<config, scripts, tally>>

Disabled(l) ==
  /\ ~config.enable
  /\ At(l, "round", Over)
  /\ UNCHANGED <<config, pids, scripts, tally>>

\* A failed round: up to the limit it dials anew, with or without a reload.  A
\* day after the window began a new one begins with it.
RoundFails(l) ==
  /\ tally.failures < MaxFailures
  /\ tally' = [tally EXCEPT !.failures = @ + 1]
  /\ \E before \in {0, loops[l].rounds} :
       \/ /\ before + 1 >= StopRounds
          /\ At(l, "round", Over)
          /\ pids' = [pids EXCEPT ![l[1]] = 0]
       \/ /\ before + 1 < StopRounds
          /\ At(l, "round", [at |-> "redial", rounds |-> before + 1])
          /\ UNCHANGED pids
  /\ UNCHANGED <<config, scripts>>

\* redial and reload_modem end in fm160-dial-ctl up, which the loop waits for.
Dials(l) ==
  /\ At(l, "redial", [loops[l] EXCEPT !.at = "up"])
  /\ scripts' = [scripts EXCEPT ![l] = UpScript]
  /\ UNCHANGED <<config, pids, tally>>

Dialled(l) ==
  /\ scripts[l] = <<>>
  /\ At(l, "up", [loops[l] EXCEPT !.at = "round"])
  /\ UNCHANGED <<config, pids, scripts, tally>>

\* The trap: a loop that was told to end does nothing more but to remove the
\* record of its family, whichever loop that names.
Trap(l) ==
  /\ At(l, "term", Over)
  /\ pids' = [pids EXCEPT ![l[1]] = 0]
  /\ UNCHANGED <<config, scripts, tally>>

-----------------------------------------------------------------------------
(* fm160-dial-ctl and fm160-keepalive start, stop: one command of a script *)

Goes(p, rest) == scripts' = [scripts EXCEPT ![p] = rest]
Turn(p, what) == scripts[p] # <<>> /\ Head(scripts[p]).do = what

\* A start from reading the settings to its last loop, a stop of a family from
\* reading its record to removing it; and a loop not yet on record.
UnderWay(p) == \E what \in {"check", "spawn", "kill"} : Turn(p, what)
OthersUnderWay(p) == \E q \in (Loop \cup {User}) \ {p} : UnderWay(q)
Newborn(f) == \E g \in Gen : loops[<<f, g>>].at = "born"

\* ensure_usb_mode, with all that takes until the module is there; the script
\* gives up when it does not get there.
Ensure(p) ==
  /\ Turn(p, "ensure")
  /\ Goes(p, Tail(scripts[p])) \/ Goes(p, <<>>)
  /\ UNCHANGED <<config, loops, pids, tally>>

\* start: one family or each, by the setting of now.
Start(p) ==
  /\ Turn(p, "start")
  /\ \/ /\ ~config.enable
        /\ Goes(p, Tail(scripts[p]))
        /\ UNCHANGED tally
     \/ /\ config.enable
        /\ Goes(p, IF config.split THEN <<Do("check", "4"), Do("check", "6")>>
                                   ELSE <<Do("check", "both")>>)
        /\ tally' = [tally EXCEPT !.raced = @ \/ OthersUnderWay(p)]
  /\ UNCHANGED <<config, loops, pids>>

\* Bound of the model: a family whose generations are used up is left alone.
Fresh(f) == {g \in Gen : loops[<<f, g>>].at = "unborn"}
Watched(f) == pids[f] # 0 /\ Alive(<<f, pids[f]>>)

Check(p) ==
  \E f \in Family :
    /\ Turn(p, "check") /\ Head(scripts[p]).of = f
    /\ Goes(p, IF ~config.enable \/ Watched(f) \/ Fresh(f) = {}
               THEN Tail(scripts[p])
               ELSE <<Do("spawn", f)>> \o Tail(scripts[p]))
    /\ tally' = [tally EXCEPT !.raced = @ \/ Newborn(f)]
    /\ UNCHANGED <<config, loops, pids>>

Spawn(p) ==
  \E f \in Family :
    /\ Turn(p, "spawn") /\ Head(scripts[p]).of = f
    /\ Goes(p, Tail(scripts[p]))
    /\ pids' = [pids EXCEPT ![f] = 0]
    /\ IF Fresh(f) = {} THEN UNCHANGED loops
       ELSE \E g \in Fresh(f) :
              /\ \A h \in Fresh(f) : g <= h
              /\ loops' = [loops EXCEPT ![<<f, g>>].at = "born"]
    /\ UNCHANGED <<config, tally>>

\* One turn of stop: the loop on record is told to end.  Mutant: the records of
\* single families are not looked at.
OnRecordCombined(f) == IF f = "both" THEN pids[f] ELSE 0
OnRecord(f) == pids[f]

Stop(p) ==
  \E f \in Family :
    /\ Turn(p, "stop") /\ Head(scripts[p]).of = f
    /\ Goes(p, <<Kill(f, OnRecord(f))>> \o Tail(scripts[p]))
    /\ loops' = [l \in Loop |-> IF l = <<f, OnRecord(f)>> /\ Alive(l)
                                THEN [loops[l] EXCEPT !.at = "term"] ELSE loops[l]]
    /\ tally' = [tally EXCEPT !.raced = @ \/ Newborn(f) \/ OthersUnderWay(p)]
    /\ UNCHANGED <<config, pids>>

\* A second later it is killed, and whatever is on record by then removed.
Killed(p) ==
  \E f \in Family :
    /\ Turn(p, "kill") /\ Head(scripts[p]).of = f
    /\ Goes(p, Tail(scripts[p]))
    /\ loops' = [l \in Loop |-> IF l = <<f, Head(scripts[p]).gen>>
                                THEN Over ELSE loops[l]]
    /\ pids' = [pids EXCEPT ![f] = 0]
    /\ UNCHANGED <<config, tally>>

-----------------------------------------------------------------------------
(* The user, one order after the other: dial, hang up, settings *)

Orders(script) ==
  /\ scripts[User] = <<>> /\ tally.orders < MaxOrders
  /\ Goes(User, script)
  /\ tally' = [tally EXCEPT !.orders = @ + 1]
  /\ UNCHANGED <<loops, pids>>

DoUp == Orders(UpScript) /\ UNCHANGED config
DoDown == Orders(StopScript) /\ UNCHANGED config

SetSplit ==
  /\ config' = [config EXCEPT !.split = ~@]
  /\ Orders(RestartScript)

SetEnable ==
  /\ config' = [config EXCEPT !.enable = ~@]
  /\ Orders(IF config.enable THEN StopScript ELSE RestartScript)

-----------------------------------------------------------------------------

LoopStep(l) ==
  \/ WritePid(l) \/ Disabled(l) \/ RoundFails(l)
  \/ Dials(l) \/ Dialled(l) \/ Trap(l)

ScriptStep(p) ==
  \/ Ensure(p) \/ Start(p) \/ Check(p) \/ Spawn(p) \/ Stop(p) \/ Killed(p)

KeepaliveNext ==
  \/ \E l \in Loop : LoopStep(l)
  \/ \E p \in Loop \cup {User} : ScriptStep(p)
  \/ DoUp \/ DoDown \/ SetSplit \/ SetEnable

KeepaliveSpec == KeepaliveInit /\ [][KeepaliveNext]_keepaliveVars

-----------------------------------------------------------------------------
(* Properties *)

KeepaliveTypeOK ==
  /\ config \in [enable : BOOLEAN, split : BOOLEAN]
  /\ loops \in [Loop -> [at : {"unborn", "born", "round", "redial", "up",
                               "term", "over"},
                         rounds : 0..(StopRounds - 1)]]
  /\ pids \in [Family -> 0..MaxGen]
  /\ scripts \in [Loop \cup {User} -> Seq(ScriptCommand)]
  /\ tally \in [orders : 0..MaxOrders, failures : 0..MaxFailures,
                raced : BOOLEAN]

\* No family is watched by two loops once the user's script is through, however
\* the watch was started, stopped, split, joined or revived by scripts that
\* outlive their loops: only starts and stops that were under way at once, or
\* that met a loop not yet on record, can leave a second one.
OneWatcher ==
  scripts[User] = <<>> =>
    \/ tally.raced
    \/ \A l, k \in Loop :
         l # k /\ Alive(l) /\ Alive(k) => Watches(l[1]) \cap Watches(k[1]) = {}
=============================================================================
