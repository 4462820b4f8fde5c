----------------------------- MODULE ModeSwitch -----------------------------
(***************************************************************************)
(* A change of the module's USB profile, from the user's request to the     *)
(* verdict (src/fm160d/src/modesw.c), across re-enumerations of the module  *)
(* and restarts of the daemon.                                              *)
(*                                                                         *)
(* Every handler of the daemon runs to completion with the AT exchanges it  *)
(* starts (AtQueueProofs!RunsToCompletion), so a handler is one action that *)
(* chooses the outcome of its exchange; m->busy is never seen set by        *)
(* another handler, and atq_submit cannot refuse what the handler has       *)
(* checked itself.  A crash in the middle of a handler is an action of its  *)
(* own.  Management is enabled throughout.                                  *)
(*                                                                         *)
(* The module is external: its active profile, a profile written and not    *)
(* yet taken, and whether it is on the USB bus.  So is the hotplug script,  *)
(* which asks the daemon to rescan when a serial port comes or goes.        *)
(***************************************************************************)
EXTENDS Integers

CONSTANTS
  Mode,             \* USB profiles
  NoMode,           \* -1: a profile not known
  Whitelist,        \* profiles the tables of usbmode.c allow
  Offered,          \* the module's own list, AT+GTUSBMODE=?
  Silent,           \* profiles in which this host finds no AT port
  StuckAfter,       \* MODESW_STUCK_MS, in units of time of the model
  Grace,            \* MODESW_APPLY_GRACE_MS, in the same unit
  MaxLives,         \* bound of the model: restarts counted for one switch
  Faults            \* what may go wrong around the daemon, see below

(***************************************************************************)
(* "crash"       the daemon dies, anywhere, and procd respawns it           *)
(* "lost write"  a profile write that times out may not have reached the    *)
(*               module                                                     *)
(* "read fails"  AT+GTUSBMODE? may fail                                     *)
(***************************************************************************)
AllFaults == {"crash", "lost write", "read fails"}

ASSUME ConstantsAssumption ==
  /\ NoMode \notin Mode
  /\ Whitelist \subseteq Mode
  /\ Offered \subseteq Mode
  /\ Silent \subseteq Mode
  /\ StuckAfter \in Nat \ {0}
  /\ Grace \in Nat \ {0}
  /\ MaxLives \in Nat
  /\ Faults \subseteq AllFaults

VARIABLES
  m,                \* struct fm160_modesw
  portFound,        \* g_state.port_found
  disk,             \* section "switch" of the uci configuration; age is the
                    \* wall-clock time since pending_since, up to StuckAfter
  mode,             \* the module's active profile
  written,          \* the profile it will take when it re-enumerates
  present,          \* it is on the USB bus
  hotplug,          \* the hotplug script has a rescan to ask for
  origin,           \* history: profile last read when the last switch was begun
  waited,           \* history: time since then, up to StuckAfter
  rollbacks,        \* history: rollbacks sent since then, up to MaxLives + 1
  lives             \* history: restarts of the daemon since then, up to MaxLives

module == <<mode, written, present>>
history == <<origin, waited, rollbacks, lives>>
vars == <<m, portFound, disk, mode, written, present, hotplug,
          origin, waited, rollbacks, lives>>

-----------------------------------------------------------------------------

AnyMode == Mode \cup {NoMode}

\* Counting up to a bound.
Upto(max, n) == IF n < max THEN n + 1 ELSE max

\* How long the switch found in the configuration has been waiting, at most
\* StuckAfter.  Mutant: the daemon starts counting anew.
ForgottenAge(d) == 0
CarriedAge(d) == IF d.pending THEN d.age ELSE 0

\* The daemon as fm160_modesw_init leaves it, given the configuration d.
Boot(d) ==
  [st |-> IF d.pending THEN "VERIFY" ELSE "IDLE",
   pending |-> d.pending, current |-> NoMode,
   target |-> d.target, rollback |-> d.rollback, rolledBack |-> FALSE,
   verify |-> 0, caps |-> FALSE,
   age |-> CarriedAge(d), applied |-> 0]

Init ==
  /\ disk = [pending |-> FALSE, target |-> NoMode, rollback |-> NoMode,
             age |-> 0]
  /\ m = Boot(disk)
  /\ portFound = FALSE
  /\ mode \in Mode \ Silent
  /\ written = NoMode
  /\ present = TRUE
  /\ hotplug = FALSE
  /\ origin = NoMode
  /\ waited = 0
  /\ rollbacks = 0
  /\ lives = 0

\* Mutants of NotePending: the flag is written first; the time is not written.
FlagFirst(d, target, rollback, k) ==
  [rollback |-> IF k >= 2 THEN rollback ELSE d.rollback,
   target |-> IF k >= 3 THEN target ELSE d.target,
   age |-> IF k >= 4 THEN 0 ELSE d.age,
   pending |-> IF k >= 1 THEN TRUE ELSE d.pending]

OldStamp(d, target, rollback, k) ==
  [rollback |-> IF k >= 1 THEN rollback ELSE d.rollback,
   target |-> IF k >= 2 THEN target ELSE d.target,
   age |-> d.age,
   pending |-> IF k >= 4 THEN TRUE ELSE d.pending]

\* uci_note_pending, each line a commit of its own: the configuration after
\* the first k of them.
NotePending(d, target, rollback, k) ==
  [rollback |-> IF k >= 1 THEN rollback ELSE d.rollback,
   target |-> IF k >= 2 THEN target ELSE d.target,
   age |-> IF k >= 3 THEN 0 ELSE d.age,
   pending |-> IF k >= 4 THEN TRUE ELSE d.pending]

\* uci_clear_pending.  Mutant: it is not committed.
ClearPendingLost(d) == d
ClearPending(d) == [d EXCEPT !.pending = FALSE]

\* verify_settle, in memory.
Settle(x, result, rolledBack) ==
  [x EXCEPT !.pending = FALSE, !.st = "IDLE", !.verify = result,
            !.rolledBack = rolledBack]

-----------------------------------------------------------------------------

(***************************************************************************)
(* The exchange AT+GTUSBMODE=<t>: the module takes the value and says so,   *)
(* refuses it, or is not heard of, in which case it has usually taken it    *)
(* and re-enumerated before it could answer.                                *)
(***************************************************************************)
WriteMode(t, answer) ==
  \/ answer = "ok" /\ present /\ written' = t
  \/ answer = "error" /\ present /\ written' = written
  \/ /\ answer = "timeout"
     /\ present
     /\ written' \in {t} \cup (IF "lost write" \in Faults THEN {written}
                                                          ELSE {})
  \/ answer = "timeout" /\ ~present /\ written' = written

(***************************************************************************)
(* fm160_modesw_apply and cb_apply, which runs before it returns.           *)
(***************************************************************************)

\* fm160_usbmode_decide: the tables and the module's list allow t, which is
\* not the active profile.  Mutant: the tables are not asked.
AllowedByModule(t) == m.current # t /\ m.caps /\ t \in Offered

Allowed(t) == t \in Whitelist /\ m.current # t /\ m.caps /\ t \in Offered

\* fm160_usbmode_decide says OK, the way back is known, a port is there.
MayApply(t) ==
  /\ m.st # "STUCK"
  /\ ~m.pending
  /\ Allowed(t)
  /\ m.current # NoMode
  /\ portFound

Begun(t) ==
  [m EXCEPT !.target = t, !.rollback = m.current, !.pending = TRUE,
            !.rolledBack = FALSE, !.verify = 0, !.age = 0, !.applied = 0,
            !.st = "APPLY"]

\* cb_apply.
Applied(x, answer) ==
  IF answer = "error" THEN Settle(x, -1, FALSE)
                      ELSE [x EXCEPT !.st = "VERIFY", !.applied = 0]

BeginHistory ==
  /\ origin' = m.current
  /\ waited' = 0
  /\ rollbacks' = 0
  /\ lives' = 0

Apply ==
  \E t \in Mode, answer \in {"ok", "error", "timeout"} :
    /\ MayApply(t)
    /\ WriteMode(t, answer)
    /\ m' = Applied(Begun(t), answer)
    /\ LET noted == NotePending(disk, t, m.current, 4)
       IN  disk' = IF answer = "error" THEN ClearPending(noted) ELSE noted
    /\ BeginHistory
    /\ UNCHANGED <<portFound, mode, present, hotplug>>

(***************************************************************************)
(* The identity chain (fm160_cmd_ident_start), as far as the switch goes:   *)
(* forget the profile and the list, read both again.                        *)
(***************************************************************************)
Forgotten == [m EXCEPT !.current = NoMode, !.caps = FALSE]

\* AT+GTUSBMODE? is answered with the active profile, also when the module
\* has taken another one and has not left the bus yet.
Readable == present /\ mode \notin Silent

MayFail == ~Readable \/ "read fails" \in Faults

\* Mutant of GivesUp: a rollback already sent is not remembered.
GivesUpBlind(x, seen) == x.rollback \in {NoMode, seen}

\* verify_mismatch: no way back, or already been there.
GivesUp(x, seen) == x.rolledBack \/ x.rollback \in {NoMode, seen}

RollsBack(seen) ==
  /\ m.pending
  /\ m.target \notin {NoMode, seen}
  /\ ~GivesUp(m, seen)

\* fm160_modesw_note_current, unless it rolls back.
Noted(x, seen) ==
  LET known == [x EXCEPT !.current = seen]
  IN  IF ~x.pending \/ x.target = NoMode THEN known
      ELSE Settle(known, IF seen = x.target THEN 1 ELSE -1, x.rolledBack)

\* The rollback point is noted again and the command goes out; cb_rollback
\* changes nothing.
RolledBack(x, seen) ==
  [x EXCEPT !.current = seen, !.rolledBack = TRUE, !.verify = -1,
            !.target = x.rollback, !.st = "APPLY", !.applied = 0]

ReadFailed ==
  /\ MayFail
  /\ \E caps \in BOOLEAN : m' = [Forgotten EXCEPT !.caps = caps]
  /\ UNCHANGED <<disk, written, history>>

ReadSettles ==
  /\ Readable
  /\ ~RollsBack(mode)
  /\ \E caps \in BOOLEAN :
       m' = [Noted(Forgotten, mode) EXCEPT !.caps = caps]
  /\ disk' = IF m.pending /\ m.target # NoMode THEN ClearPending(disk)
                                               ELSE disk
  /\ UNCHANGED <<written, history>>

ReadRollsBack ==
  /\ Readable
  /\ RollsBack(mode)
  /\ \E answer \in {"ok", "error", "timeout"} : WriteMode(m.rollback, answer)
  /\ \E caps \in BOOLEAN :
       m' = [RolledBack(Forgotten, mode) EXCEPT !.caps = caps]
  /\ disk' = NotePending(disk, m.rollback, m.rollback, 4)
  /\ rollbacks' = Upto(MaxLives + 1, rollbacks)
  /\ UNCHANGED <<origin, waited, lives>>

Identify == ReadFailed \/ ReadSettles \/ ReadRollsBack

\* probe_cb: a port answers for the first time since the last rescan.
Probe ==
  /\ ~portFound
  /\ present
  /\ mode \notin Silent
  /\ portFound' = TRUE
  /\ Identify
  /\ UNCHANGED <<mode, present, hotplug>>

\* The ubus method "ident".
Ident ==
  /\ portFound
  /\ Identify
  /\ UNCHANGED <<portFound, mode, present, hotplug>>

(***************************************************************************)
(* The daemon's other entries.                                              *)
(***************************************************************************)

\* The ubus method "rescan", from the hotplug script or from anybody else.
Rescan ==
  /\ portFound \/ hotplug
  /\ portFound' = FALSE
  /\ hotplug' = FALSE
  /\ UNCHANGED <<m, disk, module, history>>

\* fm160_modesw_tick.
Looking ==
  IF m.st = "APPLY" /\ m.applied > Grace THEN "VERIFY" ELSE m.st

Tick ==
  /\ m.st # "STUCK"
  /\ m.pending
  /\ m' = [m EXCEPT !.st =
             IF Looking = "VERIFY" /\ ~portFound /\ m.age >= StuckAfter
             THEN "STUCK" ELSE Looking]
  /\ UNCHANGED <<portFound, disk, module, hotplug, history>>

Elapse ==
  /\ m' = [m EXCEPT !.age = IF m.pending THEN Upto(StuckAfter, @) ELSE @,
                    !.applied = IF m.st = "APPLY" THEN Upto(Grace + 1, @)
                                                  ELSE @]
  /\ disk' = [disk EXCEPT !.age = IF disk.pending THEN Upto(StuckAfter, @)
                                                  ELSE @]
  /\ waited' = Upto(StuckAfter, waited)
  /\ UNCHANGED <<portFound, module, hotplug, origin, rollbacks, lives>>

(***************************************************************************)
(* Crashes.  The daemon is respawned and reads the configuration it finds.  *)
(***************************************************************************)
Respawn(d) ==
  /\ "crash" \in Faults
  /\ disk' = d
  /\ m' = Boot(d)
  /\ portFound' = FALSE
  /\ UNCHANGED <<mode, present, hotplug>>

Crash ==
  /\ Respawn(disk)
  /\ lives' = Upto(MaxLives, lives)
  /\ UNCHANGED <<written, origin, waited, rollbacks>>

\* In fm160_modesw_apply, before the command is sent or before cb_apply.
CrashInApply ==
  \E t \in Mode, k \in 0..4 :
    /\ MayApply(t)
    /\ Respawn(NotePending(disk, t, m.current, k))
    /\ written' \in IF k = 4 /\ present THEN {written, t} ELSE {written}
    /\ BeginHistory

\* In verify_mismatch, or between it and cb_rollback.
CrashInRollback ==
  /\ Readable
  /\ RollsBack(mode)
  /\ \E k \in 0..4 :
       /\ Respawn(NotePending(disk, m.rollback, m.rollback, k))
       /\ \/ written' = written /\ UNCHANGED rollbacks
          \/ /\ k = 4
             /\ written' \in {written, m.rollback}
             /\ rollbacks' = Upto(MaxLives + 1, rollbacks)
  /\ lives' = Upto(MaxLives, lives)
  /\ UNCHANGED <<origin, waited>>

-----------------------------------------------------------------------------

(***************************************************************************)
(* The module, and the person who recovers it.                              *)
(***************************************************************************)
Leave ==
  /\ present
  /\ present' = FALSE
  /\ hotplug' = TRUE
  /\ UNCHANGED <<m, portFound, disk, mode, written, history>>

\* It comes back in the profile written, or in whatever its firmware makes
\* of it; a reset of its own changes nothing.
Return ==
  /\ ~present
  /\ present' = TRUE
  /\ hotplug' = TRUE
  /\ mode' \in IF written = NoMode THEN {mode} ELSE Mode
  /\ written' = NoMode
  /\ UNCHANGED <<m, portFound, disk, history>>

\* Over DIAG or ADB, from a profile without an AT port.
Recover ==
  /\ present
  /\ mode \in Silent
  /\ mode' \in Mode \ Silent
  /\ written' = NoMode
  /\ hotplug' = TRUE
  /\ UNCHANGED <<m, portFound, disk, present, history>>

\* What the message of modesw_stuck asks for, and a restart of the service.
ClearByHand ==
  /\ m.st = "STUCK"
  /\ present
  /\ mode \notin Silent
  /\ written = NoMode
  /\ disk' = ClearPending(disk)
  /\ m' = Boot(disk')
  /\ portFound' = FALSE
  /\ UNCHANGED <<module, hotplug, history>>

-----------------------------------------------------------------------------

Daemon == Apply \/ Probe \/ Ident \/ Rescan \/ Tick

Environment ==
  \/ Elapse \/ Leave \/ Return \/ Recover \/ ClearByHand
  \/ Crash \/ CrashInApply \/ CrashInRollback

Next == Daemon \/ Environment

Spec == Init /\ [][Next]_vars

(***************************************************************************)
(* The housekeeping timer runs every second and probes for a port while it  *)
(* has none; time passes; the hotplug script gets through; a module that    *)
(* has taken a profile re-enumerates.                                       *)
(***************************************************************************)
FairSpec ==
  /\ Spec
  /\ WF_vars(Tick)
  /\ WF_vars(Elapse)
  /\ WF_vars(Probe)
  /\ WF_vars(hotplug /\ Rescan)
  /\ WF_vars(written # NoMode /\ Leave)
  /\ WF_vars(Return)

-----------------------------------------------------------------------------

Switch == [st : {"IDLE", "APPLY", "VERIFY", "STUCK"}, pending : BOOLEAN,
           current : AnyMode, target : AnyMode, rollback : AnyMode,
           rolledBack : BOOLEAN, verify : {-1, 0, 1}, caps : BOOLEAN,
           age : 0..StuckAfter, applied : 0..(Grace + 1)]

Section == [pending : BOOLEAN, target : AnyMode, rollback : AnyMode,
            age : 0..StuckAfter]

TypeOK ==
  /\ m \in Switch
  /\ portFound \in BOOLEAN
  /\ disk \in Section
  /\ mode \in Mode
  /\ written \in AnyMode
  /\ present \in BOOLEAN
  /\ hotplug \in BOOLEAN
  /\ origin \in AnyMode
  /\ waited \in 0..StuckAfter
  /\ rollbacks \in 0..(MaxLives + 1)
  /\ lives \in 0..MaxLives

\* What the daemon believes of a switch and what it would believe after a
\* restart are the same: there is no handler after which a crash forgets a
\* switch, invents one, or remembers another way back.
Mirrored ==
  /\ m.pending = disk.pending
  /\ m.pending => m.target = disk.target /\ m.rollback = disk.rollback
  /\ m.pending <=> m.st # "IDLE"

\* The way back that is kept for a pending switch is the profile the daemon
\* had read when the user asked, through rollbacks, restarts and crashes.
WayBackIsOrigin == disk.pending => disk.rollback = origin

\* The module is only ever asked to take a profile that both gates allow, or
\* to go back to the one it had before the switch.
GatesHold ==
  [][\/ written' \in {written, NoMode}
     \/ written' \in Whitelist \cap Offered
     \/ written' = origin]_vars

\* The verdict "no AT port" is given on a switch that has had all the time it
\* is allowed, restarts of the daemon neither shorten nor hide it.
StuckHasWaited ==
  [][m.st # "STUCK" /\ m'.st = "STUCK" => waited >= StuckAfter]_vars

\* One life of the daemon sends at most one rollback for a switch.
RollbackPerLife == rollbacks <= 1 + lives

(***************************************************************************)
(* The switch as the configuration has it is a ProfileSwitch: the four      *)
(* commits of a request and of a rollback, and the death of the daemon      *)
(* between any two of them, look like one step or like none.                *)
(***************************************************************************)
Plan ==
  IF disk.pending THEN {[to |-> disk.target, home |-> disk.rollback]} ELSE {}

Journal ==
  INSTANCE ProfileSwitch
    WITH plan <- Plan, asked <- written, at <- mode, stuck <- m.st = "STUCK"

\* The journal in uci is atomic: no crash leaves half a switch behind, gives it
\* another way back, or ends it (modesw.c:76-135, 177-221).
JournalSpec == Journal!Spec

\* A switch after which the module cannot be read any more is reported as
\* stuck, even by a daemon that is respawned again and again (modesw.c:122-125).
UnreachableIsReported ==
  [](([](m.pending /\ ~Readable)) => <>(m.st = "STUCK"))

\* modesw.c:182-186, DESIGN.md 5.2 step 10: one rollback, then stop.
OneRollback == rollbacks <= 1

\* modesw.c:14-16 and the message of modesw_stuck: once stuck, the daemon does
\* not switch again by itself.
StuckIsFinal == [][m.st = "STUCK" => rollbacks' <= rollbacks]_vars

\* modesw.c:288-292: a switch that was not answered is decided by the
\* read-back, and so is settled or reported as stuck.
SwitchSettles == m.pending ~> (~m.pending \/ m.st = "STUCK")
=============================================================================
