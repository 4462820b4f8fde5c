----------------------------- MODULE LanPrefix -----------------------------
(***************************************************************************)
(* The operator's prefix on the LAN                                        *)
(* (src/fm160d/files/usr/libexec/fm160-prefix-lan.sh): runs of the script   *)
(* that hotplug, the init script, the dial script and the page start, the   *)
(* lock between them, and what is left when one is killed or the power goes.*)
(*                                                                         *)
(* What a run sees of the link and of the configuration is any of what it   *)
(* may be.  The prefix is on the bridge as an address and a route; the      *)
(* proxy entry, stray host routes and odhcpd itself are left out.  The      *)
(* mobile link and the LAN have their network sections.                     *)
(***************************************************************************)
EXTENDS Integers, Sequences

CONSTANTS
  Prefix,           \* operator prefixes
  NoPrefix,
  UserNdp,          \* what the LAN section may have before: not "relay"
  MaxRuns           \* bound of the model: runs at one time

LanConstants ==
  /\ NoPrefix \notin Prefix
  /\ "relay" \notin UserNdp
  /\ MaxRuns \in Nat \ {0}

ASSUME LanAssumption == LanConstants

VARIABLES
  runs,             \* of each run: where it is and the commands it has still to
                    \* do; what it was started for is chosen when it matters
  lock,             \* the lock directory and the pid in it, by run
  bridge,           \* addresses and routes of br-lan, by prefix
  record,           \* STATE: the prefix in place
  uci,              \* dhcp: what is set, what is committed
  backup,           \* ODHCPD_STATE: whether the file is there, the lines that
                    \* teardown reads written to it, the ndp of the LAN section
                    \* that goes into the last
  user,             \* the ndp of the LAN section before the first run
  mishaps           \* history: two runs were past the lock at once; one was
                    \* killed between address and record, one while it wrote
                    \* ODHCPD_STATE; the setting was put back and its commit
                    \* refused; the power went while the LAN section was ours

lanVars == <<runs, lock, bridge, record, uci, backup, user, mishaps>>

-----------------------------------------------------------------------------

RunId == 1..MaxRuns
Job == {"apply", "withdraw", "teardown"}
NoPid == 0
DeadPid == MaxRuns + 1          \* of a run that was killed
FreeLock == [held |-> FALSE, pid |-> NoPid]
NotRunning == [at |-> "off", todo |-> <<>>]
Past(r) == runs[r].at \in {"look", "work", "write"}
Running(r) == runs[r].at # "off"
NotSaved == [saved |-> FALSE, lines |-> 0, ndp |-> "unset"]

LanInit ==
  /\ runs = [r \in RunId |-> NotRunning]
  /\ lock = FreeLock
  /\ bridge = [addr |-> {}, route |-> {}]
  /\ record = NoPrefix
  /\ user \in UserNdp
  /\ uci = [set |-> [seg |-> FALSE, ndp |-> user],
            committed |-> [seg |-> FALSE, ndp |-> user]]
  /\ backup = NotSaved
  /\ mishaps = [shared |-> FALSE, orphan |-> FALSE, torn |-> FALSE,
                refused |-> FALSE, cut |-> FALSE]

-----------------------------------------------------------------------------
(* lock, unlock *)

StepsTo(r, at) == runs' = [runs EXCEPT ![r].at = at]
LockOnly == UNCHANGED <<bridge, record, uci, backup, user>>

\* A page, a dial script, hotplug or the init script starts a run.
Launch(r) ==
  /\ ~Running(r)
  /\ StepsTo(r, "wait")
  /\ LockOnly /\ UNCHANGED <<lock, mishaps>>

MakeLock(r) ==
  /\ runs[r].at = "wait" /\ ~lock.held
  /\ lock' = [held |-> TRUE, pid |-> NoPid]
  /\ StepsTo(r, "claim")
  /\ LockOnly /\ UNCHANGED mishaps

\* The lock is held and a pid is in it; whether that run lives is asked next,
\* of the file as it is then.
FindLocked(r) ==
  /\ runs[r].at = "wait" /\ lock.held /\ lock.pid # NoPid
  /\ StepsTo(r, "ask")
  /\ LockOnly /\ UNCHANGED <<lock, mishaps>>

Ask(r) ==
  /\ runs[r].at = "ask"
  /\ StepsTo(r, IF lock.pid \in RunId THEN "wait" ELSE "reclaim")
  /\ LockOnly /\ UNCHANGED <<lock, mishaps>>

Reclaim(r) ==
  /\ runs[r].at = "reclaim"
  /\ lock' = FreeLock
  /\ StepsTo(r, "wait")
  /\ LockOnly /\ UNCHANGED mishaps

\* After 30 tries it goes ahead.
GoAhead(r) ==
  /\ runs[r].at = "wait" /\ lock.held
  /\ StepsTo(r, "claim")
  /\ LockOnly /\ UNCHANGED <<lock, mishaps>>

\* The pid is written; without the directory the script ends there.
ClaimLock(r) ==
  /\ runs[r].at = "claim"
  /\ \/ /\ lock.held
        /\ lock' = [lock EXCEPT !.pid = r]
        /\ StepsTo(r, "look")
        /\ mishaps' = [mishaps EXCEPT !.shared = @ \/ \E q \in RunId : Past(q)]
     \/ /\ ~lock.held
        /\ runs' = [runs EXCEPT ![r] = NotRunning]
        /\ UNCHANGED <<lock, mishaps>>
  /\ LockOnly

\* finish: whoever made the lock, it is removed.
Finish(r) ==
  /\ runs[r].at = "work" /\ runs[r].todo = <<>>
  /\ lock' = FreeLock
  /\ runs' = [runs EXCEPT ![r] = NotRunning]
  /\ LockOnly /\ UNCHANGED mishaps

\* "status" and a wrong argument leave through finish too, without a lock.
StatusEnds ==
  /\ lock.held
  /\ lock' = FreeLock
  /\ LockOnly /\ UNCHANGED <<runs, mishaps>>

-----------------------------------------------------------------------------
(* apply, withdraw, teardown: the commands that follow from what is seen *)

Take(p) == <<<<"del route", p>>, <<"del addr", p>>>>
Off(p) == IF p = NoPrefix THEN <<>> ELSE Take(p) \o <<<<"forget", p>>>>
Relay == <<<<"save", NoPrefix>>, <<"set", NoPrefix>>, <<"commit", NoPrefix>>>>
On(p) ==
  <<<<"add addr", p>>, <<"add route", p>>, <<"note", p>>>> \o Relay
Unconfigure ==
  <<<<"restore", NoPrefix>>, <<"commit", NoPrefix>>, <<"clear", NoPrefix>>>>

\* Mutant: the prefix before is left.
AppliedBeside(p) ==
  IF record = p /\ p \in bridge.addr THEN Relay
  ELSE IF record = p THEN Take(p) \o On(p) ELSE On(p)
Applied(p) ==
  IF record = p /\ p \in bridge.addr THEN Relay
  ELSE IF record = NoPrefix THEN On(p) ELSE Take(record) \o On(p)

Plan(job, view) ==
  IF view \in {"no device", "other device"} THEN <<>>
  ELSE IF job = "withdraw" \/ view = "no prefix" THEN Off(record)
  ELSE IF job = "teardown" \/ view = "disabled" THEN Off(record) \o Unconfigure
  ELSE Applied(view)

Views(job) ==
  CASE job = "apply" -> Prefix \cup {"disabled", "no device", "no prefix"}
    [] job = "withdraw" -> {"any device", "other device"}
    [] job = "teardown" -> {"any device"}

LookAround(r) ==
  /\ runs[r].at = "look"
  /\ \E job \in Job : \E view \in Views(job) :
       runs' = [runs EXCEPT ![r].at = "work", ![r].todo = Plan(job, view)]
  /\ LockOnly /\ UNCHANGED <<lock, mishaps>>

-----------------------------------------------------------------------------
(* The commands *)

Does(r, what, p) ==
  /\ runs[r].at = "work" /\ runs[r].todo # <<>>
  /\ Head(runs[r].todo) = <<what, p>>
Then(r, rest) == /\ runs' = [runs EXCEPT ![r].todo = rest]
                 /\ UNCHANGED <<lock, user, mishaps>>
Done(r) == Then(r, Tail(runs[r].todo))

OffBridge(r) ==
  \E p \in Prefix :
    /\ \/ /\ Does(r, "del route", p)
          /\ bridge' = [bridge EXCEPT !.route = @ \ {p}]
       \/ /\ Does(r, "del addr", p)
          /\ bridge' = [bridge EXCEPT !.addr = @ \ {p}]
    /\ Done(r)
    /\ UNCHANGED <<record, uci, backup>>

\* What is there already cannot be added: the run ends, and takes an address
\* without a route back.
OnBridge(r) ==
  \E p \in Prefix :
    /\ \/ /\ Does(r, "add addr", p)
          /\ bridge' = [bridge EXCEPT !.addr = @ \cup {p}]
          /\ IF p \in bridge.addr THEN Then(r, <<>>) ELSE Done(r)
       \/ /\ Does(r, "add route", p)
          /\ bridge' = [bridge EXCEPT !.route = @ \cup {p}]
          /\ IF p \in bridge.route THEN Then(r, <<<<"del addr", p>>>>) ELSE Done(r)
    /\ UNCHANGED <<record, uci, backup>>

Records(r) ==
  \E p \in Prefix :
    /\ \/ Does(r, "note", p) /\ record' = p
       \/ Does(r, "forget", p) /\ record' = NoPrefix
    /\ Done(r)
    /\ UNCHANGED <<bridge, uci, backup>>

\* odhcpd_state_save: without the file it is made, the setting having been read,
\* and then written line by line; a file that is there stays, whatever is in it.
\* Mutant: at every run.
ToSaveAlways == TRUE
ToSave == ~backup.saved

Saves(r) ==
  /\ Does(r, "save", NoPrefix)
  /\ \/ /\ ToSave
        /\ backup' = [saved |-> TRUE, lines |-> 0, ndp |-> uci.set.ndp]
        /\ StepsTo(r, "write")
     \/ /\ ~ToSave
        /\ runs' = [runs EXCEPT ![r].todo = Tail(@)]
        /\ UNCHANGED backup
  /\ UNCHANGED <<lock, bridge, record, uci, user, mishaps>>

\* Into a file that was removed meanwhile nothing is written.
Writes(r) ==
  /\ runs[r].at = "write"
  /\ \/ /\ backup.saved /\ backup.lines = 0
        /\ backup' = [backup EXCEPT !.lines = 1]
        /\ UNCHANGED runs
     \/ /\ ~backup.saved \/ backup.lines > 0
        /\ backup' = [backup EXCEPT !.lines = IF backup.saved THEN 2 ELSE 0]
        /\ runs' = [runs EXCEPT ![r].at = "work", ![r].todo = Tail(runs[r].todo)]
  /\ UNCHANGED <<lock, bridge, record, uci, user, mishaps>>

Ours == [seg |-> TRUE, ndp |-> "relay"]

\* What the file says the LAN section had: without the last line nothing,
\* without the name of the section the setting is left.
PutBack ==
  CASE backup.lines = 2 -> backup.ndp
    [] backup.lines = 1 -> "unset"
    [] OTHER -> uci.set.ndp

\* odhcpd_configure, odhcpd_unconfigure.  What is set and not committed counts
\* as configured.
Configures(r) ==
  /\ \/ /\ Does(r, "set", NoPrefix)
        /\ uci' = [uci EXCEPT !.set = Ours]
        /\ IF uci.set = Ours THEN Then(r, <<>>) ELSE Done(r)
        /\ UNCHANGED backup
     \/ /\ Does(r, "commit", NoPrefix)
        /\ uci' = [uci EXCEPT !.committed = uci.set]
        /\ Done(r) /\ UNCHANGED backup
     \/ /\ Does(r, "restore", NoPrefix)
        /\ uci' = [uci EXCEPT !.set = [seg |-> FALSE, ndp |-> PutBack]]
        /\ Done(r) /\ UNCHANGED backup
     \/ /\ Does(r, "clear", NoPrefix)
        /\ backup' = NotSaved
        /\ Done(r) /\ UNCHANGED uci
  /\ UNCHANGED <<bridge, record>>

\* The flash refuses a commit, what is set stays set: configure ends there,
\* with nothing left to do, unconfigure does not look.
CommitFails(r) ==
  /\ Does(r, "commit", NoPrefix)
  /\ runs' = [runs EXCEPT ![r].todo = Tail(@)]
  /\ mishaps' = [mishaps EXCEPT !.refused = @ \/ Tail(runs[r].todo) # <<>>]
  /\ LockOnly /\ UNCHANGED lock

-----------------------------------------------------------------------------
(* What happens to it *)

\* The address or the route is on the bridge and has yet to go on record.
Unnoted(r) ==
  \E p \in Prefix, i \in DOMAIN runs[r].todo :
    /\ runs[r].todo[i] = <<"note", p>>
    /\ p \in bridge.addr \cup bridge.route /\ p # record

KillRun(r) ==
  /\ Running(r)
  /\ runs' = [runs EXCEPT ![r] = NotRunning]
  /\ lock' = IF lock.pid = r THEN [lock EXCEPT !.pid = DeadPid] ELSE lock
  /\ mishaps' = [mishaps EXCEPT !.orphan = @ \/ Unnoted(r),
                               !.torn = @ \/ runs[r].at = "write"]
  /\ LockOnly

\* The bridge goes down and up.
FlushBridge ==
  /\ bridge.addr # {}
  /\ bridge' = [addr |-> {}, route |-> {}]
  /\ UNCHANGED <<runs, lock, record, uci, backup, user, mishaps>>

\* /var is memory, the configuration is flash.
PowerFails ==
  /\ runs' = [r \in RunId |-> NotRunning]
  /\ lock' = FreeLock
  /\ bridge' = [addr |-> {}, route |-> {}]
  /\ record' = NoPrefix /\ backup' = NotSaved
  /\ uci' = [uci EXCEPT !.set = uci.committed]
  /\ mishaps' = [mishaps EXCEPT !.orphan = FALSE,
                               !.cut = @ \/ uci.committed.ndp = "relay"]
  /\ UNCHANGED user

-----------------------------------------------------------------------------

LanRunStep(r) ==
  \/ Launch(r) \/ MakeLock(r) \/ FindLocked(r) \/ Ask(r) \/ Reclaim(r)
  \/ GoAhead(r) \/ ClaimLock(r) \/ Finish(r) \/ LookAround(r)
  \/ OffBridge(r) \/ OnBridge(r) \/ Records(r) \/ Saves(r) \/ Writes(r)
  \/ Configures(r) \/ CommitFails(r) \/ KillRun(r)

LanNext ==
  \/ \E r \in RunId : LanRunStep(r)
  \/ StatusEnds \/ FlushBridge \/ PowerFails

LanSpec == LanInit /\ [][LanNext]_lanVars

-----------------------------------------------------------------------------
(* Properties *)

Word == {"del route", "del addr", "forget", "add addr", "add route", "note",
         "save", "set", "commit", "restore", "clear"}
Task == Word \X (Prefix \cup {NoPrefix})
Setting == UserNdp \cup {"relay", "unset"}
Section == [seg : BOOLEAN, ndp : Setting]

Step == {"off", "wait", "ask", "reclaim", "claim", "look", "work", "write"}
Run == [at : Step, todo : Seq(Task)]
Backup == [saved : BOOLEAN, lines : 0..2, ndp : Setting]
Mishaps == [shared : BOOLEAN, orphan : BOOLEAN, torn : BOOLEAN,
            refused : BOOLEAN, cut : BOOLEAN]
Lock == [held : BOOLEAN, pid : {NoPid, DeadPid} \cup RunId]

\* The script's lock, files and commands, the bridge and the configuration hold
\* what they can hold.
LanTypeOK ==
  /\ runs \in [RunId -> Run]
  /\ lock \in Lock
  /\ bridge \in [addr : SUBSET Prefix, route : SUBSET Prefix]
  /\ record \in Prefix \cup {NoPrefix}
  /\ user \in UserNdp
  /\ uci \in [set : Section, committed : Section]
  /\ backup \in Backup
  /\ mishaps \in Mishaps

\* Between runs the bridge carries no prefix but the one on record, so that it
\* will be withdrawn: whatever came, changed or went, and wherever a run was
\* killed, unless two runs were past the lock or one was killed between the
\* address and its record.
OnlyOnRecord ==
  mishaps.shared \/ mishaps.orphan \/ (\E r \in RunId : Past(r))
    \/ bridge.addr \cup bridge.route \subseteq {record}

\* While nothing is kept to be put back, the LAN section is what the user made
\* it, set and committed: after any runs, wherever they ended, unless two runs
\* were past the lock, one was killed while it wrote the file, or the power went
\* while the section was ours; a refused commit may leave it set only.
NdpComesBack ==
  mishaps.shared \/ mishaps.torn \/ mishaps.cut \/ backup.saved
    \/ /\ uci.set.ndp = user
       /\ uci.committed.ndp = user \/ mishaps.refused
=============================================================================
