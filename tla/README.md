# fm160d in TLA+

Models, model checks and proofs for the OpenWrt management suite of one
Fibocom FM160 module (`src/`): the daemon `fm160d`, which owns the AT port, and
what surrounds it. Every definition is translated from the source; `PROJECT.json`
names the lines of each one (`map`), the runs, the hazards, the findings and the
theorems. This file says what the system is, what is modelled, what was found
out, and what is left to do.

## 1. The system

    LuCI pages, netifd scripts, hotplug scripts, keepalive, a person
                 |  ubus calls (read the snapshot, or ask for an action)
                 v
      fm160d: one uloop thread
        ubus_methods.c -> modesw.c, dialer.c, sms.c, cmds.c, sched.c
                 |            |  every AT command
                 v            v
               atq.c: the one queue, one request in flight
                 |  synchronous ubus_invoke, with a timeout
                 v
      at-daemon: threads that read the serial ports, answer slot, line events
                 |
                 v
      the module: AT parser, USB profile, PDP context, SMS storage

What makes it hard is not parallelism inside `fm160d` (there is none: one
thread, handlers that run to completion) but everything around that thread.
Callbacks of the queue submit to the queue. The module answers late, never, or
after it has left the USB bus; an unanswered write may have taken effect. It
re-enumerates and comes back with other ports. procd kills and respawns the
daemon at any point, between the commits of a journal included. Half of the
state is in memory, half in uci.

### 1.1 Inventory

| Component (source) | State | Operations | Interacts with | Hard behaviour | Correct when |
|---|---|---|---|---|---|
| AT request queue (`atq.c`) | waiting list, the request in flight, ids, quiet window | submit (plain, with prompt, to a probed port), dispatch, finish, state reset, set and clear quiet | everything submits; at-daemon executes; results feed the breaker | callbacks that submit while their own request is in flight, a full queue, gates tested earlier than the command leaves, late prompts | one exchange at a time, priority then age, nothing lost or answered twice, always drained |
| Scheduler, breaker, port discovery (`sched.c`, `main.c`) | poll table, consecutive timeouts, `at_state`, candidate list, port | housekeeping tick, note result, probe, drop the port, pin | submits polls, starts the identity chain | level and counter reset in five places; pins that change during a scan | level and counter agree, a good port is found again, polls do not flood |
| USB mode switch (`modesw.c`, `usbmode.c`) | target, way back, stage, verdict, in memory and as a journal in uci | apply, note current, rollback, tick, init | queue, identity chain, uci, hotplug | re-enumeration, lost answers, crash between commits, respawn loops | the way back is never lost, no profile without a way out, no oscillation, every switch ends in a verdict |
| ECM dialler (`dialer.c`, `net.c`) | step, ladder, flags, reset ledger in uci | tick, start, stop, configure, init | queue, netifd script, module reset | context lost silently, faults that stay, crash around a reset | the ladder ends, resets stay bounded, a lost link is noticed, stop disconnects |
| Identity chain, radio writes (`cmds.c`) | snapshot fields, chain position | ident start, band and cell-lock writes with read-back, GNSS | queue callbacks, mode switch, SMS setup | chain forgotten and restarted in the middle; write accepted but not taken | what is shown was read after the write |
| SMS store and send (`sms.c`) | ring of messages, file of records and deletion markers, setup with its tries, send job | setup, fetch, list, store, delete, send, +CMTI | queue prompts, the file, at-daemon's events | crash or power cut in the file, a module that restarts and forgets, reused indexes | what is shown now would be shown after a restart, each message once, the newest never pushed out by an older |
| SMS PDU codec (`pdu.c`) | none | encode, decode | SMS | none of its own | not modelled |
| ubus interface (`ubus_methods.c`) | deferred replies, manual AT guard | all methods | everything | the caller waits for an answer whose request was displaced | each call is answered once |
| State snapshot, diagnostics (`state.c`, `diag.c`) | the snapshot | serialise, uci wrappers | LuCI | none of their own | - |
| at-daemon (vendored) | answer slot, line queue, pipe, epoch of the port, leases | sendat, reader thread, publishing, opening and closing, control | fm160d, the serial device | three kinds of threads, timeouts, full queues, a device that comes and goes | an answer belongs to its command, lines are in order, no loss goes untold |
| Prefix script (`fm160-prefix-lan.sh`) | state file, lock, odhcpd backup | apply, withdraw, teardown | hotplug, odhcpd | concurrent hotplug events, stale locks | the LAN has the WAN's prefix or none |
| Keepalive, dial control (`fibocom-dial/files`) | counters, pid files | rounds, redial, profile bounce (not modelled), start, stop | mode switch, netifd | stopped in the middle of a bounce, double start, a script that outlives its loop, a stop that takes a second | one loop watches each family |
| netifd handlers, hotplug, init scripts | netifd's | setup, teardown, rescan | dialler, queue | teardown after a respawn | teardown closes the session |
| Vendor dialler, kernel driver, LuCI pages, mwan3 synchronisation, tools | - | - | - | - | - | not modelled |

`PROJECT.json` lists the same parts with their files and their status, and all
hazards with the line where they bite.

## 2. Modules

| Module | What it is |
|---|---|
| `AtLine` | What the queue promises, whatever it is made of |
| `AtQueue` | `atq.c`, the breaker and the port state around it |
| `MCAtQueue`, `AtQueueOpen/Prompt.cfg` | its instances for TLC |
| `AtQueueProofs` | its theorems, and that it implements `AtLine` |
| `ProfileSwitch` | What a profile change promises to who asked for it: begun, sent back and ended as one step each |
| `ModeSwitch` | `modesw.c` with journal, identity chain, module, hotplug, crashes |
| `MCModeSwitch`, `ModeSwitchSafe/Restart/Stuck/Settles.cfg` | its instances |
| `ModeSwitchProofs` | its theorems, and that it implements `ProfileSwitch` |
| `Dialer` | `dialer.c` with ledger, module, network, crashes |
| `DialerSession` | `Dialer` with the context that is configured and a history: for each context the activation that no disconnect has followed, and whether this life of the daemon sent it |
| `DialerSafe/Refusal/Stop.cfg` | their instances |
| `DialerProofs` | the theorems of `Dialer` |
| `MessageList` | What the message store promises to who reads the list |
| `Sms` | `sms.c`: setup, announcements, reading, listing, ring, file, deletion, sending |
| `AtDaemon` | at-daemon: one port with its reader thread, the main thread, the monitor |
| `Discovery` | `sched.c`: scan, sweep, probes, breaker, dropping; the identity chain |
| `Keepalive` | `fm160-keepalive` and `fm160-dial-ctl`, as processes that interleave |
| `LanPrefix` | `fm160-prefix-lan.sh`: runs, lock, commands, files, kills and power cuts |
| `MCParts`, `Parts.cfg` | the five of them in one run |
| `MCSms`, `SmsDelete/Return.cfg` | `Sms` alone, for findings 7 and 8 |
| `SmsProofs` | its theorems, and that it implements `MessageList` |
| `AtDaemonProofs`, `DiscoveryProofs`, `KeepaliveProofs`, `LanPrefixProofs` | their theorems |

The modules meet in theorems. `AtQueueProofs!RunsToCompletion` says that the
daemon is never back in its loop with a request waiting or on the line; that is
why `ModeSwitch`, `Dialer`, `Sms` and `Discovery` may model a handler together
with its exchanges. `AtDaemonProofs!AnswersFindTheirCommand` is what `AtQueue`
assumes of the exchange below it, and its marks are why `Sms!Arrive` may lose an
announcement. `Keepalive` takes nothing from `ModeSwitch`: it leaves the profile out,
and any dial may end because the module did not get to its own.

### 2.1 AtQueue

`pc` is where the innermost call of `atq.c` stands: `loop`, `dispatch`
(`atq_dispatch`), `issue`, `command`, `payload` (`atq_issue` and its two
stages), `callback` (`atq_finish`). `queue` is `q_head` (the ids are the list
order), `inflight` is a set with at most one element, as the variable of the
code is a pointer that may be null. `Accept` and `Displace` are
`atq_submit_full` with its gates, its coalescing and its eviction; a refused
submission changes nothing and is no step. `Take` is one turn of
`atq_dispatch`; `Finish` is `atq_finish` up to the callback, with the breaker
(`NoteResult`) or, for a probe, `probe_cb`; `Retire` is the rest of it.

The environment is open. At `loop` the daemon may submit any job and do what
its methods and timers do to the state the queue reads: rescan, disable,
enable, drop the port, open or close a quiet window. A callback may submit
jobs of the priorities in `callbackPrios`, which is chosen at the start from the constant
`Callbacks` and never changes: any priority, or those of today's callers, who submit
no polls from callbacks. `awaiting` says whether the modem holds the line
open after a `> `.

What the open environment contains that today's callers never do, and is
checked all the same: a full queue and eviction, two polls of one text,
a poll submitted by a callback. What the checks show about the code because of
it: the NOPORT exit of `atq_dispatch` and the loop of `atq_state_reset` are dead
code as long as the port is lost at `loop` only (`Routable`, `DrainedAtLoop`).
The promotion of a starving poll is modelled as a free choice; since the queue
is drained before the daemon returns to its loop, a poll waits no longer than
one chain of exchanges. The failure of the allocation, the parsing of the
answer and the pause before at-daemon is looked up again are left out.

### 2.2 ModeSwitch

`m` is `struct fm160_modesw`, `disk` the section `switch` of uci, with
`pending_since` kept as an age. `NotePending(d, target, rollback, k)` is the
section after the first `k` of the four commits of `uci_note_pending`; the
handlers use `k = 4`, `CrashInApply` and `CrashInRollback` any `k`. `Apply` is
the ubus request with its gates and `cb_apply`; `Probe` and `Ident` start the
identity chain, whose reading of the profile settles the switch, rolls back, or
fails (`ReadSettles`, `ReadRollsBack`, `ReadFailed`); `Tick` is
`fm160_modesw_tick`; `Respawn` is a crash and `fm160_modesw_init`.

External: the module (`mode` active, `written` taken but not active, `present`
on the bus), the hotplug script (`hotplug`), the person who recovers a module
over DIAG or clears the flag by hand. A module that returns may be in any
profile, as the code takes that into account.

`ProfileSwitch` is the change as it looks from outside, with no daemon in it: `Plan` is
the switch on record (target and way back, when the flag is set), `Journal` the
instance with the profile the module was asked for, the one it is in, and the verdict.
The four commits of a request and those of a rollback must look like one step or none,
wherever between them the daemon dies; a daemon that comes back may forget its verdict
and nothing else.

Assumed: handlers are not interrupted except by crashes (above), so `m->busy` is
never seen by another handler and is omitted; the wall clock is steady; writes
to uci succeed; management is enabled.

### 2.3 Dialer and DialerSession

`d` is `struct fm160_dial_state`, `ledger` the list `dial.reset_stamps` as a set
of numbered stamps, `clock` the wall clock, `sent` the resets that were sent
within the window. `Current` is the beginning of every tick (the profile is
looked at, one autostart is made), `Ready` its early returns, and there is one
action for each step with the callback of its command. `Fail` is `dial_fail` and
`dial_escalate`: next rung, module reset with its ledger entry, or the end.
`CrashBeforeReset` is a crash between the ledger entry and the command.
`good` says that card, network and link work; while it is false every exchange
may fail and may also go well.

`DialerSession` adds `cid`, the context that is configured, and `opened`, for each
context: no activation without a disconnect, one sent by this life of the daemon, or one
by a life before. A command names the context of the moment, and `dial_config` may change
that while the link is up (`dialer.c:828-829`): what is closed after that, by a light
reset or by a stop, is another context than the one in use. `StopDisconnects` is what the
comments promise and the run `dial_stop` refutes, with one context already.
`StopEndsOwnSession` is what is left of it, with three exceptions: no port, a context
that a life before has opened, a context that is not the one configured now. It holds in
TLC with two contexts, and fails there when any one of the three is taken out; it is
proved for any number (`SessionEnds`).

Assumed: management is enabled; handlers run to completion (`running` is never
seen); the wall clock runs forward and is coarse; a submission is refused only
for want of a port; the command that sets the APN can always be built from an
APN that was accepted into the configuration.

### 2.4 Sms

`list` is `g_state.sms` (the ring, `head`, `count`, `next_id`), `file` the lines of
the store, `open` whether the last bytes of it lack their newline, `setup` the
static variables of the setup. `job` is the exchange in flight together with what
follows it: a setup step, a fetch, a listing, the messages of an answer that are
still to be stored, a deletion, a segment. Each answer, each message stored and
each line read back at the start is a step of its own, so that the module may
receive a message and the power may fail in between. `Placed` is `sms_new_slot`,
`Loaded` one line of `sms_store_load`, `Appends` the two append functions with a
full disk and with an unfinished line before it; `Kicked`, `Wanted` and `Begun` are
the guards of the setup that the tick and the announcements share.

`MessageList` is what this comes to for a reader of the list. `ShownNow` is what the
daemon shows, or will show once it is back; `KeptLists` are the lists the beginnings of
the file read back as. `Listing` maps them to the abstract list and its record: every
change of the list goes on record or is spoiled, a restart shows the last list on
record, a power cut an earlier one, and the last `Keep` messages are never pushed out.

External: the module (`inbox`, `armed`), which may restart and forget its
indication, and from which messages may disappear by another hand; `weather` says
what may still go wrong, and `Clears` that from here on nothing does.

**What comes back from the file.** The id of a message is written as a JSON number, which
libubox reads as 32 bits wide, and `store_policy` takes 64 bits only (`sms.c:232`); the
repository describes this behaviour of libubox for other methods in
`ubus_methods.c:591-598`. So no line of the store has an id when it is read: `Loaded` passes over deletion markers
(`sms.c:315`) and gives messages new ids (`sms.c:332-337`). As the new ids come in the
order of the lines, they are the old ones as long as no record was lost
(`MemoryIsFile`). But a deleted message is back after the next start: `gone` is the
history of the ids deleted, `DeletedStaysDeleted` what the comments promise and finding 8
refutes. `MemoryIsFile` and `ReadIsListedOnce` except deleted messages by name, and
`MessageList` has the deletion as what it is, a change of the list shown and of nothing
on record.

**Holes in the ring.** The comment at `sms.c:86-95` says that a message received after a
deletion is written into the hole, so that position and age part. The code does not do
that: `sms_new_slot` fills the slot at `head` and advances it always, a hole stays until
the head comes round, and position goes on telling age (`RingInOrder`; its mutant is what the comment describes). What
does part is `count` from the number of used slots: a message that pushes out an older
one while there is a hole elsewhere raises it. It is never below that number, which is
what the listing needs.

Two more. An id can be given twice: when the line of the last message was lost, the next
life counts from what it read (`fm160d.h:589` and `sms.c:92-96` say ids are never
reused). And a deletion that is refused because the port was lost while the store was
usable is aborted (`ubus_methods.c:815-820`), so the entry stays.

Left out: read and unread marks, outgoing entries of the list, the storages' names
(one storage is modelled), the report of what was sent, the codec.

### 2.5 AtDaemon

A step is what one thread does between two points where another may run: a
critical section, a write to the pipe, the start or the end of a thread. The main
thread (`desk`) is one: while it waits for an answer it publishes nothing, and the
line queue fills. `readers` holds the reader thread of each epoch of the port; a
line goes through `check` (the first look at `waiting_for_response`), `end` (the
second, when it ends an answer), `number` (epoch and sequence), `put` (the queue)
and `ring` (the pipe). `opener` is the holder of `lifecycle_mutex`, the main thread
or the monitor, which takes it on what it saw a moment before: by then the port may be
open already, and `AlreadyOpen` is its way out. `drops` is the bookkeeping of lost lines with the highest count
told; the counts may be told out of order when the queue holds more than two, so
the highest is what a subscriber can rely on. `past.out` counts the lines that have
come out: `DropsAreTold` compares it with the number of the last one.

Unsolicited lines match no end flag; that is how `fm160d` chooses its end flags. The
line that is too long is longer than an event, not than the read buffer.

Left out: registrations and leases (`control.c`, `event_callback.c`), which `fm160d`
does not use; raw mode; the configuration; the end of the process, where
`main.c:616-620` destroys the ports while it holds the mutex that `port_manager.c:104`
takes again.

### 2.6 Discovery

`bus` gives each device a class (`enum cand_class`, or foreign, or absent), `Scans`
the candidate lists `fm160_port_scan` may make of it: `readdir` has its own order,
the array has a limit, silent devices count only when there is nothing else, and
the order is by class. `held` is the pause before the next probe, `breaker` level and
counter with the age of the last failure as fresh or old, `resting` the suspension
of the polls, `ident` what is left of the identity chain. `Probe` is one turn of
`port_discovery_tick` with `probe_cb`, `WalkOver` the end of a sweep, `Drop` the
port that has been ill for 20 s, `Heard` what each result does.

External: `alive` says which devices answer. `Settle` is the moment from which on the
bus does not change and nobody asks for anything; only `FoundAgain` uses it.

What it shows beside its properties: a pinned port in the configuration has no
effect, because the scan of `fm160_sched_init` (`sched.c:693`) replaces the list that
`main.c:315-325` has set, so there is no pin in the model; and the identity asked for
while the management is off is cleared and not read again (hence `askedOff`).

Left out: the intervals and jitter of the polls and which of them is due, the length
of the array in the code, the quiet windows (`AtQueue` has one as a flag; the window
after a band or cell-lock write, `cmds.c:1738-1742`, is never opened, as the exchanges
are over and `cfg_writing` is cleared by the time it is looked at).

### 2.7 Keepalive

The loops, the scripts they run and the user's script are processes of a shell and
interleave at every command another may notice. `loops` has a record for each family
(`both`, `4`, `6`) and generation, `pids` the pid files, `scripts` what is left of
each running script, command by command: a dial is `ensure` and `start`; a start is for
each family the look at the pid file (`check`) and then removing it and spawning
(`spawn`); a stop is for each family the end of the loop on record (`stop`) and, a second
later, killing it and removing whatever is on record by then (`kill`). Any other process
may move between two of them. A loop that is ended leaves its script running, as the shell
does (`do_down` ends the loop, but the `ctl up` it had begun goes on; the comment at
`fm160-dial-ctl:142` says the redial does not pass through there). A loop that has given
up its family may therefore be started again by the redial of the other family's loop.

How a round is checked is a choice, and so is whether `ensure` gets the module to its
profile. The 24 h window of rounds begins anew with the first failure after its end
(line 376), it does not slide, so twice the limit may fall within one day. The bounce of
`reload_modem` through another profile is left out: whether it comes home depends on how
`ModeSwitch` ends and on when the snapshot the script reads is refreshed, and the script
does nothing about a bounce that did not (a hazard in `PROJECT.json` that no property
covers).

`OneWatcher` is stated for the moments when the user's script is through, and with
one exception, `raced`: a start or a stop was begun while another was under way, or met
a loop that had not yet written its pid file. Both are real, and nothing in the
code excludes them: two starts at once remove each other's fresh record, a stop removes
the record of a loop that was started within its second, and a loop not on record is not
found by anybody. Each part of the exception was shown to be necessary by
TLC: without it `OneWatcher` fails.

### 2.8 LanPrefix

A run of the script is where it stands in `lock` and then the list of commands it has
still to do. `Plan` computes that list from what the run sees: the state file, the
bridge and, as a choice, the link and the configuration. `OffBridge`, `OnBridge`,
`Records`, `Saves`, `Writes` and `Configures` do one command, and any other run, a kill,
a flush of the bridge or a power cut may come between two. The copy of the user's setting
is made (`Saves`) and then written line by line (`Writes`, lines 314-319 of the script);
the test whether it is there and making it are one step, as only a second run past the
lock could come between, and that is a mishap of its own. The lock is the directory and
the pid in it, taken, found stale, waited out after 30 tries and removed as the script
does it, by `status` too. A commit may be refused (`CommitFails`).

`mishaps` names the five situations in which the script does not keep its promises, and
the properties except exactly these, each of which TLC shows to be necessary:

- `shared`: two runs past the lock at once.
- `orphan`: a run killed between the address and its record. Later runs find the address
  there, fail to add it and end, contrary to the comment at lines 152-155.
- `torn`: a run killed between making the copy and its last line. The file is there, so
  nobody writes it again (line 407), and the teardown removes the user's setting or
  leaves `relay`, contrary to lines 136-139 and 309-311.
- `refused`: the teardown does not look whether its commit was accepted, and throws the
  copy away (lines 447-448). What is set is right, what is committed is not.
- `cut`: a power cut while the LAN section was ours. The copy was in memory, and a
  teardown leaves `relay`.

What is set and not committed counts as configured, so after a kill between the two
`odhcpd` is not restarted.

Left out: the proxy entry, stray host routes, `odhcpd` itself, the old `ndppd`, the
lookup of the network sections, which device `withdraw` was called for.

## 3. Runs

| Run | Expect | What it shows |
|---|---|---|
| `queue_open` | pass | With callbacks and handlers that may do anything: drained at loop, every request in one place, bounded depth, polls coalesced, a port for everything that waits, breaker level and counter agree, `AtLine` implemented, every submission ends at loop; where callbacks submit no polls, none leaves on a closed gate |
| `queue_prompt` | violation | A late prompt is followed by the next command (finding 1) |
| `switch_safe` | pass | Journal and memory agree after every handler and crash, the way back is the profile of origin, the gates hold, one rollback per life of the daemon, stuck is never said early, and is said even under a respawn loop; `ProfileSwitch` implemented |
| `switch_restart` | violation | A second rollback after a restart (finding 2) |
| `switch_stuck` | violation | A switch after the stuck verdict (finding 3) |
| `switch_settles` | violation | A lost write leaves the switch pending for ever (finding 4) |
| `dial_safe` | pass | Flags agree with the step, the ledger forgets no reset, resets are bounded across restarts, a lost context is noticed, the ladder ends, the link comes up when the faults are over |
| `dial_refusal` | violation | A reset is refused for resets that are older than the window (finding 5) |
| `dial_stop` | violation | A stop after a respawn sends no disconnect (finding 6) |
| `parts` | pass | `Sms`: the file gives back what is shown and what was deleted, the ring is in order, done means armed, each message read is listed once, the setup comes up, `MessageList` implemented. `AtDaemon`: no lost wake-up, losses are told, lines in order and with their command. `Discovery`: one probe a sweep, the identity read whole, the port found again. `Keepalive`: one watcher. `LanPrefix`: no prefix off the record, the user's setting comes back, but for the mishaps named |
| `sms_delete` | violation | A deletion the module answers ends the daemon (finding 7) |
| `sms_return` | violation | A deleted message is back after a restart (finding 8) |

The five components of `parts` share no state in the model: `part` chooses one at the
start and the others stay in an initial state, so the states add up and do not
multiply. The types of every component are proved for all constants, and are not checked
again in the runs.

### 3.1 Bounds, and why they are enough

- **Queue.** `MaxDepth = 3` (`ATQ_MAX_DEPTH` is 24) lets the queue be full with one
  request in flight and two waiting, which is where eviction, the tie of ages
  and the count of the one in flight can go wrong; two commands make and avoid
  duplicates; `SoftLimit = 2 < HardLimit = 3` has every level and every edge of
  the breaker. `MaxReqs` bounds the requests of one behaviour: 7 fill the queue
  twice. It also stands for the fact that the chains of the
  daemon's callbacks are finite: nothing in `atq.c` bounds them.
- **Switch.** Four profiles, so that target, origin and a third one exist in
  every combination of allowed, offered and silent: one allowed with a port, one
  with a port and not allowed, one allowed without a port, one neither.
  `StuckAfter = 2` lets a restart fall before, in and after the wait;
  `MaxLives = 2` two restarts of one switch, and the respawn loop of
  `UnreachableIsReported` goes on past it, as the counter saturates.
- **Dialler.** One rung and one immediate retry (`Rungs = 1`), two domains, two
  reads, two resets in a ledger of two: each counter reaches its limit and each
  branch of the ladder is taken. The clock makes one step, with a window of one:
  stamps leave the window once. Longer histories of the ledger are not left to
  the run: `LedgerForgetsNone` and `ResetsAreBounded` are proved for all
  constants.
- **Sms.** A ring of two and two indexes: the third entry evicts, a deletion in the
  middle moves `head` and `count` apart. Two texts, so that an index is reused by
  another message and by the same. `MCCases` lists which kinds of failure come
  together and how much of two arrivals, one deletion and one end of the daemon is
  left with each: a crash with a full disk (one deletion used up), a crash with a
  refused deletion (one arrival used up), the others alone. All at once is too large for
  one run; what combinations could add is proved for any of them. A listing begins while the file has at most
  `MaxLines` lines.
- **AtDaemon.** A queue of two, a drain budget of one, two commands, four lines, one
  unplugging, so that the queue overflows while the main thread waits, the consumer
  stops with lines left, and a line of the old device is held when the port is
  reopened. `MCDaemonUsed` takes away part of them in three ways.
- **Discovery.** Three devices, a list of two: a candidate may be cut off. Four layouts
  with the module absent, usual and odd; two moves of the bus, the user or another
  command before it settles. `SoftLimit = 1 < HardLimit = 2`.
- **Keepalive.** Two generations of each family, two failed rounds, one order of the
  user. A second generation is what a stop and a start, or a race of two starts, needs.
- **LanPrefix.** Two prefixes, two runs at one time and any number one after the other;
  kills, flushes and power cuts are not counted. After a mishap no run of the script is
  started, as the properties say nothing of what follows one.

### 3.2 Fairness

- `AtQueue`: weak fairness of `Exchange`, the steps of a call that has begun.
  `ubus_invoke` has a timeout for every exchange, so it returns.
- `ModeSwitch`: weak fairness of `Tick` and of `Probe` (the housekeeping timer
  runs every second and probes while there is no port), of time, of the rescan
  the hotplug script asks for, and of the module: a profile written makes it
  leave the bus, and what has left comes back. None for crashes, for the user, or
  for recovery by hand.
- `Dialer`: weak fairness of `Tick` (same timer) and of `Rest` (time passes).
  Nothing is assumed of the network: `Connects` has "the faults are over" as its
  premise, `HealingEnds` has none, so it also holds while they last.

- `Sms`: weak fairness of the exchanges, of the start and the reading of the file (procd
  respawns), of finding the module once it is there, of the retry timer; strong
  fairness of the tick and the announcements together, as `uloop` runs the timers that
  are due before it looks at its sockets. None for the module, the user or the end of
  what goes wrong: `SetupComesUp` has `weather = {}` as its premise.
- `Discovery`: weak fairness of the deadlines, of the polls, of the housekeeping tick
  with its probe and its drop, of the identity chain. None for the bus: `FoundAgain` has
  "the bus has settled and a device the scan takes is alive" as its premise.
- `AtDaemon`, `Keepalive`, `LanPrefix`: none; only safety is stated.

In `parts` each of these is conjoined with the component that moves.

Deadlock is checked in every run but `parts`: with its bounds used up a watchdog that
has given up, or a prefix script after a mishap, has nothing left to do.

## 4. Findings

1. **Late prompt** (`atq.c:329`, run `queue_prompt`). After a prompt timeout the
   queue sends the next command at once. A modem that puts its `> ` out late
   takes it for the message. `fm160d.h:117-121` says nothing can get in between.
2. **Second rollback** (`modesw.c:214`, run `switch_restart`). "One rollback,
   then stop" (`modesw.c:183-185`) is kept in memory and does not survive a
   restart. One rollback for each life of the daemon is what holds
   (`OneRollbackPerLife`, proved).
3. **Stuck is not final** (`modesw.c:254`, run `switch_stuck`). The module comes
   back after the verdict in a third profile, and the read-back rolls back,
   although the message says the daemon will not switch again by itself.
4. **A switch that is never settled** (`modesw.c:438`, run `switch_settles`). A
   write that timed out and had no effect keeps its port; nobody reads the
   profile again, the pending flag stays and refuses every later switch until
   something else starts the identity chain.
5. **Refusal out of date** (`dialer.c:363`, run `dial_refusal`). The count of
   resets is pruned at start only, not "at the moment of a decision"
   (`dialer.c:267-268`).
6. **Stop without disconnect** (`dialer.c:910`, run `dial_stop`). After a respawn
   the verb is unknown and the stop sends nothing, or the command is refused for
   want of a port; both come to DOWN, and the session stays open although
   `dialer.c:924-925` and `fm160.sh:185-188` call the command the disconnect. With more
   than one context there is a third way: `dial_config` has changed the context
   (`dialer.c:828-829`), and the disconnect names the new one.
7. **Deletion ends the daemon** (`sms.c:967`, run `sms_delete`). `delete_cb` calls its
   caller's callback with NULL for the argument it was given, and `sms_delete_reply`
   reads the id through it. The first deletion the modem answers is a crash, and the
   entry comes back from the file, although `ubus_methods.c:728-732` says it is deleted
   "ALWAYS, including when the modem refused".
8. **Deleted messages come back** (`sms.c:232`, run `sms_return`). The ids in the file
   are never read back (section 2.4), so deletion markers name nothing: every deleted
   message is listed again after the next start. `sms.c:252-259` says the marker is
   there because the message "would be back" without it, `sms.c:385-392` that the
   deletion survives.

Sections 2.4 to 2.8 name further places where a comment says more than the code does,
and which a property allows for by name.

## 5. Theorems

All are proved for every value of the constants that satisfies
`ConstantsAssumption` of the module (limits are natural numbers, the soft limit
is below the hard one, a ledger is at least as long as the reset limit, ...), and
TLC evaluates these assumptions in the runs.

**AtQueueProofs.** The properties as they stand speak of the moments when
nothing runs or of the whole; they are not inductive because `inflight` is handed
from one nested call to the next. `IInv` adds `Frame`: the queue is empty at
loop, `inflight` is empty exactly at loop and dispatch, has one element
otherwise, and is already answered during its callback; and that the sets are
finite, for the depth. From it follow `TypeCorrect`, `RunsToCompletion`,
`NothingLostOrDoubled`, `DepthBounded`, `Coalescing`, `NoPortExitDead` and
`BreakerConsistent`. `PollsKeepOut` speaks of the behaviours in which callbacks submit no
polls, as its property does, and needs that a poll in the queue stands alone in an otherwise fresh
call. `Refinement` maps each step of the queue to a step of `AtLine` or to a
stutter; a request leaves `AtLine`'s line when its callback begins, which is why
submissions of a callback are never a second one on the line.

`CallsEnd` and `SevenStepsEach` are what `ReturnsToLoop` rests on. `Spent` counts what
the requests of this behaviour have used: every step of a call spends more, none gives
back, and no request can spend more than seven. So a call that submits finitely many
requests ends after at most seven steps for each.

**ModeSwitchProofs.** `IInv` = `TypeOK`, `Mirrored`, `WayBackIsOrigin`, and two
strengthenings: `AgesBehind` (the ages in memory and in the journal are no more
than the time really waited) for `StuckOnlyLate`, and `RollbackLeft` (as long as
this life has sent none, the lives before have sent at most one each) for
`OneRollbackPerLife`. The order of the four commits is what makes
`WayBackIsOrigin` inductive: the flag comes last, so a crash in `Apply` leaves
either no switch or one with its way back. `Gates` is an action property and
follows step by step.

`JournalIsAtomic` is the refinement of `ProfileSwitch`. Its invariant `PlanOK` says that
a switch that was rolled back in this life of the daemon has its way back for its
target (the converse fails after a crash, see finding 2), and there is one lemma for each action: the
crash inside a request is `Begin` or a stutter, the crash inside a rollback is `GoBack`
or a stutter, because a rollback writes target and way back to the same profile while
the flag stays set.

`ClockNeverBack` is the part of `UnreachableIsReported` that is not fairness. It needs
`AgeAhead`, the counterpart of `AgesBehind`: the age on record is never ahead of the
one in memory. They may differ, as a rollback stamps the section anew and leaves the
old stamp in memory; a respawned daemon therefore may wait longer than the one
before, and that it cannot wait longer for ever is the theorem: while the module
cannot be read the age on record only grows.

**DialerProofs.** `IInv` = `Good(d)` (type, indices, flags), the types of the
rest, and `LedgerInv`: the resets sent in the window are among the entries of
the ledger that are in the window, these are finitely many, no more than
`counted`, and `counted` is at most `Limit <= LedgerMax`. The middle link is the
point: cutting the ledger to `LedgerMax` loses nothing because a reset is only
noted while `counted < Limit`. From it `TypeCorrect`, `FlagsAlwaysAgree`,
`LedgerForgetsNone` and `ResetsAreBounded`.

`LadderDescends` is the part of `HealingEnds` that is not fairness. `Rank` is what the
dialler has before it: resets, rungs, stages of the attempt, tries of the stage, in
this order. While it climbs, a tick that acts lowers the rank and nothing else raises
it: not the module's answers, not a change of the configuration or the profile. That
the order has no infinite descent is `LowerWellFounded`; its base, that a set of
numbers has a least one (`LeastNumber`), is derived from the well-foundedness of
proper subsets of finite sets, as the library states induction itself with an operator
parameter. `LossIsCounted` does the same for a link that is up and whose context was
closed: the reads and rests that are left, for `LossIsNoticed`. `ServedLinkStaysUp` is
the safety part of `Connects`: once up on a service that works, the link goes down by a
stop or a crash only.

`SessionEnds` is `StopEndsOwnSession`: finding 6 names all the ways in which a stop
leaves a context open (no port, opened by an earlier life, not the one configured now).
Its invariant `SessionOK` is that a life of the daemon that has opened any context knows
a verb, which no step but its death takes away (`VerbStep`).

**AtDaemonProofs.** `Base` is the types, what the desk knows (the slot is armed for
the command taken last, and only while the main thread writes or waits) and
`ReadersOK`: one reader at a time, that of the current epoch, and none while the port
is opened. The last is where joining the thread before opening counts, and what
`OrderOK` rests on: a line that holds a number and is not yet in the queue has the last
number given. `DropsOK` adds that no count told, pending or in an event is above
`drop_count`. `GapsOK` says where the lines are: every line that was numbered has come
out, waits in the queue, was dropped, or is the one in the reader's hand (`Accounts`), and
the lines missing before one that waits have been told or are told by an event that is
not behind it (`GapsAhead`). Pushing out the oldest event keeps this because its count
goes to the event that is now the first. `FlowOK` follows a line from the module to the event: answers leave the
module in the order of the commands, so a line of command `c` met by a later slot means
that `c` or one before it was given up.

**SmsProofs.** The file is read back by a recursive function (`Lists`), and what such a
function computes has to be derived: `Lists` has the values its definition says by
least-number arguments on the first line where it would not. `RingOK` says more than
that the ids increase: the id in a slot is the last id given less the slots from there to
the head, which `Placed` (eviction included) and `Unused` keep, and the used slots are
no more than `count`. It determines the ids from the positions, so a list that is read
back has the ids it had, although no id is read. `StoreOK` relates the list to the file:
what the file reads back as and what memory holds are alike slot by slot but for the
deleted (`Alike`), up to the lines that were lost, half way through a reading too; and
two entries of one message are in the file only if one of them was deleted
(`TwinsKnown`). From it `RingStaysInOrder`, `MemoryStaysFile` and `ListedOnce`, and
`ListingKept`, the refinement of `MessageList`: one lemma for each change of list and
file (store, delete, crash, power cut, reading), everything else is a stutter. `RestOK`
has the setup: what is done is armed unless the
module was restarted since it was identified. `SetupHeadsForDone` is the part of
`SetupComesUp` that is not fairness: once nothing goes wrong, tries are left or an
announcement that brings them back is, until the setup is done.

**DiscoveryProofs.** `SweepOK`: outside the long pause the devices probed since the last
pause are the beginning of the list that has been passed, during it there is no list.
So every way to a new list (end of a sweep, drop, empty scan) must go through the
pause, and the user's rescan clears the history. `IdentOK` is kept because the chain
goes on whatever is answered.

`SearchDescends` and `SearchNeverRests` are the part of `FoundAgain` that is not
fairness. On a bus that has settled with a device that answers, `Left` is four numbers
in lexicographic order: the phase of the search (a port that is dead, an old list to be
walked to its end, no list, a list with the device still to come), what is left of the
identity chain, the tries (probes of the list, or timeouts until the breaker is open),
the pauses. Each step of the daemon lowers it; and until the port is found one of those steps is there to be made. Two
things are left to TLC: that a scan always yields a list (the permutations of a set are
not empty, an induction) and that the step that is there is `ENABLED`.

**KeepaliveProofs.** `OneLoopPerFamily` rests on what holds as long as starts and stops
keep out of each other's way (`Apart`, up to `raced`): one of them is under way at a time
(`Alone`); every loop but the youngest is on record (`Recorded`); there is one for each
family of the pid files (`Single`), none where one is about to be spawned (`Cleared`), and
none but the one being ended where a stop is under way (`Ending`); a loop of a family that
is not wanted any more, or about to be started, is one the user's script is about to stop
(`Orderly`, `Due`). `ScriptsOK` is the shape of what a script has still to do: what dials
does not stop, and a start is the last thing a script begins.

**LanPrefixProofs.** The invariant is about what a run has still to do: the rest of its
list repairs what is off. `BridgeOK`: what is on the bridge and not on record is still
to be noted; what is to be added is not there any more by then; when a prefix is noted
or forgotten nothing else is left. `SettingOK`: the setting is kept before it is
changed, and set again and, unless refused, committed before the copy is thrown away;
`WholeOK`: a copy that is not whole is being written by a run past the lock, up to `torn`. `InOrder` is the
shape of the lists. One lemma for each list `Plan` can make (`RelayPlan`, `OffPlan`,
`TeardownPlan`, `OnPlan`, `ChangePlan`, ...) shows that it begins well, whatever the
run found, and one for each command that the rest still is. `AloneOK` (one run past the
lock, up to `shared`) is what lets a list speak of the bridge at all.

Only model-checked: the liveness properties, as proofs under fairness and with ENABLED
are out of the prover's reach, and what the violation runs show. Behind each of the
seven stands a theorem for all constants that says why the wait is finite, or why what
is waited for cannot be lost:

| Checked by TLC | Proved |
|---|---|
| `ReturnsToLoop` | `CallsEnd`, `SevenStepsEach` |
| `UnreachableIsReported` | `ClockNeverBack` |
| `HealingEnds` | `LadderDescends`, `LowerWellFounded` |
| `LossIsNoticed` | `LossIsCounted` |
| `FoundAgain` | `SearchDescends`, `SearchNeverRests` |
| `Connects` | `LadderDescends`, `LowerWellFounded` (a climb that is not given up ends up), `ServedLinkStaysUp` (and stays there) |
| `SetupComesUp` | `SetupHeadsForDone` |

## 6. Not modelled

The map covers about an eighth of the code in the repository, and most of the rest is of
a kind a state machine says nothing about. By size: the vendor QMI dialler with its
message definitions and the kernel driver, carried along from the manufacturer; the
parsers of vendor answers and builders of commands in `cmds.c` and `net.c`, which are
conversions without state and appear by their outcome; the LuCI pages, which poll the
snapshot; the PDU codec, which the host tests enumerate better than small bounds would.

Of the daemon: deferred replies of the ubus interface and the manual AT command with
its guard; the writes of bands, cell lock and GNSS with their read-back, one exchange
after another without state of their own between; the snapshot and the diagnostics;
uci writes that fail; a wall clock that is set back; the profile tables (`ModeSwitch`
takes any sets, the tables are one value of them); kinds and lengths of quiet windows;
intervals of polls.

Around it: leases and registrations of at-daemon, the handlers of netifd other than as
callers, the synchronisation with mwan3 (a one-shot script that derives all it writes).

`PROJECT.json` gives the reason for each part, and for each hazard no property covers.

## 7. Plan

Done: `AtLine`, `AtQueue`, `ModeSwitch`, `Dialer`, in the order of what depends on
what; then `Sms`, `AtDaemon`, `Discovery`, `Keepalive`, `LanPrefix`, each with its
theorems; then the abstract specifications `MessageList` and `ProfileSwitch` with the
proofs that `Sms` and `ModeSwitch` implement them, and the measures behind the liveness
properties.

What is left, most useful first:

1. **Refinement of `AtDaemon`** to the exchange of `AtLine`: an answer or a timeout for
   each command, in order.
2. **Quiet windows by kind** in `AtQueue` and `Discovery`: who may end whose (hazard at
   `atq.c:549`), with the manual AT command that opens one.
3. **Deferred replies** (`ubus_methods.c`): each call answered once, composed with
   displacement in `AtLine`.
4. **Failing uci writes and a clock set back** as fault cases of `ModeSwitch` and
   `Dialer`.
