-------------------------------- MODULE Sms --------------------------------
(***************************************************************************)
(* Short messages (src/fm160d/src/sms.c with its ubus methods): the setup   *)
(* that arms the module, the announcements it makes, reading, listing,      *)
(* deleting and sending, the list kept in memory as a ring and the file     *)
(* that is appended to and read back when the daemon starts.                *)
(*                                                                         *)
(* A handler runs to completion with the AT exchanges it starts             *)
(* (AtQueueProofs!RunsToCompletion), so one exchange is in flight at a time *)
(* and no handler begins during it: that is job.  Each answer, each message *)
(* stored and each line read back is a step of its own, so the module may   *)
(* receive a message and the power may fail between any two of them.        *)
(*                                                                         *)
(* A message is its index on the module and its text; the sender is part of *)
(* the text here.  One storage is modelled: all roles are given the same    *)
(* one and +CMTI names it.  Read and unread marks are left out.             *)
(***************************************************************************)
EXTENDS Integers, Sequences, FiniteSets, SequencesExt

CONSTANTS
  Keep,             \* FM160_SMS_KEEP, slots of the ring
  MaxTries,         \* SMS_SETUP_MAX_TRIES
  Capacity,         \* messages the module can hold
  Text,             \* what messages say
  NoText,           \* no message
  Segments,         \* FM160_SMS_SEG_MAX, segments one message may need
  Weathers,         \* sets of things that may go wrong together, see below
  MaxArrivals,      \* bound of the model: messages received by the module
  MaxDeletions,     \* bound of the model: deletions the user asks for
  MaxSmsLives,      \* bound of the model: ends of the daemon not of its making
  MaxLines,         \* bound of the model: lines at which a listing may begin
  SmsUsed           \* bound of the model: what is used up of arrivals,
                    \* deletions and ends at the start

(***************************************************************************)
(* "crash"    the process dies; what was written stays                      *)
(* "power"    the power fails; the file loses lines from its end, and the   *)
(*            last that is left may lack its newline                        *)
(* "full"     a line cannot be written, or only in part                     *)
(* "refuse"   the module refuses a command or its answer is lost            *)
(* "reset"    the module restarts: its indications are off again            *)
(* "forget"   a message leaves the module by another hand                   *)
(***************************************************************************)
SmsConstants ==
  /\ Keep \in Nat \ {0}
  /\ MaxTries \in Nat \ {0}
  /\ Capacity \in Nat \ {0}
  /\ Segments \in Nat \ {0}
  /\ NoText \notin Text
  /\ {MaxArrivals, MaxDeletions, MaxSmsLives, MaxLines} \subseteq Nat
  /\ Weathers \subseteq SUBSET {"crash", "power", "full", "refuse", "reset",
                               "forget"}
  /\ SmsUsed \subseteq [arrivals : 0..MaxArrivals, deletions : 0..MaxDeletions,
                        lives : 0..MaxSmsLives]

ASSUME SmsAssumption == SmsConstants

VARIABLES
  inbox,            \* external: what the module holds, by index
  armed,            \* external: AT+CNMI is in force, arrivals are announced
  announced,        \* +CMTI events on their way to the daemon
  phase,            \* the daemon: "down", "loading" its file, "up"
  ready,            \* g_state.port_found and ident_done: a request is taken
  setup,            \* usable, setup_done, setup_tries, and whether
                    \* setup_next_ms has passed
  job,              \* the exchange in flight with what follows it
  list,             \* g_state.sms: msg, head, count, next_id
  file,             \* the lines of the store, first to last
  open,             \* its last bytes are not followed by a newline
  pos,              \* lines read back by sms_store_load
  gone,             \* history: ids the user's deletion has removed
  lost,             \* history: the record of a message did not survive
  ahead,            \* history: memory holds a message the file does not
  noticed,          \* history: the module is as when last identified
  weather,          \* what may go wrong from here on
  spent             \* history: arrivals, deletions and ends so far

smsModule == <<inbox, armed>>
smsStore == <<file, open, pos>>
smsHistory == <<gone, lost, ahead, noticed, weather, spent>>
smsVars == <<inbox, armed, announced, phase, ready, setup, job, list,
             file, open, pos, gone, lost, ahead, noticed, weather, spent>>

-----------------------------------------------------------------------------

Index == 1..Capacity
Message == [index : Index, text : Text]

\* A slot that is not used, and one of the lines of the file.
Free == [id |-> 0, index |-> 0, text |-> NoText]
Entry(id, m) == [id |-> id, index |-> m.index, text |-> m.text]
Entries == [id : Nat, index : Index \cup {0}, text : Text \cup {NoText}]
Marker(id) == [del |-> TRUE, entry |-> Entry(id, Free)]
Record(e) == [del |-> FALSE, entry |-> e]
Lines == [del : BOOLEAN, entry : Entries]

NoJob == [kind |-> "none", step |-> 0, after |-> "none", arg |-> 0,
          todo |-> {}]
Exchange(kind, step, arg) ==
  [NoJob EXCEPT !.kind = kind, !.step = step, !.arg = arg]
SetupThen(after, arg) ==
  [NoJob EXCEPT !.kind = "setup", !.step = 1, !.after = after, !.arg = arg]

EmptyList == [ring |-> [s \in 0..(Keep - 1) |-> Free],
              head |-> 0, count |-> 0, next |-> 0]
FreshSetup == [usable |-> FALSE, done |-> FALSE, tries |-> 0, due |-> FALSE]

SmsInit ==
  /\ inbox = [i \in Index |-> NoText]
  /\ armed \in BOOLEAN                 \* an earlier life may have armed it
  /\ announced = <<>>
  /\ phase = "loading" /\ pos = 0
  /\ ready = FALSE
  /\ setup = FreshSetup
  /\ job = NoJob
  /\ list = EmptyList
  /\ file = <<>> /\ open = FALSE
  /\ gone = {} /\ lost = FALSE /\ ahead = FALSE
  /\ noticed = TRUE /\ weather \in Weathers
  /\ spent \in SmsUsed

-----------------------------------------------------------------------------
(* The list in memory *)

Used(l) == {s \in DOMAIN l.ring : l.ring[s].id # 0}
Ids(l) == {l.ring[s].id : s \in Used(l)}
Holding(l, m) == {s \in Used(l) : /\ l.ring[s].index = m.index
                                  /\ l.ring[s].text = m.text}

\* Mutant: the ring goes round a slot early.
NextSlotEarly(s) == IF s + 1 >= Keep - 1 THEN 0 ELSE s + 1

NextSlot(s) == IF s = Keep - 1 THEN 0 ELSE s + 1

\* Mutant of Placed: the message is written into the first slot that is free,
\* if there is one.
PlacedInHole(l, m) ==
  LET free == {s \in DOMAIN l.ring : s \notin Used(l)}
  IN  [ring |-> [l.ring EXCEPT ![IF free = {} THEN l.head ELSE Min(free)] =
                   Entry(l.next + 1, m)],
       head |-> NextSlot(l.head),
       count |-> IF l.count < Keep THEN l.count + 1 ELSE l.count,
       next |-> l.next + 1]

\* sms_new_slot, filled with message m: the slot at the head, under the next
\* id, whether or not a deletion has left another slot free.
Placed(l, m) ==
  [ring |-> [l.ring EXCEPT ![l.head] = Entry(l.next + 1, m)],
   head |-> NextSlot(l.head),
   count |-> IF l.count < Keep THEN l.count + 1 ELSE l.count,
   next |-> l.next + 1]

\* The slot with this id is no longer used.
Unused(l, id) ==
  [l EXCEPT !.ring = [s \in DOMAIN l.ring |->
                        IF l.ring[s].id = id THEN Free ELSE l.ring[s]]]

\* One line of sms_store_load.  The id was written as a JSON number, which
\* libubox reads as 32 bits wide, and store_policy takes 64 bits only: no id
\* is found on a line.  A marker, which is nothing without it, is passed over
\* as a line without a text, and a message gets the id of its slot.
Loaded(l, line) == IF line.del THEN l ELSE Placed(l, line.entry)

\* sms_store_load: what none, one, two ... and all of the lines give.
Lists(lines) ==
  LET l[n \in 0..Len(lines)] ==
        IF n = 0 THEN EmptyList ELSE Loaded(l[n - 1], lines[n])
  IN  l
ReadBack(lines) == Lists(lines)[Len(lines)]

\* sms_find_duplicate.  Mutant: the text is not compared.
DuplicateByIndex(l, m) == {s \in Used(l) : l.ring[s].index = m.index}
SmsDuplicate(l, m) == Holding(l, m)

-----------------------------------------------------------------------------
(* The file *)

\* A line appended after bytes without a newline is read as part of them and
\* skipped.
Keeps(line) ==
  /\ ~open
  /\ file' = Append(file, line)
  /\ UNCHANGED <<open, lost, ahead>>

Spoils(line, tail) ==
  /\ open' = tail
  /\ lost' = (lost \/ ~line.del)
  /\ ahead' = (ahead \/ ~line.del)
  /\ UNCHANGED file

\* sms_store_append, sms_store_append_tombstone: no outcome is looked at.
Appends(line) ==
  \/ Keeps(line)
  \/ open /\ Spoils(line, FALSE)
  \/ "full" \in weather /\ \E tail \in {open, TRUE} : Spoils(line, tail)

-----------------------------------------------------------------------------
(* The module *)

SmsLoop == phase = "up" /\ job = NoJob

\* A message is received, and announced when the indication is armed.  An
\* announcement that comes while a command waits for its answer is tagged as
\* part of that answer (AtDaemon!Mark), and at_event_cb takes idle lines only.
Arrive ==
  /\ spent.arrivals < MaxArrivals
  /\ spent' = [spent EXCEPT !.arrivals = @ + 1]
  /\ \E i \in Index, t \in Text :
       /\ inbox[i] = NoText
       /\ inbox' = [inbox EXCEPT ![i] = t]
       /\ announced' \in IF armed /\ phase # "down"
                         THEN {announced, Append(announced, i)}
                         ELSE {announced}
  /\ UNCHANGED <<armed, phase, ready, setup, job, list, smsStore,
                 gone, lost, ahead, noticed, weather>>

Forget ==
  /\ "forget" \in weather
  /\ \E i \in Index :
       /\ inbox[i] # NoText
       /\ inbox' = [inbox EXCEPT ![i] = NoText]
  /\ UNCHANGED <<armed, announced, phase, ready, setup, job, list, smsStore,
                 smsHistory>>

Reset ==
  /\ "reset" \in weather
  /\ armed' = FALSE
  /\ noticed' = FALSE
  /\ UNCHANGED <<inbox, announced, phase, ready, setup, job, list, smsStore,
                 gone, lost, ahead, weather, spent>>

\* From here on nothing goes wrong.
Clears ==
  /\ weather # {}
  /\ weather' = {}
  /\ UNCHANGED <<smsModule, announced, phase, ready, setup, job, list,
                 smsStore, gone, lost, ahead, noticed, spent>>

-----------------------------------------------------------------------------
(* The port: found anew, or identified again on request; lost *)

\* fm160_sms_setup_reset.  Mutant: what was armed stays armed.
ResetKeepingDone(s) == [s EXCEPT !.tries = 0, !.due = TRUE]
SetupReset(s) == [s EXCEPT !.done = FALSE, !.tries = 0, !.due = TRUE]

Identify ==
  /\ SmsLoop
  /\ ready' = TRUE
  /\ setup' = SetupReset(setup)
  /\ noticed' = TRUE
  /\ UNCHANGED <<smsModule, announced, phase, job, list, smsStore,
                 gone, lost, ahead, weather, spent>>

PortLost ==
  /\ SmsLoop /\ ready /\ weather # {}
  /\ ready' = FALSE
  /\ UNCHANGED <<smsModule, announced, phase, setup, job, list, smsStore,
                 smsHistory>>

-----------------------------------------------------------------------------
(* The setup *)

\* The guards of fm160_sms_setup_tick; what it leaves when it begins.
Wanted(s) == /\ ~s.done /\ ready
             /\ s.tries < MaxTries
             /\ s.due
Begun(s) == [s EXCEPT !.due = FALSE]

\* sms_setup_kick.  Mutant: the tries stay used up.
KickedNot(s) == s
Kicked(s) ==
  IF ~s.done /\ s.tries >= MaxTries THEN [s EXCEPT !.tries = 0, !.due = TRUE]
                                    ELSE s

SetupTimer ==
  /\ phase = "up" /\ ~setup.due /\ ~setup.done
  /\ setup' = [setup EXCEPT !.due = TRUE]
  /\ UNCHANGED <<smsModule, announced, phase, ready, job, list, smsStore,
                 smsHistory>>

SetupTick ==
  /\ SmsLoop /\ Wanted(setup)
  /\ setup' = Begun(setup)
  /\ job' = SetupThen("none", 0)
  /\ UNCHANGED <<smsModule, announced, phase, ready, list, smsStore,
                 smsHistory>>

\* What fm160_sms_handle_urc and fm160_cmd_sms_sync do once the setup they
\* started has ended.
Resume(s) ==
  CASE job.after = "fetch" /\ s.usable -> Exchange("fetch", 0, job.arg)
    [] job.after = "sync" /\ s.done -> Exchange("sync", 0, 0)
    [] OTHER -> NoJob

\* setup_step_cb: PDU mode with its read-back, the storages with the choice of
\* one, the indication.
ModeStep == 1
ArmStep == 3
SetupStepped ==
  /\ phase = "up" /\ job.kind = "setup" /\ job.step < ArmStep
  /\ job' = [job EXCEPT !.step = @ + 1]
  /\ UNCHANGED <<smsModule, announced, phase, ready, setup, list, smsStore,
                 smsHistory>>

SetupArmed ==
  /\ phase = "up" /\ job.kind = "setup" /\ job.step = ArmStep
  /\ armed' = TRUE
  /\ setup' = [setup EXCEPT !.usable = TRUE, !.done = TRUE, !.tries = 0]
  /\ job' = Resume(setup')
  /\ UNCHANGED <<inbox, announced, phase, ready, list, smsStore, smsHistory>>

\* A step is refused or not answered, which the module may have obeyed.
SetupRefused ==
  /\ "refuse" \in weather
  /\ phase = "up" /\ job.kind = "setup"
  /\ setup' = [setup EXCEPT !.usable = FALSE, !.tries = @ + 1, !.due = FALSE]
  /\ armed' \in IF job.step = ArmStep THEN {armed, TRUE} ELSE {armed}
  /\ job' = Resume(setup')
  /\ UNCHANGED <<inbox, announced, phase, ready, list, smsStore, smsHistory>>

\* The read-back shows another mode than the one that was accepted.
SetupNotPdu ==
  /\ "refuse" \in weather
  /\ phase = "up" /\ job.kind = "setup" /\ job.step = ModeStep
  /\ setup' = [setup EXCEPT !.usable = FALSE, !.tries = MaxTries, !.due = FALSE]
  /\ job' = Resume(setup')
  /\ UNCHANGED <<smsModule, announced, phase, ready, list, smsStore,
                 smsHistory>>

-----------------------------------------------------------------------------
(* Announcements, listing, reading *)

\* fm160_sms_handle_urc on +CMTI.
Urc ==
  /\ SmsLoop /\ announced # <<>>
  /\ announced' = Tail(announced)
  /\ LET s == Kicked(setup)
         i == Head(announced)
     IN \/ /\ s.usable /\ ready
           /\ setup' = s /\ job' = Exchange("fetch", 0, i)
        \/ /\ s.usable /\ ~ready
           /\ setup' = s /\ UNCHANGED job
        \/ /\ ~s.usable /\ Wanted(s)
           /\ setup' = Begun(s) /\ job' = SetupThen("fetch", i)
        \/ /\ ~s.usable /\ ~Wanted(s)
           /\ setup' = s /\ UNCHANGED job
  /\ UNCHANGED <<smsModule, phase, ready, list, smsStore, smsHistory>>

\* The user asks for the messages: handle_sms_sync, fm160_cmd_sms_sync.
Sync ==
  /\ SmsLoop /\ ready
  /\ Len(file) <= MaxLines
  /\ LET s == Kicked(setup)
     IN \/ /\ setup.done
           /\ job' = Exchange("sync", 0, 0) /\ UNCHANGED setup
        \/ /\ ~setup.done /\ Wanted(s)
           /\ setup' = Begun(s) /\ job' = SetupThen("sync", 0)
        \/ /\ ~setup.done /\ ~Wanted(s)
           /\ setup' = s /\ UNCHANGED job
  /\ UNCHANGED <<smsModule, announced, phase, ready, list, smsStore,
                 smsHistory>>

\* The answers: fetch_cb with fm160_parse_cmgr, sync_cb with fm160_parse_cmgl.
OnModule == {m \in Message : inbox[m.index] = m.text}
Answered ==
  /\ phase = "up" /\ job.kind \in {"fetch", "sync"}
  /\ LET wanted == {m \in OnModule : job.kind = "sync" \/ m.index = job.arg}
     IN job' = IF wanted = {} THEN NoJob
               ELSE [NoJob EXCEPT !.kind = "store", !.todo = wanted]
  /\ UNCHANGED <<smsModule, announced, phase, ready, setup, list, smsStore,
                 smsHistory>>

NotAnswered ==
  /\ "refuse" \in weather
  /\ phase = "up" /\ job.kind \in {"fetch", "sync"}
  /\ job' = NoJob
  /\ UNCHANGED <<smsModule, announced, phase, ready, setup, list, smsStore,
                 smsHistory>>

\* sms_store_pdu, for the next message of the answer: the module lists them in
\* the order of their index.
Stored ==
  /\ phase = "up" /\ job.kind = "store"
  /\ \E m \in job.todo :
       /\ \A n \in job.todo : m.index <= n.index
       /\ \/ /\ SmsDuplicate(list, m) # {}
             /\ UNCHANGED <<list, file, open, lost, ahead>>
          \/ /\ SmsDuplicate(list, m) = {}
             /\ list' = Placed(list, m)
             /\ Appends(Record(Entry(list.next + 1, m)))
       /\ job' = IF job.todo = {m} THEN NoJob
                 ELSE [job EXCEPT !.todo = @ \ {m}]
  /\ UNCHANGED <<smsModule, announced, phase, ready, setup, pos,
                 gone, noticed, weather, spent>>

-----------------------------------------------------------------------------
(* Deleting and sending *)

\* fm160_sms_delete_local.
DeleteLocal(id) ==
  /\ list' = [Unused(list, id) EXCEPT !.count = list.count - 1]
  /\ Appends(Marker(id))

\* handle_sms_delete.
Delete ==
  /\ SmsLoop
  /\ spent.deletions < MaxDeletions
  /\ spent' = [spent EXCEPT !.deletions = @ + 1]
  /\ \E id \in Ids(list) :
       \/ /\ setup.usable /\ ready
          /\ job' = Exchange("delete", 0, id)
          /\ UNCHANGED <<list, file, open, lost, ahead, gone>>
       \/ /\ setup.usable /\ ~ready
          /\ UNCHANGED <<job, list, file, open, lost, ahead, gone>>
       \/ /\ ~setup.usable
          /\ DeleteLocal(id)
          /\ gone' = gone \cup {id}
          /\ UNCHANGED job
  /\ UNCHANGED <<smsModule, announced, phase, ready, setup, pos,
                 noticed, weather>>

\* The daemon is gone: memory and the events on their way with it.
Dead ==
  /\ phase' = "down" /\ pos' = 0
  /\ ready' = FALSE
  /\ setup' = FreshSetup
  /\ job' = NoJob
  /\ list' = EmptyList
  /\ announced' = <<>>
  /\ ahead' = FALSE

\* The module answers AT+CMGD.  delete_cb hands its caller's callback NULL for
\* the argument it was given, and sms_delete_reply reads the id through it.
DeleteAnswered ==
  /\ phase = "up" /\ job.kind = "delete"
  /\ \E s \in Used(list) :
       /\ list.ring[s].id = job.arg
       /\ inbox' \in {inbox} \cup {[inbox EXCEPT ![list.ring[s].index] = NoText]}
  /\ Dead
  /\ UNCHANGED <<armed, file, open, gone, lost, noticed, weather, spent>>

\* fm160_cmd_sms_send and sms_seg_cb: job.step segments are left.
Send ==
  /\ SmsLoop /\ ready /\ setup.usable
  /\ \E n \in 1..Segments : job' = Exchange("send", n, 0)
  /\ UNCHANGED <<smsModule, announced, phase, ready, setup, list, smsStore,
                 smsHistory>>

SegmentAnswered ==
  /\ phase = "up" /\ job.kind = "send"
  /\ \/ job.step > 1 /\ job' = [job EXCEPT !.step = @ - 1]
     \/ job.step = 1 /\ job' = NoJob
     \/ "refuse" \in weather /\ job' = NoJob
  /\ UNCHANGED <<smsModule, announced, phase, ready, setup, list, smsStore,
                 smsHistory>>

-----------------------------------------------------------------------------
(* The end of the daemon and its start *)

SmsCrash ==
  /\ "crash" \in weather /\ phase # "down"
  /\ spent.lives < MaxSmsLives
  /\ spent' = [spent EXCEPT !.lives = @ + 1]
  /\ Dead
  /\ UNCHANGED <<smsModule, file, open, gone, lost, noticed, weather>>

\* The file is never flushed to the disk by the daemon, so the end of it may
\* be lost with the power.
PowerCut ==
  /\ "power" \in weather /\ phase # "down"
  /\ spent.lives < MaxSmsLives
  /\ spent' = [spent EXCEPT !.lives = @ + 1]
  /\ \E k \in 0..Len(file), tail \in BOOLEAN :
       /\ file' = SubSeq(file, 1, k)
       /\ open' = tail
       /\ lost' = (lost \/ \E j \in (k + 1)..Len(file) : ~file[j].del)
  /\ Dead
  /\ UNCHANGED <<smsModule, gone, noticed, weather>>

\* procd starts the daemon: fm160_sms_init, then sms_store_load.
SmsStart ==
  /\ phase = "down"
  /\ phase' = "loading"
  /\ UNCHANGED <<smsModule, announced, ready, setup, job, list, smsStore,
                 smsHistory>>

LoadLine ==
  /\ phase = "loading" /\ pos < Len(file)
  /\ list' = Loaded(list, file[pos + 1])
  /\ pos' = pos + 1
  /\ UNCHANGED <<smsModule, announced, phase, ready, setup, job, file, open,
                 smsHistory>>

LoadEnds ==
  /\ phase = "loading" /\ pos = Len(file)
  /\ phase' = "up"
  /\ UNCHANGED <<smsModule, announced, ready, setup, job, list, smsStore,
                 smsHistory>>

-----------------------------------------------------------------------------

Exchanges ==
  \/ SetupStepped \/ SetupArmed \/ SetupRefused \/ SetupNotPdu
  \/ Answered \/ NotAnswered \/ Stored \/ DeleteAnswered \/ SegmentAnswered

SmsNext ==
  \/ Arrive \/ Forget \/ Reset \/ Clears
  \/ Identify \/ PortLost \/ SetupTimer \/ SetupTick
  \/ Urc \/ Sync \/ Delete \/ Send
  \/ Exchanges
  \/ SmsCrash \/ PowerCut \/ SmsStart \/ LoadLine \/ LoadEnds

SmsSpec == SmsInit /\ [][SmsNext]_smsVars

SmsRuns == Exchanges \/ SmsStart \/ LoadLine \/ LoadEnds
SmsFound == ~ready /\ Identify

(***************************************************************************)
(* An exchange ends, by its answer or by its timeout.  procd respawns the   *)
(* daemon, and the scan finds the module once it is there.  uloop runs the  *)
(* timers that are due before it looks at its sockets, so of the tick and   *)
(* the events one comes again and again, whatever else is asked.            *)
(***************************************************************************)
SmsFairness ==
  /\ WF_smsVars(SmsRuns) /\ WF_smsVars(SmsFound) /\ WF_smsVars(SetupTimer)
  /\ SF_smsVars(SetupTick \/ Urc)

SmsFairSpec == SmsSpec /\ SmsFairness

-----------------------------------------------------------------------------
(* Properties *)

SmsTypeOK ==
  /\ inbox \in [Index -> Text \cup {NoText}]
  /\ armed \in BOOLEAN
  /\ announced \in Seq(Index)
  /\ phase \in {"down", "loading", "up"}
  /\ ready \in BOOLEAN
  /\ setup \in [usable : BOOLEAN, done : BOOLEAN, tries : 0..MaxTries,
                due : BOOLEAN]
  /\ job \in [kind : {"none", "setup", "fetch", "sync", "store", "delete",
                      "send"},
              step : Nat, after : {"none", "fetch", "sync"}, arg : Nat,
              todo : SUBSET Message]
  /\ list \in [ring : [0..(Keep - 1) -> Entries], head : 0..(Keep - 1),
               count : 0..Keep, next : Nat]
  /\ file \in Seq(Lines)
  /\ open \in BOOLEAN
  /\ pos \in Nat
  /\ gone \subseteq Nat /\ lost \in BOOLEAN
  /\ ahead \in BOOLEAN /\ noticed \in BOOLEAN
  /\ weather \in Weathers \cup {{}}
  /\ spent \in [arrivals : 0..MaxArrivals, deletions : 0..MaxDeletions,
                lives : 0..MaxSmsLives]

\* Memory and file differ in the user's deletions alone: a restart would put
\* every message into the slot it has now, under the id it has now although
\* ids are not read back, and go on with the same slot and the same id; the
\* slots in which it would show more are those of deleted messages.
MemoryIsFile ==
  phase = "up" /\ ~ahead =>
    LET read == ReadBack(file)
    IN  /\ list.head = read.head /\ list.next = read.next
        /\ \A s \in DOMAIN list.ring :
             \/ list.ring[s] = read.ring[s]
             \/ list.ring[s] = Free /\ read.ring[s].id \in gone

\* fm160_sms_get orders by id because ids are handed out in increasing order:
\* from the head on round the ring the ids of the used slots increase, also
\* after deletions, evictions and restarts; none is above the last one given;
\* and the count covers them, so that no message is beyond the list's end.
RingInOrder ==
  /\ \A s, t \in Used(list) :
       (IF (s < list.head) <=> (t < list.head) THEN s < t ELSE t < list.head)
         => list.ring[s].id < list.ring[t].id
  /\ \A s \in Used(list) : list.ring[s].id <= list.next
  /\ Cardinality(Used(list)) <= list.count

\* sms.c:252-259: the marker is written because a message the user deleted
\* would otherwise be back after the next reboot.  No message the user has
\* deleted is in the list of a later life, if no record was lost.
DeletedStaysDeleted == phase = "up" /\ ~lost => Ids(list) \cap gone = {}

\* The setup is not taken for done on a module that was restarted before it
\* was last identified: the indication is in force.
ArmedWhenDone == setup.done /\ noticed => armed

\* A message that was read from the module is in the list, once: a second
\* reading adds none, and a message that has come into a used index of the
\* module is not taken for the one that was there.  Of two copies the user has
\* deleted one, and a restart has brought it back.
ReadIsListedOnce ==
  [][phase = "up" /\ job.kind = "store" /\ phase' = "up" /\ job' # job /\ ~lost
     => \A m \in job.todo \ job'.todo :
          LET copies == {list'.ring[s].id : s \in Holding(list', m)}
          IN  /\ copies # {}
              /\ \A x, y \in copies : x = y \/ {x, y} \cap gone # {}]_smsVars

\* Once nothing goes wrong the setup succeeds, if tries are left or if an
\* announcement is still to be handled, however often it was refused before.
SetupComesUp ==
  (weather = {} /\ (setup.tries < MaxTries \/ announced # <<>>)) ~> setup.done

\* The store as MessageList sees it: what is shown, or will be once the file
\* is read back, and what each first part of the file would give.
Shown(l) == {l.ring[s] : s \in Used(l)}
View(l) == [shown |-> Shown(l), given |-> l.next]
ViewNow == View(IF phase = "up" THEN list ELSE ReadBack(file))
KeptLists(lines) ==
  LET l == Lists(lines)
  IN  [n \in 1..(Len(lines) + 1) |-> View(l[n - 1])]

Listing == INSTANCE MessageList WITH now <- ViewNow, kept <- KeptLists(file)

\* The store implements the promise of MessageList: a message is listed under
\* the next id and pushes out the one Keep ids before it, no other; only a
\* deletion takes away more, and only until the next restart, which shows what
\* is on record, whatever records were lost before.
ListingSpec == Listing!Spec

\* A deletion takes the entry off the list whatever the module answers.
DeletionReachesList ==
  [][job.kind = "delete" /\ job'.kind # "delete" /\ spent' = spent
     => phase' = "up" /\ job.arg \notin Ids(list')]_smsVars
=============================================================================
