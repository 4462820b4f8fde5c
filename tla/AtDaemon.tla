------------------------------ MODULE AtDaemon ------------------------------
(***************************************************************************)
(* at-daemon with one port (src/at-daemon/src): the main thread answers     *)
(* sendat and publishes the lines of the modem, a thread of the port reads  *)
(* them, and the monitor closes and opens the port as its device comes and  *)
(* goes.                                                                   *)
(*                                                                         *)
(* A step is what one thread does between two points where another may run: *)
(* a critical section, a write to the notify pipe, the start or the end of  *)
(* a thread.  The main thread is one: while it waits for an answer it does  *)
(* not publish, and the line queue fills.                                   *)
(*                                                                         *)
(* A line is the command it belongs to (0 for an unsolicited one), whether  *)
(* it matches an end flag of that command, and whether it is too long for   *)
(* an event.  Unsolicited lines match no end flag.  Echoes, prompts, the    *)
(* text of the answer, leases and registrations, which fm160d does not use, *)
(* are left out.                                                            *)
(***************************************************************************)
EXTENDS Integers, Sequences

CONSTANTS
  LineCapacity,     \* AT_LINE_QUEUE_CAPACITY
  DrainBudget,      \* AT_LINE_EVENT_DRAIN_BUDGET
  MaxCommands,      \* bound of the model: commands sent
  MaxSaid,          \* bound of the model: lines the modem says
  MaxPlugs,         \* bound of the model: times the device goes away
  DaemonUsed        \* bound of the model: what is used up of the three at the
                    \* start

DaemonConstants ==
  /\ LineCapacity \in Nat /\ LineCapacity >= 2
  /\ DrainBudget \in Nat \ {0}
  /\ {MaxCommands, MaxSaid, MaxPlugs} \subseteq Nat
  /\ DaemonUsed \subseteq [sent : 0..MaxCommands, said : 0..MaxSaid,
                           plugs : 0..MaxPlugs]

ASSUME DaemonAssumption == DaemonConstants

VARIABLES
  tty,              \* external: the device is there, lines not yet read,
                    \* commands the modem has still to answer
  handle,           \* the port: is_open, restart_epoch, line_sequence
  slot,             \* waiting_for_response, active_command_id and the
                    \* command whose line has ended the answer
  readers,          \* the reader thread started in each epoch
  events,           \* the line queue
  drops,            \* drop_count, pending_drop_count; history: the highest told
  bell,             \* the notify pipe is readable
  desk,             \* where the main thread stands
  opener,           \* who holds lifecycle_mutex and how far he is
  past,             \* history: commands given up, answers, the last event out
                    \* and how many
  bounds            \* commands sent, lines said, times unplugged

daemonVars == <<tty, handle, slot, readers, events, drops, bell, desk, opener,
                past, bounds>>

-----------------------------------------------------------------------------

Command == 1..MaxCommands
Words == [of : 0..MaxCommands, ends : BOOLEAN, long : BOOLEAN]
Epoch == 1..(2 * (MaxPlugs + MaxCommands) + 1)
Event == [epoch : Nat, seq : Nat, of : 0..MaxCommands, id : 0..MaxCommands,
          mark : {"idle", "response", "terminal"}, drop : Nat]

NoWords == [of |-> 0, ends |-> FALSE, long |-> FALSE]
NoReader == [at |-> "none", stop |-> FALSE, line |-> NoWords, waited |-> 0,
             ended |-> FALSE, epoch |-> 0, seq |-> 0]
NoLine == [epoch |-> 0, seq |-> 0]
NoOpener == [by |-> "none", step |-> "none", goal |-> "none"]

DaemonInit ==
  /\ tty = [there |-> TRUE, lines |-> <<>>, owed |-> <<>>]
  /\ handle = [open |-> FALSE, epoch |-> 0, seq |-> 0]
  /\ slot = [waiting |-> FALSE, id |-> 0, ended |-> 0]
  /\ readers = [e \in Epoch |-> NoReader]
  /\ events = <<>>
  /\ drops = [count |-> 0, pending |-> 0, told |-> 0]
  /\ bell = FALSE
  /\ desk = [at |-> "loop", done |-> 0]
  /\ opener = NoOpener
  /\ past = [givenUp |-> {}, answers |-> {}, last |-> NoLine, out |-> 0]
  /\ bounds \in DaemonUsed

-----------------------------------------------------------------------------
(* The modem and its device *)

Says(line) ==
  /\ tty.there /\ bounds.said < MaxSaid
  /\ bounds' = [bounds EXCEPT !.said = @ + 1]
  /\ tty' = [tty EXCEPT !.lines = Append(@, line),
                        !.owed = IF line.ends THEN Tail(@) ELSE @]
  /\ UNCHANGED <<handle, slot, readers, events, drops, bell, desk, opener,
                 past>>

ModemAnswers ==
  /\ tty.owed # <<>>
  /\ \E ends \in BOOLEAN :
       Says([of |-> Head(tty.owed), ends |-> ends, long |-> FALSE])

Unsolicited ==
  \E long \in BOOLEAN : Says([of |-> 0, ends |-> FALSE, long |-> long])

Unplug ==
  /\ tty.there /\ bounds.plugs < MaxPlugs
  /\ bounds' = [bounds EXCEPT !.plugs = @ + 1]
  /\ tty' = [there |-> FALSE, lines |-> <<>>, owed |-> <<>>]
  /\ UNCHANGED <<handle, slot, readers, events, drops, bell, desk, opener,
                 past>>

\* The kernel gives the name to a new device once the old one is closed.
Plug ==
  /\ ~tty.there /\ ~handle.open
  /\ tty' = [tty EXCEPT !.there = TRUE]
  /\ UNCHANGED <<handle, slot, readers, events, drops, bell, desk, opener,
                 past, bounds>>

-----------------------------------------------------------------------------
(* reader_thread_func *)

ReaderMoves(e, from, to) ==
  /\ readers[e].at = from
  /\ readers' = [readers EXCEPT ![e].at = to]

\* It is done with its line.
ReaderRests(e, from, to) ==
  /\ readers[e].at = from
  /\ readers' = [readers EXCEPT
       ![e] = [NoReader EXCEPT !.at = to, !.stop = readers[e].stop]]

ReaderStops(e) ==
  /\ readers[e].stop
  /\ ReaderRests(e, "top", "over")
  /\ UNCHANGED <<tty, handle, slot, events, drops, bell, desk, opener, past,
                 bounds>>

\* The device is gone: a read may fail, or return nothing for ever.
ReadFails(e) ==
  /\ ~readers[e].stop /\ ~tty.there
  /\ ReaderRests(e, "top", "over")
  /\ handle' = [handle EXCEPT !.open = FALSE]
  /\ UNCHANGED <<tty, slot, events, drops, bell, desk, opener, past, bounds>>

ReadLine(e) ==
  /\ ~readers[e].stop /\ handle.open /\ tty.lines # <<>>
  /\ readers[e].at = "top"
  /\ readers' = [readers EXCEPT ![e].at = "check",
                                ![e].line = Head(tty.lines)]
  /\ tty' = [tty EXCEPT !.lines = Tail(@)]
  /\ UNCHANGED <<handle, slot, events, drops, bell, desk, opener, past,
                 bounds>>

\* The first look at waiting_for_response.
CheckLine(e) ==
  LET waited == IF slot.waiting THEN slot.id ELSE 0
  IN /\ readers[e].at = "check"
     /\ readers' = [readers EXCEPT
          ![e].at = IF waited # 0 /\ readers[e].line.ends THEN "end"
                                                          ELSE "number",
          ![e].waited = waited,
          ![e].ended = waited # 0 /\ readers[e].line.ends]
     /\ UNCHANGED <<tty, handle, slot, events, drops, bell, desk, opener,
                    past, bounds>>

\* The second look, when the line ends an answer.
EndAnswer(e) ==
  /\ ReaderMoves(e, "end", "number")
  /\ slot' = IF slot.waiting
             THEN [slot EXCEPT !.waiting = FALSE,
                               !.ended = readers[e].line.of]
             ELSE slot
  /\ UNCHANGED <<tty, handle, events, drops, bell, desk, opener, past,
                 bounds>>

\* at_port_next_line_event_state.
NumberLine(e) ==
  /\ readers[e].at = "number"
  /\ handle' = [handle EXCEPT !.seq = @ + 1]
  /\ readers' = [readers EXCEPT ![e].at = "put",
                                ![e].epoch = handle.epoch,
                                ![e].seq = handle'.seq]
  /\ UNCHANGED <<tty, slot, events, drops, bell, desk, opener, past, bounds>>

\* The correlation of a line.  Mutant: judged when the line is queued.
MarkLate(r) ==
  IF slot.waiting THEN IF r.ended THEN "terminal" ELSE "response" ELSE "idle"
Mark(r) ==
  IF r.ended THEN "terminal" ELSE IF r.waited # 0 THEN "response" ELSE "idle"

\* at_line_event_enqueue.
TooLong(e) ==
  /\ readers[e].line.long
  /\ ReaderRests(e, "put", "top")
  /\ drops' = [drops EXCEPT !.count = @ + 1, !.pending = drops.count + 1]
  /\ UNCHANGED <<tty, handle, slot, events, bell, desk, opener, past, bounds>>

NewEvent(r, drop) ==
  [epoch |-> r.epoch, seq |-> r.seq, of |-> r.line.of, id |-> r.waited,
   mark |-> Mark(r), drop |-> drop]

PutEvent(e) ==
  /\ ~readers[e].line.long
  /\ Len(events) < LineCapacity
  /\ ReaderMoves(e, "put", "ring")
  /\ events' = Append(events, NewEvent(readers[e], drops.pending))
  /\ drops' = [drops EXCEPT !.pending = 0]
  /\ UNCHANGED <<tty, handle, slot, bell, desk, opener, past, bounds>>

\* The queue is full: its first event makes room, and the next tells of it.
PushOut(e) ==
  /\ ~readers[e].line.long
  /\ Len(events) = LineCapacity
  /\ ReaderMoves(e, "put", "ring")
  /\ events' = Append([Tail(events) EXCEPT ![1].drop = drops.count + 1],
                      NewEvent(readers[e], 0))
  /\ drops' = [drops EXCEPT !.count = @ + 1, !.pending = drops.count + 1]
  /\ UNCHANGED <<tty, handle, slot, bell, desk, opener, past, bounds>>

\* notify_consumer.
Ring(e) ==
  /\ ReaderRests(e, "ring", "top")
  /\ bell' = TRUE
  /\ UNCHANGED <<tty, handle, slot, events, drops, desk, opener, past, bounds>>

Reader ==
  \E e \in Epoch :
    \/ ReaderStops(e) \/ ReadFails(e) \/ ReadLine(e) \/ CheckLine(e)
    \/ EndAnswer(e) \/ NumberLine(e) \/ TooLong(e) \/ PutEvent(e)
    \/ PushOut(e) \/ Ring(e)

-----------------------------------------------------------------------------
(* The main thread: sendat *)

\* ubus_sendat_method: the port is opened first when it is closed.
SendAt ==
  /\ desk.at = "loop" /\ bounds.sent < MaxCommands
  /\ bounds' = [bounds EXCEPT !.sent = @ + 1]
  /\ desk' = [desk EXCEPT !.at = IF handle.open THEN "arm" ELSE "open"]
  /\ UNCHANGED <<tty, handle, slot, readers, events, drops, bell, opener,
                 past>>

\* The answer is awaited before the command is written.
Arm ==
  /\ desk.at = "arm"
  /\ slot' = [waiting |-> TRUE, id |-> bounds.sent, ended |-> 0]
  /\ desk' = [desk EXCEPT !.at = "write"]
  /\ UNCHANGED <<tty, handle, readers, events, drops, bell, opener, past,
                 bounds>>

WriteAt ==
  /\ desk.at = "write" /\ handle.open /\ tty.there
  /\ tty' = [tty EXCEPT !.owed = Append(@, slot.id)]
  /\ desk' = [desk EXCEPT !.at = "wait"]
  /\ UNCHANGED <<handle, slot, readers, events, drops, bell, opener, past,
                 bounds>>

\* Its caller is told that the command timed out.
GiveUp(id) ==
  /\ past' = [past EXCEPT !.givenUp = @ \cup {id}]
  /\ desk' = [desk EXCEPT !.at = "loop"]

WriteFails ==
  /\ desk.at = "write" /\ ~(handle.open /\ tty.there)
  /\ GiveUp(slot.id)
  /\ slot' = [slot EXCEPT !.waiting = FALSE]
  /\ UNCHANGED <<tty, handle, readers, events, drops, bell, opener, bounds>>

Woken ==
  /\ desk.at = "wait" /\ ~slot.waiting
  /\ past' = [past EXCEPT !.answers = @ \cup {<<slot.id, slot.ended>>}]
  /\ slot' = [slot EXCEPT !.id = 0]
  /\ desk' = [desk EXCEPT !.at = "loop"]
  /\ UNCHANGED <<tty, handle, readers, events, drops, bell, opener,
                 bounds>>

\* The deadline passes, also one that passes after the line that ends the
\* answer and before the thread runs.
DeadlinePasses ==
  /\ desk.at = "wait"
  /\ GiveUp(slot.id)
  /\ slot' = [slot EXCEPT !.waiting = FALSE, !.id = 0]
  /\ UNCHANGED <<tty, handle, readers, events, drops, bell, opener, bounds>>

-----------------------------------------------------------------------------
(* The main thread: at_line_events_consume *)

DrainPipe ==
  /\ desk.at = "loop" /\ bell
  /\ bell' = FALSE
  /\ desk' = [at |-> "publish", done |-> 0]
  /\ UNCHANGED <<tty, handle, slot, readers, events, drops, opener, past,
                 bounds>>

\* What at_line_event_dequeue leaves pending.  Mutant: any drop that is told
\* counts as the last.
PendingForgotten(e) == IF e.drop # 0 THEN 0 ELSE drops.pending
Pending(e) == IF e.drop # 0 /\ e.drop = drops.count THEN 0 ELSE drops.pending

Publish ==
  /\ desk.at = "publish" /\ desk.done < DrainBudget /\ events # <<>>
  /\ events' = Tail(events)
  /\ drops' = [drops EXCEPT
       !.pending = Pending(Head(events)),
       !.told = IF Head(events).drop > @ THEN Head(events).drop ELSE @]
  /\ past' = [past EXCEPT !.last = [epoch |-> Head(events).epoch,
                                        seq |-> Head(events).seq],
                         !.out = @ + 1]
  /\ desk' = [desk EXCEPT !.done = @ + 1]
  /\ UNCHANGED <<tty, handle, slot, readers, bell, opener, bounds>>

\* What is left makes the thread come back.  Mutant: it waits for the next
\* line.
AfterPublishing(left) == "loop"
Remaining(left) == IF left # <<>> THEN "ring" ELSE "loop"

PublishEnds ==
  /\ desk.at = "publish" /\ (desk.done = DrainBudget \/ events = <<>>)
  /\ desk' = [at |-> Remaining(events), done |-> 0]
  /\ UNCHANGED <<tty, handle, slot, readers, events, drops, bell, opener,
                 past, bounds>>

RingAgain ==
  /\ desk.at = "ring"
  /\ bell' = TRUE
  /\ desk' = [desk EXCEPT !.at = "loop"]
  /\ UNCHANGED <<tty, handle, slot, readers, events, drops, opener, past,
                 bounds>>

-----------------------------------------------------------------------------
(* open_at_port and close_at_port, by the main thread or by the monitor *)

MainOpens ==
  /\ desk.at = "open" /\ opener = NoOpener
  /\ opener' = [by |-> "main", step |-> "stop", goal |-> "open"]
  /\ UNCHANGED <<tty, handle, slot, readers, events, drops, bell, desk, past,
                 bounds>>

\* check_and_reconnect_port, once it holds lifecycle_mutex.  It has looked
\* before: a port it saw closed, the main thread may have opened since.
MonitorLooks ==
  /\ opener = NoOpener
  /\ \/ /\ handle.open \/ tty.there
        /\ opener' = [by |-> "monitor", step |-> "stop", goal |-> "open"]
     \/ /\ handle.open /\ ~tty.there
        /\ opener' = [by |-> "monitor", step |-> "stop", goal |-> "close"]
  /\ UNCHANGED <<tty, handle, slot, readers, events, drops, bell, desk, past,
                 bounds>>

\* The port has been opened by the other one meanwhile.
AlreadyOpen ==
  /\ opener.step = "stop" /\ opener.goal = "open" /\ handle.open
  /\ opener' = NoOpener
  /\ desk' = IF opener.by = "main" THEN [desk EXCEPT !.at = "arm"] ELSE desk
  /\ UNCHANGED <<tty, handle, slot, readers, events, drops, bell, past,
                 bounds>>

StopReader ==
  /\ opener.step = "stop" /\ ~(opener.goal = "open" /\ handle.open)
  /\ opener' = [opener EXCEPT !.step = "join"]
  /\ readers' = [e \in Epoch |-> IF e = handle.epoch
                                 THEN [readers[e] EXCEPT !.stop = TRUE]
                                 ELSE readers[e]]
  /\ UNCHANGED <<tty, handle, slot, events, drops, bell, desk, past, bounds>>

\* pthread_join returns.  Mutant: the thread is not waited for.
NotWaitedFor == TRUE
ReaderOver == \A e \in Epoch : readers[e].at \in {"none", "over"}

MarkClosed ==
  /\ opener.step = "join" /\ ReaderOver
  /\ handle' = [handle EXCEPT !.open = FALSE]
  /\ opener' = IF opener.goal = "open" THEN [opener EXCEPT !.step = "open"]
                                       ELSE NoOpener
  /\ UNCHANGED <<tty, slot, readers, events, drops, bell, desk, past, bounds>>

\* A device that is opened starts with nothing to read.
OpenPort ==
  /\ opener.step = "open" /\ tty.there
  /\ tty' = [tty EXCEPT !.lines = <<>>]
  /\ handle' = [handle EXCEPT !.open = TRUE, !.epoch = @ + 1]
  /\ readers' = [readers EXCEPT ![handle'.epoch] = [NoReader EXCEPT !.at = "top"]]
  /\ opener' = NoOpener
  /\ desk' = IF opener.by = "main" THEN [desk EXCEPT !.at = "arm"] ELSE desk
  /\ UNCHANGED <<slot, events, drops, bell, past, bounds>>

OpenFails ==
  /\ opener.step = "open" /\ ~tty.there
  /\ opener' = NoOpener
  /\ \/ /\ opener.by = "main"
        /\ desk' = [desk EXCEPT !.at = "loop"]
        /\ past' = [past EXCEPT !.givenUp = @ \cup {bounds.sent}]
     \/ opener.by = "monitor" /\ UNCHANGED <<desk, past>>
  /\ UNCHANGED <<tty, handle, slot, readers, events, drops, bell, bounds>>

-----------------------------------------------------------------------------

Modem == ModemAnswers \/ Unsolicited \/ Unplug \/ Plug
Sending == SendAt \/ Arm \/ WriteAt \/ WriteFails \/ Woken \/ DeadlinePasses
Consuming == DrainPipe \/ Publish \/ PublishEnds \/ RingAgain
Opening ==
  \/ MainOpens \/ MonitorLooks \/ AlreadyOpen \/ StopReader \/ MarkClosed
  \/ OpenPort \/ OpenFails

DaemonNext == Modem \/ Reader \/ Sending \/ Consuming \/ Opening

DaemonSpec == DaemonInit /\ [][DaemonNext]_daemonVars

-----------------------------------------------------------------------------
(* Properties *)

DaemonTypeOK ==
  /\ tty \in [there : BOOLEAN, lines : Seq(Words), owed : Seq(Command)]
  /\ handle \in [open : BOOLEAN, epoch : Nat, seq : Nat]
  /\ slot \in [waiting : BOOLEAN, id : 0..MaxCommands, ended : 0..MaxCommands]
  /\ readers \in [Epoch ->
       [at : {"none", "top", "check", "end", "number", "put", "ring", "over"},
        stop : BOOLEAN, line : Words, waited : 0..MaxCommands,
        ended : BOOLEAN, epoch : Nat, seq : Nat]]
  /\ events \in Seq(Event)
  /\ drops \in [count : Nat, pending : Nat, told : Nat]
  /\ bell \in BOOLEAN
  /\ desk \in [at : {"loop", "open", "arm", "write", "wait", "publish", "ring"},
               done : 0..DrainBudget]
  /\ opener \in [by : {"none", "main", "monitor"},
                 step : {"none", "stop", "join", "open"},
                 goal : {"none", "open", "close"}]
  /\ past \in [givenUp : SUBSET Command,
               answers : SUBSET (Command \X (0..MaxCommands)),
               last : [epoch : Nat, seq : Nat], out : Nat]
  /\ bounds \in [sent : 0..MaxCommands, said : 0..MaxSaid, plugs : 0..MaxPlugs]

\* Lines that wait are always about to be published: the pipe is readable, a
\* thread is on its way to write to it, or the main thread is at them.
NoLostWakeup ==
  events # <<>> =>
    \/ bell
    \/ desk.at \in {"publish", "ring"}
    \/ \E e \in Epoch : readers[e].at = "ring"

\* The subscribers learn of every loss: the count of dropped lines has been
\* told, is told by an event that waits, or will be by the next line; and they
\* learn it in time: when a line comes out, no more lines are missing before it
\* than have been told.
CountIsTold ==
  drops.count \in {drops.told, drops.pending} \cup
                    {events[i].drop : i \in DOMAIN events}
DropsAreTold == CountIsTold /\ past.last.seq - past.out <= drops.told

\* Lines come out in the order of their numbers, and of the epochs of the
\* port, though two threads may have read them.
LinesInOrder ==
  LET out == <<past.last>> \o events
  IN \A i \in 1..(Len(out) - 1) :
       /\ out[i].seq < out[i + 1].seq
       /\ out[i].epoch <= out[i + 1].epoch

\* As long as no command before it was given up, the answer to a command is
\* ended by its own last line, and no line of it is published as idle, which
\* is how fm160d tells an unsolicited line.
LinesFindTheirCommand ==
  /\ \A a \in past.answers : a[2] = a[1] \/ \E c \in past.givenUp : c < a[1]
  /\ \A i \in DOMAIN events :
       events[i].mark = "idle" /\ events[i].of # 0
         => \E c \in past.givenUp : c <= events[i].of
=============================================================================
