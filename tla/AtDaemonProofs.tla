--------------------------- MODULE AtDaemonProofs ---------------------------
(***************************************************************************)
(* at-daemon for every capacity of the line queue, every budget of the      *)
(* consumer and any number of commands, lines and unpluggings: the safety   *)
(* invariants of AtDaemon.                                                  *)
(***************************************************************************)
EXTENDS AtDaemon, SequenceTheorems, TLAPS

(***************************************************************************)
(* What the main thread, the opener and the reader threads know of each     *)
(* other: the slot is armed for the command that was taken last, the port   *)
(* is opened when no reader is left, and one reader runs at a time.         *)
(***************************************************************************)
DeskOK ==
  /\ desk.at \in {"open", "arm", "write", "wait"} => bounds.sent \in Command
  /\ desk.at \in {"write", "wait"} => slot.id = bounds.sent
  /\ slot.waiting => desk.at \in {"write", "wait"}
  /\ opener.by = "main" => desk.at = "open"

Busy(e) == readers[e].at \notin {"none", "over"}
ReadersOK ==
  /\ opener.step = "open" => ReaderOver
  /\ \A e \in Epoch : Busy(e) => e = handle.epoch

\* The types of the variables, by name.
TtyState == [there : BOOLEAN, lines : Seq(Words), owed : Seq(Command)]
HandleState == [open : BOOLEAN, epoch : Nat, seq : Nat]
SlotState ==
  [waiting : BOOLEAN, id : 0..MaxCommands, ended : 0..MaxCommands]
ReaderState ==
  [at : {"none", "top", "check", "end", "number", "put", "ring", "over"},
   stop : BOOLEAN, line : Words, waited : 0..MaxCommands,
   ended : BOOLEAN, epoch : Nat, seq : Nat]
DropState == [count : Nat, pending : Nat, told : Nat]
DeskState ==
  [at : {"loop", "open", "arm", "write", "wait", "publish", "ring"},
   done : 0..DrainBudget]
OpenerState ==
  [by : {"none", "main", "monitor"}, step : {"none", "stop", "join", "open"},
   goal : {"none", "open", "close"}]
PastState ==
  [givenUp : SUBSET Command, answers : SUBSET (Command \X (0..MaxCommands)),
   last : [epoch : Nat, seq : Nat], out : Nat]
BoundState == [sent : 0..MaxCommands, said : 0..MaxSaid, plugs : 0..MaxPlugs]

Typed ==
  /\ tty \in TtyState /\ handle \in HandleState /\ slot \in SlotState
  /\ readers \in [Epoch -> ReaderState] /\ events \in Seq(Event)
  /\ drops \in DropState /\ bell \in BOOLEAN /\ desk \in DeskState
  /\ opener \in OpenerState /\ past \in PastState /\ bounds \in BoundState

Base == Typed /\ DeskOK /\ ReadersOK

-----------------------------------------------------------------------------

LEMMA TypedIsTypeOK == DaemonTypeOK <=> Typed
BY DEF DaemonTypeOK, Typed, TtyState, HandleState, SlotState, ReaderState,
       DropState, DeskState, OpenerState, PastState, BoundState

LEMMA Numbers ==
  /\ MaxCommands \in Nat /\ MaxSaid \in Nat /\ MaxPlugs \in Nat
  /\ DrainBudget \in Nat \ {0}
  /\ LineCapacity \in Nat /\ LineCapacity >= 2
BY DaemonAssumption DEF DaemonConstants

LEMMA IdleReader == NoWords \in Words /\ NoReader \in ReaderState
<1>1. NoWords \in Words
  BY Numbers DEF NoWords, Words
<1> QED
  BY <1>1, Numbers DEF NoReader, ReaderState

LEMMA BaseInit == DaemonInit => Base
<1> SUFFICES ASSUME DaemonInit PROVE Base
  OBVIOUS
<1>3. readers \in [Epoch -> ReaderState]
  BY IdleReader DEF DaemonInit
<1>4. bounds \in BoundState
  BY DaemonAssumption DEF DaemonInit, DaemonConstants, BoundState
<1>5. tty \in TtyState /\ events \in Seq(Event)
  BY EmptySeq DEF DaemonInit, TtyState
<1>6. slot \in SlotState /\ desk \in DeskState
  BY Numbers DEF DaemonInit, SlotState, DeskState
<1>7. /\ handle \in HandleState /\ drops \in DropState /\ bell \in BOOLEAN
      /\ opener \in OpenerState
  BY DEF DaemonInit, HandleState, DropState, OpenerState, NoOpener
<1>8. past \in PastState
  BY DEF DaemonInit, PastState, NoLine
<1>9. DeskOK /\ ReadersOK
  BY DEF DaemonInit, DeskOK, ReadersOK, Busy, ReaderOver, NoReader, NoOpener
<1> QED
  BY <1>3, <1>4, <1>5, <1>6, <1>7, <1>8, <1>9 DEF Base, Typed

\* What a reader holds is well typed.
LEMMA ReaderType ==
  ASSUME Typed, NEW e \in Epoch
  PROVE  /\ readers[e] \in ReaderState
         /\ readers[e].line \in Words
         /\ readers[e].waited \in 0..MaxCommands
         /\ readers[e].epoch \in Nat /\ readers[e].seq \in Nat
         /\ readers[e].ended \in BOOLEAN /\ readers[e].stop \in BOOLEAN
         /\ \A n \in Nat : NewEvent(readers[e], n) \in Event
BY DEF Typed, ReaderState, NewEvent, Event, Mark, Words

\* The queue when it was full (at_line_event_enqueue): its first event is gone
\* and the loss is written into the next.
LEMMA PushOutEvents ==
  ASSUME Typed, NEW e \in Epoch, PushOut(e)
  PROVE  /\ Len(events) >= 2
         /\ events' \in Seq(Event) /\ Len(events') = Len(events)
         /\ \A i \in 1..(Len(events) - 1) :
              /\ events'[i].epoch = events[i + 1].epoch
              /\ events'[i].seq = events[i + 1].seq
              /\ events'[i].of = events[i + 1].of
              /\ events'[i].mark = events[i + 1].mark
              /\ events'[i].drop = IF i = 1 THEN drops.count + 1
                                            ELSE events[i + 1].drop
         /\ events'[Len(events)] = NewEvent(readers[e], 0)
<1>1. events \in Seq(Event) /\ Len(events) >= 2 /\ Len(events) \in Nat
  BY Numbers, LenProperties DEF PushOut, Typed
<1>2. PICK n \in Nat : n = drops.count + 1
  BY DEF Typed, DropState
<1>3. PICK v \in Event : v = NewEvent(readers[e], 0)
  BY ReaderType
<1>4. /\ Tail(events) \in Seq(Event)
      /\ Len(Tail(events)) = Len(events) - 1
      /\ \A i \in 1..Len(Tail(events)) : Tail(events)[i] = events[i + 1]
  <2>1. events # <<>>
    BY <1>1, EmptySeq
  <2> QED
    BY <1>1, <2>1, HeadTailProperties
<1>5. PICK t, w, u : /\ t = Tail(events) /\ w = [t[1] EXCEPT !.drop = n]
                     /\ u = [t EXCEPT ![1] = w]
  OBVIOUS
<1>6. /\ t \in Seq(Event) /\ Len(t) = Len(events) - 1 /\ 1 \in 1..Len(t)
      /\ \A i \in 1..(Len(events) - 1) : t[i] = events[i + 1]
  BY <1>1, <1>4, <1>5
<1>7. /\ u \in Seq(Event) /\ Len(u) = Len(t)
      /\ \A i \in 1..Len(t) :
           /\ u[i].epoch = t[i].epoch /\ u[i].seq = t[i].seq
           /\ u[i].of = t[i].of /\ u[i].mark = t[i].mark
           /\ u[i].drop = IF i = 1 THEN n ELSE t[i].drop
  <2>1. t[1] \in Event
    BY <1>6, ElementOfSeq
  <2>2. /\ w \in Event
        /\ w.epoch = t[1].epoch /\ w.seq = t[1].seq /\ w.of = t[1].of
        /\ w.mark = t[1].mark /\ w.drop = n
    BY <1>5, <2>1 DEF Event
  <2>3. /\ [t EXCEPT ![1] = w] \in Seq(Event)
        /\ Len([t EXCEPT ![1] = w]) = Len(t)
        /\ \A j \in 1..Len(t) :
             [t EXCEPT ![1] = w][j] = IF j = 1 THEN w ELSE t[j]
    BY <1>6, <2>2, ExceptSeq
  <2> QED
    BY <1>5, <2>2, <2>3
<1>8. events' = Append(u, v)
  BY <1>2, <1>3, <1>5 DEF PushOut
<1>9. /\ Append(u, v) \in Seq(Event) /\ Len(Append(u, v)) = Len(u) + 1
      /\ \A i \in 1..Len(u) : Append(u, v)[i] = u[i]
      /\ Append(u, v)[Len(u) + 1] = v
  <2>1. u \in Seq(Event)
    BY <1>7
  <2> QED
    BY <2>1, AppendProperties
<1>10. /\ events' \in Seq(Event) /\ Len(events') = Len(events)
       /\ events'[Len(events)] = v
       /\ \A i \in 1..(Len(events) - 1) : events'[i] = u[i]
  BY <1>1, <1>6, <1>7, <1>8, <1>9
<1>11. ASSUME NEW i \in 1..(Len(events) - 1)
       PROVE  /\ events'[i].epoch = events[i + 1].epoch
              /\ events'[i].seq = events[i + 1].seq
              /\ events'[i].of = events[i + 1].of
              /\ events'[i].mark = events[i + 1].mark
              /\ events'[i].drop = IF i = 1 THEN n ELSE events[i + 1].drop
  <2>1. /\ i \in 1..Len(t) /\ t[i] = events[i + 1] /\ events'[i] = u[i]
    BY <1>6, <1>10
  <2> QED
    BY <1>7, <2>1
<1> QED
  BY <1>1, <1>2, <1>3, <1>10, <1>11

\* The queue when it had room.
LEMMA PutEventEvents ==
  ASSUME Typed, NEW e \in Epoch, PutEvent(e)
  PROVE  /\ Len(events) \in Nat
         /\ events' \in Seq(Event) /\ Len(events') = Len(events) + 1
         /\ \A i \in 1..Len(events) : events'[i] = events[i]
         /\ events'[Len(events) + 1] = NewEvent(readers[e], drops.pending)
<1>1. PICK v \in Event : v = NewEvent(readers[e], drops.pending)
  BY ReaderType DEF Typed, DropState
<1>2. events \in Seq(Event) /\ Len(events) \in Nat
  BY LenProperties DEF Typed
<1>3. events' = Append(events, v)
  BY <1>1 DEF PutEvent
<1> QED
  BY <1>1, <1>2, <1>3, AppendProperties

\* The queue when its first event has been taken.
LEMMA PublishEvents ==
  ASSUME Typed, Publish
  PROVE  /\ Len(events) \in Nat \ {0} /\ events[1] \in Event
         /\ Head(events) = events[1]
         /\ events' \in Seq(Event) /\ Len(events') = Len(events) - 1
         /\ \A i \in 1..(Len(events) - 1) : events'[i] = events[i + 1]
<1>1. events \in Seq(Event) /\ events # <<>> /\ Len(events) \in Nat \ {0}
  BY EmptySeq DEF Publish, Typed
<1>2. Head(events) = events[1] /\ events[1] \in Event
  BY <1>1, ElementOfSeq
<1>3. events' = Tail(events)
  BY DEF Publish
<1> QED
  BY <1>1, <1>2, <1>3, HeadTailProperties

LEMMA RestType ==
  ASSUME Typed, NEW e \in Epoch, NEW from, NEW to \in {"top", "over"},
         ReaderRests(e, from, to)
  PROVE  readers' \in [Epoch -> ReaderState]
<1>1. readers[e].stop \in BOOLEAN
  BY ReaderType
<1>2. [NoReader EXCEPT !.at = to, !.stop = readers[e].stop] \in ReaderState
  BY <1>1, IdleReader DEF ReaderState
<1> QED
  BY <1>2 DEF ReaderRests, Typed

LEMMA MoveType ==
  ASSUME Typed, NEW e \in Epoch, NEW from,
         NEW to \in {"top", "check", "end", "number", "put", "ring"},
         ReaderMoves(e, from, to)
  PROVE  readers' \in [Epoch -> ReaderState]
<1>1. [readers[e] EXCEPT !.at = to] \in ReaderState
  BY ReaderType DEF ReaderState
<1> QED
  BY <1>1 DEF ReaderMoves, Typed

\* A reader that rests or moves changes its own state only.
LEMMA RestShape ==
  ASSUME Typed, NEW e \in Epoch, NEW from, NEW to, ReaderRests(e, from, to)
  PROVE  /\ readers[e].at = from /\ readers'[e].at = to
         /\ \A x \in Epoch : x # e => readers'[x] = readers[x]
<1>1. PICK r : r = [NoReader EXCEPT !.at = to, !.stop = readers[e].stop]
  OBVIOUS
<1>2. r.at = to
  BY <1>1 DEF NoReader
<1>3. readers' = [readers EXCEPT ![e] = r] /\ readers[e].at = from
  BY <1>1 DEF ReaderRests
<1> QED
  BY <1>2, <1>3 DEF Typed

LEMMA MoveShape ==
  ASSUME Typed, NEW e \in Epoch, NEW from, NEW to, ReaderMoves(e, from, to)
  PROVE  /\ readers[e].at = from /\ readers'[e].at = to
         /\ \A x \in Epoch : x # e => readers'[x] = readers[x]
         /\ readers'[e].line = readers[e].line
         /\ readers'[e].waited = readers[e].waited
         /\ readers'[e].ended = readers[e].ended
BY ReaderType DEF ReaderMoves, Typed, ReaderState

LEMMA DropType ==
  ASSUME NEW d \in DropState
  PROVE  /\ d.count \in Nat /\ d.pending \in Nat /\ d.told \in Nat
         /\ d.count + 1 \in Nat
         /\ [d EXCEPT !.count = @ + 1, !.pending = d.count + 1] \in DropState
         /\ \A p, t \in Nat : [d EXCEPT !.pending = p, !.told = t] \in DropState
<1>1. d.count \in Nat /\ d.pending \in Nat /\ d.told \in Nat
  BY DEF DropState
<1>2. PICK n \in Nat : n = d.count + 1
  BY <1>1
<1>3. [d EXCEPT !.count = n, !.pending = n] \in DropState
  BY <1>2 DEF DropState
<1>4. [d EXCEPT !.count = @ + 1, !.pending = d.count + 1]
        = [d EXCEPT !.count = n, !.pending = n]
  BY <1>2
<1>5. \A p, t \in Nat : [d EXCEPT !.pending = p, !.told = t] \in DropState
  BY DEF DropState
<1> QED
  BY <1>1, <1>2, <1>3, <1>4, <1>5

\* A step of a reader thread leaves the variables in their types.
ReaderStep(e) ==
  \/ ReaderStops(e) \/ ReadFails(e) \/ ReadLine(e) \/ CheckLine(e)
  \/ EndAnswer(e) \/ NumberLine(e) \/ TooLong(e) \/ PutEvent(e)
  \/ PushOut(e) \/ Ring(e)

LEMMA ReaderTyped ==
  ASSUME Typed, NEW e \in Epoch, ReaderStep(e)
  PROVE  Typed'
<1>1. CASE ReaderStops(e)
  <2>1. readers' \in [Epoch -> ReaderState]
    BY <1>1, RestType DEF ReaderStops
  <2> QED
    BY <1>1, <2>1 DEF ReaderStops, Typed
<1>2. CASE ReadFails(e)
  <2>1. readers' \in [Epoch -> ReaderState]
    BY <1>2, RestType DEF ReadFails
  <2>2. handle' \in HandleState
    BY <1>2 DEF ReadFails, Typed, HandleState
  <2> QED
    BY <1>2, <2>1, <2>2 DEF ReadFails, Typed
<1>3. CASE ReadLine(e)
  <2>1. tty.lines \in Seq(Words) /\ tty.lines # <<>>
    BY <1>3 DEF ReadLine, Typed, TtyState
  <2>2. Head(tty.lines) \in Words /\ Tail(tty.lines) \in Seq(Words)
    BY <2>1, HeadTailProperties
  <2>3. [readers[e] EXCEPT !.at = "check", !.line = Head(tty.lines)]
          \in ReaderState
    BY <2>2, ReaderType DEF ReaderState
  <2>4. readers' \in [Epoch -> ReaderState]
    BY <1>3, <2>3 DEF ReadLine, Typed
  <2>5. tty' \in TtyState
    BY <1>3, <2>2 DEF ReadLine, Typed, TtyState
  <2> QED
    BY <1>3, <2>4, <2>5 DEF ReadLine, Typed
<1>4. CASE CheckLine(e)
  <2>1. slot.id \in 0..MaxCommands /\ slot.waiting \in BOOLEAN
    BY DEF Typed, SlotState
  <2> DEFINE w == IF slot.waiting THEN slot.id ELSE 0
             b == w # 0 /\ readers[e].line.ends
             a == IF b THEN "end" ELSE "number"
  <2>2. /\ w \in 0..MaxCommands /\ b \in BOOLEAN /\ a \in {"end", "number"}
        /\ readers' = [readers EXCEPT ![e].at = a, ![e].waited = w,
                                      ![e].ended = b]
    BY <1>4, <2>1, Numbers DEF CheckLine
  <2> HIDE DEF w, a, b
  <2>3. [readers[e] EXCEPT !.at = a, !.waited = w, !.ended = b]
          \in ReaderState
    BY <2>2, ReaderType DEF ReaderState
  <2>4. readers' \in [Epoch -> ReaderState]
    BY <2>2, <2>3 DEF Typed
  <2> QED
    BY <1>4, <2>4 DEF CheckLine, Typed
<1>5. CASE EndAnswer(e)
  <2>1. readers' \in [Epoch -> ReaderState]
    BY <1>5, MoveType DEF EndAnswer
  <2>2. readers[e].line.of \in 0..MaxCommands
    BY ReaderType DEF Words
  <2>3. slot' \in SlotState
    BY <1>5, <2>2 DEF EndAnswer, Typed, SlotState
  <2> QED
    BY <1>5, <2>1, <2>3 DEF EndAnswer, Typed
<1>6. CASE NumberLine(e)
  <2>1. handle' \in HandleState /\ handle.epoch \in Nat /\ handle'.seq \in Nat
    BY <1>6 DEF NumberLine, Typed, HandleState
  <2>2. [readers[e] EXCEPT !.at = "put", !.epoch = handle.epoch,
                           !.seq = handle'.seq] \in ReaderState
    BY <2>1, ReaderType DEF ReaderState
  <2>3. readers' \in [Epoch -> ReaderState]
    BY <1>6, <2>2 DEF NumberLine, Typed
  <2> QED
    BY <1>6, <2>1, <2>3 DEF NumberLine, Typed
<1>7. CASE TooLong(e)
  <2>1. readers' \in [Epoch -> ReaderState]
    BY <1>7, RestType DEF TooLong
  <2>2. drops' \in DropState
    BY <1>7, DropType DEF TooLong, Typed
  <2> QED
    BY <1>7, <2>1, <2>2 DEF TooLong, Typed
<1>8. CASE PutEvent(e)
  <2>1. readers' \in [Epoch -> ReaderState]
    BY <1>8, MoveType DEF PutEvent
  <2>2. drops' \in DropState /\ drops.pending \in Nat
    BY <1>8 DEF PutEvent, Typed, DropState
  <2>3. events' \in Seq(Event)
    BY <1>8, <2>2, ReaderType, AppendProperties DEF PutEvent, Typed
  <2> QED
    BY <1>8, <2>1, <2>2, <2>3 DEF PutEvent, Typed
<1>9. CASE PushOut(e)
  <2>1. readers' \in [Epoch -> ReaderState]
    BY <1>9, MoveType DEF PushOut
  <2>2. drops' \in DropState /\ drops.count + 1 \in Nat
    BY <1>9, DropType DEF PushOut, Typed
  <2>3. events' \in Seq(Event)
    BY <1>9, PushOutEvents
  <2> QED
    BY <1>9, <2>1, <2>2, <2>3 DEF PushOut, Typed
<1>10. CASE Ring(e)
  <2>1. readers' \in [Epoch -> ReaderState]
    BY <1>10, RestType DEF Ring
  <2> QED
    BY <1>10, <2>1 DEF Ring, Typed
<1> QED
  BY <1>1, <1>2, <1>3, <1>4, <1>5, <1>6, <1>7, <1>8, <1>9, <1>10
     DEF ReaderStep

LEMMA OtherTyped ==
  ASSUME Typed, DeskOK, Modem \/ Sending \/ Consuming \/ Opening
  PROVE  Typed'
<1>1. ASSUME NEW line \in Words, Says(line), line.ends => tty.owed # <<>>
      PROVE  Typed'
  <2>1. tty.lines \in Seq(Words) /\ tty.owed \in Seq(Command)
    BY DEF Typed, TtyState
  <2>2. Append(tty.lines, line) \in Seq(Words)
    BY <2>1, AppendProperties
  <2>3. line.ends => Tail(tty.owed) \in Seq(Command)
    BY <1>1, <2>1, HeadTailProperties
  <2>4. tty' \in TtyState
    BY <1>1, <2>1, <2>2, <2>3 DEF Says, Typed, TtyState
  <2>5. bounds' \in BoundState
    BY <1>1, Numbers DEF Says, Typed, BoundState
  <2> QED
    BY <1>1, <2>4, <2>5 DEF Says, Typed
<1>2. CASE ModemAnswers
  <2>1. tty.owed \in Seq(Command) /\ tty.owed # <<>>
    BY <1>2 DEF ModemAnswers, Typed, TtyState
  <2>2. Head(tty.owed) \in Command
    BY <2>1, HeadTailProperties
  <2>3. \A x \in BOOLEAN :
          [of |-> Head(tty.owed), ends |-> x, long |-> FALSE] \in Words
    BY <2>2, Numbers DEF Words, Command
  <2> QED
    BY <1>1, <1>2, <2>1, <2>3 DEF ModemAnswers
<1>3. CASE Unsolicited
  <2>1. \A x \in BOOLEAN : [of |-> 0, ends |-> FALSE, long |-> x] \in Words
    BY Numbers DEF Words
  <2> QED
    BY <1>1, <1>3, <2>1 DEF Unsolicited
<1>4. CASE Unplug
  <2>1. tty' \in TtyState
    BY <1>4, EmptySeq DEF Unplug, TtyState
  <2>2. bounds' \in BoundState
    BY <1>4, Numbers DEF Unplug, Typed, BoundState
  <2> QED
    BY <1>4, <2>1, <2>2 DEF Unplug, Typed
<1>5. CASE Plug
  <2>1. tty' \in TtyState
    BY <1>5 DEF Plug, Typed, TtyState
  <2> QED
    BY <1>5, <2>1 DEF Plug, Typed
<1>6. CASE SendAt
  <2>1. bounds' \in BoundState
    BY <1>6, Numbers DEF SendAt, Typed, BoundState
  <2>2. desk' \in DeskState
    BY <1>6 DEF SendAt, Typed, DeskState
  <2> QED
    BY <1>6, <2>1, <2>2 DEF SendAt, Typed
<1>7. CASE Arm
  <2>1. slot' \in SlotState
    BY <1>7, Numbers DEF Arm, Typed, SlotState, BoundState
  <2>2. desk' \in DeskState
    BY <1>7 DEF Arm, Typed, DeskState
  <2> QED
    BY <1>7, <2>1, <2>2 DEF Arm, Typed
<1>8. CASE WriteAt
  <2>1. tty.owed \in Seq(Command) /\ slot.id \in Command
    BY <1>8 DEF WriteAt, DeskOK, Typed, TtyState
  <2>2. Append(tty.owed, slot.id) \in Seq(Command)
    BY <2>1, AppendProperties
  <2>3. tty' \in TtyState
    BY <1>8, <2>2 DEF WriteAt, Typed, TtyState
  <2>4. desk' \in DeskState
    BY <1>8 DEF WriteAt, Typed, DeskState
  <2> QED
    BY <1>8, <2>3, <2>4 DEF WriteAt, Typed
<1>9. CASE WriteFails \/ DeadlinePasses
  <2>1. slot.id \in Command /\ past \in PastState
    BY <1>9 DEF WriteFails, DeadlinePasses, DeskOK, Typed
  <2>2. past' \in PastState
    BY <1>9, <2>1 DEF WriteFails, DeadlinePasses, GiveUp, PastState
  <2>3. desk' \in DeskState
    BY <1>9 DEF WriteFails, DeadlinePasses, GiveUp, Typed, DeskState
  <2>4. slot' \in SlotState
    <3>1. CASE WriteFails
      <4>1. slot \in SlotState /\ slot' = [slot EXCEPT !.waiting = FALSE]
        BY <3>1 DEF WriteFails, Typed
      <4> QED
        BY <4>1 DEF SlotState
    <3>2. CASE DeadlinePasses
      <4>1. /\ slot \in SlotState /\ 0 \in 0..MaxCommands
            /\ slot' = [slot EXCEPT !.waiting = FALSE, !.id = 0]
        BY <3>2, Numbers DEF DeadlinePasses, Typed
      <4> QED
        BY <4>1 DEF SlotState
    <3> QED
      BY <1>9, <3>1, <3>2
  <2> QED
    BY <1>9, <2>2, <2>3, <2>4 DEF WriteFails, DeadlinePasses, Typed
<1>10. CASE Woken
  <2>1. slot.id \in Command /\ slot.ended \in 0..MaxCommands
    BY <1>10 DEF Woken, DeskOK, Typed, SlotState
  <2>2. past' \in PastState
    <3>1. <<slot.id, slot.ended>> \in Command \X (0..MaxCommands)
      BY <2>1
    <3> QED
      BY <1>10, <3>1 DEF Woken, Typed, PastState
  <2>3. desk' \in DeskState
    BY <1>10 DEF Woken, Typed, DeskState
  <2>4. slot' \in SlotState
    BY <1>10, Numbers DEF Woken, Typed, SlotState
  <2> QED
    BY <1>10, <2>2, <2>3, <2>4 DEF Woken, Typed
<1>11. CASE DrainPipe \/ PublishEnds \/ RingAgain
  <2>1. desk' \in DeskState
    BY <1>11, Numbers DEF DrainPipe, PublishEnds, RingAgain, Remaining, Typed,
                          DeskState
  <2> QED
    BY <1>11, <2>1 DEF DrainPipe, PublishEnds, RingAgain, Typed
<1>12. CASE Publish
  <2>1. /\ Head(events) \in Event /\ Tail(events) \in Seq(Event)
        /\ drops \in DropState
    BY <1>12, HeadTailProperties DEF Publish, Typed
  <2>2. PICK h \in Event : h = Head(events)
    BY <2>1
  <2>3. h.drop \in Nat /\ h.epoch \in Nat /\ h.seq \in Nat
    BY <2>2 DEF Event
  <2>4. PICK p, t \in Nat : drops' = [drops EXCEPT !.pending = p, !.told = t]
    BY <1>12, <2>1, <2>2, <2>3, DropType DEF Publish, Pending
  <2>5. drops' \in DropState
    BY <2>1, <2>4, DropType
  <2>6. past' \in PastState
    <3>1. past \in PastState /\ past.out \in Nat
      BY DEF Typed, PastState
    <3>2. PICK L : L = [epoch : Nat, seq : Nat]
      OBVIOUS
    <3>3. PICK l \in L : l = [epoch |-> h.epoch, seq |-> h.seq]
      BY <2>3, <3>2
    <3>4. PICK n \in Nat : n = past.out + 1
      BY <3>1
    <3>5. past' = [past EXCEPT !.last = l, !.out = n]
      BY <1>12, <2>2, <3>3, <3>4 DEF Publish
    <3>6. PICK G, R : PastState = [givenUp : G, answers : R, last : L, out : Nat]
      BY <3>2 DEF PastState
    <3> QED
      BY <3>1, <3>3, <3>4, <3>5, <3>6
  <2>7. desk' \in DeskState
    <3>1. desk \in DeskState /\ desk.done \in Nat /\ desk.done < DrainBudget
      BY <1>12 DEF Publish, Typed, DeskState
    <3>2. PICK n \in 0..DrainBudget : n = desk.done + 1
      BY <3>1, Numbers
    <3>3. desk' = [desk EXCEPT !.done = n]
      BY <1>12, <3>2 DEF Publish
    <3> QED
      BY <3>1, <3>3 DEF DeskState
  <2> QED
    BY <1>12, <2>1, <2>5, <2>6, <2>7 DEF Publish, Typed
<1>13. CASE MainOpens \/ MonitorLooks \/ StopReader
  <2>1. opener' \in OpenerState
    BY <1>13 DEF MainOpens, MonitorLooks, StopReader, Typed, OpenerState
  <2>2. readers' \in [Epoch -> ReaderState]
    <3>1. \A x \in Epoch : [readers[x] EXCEPT !.stop = TRUE] \in ReaderState
      BY DEF Typed, ReaderState
    <3> QED
      BY <1>13, <3>1 DEF MainOpens, MonitorLooks, StopReader, Typed
  <2> QED
    BY <1>13, <2>1, <2>2 DEF MainOpens, MonitorLooks, StopReader, Typed
<1>14. CASE AlreadyOpen
  <2>1. opener' \in OpenerState /\ desk' \in DeskState
    BY <1>14 DEF AlreadyOpen, NoOpener, Typed, OpenerState, DeskState
  <2> QED
    BY <1>14, <2>1 DEF AlreadyOpen, Typed
<1>15. CASE MarkClosed
  <2>1. opener' \in OpenerState /\ handle' \in HandleState
    BY <1>15 DEF MarkClosed, NoOpener, Typed, OpenerState, HandleState
  <2> QED
    BY <1>15, <2>1 DEF MarkClosed, Typed
<1>16. CASE OpenPort
  <2>1. opener' \in OpenerState /\ desk' \in DeskState
    BY <1>16 DEF OpenPort, NoOpener, Typed, OpenerState, DeskState
  <2>2. handle' \in HandleState
    <3>1. handle.epoch + 1 \in Nat
      BY DEF Typed, HandleState
    <3>2. \A n \in Nat : [handle EXCEPT !.open = TRUE, !.epoch = n] \in HandleState
      BY DEF Typed, HandleState
    <3> QED
      BY <1>16, <3>1, <3>2 DEF OpenPort
  <2>3. tty' \in TtyState
    BY <1>16, EmptySeq DEF OpenPort, Typed, TtyState
  <2>5. [NoReader EXCEPT !.at = "top"] \in ReaderState
    BY IdleReader DEF ReaderState
  <2>6. readers' \in [Epoch -> ReaderState]
    BY <1>16, <2>5 DEF OpenPort, Typed
  <2> QED
    BY <1>16, <2>1, <2>2, <2>3, <2>6 DEF OpenPort, Typed
<1>17. CASE OpenFails
  <2>1. opener' \in OpenerState /\ desk' \in DeskState
    BY <1>17 DEF OpenFails, NoOpener, Typed, OpenerState, DeskState
  <2>2. opener.by = "main" => bounds.sent \in Command
    BY DEF DeskOK
  <2>3. past' \in PastState
    BY <1>17, <2>2 DEF OpenFails, Typed, PastState
  <2> QED
    BY <1>17, <2>1, <2>3 DEF OpenFails, Typed
<1> QED
  BY <1>2, <1>3, <1>4, <1>5, <1>6, <1>7, <1>8, <1>9, <1>10, <1>11, <1>12,
     <1>13, <1>14, <1>15, <1>16, <1>17
     DEF Modem, Sending, Consuming, Opening

LEMMA ReaderDesk ==
  ASSUME Base, NEW e \in Epoch, ReaderStep(e)
  PROVE  DeskOK' /\ ReadersOK'
<1>0. Typed /\ DeskOK /\ ReadersOK
  BY DEF Base
<1>1. CASE ReaderStops(e)
  BY <1>1, <1>0 DEF ReaderStops, ReaderRests, NoReader, Typed, DeskOK, ReadersOK, Busy, ReaderOver
<1>2. CASE ReadFails(e)
  BY <1>2, <1>0 DEF ReadFails, ReaderRests, NoReader, Typed, DeskOK, ReadersOK, Busy, ReaderOver
<1>3. CASE ReadLine(e)
  BY <1>3, <1>0 DEF ReadLine, Typed, DeskOK, ReadersOK, Busy, ReaderOver
<1>4. CASE CheckLine(e)
  BY <1>4, <1>0 DEF CheckLine, Typed, DeskOK, ReadersOK, Busy, ReaderOver
<1>5. CASE EndAnswer(e)
  BY <1>5, <1>0 DEF EndAnswer, ReaderMoves, Typed, DeskOK, ReadersOK, Busy, ReaderOver
<1>6. CASE NumberLine(e)
  BY <1>6, <1>0 DEF NumberLine, Typed, DeskOK, ReadersOK, Busy, ReaderOver
<1>7. CASE TooLong(e)
  BY <1>7, <1>0 DEF TooLong, ReaderRests, NoReader, Typed, DeskOK, ReadersOK, Busy, ReaderOver
<1>8. CASE PutEvent(e)
  BY <1>8, <1>0 DEF PutEvent, ReaderMoves, Typed, DeskOK, ReadersOK, Busy, ReaderOver
<1>9. CASE PushOut(e)
  BY <1>9, <1>0 DEF PushOut, ReaderMoves, Typed, DeskOK, ReadersOK, Busy, ReaderOver
<1>10. CASE Ring(e)
  BY <1>10, <1>0 DEF Ring, ReaderRests, NoReader, Typed, DeskOK, ReadersOK, Busy, ReaderOver
<1> QED
  BY <1>1, <1>2, <1>3, <1>4, <1>5, <1>6, <1>7, <1>8, <1>9, <1>10 DEF ReaderStep

LEMMA OtherDesk ==
  ASSUME Base, Modem \/ Sending \/ Consuming \/ Opening
  PROVE  DeskOK' /\ ReadersOK'
<1>0. Typed /\ DeskOK /\ ReadersOK
  BY DEF Base
<1>1. CASE ModemAnswers
  BY <1>1, <1>0 DEF ModemAnswers, Says, Typed, DeskOK, ReadersOK, Busy, ReaderOver
<1>2. CASE Unsolicited
  BY <1>2, <1>0 DEF Unsolicited, Says, Typed, DeskOK, ReadersOK, Busy, ReaderOver
<1>3. CASE Unplug
  BY <1>3, <1>0 DEF Unplug, Typed, DeskOK, ReadersOK, Busy, ReaderOver
<1>4. CASE Plug
  BY <1>4, <1>0 DEF Plug, Typed, DeskOK, ReadersOK, Busy, ReaderOver
<1>5. CASE SendAt
  <2>1. bounds'.sent \in Command
    BY <1>5, <1>0, Numbers DEF SendAt, Typed, BoundState, Command
  <2>2. /\ ~slot.waiting /\ opener.by # "main" /\ slot' = slot
        /\ desk'.at \in {"arm", "open"} /\ opener' = opener
        /\ handle' = handle /\ readers' = readers
    BY <1>5, <1>0 DEF SendAt, Typed, DeskState, DeskOK
  <2> QED
    BY <1>0, <2>1, <2>2 DEF DeskOK, ReadersOK, Busy, ReaderOver
<1>6. CASE Arm
  BY <1>6, <1>0 DEF Arm, Typed, DeskOK, ReadersOK, Busy, ReaderOver
<1>7. CASE WriteAt
  BY <1>7, <1>0 DEF WriteAt, Typed, DeskOK, ReadersOK, Busy, ReaderOver
<1>8. CASE WriteFails
  BY <1>8, <1>0 DEF WriteFails, GiveUp, Typed, DeskOK, ReadersOK, Busy, ReaderOver
<1>9. CASE Woken
  BY <1>9, <1>0 DEF Woken, Typed, DeskOK, ReadersOK, Busy, ReaderOver
<1>10. CASE DeadlinePasses
  BY <1>10, <1>0 DEF DeadlinePasses, GiveUp, Typed, DeskOK, ReadersOK, Busy, ReaderOver
<1>11. CASE DrainPipe
  BY <1>11, <1>0 DEF DrainPipe, Typed, DeskOK, ReadersOK, Busy, ReaderOver
<1>12. CASE Publish
  BY <1>12, <1>0 DEF Publish, Typed, DeskOK, ReadersOK, Busy, ReaderOver
<1>13. CASE PublishEnds
  BY <1>13, <1>0 DEF PublishEnds, Remaining, Typed, DeskOK, ReadersOK, Busy, ReaderOver
<1>14. CASE RingAgain
  BY <1>14, <1>0 DEF RingAgain, Typed, DeskOK, ReadersOK, Busy, ReaderOver
<1>15. CASE MainOpens
  BY <1>15, <1>0 DEF MainOpens, NoOpener, Typed, DeskOK, ReadersOK, Busy, ReaderOver
<1>16. CASE MonitorLooks
  BY <1>16, <1>0 DEF MonitorLooks, NoOpener, Typed, DeskOK, ReadersOK, Busy, ReaderOver
<1>17. CASE AlreadyOpen
  BY <1>17, <1>0 DEF AlreadyOpen, NoOpener, Typed, DeskOK, ReadersOK, Busy, ReaderOver
<1>18. CASE StopReader
  BY <1>18, <1>0 DEF StopReader, Typed, DeskOK, ReadersOK, Busy, ReaderOver
<1>19. CASE MarkClosed
  BY <1>19, <1>0 DEF MarkClosed, NoOpener, Typed, DeskOK, ReadersOK, Busy, ReaderOver
<1>20. CASE OpenPort
  <2>1. DeskOK'
    BY <1>20, <1>0 DEF OpenPort, NoOpener, Typed, DeskState, DeskOK
  <2>2. \A x \in Epoch : ~Busy(x)
    BY <1>20, <1>0 DEF OpenPort, ReadersOK, ReaderOver, Busy
  <2>3. \A x \in Epoch : x # handle'.epoch => readers'[x] = readers[x]
    BY <1>20, <1>0 DEF OpenPort, Typed
  <2>4. ReadersOK'
    BY <1>20, <2>2, <2>3 DEF OpenPort, NoOpener, ReadersOK, Busy
  <2> QED
    BY <2>1, <2>4
<1>21. CASE OpenFails
  <2>1. DeskOK'
    BY <1>21, <1>0 DEF OpenFails, NoOpener, Typed, DeskState, DeskOK
  <2>2. ReadersOK'
    BY <1>21, <1>0 DEF OpenFails, NoOpener, ReadersOK, Busy, ReaderOver
  <2> QED
    BY <2>1, <2>2
<1> QED
  BY <1>1, <1>2, <1>3, <1>4, <1>5, <1>6, <1>7, <1>8, <1>9, <1>10, <1>11, <1>12, <1>13, <1>14, <1>15, <1>16, <1>17, <1>18, <1>19, <1>20, <1>21 DEF Modem, Sending, Consuming, Opening

LEMMA BaseNext == Base /\ [DaemonNext]_daemonVars => Base'
<1> SUFFICES ASSUME Base, [DaemonNext]_daemonVars PROVE Base'
  OBVIOUS
<1>0. Typed /\ DeskOK /\ ReadersOK
  BY DEF Base
<1>1. ASSUME NEW e \in Epoch, ReaderStep(e) PROVE Base'
  BY <1>0, <1>1, ReaderTyped, ReaderDesk DEF Base
<1>2. CASE Modem \/ Sending \/ Consuming \/ Opening
  BY <1>0, <1>2, OtherTyped, OtherDesk DEF Base
<1>3. CASE UNCHANGED daemonVars
  BY <1>0, <1>3 DEF daemonVars, Base, Typed, DeskOK, ReadersOK, Busy,
                    ReaderOver
<1> QED
  BY <1>1, <1>2, <1>3 DEF DaemonNext, Reader, ReaderStep

-----------------------------------------------------------------------------

(***************************************************************************)
(* at_line_events.c:10-17, 121-191: no line waits without anyone coming.    *)
(***************************************************************************)
LEMMA WakeupNext ==
  Base /\ NoLostWakeup /\ [DaemonNext]_daemonVars => NoLostWakeup'
<1> SUFFICES ASSUME Base, NoLostWakeup, [DaemonNext]_daemonVars
             PROVE  NoLostWakeup'
  OBVIOUS
<1>0. /\ readers \in [Epoch -> ReaderState] /\ desk \in DeskState
      /\ events \in Seq(Event)
      /\ opener.step = "open" => \A x \in Epoch : ~Busy(x)
  BY DEF Base, Typed, ReadersOK, ReaderOver, Busy
<1>1. ASSUME NEW e \in Epoch, ReaderStep(e)
      PROVE  NoLostWakeup'
  <2>1. CASE PutEvent(e) \/ PushOut(e)
    <3>1. readers'[e].at = "ring"
      BY <2>1, <1>0 DEF PutEvent, PushOut, ReaderMoves, ReaderState
    <3> QED
      BY <3>1 DEF NoLostWakeup
  <2>2. CASE Ring(e)
    BY <2>2 DEF Ring, NoLostWakeup
  <2>3. CASE \/ ReaderStops(e) \/ ReadFails(e) \/ ReadLine(e) \/ CheckLine(e)
             \/ EndAnswer(e) \/ NumberLine(e) \/ TooLong(e)
    <3>1. /\ UNCHANGED <<events, bell, desk>> /\ readers[e].at # "ring"
          /\ \A x \in Epoch : x # e => readers'[x] = readers[x]
      BY <2>3, <1>0
         DEF ReaderStops, ReadFails, ReadLine, CheckLine, EndAnswer,
             NumberLine, TooLong, ReaderMoves, ReaderRests
    <3> QED
      BY <3>1 DEF NoLostWakeup
  <2> QED
    BY <1>1, <2>1, <2>2, <2>3 DEF ReaderStep
<1>2. CASE Modem \/ UNCHANGED daemonVars
  BY <1>2 DEF Modem, ModemAnswers, Unsolicited, Says, Unplug, Plug, daemonVars,
              NoLostWakeup
<1>3. CASE Sending
  BY <1>3, <1>0 DEF Sending, SendAt, Arm, WriteAt, WriteFails, Woken,
              DeadlinePasses, GiveUp, NoLostWakeup, DeskState
<1>4. CASE Consuming
  <2>1. CASE DrainPipe
    BY <2>1, <1>0 DEF DrainPipe, NoLostWakeup, DeskState
  <2>2. CASE Publish
    BY <2>2, <1>0 DEF Publish, NoLostWakeup, DeskState
  <2>3. CASE PublishEnds
    BY <2>3 DEF PublishEnds, Remaining, NoLostWakeup
  <2>4. CASE RingAgain
    BY <2>4 DEF RingAgain, NoLostWakeup
  <2> QED
    BY <1>4, <2>1, <2>2, <2>3, <2>4 DEF Consuming
<1>5. CASE Opening
  <2>1. CASE OpenPort
    <3>1. /\ UNCHANGED <<events, bell>>
          /\ \A x \in Epoch : readers[x].at # "ring"
      BY <2>1, <1>0 DEF OpenPort, Busy
    <3>2. desk'.at \in {"publish", "ring"} \/ desk.at \notin {"publish", "ring"}
      <4>1. opener.by = "main" => desk.at = "open"
        BY DEF Base, DeskOK
      <4> QED
        BY <2>1, <4>1 DEF OpenPort
    <3> QED
      BY <3>1, <3>2 DEF NoLostWakeup
  <2>2. CASE StopReader
    <3>1. /\ UNCHANGED <<events, bell, desk>>
          /\ \A x \in Epoch : readers'[x].at = readers[x].at
      BY <2>2, <1>0 DEF StopReader, ReaderState
    <3> QED
      BY <3>1 DEF NoLostWakeup
  <2>3. CASE MainOpens \/ MonitorLooks \/ AlreadyOpen \/ MarkClosed \/ OpenFails
    <3>1. UNCHANGED <<events, bell, readers>>
      BY <2>3 DEF MainOpens, MonitorLooks, AlreadyOpen, MarkClosed, OpenFails
    <3>2. desk' = desk \/ desk.at = "open"
      BY <2>3 DEF MainOpens, MonitorLooks, AlreadyOpen, MarkClosed, OpenFails,
                  Base, DeskOK
    <3> QED
      BY <3>1, <3>2 DEF NoLostWakeup
  <2> QED
    BY <1>5, <2>1, <2>2, <2>3 DEF Opening
<1> QED
  BY <1>1, <1>2, <1>3, <1>4, <1>5 DEF DaemonNext, Reader, ReaderStep

(***************************************************************************)
(* at_line_events.c:56-119: no loss goes untold.  What is told, pending or  *)
(* written into an event is a count that drop_count has had.                *)
(***************************************************************************)
DropsBounded ==
  /\ drops.told <= drops.count
  /\ drops.pending <= drops.count
  /\ \A i \in DOMAIN events : events[i].drop <= drops.count

DropsOK == DropsBounded /\ CountIsTold

LEMMA DropsNext ==
  Base /\ DropsOK /\ [DaemonNext]_daemonVars => DropsOK'
<1> SUFFICES ASSUME Base, DropsOK, [DaemonNext]_daemonVars PROVE DropsOK'
  OBVIOUS
<1>0. /\ events \in Seq(Event) /\ drops \in DropState
      /\ drops.count \in Nat /\ drops.pending \in Nat /\ drops.told \in Nat
      /\ Len(events) \in Nat /\ DOMAIN events = 1..Len(events)
  BY LenProperties, DropType DEF Base, Typed
<1>1. \A i \in 1..Len(events) : events[i] \in Event /\ events[i].drop \in Nat
  <2>1. \A i \in 1..Len(events) : events[i] \in Event
    BY <1>0, ElementOfSeq
  <2> QED
    BY <2>1 DEF Event
<1>2. /\ drops.told <= drops.count /\ drops.pending <= drops.count
      /\ \A i \in 1..Len(events) : events[i].drop <= drops.count
      /\ \/ drops.count = drops.told
         \/ drops.count = drops.pending
         \/ \E i \in 1..Len(events) : events[i].drop = drops.count
  BY <1>0 DEF DropsOK, DropsBounded, CountIsTold
<1>3. ASSUME UNCHANGED <<events, drops>> PROVE DropsOK'
  BY <1>3 DEF DropsOK, DropsBounded, CountIsTold
<1>4. ASSUME NEW e \in Epoch, TooLong(e) PROVE DropsOK'
  <2>1. /\ events' = events /\ drops'.count = drops.count + 1
        /\ drops'.pending = drops.count + 1 /\ drops'.told = drops.told
    BY <1>0, <1>4 DEF TooLong, DropState
  <2> QED
    BY <1>0, <1>1, <1>2, <2>1 DEF DropsOK, DropsBounded, CountIsTold
<1>5. ASSUME NEW e \in Epoch, PutEvent(e) PROVE DropsOK'
  <2>1. PICK v \in Event : v = NewEvent(readers[e], drops.pending)
    BY <1>0, ReaderType DEF Base
  <2>2. v.drop = drops.pending
    BY <2>1 DEF NewEvent
  <2>3. /\ events' = Append(events, v)
        /\ drops'.count = drops.count /\ drops'.told = drops.told
        /\ drops'.pending = 0
    BY <1>0, <1>5, <2>1 DEF PutEvent, DropState
  <2>4. /\ events' \in Seq(Event) /\ Len(events') = Len(events) + 1
        /\ \A i \in 1..Len(events) : events'[i] = events[i]
        /\ events'[Len(events) + 1] = v
    BY <1>0, <2>3, AppendProperties
  <2>5. DOMAIN events' = 1..(Len(events) + 1)
    BY <2>4, LenProperties
  <2>6. /\ \A i \in DOMAIN events' : events'[i].drop <= drops.count
        /\ drops.count = drops.told
             \/ \E i \in DOMAIN events' : events'[i].drop = drops.count
    BY <1>0, <1>1, <1>2, <2>2, <2>4, <2>5
  <2> QED
    BY <1>0, <1>2, <2>3, <2>6 DEF DropsOK, DropsBounded, CountIsTold
<1>6. ASSUME NEW e \in Epoch, PushOut(e) PROVE DropsOK'
  <2>1. PICK v \in Event : v = NewEvent(readers[e], 0)
    BY ReaderType DEF Base
  <2>2. v.drop = 0
    BY <2>1 DEF NewEvent
  <2>3. /\ drops'.count = drops.count + 1 /\ drops'.told = drops.told
        /\ drops'.pending = drops.count + 1
    BY <1>0, <1>6 DEF PushOut, DropState
  <2>5. /\ Len(events) >= 2
        /\ events' \in Seq(Event) /\ Len(events') = Len(events)
        /\ \A i \in 1..(Len(events) - 1) :
             events'[i].drop = IF i = 1 THEN drops.count + 1
                                        ELSE events[i + 1].drop
        /\ events'[Len(events)] = v
    BY <1>6, <2>1, PushOutEvents DEF Base
  <2>6. DOMAIN events' = 1..Len(events)
    BY <2>5, LenProperties
  <2>7. ASSUME NEW i \in DOMAIN events'
        PROVE  events'[i].drop <= drops.count + 1
    <3>1. CASE i = Len(events)
      BY <1>0, <2>2, <2>5, <3>1
    <3>2. CASE i # Len(events)
      <4>1. i \in 1..(Len(events) - 1) /\ i + 1 \in 1..Len(events)
        BY <1>0, <2>6, <3>2
      <4>2. events[i + 1].drop \in Nat /\ events[i + 1].drop <= drops.count
        BY <1>1, <1>2, <4>1
      <4> QED
        BY <1>0, <2>5, <4>1, <4>2
    <3> QED
      BY <3>1, <3>2
  <2> QED
    BY <1>0, <1>2, <2>3, <2>7 DEF DropsOK, DropsBounded, CountIsTold
<1>7. CASE Publish
  <2>1. events # <<>> /\ Head(events) = events[1] /\ 1 \in 1..Len(events)
    BY <1>0, <1>7, EmptySeq DEF Publish
  <2>2. PICK h \in Event : h = Head(events)
    BY <1>1, <2>1
  <2>3. /\ events' = Tail(events)
        /\ drops'.count = drops.count
        /\ drops'.pending = IF h.drop # 0 /\ h.drop = drops.count
                            THEN 0 ELSE drops.pending
        /\ drops'.told = IF h.drop > drops.told THEN h.drop ELSE drops.told
    BY <1>0, <1>7, <2>2 DEF Publish, Pending, DropState
  <2>4. /\ events' \in Seq(Event) /\ Len(events') = Len(events) - 1
        /\ \A i \in 1..Len(events') : events'[i] = events[i + 1]
    BY <1>0, <2>1, <2>3, HeadTailProperties
  <2>5. DOMAIN events' = 1..(Len(events) - 1)
    BY <2>4, LenProperties
  <2>6. h.drop = events[1].drop /\ h.drop \in Nat /\ h.drop <= drops.count
    BY <1>1, <1>2, <2>1, <2>2
  <2>7. \A i \in DOMAIN events' : events'[i].drop <= drops.count
    BY <1>0, <1>2, <2>4, <2>5
  <2>8. \/ drops'.count \in {drops'.told, drops'.pending}
        \/ \E i \in DOMAIN events' : events'[i].drop = drops.count
    <3>1. CASE drops.count = drops.told
      BY <1>0, <2>3, <2>6, <3>1
    <3>2. CASE drops.count = drops.pending
      BY <1>0, <1>2, <2>3, <2>6, <3>2
    <3>3. ASSUME NEW i \in 1..Len(events), events[i].drop = drops.count
          PROVE  \/ drops'.count \in {drops'.told, drops'.pending}
                 \/ \E j \in DOMAIN events' : events'[j].drop = drops.count
      <4>1. CASE i = 1
        BY <1>0, <1>2, <2>3, <2>6, <3>3, <4>1
      <4>2. CASE i # 1
        <5>1. i - 1 \in 1..(Len(events) - 1) /\ (i - 1) + 1 = i
          BY <1>0, <4>2
        <5> QED
          BY <2>4, <2>5, <3>3, <5>1
      <4> QED
        BY <4>1, <4>2
    <3> QED
      BY <1>2, <3>1, <3>2, <3>3
  <2> QED
    BY <1>0, <1>2, <2>3, <2>6, <2>7, <2>8
       DEF DropsOK, DropsBounded, CountIsTold
<1>8. ASSUME NEW e \in Epoch,
             \/ ReaderStops(e) \/ ReadFails(e) \/ ReadLine(e) \/ CheckLine(e)
             \/ EndAnswer(e) \/ NumberLine(e) \/ Ring(e)
      PROVE  UNCHANGED <<events, drops>>
  BY <1>8 DEF ReaderStops, ReadFails, ReadLine, CheckLine, EndAnswer,
              NumberLine, Ring
<1>9. CASE Modem \/ Sending \/ Opening \/ UNCHANGED daemonVars
  <2>1. UNCHANGED <<events, drops>>
    BY <1>9 DEF Modem, ModemAnswers, Unsolicited, Says, Unplug, Plug,
                Sending, SendAt, Arm, WriteAt, WriteFails, Woken,
                DeadlinePasses, Opening, MainOpens, MonitorLooks, AlreadyOpen,
                StopReader, MarkClosed, OpenPort, OpenFails, daemonVars
  <2> QED
    BY <1>3, <2>1
<1>10. CASE DrainPipe \/ PublishEnds \/ RingAgain
  BY <1>3, <1>10 DEF DrainPipe, PublishEnds, RingAgain
<1> QED
  BY <1>3, <1>4, <1>5, <1>6, <1>7, <1>8, <1>9, <1>10
     DEF DaemonNext, Reader, Consuming

(***************************************************************************)
(* at_handler.c:299-410, port_manager.c:121-280: lines are numbered by one  *)
(* reader at a time, and a reader that still holds a number holds the last. *)
(***************************************************************************)
Later(x, y) == x.seq < y.seq /\ x.epoch <= y.epoch
OrderOK ==
  /\ \A i, j \in DOMAIN events : i < j => Later(events[i], events[j])
  /\ \A i \in DOMAIN events : Later(past.last, events[i])
  /\ \A i \in DOMAIN events : /\ events[i].seq <= handle.seq
                              /\ events[i].epoch <= handle.epoch
  /\ past.last.seq <= handle.seq /\ past.last.epoch <= handle.epoch
  /\ \A e \in Epoch : readers[e].at = "put" =>
       /\ readers[e].seq = handle.seq /\ readers[e].epoch = handle.epoch
       /\ past.last.seq < handle.seq
       /\ \A i \in DOMAIN events : events[i].seq < handle.seq

LEMMA OrderIsOrder == Typed /\ OrderOK => LinesInOrder
<1> SUFFICES ASSUME Typed, OrderOK PROVE LinesInOrder
  OBVIOUS
<1> DEFINE S == Event \cup {past.last}
           out == <<past.last>> \o events
<1>1. events \in Seq(S) /\ <<past.last>> \in Seq(S) /\ Len(<<past.last>>) = 1
      /\ <<past.last>>[1] = past.last
  BY SeqMonotonic DEF Typed
<1>2. Len(events) \in Nat /\ DOMAIN events = 1..Len(events)
  BY <1>1, LenProperties
<1>3. /\ Len(out) = 1 + Len(events)
      /\ out[1] = past.last
      /\ \A i \in 1..Len(events) : out[i + 1] = events[i]
  BY <1>1, <1>2, ConcatProperties
<1> HIDE DEF out
<1>4. ASSUME NEW i \in 1..(Len(out) - 1)
      PROVE  Later(out[i], out[i + 1])
  <2>1. i \in 1..Len(events) /\ out[i + 1] = events[i]
    BY <1>2, <1>3
  <2>2. CASE i = 1
    BY <1>2, <1>3, <2>1, <2>2 DEF OrderOK
  <2>3. CASE i # 1
    <3>1. i - 1 \in 1..Len(events) /\ (i - 1) + 1 = i /\ i - 1 < i
      BY <1>2, <2>1, <2>3
    <3>2. out[i] = events[i - 1]
      BY <1>3, <3>1
    <3> QED
      BY <1>2, <2>1, <3>1, <3>2 DEF OrderOK
  <2> QED
    BY <2>2, <2>3
<1> QED
  BY <1>4 DEF LinesInOrder, Later, out

LEMMA OrderNext ==
  Base /\ OrderOK /\ [DaemonNext]_daemonVars => OrderOK'
<1> SUFFICES ASSUME Base, OrderOK, [DaemonNext]_daemonVars PROVE OrderOK'
  OBVIOUS
<1>0. /\ events \in Seq(Event) /\ readers \in [Epoch -> ReaderState]
      /\ handle.seq \in Nat /\ handle.epoch \in Nat
      /\ past.last.seq \in Nat /\ past.last.epoch \in Nat
      /\ Len(events) \in Nat /\ DOMAIN events = 1..Len(events)
  BY LenProperties DEF Base, Typed, HandleState, PastState
<1>1. \A i \in 1..Len(events) : events[i].seq \in Nat /\ events[i].epoch \in Nat
  <2>1. \A i \in 1..Len(events) : events[i] \in Event
    BY <1>0, ElementOfSeq
  <2> QED
    BY <2>1 DEF Event
<1>2. \A e \in Epoch : Busy(e) => e = handle.epoch
  BY DEF Base, ReadersOK
\* Steps that put no line into the queue and take none out.
<1>3. ASSUME UNCHANGED <<events, past>>,
             handle'.seq = handle.seq, handle'.epoch = handle.epoch,
             \A x \in Epoch : readers'[x].at = "put" =>
               /\ readers[x].at = "put" /\ readers'[x].seq = readers[x].seq
               /\ readers'[x].epoch = readers[x].epoch
      PROVE  OrderOK'
  BY <1>3 DEF OrderOK
<1>4. ASSUME NEW e \in Epoch, ReaderStep(e)
      PROVE  OrderOK'
  <2>1. CASE NumberLine(e)
    <3>1. /\ handle'.seq = handle.seq + 1 /\ handle'.epoch = handle.epoch
          /\ readers'[e].seq = handle.seq + 1
          /\ readers'[e].epoch = handle.epoch
          /\ \A x \in Epoch : x # e => readers'[x] = readers[x]
          /\ UNCHANGED <<events, past>>
      BY <1>0, <2>1 DEF NumberLine, Base, Typed, HandleState, ReaderState
    <3>2. \A x \in Epoch : readers'[x].at = "put" => x = e
      BY <1>2, <2>1, <3>1 DEF NumberLine, Busy
    <3> QED
      BY <1>0, <1>1, <3>1, <3>2 DEF OrderOK, Later
  <2>2. CASE PutEvent(e) \/ PushOut(e)
    <3>1. PICK v \in Event : \E n \in Nat : v = NewEvent(readers[e], n)
      BY ReaderType DEF Base
    <3>2. /\ v.seq = handle.seq /\ v.epoch = handle.epoch
          /\ past.last.seq < handle.seq
          /\ \A i \in DOMAIN events : events[i].seq < handle.seq
      BY <2>2, <3>1 DEF PutEvent, PushOut, ReaderMoves, NewEvent, OrderOK
    <3>3. /\ UNCHANGED <<past, handle>>
          /\ \A x \in Epoch : readers'[x].at # "put"
      <4>1. UNCHANGED <<past, handle>> /\ ReaderMoves(e, "put", "ring")
        BY <2>2 DEF PutEvent, PushOut
      <4>2. /\ readers[e].at = "put" /\ readers'[e].at = "ring"
            /\ \A x \in Epoch : x # e => readers'[x] = readers[x]
        BY <4>1, MoveShape DEF Base
      <4> QED
        BY <1>2, <4>1, <4>2 DEF Busy
    <3> DEFINE Shifted(d) ==
            /\ events' \in Seq(Event) /\ Len(events') \in Nat \ {0}
            /\ Len(events') - 1 + d = Len(events)
            /\ \A i \in 1..(Len(events') - 1) :
                 /\ i + d \in 1..Len(events)
                 /\ events'[i].seq = events[i + d].seq
                 /\ events'[i].epoch = events[i + d].epoch
            /\ events'[Len(events')].seq = v.seq
            /\ events'[Len(events')].epoch = v.epoch
    <3>4. PICK d \in {0, 1} : Shifted(d)
      <4>1. CASE PutEvent(e)
        <5>1. /\ events' \in Seq(Event) /\ Len(events') = Len(events) + 1
              /\ \A i \in 1..Len(events) : events'[i] = events[i]
              /\ events'[Len(events) + 1] = NewEvent(readers[e], drops.pending)
          BY <4>1, PutEventEvents DEF Base
        <5>2. \A i \in 1..(Len(events') - 1) :
                i + 0 = i /\ i \in 1..Len(events)
          BY <1>0, <5>1
        <5>3. /\ events'[Len(events')].seq = v.seq
              /\ events'[Len(events')].epoch = v.epoch
          BY <3>1, <5>1 DEF NewEvent
        <5>4. Shifted(0)
          BY <1>0, <5>1, <5>2, <5>3
        <5> HIDE DEF Shifted
        <5> QED
          BY <5>4
      <4>2. CASE PushOut(e)
        <5>1. /\ events' \in Seq(Event) /\ Len(events') = Len(events)
              /\ Len(events) >= 2
              /\ \A i \in 1..(Len(events) - 1) :
                   /\ events'[i].seq = events[i + 1].seq
                   /\ events'[i].epoch = events[i + 1].epoch
              /\ events'[Len(events)] = NewEvent(readers[e], 0)
          BY <4>2, PushOutEvents DEF Base
        <5>2. \A i \in 1..(Len(events') - 1) : i + 1 \in 1..Len(events)
          BY <1>0, <5>1
        <5>3. /\ events'[Len(events')].seq = v.seq
              /\ events'[Len(events')].epoch = v.epoch
          BY <3>1, <5>1 DEF NewEvent
        <5>4. Shifted(1)
          BY <1>0, <5>1, <5>2, <5>3
        <5> HIDE DEF Shifted
        <5> QED
          BY <5>4
      <4> QED
        BY <2>2, <4>1, <4>2
    <3>5. DOMAIN events' = 1..Len(events')
      BY <3>4, LenProperties
    <3>6. \A i \in 1..(Len(events') - 1) :
            /\ events'[i].seq \in Nat /\ events'[i].epoch \in Nat
            /\ events'[i].seq < handle.seq
            /\ events'[i].epoch <= handle.epoch
            /\ Later(past.last, events'[i])
      <4>1. \A i \in 1..Len(events) :
              /\ events[i].seq \in Nat /\ events[i].epoch \in Nat
              /\ events[i].seq < handle.seq /\ events[i].epoch <= handle.epoch
              /\ Later(past.last, events[i])
        BY <1>0, <1>1, <3>2 DEF OrderOK
      <4> QED
        BY <3>4, <4>1 DEF Later
    <3>7. \A i, j \in 1..(Len(events') - 1) :
            i < j => Later(events'[i], events'[j])
      <4>1. \A i, j \in 1..Len(events) : i < j => Later(events[i], events[j])
        BY <1>0 DEF OrderOK
      <4>2. \A i, j \in 1..(Len(events') - 1) : i < j => i + d < j + d
        BY <3>4
      <4> QED
        BY <3>4, <4>1, <4>2 DEF Later
    <3>8. \A i, j \in DOMAIN events' : i < j => Later(events'[i], events'[j])
      <4> SUFFICES ASSUME NEW i \in DOMAIN events', NEW j \in DOMAIN events',
                          i < j
                   PROVE  Later(events'[i], events'[j])
        OBVIOUS
      <4>1. i \in 1..(Len(events') - 1)
        BY <3>4, <3>5
      <4>2. CASE j = Len(events')
        BY <3>2, <3>4, <3>6, <4>1, <4>2 DEF Later
      <4>3. CASE j # Len(events')
        BY <3>4, <3>5, <3>7, <4>1, <4>3
      <4> QED
        BY <4>2, <4>3
    <3>9. \A i \in DOMAIN events' :
            /\ Later(past.last, events'[i])
            /\ events'[i].seq <= handle.seq /\ events'[i].epoch <= handle.epoch
      <4> SUFFICES ASSUME NEW i \in DOMAIN events'
                   PROVE  /\ Later(past.last, events'[i])
                          /\ events'[i].seq <= handle.seq
                          /\ events'[i].epoch <= handle.epoch
        OBVIOUS
      <4>1. CASE i = Len(events')
        BY <1>0, <3>2, <3>4, <4>1 DEF OrderOK, Later
      <4>2. CASE i # Len(events')
        <5>1. i \in 1..(Len(events') - 1)
          BY <3>4, <3>5, <4>2
        <5> QED
          BY <1>0, <3>6, <5>1
      <4> QED
        BY <4>1, <4>2
    <3> QED
      BY <3>3, <3>8, <3>9 DEF OrderOK
  <2>3. CASE \/ ReaderStops(e) \/ ReadFails(e) \/ ReadLine(e) \/ CheckLine(e)
             \/ EndAnswer(e) \/ TooLong(e) \/ Ring(e)
    <3>1. /\ UNCHANGED <<events, past>>
          /\ handle'.seq = handle.seq /\ handle'.epoch = handle.epoch
      BY <2>3 DEF ReaderStops, ReadFails, ReadLine, CheckLine, EndAnswer,
                  TooLong, Ring, Base, Typed, HandleState
    <3>2. /\ readers'[e].at # "put"
          /\ \A x \in Epoch : x # e => readers'[x] = readers[x]
      <4>1. ASSUME NEW a, NEW b \in {"top", "over"}, ReaderRests(e, a, b)
            PROVE  /\ readers'[e].at # "put"
                   /\ \A x \in Epoch : x # e => readers'[x] = readers[x]
        BY <4>1, RestShape DEF Base
      <4>2. CASE ReadLine(e) \/ CheckLine(e) \/ EndAnswer(e)
        BY <1>0, <4>2 DEF ReadLine, CheckLine, EndAnswer, ReaderMoves,
                          ReaderState
      <4> QED
        BY <2>3, <4>1, <4>2 DEF ReaderStops, ReadFails, TooLong, Ring
    <3> QED
      BY <1>3, <3>1, <3>2
  <2> QED
    BY <1>4, <2>1, <2>2, <2>3 DEF ReaderStep
<1>5. CASE Publish
  <2>1. /\ Len(events) \in Nat \ {0} /\ Head(events) = events[1]
        /\ events' \in Seq(Event) /\ Len(events') = Len(events) - 1
        /\ \A i \in 1..(Len(events) - 1) : events'[i] = events[i + 1]
    BY <1>5, PublishEvents DEF Base
  <2>2. DOMAIN events' = 1..(Len(events) - 1)
    BY <2>1, LenProperties
  <2>3. /\ past'.last.seq = events[1].seq /\ past'.last.epoch = events[1].epoch
        /\ UNCHANGED <<handle, readers>>
    BY <1>5, <2>1 DEF Publish, Base, Typed, PastState
  <2>4. 1 \in DOMAIN events /\ \A i \in DOMAIN events' :
          i + 1 \in DOMAIN events /\ 1 < i + 1 /\ events'[i] = events[i + 1]
    BY <1>0, <2>1, <2>2
  <2>5. \A i, j \in DOMAIN events' : i < j => i + 1 < j + 1
    BY <2>2
  <2> QED
    BY <2>3, <2>4, <2>5 DEF OrderOK, Later
<1>6. CASE Modem \/ Sending \/ UNCHANGED daemonVars
  <2>1. UNCHANGED <<events, handle, readers>>
    BY <1>6 DEF Modem, ModemAnswers, Unsolicited, Says, Unplug, Plug,
                Sending, SendAt, Arm, WriteAt, WriteFails, Woken,
                DeadlinePasses, daemonVars
  <2>2. past'.last = past.last
    BY <1>6 DEF Modem, ModemAnswers, Unsolicited, Says, Unplug, Plug,
                Sending, SendAt, Arm, WriteAt, WriteFails, Woken, GiveUp,
                DeadlinePasses, daemonVars, Base, Typed, PastState
  <2> QED
    BY <2>1, <2>2 DEF OrderOK
<1>7. CASE DrainPipe \/ PublishEnds \/ RingAgain
  BY <1>7 DEF DrainPipe, PublishEnds, RingAgain, OrderOK
<1>8. CASE Opening
  <2>1. CASE OpenPort
    <3>1. \A x \in Epoch : ~Busy(x)
      BY <2>1 DEF OpenPort, Base, ReadersOK, ReaderOver, Busy
    <3>2. \A x \in Epoch : readers'[x].at # "put"
      BY <1>0, <2>1, <3>1 DEF OpenPort, Busy, NoReader
    <3>3. /\ handle'.seq = handle.seq /\ handle'.epoch = handle.epoch + 1
          /\ UNCHANGED <<events, past>>
      BY <2>1 DEF OpenPort, Base, Typed, HandleState
    <3> QED
      BY <1>0, <1>1, <3>2, <3>3 DEF OrderOK
  <2>2. CASE \/ MainOpens \/ MonitorLooks \/ AlreadyOpen \/ StopReader
             \/ MarkClosed \/ OpenFails
    <3>1. /\ events' = events /\ past'.last = past.last
          /\ handle'.seq = handle.seq /\ handle'.epoch = handle.epoch
      BY <2>2 DEF MainOpens, MonitorLooks, AlreadyOpen, StopReader,
                  MarkClosed, OpenFails, Base, Typed, HandleState, PastState
    <3>2. \A x \in Epoch : /\ readers'[x].at = readers[x].at
                           /\ readers'[x].seq = readers[x].seq
                           /\ readers'[x].epoch = readers[x].epoch
      <4>1. CASE StopReader
        BY <1>0, <4>1 DEF StopReader, ReaderState
      <4> QED
        BY <2>2, <4>1 DEF MainOpens, MonitorLooks, AlreadyOpen, MarkClosed,
                          OpenFails
    <3> QED
      BY <3>1, <3>2 DEF OrderOK
  <2> QED
    BY <1>8, <2>1, <2>2 DEF Opening
<1> QED
  BY <1>4, <1>5, <1>6, <1>7, <1>8
     DEF DaemonNext, Reader, ReaderStep, Consuming

(***************************************************************************)
(* at_handler.c:123-235, 359-400: which command a line is taken for.  The   *)
(* modem answers in the order it was asked, so a line that is still on its  *)
(* way belongs to the command that waits, or a command not after its own    *)
(* was given up.                                                            *)
(***************************************************************************)
Below(k) == \E c \in past.givenUp : c < k
Spoilt(k) == \E c \in past.givenUp : c <= k
Accounted(k) == k = 0 \/ (slot.waiting /\ slot.id = k) \/ Spoilt(k)

\* The last command that may have been written.
Issued ==
  IF desk.at \in {"open", "arm", "write"} THEN bounds.sent - 1 ELSE bounds.sent

\* A reader has a line that may still end an answer.
Held(e) == readers[e].at \in {"check", "end"}

Before(line, k) == line.of <= k /\ (line.ends => line.of < k)

Endings ==
  /\ \A i \in DOMAIN tty.lines : tty.lines[i].ends => tty.lines[i].of # 0
  /\ \A e \in Epoch : Held(e) =>
       /\ readers[e].line.ends => readers[e].line.of # 0
       /\ readers[e].at = "end" => readers[e].line.ends

OfIssued ==
  /\ \A i \in DOMAIN tty.lines : tty.lines[i].of <= Issued
  /\ \A i \in DOMAIN tty.owed : tty.owed[i] <= Issued
  /\ \A e \in Epoch : Held(e) => readers[e].line.of <= Issued

InTurn ==
  /\ \A i, j \in DOMAIN tty.owed : i < j => tty.owed[i] < tty.owed[j]
  /\ \A i \in DOMAIN tty.lines, j \in DOMAIN tty.owed :
       Before(tty.lines[i], tty.owed[j])
  /\ \A i, j \in DOMAIN tty.lines :
       i < j /\ tty.lines[j].of # 0 => Before(tty.lines[i], tty.lines[j].of)
  /\ \A e \in Epoch : Held(e) =>
       /\ \A j \in DOMAIN tty.owed : Before(readers[e].line, tty.owed[j])
       /\ \A j \in DOMAIN tty.lines :
            tty.lines[j].of # 0 => Before(readers[e].line, tty.lines[j].of)

AllAccounted ==
  /\ \A i \in DOMAIN tty.lines : Accounted(tty.lines[i].of)
  /\ \A i \in DOMAIN tty.owed : Accounted(tty.owed[i])
  /\ \A e \in Epoch : Held(e) => Accounted(readers[e].line.of)

SlotOK ==
  /\ desk.at = "write" /\ ~slot.waiting => Below(slot.id)
  /\ desk.at = "wait" /\ ~slot.waiting =>
       slot.ended = slot.id \/ Below(slot.id)

NumberedOK ==
  \A e \in Epoch :
    readers[e].at \in {"end", "number", "put"} /\ readers[e].waited = 0 =>
      readers[e].line.of = 0 \/ Spoilt(readers[e].line.of)

IdleOK ==
  \A i \in DOMAIN events :
    events[i].mark = "idle" /\ events[i].of # 0 => Spoilt(events[i].of)

AnswersOK == \A a \in past.answers : a[2] = a[1] \/ Below(a[1])

FlowOK ==
  /\ Endings /\ OfIssued /\ InTurn /\ AllAccounted
  /\ SlotOK /\ NumberedOK /\ IdleOK /\ AnswersOK

LEMMA FlowIsFlow == FlowOK => LinesFindTheirCommand
BY DEF FlowOK, IdleOK, AnswersOK, Below, Spoilt, LinesFindTheirCommand

LEMMA FlowInit == DaemonInit => FlowOK
BY DEF DaemonInit, FlowOK, Endings, OfIssued, InTurn, AllAccounted, SlotOK,
       NumberedOK, IdleOK, AnswersOK, Held, NoReader

\* The numbers of the lines and of the commands.
LEMMA FlowTypes ==
  ASSUME Base
  PROVE  /\ tty.lines \in Seq(Words) /\ tty.owed \in Seq(Command)
         /\ Len(tty.lines) \in Nat /\ DOMAIN tty.lines = 1..Len(tty.lines)
         /\ Len(tty.owed) \in Nat /\ DOMAIN tty.owed = 1..Len(tty.owed)
         /\ \A i \in DOMAIN tty.lines : /\ tty.lines[i] \in Words
                                        /\ tty.lines[i].of \in Nat
         /\ \A i \in DOMAIN tty.owed : tty.owed[i] \in Nat \ {0}
         /\ \A e \in Epoch : readers[e].line.of \in Nat
         /\ \A c \in past.givenUp : c \in Nat \ {0}
         /\ bounds.sent \in Nat /\ slot.id \in Nat /\ Issued \in Int
         /\ slot.waiting => slot.id \in Nat \ {0} /\ slot.id = bounds.sent
<1>1. /\ tty.lines \in Seq(Words) /\ tty.owed \in Seq(Command)
      /\ past.givenUp \subseteq Command
      /\ bounds.sent \in Nat /\ slot.id \in Nat
  BY Numbers DEF Base, Typed, TtyState, PastState, BoundState, SlotState
<1>2. Command \subseteq Nat \ {0} /\ \A w \in Words : w.of \in Nat
  BY Numbers DEF Command, Words
<1>3. /\ Len(tty.lines) \in Nat /\ DOMAIN tty.lines = 1..Len(tty.lines)
      /\ Len(tty.owed) \in Nat /\ DOMAIN tty.owed = 1..Len(tty.owed)
  BY <1>1, LenProperties
<1>4. \A i \in DOMAIN tty.lines : tty.lines[i] \in Words
  BY <1>1, <1>3, ElementOfSeq
<1>5. \A i \in DOMAIN tty.owed : tty.owed[i] \in Command
  BY <1>1, <1>3, ElementOfSeq
<1>6. \A e \in Epoch : readers[e].line \in Words
  BY ReaderType DEF Base
<1>7. slot.waiting => slot.id \in Command /\ slot.id = bounds.sent
  BY DEF Base, DeskOK
<1>8. Issued \in Int
  BY <1>1 DEF Issued
<1> QED
  BY <1>1, <1>2, <1>3, <1>4, <1>5, <1>6, <1>7, <1>8

\* Steps after which a line that was accounted for still is.
LEMMA FlowFrame ==
  ASSUME Base, FlowOK, Issued' \in Int, Issued <= Issued',
         tty'.lines = tty.lines, tty'.owed = tty.owed,
         UNCHANGED <<readers, events>>,
         past.givenUp \subseteq past'.givenUp,
         \A k \in Nat : Accounted(k) => Accounted(k)',
         SlotOK', AnswersOK'
  PROVE  FlowOK'
<1>1. Endings' /\ InTurn'
  BY DEF FlowOK, Endings, InTurn, Held
<1>2. OfIssued'
  <2>1. \A n \in Nat : n <= Issued => n <= Issued'
    BY FlowTypes
  <2> QED
    BY <2>1, FlowTypes DEF FlowOK, OfIssued, Held
<1>3. AllAccounted'
  BY FlowTypes DEF FlowOK, AllAccounted, Held
<1>4. \A k : Spoilt(k) => Spoilt(k)'
  BY DEF Spoilt
<1>5. NumberedOK' /\ IdleOK'
  BY <1>4 DEF FlowOK, NumberedOK, IdleOK
<1> QED
  BY <1>1, <1>2, <1>3, <1>5 DEF FlowOK

\* The main thread takes, arms, writes and ends a command.
LEMMA SendingFlow ==
  ASSUME Base, FlowOK, Sending
  PROVE  FlowOK'
<1>0. /\ desk \in DeskState /\ slot \in SlotState /\ past \in PastState
      /\ bounds \in BoundState
  BY DEF Base, Typed
<1>1. CASE SendAt
  <2>1. Issued' = Issued /\ UNCHANGED <<tty, readers, events, past, slot>>
        /\ desk'.at \in {"open", "arm"}
    BY <1>0, <1>1, FlowTypes DEF SendAt, Issued, DeskState, BoundState
  <2>2. \A k \in Nat : Accounted(k) => Accounted(k)'
    BY <2>1 DEF Accounted, Spoilt
  <2>3. SlotOK' /\ AnswersOK'
    BY <2>1 DEF SlotOK, FlowOK, AnswersOK, Below
  <2> QED
    BY <2>1, <2>2, <2>3, FlowFrame, FlowTypes
<1>2. CASE Arm
  <2>1. /\ Issued' = Issued /\ UNCHANGED <<tty, readers, events, past>>
        /\ slot'.waiting /\ ~slot.waiting
    BY <1>0, <1>2, FlowTypes DEF Arm, Issued, DeskState, Base, DeskOK
  <2>2. \A k \in Nat : Accounted(k) => Accounted(k)'
    BY <2>1 DEF Accounted, Spoilt
  <2>3. SlotOK' /\ AnswersOK'
    BY <2>1 DEF SlotOK, FlowOK, AnswersOK, Below
  <2> QED
    BY <2>1, <2>2, <2>3, FlowFrame, FlowTypes
<1>3. CASE Woken
  <2>1. /\ Issued' = Issued /\ UNCHANGED <<tty, readers, events>>
        /\ past'.givenUp = past.givenUp /\ ~slot.waiting
        /\ desk'.at = "loop"
        /\ past'.answers = past.answers \cup {<<slot.id, slot.ended>>}
    BY <1>0, <1>3, FlowTypes DEF Woken, Issued, DeskState, PastState
  <2>2. \A k \in Nat : Accounted(k) => Accounted(k)'
    BY <2>1 DEF Accounted, Spoilt
  <2>3. slot.ended = slot.id \/ Below(slot.id)
    BY <1>3 DEF Woken, FlowOK, SlotOK
  <2>4. SlotOK' /\ AnswersOK'
    BY <2>1, <2>3 DEF SlotOK, FlowOK, AnswersOK, Below
  <2> QED
    BY <2>1, <2>2, <2>4, FlowFrame, FlowTypes
<1>4. CASE WriteFails \/ DeadlinePasses
  <2>1. /\ UNCHANGED <<tty, readers, events, bounds>>
        /\ past'.givenUp = past.givenUp \cup {slot.id}
        /\ past'.answers = past.answers
        /\ desk'.at = "loop"
    BY <1>0, <1>4 DEF WriteFails, DeadlinePasses, GiveUp, DeskState, PastState
  <2>2. Issued' \in Int /\ Issued <= Issued'
    BY <2>1, FlowTypes DEF Issued
  <2>3. slot.id <= slot.id
    BY FlowTypes
  <2>4. \A k \in Nat : Accounted(k) => Accounted(k)'
    BY <2>1, <2>3 DEF Accounted, Spoilt
  <2>5. SlotOK' /\ AnswersOK'
    BY <2>1 DEF SlotOK, FlowOK, AnswersOK, Below
  <2> QED
    BY <2>1, <2>2, <2>4, <2>5, FlowFrame
<1>5. CASE WriteAt
  <2>0. PICK w, n : w = slot.id /\ n = Len(tty.owed)
    OBVIOUS
  <2>1. /\ w = bounds.sent /\ w \in Command /\ Issued = w - 1
        /\ w \in Nat \ {0} /\ n \in Nat
    BY <1>5, <2>0, FlowTypes, Numbers DEF WriteAt, Base, DeskOK, Issued, Command
  <2>2. /\ tty'.lines = tty.lines /\ tty'.owed = Append(tty.owed, w)
        /\ UNCHANGED <<readers, events, past, slot, bounds>>
        /\ desk.at = "write" /\ desk'.at = "wait"
    BY <1>0, <1>5, <2>0 DEF WriteAt, Base, Typed, TtyState, DeskState
  <2>3. Issued' = w
    BY <2>1, <2>2 DEF Issued
  <2>4. /\ tty'.owed \in Seq(Command) /\ Len(tty'.owed) = n + 1
        /\ \A i \in 1..n : tty'.owed[i] = tty.owed[i]
        /\ tty'.owed[n + 1] = w
    BY <2>0, <2>1, <2>2, FlowTypes, AppendProperties
  <2>5. DOMAIN tty'.owed = 1..(n + 1)
    BY <2>4, LenProperties
  <2>6. \A i \in DOMAIN tty'.owed :
          \/ i \in DOMAIN tty.owed /\ tty'.owed[i] = tty.owed[i]
          \/ i = n + 1 /\ tty'.owed[i] = w
    <3>1. DOMAIN tty.owed = 1..n
      BY <2>0, FlowTypes
    <3>2. \A i \in 1..(n + 1) : i \in 1..n \/ i = n + 1
      BY <2>1
    <3> SUFFICES ASSUME NEW i \in DOMAIN tty'.owed
                 PROVE  \/ i \in DOMAIN tty.owed /\ tty'.owed[i] = tty.owed[i]
                        \/ i = n + 1 /\ tty'.owed[i] = w
      OBVIOUS
    <3>3. i \in 1..n \/ i = n + 1
      BY <2>5, <3>2, Zenon
    <3>4. i \in 1..n => i \in DOMAIN tty.owed /\ tty'.owed[i] = tty.owed[i]
      BY <2>4, <3>1, Zenon
    <3>5. i = n + 1 => tty'.owed[i] = w
      BY <2>4, Zenon
    <3> QED
      BY <3>3, <3>4, <3>5, Zenon
  <2>7. \A k \in Nat : k <= Issued => k < w /\ k <= w
    BY <2>1
  <2>8. Endings'
    BY <2>2 DEF FlowOK, Endings, Held
  <2>9. OfIssued'
    BY <2>1, <2>2, <2>3, <2>6, <2>7, FlowTypes DEF FlowOK, OfIssued, Held
  <2>10. InTurn'
    <3>1. \A i, j \in DOMAIN tty'.owed : i < j => tty'.owed[i] < tty'.owed[j]
      <4>1. \A i \in DOMAIN tty.owed : tty.owed[i] < w
        BY <2>7, FlowTypes DEF FlowOK, OfIssued
      <4>2. \A i, j \in DOMAIN tty.owed : i < j => tty.owed[i] < tty.owed[j]
        BY DEF FlowOK, InTurn
      <4>3. \A i \in DOMAIN tty'.owed : i \in 1..(n + 1)
        BY <2>5
      <4>4. \A i, j \in 1..(n + 1) : i < j => i # n + 1
        BY <2>1
      <4> QED
        BY <2>6, <4>1, <4>2, <4>3, <4>4
    <3>2. \A i \in DOMAIN tty.lines, j \in DOMAIN tty'.owed :
            Before(tty.lines[i], tty'.owed[j])
      BY <2>6, <2>7, FlowTypes DEF FlowOK, OfIssued, InTurn, Before
    <3>3. \A e \in Epoch : Held(e) => \A j \in DOMAIN tty'.owed :
            Before(readers[e].line, tty'.owed[j])
      BY <2>6, <2>7, FlowTypes DEF FlowOK, OfIssued, InTurn, Before
    <3> QED
      BY <2>2, <3>1, <3>2, <3>3 DEF FlowOK, InTurn, Held
  <2>11. slot.waiting \/ Below(w)
    BY <2>0, <2>2 DEF FlowOK, SlotOK
  <2>12. Accounted(w)
    <3>1. \A c \in past.givenUp : c < w => c <= w
      BY <2>1, FlowTypes
    <3> QED
      BY <2>0, <2>11, <3>1 DEF Accounted, Spoilt, Below
  <2>13. AllAccounted'
    BY <2>2, <2>6, <2>12 DEF FlowOK, AllAccounted, Accounted, Spoilt, Held
  <2>14. SlotOK'
    BY <2>0, <2>2, <2>11 DEF SlotOK, Below
  <2>15. NumberedOK' /\ IdleOK' /\ AnswersOK'
    BY <2>2 DEF FlowOK, NumberedOK, IdleOK, AnswersOK, Spoilt, Below
  <2> QED
    BY <2>8, <2>9, <2>10, <2>13, <2>14, <2>15 DEF FlowOK
<1> QED
  BY <1>1, <1>2, <1>3, <1>4, <1>5 DEF Sending

\* The modem says a line, about the command it was asked first or unasked.
LEMMA SaysFlow ==
  ASSUME Base, FlowOK, NEW line \in Words, Says(line),
         line.of # 0 => tty.owed # <<>> /\ line.of = tty.owed[1],
         line.ends => line.of # 0
  PROVE  FlowOK'
<1> DEFINE m == Len(tty.lines)
<1>1. /\ m \in Nat /\ line.of \in Nat /\ DOMAIN tty.lines = 1..m
  BY FlowTypes, Numbers DEF Words
<1>2. /\ tty'.lines = Append(tty.lines, line)
      /\ tty'.owed = IF line.ends THEN Tail(tty.owed) ELSE tty.owed
      /\ UNCHANGED <<readers, events, past, slot, desk>>
      /\ bounds'.sent = bounds.sent
  BY DEF Says, Base, Typed, TtyState, BoundState
<1>3. /\ DOMAIN tty'.lines = 1..(m + 1)
      /\ \A i \in 1..m : tty'.lines[i] = tty.lines[i]
      /\ tty'.lines[m + 1] = line
  BY <1>1, <1>2, FlowTypes, AppendProperties, LenProperties
<1> HIDE DEF m
<1>4. \A i \in DOMAIN tty'.lines :
        \/ i \in DOMAIN tty.lines /\ tty'.lines[i] = tty.lines[i]
        \/ i = m + 1 /\ tty'.lines[i] = line
  BY <1>1, <1>3
<1>5. line.of # 0 => 1 \in DOMAIN tty.owed /\ line.of = tty.owed[1]
  BY FlowTypes, EmptySeq
\* What is left owed was owed, and comes after a line that ends an answer.
<1>6. /\ \A j \in DOMAIN tty'.owed : \E i \in DOMAIN tty.owed :
           /\ tty'.owed[j] = tty.owed[i]
           /\ line.of <= tty.owed[i] /\ (line.ends => line.of < tty.owed[i])
      /\ \A i, j \in DOMAIN tty'.owed : i < j => tty'.owed[i] < tty'.owed[j]
  <2>1. CASE ~line.ends
    <3>1. tty'.owed = tty.owed
      BY <1>2, <2>1
    <3>2. \A i \in DOMAIN tty.owed : line.of <= tty.owed[i]
      <4>1. \A i \in DOMAIN tty.owed : i = 1 \/ 1 < i
        BY FlowTypes
      <4>2. CASE line.of = 0
        BY <4>2, FlowTypes
      <4>3. CASE line.of # 0
        <5>1. \A i \in DOMAIN tty.owed : 1 < i => tty.owed[1] < tty.owed[i]
          BY <1>5, <4>3 DEF FlowOK, InTurn
        <5> QED
          BY <1>1, <1>5, <4>1, <4>3, <5>1, FlowTypes
      <4> QED
        BY <4>2, <4>3
    <3> QED
      BY <2>1, <3>1, <3>2 DEF FlowOK, InTurn
  <2>2. CASE line.ends
    <3>1. tty.owed \in Seq(Command) /\ tty.owed # <<>>
      BY <2>2, FlowTypes
    <3>2. /\ tty'.owed \in Seq(Command) /\ Len(tty'.owed) = Len(tty.owed) - 1
          /\ \A i \in 1..Len(tty'.owed) : tty'.owed[i] = tty.owed[i + 1]
      BY <1>2, <2>2, <3>1, HeadTailProperties
    <3>3. DOMAIN tty'.owed = 1..(Len(tty.owed) - 1)
      BY <3>2, LenProperties
    <3>4. \A i \in DOMAIN tty'.owed :
            /\ i + 1 \in DOMAIN tty.owed /\ 1 < i + 1
            /\ tty'.owed[i] = tty.owed[i + 1]
      <4>1. PICK n \in Nat : n = Len(tty.owed) /\ DOMAIN tty.owed = 1..n
        BY FlowTypes
      <4>2. \A i \in 1..(n - 1) : i + 1 \in 1..n /\ 1 < i + 1
        BY <4>1
      <4> QED
        BY <3>2, <3>3, <4>1, <4>2
    <3>5. \A i \in DOMAIN tty'.owed :
            line.of < tty.owed[i + 1] /\ line.of <= tty.owed[i + 1]
      BY <1>1, <1>5, <2>2, <3>4, FlowTypes DEF FlowOK, InTurn
    <3>6. \A i, j \in DOMAIN tty'.owed : i < j => i + 1 < j + 1
      BY <3>3
    <3> QED
      BY <3>4, <3>5, <3>6 DEF FlowOK, InTurn
  <2> QED
    BY <2>1, <2>2
<1>7. Issued' = Issued
  BY <1>2 DEF Issued
<1>8. Endings'
  BY <1>2, <1>4 DEF FlowOK, Endings, Held
<1>9. OfIssued'
  <2>1. line.of <= Issued
    <3>1. CASE line.of = 0
      <4>1. desk.at \in {"open", "arm", "write"} => bounds.sent \in Command
        BY DEF Base, DeskOK
      <4> QED
        BY <3>1, <4>1, FlowTypes, Numbers DEF Issued, Command
    <3>2. CASE line.of # 0
      BY <1>5, <3>2 DEF FlowOK, OfIssued
    <3> QED
      BY <3>1, <3>2
  <2> QED
    BY <1>2, <1>4, <1>6, <1>7, <2>1 DEF FlowOK, OfIssued, Held
<1>10. InTurn'
  <2>1. \A i \in DOMAIN tty'.lines, j \in DOMAIN tty'.owed :
          Before(tty'.lines[i], tty'.owed[j])
    BY <1>4, <1>6 DEF FlowOK, InTurn, Before
  <2>2. \A i, j \in DOMAIN tty'.lines :
          i < j /\ tty'.lines[j].of # 0
            => Before(tty'.lines[i], tty'.lines[j].of)
    <3> SUFFICES ASSUME NEW i \in DOMAIN tty'.lines,
                        NEW j \in DOMAIN tty'.lines,
                        i < j, tty'.lines[j].of # 0
                 PROVE  Before(tty'.lines[i], tty'.lines[j].of)
      OBVIOUS
    <3>1. i \in DOMAIN tty.lines /\ tty'.lines[i] = tty.lines[i]
      BY <1>1, <1>3, <1>4
    <3>2. CASE j \in DOMAIN tty.lines /\ tty'.lines[j] = tty.lines[j]
      BY <3>1, <3>2 DEF FlowOK, InTurn
    <3>3. CASE tty'.lines[j] = line
      BY <1>5, <3>1, <3>3 DEF FlowOK, InTurn
    <3> QED
      BY <1>4, <3>2, <3>3
  <2>3. ASSUME NEW e \in Epoch, Held(e)
        PROVE  /\ \A j \in DOMAIN tty'.owed :
                    Before(readers[e].line, tty'.owed[j])
               /\ \A j \in DOMAIN tty'.lines : tty'.lines[j].of # 0 =>
                    Before(readers[e].line, tty'.lines[j].of)
    <3>1. \A j \in DOMAIN tty.owed : Before(readers[e].line, tty.owed[j])
      BY <2>3 DEF FlowOK, InTurn
    <3>2. \A j \in DOMAIN tty.lines :
            tty.lines[j].of # 0 => Before(readers[e].line, tty.lines[j].of)
      BY <2>3 DEF FlowOK, InTurn
    <3>3. line.of # 0 => Before(readers[e].line, line.of)
      BY <1>5, <3>1
    <3> QED
      BY <1>4, <1>6, <3>1, <3>2, <3>3
  <2> QED
    BY <1>2, <1>6, <2>1, <2>2, <2>3 DEF InTurn, Held
<1>11. AllAccounted'
  <2>1. Accounted(line.of)
    BY <1>5 DEF FlowOK, AllAccounted, Accounted
  <2>2. \A k : Accounted(k)' <=> Accounted(k)
    BY <1>2 DEF Accounted, Spoilt
  <2> QED
    BY <1>2, <1>4, <1>6, <2>1, <2>2 DEF FlowOK, AllAccounted, Held
<1>12. SlotOK' /\ NumberedOK' /\ IdleOK' /\ AnswersOK'
  BY <1>2 DEF FlowOK, SlotOK, NumberedOK, IdleOK, AnswersOK, Spoilt, Below
<1> QED
  BY <1>8, <1>9, <1>10, <1>11, <1>12 DEF FlowOK

LEMMA ModemFlow ==
  ASSUME Base, FlowOK, Modem
  PROVE  FlowOK'
<1>1. CASE ModemAnswers
  <2>1. tty.owed \in Seq(Command) /\ tty.owed # <<>>
    BY <1>1, FlowTypes DEF ModemAnswers
  <2>2. Head(tty.owed) = tty.owed[1] /\ Head(tty.owed) \in Command
    BY <2>1, HeadTailProperties
  <2>3. PICK x \in BOOLEAN :
          Says([of |-> Head(tty.owed), ends |-> x, long |-> FALSE])
    BY <1>1 DEF ModemAnswers
  <2>4. PICK l : l = [of |-> Head(tty.owed), ends |-> x, long |-> FALSE]
    OBVIOUS
  <2>5. l \in Words /\ l.of = tty.owed[1] /\ l.of # 0 /\ Says(l)
    BY <2>2, <2>3, <2>4, Numbers DEF Words, Command
  <2> QED
    BY <2>1, <2>5, SaysFlow
<1>2. CASE Unsolicited
  <2>1. PICK x \in BOOLEAN : Says([of |-> 0, ends |-> FALSE, long |-> x])
    BY <1>2 DEF Unsolicited
  <2>2. PICK l : l = [of |-> 0, ends |-> FALSE, long |-> x]
    OBVIOUS
  <2>3. l \in Words /\ l.of = 0 /\ ~l.ends /\ Says(l)
    BY <2>1, <2>2, Numbers DEF Words
  <2> QED
    BY <2>3, SaysFlow
<1>3. CASE Unplug
  <2>1. /\ tty'.lines = <<>> /\ tty'.owed = <<>>
        /\ UNCHANGED <<readers, events, past, slot, desk>>
        /\ bounds'.sent = bounds.sent
    BY <1>3 DEF Unplug, Base, Typed, BoundState
  <2>2. Issued' = Issued
    BY <2>1 DEF Issued
  <2>3. Endings' /\ OfIssued' /\ InTurn' /\ AllAccounted'
    BY <2>1, <2>2 DEF FlowOK, Endings, OfIssued, InTurn, AllAccounted, Held,
                      Accounted, Spoilt
  <2>4. SlotOK' /\ NumberedOK' /\ IdleOK' /\ AnswersOK'
    BY <2>1 DEF FlowOK, SlotOK, NumberedOK, IdleOK, AnswersOK, Spoilt, Below
  <2> QED
    BY <2>3, <2>4 DEF FlowOK
<1>4. CASE Plug
  <2>1. /\ tty'.lines = tty.lines /\ tty'.owed = tty.owed
        /\ UNCHANGED <<readers, events, past, slot, desk, bounds>>
    BY <1>4 DEF Plug, Base, Typed, TtyState
  <2>2. Issued' = Issued /\ Issued <= Issued
    BY <2>1, FlowTypes DEF Issued
  <2>3. \A k \in Nat : Accounted(k) => Accounted(k)'
    BY <2>1 DEF Accounted, Spoilt
  <2>4. SlotOK' /\ AnswersOK'
    BY <2>1 DEF FlowOK, SlotOK, AnswersOK, Below
  <2> QED
    BY <2>1, <2>2, <2>3, <2>4, FlowFrame, FlowTypes
<1> QED
  BY <1>1, <1>2, <1>3, <1>4 DEF Modem

\* Steps in which readers let go of lines and no line is read or said.
LEMMA QuietFlow ==
  ASSUME Base, FlowOK, UNCHANGED <<slot, bounds>>, Issued' = Issued,
         past'.givenUp = past.givenUp, past'.answers = past.answers,
         desk'.at = desk.at \/ desk'.at \notin {"write", "wait"},
         tty'.owed = tty.owed,
         \A i \in DOMAIN tty'.lines :
           i \in DOMAIN tty.lines /\ tty'.lines[i] = tty.lines[i],
         \A x \in Epoch : Held(x)' =>
           /\ Held(x) /\ readers'[x].line = readers[x].line
           /\ readers'[x].at = "end" => readers'[x].line.ends,
         \A x \in Epoch :
           readers'[x].at \in {"end", "number", "put"}
             /\ readers'[x].waited = 0 =>
           readers'[x].line.of = 0 \/ Spoilt(readers'[x].line.of),
         \A i \in DOMAIN events' :
           events'[i].mark = "idle" /\ events'[i].of # 0
             => Spoilt(events'[i].of)
  PROVE  FlowOK'
<1>1. Endings'
  BY DEF FlowOK, Endings
<1>2. OfIssued'
  BY DEF FlowOK, OfIssued
<1>3. InTurn'
  BY DEF FlowOK, InTurn
<1>4. \A k : (Accounted(k)' <=> Accounted(k)) /\ (Spoilt(k)' <=> Spoilt(k))
  BY DEF Accounted, Spoilt
<1>5. AllAccounted'
  BY <1>4 DEF FlowOK, AllAccounted
<1>6. SlotOK' /\ AnswersOK'
  BY DEF FlowOK, SlotOK, AnswersOK, Below
<1>7. NumberedOK' /\ IdleOK'
  BY <1>4 DEF NumberedOK, IdleOK
<1> QED
  BY <1>1, <1>2, <1>3, <1>5, <1>6, <1>7 DEF FlowOK

\* A reader takes the next line.
LEMMA ReadLineFlow ==
  ASSUME Base, FlowOK, NEW e \in Epoch, ReadLine(e)
  PROVE  FlowOK'
<1>1. PICK n \in Nat : n = Len(tty.lines)
  BY FlowTypes
<1>2. /\ tty.lines \in Seq(Words) /\ tty.lines # <<>>
      /\ DOMAIN tty.lines = 1..n
  BY <1>1, FlowTypes DEF ReadLine
<1>3. PICK line, rest : line = Head(tty.lines) /\ rest = Tail(tty.lines)
  OBVIOUS
<1>4. /\ n >= 1 /\ line = tty.lines[1]
      /\ rest \in Seq(Words) /\ Len(rest) = n - 1
      /\ \A i \in 1..(n - 1) : rest[i] = tty.lines[i + 1]
  BY <1>1, <1>2, <1>3, HeadTailProperties, EmptySeq
<1>5. DOMAIN rest = 1..(n - 1)
  BY <1>4, LenProperties
<1>6. /\ tty'.lines = rest /\ tty'.owed = tty.owed
      /\ UNCHANGED <<events, past, slot, desk, bounds>>
  BY <1>3 DEF ReadLine, Base, Typed, TtyState
<1>7. /\ readers[e].at = "top" /\ readers'[e].at = "check"
      /\ readers'[e].line = line
      /\ \A x \in Epoch : x # e => readers'[x] = readers[x]
  <2>1. readers[e] \in ReaderState /\ readers \in [Epoch -> ReaderState]
    BY ReaderType DEF Base, Typed
  <2> QED
    BY <1>3, <2>1 DEF ReadLine, ReaderState
<1>8. \A x \in Epoch : Held(x)' => x = e
  <2>1. \A x \in Epoch : Busy(x) => x = e
    BY <1>7 DEF Base, ReadersOK, Busy
  <2> QED
    BY <1>7, <2>1 DEF Held, Busy
<1>9. \A i \in DOMAIN tty'.lines :
        /\ i + 1 \in DOMAIN tty.lines /\ 1 < i + 1
        /\ tty'.lines[i] = tty.lines[i + 1]
  BY <1>2, <1>4, <1>5, <1>6
<1>10. 1 \in DOMAIN tty.lines /\ line = tty.lines[1]
  BY <1>2, <1>4
<1>11. Issued' = Issued
  BY <1>6 DEF Issued
<1>12. Endings'
  BY <1>7, <1>8, <1>9, <1>10 DEF FlowOK, Endings
<1>13. OfIssued'
  BY <1>6, <1>7, <1>8, <1>9, <1>10, <1>11 DEF FlowOK, OfIssued
<1>14. InTurn'
  <2>1. \A i, j \in DOMAIN tty'.owed : i < j => tty'.owed[i] < tty'.owed[j]
    BY <1>6 DEF FlowOK, InTurn
  <2>2. \A i \in DOMAIN tty'.lines, j \in DOMAIN tty'.owed :
          Before(tty'.lines[i], tty'.owed[j])
    BY <1>6, <1>9 DEF FlowOK, InTurn
  <2>3. \A i, j \in DOMAIN tty'.lines :
          i < j /\ tty'.lines[j].of # 0
            => Before(tty'.lines[i], tty'.lines[j].of)
    <3>1. \A i, j \in DOMAIN tty'.lines : i < j => i + 1 < j + 1
      BY <1>5, <1>6
    <3> QED
      BY <1>9, <3>1 DEF FlowOK, InTurn
  <2>4. \A j \in DOMAIN tty'.owed : Before(line, tty'.owed[j])
    BY <1>6, <1>10 DEF FlowOK, InTurn
  <2>5. \A j \in DOMAIN tty'.lines :
          tty'.lines[j].of # 0 => Before(line, tty'.lines[j].of)
    BY <1>9, <1>10 DEF FlowOK, InTurn
  <2> QED
    BY <1>7, <1>8, <2>1, <2>2, <2>3, <2>4, <2>5 DEF InTurn
<1>15. AllAccounted'
  <2>1. \A k : Accounted(k)' <=> Accounted(k)
    BY <1>6 DEF Accounted, Spoilt
  <2> QED
    BY <1>6, <1>7, <1>8, <1>9, <1>10, <2>1 DEF FlowOK, AllAccounted
<1>16. SlotOK' /\ IdleOK' /\ AnswersOK'
  BY <1>6 DEF FlowOK, SlotOK, IdleOK, AnswersOK, Spoilt, Below
<1>17. NumberedOK'
  <2>1. \A k : Spoilt(k)' <=> Spoilt(k)
    BY <1>6 DEF Spoilt
  <2> QED
    BY <1>7, <2>1 DEF FlowOK, NumberedOK
<1> QED
  BY <1>12, <1>13, <1>14, <1>15, <1>16, <1>17 DEF FlowOK

\* A line ends the answer that is waited for: it is the line of the command
\* that waits, or one before it was given up.
LEMMA EndAnswerFlow ==
  ASSUME Base, FlowOK, NEW e \in Epoch, EndAnswer(e)
  PROVE  FlowOK'
<1>1. readers[e].at = "end" /\ ReaderMoves(e, "end", "number")
  BY DEF EndAnswer, ReaderMoves
<1>2. /\ readers'[e].at = "number" /\ readers'[e].line = readers[e].line
      /\ readers'[e].waited = readers[e].waited
      /\ \A x \in Epoch : x # e => readers'[x] = readers[x]
  BY <1>1, MoveShape DEF Base
<1>3. \A x \in Epoch : ~Held(x)'
  <2>1. \A x \in Epoch : Busy(x) => x = e
    BY <1>1 DEF Base, ReadersOK, Busy
  <2> QED
    BY <1>2, <2>1 DEF Held, Busy
<1>4. UNCHANGED <<tty, events, past, desk, bounds>>
  BY DEF EndAnswer
<1>5. Issued' = Issued
  BY <1>4 DEF Issued
<1>6. \A k : (Spoilt(k)' <=> Spoilt(k)) /\ (Below(k)' <=> Below(k))
  BY <1>4 DEF Spoilt, Below
<1>7. NumberedOK'
  <2>1. readers'[e].waited = 0 =>
          readers'[e].line.of = 0 \/ Spoilt(readers'[e].line.of)
    BY <1>1, <1>2 DEF FlowOK, NumberedOK
  <2>2. \A x \in Epoch \ {e} :
          readers'[x].at \in {"end", "number", "put"}
            /\ readers'[x].waited = 0 =>
          readers'[x].line.of = 0 \/ Spoilt(readers'[x].line.of)
    BY <1>2 DEF FlowOK, NumberedOK
  <2> QED
    BY <1>6, <2>1, <2>2 DEF NumberedOK
<1>8. /\ Endings' /\ OfIssued' /\ InTurn' /\ IdleOK' /\ AnswersOK'
  BY <1>3, <1>4, <1>5, <1>6
     DEF FlowOK, Endings, OfIssued, InTurn, IdleOK, AnswersOK
<1>9. CASE ~slot.waiting
  <2>1. slot' = slot
    BY <1>9 DEF EndAnswer
  <2>2. AllAccounted'
    BY <1>3, <1>4, <1>6, <2>1 DEF FlowOK, AllAccounted, Accounted
  <2>3. SlotOK'
    BY <1>4, <1>6, <2>1 DEF FlowOK, SlotOK
  <2> QED
    BY <1>7, <1>8, <2>2, <2>3 DEF FlowOK
<1>10. CASE slot.waiting
  <2>1. PICK j, s : j = readers[e].line.of /\ s = slot.id
    OBVIOUS
  <2>2. /\ slot.waiting /\ s = bounds.sent /\ s \in Nat \ {0} /\ j \in Nat
        /\ desk.at \in {"write", "wait"}
    BY <1>10, <2>1, FlowTypes DEF Base, DeskOK
  <2>3. readers[e].line.ends /\ j # 0 /\ Held(e)
    BY <1>1, <2>1 DEF FlowOK, Endings, Held
  <2>4. j <= Issued /\ (j = s \/ Spoilt(j))
    BY <2>1, <2>3 DEF FlowOK, OfIssued, AllAccounted, Accounted
  <2>5. ~slot'.waiting /\ slot'.id = s /\ slot'.ended = j
    BY <1>10, <2>1 DEF EndAnswer, Base, Typed, SlotState
  <2>6. j < s => Below(s) /\ Spoilt(s)
    <3>1. ASSUME j < s PROVE \A c \in past.givenUp : c <= j => c < s /\ c <= s
      BY <2>2, <3>1, FlowTypes
    <3> QED
      BY <2>2, <2>4, <3>1 DEF Spoilt, Below
  <2>7. Issued <= s /\ (desk.at = "write" => Issued = s - 1)
    BY <2>2 DEF Issued
  <2>8. j = s \/ j < s
    BY <2>2, <2>4, <2>7, FlowTypes
  <2>9. desk.at = "write" => j < s
    BY <2>2, <2>4, <2>7, FlowTypes
  <2>10. SlotOK'
    BY <1>4, <1>6, <2>5, <2>6, <2>8, <2>9 DEF SlotOK
  <2>11. \A k : Accounted(k) /\ (k # 0 => j < k) => Accounted(k)'
    BY <1>6, <2>1, <2>2, <2>6 DEF Accounted
  <2>12. /\ \A i \in DOMAIN tty.lines : tty.lines[i].of # 0 =>
              j < tty.lines[i].of
         /\ \A i \in DOMAIN tty.owed : j < tty.owed[i]
    BY <2>1, <2>3 DEF FlowOK, InTurn, Before
  <2>13. AllAccounted'
    BY <1>3, <1>4, <2>11, <2>12 DEF FlowOK, AllAccounted
  <2> QED
    BY <1>7, <1>8, <2>10, <2>13 DEF FlowOK
<1> QED
  BY <1>9, <1>10

\* The other steps of a reader.
LEMMA ReaderFlow ==
  ASSUME Base, FlowOK, NEW e \in Epoch, ReaderStep(e)
  PROVE  FlowOK'
<1>0. Typed /\ readers \in [Epoch -> ReaderState] /\ readers[e] \in ReaderState
  BY ReaderType DEF Base, Typed
\* What is left to show of a reader that lets go of its line or keeps it.
<1>1. ASSUME UNCHANGED <<tty, slot, desk, bounds, past>>,
             \A x \in Epoch : x # e => readers'[x] = readers[x],
             Held(e)' => /\ Held(e) /\ readers'[e].line = readers[e].line
                         /\ readers'[e].at = "end" => readers'[e].line.ends,
             readers'[e].at \in {"end", "number", "put"}
               /\ readers'[e].waited = 0 =>
             readers'[e].line.of = 0 \/ Spoilt(readers'[e].line.of),
             \A i \in DOMAIN events' :
               events'[i].mark = "idle" /\ events'[i].of # 0
                 => Spoilt(events'[i].of)
      PROVE  FlowOK'
  <2>1. Issued' = Issued
    BY <1>1 DEF Issued
  <2>2. \A x \in Epoch : Held(x)' =>
          /\ Held(x) /\ readers'[x].line = readers[x].line
          /\ readers'[x].at = "end" => readers'[x].line.ends
    BY <1>1 DEF Held, FlowOK, Endings
  <2>3. \A x \in Epoch :
          readers'[x].at \in {"end", "number", "put"}
            /\ readers'[x].waited = 0 =>
          readers'[x].line.of = 0 \/ Spoilt(readers'[x].line.of)
    BY <1>1 DEF FlowOK, NumberedOK
  <2> QED
    BY <1>1, <2>1, <2>2, <2>3, QuietFlow
<1>2. \A i \in DOMAIN events :
        events[i].mark = "idle" /\ events[i].of # 0 => Spoilt(events[i].of)
  BY DEF FlowOK, IdleOK
<1>3. CASE ReaderStops(e) \/ ReadFails(e) \/ TooLong(e) \/ Ring(e)
  <2>1. UNCHANGED <<tty, slot, desk, bounds, past, events>>
    BY <1>3 DEF ReaderStops, ReadFails, TooLong, Ring
  <2>2. /\ readers'[e].at \in {"top", "over"}
        /\ \A x \in Epoch : x # e => readers'[x] = readers[x]
    BY <1>0, <1>3, RestShape DEF ReaderStops, ReadFails, TooLong, Ring
  <2> QED
    BY <1>1, <1>2, <2>1, <2>2 DEF Held
<1>4. CASE CheckLine(e)
  <2>1. PICK w : w = IF slot.waiting THEN slot.id ELSE 0
    OBVIOUS
  <2>2. /\ readers[e].at = "check" /\ readers'[e].line = readers[e].line
        /\ readers'[e].waited = w
        /\ readers'[e].at =
             IF w # 0 /\ readers[e].line.ends THEN "end" ELSE "number"
        /\ \A x \in Epoch : x # e => readers'[x] = readers[x]
    BY <1>0, <1>4, <2>1 DEF CheckLine, ReaderState
  <2>3. w = 0 => ~slot.waiting
    BY <2>1, FlowTypes
  <2>4. w = 0 => readers[e].line.of = 0 \/ Spoilt(readers[e].line.of)
    BY <2>2, <2>3 DEF FlowOK, AllAccounted, Accounted, Held
  <2>5. UNCHANGED <<tty, slot, desk, bounds, past, events>>
    BY <1>4 DEF CheckLine
  <2> QED
    BY <1>1, <1>2, <2>2, <2>4, <2>5 DEF Held
<1>5. CASE NumberLine(e)
  <2>1. /\ readers[e].at = "number" /\ readers'[e].line = readers[e].line
        /\ readers'[e].waited = readers[e].waited /\ readers'[e].at = "put"
        /\ \A x \in Epoch : x # e => readers'[x] = readers[x]
    BY <1>0, <1>5 DEF NumberLine, ReaderState
  <2>2. UNCHANGED <<tty, slot, desk, bounds, past, events>>
    BY <1>5 DEF NumberLine
  <2> QED
    BY <1>1, <1>2, <2>1, <2>2 DEF Held, FlowOK, NumberedOK
\* The mark of a new event.
<1>6. \A n : readers[e].at = "put" /\ NewEvent(readers[e], n).mark = "idle"
               /\ NewEvent(readers[e], n).of # 0
             => Spoilt(NewEvent(readers[e], n).of)
  BY <1>0 DEF NewEvent, Mark, FlowOK, NumberedOK
<1>7. CASE PutEvent(e)
  <2>1. UNCHANGED <<tty, slot, desk, bounds, past>> /\ readers[e].at = "put"
        /\ readers'[e].at = "ring"
        /\ \A x \in Epoch : x # e => readers'[x] = readers[x]
    BY <1>0, <1>7, MoveShape DEF PutEvent
  <2>2. PICK n \in Nat : n = Len(events)
    BY <1>0, <1>7, PutEventEvents
  <2>3. /\ DOMAIN events = 1..n /\ DOMAIN events' = 1..(n + 1)
        /\ \A i \in 1..n : events'[i] = events[i]
        /\ events'[n + 1] = NewEvent(readers[e], drops.pending)
    BY <1>0, <1>7, <2>2, PutEventEvents, LenProperties DEF Typed
  <2>4. \A i \in 1..(n + 1) : i \in 1..n \/ i = n + 1
    BY <2>2
  <2>5. \A i \in DOMAIN events' :
          events'[i].mark = "idle" /\ events'[i].of # 0
            => Spoilt(events'[i].of)
    BY <1>2, <1>6, <2>1, <2>3, <2>4
  <2> QED
    BY <1>1, <2>1, <2>5 DEF Held
<1>8. CASE PushOut(e)
  <2>1. UNCHANGED <<tty, slot, desk, bounds, past>> /\ readers[e].at = "put"
        /\ readers'[e].at = "ring"
        /\ \A x \in Epoch : x # e => readers'[x] = readers[x]
    BY <1>0, <1>8, MoveShape DEF PushOut
  <2>2. events \in Seq(Event)
    BY <1>0 DEF Typed
  <2>3. PICK n \in Nat : n = Len(events)
    BY <2>2, LenProperties
  <2>4. /\ DOMAIN events = 1..n /\ DOMAIN events' = 1..n
        /\ \A i \in 1..(n - 1) : /\ events'[i].of = events[i + 1].of
                                 /\ events'[i].mark = events[i + 1].mark
        /\ events'[n] = NewEvent(readers[e], 0)
    BY <1>0, <1>8, <2>2, <2>3, PushOutEvents, LenProperties
  <2>5. \A i \in 1..n : i = n \/ (i \in 1..(n - 1) /\ i + 1 \in 1..n)
    BY <2>3
  <2>6. \A i \in DOMAIN events' :
          events'[i].mark = "idle" /\ events'[i].of # 0
            => Spoilt(events'[i].of)
    BY <1>2, <1>6, <2>1, <2>4, <2>5
  <2> QED
    BY <1>1, <2>1, <2>6 DEF Held
<1> QED
  BY <1>3, <1>4, <1>5, <1>7, <1>8, ReadLineFlow, EndAnswerFlow DEF ReaderStep

\* The main thread publishes, and the port is opened and closed.
LEMMA PortFlow ==
  ASSUME Base, FlowOK, Consuming \/ Opening
  PROVE  FlowOK'
<1>0. /\ readers \in [Epoch -> ReaderState] /\ desk \in DeskState
      /\ past \in PastState /\ tty \in TtyState
      /\ opener.by = "main" => desk.at = "open"
  BY DEF Base, Typed, DeskOK
\* The readers keep their lines, and the main thread goes on.
<1>1. ASSUME UNCHANGED <<slot, bounds, tty>>,
             past'.givenUp = past.givenUp, past'.answers = past.answers,
             desk' = desk \/ /\ desk.at \notin {"write", "wait"}
                             /\ desk'.at \notin {"write", "wait"}
                             /\ desk.at \in {"open", "arm"} <=>
                                desk'.at \in {"open", "arm"},
             \A x \in Epoch : /\ readers'[x].at = readers[x].at
                              /\ readers'[x].line = readers[x].line
                              /\ readers'[x].waited = readers[x].waited,
             \A i \in DOMAIN events' :
               events'[i].mark = "idle" /\ events'[i].of # 0
                 => Spoilt(events'[i].of)
      PROVE  FlowOK'
  <2>1. Issued' = Issued
    BY <1>1 DEF Issued
  <2>2. \A x \in Epoch : Held(x)' =>
          /\ Held(x) /\ readers'[x].line = readers[x].line
          /\ readers'[x].at = "end" => readers'[x].line.ends
    BY <1>1 DEF Held, FlowOK, Endings
  <2>3. \A x \in Epoch :
          readers'[x].at \in {"end", "number", "put"}
            /\ readers'[x].waited = 0 =>
          readers'[x].line.of = 0 \/ Spoilt(readers'[x].line.of)
    BY <1>1 DEF FlowOK, NumberedOK
  <2>4. tty'.owed = tty.owed /\ tty'.lines = tty.lines
    BY <1>1
  <2> QED
    BY <1>1, <2>1, <2>2, <2>3, <2>4, QuietFlow
<1>2. \A i \in DOMAIN events :
        events[i].mark = "idle" /\ events[i].of # 0 => Spoilt(events[i].of)
  BY DEF FlowOK, IdleOK
<1>3. CASE DrainPipe \/ PublishEnds \/ RingAgain
  BY <1>0, <1>1, <1>2, <1>3
     DEF DrainPipe, PublishEnds, RingAgain, Remaining, DeskState
<1>4. CASE Publish
  <2>1. /\ UNCHANGED <<slot, bounds, tty, readers>>
        /\ past'.givenUp = past.givenUp /\ past'.answers = past.answers
        /\ desk.at = "publish" /\ desk'.at = "publish"
    BY <1>0, <1>4 DEF Publish, PastState, DeskState
  <2>2. PICK n \in Nat : n = Len(events)
    BY <1>4, PublishEvents DEF Base
  <2>3. /\ DOMAIN events = 1..n /\ DOMAIN events' = 1..(n - 1)
        /\ \A i \in 1..(n - 1) : events'[i] = events[i + 1]
    BY <1>4, <2>2, PublishEvents, LenProperties DEF Base, Typed
  <2>4. \A i \in 1..(n - 1) : i + 1 \in 1..n
    BY <2>2
  <2> QED
    BY <1>1, <1>2, <2>1, <2>3, <2>4
<1>5. CASE MainOpens \/ MonitorLooks \/ AlreadyOpen \/ MarkClosed
  <2>1. /\ UNCHANGED <<slot, bounds, tty, readers, events, past>>
        /\ desk' = desk \/ (desk.at = "open" /\ desk'.at = "arm")
    BY <1>0, <1>5
       DEF MainOpens, MonitorLooks, AlreadyOpen, MarkClosed, DeskState
  <2> QED
    BY <1>1, <1>2, <2>1
<1>6. CASE StopReader
  <2>1. \A x \in Epoch : readers[x] \in ReaderState
    BY <1>0
  <2>2. \A x \in Epoch : /\ readers'[x].at = readers[x].at
                         /\ readers'[x].line = readers[x].line
                         /\ readers'[x].waited = readers[x].waited
    BY <1>6, <2>1 DEF StopReader, ReaderState
  <2> QED
    BY <1>1, <1>2, <1>6, <2>2 DEF StopReader
<1>7. CASE OpenPort
  <2>1. /\ UNCHANGED <<slot, bounds, past, events>>
        /\ tty'.lines = <<>> /\ tty'.owed = tty.owed
        /\ desk' = desk \/ (desk.at = "open" /\ desk'.at = "arm")
    BY <1>0, <1>7 DEF OpenPort, TtyState, DeskState
  <2>2. Issued' = Issued
    BY <2>1 DEF Issued
  <2>3. \A x \in Epoch : readers'[x] = readers[x] \/ readers'[x].at = "top"
    BY <1>0, <1>7 DEF OpenPort, NoReader
  <2>4. \A x \in Epoch : Held(x)' =>
          /\ Held(x) /\ readers'[x].line = readers[x].line
          /\ readers'[x].at = "end" => readers'[x].line.ends
    BY <2>3 DEF Held, FlowOK, Endings
  <2>5. \A x \in Epoch :
          readers'[x].at \in {"end", "number", "put"}
            /\ readers'[x].waited = 0 =>
          readers'[x].line.of = 0 \/ Spoilt(readers'[x].line.of)
    BY <2>3 DEF FlowOK, NumberedOK
  <2>6. DOMAIN tty'.lines = {}
    BY <2>1
  <2> QED
    BY <1>2, <2>1, <2>2, <2>4, <2>5, <2>6, QuietFlow
<1>8. CASE OpenFails
  <2>1. CASE UNCHANGED <<desk, past>>
    BY <1>1, <1>2, <1>8, <2>1 DEF OpenFails
  <2>2. CASE /\ desk.at = "open" /\ desk'.at = "loop"
             /\ past' = [past EXCEPT !.givenUp = @ \cup {bounds.sent}]
    <3>1. /\ UNCHANGED <<slot, bounds, tty, readers, events>>
          /\ past'.answers = past.answers
          /\ past.givenUp \subseteq past'.givenUp
      BY <1>0, <1>8, <2>2 DEF OpenFails, PastState
    <3>2. Issued' \in Int /\ Issued <= Issued'
      BY <2>2, <3>1, FlowTypes DEF Issued
    <3>3. \A k \in Nat : Accounted(k) => Accounted(k)'
      BY <3>1 DEF Accounted, Spoilt
    <3>4. SlotOK' /\ AnswersOK'
      BY <2>2, <3>1 DEF SlotOK, FlowOK, AnswersOK, Below
    <3> QED
      BY <3>1, <3>2, <3>3, <3>4, FlowFrame
  <2> QED
    BY <1>0, <1>8, <2>1, <2>2 DEF OpenFails, DeskState
<1> QED
  BY <1>3, <1>4, <1>5, <1>6, <1>7, <1>8 DEF Consuming, Opening

LEMMA FlowNext ==
  Base /\ FlowOK /\ [DaemonNext]_daemonVars => FlowOK'
<1> SUFFICES ASSUME Base, FlowOK, [DaemonNext]_daemonVars PROVE FlowOK'
  OBVIOUS
<1>1. CASE UNCHANGED daemonVars
  BY <1>1 DEF daemonVars, FlowOK, Endings, OfIssued, InTurn, AllAccounted,
     SlotOK, NumberedOK, IdleOK, AnswersOK, Held, Issued, Accounted, Spoilt,
     Below
<1> QED
  BY <1>1, SendingFlow, ModemFlow, ReaderFlow, PortFlow
     DEF DaemonNext, Reader, ReaderStep

(***************************************************************************)
(* at_handler.c:299-410, at_line_events.c:56-146: every line that has a     *)
(* number has come out, waits, was dropped or is in a reader's hand.  So    *)
(* what is missing before an event that waits is known: it is no more than  *)
(* what has been told, or what this event or one before it will tell.       *)
(***************************************************************************)
InHand == IF \E e \in Epoch : readers[e].at = "put" THEN 1 ELSE 0
Gap(i) == events[i].seq - past.out - i

Accounts == handle.seq = past.out + Len(events) + drops.count + InHand
GapsAhead ==
  \A i \in DOMAIN events :
    \/ Gap(i) <= drops.told
    \/ \E j \in 1..i : Gap(i) <= events[j].drop
GapsOK ==
  Accounts /\ GapsAhead /\ past.last.seq - past.out <= drops.told

LEMMA GapsNext ==
  ASSUME Base, DropsOK, OrderOK, GapsOK, [DaemonNext]_daemonVars
  PROVE  GapsOK'
<1>0. /\ events \in Seq(Event) /\ readers \in [Epoch -> ReaderState]
      /\ handle.seq \in Nat /\ handle \in HandleState
      /\ past \in PastState /\ past.last.seq \in Nat /\ past.out \in Nat
      /\ drops \in DropState /\ drops.count \in Nat /\ drops.told \in Nat
      /\ drops.pending \in Nat
      /\ Len(events) \in Nat /\ DOMAIN events = 1..Len(events)
      /\ InHand \in {0, 1}
  BY LenProperties, DropType
     DEF Base, Typed, HandleState, PastState, InHand
<1>n. /\ handle.seq \in Nat /\ past.out \in Nat /\ drops.count \in Nat
      /\ Len(events) \in Nat
  BY <1>0
<1>1. \A i \in 1..Len(events) : events[i].seq \in Nat /\ events[i].drop \in Nat
  <2>1. \A i \in 1..Len(events) : events[i] \in Event
    BY <1>0, ElementOfSeq
  <2> QED
    BY <2>1 DEF Event
<1>2. \A e \in Epoch : Busy(e) => e = handle.epoch
  BY DEF Base, ReadersOK
<1>3. /\ drops.told <= drops.count
      /\ \A i \in 1..Len(events) : events[i].drop <= drops.count
      /\ \/ drops.count = drops.told
         \/ drops.count = drops.pending
         \/ \E i \in 1..Len(events) : events[i].drop = drops.count
  BY <1>0 DEF DropsOK, DropsBounded, CountIsTold
\* Steps that number no line and let none out.
<1>4. ASSUME UNCHANGED <<events, drops>>, handle'.seq = handle.seq,
             past'.out = past.out, past'.last = past.last,
             \A x \in Epoch : readers'[x].at = "put" <=> readers[x].at = "put"
      PROVE  GapsOK'
  <2>1. InHand' = InHand
    BY <1>4 DEF InHand
  <2> QED
    BY <1>4, <2>1 DEF GapsOK, Accounts, GapsAhead, Gap
<1>5. ASSUME NEW e \in Epoch, readers[e].at \notin {"none", "over"},
             \A x \in Epoch : x # e => readers'[x] = readers[x]
      PROVE  /\ InHand = IF readers[e].at = "put" THEN 1 ELSE 0
             /\ InHand' = IF readers'[e].at = "put" THEN 1 ELSE 0
  <2>1. \A x \in Epoch : readers[x].at = "put" => x = e
    BY <1>2, <1>5 DEF Busy
  <2>2. \A x \in Epoch : readers'[x].at = "put" => x = e
    BY <1>5, <2>1
  <2> QED
    BY <2>1, <2>2 DEF InHand
<1>6. ASSUME NEW e \in Epoch, ReaderStep(e) PROVE GapsOK'
  <2>1. CASE NumberLine(e)
    <3>1. /\ handle'.seq = handle.seq + 1 /\ readers[e].at = "number"
          /\ readers'[e].at = "put"
          /\ \A x \in Epoch : x # e => readers'[x] = readers[x]
          /\ UNCHANGED <<events, past, drops>>
      BY <1>0, <2>1 DEF NumberLine, HandleState, ReaderState
    <3>2. InHand = 0 /\ InHand' = 1
      BY <1>5, <3>1
    <3>3. Accounts'
      BY <1>n, <3>1, <3>2 DEF GapsOK, Accounts
    <3>4. GapsAhead' /\ past'.last.seq - past'.out <= drops'.told
      BY <3>1 DEF GapsOK, GapsAhead, Gap
    <3> QED
      BY <3>3, <3>4 DEF GapsOK
  <2>2. CASE TooLong(e)
    <3>1. ReaderRests(e, "put", "top") /\ UNCHANGED <<events, past, handle>>
      BY <2>2 DEF TooLong
    <3>2. drops'.count = drops.count + 1 /\ drops'.told = drops.told
      BY <1>0, <2>2 DEF TooLong, DropState
    <3>3. /\ readers[e].at = "put" /\ readers'[e].at = "top"
          /\ \A x \in Epoch : x # e => readers'[x] = readers[x]
      BY <3>1, RestShape DEF Base
    <3>4. InHand = 1 /\ InHand' = 0
      BY <1>5, <3>3
    <3>5. /\ handle'.seq = handle.seq /\ past'.out = past.out
          /\ past'.last = past.last /\ events' = events
      BY <3>1
    <3>6. Accounts'
      BY <1>n, <3>2, <3>4, <3>5 DEF GapsOK, Accounts
    <3>7. GapsAhead'
      BY <3>2, <3>5 DEF GapsOK, GapsAhead, Gap
    <3> QED
      BY <3>2, <3>5, <3>6, <3>7 DEF GapsOK
  <2>3. CASE PutEvent(e) \/ PushOut(e)
    <3>1. ReaderMoves(e, "put", "ring") /\ UNCHANGED <<past, handle>>
      BY <2>3 DEF PutEvent, PushOut
    <3>2. /\ readers[e].at = "put" /\ readers'[e].at = "ring"
          /\ \A x \in Epoch : x # e => readers'[x] = readers[x]
      BY <3>1, MoveShape DEF Base
    <3>3. InHand = 1 /\ InHand' = 0
      BY <1>5, <3>2
    <3>4. readers[e].seq = handle.seq
      BY <3>2 DEF OrderOK
    <3>5. handle.seq = past.out + Len(events) + drops.count + 1
      BY <3>3 DEF GapsOK, Accounts
    <3>0. handle'.seq = handle.seq /\ past'.out = past.out
      BY <3>1
    <3>6. CASE PutEvent(e)
      <4>1. /\ events' \in Seq(Event) /\ Len(events') = Len(events) + 1
            /\ \A i \in 1..Len(events) : events'[i] = events[i]
            /\ events'[Len(events) + 1] = NewEvent(readers[e], drops.pending)
        BY <3>6, PutEventEvents DEF Base
      <4>2. DOMAIN events' = 1..(Len(events) + 1)
        BY <4>1, LenProperties
      <4>3. drops'.count = drops.count /\ drops'.told = drops.told
        BY <1>0, <3>6 DEF PutEvent, DropState
      <4>4. /\ events'[Len(events) + 1].seq = handle.seq
            /\ events'[Len(events) + 1].drop = drops.pending
        BY <3>4, <4>1 DEF NewEvent
      <4>5. Accounts'
        <5>1. Len(events') = Len(events) + 1
          BY <4>1
        <5> QED
          BY <1>n, <3>0, <3>3, <3>5, <4>3, <5>1 DEF Accounts
      <4>6. ASSUME NEW i \in DOMAIN events'
            PROVE  \/ Gap(i)' <= drops'.told
                   \/ \E j \in 1..i : Gap(i)' <= events'[j].drop
        <5>1. CASE i = Len(events) + 1
          <6>1. Gap(i)' = drops.count
            BY <1>0, <3>1, <3>5, <4>4, <5>1 DEF Gap
          <6>2. i \in 1..i /\ \A j \in 1..Len(events) : j \in 1..i
            BY <1>0, <5>1
          <6>3. CASE drops.count = drops.told
            BY <1>0, <4>3, <6>1, <6>3
          <6>4. CASE drops.count = drops.pending
            BY <1>0, <4>4, <5>1, <6>1, <6>2, <6>4
          <6>5. CASE \E j \in 1..Len(events) : events[j].drop = drops.count
            BY <1>0, <4>1, <6>1, <6>2, <6>5
          <6> QED
            BY <1>3, <6>3, <6>4, <6>5
        <5>2. CASE i # Len(events) + 1
          <6>1. i \in 1..Len(events) /\ \A j \in 1..i : j \in 1..Len(events)
            BY <1>0, <4>2, <5>2
          <6>2. Gap(i)' = Gap(i)
            BY <3>1, <4>1, <6>1 DEF Gap
          <6>3. \/ Gap(i) <= drops.told
                \/ \E j \in 1..i : Gap(i) <= events[j].drop
            BY <1>0, <6>1 DEF GapsOK, GapsAhead
          <6> QED
            BY <4>1, <4>3, <6>1, <6>2, <6>3
        <5> QED
          BY <5>1, <5>2
      <4>7. past'.last.seq - past'.out <= drops'.told
        BY <3>1, <4>3 DEF GapsOK
      <4> QED
        BY <4>5, <4>6, <4>7 DEF GapsOK, GapsAhead
    <3>7. CASE PushOut(e)
      <4>1. /\ Len(events) >= 2
            /\ events' \in Seq(Event) /\ Len(events') = Len(events)
            /\ \A i \in 1..(Len(events) - 1) :
                 /\ events'[i].seq = events[i + 1].seq
                 /\ events'[i].drop = IF i = 1 THEN drops.count + 1
                                               ELSE events[i + 1].drop
            /\ events'[Len(events)] = NewEvent(readers[e], 0)
        BY <3>7, PushOutEvents DEF Base
      <4>2. DOMAIN events' = 1..Len(events)
        BY <4>1, LenProperties
      <4>3. drops'.count = drops.count + 1 /\ drops'.told = drops.told
        BY <1>0, <3>7 DEF PushOut, DropState
      <4>4. events'[Len(events)].seq = handle.seq
        BY <3>4, <4>1 DEF NewEvent
      <4>5. Accounts'
        <5>1. PICK n \in Nat : n = Len(events) /\ n = Len(events')
          BY <1>0, <4>1
        <5>2. PICK c \in Nat, o \in Nat : c = drops.count /\ o = past.out
          BY <1>0
        <5>3. handle'.seq = o + n + c + 1
          BY <3>0, <3>5, <5>1, <5>2
        <5>4. /\ handle'.seq = o + n + (c + 1) + 0
          BY <5>3
        <5> QED
          BY <3>0, <3>3, <4>3, <5>1, <5>2, <5>4 DEF Accounts
      <4>6. events'[1].drop = drops.count + 1
        BY <1>0, <4>1
      <4>7. ASSUME NEW i \in DOMAIN events'
            PROVE  1 \in 1..i /\ Gap(i)' <= events'[1].drop
        <5>0. i \in 1..Len(events) /\ 1 \in 1..i
          BY <1>0, <4>2
        <5>1. CASE i = Len(events)
          <6>1. Gap(i)' = drops.count + 1
            BY <1>0, <3>1, <3>5, <4>4, <5>1 DEF Gap
          <6> QED
            BY <1>0, <4>6, <5>0, <6>1
        <5>2. CASE i # Len(events)
          <6>1. i \in 1..(Len(events) - 1) /\ i + 1 \in 1..Len(events)
            BY <1>0, <5>0, <5>2
          <6>2. Gap(i)' = Gap(i + 1) + 1 /\ Gap(i + 1) \in Int
            <7>1. PICK s \in Nat : s = events[i + 1].seq
              BY <1>1, <6>1
            <7>2. events'[i].seq = s /\ i \in Nat
              BY <4>1, <6>1, <7>1
            <7> QED
              <8>1. /\ Gap(i)' = s - past.out - i
                    /\ Gap(i + 1) = s - past.out - (i + 1)
                BY <3>0, <7>1, <7>2 DEF Gap
              <8> QED
                BY <1>n, <7>2, <8>1
          <6>3. \A j \in 1..(i + 1) : j \in 1..Len(events)
            BY <1>0, <6>1
          <6>4. Gap(i + 1) <= drops.count
            <7>1. \/ Gap(i + 1) <= drops.told
                  \/ \E j \in 1..(i + 1) : Gap(i + 1) <= events[j].drop
              BY <1>0, <6>1 DEF GapsOK, GapsAhead
            <7>2. \A j \in 1..(i + 1) :
                    events[j].drop \in Nat /\ events[j].drop <= drops.count
              BY <1>1, <1>3, <6>3
            <7>3. PICK g \in Int : g = Gap(i + 1)
              BY <6>2
            <7> QED
              BY <1>0, <1>3, <7>1, <7>2, <7>3
          <6> QED
            BY <1>0, <4>6, <5>0, <6>2, <6>4
        <5> QED
          BY <5>1, <5>2
      <4>8. past'.last.seq - past'.out <= drops'.told
        BY <3>1, <4>3 DEF GapsOK
      <4> QED
        BY <4>5, <4>7, <4>8 DEF GapsOK, GapsAhead
    <3> QED
      BY <2>3, <3>6, <3>7
  <2>4. CASE \/ ReaderStops(e) \/ ReadFails(e) \/ ReadLine(e) \/ CheckLine(e)
             \/ EndAnswer(e) \/ Ring(e)
    <3>1. UNCHANGED <<events, drops, past>> /\ handle'.seq = handle.seq
      BY <1>0, <2>4 DEF ReaderStops, ReadFails, ReadLine, CheckLine,
                        EndAnswer, Ring, HandleState
    <3>2. /\ readers[e].at # "put" /\ readers'[e].at # "put"
          /\ \A x \in Epoch : x # e => readers'[x] = readers[x]
      <4>1. CASE ReaderStops(e) \/ ReadFails(e) \/ Ring(e)
        BY <4>1, RestShape DEF ReaderStops, ReadFails, Ring, Base
      <4>2. CASE EndAnswer(e)
        <5>1. /\ ReaderMoves(e, "end", "number")
          BY <4>2 DEF EndAnswer
        <5>2. /\ readers[e].at = "end" /\ readers'[e].at = "number"
              /\ \A x \in Epoch : x # e => readers'[x] = readers[x]
          BY <5>1, MoveShape DEF Base
        <5> QED
          BY <5>2
      <4>3. CASE ReadLine(e) \/ CheckLine(e)
        BY <1>0, <4>3 DEF ReadLine, CheckLine, ReaderState
      <4> QED
        BY <2>4, <4>1, <4>2, <4>3
    <3> QED
      BY <1>4, <3>1, <3>2
  <2> QED
    BY <1>6, <2>1, <2>2, <2>3, <2>4 DEF ReaderStep
<1>7. CASE Publish
  <2>1. /\ Len(events) \in Nat \ {0} /\ events[1] \in Event
        /\ Head(events) = events[1]
        /\ events' \in Seq(Event) /\ Len(events') = Len(events) - 1
        /\ \A i \in 1..(Len(events) - 1) : events'[i] = events[i + 1]
    BY <1>7, PublishEvents DEF Base
  <2>2. DOMAIN events' = 1..(Len(events) - 1)
    BY <2>1, LenProperties
  <2>3. /\ past'.last.seq = events[1].seq /\ past'.out = past.out + 1
        /\ UNCHANGED <<handle, readers>>
    BY <1>0, <1>7, <2>1 DEF Publish, PastState
  <2>4. PICK h \in Event : h = events[1]
    BY <2>1
  <2>5. /\ drops'.count = drops.count
        /\ drops'.told = IF h.drop > drops.told THEN h.drop ELSE drops.told
    BY <1>0, <1>7, <2>1, <2>4 DEF Publish, DropState
  <2>6. /\ h.drop = events[1].drop /\ h.drop \in Nat
        /\ drops'.told \in Nat
        /\ h.drop <= drops'.told /\ drops.told <= drops'.told
    BY <1>0, <1>1, <2>1, <2>4, <2>5
  <2>7. Accounts'
    <3>1. InHand' = InHand
      BY <2>3 DEF InHand
    <3> QED
      BY <1>n, <2>1, <2>3, <2>5, <3>1 DEF GapsOK, Accounts
  <2>8. past'.last.seq - past'.out <= drops'.told
    <3>1. 1 \in 1..Len(events) /\ \A j \in 1..1 : j = 1
      BY <1>0, <2>1
    <3>2. Gap(1) <= drops.told \/ Gap(1) <= events[1].drop
      BY <1>0, <3>1 DEF GapsOK, GapsAhead
    <3>3. events[1].seq \in Nat
      BY <1>1, <3>1
    <3>4. PICK a \in Nat, o \in Nat : a = events[1].seq /\ o = past.out
      BY <1>n, <3>3
    <3>5. a - o - 1 <= drops.told \/ a - o - 1 <= h.drop
      BY <2>6, <3>2, <3>4 DEF Gap
    <3>6. a - (o + 1) <= drops'.told
      BY <1>0, <2>6, <3>5
    <3> QED
      BY <2>3, <3>4, <3>6
  <2>9. ASSUME NEW i \in DOMAIN events'
        PROVE  \/ Gap(i)' <= drops'.told
               \/ \E j \in 1..i : Gap(i)' <= events'[j].drop
    <3>1. i \in 1..(Len(events) - 1) /\ i + 1 \in 1..Len(events)
      BY <1>0, <2>1, <2>2
    <3>2. Gap(i)' = Gap(i + 1) /\ Gap(i + 1) \in Int
      <4>1. PICK s \in Nat : s = events[i + 1].seq
        BY <1>1, <3>1
      <4>2. events'[i].seq = s /\ i \in Nat
        BY <2>1, <3>1, <4>1
      <4>3. Gap(i)' = s - (past.out + 1) - i /\ Gap(i + 1) = s - past.out - (i + 1)
        BY <2>3, <4>1, <4>2 DEF Gap
      <4>4. past.out \in Nat /\ i \in Nat
        BY <1>0, <4>2
      <4> QED
        BY <4>1, <4>3, <4>4
    <3>3. \/ Gap(i + 1) <= drops.told
          \/ \E j \in 1..(i + 1) : Gap(i + 1) <= events[j].drop
      BY <1>0, <3>1 DEF GapsOK, GapsAhead
    <3>4. ASSUME NEW j \in 1..(i + 1), Gap(i + 1) <= events[j].drop
          PROVE  \/ Gap(i)' <= drops'.told
                 \/ \E k \in 1..i : Gap(i)' <= events'[k].drop
      <4>1. CASE j = 1
        BY <1>0, <2>6, <3>2, <3>4, <4>1
      <4>2. CASE j # 1
        <5>1. PICK k \in 1..i : j = k + 1 /\ k \in 1..(Len(events) - 1)
          <6>1. j - 1 \in 1..i /\ j = (j - 1) + 1 /\ j - 1 \in 1..(Len(events) - 1)
            BY <1>0, <3>1, <4>2
          <6> QED
            BY <6>1
        <5>2. events'[k] = events[j]
          BY <2>1, <5>1
        <5> QED
          BY <3>2, <3>4, <5>1, <5>2
      <4> QED
        BY <4>1, <4>2
    <3> QED
      BY <1>0, <2>6, <3>2, <3>3, <3>4
  <2> QED
    BY <2>7, <2>8, <2>9 DEF GapsOK, GapsAhead
<1>8. CASE Modem \/ Sending \/ UNCHANGED daemonVars
  <2>1. UNCHANGED <<events, handle, readers, drops>>
    BY <1>8 DEF Modem, ModemAnswers, Unsolicited, Says, Unplug, Plug,
                Sending, SendAt, Arm, WriteAt, WriteFails, Woken,
                DeadlinePasses, daemonVars
  <2>2. past'.last = past.last /\ past'.out = past.out
    BY <1>0, <1>8 DEF Modem, ModemAnswers, Unsolicited, Says, Unplug, Plug,
                Sending, SendAt, Arm, WriteAt, WriteFails, Woken, GiveUp,
                DeadlinePasses, daemonVars, PastState
  <2> QED
    BY <1>4, <2>1, <2>2
<1>9. CASE DrainPipe \/ PublishEnds \/ RingAgain
  BY <1>4, <1>9 DEF DrainPipe, PublishEnds, RingAgain
<1>10. CASE Opening
  <2>1. UNCHANGED <<events, drops>> /\ handle'.seq = handle.seq
    BY <1>0, <1>10 DEF Opening, MainOpens, MonitorLooks, AlreadyOpen,
       StopReader, MarkClosed, OpenPort, OpenFails, HandleState
  <2>2. past'.last = past.last /\ past'.out = past.out
    BY <1>0, <1>10 DEF Opening, MainOpens, MonitorLooks, AlreadyOpen,
       StopReader, MarkClosed, OpenPort, OpenFails, PastState
  <2>3. \A x \in Epoch : readers'[x].at = "put" <=> readers[x].at = "put"
    <3>1. CASE OpenPort
      <4>1. \A x \in Epoch : ~Busy(x)
        BY <3>1 DEF OpenPort, Base, ReadersOK, ReaderOver, Busy
      <4>2. \A x \in Epoch : readers'[x].at # "put"
        BY <1>0, <3>1, <4>1 DEF OpenPort, Busy, NoReader
      <4> QED
        BY <4>1, <4>2 DEF Busy
    <3>2. CASE StopReader
      BY <1>0, <3>2 DEF StopReader, ReaderState
    <3>3. CASE MainOpens \/ MonitorLooks \/ AlreadyOpen \/ MarkClosed
               \/ OpenFails
      BY <3>3 DEF MainOpens, MonitorLooks, AlreadyOpen, MarkClosed, OpenFails
    <3> QED
      BY <1>10, <3>1, <3>2, <3>3 DEF Opening
  <2> QED
    BY <1>4, <2>1, <2>2, <2>3
<1> QED
  BY <1>6, <1>7, <1>8, <1>9, <1>10
     DEF DaemonNext, Reader, ReaderStep, Consuming

-----------------------------------------------------------------------------

IInv == Base /\ NoLostWakeup /\ DropsOK /\ OrderOK /\ GapsOK /\ FlowOK

LEMMA IInvInit == DaemonInit => IInv
<1> SUFFICES ASSUME DaemonInit PROVE IInv
  OBVIOUS
<1>1. NoLostWakeup
  BY DEF DaemonInit, NoLostWakeup
<1>2. DropsOK
  BY DEF DaemonInit, DropsOK, DropsBounded, CountIsTold
<1>3. OrderOK
  BY DEF DaemonInit, OrderOK, NoLine, NoReader
<1>4. GapsOK
  BY EmptySeq
     DEF DaemonInit, GapsOK, Accounts, GapsAhead, InHand, NoLine, NoReader
<1> QED
  BY <1>1, <1>2, <1>3, <1>4, BaseInit, FlowInit DEF IInv

\* The inductive invariant of at-daemon: the types, one reader at a time, the
\* wakeup, the counts of drops, the numbers of the lines and who is waiting
\* for what (src/at-daemon/src as a whole).
THEOREM DaemonInvariance == DaemonSpec => []IInv
<1>1. IInv /\ [DaemonNext]_daemonVars => IInv'
  BY BaseNext, WakeupNext, DropsNext, OrderNext, GapsNext, FlowNext DEF IInv
<1> QED
  BY <1>1, IInvInit, PTL DEF DaemonSpec

\* The variables keep their types.
THEOREM DaemonTypeCorrect == DaemonSpec => []DaemonTypeOK
<1>1. IInv => DaemonTypeOK
  BY TypedIsTypeOK DEF IInv, Base
<1> QED
  BY <1>1, DaemonInvariance, PTL

\* Lines in the queue never wait with nobody on the way to publish them
\* (at_line_events.c:10-17, 76-119, 121-191).
THEOREM WakeupNeverLost == DaemonSpec => []NoLostWakeup
<1>1. IInv => NoLostWakeup
  BY DEF IInv
<1> QED
  BY <1>1, DaemonInvariance, PTL

\* The count of dropped lines has been told or is going to be, and no line
\* comes out after lines whose loss has not been told by then
\* (at_line_events.c:56-119, 121-146).
THEOREM LossesAreTold == DaemonSpec => []DropsAreTold
<1>1. IInv => DropsAreTold
  BY DEF IInv, DropsOK, GapsOK, DropsAreTold
<1> QED
  BY <1>1, DaemonInvariance, PTL

\* Lines are published in the order of their numbers and epochs
\* (at_handler.c:299-410, port_manager.c:121-280).
THEOREM LinesStayInOrder == DaemonSpec => []LinesInOrder
<1>1. IInv => LinesInOrder
  BY OrderIsOrder DEF IInv, Base
<1> QED
  BY <1>1, DaemonInvariance, PTL

\* Until a command is given up, its answer is ended by its own line and no
\* line of it is taken for an unsolicited one (at_handler.c:123-235, 359-400).
THEOREM AnswersFindTheirCommand == DaemonSpec => []LinesFindTheirCommand
<1>1. IInv => LinesFindTheirCommand
  BY FlowIsFlow DEF IInv
<1> QED
  BY <1>1, DaemonInvariance, PTL
=============================================================================
