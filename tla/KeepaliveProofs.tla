--------------------------- MODULE KeepaliveProofs ---------------------------
(***************************************************************************)
(* The watchdog for any threshold, any number of loops, failures and        *)
(* orders: the types, and one loop for each family.                         *)
(***************************************************************************)
EXTENDS Keepalive, SequenceTheorems, TLAPS

LEMMA KeepaliveNumbers ==
  /\ StopRounds \in Nat \ {0} /\ MaxGen \in Nat \ {0}
  /\ MaxFailures \in Nat /\ MaxOrders \in Nat
BY KeepaliveAssumption DEF KeepaliveConstants

-----------------------------------------------------------------------------
(* The invariant *)

Ats == {"unborn", "born", "round", "redial", "up", "term", "over"}
LoopState == [at : Ats, rounds : 0..(StopRounds - 1)]
ConfigState == [enable : BOOLEAN, split : BOOLEAN]
TallyState == [orders : 0..MaxOrders, failures : 0..MaxFailures,
               raced : BOOLEAN]
Process == Loop \cup {User}

Typed ==
  /\ config \in ConfigState
  /\ loops \in [Loop -> LoopState]
  /\ pids \in [Family -> 0..MaxGen]
  /\ scripts \in [Process -> Seq(ScriptCommand)]
  /\ tally \in TallyState

\* What a script has still to do.  What starts does nothing else, what dials
\* stops nothing, a loop is started and a stop finished before anything else is
\* begun, and a start is the last that a script begins.
Parts(s) == {s[i] : i \in DOMAIN s}
Looks == {"check", "spawn"}
Ends == {"stop", "kill"}
Shape(s) ==
  /\ (\E c \in Parts(s) : c.do \in Looks) => \A c \in Parts(s) : c.do \in Looks
  /\ (\E c \in Parts(s) : c.do = "ensure") => \A c \in Parts(s) : c.do \notin Ends
  /\ \A i \in DOMAIN s : /\ s[i].do \in {"spawn", "kill"} => i = 1
                         /\ s[i].do = "start" => i = Len(s)
ScriptsOK == \A p \in Process : Shape(scripts[p])

\* The families that are watched by the configuration, and those the user's
\* script is still to stop.
Wanted == IF config.split THEN {"4", "6"} ELSE {"both"}
Stopping(f) == \E c \in Parts(scripts[User]) : c.do \in Ends /\ c.of = f

\* As long as starts and stops keep out of each other's way: every loop but the
\* youngest is on record; there is one for each family; none is left of a
\* family about to be started, none but the one it ends of a family whose stop
\* is under way; and what is watched, or about to be, is wanted or about to be
\* stopped.
Alone == \A p, q \in Process : UnderWay(p) /\ UnderWay(q) => p = q
Recorded ==
  \A l \in Loop : Alive(l) /\ loops[l].at # "born" => pids[l[1]] = l[2]
Single ==
  \A l, k \in Loop : Alive(l) /\ Alive(k) /\ l[1] = k[1] => l = k
Cleared ==
  \A p \in Process, l \in Loop :
    Turn(p, "spawn") /\ l[1] = Head(scripts[p]).of => ~Alive(l)
Ending ==
  \A p \in Process, l \in Loop :
    Turn(p, "kill") /\ l[1] = Head(scripts[p]).of /\ Alive(l)
      => l[2] = Head(scripts[p]).gen /\ loops[l].at # "born"
Orderly == \A l \in Loop : Alive(l) => l[1] \in Wanted \/ Stopping(l[1])
Due ==
  \A p \in Process : \A c \in Parts(scripts[p]) :
    c.do \in Looks => c.of \in Wanted \/ Stopping(c.of)

Apart == Alone /\ Recorded /\ Single /\ Cleared /\ Ending /\ Orderly /\ Due

IInv == Typed /\ ScriptsOK /\ (tally.raced \/ Apart)
-----------------------------------------------------------------------------
(* Scripts *)

LEMMA Names ==
  /\ User \in Process /\ User \notin Loop
  /\ \A l \in Loop : /\ l \in Process /\ l[1] \in Family /\ l[2] \in Gen
                     /\ l = <<l[1], l[2]>>
  /\ \A f \in Family, g \in Gen :
       <<f, g>> \in Loop /\ <<f, g>>[1] = f /\ <<f, g>>[2] = g
  /\ 0 \in 0..MaxGen /\ 0 \notin Gen /\ \A g \in Gen : g \in 0..MaxGen
BY KeepaliveNumbers DEF User, Process, Loop, Family, Gen

LEMMA DoCommand ==
  ASSUME NEW what \in {"ensure", "start", "check", "spawn", "stop"},
         NEW f \in Family
  PROVE  Do(what, f) \in ScriptCommand /\ Do(what, f).do = what /\ Do(what, f).of = f
BY Names DEF Do, ScriptCommand

LEMMA KillCommand ==
  ASSUME NEW f \in Family, NEW g \in 0..MaxGen
  PROVE  /\ Kill(f, g) \in ScriptCommand
         /\ Kill(f, g).do = "kill" /\ Kill(f, g).of = f /\ Kill(f, g).gen = g
BY DEF Kill, ScriptCommand

LEMMA PartsTyped ==
  ASSUME NEW s \in Seq(ScriptCommand), NEW c \in Parts(s)
  PROVE  c \in ScriptCommand /\ c.of \in Family
<1>1. PICK i \in DOMAIN s : c = s[i]
  BY DEF Parts
<1>2. s[i] \in ScriptCommand
  BY LenProperties
<1> QED
  BY <1>1, <1>2 DEF ScriptCommand

LEMMA NoParts == Parts(<<>>) = {} /\ <<>> \in Seq(ScriptCommand) /\ Shape(<<>>)
BY EmptySeq DEF Parts, Shape

LEMMA Places ==
  ASSUME NEW s \in Seq(ScriptCommand), s # <<>>
  PROVE  /\ Len(s) \in Nat \ {0} /\ DOMAIN s = 1..Len(s)
         /\ Tail(s) \in Seq(ScriptCommand) /\ Len(Tail(s)) = Len(s) - 1
         /\ DOMAIN Tail(s) = 1..(Len(s) - 1)
         /\ Head(s) = s[1] /\ Head(s) \in ScriptCommand /\ Head(s).of \in Family
         /\ \A i \in 1..(Len(s) - 1) : Tail(s)[i] = s[i + 1]
<1>1. /\ Tail(s) \in Seq(ScriptCommand) /\ Len(Tail(s)) = Len(s) - 1
      /\ Len(s) \in Nat \ {0} /\ Head(s) = s[1] /\ Head(s) \in ScriptCommand
      /\ \A i \in 1..(Len(s) - 1) : Tail(s)[i] = s[i + 1]
  BY HeadTailProperties, LenProperties, EmptySeq
<1>2. DOMAIN s = 1..Len(s) /\ DOMAIN Tail(s) = 1..(Len(s) - 1)
  BY <1>1, LenProperties
<1> QED
  BY <1>1, <1>2 DEF ScriptCommand

\* A script once its first command is done.
LEMMA TailOf ==
  ASSUME NEW s \in Seq(ScriptCommand), s # <<>>, Shape(s)
  PROVE  /\ Tail(s) \in Seq(ScriptCommand) /\ Shape(Tail(s))
         /\ Parts(s) = {Head(s)} \cup Parts(Tail(s))
         /\ \A c \in Parts(Tail(s)) : c.do \notin {"spawn", "kill"}
         /\ Head(s).do = "start" => Tail(s) = <<>>
<1>1. /\ Len(s) \in Nat \ {0} /\ DOMAIN s = 1..Len(s)
      /\ Tail(s) \in Seq(ScriptCommand) /\ Len(Tail(s)) = Len(s) - 1
      /\ DOMAIN Tail(s) = 1..(Len(s) - 1) /\ Head(s) = s[1]
      /\ \A i \in 1..(Len(s) - 1) : Tail(s)[i] = s[i + 1]
  BY Places
<1>2. \A i \in DOMAIN s : i = 1 \/ (i - 1 \in DOMAIN Tail(s) /\ Tail(s)[i - 1] = s[i])
  BY <1>1
<1>3. \A i \in DOMAIN Tail(s) : /\ i + 1 \in DOMAIN s /\ Tail(s)[i] = s[i + 1]
                                /\ i + 1 # 1
  BY <1>1
<1>4. 1 \in DOMAIN s
  BY <1>1
<1>5. Parts(s) = {Head(s)} \cup Parts(Tail(s))
  <2>1. ASSUME NEW x \in Parts(s) PROVE x = Head(s) \/ x \in Parts(Tail(s))
    <3>1. PICK i \in DOMAIN s : x = s[i]
      BY <2>1 DEF Parts
    <3> QED
      BY <1>1, <1>2, <3>1 DEF Parts
  <2>2. Head(s) \in Parts(s)
    BY <1>1, <1>4 DEF Parts
  <2>3. ASSUME NEW x \in Parts(Tail(s)) PROVE x \in Parts(s)
    <3>1. PICK i \in DOMAIN Tail(s) : x = Tail(s)[i]
      BY <2>3 DEF Parts
    <3> QED
      BY <1>3, <3>1 DEF Parts
  <2> QED
    BY <2>1, <2>2, <2>3
<1>6. \A i \in DOMAIN Tail(s) : Tail(s)[i].do \notin {"spawn", "kill"}
  BY <1>3 DEF Shape
<1>7. \A i \in DOMAIN Tail(s) : Tail(s)[i].do = "start" => i = Len(Tail(s))
  <2>1. \A i \in DOMAIN s : s[i].do = "start" => i = Len(s)
    BY DEF Shape
  <2>2. \A i \in DOMAIN Tail(s) : Tail(s)[i].do = "start" => i + 1 = Len(s)
    BY <1>3, <2>1
  <2> QED
    BY <1>1, <2>2
<1>8. Shape(Tail(s))
  BY <1>5, <1>6, <1>7 DEF Shape
<1>9. \A c \in Parts(Tail(s)) : c.do \notin {"spawn", "kill"}
  BY <1>6 DEF Parts
<1>10. Head(s).do = "start" => Len(Tail(s)) = 0
  BY <1>1, <1>4 DEF Shape
<1>11. Len(Tail(s)) = 0 => Tail(s) = <<>>
  BY <1>1, EmptySeq
<1> QED
  BY <1>1, <1>5, <1>8, <1>9, <1>10, <1>11

\* A script whose first command becomes the second half of what it does.
LEMMA HeadOf ==
  ASSUME NEW s \in Seq(ScriptCommand), s # <<>>, Shape(s), NEW c \in ScriptCommand,
         \/ c.do = "spawn" /\ Head(s).do = "check"
         \/ c.do = "kill" /\ Head(s).do = "stop",
         NEW r, r = <<c>> \o Tail(s)
  PROVE  /\ r \in Seq(ScriptCommand) /\ r # <<>> /\ Head(r) = c /\ Shape(r)
         /\ Parts(r) = {c} \cup Parts(Tail(s))
<1>1. /\ Len(s) \in Nat \ {0} /\ DOMAIN s = 1..Len(s)
      /\ Tail(s) \in Seq(ScriptCommand) /\ Len(Tail(s)) = Len(s) - 1
      /\ DOMAIN Tail(s) = 1..(Len(s) - 1) /\ Head(s) = s[1]
      /\ \A i \in 1..(Len(s) - 1) : Tail(s)[i] = s[i + 1]
  BY Places
<1>2. PICK t : t = <<c>> /\ t \in Seq(ScriptCommand) /\ Len(t) = 1 /\ t[1] = c
  <2>1. <<c>> \in Seq(ScriptCommand) /\ Len(<<c>>) = 1 /\ <<c>>[1] = c
    OBVIOUS
  <2> QED
    BY <2>1
<1>3. PICK u : u = Tail(s)
  OBVIOUS
<1>4. /\ r \in Seq(ScriptCommand) /\ Len(r) = 1 + Len(u)
      /\ \A i \in 1..(1 + Len(u)) : r[i] = IF i <= 1 THEN t[i] ELSE u[i - 1]
  <2>1. r = t \o u /\ u \in Seq(ScriptCommand)
    BY <1>1, <1>2, <1>3
  <2> QED
    BY <1>2, <2>1, ConcatProperties
<1>5. /\ Len(r) = Len(s) /\ DOMAIN r = DOMAIN s /\ r[1] = c
      /\ \A i \in DOMAIN s : i = 1 \/ (i - 1 \in DOMAIN u /\ r[i] = u[i - 1] /\ r[i] = s[i])
  <2>1. Len(u) = Len(s) - 1 /\ DOMAIN u = 1..(Len(s) - 1)
    BY <1>1, <1>3
  <2>2. Len(r) = Len(s) /\ DOMAIN r = DOMAIN s
    BY <1>1, <1>4, <2>1, LenProperties
  <2>3. ASSUME NEW i \in DOMAIN s, i # 1
        PROVE  i - 1 \in DOMAIN u /\ r[i] = u[i - 1] /\ r[i] = s[i]
    <3>1. /\ i \in 1..(1 + Len(u)) /\ ~(i <= 1) /\ i - 1 \in 1..(Len(s) - 1)
          /\ (i - 1) + 1 = i
      BY <1>1, <2>1, <2>3
    <3>2. r[i] = u[i - 1]
      BY <1>4, <3>1
    <3> QED
      BY <1>1, <1>3, <2>1, <3>1, <3>2
  <2>4. r[1] = c
    <3>1. 1 \in 1..(1 + Len(u))
      BY <1>1, <2>1
    <3> QED
      BY <1>2, <1>4, <3>1
  <2> QED
    BY <2>2, <2>3, <2>4
<1>6. r # <<>> /\ Head(r) = c
  <2>1. Len(r) # 0
    BY <1>1, <1>5
  <2>2. r # <<>>
    BY <2>1
  <2> QED
    BY <1>4, <1>5, <2>2, HeadTailProperties
<1>7. Parts(r) = {c} \cup Parts(u)
  <2>1. ASSUME NEW x \in Parts(r) PROVE x = c \/ x \in Parts(u)
    <3>1. PICK i \in DOMAIN r : x = r[i]
      BY <2>1 DEF Parts
    <3> QED
      BY <1>5, <3>1 DEF Parts
  <2>2. c \in Parts(r)
    <3>1. 1 \in DOMAIN r
      BY <1>1, <1>5
    <3> QED
      BY <1>5, <3>1 DEF Parts
  <2>3. ASSUME NEW x \in Parts(u) PROVE x \in Parts(r)
    <3>1. PICK i \in DOMAIN u : x = u[i]
      BY <2>3 DEF Parts
    <3>2. i + 1 \in 1..(1 + Len(u)) /\ ~(i + 1 <= 1) /\ (i + 1) - 1 = i
      BY <1>1, <1>3, <3>1
    <3>3. r[i + 1] = u[i]
      BY <1>4, <3>2
    <3>4. i + 1 \in DOMAIN r
      BY <1>1, <1>3, <1>5, <3>1
    <3> QED
      BY <3>1, <3>3, <3>4 DEF Parts
  <2> QED
    BY <2>1, <2>2, <2>3
<1>8. Shape(r)
  <2>1. Parts(s) = {Head(s)} \cup Parts(u)
    BY <1>3, TailOf
  <2>2. \A x \in Parts(u) : x \in Parts(s)
    BY <2>1
  <2>3. (\E x \in Parts(r) : x.do \in Looks) => \A x \in Parts(r) : x.do \in Looks
    BY <1>7, <2>1 DEF Shape, Looks
  <2>4. (\E x \in Parts(r) : x.do = "ensure") => \A x \in Parts(r) : x.do \notin Ends
    BY <1>7, <2>1 DEF Shape, Ends
  <2>5. \A i \in DOMAIN r : /\ r[i].do \in {"spawn", "kill"} => i = 1
                            /\ r[i].do = "start" => i = Len(r)
    BY <1>5 DEF Shape
  <2> QED
    BY <2>3, <2>4, <2>5 DEF Shape
<1> QED
  BY <1>3, <1>4, <1>6, <1>7, <1>8

\* The scripts that begin.
LEMMA Scripted ==
  /\ UpScript \in Seq(ScriptCommand) /\ Shape(UpScript)
  /\ \A c \in Parts(UpScript) : c.do \notin Looks \cup Ends
  /\ UpScript # <<>> /\ Head(UpScript).do = "ensure"
<1>1. PICK a \in ScriptCommand, b \in ScriptCommand :
        a = Do("ensure", "both") /\ b = Do("start", "both")
        /\ a.do = "ensure" /\ b.do = "start"
  <2>1. "both" \in Family
    BY DEF Family
  <2> QED
    BY <2>1, DoCommand
<1>2. PICK s : s = UpScript
  OBVIOUS
<1>3. s = <<a, b>>
  BY <1>1, <1>2 DEF UpScript
<1>4. /\ s \in Seq(ScriptCommand) /\ Len(s) = 2 /\ DOMAIN s = 1..2
      /\ s[1] = a /\ s[2] = b /\ s # <<>> /\ Head(s) = a
  BY <1>3
<1>5. \A i \in 1..2 : i = 1 \/ i = 2
  OBVIOUS
<1>6. Parts(s) = {a, b}
  BY <1>4, <1>5 DEF Parts
<1>7. Shape(s)
  BY <1>1, <1>4, <1>5, <1>6 DEF Shape, Looks, Ends
<1>8. \A c \in Parts(s) : c.do \notin Looks \cup Ends
  BY <1>1, <1>6 DEF Looks, Ends
<1> QED
  BY <1>1, <1>2, <1>4, <1>7, <1>8

LEMMA StopScripted ==
  /\ StopScript \in Seq(ScriptCommand) /\ Shape(StopScript)
  /\ \A f \in Family : \E c \in Parts(StopScript) : c.do \in Ends /\ c.of = f
  /\ \A c \in Parts(StopScript) : c.do \notin Looks
  /\ StopScript # <<>> /\ Head(StopScript).do = "stop"
<1>1. PICK a \in ScriptCommand, b \in ScriptCommand, d \in ScriptCommand :
        /\ a = Do("stop", "both") /\ b = Do("stop", "4") /\ d = Do("stop", "6")
        /\ a.do = "stop" /\ b.do = "stop" /\ d.do = "stop"
        /\ a.of = "both" /\ b.of = "4" /\ d.of = "6"
  <2>1. "both" \in Family /\ "4" \in Family /\ "6" \in Family
    BY DEF Family
  <2> QED
    BY <2>1, DoCommand
<1>2. PICK s : s = StopScript
  OBVIOUS
<1>3. s = <<a, b, d>>
  BY <1>1, <1>2 DEF StopScript
<1>4. /\ s \in Seq(ScriptCommand) /\ Len(s) = 3 /\ DOMAIN s = 1..3
      /\ s[1] = a /\ s[2] = b /\ s[3] = d /\ s # <<>> /\ Head(s) = a
  BY <1>3
<1>5. \A i \in 1..3 : i = 1 \/ i = 2 \/ i = 3
  OBVIOUS
<1>6. Parts(s) = {a, b, d}
  BY <1>4, <1>5 DEF Parts
<1>7. Shape(s)
  BY <1>1, <1>4, <1>5, <1>6 DEF Shape, Looks, Ends
<1>8. \A f \in Family : \E c \in Parts(s) : c.do \in Ends /\ c.of = f
  BY <1>1, <1>6 DEF Family, Ends
<1>9. \A c \in Parts(s) : c.do \notin Looks
  BY <1>1, <1>6 DEF Looks
<1> QED
  BY <1>1, <1>2, <1>4, <1>7, <1>8, <1>9

LEMMA RestartScripted ==
  /\ RestartScript \in Seq(ScriptCommand) /\ Shape(RestartScript)
  /\ \A f \in Family : \E c \in Parts(RestartScript) : c.do \in Ends /\ c.of = f
  /\ \A c \in Parts(RestartScript) : c.do \notin Looks
  /\ RestartScript # <<>> /\ Head(RestartScript).do = "stop"
<1>1. PICK a \in ScriptCommand, b \in ScriptCommand, d \in ScriptCommand, e \in ScriptCommand :
        /\ a = Do("stop", "both") /\ b = Do("stop", "4") /\ d = Do("stop", "6")
        /\ e = Do("start", "both")
        /\ a.do = "stop" /\ b.do = "stop" /\ d.do = "stop" /\ e.do = "start"
        /\ a.of = "both" /\ b.of = "4" /\ d.of = "6"
  <2>1. "both" \in Family /\ "4" \in Family /\ "6" \in Family
    BY DEF Family
  <2> QED
    BY <2>1, DoCommand
<1>2. PICK s : s = RestartScript
  OBVIOUS
<1>3. PICK t, u : t = <<a, b, d>> /\ u = <<e>>
  OBVIOUS
<1>4. s = t \o u
  BY <1>1, <1>2, <1>3 DEF RestartScript, StopScript
<1>5. /\ t \in Seq(ScriptCommand) /\ Len(t) = 3 /\ t[1] = a /\ t[2] = b /\ t[3] = d
      /\ u \in Seq(ScriptCommand) /\ Len(u) = 1 /\ u[1] = e
  BY <1>3
<1>6. /\ s \in Seq(ScriptCommand) /\ Len(s) = 4
      /\ \A i \in 1..4 : s[i] = IF i <= 3 THEN t[i] ELSE u[i - 3]
  <2>1. /\ s \in Seq(ScriptCommand) /\ Len(s) = Len(t) + Len(u)
        /\ \A i \in 1..(Len(t) + Len(u)) :
             s[i] = IF i <= Len(t) THEN t[i] ELSE u[i - Len(t)]
    BY <1>4, <1>5, ConcatProperties
  <2> QED
    BY <1>5, <2>1
<1>7. /\ DOMAIN s = 1..4 /\ s[1] = a /\ s[2] = b /\ s[3] = d /\ s[4] = e
  BY <1>5, <1>6, LenProperties
<1>8. s # <<>> /\ Head(s) = a
  <2>1. s # <<>>
    <3>1. Len(s) = 4
      BY <1>6
    <3>2. Len(<<>>) = 0
      OBVIOUS
    <3> QED
      BY <3>1, <3>2
  <2> QED
    BY <1>6, <1>7, <2>1, HeadTailProperties
<1>9. \A i \in 1..4 : i = 1 \/ i = 2 \/ i = 3 \/ i = 4
  OBVIOUS
<1>10. Parts(s) = {a, b, d, e}
  BY <1>7, <1>9 DEF Parts
<1>11. Shape(s)
  BY <1>1, <1>6, <1>7, <1>9, <1>10 DEF Shape, Looks, Ends
<1>12. \A f \in Family : \E c \in Parts(s) : c.do \in Ends /\ c.of = f
  BY <1>1, <1>10 DEF Family, Ends
<1>13. \A c \in Parts(s) : c.do \notin Looks
  BY <1>1, <1>10 DEF Looks
<1> QED
  BY <1>1, <1>2, <1>6, <1>8, <1>11, <1>12, <1>13

LEMMA CheckScripted ==
  ASSUME config.split \in BOOLEAN,
         NEW s, s = IF config.split THEN <<Do("check", "4"), Do("check", "6")>>
                                    ELSE <<Do("check", "both")>>
  PROVE  /\ s \in Seq(ScriptCommand) /\ Shape(s) /\ s # <<>> /\ Head(s).do = "check"
         /\ \A c \in Parts(s) : c.do = "check" /\ c.of \in Wanted
<1>1. PICK a \in ScriptCommand, b \in ScriptCommand, d \in ScriptCommand :
        /\ a = Do("check", "both") /\ b = Do("check", "4") /\ d = Do("check", "6")
        /\ a.do = "check" /\ b.do = "check" /\ d.do = "check"
        /\ a.of = "both" /\ b.of = "4" /\ d.of = "6"
  <2>1. "both" \in Family /\ "4" \in Family /\ "6" \in Family
    BY DEF Family
  <2> QED
    BY <2>1, DoCommand
<1>2. CASE config.split
  <2>1. s = <<b, d>>
    BY <1>1, <1>2
  <2>2. /\ s \in Seq(ScriptCommand) /\ Len(s) = 2 /\ DOMAIN s = 1..2
        /\ s[1] = b /\ s[2] = d /\ s # <<>> /\ Head(s) = b
    BY <2>1
  <2>3. \A i \in 1..2 : i = 1 \/ i = 2
    OBVIOUS
  <2>4. Parts(s) = {b, d}
    BY <2>2, <2>3 DEF Parts
  <2>5. Shape(s)
    BY <1>1, <2>2, <2>3, <2>4 DEF Shape, Looks, Ends
  <2> QED
    BY <1>1, <1>2, <2>2, <2>4, <2>5 DEF Wanted
<1>3. CASE ~config.split
  <2>1. s = <<a>>
    BY <1>1, <1>3
  <2>2. /\ s \in Seq(ScriptCommand) /\ Len(s) = 1 /\ DOMAIN s = 1..1
        /\ s[1] = a /\ s # <<>> /\ Head(s) = a
    BY <2>1
  <2>3. \A i \in 1..1 : i = 1
    OBVIOUS
  <2>4. Parts(s) = {a}
    BY <2>2, <2>3 DEF Parts
  <2>5. Shape(s)
    BY <1>1, <2>2, <2>3, <2>4 DEF Shape, Looks, Ends
  <2> QED
    BY <1>1, <1>3, <2>2, <2>4, <2>5 DEF Wanted
<1> QED
  BY <1>2, <1>3

-----------------------------------------------------------------------------
(* What keeps starts and stops apart *)

\* Loops move, but none comes alive, and every one on the move is on record.
LEMMA LoopsMove ==
  ASSUME Apart, UNCHANGED <<config, scripts>>,
         \A l \in Loop : Alive(l)' =>
           /\ Alive(l)
           /\ loops'[l].at = "born" => loops[l].at = "born"
           /\ loops'[l].at # "born" => pids'[l[1]] = l[2]
  PROVE  Apart'
<1>1. Alone' /\ Due'
  BY DEF Apart, Alone, Due, UnderWay, Turn, Wanted, Stopping
<1>2. Recorded' /\ Single'
  BY DEF Apart, Recorded, Single
<1>3. Cleared' /\ Ending'
  BY DEF Apart, Cleared, Ending, Turn
<1>4. Orderly'
  BY DEF Apart, Orderly, Wanted, Stopping
<1> QED
  BY <1>1, <1>2, <1>3, <1>4 DEF Apart

\* A script goes on with s, while no loop comes alive.
LEMMA ScriptMoves ==
  ASSUME Typed, Apart, UNCHANGED config, NEW p \in Process, NEW s \in Seq(ScriptCommand),
         scripts' = [scripts EXCEPT ![p] = s],
         \A l \in Loop : Alive(l)' =>
           /\ Alive(l)
           /\ loops'[l].at = "born" => loops[l].at = "born"
           /\ loops'[l].at # "born" => pids'[l[1]] = l[2],
         UnderWay(p)' => UnderWay(p) \/ \A q \in Process : q # p => ~UnderWay(q),
         Turn(p, "spawn")' => \A l \in Loop : l[1] = Head(s).of => ~Alive(l)',
         Turn(p, "kill")' => \A l \in Loop : l[1] = Head(s).of /\ Alive(l)'
                               => l[2] = Head(s).gen /\ loops'[l].at # "born",
         \A f \in Family : Stopping(f) =>
           \/ Stopping(f)'
           \/ /\ \A l \in Loop : l[1] = f => ~Alive(l)'
              /\ \A q \in Process : q # p => ~UnderWay(q)
              /\ \A c \in Parts(s) : c.do \notin Looks,
         \A c \in Parts(s) : c.do \in Looks => c.of \in Wanted \/ Stopping(c.of)',
         ScriptsOK
  PROVE  Apart'
<1>1. /\ scripts'[p] = s /\ \A q \in Process : q # p => scripts'[q] = scripts[q]
      /\ scripts \in [Process -> Seq(ScriptCommand)]
  BY DEF Typed
<1>2. \A q \in Process : q # p =>
        /\ UnderWay(q)' = UnderWay(q)
        /\ Turn(q, "spawn")' = Turn(q, "spawn")
        /\ Turn(q, "kill")' = Turn(q, "kill")
  BY <1>1 DEF UnderWay, Turn
<1>3. Alone'
  BY <1>2 DEF Apart, Alone
<1>4. Recorded' /\ Single'
  BY DEF Apart, Recorded, Single
<1>5. Cleared'
  <2> SUFFICES ASSUME NEW q \in Process, NEW l \in Loop, Turn(q, "spawn")',
                      l[1] = Head(scripts'[q]).of, Alive(l)'
               PROVE  FALSE
    BY DEF Cleared
  <2>1. CASE q = p
    BY <1>1, <2>1
  <2>2. CASE q # p
    BY <1>1, <1>2, <2>2 DEF Apart, Cleared
  <2> QED
    BY <2>1, <2>2
<1>6. Ending'
  <2> SUFFICES ASSUME NEW q \in Process, NEW l \in Loop, Turn(q, "kill")',
                      l[1] = Head(scripts'[q]).of, Alive(l)'
               PROVE  l[2] = Head(scripts'[q]).gen /\ loops'[l].at # "born"
    BY DEF Ending
  <2>1. CASE q = p
    BY <1>1, <2>1
  <2>2. CASE q # p
    BY <1>1, <1>2, <2>2 DEF Apart, Ending
  <2> QED
    BY <2>1, <2>2
<1>7. Wanted' = Wanted
  BY DEF Wanted
<1>8. Orderly'
  <2> SUFFICES ASSUME NEW l \in Loop, Alive(l)'
               PROVE  l[1] \in Wanted \/ Stopping(l[1])'
    BY <1>7 DEF Orderly
  <2>1. l[1] \in Wanted \/ Stopping(l[1])
    BY DEF Apart, Orderly
  <2> QED
    BY <2>1, Names
<1>9. Due'
  <2> SUFFICES ASSUME NEW q \in Process, NEW c \in Parts(scripts'[q]), c.do \in Looks
               PROVE  c.of \in Wanted \/ Stopping(c.of)'
    BY <1>7 DEF Due
  <2>1. CASE q = p
    BY <1>1, <2>1
  <2>2. CASE q # p
    <3>1. c \in Parts(scripts[q]) /\ c.of \in Family
      BY <1>1, <2>2, PartsTyped
    <3>2. c.of \in Wanted \/ Stopping(c.of)
      BY <3>1 DEF Apart, Due
    <3>3. UnderWay(q)
      <4>1. Shape(scripts[q]) /\ scripts[q] \in Seq(ScriptCommand)
        BY <1>1 DEF ScriptsOK
      <4>2. scripts[q] # <<>>
        BY <3>1, NoParts
      <4>3. Head(scripts[q]) \in Parts(scripts[q])
        BY <4>1, <4>2, TailOf
      <4>4. Head(scripts[q]).do \in Looks
        BY <3>1, <4>1, <4>3 DEF Shape
      <4> QED
        BY <4>2, <4>4 DEF UnderWay, Turn, Looks
    <3> QED
      BY <2>2, <3>1, <3>2, <3>3
  <2> QED
    BY <2>1, <2>2
<1> QED
  BY <1>3, <1>4, <1>5, <1>6, <1>8, <1>9 DEF Apart

-----------------------------------------------------------------------------
(* A step of a loop *)

LEMMA Records ==
  /\ Unborn \in LoopState /\ Over \in LoopState
  /\ Unborn.at = "unborn" /\ Over.at = "over"
  /\ \A r \in LoopState, a \in Ats :
       [r EXCEPT !.at = a] \in LoopState /\ [r EXCEPT !.at = a].at = a
<1>1. 0 \in 0..(StopRounds - 1)
  BY KeepaliveNumbers
<1> QED
  BY <1>1 DEF LoopState, Ats, Unborn, Over

LEMMA Moved ==
  ASSUME Typed, NEW l \in Loop, NEW here, NEW there \in LoopState, At(l, here, there)
  PROVE  /\ loops' \in [Loop -> LoopState] /\ loops[l].at = here
         /\ loops'[l] = there /\ \A k \in Loop : k # l => loops'[k] = loops[k]
BY DEF Typed, At

LEMMA LoopKeeps ==
  ASSUME IInv, NEW l \in Loop, LoopStep(l)
  PROVE  IInv'
<1>1. /\ Typed /\ ScriptsOK /\ loops[l] \in LoopState
      /\ pids \in [Family -> 0..MaxGen] /\ tally \in TallyState
      /\ l[1] \in Family /\ l[2] \in 0..MaxGen /\ 0 \in 0..MaxGen
  BY Names DEF IInv, Typed
<1>2. {"round", "redial", "up"} \subseteq Ats
  BY DEF Ats
<1>3. CASE WritePid(l)
  <2>1. PICK r \in LoopState : r = [loops[l] EXCEPT !.at = "round"] /\ r.at = "round"
    BY <1>1, <1>2, Records
  <2>2. /\ loops' \in [Loop -> LoopState] /\ loops[l].at = "born"
        /\ loops'[l] = r /\ \A k \in Loop : k # l => loops'[k] = loops[k]
    BY <1>1, <1>3, <2>1, Moved DEF WritePid
  <2>3. /\ pids' \in [Family -> 0..MaxGen] /\ pids'[l[1]] = l[2]
        /\ \A f \in Family : f # l[1] => pids'[f] = pids[f]
    BY <1>1, <1>3 DEF WritePid
  <2>4. Typed' /\ ScriptsOK'
    BY <1>1, <1>3, <2>2, <2>3 DEF WritePid, Typed, ScriptsOK
  <2>5. ASSUME Apart PROVE Apart'
    <3>1. ASSUME NEW k \in Loop, Alive(k)'
          PROVE  /\ Alive(k)
                 /\ loops'[k].at = "born" => loops[k].at = "born"
                 /\ loops'[k].at # "born" => pids'[k[1]] = k[2]
      <4>1. CASE k = l
        BY <2>1, <2>2, <2>3, <4>1 DEF Alive
      <4>2. CASE k # l
        <5>1. Alive(k) /\ loops'[k] = loops[k] /\ Alive(l)
          BY <2>2, <3>1, <4>2 DEF Alive
        <5>2. k[1] # l[1] /\ k[1] \in Family
          BY <2>5, <4>2, <5>1, Names DEF Apart, Single
        <5> QED
          BY <2>3, <2>5, <5>1, <5>2 DEF Apart, Recorded
      <4> QED
        BY <4>1, <4>2
    <3> QED
      BY <1>3, <2>5, <3>1, LoopsMove DEF WritePid
  <2> QED
    BY <1>3, <2>4, <2>5 DEF IInv, WritePid
<1>4. ASSUME loops' \in [Loop -> LoopState], loops'[l] = Over,
             \A k \in Loop : k # l => loops'[k] = loops[k],
             loops[l].at \notin {"unborn", "born", "over"},
             pids' = pids \/ pids' = [pids EXCEPT ![l[1]] = 0],
             UNCHANGED <<config, scripts>>, tally' \in TallyState,
             tally'.raced = tally.raced
      PROVE  IInv'
  <2>1. pids' \in [Family -> 0..MaxGen] /\ \A f \in Family : f # l[1] => pids'[f] = pids[f]
    BY <1>1, <1>4
  <2>2. Typed' /\ ScriptsOK'
    BY <1>1, <1>4, <2>1 DEF Typed, ScriptsOK
  <2>3. ASSUME Apart PROVE Apart'
    <3>1. ASSUME NEW k \in Loop, Alive(k)'
          PROVE  /\ Alive(k)
                 /\ loops'[k].at = "born" => loops[k].at = "born"
                 /\ loops'[k].at # "born" => pids'[k[1]] = k[2]
      <4>1. k # l
        BY <1>4, <3>1, Records DEF Alive
      <4>2. Alive(k) /\ loops'[k] = loops[k] /\ Alive(l)
        BY <1>4, <3>1, <4>1 DEF Alive
      <4>3. k[1] # l[1] /\ k[1] \in Family
        BY <2>3, <4>1, <4>2, Names DEF Apart, Single
      <4> QED
        BY <2>1, <2>3, <4>2, <4>3 DEF Apart, Recorded
    <3> QED
      BY <1>4, <2>3, <3>1, LoopsMove
  <2> QED
    BY <1>4, <2>2, <2>3 DEF IInv
<1>5. ASSUME NEW r \in LoopState, loops' \in [Loop -> LoopState], loops'[l] = r,
             \A k \in Loop : k # l => loops'[k] = loops[k],
             r.at \in {"round", "redial", "up"},
             loops[l].at \in {"round", "redial", "up"},
             UNCHANGED <<config, pids>>, tally' \in TallyState,
             tally'.raced = tally.raced,
             scripts' = scripts \/ scripts' = [scripts EXCEPT ![l] = UpScript]
      PROVE  IInv'
  <2>0. l \in Process /\ l # User /\ User \in Process
    BY Names
  <2>1. /\ scripts' \in [Process -> Seq(ScriptCommand)]
        /\ scripts'[l] = scripts[l] \/ scripts'[l] = UpScript
        /\ \A q \in Process : q # l => scripts'[q] = scripts[q]
    BY <1>1, <1>5, <2>0, Scripted DEF Typed
  <2>2. Typed' /\ ScriptsOK'
    BY <1>1, <1>5, <2>0, <2>1, Scripted DEF Typed, ScriptsOK
  <2>3. ASSUME NEW k \in Loop, Alive(k)', Apart
        PROVE  /\ Alive(k)
               /\ loops'[k].at = "born" => loops[k].at = "born"
               /\ loops'[k].at # "born" => pids'[k[1]] = k[2]
    <3>1. Alive(k)
      BY <1>5, <2>3 DEF Alive
    <3>2. loops'[k].at = "born" => loops[k].at = "born"
      BY <1>5
    <3>3. loops'[k].at # "born" => loops[k].at # "born"
      BY <1>5
    <3>4. loops[k].at # "born" => pids[k[1]] = k[2]
      BY <2>3, <3>1 DEF Apart, Recorded
    <3>5. pids' = pids
      BY <1>5
    <3> QED
      BY <3>1, <3>2, <3>3, <3>4, <3>5
  <2>4. ASSUME Apart, scripts' = scripts PROVE Apart'
    BY <1>5, <2>3, <2>4, LoopsMove
  <2>5. ASSUME Apart, scripts' = [scripts EXCEPT ![l] = UpScript] PROVE Apart'
    <3>1. ~UnderWay(l)' /\ ~Turn(l, "spawn")' /\ ~Turn(l, "kill")'
      <4>1. scripts'[l] = UpScript
        BY <1>1, <2>0, <2>5 DEF Typed
      <4> QED
        BY <4>1, Scripted DEF UnderWay, Turn
    <3>2. \A f \in Family : Stopping(f) => Stopping(f)'
      BY <2>0, <2>1 DEF Stopping
    <3>3. \A c \in Parts(UpScript) : c.do \notin Looks
      BY Scripted
    <3>4. UpScript \in Seq(ScriptCommand)
      BY Scripted
    <3> QED
      BY <1>1, <1>5, <2>0, <2>3, <2>5, <3>1, <3>2, <3>3, <3>4, ScriptMoves
  <2> QED
    BY <1>5, <2>2, <2>4, <2>5 DEF IInv
<1>6. CASE Disabled(l)
  BY <1>1, <1>4, <1>6, Moved, Records DEF Disabled
<1>7. CASE Trap(l)
  BY <1>1, <1>4, <1>7, Moved, Records DEF Trap
<1>8. CASE RoundFails(l)
  <2>1. tally' \in TallyState /\ tally'.raced = tally.raced
    BY <1>1, <1>8, KeepaliveNumbers DEF RoundFails, TallyState
  <2>2. PICK before \in {0, loops[l].rounds} :
          \/ /\ before + 1 >= StopRounds
             /\ At(l, "round", Over)
             /\ pids' = [pids EXCEPT ![l[1]] = 0]
          \/ /\ before + 1 < StopRounds
             /\ At(l, "round", [at |-> "redial", rounds |-> before + 1])
             /\ UNCHANGED pids
    BY <1>8 DEF RoundFails
  <2>3. before \in Nat
    BY <1>1, KeepaliveNumbers DEF LoopState
  <2>4. CASE /\ At(l, "round", Over) /\ pids' = [pids EXCEPT ![l[1]] = 0]
    BY <1>1, <1>4, <1>8, <2>1, <2>4, Moved, Records DEF RoundFails
  <2>5. CASE /\ before + 1 < StopRounds /\ UNCHANGED pids
             /\ At(l, "round", [at |-> "redial", rounds |-> before + 1])
    <3>1. PICK n : n = before + 1
      OBVIOUS
    <3>2. n \in 0..(StopRounds - 1)
      BY <2>3, <2>5, <3>1, KeepaliveNumbers
    <3>3. PICK r \in LoopState : r = [at |-> "redial", rounds |-> n] /\ r.at = "redial"
      <4>1. [at |-> "redial", rounds |-> n] \in LoopState
        BY <1>2, <3>2 DEF LoopState
      <4> QED
        BY <4>1
    <3>4. At(l, "round", r)
      BY <2>5, <3>1, <3>3
    <3>5. /\ loops' \in [Loop -> LoopState] /\ loops[l].at = "round"
          /\ loops'[l] = r /\ \A k \in Loop : k # l => loops'[k] = loops[k]
      BY <1>1, <3>4, Moved
    <3>6. UNCHANGED <<config, scripts>>
      BY <1>8 DEF RoundFails
    <3> QED
      BY <1>5, <2>1, <2>5, <3>3, <3>5, <3>6
  <2> QED
    BY <2>2, <2>4, <2>5
<1>9. CASE Dials(l)
  <2>1. PICK r \in LoopState : r = [loops[l] EXCEPT !.at = "up"] /\ r.at = "up"
    BY <1>1, <1>2, Records
  <2> QED
    BY <1>1, <1>5, <1>9, <2>1, Moved DEF Dials
<1>10. CASE Dialled(l)
  <2>1. PICK r \in LoopState : r = [loops[l] EXCEPT !.at = "round"] /\ r.at = "round"
    BY <1>1, <1>2, Records
  <2> QED
    BY <1>1, <1>5, <1>10, <2>1, Moved DEF Dialled
<1> QED
  BY <1>3, <1>6, <1>7, <1>8, <1>9, <1>10 DEF LoopStep

-----------------------------------------------------------------------------
(* A step of a script *)

LEMMA Went ==
  ASSUME Typed, ScriptsOK, NEW p \in Process, NEW s \in Seq(ScriptCommand), Shape(s),
         Goes(p, s)
  PROVE  /\ scripts' = [scripts EXCEPT ![p] = s]
         /\ scripts' \in [Process -> Seq(ScriptCommand)] /\ ScriptsOK'
         /\ scripts'[p] = s
         /\ \A q \in Process : q # p => scripts'[q] = scripts[q]
BY DEF Typed, Goes, ScriptsOK

\* The script whose turn it is, its first command and what comes after.
LEMMA TurnOf ==
  ASSUME Typed, ScriptsOK, NEW p \in Process, NEW what, Turn(p, what)
  PROVE  /\ scripts[p] \in Seq(ScriptCommand) /\ scripts[p] # <<>> /\ Shape(scripts[p])
         /\ Head(scripts[p]) \in ScriptCommand /\ Head(scripts[p]).of \in Family
         /\ Head(scripts[p]).do = what
         /\ Tail(scripts[p]) \in Seq(ScriptCommand) /\ Shape(Tail(scripts[p]))
         /\ Parts(scripts[p]) = {Head(scripts[p])} \cup Parts(Tail(scripts[p]))
         /\ \A c \in Parts(Tail(scripts[p])) : c.do \notin {"spawn", "kill"}
         /\ what = "start" => Tail(scripts[p]) = <<>>
<1>1. scripts[p] \in Seq(ScriptCommand) /\ scripts[p] # <<>> /\ Shape(scripts[p])
      /\ Head(scripts[p]).do = what
  BY DEF Typed, ScriptsOK, Turn
<1> QED
  BY <1>1, TailOf, Places

\* Once its first command is done, a script is neither at the start of a loop
\* nor at the end of one, and is under way only if it was.
LEMMA AfterTurn ==
  ASSUME Typed, ScriptsOK, NEW p \in Process, NEW what, Turn(p, what),
         what \in {"ensure", "start", "check", "spawn", "kill"},
         scripts'[p] = Tail(scripts[p])
  PROVE  /\ ~Turn(p, "spawn")' /\ ~Turn(p, "kill")'
         /\ UnderWay(p)' => what \in Looks
<1>1. /\ scripts[p] \in Seq(ScriptCommand) /\ Shape(scripts[p])
      /\ Head(scripts[p]).do = what
      /\ Tail(scripts[p]) \in Seq(ScriptCommand) /\ Shape(Tail(scripts[p]))
      /\ Parts(scripts[p]) = {Head(scripts[p])} \cup Parts(Tail(scripts[p]))
      /\ \A c \in Parts(Tail(scripts[p])) : c.do \notin {"spawn", "kill"}
  BY TurnOf
<1>2. Tail(scripts[p]) # <<>> => Head(Tail(scripts[p])) \in Parts(Tail(scripts[p]))
  BY <1>1, TailOf
<1>3. ~Turn(p, "spawn")' /\ ~Turn(p, "kill")'
  BY <1>1, <1>2 DEF Turn
<1>4. ASSUME UnderWay(p)' PROVE what \in Looks
  <2>1. Turn(p, "check")'
    BY <1>3, <1>4 DEF UnderWay
  <2>2. Tail(scripts[p]) # <<>> /\ Head(Tail(scripts[p])).do = "check"
    BY <2>1 DEF Turn
  <2> QED
    BY <1>1, <1>2, <2>2 DEF Shape, Looks
<1> QED
  BY <1>3, <1>4

LEMMA EnsureKeeps ==
  ASSUME IInv, NEW p \in Process, Ensure(p)
  PROVE  IInv'
<1>1. Typed /\ ScriptsOK /\ Turn(p, "ensure")
  BY DEF IInv, Ensure
<1>2. PICK s \in {Tail(scripts[p]), <<>>} : Goes(p, s)
  BY DEF Ensure
<1>3. s \in Seq(ScriptCommand) /\ Shape(s)
  BY <1>1, <1>2, TurnOf, NoParts
<1>4. /\ scripts' = [scripts EXCEPT ![p] = s]
      /\ scripts' \in [Process -> Seq(ScriptCommand)] /\ ScriptsOK'
      /\ scripts'[p] = s /\ \A q \in Process : q # p => scripts'[q] = scripts[q]
  BY <1>1, <1>2, <1>3, Went
<1>5. Typed'
  BY <1>1, <1>4 DEF Ensure, Typed
<1>6. ASSUME Apart PROVE Apart'
  <2>1. ~UnderWay(p)' /\ ~Turn(p, "spawn")' /\ ~Turn(p, "kill")'
    <3>1. CASE s = <<>>
      BY <1>4, <3>1 DEF UnderWay, Turn
    <3>2. CASE s = Tail(scripts[p])
      BY <1>1, <1>4, <3>2, AfterTurn DEF Looks
    <3> QED
      BY <1>2, <3>1, <3>2
  <2>2. \A c \in Parts(scripts[p]) : c.do \notin Ends \cup Looks
    <3>1. Head(scripts[p]) \in Parts(scripts[p]) /\ Head(scripts[p]).do = "ensure"
          /\ Shape(scripts[p])
      BY <1>1, TurnOf
    <3> QED
      BY <3>1 DEF Shape, Looks
  <2>3. Parts(s) \subseteq Parts(scripts[p])
    BY <1>1, <1>2, TurnOf, NoParts
  <2>4. \A f \in Family : Stopping(f) => Stopping(f)'
    BY <1>4, <2>2, Names DEF Stopping
  <2>5. \A c \in Parts(s) : c.do \notin Looks
    BY <2>2, <2>3
  <2>6. UNCHANGED <<config, loops, pids>>
    BY DEF Ensure
  <2>7. \A l \in Loop : Alive(l)' =>
           /\ Alive(l)
           /\ loops'[l].at = "born" => loops[l].at = "born"
           /\ loops'[l].at # "born" => pids'[l[1]] = l[2]
    BY <1>6, <2>6 DEF Apart, Recorded, Alive
  <2> QED
    BY <1>1, <1>3, <1>4, <1>6, <2>1, <2>4, <2>5, <2>6, <2>7, ScriptMoves
<1> QED
  BY <1>4, <1>5, <1>6 DEF IInv, Ensure

LEMMA StartKeeps ==
  ASSUME IInv, NEW p \in Process, Start(p)
  PROVE  IInv'
<1>1. Typed /\ ScriptsOK /\ Turn(p, "start") /\ config.split \in BOOLEAN
  BY DEF IInv, Start, Typed, ConfigState
<1>2. /\ scripts[p] \in Seq(ScriptCommand) /\ Shape(scripts[p]) /\ scripts[p] # <<>>
      /\ Head(scripts[p]).do = "start" /\ Tail(scripts[p]) = <<>>
      /\ Parts(scripts[p]) = {Head(scripts[p])}
  BY <1>1, TurnOf, NoParts
<1>3. \A c \in Parts(scripts[p]) : c.do \notin Ends
  BY <1>2 DEF Ends
<1>4. ASSUME NEW s \in Seq(ScriptCommand), Shape(s), Goes(p, s),
             \A c \in Parts(s) : c.do = "check" /\ c.of \in Wanted,
             s = <<>> \/ Head(s).do = "check",
             tally' \in TallyState,
             tally'.raced = FALSE => tally.raced = FALSE,
             s # <<>> /\ tally'.raced = FALSE => ~OthersUnderWay(p)
      PROVE  IInv'
  <2>1. /\ scripts' = [scripts EXCEPT ![p] = s]
        /\ scripts' \in [Process -> Seq(ScriptCommand)] /\ ScriptsOK'
        /\ scripts'[p] = s /\ \A q \in Process : q # p => scripts'[q] = scripts[q]
    BY <1>1, <1>4, Went
  <2>2. UNCHANGED <<config, loops, pids>>
    BY DEF Start
  <2>3. Typed'
    BY <1>1, <1>4, <2>1, <2>2 DEF Typed
  <2>4. ASSUME ~tally'.raced PROVE Apart'
    <3>1. Apart
      BY <1>4, <2>4 DEF IInv, TallyState
    <3>2. ~Turn(p, "spawn")' /\ ~Turn(p, "kill")'
      BY <1>4, <2>1 DEF Turn
    <3>3. UnderWay(p)' => \A q \in Process : q # p => ~UnderWay(q)
      BY <1>4, <2>1, <2>4 DEF UnderWay, Turn, OthersUnderWay, Process
    <3>4. \A f \in Family : Stopping(f) => Stopping(f)'
      BY <1>3, <2>1, Names DEF Stopping
    <3>5. \A l \in Loop : Alive(l)' =>
             /\ Alive(l)
             /\ loops'[l].at = "born" => loops[l].at = "born"
             /\ loops'[l].at # "born" => pids'[l[1]] = l[2]
      BY <2>2, <3>1 DEF Apart, Recorded, Alive
    <3> QED
      BY <1>1, <1>4, <2>1, <2>2, <3>1, <3>2, <3>3, <3>4, <3>5, ScriptMoves
  <2> QED
    BY <2>1, <2>3, <2>4 DEF IInv
<1>5. CASE ~config.enable
  <2>1. Goes(p, <<>>) /\ tally' = tally
    BY <1>2, <1>5 DEF Start
  <2>2. tally' \in TallyState
    BY <1>1, <2>1 DEF Typed
  <2> QED
    BY <1>4, <2>1, <2>2, NoParts
<1>6. CASE config.enable
  <2>1. PICK s : s = IF config.split THEN <<Do("check", "4"), Do("check", "6")>>
                                     ELSE <<Do("check", "both")>>
    OBVIOUS
  <2>2. /\ s \in Seq(ScriptCommand) /\ Shape(s) /\ s # <<>> /\ Head(s).do = "check"
        /\ \A c \in Parts(s) : c.do = "check" /\ c.of \in Wanted
    BY <1>1, <2>1, CheckScripted
  <2>3. PICK b \in BOOLEAN : b = (tally.raced \/ OthersUnderWay(p))
    BY DEF OthersUnderWay
  <2>4. tally' = [tally EXCEPT !.raced = b]
    BY <1>6, <2>3, Zenon DEF Start
  <2>5. tally' \in TallyState /\ tally'.raced = b
    BY <1>1, <2>4 DEF Typed, TallyState
  <2>6. Goes(p, s)
    BY <1>6, <2>1 DEF Start
  <2>7. /\ tally'.raced = FALSE => tally.raced = FALSE
        /\ tally'.raced = FALSE => ~OthersUnderWay(p)
    <3>1. tally.raced \in BOOLEAN
      BY <1>1 DEF Typed, TallyState
    <3> QED
      BY <2>3, <2>5, <3>1, Zenon
  <2> QED
    BY <1>4, <2>2, <2>5, <2>6, <2>7
<1> QED
  BY <1>5, <1>6

\* A start or a stop that meets another leaves its mark.
LEMMA Marked ==
  ASSUME tally \in TallyState, NEW b, tally' = [tally EXCEPT !.raced = @ \/ b],
         b \in BOOLEAN
  PROVE  /\ tally' \in TallyState
         /\ tally'.raced = FALSE => tally.raced = FALSE /\ ~b
<1>1. PICK c \in BOOLEAN : c = (tally.raced \/ b)
  BY DEF TallyState
<1>2. tally' = [tally EXCEPT !.raced = c]
  BY <1>1, Zenon
<1>3. tally' \in TallyState /\ tally'.raced = c
  BY <1>2 DEF TallyState
<1>4. tally.raced \in BOOLEAN
  BY DEF TallyState
<1>5. c = FALSE => tally.raced = FALSE /\ ~b
  BY <1>1, <1>4, Zenon
<1> QED
  BY <1>3, <1>5

LEMMA CheckKeeps ==
  ASSUME IInv, NEW p \in Process, Check(p)
  PROVE  IInv'
<1>1. PICK f \in Family :
        /\ Turn(p, "check") /\ Head(scripts[p]).of = f
        /\ Goes(p, IF ~config.enable \/ Watched(f) \/ Fresh(f) = {}
                   THEN Tail(scripts[p])
                   ELSE <<Do("spawn", f)>> \o Tail(scripts[p]))
        /\ tally' = [tally EXCEPT !.raced = @ \/ Newborn(f)]
        /\ UNCHANGED <<config, loops, pids>>
  BY DEF Check
<1>2. /\ Typed /\ ScriptsOK
      /\ scripts[p] \in Seq(ScriptCommand) /\ scripts[p] # <<>> /\ Shape(scripts[p])
      /\ Head(scripts[p]) \in ScriptCommand /\ Head(scripts[p]).do = "check"
      /\ Tail(scripts[p]) \in Seq(ScriptCommand) /\ Shape(Tail(scripts[p]))
      /\ Parts(scripts[p]) = {Head(scripts[p])} \cup Parts(Tail(scripts[p]))
  BY <1>1, TurnOf DEF IInv
<1>3. /\ tally' \in TallyState
      /\ tally'.raced = FALSE => tally.raced = FALSE /\ ~Newborn(f)
  BY <1>1, <1>2, Marked DEF Typed, Newborn
<1>4. PICK c \in ScriptCommand :
        c = Do("spawn", f) /\ c.do = "spawn" /\ c.of = f
  BY DoCommand
<1>5. PICK t : t = <<c>> \o Tail(scripts[p])
  OBVIOUS
<1>6. /\ t \in Seq(ScriptCommand) /\ t # <<>> /\ Head(t) = c /\ Shape(t)
      /\ Parts(t) = {c} \cup Parts(Tail(scripts[p]))
  BY <1>2, <1>4, <1>5, HeadOf
<1>7. PICK s \in {Tail(scripts[p]), t} :
        Goes(p, s) /\ (s = Tail(scripts[p]) \/ ~Watched(f))
  BY <1>1, <1>4, <1>5
<1>8. s \in Seq(ScriptCommand) /\ Shape(s)
  BY <1>2, <1>6, <1>7
<1>9. /\ scripts' = [scripts EXCEPT ![p] = s]
      /\ scripts' \in [Process -> Seq(ScriptCommand)] /\ ScriptsOK'
      /\ scripts'[p] = s /\ \A q \in Process : q # p => scripts'[q] = scripts[q]
  BY <1>2, <1>7, <1>8, Went
<1>10. Typed'
  BY <1>1, <1>2, <1>3, <1>9 DEF Typed
<1>11. ASSUME ~tally'.raced PROVE Apart'
  <2>1. Apart /\ ~Newborn(f)
    BY <1>3, <1>11 DEF IInv, TallyState
  <2>2. UnderWay(p)
    BY <1>1 DEF UnderWay
  <2>3. \A c1 \in Parts(scripts[p]) : c1.do \in Looks
    <3>1. Head(scripts[p]) \in Parts(scripts[p])
      BY <1>2
    <3> QED
      BY <1>2, <3>1 DEF Shape, Looks
  <2>4. \A x \in Parts(s) : /\ x.do \in Looks
                            /\ x.of \in Wanted \/ Stopping(x.of)
    <3>1. \A x \in Parts(scripts[p]) : x.of \in Wanted \/ Stopping(x.of)
      BY <2>1, <2>3 DEF Apart, Due
    <3>2. f \in Wanted \/ Stopping(f)
      BY <1>1, <1>2, <3>1
    <3>3. \A x \in Parts(Tail(scripts[p])) : x \in Parts(scripts[p])
      BY <1>2
    <3>4. \A x \in Parts(s) : x \in Parts(Tail(scripts[p])) \/ x = c
      BY <1>6, <1>7
    <3> QED
      BY <1>4, <2>3, <3>1, <3>2, <3>3, <3>4 DEF Looks
  <2>5. \A g \in Family : Stopping(g) => Stopping(g)'
    <3>1. CASE p = User
      BY <2>3, <3>1 DEF Stopping, Looks, Ends
    <3>2. CASE p # User
      BY <1>9, <3>2, Names DEF Stopping
    <3> QED
      BY <3>1, <3>2
  <2>6. \A x \in Parts(s) : x.do \in Looks => x.of \in Wanted \/ Stopping(x.of)'
    <3>1. \A x \in Parts(s) : x.of \in Family
      BY <1>8, PartsTyped
    <3> QED
      BY <2>4, <2>5, <3>1
  <2>7. \A l \in Loop : Alive(l)' =>
           /\ Alive(l)
           /\ loops'[l].at = "born" => loops[l].at = "born"
           /\ loops'[l].at # "born" => pids'[l[1]] = l[2]
    BY <1>1, <2>1 DEF Apart, Recorded, Alive
  <2>8. Turn(p, "spawn")' => \A l \in Loop : l[1] = Head(s).of => ~Alive(l)'
    <3>1. CASE s = Tail(scripts[p])
      BY <1>1, <1>2, <1>9, <3>1, AfterTurn
    <3>2. CASE s = t /\ ~Watched(f)
      <4> SUFFICES ASSUME NEW l \in Loop, l[1] = f, Alive(l)'
                   PROVE  FALSE
        BY <1>4, <1>6, <3>2
      <4>1. Alive(l) /\ l = <<f, l[2]>> /\ l[2] \in Gen
        BY <1>1, Names DEF Alive
      <4>2. loops[l].at # "born"
        BY <2>1, <4>1 DEF Newborn
      <4>3. pids[f] = l[2]
        BY <2>1, <4>1, <4>2 DEF Apart, Recorded
      <4>4. Watched(f)
        BY <4>1, <4>3, Names DEF Watched
      <4> QED
        BY <3>2, <4>4
    <3> QED
      BY <1>7, <3>1, <3>2
  <2>9. ~Turn(p, "kill")'
    <3>1. CASE s = Tail(scripts[p])
      BY <1>1, <1>2, <1>9, <3>1, AfterTurn
    <3>2. CASE s = t
      BY <1>4, <1>6, <1>9, <3>2 DEF Turn
    <3> QED
      BY <1>7, <3>1, <3>2
  <2> QED
    BY <1>1, <1>2, <1>8, <1>9, <2>1, <2>2, <2>5, <2>6, <2>7, <2>8, <2>9, ScriptMoves
<1> QED
  BY <1>9, <1>10, <1>11 DEF IInv

LEMMA StopKeeps ==
  ASSUME IInv, NEW p \in Process, Stop(p)
  PROVE  IInv'
<1>1. PICK f \in Family :
        /\ Turn(p, "stop") /\ Head(scripts[p]).of = f
        /\ Goes(p, <<Kill(f, OnRecord(f))>> \o Tail(scripts[p]))
        /\ loops' = [l \in Loop |-> IF l = <<f, OnRecord(f)>> /\ Alive(l)
                                    THEN [loops[l] EXCEPT !.at = "term"] ELSE loops[l]]
        /\ tally' = [tally EXCEPT !.raced = @ \/ Newborn(f) \/ OthersUnderWay(p)]
        /\ UNCHANGED <<config, pids>>
  BY DEF Stop
<1>2. /\ Typed /\ ScriptsOK
      /\ scripts[p] \in Seq(ScriptCommand) /\ scripts[p] # <<>> /\ Shape(scripts[p])
      /\ Head(scripts[p]) \in ScriptCommand /\ Head(scripts[p]).do = "stop"
      /\ Tail(scripts[p]) \in Seq(ScriptCommand) /\ Shape(Tail(scripts[p]))
      /\ Parts(scripts[p]) = {Head(scripts[p])} \cup Parts(Tail(scripts[p]))
      /\ pids[f] \in 0..MaxGen
  BY <1>1, TurnOf DEF IInv, Typed
<1>3. PICK b \in BOOLEAN : b = (Newborn(f) \/ OthersUnderWay(p))
  BY DEF Newborn, OthersUnderWay
<1>4. /\ tally' \in TallyState
      /\ tally'.raced = FALSE => tally.raced = FALSE /\ ~b
  <2>1. tally' = [tally EXCEPT !.raced = @ \/ b]
    BY <1>1, <1>3, Zenon
  <2> QED
    BY <1>2, <2>1, Marked DEF Typed
<1>5. PICK c \in ScriptCommand :
        /\ c = Kill(f, pids[f])
        /\ c.do = "kill" /\ c.of = f /\ c.gen = pids[f]
  BY <1>2, KillCommand
<1>6. PICK s : s = <<c>> \o Tail(scripts[p])
  OBVIOUS
<1>7. /\ s \in Seq(ScriptCommand) /\ s # <<>> /\ Head(s) = c /\ Shape(s)
      /\ Parts(s) = {c} \cup Parts(Tail(scripts[p]))
  BY <1>2, <1>5, <1>6, HeadOf
<1>8. Goes(p, s)
  BY <1>1, <1>5, <1>6 DEF OnRecord
<1>9. /\ scripts' = [scripts EXCEPT ![p] = s]
      /\ scripts' \in [Process -> Seq(ScriptCommand)] /\ ScriptsOK'
      /\ scripts'[p] = s /\ \A q \in Process : q # p => scripts'[q] = scripts[q]
  BY <1>2, <1>7, <1>8, Went
<1>10. \A l \in Loop : /\ loops'[l] \in LoopState
                       /\ Alive(l)' <=> Alive(l)
                       /\ Alive(l) => (loops'[l].at = "born" => loops[l].at = "born")
  <2> TAKE l \in Loop
  <2>1. loops[l] \in LoopState /\ "term" \in Ats
    BY <1>2 DEF Typed, Ats
  <2>2. loops'[l] = IF l = <<f, OnRecord(f)>> /\ Alive(l)
                    THEN [loops[l] EXCEPT !.at = "term"] ELSE loops[l]
    BY <1>1
  <2>3. /\ [loops[l] EXCEPT !.at = "term"] \in LoopState
        /\ [loops[l] EXCEPT !.at = "term"].at = "term"
    BY <2>1, Records
  <2> QED
    BY <2>1, <2>2, <2>3 DEF Alive
<1>11. Typed'
  <2>1. loops' \in [Loop -> LoopState]
    BY <1>1, <1>10
  <2> QED
    BY <1>1, <1>2, <1>4, <1>9, <2>1 DEF Typed
<1>12. ASSUME ~tally'.raced PROVE Apart'
  <2>1. Apart /\ ~Newborn(f) /\ ~OthersUnderWay(p)
    BY <1>3, <1>4, <1>11, <1>12 DEF IInv, Typed, TallyState
  <2>2. \A q \in Process : q # p => ~UnderWay(q)
    BY <2>1 DEF OthersUnderWay, Process
  <2>3. \A l \in Loop : l[1] = f /\ Alive(l) => loops[l].at # "born"
    BY <2>1, Names DEF Newborn
  <2>4. \A l \in Loop : l[1] = f /\ Alive(l) => l[2] = pids[f]
    BY <2>1, <2>3 DEF Apart, Recorded
  <2>5. \A l \in Loop : Alive(l)' =>
           /\ Alive(l)
           /\ loops'[l].at = "born" => loops[l].at = "born"
           /\ loops'[l].at # "born" => pids'[l[1]] = l[2]
    <3> TAKE l \in Loop
    <3> HAVE Alive(l)'
    <3>1. Alive(l) /\ (loops'[l].at = "born" => loops[l].at = "born")
      BY <1>10
    <3>2. CASE loops[l].at # "born"
      BY <1>1, <2>1, <3>1, <3>2 DEF Apart, Recorded
    <3>3. CASE loops[l].at = "born"
      <4>1. l[1] # f
        BY <2>3, <3>1, <3>3
      <4>2. loops'[l] = loops[l]
        BY <1>1, <4>1
      <4> QED
        BY <3>1, <3>3, <4>2
    <3> QED
      BY <3>2, <3>3
  <2>6. ~Turn(p, "spawn")'
    BY <1>5, <1>7, <1>9 DEF Turn
  <2>7. Turn(p, "kill")' => \A l \in Loop : l[1] = Head(s).of /\ Alive(l)'
                              => l[2] = Head(s).gen /\ loops'[l].at # "born"
    <3> SUFFICES ASSUME NEW l \in Loop, l[1] = f, Alive(l)'
                 PROVE  l[2] = pids[f] /\ loops'[l].at # "born"
      BY <1>5, <1>7
    <3>1. Alive(l) /\ (loops'[l].at = "born" => loops[l].at = "born")
      BY <1>10
    <3> QED
      BY <2>3, <2>4, <3>1
  <2>8. \A g \in Family : Stopping(g) => Stopping(g)'
    <3>1. CASE p = User
      <4> SUFFICES ASSUME NEW g \in Family, NEW x \in Parts(scripts[p]),
                          x.do \in Ends, x.of = g
                   PROVE  \E y \in Parts(s) : y.do \in Ends /\ y.of = g
        BY <1>9, <3>1 DEF Stopping
      <4>1. CASE x = Head(scripts[p])
        BY <1>1, <1>5, <1>7, <4>1 DEF Ends
      <4>2. CASE x \in Parts(Tail(scripts[p]))
        BY <1>7, <4>2
      <4> QED
        BY <1>2, <4>1, <4>2
    <3>2. CASE p # User
      BY <1>9, <3>2, Names DEF Stopping
    <3> QED
      BY <3>1, <3>2
  <2>9. \A x \in Parts(s) : x.do \notin Looks
    <3>1. \A x \in Parts(scripts[p]) : x.do \notin Looks
      <4>1. Head(scripts[p]) \in Parts(scripts[p]) /\ Head(scripts[p]).do \notin Looks
        BY <1>2 DEF Looks
      <4> QED
        BY <1>2, <4>1 DEF Shape
    <3> QED
      BY <1>2, <1>5, <1>7, <3>1 DEF Looks
  <2> QED
    BY <1>1, <1>2, <1>7, <1>9, <2>1, <2>2, <2>5, <2>6, <2>7, <2>8, <2>9, ScriptMoves
<1> QED
  BY <1>9, <1>11, <1>12 DEF IInv

LEMMA KilledKeeps ==
  ASSUME IInv, NEW p \in Process, Killed(p)
  PROVE  IInv'
<1>1. PICK f \in Family :
        /\ Turn(p, "kill") /\ Head(scripts[p]).of = f
        /\ Goes(p, Tail(scripts[p]))
        /\ loops' = [l \in Loop |-> IF l = <<f, Head(scripts[p]).gen>>
                                    THEN Over ELSE loops[l]]
        /\ pids' = [pids EXCEPT ![f] = 0]
        /\ UNCHANGED <<config, tally>>
  BY DEF Killed
<1>2. /\ Typed /\ ScriptsOK
      /\ scripts[p] \in Seq(ScriptCommand) /\ scripts[p] # <<>> /\ Shape(scripts[p])
      /\ Head(scripts[p]) \in ScriptCommand /\ Head(scripts[p]).do = "kill"
      /\ Tail(scripts[p]) \in Seq(ScriptCommand) /\ Shape(Tail(scripts[p]))
      /\ Parts(scripts[p]) = {Head(scripts[p])} \cup Parts(Tail(scripts[p]))
  BY <1>1, TurnOf DEF IInv
<1>3. PICK s : s = Tail(scripts[p])
  OBVIOUS
<1>4. /\ scripts' = [scripts EXCEPT ![p] = s]
      /\ scripts' \in [Process -> Seq(ScriptCommand)] /\ ScriptsOK'
      /\ scripts'[p] = s /\ \A q \in Process : q # p => scripts'[q] = scripts[q]
  BY <1>1, <1>2, <1>3, Went
<1>5. \A l \in Loop : /\ loops'[l] \in LoopState
                      /\ l = <<f, Head(scripts[p]).gen>> => ~Alive(l)'
                      /\ Alive(l)' => Alive(l) /\ loops'[l] = loops[l]
  BY <1>1, <1>2, Records DEF Typed, Alive
<1>6. /\ pids' \in [Family -> 0..MaxGen]
      /\ \A g \in Family : g # f => pids'[g] = pids[g]
  BY <1>1, <1>2, Names DEF Typed
<1>7. Typed'
  <2>1. loops' \in [Loop -> LoopState]
    BY <1>1, <1>5
  <2> QED
    BY <1>1, <1>2, <1>4, <1>6, <2>1 DEF Typed
<1>8. ASSUME Apart PROVE Apart'
  <2>1. \A l \in Loop : l[1] = f => ~Alive(l)'
    <3> SUFFICES ASSUME NEW l \in Loop, l[1] = f, Alive(l)'
                 PROVE  FALSE
      OBVIOUS
    <3>1. Alive(l)
      BY <1>5
    <3>2. l[2] = Head(scripts[p]).gen
      BY <1>1, <1>8, <3>1 DEF Apart, Ending
    <3> QED
      BY <1>5, <3>2, Names
  <2>2. \A l \in Loop : Alive(l)' =>
           /\ Alive(l)
           /\ loops'[l].at = "born" => loops[l].at = "born"
           /\ loops'[l].at # "born" => pids'[l[1]] = l[2]
    <3> TAKE l \in Loop
    <3> HAVE Alive(l)'
    <3>1. Alive(l) /\ loops'[l] = loops[l] /\ l[1] # f /\ l[1] \in Family
      BY <1>5, <2>1, Names
    <3> QED
      BY <1>6, <1>8, <3>1 DEF Apart, Recorded
  <2>3. ~UnderWay(p)' /\ ~Turn(p, "spawn")' /\ ~Turn(p, "kill")'
    BY <1>1, <1>2, <1>3, <1>4, AfterTurn DEF Looks
  <2>4. \A x \in Parts(scripts[p]) : x.do \notin Looks
    <3>1. Head(scripts[p]) \in Parts(scripts[p]) /\ Head(scripts[p]).do \notin Looks
      BY <1>2 DEF Looks
    <3> QED
      BY <1>2, <3>1 DEF Shape
  <2>5. \A x \in Parts(s) : x.do \notin Looks
    BY <1>2, <1>3, <2>4
  <2>6. UnderWay(p)
    BY <1>1 DEF UnderWay
  <2>7. \A q \in Process : q # p => ~UnderWay(q)
    BY <1>8, <2>6 DEF Apart, Alone
  <2>8. \A g \in Family : Stopping(g) =>
          \/ Stopping(g)'
          \/ /\ \A l \in Loop : l[1] = g => ~Alive(l)'
             /\ \A q \in Process : q # p => ~UnderWay(q)
             /\ \A c \in Parts(s) : c.do \notin Looks
    <3> SUFFICES ASSUME NEW g \in Family, Stopping(g), g # f
                 PROVE  Stopping(g)'
      BY <2>1, <2>5, <2>7
    <3>1. CASE p = User
      <4>1. PICK x \in Parts(scripts[p]) : x.do \in Ends /\ x.of = g
        BY <3>1 DEF Stopping
      <4>2. x \in Parts(s)
        BY <1>1, <1>2, <1>3, <4>1
      <4> QED
        BY <1>4, <3>1, <4>1, <4>2 DEF Stopping
    <3>2. CASE p # User
      BY <1>4, <3>2, Names DEF Stopping
    <3> QED
      BY <3>1, <3>2
  <2>9. s \in Seq(ScriptCommand) /\ UNCHANGED config
    BY <1>1, <1>2, <1>3
  <2> QED
    BY <1>2, <1>4, <1>8, <2>2, <2>3, <2>5, <2>8, <2>9, ScriptMoves
<1> QED
  BY <1>1, <1>4, <1>7, <1>8 DEF IInv

LEMMA SpawnKeeps ==
  ASSUME IInv, NEW p \in Process, Spawn(p)
  PROVE  IInv'
<1>1. PICK f \in Family :
        /\ Turn(p, "spawn") /\ Head(scripts[p]).of = f
        /\ Goes(p, Tail(scripts[p]))
        /\ pids' = [pids EXCEPT ![f] = 0]
        /\ \/ loops' = loops
           \/ \E g \in Gen : loops' = [loops EXCEPT ![<<f, g>>].at = "born"]
        /\ UNCHANGED <<config, tally>>
  BY DEF Spawn, Fresh
<1>2. /\ Typed /\ ScriptsOK
      /\ scripts[p] \in Seq(ScriptCommand) /\ scripts[p] # <<>> /\ Shape(scripts[p])
      /\ Head(scripts[p]) \in ScriptCommand /\ Head(scripts[p]).do = "spawn"
      /\ Tail(scripts[p]) \in Seq(ScriptCommand) /\ Shape(Tail(scripts[p]))
      /\ Parts(scripts[p]) = {Head(scripts[p])} \cup Parts(Tail(scripts[p]))
  BY <1>1, TurnOf DEF IInv
<1>3. PICK s : s = Tail(scripts[p])
  OBVIOUS
<1>4. /\ scripts' \in [Process -> Seq(ScriptCommand)] /\ ScriptsOK'
      /\ scripts'[p] = s /\ \A q \in Process : q # p => scripts'[q] = scripts[q]
  BY <1>1, <1>2, <1>3, Went
<1>5. /\ pids' \in [Family -> 0..MaxGen]
      /\ \A g \in Family : g # f => pids'[g] = pids[g]
  BY <1>1, <1>2, Names DEF Typed
\* At most one loop comes alive, of that family.
<1>6. PICK g \in Gen :
        \A l \in Loop : /\ loops'[l] \in LoopState
                        /\ l # <<f, g>> => loops'[l] = loops[l]
                        /\ l = <<f, g>> => loops'[l] = loops[l] \/ loops'[l].at = "born"
  <2>1. CASE loops' = loops
    <3>1. 1 \in Gen
      BY KeepaliveNumbers DEF Gen
    <3>2. \A l \in Loop : loops'[l] = loops[l] /\ loops'[l] \in LoopState
      BY <1>2, <2>1 DEF Typed
    <3> QED
      BY <3>1, <3>2
  <2>2. CASE \E g \in Gen : loops' = [loops EXCEPT ![<<f, g>>].at = "born"]
    <3>1. PICK g \in Gen : loops' = [loops EXCEPT ![<<f, g>>].at = "born"]
      BY <2>2
    <3>2. <<f, g>> \in Loop /\ loops[<<f, g>>] \in LoopState /\ "born" \in Ats
      BY <1>2, Names DEF Typed, Ats
    <3>3. PICK r \in LoopState :
            r = [loops[<<f, g>>] EXCEPT !.at = "born"] /\ r.at = "born"
      BY <3>2, Records
    <3>4. loops' = [loops EXCEPT ![<<f, g>>] = r]
      BY <3>1, <3>3
    <3> QED
      BY <1>2, <3>2, <3>3, <3>4 DEF Typed
  <2> QED
    BY <1>1, <2>1, <2>2
<1>7. Typed'
  <2>1. loops' \in [Loop -> LoopState]
    <3>1. loops' = [l \in Loop |-> loops'[l]]
      BY <1>1, <1>2 DEF Typed
    <3> QED
      BY <1>6, <3>1
  <2> QED
    BY <1>1, <1>2, <1>4, <1>5, <2>1 DEF Typed
<1>8. ASSUME Apart PROVE Apart'
  <2>1. \A l \in Loop : l[1] = f => ~Alive(l)
    BY <1>1, <1>8 DEF Apart, Cleared
  <2>2. \A l \in Loop : Alive(l)' =>
          \/ Alive(l) /\ loops'[l] = loops[l] /\ l[1] # f
          \/ l = <<f, g>> /\ loops'[l].at = "born" /\ l[1] = f
    <3> TAKE l \in Loop
    <3> HAVE Alive(l)'
    <3>1. CASE loops'[l] = loops[l]
      <4>1. Alive(l)
        BY <3>1 DEF Alive
      <4> QED
        BY <2>1, <3>1, <4>1
    <3>2. CASE loops'[l] # loops[l]
      <4>1. l = <<f, g>> /\ loops'[l].at = "born"
        BY <1>6, <3>2
      <4> QED
        BY <4>1, Names
    <3> QED
      BY <3>1, <3>2
  <2>3. UnderWay(p) /\ \A q \in Process : q # p => ~UnderWay(q)
    <3>1. UnderWay(p)
      BY <1>1 DEF UnderWay
    <3> QED
      BY <1>8, <3>1 DEF Apart, Alone
  <2>4. ~Turn(p, "spawn")' /\ ~Turn(p, "kill")'
    BY <1>1, <1>2, <1>3, <1>4, AfterTurn
  <2>5. \A q \in Process : q # p => ~UnderWay(q)'
    BY <1>4, <2>3 DEF UnderWay, Turn
  <2>6. Alone'
    BY <2>5 DEF Alone
  <2>7. \A q \in Process : ~Turn(q, "spawn")' /\ ~Turn(q, "kill")'
    BY <2>4, <2>5 DEF UnderWay
  <2>8. Cleared' /\ Ending'
    BY <2>7 DEF Cleared, Ending
  <2>9. Recorded'
    <3> SUFFICES ASSUME NEW l \in Loop, Alive(l)', loops'[l].at # "born"
                 PROVE  pids'[l[1]] = l[2]
      BY DEF Recorded
    <3>1. Alive(l) /\ loops'[l] = loops[l] /\ l[1] # f /\ l[1] \in Family
      BY <2>2, Names
    <3> QED
      BY <1>5, <1>8, <3>1 DEF Apart, Recorded
  <2>10. Single'
    <3> SUFFICES ASSUME NEW l \in Loop, NEW k \in Loop, Alive(l)', Alive(k)',
                        l[1] = k[1]
                 PROVE  l = k
      BY DEF Single
    <3>1. CASE l[1] = f
      BY <2>2, <3>1
    <3>2. CASE l[1] # f
      <4>1. Alive(l) /\ Alive(k)
        BY <2>2, <3>2
      <4> QED
        BY <1>8, <4>1 DEF Apart, Single
    <3> QED
      BY <3>1, <3>2
  <2>11. \A x \in Parts(scripts[p]) : x.do \in Looks
    <3>1. Head(scripts[p]) \in Parts(scripts[p]) /\ Head(scripts[p]).do \in Looks
      BY <1>2 DEF Looks
    <3> QED
      BY <1>2, <3>1 DEF Shape
  <2>12. \A h \in Family : Stopping(h) => Stopping(h)'
    <3>1. CASE p = User
      BY <2>11, <3>1 DEF Stopping, Looks, Ends
    <3>2. CASE p # User
      BY <1>4, <3>2, Names DEF Stopping
    <3> QED
      BY <3>1, <3>2
  <2>13. Wanted' = Wanted
    BY <1>1 DEF Wanted
  <2>14. f \in Wanted \/ Stopping(f)
    <3>1. Head(scripts[p]) \in Parts(scripts[p])
      BY <1>2
    <3> QED
      BY <1>1, <1>8, <2>11, <3>1 DEF Apart, Due
  <2>15. Orderly'
    <3> SUFFICES ASSUME NEW l \in Loop, Alive(l)'
                 PROVE  l[1] \in Wanted \/ Stopping(l[1])'
      BY <2>13 DEF Orderly
    <3>1. l[1] \in Wanted \/ Stopping(l[1])
      BY <1>8, <2>2, <2>14 DEF Apart, Orderly
    <3> QED
      BY <2>12, <3>1, Names
  <2>16. Due'
    <3> SUFFICES ASSUME NEW q \in Process, NEW c \in Parts(scripts'[q]), c.do \in Looks
                 PROVE  c.of \in Wanted \/ Stopping(c.of)'
      BY <2>13 DEF Due
    <3>1. c \in Parts(scripts[q])
      BY <1>2, <1>3, <1>4
    <3>2. c.of \in Wanted \/ Stopping(c.of)
      BY <1>8, <3>1 DEF Apart, Due
    <3>3. c.of \in Family
      BY <1>2, <3>1, PartsTyped DEF Typed
    <3> QED
      BY <2>12, <3>2, <3>3
  <2> QED
    BY <2>6, <2>8, <2>9, <2>10, <2>15, <2>16 DEF Apart
<1> QED
  BY <1>1, <1>4, <1>7, <1>8 DEF IInv

-----------------------------------------------------------------------------
(* An order of the user *)

LEMMA UserKeeps ==
  ASSUME IInv, DoUp \/ DoDown \/ SetSplit \/ SetEnable
  PROVE  IInv'
<1>1. PICK s \in {UpScript, StopScript, RestartScript} :
        /\ Orders(s)
        /\ \/ config' = config
           \/ config' = [config EXCEPT !.enable = ~@]
           \/ config' = [config EXCEPT !.split = ~@] /\ s = RestartScript
  <2>1. CASE DoUp \/ DoDown
    BY <2>1 DEF DoUp, DoDown
  <2>2. CASE SetSplit
    BY <2>2 DEF SetSplit
  <2>3. CASE SetEnable
    BY <2>3 DEF SetEnable
  <2> QED
    BY <2>1, <2>2, <2>3
<1>2. /\ s \in Seq(ScriptCommand) /\ Shape(s) /\ s # <<>>
      /\ Head(s).do \in {"ensure", "stop"}
      /\ \A c \in Parts(s) : c.do \notin Looks
  BY Scripted, StopScripted, RestartScripted
<1>3. Typed /\ ScriptsOK /\ User \in Process
  BY Names DEF IInv
<1>4. /\ scripts' = [scripts EXCEPT ![User] = s]
      /\ scripts' \in [Process -> Seq(ScriptCommand)] /\ ScriptsOK'
      /\ scripts'[User] = s /\ \A q \in Process : q # User => scripts'[q] = scripts[q]
      /\ scripts[User] = <<>>
  BY <1>1, <1>2, <1>3, Went DEF Orders
<1>5. tally' \in TallyState /\ tally'.raced = tally.raced /\ UNCHANGED <<loops, pids>>
  <2>1. /\ tally.orders < MaxOrders /\ tally' = [tally EXCEPT !.orders = @ + 1]
        /\ UNCHANGED <<loops, pids>>
    BY <1>1 DEF Orders
  <2>2. tally \in TallyState
    BY <1>3 DEF Typed
  <2>3. tally.orders + 1 \in 0..MaxOrders
    BY <2>1, <2>2, KeepaliveNumbers DEF TallyState
  <2>4. PICK n \in 0..MaxOrders : n = tally.orders + 1
    BY <2>3
  <2>5. tally' = [tally EXCEPT !.orders = n]
    BY <2>1, <2>4
  <2> QED
    BY <2>1, <2>2, <2>5 DEF TallyState
<1>6. config' \in ConfigState /\ (s # RestartScript => config'.split = config.split)
  <2>1. PICK b \in BOOLEAN, d \in BOOLEAN : b = ~config.enable /\ d = ~config.split
    OBVIOUS
  <2>2. \/ config' = config
        \/ config' = [config EXCEPT !.enable = b]
        \/ config' = [config EXCEPT !.split = d] /\ s = RestartScript
    BY <1>1, <2>1, Zenon
  <2> QED
    BY <1>3, <2>2 DEF Typed, ConfigState
<1>7. Typed'
  BY <1>3, <1>4, <1>5, <1>6 DEF Typed
<1>8. ASSUME Apart PROVE Apart'
  <2>1. \A f \in Family : ~Stopping(f)
    BY <1>4, NoParts DEF Stopping
  <2>2. s = RestartScript => \A f \in Family : Stopping(f)'
    BY <1>4, RestartScripted DEF Stopping
  <2>3. s # RestartScript => Wanted' = Wanted
    BY <1>6 DEF Wanted
  <2>4. ~UnderWay(User)' /\ ~Turn(User, "spawn")' /\ ~Turn(User, "kill")'
    BY <1>2, <1>4 DEF UnderWay, Turn
  <2>5. \A q \in Process : /\ UnderWay(q)' => UnderWay(q)
                           /\ Turn(q, "spawn")' => Turn(q, "spawn") /\ q # User
                           /\ Turn(q, "kill")' => Turn(q, "kill") /\ q # User
    <3> TAKE q \in Process
    <3>1. CASE q = User
      BY <2>4, <3>1
    <3>2. CASE q # User
      BY <1>4, <3>2 DEF UnderWay, Turn
    <3> QED
      BY <3>1, <3>2
  <2>6. Alone'
    BY <1>8, <2>5 DEF Apart, Alone
  <2>7. Recorded' /\ Single'
    BY <1>5, <1>8 DEF Apart, Recorded, Single, Alive
  <2>8. Cleared' /\ Ending'
    BY <1>4, <1>5, <1>8, <2>5 DEF Apart, Cleared, Ending, Alive
  <2>9. Orderly'
    <3> SUFFICES ASSUME NEW l \in Loop, Alive(l)'
                 PROVE  l[1] \in Wanted' \/ Stopping(l[1])'
      BY DEF Orderly
    <3>1. l[1] \in Wanted /\ l[1] \in Family
      BY <1>5, <1>8, <2>1, Names DEF Apart, Orderly, Alive
    <3> QED
      BY <2>2, <2>3, <3>1
  <2>10. Due'
    <3> SUFFICES ASSUME NEW q \in Process, NEW c \in Parts(scripts'[q]), c.do \in Looks
                 PROVE  c.of \in Wanted' \/ Stopping(c.of)'
      BY DEF Due
    <3>1. q # User /\ c \in Parts(scripts[q])
      BY <1>2, <1>4
    <3>2. c.of \in Family
      BY <1>3, <3>1, PartsTyped DEF Typed
    <3>3. c.of \in Wanted
      BY <1>8, <2>1, <3>1, <3>2 DEF Apart, Due
    <3> QED
      BY <2>2, <2>3, <3>2, <3>3
  <2> QED
    BY <2>6, <2>7, <2>8, <2>9, <2>10 DEF Apart
<1> QED
  BY <1>4, <1>5, <1>7, <1>8 DEF IInv

-----------------------------------------------------------------------------
(* The theorems *)

LEMMA KeepaliveStart == KeepaliveInit => IInv
<1> SUFFICES ASSUME KeepaliveInit PROVE IInv
  OBVIOUS
<1>1. PICK script \in {<<>>, UpScript} :
        scripts = [p \in Process |-> IF p = User THEN script ELSE <<>>]
  BY DEF KeepaliveInit, Process
<1>2. /\ script \in Seq(ScriptCommand) /\ Shape(script)
      /\ \A c \in Parts(script) : c.do \notin Looks
      /\ script # <<>> => Head(script).do = "ensure"
  BY NoParts, Scripted
<1>3. \A p \in Process : /\ scripts[p] \in Seq(ScriptCommand) /\ Shape(scripts[p])
                         /\ \A c \in Parts(scripts[p]) : c.do \notin Looks
                         /\ scripts[p] # <<>> => Head(scripts[p]).do = "ensure"
  BY <1>1, <1>2, NoParts
<1>4. scripts \in [Process -> Seq(ScriptCommand)]
  BY <1>1, <1>3
<1>5. loops \in [Loop -> LoopState] /\ \A l \in Loop : ~Alive(l)
  BY Records DEF KeepaliveInit, Alive
<1>6. config \in ConfigState /\ tally \in TallyState /\ pids \in [Family -> 0..MaxGen]
  <2>1. config \in ConfigState
    BY DEF KeepaliveInit, ConfigState
  <2>2. 0 \in 0..MaxOrders /\ 0 \in 0..MaxFailures /\ 0 \in 0..MaxGen
    BY KeepaliveNumbers
  <2>3. tally \in TallyState
    BY <2>2 DEF KeepaliveInit, TallyState
  <2> QED
    BY <2>1, <2>2, <2>3 DEF KeepaliveInit
<1>7. Typed /\ ScriptsOK
  BY <1>3, <1>4, <1>5, <1>6 DEF Typed, ScriptsOK
<1>8. \A p \in Process : ~UnderWay(p) /\ ~Turn(p, "spawn") /\ ~Turn(p, "kill")
  BY <1>3 DEF UnderWay, Turn
<1>9. Alone /\ Recorded /\ Single /\ Cleared /\ Ending /\ Orderly
  BY <1>5, <1>8 DEF Alone, Recorded, Single, Cleared, Ending, Orderly
<1>10. Due
  BY <1>3 DEF Due
<1> QED
  BY <1>7, <1>9, <1>10 DEF IInv, Apart

\* The invariant of the watchdog, kept by every step of a loop, of a script and
\* of the user.
THEOREM WatchdogInvariance == KeepaliveSpec => []IInv
<1>1. ASSUME IInv, [KeepaliveNext]_keepaliveVars PROVE IInv'
  <2>1. CASE UNCHANGED keepaliveVars
    BY <1>1, <2>1
       DEF keepaliveVars, IInv, Typed, ScriptsOK, Apart, Alone, Recorded, Single,
           Cleared, Ending, Orderly, Due, UnderWay, Turn, Alive, Wanted, Stopping
  <2>2. ASSUME NEW l \in Loop, LoopStep(l) PROVE IInv'
    BY <1>1, <2>2, LoopKeeps
  <2>3. ASSUME NEW p \in Process, ScriptStep(p) PROVE IInv'
    BY <1>1, <2>3, EnsureKeeps, StartKeeps, CheckKeeps, SpawnKeeps, StopKeeps,
       KilledKeeps DEF ScriptStep
  <2>4. CASE DoUp \/ DoDown \/ SetSplit \/ SetEnable
    BY <1>1, <2>4, UserKeeps
  <2> QED
    BY <1>1, <2>1, <2>2, <2>3, <2>4 DEF KeepaliveNext, Process
<1> QED
  BY <1>1, KeepaliveStart, PTL DEF KeepaliveSpec

\* The variables keep their types (fm160-keepalive:329-447).
THEOREM WatchdogTypeCorrect == KeepaliveSpec => []KeepaliveTypeOK
<1>1. IInv => KeepaliveTypeOK
  BY DEF IInv, Typed, KeepaliveTypeOK, LoopState, Ats, ConfigState, TallyState,
         Process
<1> QED
  BY <1>1, WatchdogInvariance, PTL

\* One loop watches each family once the user's script is through, unless a
\* start or a stop was under way while another was, or met a loop that was not
\* on record yet (fm160-keepalive:406-447).
THEOREM OneLoopPerFamily == KeepaliveSpec => []OneWatcher
<1>1. IInv => OneWatcher
  <2> SUFFICES ASSUME IInv, scripts[User] = <<>>, ~tally.raced,
                      NEW l \in Loop, NEW k \in Loop, l # k, Alive(l), Alive(k)
               PROVE  Watches(l[1]) \cap Watches(k[1]) = {}
    BY DEF OneWatcher
  <2>1. Apart
    BY DEF IInv
  <2>2. \A f \in Family : ~Stopping(f)
    BY NoParts DEF Stopping
  <2>3. l[1] \in Wanted /\ k[1] \in Wanted
    BY <2>1, <2>2, Names DEF Apart, Orderly
  <2>4. l[1] # k[1]
    BY <2>1 DEF Apart, Single
  <2>5. {l[1], k[1]} = {"4", "6"}
    BY <2>3, <2>4 DEF Wanted
  <2> QED
    BY <2>4, <2>5 DEF Watches
<1> QED
  BY <1>1, WatchdogInvariance, PTL
=============================================================================
