----------------------------- MODULE SmsProofs -----------------------------
(***************************************************************************)
(* The message store for every size of the ring and of the module, whatever *)
(* is received, refused, forgotten or lost with the power: the types, the   *)
(* order of the ring and the setup; that memory and file differ in the      *)
(* deletions alone; that a message is listed once; and that the store       *)
(* implements MessageList.                                                  *)
(***************************************************************************)
EXTENDS Sms, SequenceTheorems, FiniteSetTheorems, TLAPS

LEMMA SmsNumbers ==
  /\ Keep \in Nat \ {0} /\ MaxTries \in Nat \ {0} /\ Capacity \in Nat \ {0}
  /\ Segments \in Nat \ {0} /\ NoText \notin Text
  /\ MaxArrivals \in Nat /\ MaxDeletions \in Nat /\ MaxSmsLives \in Nat
BY SmsAssumption DEF SmsConstants

-----------------------------------------------------------------------------
(***************************************************************************)
(* The ring.  The place of a slot tells the id in it: it is the last id     *)
(* given less the slots from there to the head.  A deletion frees a slot    *)
(* and moves nothing.                                                       *)
(***************************************************************************)
Slots == 0..(Keep - 1)
ListState ==
  [ring : [Slots -> Entries], head : Slots, count : 0..Keep, next : Nat]

\* Messages placed since slot s was filled.
Age(head, s) == IF s < head THEN head - 1 - s ELSE head - 1 - s + Keep

RingOK(l) ==
  /\ \A s \in Used(l) : l.ring[s].id + Age(l.head, s) = l.next
  /\ Cardinality(Used(l)) <= l.count
ListOK(l) == l \in ListState /\ RingOK(l)

\* The fields of a list.
LEMMA ListFields ==
  ASSUME NEW l \in ListState
  PROVE  /\ l.ring \in [Slots -> Entries] /\ DOMAIN l.ring = Slots
         /\ l.head \in Slots /\ l.count \in 0..Keep /\ l.next \in Nat
         /\ l.head \in Nat /\ l.count \in Nat
         /\ \A s \in Slots : l.ring[s] \in Entries /\ l.ring[s].id \in Nat
         /\ Used(l) = {s \in Slots : l.ring[s].id # 0}
BY SmsNumbers DEF ListState, Slots, Entries, Used

LEMMA SlotsFinite ==
  /\ IsFiniteSet(Slots) /\ Cardinality(Slots) = Keep
  /\ \A U \in SUBSET Slots : IsFiniteSet(U) /\ Cardinality(U) \in 0..Keep
<1>1. IsFiniteSet(Slots) /\ Cardinality(Slots) = Keep
  BY SmsNumbers, FS_Interval DEF Slots
<1>2. ASSUME NEW U \in SUBSET Slots
      PROVE  IsFiniteSet(U) /\ Cardinality(U) \in 0..Keep
  <2>1. IsFiniteSet(U) /\ Cardinality(U) <= Keep
    BY <1>1, FS_Subset
  <2> QED
    BY <2>1, FS_CardinalityType, SmsNumbers
<1> QED
  BY <1>1, <1>2

\* Round the ring from the head the ids increase.
LEMMA RingInOrderOK == ListOK(list) => RingInOrder
<1> SUFFICES ASSUME ListOK(list) PROVE RingInOrder
  OBVIOUS
<1>1. /\ list.head \in Slots /\ list.next \in Nat /\ Used(list) \subseteq Slots
      /\ \A s \in Slots : list.ring[s].id \in Nat
  BY ListFields DEF ListOK
<1>2. Keep \in Nat \ {0}
  BY SmsNumbers
<1>3. \A s \in Slots : Age(list.head, s) \in Nat
  BY <1>1, <1>2 DEF Age, Slots
<1>4. \A s \in Used(list) : list.ring[s].id + Age(list.head, s) = list.next
  BY DEF ListOK, RingOK
<1>5. \A s \in Used(list) : list.ring[s].id <= list.next
  BY <1>1, <1>3, <1>4
<1>6. ASSUME NEW s \in Used(list), NEW t \in Used(list),
             IF (s < list.head) <=> (t < list.head) THEN s < t
                                                   ELSE t < list.head
      PROVE  list.ring[s].id < list.ring[t].id
  <2>1. s \in Slots /\ t \in Slots
    BY <1>1
  <2>2. Age(list.head, t) < Age(list.head, s)
    BY <1>1, <1>2, <1>6, <2>1 DEF Age, Slots
  <2> QED
    BY <1>1, <1>3, <1>4, <2>1, <2>2
<1>7. Cardinality(Used(list)) <= list.count
  BY DEF ListOK, RingOK
<1> QED
  BY <1>5, <1>6, <1>7 DEF RingInOrder

LEMMA EmptyListOK ==
  /\ ListOK(EmptyList) /\ Used(EmptyList) = {} /\ Shown(EmptyList) = {}
  /\ EmptyList.next = 0
<1>1. Free \in Entries /\ Free.id = 0
  BY DEF Free, Entries
<1>2. EmptyList \in ListState
  BY <1>1, SmsNumbers DEF EmptyList, ListState, Slots
<1>3. Used(EmptyList) = {}
  BY <1>1 DEF EmptyList, Used
<1>4. EmptyList.count = 0 /\ EmptyList.next = 0
  BY DEF EmptyList
<1>5. Cardinality(Used(EmptyList)) = 0
  BY <1>3, FS_EmptySet
<1> QED
  BY <1>2, <1>3, <1>4, <1>5 DEF ListOK, RingOK, Shown

\* What sms_new_slot is filled with.
Content(m) == m.index \in Index \cup {0} /\ m.text \in Text \cup {NoText}

\* sms_new_slot: the slot at the head is filled, and what is no longer shown
\* is the message of Keep ids before.
LEMMA PlacedOK ==
  ASSUME NEW l, ListOK(l), NEW m, Content(m)
  PROVE  LET p == Placed(l, m)
             e == Entry(l.next + 1, m)
         IN /\ ListOK(p) /\ p.next = l.next + 1 /\ p.head = NextSlot(l.head)
            /\ l.head \in Slots /\ p.ring[l.head] = e
            /\ \A s \in Slots : s # l.head => p.ring[s] = l.ring[s]
            /\ Used(p) = Used(l) \cup {l.head}
            /\ Shown(p) = {x \in Shown(l) : x.id + Keep > l.next + 1} \cup {e}
<1>0. l \in ListState /\ RingOK(l)
  BY DEF ListOK
<1>1. PICK p, h, e, k : /\ p = Placed(l, m) /\ h = l.head
                        /\ e = Entry(k, m) /\ k = l.next + 1
  OBVIOUS
<1>2. /\ h \in Slots /\ l.next \in Nat /\ k \in Nat \ {0} /\ Keep \in Nat \ {0}
      /\ NextSlot(h) \in Slots
  BY <1>0, <1>1, ListFields, SmsNumbers DEF NextSlot, Slots
<1>3. e \in Entries /\ e.id = k
  BY <1>1, <1>2 DEF Entry, Entries, Content
<1>4. /\ p.ring = [l.ring EXCEPT ![h] = e] /\ p.head = NextSlot(h)
      /\ p.count = IF l.count < Keep THEN l.count + 1 ELSE l.count
      /\ p.next = k
  BY <1>1 DEF Placed
<1>5. p \in ListState
  <2>1. p.ring \in [Slots -> Entries]
    BY <1>0, <1>3, <1>4, ListFields
  <2>2. p.count \in 0..Keep
    BY <1>0, <1>4, ListFields, SmsNumbers
  <2> QED
    BY <1>1, <1>2, <1>4, <2>1, <2>2 DEF ListState, Placed
<1>6. /\ p.ring[h] = e
      /\ \A s \in Slots : s # h => p.ring[s] = l.ring[s]
  BY <1>0, <1>2, <1>4, ListFields
<1>7. /\ Used(l) = {s \in Slots : l.ring[s].id # 0}
      /\ Used(p) = {s \in Slots : p.ring[s].id # 0}
      /\ \A s \in Slots : l.ring[s].id \in Nat /\ p.ring[s].id \in Nat
  BY <1>0, <1>5, ListFields
<1>8. Used(p) = Used(l) \cup {h} /\ Used(l) \subseteq Slots
  BY <1>2, <1>3, <1>6, <1>7
\* Every other slot is one message older.
<1>9. \A s \in Slots : /\ s # h => /\ Age(NextSlot(h), s) = Age(h, s) + 1
                                   /\ Age(h, s) < Keep - 1
                       /\ s = h => Age(NextSlot(h), s) = 0
                       /\ s = h => Age(h, s) = Keep - 1
                       /\ Age(h, s) \in Nat
  BY <1>2 DEF Age, NextSlot, Slots
<1>10. \A s \in Used(l) : l.ring[s].id + Age(h, s) = l.next
  BY <1>0, <1>1 DEF RingOK
<1>11. ASSUME NEW s \in Used(p) PROVE p.ring[s].id + Age(p.head, s) = p.next
  <2>1. CASE s = h
    BY <1>2, <1>3, <1>4, <1>6, <1>9, <2>1
  <2>2. CASE s # h
    <3>1. s \in Used(l) /\ s \in Slots
      BY <1>8, <2>2
    <3>2. p.ring[s].id = l.ring[s].id /\ Age(p.head, s) = Age(h, s) + 1
      BY <1>4, <1>6, <1>9, <2>2, <3>1
    <3>3. l.ring[s].id + Age(h, s) = l.next
      BY <1>10, <3>1
    <3>4. l.ring[s].id \in Nat /\ Age(h, s) \in Nat
      BY <1>7, <1>9, <3>1
    <3> QED
      BY <1>1, <1>2, <1>4, <3>2, <3>3, <3>4
  <2> QED
    BY <2>1, <2>2
<1>12. Cardinality(Used(p)) <= p.count
  <2>1. Used(l) \in SUBSET Slots /\ Used(p) \in SUBSET Slots
    BY <1>7
  <2>2. /\ IsFiniteSet(Used(l)) /\ Cardinality(Used(l)) \in Nat
        /\ Cardinality(Used(p)) \in 0..Keep
    BY <2>1, SlotsFinite, SmsNumbers
  <2>3. Cardinality(Used(p)) <= Cardinality(Used(l)) + 1
    <3>1. PICK U : U = Used(l)
      OBVIOUS
    <3>2. Cardinality(U \cup {h}) =
            IF h \in U THEN Cardinality(U) ELSE Cardinality(U) + 1
      BY <2>2, <3>1, FS_AddElement
    <3> QED
      BY <1>8, <2>2, <3>1, <3>2
  <2>4. Cardinality(Used(l)) <= l.count
    BY <1>0 DEF RingOK
  <2> QED
    BY <1>0, <1>4, <2>2, <2>3, <2>4, ListFields, SmsNumbers
<1>13. Shown(p) = {x \in Shown(l) : x.id + Keep > k} \cup {e}
  <2>1. ASSUME NEW s \in Used(l)
        PROVE  (l.ring[s].id + Keep > k) <=> (s # h)
    <3>1. s \in Slots /\ l.ring[s].id + Age(h, s) = l.next
          /\ l.ring[s].id \in Nat /\ Age(h, s) \in Nat
      BY <1>7, <1>9, <1>10
    <3>2. s # h => Age(h, s) < Keep - 1
      BY <1>9, <3>1
    <3>3. s = h => Age(h, s) = Keep - 1
      BY <1>9, <3>1
    <3> QED
      BY <1>1, <1>2, <3>1, <3>2, <3>3
  <2>2. Shown(p) = {p.ring[s] : s \in Used(l) \ {h}} \cup {p.ring[h]}
    BY <1>8 DEF Shown
  <2>3. \A s \in Used(l) \ {h} : p.ring[s] = l.ring[s]
    BY <1>6, <1>8
  <2>4. Shown(p) = {l.ring[s] : s \in Used(l) \ {h}} \cup {e}
    BY <1>6, <2>2, <2>3
  <2>5. {x \in Shown(l) : x.id + Keep > k} = {l.ring[s] : s \in Used(l) \ {h}}
    BY <2>1 DEF Shown
  <2> QED
    BY <2>4, <2>5
<1> QED
  BY <1>1, <1>2, <1>4, <1>5, <1>6, <1>8, <1>11, <1>12, <1>13
     DEF ListOK, RingOK

\* A slot that is given up leaves the others as they are.
LEMMA UnusedOK ==
  ASSUME NEW l, ListOK(l), NEW id \in Ids(l), NEW n \in Int, n = l.count - 1
  PROVE  LET u == [Unused(l, id) EXCEPT !.count = n]
         IN /\ ListOK(u) /\ u.next = l.next /\ u.head = l.head
            /\ \A s \in Slots :
                 u.ring[s] = IF l.ring[s].id = id THEN Free ELSE l.ring[s]
            /\ Shown(u) = {x \in Shown(l) : x.id # id}
<1>0. l \in ListState /\ RingOK(l)
  BY DEF ListOK
<1>1. PICK u : u = [Unused(l, id) EXCEPT !.count = n]
  OBVIOUS
<1>2. PICK x \in Used(l) : id = l.ring[x].id
  BY DEF Ids
<1>3. x \in Slots /\ id \in Nat \ {0}
  BY <1>0, <1>2, ListFields
<1>4. Used(l) \in SUBSET Slots /\ IsFiniteSet(Used(l))
  BY <1>0, ListFields, SlotsFinite
<1>5. /\ Cardinality(Used(l)) \in Nat /\ Cardinality(Used(l)) <= l.count
      /\ Cardinality(Used(l)) # 0
  BY <1>0, <1>2, <1>4, SlotsFinite, SmsNumbers, FS_EmptySet DEF RingOK
<1>6. l.count > 0 /\ n \in 0..Keep
  BY <1>0, <1>5, ListFields, SmsNumbers
<1>7. Free \in Entries /\ Free.id = 0
  BY DEF Free, Entries
<1>8. /\ u.ring = [s \in Slots |-> IF l.ring[s].id = id THEN Free ELSE l.ring[s]]
      /\ u.head = l.head /\ u.next = l.next /\ u.count = n
      /\ u \in ListState
  <2>1. [s \in Slots |-> IF l.ring[s].id = id THEN Free ELSE l.ring[s]]
          \in [Slots -> Entries]
    BY <1>0, <1>7, ListFields
  <2>2. Unused(l, id) = [l EXCEPT !.ring =
          [s \in Slots |-> IF l.ring[s].id = id THEN Free ELSE l.ring[s]]]
    BY <1>0, ListFields DEF Unused
  <2> HIDE DEF Unused
  <2> QED
    BY <1>0, <1>1, <1>6, <2>1, <2>2 DEF ListState
<1>9. \A s \in Slots : u.ring[s] = IF l.ring[s].id = id THEN Free ELSE l.ring[s]
  BY <1>8
<1>10. /\ Used(u) = {s \in Used(l) : l.ring[s].id # id}
       /\ \A s \in Used(u) : u.ring[s] = l.ring[s]
  BY <1>0, <1>3, <1>7, <1>8, <1>9, ListFields
<1>11. Cardinality(Used(u)) <= u.count
  <2>1. /\ IsFiniteSet(Used(l) \ {x})
        /\ Cardinality(Used(l) \ {x}) = Cardinality(Used(l)) - 1
    BY <1>2, <1>4, FS_RemoveElement
  <2>2. Used(u) \in SUBSET (Used(l) \ {x})
    BY <1>2, <1>10
  <2>3. Cardinality(Used(u)) <= Cardinality(Used(l)) - 1
    BY <2>1, <2>2, FS_Subset
  <2>4. Used(u) \in SUBSET Slots
    BY <1>4, <1>10
  <2>5. Cardinality(Used(u)) \in Nat
    BY <2>4, SlotsFinite, SmsNumbers
  <2> QED
    BY <1>0, <1>5, <1>8, <2>3, <2>5, ListFields
<1>12. \A s \in Used(u) : u.ring[s].id + Age(u.head, s) = u.next
  BY <1>0, <1>8, <1>10 DEF RingOK
<1>13. Shown(u) = {y \in Shown(l) : y.id # id}
  BY <1>10 DEF Shown
<1> QED
  BY <1>1, <1>8, <1>9, <1>11, <1>12, <1>13 DEF ListOK, RingOK

-----------------------------------------------------------------------------
(* The types of what is beside the store *)

JobState ==
  [kind : {"none", "setup", "fetch", "sync", "store", "delete", "send"},
   step : Nat, after : {"none", "fetch", "sync"}, arg : Nat,
   todo : SUBSET Message]
SetupState ==
  [usable : BOOLEAN, done : BOOLEAN, tries : 0..MaxTries, due : BOOLEAN]
InboxState == [Index -> Text \cup {NoText}]
SpentState == [arrivals : 0..MaxArrivals, deletions : 0..MaxDeletions,
               lives : 0..MaxSmsLives]

\* A setup that is in flight was begun with tries left.
RestOK ==
  /\ inbox \in InboxState /\ armed \in BOOLEAN
  /\ announced \in Seq(Index) /\ ready \in BOOLEAN
  /\ setup \in SetupState /\ job \in JobState
  /\ ahead \in BOOLEAN /\ noticed \in BOOLEAN
  /\ weather \in Weathers \cup {{}} /\ spent \in SpentState
  /\ job.kind = "setup" => setup.tries < MaxTries
  /\ ArmedWhenDone

LEMMA NoJobType == NoJob \in JobState /\ NoJob.kind = "none"
BY DEF NoJob, JobState

LEMMA ExchangeType ==
  ASSUME NEW k \in {"fetch", "sync", "delete", "send"}, NEW n \in Nat,
         NEW x \in Nat
  PROVE  Exchange(k, n, x) \in JobState /\ Exchange(k, n, x).kind = k
BY DEF NoJob, JobState, Exchange

LEMMA SetupThenType ==
  ASSUME NEW f \in {"none", "fetch", "sync"}, NEW x \in Nat
  PROVE  SetupThen(f, x) \in JobState
BY DEF NoJob, JobState, SetupThen

LEMMA StoreType ==
  ASSUME NEW w \in SUBSET Message
  PROVE  /\ [NoJob EXCEPT !.kind = "store", !.todo = w] \in JobState
         /\ [NoJob EXCEPT !.kind = "store", !.todo = w].kind = "store"
BY DEF NoJob, JobState

LEMMA JobFields ==
  ASSUME NEW j \in JobState
  PROVE  j.step \in Nat /\ j.arg \in Nat /\ j.todo \subseteq Message
BY DEF JobState

LEMMA StepType ==
  ASSUME NEW j \in JobState, NEW n \in Nat
  PROVE  /\ [j EXCEPT !.step = n] \in JobState
         /\ [j EXCEPT !.step = n].kind = j.kind
BY DEF JobState

LEMMA TodoType ==
  ASSUME NEW j \in JobState, NEW w \in SUBSET Message
  PROVE  /\ [j EXCEPT !.todo = w] \in JobState
         /\ [j EXCEPT !.todo = w].kind = j.kind
BY DEF JobState

LEMMA SetupFields ==
  ASSUME NEW s \in SetupState
  PROVE  /\ s.tries \in 0..MaxTries /\ s.tries \in Nat
         /\ s.usable \in BOOLEAN /\ s.done \in BOOLEAN /\ s.due \in BOOLEAN
         /\ Wanted(s) => s.tries < MaxTries
BY SmsNumbers DEF SetupState, Wanted

LEMMA FreshSetupType == FreshSetup \in SetupState /\ ~FreshSetup.done
BY SmsNumbers DEF FreshSetup, SetupState

LEMMA SetupResetType ==
  ASSUME NEW s \in SetupState
  PROVE  SetupReset(s) \in SetupState /\ ~SetupReset(s).done
<1>1. PICK n \in 0..MaxTries : n = 0
  BY SmsNumbers
<1>2. SetupReset(s) = [s EXCEPT !.done = FALSE, !.tries = n, !.due = TRUE]
  BY <1>1 DEF SetupReset
<1> QED
  BY <1>2 DEF SetupState

LEMMA BegunType ==
  ASSUME NEW s \in SetupState
  PROVE  /\ Begun(s) \in SetupState /\ Begun(s).tries = s.tries
         /\ Begun(s).done = s.done
BY SmsNumbers DEF SetupState, Begun

LEMMA KickedType ==
  ASSUME NEW s \in SetupState
  PROVE  Kicked(s) \in SetupState /\ Kicked(s).done = s.done
<1>1. PICK n \in 0..MaxTries : n = 0
  BY SmsNumbers
<1>2. /\ [s EXCEPT !.tries = n, !.due = TRUE] \in SetupState
      /\ [s EXCEPT !.tries = n, !.due = TRUE].done = s.done
  BY DEF SetupState
<1>3. Kicked(s) = s \/ Kicked(s) = [s EXCEPT !.tries = n, !.due = TRUE]
  BY <1>1 DEF Kicked
<1> QED
  BY <1>2, <1>3

\* What comes after a setup.
LEMMA ResumeType ==
  ASSUME job \in JobState, NEW s \in SetupState
  PROVE  Resume(s) \in JobState /\ Resume(s).kind # "setup"
<1>1. job.arg \in Nat /\ 0 \in Nat
  BY JobFields
<1>2. \/ Resume(s) = Exchange("fetch", 0, job.arg)
      \/ Resume(s) = Exchange("sync", 0, 0)
      \/ Resume(s) = NoJob
  BY DEF Resume
<1>3. /\ Exchange("fetch", 0, job.arg) \in JobState
      /\ Exchange("fetch", 0, job.arg).kind = "fetch"
      /\ Exchange("sync", 0, 0) \in JobState
      /\ Exchange("sync", 0, 0).kind = "sync"
      /\ NoJob \in JobState /\ NoJob.kind = "none"
  BY <1>1, ExchangeType, NoJobType
<1> QED
  BY <1>2, <1>3

\* The module and the port.
LEMMA ModuleRest ==
  ASSUME RestOK,
         Arrive \/ Forget \/ Reset \/ Clears \/ Identify \/ PortLost
  PROVE  RestOK'
<1>1. CASE Arrive
  <2>1. PICK i \in Index, t \in Text :
          /\ inbox' = [inbox EXCEPT ![i] = t]
          /\ announced' \in {announced, Append(announced, i)}
    BY <1>1 DEF Arrive
  <2>2. inbox' \in InboxState
    BY <2>1 DEF RestOK, InboxState
  <2>3. announced' \in Seq(Index)
    BY <2>1, AppendProperties DEF RestOK
  <2>4. spent' \in SpentState
    BY <1>1, SmsNumbers DEF Arrive, RestOK, SpentState
  <2> QED
    BY <1>1, <2>2, <2>3, <2>4 DEF Arrive, RestOK, ArmedWhenDone
<1>2. CASE Forget
  <2>1. inbox' \in InboxState
    BY <1>2 DEF Forget, RestOK, InboxState
  <2> QED
    BY <1>2, <2>1 DEF Forget, RestOK, ArmedWhenDone, smsHistory
<1>3. CASE Reset
  BY <1>3 DEF Reset, RestOK, ArmedWhenDone
<1>4. CASE Clears
  BY <1>4 DEF Clears, RestOK, ArmedWhenDone, smsModule
<1>5. CASE Identify
  <2>1. job.kind # "setup"
    BY <1>5, NoJobType DEF Identify, SmsLoop
  <2>2. setup' \in SetupState /\ ~setup'.done
    BY <1>5, SetupResetType DEF Identify, RestOK
  <2> QED
    BY <1>5, <2>1, <2>2 DEF Identify, RestOK, ArmedWhenDone, smsModule
<1>6. CASE PortLost
  BY <1>6 DEF PortLost, RestOK, ArmedWhenDone, smsModule, smsHistory
<1> QED
  BY <1>1, <1>2, <1>3, <1>4, <1>5, <1>6

\* The setup.
LEMMA SetupRest ==
  ASSUME RestOK,
         SetupTimer \/ SetupTick \/ SetupStepped \/ SetupArmed \/ SetupRefused
           \/ SetupNotPdu
  PROVE  RestOK'
<1>0. setup \in SetupState /\ job \in JobState
  BY DEF RestOK
<1>1. CASE SetupTimer
  <2>1. setup' \in SetupState /\ setup'.tries = setup.tries
        /\ setup'.done = setup.done
    BY <1>0, <1>1 DEF SetupTimer, SetupState
  <2> QED
    BY <1>1, <2>1 DEF SetupTimer, RestOK, ArmedWhenDone, smsModule, smsHistory
<1>2. CASE SetupTick
  <2>1. /\ setup' \in SetupState /\ setup'.tries < MaxTries
        /\ setup'.done = setup.done
    BY <1>0, <1>2, SetupFields, BegunType DEF SetupTick
  <2>2. job' \in JobState
    BY <1>2, SetupThenType DEF SetupTick
  <2> QED
    BY <1>2, <2>1, <2>2 DEF SetupTick, RestOK, ArmedWhenDone, smsModule, smsHistory
<1>3. CASE SetupStepped
  <2>1. job.step \in Nat /\ job.step + 1 \in Nat
    BY <1>0, JobFields
  <2>2. PICK n \in Nat : n = job.step + 1
    BY <2>1
  <2>3. job' = [job EXCEPT !.step = n]
    BY <1>3, <2>2 DEF SetupStepped
  <2>4. job' \in JobState /\ job'.kind = job.kind
    BY <1>0, <2>3, StepType
  <2> QED
    BY <1>3, <2>4 DEF SetupStepped, RestOK, ArmedWhenDone, smsModule, smsHistory
<1>4. CASE SetupArmed
  <2>1. setup' \in SetupState
    <3>1. PICK n \in 0..MaxTries : n = 0
      BY SmsNumbers
    <3>2. setup' = [setup EXCEPT !.usable = TRUE, !.done = TRUE, !.tries = n]
      BY <1>4, <3>1 DEF SetupArmed
    <3> QED
      BY <1>0, <3>2 DEF SetupState
  <2>2. PICK s \in SetupState : s = setup'
    BY <2>1
  <2>3. job' = Resume(s)
    BY <1>4, <2>2 DEF SetupArmed
  <2>4. job' \in JobState /\ job'.kind # "setup"
    BY <1>0, <2>3, ResumeType
  <2> QED
    BY <1>4, <2>1, <2>4 DEF SetupArmed, RestOK, ArmedWhenDone, smsHistory
<1>5. CASE SetupRefused \/ SetupNotPdu
  <2>1. setup.tries < MaxTries /\ setup.tries \in Nat
    BY <1>0, <1>5, SetupFields DEF SetupRefused, SetupNotPdu, RestOK
  <2>2. setup' \in SetupState /\ setup'.done = setup.done
    <3>1. PICK n : n = setup.tries + 1
      OBVIOUS
    <3>2. n \in 0..MaxTries /\ MaxTries \in 0..MaxTries
      BY <2>1, <3>1, SmsNumbers
    <3>3. PICK t \in 0..MaxTries :
            setup' = [setup EXCEPT !.usable = FALSE, !.tries = t, !.due = FALSE]
      BY <1>5, <3>1, <3>2 DEF SetupRefused, SetupNotPdu
    <3> QED
      BY <1>0, <3>3 DEF SetupState
  <2>3. PICK s \in SetupState : s = setup'
    BY <2>2
  <2>4. job' = Resume(s)
    BY <1>5, <2>3 DEF SetupRefused, SetupNotPdu
  <2>5. job' \in JobState /\ job'.kind # "setup"
    BY <1>0, <2>4, ResumeType
  <2>6. armed' \in BOOLEAN /\ (armed => armed')
    BY <1>5 DEF SetupRefused, SetupNotPdu, RestOK, smsModule
  <2>7. UNCHANGED <<inbox, announced, ready, ahead, noticed, weather, spent>>
    BY <1>5 DEF SetupRefused, SetupNotPdu, smsModule, smsHistory
  <2>8. ArmedWhenDone'
    BY <2>2, <2>6, <2>7 DEF RestOK, ArmedWhenDone
  <2> QED
    BY <2>2, <2>5, <2>6, <2>7, <2>8 DEF RestOK
<1> QED
  BY <1>1, <1>2, <1>3, <1>4, <1>5

\* Announcements, listing, deleting, sending and the ends of the daemon.
LEMMA WorkRest ==
  ASSUME RestOK, list \in ListState,
         Urc \/ Sync \/ Answered \/ NotAnswered \/ Stored \/ Delete
           \/ DeleteAnswered \/ Send \/ SegmentAnswered
           \/ SmsCrash \/ PowerCut \/ SmsStart \/ LoadLine \/ LoadEnds
  PROVE  RestOK'
<1>0. setup \in SetupState /\ job \in JobState /\ announced \in Seq(Index)
  BY DEF RestOK
\* The job is another one, or none.
<1>1. ASSUME job' \in JobState, job'.kind # "setup" \/ setup'.tries < MaxTries,
             setup' \in SetupState, setup'.done = setup.done,
             announced' \in Seq(Index), ahead' \in BOOLEAN,
             spent' \in SpentState,
             UNCHANGED <<inbox, armed, ready, noticed, weather>>
      PROVE  RestOK'
  BY <1>1 DEF RestOK, ArmedWhenDone
<1>3. spent \in SpentState /\ ahead \in BOOLEAN
  BY DEF RestOK
<1>4. CASE Urc
  <2>1. PICK s, i : s = Kicked(setup) /\ i = Head(announced)
    OBVIOUS
  <2>2. s \in SetupState /\ s.done = setup.done
    BY <1>0, <2>1, KickedType
  <2>3. i \in Index /\ i \in Nat /\ announced' \in Seq(Index)
    BY <1>0, <1>4, <2>1, HeadTailProperties, SmsNumbers DEF Urc, Index
  <2>4. /\ job' \in JobState /\ (job'.kind # "setup" \/ setup'.tries < MaxTries)
        /\ setup' \in SetupState /\ setup'.done = setup.done
    <3>1. /\ job.kind = "none"
          /\ Exchange("fetch", 0, i) \in JobState
          /\ Exchange("fetch", 0, i).kind = "fetch"
          /\ SetupThen("fetch", i) \in JobState
      BY <1>4, <2>3, NoJobType, ExchangeType, SetupThenType DEF Urc, SmsLoop
    <3>2. /\ Begun(s) \in SetupState /\ Begun(s).done = s.done
          /\ Wanted(s) => Begun(s).tries < MaxTries
      BY <2>2, SetupFields, BegunType
    <3>3. \/ setup' = s /\ job' \in {Exchange("fetch", 0, i), job}
          \/ Wanted(s) /\ setup' = Begun(s) /\ job' = SetupThen("fetch", i)
      BY <1>4, <2>1 DEF Urc
    <3> QED
      BY <1>0, <2>2, <3>1, <3>2, <3>3
  <2> QED
    BY <1>1, <1>3, <1>4, <2>3, <2>4 DEF Urc, smsModule, smsHistory
<1>5. CASE Sync
  <2>1. PICK s : s = Kicked(setup)
    OBVIOUS
  <2>2. s \in SetupState /\ s.done = setup.done
    BY <1>0, <2>1, KickedType
  <2>3. /\ job.kind = "none"
        /\ Exchange("sync", 0, 0) \in JobState
        /\ Exchange("sync", 0, 0).kind = "sync"
        /\ SetupThen("sync", 0) \in JobState
    BY <1>5, NoJobType, ExchangeType, SetupThenType DEF Sync, SmsLoop
  <2>4. /\ Begun(s) \in SetupState /\ Begun(s).done = s.done
        /\ Wanted(s) => Begun(s).tries < MaxTries
    BY <2>2, SetupFields, BegunType
  <2>5. \/ setup' \in {s, setup} /\ job' \in {Exchange("sync", 0, 0), job}
        \/ Wanted(s) /\ setup' = Begun(s) /\ job' = SetupThen("sync", 0)
    BY <1>5, <2>1 DEF Sync
  <2>6. /\ job' \in JobState /\ (job'.kind # "setup" \/ setup'.tries < MaxTries)
        /\ setup' \in SetupState /\ setup'.done = setup.done
    BY <1>0, <2>2, <2>3, <2>4, <2>5
  <2> QED
    BY <1>0, <1>1, <1>3, <1>5, <2>6 DEF Sync, smsModule, smsHistory
<1>6. CASE Answered \/ NotAnswered \/ Send \/ SegmentAnswered \/ Stored
  <2>1. UNCHANGED <<inbox, armed, announced, ready, setup, noticed, weather,
                    spent>>
    BY <1>6 DEF Answered, NotAnswered, Send, SegmentAnswered, Stored,
                smsModule, smsHistory
  <2>2. ahead' \in BOOLEAN
    BY <1>3, <1>6 DEF Answered, NotAnswered, Send, SegmentAnswered, Stored,
                Appends, Keeps, Spoils, smsHistory
  <2>3. job' \in JobState /\ job'.kind # "setup"
    <3>1. CASE Answered
      <4>1. PICK w \in SUBSET Message :
              job' = IF w = {} THEN NoJob
                     ELSE [NoJob EXCEPT !.kind = "store", !.todo = w]
        BY <3>1 DEF Answered, OnModule
      <4> QED
        BY <4>1, NoJobType, StoreType
    <3>2. CASE NotAnswered
      BY <3>2, NoJobType DEF NotAnswered
    <3>3. CASE Send
      <4>1. PICK n \in 1..Segments : job' = Exchange("send", n, 0)
        BY <3>3 DEF Send
      <4>2. n \in Nat
        BY SmsNumbers
      <4> QED
        BY <4>1, <4>2, ExchangeType
    <3>4. CASE SegmentAnswered
      <4>1. job.step \in Nat /\ job.kind = "send"
        BY <1>0, <3>4, JobFields DEF SegmentAnswered
      <4>2. PICK n : n = job.step - 1
        OBVIOUS
      <4>3. job' = NoJob \/ (job.step > 1 /\ job' = [job EXCEPT !.step = n])
        BY <3>4, <4>2 DEF SegmentAnswered
      <4>4. job.step > 1 => n \in Nat
        BY <4>1, <4>2
      <4> QED
        BY <1>0, <4>1, <4>3, <4>4, NoJobType, StepType
    <3>5. CASE Stored
      <4>1. PICK m \in job.todo :
              job' = IF job.todo = {m} THEN NoJob
                     ELSE [job EXCEPT !.todo = @ \ {m}]
        BY <3>5 DEF Stored
      <4>2. PICK w : w = job.todo \ {m}
        OBVIOUS
      <4>3. w \in SUBSET Message /\ job.kind = "store"
        BY <1>0, <3>5, <4>2, JobFields DEF Stored
      <4>4. job' = NoJob \/ job' = [job EXCEPT !.todo = w]
        BY <4>1, <4>2
      <4> QED
        BY <1>0, <4>3, <4>4, NoJobType, TodoType
    <3> QED
      BY <1>6, <3>1, <3>2, <3>3, <3>4, <3>5
  <2> QED
    BY <1>0, <1>1, <1>3, <2>1, <2>2, <2>3
<1>7. CASE Delete
  <2>1. PICK id \in Ids(list) : job' \in {job, Exchange("delete", 0, id)}
    BY <1>7 DEF Delete
  <2>2. id \in Nat
    BY <2>1, ListFields DEF Ids
  <2>3. job' \in JobState /\ job'.kind # "setup"
    <3>1. job = NoJob
      BY <1>7 DEF Delete, SmsLoop
    <3>2. /\ Exchange("delete", 0, id) \in JobState
          /\ Exchange("delete", 0, id).kind # "setup"
      BY <2>2, ExchangeType
    <3> QED
      BY <2>1, <3>1, <3>2, NoJobType
  <2>4. ahead' \in BOOLEAN
    BY <1>3, <1>7 DEF Delete, DeleteLocal, Appends, Keeps, Spoils
  <2>5. spent' \in SpentState
    BY <1>3, <1>7, SmsNumbers DEF Delete, SpentState
  <2> QED
    BY <1>0, <1>1, <1>7, <2>3, <2>4, <2>5 DEF Delete, smsModule
<1>8. CASE DeleteAnswered \/ SmsCrash \/ PowerCut
  <2>1. /\ job' = NoJob /\ setup' = FreshSetup /\ announced' = <<>>
        /\ ahead' = FALSE /\ ready' = FALSE
        /\ UNCHANGED <<armed, noticed, weather>>
    BY <1>8 DEF DeleteAnswered, SmsCrash, PowerCut, Dead, smsModule
  <2>2. inbox' \in InboxState
    <3>1. \A x : [inbox EXCEPT ![x] = NoText] \in InboxState
      BY DEF RestOK, InboxState
    <3>2. CASE DeleteAnswered
      <4>1. \E x : inbox' \in {inbox} \cup {[inbox EXCEPT ![x] = NoText]}
        BY <3>2 DEF DeleteAnswered
      <4> QED
        BY <3>1, <4>1 DEF RestOK
    <3>3. CASE SmsCrash \/ PowerCut
      BY <3>3 DEF SmsCrash, PowerCut, smsModule, RestOK
    <3> QED
      BY <1>8, <3>2, <3>3
  <2>3. spent' \in SpentState
    <3>1. CASE DeleteAnswered
      BY <1>3, <3>1 DEF DeleteAnswered
    <3>2. CASE SmsCrash \/ PowerCut
      <4>1. /\ spent.lives < MaxSmsLives
            /\ spent' = [spent EXCEPT !.lives = spent.lives + 1]
        BY <3>2 DEF SmsCrash, PowerCut
      <4> QED
        BY <1>3, <4>1, SmsNumbers DEF SpentState
    <3> QED
      BY <1>8, <3>1, <3>2
  <2>4. announced' \in Seq(Index)
    BY <2>1, EmptySeq
  <2>5. job' \in JobState /\ job'.kind = "none"
    BY <2>1, NoJobType
  <2>6. setup' \in SetupState /\ ~setup'.done
    BY <2>1, FreshSetupType
  <2> QED
    BY <2>1, <2>2, <2>3, <2>4, <2>5, <2>6 DEF RestOK, ArmedWhenDone
<1>9. CASE SmsStart \/ LoadLine \/ LoadEnds
  BY <1>9 DEF SmsStart, LoadLine, LoadEnds, RestOK, ArmedWhenDone, smsModule,
              smsHistory
<1> QED
  BY <1>4, <1>5, <1>6, <1>7, <1>8, <1>9

LEMMA RestNext ==
  ASSUME RestOK, list \in ListState, [SmsNext]_smsVars
  PROVE  RestOK'
<1>1. CASE UNCHANGED smsVars
  BY <1>1 DEF smsVars, RestOK, ArmedWhenDone
<1> QED
  BY <1>1, ModuleRest, SetupRest, WorkRest DEF SmsNext, Exchanges

-----------------------------------------------------------------------------
(* Least numbers, and sets of numbers *)

LEMMA Least ==
  ASSUME NEW T, T \subseteq Nat, T # {}
  PROVE  \E x \in T : \A y \in T : x <= y
<1>1. PICK S : S = {1..n : n \in T}
  OBVIOUS
<1>2. \A n \in Nat : IsFiniteSet(1..n) /\ 1..n \subseteq Nat
  BY FS_Interval
<1>3. S \subseteq FiniteSubsetsOf(Nat) /\ S # {}
  BY <1>1, <1>2 DEF FiniteSubsetsOf
<1>4. PICK s \in S : \A t \in S : <<t, s>> \notin StrictSubsetOrdering(Nat)
  BY <1>3, WFMin, FS_StrictSubsetOrderingWellFounded
<1>5. PICK x \in T : s = 1..x
  BY <1>1
<1>6. ASSUME NEW y \in T, ~(x <= y) PROVE FALSE
  <2>1. 1..y \subseteq 1..x /\ x \in 1..x /\ x \notin 1..y
    BY <1>6
  <2>2. 1..y \in S /\ 1..y \subseteq Nat /\ s \subseteq Nat
    BY <1>1, <1>5
  <2> QED
    BY <1>4, <1>5, <2>1, <2>2 DEF StrictSubsetOrdering
<1> QED
  BY <1>6

LEMMA UpTo ==
  ASSUME NEW m \in Nat, NEW P, 0 \in P,
         \A n \in 0..m : n \in P /\ n < m => n + 1 \in P
  PROVE  0..m \subseteq P
<1>1. SUFFICES ASSUME NEW z \in 0..m, z \notin P PROVE FALSE
  OBVIOUS
<1>2. PICK T : T = {n \in 0..m : n \notin P}
  OBVIOUS
<1>3. T \subseteq Nat /\ z \in T
  BY <1>1, <1>2
<1>4. PICK x \in T : \A y \in T : x <= y
  BY <1>3, Least
<1>5. x \in 0..m /\ x \notin P /\ x # 0
  BY <1>2, <1>4
<1>6. x - 1 \in 0..m /\ x - 1 < m /\ x - 1 + 1 = x /\ ~(x <= x - 1)
  BY <1>5
<1>7. x - 1 \in P
  BY <1>2, <1>4, <1>6
<1> QED
  BY <1>5, <1>6, <1>7

LEMMA ListsExist ==
  ASSUME NEW f, NEW m \in Nat
  PROVE  \E l : l = [n \in 0..m |-> IF n = 0 THEN EmptyList
                                    ELSE Loaded(l[n - 1], f[n])]
<1>1. PICK P : P = {k \in 0..m :
                     \E l : l = [n \in 0..k |-> IF n = 0 THEN EmptyList
                                    ELSE Loaded(l[n - 1], f[n])]}
  OBVIOUS
<1>2. 0 \in P
  <2>1. PICK l : l = [n \in 0..0 |-> EmptyList]
    OBVIOUS
  <2>2. l = [n \in 0..0 |-> IF n = 0 THEN EmptyList ELSE Loaded(l[n - 1], f[n])]
    BY <2>1
  <2> QED
    BY <1>1, <2>2
<1>3. ASSUME NEW k \in 0..m, k \in P, k < m PROVE k + 1 \in P
  <2>1. PICK l : l = [n \in 0..k |-> IF n = 0 THEN EmptyList
                                    ELSE Loaded(l[n - 1], f[n])]
    BY <1>1, <1>3
  <2>2. PICK h : h = [n \in 0..(k + 1) |-> IF n = k + 1 THEN Loaded(l[k], f[k + 1])
                                           ELSE l[n]]
    OBVIOUS
  <2>3. h = [n \in 0..(k + 1) |-> IF n = 0 THEN EmptyList
                                    ELSE Loaded(h[n - 1], f[n])]
    <3>1. ASSUME NEW n \in 0..(k + 1)
          PROVE  h[n] = IF n = 0 THEN EmptyList ELSE Loaded(h[n - 1], f[n])
      <4>1. CASE n = k + 1
        <5>1. h[n - 1] = l[k]
          BY <2>2, <4>1
        <5> QED
          BY <2>2, <4>1, <5>1
      <4>2. CASE n # k + 1
        <5>1. n \in 0..k /\ (n # 0 => n - 1 \in 0..k)
          BY <4>2
        <5>2. h[n] = l[n] /\ (n # 0 => h[n - 1] = l[n - 1])
          BY <2>2, <4>2, <5>1
        <5> QED
          BY <2>1, <5>1, <5>2
      <4> QED
        BY <4>1, <4>2
    <3> QED
      BY <2>2, <3>1
  <2> QED
    BY <1>1, <1>3, <2>3
<1>4. m \in P
  BY <1>2, <1>3, UpTo
<1> QED
  BY <1>1, <1>4

LEMMA ListsDef ==
  ASSUME NEW f, Len(f) \in Nat
  PROVE  /\ Lists(f)[0] = EmptyList
         /\ \A n \in 1..Len(f) : Lists(f)[n] = Loaded(Lists(f)[n - 1], f[n])
<1>1. PICK m \in Nat : m = Len(f)
  OBVIOUS
<1>2. Lists(f) = [n \in 0..m |-> IF n = 0 THEN EmptyList
                                 ELSE Loaded(Lists(f)[n - 1], f[n])]
  BY <1>1, ListsExist DEF Lists
<1> QED
  BY <1>1, <1>2

-----------------------------------------------------------------------------
(* What each first part of the file gives *)

\* Files that begin alike give the same lists as far as they do.
LEMMA ListsAlike ==
  ASSUME NEW f, NEW g, Len(f) \in Nat, Len(g) \in Nat,
         NEW k \in Nat, k <= Len(f), k <= Len(g), \A i \in 1..k : f[i] = g[i]
  PROVE  \A n \in 0..k : Lists(f)[n] = Lists(g)[n]
<1>1. PICK P : P = {n \in 0..k : Lists(f)[n] = Lists(g)[n]}
  OBVIOUS
<1>2. 0 \in P
  BY <1>1, ListsDef
<1>3. ASSUME NEW n \in 0..k, n \in P, n < k PROVE n + 1 \in P
  <2>1. n + 1 \in 1..Len(f) /\ n + 1 \in 1..Len(g) /\ n + 1 \in 1..k
    BY <1>3
  <2>2. PICK q : q = n + 1 /\ q - 1 = n
    BY <1>3
  <2>3. /\ Lists(f)[q] = Loaded(Lists(f)[q - 1], f[q])
        /\ Lists(g)[q] = Loaded(Lists(g)[q - 1], g[q])
    BY <2>1, <2>2, ListsDef
  <2> QED
    BY <1>1, <1>3, <2>1, <2>2, <2>3
<1>4. 0..k \subseteq P
  BY <1>2, <1>3, UpTo
<1> QED
  BY <1>1, <1>4

\* A line that is appended.
LEMMA ListsAppended ==
  ASSUME NEW f \in Seq(Lines), NEW line \in Lines
  PROVE  LET g == Append(f, line)
         IN /\ Len(g) = Len(f) + 1 /\ Len(f) \in Nat
            /\ \A n \in 0..Len(f) : Lists(g)[n] = Lists(f)[n]
            /\ ReadBack(g) = Loaded(ReadBack(f), line)
<1>1. PICK g, k : g = Append(f, line) /\ k = Len(f)
  OBVIOUS
<1>2. /\ k \in Nat /\ Len(g) = k + 1 /\ g[k + 1] = line
      /\ \A i \in 1..k : g[i] = f[i]
  BY <1>1, AppendProperties, LenProperties
<1>3. \A n \in 0..k : Lists(g)[n] = Lists(f)[n]
  <2>1. /\ Len(f) \in Nat /\ Len(g) \in Nat
        /\ k \in Nat /\ k <= Len(f) /\ k <= Len(g)
    BY <1>1, <1>2
  <2> QED
    BY <1>2, <2>1, ListsAlike, Zenon
<1>4. Lists(g)[k + 1] = Loaded(Lists(g)[k], line)
  <2>1. k + 1 \in 1..Len(g) /\ (k + 1) - 1 = k /\ Len(g) \in Nat
    BY <1>2
  <2>2. Lists(g)[k + 1] = Loaded(Lists(g)[(k + 1) - 1], g[k + 1])
    BY <2>1, ListsDef
  <2> QED
    BY <1>2, <2>1, <2>2
<1> QED
  BY <1>1, <1>2, <1>3, <1>4 DEF ReadBack

\* A file of which the first lines are left.
LEMMA ListsCut ==
  ASSUME NEW f \in Seq(Lines), NEW k \in 0..Len(f)
  PROVE  LET g == SubSeq(f, 1, k)
         IN /\ Len(g) = k /\ g \in Seq(Lines)
            /\ \A n \in 0..k : Lists(g)[n] = Lists(f)[n]
            /\ ReadBack(g) = Lists(f)[k]
<1>1. PICK g, m : g = SubSeq(f, 1, k) /\ m = Len(f)
  OBVIOUS
<1>2. m \in Nat /\ k \in Nat /\ k <= m
  BY <1>1, LenProperties
<1>3. \A i \in 1..k : f[i] \in Lines
  BY <1>1, <1>2, ElementOfSeq
<1>4. /\ SubSeq(f, 1, k) \in Seq(Lines)
      /\ Len(SubSeq(f, 1, k)) = IF 1 <= k THEN k - 1 + 1 ELSE 0
      /\ \A i \in 1..(k - 1 + 1) : SubSeq(f, 1, k)[i] = f[1 + i - 1]
  BY <1>2, <1>3, SubSeqProperties
<1>5. g \in Seq(Lines) /\ Len(g) = k /\ \A i \in 1..k : g[i] = f[i]
  BY <1>1, <1>2, <1>4
<1>6. \A n \in 0..k : Lists(g)[n] = Lists(f)[n]
  <2>1. /\ Len(f) \in Nat /\ Len(g) \in Nat
        /\ k \in Nat /\ k <= Len(f) /\ k <= Len(g)
    BY <1>1, <1>2, <1>5
  <2> QED
    BY <1>5, <2>1, ListsAlike, Zenon
<1> QED
  BY <1>1, <1>2, <1>5, <1>6 DEF ReadBack

\* One line of sms_store_load.
LEMMA LoadedOK ==
  ASSUME NEW l, ListOK(l), NEW line \in Lines
  PROVE  ListOK(Loaded(l, line)) /\ Content(line.entry)
<1>1. Content(line.entry) /\ line.del \in BOOLEAN
  BY DEF Lines, Entries, Content
<1> QED
  BY <1>1, PlacedOK DEF Loaded

\* Every list on the way is in order.
LEMMA FileReads ==
  ASSUME NEW f \in Seq(Lines)
  PROVE  \A n \in 0..Len(f) : ListOK(Lists(f)[n])
<1>1. PICK m : m = Len(f)
  OBVIOUS
<1>2. m \in Nat /\ DOMAIN f = 1..m
  BY <1>1, LenProperties
<1>3. PICK P : P = {n \in 0..m : ListOK(Lists(f)[n])}
  OBVIOUS
<1>4. 0 \in P
  BY <1>1, <1>2, <1>3, ListsDef, EmptyListOK
<1>5. ASSUME NEW n \in 0..m, n \in P, n < m PROVE n + 1 \in P
  <2>1. PICK q : q = n + 1 /\ q - 1 = n /\ q \in 1..m /\ q \in 0..m
    BY <1>2, <1>5
  <2>2. Lists(f)[q] = Loaded(Lists(f)[q - 1], f[q])
    BY <1>1, <1>2, <2>1, ListsDef
  <2>3. f[q] \in Lines
    BY <1>2, <2>1, ElementOfSeq
  <2>4. ListOK(Lists(f)[q - 1])
    BY <1>3, <1>5, <2>1
  <2> QED
    BY <1>3, <2>1, <2>2, <2>3, <2>4, LoadedOK
<1>6. 0..m \subseteq P
  BY <1>2, <1>4, <1>5, UpTo
<1> QED
  BY <1>1, <1>3, <1>6

\* Markers at the end of a file change nothing.
LEMMA MarkersRead ==
  ASSUME NEW f \in Seq(Lines), NEW k \in 0..Len(f),
         \A j \in (k + 1)..Len(f) : f[j].del
  PROVE  ReadBack(f) = Lists(f)[k]
<1>1. PICK m, r : m = Len(f) - k /\ r = Lists(f)[k]
  OBVIOUS
<1>2. Len(f) \in Nat /\ m \in Nat /\ k \in Nat /\ k + m = Len(f)
  BY <1>1, LenProperties
<1>3. PICK P : P = {n \in 0..m : Lists(f)[k + n] = r}
  OBVIOUS
<1>4. 0 \in P
  <2>1. k + 0 = k /\ 0 \in 0..m
    BY <1>2
  <2> QED
    BY <1>1, <1>3, <2>1
<1>5. ASSUME NEW n \in 0..m, n \in P, n < m PROVE n + 1 \in P
  <2>1. PICK q : q = k + (n + 1)
    OBVIOUS
  <2>2. /\ q \in 1..Len(f) /\ q - 1 = k + n /\ q \in (k + 1)..Len(f)
        /\ n + 1 \in 0..m
    BY <1>2, <1>5, <2>1
  <2>3. Lists(f)[q] = Loaded(Lists(f)[q - 1], f[q])
    BY <1>2, <2>2, ListsDef
  <2>4. Lists(f)[q] = r
    BY <1>3, <1>5, <2>2, <2>3 DEF Loaded
  <2> QED
    BY <1>3, <2>1, <2>2, <2>4
<1>6. m \in P
  <2>1. 0..m \subseteq P
    BY <1>2, <1>4, <1>5, UpTo
  <2> QED
    BY <1>2, <2>1
<1> QED
  BY <1>1, <1>2, <1>3, <1>6 DEF ReadBack

-----------------------------------------------------------------------------
(***************************************************************************)
(* The store.  While the file is read back the list is what its first lines *)
(* give; from then on it is what the whole file gives but for the slots of  *)
(* deleted messages.  Of two records that are held for the same message one *)
(* was deleted, or the second would not have been stored.                   *)
(***************************************************************************)
Alike(l, r, ids) ==
  /\ l.head = r.head /\ l.next = r.next
  /\ \A s \in Slots : \/ l.ring[s] = r.ring[s]
                      \/ l.ring[s] = Free /\ r.ring[s].id \in ids

Same(x, y) == x.index = y.index /\ x.text = y.text
TwinsKnown(r, ids) ==
  \A s, t \in Used(r) :
    Same(r.ring[s], r.ring[t]) =>
      s = t \/ {r.ring[s].id, r.ring[t].id} \cap ids # {}

StoreTyped ==
  /\ phase \in {"down", "loading", "up"} /\ list \in ListState
  /\ file \in Seq(Lines) /\ open \in BOOLEAN /\ pos \in Nat
  /\ gone \subseteq Nat /\ lost \in BOOLEAN

StoreOK ==
  /\ StoreTyped /\ RingOK(list)
  /\ phase = "up" /\ ~ahead => Alike(list, ReadBack(file), gone)
  /\ phase = "loading" => pos \in 0..Len(file) /\ list = Lists(file)[pos]
  /\ phase = "down" => pos = 0 /\ list = EmptyList
  /\ ahead => lost
  /\ ~lost => TwinsKnown(ReadBack(file), gone)

LEMMA FileFields ==
  ASSUME StoreTyped
  PROVE  /\ Len(file) \in Nat /\ Len(file) \in 0..Len(file)
         /\ ListOK(ReadBack(file)) /\ ReadBack(file) \in ListState
<1>1. Len(file) \in Nat /\ Len(file) \in 0..Len(file)
  BY LenProperties DEF StoreTyped
<1>2. ListOK(ReadBack(file))
  BY <1>1, FileReads DEF StoreTyped, ReadBack
<1> QED
  BY <1>1, <1>2 DEF ListOK

\* A line that is appended is in the file, or spoiled and counted as lost if
\* it is a record.
LEMMA AppendsLine ==
  ASSUME StoreTyped, NEW line \in Lines, Appends(line)
  PROVE  \/ /\ file' = Append(file, line) /\ file' \in Seq(Lines)
            /\ ReadBack(file') = Loaded(ReadBack(file), line)
            /\ UNCHANGED <<open, lost, ahead>>
         \/ /\ file' = file /\ open' \in BOOLEAN
            /\ lost' = (lost \/ ~line.del) /\ ahead' = (ahead \/ ~line.del)
<1>1. file \in Seq(Lines) /\ open \in BOOLEAN
  BY DEF StoreTyped
<1>2. CASE Keeps(line)
  <2>1. file' = Append(file, line) /\ UNCHANGED <<open, lost, ahead>>
    BY <1>2 DEF Keeps
  <2>2. file' \in Seq(Lines)
    BY <1>1, <2>1, AppendProperties
  <2>3. ReadBack(Append(file, line)) = Loaded(ReadBack(file), line)
    BY <1>1, ListsAppended
  <2> QED
    BY <2>1, <2>2, <2>3
<1>3. ASSUME NEW x \in BOOLEAN, Spoils(line, x)
      PROVE  /\ file' = file /\ open' \in BOOLEAN
             /\ lost' = (lost \/ ~line.del) /\ ahead' = (ahead \/ ~line.del)
  BY <1>3 DEF Spoils
<1> QED
  BY <1>1, <1>2, <1>3 DEF Appends

\* What Stored does to the store.
LEMMA StoredDoes ==
  ASSUME StoreOK, RestOK, Stored
  PROVE  /\ phase = "up" /\ UNCHANGED <<phase, pos, gone>>
         /\ \/ UNCHANGED <<list, file, open, lost, ahead>>
            \/ \E m \in job.todo, line \in Lines :
                 /\ Content(m) /\ Holding(list, m) = {}
                 /\ list' = Placed(list, m)
                 /\ ~line.del /\ Appends(line)
                 /\ \A l : Loaded(l, line) = Placed(l, m)
<1>1. phase = "up" /\ UNCHANGED <<phase, pos, gone>>
  BY DEF Stored
<1>2. PICK m \in job.todo :
        \/ UNCHANGED <<list, file, open, lost, ahead>>
        \/ /\ Holding(list, m) = {} /\ list' = Placed(list, m)
           /\ Appends(Record(Entry(list.next + 1, m)))
  BY DEF Stored, SmsDuplicate
<1>3. m \in Message /\ list.next + 1 \in Nat
  BY JobFields, ListFields DEF RestOK, StoreOK, StoreTyped
<1>4. PICK e, line : e = Entry(list.next + 1, m) /\ line = Record(e)
  OBVIOUS
<1>5. e \in Entries /\ e.index = m.index /\ e.text = m.text /\ Content(m)
  BY <1>3, <1>4 DEF Entry, Entries, Message, Content
<1>6. line \in Lines /\ ~line.del /\ line.entry = e
  BY <1>4, <1>5 DEF Record, Lines
<1>7. \A l : Loaded(l, line) = Placed(l, m)
  BY <1>5, <1>6 DEF Loaded, Placed, Entry
<1> QED
  BY <1>1, <1>2, <1>4, <1>5, <1>6, <1>7

\* A message that is read from the module is stored.
LEMMA StoredStore ==
  ASSUME StoreOK, RestOK, Stored
  PROVE  StoreOK'
<1>0. /\ StoreTyped /\ ListOK(list) /\ ListOK(ReadBack(file))
      /\ ReadBack(file) \in ListState
  BY FileFields DEF StoreOK, StoreTyped, ListOK
<1>1. phase = "up" /\ UNCHANGED <<phase, pos, gone>>
  BY StoredDoes
<1>2. CASE UNCHANGED <<list, file, open, lost, ahead>>
  BY <1>1, <1>2 DEF StoreOK, StoreTyped
<1>3. ASSUME NEW m, NEW line \in Lines, Content(m), Holding(list, m) = {},
             list' = Placed(list, m), ~line.del, Appends(line),
             \A l : Loaded(l, line) = Placed(l, m)
      PROVE  StoreOK'
  <2>1. ListOK(list') /\ list' \in ListState
    BY <1>0, <1>3, PlacedOK DEF ListOK
  <2>2. CASE /\ file' = file /\ open' \in BOOLEAN /\ lost' /\ ahead'
    BY <1>0, <1>1, <2>1, <2>2 DEF StoreOK, StoreTyped, ListOK
  <2>3. CASE /\ file' \in Seq(Lines)
             /\ ReadBack(file') = Loaded(ReadBack(file), line)
             /\ UNCHANGED <<open, lost, ahead>>
    <3>1. PICK r, q, h : r = ReadBack(file) /\ q = Placed(r, m) /\ h = r.head
      OBVIOUS
    <3>2. ReadBack(file') = q
      BY <1>3, <2>3, <3>1
    <3>3. /\ q.next = r.next + 1 /\ q.head = NextSlot(h) /\ h \in Slots
          /\ q.ring[h] = Entry(r.next + 1, m)
          /\ \A s \in Slots : s # h => q.ring[s] = r.ring[s]
          /\ Used(q) = Used(r) \cup {h} /\ Used(r) \subseteq Slots
      BY <1>0, <1>3, <3>1, PlacedOK, ListFields
    <3>4. ASSUME Alike(list, r, gone) PROVE Alike(list', q, gone)
      <4>1. list.head = h /\ list.next = r.next
        BY <3>1, <3>4 DEF Alike
      <4>2. /\ list'.next = r.next + 1 /\ list'.head = NextSlot(h)
            /\ list'.ring[h] = Entry(r.next + 1, m)
            /\ \A s \in Slots : s # h => list'.ring[s] = list.ring[s]
        BY <1>0, <1>3, <4>1, PlacedOK
      <4> QED
        BY <3>3, <3>4, <4>2 DEF Alike
    <3>5. ASSUME Alike(list, r, gone), TwinsKnown(r, gone)
          PROVE  TwinsKnown(q, gone)
      <4>1. ASSUME NEW t \in Used(r), t # h, Same(r.ring[t], m)
            PROVE  r.ring[t].id \in gone
        <5>1. t \in Slots /\ r.ring[t].id # 0
          BY <3>3, <4>1 DEF Used
        <5>2. ASSUME list.ring[t] = r.ring[t] PROVE FALSE
          <6>1. t \in Used(list)
            BY <1>0, <5>1, <5>2, ListFields DEF ListOK
          <6> QED
            BY <1>3, <4>1, <5>2, <6>1 DEF Holding, Same
        <5> QED
          BY <3>5, <5>1, <5>2 DEF Alike
      <4>2. Same(q.ring[h], m) /\ \A x : Same(q.ring[h], x) \/ Same(x, q.ring[h])
                                          => Same(x, m)
        BY <3>3 DEF Same, Entry
      <4>3. ASSUME NEW s \in Used(q), NEW t \in Used(q),
                   Same(q.ring[s], q.ring[t])
            PROVE  s = t \/ {q.ring[s].id, q.ring[t].id} \cap gone # {}
        <5>1. CASE s # h /\ t # h
          <6>1. /\ s \in Used(r) /\ t \in Used(r)
                /\ q.ring[s] = r.ring[s] /\ q.ring[t] = r.ring[t]
            BY <3>3, <5>1
          <6> QED
            BY <3>5, <4>3, <6>1 DEF TwinsKnown
        <5>2. CASE s = h /\ t # h
          <6>1. t \in Used(r) /\ q.ring[t] = r.ring[t] /\ Same(r.ring[t], m)
            BY <3>3, <4>2, <4>3, <5>2
          <6> QED
            BY <4>1, <5>2, <6>1
        <5>3. CASE s # h /\ t = h
          <6>1. s \in Used(r) /\ q.ring[s] = r.ring[s] /\ Same(r.ring[s], m)
            BY <3>3, <4>2, <4>3, <5>3
          <6> QED
            BY <4>1, <5>3, <6>1
        <5> QED
          BY <5>1, <5>2, <5>3
      <4> QED
        BY <4>3 DEF TwinsKnown
    <3>6. StoreTyped'
      BY <1>0, <1>1, <2>1, <2>3 DEF StoreTyped
    <3>7. ~ahead => Alike(list, r, gone)
      BY <1>1, <3>1 DEF StoreOK
    <3>8. ~lost => TwinsKnown(r, gone) /\ Alike(list, r, gone)
      BY <3>1, <3>7 DEF StoreOK
    <3>9. ahead => lost
      BY DEF StoreOK
    <3> QED
      BY <1>1, <2>1, <2>3, <3>2, <3>4, <3>5, <3>6, <3>7, <3>8, <3>9
         DEF StoreOK, ListOK
  <2> QED
    BY <1>0, <1>3, <2>2, <2>3, AppendsLine
<1> QED
  BY <1>2, <1>3, StoredDoes

\* What Delete does to the store: a marker changes nothing on record.
LEMMA DeleteDoes ==
  ASSUME StoreOK, ahead \in BOOLEAN, Delete
  PROVE  /\ phase = "up" /\ UNCHANGED <<phase, pos>> /\ StoreTyped'
         /\ \/ UNCHANGED <<list, file, lost, ahead, gone>>
            \/ \E id \in Ids(list), line \in Lines, n \in Int :
                 /\ n = list.count - 1
                 /\ list' = [Unused(list, id) EXCEPT !.count = n]
                 /\ gone' = gone \cup {id} /\ line.del /\ Appends(line)
                 /\ ReadBack(file') = ReadBack(file)
                 /\ UNCHANGED <<lost, ahead>>
<1>0. StoreTyped /\ list \in ListState /\ ListOK(list)
  BY DEF StoreOK, StoreTyped, ListOK
<1>1. phase = "up" /\ UNCHANGED <<phase, pos>>
  BY DEF Delete, SmsLoop
<1>2. PICK id \in Ids(list) :
        \/ UNCHANGED <<list, file, open, lost, ahead, gone>>
        \/ DeleteLocal(id) /\ gone' = gone \cup {id}
  BY DEF Delete
<1>3. CASE UNCHANGED <<list, file, open, lost, ahead, gone>>
  BY <1>0, <1>1, <1>3 DEF StoreTyped
<1>4. CASE DeleteLocal(id) /\ gone' = gone \cup {id}
  <2>1. PICK n, line : n = list.count - 1 /\ line = Marker(id)
    OBVIOUS
  <2>2. n \in Int /\ id \in Nat
    BY <1>0, <2>1, ListFields DEF Ids
  <2>3. line \in Lines /\ line.del
    BY <2>1, <2>2 DEF Marker, Lines, Entry, Entries, Free
  <2>4. /\ list' = [Unused(list, id) EXCEPT !.count = n]
        /\ Appends(line)
    BY <1>4, <2>1 DEF DeleteLocal
  <2>5. ListOK(list') /\ list' \in ListState
    BY <1>0, <2>1, <2>2, <2>4, UnusedOK DEF ListOK
  <2>6. /\ file' \in Seq(Lines) /\ open' \in BOOLEAN
        /\ ReadBack(file') = ReadBack(file)
        /\ lost' = lost /\ ahead' = ahead
    <3>1. Loaded(ReadBack(file), line) = ReadBack(file)
      BY <2>3 DEF Loaded
    <3>2. CASE /\ file' \in Seq(Lines)
               /\ ReadBack(file') = Loaded(ReadBack(file), line)
               /\ UNCHANGED <<open, lost, ahead>>
      BY <1>0, <3>1, <3>2 DEF StoreTyped
    <3>3. CASE /\ file' = file /\ open' \in BOOLEAN
               /\ lost' = (lost \/ ~line.del)
               /\ ahead' = (ahead \/ ~line.del)
      <4>1. ahead => lost
        BY DEF StoreOK
      <4>2. lost' = lost
        BY <1>0, <2>3, <3>3 DEF StoreTyped
      <4>3. ahead' = ahead
        BY <2>3, <3>3
      <4> QED
        BY <1>0, <3>3, <4>2, <4>3 DEF StoreTyped
    <3> QED
      BY <1>0, <2>3, <2>4, <3>2, <3>3, AppendsLine
  <2>7. StoreTyped'
    BY <1>0, <1>1, <1>4, <2>2, <2>5, <2>6 DEF StoreTyped
  <2> QED
    BY <1>1, <1>4, <2>1, <2>2, <2>3, <2>4, <2>6, <2>7
<1> QED
  BY <1>2, <1>3, <1>4

\* A message is deleted.
LEMMA DeleteStore ==
  ASSUME StoreOK, ahead \in BOOLEAN, Delete
  PROVE  StoreOK'
<1>0. /\ list \in ListState /\ ListOK(list) /\ gone \subseteq Nat
      /\ ReadBack(file) \in ListState
  BY FileFields DEF StoreOK, StoreTyped, ListOK
<1>1. phase = "up" /\ UNCHANGED <<phase, pos>> /\ StoreTyped'
  BY DeleteDoes
<1>2. CASE UNCHANGED <<list, file, lost, ahead, gone>>
  BY <1>1, <1>2 DEF StoreOK
<1>3. ASSUME NEW id \in Ids(list), NEW n \in Int, n = list.count - 1,
             list' = [Unused(list, id) EXCEPT !.count = n],
             gone' = gone \cup {id}, ReadBack(file') = ReadBack(file),
             UNCHANGED <<lost, ahead>>
      PROVE  StoreOK'
  <2>1. PICK r : r = ReadBack(file)
    OBVIOUS
  <2>2. /\ RingOK(list') /\ list'.next = list.next /\ list'.head = list.head
        /\ \A s \in Slots : list'.ring[s] =
             IF list.ring[s].id = id THEN Free ELSE list.ring[s]
    BY <1>0, <1>3, UnusedOK DEF ListOK
  <2>3. id # 0 /\ Free.id = 0
    BY DEF Ids, Used, Free
  <2>4. Alike(list, r, gone) => Alike(list', r, gone')
    BY <1>3, <2>2, <2>3 DEF Alike
  <2>5. TwinsKnown(r, gone) => TwinsKnown(r, gone')
    BY <1>3 DEF TwinsKnown
  <2>6. /\ ~ahead => Alike(list, r, gone) /\ (ahead => lost)
        /\ ~lost => TwinsKnown(r, gone)
    BY <1>1, <2>1 DEF StoreOK
  <2> QED
    BY <1>1, <1>3, <2>1, <2>2, <2>4, <2>5, <2>6 DEF StoreOK
<1> QED
  BY <1>2, <1>3, DeleteDoes

\* What the end of the daemon does to the store.
LEMMA DeadDoes ==
  ASSUME StoreTyped, DeleteAnswered \/ SmsCrash \/ PowerCut
  PROVE  /\ phase' = "down" /\ pos' = 0 /\ list' = EmptyList /\ ~ahead'
         /\ ahead' \in BOOLEAN /\ UNCHANGED gone /\ StoreTyped'
         /\ \/ UNCHANGED <<file, lost>>
            \/ \E k \in 0..Len(file) :
                 /\ file' = SubSeq(file, 1, k)
                 /\ lost' = (lost \/ \E j \in (k + 1)..Len(file) : ~file[j].del)
                 /\ ReadBack(file') = Lists(file)[k]
<1>1. /\ phase' = "down" /\ pos' = 0 /\ list' = EmptyList /\ ~ahead'
      /\ ahead' \in BOOLEAN /\ UNCHANGED gone
  BY DEF DeleteAnswered, SmsCrash, PowerCut, Dead
<1>2. EmptyList \in ListState /\ file \in Seq(Lines)
  BY EmptyListOK DEF ListOK, StoreTyped
<1>3. CASE DeleteAnswered \/ SmsCrash
  <2>1. UNCHANGED <<file, open, lost>>
    BY <1>3 DEF DeleteAnswered, SmsCrash
  <2> QED
    BY <1>1, <1>2, <2>1 DEF StoreTyped
<1>4. CASE PowerCut
  <2>1. PICK k \in 0..Len(file), x \in BOOLEAN :
          /\ file' = SubSeq(file, 1, k) /\ open' = x
          /\ lost' = (lost \/ \E j \in (k + 1)..Len(file) : ~file[j].del)
    BY <1>4 DEF PowerCut
  <2>2. /\ SubSeq(file, 1, k) \in Seq(Lines)
        /\ ReadBack(SubSeq(file, 1, k)) = Lists(file)[k]
    BY <1>2, ListsCut
  <2>3. lost' \in BOOLEAN
    BY <2>1
  <2>4. StoreTyped'
    BY <1>1, <1>2, <2>1, <2>2, <2>3 DEF StoreTyped
  <2> QED
    BY <1>1, <2>1, <2>2, <2>4
<1> QED
  BY <1>3, <1>4

\* The daemon ends.
LEMMA DeadStore ==
  ASSUME StoreOK, DeleteAnswered \/ SmsCrash \/ PowerCut
  PROVE  StoreOK'
<1>0. StoreTyped /\ file \in Seq(Lines) /\ lost \in BOOLEAN
  BY DEF StoreOK, StoreTyped
<1>1. /\ phase' = "down" /\ pos' = 0 /\ list' = EmptyList /\ ~ahead'
      /\ UNCHANGED gone /\ StoreTyped'
  BY <1>0, DeadDoes
<1>2. RingOK(list')
  BY <1>1, EmptyListOK DEF ListOK
<1>3. ~lost' => TwinsKnown(ReadBack(file'), gone')
  <2>1. CASE UNCHANGED <<file, lost>>
    BY <1>1, <2>1 DEF StoreOK
  <2>2. ASSUME NEW k \in 0..Len(file), ReadBack(file') = Lists(file)[k],
               lost' = (lost \/ \E j \in (k + 1)..Len(file) : ~file[j].del),
               ~lost'
        PROVE  TwinsKnown(ReadBack(file'), gone')
    <3>1. ~lost /\ \A j \in (k + 1)..Len(file) : file[j].del
      BY <1>0, <2>2
    <3>2. ReadBack(file') = ReadBack(file)
      BY <1>0, <2>2, <3>1, MarkersRead
    <3> QED
      BY <1>1, <3>1, <3>2 DEF StoreOK
  <2> QED
    BY <1>0, <2>1, <2>2, DeadDoes
<1> QED
  BY <1>1, <1>2, <1>3 DEF StoreOK

\* The daemon starts, and reads its file back.
LEMMA LoadStore ==
  ASSUME StoreOK, SmsStart \/ LoadLine \/ LoadEnds
  PROVE  StoreOK'
<1>0. StoreTyped /\ file \in Seq(Lines) /\ pos \in Nat /\ Len(file) \in Nat
  BY LenProperties DEF StoreOK, StoreTyped
<1>1. UNCHANGED <<file, open, gone, lost, ahead>>
  BY DEF SmsStart, LoadLine, LoadEnds, smsStore, smsHistory
<1>2. (~lost => TwinsKnown(ReadBack(file), gone)) /\ (ahead => lost)
  BY DEF StoreOK
<1>3. CASE SmsStart
  <2>1. /\ phase' = "loading" /\ pos = 0 /\ list = EmptyList
        /\ UNCHANGED <<list, pos>>
    BY <1>3 DEF SmsStart, StoreOK, smsStore
  <2>2. Lists(file)[0] = EmptyList /\ 0 \in 0..Len(file)
    BY <1>0, ListsDef
  <2> QED
    BY <1>0, <1>1, <1>2, <2>1, <2>2 DEF StoreOK, StoreTyped
<1>4. CASE LoadLine
  <2>1. /\ phase = "loading" /\ phase' = "loading" /\ pos < Len(file)
        /\ list' = Loaded(list, file[pos + 1]) /\ pos' = pos + 1
        /\ list = Lists(file)[pos]
    BY <1>4 DEF LoadLine, StoreOK
  <2>2. PICK q : q = pos + 1 /\ q - 1 = pos /\ q \in 1..Len(file)
                 /\ q \in 0..Len(file) /\ q \in Nat
    BY <1>0, <2>1
  <2>3. list' = Lists(file)[q]
    BY <1>0, <2>1, <2>2, ListsDef
  <2>4. ListOK(list')
    BY <1>0, <2>2, <2>3, FileReads
  <2> QED
    BY <1>0, <1>1, <1>2, <2>1, <2>2, <2>3, <2>4 DEF StoreOK, StoreTyped, ListOK
<1>5. CASE LoadEnds
  <2>1. /\ phase' = "up" /\ UNCHANGED <<list, pos>>
        /\ list = ReadBack(file)
    BY <1>5 DEF LoadEnds, StoreOK, smsStore, ReadBack
  <2>2. Alike(list, ReadBack(file), gone)
    BY <2>1 DEF Alike
  <2> QED
    BY <1>0, <1>1, <1>2, <2>1, <2>2 DEF StoreOK, StoreTyped
<1> QED
  BY <1>3, <1>4, <1>5

LEMMA StoreNext ==
  ASSUME StoreOK, RestOK, [SmsNext]_smsVars
  PROVE  StoreOK'
<1>1. ASSUME UNCHANGED <<phase, list, file, open, pos, gone, lost, ahead>>
      PROVE  StoreOK'
  BY <1>1 DEF StoreOK, StoreTyped
<1>2. CASE \/ Arrive \/ Forget \/ Reset \/ Clears \/ Identify \/ PortLost
           \/ SetupTimer \/ SetupTick \/ Urc \/ Sync \/ Send
           \/ UNCHANGED smsVars
  BY <1>1, <1>2 DEF Arrive, Forget, Reset, Clears, Identify, PortLost,
     SetupTimer, SetupTick, Urc, Sync, Send, smsVars, smsStore, smsHistory
<1>3. CASE \/ SetupStepped \/ SetupArmed \/ SetupRefused \/ SetupNotPdu
           \/ Answered \/ NotAnswered \/ SegmentAnswered
  BY <1>1, <1>3 DEF SetupStepped, SetupArmed, SetupRefused, SetupNotPdu,
     Answered, NotAnswered, SegmentAnswered, smsStore, smsHistory
<1>4. ahead \in BOOLEAN
  BY DEF RestOK
<1> QED
  BY <1>2, <1>3, <1>4, StoredStore, DeleteStore, DeadStore, LoadStore
     DEF SmsNext, Exchanges

-----------------------------------------------------------------------------

IInv == StoreOK /\ RestOK

LEMMA IInvInit == SmsInit => IInv
<1> SUFFICES ASSUME SmsInit PROVE IInv
  OBVIOUS
<1>1. RestOK
  <2>1. spent \in SpentState
    BY SmsAssumption DEF SmsInit, SmsConstants, SpentState
  <2>2. inbox \in InboxState
    BY DEF SmsInit, InboxState
  <2>3. announced \in Seq(Index)
    BY EmptySeq DEF SmsInit
  <2>4. setup \in SetupState /\ ~setup.done
    BY FreshSetupType DEF SmsInit
  <2>5. job \in JobState /\ job.kind # "setup"
    BY NoJobType DEF SmsInit
  <2> QED
    BY <2>1, <2>2, <2>3, <2>4, <2>5 DEF SmsInit, RestOK, ArmedWhenDone
<1>2. StoreOK
  <2>1. /\ phase = "loading" /\ pos = 0 /\ list = EmptyList /\ file = <<>>
        /\ open = FALSE /\ gone = {} /\ lost = FALSE /\ ahead = FALSE
    BY DEF SmsInit
  <2>2. /\ list \in ListState /\ RingOK(list) /\ Used(list) = {}
    BY <2>1, EmptyListOK DEF ListOK
  <2>3. file \in Seq(Lines) /\ Len(file) = 0
    BY <2>1, EmptySeq
  <2>4. Lists(file)[0] = EmptyList /\ ReadBack(file) = list
    BY <2>1, <2>3, ListsDef DEF ReadBack
  <2>5. TwinsKnown(ReadBack(file), gone)
    BY <2>2, <2>4 DEF TwinsKnown
  <2>6. StoreTyped
    BY <2>1, <2>2, <2>3 DEF StoreTyped
  <2>7. pos \in 0..Len(file) /\ list = Lists(file)[pos]
    BY <2>1, <2>3, <2>4
  <2> QED
    BY <2>1, <2>2, <2>5, <2>6, <2>7 DEF StoreOK
<1> QED
  BY <1>1, <1>2 DEF IInv

\* The inductive invariant of the message store (src/fm160d/src/sms.c).
THEOREM StoreInvariance == SmsSpec => []IInv
<1>1. IInv /\ [SmsNext]_smsVars => IInv'
  BY RestNext, StoreNext DEF IInv, StoreOK, StoreTyped
<1> QED
  BY <1>1, IInvInit, PTL DEF SmsSpec

\* The variables keep their types.
THEOREM SmsTypeCorrect == SmsSpec => []SmsTypeOK
<1>1. IInv => SmsTypeOK
  BY DEF IInv, StoreOK, StoreTyped, RestOK, SmsTypeOK, JobState, SetupState,
         InboxState, SpentState, ListState, Slots
<1> QED
  BY <1>1, StoreInvariance, PTL

\* Position tells age: the ids in the ring increase from its head on, none is
\* above the last one given and the count covers them, after any deletions,
\* evictions and restarts (sms.c:65-131, 280-375).
THEOREM RingStaysInOrder == SmsSpec => []RingInOrder
<1>1. IInv => RingInOrder
  BY RingInOrderOK DEF IInv, StoreOK, StoreTyped, ListOK
<1> QED
  BY <1>1, StoreInvariance, PTL

\* Memory and what a restart would read back differ in the messages the user
\* has deleted alone, as long as no message was held that could not be written
\* (sms.c:184-375).
THEOREM MemoryStaysFile == SmsSpec => []MemoryIsFile
<1>1. ASSUME IInv, phase = "up", ~ahead
      PROVE  /\ list.head = ReadBack(file).head
             /\ list.next = ReadBack(file).next
             /\ \A s \in DOMAIN list.ring :
                  \/ list.ring[s] = ReadBack(file).ring[s]
                  \/ list.ring[s] = Free /\ ReadBack(file).ring[s].id \in gone
  <2>1. Alike(list, ReadBack(file), gone) /\ DOMAIN list.ring = Slots
    BY <1>1, ListFields DEF IInv, StoreOK, StoreTyped
  <2> QED
    BY <2>1 DEF Alike
<1>2. IInv => MemoryIsFile
  BY <1>1 DEF MemoryIsFile
<1> QED
  BY <1>2, StoreInvariance, PTL

\* The setup counts as done only while the indication is in force, on a module
\* that was not restarted since it was identified (sms.c:685-863).
THEOREM ArmedWhenSetUp == SmsSpec => []ArmedWhenDone
<1>1. IInv => ArmedWhenDone
  BY DEF IInv, RestOK
<1> QED
  BY <1>1, StoreInvariance, PTL

\* A message that was read is in the list, and a second copy of it only where
\* a restart has brought back what the user deleted (sms.c:137-172, 439-499).
THEOREM ListedOnce == SmsSpec => ReadIsListedOnce
<1>1. ASSUME IInv, IInv', [SmsNext]_smsVars,
             phase = "up", job.kind = "store", phase' = "up", job' # job,
             ~lost, NEW m \in job.todo \ job'.todo
      PROVE  LET copies == {list'.ring[s].id : s \in Holding(list', m)}
             IN  /\ copies # {}
                 /\ \A x, y \in copies : x = y \/ {x, y} \cap gone # {}
  <2>0. /\ StoreOK /\ RestOK /\ StoreTyped /\ ListOK(list)
        /\ ReadBack(file) \in ListState /\ list \in ListState
        /\ Alike(list, ReadBack(file), gone)
        /\ TwinsKnown(ReadBack(file), gone)
    BY <1>1, FileFields DEF IInv, StoreOK, StoreTyped, ListOK
  <2>1. Stored
    BY <1>1 DEF SmsNext, Exchanges, Arrive, Forget, Reset, Clears, Identify,
       PortLost, SetupTimer, SetupTick, Urc, Sync, Send, Delete, SmsLoop, NoJob,
       SetupStepped, SetupArmed, SetupRefused, SetupNotPdu, Answered,
       NotAnswered, SegmentAnswered, DeleteAnswered, SmsCrash, PowerCut, Dead,
       SmsStart, LoadLine, LoadEnds, smsVars
  <2>2. PICK n \in job.todo :
          /\ \/ SmsDuplicate(list, n) # {} /\ list' = list
             \/ SmsDuplicate(list, n) = {} /\ list' = Placed(list, n)
          /\ job' = IF job.todo = {n} THEN NoJob
                    ELSE [job EXCEPT !.todo = @ \ {n}]
    BY <2>1 DEF Stored
  <2>3. m = n
    <3>1. CASE job.todo = {n}
      BY <1>1, <3>1
    <3>2. CASE job.todo # {n}
      <4>1. job' = [job EXCEPT !.todo = job.todo \ {n}]
        BY <2>2, <3>2
      <4>2. job'.todo = job.todo \ {n}
        BY <2>0, <4>1 DEF RestOK, JobState
      <4> QED
        BY <1>1, <4>2
    <3> QED
      BY <3>1, <3>2
  \* Two slots that hold it held it on record, too.
  <2>4. ASSUME NEW s \in Holding(list, m), NEW t \in Holding(list, m)
        PROVE  list.ring[s].id = list.ring[t].id
               \/ {list.ring[s].id, list.ring[t].id} \cap gone # {}
    <3>1. PICK r : r = ReadBack(file)
      OBVIOUS
    <3>2. /\ s \in Slots /\ t \in Slots /\ list.ring[s].id # 0
          /\ list.ring[t].id # 0 /\ Same(list.ring[s], list.ring[t])
      BY <2>0, <2>4, ListFields DEF Holding, Used, Same
    <3>3. list.ring[s] = r.ring[s] /\ list.ring[t] = r.ring[t]
      BY <2>0, <3>1, <3>2 DEF Alike, Free
    <3>4. s \in Used(r) /\ t \in Used(r)
      BY <2>0, <3>1, <3>2, <3>3, ListFields
    <3> QED
      BY <2>0, <3>1, <3>2, <3>3, <3>4 DEF TwinsKnown
  <2>5. CASE SmsDuplicate(list, n) # {} /\ list' = list
    BY <2>3, <2>4, <2>5 DEF SmsDuplicate
  <2>6. CASE SmsDuplicate(list, n) = {} /\ list' = Placed(list, n)
    <3>1. m \in Message /\ Content(m)
      BY <1>1, <2>0, JobFields DEF RestOK, Message, Content
    <3>2. PICK p, h : p = Placed(list, m) /\ h = list.head
      OBVIOUS
    <3>3. /\ p.ring[h] = Entry(list.next + 1, m) /\ h \in Slots
          /\ \A s \in Slots : s # h => p.ring[s] = list.ring[s]
          /\ Used(p) = Used(list) \cup {h} /\ Used(list) \subseteq Slots
      BY <2>0, <3>1, <3>2, PlacedOK, ListFields
    <3>4. Holding(p, m) = {h}
      <4>1. h \in Holding(p, m)
        BY <3>3 DEF Holding, Entry
      <4>2. ASSUME NEW s \in Holding(p, m), s # h PROVE FALSE
        <5>1. s \in Used(list) /\ p.ring[s] = list.ring[s]
          BY <3>3, <4>2 DEF Holding
        <5> QED
          BY <2>3, <2>6, <4>2, <5>1 DEF Holding, SmsDuplicate
      <4> QED
        BY <4>1, <4>2
    <3> QED
      BY <2>3, <2>6, <3>2, <3>4
  <2> QED
    BY <2>2, <2>5, <2>6
<1>2. IInv /\ IInv' /\ [SmsNext]_smsVars =>
        (phase = "up" /\ job.kind = "store" /\ phase' = "up" /\ job' # job
           /\ ~lost
         => \A m \in job.todo \ job'.todo :
              LET copies == {list'.ring[s].id : s \in Holding(list', m)}
              IN  /\ copies # {}
                  /\ \A x, y \in copies : x = y \/ {x, y} \cap gone # {})
  BY <1>1
<1> QED
  BY <1>2, StoreInvariance, PTL DEF SmsSpec, ReadIsListedOnce

-----------------------------------------------------------------------------
(***************************************************************************)
(* The refinement.  Each step of the store is one of the four steps of      *)
(* MessageList, or leaves what it sees as it was: an exchange, a line that  *)
(* is read back and the end of the reading do not show.                     *)
(***************************************************************************)
LEMMA KeptFields ==
  ASSUME NEW f, Len(f) \in Nat, NEW S,
         \A n \in 0..Len(f) : View(Lists(f)[n]) \in S
  PROVE  /\ KeptLists(f) \in Seq(S) /\ Len(KeptLists(f)) = Len(f) + 1
         /\ DOMAIN KeptLists(f) = 1..(Len(f) + 1)
         /\ \A n \in 1..(Len(f) + 1) : KeptLists(f)[n] = View(Lists(f)[n - 1])
         /\ Last(KeptLists(f)) = View(ReadBack(f))
<1>1. PICK m, k : m = Len(f) + 1 /\ k = KeptLists(f)
  OBVIOUS
<1>2. m \in Nat /\ m \in 1..m /\ m - 1 = Len(f)
  BY <1>1
<1>3. k = [n \in 1..m |-> View(Lists(f)[n - 1])]
  BY <1>1 DEF KeptLists
<1>4. \A n \in 1..m : k[n] = View(Lists(f)[n - 1]) /\ n - 1 \in 0..Len(f)
  BY <1>1, <1>3
<1>5. k \in [1..m -> S]
  BY <1>3, <1>4
<1>6. k \in Seq(S) /\ Len(k) = m /\ DOMAIN k = 1..m
  <2>1. k \in Seq(S)
    BY <1>2, <1>5, SeqDef
  <2>2. DOMAIN k = 1..m /\ DOMAIN k = 1..Len(k) /\ Len(k) \in Nat
    BY <1>5, <2>1, LenProperties
  <2> QED
    BY <1>2, <2>1, <2>2
<1>7. Last(k) = View(ReadBack(f))
  BY <1>2, <1>4, <1>6 DEF Last, ReadBack
<1> QED
  BY <1>1, <1>4, <1>6, <1>7

\* A line more is a list more; a line less is a list less.
LEMMA KeptAppended ==
  ASSUME NEW f \in Seq(Lines), NEW line \in Lines
  PROVE  LET g == Append(f, line)
         IN KeptLists(g) = Append(KeptLists(f), View(ReadBack(g)))
<1>1. PICK g, m : g = Append(f, line) /\ m = Len(f)
  OBVIOUS
<1>2. m \in Nat /\ Len(g) = m + 1 /\ \A n \in 0..m : Lists(g)[n] = Lists(f)[n]
  BY <1>1, ListsAppended
<1>3. PICK S : S = {View(Lists(g)[n]) : n \in 0..(m + 1)}
  OBVIOUS
<1>4. \A n \in 0..m : n \in 0..(m + 1) /\ View(Lists(f)[n]) \in S
  BY <1>2, <1>3
<1>5. PICK k, h : k = KeptLists(f) /\ h = KeptLists(g)
  OBVIOUS
<1>6. /\ k \in Seq(S) /\ Len(k) = m + 1
      /\ \A n \in 1..(m + 1) : k[n] = View(Lists(f)[n - 1])
  BY <1>1, <1>2, <1>4, <1>5, KeptFields
<1>7. /\ h \in Seq(S) /\ Len(h) = m + 2
      /\ \A n \in 1..(m + 2) : h[n] = View(Lists(g)[n - 1])
  <2>1. Len(g) \in Nat /\ \A n \in 0..Len(g) : View(Lists(g)[n]) \in S
    BY <1>2, <1>3
  <2>2. /\ h \in Seq(S) /\ Len(h) = Len(g) + 1
        /\ \A n \in 1..(Len(g) + 1) : h[n] = View(Lists(g)[n - 1])
    BY <1>5, <2>1, KeptFields
  <2> QED
    BY <1>2, <2>2
<1>8. PICK w : w = View(ReadBack(g))
  OBVIOUS
<1>9. h[m + 2] = w /\ w \in S
  <2>1. m + 2 \in 1..(m + 2) /\ (m + 2) - 1 = m + 1 /\ m + 1 \in 0..(m + 1)
    BY <1>2
  <2> QED
    BY <1>2, <1>3, <1>7, <1>8, <2>1 DEF ReadBack
<1>10. PICK a : a = Append(k, w)
  OBVIOUS
<1>11. /\ a \in Seq(S) /\ Len(a) = m + 2
       /\ \A n \in 1..(m + 1) : a[n] = k[n]
       /\ a[m + 2] = w
  <2>1. /\ a \in Seq(S) /\ Len(a) = Len(k) + 1
        /\ \A n \in 1..Len(k) : a[n] = k[n]
        /\ a[Len(k) + 1] = w
    BY <1>6, <1>9, <1>10, AppendProperties
  <2> QED
    BY <1>2, <1>6, <2>1
<1>12. \A n \in 1..(m + 2) : h[n] = a[n]
  <2>1. \A n \in 1..(m + 1) : n - 1 \in 0..m /\ n \in 1..(m + 2)
    BY <1>2
  <2>2. \A n \in 1..(m + 1) : h[n] = a[n]
    BY <1>2, <1>6, <1>7, <1>11, <2>1
  <2>3. \A n \in 1..(m + 2) : n \in 1..(m + 1) \/ n = m + 2
    BY <1>2
  <2> QED
    BY <1>9, <1>11, <2>2, <2>3
<1>13. h = a
  BY <1>7, <1>11, <1>12, SeqEqual
<1> QED
  BY <1>1, <1>5, <1>8, <1>10, <1>13

LEMMA KeptCut ==
  ASSUME NEW f \in Seq(Lines), NEW c \in 0..Len(f)
  PROVE  KeptLists(SubSeq(f, 1, c)) = SubSeq(KeptLists(f), 1, c + 1)
<1>1. PICK g, m : g = SubSeq(f, 1, c) /\ m = Len(f)
  OBVIOUS
<1>2. /\ m \in Nat /\ c \in Nat /\ c <= m /\ Len(g) = c
      /\ \A n \in 0..c : Lists(g)[n] = Lists(f)[n]
  BY <1>1, LenProperties, ListsCut
<1>3. PICK S : S = {View(Lists(f)[n]) : n \in 0..m}
  OBVIOUS
<1>4. \A n \in 0..c : n \in 0..m /\ View(Lists(g)[n]) \in S
  BY <1>2, <1>3
<1>5. PICK k, h : k = KeptLists(f) /\ h = KeptLists(g)
  OBVIOUS
<1>6. /\ k \in Seq(S) /\ Len(k) = m + 1
      /\ \A n \in 1..(m + 1) : k[n] = View(Lists(f)[n - 1])
  <2>1. Len(f) \in Nat /\ \A n \in 0..Len(f) : View(Lists(f)[n]) \in S
    BY <1>1, <1>2, <1>3
  <2> QED
    BY <1>1, <1>5, <2>1, KeptFields
<1>7. /\ h \in Seq(S) /\ Len(h) = c + 1
      /\ \A n \in 1..(c + 1) : h[n] = View(Lists(g)[n - 1])
  <2>1. Len(g) \in Nat /\ \A n \in 0..Len(g) : View(Lists(g)[n]) \in S
    BY <1>2, <1>4
  <2> QED
    BY <1>2, <1>5, <2>1, KeptFields
<1>8. PICK a, d : a = SubSeq(k, 1, d) /\ d = c + 1
  OBVIOUS
<1>9. d \in Int /\ 1 <= d /\ d - 1 + 1 = d /\ 1..d \subseteq 1..(m + 1)
  BY <1>2, <1>8
<1>10. \A n \in 1..d : k[n] \in S
  BY <1>6, <1>9, ElementOfSeq
<1>11. /\ a \in Seq(S)
       /\ Len(a) = IF 1 <= d THEN d - 1 + 1 ELSE 0
       /\ \A n \in 1..(d - 1 + 1) : a[n] = k[1 + n - 1]
  BY <1>8, <1>9, <1>10, SubSeqProperties
<1>12. Len(a) = c + 1 /\ \A n \in 1..(c + 1) : a[n] = k[n]
  BY <1>2, <1>8, <1>9, <1>11
<1>13. \A n \in 1..(c + 1) : h[n] = a[n]
  <2>1. \A n \in 1..(c + 1) : n - 1 \in 0..c /\ n \in 1..(m + 1)
    BY <1>2
  <2> QED
    BY <1>2, <1>6, <1>7, <1>12, <2>1
<1>14. h = a
  BY <1>7, <1>11, <1>12, <1>13, SeqEqual
<1> QED
  BY <1>1, <1>5, <1>8, <1>14

\* What MessageList sees of a state.
LEMMA Sees ==
  ASSUME StoreTyped
  PROVE  /\ Last(KeptLists(file)) = View(ReadBack(file))
         /\ DOMAIN KeptLists(file) = 1..(Len(file) + 1) /\ Len(file) \in Nat
         /\ \A n \in 1..(Len(file) + 1) :
              /\ KeptLists(file)[n] = View(Lists(file)[n - 1])
              /\ n - 1 \in 0..Len(file)
<1>1. Len(file) \in Nat
  BY FileFields
<1>2. PICK S : S = {View(Lists(file)[n]) : n \in 0..Len(file)}
  OBVIOUS
<1>3. \A n \in 0..Len(file) : View(Lists(file)[n]) \in S
  BY <1>2
<1>4. /\ DOMAIN KeptLists(file) = 1..(Len(file) + 1)
      /\ \A n \in 1..(Len(file) + 1) :
           KeptLists(file)[n] = View(Lists(file)[n - 1])
      /\ Last(KeptLists(file)) = View(ReadBack(file))
  BY <1>1, <1>3, KeptFields, Zenon
<1> QED
  BY <1>1, <1>4

LEMMA LastIsLast == \A s : Listing!Last(s) = Last(s)
BY DEF Last, Listing!Last

LEMMA ListingInit == SmsInit => Listing!Init
<1> SUFFICES ASSUME SmsInit PROVE Listing!Init
  OBVIOUS
<1>1. phase = "loading" /\ file = <<>> /\ Len(file) = 0
  BY DEF SmsInit
<1>2. Lists(file)[0] = EmptyList /\ ReadBack(file) = EmptyList
  BY <1>1, ListsDef DEF ReadBack
<1>3. View(EmptyList) = Listing!Empty
  BY EmptyListOK DEF View, Listing!Empty
<1>4. ViewNow = Listing!Empty
  BY <1>1, <1>2, <1>3 DEF ViewNow
<1>5. KeptLists(file) = [n \in 1..1 |-> Listing!Empty]
  BY <1>1, <1>2, <1>3 DEF KeptLists
<1>6. \A x : [n \in 1..1 |-> x] = <<x>>
  OBVIOUS
<1> QED
  BY <1>4, <1>5, <1>6 DEF Listing!Init

\* A line put on record, or spoiled.
LEMMA ListingRecord ==
  ASSUME StoreTyped, NEW line \in Lines, Appends(line)
  PROVE  \/ Listing!Spoiled
         \/ Listing!OnRecord(View(Loaded(ReadBack(file), line)))
<1>1. CASE file' = file
  BY <1>1 DEF Listing!Spoiled
<1>2. CASE file' = Append(file, line)
  <2>1. KeptLists(file') = Append(KeptLists(file), View(ReadBack(file')))
    BY <1>2, KeptAppended DEF StoreTyped
  <2>2. ReadBack(file') = Loaded(ReadBack(file), line)
    BY <1>2, ListsAppended DEF StoreTyped
  <2> QED
    BY <2>1, <2>2 DEF Listing!OnRecord
<1> QED
  BY <1>1, <1>2, AppendsLine

\* A list with one message more, as MessageList sees it.
LEMMA PushedView ==
  ASSUME NEW l, ListOK(l), NEW m, Content(m)
  PROVE  View(Placed(l, m)) = Listing!Pushed(View(l), m)
<1>1. PICK v : v = View(l)
  OBVIOUS
<1>2. v.shown = Shown(l) /\ v.given = l.next
  BY <1>1 DEF View
<1>3. /\ Placed(l, m).next = l.next + 1
      /\ Shown(Placed(l, m)) = {x \in Shown(l) : x.id + Keep > l.next + 1}
                                 \cup {Entry(l.next + 1, m)}
  BY PlacedOK
<1> QED
  BY <1>1, <1>2, <1>3 DEF View, Listing!Pushed, Entry

LEMMA ListingStored ==
  ASSUME IInv, Stored
  PROVE  Listing!Receive \/ UNCHANGED <<ViewNow, KeptLists(file)>>
<1>0. /\ StoreOK /\ StoreTyped /\ RestOK /\ ListOK(list)
      /\ ListOK(ReadBack(file))
  BY FileFields DEF IInv, StoreOK, StoreTyped, ListOK
<1>1. phase = "up" /\ phase' = "up"
  BY DEF Stored
<1>2. ViewNow = View(list) /\ ViewNow' = View(list')
  BY <1>1 DEF ViewNow
<1>3. CASE UNCHANGED <<list, file, open, lost, ahead>>
  BY <1>1, <1>2, <1>3
<1>4. ASSUME NEW m, NEW line \in Lines, Content(m), Holding(list, m) = {},
             list' = Placed(list, m), Appends(line),
             \A l : Loaded(l, line) = Placed(l, m)
      PROVE  Listing!Receive
  <2>1. PICK e : e = Entry(list.next + 1, m)
    OBVIOUS
  <2>2. e.index = m.index /\ e.text = m.text
    BY <2>1 DEF Entry
  <2>3. \A v : Listing!Pushed(v, e) = Listing!Pushed(v, m)
    BY <2>2 DEF Listing!Pushed
  <2>4. ViewNow' = Listing!Pushed(ViewNow, e)
    BY <1>0, <1>2, <1>4, <2>3, PushedView
  <2>5. e \in ViewNow'.shown
    <3>1. e \in Shown(list')
      BY <1>0, <1>4, <2>1, PlacedOK
    <3> QED
      BY <1>2, <3>1 DEF View
  <2>6. ~Listing!Listed(ViewNow, e)
    <3>1. ViewNow.shown = Shown(list)
      BY <1>2 DEF View
    <3>2. \A x \in Shown(list) : ~(x.index = e.index /\ x.text = e.text)
      BY <1>4, <2>2 DEF Holding, Shown
    <3> QED
      BY <3>1, <3>2 DEF Listing!Listed
  <2>7. View(Loaded(ReadBack(file), line)) =
          Listing!Pushed(Last(KeptLists(file)), e)
    BY <1>0, <1>4, <2>3, PushedView, Sees
  <2>8. \/ Listing!Spoiled
        \/ Listing!OnRecord(Listing!Pushed(Last(KeptLists(file)), e))
    BY <1>0, <1>4, <2>7, ListingRecord
  <2> QED
    BY <2>4, <2>5, <2>6, <2>8, LastIsLast DEF Listing!Receive
<1> QED
  BY <1>0, <1>3, <1>4, StoredDoes

LEMMA ListingDeleted ==
  ASSUME IInv, Delete
  PROVE  Listing!Delete \/ UNCHANGED <<ViewNow, KeptLists(file)>>
<1>0. /\ StoreOK /\ StoreTyped /\ ListOK(list) /\ ahead \in BOOLEAN
      /\ list \in ListState
  BY DEF IInv, StoreOK, StoreTyped, RestOK, ListOK
<1>1. phase = "up" /\ phase' = "up"
  BY DEF Delete, SmsLoop
<1>2. ViewNow = View(list) /\ ViewNow' = View(list')
  BY <1>1 DEF ViewNow
<1>3. CASE UNCHANGED <<list, file, lost, ahead, gone>>
  BY <1>1, <1>2, <1>3
<1>4. ASSUME NEW id \in Ids(list), NEW line \in Lines, NEW n \in Int,
             n = list.count - 1,
             list' = [Unused(list, id) EXCEPT !.count = n],
             line.del, Appends(line)
      PROVE  Listing!Delete
  <2>1. list'.next = list.next /\ Shown(list') = {x \in Shown(list) : x.id # id}
    BY <1>0, <1>4, UnusedOK
  <2>2. ViewNow' = Listing!Without(ViewNow, id)
    BY <1>2, <2>1 DEF View, Listing!Without
  <2>3. PICK x \in ViewNow.shown : x.id = id
    BY <1>2 DEF View, Shown, Ids
  <2>4. View(Loaded(ReadBack(file), line)) = Last(KeptLists(file))
    BY <1>0, <1>4, Sees DEF Loaded
  <2>5. Listing!Spoiled \/ Listing!OnRecord(Last(KeptLists(file)))
    BY <1>0, <1>4, <2>4, ListingRecord
  <2> QED
    BY <2>2, <2>3, <2>5, LastIsLast DEF Listing!Delete
<1> QED
  BY <1>0, <1>3, <1>4, DeleteDoes

LEMMA ListingDead ==
  ASSUME IInv, DeleteAnswered \/ SmsCrash \/ PowerCut
  PROVE  Listing!Restart \/ Listing!PowerFails
<1>0. StoreTyped
  BY DEF IInv, StoreOK
<1>1. ViewNow' = View(ReadBack(file'))
  BY <1>0, DeadDoes DEF ViewNow
<1>2. CASE UNCHANGED file
  <2>1. ViewNow' = Last(KeptLists(file)) /\ UNCHANGED KeptLists(file)
    BY <1>0, <1>1, <1>2, Sees
  <2> QED
    BY <2>1, LastIsLast DEF Listing!Restart
<1>3. ASSUME NEW k \in 0..Len(file), file' = SubSeq(file, 1, k),
             ReadBack(file') = Lists(file)[k]
      PROVE  Listing!PowerFails
  <2>1. KeptLists(file') = SubSeq(KeptLists(file), 1, k + 1)
    BY <1>0, <1>3, KeptCut DEF StoreTyped
  <2>2. PICK n : n = k + 1 /\ n - 1 = k
    OBVIOUS
  <2>3. n \in DOMAIN KeptLists(file) /\ KeptLists(file)[n] = View(Lists(file)[k])
    <3>1. Len(file) \in Nat /\ n \in 1..(Len(file) + 1)
      BY <1>0, <2>2, FileFields
    <3> QED
      BY <1>0, <2>2, <3>1, Sees
  <2> QED
    BY <1>1, <1>3, <2>1, <2>2, <2>3 DEF Listing!PowerFails
<1> QED
  BY <1>0, <1>2, <1>3, DeadDoes

LEMMA ListingStep ==
  ASSUME IInv, [SmsNext]_smsVars
  PROVE  [Listing!Next]_(Listing!vars)
<1>1. ASSUME UNCHANGED <<phase, list, file>>
      PROVE  UNCHANGED <<ViewNow, KeptLists(file)>>
  BY <1>1 DEF ViewNow
<1>2. CASE \/ Arrive \/ Forget \/ Reset \/ Clears \/ Identify \/ PortLost
           \/ SetupTimer \/ SetupTick \/ Urc \/ Sync \/ Send
           \/ UNCHANGED smsVars
  <2>1. UNCHANGED <<phase, list, file>>
    BY <1>2 DEF Arrive, Forget, Reset, Clears, Identify, PortLost,
       SetupTimer, SetupTick, Urc, Sync, Send, smsVars, smsStore
  <2> QED
    BY <1>1, <2>1 DEF Listing!vars
<1>3. CASE \/ SetupStepped \/ SetupArmed \/ SetupRefused \/ SetupNotPdu
           \/ Answered \/ NotAnswered \/ SegmentAnswered
  <2>1. UNCHANGED <<phase, list, file>>
    BY <1>3 DEF SetupStepped, SetupArmed, SetupRefused, SetupNotPdu,
       Answered, NotAnswered, SegmentAnswered, smsStore
  <2> QED
    BY <1>1, <2>1 DEF Listing!vars
<1>4. CASE SmsStart \/ LoadLine
  <2>1. phase # "up" /\ phase' # "up" /\ UNCHANGED file
    BY <1>4 DEF SmsStart, LoadLine, smsStore
  <2> QED
    BY <2>1 DEF Listing!vars, ViewNow
<1>5. CASE LoadEnds
  <2>1. phase # "up" /\ phase' = "up" /\ UNCHANGED <<file, list>>
        /\ list = ReadBack(file)
    BY <1>5 DEF LoadEnds, smsStore, IInv, StoreOK, ReadBack
  <2> QED
    BY <2>1 DEF Listing!vars, ViewNow
<1>6. CASE Stored
  BY <1>6, ListingStored DEF Listing!Next, Listing!vars
<1>7. CASE Delete
  BY <1>7, ListingDeleted DEF Listing!Next, Listing!vars
<1>8. CASE DeleteAnswered \/ SmsCrash \/ PowerCut
  BY <1>8, ListingDead DEF Listing!Next
<1> QED
  BY <1>2, <1>3, <1>4, <1>5, <1>6, <1>7, <1>8 DEF SmsNext, Exchanges

\* The message store implements MessageList (sms.c:58-395): what is shown and
\* what a restart would show change as promised, whatever lines are lost.
THEOREM ListingKept == SmsSpec => ListingSpec
<1>1. IInv /\ [SmsNext]_smsVars => [Listing!Next]_(Listing!vars)
  BY ListingStep
<1> QED
  BY <1>1, ListingInit, StoreInvariance, PTL
     DEF SmsSpec, ListingSpec, Listing!Spec

-----------------------------------------------------------------------------
(***************************************************************************)
(* The setup.  Once nothing goes wrong it can no longer be given up: the    *)
(* part of SetupComesUp that is not fairness.                               *)
(***************************************************************************)
HasChance == setup.done \/ setup.tries < MaxTries \/ announced # <<>>

\* The exchange that is on its way is the setup's next.
Nearer ==
  \/ job' = job
  \/ job.step < ArmStep /\ job' = [job EXCEPT !.step = job.step + 1]
  \/ setup'.done

HeadsForDone ==
  weather = {} =>
    /\ weather' = {}
    /\ HasChance => HasChance'
    /\ job.kind = "setup" => Nearer

LEMMA KickedChance ==
  ASSUME setup \in SetupState
  PROVE  LET s == Kicked(setup)
         IN  /\ s \in SetupState /\ s.done = setup.done
             /\ s.done \/ s.tries < MaxTries
             /\ Begun(s) \in SetupState
             /\ Begun(s).done = s.done /\ Begun(s).tries = s.tries
<1>1. 0 \in 0..MaxTries /\ 0 < MaxTries
  BY SmsNumbers
<1>2. PICK s : s = Kicked(setup)
  OBVIOUS
<1>3. /\ s \in SetupState /\ s.done = setup.done
      /\ s.done \/ s.tries < MaxTries
  <2>1. PICK k : k = [setup EXCEPT !.tries = 0, !.due = TRUE]
    OBVIOUS
  <2>2. k \in SetupState /\ k.done = setup.done /\ k.tries = 0
    BY <1>1, <2>1 DEF SetupState
  <2>3. setup.tries \in 0..MaxTries /\ setup.done \in BOOLEAN
    BY DEF SetupState
  <2>4. s = k \/ (s = setup /\ (setup.done \/ ~(setup.tries >= MaxTries)))
    BY <1>2, <2>1 DEF Kicked
  <2>5. s = setup => setup.done \/ setup.tries < MaxTries \/ s = k
    BY <2>3, <2>4, SmsNumbers
  <2> QED
    BY <1>1, <2>2, <2>4, <2>5
<1>4. /\ Begun(s) \in SetupState
      /\ Begun(s).done = s.done /\ Begun(s).tries = s.tries
  BY <1>3 DEF Begun, SetupState
<1> QED
  BY <1>2, <1>3, <1>4

LEMMA HeadsStep ==
  ASSUME RestOK, [SmsNext]_smsVars
  PROVE  HeadsForDone
<1> SUFFICES ASSUME weather = {}
             PROVE  /\ weather' = {}
                    /\ HasChance => HasChance'
                    /\ job.kind = "setup" => Nearer
  BY DEF HeadsForDone
<1>0. setup \in SetupState /\ NoJob.kind = "none" /\ job \in JobState
  BY NoJobType DEF RestOK
<1>1. CASE Arrive \/ Forget \/ Reset \/ Clears \/ PortLost \/ SmsCrash \/ PowerCut
           \/ SetupRefused \/ SetupNotPdu \/ NotAnswered
  <2>1. Arrive
    BY <1>1 DEF Forget, Reset, Clears, PortLost, SmsCrash, PowerCut,
       SetupRefused, SetupNotPdu, NotAnswered
  <2>2. UNCHANGED <<weather, setup, job>> /\ (announced # <<>> => announced' # <<>>)
    BY <2>1 DEF Arrive
  <2> QED
    BY <2>2 DEF HasChance, Nearer
<1>2. CASE UNCHANGED smsVars \/ SmsStart \/ LoadLine \/ LoadEnds
  <2>1. UNCHANGED <<weather, setup, job, announced>>
    BY <1>2 DEF smsVars, SmsStart, LoadLine, LoadEnds, smsHistory
  <2> QED
    BY <2>1 DEF HasChance, Nearer
<1>3. CASE Identify
  <2>1. setup'.tries = 0 /\ UNCHANGED <<weather, job>> /\ 0 < MaxTries
    BY <1>0, <1>3, SmsNumbers DEF Identify, SetupReset, SetupState
  <2> QED
    BY <2>1 DEF HasChance, Nearer
<1>4. CASE SetupTimer \/ SetupTick
  <2>1. /\ UNCHANGED <<weather, announced>>
        /\ setup'.done = setup.done /\ setup'.tries = setup.tries
        /\ job.kind = "setup" => job' = job
    BY <1>0, <1>4 DEF SetupTimer, SetupTick, SmsLoop, Begun, SetupState, smsHistory
  <2> QED
    BY <2>1 DEF HasChance, Nearer
<1>5. CASE Urc \/ Sync
  <2>1. PICK s : s = Kicked(setup)
    OBVIOUS
  <2>2. UNCHANGED weather /\ job = NoJob
    BY <1>5 DEF Urc, Sync, SmsLoop, smsHistory
  <2>3. CASE setup' = s \/ setup' = Begun(s)
    <3>1. setup'.done \/ setup'.tries < MaxTries
      BY <1>0, <2>1, <2>3, KickedChance
    <3> QED
      BY <1>0, <2>2, <3>1 DEF HasChance
  <2>4. CASE UNCHANGED setup /\ setup.done
    BY <1>0, <2>2, <2>4 DEF HasChance
  <2> QED
    BY <1>5, <2>1, <2>3, <2>4 DEF Urc, Sync
<1>6. CASE Delete \/ Send
  <2>1. job = NoJob /\ UNCHANGED <<weather, setup, announced>>
    BY <1>6 DEF Delete, Send, SmsLoop, smsHistory
  <2> QED
    BY <1>0, <2>1 DEF HasChance
<1>7. CASE SetupStepped
  BY <1>7 DEF SetupStepped, HasChance, Nearer, smsHistory
<1>8. CASE SetupArmed
  <2>1. setup'.done /\ UNCHANGED weather
    BY <1>0, <1>8 DEF SetupArmed, SetupState, smsHistory
  <2> QED
    BY <2>1 DEF HasChance, Nearer
<1>9. CASE Answered \/ Stored \/ DeleteAnswered \/ SegmentAnswered
  <2>1. CASE ~DeleteAnswered
    <3>1. job.kind # "setup" /\ UNCHANGED <<weather, setup, announced>>
      BY <1>9, <2>1 DEF Answered, Stored, SegmentAnswered, smsHistory
    <3> QED
      BY <3>1 DEF HasChance
  <2>2. CASE DeleteAnswered
    <3>1. job.kind # "setup" /\ UNCHANGED weather /\ setup' = FreshSetup
      BY <2>2 DEF DeleteAnswered, Dead
    <3>2. setup'.tries < MaxTries
      BY <3>1, SmsNumbers DEF FreshSetup
    <3> QED
      BY <3>1, <3>2 DEF HasChance
  <2> QED
    BY <2>1, <2>2
<1> QED
  BY <1>1, <1>2, <1>3, <1>4, <1>5, <1>6, <1>7, <1>8, <1>9
     DEF SmsNext, Exchanges

\* Once nothing goes wrong the chance of a setup is never used up, and a setup
\* that is under way goes on, one answer at a time, until the last of them arms
\* the module (sms.c:710-864).
THEOREM SetupHeadsForDone == SmsSpec => [][HeadsForDone]_smsVars
<1>1. IInv /\ [SmsNext]_smsVars => HeadsForDone
  BY HeadsStep DEF IInv
<1> QED
  BY <1>1, StoreInvariance, PTL DEF SmsSpec
=============================================================================
