--------------------------- MODULE LanPrefixProofs ---------------------------
(***************************************************************************)
(* The prefix on the LAN for any prefixes, any setting the user may have    *)
(* had and any number of runs at one time: the types, no prefix that is not *)
(* on record, the user's setting comes back.                                *)
(***************************************************************************)
EXTENDS LanPrefix, SequenceTheorems, TLAPS

-----------------------------------------------------------------------------
(* The invariant *)

\* A run that does not work has nothing to do; while nothing was shared one run
\* is past the lock.
IdleOK ==
  \A r \in RunId : runs[r].at \notin {"work", "write"} => runs[r].todo = <<>>
\* A run writes its copy as the command that keeps the setting.
WritingOK ==
  \A r \in RunId : runs[r].at = "write" =>
    runs[r].todo # <<>> /\ Head(runs[r].todo) = <<"save", NoPrefix>>
AloneOK ==
  ~mishaps.shared => \A r, q \in RunId : Past(r) /\ Past(q) => r = q

\* The i-th command of a list.
Kind(s, i) == s[i][1]
Arg(s, i) == s[i][2]
Is(s, i, what, p) == s[i] = <<what, p>>

\* How the commands a run has still to do follow each other.
InOrder(s) ==
  \A i, j \in DOMAIN s : i < j =>
    /\ Kind(s, i) \in {"add addr", "add route"} =>
         /\ Kind(s, j) \notin {Kind(s, i), "forget"}
         /\ Kind(s, j) = "note" => Arg(s, j) = Arg(s, i)
    /\ Kind(s, i) = "note" => Kind(s, j) \notin {"note", "forget", "add addr", "add route"}
    /\ Kind(s, i) \in {"set", "clear"} => Kind(s, j) \notin {"set", "clear", "note"}

Earlier(s, i, what, p) == \E j \in DOMAIN s : j < i /\ Is(s, j, what, p)
Later(s, i, what, p) == \E j \in DOMAIN s : i < j /\ Is(s, j, what, p)
After(s, i, what) == \E j \in DOMAIN s : j < i /\ Kind(s, j) = what

\* The bridge carries the prefix on record and those that are still to go on
\* record; what is to be added is not there any more by then, and nothing but
\* it is there when it is noted.
AddAddrOK(s, i, p, on) ==
  /\ \A x \in on.addr : Earlier(s, i, "del addr", x)
  /\ Later(s, i, "note", p)
AddRouteOK(s, i, p, on) ==
  /\ \A x \in on.route : Earlier(s, i, "del route", x)
  /\ Later(s, i, "note", p)
NoteOK(s, i, p, on) ==
  /\ \A x \in on.addr : x = p \/ Earlier(s, i, "del addr", x)
  /\ \A x \in on.route : x = p \/ Earlier(s, i, "del route", x)
ForgetOK(s, i, on) ==
  /\ \A x \in on.addr : Earlier(s, i, "del addr", x)
  /\ \A x \in on.route : Earlier(s, i, "del route", x)
OnBridgeOK(s, on, rec) ==
  \A x \in on.addr \cup on.route : x = rec \/ \E i \in DOMAIN s : Is(s, i, "note", x)
ComingOK(s, on) ==
  \A i \in DOMAIN s, p \in Prefix :
    /\ Is(s, i, "add addr", p) => AddAddrOK(s, i, p, on)
    /\ Is(s, i, "add route", p) => AddRouteOK(s, i, p, on)
    /\ Is(s, i, "note", p) => NoteOK(s, i, p, on)
    /\ Is(s, i, "forget", p) => ForgetOK(s, i, on)
BridgeOK(s, on, rec) == OnBridgeOK(s, on, rec) /\ ComingOK(s, on)

\* What is kept is the user's, and what is not kept is in place.
KeptOK ==
  /\ backup.saved => backup.ndp = user
  /\ ~backup.saved => /\ backup.lines = 0 /\ uci.set.ndp = user
                      /\ uci.committed.ndp = user \/ mishaps.refused
  /\ {uci.set.ndp, uci.committed.ndp} \subseteq {user, "relay"}

\* The setting is kept before it is changed, and back in place before what was
\* kept is thrown away.
SettingOK(s, kept, conf, own, lax) ==
  \A i \in DOMAIN s :
    /\ Kind(s, i) = "set" => kept.saved \/ After(s, i, "save")
    /\ Kind(s, i) = "clear" =>
         /\ conf.set.ndp = own \/ After(s, i, "restore")
         /\ conf.committed.ndp = own \/ lax \/ After(s, i, "commit")
         /\ \A j \in DOMAIN s : j < i /\ Kind(s, j) = "commit" =>
              conf.set.ndp = own \/ After(s, j, "restore")

Clean == ~mishaps.shared /\ ~mishaps.orphan
Kept == ~mishaps.shared /\ ~mishaps.torn /\ ~mishaps.cut
OnRecord == bridge.addr \cup bridge.route \subseteq {record}

OrderOK == \A r \in RunId : InOrder(runs[r].todo)
PrefixOK ==
  Clean => /\ \A r \in RunId : Past(r) => BridgeOK(runs[r].todo, bridge, record)
           /\ (\A r \in RunId : ~Past(r)) => OnRecord
NdpOK ==
  Kept =>
    /\ KeptOK
    /\ \A r \in RunId : Past(r) =>
         SettingOK(runs[r].todo, backup, uci, user, mishaps.refused)

\* A copy that lacks a line is being written, and what is written is there.
Partial(kept) == kept.saved /\ kept.lines # 2
WholeOK ==
  Kept => /\ Partial(backup) => \E r \in RunId : runs[r].at = "write"
          /\ \A r \in RunId : runs[r].at = "write" => backup.saved

LanInv ==
  /\ LanTypeOK /\ IdleOK /\ AloneOK /\ OrderOK /\ PrefixOK /\ NdpOK
  /\ WritingOK /\ WholeOK

-----------------------------------------------------------------------------
(* What is left of a list of commands when the first is done *)

LEMMA TailOf ==
  ASSUME NEW s \in Seq(Task), s # <<>>
  PROVE  /\ Tail(s) \in Seq(Task) /\ Head(s) = s[1] /\ 1 \in DOMAIN s
         /\ \A i \in DOMAIN Tail(s) : i \in Nat \ {0} /\ i + 1 \in DOMAIN s
         /\ \A i \in DOMAIN Tail(s) : Tail(s)[i] = s[i + 1]
         /\ \A j \in DOMAIN s : j \in Nat \ {0}
         /\ \A j \in DOMAIN s : j > 1 => j - 1 \in DOMAIN Tail(s)
         /\ \A j \in DOMAIN s : j > 1 => Tail(s)[j - 1] = s[j]
OBVIOUS

LEMMA Kinds ==
  ASSUME NEW s, NEW i, NEW what, NEW p, Is(s, i, what, p)
  PROVE  Kind(s, i) = what /\ Arg(s, i) = p
BY DEF Is, Kind, Arg

\* t is s without its first command.
Rest(s, t) ==
  /\ DOMAIN s \subseteq Nat \ {0} /\ DOMAIN t \subseteq Nat \ {0} /\ 1 \in DOMAIN s
  /\ \A i \in DOMAIN t :
       /\ i + 1 \in DOMAIN s
       /\ Kind(t, i) = Kind(s, i + 1) /\ Arg(t, i) = Arg(s, i + 1)
       /\ \A what, p : Is(t, i, what, p) <=> Is(s, i + 1, what, p)
  /\ \A j \in DOMAIN s : j > 1 =>
       /\ j - 1 \in DOMAIN t
       /\ Kind(t, j - 1) = Kind(s, j)
       /\ \A what, p : Is(t, j - 1, what, p) <=> Is(s, j, what, p)

LEMMA TailRest ==
  ASSUME NEW s \in Seq(Task), s # <<>>
  PROVE  /\ Rest(s, Tail(s)) /\ Tail(s) \in Seq(Task)
         /\ \A what, p : Head(s) = <<what, p>> <=> Is(s, 1, what, p)
<1>1. /\ \A i \in DOMAIN Tail(s) : Tail(s)[i] = s[i + 1]
      /\ \A j \in DOMAIN s : j > 1 => Tail(s)[j - 1] = s[j]
  BY TailOf
<1>2. \A i \in DOMAIN Tail(s) :
       /\ Kind(Tail(s), i) = Kind(s, i + 1) /\ Arg(Tail(s), i) = Arg(s, i + 1)
       /\ \A what, p : Is(Tail(s), i, what, p) <=> Is(s, i + 1, what, p)
  BY <1>1, Zenon DEF Kind, Arg, Is
<1>3. \A j \in DOMAIN s : j > 1 =>
       /\ Kind(Tail(s), j - 1) = Kind(s, j)
       /\ \A what, p : Is(Tail(s), j - 1, what, p) <=> Is(s, j, what, p)
  BY <1>1, Zenon DEF Kind, Is
<1>4. Rest(s, Tail(s))
  BY <1>2, <1>3, TailOf DEF Rest
<1>5. \A what, p : Head(s) = <<what, p>> <=> Is(s, 1, what, p)
  BY TailOf, Zenon DEF Is
<1> QED
  BY <1>4, <1>5, TailOf

LEMMA NotFirst == \A i \in Nat \ {0} : 1 < i + 1
OBVIOUS

LEMMA RestInOrder ==
  ASSUME NEW s, NEW t, Rest(s, t), InOrder(s)
  PROVE  InOrder(t)
<1>1. SUFFICES ASSUME NEW i \in DOMAIN t, NEW j \in DOMAIN t, i < j
      PROVE  /\ Kind(t, i) \in {"add addr", "add route"} =>
                  /\ Kind(t, j) \notin {Kind(t, i), "forget"}
                  /\ Kind(t, j) = "note" => Arg(t, j) = Arg(t, i)
             /\ Kind(t, i) = "note" =>
                  Kind(t, j) \notin {"note", "forget", "add addr", "add route"}
             /\ Kind(t, i) \in {"set", "clear"} => Kind(t, j) \notin {"set", "clear", "note"}
  BY DEF InOrder
<1>2. /\ i + 1 \in DOMAIN s /\ Kind(t, i) = Kind(s, i + 1) /\ Arg(t, i) = Arg(s, i + 1)
      /\ j + 1 \in DOMAIN s /\ Kind(t, j) = Kind(s, j + 1) /\ Arg(t, j) = Arg(s, j + 1)
      /\ i \in Nat /\ j \in Nat
  BY DEF Rest
<1>3. i + 1 < j + 1
  BY <1>1, <1>2
<1> QED
  BY <1>2, <1>3, Zenon DEF InOrder

LEMMA NoneEarlier ==
  ASSUME NEW s, NEW t, Rest(s, t), NEW what, NEW p
  PROVE  ~Earlier(s, 1, what, p)
BY DEF Earlier, Rest

LEMMA RestAfter ==
  ASSUME NEW s, NEW t, Rest(s, t), NEW i \in DOMAIN t, NEW what,
         After(s, i + 1, what), Kind(s, 1) # what
  PROVE  After(t, i, what)
<1>1. PICK j \in DOMAIN s : j < i + 1 /\ Kind(s, j) = what
  BY DEF After
<1>2. j - 1 \in DOMAIN t /\ Kind(t, j - 1) = what /\ j - 1 < i
  BY <1>1 DEF Rest
<1> QED
  BY <1>2 DEF After

LEMMA RestEarlier ==
  ASSUME NEW s, NEW t, Rest(s, t), NEW i \in DOMAIN t, NEW what, NEW p,
         Earlier(s, i + 1, what, p), ~Is(s, 1, what, p)
  PROVE  Earlier(t, i, what, p)
<1>1. PICK j \in DOMAIN s : j < i + 1 /\ Is(s, j, what, p)
  BY DEF Earlier
<1>2. j - 1 \in DOMAIN t /\ Is(t, j - 1, what, p) /\ j - 1 < i
  BY <1>1 DEF Rest
<1> QED
  BY <1>2 DEF Earlier

LEMMA RestLater ==
  ASSUME NEW s, NEW t, Rest(s, t), NEW i \in DOMAIN t, NEW what, NEW p,
         Later(s, i + 1, what, p)
  PROVE  Later(t, i, what, p)
<1>1. PICK j \in DOMAIN s : i + 1 < j /\ Is(s, j, what, p)
  BY DEF Later
<1>2. j - 1 \in DOMAIN t /\ Is(t, j - 1, what, p) /\ i < j - 1
  BY <1>1 DEF Rest
<1> QED
  BY <1>2 DEF Later

LEMMA StillTo ==
  ASSUME NEW s, NEW t, Rest(s, t), NEW what, NEW p, Kind(s, 1) # what,
         \E j \in DOMAIN s : Is(s, j, what, p)
  PROVE  \E i \in DOMAIN t : Is(t, i, what, p)
<1>1. PICK j \in DOMAIN s : Is(s, j, what, p)
  OBVIOUS
<1>2. j # 1
  BY <1>1, Kinds
<1>3. j - 1 \in DOMAIN t /\ Is(t, j - 1, what, p)
  BY <1>1, <1>2 DEF Rest
<1> QED
  BY <1>3

-----------------------------------------------------------------------------
(* The commands, one by one *)

OnType == [addr : SUBSET Prefix, route : SUBSET Prefix]

\* A command that puts nothing on the bridge or on record.
LEMMA Taking ==
  ASSUME NEW s, NEW t, Rest(s, t), NEW on \in OnType, NEW less \in OnType,
         NEW rec, BridgeOK(s, on, rec),
         less.addr \subseteq on.addr, less.route \subseteq on.route,
         Kind(s, 1) \notin {"add addr", "add route", "note", "forget"},
         \A x \in less.addr : ~Is(s, 1, "del addr", x),
         \A x \in less.route : ~Is(s, 1, "del route", x)
  PROVE  BridgeOK(t, less, rec)
<1>1. OnBridgeOK(t, less, rec)
  BY StillTo DEF BridgeOK, OnBridgeOK
<1>2. ASSUME NEW i \in DOMAIN t, NEW p \in Prefix
      PROVE  /\ Is(t, i, "add addr", p) => AddAddrOK(t, i, p, less)
             /\ Is(t, i, "add route", p) => AddRouteOK(t, i, p, less)
             /\ Is(t, i, "note", p) => NoteOK(t, i, p, less)
             /\ Is(t, i, "forget", p) => ForgetOK(t, i, less)
  <2>1. i + 1 \in DOMAIN s /\ \A what : Is(t, i, what, p) <=> Is(s, i + 1, what, p)
    BY DEF Rest
  <2>2. ComingOK(s, on)
    BY DEF BridgeOK
  <2>3. ASSUME NEW x \in less.addr, Earlier(s, i + 1, "del addr", x)
        PROVE  Earlier(t, i, "del addr", x)
    BY <2>3, RestEarlier
  <2>4. ASSUME NEW x \in less.route, Earlier(s, i + 1, "del route", x)
        PROVE  Earlier(t, i, "del route", x)
    BY <2>4, RestEarlier
  <2>5. ASSUME Later(s, i + 1, "note", p)
        PROVE  Later(t, i, "note", p)
    BY <2>5, RestLater
  <2>6. Is(t, i, "add addr", p) => AddAddrOK(t, i, p, less)
    BY <2>1, <2>2, <2>3, <2>5 DEF ComingOK, AddAddrOK
  <2>7. Is(t, i, "add route", p) => AddRouteOK(t, i, p, less)
    BY <2>1, <2>2, <2>4, <2>5 DEF ComingOK, AddRouteOK
  <2>8. Is(t, i, "note", p) => NoteOK(t, i, p, less)
    BY <2>1, <2>2, <2>3, <2>4 DEF ComingOK, NoteOK
  <2>9. Is(t, i, "forget", p) => ForgetOK(t, i, less)
    BY <2>1, <2>2, <2>3, <2>4 DEF ComingOK, ForgetOK
  <2> QED
    BY <2>6, <2>7, <2>8, <2>9
<1> QED
  BY <1>1, <1>2 DEF BridgeOK, ComingOK

\* What is there already is not added while nothing was shared.
LEMMA NothingThere ==
  ASSUME NEW s, NEW t, Rest(s, t), NEW on, NEW rec, NEW p \in Prefix,
         BridgeOK(s, on, rec)
  PROVE  /\ Is(s, 1, "add addr", p) => on.addr = {}
         /\ Is(s, 1, "add route", p) => on.route = {}
<1>1. 1 \in DOMAIN s /\ ComingOK(s, on)
  BY DEF BridgeOK, Rest
<1> QED
  BY <1>1, NoneEarlier DEF ComingOK, AddAddrOK, AddRouteOK

LEMMA AddingAddr ==
  ASSUME NEW s, NEW t, Rest(s, t), NEW on \in OnType, NEW more \in OnType,
         NEW rec, NEW p \in Prefix, BridgeOK(s, on, rec), InOrder(s),
         Is(s, 1, "add addr", p),
         more.addr = on.addr \cup {p}, more.route = on.route
  PROVE  BridgeOK(t, more, rec)
<1>0. Kind(s, 1) = "add addr" /\ Arg(s, 1) = p
  BY Kinds
<1>11. on.addr = {}
  BY NothingThere
<1>1. /\ 1 \in DOMAIN s /\ Kind(s, 1) = "add addr" /\ Arg(s, 1) = p
      /\ ComingOK(s, on) /\ on.addr = {}
  BY <1>0, <1>11 DEF Rest, BridgeOK
<1>2. PICK k \in DOMAIN s : 1 < k /\ Is(s, k, "note", p)
  BY <1>1 DEF ComingOK, AddAddrOK, Later
<1>3. OnBridgeOK(t, more, rec)
  <2>1. k - 1 \in DOMAIN t /\ Is(t, k - 1, "note", p)
    BY <1>2 DEF Rest
  <2>2. ASSUME NEW x \in on.route, x # rec
        PROVE  \E i \in DOMAIN t : Is(t, i, "note", x)
    BY <2>2, <1>1, StillTo DEF BridgeOK, OnBridgeOK
  <2> QED
    BY <1>1, <2>1, <2>2 DEF OnBridgeOK
<1>4. ASSUME NEW i \in DOMAIN t, NEW q \in Prefix
      PROVE  /\ Is(t, i, "add addr", q) => AddAddrOK(t, i, q, more)
             /\ Is(t, i, "add route", q) => AddRouteOK(t, i, q, more)
             /\ Is(t, i, "note", q) => NoteOK(t, i, q, more)
             /\ Is(t, i, "forget", q) => ForgetOK(t, i, more)
  <2>11. i \in Nat \ {0}
    BY DEF Rest
  <2>0. 1 < i + 1
    BY <2>11, NotFirst, Zenon
  <2>1. /\ i + 1 \in DOMAIN s /\ 1 < i + 1
        /\ \A what : Is(t, i, what, q) <=> Is(s, i + 1, what, q)
    BY <2>0 DEF Rest
  <2>2. /\ Kind(s, i + 1) \notin {"add addr", "forget"}
        /\ Kind(s, i + 1) = "note" => Arg(s, i + 1) = p
    BY <1>1, <2>1 DEF InOrder
  <2>3. /\ ~Is(t, i, "add addr", q) /\ ~Is(t, i, "forget", q)
        /\ Is(t, i, "note", q) => q = p
    BY <2>1, <2>2, Kinds
  <2>4. ASSUME NEW x \in on.route, Earlier(s, i + 1, "del route", x)
        PROVE  Earlier(t, i, "del route", x)
    BY <1>1, <2>4, Kinds, RestEarlier
  <2>5. ASSUME Later(s, i + 1, "note", q)
        PROVE  Later(t, i, "note", q)
    BY <2>5, RestLater
  <2>6. Is(t, i, "add route", q) => AddRouteOK(t, i, q, more)
    BY <1>1, <2>1, <2>4, <2>5 DEF ComingOK, AddRouteOK
  <2>7. Is(t, i, "note", q) => NoteOK(t, i, q, more)
    BY <1>1, <2>1, <2>3, <2>4 DEF ComingOK, NoteOK
  <2> QED
    BY <2>3, <2>6, <2>7
<1> QED
  BY <1>3, <1>4 DEF BridgeOK, ComingOK

LEMMA AddingRoute ==
  ASSUME NEW s, NEW t, Rest(s, t), NEW on \in OnType, NEW more \in OnType,
         NEW rec, NEW p \in Prefix, BridgeOK(s, on, rec), InOrder(s),
         Is(s, 1, "add route", p),
         more.route = on.route \cup {p}, more.addr = on.addr
  PROVE  BridgeOK(t, more, rec)
<1>0. Kind(s, 1) = "add route" /\ Arg(s, 1) = p
  BY Kinds
<1>11. on.route = {}
  BY NothingThere
<1>1. /\ 1 \in DOMAIN s /\ Kind(s, 1) = "add route" /\ Arg(s, 1) = p
      /\ ComingOK(s, on) /\ on.route = {}
  BY <1>0, <1>11 DEF Rest, BridgeOK
<1>2. PICK k \in DOMAIN s : 1 < k /\ Is(s, k, "note", p)
  BY <1>1 DEF ComingOK, AddRouteOK, Later
<1>3. OnBridgeOK(t, more, rec)
  <2>1. k - 1 \in DOMAIN t /\ Is(t, k - 1, "note", p)
    BY <1>2 DEF Rest
  <2>2. ASSUME NEW x \in on.addr, x # rec
        PROVE  \E i \in DOMAIN t : Is(t, i, "note", x)
    BY <2>2, <1>1, StillTo DEF BridgeOK, OnBridgeOK
  <2> QED
    BY <1>1, <2>1, <2>2 DEF OnBridgeOK
<1>4. ASSUME NEW i \in DOMAIN t, NEW q \in Prefix
      PROVE  /\ Is(t, i, "add addr", q) => AddAddrOK(t, i, q, more)
             /\ Is(t, i, "add route", q) => AddRouteOK(t, i, q, more)
             /\ Is(t, i, "note", q) => NoteOK(t, i, q, more)
             /\ Is(t, i, "forget", q) => ForgetOK(t, i, more)
  <2>11. i \in Nat \ {0}
    BY DEF Rest
  <2>0. 1 < i + 1
    BY <2>11, NotFirst, Zenon
  <2>1. /\ i + 1 \in DOMAIN s /\ 1 < i + 1
        /\ \A what : Is(t, i, what, q) <=> Is(s, i + 1, what, q)
    BY <2>0 DEF Rest
  <2>2. /\ Kind(s, i + 1) \notin {"add route", "forget"}
        /\ Kind(s, i + 1) = "note" => Arg(s, i + 1) = p
    BY <1>1, <2>1 DEF InOrder
  <2>3. /\ ~Is(t, i, "add route", q) /\ ~Is(t, i, "forget", q)
        /\ Is(t, i, "note", q) => q = p
    BY <2>1, <2>2, Kinds
  <2>4. ASSUME NEW x \in on.addr, Earlier(s, i + 1, "del addr", x)
        PROVE  Earlier(t, i, "del addr", x)
    BY <1>1, <2>4, Kinds, RestEarlier
  <2>5. ASSUME Later(s, i + 1, "note", q)
        PROVE  Later(t, i, "note", q)
    BY <2>5, RestLater
  <2>6. Is(t, i, "add addr", q) => AddAddrOK(t, i, q, more)
    BY <1>1, <2>1, <2>4, <2>5 DEF ComingOK, AddAddrOK
  <2>7. Is(t, i, "note", q) => NoteOK(t, i, q, more)
    BY <1>1, <2>1, <2>3, <2>4 DEF ComingOK, NoteOK
  <2> QED
    BY <2>3, <2>6, <2>7
<1> QED
  BY <1>3, <1>4 DEF BridgeOK, ComingOK

LEMMA Noting ==
  ASSUME NEW s, NEW t, Rest(s, t), NEW on \in OnType, NEW rec,
         NEW p \in Prefix, BridgeOK(s, on, rec), InOrder(s), Is(s, 1, "note", p)
  PROVE  BridgeOK(t, on, p)
<1>1. 1 \in DOMAIN s /\ Kind(s, 1) = "note" /\ ComingOK(s, on)
  BY Kinds DEF Rest, BridgeOK
<1>2. on.addr \cup on.route \subseteq {p}
  BY <1>1, NoneEarlier DEF ComingOK, NoteOK
<1>3. \A i \in DOMAIN t :
        Kind(t, i) \notin {"note", "forget", "add addr", "add route"}
  <2> TAKE i \in DOMAIN t
  <2>1. i \in Nat \ {0} /\ 1 < i + 1
    BY DEF Rest
  <2>2. i + 1 \in DOMAIN s /\ Kind(t, i) = Kind(s, i + 1)
    BY DEF Rest
  <2> QED
    BY <1>1, <2>1, <2>2, Zenon DEF InOrder
<1>4. ComingOK(t, on)
  BY <1>3, Kinds DEF ComingOK
<1> QED
  BY <1>2, <1>4 DEF BridgeOK, OnBridgeOK

LEMMA Forgetting ==
  ASSUME NEW s, NEW t, Rest(s, t), NEW on \in OnType, NEW rec, NEW other,
         NEW p \in Prefix, BridgeOK(s, on, rec), Is(s, 1, "forget", p)
  PROVE  BridgeOK(t, on, other)
<1>1. 1 \in DOMAIN s /\ ComingOK(s, on)
  BY DEF Rest, BridgeOK
<1>2. on.addr = {} /\ on.route = {}
  BY <1>1, NoneEarlier DEF ComingOK, ForgetOK
<1>3. ASSUME NEW i \in DOMAIN t, NEW q \in Prefix,
             Is(t, i, "add addr", q) \/ Is(t, i, "add route", q)
      PROVE  Later(t, i, "note", q)
  BY <1>1, <1>3, RestLater DEF Rest, ComingOK, AddAddrOK, AddRouteOK
<1>4. ComingOK(t, on)
  BY <1>2, <1>3 DEF ComingOK, AddAddrOK, AddRouteOK, NoteOK, ForgetOK
<1> QED
  BY <1>2, <1>4 DEF BridgeOK, OnBridgeOK

\* Commands on the setting: kept, set and committed as they are after the first.
SavedStays(s, t, kept, kept2) ==
  (\E i \in DOMAIN t : Kind(t, i) = "set")
    => (kept.saved \/ Kind(s, 1) = "save" => kept2.saved)
PlaceStays(s, t, conf, conf2, own, lax, lax2) ==
  (\E i \in DOMAIN t : Kind(t, i) = "clear")
    => /\ conf.set.ndp = own \/ Kind(s, 1) = "restore" => conf2.set.ndp = own
       /\ conf.committed.ndp = own \/ lax \/ Kind(s, 1) = "commit"
            => conf2.committed.ndp = own \/ lax2

LEMMA Turning ==
  ASSUME NEW s, NEW t, Rest(s, t), NEW kept, NEW conf, NEW own, NEW lax,
         SettingOK(s, kept, conf, own, lax), NEW kept2, NEW conf2, NEW lax2,
         SavedStays(s, t, kept, kept2),
         PlaceStays(s, t, conf, conf2, own, lax, lax2)
  PROVE  SettingOK(t, kept2, conf2, own, lax2)
<1> SUFFICES ASSUME NEW i \in DOMAIN t
    PROVE  /\ Kind(t, i) = "set" => kept2.saved \/ After(t, i, "save")
           /\ Kind(t, i) = "clear" =>
                /\ conf2.set.ndp = own \/ After(t, i, "restore")
                /\ conf2.committed.ndp = own \/ lax2 \/ After(t, i, "commit")
                /\ \A j \in DOMAIN t : j < i /\ Kind(t, j) = "commit" =>
                     conf2.set.ndp = own \/ After(t, j, "restore")
  BY DEF SettingOK
<1>1. i + 1 \in DOMAIN s /\ Kind(t, i) = Kind(s, i + 1) /\ i \in Nat
  BY DEF Rest
<1>2. Kind(t, i) = "set" => kept2.saved \/ After(t, i, "save")
  BY <1>1, RestAfter, Zenon DEF SettingOK, SavedStays, PlaceStays
<1>3. Kind(t, i) = "clear" => conf2.set.ndp = own \/ After(t, i, "restore")
  BY <1>1, RestAfter, Zenon DEF SettingOK, SavedStays, PlaceStays
<1>4. Kind(t, i) = "clear" => conf2.committed.ndp = own \/ lax2 \/ After(t, i, "commit")
  BY <1>1, RestAfter, Zenon DEF SettingOK, SavedStays, PlaceStays
<1>5. ASSUME NEW j \in DOMAIN t, Kind(t, i) = "clear", j < i, Kind(t, j) = "commit"
      PROVE  conf2.set.ndp = own \/ After(t, j, "restore")
  <2>1. /\ j + 1 \in DOMAIN s /\ Kind(s, j + 1) = "commit" /\ j \in Nat
        /\ j + 1 < i + 1
    BY <1>1, <1>5 DEF Rest
  <2>2. conf.set.ndp = own \/ After(s, j + 1, "restore")
    BY <1>1, <1>5, <2>1, Zenon DEF SettingOK
  <2> QED
    BY <1>5, <2>2, RestAfter, Zenon DEF PlaceStays
<1> QED
  BY <1>2, <1>3, <1>4, <1>5

-----------------------------------------------------------------------------
(* What a run sets out to do *)

LEMMA Words ==
  ASSUME NEW p \in Prefix \cup {NoPrefix}, NEW what \in Word
  PROVE  <<what, p>> \in Task
BY DEF Task

LEMMA OneTask ==
  ASSUME NEW c \in Task
  PROVE  <<c>> \in Seq(Task) /\ Len(<<c>>) = 1 /\ <<c>>[1] = c
OBVIOUS

LEMMA TwoTasks ==
  ASSUME NEW c \in Task, NEW d \in Task
  PROVE  /\ <<c, d>> \in Seq(Task) /\ Len(<<c, d>>) = 2
         /\ <<c, d>>[1] = c /\ <<c, d>>[2] = d
<1>1. <<c, d>> \in Seq(Task)
  OBVIOUS
<1>2. Len(<<c, d>>) = 2
  OBVIOUS
<1> QED
  BY <1>1, <1>2

LEMMA ThreeTasks ==
  ASSUME NEW c \in Task, NEW d \in Task, NEW e \in Task
  PROVE  /\ <<c, d, e>> \in Seq(Task) /\ Len(<<c, d, e>>) = 3
         /\ <<c, d, e>>[1] = c /\ <<c, d, e>>[2] = d /\ <<c, d, e>>[3] = e
<1>1. <<c, d, e>> \in Seq(Task)
  OBVIOUS
<1>2. Len(<<c, d, e>>) = 3
  OBVIOUS
<1> QED
  BY <1>1, <1>2

Joins(u, s, t) ==
  /\ u \in Seq(Task) /\ Len(u) = Len(s) + Len(t)
  /\ \A i \in 1..(Len(s) + Len(t)) :
       u[i] = IF i <= Len(s) THEN s[i] ELSE t[i - Len(s)]

LEMMA Joined ==
  ASSUME NEW s \in Seq(Task), NEW t \in Seq(Task)
  PROVE  Joins(s \o t, s, t)
BY ConcatProperties, Zenon DEF Joins

ThreeAndThree(u, s, t) ==
  /\ u \in Seq(Task) /\ Len(u) = 6
  /\ u[1] = s[1] /\ u[2] = s[2] /\ u[3] = s[3]
  /\ u[4] = t[1] /\ u[5] = t[2] /\ u[6] = t[3]

LEMMA JoinThrees ==
  ASSUME NEW s \in Seq(Task), NEW t \in Seq(Task), Len(s) = 3, Len(t) = 3
  PROVE  ThreeAndThree(s \o t, s, t)
<1>1. PICK u : /\ u = s \o t /\ Joins(u, s, t)
  BY Joined
<1>2. ThreeAndThree(u, s, t)
  BY <1>1 DEF Joins, ThreeAndThree
<1> QED
  BY <1>1, <1>2

TwoAndOne(u, s, t) ==
  /\ u \in Seq(Task) /\ Len(u) = 3
  /\ u[1] = s[1] /\ u[2] = s[2]
  /\ u[3] = t[1]

LEMMA JoinTwoOne ==
  ASSUME NEW s \in Seq(Task), NEW t \in Seq(Task), Len(s) = 2, Len(t) = 1
  PROVE  TwoAndOne(s \o t, s, t)
<1>1. PICK u : /\ u = s \o t /\ Joins(u, s, t)
  BY Joined
<1>2. TwoAndOne(u, s, t)
  BY <1>1 DEF Joins, TwoAndOne
<1> QED
  BY <1>1, <1>2

TwoAndSix(u, s, t) ==
  /\ u \in Seq(Task) /\ Len(u) = 8
  /\ u[1] = s[1] /\ u[2] = s[2]
  /\ u[3] = t[1] /\ u[4] = t[2] /\ u[5] = t[3]
  /\ u[6] = t[4] /\ u[7] = t[5] /\ u[8] = t[6]

LEMMA JoinTwoSix ==
  ASSUME NEW s \in Seq(Task), NEW t \in Seq(Task), Len(s) = 2, Len(t) = 6
  PROVE  TwoAndSix(s \o t, s, t)
<1>1. PICK u : /\ u = s \o t /\ Joins(u, s, t)
  BY Joined
<1>2. TwoAndSix(u, s, t)
  <2>1. u \in Seq(Task) /\ Len(u) = 8 /\ u[1] = s[1] /\ u[2] = s[2]
    BY <1>1 DEF Joins
  <2>2. ASSUME NEW i \in 3..8 PROVE u[i] = t[i - 2]
    <3>1. i \in 1..(Len(s) + Len(t)) /\ ~(i <= 2)
      OBVIOUS
    <3> QED
      BY <1>1, <3>1 DEF Joins
  <2>3. u[3] = t[1] /\ u[4] = t[2] /\ u[5] = t[3]
    BY <2>2
  <2>4. u[6] = t[4] /\ u[7] = t[5] /\ u[8] = t[6]
    BY <2>2
  <2> QED
    BY <2>1, <2>3, <2>4 DEF TwoAndSix
<1> QED
  BY <1>1, <1>2

LEMMA RelayIs ==
  /\ Relay \in Seq(Task) /\ Len(Relay) = 3
  /\ Relay[1] = <<"save", NoPrefix>> /\ Relay[2] = <<"set", NoPrefix>>
  /\ Relay[3] = <<"commit", NoPrefix>>
BY Words, ThreeTasks DEF Relay, Word

LEMMA UnconfigureIs ==
  /\ Unconfigure \in Seq(Task) /\ Len(Unconfigure) = 3
  /\ Unconfigure[1] = <<"restore", NoPrefix>>
  /\ Unconfigure[2] = <<"commit", NoPrefix>>
  /\ Unconfigure[3] = <<"clear", NoPrefix>>
BY Words, ThreeTasks DEF Unconfigure, Word

LEMMA TakeIs ==
  ASSUME NEW p \in Prefix
  PROVE  /\ Take(p) \in Seq(Task) /\ Len(Take(p)) = 2
         /\ Take(p)[1] = <<"del route", p>> /\ Take(p)[2] = <<"del addr", p>>
BY Words, TwoTasks DEF Take, Word

LEMMA OffIs ==
  ASSUME NEW p \in Prefix
  PROVE  /\ Off(p) \in Seq(Task) /\ Len(Off(p)) = 3
         /\ Off(p)[1] = <<"del route", p>> /\ Off(p)[2] = <<"del addr", p>>
         /\ Off(p)[3] = <<"forget", p>>
<1>1. Off(p) = Take(p) \o <<<<"forget", p>>>>
  BY LanAssumption DEF LanConstants, Off
<1>2. /\ <<<<"forget", p>>>> \in Seq(Task) /\ Len(<<<<"forget", p>>>>) = 1
      /\ <<<<"forget", p>>>>[1] = <<"forget", p>>
  BY Words, OneTask DEF Word
<1> DEFINE t == <<<<"forget", p>>>>
<1>3. /\ t \in Seq(Task) /\ Len(t) = 1 /\ t[1] = <<"forget", p>> /\ Off(p) = Take(p) \o t
  BY <1>1, <1>2
<1> HIDE DEF t
<1>4. PICK u : u = Take(p) \o t /\ TwoAndOne(u, Take(p), t)
  BY <1>3, TakeIs, JoinTwoOne
<1> QED
  BY <1>3, <1>4, TakeIs DEF TwoAndOne

LEMMA OnIs ==
  ASSUME NEW p \in Prefix
  PROVE  /\ On(p) \in Seq(Task) /\ Len(On(p)) = 6
         /\ On(p)[1] = <<"add addr", p>> /\ On(p)[2] = <<"add route", p>>
         /\ On(p)[3] = <<"note", p>> /\ On(p)[4] = <<"save", NoPrefix>>
         /\ On(p)[5] = <<"set", NoPrefix>> /\ On(p)[6] = <<"commit", NoPrefix>>
<1> DEFINE s == <<<<"add addr", p>>, <<"add route", p>>, <<"note", p>>>>
<1>1. /\ s \in Seq(Task) /\ Len(s) = 3
      /\ s[1] = <<"add addr", p>> /\ s[2] = <<"add route", p>> /\ s[3] = <<"note", p>>
  BY Words, ThreeTasks DEF Word
<1>2. On(p) = s \o Relay
  BY DEF On
<1> HIDE DEF s
<1>3. PICK u : u = s \o Relay /\ ThreeAndThree(u, s, Relay)
  <2>1. s \in Seq(Task) /\ Relay \in Seq(Task) /\ Len(s) = 3 /\ Len(Relay) = 3
    BY <1>1, RelayIs
  <2> QED
    BY <2>1, JoinThrees
<1> QED
  BY <1>2, <1>3, <1>1, RelayIs DEF ThreeAndThree

ChangeList(s, q, p) ==
  /\ s \in Seq(Task) /\ Len(s) = 8
  /\ s[1] = <<"del route", q>> /\ s[2] = <<"del addr", q>>
  /\ s[3] = <<"add addr", p>> /\ s[4] = <<"add route", p>>
  /\ s[5] = <<"note", p>> /\ s[6] = <<"save", NoPrefix>>
  /\ s[7] = <<"set", NoPrefix>> /\ s[8] = <<"commit", NoPrefix>>

LEMMA ChangeIs ==
  ASSUME NEW q \in Prefix, NEW p \in Prefix, NEW s, s = Take(q) \o On(p)
  PROVE  ChangeList(s, q, p)
<1> DEFINE t == Take(q)
           u == On(p)
<1>1. /\ t \in Seq(Task) /\ Len(t) = 2
      /\ t[1] = <<"del route", q>> /\ t[2] = <<"del addr", q>>
  BY TakeIs
<1>2. /\ u \in Seq(Task) /\ Len(u) = 6
      /\ u[1] = <<"add addr", p>> /\ u[2] = <<"add route", p>>
      /\ u[3] = <<"note", p>> /\ u[4] = <<"save", NoPrefix>>
      /\ u[5] = <<"set", NoPrefix>> /\ u[6] = <<"commit", NoPrefix>>
  BY OnIs
<1>3. s = t \o u
  OBVIOUS
<1> HIDE DEF t, u
<1>4. PICK w : w = t \o u /\ TwoAndSix(w, t, u)
  <2>1. t \in Seq(Task) /\ u \in Seq(Task) /\ Len(t) = 2 /\ Len(u) = 6
    BY <1>1, <1>2
  <2> QED
    BY <2>1, JoinTwoSix
<1> QED
  BY <1>1, <1>2, <1>3, <1>4 DEF TwoAndSix, ChangeList

LEMMA TeardownIs ==
  ASSUME NEW q \in Prefix, NEW s, s = Off(q) \o Unconfigure
  PROVE  /\ s \in Seq(Task) /\ Len(s) = 6
         /\ s[1] = <<"del route", q>> /\ s[2] = <<"del addr", q>>
         /\ s[3] = <<"forget", q>> /\ s[4] = <<"restore", NoPrefix>>
         /\ s[5] = <<"commit", NoPrefix>> /\ s[6] = <<"clear", NoPrefix>>
<1> DEFINE t == Off(q)
           u == Unconfigure
<1>1. /\ t \in Seq(Task) /\ Len(t) = 3
      /\ t[1] = <<"del route", q>> /\ t[2] = <<"del addr", q>>
      /\ t[3] = <<"forget", q>>
  BY OffIs
<1>2. /\ u \in Seq(Task) /\ Len(u) = 3
      /\ u[1] = <<"restore", NoPrefix>> /\ u[2] = <<"commit", NoPrefix>>
      /\ u[3] = <<"clear", NoPrefix>>
  BY UnconfigureIs
<1>3. s = t \o u
  OBVIOUS
<1> HIDE DEF t, u
<1>4. PICK w : w = t \o u /\ ThreeAndThree(w, t, u)
  <2>1. t \in Seq(Task) /\ u \in Seq(Task) /\ Len(t) = 3 /\ Len(u) = 3
    BY <1>1, <1>2
  <2> QED
    BY <2>1, JoinThrees
<1> QED
  BY <1>1, <1>2, <1>3, <1>4 DEF ThreeAndThree


\* A plan made with q on record, and nothing but q on the bridge.
PlanOK(s, q) ==
  /\ s \in Seq(Task) /\ InOrder(s)
  /\ \A kept, conf, own, lax : SettingOK(s, kept, conf, own, lax)
  /\ \A on \in OnType : on.addr \cup on.route \subseteq {q} => BridgeOK(s, on, q)

LEMMA NothingPlan ==
  ASSUME NEW q
  PROVE  PlanOK(<<>>, q)
<1>1. <<>> \in Seq(Task) /\ DOMAIN <<>> = {}
  OBVIOUS
<1> QED
  BY <1>1 DEF PlanOK, InOrder, SettingOK, BridgeOK, OnBridgeOK, ComingOK

LEMMA RelayPlan ==
  ASSUME NEW q
  PROVE  PlanOK(Relay, q)
<1>1. PICK s : s = Relay
  OBVIOUS
<1>2. /\ s \in Seq(Task) /\ Len(s) = 3
      /\ s[1] = <<"save", NoPrefix>> /\ s[2] = <<"set", NoPrefix>>
      /\ s[3] = <<"commit", NoPrefix>>
  BY <1>1, RelayIs
<1>3. DOMAIN s = {1, 2, 3}
  <2>1. DOMAIN s = 1..3
    BY <1>2, LenProperties
  <2> QED
    BY <2>1
<1>9. \A i \in DOMAIN s : i = 1 \/ i = 2 \/ i = 3
  BY <1>3
<1>4. /\ Is(s, 1, "save", NoPrefix) /\ Is(s, 2, "set", NoPrefix)
      /\ Is(s, 3, "commit", NoPrefix)
  BY <1>2, Zenon DEF Is
<1>5. /\ Kind(s, 1) = "save" /\ Kind(s, 2) = "set"
      /\ Kind(s, 3) = "commit"
  <2>1. Kind(s, 1) = "save"
    BY <1>4, Kinds
  <2>2. Kind(s, 2) = "set"
    BY <1>4, Kinds
  <2>3. Kind(s, 3) = "commit"
    BY <1>4, Kinds
  <2> QED
    BY <2>1, <2>2, <2>3
<1>6. InOrder(s)
  <2> SUFFICES ASSUME NEW i \in DOMAIN s, NEW j \in DOMAIN s, i < j
      PROVE  /\ Kind(s, i) \in {"add addr", "add route"} =>
                  /\ Kind(s, j) \notin {Kind(s, i), "forget"}
                  /\ Kind(s, j) = "note" => Arg(s, j) = Arg(s, i)
             /\ Kind(s, i) = "note" =>
                  Kind(s, j) \notin {"note", "forget", "add addr", "add route"}
             /\ Kind(s, i) \in {"set", "clear"} => Kind(s, j) \notin {"set", "clear", "note"}
    BY DEF InOrder
  <2>1. CASE i = 1
    <3>1. j = 2 \/ j = 3
      BY <2>1, <1>9
    <3> QED
      BY <2>1, <3>1, <1>5, Zenon
  <2>2. CASE i = 2
    <3>1. j = 3
      BY <2>2, <1>9
    <3> QED
      BY <2>2, <3>1, <1>5, Zenon
  <2>3. CASE i = 3
    <3>1. FALSE
      BY <2>3, <1>9
    <3> QED
      BY <3>1
  <2> QED
    BY <1>9, <2>1, <2>2, <2>3
<1>7. \A kept, conf, own, lax : SettingOK(s, kept, conf, own, lax)
  <2>1. ASSUME NEW i \in DOMAIN s, Kind(s, i) = "set"
        PROVE  After(s, i, "save")
    <3>1. i = 2
      BY <2>1, <1>9, <1>5
    <3>2. 1 \in DOMAIN s /\ 1 < 2
      BY <1>3
    <3> QED
      BY <3>1, <3>2, <1>5 DEF After
  <2>2. \A i \in DOMAIN s : Kind(s, i) # "clear"
    BY <1>9, <1>5
  <2> QED
    BY <2>1, <2>2 DEF SettingOK
<1>8. ASSUME NEW on \in OnType, on.addr \cup on.route \subseteq {q}
      PROVE  BridgeOK(s, on, q)
  <2>1. OnBridgeOK(s, on, q)
    BY <1>8 DEF OnBridgeOK
  <2>2. /\ \A y \in on.addr : y = q
        /\ \A y \in on.route : y = q
    BY <1>8
  <2>3. ASSUME NEW i \in DOMAIN s, NEW x \in Prefix
        PROVE  /\ Is(s, i, "add addr", x) => AddAddrOK(s, i, x, on)
               /\ Is(s, i, "add route", x) => AddRouteOK(s, i, x, on)
               /\ Is(s, i, "note", x) => NoteOK(s, i, x, on)
               /\ Is(s, i, "forget", x) => ForgetOK(s, i, on)
    <3>1. Kind(s, i) \notin {"add addr", "add route", "note", "forget"}
      BY <1>3, <1>5
    <3> QED
      BY <3>1, Kinds
  <2> QED
    BY <2>1, <2>3 DEF BridgeOK, ComingOK
<1> QED
  BY <1>1, <1>2, <1>6, <1>7, <1>8 DEF PlanOK

LEMMA UnconfigurePlan ==
  ASSUME NEW q
  PROVE  PlanOK(Unconfigure, q)
<1>1. PICK s : s = Unconfigure
  OBVIOUS
<1>2. /\ s \in Seq(Task) /\ Len(s) = 3
      /\ s[1] = <<"restore", NoPrefix>> /\ s[2] = <<"commit", NoPrefix>>
      /\ s[3] = <<"clear", NoPrefix>>
  BY <1>1, UnconfigureIs
<1>3. DOMAIN s = {1, 2, 3}
  <2>1. DOMAIN s = 1..3
    BY <1>2, LenProperties
  <2> QED
    BY <2>1
<1>9. \A i \in DOMAIN s : i = 1 \/ i = 2 \/ i = 3
  BY <1>3
<1>4. /\ Is(s, 1, "restore", NoPrefix) /\ Is(s, 2, "commit", NoPrefix)
      /\ Is(s, 3, "clear", NoPrefix)
  BY <1>2, Zenon DEF Is
<1>5. /\ Kind(s, 1) = "restore" /\ Kind(s, 2) = "commit"
      /\ Kind(s, 3) = "clear"
  <2>1. Kind(s, 1) = "restore"
    BY <1>4, Kinds
  <2>2. Kind(s, 2) = "commit"
    BY <1>4, Kinds
  <2>3. Kind(s, 3) = "clear"
    BY <1>4, Kinds
  <2> QED
    BY <2>1, <2>2, <2>3
<1>6. InOrder(s)
  <2> SUFFICES ASSUME NEW i \in DOMAIN s, NEW j \in DOMAIN s, i < j
      PROVE  /\ Kind(s, i) \in {"add addr", "add route"} =>
                  /\ Kind(s, j) \notin {Kind(s, i), "forget"}
                  /\ Kind(s, j) = "note" => Arg(s, j) = Arg(s, i)
             /\ Kind(s, i) = "note" =>
                  Kind(s, j) \notin {"note", "forget", "add addr", "add route"}
             /\ Kind(s, i) \in {"set", "clear"} => Kind(s, j) \notin {"set", "clear", "note"}
    BY DEF InOrder
  <2>1. CASE i = 1
    <3>1. j = 2 \/ j = 3
      BY <2>1, <1>9
    <3> QED
      BY <2>1, <3>1, <1>5, Zenon
  <2>2. CASE i = 2
    <3>1. j = 3
      BY <2>2, <1>9
    <3> QED
      BY <2>2, <3>1, <1>5, Zenon
  <2>3. CASE i = 3
    <3>1. FALSE
      BY <2>3, <1>9
    <3> QED
      BY <3>1
  <2> QED
    BY <1>9, <2>1, <2>2, <2>3
<1>7. \A kept, conf, own, lax : SettingOK(s, kept, conf, own, lax)
  <2>1. \A i \in DOMAIN s : Kind(s, i) # "set"
    BY <1>9, <1>5
  <2>2. ASSUME NEW i \in DOMAIN s, Kind(s, i) = "clear"
        PROVE  After(s, i, "restore") /\ After(s, i, "commit")
    <3>1. i = 3
      BY <2>2, <1>9, <1>5
    <3>2. 2 \in DOMAIN s /\ 2 < 3 /\ 1 \in DOMAIN s /\ 1 < 3
      BY <1>3
    <3> QED
      BY <3>1, <3>2, <1>5 DEF After
  <2>3. ASSUME NEW j \in DOMAIN s, Kind(s, j) = "commit"
        PROVE  After(s, j, "restore")
    <3>1. j = 2
      BY <2>3, <1>9, <1>5
    <3>2. 1 \in DOMAIN s /\ 1 < 2
      BY <1>3
    <3> QED
      BY <3>1, <3>2, <1>5 DEF After
  <2> QED
    BY <2>1, <2>2, <2>3 DEF SettingOK
<1>8. ASSUME NEW on \in OnType, on.addr \cup on.route \subseteq {q}
      PROVE  BridgeOK(s, on, q)
  <2>1. OnBridgeOK(s, on, q)
    BY <1>8 DEF OnBridgeOK
  <2>2. /\ \A y \in on.addr : y = q
        /\ \A y \in on.route : y = q
    BY <1>8
  <2>3. ASSUME NEW i \in DOMAIN s, NEW x \in Prefix
        PROVE  /\ Is(s, i, "add addr", x) => AddAddrOK(s, i, x, on)
               /\ Is(s, i, "add route", x) => AddRouteOK(s, i, x, on)
               /\ Is(s, i, "note", x) => NoteOK(s, i, x, on)
               /\ Is(s, i, "forget", x) => ForgetOK(s, i, on)
    <3>1. Kind(s, i) \notin {"add addr", "add route", "note", "forget"}
      BY <1>3, <1>5
    <3> QED
      BY <3>1, Kinds
  <2> QED
    BY <2>1, <2>3 DEF BridgeOK, ComingOK
<1> QED
  BY <1>1, <1>2, <1>6, <1>7, <1>8 DEF PlanOK

LEMMA OffPlan ==
  ASSUME NEW q \in Prefix
  PROVE  PlanOK(Off(q), q)
<1>1. PICK s : s = Off(q)
  OBVIOUS
<1>2. /\ s \in Seq(Task) /\ Len(s) = 3
      /\ s[1] = <<"del route", q>> /\ s[2] = <<"del addr", q>>
      /\ s[3] = <<"forget", q>>
  BY <1>1, OffIs
<1>3. DOMAIN s = {1, 2, 3}
  <2>1. DOMAIN s = 1..3
    BY <1>2, LenProperties
  <2> QED
    BY <2>1
<1>9. \A i \in DOMAIN s : i = 1 \/ i = 2 \/ i = 3
  BY <1>3
<1>4. /\ Is(s, 1, "del route", q) /\ Is(s, 2, "del addr", q)
      /\ Is(s, 3, "forget", q)
  BY <1>2, Zenon DEF Is
<1>5. /\ Kind(s, 1) = "del route" /\ Kind(s, 2) = "del addr"
      /\ Kind(s, 3) = "forget"
  <2>1. Kind(s, 1) = "del route"
    BY <1>4, Kinds
  <2>2. Kind(s, 2) = "del addr"
    BY <1>4, Kinds
  <2>3. Kind(s, 3) = "forget"
    BY <1>4, Kinds
  <2> QED
    BY <2>1, <2>2, <2>3
<1>6. InOrder(s)
  <2> SUFFICES ASSUME NEW i \in DOMAIN s, NEW j \in DOMAIN s, i < j
      PROVE  /\ Kind(s, i) \in {"add addr", "add route"} =>
                  /\ Kind(s, j) \notin {Kind(s, i), "forget"}
                  /\ Kind(s, j) = "note" => Arg(s, j) = Arg(s, i)
             /\ Kind(s, i) = "note" =>
                  Kind(s, j) \notin {"note", "forget", "add addr", "add route"}
             /\ Kind(s, i) \in {"set", "clear"} => Kind(s, j) \notin {"set", "clear", "note"}
    BY DEF InOrder
  <2>1. CASE i = 1
    <3>1. j = 2 \/ j = 3
      BY <2>1, <1>9
    <3> QED
      BY <2>1, <3>1, <1>5, Zenon
  <2>2. CASE i = 2
    <3>1. j = 3
      BY <2>2, <1>9
    <3> QED
      BY <2>2, <3>1, <1>5, Zenon
  <2>3. CASE i = 3
    <3>1. FALSE
      BY <2>3, <1>9
    <3> QED
      BY <3>1
  <2> QED
    BY <1>9, <2>1, <2>2, <2>3
<1>7. \A kept, conf, own, lax : SettingOK(s, kept, conf, own, lax)
  <2>1. \A i \in DOMAIN s : Kind(s, i) # "set"
    BY <1>9, <1>5
  <2>2. \A i \in DOMAIN s : Kind(s, i) # "clear"
    BY <1>9, <1>5
  <2> QED
    BY <2>1, <2>2 DEF SettingOK
<1>8. ASSUME NEW on \in OnType, on.addr \cup on.route \subseteq {q}
      PROVE  BridgeOK(s, on, q)
  <2>1. OnBridgeOK(s, on, q)
    BY <1>8 DEF OnBridgeOK
  <2>2. /\ \A y \in on.addr : y = q
        /\ \A y \in on.route : y = q
    BY <1>8
  <2>3. ASSUME NEW i \in DOMAIN s, NEW x \in Prefix
        PROVE  /\ Is(s, i, "add addr", x) => AddAddrOK(s, i, x, on)
               /\ Is(s, i, "add route", x) => AddRouteOK(s, i, x, on)
               /\ Is(s, i, "note", x) => NoteOK(s, i, x, on)
               /\ Is(s, i, "forget", x) => ForgetOK(s, i, on)
    <3>1. ~Is(s, i, "add addr", x) /\ ~Is(s, i, "add route", x) /\ ~Is(s, i, "note", x)
      <4>1. Kind(s, i) \notin {"add addr", "add route", "note"}
        BY <1>3, <1>5
      <4> QED
        BY <4>1, Kinds
    <3>2. ASSUME Is(s, i, "forget", x)
          PROVE  ForgetOK(s, i, on)
      <4>1. i = 3
        <5>1. Kind(s, i) = "forget" /\ Arg(s, i) = x
          BY <3>2, Kinds
        <5>2. i = 3
          BY <5>1, <1>3, <1>5
        <5> QED
          BY <5>1, <5>2, <1>5
      <4>2. \A y \in on.addr : Earlier(s, 3, "del addr", y)
        <5>1. 2 \in DOMAIN s /\ 2 < 3
          BY <1>3
        <5> QED
          BY <5>1, <1>4, <2>2 DEF Earlier
      <4>3. \A y \in on.route : Earlier(s, 3, "del route", y)
        <5>1. 1 \in DOMAIN s /\ 1 < 3
          BY <1>3
        <5> QED
          BY <5>1, <1>4, <2>2 DEF Earlier
      <4> QED
        BY <4>1, <4>2, <4>3 DEF ForgetOK
    <3> QED
      BY <3>1, <3>2
  <2> QED
    BY <2>1, <2>3 DEF BridgeOK, ComingOK
<1> QED
  BY <1>1, <1>2, <1>6, <1>7, <1>8 DEF PlanOK

LEMMA TeardownPlan ==
  ASSUME NEW q \in Prefix
  PROVE  PlanOK(Off(q) \o Unconfigure, q)
<1>1. PICK s : s = Off(q) \o Unconfigure
  OBVIOUS
<1>2. /\ s \in Seq(Task) /\ Len(s) = 6
      /\ s[1] = <<"del route", q>> /\ s[2] = <<"del addr", q>>
      /\ s[3] = <<"forget", q>> /\ s[4] = <<"restore", NoPrefix>>
      /\ s[5] = <<"commit", NoPrefix>> /\ s[6] = <<"clear", NoPrefix>>
  BY <1>1, TeardownIs
<1>3. DOMAIN s = {1, 2, 3, 4, 5, 6}
  <2>1. DOMAIN s = 1..6
    BY <1>2, LenProperties
  <2> QED
    BY <2>1
<1>9. \A i \in DOMAIN s : i = 1 \/ i = 2 \/ i = 3 \/ i = 4 \/ i = 5 \/ i = 6
  BY <1>3
<1>4. /\ Is(s, 1, "del route", q) /\ Is(s, 2, "del addr", q)
      /\ Is(s, 3, "forget", q) /\ Is(s, 4, "restore", NoPrefix)
      /\ Is(s, 5, "commit", NoPrefix) /\ Is(s, 6, "clear", NoPrefix)
  BY <1>2, Zenon DEF Is
<1>5. /\ Kind(s, 1) = "del route" /\ Kind(s, 2) = "del addr"
      /\ Kind(s, 3) = "forget" /\ Kind(s, 4) = "restore"
      /\ Kind(s, 5) = "commit" /\ Kind(s, 6) = "clear"
  <2>1. Kind(s, 1) = "del route"
    BY <1>4, Kinds
  <2>2. Kind(s, 2) = "del addr"
    BY <1>4, Kinds
  <2>3. Kind(s, 3) = "forget"
    BY <1>4, Kinds
  <2>4. Kind(s, 4) = "restore"
    BY <1>4, Kinds
  <2>5. Kind(s, 5) = "commit"
    BY <1>4, Kinds
  <2>6. Kind(s, 6) = "clear"
    BY <1>4, Kinds
  <2> QED
    BY <2>1, <2>2, <2>3, <2>4, <2>5, <2>6
<1>6. InOrder(s)
  <2> SUFFICES ASSUME NEW i \in DOMAIN s, NEW j \in DOMAIN s, i < j
      PROVE  /\ Kind(s, i) \in {"add addr", "add route"} =>
                  /\ Kind(s, j) \notin {Kind(s, i), "forget"}
                  /\ Kind(s, j) = "note" => Arg(s, j) = Arg(s, i)
             /\ Kind(s, i) = "note" =>
                  Kind(s, j) \notin {"note", "forget", "add addr", "add route"}
             /\ Kind(s, i) \in {"set", "clear"} => Kind(s, j) \notin {"set", "clear", "note"}
    BY DEF InOrder
  <2>1. CASE i = 1
    <3>1. j = 2 \/ j = 3 \/ j = 4 \/ j = 5 \/ j = 6
      BY <2>1, <1>9
    <3> QED
      BY <2>1, <3>1, <1>5, Zenon
  <2>2. CASE i = 2
    <3>1. j = 3 \/ j = 4 \/ j = 5 \/ j = 6
      BY <2>2, <1>9
    <3> QED
      BY <2>2, <3>1, <1>5, Zenon
  <2>3. CASE i = 3
    <3>1. j = 4 \/ j = 5 \/ j = 6
      BY <2>3, <1>9
    <3> QED
      BY <2>3, <3>1, <1>5, Zenon
  <2>4. CASE i = 4
    <3>1. j = 5 \/ j = 6
      BY <2>4, <1>9
    <3> QED
      BY <2>4, <3>1, <1>5, Zenon
  <2>5. CASE i = 5
    <3>1. j = 6
      BY <2>5, <1>9
    <3> QED
      BY <2>5, <3>1, <1>5, Zenon
  <2>6. CASE i = 6
    <3>1. FALSE
      BY <2>6, <1>9
    <3> QED
      BY <3>1
  <2> QED
    BY <1>9, <2>1, <2>2, <2>3, <2>4, <2>5, <2>6
<1>7. \A kept, conf, own, lax : SettingOK(s, kept, conf, own, lax)
  <2>1. \A i \in DOMAIN s : Kind(s, i) # "set"
    BY <1>9, <1>5
  <2>2. ASSUME NEW i \in DOMAIN s, Kind(s, i) = "clear"
        PROVE  After(s, i, "restore") /\ After(s, i, "commit")
    <3>1. i = 6
      BY <2>2, <1>9, <1>5
    <3>2. 5 \in DOMAIN s /\ 5 < 6 /\ 4 \in DOMAIN s /\ 4 < 6
      BY <1>3
    <3> QED
      BY <3>1, <3>2, <1>5 DEF After
  <2>3. ASSUME NEW j \in DOMAIN s, Kind(s, j) = "commit"
        PROVE  After(s, j, "restore")
    <3>1. j = 5
      BY <2>3, <1>9, <1>5
    <3>2. 4 \in DOMAIN s /\ 4 < 5
      BY <1>3
    <3> QED
      BY <3>1, <3>2, <1>5 DEF After
  <2> QED
    BY <2>1, <2>2, <2>3 DEF SettingOK
<1>8. ASSUME NEW on \in OnType, on.addr \cup on.route \subseteq {q}
      PROVE  BridgeOK(s, on, q)
  <2>1. OnBridgeOK(s, on, q)
    BY <1>8 DEF OnBridgeOK
  <2>2. /\ \A y \in on.addr : y = q
        /\ \A y \in on.route : y = q
    BY <1>8
  <2>3. ASSUME NEW i \in DOMAIN s, NEW x \in Prefix
        PROVE  /\ Is(s, i, "add addr", x) => AddAddrOK(s, i, x, on)
               /\ Is(s, i, "add route", x) => AddRouteOK(s, i, x, on)
               /\ Is(s, i, "note", x) => NoteOK(s, i, x, on)
               /\ Is(s, i, "forget", x) => ForgetOK(s, i, on)
    <3>1. ~Is(s, i, "add addr", x) /\ ~Is(s, i, "add route", x) /\ ~Is(s, i, "note", x)
      <4>1. Kind(s, i) \notin {"add addr", "add route", "note"}
        BY <1>3, <1>5
      <4> QED
        BY <4>1, Kinds
    <3>2. ASSUME Is(s, i, "forget", x)
          PROVE  ForgetOK(s, i, on)
      <4>1. i = 3
        <5>1. Kind(s, i) = "forget" /\ Arg(s, i) = x
          BY <3>2, Kinds
        <5>2. i = 3
          BY <5>1, <1>3, <1>5
        <5> QED
          BY <5>1, <5>2, <1>5
      <4>2. \A y \in on.addr : Earlier(s, 3, "del addr", y)
        <5>1. 2 \in DOMAIN s /\ 2 < 3
          BY <1>3
        <5> QED
          BY <5>1, <1>4, <2>2 DEF Earlier
      <4>3. \A y \in on.route : Earlier(s, 3, "del route", y)
        <5>1. 1 \in DOMAIN s /\ 1 < 3
          BY <1>3
        <5> QED
          BY <5>1, <1>4, <2>2 DEF Earlier
      <4> QED
        BY <4>1, <4>2, <4>3 DEF ForgetOK
    <3> QED
      BY <3>1, <3>2
  <2> QED
    BY <2>1, <2>3 DEF BridgeOK, ComingOK
<1> QED
  BY <1>1, <1>2, <1>6, <1>7, <1>8 DEF PlanOK

LEMMA OnPlan ==
  ASSUME NEW p \in Prefix, NEW q, q \notin Prefix
  PROVE  PlanOK(On(p), q)
<1>1. PICK s : s = On(p)
  OBVIOUS
<1>2. /\ s \in Seq(Task) /\ Len(s) = 6
      /\ s[1] = <<"add addr", p>> /\ s[2] = <<"add route", p>>
      /\ s[3] = <<"note", p>> /\ s[4] = <<"save", NoPrefix>>
      /\ s[5] = <<"set", NoPrefix>> /\ s[6] = <<"commit", NoPrefix>>
  BY <1>1, OnIs
<1>3. DOMAIN s = {1, 2, 3, 4, 5, 6}
  <2>1. DOMAIN s = 1..6
    BY <1>2, LenProperties
  <2> QED
    BY <2>1
<1>9. \A i \in DOMAIN s : i = 1 \/ i = 2 \/ i = 3 \/ i = 4 \/ i = 5 \/ i = 6
  BY <1>3
<1>4. /\ Is(s, 1, "add addr", p) /\ Is(s, 2, "add route", p)
      /\ Is(s, 3, "note", p) /\ Is(s, 4, "save", NoPrefix)
      /\ Is(s, 5, "set", NoPrefix) /\ Is(s, 6, "commit", NoPrefix)
  BY <1>2, Zenon DEF Is
<1>5. /\ Kind(s, 1) = "add addr" /\ Arg(s, 1) = p
      /\ Kind(s, 2) = "add route" /\ Arg(s, 2) = p
      /\ Kind(s, 3) = "note" /\ Arg(s, 3) = p
      /\ Kind(s, 4) = "save" /\ Kind(s, 5) = "set"
      /\ Kind(s, 6) = "commit"
  <2>1. Kind(s, 1) = "add addr" /\ Arg(s, 1) = p
    BY <1>4, Kinds
  <2>2. Kind(s, 2) = "add route" /\ Arg(s, 2) = p
    BY <1>4, Kinds
  <2>3. Kind(s, 3) = "note" /\ Arg(s, 3) = p
    BY <1>4, Kinds
  <2>4. Kind(s, 4) = "save"
    BY <1>4, Kinds
  <2>5. Kind(s, 5) = "set"
    BY <1>4, Kinds
  <2>6. Kind(s, 6) = "commit"
    BY <1>4, Kinds
  <2> QED
    BY <2>1, <2>2, <2>3, <2>4, <2>5, <2>6
<1>6. InOrder(s)
  <2> SUFFICES ASSUME NEW i \in DOMAIN s, NEW j \in DOMAIN s, i < j
      PROVE  /\ Kind(s, i) \in {"add addr", "add route"} =>
                  /\ Kind(s, j) \notin {Kind(s, i), "forget"}
                  /\ Kind(s, j) = "note" => Arg(s, j) = Arg(s, i)
             /\ Kind(s, i) = "note" =>
                  Kind(s, j) \notin {"note", "forget", "add addr", "add route"}
             /\ Kind(s, i) \in {"set", "clear"} => Kind(s, j) \notin {"set", "clear", "note"}
    BY DEF InOrder
  <2>1. CASE i = 1
    <3>1. j = 2 \/ j = 3 \/ j = 4 \/ j = 5 \/ j = 6
      BY <2>1, <1>9
    <3> QED
      BY <2>1, <3>1, <1>5, Zenon
  <2>2. CASE i = 2
    <3>1. j = 3 \/ j = 4 \/ j = 5 \/ j = 6
      BY <2>2, <1>9
    <3> QED
      BY <2>2, <3>1, <1>5, Zenon
  <2>3. CASE i = 3
    <3>1. j = 4 \/ j = 5 \/ j = 6
      BY <2>3, <1>9
    <3> QED
      BY <2>3, <3>1, <1>5, Zenon
  <2>4. CASE i = 4
    <3>1. j = 5 \/ j = 6
      BY <2>4, <1>9
    <3> QED
      BY <2>4, <3>1, <1>5, Zenon
  <2>5. CASE i = 5
    <3>1. j = 6
      BY <2>5, <1>9
    <3> QED
      BY <2>5, <3>1, <1>5, Zenon
  <2>6. CASE i = 6
    <3>1. FALSE
      BY <2>6, <1>9
    <3> QED
      BY <3>1
  <2> QED
    BY <1>9, <2>1, <2>2, <2>3, <2>4, <2>5, <2>6
<1>7. \A kept, conf, own, lax : SettingOK(s, kept, conf, own, lax)
  <2>1. ASSUME NEW i \in DOMAIN s, Kind(s, i) = "set"
        PROVE  After(s, i, "save")
    <3>1. i = 5
      BY <2>1, <1>9, <1>5
    <3>2. 4 \in DOMAIN s /\ 4 < 5
      BY <1>3
    <3> QED
      BY <3>1, <3>2, <1>5 DEF After
  <2>2. \A i \in DOMAIN s : Kind(s, i) # "clear"
    BY <1>9, <1>5
  <2> QED
    BY <2>1, <2>2 DEF SettingOK
<1>8. ASSUME NEW on \in OnType, on.addr \cup on.route \subseteq {q}
      PROVE  BridgeOK(s, on, q)
  <2>1. OnBridgeOK(s, on, q)
    BY <1>8 DEF OnBridgeOK
  <2>2. /\ \A y \in on.addr : y = q
        /\ \A y \in on.route : y = q
    BY <1>8
  <2>3. ASSUME NEW i \in DOMAIN s, NEW x \in Prefix
        PROVE  /\ Is(s, i, "add addr", x) => AddAddrOK(s, i, x, on)
               /\ Is(s, i, "add route", x) => AddRouteOK(s, i, x, on)
               /\ Is(s, i, "note", x) => NoteOK(s, i, x, on)
               /\ Is(s, i, "forget", x) => ForgetOK(s, i, on)
    <3>1. ~Is(s, i, "forget", x)
      <4>1. Kind(s, i) \notin {"forget"}
        BY <1>3, <1>5
      <4> QED
        BY <4>1, Kinds
    <3>2. ASSUME Is(s, i, "add addr", x)
          PROVE  AddAddrOK(s, i, x, on)
      <4>1. i = 1 /\ x = p
        <5>1. Kind(s, i) = "add addr" /\ Arg(s, i) = x
          BY <3>2, Kinds
        <5>2. i = 1
          BY <5>1, <1>3, <1>5
        <5> QED
          BY <5>1, <5>2, <1>5
      <4>2. on.addr = {}
        BY <2>2 DEF OnType
      <4>3. Later(s, 1, "note", p)
        <5>1. 3 \in DOMAIN s /\ 1 < 3
          BY <1>3
        <5> QED
          BY <5>1, <1>4 DEF Later
      <4> QED
        BY <4>1, <4>2, <4>3 DEF AddAddrOK
    <3>3. ASSUME Is(s, i, "add route", x)
          PROVE  AddRouteOK(s, i, x, on)
      <4>1. i = 2 /\ x = p
        <5>1. Kind(s, i) = "add route" /\ Arg(s, i) = x
          BY <3>3, Kinds
        <5>2. i = 2
          BY <5>1, <1>3, <1>5
        <5> QED
          BY <5>1, <5>2, <1>5
      <4>2. on.route = {}
        BY <2>2 DEF OnType
      <4>3. Later(s, 2, "note", p)
        <5>1. 3 \in DOMAIN s /\ 2 < 3
          BY <1>3
        <5> QED
          BY <5>1, <1>4 DEF Later
      <4> QED
        BY <4>1, <4>2, <4>3 DEF AddRouteOK
    <3>4. ASSUME Is(s, i, "note", x)
          PROVE  NoteOK(s, i, x, on)
      <4>1. i = 3 /\ x = p
        <5>1. Kind(s, i) = "note" /\ Arg(s, i) = x
          BY <3>4, Kinds
        <5>2. i = 3
          BY <5>1, <1>3, <1>5
        <5> QED
          BY <5>1, <5>2, <1>5
      <4>2. on.addr = {}
        BY <2>2 DEF OnType
      <4>3. on.route = {}
        BY <2>2 DEF OnType
      <4> QED
        BY <4>1, <4>2, <4>3 DEF NoteOK
    <3> QED
      BY <3>1, <3>2, <3>3, <3>4
  <2> QED
    BY <2>1, <2>3 DEF BridgeOK, ComingOK
<1> QED
  BY <1>1, <1>2, <1>6, <1>7, <1>8 DEF PlanOK

LEMMA ChangePlan ==
  ASSUME NEW q \in Prefix, NEW p \in Prefix
  PROVE  PlanOK(Take(q) \o On(p), q)
<1>1. PICK s : s = Take(q) \o On(p)
  OBVIOUS
<1>2. /\ s \in Seq(Task) /\ Len(s) = 8
      /\ s[1] = <<"del route", q>> /\ s[2] = <<"del addr", q>>
      /\ s[3] = <<"add addr", p>> /\ s[4] = <<"add route", p>>
      /\ s[5] = <<"note", p>> /\ s[6] = <<"save", NoPrefix>>
      /\ s[7] = <<"set", NoPrefix>> /\ s[8] = <<"commit", NoPrefix>>
  <2>1. ChangeList(s, q, p)
    BY <1>1, ChangeIs, Zenon
  <2> QED
    BY <2>1 DEF ChangeList
<1>3. DOMAIN s = {1, 2, 3, 4, 5, 6, 7, 8}
  <2>1. DOMAIN s = 1..8
    BY <1>2, LenProperties
  <2> QED
    BY <2>1
<1>9. \A i \in DOMAIN s : i = 1 \/ i = 2 \/ i = 3 \/ i = 4 \/ i = 5 \/ i = 6 \/ i = 7 \/ i = 8
  BY <1>3
<1>4. /\ Is(s, 1, "del route", q) /\ Is(s, 2, "del addr", q)
      /\ Is(s, 3, "add addr", p) /\ Is(s, 4, "add route", p)
      /\ Is(s, 5, "note", p) /\ Is(s, 6, "save", NoPrefix)
      /\ Is(s, 7, "set", NoPrefix) /\ Is(s, 8, "commit", NoPrefix)
  BY <1>2, Zenon DEF Is
<1>5. /\ Kind(s, 1) = "del route" /\ Kind(s, 2) = "del addr"
      /\ Kind(s, 3) = "add addr" /\ Arg(s, 3) = p
      /\ Kind(s, 4) = "add route" /\ Arg(s, 4) = p
      /\ Kind(s, 5) = "note" /\ Arg(s, 5) = p
      /\ Kind(s, 6) = "save" /\ Kind(s, 7) = "set"
      /\ Kind(s, 8) = "commit"
  <2>1. Kind(s, 1) = "del route"
    BY <1>4, Kinds
  <2>2. Kind(s, 2) = "del addr"
    BY <1>4, Kinds
  <2>3. Kind(s, 3) = "add addr" /\ Arg(s, 3) = p
    BY <1>4, Kinds
  <2>4. Kind(s, 4) = "add route" /\ Arg(s, 4) = p
    BY <1>4, Kinds
  <2>5. Kind(s, 5) = "note" /\ Arg(s, 5) = p
    BY <1>4, Kinds
  <2>6. Kind(s, 6) = "save"
    BY <1>4, Kinds
  <2>7. Kind(s, 7) = "set"
    BY <1>4, Kinds
  <2>8. Kind(s, 8) = "commit"
    BY <1>4, Kinds
  <2> QED
    BY <2>1, <2>2, <2>3, <2>4, <2>5, <2>6, <2>7, <2>8
<1>6. InOrder(s)
  <2> SUFFICES ASSUME NEW i \in DOMAIN s, NEW j \in DOMAIN s, i < j
      PROVE  /\ Kind(s, i) \in {"add addr", "add route"} =>
                  /\ Kind(s, j) \notin {Kind(s, i), "forget"}
                  /\ Kind(s, j) = "note" => Arg(s, j) = Arg(s, i)
             /\ Kind(s, i) = "note" =>
                  Kind(s, j) \notin {"note", "forget", "add addr", "add route"}
             /\ Kind(s, i) \in {"set", "clear"} => Kind(s, j) \notin {"set", "clear", "note"}
    BY DEF InOrder
  <2>1. CASE i = 1
    <3>1. j = 2 \/ j = 3 \/ j = 4 \/ j = 5 \/ j = 6 \/ j = 7 \/ j = 8
      BY <2>1, <1>9
    <3> QED
      BY <2>1, <3>1, <1>5, Zenon
  <2>2. CASE i = 2
    <3>1. j = 3 \/ j = 4 \/ j = 5 \/ j = 6 \/ j = 7 \/ j = 8
      BY <2>2, <1>9
    <3> QED
      BY <2>2, <3>1, <1>5, Zenon
  <2>3. CASE i = 3
    <3>1. j = 4 \/ j = 5 \/ j = 6 \/ j = 7 \/ j = 8
      BY <2>3, <1>9
    <3> QED
      BY <2>3, <3>1, <1>5, Zenon
  <2>4. CASE i = 4
    <3>1. j = 5 \/ j = 6 \/ j = 7 \/ j = 8
      BY <2>4, <1>9
    <3> QED
      BY <2>4, <3>1, <1>5, Zenon
  <2>5. CASE i = 5
    <3>1. j = 6 \/ j = 7 \/ j = 8
      BY <2>5, <1>9
    <3> QED
      BY <2>5, <3>1, <1>5, Zenon
  <2>6. CASE i = 6
    <3>1. j = 7 \/ j = 8
      BY <2>6, <1>9
    <3> QED
      BY <2>6, <3>1, <1>5, Zenon
  <2>7. CASE i = 7
    <3>1. j = 8
      BY <2>7, <1>9
    <3> QED
      BY <2>7, <3>1, <1>5, Zenon
  <2>8. CASE i = 8
    <3>1. FALSE
      BY <2>8, <1>9
    <3> QED
      BY <3>1
  <2> QED
    BY <1>9, <2>1, <2>2, <2>3, <2>4, <2>5, <2>6, <2>7, <2>8
<1>7. \A kept, conf, own, lax : SettingOK(s, kept, conf, own, lax)
  <2>1. ASSUME NEW i \in DOMAIN s, Kind(s, i) = "set"
        PROVE  After(s, i, "save")
    <3>1. i = 7
      BY <2>1, <1>9, <1>5
    <3>2. 6 \in DOMAIN s /\ 6 < 7
      BY <1>3
    <3> QED
      BY <3>1, <3>2, <1>5 DEF After
  <2>2. \A i \in DOMAIN s : Kind(s, i) # "clear"
    BY <1>9, <1>5
  <2> QED
    BY <2>1, <2>2 DEF SettingOK
<1>8. ASSUME NEW on \in OnType, on.addr \cup on.route \subseteq {q}
      PROVE  BridgeOK(s, on, q)
  <2>1. OnBridgeOK(s, on, q)
    BY <1>8 DEF OnBridgeOK
  <2>2. /\ \A y \in on.addr : y = q
        /\ \A y \in on.route : y = q
    BY <1>8
  <2>3. ASSUME NEW i \in DOMAIN s, NEW x \in Prefix
        PROVE  /\ Is(s, i, "add addr", x) => AddAddrOK(s, i, x, on)
               /\ Is(s, i, "add route", x) => AddRouteOK(s, i, x, on)
               /\ Is(s, i, "note", x) => NoteOK(s, i, x, on)
               /\ Is(s, i, "forget", x) => ForgetOK(s, i, on)
    <3>1. ~Is(s, i, "forget", x)
      <4>1. Kind(s, i) \notin {"forget"}
        BY <1>3, <1>5
      <4> QED
        BY <4>1, Kinds
    <3>2. ASSUME Is(s, i, "add addr", x)
          PROVE  AddAddrOK(s, i, x, on)
      <4>1. i = 3 /\ x = p
        <5>1. Kind(s, i) = "add addr" /\ Arg(s, i) = x
          BY <3>2, Kinds
        <5>2. i = 3
          BY <5>1, <1>3, <1>5
        <5> QED
          BY <5>1, <5>2, <1>5
      <4>2. \A y \in on.addr : Earlier(s, 3, "del addr", y)
        <5>1. 2 \in DOMAIN s /\ 2 < 3
          BY <1>3
        <5> QED
          BY <5>1, <1>4, <2>2 DEF Earlier
      <4>3. Later(s, 3, "note", p)
        <5>1. 5 \in DOMAIN s /\ 3 < 5
          BY <1>3
        <5> QED
          BY <5>1, <1>4 DEF Later
      <4> QED
        BY <4>1, <4>2, <4>3 DEF AddAddrOK
    <3>3. ASSUME Is(s, i, "add route", x)
          PROVE  AddRouteOK(s, i, x, on)
      <4>1. i = 4 /\ x = p
        <5>1. Kind(s, i) = "add route" /\ Arg(s, i) = x
          BY <3>3, Kinds
        <5>2. i = 4
          BY <5>1, <1>3, <1>5
        <5> QED
          BY <5>1, <5>2, <1>5
      <4>2. \A y \in on.route : Earlier(s, 4, "del route", y)
        <5>1. 1 \in DOMAIN s /\ 1 < 4
          BY <1>3
        <5> QED
          BY <5>1, <1>4, <2>2 DEF Earlier
      <4>3. Later(s, 4, "note", p)
        <5>1. 5 \in DOMAIN s /\ 4 < 5
          BY <1>3
        <5> QED
          BY <5>1, <1>4 DEF Later
      <4> QED
        BY <4>1, <4>2, <4>3 DEF AddRouteOK
    <3>4. ASSUME Is(s, i, "note", x)
          PROVE  NoteOK(s, i, x, on)
      <4>1. i = 5 /\ x = p
        <5>1. Kind(s, i) = "note" /\ Arg(s, i) = x
          BY <3>4, Kinds
        <5>2. i = 5
          BY <5>1, <1>3, <1>5
        <5> QED
          BY <5>1, <5>2, <1>5
      <4>2. \A y \in on.addr : Earlier(s, 5, "del addr", y)
        <5>1. 2 \in DOMAIN s /\ 2 < 5
          BY <1>3
        <5> QED
          BY <5>1, <1>4, <2>2 DEF Earlier
      <4>3. \A y \in on.route : Earlier(s, 5, "del route", y)
        <5>1. 1 \in DOMAIN s /\ 1 < 5
          BY <1>3
        <5> QED
          BY <5>1, <1>4, <2>2 DEF Earlier
      <4> QED
        BY <4>1, <4>2, <4>3 DEF NoteOK
    <3> QED
      BY <3>1, <3>2, <3>3, <3>4
  <2> QED
    BY <2>1, <2>3 DEF BridgeOK, ComingOK
<1> QED
  BY <1>1, <1>2, <1>6, <1>7, <1>8 DEF PlanOK
LEMMA TeardownOfNothing == <<>> \o Unconfigure = Unconfigure
<1>1. Unconfigure \in Seq(Task)
  BY UnconfigureIs
<1> QED
  BY <1>1, ConcatEmptySeq, Zenon

\* Whatever a run is for and whatever it sees, what it sets out to do is in
\* order.
LEMMA Plans ==
  ASSUME NEW job \in Job, NEW view \in Views(job),
         record \in Prefix \cup {NoPrefix}
  PROVE  PlanOK(Plan(job, view), record)
<1> DEFINE q == record
<1>1. q \in Prefix \/ (q = NoPrefix /\ q \notin Prefix)
  BY LanAssumption DEF LanConstants
<1>2. PlanOK(Off(q), q)
  <2>1. CASE q \in Prefix
    BY <2>1, OffPlan
  <2>2. CASE q = NoPrefix
    BY <2>2, NothingPlan DEF Off
  <2> QED
    BY <1>1, <2>1, <2>2
<1>3. PlanOK(Off(q) \o Unconfigure, q)
  <2>1. CASE q \in Prefix
    BY <2>1, TeardownPlan, Zenon
  <2>2. CASE q = NoPrefix
    <3>1. Off(q) \o Unconfigure = Unconfigure
      BY <2>2, TeardownOfNothing, Zenon DEF Off
    <3> QED
      BY <3>1, UnconfigurePlan, Zenon
  <2> QED
    BY <1>1, <2>1, <2>2
<1>4. ASSUME NEW p \in Prefix
      PROVE  PlanOK(Applied(p), q)
  <2>1. CASE q = p /\ p \in bridge.addr
    <3>1. Applied(p) = Relay
      BY <2>1, Zenon DEF Applied
    <3> QED
      BY <3>1, RelayPlan, Zenon
  <2>2. CASE q = NoPrefix
    <3>1. q # p /\ q \notin Prefix
      BY <2>2, LanAssumption DEF LanConstants
    <3>2. Applied(p) = On(p)
      BY <2>2, <3>1, Zenon DEF Applied
    <3> QED
      BY <3>1, <3>2, OnPlan, Zenon
  <2>3. CASE ~(q = p /\ p \in bridge.addr) /\ q # NoPrefix
    <3>1. Applied(p) = Take(q) \o On(p)
      BY <2>3, Zenon DEF Applied
    <3>2. q \in Prefix
      BY <1>1, <2>3
    <3> QED
      BY <3>1, <3>2, ChangePlan, Zenon
  <2> QED
    BY <2>1, <2>2, <2>3
<1>5. CASE view \in {"no device", "other device"}
  <2>1. Plan(job, view) = <<>>
    BY <1>5, Zenon DEF Plan
  <2> QED
    BY <2>1, NothingPlan, Zenon
<1>6. CASE /\ view \notin {"no device", "other device"}
           /\ job = "withdraw" \/ view = "no prefix"
  <2>1. Plan(job, view) = Off(q)
    BY <1>6, Zenon DEF Plan
  <2> QED
    BY <2>1, <1>2, Zenon
<1>7. CASE /\ view \notin {"no device", "other device", "no prefix"}
           /\ job # "withdraw"
           /\ job = "teardown" \/ view = "disabled"
  <2>1. Plan(job, view) = Off(q) \o Unconfigure
    BY <1>7, Zenon DEF Plan
  <2> QED
    BY <2>1, <1>3, Zenon
<1>8. CASE /\ view \notin {"no device", "other device", "no prefix", "disabled"}
           /\ job # "withdraw" /\ job # "teardown"
  <2>1. Plan(job, view) = Applied(view)
    BY <1>8, Zenon DEF Plan
  <2>2. view \in Prefix
    BY <1>8 DEF Views, Job
  <2> QED
    BY <2>1, <2>2, <1>4, Zenon
<1> QED
  BY <1>5, <1>6, <1>7, <1>8

-----------------------------------------------------------------------------
(* One run moves *)

\* Only run r changes.
Becomes(r, at, todo) ==
  /\ runs' \in [RunId -> Run]
  /\ runs'[r].at = at /\ runs'[r].todo = todo
  /\ \A q \in RunId : q # r =>
       runs'[q].at = runs[q].at /\ runs'[q].todo = runs[q].todo

LEMMA NewRun ==
  ASSUME runs \in [RunId -> Run], NEW r \in RunId,
         NEW at \in Step, NEW todo \in Seq(Task),
         runs' = [runs EXCEPT ![r] = [at |-> at, todo |-> todo]]
  PROVE  Becomes(r, at, todo)
<1>1. [at |-> at, todo |-> todo] \in Run
  BY DEF Run
<1>2. PICK n \in Run : n = [at |-> at, todo |-> todo]
  BY <1>1
<1>3. runs' = [runs EXCEPT ![r] = n]
  BY <1>2
<1>4. n.at = at /\ n.todo = todo
  BY <1>2
<1> QED
  BY <1>3, <1>4 DEF Becomes

LEMMA NewPlace ==
  ASSUME runs \in [RunId -> Run], NEW r \in RunId, NEW at \in Step,
         runs' = [runs EXCEPT ![r].at = at]
  PROVE  Becomes(r, at, runs[r].todo)
<1>1. runs[r] \in Run
  OBVIOUS
<1>2. PICK n : n = [runs[r] EXCEPT !.at = at]
  OBVIOUS
<1>3. n \in Run /\ n.at = at /\ n.todo = runs[r].todo
  BY <1>1, <1>2 DEF Run
<1>4. runs' = [runs EXCEPT ![r] = n]
  BY <1>2
<1> QED
  BY <1>3, <1>4 DEF Becomes

LEMMA NewTodo ==
  ASSUME runs \in [RunId -> Run], NEW r \in RunId, NEW todo \in Seq(Task),
         runs' = [runs EXCEPT ![r].todo = todo]
  PROVE  Becomes(r, runs[r].at, todo)
<1>1. runs[r] \in Run
  OBVIOUS
<1>2. PICK n : n = [runs[r] EXCEPT !.todo = todo]
  OBVIOUS
<1>3. n \in Run /\ n.at = runs[r].at /\ n.todo = todo
  BY <1>1, <1>2 DEF Run
<1>4. runs' = [runs EXCEPT ![r] = n]
  BY <1>2
<1> QED
  BY <1>3, <1>4 DEF Becomes

LEMMA NewBoth ==
  ASSUME runs \in [RunId -> Run], NEW r \in RunId, NEW at \in Step, NEW todo \in Seq(Task),
         runs' = [runs EXCEPT ![r].at = at, ![r].todo = todo]
  PROVE  Becomes(r, at, todo)
<1>1. runs[r] \in Run
  OBVIOUS
<1>2. PICK n : n = [runs[r] EXCEPT !.at = at, !.todo = todo]
  OBVIOUS
<1>3. n \in Run /\ n.at = at /\ n.todo = todo
  BY <1>1, <1>2 DEF Run
<1>4. runs' = [runs EXCEPT ![r] = n]
  BY <1>2
<1> QED
  BY <1>3, <1>4 DEF Becomes
LEMMA NoTodo ==
  /\ <<>> \in Seq(Task) /\ InOrder(<<>>)
  /\ \A kept, conf, own, lax : SettingOK(<<>>, kept, conf, own, lax)
  /\ \A on, rec : BridgeOK(<<>>, on, rec) <=> on.addr \cup on.route \subseteq {rec}
<1>1. <<>> \in Seq(Task) /\ DOMAIN <<>> = {}
  OBVIOUS
<1>2. InOrder(<<>>)
  BY <1>1, Zenon DEF InOrder
<1>3. \A kept, conf, own, lax : SettingOK(<<>>, kept, conf, own, lax)
  BY <1>1, Zenon DEF SettingOK
<1>4. ASSUME NEW on, NEW rec
      PROVE  BridgeOK(<<>>, on, rec) <=> on.addr \cup on.route \subseteq {rec}
  BY <1>1 DEF BridgeOK, OnBridgeOK, ComingOK
<1> QED
  BY <1>1, <1>2, <1>3, <1>4

\* What holds whichever run moved and whatever it did.
LEMMA Frame ==
  ASSUME LanInv, NEW r \in RunId, NEW at \in Step, NEW todo \in Seq(Task),
         Becomes(r, at, todo), InOrder(todo), at \notin {"work", "write"} => todo = <<>>,
         at = "write" => todo # <<>> /\ Head(todo) = <<"save", NoPrefix>>
  PROVE  /\ runs' \in [RunId -> Run] /\ IdleOK' /\ OrderOK' /\ WritingOK'
         /\ Past(r)' <=> at \in {"look", "work", "write"}
         /\ \A q \in RunId : q # r => (Past(q)' <=> Past(q))
<1>1. runs' \in [RunId -> Run]
  BY DEF Becomes
<1>2. IdleOK'
  BY DEF LanInv, IdleOK, Becomes
<1>3. OrderOK'
  BY DEF LanInv, OrderOK, Becomes
<1>4. Past(r)' <=> at \in {"look", "work", "write"}
  BY DEF Becomes, Past
<1>5. \A q \in RunId : q # r => (Past(q)' <=> Past(q))
  BY DEF Becomes, Past
<1>6. WritingOK'
  BY DEF LanInv, WritingOK, Becomes
<1> QED
  BY <1>1, <1>2, <1>3, <1>4, <1>5, <1>6

\* The copy is whole still, or being written.
LEMMA StillWhole ==
  ASSUME LanInv, NEW r \in RunId, NEW at, NEW todo, Becomes(r, at, todo),
         Kept' => Kept,
         Kept' => backup' = backup \/ \A q \in RunId : Past(q) => q = r,
         Kept' /\ at = "write" => backup'.saved,
         Kept' /\ Partial(backup)' =>
           at = "write" \/ (Partial(backup) /\ runs[r].at # "write")
  PROVE  WholeOK'
<1> SUFFICES ASSUME Kept'
    PROVE  /\ Partial(backup)' => \E q \in RunId : runs'[q].at = "write"
           /\ \A q \in RunId : runs'[q].at = "write" => backup'.saved
  BY Zenon DEF WholeOK
<1>1. ASSUME Partial(backup)'
      PROVE  \E q \in RunId : runs'[q].at = "write"
  <2>1. CASE at = "write"
    BY <2>1 DEF Becomes
  <2>2. CASE Partial(backup) /\ runs[r].at # "write"
    <3>1. PICK q \in RunId : runs[q].at = "write"
      BY <2>2, Zenon DEF LanInv, WholeOK
    <3> QED
      BY <2>2, <3>1 DEF Becomes
  <2> QED
    BY <1>1, <2>1, <2>2
<1>2. ASSUME NEW q \in RunId, runs'[q].at = "write"
      PROVE  backup'.saved
  <2>1. CASE q = r
    BY <1>2, <2>1 DEF Becomes
  <2>2. CASE q # r
    <3>1. runs[q].at = "write"
      BY <1>2, <2>2 DEF Becomes
    <3>2. Past(q) /\ backup.saved
      BY <3>1, Zenon DEF Past, LanInv, WholeOK
    <3>3. backup' = backup
      BY <2>2, <3>2, Zenon
    <3> QED
      BY <3>2, <3>3
  <2> QED
    BY <2>1, <2>2
<1> QED
  BY <1>1, <1>2

\* A run past the lock that does not write finds the copy whole.
LEMMA WholeThere ==
  ASSUME LanInv, Kept, NEW r \in RunId, Past(r), runs[r].at # "write"
  PROVE  ~Partial(backup)
<1> SUFFICES ASSUME Partial(backup)
    PROVE  FALSE
  OBVIOUS
<1>1. PICK q \in RunId : runs[q].at = "write"
  BY Zenon DEF LanInv, WholeOK
<1>2. Past(q) /\ ~mishaps.shared
  BY <1>1 DEF Past, Kept
<1>3. q = r
  BY <1>2, Zenon DEF LanInv, AloneOK
<1> QED
  BY <1>1, <1>3

\* On the way to the lock.
LEMMA Quiet ==
  ASSUME LanInv, NEW r \in RunId, NEW at \in Step \ {"look", "work", "write"}, ~Past(r),
         Becomes(r, at, runs[r].todo), lock' \in Lock, LockOnly, UNCHANGED mishaps
  PROVE  LanInv'
<1>1. runs[r].todo = <<>>
  BY DEF LanInv, IdleOK, Past
<1>2. /\ runs' \in [RunId -> Run] /\ IdleOK' /\ OrderOK' /\ ~Past(r)'
      /\ WritingOK' /\ \A q \in RunId : q # r => (Past(q)' <=> Past(q))
  <2>1. at \in Step /\ at \notin {"look", "work", "write"} /\ Becomes(r, at, <<>>)
    BY <1>1
  <2> QED
    BY <2>1, NoTodo, Frame
<1>3. \A q \in RunId : (Past(q)' <=> Past(q)) /\ runs'[q].todo = runs[q].todo
  BY <1>2 DEF Becomes
<1>4. LanTypeOK'
  BY <1>2 DEF LanInv, LanTypeOK, LockOnly
<1>5. AloneOK'
  BY <1>3, Zenon DEF LanInv, AloneOK
<1>6. PrefixOK'
  <2>1. SUFFICES ASSUME Clean'
        PROVE  /\ \A q \in RunId : Past(q)' => BridgeOK(runs'[q].todo, bridge', record')
               /\ (\A q \in RunId : ~Past(q)') => OnRecord'
    BY Zenon DEF PrefixOK
  <2>2. Clean /\ (OnRecord' <=> OnRecord)
    BY <2>1 DEF Clean, OnRecord, LockOnly
  <2> QED
    BY <2>2, <1>3, Zenon DEF LanInv, PrefixOK, LockOnly
<1>7. NdpOK'
  <2>1. SUFFICES ASSUME Kept'
        PROVE  /\ KeptOK'
               /\ \A q \in RunId : Past(q)' => SettingOK(runs'[q].todo, backup', uci', user', mishaps'.refused)
    BY Zenon DEF NdpOK
  <2>2. Kept /\ (KeptOK' <=> KeptOK)
    BY <2>1 DEF Kept, KeptOK, LockOnly
  <2> QED
    BY <2>2, <1>3, Zenon DEF LanInv, NdpOK, LockOnly
<1>8. WholeOK'
  <2>1. (Kept' => Kept) /\ backup' = backup
    BY DEF Kept, LockOnly
  <2>2. runs[r].at # "write"
    BY DEF Past
  <2> QED
    BY <2>1, <2>2, StillWhole DEF Partial
<1> QED
  BY <1>2, <1>4, <1>5, <1>6, <1>7, <1>8 DEF LanInv

\* A run ends or is killed.
LEMMA Leaving ==
  ASSUME LanInv, NEW r \in RunId, Becomes(r, "off", <<>>), lock' \in Lock, LockOnly,
         mishaps' \in Mishaps, mishaps'.shared = mishaps.shared,
         mishaps'.refused = mishaps.refused, Kept' => Kept /\ runs[r].at # "write",
         Clean' => Clean /\ (Past(r) => OnRecord)
  PROVE  LanInv'
<1>1. "off" \in Step
  BY DEF Step
<1>2. /\ runs' \in [RunId -> Run] /\ IdleOK' /\ OrderOK' /\ ~Past(r)'
      /\ WritingOK' /\ \A q \in RunId : q # r => (Past(q)' <=> Past(q))
  BY <1>1, NoTodo, Frame
<1>3. \A q \in RunId : Past(q)' => Past(q) /\ runs'[q].todo = runs[q].todo
  BY <1>2 DEF Becomes
<1>4. LanTypeOK'
  BY <1>2 DEF LanInv, LanTypeOK, LockOnly
<1>5. AloneOK'
  BY <1>3, Zenon DEF LanInv, AloneOK
<1>6. PrefixOK'
  <2>1. SUFFICES ASSUME Clean'
        PROVE  /\ \A q \in RunId : Past(q)' => BridgeOK(runs'[q].todo, bridge', record')
               /\ (\A q \in RunId : ~Past(q)') => OnRecord'
    BY Zenon DEF PrefixOK
  <2>2. Clean /\ (OnRecord' <=> OnRecord)
    BY <2>1 DEF OnRecord, LockOnly
  <2>3. \A q \in RunId : Past(q)' => BridgeOK(runs'[q].todo, bridge', record')
    BY <2>2, <1>3, Zenon DEF LanInv, PrefixOK, LockOnly
  <2>4. ASSUME \A q \in RunId : ~Past(q)'
        PROVE  OnRecord
    BY <2>1, <2>2, <2>4, <1>2, Zenon DEF LanInv, PrefixOK
  <2> QED
    BY <2>2, <2>3, <2>4
<1>7. NdpOK'
  <2>1. SUFFICES ASSUME Kept'
        PROVE  /\ KeptOK'
               /\ \A q \in RunId : Past(q)' => SettingOK(runs'[q].todo, backup', uci', user', mishaps'.refused)
    BY Zenon DEF NdpOK
  <2>2. Kept /\ (KeptOK' <=> KeptOK)
    BY <2>1 DEF KeptOK, LockOnly
  <2> QED
    BY <2>2, <1>3, Zenon DEF LanInv, NdpOK, LockOnly
<1>8. WholeOK'
  <2>1. backup' = backup
    BY DEF LockOnly
  <2> QED
    BY <2>1, StillWhole DEF Partial
<1> QED
  BY <1>2, <1>4, <1>5, <1>6, <1>7, <1>8 DEF LanInv

\* A run that is past the lock takes its next step.
LEMMA Working ==
  ASSUME LanInv, NEW r \in RunId, NEW at \in {"look", "work", "write"}, NEW todo \in Seq(Task),
         Becomes(r, at, todo), InOrder(todo), at \notin {"work", "write"} => todo = <<>>,
         at = "write" => todo # <<>> /\ Head(todo) = <<"save", NoPrefix>>,
         LanTypeOK', mishaps'.cut = mishaps.cut, mishaps'.orphan = mishaps.orphan,
         mishaps'.torn = mishaps.torn,
         mishaps.shared => mishaps'.shared,
         ~mishaps'.shared => \A q \in RunId : Past(q) => q = r,
         Clean /\ ~mishaps'.shared => BridgeOK(todo, bridge', record'),
         Kept => KeptOK' /\ SettingOK(todo, backup', uci', user', mishaps'.refused),
         Kept /\ at = "write" => backup'.saved,
         Kept /\ Partial(backup)' =>
           at = "write" \/ (Partial(backup) /\ runs[r].at # "write")
  PROVE  LanInv'
<1>1. at \in Step
  BY DEF Step
<1>2. /\ IdleOK' /\ OrderOK' /\ WritingOK' /\ Past(r)'
      /\ \A q \in RunId : q # r => (Past(q)' <=> Past(q))
  BY <1>1, Frame
<1>3. ASSUME ~mishaps'.shared, NEW q \in RunId, Past(q)'
      PROVE  q = r
  BY <1>2, <1>3, Zenon
<1>4. AloneOK'
  BY <1>3, Zenon DEF AloneOK
<1>5. runs'[r].todo = todo
  BY DEF Becomes
<1>6. PrefixOK'
  <2>1. SUFFICES ASSUME Clean'
        PROVE  /\ \A q \in RunId : Past(q)' => BridgeOK(runs'[q].todo, bridge', record')
               /\ (\A q \in RunId : ~Past(q)') => OnRecord'
    BY Zenon DEF PrefixOK
  <2>2. Clean /\ ~mishaps'.shared
    BY <2>1, Zenon DEF Clean
  <2> QED
    BY <2>2, <1>2, <1>3, <1>5, Zenon
<1>7. NdpOK'
  <2>1. SUFFICES ASSUME Kept'
        PROVE  /\ KeptOK'
               /\ \A q \in RunId : Past(q)' => SettingOK(runs'[q].todo, backup', uci', user', mishaps'.refused)
    BY Zenon DEF NdpOK
  <2>2. Kept /\ ~mishaps'.shared
    BY <2>1, Zenon DEF Kept
  <2> QED
    BY <2>2, <1>3, <1>5, Zenon
<1>8. WholeOK'
  <2>1. (Kept' => Kept) /\ (Kept' => ~mishaps'.shared)
    BY Zenon DEF Kept
  <2> QED
    BY <2>1, StillWhole
<1> QED
  BY <1>2, <1>4, <1>6, <1>7, <1>8, Zenon DEF LanInv
-----------------------------------------------------------------------------
(* The steps *)

LEMMA First == LanInit => LanInv
<1> SUFFICES ASSUME LanInit
    PROVE  LanInv
  OBVIOUS
<1>1. NotRunning \in Run
  BY NoTodo DEF NotRunning, Run, Step
<1>2. /\ runs \in [RunId -> Run]
      /\ \A r \in RunId : runs[r].todo = <<>> /\ ~Past(r)
  BY <1>1 DEF LanInit, NotRunning, Past
<1>3. LanTypeOK
  BY <1>2 DEF LanInit, LanTypeOK, Lock, FreeLock, Backup, Section,
       Setting, NotSaved, Mishaps
<1>4. IdleOK /\ AloneOK /\ OrderOK /\ WritingOK /\ WholeOK
  BY <1>2, NoTodo DEF IdleOK, AloneOK, OrderOK, WritingOK, WholeOK, Past, LanInit,
     NotSaved, Partial
<1>5. PrefixOK
  BY <1>2 DEF PrefixOK, OnRecord, LanInit
<1>6. KeptOK
  BY DEF KeptOK, LanInit, NotSaved
<1> QED
  BY <1>2, <1>3, <1>4, <1>5, <1>6 DEF LanInv, NdpOK

LEMMA Approach ==
  ASSUME LanInv, NEW r \in RunId,
         \/ Launch(r) \/ MakeLock(r) \/ FindLocked(r) \/ Ask(r) \/ Reclaim(r)
         \/ GoAhead(r)
  PROVE  LanInv'
<1>1. PICK at \in Step \ {"look", "work", "write"} : StepsTo(r, at)
  BY DEF Launch, MakeLock, FindLocked, Ask, Reclaim, GoAhead, Step
<1>11. runs[r].at \in {"off", "wait", "ask", "reclaim"}
  BY DEF Launch, MakeLock, FindLocked, Ask, Reclaim, GoAhead, Running
<1>12. LockOnly /\ UNCHANGED mishaps
  BY DEF Launch, MakeLock, FindLocked, Ask, Reclaim, GoAhead
<1>2. ~Past(r) /\ LockOnly /\ UNCHANGED mishaps
  <2>1. ~Past(r)
    BY <1>11 DEF Past
  <2> QED
    BY <1>12, <2>1, Zenon
<1>3. lock' \in Lock
  <2>1. \/ lock' = [held |-> TRUE, pid |-> NoPid]
        \/ lock' = [held |-> FALSE, pid |-> NoPid]
        \/ lock' = lock
    BY DEF Launch, MakeLock, FindLocked, Ask, Reclaim, GoAhead, FreeLock
  <2>2. lock \in Lock
    BY DEF LanInv, LanTypeOK
  <2> QED
    <3>1. ASSUME NEW h \in BOOLEAN, lock' = [held |-> h, pid |-> NoPid]
          PROVE  lock' \in Lock
      BY <3>1 DEF Lock
    <3> QED
      BY <2>1, <2>2, <3>1
<1>4. Becomes(r, at, runs[r].todo)
  BY <1>1, NewPlace DEF LanInv, LanTypeOK, StepsTo
<1> QED
  BY <1>2, <1>3, <1>4, Quiet

LEMMA Ends ==
  ASSUME LanInv, NEW r \in RunId, runs' = [runs EXCEPT ![r] = NotRunning]
  PROVE  Becomes(r, "off", <<>>)
<1>1. runs \in [RunId -> Run] /\ "off" \in Step
  BY DEF LanInv, LanTypeOK, Step
<1> QED
  BY <1>1, NoTodo, NewRun DEF NotRunning

\* What is on the bridge when nobody has anything left to do.
LEMMA NothingLeft ==
  ASSUME LanInv, Clean, NEW r \in RunId, Past(r), runs[r].todo = <<>>
  PROVE  OnRecord
<1>1. BridgeOK(<<>>, bridge, record)
  BY DEF LanInv, PrefixOK
<1> QED
  BY <1>1, NoTodo DEF OnRecord

LEMMA ClaimStep ==
  ASSUME LanInv, NEW r \in RunId, ClaimLock(r)
  PROVE  LanInv'
<1>1. runs[r].at = "claim" /\ LockOnly /\ runs[r].todo = <<>> /\ ~Past(r)
  BY DEF ClaimLock, LanInv, IdleOK, Past
<1>2. CASE ~lock.held
  <2>1. runs' = [runs EXCEPT ![r] = NotRunning] /\ UNCHANGED <<lock, mishaps>>
    BY <1>2 DEF ClaimLock
  <2>2. Becomes(r, "off", <<>>)
    BY <2>1, Ends
  <2>3. /\ lock' \in Lock
        /\ mishaps' \in Mishaps /\ mishaps'.shared = mishaps.shared
        /\ mishaps'.refused = mishaps.refused
    BY <2>1 DEF LanInv, LanTypeOK
  <2>4. (Clean' => Clean) /\ (Kept' => Kept)
    BY <2>1, Zenon DEF Clean, Kept
  <2> QED
    BY <1>1, <2>2, <2>3, <2>4, Leaving
<1>3. CASE lock.held
  <2>1. /\ lock' = [lock EXCEPT !.pid = r] /\ StepsTo(r, "look")
        /\ mishaps' = [mishaps EXCEPT !.shared = @ \/ \E q \in RunId : Past(q)]
    BY <1>3 DEF ClaimLock
  <2>2. Becomes(r, "look", <<>>)
    <3>1. "look" \in Step /\ runs \in [RunId -> Run]
      BY DEF Step, LanInv, LanTypeOK
    <3> QED
      BY <1>1, <2>1, <3>1, NewPlace DEF StepsTo
  <2>3. lock' \in Lock
    BY <2>1 DEF LanInv, LanTypeOK, Lock
  <2>4. /\ mishaps' \in Mishaps
        /\ mishaps'.cut = mishaps.cut /\ mishaps'.orphan = mishaps.orphan
        /\ mishaps'.torn = mishaps.torn /\ mishaps'.refused = mishaps.refused
        /\ mishaps'.shared <=> mishaps.shared \/ \E q \in RunId : Past(q)
    <3>1. PICK b \in BOOLEAN : b <=> mishaps.shared \/ \E q \in RunId : Past(q)
      OBVIOUS
    <3>2. mishaps \in Mishaps
      BY DEF LanInv, LanTypeOK
    <3>3. mishaps' = [mishaps EXCEPT !.shared = b]
      BY <2>1, <3>1, <3>2
    <3>4. mishaps'.shared = b
      BY <3>2, <3>3 DEF Mishaps
    <3> QED
      BY <3>1, <3>2, <3>3, <3>4 DEF Mishaps
  <2>5. LanTypeOK'
    BY <1>1, <2>2, <2>3, <2>4 DEF LanInv, LanTypeOK, LockOnly, Becomes
  <2>6. Clean' => OnRecord
    BY <2>4 DEF Clean, LanInv, PrefixOK
  <2>7. ASSUME Clean, ~mishaps'.shared
        PROVE  BridgeOK(<<>>, bridge', record')
    BY <1>1, <2>4, <2>6, <2>7, NoTodo DEF OnRecord, LockOnly, Clean
  <2> QED
    <3>1. Kept => KeptOK' /\ SettingOK(<<>>, backup', uci', user', mishaps'.refused)
      BY <1>1, <2>4, NoTodo DEF LanInv, NdpOK, KeptOK, LockOnly
    <3>2. ~mishaps'.shared => \A q \in RunId : Past(q) => q = r
      BY <2>4
    <3>3. Partial(backup)' <=> Partial(backup)
      BY <1>1 DEF Partial, LockOnly
    <3> QED
      BY <1>1, <2>2, <2>4, <2>5, <2>7, <3>1, <3>2, <3>3, NoTodo, Working
<1> QED
  BY <1>2, <1>3

LEMMA FinishStep ==
  ASSUME LanInv, NEW r \in RunId, Finish(r)
  PROVE  LanInv'
<1>1. /\ Past(r) /\ runs[r].todo = <<>> /\ LockOnly /\ UNCHANGED mishaps
      /\ runs[r].at # "write" /\ runs' = [runs EXCEPT ![r] = NotRunning]
  BY DEF Finish, Past
<1>2. lock' \in Lock
  BY DEF Finish, Lock, FreeLock
<1>3. Clean' => Clean /\ OnRecord
  BY <1>1, NothingLeft DEF Clean
<1>4. /\ mishaps' \in Mishaps /\ mishaps'.shared = mishaps.shared
      /\ mishaps'.refused = mishaps.refused /\ (Kept' => Kept)
  BY <1>1 DEF LanInv, LanTypeOK, Kept
<1> QED
  BY <1>1, <1>2, <1>3, <1>4, Ends, Leaving

LEMMA KillStep ==
  ASSUME LanInv, NEW r \in RunId, KillRun(r)
  PROVE  LanInv'
<1>1. LockOnly /\ runs' = [runs EXCEPT ![r] = NotRunning]
  BY DEF KillRun
<1>2. lock' \in Lock
  BY DEF KillRun, Lock, LanInv, LanTypeOK
<1>3. /\ mishaps' \in Mishaps /\ mishaps'.shared = mishaps.shared
      /\ mishaps'.cut = mishaps.cut /\ mishaps'.refused = mishaps.refused
      /\ mishaps'.orphan <=> mishaps.orphan \/ Unnoted(r)
      /\ mishaps'.torn <=> mishaps.torn \/ runs[r].at = "write"
  <2>1. PICK b \in BOOLEAN : b <=> mishaps.orphan \/ Unnoted(r)
    OBVIOUS
  <2>2. PICK d \in BOOLEAN : d <=> mishaps.torn \/ runs[r].at = "write"
    OBVIOUS
  <2>3. mishaps \in Mishaps
    BY DEF LanInv, LanTypeOK
  <2>4. mishaps' = [mishaps EXCEPT !.orphan = b, !.torn = d]
    BY <2>1, <2>2, <2>3 DEF KillRun, Mishaps
  <2>5. mishaps'.orphan = b /\ mishaps'.torn = d /\ mishaps' \in Mishaps
    BY <2>3, <2>4 DEF Mishaps
  <2>6. /\ mishaps'.shared = mishaps.shared /\ mishaps'.cut = mishaps.cut
        /\ mishaps'.refused = mishaps.refused
    BY <2>3, <2>4 DEF Mishaps
  <2> QED
    BY <2>1, <2>2, <2>5, <2>6
<1>6. Kept' => Kept /\ runs[r].at # "write"
  BY <1>3, Zenon DEF Kept
<1>4. ASSUME Clean'
      PROVE  Clean
  BY <1>3, <1>4 DEF Clean
<1>5. ASSUME Clean', Past(r)
      PROVE  OnRecord
  <2>1. BridgeOK(runs[r].todo, bridge, record)
    BY <1>4, <1>5, Zenon DEF LanInv, PrefixOK
  <2>2. ASSUME NEW p \in bridge.addr \cup bridge.route, p # record
        PROVE  FALSE
    <3>1. PICK i \in DOMAIN runs[r].todo : Is(runs[r].todo, i, "note", p)
      BY <2>1, <2>2, Zenon DEF BridgeOK, OnBridgeOK
    <3>2. p \in Prefix
      BY <2>2 DEF LanInv, LanTypeOK
    <3>3. Unnoted(r)
      BY <2>2, <3>1, <3>2, Zenon DEF Unnoted, Is
    <3> QED
      BY <1>3, <1>5, <3>3, Zenon DEF Clean
  <2> QED
    BY <2>2 DEF OnRecord
<1> QED
  BY <1>1, <1>2, <1>3, <1>4, <1>5, <1>6, Ends, Leaving

LEMMA LookStep ==
  ASSUME LanInv, NEW r \in RunId, LookAround(r)
  PROVE  LanInv'
<1>1. /\ runs[r].at = "look" /\ runs[r].todo = <<>> /\ Past(r)
      /\ LockOnly /\ UNCHANGED <<lock, mishaps>>
  BY DEF LookAround, LanInv, IdleOK, Past
<1>11. PICK job \in Job : \E view \in Views(job) :
        runs' = [runs EXCEPT ![r].at = "work", ![r].todo = Plan(job, view)]
  BY DEF LookAround
<1>2. PICK view \in Views(job) :
        runs' = [runs EXCEPT ![r].at = "work", ![r].todo = Plan(job, view)]
  BY <1>11
<1>3. PICK s : s = Plan(job, view)
  OBVIOUS
<1>4. PlanOK(s, record)
  BY <1>3, Plans, Zenon DEF LanInv, LanTypeOK
<1>5. /\ s \in Seq(Task) /\ InOrder(s)
      /\ \A kept, conf, own, lax : SettingOK(s, kept, conf, own, lax)
  BY <1>4, Zenon DEF PlanOK
<1>6. Becomes(r, "work", s)
  <2>1. "work" \in Step /\ runs \in [RunId -> Run]
    BY DEF Step, LanInv, LanTypeOK
  <2> QED
    BY <1>2, <1>3, <1>5, <2>1, NewBoth, Zenon
<1>7. Clean => BridgeOK(s, bridge, record)
  <2>1. ASSUME Clean
        PROVE  BridgeOK(s, bridge, record)
    <3>1. OnRecord
      BY <1>1, <2>1, NothingLeft
    <3>2. bridge \in OnType
      BY DEF LanInv, LanTypeOK, OnType
    <3> QED
      BY <1>4, <3>1, <3>2, Zenon DEF PlanOK, OnRecord
  <2> QED
    BY <2>1
<1>8. Kept => KeptOK' /\ SettingOK(s, backup', uci', user', mishaps'.refused)
  BY <1>1, <1>5 DEF LanInv, NdpOK, KeptOK, LockOnly
<1>9. LanTypeOK'
  BY <1>1, <1>6 DEF LanInv, LanTypeOK, LockOnly, Becomes
<1>10. ~mishaps.shared => \A q \in RunId : Past(q) => q = r
  BY <1>1, Zenon DEF LanInv, AloneOK
<1>12. /\ mishaps'.cut = mishaps.cut /\ mishaps'.orphan = mishaps.orphan
       /\ mishaps'.shared = mishaps.shared /\ mishaps'.torn = mishaps.torn
       /\ bridge' = bridge /\ record' = record /\ backup' = backup
  BY <1>1 DEF LockOnly
<1>13. Kept /\ Partial(backup)' => Partial(backup) /\ runs[r].at # "write"
  BY <1>1, <1>12 DEF Partial
<1> QED
  BY <1>5, <1>6, <1>7, <1>8, <1>9, <1>10, <1>12, <1>13, Working

Config == [set : Section, committed : Section]

\* A command is done: what is left of the list is still right for what the
\* command made of the bridge, the record and the configuration.
LEMMA Command ==
  ASSUME LanInv, NEW r \in RunId, runs[r].at = "work", NEW todo \in Seq(Task),
         InOrder(todo), Then(r, todo),
         bridge' \in OnType, record' \in Prefix \cup {NoPrefix},
         uci' \in Config, backup' \in Backup,
         Clean => BridgeOK(todo, bridge', record'),
         Kept => KeptOK' /\ SettingOK(todo, backup', uci', user, mishaps.refused),
         backup' = backup \/ ~Partial(backup)'
  PROVE  LanInv'
<1>1. /\ runs' = [runs EXCEPT ![r].todo = todo]
      /\ lock' = lock /\ user' = user /\ mishaps' = mishaps
  BY DEF Then
<1>2. Becomes(r, "work", todo)
  <2>1. Becomes(r, runs[r].at, todo)
    BY <1>1, NewTodo DEF LanInv, LanTypeOK
  <2> QED
    BY <2>1
<1>3. LanTypeOK'
  BY <1>1, <1>2 DEF LanInv, LanTypeOK, Becomes, OnType, Config
<1>4. ~mishaps.shared => \A q \in RunId : Past(q) => q = r
  <2>1. Past(r)
    BY DEF Past
  <2> QED
    BY <2>1, Zenon DEF LanInv, AloneOK
<1>5. /\ mishaps'.cut = mishaps.cut /\ mishaps'.orphan = mishaps.orphan
      /\ mishaps'.shared = mishaps.shared /\ mishaps'.torn = mishaps.torn
      /\ mishaps'.refused = mishaps.refused
  BY <1>1
<1>6. Partial(backup)' => Partial(backup) /\ runs[r].at # "write"
  BY DEF Partial
<1> QED
  BY <1>1, <1>2, <1>3, <1>4, <1>5, <1>6, Working

\* What is known when a run does its next command.
Ready(s, t) ==
  /\ s \in Seq(Task) /\ t \in Seq(Task) /\ t = Tail(s) /\ Rest(s, t)
  /\ InOrder(s) /\ InOrder(t)
  /\ Clean => BridgeOK(s, bridge, record)
  /\ Kept => KeptOK /\ SettingOK(s, backup, uci, user, mishaps.refused)

LEMMA Readies ==
  ASSUME LanInv, NEW r \in RunId, NEW what, NEW p, Does(r, what, p)
  PROVE  \E s, t : /\ s = runs[r].todo /\ Ready(s, t) /\ Is(s, 1, what, p)
                   /\ Kind(s, 1) = what
<1>1. PICK s : s = runs[r].todo
  OBVIOUS
<1>2. PICK t : t = Tail(s)
  OBVIOUS
<1>3. s \in Seq(Task) /\ s # <<>> /\ Head(s) = <<what, p>> /\ InOrder(s)
  <2>1. runs[r] \in Run
    BY DEF LanInv, LanTypeOK
  <2> QED
    BY <1>1, <2>1 DEF LanInv, OrderOK, Does, Run
<1>4. Rest(s, t) /\ t \in Seq(Task) /\ Is(s, 1, what, p)
  BY <1>2, <1>3, TailRest, Zenon
<1>5. InOrder(t) /\ Kind(s, 1) = what
  BY <1>3, <1>4, RestInOrder, Kinds
<1>6. Past(r)
  BY DEF Does, Past
<1>7. Clean => BridgeOK(s, bridge, record)
  BY <1>1, <1>6, Zenon DEF LanInv, PrefixOK
<1>8. Kept => KeptOK /\ SettingOK(s, backup, uci, user, mishaps.refused)
  BY <1>1, <1>6, Zenon DEF LanInv, NdpOK
<1> QED
  BY <1>1, <1>2, <1>3, <1>4, <1>5, <1>7, <1>8 DEF Ready

LEMMA OneThing ==
  ASSUME LanInv, NEW r \in RunId, NEW what, NEW p, NEW other, NEW q,
         Does(r, what, p), Does(r, other, q)
  PROVE  what = other /\ p = q
<1>1. PICK s, t : s = runs[r].todo /\ Ready(s, t) /\ Is(s, 1, what, p)
  BY Readies
<1>2. Is(s, 1, other, q)
  BY <1>1, Readies
<1> QED
  BY <1>1, <1>2, Kinds

LEMMA StatesAre ==
  ASSUME LanInv
  PROVE  /\ bridge \in OnType /\ record \in Prefix \cup {NoPrefix}
         /\ uci \in Config /\ backup \in Backup /\ user \in UserNdp
BY DEF LanInv, LanTypeOK, OnType, Config

\* A command that has nothing to do with the LAN section.
LEMMA Elsewhere ==
  ASSUME NEW s, NEW t, Ready(s, t), Kept, UNCHANGED <<uci, backup, user, mishaps>>,
         Kind(s, 1) \notin {"save", "restore", "commit"}
  PROVE  KeptOK' /\ SettingOK(t, backup', uci', user, mishaps.refused)
<1>1. KeptOK /\ SettingOK(s, backup, uci, user, mishaps.refused) /\ Rest(s, t)
  BY DEF Ready
<1>2. KeptOK'
  BY <1>1 DEF KeptOK
<1>3. /\ SavedStays(s, t, backup, backup)
      /\ PlaceStays(s, t, uci, uci, user, mishaps.refused, mishaps.refused)
  BY Zenon DEF SavedStays, PlaceStays
<1>4. SettingOK(t, backup, uci, user, mishaps.refused)
  BY <1>1, <1>3, Turning
<1> QED
  BY <1>2, <1>4

LEMMA OffStep ==
  ASSUME LanInv, NEW r \in RunId, OffBridge(r)
  PROVE  LanInv'
<1>1. PICK p \in Prefix :
        /\ \/ /\ Does(r, "del route", p)
              /\ bridge' = [bridge EXCEPT !.route = @ \ {p}]
           \/ /\ Does(r, "del addr", p)
              /\ bridge' = [bridge EXCEPT !.addr = @ \ {p}]
        /\ Done(r) /\ UNCHANGED <<record, uci, backup>>
  BY DEF OffBridge
<1>2. PICK what \in {"del route", "del addr"} :
        /\ Does(r, what, p)
        /\ what = "del route" => bridge' = [bridge EXCEPT !.route = @ \ {p}]
        /\ what = "del addr" => bridge' = [bridge EXCEPT !.addr = @ \ {p}]
  BY <1>1
<1>3. PICK s, t : /\ s = runs[r].todo /\ Ready(s, t) /\ Is(s, 1, what, p)
                  /\ Kind(s, 1) = what
  BY <1>2, Readies
<1>4. /\ bridge' \in OnType
      /\ bridge'.addr \subseteq bridge.addr /\ bridge'.route \subseteq bridge.route
      /\ what = "del route" => p \notin bridge'.route
      /\ what = "del addr" => p \notin bridge'.addr
  BY <1>2, StatesAre DEF OnType
<1>5. /\ \A x \in bridge'.addr : ~Is(s, 1, "del addr", x)
      /\ \A x \in bridge'.route : ~Is(s, 1, "del route", x)
  <2>1. ASSUME NEW w, NEW x, Is(s, 1, w, x)
        PROVE  w = what /\ x = p
    BY <1>3, <2>1, Kinds
  <2> QED
    BY <1>4, <2>1
<1>6. Clean => BridgeOK(t, bridge', record')
  <2>1. ASSUME Clean
        PROVE  BridgeOK(t, bridge', record)
    <3>1. Rest(s, t) /\ BridgeOK(s, bridge, record) /\ bridge \in OnType
      BY <1>3, <2>1, StatesAre DEF Ready
    <3>2. Kind(s, 1) \notin {"add addr", "add route", "note", "forget"}
      BY <1>3
    <3> QED
      BY <1>4, <1>5, <3>1, <3>2, Taking
  <2> QED
    BY <1>1, <2>1
<1>7. Kept => KeptOK' /\ SettingOK(t, backup', uci', user, mishaps.refused)
  BY <1>1, <1>3, Elsewhere DEF Done, Then
<1>8. /\ runs[r].at = "work" /\ Then(r, t) /\ t \in Seq(Task) /\ InOrder(t)
  BY <1>1, <1>2, <1>3 DEF Does, Done, Ready
<1> QED
  BY <1>1, <1>4, <1>6, <1>7, <1>8, StatesAre, Command

LEMMA RecordStep ==
  ASSUME LanInv, NEW r \in RunId, Records(r)
  PROVE  LanInv'
<1>1. PICK p \in Prefix :
        /\ \/ Does(r, "note", p) /\ record' = p
           \/ Does(r, "forget", p) /\ record' = NoPrefix
        /\ Done(r) /\ UNCHANGED <<bridge, uci, backup>>
  BY DEF Records
<1>2. PICK what \in {"note", "forget"} :
        /\ Does(r, what, p)
        /\ what = "note" => record' = p
        /\ what = "forget" => record' = NoPrefix
  BY <1>1
<1>3. PICK s, t : /\ s = runs[r].todo /\ Ready(s, t) /\ Is(s, 1, what, p)
                  /\ Kind(s, 1) = what
  BY <1>2, Readies
<1>4. ASSUME Clean
      PROVE  BridgeOK(t, bridge, record')
  <2>1. /\ Rest(s, t) /\ BridgeOK(s, bridge, record) /\ bridge \in OnType
        /\ InOrder(s)
    BY <1>3, <1>4, StatesAre DEF Ready
  <2>2. CASE what = "note"
    BY <1>2, <1>3, <2>1, <2>2, Noting
  <2>3. CASE what = "forget"
    BY <1>2, <1>3, <2>1, <2>3, Forgetting
  <2> QED
    BY <2>2, <2>3
<1>5. Kept => KeptOK' /\ SettingOK(t, backup', uci', user, mishaps.refused)
  BY <1>1, <1>3, Elsewhere DEF Done, Then
<1>6. /\ runs[r].at = "work" /\ Then(r, t) /\ t \in Seq(Task) /\ InOrder(t)
  BY <1>1, <1>2, <1>3 DEF Does, Done, Ready
<1>7. record' \in Prefix \cup {NoPrefix}
  BY <1>1
<1> QED
  BY <1>1, <1>4, <1>5, <1>6, <1>7, StatesAre, Command

LEMMA OneCommand ==
  ASSUME NEW p \in Prefix
  PROVE  /\ <<<<"del addr", p>>>> \in Seq(Task) /\ InOrder(<<<<"del addr", p>>>>)
         /\ \A kept, conf, own, lax : SettingOK(<<<<"del addr", p>>>>, kept, conf, own, lax)
<1>1. PICK s : s = <<<<"del addr", p>>>>
  OBVIOUS
<1>2. s \in Seq(Task) /\ Len(s) = 1 /\ s[1] = <<"del addr", p>>
  BY <1>1, Words, OneTask DEF Word
<1>3. \A i \in DOMAIN s : i = 1
  <2>1. DOMAIN s = 1..1
    BY <1>2, LenProperties
  <2> QED
    BY <2>1
<1>4. InOrder(s)
  <2>1. \A i, j \in DOMAIN s : ~(i < j)
    BY <1>3
  <2> QED
    BY <2>1, Zenon DEF InOrder
<1>5. Kind(s, 1) = "del addr"
  <2>1. Is(s, 1, "del addr", p)
    BY <1>2, Zenon DEF Is
  <2> QED
    BY <2>1, Kinds
<1>6. \A kept, conf, own, lax : SettingOK(s, kept, conf, own, lax)
  <2>1. \A i \in DOMAIN s : Kind(s, i) # "set" /\ Kind(s, i) # "clear"
    BY <1>3, <1>5
  <2> QED
    BY <2>1, Zenon DEF SettingOK
<1> QED
  BY <1>1, <1>2, <1>4, <1>6

LEMMA OnStep ==
  ASSUME LanInv, NEW r \in RunId, OnBridge(r)
  PROVE  LanInv'
<1>1. PICK p \in Prefix :
        /\ \/ /\ Does(r, "add addr", p)
              /\ bridge' = [bridge EXCEPT !.addr = @ \cup {p}]
              /\ IF p \in bridge.addr THEN Then(r, <<>>) ELSE Done(r)
           \/ /\ Does(r, "add route", p)
              /\ bridge' = [bridge EXCEPT !.route = @ \cup {p}]
              /\ IF p \in bridge.route THEN Then(r, <<<<"del addr", p>>>>)
                 ELSE Done(r)
        /\ UNCHANGED <<record, uci, backup>>
  BY DEF OnBridge
<1>2. bridge \in OnType
  BY StatesAre
<1>3. CASE Does(r, "add addr", p)
  <2>1. PICK s, t : /\ s = runs[r].todo /\ Ready(s, t) /\ Is(s, 1, "add addr", p)
                    /\ Kind(s, 1) = "add addr"
    BY <1>3, Readies
  <2>2. ~Does(r, "add route", p)
    BY <1>3, OneThing
  <2>3. /\ bridge' \in OnType
        /\ bridge'.addr = bridge.addr \cup {p} /\ bridge'.route = bridge.route
    BY <1>1, <1>2, <2>2 DEF OnType
  <2>4. ASSUME Clean
        PROVE  p \notin bridge.addr /\ BridgeOK(t, bridge', record')
    <3>1. Rest(s, t) /\ BridgeOK(s, bridge, record) /\ InOrder(s)
      BY <2>1, <2>4 DEF Ready
    <3>2. bridge.addr = {}
      BY <2>1, <3>1, NothingThere
    <3>3. BridgeOK(t, bridge', record)
      BY <1>2, <2>1, <2>3, <3>1, AddingAddr
    <3> QED
      BY <1>1, <3>2, <3>3
  <2>5. CASE p \in bridge.addr
    <3>1. Then(r, <<>>)
      BY <1>1, <2>2, <2>5
    <3>2. Kept => KeptOK' /\ SettingOK(<<>>, backup', uci', user, mishaps.refused)
      <4>1. Kept => KeptOK
        BY <2>1 DEF Ready
      <4> QED
        BY <1>1, <3>1, <4>1, NoTodo DEF KeptOK, Then
    <3>3. runs[r].at = "work" /\ ~Clean
      BY <1>3, <2>4, <2>5 DEF Does
    <3> QED
      BY <1>1, <2>3, <3>1, <3>2, <3>3, NoTodo, StatesAre, Command
  <2>6. CASE p \notin bridge.addr
    <3>1. Then(r, t) /\ runs[r].at = "work" /\ t \in Seq(Task) /\ InOrder(t)
      BY <1>1, <1>3, <2>1, <2>2, <2>6 DEF Done, Does, Ready
    <3>2. Kept => KeptOK' /\ SettingOK(t, backup', uci', user, mishaps.refused)
      BY <1>1, <2>1, <3>1, Elsewhere DEF Then
    <3> QED
      BY <1>1, <2>3, <2>4, <3>1, <3>2, StatesAre, Command
  <2> QED
    BY <2>5, <2>6
<1>4. CASE Does(r, "add route", p)
  <2>1. PICK s, t : /\ s = runs[r].todo /\ Ready(s, t) /\ Is(s, 1, "add route", p)
                    /\ Kind(s, 1) = "add route"
    BY <1>4, Readies
  <2>2. ~Does(r, "add addr", p)
    BY <1>4, OneThing
  <2>3. /\ bridge' \in OnType
        /\ bridge'.route = bridge.route \cup {p} /\ bridge'.addr = bridge.addr
    BY <1>1, <1>2, <2>2 DEF OnType
  <2>4. ASSUME Clean
        PROVE  p \notin bridge.route /\ BridgeOK(t, bridge', record')
    <3>1. Rest(s, t) /\ BridgeOK(s, bridge, record) /\ InOrder(s)
      BY <2>1, <2>4 DEF Ready
    <3>2. bridge.route = {}
      BY <2>1, <3>1, NothingThere
    <3>3. BridgeOK(t, bridge', record)
      BY <1>2, <2>1, <2>3, <3>1, AddingRoute
    <3> QED
      BY <1>1, <3>2, <3>3
  <2>5. CASE p \in bridge.route
    <3>1. Then(r, <<<<"del addr", p>>>>)
      BY <1>1, <2>2, <2>5
    <3>2. PICK u : u = <<<<"del addr", p>>>>
      OBVIOUS
    <3>3. /\ u \in Seq(Task) /\ InOrder(u)
          /\ \A kept, conf, own, lax : SettingOK(u, kept, conf, own, lax)
      BY <3>2, OneCommand
    <3>4. Then(r, u)
      BY <3>1, <3>2
    <3>5. Kept => KeptOK' /\ SettingOK(u, backup', uci', user, mishaps.refused)
      <4>1. Kept => KeptOK
        BY <2>1 DEF Ready
      <4> QED
        BY <1>1, <3>4, <3>3, <4>1 DEF KeptOK, Then
    <3>6. runs[r].at = "work" /\ ~Clean
      BY <1>4, <2>4, <2>5 DEF Does
    <3> QED
      BY <1>1, <2>3, <3>3, <3>4, <3>5, <3>6, StatesAre, Command
  <2>6. CASE p \notin bridge.route
    <3>1. Then(r, t) /\ runs[r].at = "work" /\ t \in Seq(Task) /\ InOrder(t)
      BY <1>1, <1>4, <2>1, <2>2, <2>6 DEF Done, Does, Ready
    <3>2. Kept => KeptOK' /\ SettingOK(t, backup', uci', user, mishaps.refused)
      BY <1>1, <2>1, <3>1, Elsewhere DEF Then
    <3> QED
      BY <1>1, <2>3, <2>4, <3>1, <3>2, StatesAre, Command
  <2> QED
    BY <2>5, <2>6
<1> QED
  BY <1>1, <1>3, <1>4

\* A command on the LAN section leaves the bridge as it is.
LEMMA BesideBridge ==
  ASSUME LanInv, NEW s, NEW t, Ready(s, t), Clean, UNCHANGED <<bridge, record>>,
         Kind(s, 1) \in {"save", "set", "commit", "restore", "clear"}
  PROVE  BridgeOK(t, bridge', record')
<1>1. Rest(s, t) /\ BridgeOK(s, bridge, record) /\ bridge \in OnType
  BY StatesAre DEF Ready
<1>2. /\ \A x \in bridge.addr : ~Is(s, 1, "del addr", x)
      /\ \A x \in bridge.route : ~Is(s, 1, "del route", x)
  <2>1. \A what, x : Is(s, 1, what, x) => Kind(s, 1) = what
    BY Kinds
  <2>2. Kind(s, 1) # "del addr" /\ Kind(s, 1) # "del route"
    OBVIOUS
  <2> QED
    BY <2>1, <2>2, Zenon
<1>3. Kind(s, 1) \notin {"add addr", "add route", "note", "forget"}
  OBVIOUS
<1>4. BridgeOK(t, bridge, record)
  BY <1>1, <1>2, <1>3, Taking
<1> QED
  BY <1>4

\* A run past the lock changes its place or its list and nothing but the copy.
LEMMA CopyStep ==
  ASSUME LanInv, NEW r \in RunId, Past(r), NEW at \in {"work", "write"},
         NEW todo \in Seq(Task), Becomes(r, at, todo), InOrder(todo),
         at = "write" => todo # <<>> /\ Head(todo) = <<"save", NoPrefix>>,
         backup' \in Backup, UNCHANGED <<lock, bridge, record, uci, user, mishaps>>,
         Clean => BridgeOK(todo, bridge, record),
         Kept => KeptOK' /\ SettingOK(todo, backup', uci, user, mishaps.refused),
         Kept /\ at = "write" => backup'.saved,
         Kept /\ Partial(backup)' => at = "write"
  PROVE  LanInv'
<1>1. LanTypeOK'
  BY DEF LanInv, LanTypeOK, Becomes
<1>2. ~mishaps.shared => \A q \in RunId : Past(q) => q = r
  BY Zenon DEF LanInv, AloneOK
<1>3. at \in {"look", "work", "write"} /\ (at \notin {"work", "write"} => todo = <<>>)
  OBVIOUS
<1>4. /\ mishaps'.cut = mishaps.cut /\ mishaps'.orphan = mishaps.orphan
      /\ mishaps'.shared = mishaps.shared /\ mishaps'.torn = mishaps.torn
      /\ mishaps'.refused = mishaps.refused
  OBVIOUS
<1> QED
  BY <1>1, <1>2, <1>3, <1>4, Working

LEMMA SaveStep ==
  ASSUME LanInv, NEW r \in RunId, Saves(r)
  PROVE  LanInv'
<1>1. /\ Does(r, "save", NoPrefix) /\ runs[r].at = "work" /\ Past(r)
      /\ UNCHANGED <<lock, bridge, record, uci, user, mishaps>>
  BY DEF Saves, Does, Past
<1>2. PICK s, t : /\ s = runs[r].todo /\ Ready(s, t) /\ Kind(s, 1) = "save"
  BY <1>1, Readies
<1>3. runs \in [RunId -> Run]
  BY DEF LanInv, LanTypeOK
<1>4. CASE ToSave
  <2>1. /\ backup' = [saved |-> TRUE, lines |-> 0, ndp |-> uci.set.ndp]
        /\ StepsTo(r, "write") /\ ~backup.saved
    BY <1>4 DEF Saves, ToSave
  <2>2. Becomes(r, "write", s)
    BY <1>2, <1>3, <2>1, NewPlace DEF StepsTo, Step
  <2>3. /\ s \in Seq(Task) /\ InOrder(s) /\ s # <<>>
        /\ Head(s) = <<"save", NoPrefix>>
    BY <1>1, <1>2 DEF Ready, Does
  <2>4. backup' \in Backup /\ backup'.saved = TRUE /\ backup'.ndp = uci.set.ndp
    BY <2>1, StatesAre DEF Backup, Config, Section
  <2>5. ASSUME Kept
        PROVE  KeptOK' /\ SettingOK(s, backup', uci, user, mishaps.refused)
    <3>1. KeptOK /\ SettingOK(s, backup, uci, user, mishaps.refused)
      BY <1>2, <2>5 DEF Ready
    <3>2. KeptOK'
      BY <1>1, <2>1, <2>4, <3>1 DEF KeptOK
    <3>3. SettingOK(s, backup', uci, user, mishaps.refused)
      BY <2>4, <3>1 DEF SettingOK
    <3> QED
      BY <3>2, <3>3
  <2>6. Clean => BridgeOK(s, bridge, record)
    BY <1>2 DEF Ready
  <2> QED
    BY <1>1, <2>2, <2>3, <2>4, <2>5, <2>6, CopyStep
<1>5. CASE ~ToSave
  <2>1. /\ runs' = [runs EXCEPT ![r].todo = Tail(runs[r].todo)] /\ backup' = backup
        /\ backup.saved = TRUE
    BY <1>5, StatesAre DEF Saves, ToSave, Backup
  <2>2. t \in Seq(Task) /\ InOrder(t) /\ t = Tail(runs[r].todo)
    BY <1>2 DEF Ready
  <2>3. Becomes(r, "work", t)
    <3>1. Becomes(r, runs[r].at, t)
      BY <1>3, <2>1, <2>2, NewTodo
    <3> QED
      BY <1>1, <3>1
  <2>4. ASSUME Kept
        PROVE  KeptOK' /\ SettingOK(t, backup', uci, user, mishaps.refused)
    <3>1. KeptOK /\ SettingOK(s, backup, uci, user, mishaps.refused) /\ Rest(s, t)
      BY <1>2, <2>4 DEF Ready
    <3>2. KeptOK'
      BY <1>1, <2>1, <3>1 DEF KeptOK
    <3>3. SavedStays(s, t, backup, backup)
      BY <2>1 DEF SavedStays
    <3>4. PlaceStays(s, t, uci, uci, user, mishaps.refused, mishaps.refused)
      BY <1>2, Zenon DEF PlaceStays
    <3> QED
      BY <2>1, <3>1, <3>2, <3>3, <3>4, Turning
  <2>5. Clean => BridgeOK(t, bridge, record)
    BY <1>1, <1>2, BesideBridge
  <2>6. backup' \in Backup /\ (Kept => ~Partial(backup)')
    BY <1>1, <2>1, StatesAre, WholeThere DEF Partial
  <2> QED
    BY <1>1, <2>2, <2>3, <2>4, <2>5, <2>6, CopyStep
<1> QED
  BY <1>4, <1>5

LEMMA WriteStep ==
  ASSUME LanInv, NEW r \in RunId, Writes(r)
  PROVE  LanInv'
<1>1. /\ runs[r].at = "write" /\ Past(r)
      /\ UNCHANGED <<lock, bridge, record, uci, user, mishaps>>
  BY DEF Writes, Past
<1>2. PICK s : s = runs[r].todo
  OBVIOUS
<1>3. runs \in [RunId -> Run] /\ backup \in Backup
  BY DEF LanInv, LanTypeOK
<1>4. /\ s \in Seq(Task) /\ InOrder(s) /\ s # <<>>
      /\ Head(s) = <<"save", NoPrefix>>
  <2>1. runs[r] \in Run
    BY <1>3
  <2> QED
    BY <1>1, <1>2, <2>1 DEF LanInv, WritingOK, OrderOK, Run
<1>5. Kept => KeptOK /\ SettingOK(s, backup, uci, user, mishaps.refused)
  BY <1>1, <1>2, Zenon DEF LanInv, NdpOK
<1>6. Clean => BridgeOK(s, bridge, record)
  BY <1>1, <1>2, Zenon DEF LanInv, PrefixOK
<1>7. CASE /\ backup.saved /\ backup' = [backup EXCEPT !.lines = 1]
           /\ UNCHANGED runs
  <2>1. /\ backup' \in Backup /\ backup'.saved = backup.saved
        /\ backup'.ndp = backup.ndp
    <3>1. 1 \in 0..2 /\ backup' = [backup EXCEPT !.lines = 1]
      BY <1>7
    <3> QED
      BY <1>3, <3>1 DEF Backup
  <2>2. Becomes(r, "write", s)
    BY <1>1, <1>2, <1>3, <1>7 DEF Becomes
  <2>3. ASSUME Kept
        PROVE  KeptOK' /\ SettingOK(s, backup', uci, user, mishaps.refused)
    <3>1. KeptOK'
      BY <1>1, <1>5, <1>7, <2>1, <2>3 DEF KeptOK
    <3>2. SettingOK(s, backup', uci, user, mishaps.refused)
      BY <1>5, <2>1, <2>3, Zenon DEF SettingOK
    <3> QED
      BY <3>1, <3>2
  <2> QED
    BY <1>1, <1>4, <1>6, <1>7, <2>1, <2>2, <2>3, CopyStep
<1>8. CASE /\ backup' = [backup EXCEPT !.lines = IF backup.saved THEN 2 ELSE 0]
           /\ runs' = [runs EXCEPT ![r].at = "work", ![r].todo = Tail(runs[r].todo)]
  <2>1. PICK t : t = Tail(s) /\ Rest(s, t) /\ t \in Seq(Task)
    BY <1>4, TailRest
  <2>2. Is(s, 1, "save", NoPrefix)
    BY <1>4, TailRest, Zenon
  <2>3. InOrder(t) /\ Kind(s, 1) = "save"
    BY <1>4, <2>1, <2>2, RestInOrder, Kinds
  <2>4. Ready(s, t)
    BY <1>4, <1>5, <1>6, <2>1, <2>3 DEF Ready
  <2>5. Becomes(r, "work", t)
    <3>1. "work" \in Step
      BY DEF Step
    <3> QED
      BY <1>2, <1>3, <1>8, <2>1, <3>1, NewBoth, Zenon
  <2>6. /\ backup' \in Backup /\ backup'.saved = backup.saved
        /\ backup'.ndp = backup.ndp
        /\ backup.saved => backup'.lines = 2
    BY <1>3, <1>8 DEF Backup
  <2>7. ASSUME Kept
        PROVE  KeptOK' /\ SettingOK(t, backup', uci, user, mishaps.refused)
    <3>1. KeptOK /\ SettingOK(s, backup, uci, user, mishaps.refused)
      BY <1>5, <2>7
    <3>2. backup.saved
      BY <1>1, <2>7, Zenon DEF LanInv, WholeOK
    <3>3. KeptOK'
      BY <1>1, <2>6, <3>1, <3>2 DEF KeptOK
    <3>4. SavedStays(s, t, backup, backup')
      BY <2>6, <3>2 DEF SavedStays
    <3>5. PlaceStays(s, t, uci, uci, user, mishaps.refused, mishaps.refused)
      BY <2>3, Zenon DEF PlaceStays
    <3> QED
      BY <2>1, <3>1, <3>3, <3>4, <3>5, Turning
  <2>8. Clean => BridgeOK(t, bridge, record)
    BY <1>1, <2>3, <2>4, BesideBridge
  <2>9. ~Partial(backup)'
    BY <2>6 DEF Partial
  <2> QED
    BY <1>1, <2>1, <2>3, <2>5, <2>6, <2>7, <2>8, <2>9, CopyStep
<1> QED
  BY <1>7, <1>8 DEF Writes

LEMMA SetStep ==
  ASSUME LanInv, NEW r \in RunId, Does(r, "set", NoPrefix),
         uci' = [uci EXCEPT !.set = Ours],
         IF uci.set = Ours THEN Then(r, <<>>) ELSE Done(r),
         UNCHANGED <<backup, bridge, record>>
  PROVE  LanInv'
<1>1. PICK s, t : /\ s = runs[r].todo /\ Ready(s, t) /\ Kind(s, 1) = "set"
  BY Readies
<1>2. /\ Rest(s, t) /\ 1 \in DOMAIN s /\ InOrder(s) /\ runs[r].at = "work"
      /\ t \in Seq(Task) /\ InOrder(t)
  BY <1>1 DEF Ready, Rest, Does
<1>3. \A i \in DOMAIN t : Kind(t, i) \notin {"set", "clear", "note"}
  <2> TAKE i \in DOMAIN t
  <2>1. i \in Nat \ {0} /\ 1 < i + 1
    BY <1>2 DEF Rest
  <2>2. i + 1 \in DOMAIN s /\ Kind(t, i) = Kind(s, i + 1)
    BY <1>2 DEF Rest
  <2> QED
    BY <1>1, <1>2, <2>1, <2>2, Zenon DEF InOrder
<1>4. PICK u \in {t, <<>>} : Then(r, u)
  BY <1>1 DEF Done, Ready
<1>5. u \in Seq(Task) /\ InOrder(u)
  BY <1>2, <1>4, NoTodo
<1>6. uci' \in Config /\ uci'.set.ndp = "relay" /\ uci'.committed = uci.committed
  <2>1. Ours \in Section /\ Ours.ndp = "relay"
    BY DEF Ours, Section, Setting
  <2> QED
    BY <2>1, StatesAre DEF Config
<1>7. ASSUME Kept
      PROVE  KeptOK' /\ SettingOK(u, backup', uci', user', mishaps'.refused)
  <2>1. KeptOK /\ SettingOK(s, backup, uci, user, mishaps.refused)
    BY <1>1, <1>7 DEF Ready
  <2>2. ~After(s, 1, "save")
    BY <1>2 DEF After, Rest
  <2>3. backup.saved
    BY <1>1, <1>2, <2>1, <2>2, Zenon DEF SettingOK
  <2>4. user' = user /\ mishaps' = mishaps
    BY <1>4 DEF Then
  <2>5. KeptOK'
    BY <1>6, <2>1, <2>3, <2>4 DEF KeptOK
  <2>6. SettingOK(t, backup, uci', user, mishaps.refused)
    BY <1>3, Zenon DEF SettingOK
  <2> QED
    BY <1>4, <2>4, <2>5, <2>6, NoTodo
<1>8. ASSUME Clean
      PROVE  BridgeOK(u, bridge', record')
  <2>1. BridgeOK(t, bridge', record')
    BY <1>1, <1>8, BesideBridge
  <2>2. \A x : \A i \in DOMAIN t : ~Is(t, i, "note", x)
    BY <1>3, Kinds
  <2>3. bridge'.addr \cup bridge'.route \subseteq {record'}
    BY <2>1, <2>2 DEF BridgeOK, OnBridgeOK
  <2> QED
    BY <1>4, <2>1, <2>3, NoTodo
<1>9. user' = user /\ mishaps' = mishaps
  BY <1>4 DEF Then
<1> QED
  BY <1>2, <1>4, <1>5, <1>6, <1>7, <1>8, <1>9, StatesAre, Command

LEMMA CommitStep ==
  ASSUME LanInv, NEW r \in RunId, Does(r, "commit", NoPrefix),
         uci' = [uci EXCEPT !.committed = uci.set],
         Done(r), UNCHANGED <<backup, bridge, record>>
  PROVE  LanInv'
<1>1. PICK s, t : /\ s = runs[r].todo /\ Ready(s, t) /\ Kind(s, 1) = "commit"
  BY Readies
<1>2. Then(r, t) /\ runs[r].at = "work" /\ t \in Seq(Task) /\ InOrder(t)
  BY <1>1 DEF Done, Does, Ready
<1>3. uci' \in Config /\ uci'.set = uci.set /\ uci'.committed = uci.set
  BY StatesAre DEF Config
<1>4. ASSUME Kept
      PROVE  KeptOK' /\ SettingOK(t, backup', uci', user, mishaps.refused)
  <2>1. KeptOK /\ SettingOK(s, backup, uci, user, mishaps.refused) /\ Rest(s, t)
    BY <1>1, <1>4 DEF Ready
  <2>2. KeptOK'
    BY <1>2, <1>3, <2>1 DEF KeptOK, Then
  <2>3. ASSUME NEW i \in DOMAIN t, Kind(t, i) = "clear"
        PROVE  uci.set.ndp = user
    <3>1. i \in Nat \ {0} /\ 1 < i + 1
      BY <2>1 DEF Rest
    <3>2. i + 1 \in DOMAIN s /\ Kind(s, i + 1) = "clear" /\ 1 \in DOMAIN s
      BY <2>1, <2>3 DEF Rest
    <3>3. ~After(s, 1, "restore")
      BY <2>1 DEF After, Rest
    <3> QED
      BY <1>1, <2>1, <3>1, <3>2, <3>3, Zenon DEF SettingOK
  <2>4. SettingOK(t, backup, uci', user, mishaps.refused)
    <3>1. (\E i \in DOMAIN t : Kind(t, i) = "clear")
            => uci'.set.ndp = user /\ uci'.committed.ndp = user
      BY <1>3, <2>3
    <3>2. Kind(s, 1) # "save"
      BY <1>1
    <3>3. SavedStays(s, t, backup, backup)
      BY <3>2, Zenon DEF SavedStays
    <3>4. PlaceStays(s, t, uci, uci', user, mishaps.refused, mishaps.refused)
      BY <3>1, Zenon DEF PlaceStays
    <3> QED
      BY <2>1, <3>3, <3>4, Turning
  <2> QED
    BY <2>2, <2>4
<1> QED
  BY <1>1, <1>2, <1>3, <1>4, BesideBridge, StatesAre, Command

\* What the flash refuses stays as it was; only a run that puts the setting back
\* goes on.
LEMMA CommitFailsStep ==
  ASSUME LanInv, NEW r \in RunId, CommitFails(r)
  PROVE  LanInv'
<1>1. /\ Does(r, "commit", NoPrefix) /\ runs[r].at = "work" /\ Past(r)
      /\ LockOnly /\ UNCHANGED lock
      /\ runs' = [runs EXCEPT ![r].todo = Tail(runs[r].todo)]
  BY DEF CommitFails, Does, Past
<1>2. PICK s, t : /\ s = runs[r].todo /\ Ready(s, t) /\ Kind(s, 1) = "commit"
  BY <1>1, Readies
<1>3. t \in Seq(Task) /\ InOrder(t) /\ t = Tail(runs[r].todo) /\ Rest(s, t)
  BY <1>2 DEF Ready
<1>4. Becomes(r, "work", t)
  <2>1. runs \in [RunId -> Run]
    BY DEF LanInv, LanTypeOK
  <2>2. Becomes(r, runs[r].at, t)
    BY <1>1, <1>3, <2>1, NewTodo
  <2> QED
    BY <1>1, <2>2
<1>5. /\ mishaps' \in Mishaps /\ mishaps'.shared = mishaps.shared
      /\ mishaps'.orphan = mishaps.orphan /\ mishaps'.torn = mishaps.torn
      /\ mishaps'.cut = mishaps.cut
      /\ mishaps'.refused <=> mishaps.refused \/ t # <<>>
  <2>1. PICK b \in BOOLEAN : b <=> mishaps.refused \/ t # <<>>
    OBVIOUS
  <2>2. mishaps \in Mishaps
    BY DEF LanInv, LanTypeOK
  <2>3. mishaps' = [mishaps EXCEPT !.refused = b]
    BY <1>3, <2>1, <2>2 DEF CommitFails, Mishaps
  <2>4. mishaps'.refused = b /\ mishaps' \in Mishaps
    BY <2>2, <2>3 DEF Mishaps
  <2>5. /\ mishaps'.shared = mishaps.shared /\ mishaps'.orphan = mishaps.orphan
        /\ mishaps'.torn = mishaps.torn /\ mishaps'.cut = mishaps.cut
    BY <2>2, <2>3 DEF Mishaps
  <2> QED
    BY <2>1, <2>4, <2>5
<1>6. LanTypeOK'
  BY <1>1, <1>4, <1>5 DEF LanInv, LanTypeOK, LockOnly, Becomes
<1>7. ~mishaps.shared => \A q \in RunId : Past(q) => q = r
  BY <1>1, Zenon DEF LanInv, AloneOK
<1>8. Clean => BridgeOK(t, bridge', record')
  BY <1>1, <1>2, BesideBridge DEF LockOnly
<1>9. ASSUME Kept
      PROVE  KeptOK' /\ SettingOK(t, backup', uci', user', mishaps'.refused)
  <2>1. KeptOK /\ SettingOK(s, backup, uci, user, mishaps.refused)
    BY <1>2, <1>9 DEF Ready
  <2>2. KeptOK'
    BY <1>1, <1>5, <2>1 DEF KeptOK, LockOnly
  <2>3. SavedStays(s, t, backup, backup)
    BY <1>2, Zenon DEF SavedStays
  <2>4. (\E i \in DOMAIN t : Kind(t, i) = "clear") => mishaps'.refused
    <3>1. DOMAIN <<>> = {}
      OBVIOUS
    <3> QED
      BY <1>5, <3>1
  <2>5. PlaceStays(s, t, uci, uci, user, mishaps.refused, mishaps'.refused)
    BY <1>2, <2>4, Zenon DEF PlaceStays
  <2>6. SettingOK(t, backup, uci, user, mishaps'.refused)
    BY <1>3, <2>1, <2>3, <2>5, Turning
  <2> QED
    BY <1>1, <2>2, <2>6 DEF LockOnly
<1>10. Partial(backup)' => Partial(backup) /\ runs[r].at # "write"
  BY <1>1 DEF Partial, LockOnly
<1> QED
  BY <1>3, <1>4, <1>5, <1>6, <1>7, <1>8, <1>9, <1>10, Working

LEMMA RestoreStep ==
  ASSUME LanInv, NEW r \in RunId, Does(r, "restore", NoPrefix),
         uci' = [uci EXCEPT !.set = [seg |-> FALSE, ndp |-> PutBack]],
         Done(r), UNCHANGED <<backup, bridge, record>>
  PROVE  LanInv'
<1>1. PICK s, t : /\ s = runs[r].todo /\ Ready(s, t) /\ Kind(s, 1) = "restore"
  BY Readies
<1>2. Then(r, t) /\ runs[r].at = "work" /\ t \in Seq(Task) /\ InOrder(t)
  BY <1>1 DEF Done, Does, Ready
<1>3. PICK n : n = PutBack
  OBVIOUS
<1>4. uci' = [uci EXCEPT !.set = [seg |-> FALSE, ndp |-> n]]
  BY <1>3
<1>5. n \in Setting
  <2>1. uci.set.ndp \in Setting /\ backup.ndp \in Setting /\ "unset" \in Setting
    BY StatesAre DEF Config, Section, Backup, Setting
  <2>2. n = backup.ndp \/ n = "unset" \/ n = uci.set.ndp
    BY <1>3 DEF PutBack
  <2> QED
    BY <2>1, <2>2
<1>6. uci' \in Config /\ uci'.set.ndp = n /\ uci'.committed = uci.committed
  <2>1. PICK e : e = [seg |-> FALSE, ndp |-> n]
    OBVIOUS
  <2>2. e \in Section /\ e.ndp = n
    BY <1>5, <2>1 DEF Section
  <2>3. uci' = [uci EXCEPT !.set = e]
    BY <1>4, <2>1
  <2> QED
    BY <2>2, <2>3, StatesAre DEF Config
<1>7. ASSUME Kept
      PROVE  KeptOK' /\ SettingOK(t, backup', uci', user', mishaps'.refused)
  <2>1. KeptOK /\ SettingOK(s, backup, uci, user, mishaps.refused) /\ Rest(s, t)
    BY <1>1, <1>7 DEF Ready
  <2>2. n = user
    <3>1. ~Partial(backup)
      BY <1>2, <1>7, WholeThere DEF Past
    <3>2. \/ backup.lines = 2 /\ backup.ndp = user
          \/ backup.lines = 0 /\ uci.set.ndp = user
      BY <2>1, <3>1 DEF KeptOK, Partial
    <3> QED
      BY <1>3, <3>2 DEF PutBack
  <2>3. KeptOK'
    BY <1>2, <1>6, <2>1, <2>2 DEF KeptOK, Then
  <2>4. SettingOK(t, backup, uci', user, mishaps.refused)
    <3>1. uci'.set.ndp = user /\ uci'.committed.ndp = uci.committed.ndp
      BY <1>6, <2>2
    <3>2. Kind(s, 1) # "save" /\ Kind(s, 1) # "commit"
      BY <1>1
    <3>3. SavedStays(s, t, backup, backup)
      BY <3>2, Zenon DEF SavedStays
    <3>4. PlaceStays(s, t, uci, uci', user, mishaps.refused, mishaps.refused)
      BY <3>1, <3>2, Zenon DEF PlaceStays
    <3> QED
      BY <2>1, <3>3, <3>4, Turning
  <2>5. user' = user /\ mishaps' = mishaps
    BY <1>2 DEF Then
  <2> QED
    BY <2>3, <2>4, <2>5
<1>8. user' = user /\ mishaps' = mishaps
  BY <1>2 DEF Then
<1> QED
  BY <1>1, <1>2, <1>6, <1>7, <1>8, BesideBridge, StatesAre, Command

LEMMA ClearStep ==
  ASSUME LanInv, NEW r \in RunId, Does(r, "clear", NoPrefix), backup' = NotSaved,
         Done(r), UNCHANGED <<uci, bridge, record>>
  PROVE  LanInv'
<1>1. PICK s, t : /\ s = runs[r].todo /\ Ready(s, t) /\ Kind(s, 1) = "clear"
  BY Readies
<1>2. /\ Then(r, t) /\ runs[r].at = "work" /\ t \in Seq(Task) /\ InOrder(t)
      /\ Rest(s, t) /\ 1 \in DOMAIN s /\ InOrder(s)
  BY <1>1 DEF Done, Does, Ready, Rest
<1>3. /\ backup' \in Backup /\ backup'.saved = FALSE /\ backup'.lines = 0
      /\ ~Partial(backup)'
  BY DEF Backup, NotSaved, Setting, Partial
<1>4. ASSUME Kept
      PROVE  KeptOK' /\ SettingOK(t, backup', uci', user', mishaps'.refused)
  <2>1. KeptOK /\ SettingOK(s, backup, uci, user, mishaps.refused)
    BY <1>1, <1>4 DEF Ready
  <2>2. ~After(s, 1, "restore") /\ ~After(s, 1, "commit")
    BY <1>2 DEF After, Rest
  <2>3. /\ uci.set.ndp = user
        /\ uci.committed.ndp = user \/ mishaps.refused
    BY <1>1, <1>2, <2>1, <2>2, Zenon DEF SettingOK
  <2>4. user' = user /\ mishaps' = mishaps
    BY <1>2 DEF Then
  <2>5. KeptOK'
    BY <1>3, <2>1, <2>3, <2>4 DEF KeptOK
  <2>6. \A i \in DOMAIN t : Kind(t, i) # "set" /\ Kind(t, i) # "clear"
    <3> TAKE i \in DOMAIN t
    <3>1. i \in Nat \ {0} /\ 1 < i + 1
      BY <1>2 DEF Rest
    <3>2. i + 1 \in DOMAIN s /\ Kind(t, i) = Kind(s, i + 1)
      BY <1>2 DEF Rest
    <3> QED
      BY <1>1, <1>2, <3>1, <3>2, Zenon DEF InOrder
  <2>7. SettingOK(t, backup', uci', user', mishaps'.refused)
    BY <2>6, Zenon DEF SettingOK
  <2> QED
    BY <2>5, <2>7
<1>5. user' = user /\ mishaps' = mishaps
  BY <1>2 DEF Then
<1> QED
  BY <1>1, <1>2, <1>3, <1>4, <1>5, BesideBridge, StatesAre, Command

LEMMA SectionStep ==
  ASSUME LanInv, NEW r \in RunId, Configures(r)
  PROVE  LanInv'
<1>1. UNCHANGED <<bridge, record>>
  BY DEF Configures
<1> QED
  BY <1>1, SetStep, CommitStep, RestoreStep, ClearStep DEF Configures

-----------------------------------------------------------------------------
(* What happens to it *)

LEMMA StatusStep ==
  ASSUME LanInv, StatusEnds
  PROVE  LanInv'
<1>1. lock' \in Lock /\ LockOnly /\ UNCHANGED <<runs, mishaps>>
  BY DEF StatusEnds, Lock, FreeLock
<1>2. LanTypeOK'
  BY <1>1 DEF LanInv, LanTypeOK, LockOnly
<1> QED
  BY <1>1, <1>2 DEF LanInv, LockOnly, IdleOK, AloneOK, OrderOK, PrefixOK, NdpOK,
     WritingOK, WholeOK, Partial, Clean, Kept, OnRecord, KeptOK, Past

LEMMA Emptied ==
  ASSUME NEW s, NEW on, NEW rec, BridgeOK(s, on, rec), NEW none \in OnType,
         none.addr = {}, none.route = {}
  PROVE  BridgeOK(s, none, rec)
<1>1. OnBridgeOK(s, none, rec)
  BY DEF OnBridgeOK
<1>2. ComingOK(s, none)
  BY DEF BridgeOK, ComingOK, AddAddrOK, AddRouteOK, NoteOK, ForgetOK
<1> QED
  BY <1>1, <1>2 DEF BridgeOK

LEMMA FlushStep ==
  ASSUME LanInv, FlushBridge
  PROVE  LanInv'
<1>1. /\ bridge' \in OnType /\ bridge'.addr = {} /\ bridge'.route = {}
      /\ UNCHANGED <<runs, lock, record, uci, backup, user, mishaps>>
  BY DEF FlushBridge, OnType
<1>2. LanTypeOK'
  BY <1>1 DEF LanInv, LanTypeOK, OnType
<1>3. /\ IdleOK' /\ AloneOK' /\ OrderOK' /\ NdpOK' /\ WritingOK' /\ WholeOK'
  BY <1>1 DEF LanInv, IdleOK, AloneOK, OrderOK, NdpOK, WritingOK, WholeOK, Partial,
     Kept, KeptOK, Past
<1>4. PrefixOK'
  <2>1. OnRecord'
    BY <1>1 DEF OnRecord
  <2>2. ASSUME Clean, NEW q \in RunId, Past(q)
        PROVE  BridgeOK(runs[q].todo, bridge', record)
    <3>1. BridgeOK(runs[q].todo, bridge, record)
      BY <2>2 DEF LanInv, PrefixOK
    <3> QED
      BY <1>1, <3>1, Emptied
  <2> QED
    BY <1>1, <2>1, <2>2 DEF PrefixOK, Clean, Past
<1> QED
  BY <1>2, <1>3, <1>4 DEF LanInv

LEMMA PowerStep ==
  ASSUME LanInv, PowerFails
  PROVE  LanInv'
<1>1. NotRunning \in Run
  BY NoTodo DEF NotRunning, Run, Step
<1>2. /\ runs' \in [RunId -> Run]
      /\ \A r \in RunId : runs'[r].todo = <<>> /\ ~Past(r)'
  BY <1>1 DEF PowerFails, NotRunning, Past
<1>3. /\ bridge' = [addr |-> {}, route |-> {}] /\ lock' = FreeLock
      /\ record' = NoPrefix /\ backup' = NotSaved /\ user' = user
      /\ uci' = [uci EXCEPT !.set = uci.committed]
  BY DEF PowerFails
<1>4. uci' \in Config /\ uci'.set = uci.committed /\ uci'.committed = uci.committed
  BY <1>3, StatesAre DEF Config
<1>5. /\ mishaps' \in Mishaps /\ (Kept' => Kept)
      /\ mishaps'.cut <=> mishaps.cut \/ uci.committed.ndp = "relay"
      /\ mishaps'.refused = mishaps.refused
  <2>1. PICK b \in BOOLEAN : b <=> mishaps.cut \/ uci.committed.ndp = "relay"
    OBVIOUS
  <2>2. mishaps \in Mishaps
    BY DEF LanInv, LanTypeOK
  <2>3. mishaps' = [mishaps EXCEPT !.orphan = FALSE, !.cut = b]
    BY <2>1, <2>2 DEF PowerFails, Mishaps
  <2>4. /\ mishaps' \in Mishaps /\ mishaps'.cut = b
        /\ mishaps'.shared = mishaps.shared /\ mishaps'.torn = mishaps.torn
        /\ mishaps'.refused = mishaps.refused
    BY <2>2, <2>3 DEF Mishaps
  <2>5. Kept' => Kept
    BY <2>1, <2>4, Zenon DEF Kept
  <2> QED
    BY <2>1, <2>4, <2>5
<1>6. LanTypeOK'
  BY <1>2, <1>3, <1>4, <1>5, StatesAre DEF LanTypeOK, Lock, FreeLock, Backup, Config,
     NotSaved, Setting
<1>7. IdleOK' /\ AloneOK' /\ OrderOK' /\ WritingOK' /\ WholeOK'
  BY <1>2, <1>3, NoTodo DEF IdleOK, AloneOK, OrderOK, WritingOK, WholeOK, Past,
     NotSaved, Partial
<1>8. PrefixOK'
  BY <1>2, <1>3 DEF PrefixOK, OnRecord
<1>9. ASSUME Kept'
      PROVE  KeptOK'
  <2>1. Kept /\ uci.committed.ndp # "relay"
    BY <1>5, <1>9 DEF Kept
  <2>2. uci.committed.ndp = user
    BY <2>1 DEF LanInv, NdpOK, KeptOK
  <2> QED
    BY <1>3, <1>4, <2>2 DEF KeptOK, NotSaved
<1> QED
  BY <1>2, <1>6, <1>7, <1>8, <1>9 DEF LanInv, NdpOK

-----------------------------------------------------------------------------
(* The theorems *)

LEMMA LanStep == LanInv /\ [LanNext]_lanVars => LanInv'
<1> SUFFICES ASSUME LanInv, [LanNext]_lanVars
    PROVE  LanInv'
  OBVIOUS
<1>1. CASE UNCHANGED lanVars
  BY <1>1 DEF lanVars, LanInv, LanTypeOK, IdleOK, AloneOK, OrderOK, PrefixOK, NdpOK,
     WritingOK, WholeOK, Partial, Clean, Kept, OnRecord, KeptOK, Past
<1>2. ASSUME NEW r \in RunId, LanRunStep(r)
      PROVE  LanInv'
  BY <1>2, Approach, ClaimStep, FinishStep, LookStep, OffStep, OnStep, RecordStep,
     SaveStep, WriteStep, SectionStep, CommitFailsStep, KillStep DEF LanRunStep
<1> QED
  BY <1>1, <1>2, StatusStep, FlushStep, PowerStep DEF LanNext

\* The invariant holds of the script's lock, commands, bridge and section in every
\* state.
THEOREM LanInvariance == LanSpec => []LanInv
BY First, LanStep, PTL DEF LanSpec

\* The script's lock, files and commands, the bridge and the configuration hold
\* what they can hold, whichever runs are started, killed or cut off.
THEOREM LanTypeCorrect == LanSpec => []LanTypeOK
<1>1. LanInv => LanTypeOK
  BY DEF LanInv
<1> QED
  BY <1>1, LanInvariance, PTL

\* Between runs the bridge carries no prefix but the one on record, unless two
\* runs were past the lock or one was killed between address and record.
THEOREM PrefixOnRecord == LanSpec => []OnlyOnRecord
<1>1. LanInv => OnlyOnRecord
  BY DEF LanInv, PrefixOK, Clean, OnRecord, OnlyOnRecord
<1> QED
  BY <1>1, LanInvariance, PTL

\* While nothing is kept to be put back, the LAN section is what the user made
\* it, unless two runs were past the lock, one was killed while it wrote what is
\* kept, or the power went while the section was ours; a refused commit leaves it
\* set, not committed.
THEOREM SettingComesBack == LanSpec => []NdpComesBack
<1>1. LanInv => NdpComesBack
  BY DEF LanInv, NdpOK, Kept, KeptOK, NdpComesBack
<1> QED
  BY <1>1, LanInvariance, PTL
=============================================================================
