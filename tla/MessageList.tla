---------------------------- MODULE MessageList ----------------------------
(***************************************************************************)
(* What the message store of fm160d gives to who reads the list:            *)
(*                                                                         *)
(*   - a message is listed once, under the next id; the ids given are those *)
(*     of the list, not of the module;                                      *)
(*   - it leaves the list when it is deleted, or for the message that comes *)
(*     Keep ids after it: the last Keep are never pushed out, and a         *)
(*     deletion makes room for no other;                                    *)
(*   - a message is put on record or is spoiled, and then it is this one    *)
(*     alone that is not on record;                                         *)
(*   - the daemon may end at any time, and shows the last Keep messages on  *)
(*     record when it is back, those that were deleted among them; when the *)
(*     power fails, those on record at some moment before.                  *)
(*                                                                         *)
(* Sms implements this specification (Sms!Listing, SmsProofs).              *)
(***************************************************************************)
EXTENDS Integers, Sequences, SequencesExt

CONSTANT
  Keep              \* messages that are never pushed out

VARIABLES
  now,              \* the list, or what it will be once the daemon is back:
                    \* the messages shown, [id, index, text], and the number
                    \* of ids given
  kept              \* the lists on record, the first to the last

vars == <<now, kept>>

Empty == [shown |-> {}, given |-> 0]

Init ==
  /\ now = Empty
  /\ kept = <<Empty>>

Listed(v, m) == \E x \in v.shown : x.index = m.index /\ x.text = m.text

\* List v with message m.
Pushed(v, m) ==
  [shown |-> {x \in v.shown : x.id + Keep > v.given + 1} \cup
               {[id |-> v.given + 1, index |-> m.index, text |-> m.text]},
   given |-> v.given + 1]

Without(v, id) == [v EXCEPT !.shown = {x \in v.shown : x.id # id}]

OnRecord(v) == kept' = Append(kept, v)
Spoiled == UNCHANGED kept

\* Message m is read; it is one that is listed then, whatever was before.
Receive ==
  \E m \in now'.shown :
    /\ ~Listed(now, m)
    /\ now' = Pushed(now, m)
    /\ OnRecord(Pushed(Last(kept), m)) \/ Spoiled

\* Nothing on record is changed by a deletion, its mark included.
Delete ==
  \E x \in now.shown :
    /\ now' = Without(now, x.id)
    /\ OnRecord(Last(kept)) \/ Spoiled

Restart ==
  /\ now' = Last(kept)
  /\ UNCHANGED kept

PowerFails ==
  \E n \in DOMAIN kept :
    /\ kept' = SubSeq(kept, 1, n)
    /\ now' = kept[n]

Next == Receive \/ Delete \/ Restart \/ PowerFails

Spec == Init /\ [][Next]_vars
=============================================================================
