-------------------------------- MODULE MCSms --------------------------------
(***************************************************************************)
(* Messages alone, with nothing used up at the start.                       *)
(***************************************************************************)
EXTENDS Sms

MCFresh == {[arrivals |-> 0, deletions |-> 0, lives |-> 0]}
=============================================================================
