----------------------------- MODULE MCAtQueue -----------------------------
(***************************************************************************)
(* Model values of AtQueue for TLC.                                         *)
(***************************************************************************)
EXTENDS AtQueue

CONSTANTS csq, cereg          \* AT+CSQ and AT+CEREG?, two background polls
=============================================================================
