---------------------------- MODULE MCModeSwitch ----------------------------
(***************************************************************************)
(* Four profiles for TLC: ecm has an AT port and is allowed by the tables,   *)
(* qmi has one and is not, dark is allowed and this host finds no AT port   *)
(* in it, rndis is blacklisted and has none.                                *)
(***************************************************************************)
EXTENDS ModeSwitch

CONSTANTS ecm, qmi, dark, rndis
=============================================================================
