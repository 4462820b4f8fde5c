--------------------------- MODULE ProfileSwitch ---------------------------
(***************************************************************************)
(* What fm160d promises about a change of the module's USB profile, to who  *)
(* asked for it and to who looks after the router:                          *)
(*                                                                         *)
(*   - one switch at a time; it is begun whole or not at all, and a daemon  *)
(*     that dies and comes back goes on with the same switch;               *)
(*   - the module is asked for the profile that is allowed, and after that  *)
(*     only for the one the switch began in, when it was found in neither;  *)
(*   - a switch ends when the module is found in one of the two, when it    *)
(*     was sent back already, or by hand after the daemon has given up.     *)
(*                                                                         *)
(* The daemon does not appear: its memory is not part of the promise.       *)
(* ModeSwitch implements this specification (ModeSwitch!Journal).           *)
(***************************************************************************)
CONSTANTS
  Mode,             \* USB profiles
  NoMode,           \* none
  Whitelist,        \* profiles the tables allow
  Offered           \* profiles the module offers

VARIABLES
  plan,             \* the switch under way, if any: {[to, home]} or {}
  asked,            \* the profile the module was asked for and has not taken
  at,               \* the profile it is in
  stuck             \* the daemon has given up on the switch

vars == <<plan, asked, at, stuck>>

Init ==
  /\ plan = {}
  /\ asked = NoMode
  /\ at \in Mode
  /\ stuck = FALSE

Begin ==
  /\ plan = {}
  /\ \E to \in Whitelist \cap Offered, home \in Mode :
       /\ to # home
       /\ plan' = {[to |-> to, home |-> home]}
       /\ asked' \in {asked, to}
  /\ UNCHANGED <<at, stuck>>

GoBack ==
  /\ \E s \in plan :
       /\ at \notin {s.to, s.home}
       /\ plan' = {[to |-> s.home, home |-> s.home]}
       /\ asked' \in {asked, s.home}
  /\ stuck' = FALSE
  /\ UNCHANGED at

End ==
  /\ \E s \in plan : at \in {s.to, s.home} \/ s.to = s.home \/ stuck
  /\ plan' = {}
  /\ stuck' = FALSE
  /\ UNCHANGED <<asked, at>>

GiveUp ==
  /\ plan # {}
  /\ stuck' = TRUE
  /\ UNCHANGED <<plan, asked, at>>

\* A daemon that comes back has not given up yet.
TakeUp ==
  /\ stuck' = FALSE
  /\ UNCHANGED <<plan, asked, at>>

\* The module re-enumerates, or somebody changes its profile over DIAG.
Take ==
  /\ at' \in Mode
  /\ asked' = NoMode
  /\ UNCHANGED <<plan, stuck>>

Next == Begin \/ GoBack \/ End \/ GiveUp \/ TakeUp \/ Take

Spec == Init /\ [][Next]_vars
=============================================================================
