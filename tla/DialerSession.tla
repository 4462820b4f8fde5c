--------------------------- MODULE DialerSession ---------------------------
(***************************************************************************)
(* What the dialler has told the module about each PDP context: whether an  *)
(* activation was sent that no disconnect has followed, and by which life   *)
(* of the daemon.  Nothing in the daemon keeps it; it is a history beside   *)
(* Dialer.  Every command names the context that is configured when it is   *)
(* sent, and dial_config may change that one while the link is up.          *)
(***************************************************************************)
EXTENDS Dialer

CONSTANT Cids       \* the contexts that may be configured

VARIABLES
  cid,              \* st->cid
  opened            \* for each context, the activation that no disconnect has
                    \* followed: "none", sent by "this" life or one "before"

sessionVars == <<vars, cid, opened>>

SessionInit ==
  /\ Init
  /\ cid \in Cids
  /\ opened = [c \in Cids |-> "none"]

Opens ==
  /\ TickActivate
  /\ opened' = [opened EXCEPT ![cid] = "this"]
  /\ UNCHANGED cid

Closes ==
  /\ TickDeactivate \/ StopTold
  /\ opened' = [opened EXCEPT ![cid] = "none"]
  /\ UNCHANGED cid

\* fm160_dial_configure, whatever the link is doing.
Renames == Configure /\ cid' \in Cids /\ UNCHANGED opened

\* The next life is configured from the start.
Dies ==
  /\ Crash \/ CrashBeforeReset
  /\ cid' \in Cids
  /\ opened' = [c \in Cids |-> IF opened[c] = "none" THEN "none" ELSE "before"]

Other ==
  /\ \/ TickIdle \/ TickPin \/ TickReg \/ TickApn \/ TickProbe \/ TickRead
     \/ Start \/ StopUntold
     \/ Rest \/ PortChanges \/ ProfileChanges \/ ContextChanges
     \/ ServiceRestored \/ Hours
  /\ UNCHANGED <<cid, opened>>

SessionNext == Opens \/ Closes \/ Renames \/ Dies \/ Other

SessionSpec == SessionInit /\ [][SessionNext]_sessionVars

Stops == d.step # "DOWN" /\ d'.step = "DOWN"

\* dialer.c:922-924, fm160.sh:187-191: the stop is the disconnect, and nothing
\* else is.  When the dialler comes to DOWN, no activation is left that no
\* disconnect has followed.
StopDisconnects ==
  [][Stops => \A c \in Cids : opened'[c] = "none"]_sessionVars

\* What holds of it: a stop leaves a context open only when there is no port to
\* close it through, when a life before this one opened it, or when the
\* configuration has come to name another context since.
StopEndsOwnSession ==
  [][Stops => \A c \in Cids :
       opened'[c] # "none" => \/ port = "none"
                              \/ opened[c] = "before"
                              \/ c # cid]_sessionVars
=============================================================================
