------------------------------ MODULE MCParts ------------------------------
(***************************************************************************)
(* Messages, at-daemon, port discovery, the watchdog and the prefix on the *)
(* LAN, model-checked in one run.  They share no state in the model, so    *)
(* each behaviour moves one of them, chosen at the start, and leaves the   *)
(* others as they begin.                                                   *)
(***************************************************************************)
EXTENDS Sms, AtDaemon, Discovery, Keepalive, LanPrefix

CONSTANTS a, b, t1, t2, t3, p1, p2

\* A bus without the module, with it in its usual and in two odd shapes.
MCLayouts ==
  {[t \in {t1, t2, t3} |-> "absent"]} \cup
  {(t1 :> c[1]) @@ (t2 :> c[2]) @@ (t3 :> c[3]) :
     c \in {<<"at", "silent", "fibocom">>, <<"silent", "silent", "foreign">>,
            <<"unknown", "at2", "absent">>}}

\* What at-daemon has used up at the start: of two commands, four lines and an
\* unplugging there are left one, two and one; two, three and none; or none,
\* four and one.
DaemonStart(n, m, k) == [sent |-> n, said |-> m, plugs |-> k]
MCDaemonUsed == {DaemonStart(1, 2, 0), DaemonStart(0, 1, 1), DaemonStart(2, 0, 0)}

\* What may go wrong with the messages, and what is used up then of two
\* arrivals, a deletion and an end of the daemon.
SmsStartsWith(n, m) == [arrivals |-> n, deletions |-> m, lives |-> 0]
MCSmsUsed == {SmsStartsWith(n, m) : n, m \in {0, 1}}
MCCases ==
  {<<{}, SmsStartsWith(0, 0)>>, <<{"crash"}, SmsStartsWith(0, 0)>>,
   <<{"power"}, SmsStartsWith(0, 1)>>, <<{"power"}, SmsStartsWith(1, 0)>>,
   <<{"forget"}, SmsStartsWith(0, 1)>>, <<{"reset"}, SmsStartsWith(1, 1)>>,
   <<{"crash", "full"}, SmsStartsWith(0, 1)>>,
   <<{"crash", "refuse"}, SmsStartsWith(1, 0)>>}
MCWeathers == {c[1] : c \in MCCases}

VARIABLE part       \* the component that moves

partsVars == <<part, smsVars, daemonVars, discoveryVars, keepaliveVars, lanVars>>

\* A component that does not move is left in one of its initial states.
PartsInit ==
  /\ part \in {"sms", "daemon", "discovery", "keepalive", "lan"}
  /\ SmsInit
  /\ IF part = "sms" THEN <<weather, spent>> \in MCCases
     ELSE ~armed /\ <<weather, spent>> = <<{"crash"}, SmsStartsWith(0, 0)>>
  /\ DaemonInit
  /\ part = "daemon" \/ bounds = DaemonStart(1, 2, 0)
  /\ DiscoveryInit
  /\ part = "discovery" \/ (Own(bus) = {} /\ alive = {} /\ ~enabled)
  /\ KeepaliveInit
  /\ part = "keepalive" \/ (~config.split /\ scripts[User] = <<>>)
  /\ LanInit

SmsPart ==
  /\ part = "sms" /\ SmsNext
  /\ UNCHANGED <<part, daemonVars, discoveryVars, keepaliveVars, lanVars>>

DaemonPart ==
  /\ part = "daemon" /\ DaemonNext
  /\ UNCHANGED <<part, smsVars, discoveryVars, keepaliveVars, lanVars>>

DiscoveryPart ==
  /\ part = "discovery" /\ DiscoveryNext
  /\ UNCHANGED <<part, smsVars, daemonVars, keepaliveVars, lanVars>>

KeepalivePart ==
  /\ part = "keepalive" /\ KeepaliveNext
  /\ UNCHANGED <<part, smsVars, daemonVars, discoveryVars, lanVars>>

\* Bound of the run: after a mishap no run of the script is started.
LanPart ==
  /\ part = "lan" /\ LanNext
  /\ (\E m \in DOMAIN mishaps : mishaps[m]) =>
       \A r \in RunId : Running(r)' => Running(r)
  /\ UNCHANGED <<part, smsVars, daemonVars, discoveryVars, keepaliveVars>>

PartsNext == SmsPart \/ DaemonPart \/ DiscoveryPart \/ KeepalivePart \/ LanPart

\* SmsFairness and DiscoveryFairness, each in the behaviours in which the
\* component moves.
PartsSpec ==
  /\ PartsInit /\ [][PartsNext]_partsVars
  /\ WF_smsVars(part = "sms" /\ SmsRuns)
  /\ WF_smsVars(part = "sms" /\ SmsFound)
  /\ WF_smsVars(part = "sms" /\ SetupTimer)
  /\ SF_smsVars(part = "sms" /\ (SetupTick \/ Urc))
  /\ WF_discoveryVars(part = "discovery" /\ GapEnds)
  /\ WF_discoveryVars(part = "discovery" /\ Age)
  /\ WF_discoveryVars(part = "discovery" /\ RestEnds)
  /\ WF_discoveryVars(part = "discovery" /\ Poll)
  /\ WF_discoveryVars(part = "discovery" /\ Tick)
  /\ WF_discoveryVars(part = "discovery" /\ Drop)
  /\ WF_discoveryVars(part = "discovery" /\ IdentStep)
=============================================================================
