---------------------------------- MODULE Vps ---------------------------------
(***************************************************************************)
(* The server as a whole: the commands of the routes, the connections, the *)
(* upkeep, the owner's panel and the SSH login beside each other, and the  *)
(* timer.                                                                  *)
(***************************************************************************)
EXTENDS TelegramAdmin, Sshd

vars == <<serverVars, routingVars, connectionVars, upkeepVars, panelVars, sshVars>>

Init ==
  /\ ServerInit(FreshServer) /\ RoutingInit(Start) /\ ConnectionsInit /\ UpkeepInit /\ PanelInit /\ SshInit

\* While its units are stopped the timer starts nothing.
TimerRuns == job'[Timer].op = "reconcile" => job[Timer].op = "reconcile" \/ units = "on"
Quiet == AllIdle /\ UNCHANGED vars

Next ==
  \/ RoutingNext /\ UNCHANGED <<connectionVars, upkeepVars, panelVars, sshVars>> /\ TimerRuns
  \/ ConnectionsNext /\ UNCHANGED <<upkeepVars, panelVars, sshVars>>
  \/ UpkeepNext /\ UNCHANGED <<panelVars, sshVars>>
  \/ PanelNext /\ UNCHANGED <<routingVars, connectionVars, upkeepVars, sshVars>>
  \/ SshNext /\ UNCHANGED <<routingVars, connectionVars, upkeepVars, panelVars>>
  \/ Quiet

Spec == Init /\ [][Next]_vars

\* A command of the blocklist, a restore beside it and the timer's runs go on, and the
\* timer runs again and again.
FairSpec ==
  /\ Spec
  /\ \A p \in Procs :
       WF_vars("block" \in kit.ops /\ UNCHANGED <<panelVars, sshVars>>
               /\ (\/ RoutingProgress(p) /\ UNCHANGED <<connectionVars, upkeepVars>>
                   \/ UpkeepProgress(p)))
  /\ WF_vars(Reconcile /\ TimerRuns /\ UNCHANGED <<routingVars, connectionVars, upkeepVars, panelVars, sshVars>>)

-----------------------------------------------------------------------------
\* Every variable has its type, and a command that takes manager.lock has it from its
\* load to its end.
TypeOK ==
  LET Outbound == [tag : Tags(FreshServer) \union Cascades \union Bypasses \union Regions \union {"warp"},
                   as : {"direct", "blocked", "warp"} \union Cascades \union Bypasses]
      Sites == [port : Ports \union {Nothing}, look : Looks \union {Nothing}, tls : {"tls1.2", "tls1.3"}]
  IN /\ \A i \in DOMAIN config.outbounds : config.outbounds[i] \in Outbound
     /\ \A i \in DOMAIN config.rules : config.rules[i].kind \in {"block", "torrent", "warning", "client", "catchall", "probe"}
     /\ config.strategy \in {Own, "IPOnDemand", "IPIfNonMatch"} \/ ~Readable
     /\ \A i \in DOMAIN config.inbounds : config.inbounds[i] \in [tag : Reals \union Fronts, port : Ports, look : Looks]
     /\ choice \in [Clients -> Cascades \union {Nothing}]
     /\ routes \in [Bypasses -> [region : Regions \union {Nothing}, enabled : BOOLEAN]]
     /\ blocks \in [Targets -> {"none", "on", "expired"}]
     /\ env.prev \in {Nothing, Own, "IPIfNonMatch"} /\ env.watched \in Regions \union {Nothing}
     /\ DOMAIN records = Reals \union Fronts /\ sites \in [Domains -> Sites] /\ archive \in [Domains -> Sites]
     /\ caddy = Down \/ caddy \in [Domains -> Sites]
     /\ units \in {"on", "off"} /\ parts \in [bin : 1 .. 2, geo : 1 .. 3]
     /\ people \subseteq People /\ panel.active \in 0 .. Len(chat) /\ panel.used \subseteq DOMAIN chat
     /\ sshd \in {"yes", "no"} /\ ssh \in [Parts -> BOOLEAN]
     /\ lock \in Procs \union {NoProc}
     /\ LockHeld

\* When every command has ended, and none was killed or failed to put back what it
\* changed, then, whatever overlapped, Xray runs on the config.json that is there, Caddy
\* serves the site files, sshd does what its files say, and the writer units run.
ServicesFollow == XrayFollows /\ CaddyFollows /\ SshFollows /\ UnitsFollow

\* Restores and updates put in place all of one version or all of the one before; and what
\* overlapped nothing leaves no temporary inbound of a test, and passwords at the SSH login
\* as they were asked for.
FilesWhole == RestoredWhole /\ UpdatesWhole /\ NoProbeLeft /\ AskedHolds
=============================================================================
