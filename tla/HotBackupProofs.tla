---------------------------- MODULE HotBackupProofs ----------------------------
(***************************************************************************)
(* The two machines together, for any set of hosts and any faults.         *)
(*                                                                         *)
(* The argument: every step of the composition is a step of the processes, *)
(* or leaves them alone (NextIsDaemon), and a step of the scripts, or      *)
(* leaves them alone (NextIsScript).  The composition so implements the    *)
(* two components, and what is proved of them holds of it: in particular   *)
(* the single server, from the disjoint claims of the scripts.  What holds *)
(* only where some faults are left out is proved after that, from what the *)
(* components' invariants together say of each role and each script.       *)
(***************************************************************************)
EXTENDS HotBackup, DaemonProofs, AddressLeaseProofs

NetworkTypeOK ==
    /\ client_addr \in [Host -> Configured]
    /\ buffer \in [Host -> SUBSET Datagram]
    /\ up \in [Host -> BOOLEAN]

ComponentInv ==
    /\ DaemonInv
    /\ ScriptInv
    /\ NetworkTypeOK

-----------------------------------------------------------------------------

\* GetCurrentIp finds the address of eth0, or that of lo when eth0 is down.
LEMMA CurrentIp ==
  ASSUME NEW h \in Host
  PROVE  GetCurrentIp(Interfaces(h)) = eth0[h]
<1> DEFINE Up == {i \in DOMAIN Interfaces(h) : Interfaces(h)[i].up}
<1>1. /\ DOMAIN Interfaces(h) = {1, 2}
      /\ Interfaces(h)[1] = [up |-> TRUE, ip |-> NoAddress]
      /\ Interfaces(h)[2] = [up |-> eth0[h] # NoAddress, ip |-> eth0[h]]
  BY DEF Interfaces
<1>2. Interfaces(h)[1].up /\ (Interfaces(h)[2].up <=> eth0[h] # NoAddress)
  <2>1. Interfaces(h)[1].up = TRUE
    BY <1>1, SMT
  <2>2. Interfaces(h)[2].up = (eth0[h] # NoAddress)
    BY <1>1
  <2> QED
    BY <2>1, <2>2
<1>3. CASE eth0[h] # NoAddress
  <2>1. Up = {1, 2}
    BY <1>1, <1>2, <1>3, Zenon
  <2>2. 2 = CHOOSE i \in Up : \A j \in Up : i >= j
    BY <2>1
  <2> QED
    BY <1>1, <2>2 DEF GetCurrentIp
<1>4. CASE eth0[h] = NoAddress
  <2>1. Up = {1}
    BY <1>1, <1>2, <1>4, Zenon
  <2>2. 1 = CHOOSE i \in Up : \A j \in Up : i >= j
    BY <2>1
  <2> QED
    BY <1>1, <1>4, <2>2 DEF GetCurrentIp
<1> QED
  BY <1>3, <1>4

\* A step of one of the daemons is one of its own process.
LEMMA DaemonStepIsDaemon ==
  ASSUME ComponentInv, NEW h \in Host, DaemonStep(h)
  PROVE  [DaemonNext]_daemonVars
<1> USE DEF processVars
<1>0. DaemonThread(h) \/ DaemonHeartBeat(h) \/ DaemonReceives(h)
          => DaemonNext
  BY DEF DaemonNext
<1>1. CASE MainThreadSteps(h)
  <2>1. \A service : Exists(h, service) \in {0, -1}
    BY DEF Exists
  <2> QED
    BY <1>0, <1>1, <2>1 DEF MainThreadSteps, DaemonThread, ServerStart
<1>2. CASE RestartsService(h)
  BY <1>0, <1>2 DEF RestartsService, DaemonThread, ServerStart
<1>3. CASE HeartBeatSteps(h)
  BY <1>0, <1>3 DEF HeartBeatSteps, DaemonHeartBeat, HeartBeatThread
<1>4. CASE TestsStop(h)
  BY <1>0, <1>4 DEF TestsStop, DaemonHeartBeat, HeartBeatThread
<1>5. CASE ReceiveDatagram(h) \/ ReceiveError(h)
  BY <1>0, <1>5 DEF ReceiveDatagram, ReceiveError, DaemonReceives,
     HeartBeatReceive, ServerInput
<1>6. CASE Answers(h)
  BY <1>0, <1>6 DEF Answers, DaemonHeartBeat, HeartBeatThread
<1>7. CASE SwitchesIp(h)
  BY <1>0, <1>7 DEF SwitchesIp, DaemonHeartBeat, HeartBeatThread
<1>8. CASE ClientSteps(h) \/ Asks(h)
  BY <1>0, <1>8 DEF ClientSteps, Asks, DaemonThread, ClientStart
<1>9. CASE ClientReceives(h)
  <2>1. CASE RecvError(h) /\ UNCHANGED <<serverVars, main_ip>>
    BY <1>0, <2>1 DEF DaemonThread, ClientStart
  <2>2. ASSUME NEW d \in buffer[h], UNCHANGED <<serverVars, main_ip>>,
               RecvPackage(h, IF d.msg = "client-heart-beat" THEN "other"
                                                        ELSE d.msg, d.from)
        PROVE  DaemonNext
    <3>1. d \in Datagram
      BY DEF ComponentInv, NetworkTypeOK
    <3>2. /\ (IF d.msg = "client-heart-beat" THEN "other" ELSE d.msg) \in Package
          /\ d.from \in Address
      BY <3>1 DEF Datagram, Package
    <3> QED
      BY <1>0, <2>2, <3>2 DEF DaemonReceives, ClientReceive
  <2> QED
    BY <1>9, <2>1, <2>2 DEF ClientReceives
<1>10. CASE ChangesServer(h)
  BY <1>0, <1>10 DEF ChangesServer, DaemonThread, ClientStart
<1>11. CASE MainRunsAgain(h)
  <2>1. eth0[h] \in Configured
    BY DEF ComponentInv, ScriptInv, ScriptTypeOK
  <2> QED
    BY <1>0, <1>11, <2>1, CurrentIp DEF MainRunsAgain, DaemonThread
<1>12. CASE ScriptRuns(h)
  BY <1>12 DEF ScriptRuns, daemonVars
<1> QED
  BY <1>1, <1>2, <1>3, <1>4, <1>5, <1>6, <1>7, <1>8, <1>9, <1>10, <1>11,
     <1>12
  DEF DaemonStep

\* The same of what goes wrong, and of the scripts that stop and start it.
LEMMA FaultIsDaemon ==
  ASSUME ComponentInv, FaultStep
  PROVE  [DaemonNext]_daemonVars
<1> USE DEF processVars, daemonVars
<1>1. CASE Split
  BY <1>1 DEF Split
<1>2. ASSUME NEW h \in Host,
             ServiceFails(h) \/ HostBoots(h) \/ RepairNetwork(h)
      PROVE  UNCHANGED daemonVars
  BY <1>2 DEF ServiceFails, HostBoots, RepairNetwork
<1>3. ASSUME NEW h \in Host, StopDaemon(h) \/ HostCrash(h)
      PROVE  DaemonNext
  BY <1>3 DEF StopDaemon, HostCrash, DaemonNext, DaemonEnvironment
<1>4. ASSUME NEW h \in Host, StartDaemon(h)
      PROVE  DaemonNext
  <2>1. eth0[h] \in Configured
    BY DEF ComponentInv, ScriptInv, ScriptTypeOK
  <2> QED
    BY <1>4, <2>1, CurrentIp DEF StartDaemon, DaemonNext, DaemonEnvironment
<1> QED
  BY <1>1, <1>2, <1>3, <1>4 DEF FaultStep

LEMMA NextIsDaemon ==
  ASSUME ComponentInv, [Next]_vars
  PROVE  [DaemonNext]_daemonVars
<1>1. CASE UNCHANGED vars
  BY <1>1 DEF vars
<1> QED
  BY <1>1, DaemonStepIsDaemon, FaultIsDaemon DEF Next

\* Every step is one of the scripts of a host, of what happens to them, or
\* leaves them alone.
LEMMA NextIsScript ==
  ASSUME ComponentInv, [Next]_vars
  PROVE  [ScriptNext]_scriptVars
<1>1. CASE UNCHANGED vars
  BY <1>1 DEF vars
<1>2. ASSUME NEW h \in Host,
             \/ MainThreadSteps(h) \/ HeartBeatSteps(h) \/ TestsStop(h)
             \/ ReceiveDatagram(h) \/ ReceiveError(h) \/ Answers(h)
             \/ ClientSteps(h) \/ Asks(h) \/ ClientReceives(h)
             \/ MainRunsAgain(h) \/ StartDaemon(h)
      PROVE  UNCHANGED scriptVars
  BY <1>2 DEF MainThreadSteps, HeartBeatSteps, TestsStop, ReceiveDatagram,
     ReceiveError, Answers, ClientSteps, Asks, ClientReceives, MainRunsAgain,
     StartDaemon
<1>3. ASSUME NEW h \in Host, RestartsService(h) \/ ServiceFails(h)
      PROVE  ScriptNext
  <2>1. services[h] \subseteq Service
    BY DEF ComponentInv, ScriptInv, ScriptTypeOK
  <2>2. \A started \in {{}, {"database"}, {"cems"}} :
            services[h] \cup started \in ServiceStates
    BY <2>1, AnyServiceAssumption DEF Service
  <2>3. \A service : services[h] \ {service} \in ServiceStates
    BY <2>1, AnyServiceAssumption
  <2> QED
    BY <1>3, <2>2, <2>3
    DEF RestartsService, ServiceFails, ScriptNext, ScriptEnvironment
<1>4. ASSUME NEW h \in Host, SwitchesIp(h) \/ ChangesServer(h)
      PROVE  ScriptNext
  BY <1>4
  DEF SwitchesIp, ChangesServer, ScriptNext, ScriptEnvironment, ScriptStep
<1>5. ASSUME NEW h \in Host, ScriptRuns(h)
      PROVE  ScriptNext
  <2>1. Outcomes("netStart") \subseteq BOOLEAN /\ Outcomes("fix") \subseteq BOOLEAN
    BY DEF Outcomes
  <2> QED
    BY <1>5, <2>1 DEF ScriptRuns, ScriptNext, ScriptStep
<1>6. ASSUME NEW h \in Host,
             \/ StopDaemon(h) \/ HostCrash(h) \/ HostBoots(h)
             \/ RepairNetwork(h)
      PROVE  ScriptNext
  BY <1>6 DEF StopDaemon, HostCrash, HostBoots, RepairNetwork, ScriptNext,
     ScriptEnvironment
<1>7. CASE Split
  BY <1>7 DEF Split, ScriptNext
<1> QED
  BY <1>1, <1>2, <1>3, <1>4, <1>5, <1>6, <1>7 DEF Next, DaemonStep, FaultStep

-----------------------------------------------------------------------------

\* What is sent from an address is a datagram in some buffer, or is lost.
LEMMA SendKeepsTypes ==
  ASSUME NetworkTypeOK, NEW h \in Host,
         NEW msg \in {"client-heart-beat", "server-heart-beat", "switch-server"},
         NEW from \in Address, NEW to, Send(h, msg, from, to)
  PROVE  buffer' \in [Host -> SUBSET Datagram]
<1>1. [msg |-> msg, from |-> from] \in Datagram
  BY DEF Datagram
<1> QED
  BY <1>1 DEF Send, NetworkTypeOK

LEMMA NetworkTypeStep ==
  ASSUME ComponentInv, [Next]_vars
  PROVE  NetworkTypeOK'
<1> USE DEF NetworkTypeOK, processVars, Close
<1>0. NetworkTypeOK
  BY DEF ComponentInv
<1>1. CASE UNCHANGED vars
  BY <1>0, <1>1 DEF vars
<1>2. ASSUME NEW h \in Host,
             \/ MainThreadSteps(h) \/ RestartsService(h) \/ HeartBeatSteps(h)
             \/ ReceiveError(h) \/ ClientSteps(h) \/ MainRunsAgain(h)
             \/ ScriptRuns(h) \/ ServiceFails(h) \/ StartDaemon(h)
             \/ RepairNetwork(h)
      PROVE  NetworkTypeOK'
  BY <1>0, <1>2 DEF MainThreadSteps, RestartsService, HeartBeatSteps,
     ReceiveError, ClientSteps, MainRunsAgain, ScriptRuns, ServiceFails,
     StartDaemon, RepairNetwork
<1>3. ASSUME NEW h \in Host,
             \/ TestsStop(h) \/ SwitchesIp(h) \/ ChangesServer(h)
             \/ StopDaemon(h) \/ HostCrash(h) \/ HostBoots(h)
      PROVE  NetworkTypeOK'
  BY <1>0, <1>3 DEF TestsStop, SwitchesIp, ChangesServer, StopDaemon,
     HostCrash, HostBoots, Configured
<1>4. ASSUME NEW h \in Host, ReceiveDatagram(h) \/ ClientReceives(h)
      PROVE  NetworkTypeOK'
  <2>1. \A d \in buffer[h] : d.from \in Configured
    BY <1>0 DEF Datagram, Configured
  <2> QED
    BY <1>0, <1>4, <2>1 DEF ReceiveDatagram, ClientReceives
<1>5. ASSUME NEW h \in Host, Answers(h)
      PROVE  NetworkTypeOK'
  <2>1. buffer' \in [Host -> SUBSET Datagram]
    BY <1>0, <1>5, SendKeepsTypes, ServiceIpAssumption DEF Answers
  <2> QED
    BY <1>0, <1>5, <2>1 DEF Answers
<1>6. ASSUME NEW h \in Host, Asks(h)
      PROVE  NetworkTypeOK'
  <2>1. main_ip[h] \in Address
    BY <1>6 DEF Asks, CanSend, ComponentInv, DaemonInv, Configured
  <2>2. buffer' \in [Host -> SUBSET Datagram]
    BY <1>0, <1>6, <2>1, SendKeepsTypes DEF Asks
  <2> QED
    BY <1>0, <1>6, <2>2 DEF Asks
<1>7. CASE Split
  BY <1>0, <1>7 DEF Split
<1> QED
  BY <1>1, <1>2, <1>3, <1>4, <1>5, <1>6, <1>7 DEF Next, DaemonStep, FaultStep

\* The first state of the composition is one of each component.
LEMMA InitIsComponents ==
  ASSUME Init
  PROVE  /\ ComponentInv
         /\ \E home \in HomeAddresses : ScriptInit(home)
         /\ \E Servers \in SUBSET Host, home \in [Host -> Configured] :
                /\ \A h \in Servers : home[h] = ServiceIp
                /\ DaemonInit(Servers, home)
<1>1. HomeIp \in HomeAddresses /\ HomeIp \in [Host -> Configured]
  BY HomeIpAssumption DEF HomeAddresses, Configured
<1>2. {Master} \in SUBSET Host /\ HomeIp[Master] = ServiceIp
  BY MasterAssumption, HomeIpAssumption
<1>3. DaemonInit({Master}, HomeIp) /\ ScriptInit(HomeIp)
  BY DEF Init
<1>4. DaemonInv /\ ScriptInv
  BY <1>1, <1>2, <1>3, DaemonInvInit, ScriptInvInit
<1>5. NetworkTypeOK
  BY DEF Init, NetworkTypeOK, Configured
<1> QED
  BY <1>1, <1>2, <1>3, <1>4, <1>5 DEF ComponentInv

LEMMA ComponentInvStep == ComponentInv /\ [Next]_vars => ComponentInv'
<1> SUFFICES ASSUME ComponentInv, [Next]_vars
             PROVE  ComponentInv'
  OBVIOUS
<1>1. DaemonInv'
  BY NextIsDaemon, DaemonInvStep DEF ComponentInv
<1>2. ScriptInv'
  BY NextIsScript, ScriptInvStep DEF ComponentInv
<1> QED
  BY <1>1, <1>2, NetworkTypeStep DEF ComponentInv

\* The invariants of the components hold of the two machines together.
THEOREM ComponentInvariant == Spec => []ComponentInv
<1>1. Init => ComponentInv
  BY InitIsComponents
<1> QED
  BY <1>1, ComponentInvStep, PTL DEF Spec

\* The processes of the two machines behave as processes do: what is proved of
\* Daemon for any answers of the surroundings holds of them.
THEOREM ImplementsDaemon == Spec => DaemonSpec
<1> DEFINE Begin == \E Servers \in SUBSET Host, home \in [Host -> Configured] :
                        /\ \A h \in Servers : home[h] = ServiceIp
                        /\ DaemonInit(Servers, home)
<1>1. Init => Begin
  BY InitIsComponents
<1> HIDE DEF Begin
<1>2. ComponentInv /\ [Next]_vars => [DaemonNext]_daemonVars
  BY NextIsDaemon
<1>3. Begin /\ [][DaemonNext]_daemonVars => DaemonSpec
  BY DEF DaemonSpec, Begin
<1> QED
  BY <1>1, <1>2, <1>3, ComponentInvariant, PTL DEF Spec

\* The scripts the daemons run behave as scripts do, and so hand addresses out
\* as leases.
THEOREM ImplementsScripts == Spec => ScriptSpec /\ ImplementsLeases
<1>1. Init => \E home \in HomeAddresses : ScriptInit(home)
  BY InitIsComponents
<1>2. ComponentInv /\ [Next]_vars => [ScriptNext]_scriptVars
  BY NextIsScript
<1>3. Spec => ScriptSpec
  BY <1>1, <1>2, ComponentInvariant, PTL DEF Spec, ScriptSpec
<1> QED
  BY <1>3, ScriptsImplementLeases, PTL

\* All the variables of the two machines keep their types.
THEOREM HotBackupTypeCorrect == Spec => []HotBackupTypeOK
<1>1. ComponentInv => HotBackupTypeOK
  BY DEF ComponentInv, DaemonInv, ServerInv, ClientInv, ScriptInv,
     NetworkTypeOK, HotBackupTypeOK, DaemonTypeOK
<1> QED
  BY <1>1, ComponentInvariant, PTL

\* Whatever fails: two hosts answer heart-beats at the service address only
\* after a ping missed one on its way back to it.
THEOREM SingleServerUnlessRaced == Spec => []OneServerUnlessRaced
<1>1. ComponentInv => OneServerUnlessRaced
  <2> SUFFICES ASSUME ComponentInv, ~raced, NEW g \in Host, NEW h \in Host,
                      eth0[g] = ServiceIp, eth0[h] = ServiceIp
               PROVE  g = h
    BY DEF OneServerUnlessRaced, Serves
  <2>1. ServiceIp # NoAddress
    BY ServiceIpAssumption, LastAssumption DEF Address, NoAddress
  <2>2. ServiceIp \in Claims(g) /\ ServiceIp \in Claims(h)
    BY <2>1 DEF Claims
  <2> QED
    BY <2>2 DEF ComponentInv, ScriptInv, DisjointClaims
<1> QED
  BY <1>1, ComponentInvariant, PTL

-----------------------------------------------------------------------------
(* Where a host is while it has a role *)

\* A script runs for the thread that waits for it.
ScriptOfProcess ==
    \A h \in Host : scriptPc[h] # "idle"
                       => heartBeatPc[h] = "script" \/ clientPc[h] = "script"

\* The order to stop is given after the checks.
StopEndsLoop ==
    \A h \in Host :
        stop_heart_beat_[h] => serverPc[h] \in {"join", "stopped", "crashed"}

AtServiceAddress ==
    \A h \in Host :
        (/\ serverPc[h] \notin {"idle", "stopped", "crashed"}
         /\ scriptPc[h] = "idle"
         /\ heartBeatPc[h] # "exited") => eth0[h] = ServiceIp

RoleInv ==
    /\ ScriptOfProcess
    /\ StopEndsLoop
    /\ AtServiceAddress
    /\ ServerAnswers

LEMMA RoleInvInit == Init => RoleInv
<1> SUFFICES ASSUME Init
             PROVE  RoleInv
  OBVIOUS
<1>1. ScriptOfProcess /\ StopEndsLoop /\ ServerAnswers
  BY DEF Init, DaemonInit, ServerInit, ScriptInit, ScriptOfProcess,
     StopEndsLoop, ServerAnswers
<1>2. AtServiceAddress
  BY HomeIpAssumption
  DEF Init, DaemonInit, ServerInit, ScriptInit, AtServiceAddress
<1> QED
  BY <1>1, <1>2 DEF RoleInv

\* What the components' invariants say of a host's threads.
LEMMA ThreadFacts ==
  ASSUME ComponentInv, NEW h \in Host
  PROVE  /\ serverPc[h] # "idle" <=> clientPc[h] = "idle"
         /\ serverPc[h] \in {"idle", "startHeartBeat", "stopped", "crashed"}
                => heartBeatPc[h] \in {"none", "exited"}
         /\ serverPc[h] = "startHeartBeat" => heartBeatPc[h] = "none"
         /\ heartBeatPc[h] = "switchIp" => cwd[h] = "install"
         /\ heartBeatPc[h] \in {"orderSwitch", "switchIp", "script"}
                => serverPc[h] \in PastLoop
  BY DEF ComponentInv, DaemonInv, OneRole, ServerInv, ServerTypeOK, HeartBeatPc,
     OneHeartBeat, HeartBeatAlive, StartsWithoutThread, ActsOnFlag, FlagEndsLoop, CwdInScan, PastLoop

LEMMA RoleInvStep ==
  ASSUME ComponentInv, RoleInv, [Next]_vars
  PROVE  RoleInv'
<1> USE ThreadFacts
    DEF RoleInv, ScriptOfProcess, StopEndsLoop, AtServiceAddress,
        ServerAnswers, PastLoop, processVars, clientVars, serverVars, mainVars,
        heartBeatVars, flags, scriptVars, shellVars, goto, beat, advance, run
<1>0. /\ ServerTypeOK /\ ClientTypeOK /\ ScriptTypeOK
      /\ ServiceIp # NoAddress
  BY ServiceIpAssumption, LastAssumption
  DEF ComponentInv, DaemonInv, ServerInv, ClientInv, ScriptInv, Address,
      NoAddress
<1> USE <1>0 DEF ServerTypeOK, ClientTypeOK, ScriptTypeOK
<1>1. CASE UNCHANGED vars
  BY <1>1 DEF vars, daemonVars
<1>2. ASSUME NEW h \in Host, MainThreadSteps(h) \/ RestartsService(h)
      PROVE  RoleInv'
  <2>1. UNCHANGED <<clientVars, scriptPc, eth0>>
    BY <1>2 DEF MainThreadSteps, RestartsService, ServicesChange
  <2>2. ServerStart(h) /\ (Exists(h, "database") \in {0, -1})
    BY <1>2 DEF MainThreadSteps, RestartsService, ServerStart, Exists
  <2>3. CASE \E result \in CreateResults : StartHeartBeat(h, result)
    BY <2>1, <2>3 DEF StartHeartBeat
  <2>4. CASE StopHeartBeat(h)
    BY <2>1, <2>4 DEF StopHeartBeat
  <2>5. CASE Join(h) \/ JoinUndefined(h)
    BY <2>1, <2>5 DEF Join, JoinUndefined
  <2>6. CASE RaiseSwitch(h)
    BY <2>1, <2>6 DEF RaiseSwitch
  <2>7. CASE \/ \E result \in {0, -1} : \/ CheckDatabaseStatus(h, result)
                                        \/ CheckMonitorStatus(h, result)
             \/ ScanProc(h) \/ AllWell(h) \/ RestartServices(h)
             \/ RestartDatabase(h) \/ RestartMonitor(h) \/ Sleep(h)
    BY <2>1, <2>7
    DEF CheckDatabaseStatus, CheckMonitorStatus, ScanProc, AllWell,
        RestartServices, RestartDatabase, RestartMonitor, Sleep
  <2> QED
    BY <2>2, <2>3, <2>4, <2>5, <2>6, <2>7 DEF ServerStart
<1>3. ASSUME NEW h \in Host,
             \/ HeartBeatSteps(h) \/ TestsStop(h) \/ ReceiveDatagram(h)
             \/ ReceiveError(h) \/ Answers(h)
      PROVE  RoleInv'
  BY <1>3 DEF HeartBeatSteps, TestsStop, ReceiveDatagram, ReceiveError,
     Answers, OpenSocket, TestFlag, TestStop, Receive, SendHeartBeat,
     SendSwitchServer
<1>4. ASSUME NEW h \in Host, SwitchesIp(h)
      PROVE  RoleInv'
  <2>1. CASE SwitchIp(h) /\ auto_switch_ip(h, TRUE)
    BY <1>4, <2>1 DEF SwitchesIp, SwitchIp, auto_switch_ip
  <2>2. CASE SwitchIpReturns(h) /\ ScriptReturns(h)
    BY <1>4, <2>2 DEF SwitchesIp, SwitchIpReturns, ScriptReturns, ShellEnds
  <2> QED
    BY <1>4, <2>1, <2>2 DEF SwitchesIp
<1>5. ASSUME NEW h \in Host, ClientSteps(h) \/ Asks(h) \/ ClientReceives(h)
      PROVE  RoleInv'
  BY <1>5 DEF ClientSteps, Asks, ClientReceives, OpenClient,
     SendClientHeartBeat, SendAgain, ClientSleep, RecvError, RecvPackage
<1>6. ASSUME NEW h \in Host, ChangesServer(h)
      PROVE  RoleInv'
  BY <1>6 DEF ChangesServer, ChangeServer, StartSwitchServer,
     ChangeServerReturns, ScriptReturns
<1>7. ASSUME NEW h \in Host, MainRunsAgain(h) \/ StartDaemon(h)
      PROVE  RoleInv'
  <2>1. UNCHANGED <<scriptPc, eth0>>
    BY <1>7 DEF MainRunsAgain, StartDaemon
  <2>2. CASE RunServer(h) /\ eth0[h] = ServiceIp /\ clientPc'[h] = "idle"
             /\ clientPc[h] # "script"
             /\ \A g \in Host \ {h} : clientPc'[g] = clientPc[g]
    BY <2>1, <2>2 DEF RunServer, NewServer
  <2>3. CASE RunClient(h) /\ (LeaveServer(h) \/ UNCHANGED serverVars)
    <3>1. CASE LeaveServer(h)
      BY <2>1, <2>3, <3>1 DEF RunClient, LeaveServer, NewServer
    <3>2. CASE UNCHANGED serverVars
      BY <2>1, <2>3, <3>2 DEF RunClient
    <3> QED
      BY <2>3, <3>1, <3>2
  <2>4. CASE MainRunsAgain(h)
    BY <2>2, <2>3, <2>4, CurrentIp DEF MainRunsAgain, RunsAgain, LeaveClient
  <2>5. CASE StartDaemon(h)
    BY <2>2, <2>3, <2>5, CurrentIp
    DEF StartDaemon, StartMaster, StartSlave, HasEnded, LeaveClient
  <2> QED
    BY <1>7, <2>4, <2>5
<1>8. ASSUME NEW h \in Host, ScriptRuns(h)
      PROVE  RoleInv'
  <2>1. /\ UNCHANGED <<serverVars, clientVars>>
        /\ scriptPc[h] # "idle" /\ scriptPc'[h] # "idle"
        /\ \A g \in Host \ {h} : scriptPc'[g] = scriptPc[g] /\ eth0'[g] = eth0[g]
    BY <1>8 DEF ScriptRuns, ScanAnswered, ScanExhausted, ScanFree,
       TakesForFree, AutoNetStop, stop_mysql, PingAnswered, PingFree, NetStop,
       AutoNetStart, NetStart, Recover, fix_services_ip, StartCems
  <2> QED
    BY <2>1
<1>9. ASSUME NEW h \in Host, StopDaemon(h) \/ HostCrash(h)
      PROVE  RoleInv'
  <2>1. /\ scriptPc' = [scriptPc EXCEPT ![h] = "idle"]
        /\ \A g \in Host \ {h} : eth0'[g] = eth0[g]
    BY <1>9 DEF StopDaemon, HostCrash, KillScript, HostDown
  <2>2. CASE serverPc[h] # "idle" /\ ServerCrash(h) /\ UNCHANGED clientVars
    BY <2>1, <2>2 DEF ServerCrash, NewServer
  <2>3. CASE clientPc[h] # "idle" /\ ClientCrash(h) /\ UNCHANGED serverVars
    BY <2>1, <2>3 DEF ClientCrash
  <2> QED
    BY <1>9, <2>2, <2>3 DEF StopDaemon, HostCrash, ProcessEnds
<1>10. ASSUME NEW h \in Host,
              ServiceFails(h) \/ HostBoots(h) \/ RepairNetwork(h)
       PROVE  RoleInv'
  BY <1>10 DEF ServiceFails, ServicesChange, HostBoots, HostUp,
     RepairNetwork, NetworkStarted
<1>11. CASE Split
  BY <1>11 DEF Split, LinkChanges
<1> QED
  BY <1>1, <1>2, <1>3, <1>4, <1>5, <1>6, <1>7, <1>8, <1>9, <1>10, <1>11
  DEF Next, DaemonStep, FaultStep

\* As long as the server checks its services its heart-beat thread answers,
\* if it has been created: no fault of the network or of a script ends it.
THEOREM ServersAnswer == Spec => []ServerAnswers
<1>1. ComponentInv /\ RoleInv /\ [Next]_vars => RoleInv'
  BY RoleInvStep
<1>2. RoleInv => ServerAnswers
  BY DEF RoleInv
<1> QED
  BY <1>1, <1>2, RoleInvInit, ComponentInvariant, PTL DEF Spec

-----------------------------------------------------------------------------
(* The standby *)

WaitingPc == {"open", "send", "sendFailed", "recv", "sleep", "changeServer"}

ClientElsewhere ==
    \A h \in Host : clientPc[h] \in WaitingPc => eth0[h] # ServiceIp

DownHasEnded == \A h \in Host : ~up[h] => HasEnded(h)

\* What was received for one role is not there for the next.
BufferOfSocket ==
    \A h \in Host :
        buffer[h] # {} => \/ Listens(h)
                         \/ clientPc[h] = "changeServer"
                         \/ heartBeatPc[h] = "switchIp"

HearsServer ==
    \A h \in Host :
        clientPc[h] # "idle" => \A d \in buffer[h] : d.from = ServiceIp

AddressesServer == \A h \in Host : server_addr[h] = ServiceIp

\* Where each script leaves from, so where it does not go.
ScriptsLeave ==
    \A h \in Host :
        /\ clientPc[h] \in {"recv", "sleep", "changeServer"}
               => eth0[h] # NoAddress
        /\ scriptPc[h] = "scan" => eth0[h] = ServiceIp
        /\ scriptPc[h] \in {"stopServices", "ping", "netStop"}
               => eth0[h] \notin {ServiceIp, NoAddress}
        /\ scriptPc[h] = "autoNetStop" => tmp[h] # ServiceIp
        /\ scriptPc[h] = "autoNetStart" => IPADDR[h] # ServiceIp
        /\ scriptPc[h] \in {"netStart", "recover"} => local_ip[h] # ServiceIp

MovingPc == {"autoNetStop", "autoNetStart", "netStop", "netStart", "recover"}

\* h has no address, and no script that brings one up: what it is configured
\* with comes back by a boot or by hand only.
Silent(h) == eth0[h] = NoAddress /\ scriptPc[h] \notin MovingPc

\* A host whose network did not start, and whose daemon goes on, was not on its
\* way to the service address.
ProcessElsewhere ==
    \A h \in Host : Silent(h) /\ ~HasEnded(h) => IPADDR[h] # ServiceIp

StandbyInv ==
    /\ ScriptsLeave
    /\ ProcessElsewhere
    /\ ClientElsewhere
    /\ DownHasEnded
    /\ BufferOfSocket
    /\ HearsServer
    /\ AddressesServer

LEMMA StandbyInvInit == Init => StandbyInv
<1> SUFFICES ASSUME Init
             PROVE  StandbyInv
  OBVIOUS
<1>1. \A h \in Host \ {Master} : HomeIp[h] # ServiceIp
  BY HomeIpAssumption, MasterAssumption DEF HomeAddresses, Distinct
<1>2. ClientElsewhere
  BY <1>1 DEF Init, DaemonInit, ClientInit, ScriptInit, ClientElsewhere,
     WaitingPc
<1>3. DownHasEnded /\ BufferOfSocket /\ HearsServer /\ AddressesServer
  BY DEF Init, DaemonInit, ClientInit, DownHasEnded, BufferOfSocket,
     HearsServer, AddressesServer
<1>4. \A h \in Host : /\ scriptPc[h] = "idle" /\ eth0[h] = HomeIp[h]
                      /\ HomeIp[h] # NoAddress
                      /\ clientPc[h] \in {"open", "idle"}
  <2>1. /\ scriptPc = [h \in Host |-> "idle"] /\ eth0 = HomeIp
        /\ clientPc = [h \in Host |-> IF h \in Host \ {Master} THEN "open"
                                                             ELSE "idle"]
    BY Zenon DEF Init, ScriptInit, DaemonInit, ClientInit
  <2>2. \A h \in Host : HomeIp[h] # NoAddress
    BY HomeIpAssumption, LastAssumption DEF HomeAddresses, Address, NoAddress
  <2> QED
    BY <2>1, <2>2
<1>5. ScriptsLeave /\ ProcessElsewhere
  BY <1>4 DEF ScriptsLeave, ProcessElsewhere, Silent
<1> QED
  BY <1>2, <1>3, <1>5 DEF StandbyInv

\* A socket that listens is the one of the role the host has.
LEMMA ListensInRole ==
  ASSUME ComponentInv, NEW h \in Host, Listens(h), clientPc[h] # "idle"
  PROVE  clientPc[h] \in WaitingPc
  BY ThreadFacts DEF Listens, WaitingPc

\* The steps of a script, and the address each may leave the host with.
LEMMA ScriptsLeaveStep ==
  ASSUME ComponentInv, RoleInv, StandbyInv, [Next]_vars
  PROVE  ScriptsLeave'
<1> USE ThreadFacts
    DEF StandbyInv, ScriptsLeave, processVars, clientVars, serverVars, mainVars,
        heartBeatVars, flags, scriptVars, shellVars, goto, beat, advance, run
<1>0. /\ ServerTypeOK /\ ClientTypeOK /\ ScriptTypeOK
      /\ ServiceIp # NoAddress
  BY ServiceIpAssumption, LastAssumption
  DEF ComponentInv, DaemonInv, ServerInv, ClientInv, ScriptInv, Address,
      NoAddress
<1> USE <1>0 DEF ServerTypeOK, ClientTypeOK, ScriptTypeOK
<1>1. CASE UNCHANGED vars
  BY <1>1 DEF vars, daemonVars
<1>2. ASSUME NEW h \in Host,
             \/ MainThreadSteps(h) \/ RestartsService(h) \/ HeartBeatSteps(h)
             \/ TestsStop(h) \/ ReceiveDatagram(h) \/ ReceiveError(h)
             \/ Answers(h) \/ ServiceFails(h)
      PROVE  ScriptsLeave'
  <2>1. UNCHANGED <<clientPc, scriptPc, eth0, IPADDR, shellVars>>
    BY <1>2 DEF MainThreadSteps, RestartsService, HeartBeatSteps, TestsStop,
       ReceiveDatagram, ReceiveError, Answers, ServiceFails, ServicesChange
  <2> QED
    BY <2>1
<1>3. ASSUME NEW h \in Host, SwitchesIp(h)
      PROVE  ScriptsLeave'
  <2>1. CASE SwitchIp(h) /\ auto_switch_ip(h, TRUE)
    <3>1. eth0[h] = ServiceIp
      BY <2>1 DEF SwitchIp, auto_switch_ip, RoleInv, AtServiceAddress, PastLoop
    <3> QED
      BY <1>3, <2>1, <3>1 DEF SwitchesIp, auto_switch_ip
  <2>2. CASE SwitchIpReturns(h) /\ ScriptReturns(h)
    BY <1>3, <2>2 DEF SwitchesIp, ScriptReturns, ShellEnds
  <2> QED
    BY <1>3, <2>1, <2>2 DEF SwitchesIp
<1>4. ASSUME NEW h \in Host, ClientSteps(h) \/ Asks(h) \/ ClientReceives(h)
      PROVE  ScriptsLeave'
  <2>1. UNCHANGED scriptVars
    BY <1>4 DEF ClientSteps, Asks, ClientReceives
  <2> QED
    BY <1>4, <2>1 DEF ClientSteps, Asks, ClientReceives, CanSend, OpenClient,
       SendClientHeartBeat, SendAgain, ClientSleep, RecvError, RecvPackage
<1>5. ASSUME NEW h \in Host, ChangesServer(h)
      PROVE  ScriptsLeave'
  <2>1. CASE ChangeServer(h) /\ StartSwitchServer(h)
    BY <1>5, <2>1 DEF ChangesServer, ChangeServer, StartSwitchServer,
       ClientElsewhere, WaitingPc
  <2>2. CASE ChangeServerReturns(h) /\ ScriptReturns(h)
    BY <1>5, <2>2 DEF ChangesServer, ChangeServerReturns, ScriptReturns,
       ShellEnds
  <2> QED
    BY <1>5, <2>1, <2>2 DEF ChangesServer
<1>6. ASSUME NEW h \in Host, MainRunsAgain(h) \/ StartDaemon(h)
      PROVE  ScriptsLeave'
  <2>1. /\ UNCHANGED scriptVars
        /\ \A g \in Host : clientPc'[g] \in {"idle", "open", clientPc[g]}
    BY <1>6 DEF MainRunsAgain, StartDaemon, RunsAgain, StartMaster, StartSlave,
       RunClient, LeaveClient
  <2> QED
    BY <2>1
<1>7. ASSUME NEW h \in Host, ScriptRuns(h)
      PROVE  ScriptsLeave'
  <2>1. UNCHANGED clientVars /\ clientPc[h] \notin WaitingPc
    BY <1>7 DEF ScriptRuns, ScanAnswered, ScanExhausted, ScanFree,
       TakesForFree, AutoNetStop, stop_mysql, PingAnswered, PingFree, NetStop,
       AutoNetStart, NetStart, Recover, fix_services_ip, StartCems, RoleInv,
       ScriptOfProcess, WaitingPc
  <2>2. CASE ScanAnswered(h) \/ ScanExhausted(h)
    BY <2>1, <2>2 DEF ScanAnswered, ScanExhausted, WaitingPc
  <2>3. CASE ScanFree(h)
    BY <2>1, <2>3 DEF ScanFree, TakesForFree, Answered, WaitingPc
  <2>4. CASE AutoNetStop(h) \/ (\E ok \in BOOLEAN : AutoNetStart(h, ok))
    BY <2>1, <2>4 DEF AutoNetStop, AutoNetStart, WaitingPc
  <2>5. CASE stop_mysql(h) \/ PingAnswered(h) \/ PingFree(h)
    BY <2>1, <2>5 DEF stop_mysql, PingAnswered, PingFree, TakesForFree, WaitingPc
  <2>6. CASE NetStop(h)
    BY <2>1, <2>6 DEF NetStop, WaitingPc
  <2>7. CASE \E ok \in BOOLEAN : \/ NetStart(h, ok) \/ Recover(h, ok)
                                 \/ fix_services_ip(h, ok)
    BY <2>1, <2>7 DEF NetStart, Recover, fix_services_ip, WaitingPc
  <2>8. CASE \E started \in CemsStarts : StartCems(h, started)
    BY <2>1, <2>8 DEF StartCems, WaitingPc
  <2> QED
    BY <1>7, <2>2, <2>3, <2>4, <2>5, <2>6, <2>7, <2>8
    DEF ScriptRuns, Outcomes
<1>8. ASSUME NEW h \in Host, StopDaemon(h) \/ HostCrash(h)
      PROVE  ScriptsLeave'
  <2>1. /\ \A g \in Host \ {h} : eth0'[g] = eth0[g]
        /\ scriptPc' = [scriptPc EXCEPT ![h] = "idle"]
        /\ \A g \in Host \ {h} : tmp'[g] = tmp[g] /\ local_ip'[g] = local_ip[g]
        /\ UNCHANGED IPADDR
        /\ clientPc'[h] \in {"idle", "crashed"}
        /\ \A g \in Host \ {h} : clientPc'[g] = clientPc[g]
    BY <1>8 DEF StopDaemon, HostCrash, KillScript, HostDown, ShellEnds,
       ProcessEnds, ServerCrash, ClientCrash
  <2> QED
    BY <2>1
<1>9. ASSUME NEW h \in Host, HostBoots(h)
      PROVE  ScriptsLeave'
  <2>1. /\ scriptPc[h] = "idle" /\ UNCHANGED <<clientVars, scriptPc, IPADDR>>
        /\ UNCHANGED shellVars
        /\ \A g \in Host \ {h} : eth0'[g] = eth0[g]
        /\ HasEnded(h)
    BY <1>9 DEF HostBoots, HostUp, DownHasEnded
  <2> QED
    BY <2>1 DEF HasEnded
<1>10. ASSUME NEW h \in Host, RepairNetwork(h)
       PROVE  ScriptsLeave'
  BY <1>10 DEF RepairNetwork, NetworkStarted
<1>11. CASE Split
  BY <1>11 DEF Split, LinkChanges
<1> QED
  BY <1>1, <1>2, <1>3, <1>4, <1>5, <1>6, <1>7, <1>8, <1>9, <1>10, <1>11
  DEF Next, DaemonStep, FaultStep

\* Only a network start that fails silences a host under its daemon, and neither
\* script then leaves it configured with the service address.
LEMMA ScriptSilences ==
  ASSUME ComponentInv, ScriptsLeave, NEW h \in Host, ScriptRuns(h)
  PROVE  /\ Silent(h)' /\ (Silent(h) => IPADDR[h] # ServiceIp)
                => IPADDR'[h] # ServiceIp
         /\ \A g \in Host \ {h} : /\ scriptPc'[g] = scriptPc[g]
                                  /\ eth0'[g] = eth0[g]
                                  /\ IPADDR'[g] = IPADDR[g]
<1> USE DEF Silent, MovingPc, run
<1>0. ScriptTypeOK
  BY DEF ComponentInv, ScriptInv
<1> USE <1>0 DEF ScriptTypeOK
<1>1. CASE \/ ScanAnswered(h) \/ ScanFree(h) \/ ScanExhausted(h)
           \/ stop_mysql(h) \/ PingAnswered(h) \/ PingFree(h)
  BY <1>1 DEF ScanAnswered, ScanFree, ScanExhausted, stop_mysql,
     PingAnswered, PingFree, TakesForFree, ScriptsLeave
<1>2. CASE AutoNetStop(h) \/ NetStop(h)
  BY <1>2 DEF AutoNetStop, NetStop
<1>3. CASE \E ok \in BOOLEAN : AutoNetStart(h, ok)
  BY <1>3 DEF AutoNetStart, ScriptsLeave
<1>4. CASE \E ok \in BOOLEAN : NetStart(h, ok)
  <2>1. IPADDR[h] = ServiceIp /\ ServiceIp # NoAddress
    BY <1>4, ServiceIpAssumption, LastAssumption
    DEF NetStart, ComponentInv, ScriptInv, Consistent, Address, NoAddress
  <2> QED
    BY <1>4, <2>1 DEF NetStart
<1>5. CASE \E ok \in BOOLEAN : Recover(h, ok) \/ fix_services_ip(h, ok)
  BY <1>5 DEF Recover, fix_services_ip, ScriptsLeave
<1>6. CASE \E started \in CemsStarts : StartCems(h, started)
  BY <1>6 DEF StartCems
<1> QED
  BY <1>1, <1>2, <1>3, <1>4, <1>5, <1>6 DEF ScriptRuns, Outcomes

\* A daemon that has ended, with its script half-way, is not started again before
\* the host has an address.
LEMMA ProcessElsewhereStep ==
  ASSUME ComponentInv, StandbyInv, [Next]_vars
  PROVE  ProcessElsewhere'
<1> USE ThreadFacts
    DEF StandbyInv, ProcessElsewhere, HasEnded, Silent, MovingPc, processVars,
        clientVars, serverVars, mainVars, heartBeatVars, flags, goto, run
<1>0. /\ ServerTypeOK /\ ClientTypeOK /\ ScriptTypeOK
      /\ ServiceIp # NoAddress
  BY ServiceIpAssumption, LastAssumption
  DEF ComponentInv, DaemonInv, ServerInv, ClientInv, ScriptInv, Address,
      NoAddress
<1> USE <1>0 DEF ServerTypeOK, ClientTypeOK, ScriptTypeOK
<1>1. CASE UNCHANGED vars
  BY <1>1 DEF vars, daemonVars, scriptVars
<1>2. ASSUME NEW h \in Host, MainThreadSteps(h) \/ RestartsService(h)
      PROVE  ProcessElsewhere'
  <2>1. UNCHANGED <<clientVars, scriptPc, eth0, IPADDR>>
    BY <1>2 DEF MainThreadSteps, RestartsService, ServicesChange, scriptVars
  <2>2. \A g \in Host : serverPc[g] = "crashed" => serverPc'[g] = "crashed"
    BY <1>2
    DEF MainThreadSteps, RestartsService, StartHeartBeat, CheckDatabaseStatus,
        ScanProc, CheckMonitorStatus, AllWell, RestartServices, RaiseSwitch,
        RestartDatabase, RestartMonitor, Sleep, StopHeartBeat, Join,
        JoinUndefined
  <2> QED
    BY <2>1, <2>2
<1>3. ASSUME NEW h \in Host,
             \/ HeartBeatSteps(h) \/ TestsStop(h) \/ ReceiveDatagram(h)
             \/ ReceiveError(h) \/ Answers(h) \/ SwitchesIp(h)
      PROVE  ProcessElsewhere'
  <2>1. UNCHANGED <<clientVars, eth0, IPADDR, serverPc>>
    BY <1>3 DEF HeartBeatSteps, TestsStop, ReceiveDatagram, ReceiveError,
       Answers, SwitchesIp, OpenSocket, TestFlag, TestStop, Receive,
       SendHeartBeat, SendSwitchServer, SwitchIp, SwitchIpReturns,
       auto_switch_ip, ScriptReturns, scriptVars, beat
  <2>2. \A g \in Host : scriptPc[g] \in MovingPc => scriptPc'[g] \in MovingPc
    BY <1>3 DEF HeartBeatSteps, TestsStop, ReceiveDatagram, ReceiveError,
       Answers, SwitchesIp, auto_switch_ip, ScriptReturns, scriptVars
  <2> QED
    BY <2>1, <2>2
<1>4. ASSUME NEW h \in Host,
             \/ ClientSteps(h) \/ Asks(h) \/ ClientReceives(h)
             \/ ChangesServer(h)
      PROVE  ProcessElsewhere'
  <2>1. /\ UNCHANGED <<serverVars, eth0, IPADDR>>
        /\ \A g \in Host : scriptPc[g] \in MovingPc => scriptPc'[g] \in MovingPc
    <3>1. CASE ClientSteps(h) \/ Asks(h) \/ ClientReceives(h)
      BY <3>1 DEF ClientSteps, Asks, ClientReceives, scriptVars
    <3>2. CASE ChangesServer(h)
      BY <3>2 DEF ChangesServer, StartSwitchServer, ScriptReturns
    <3> QED
      BY <1>4, <3>1, <3>2
  <2>2. \A g \in Host : clientPc[g] = "crashed" => clientPc'[g] = "crashed"
    BY <1>4 DEF ClientSteps, Asks, ClientReceives, ChangesServer, OpenClient,
       SendClientHeartBeat, SendAgain, ClientSleep, RecvError, RecvPackage,
       ChangeServer, ChangeServerReturns, advance
  <2> QED
    BY <2>1, <2>2
<1>5. ASSUME NEW h \in Host, MainRunsAgain(h)
      PROVE  ProcessElsewhere'
  <2>1. UNCHANGED <<scriptPc, eth0, IPADDR>> /\ ~HasEnded(h)
    BY <1>5 DEF MainRunsAgain, RunsAgain, scriptVars
  <2>2. \A g \in Host \ {h} : HasEnded(g) => HasEnded(g)'
    BY <1>5 DEF MainRunsAgain, RunsAgain, RunServer, RunClient, LeaveServer,
       LeaveClient
  <2> QED
    BY <2>1, <2>2
<1>6. ASSUME NEW h \in Host, StartDaemon(h)
      PROVE  ProcessElsewhere'
  <2>1. UNCHANGED <<scriptPc, eth0, IPADDR>> /\ eth0[h] # NoAddress
    BY <1>6, CurrentIp DEF StartDaemon, StartMaster, scriptVars
  <2>2. \A g \in Host \ {h} : HasEnded(g) => HasEnded(g)'
    BY <1>6 DEF StartDaemon, StartMaster, StartSlave, RunServer, RunClient,
       LeaveServer, LeaveClient
  <2> QED
    BY <2>1, <2>2
<1>7. ASSUME NEW h \in Host, ScriptRuns(h)
      PROVE  ProcessElsewhere'
  <2>1. UNCHANGED <<serverPc, clientPc>>
    BY <1>7 DEF ScriptRuns
  <2> QED
    BY <1>7, <2>1, ScriptSilences
<1>8. ASSUME NEW h \in Host, StopDaemon(h) \/ HostCrash(h)
      PROVE  ProcessElsewhere'
  <2>1. HasEnded(h)'
    BY <1>8 DEF StopDaemon, HostCrash, ProcessEnds, ServerCrash, ClientCrash
  <2>2. \A g \in Host \ {h} : /\ serverPc'[g] = serverPc[g]
                              /\ clientPc'[g] = clientPc[g]
                              /\ scriptPc'[g] = scriptPc[g]
                              /\ eth0'[g] = eth0[g] /\ IPADDR'[g] = IPADDR[g]
    BY <1>8 DEF StopDaemon, HostCrash, KillScript, HostDown, ProcessEnds,
       ServerCrash, ClientCrash
  <2> QED
    BY <2>1, <2>2
<1>9. ASSUME NEW h \in Host, HostBoots(h) \/ RepairNetwork(h)
      PROVE  ProcessElsewhere'
  BY <1>9 DEF HostBoots, HostUp, RepairNetwork, NetworkStarted
<1>10. ASSUME NEW h \in Host, ServiceFails(h)
       PROVE  ProcessElsewhere'
  BY <1>10 DEF ServiceFails, ServicesChange
<1>11. CASE Split
  BY <1>11 DEF Split, LinkChanges
<1> QED
  BY <1>1, <1>2, <1>3, <1>4, <1>5, <1>6, <1>7, <1>8, <1>9, <1>10, <1>11
  DEF Next, DaemonStep, FaultStep

\* A client never has the service address, whoever starts its network.
LEMMA ClientElsewhereStep ==
  ASSUME ComponentInv, RoleInv, StandbyInv, [Next]_vars
  PROVE  ClientElsewhere' /\ DownHasEnded'
<1> USE ThreadFacts
    DEF StandbyInv, ClientElsewhere, DownHasEnded, HasEnded, WaitingPc,
        processVars, clientVars, serverVars, mainVars, heartBeatVars, flags,
        scriptVars, shellVars, goto, beat, advance, run
<1>0. /\ ServerTypeOK /\ ClientTypeOK /\ ScriptTypeOK /\ NetworkTypeOK
  BY DEF ComponentInv, DaemonInv, ServerInv, ClientInv, ScriptInv
<1> USE <1>0 DEF ServerTypeOK, ClientTypeOK, ScriptTypeOK, NetworkTypeOK
<1>1. CASE UNCHANGED vars
  BY <1>1 DEF vars, daemonVars
<1>2. ASSUME NEW h \in Host, MainThreadSteps(h) \/ RestartsService(h)
      PROVE  ClientElsewhere' /\ DownHasEnded'
  <2>1. UNCHANGED <<clientVars, eth0, up>>
    BY <1>2 DEF MainThreadSteps, RestartsService, ServicesChange
  <2>2. /\ serverPc[h] \notin {"idle", "crashed"}
        /\ \A g \in Host \ {h} : serverPc'[g] = serverPc[g]
    BY <1>2
    DEF MainThreadSteps, RestartsService, StartHeartBeat, CheckDatabaseStatus,
        ScanProc, CheckMonitorStatus, AllWell, RestartServices, RaiseSwitch,
        RestartDatabase, RestartMonitor, Sleep, StopHeartBeat, Join,
        JoinUndefined
  <2> QED
    BY <2>1, <2>2
<1>3. ASSUME NEW h \in Host,
             \/ HeartBeatSteps(h) \/ TestsStop(h) \/ ReceiveDatagram(h)
             \/ ReceiveError(h) \/ Answers(h) \/ SwitchesIp(h)
      PROVE  ClientElsewhere' /\ DownHasEnded'
  BY <1>3 DEF HeartBeatSteps, TestsStop, ReceiveDatagram, ReceiveError,
     Answers, SwitchesIp, OpenSocket, TestFlag, TestStop, Receive,
     SendHeartBeat, SendSwitchServer, SwitchIp, SwitchIpReturns,
     auto_switch_ip, ScriptReturns
<1>4. ASSUME NEW h \in Host,
             \/ ClientSteps(h) \/ Asks(h) \/ ClientReceives(h)
             \/ ChangesServer(h)
      PROVE  ClientElsewhere' /\ DownHasEnded'
  BY <1>4 DEF ClientSteps, Asks, ClientReceives, ChangesServer, OpenClient,
     SendClientHeartBeat, SendAgain, ClientSleep, RecvError, RecvPackage,
     ChangeServer, StartSwitchServer, ChangeServerReturns, ScriptReturns
<1>5. ASSUME NEW h \in Host, MainRunsAgain(h)
      PROVE  ClientElsewhere' /\ DownHasEnded'
  BY <1>5, CurrentIp DEF MainRunsAgain, RunsAgain, RunServer, RunClient,
     LeaveServer, LeaveClient
<1>6. ASSUME NEW h \in Host, StartDaemon(h)
      PROVE  ClientElsewhere' /\ DownHasEnded'
  BY <1>6, CurrentIp DEF StartDaemon, StartMaster, StartSlave, RunServer,
     RunClient, LeaveServer, LeaveClient
<1>7. ASSUME NEW h \in Host, ScriptRuns(h)
      PROVE  ClientElsewhere' /\ DownHasEnded'
  <2>1. /\ UNCHANGED <<serverVars, clientVars, up>>
        /\ scriptPc[h] # "idle"
        /\ \A g \in Host \ {h} : eth0'[g] = eth0[g]
    BY <1>7 DEF ScriptRuns, ScanAnswered, ScanExhausted, ScanFree,
       TakesForFree, AutoNetStop, stop_mysql, PingAnswered, PingFree, NetStop,
       AutoNetStart, NetStart, Recover, fix_services_ip, StartCems
  <2>2. clientPc[h] \notin WaitingPc
    BY <2>1 DEF RoleInv, ScriptOfProcess
  <2> QED
    BY <2>1, <2>2
<1>8. ASSUME NEW h \in Host, StopDaemon(h) \/ HostCrash(h)
      PROVE  ClientElsewhere' /\ DownHasEnded'
  <2>1. /\ \A g \in Host \ {h} : eth0'[g] = eth0[g] /\ up'[g] = up[g]
        /\ \/ serverPc'[h] = "crashed" /\ clientPc'[h] = "idle"
           \/ clientPc'[h] = "crashed"
        /\ \A g \in Host \ {h} : /\ serverPc'[g] = serverPc[g]
                                 /\ clientPc'[g] = clientPc[g]
    BY <1>8 DEF StopDaemon, HostCrash, KillScript, HostDown, ProcessEnds,
       ServerCrash, ClientCrash
  <2> QED
    BY <2>1
<1>9. ASSUME NEW h \in Host, ServiceFails(h) \/ HostBoots(h)
      PROVE  ClientElsewhere' /\ DownHasEnded'
  BY <1>9 DEF ServiceFails, ServicesChange, HostBoots, HostUp
<1>10. ASSUME NEW h \in Host, RepairNetwork(h)
       PROVE  ClientElsewhere' /\ DownHasEnded'
  <2>1. /\ UNCHANGED <<serverVars, clientVars, up, IPADDR>>
        /\ scriptPc[h] = "idle" /\ eth0[h] = NoAddress
        /\ eth0' = [eth0 EXCEPT ![h] = IPADDR[h]]
    BY <1>10 DEF RepairNetwork, NetworkStarted
  <2>2. Silent(h)
    BY <2>1 DEF Silent, MovingPc
  <2>3. clientPc[h] \in WaitingPc => ~HasEnded(h)
    OBVIOUS
  <2> QED
    BY <2>1, <2>2, <2>3 DEF ProcessElsewhere
<1>11. CASE Split
  BY <1>11 DEF Split, LinkChanges
<1> QED
  BY <1>1, <1>2, <1>3, <1>4, <1>5, <1>6, <1>7, <1>8, <1>9, <1>10, <1>11
  DEF Next, DaemonStep, FaultStep

\* A datagram that is sent reaches an open socket, and a client's only if it is
\* a server's.
LEMMA SendReachesSocket ==
  ASSUME ComponentInv, StandbyInv, NEW h \in Host, NEW msg, NEW from, NEW to,
         Send(h, msg, from, to), from = ServiceIp \/ to = ServiceIp,
         NEW g \in Host
  PROVE  /\ buffer'[g] # {} => buffer[g] # {} \/ Listens(g)
         /\ clientPc[g] # "idle" => \A d \in buffer'[g] : d.from = ServiceIp
         /\ g = h => buffer'[g] = buffer[g]
<1>1. NetworkTypeOK
  BY DEF ComponentInv
<1>2. CASE UNCHANGED buffer
  BY <1>2 DEF StandbyInv, HearsServer
<1>3. ASSUME NEW k \in Host \ {h}, linked, eth0[k] = to, Listens(k),
             buffer' = [buffer EXCEPT
                          ![k] = @ \cup {[msg |-> msg, from |-> from]}]
      PROVE  /\ buffer'[g] # {} => buffer[g] # {} \/ Listens(g)
             /\ clientPc[g] # "idle" => \A d \in buffer'[g] : d.from = ServiceIp
             /\ g = h => buffer'[g] = buffer[g]
  <2>1. CASE g # k
    BY <1>1, <1>3, <2>1 DEF NetworkTypeOK, StandbyInv, HearsServer
  <2>2. CASE g = k
    <3>1. buffer'[g] = buffer[g] \cup {[msg |-> msg, from |-> from]}
      BY <1>1, <1>3, <2>2 DEF NetworkTypeOK
    <3>2. clientPc[g] # "idle" => from = ServiceIp
      BY <1>3, <2>2, ListensInRole DEF StandbyInv, ClientElsewhere
    <3> QED
      BY <1>3, <2>2, <3>1, <3>2 DEF StandbyInv, HearsServer
  <2> QED
    BY <2>1, <2>2
<1> QED
  BY <1>2, <1>3 DEF Send

\* The client hears its server only, and so goes on asking the service address.
LEMMA BufferStep ==
  ASSUME ComponentInv, RoleInv, StandbyInv, [Next]_vars
  PROVE  BufferOfSocket' /\ HearsServer' /\ AddressesServer'
<1> USE ThreadFacts
    DEF StandbyInv, BufferOfSocket, HearsServer, AddressesServer, Listens,
        Close, processVars, clientVars, serverVars, mainVars, heartBeatVars,
        flags, goto, beat, advance
<1>0. ServerTypeOK /\ ClientTypeOK /\ NetworkTypeOK
  BY DEF ComponentInv, DaemonInv, ServerInv, ClientInv
<1> USE <1>0 DEF ServerTypeOK, ClientTypeOK, NetworkTypeOK
<1>1. CASE UNCHANGED vars
  BY <1>1 DEF vars, daemonVars
<1>2. ASSUME NEW h \in Host, MainThreadSteps(h) \/ RestartsService(h)
      PROVE  BufferOfSocket' /\ HearsServer' /\ AddressesServer'
  <2>1. UNCHANGED <<clientVars, buffer>>
    BY <1>2 DEF MainThreadSteps, RestartsService
  <2>2. \A g \in Host : \/ heartBeatPc'[g] = heartBeatPc[g]
                        \/ heartBeatPc[g] = "none"
    BY <1>2
    DEF MainThreadSteps, RestartsService, StartHeartBeat, CheckDatabaseStatus,
        ScanProc, CheckMonitorStatus, AllWell, RestartServices, RaiseSwitch,
        RestartDatabase, RestartMonitor, Sleep, StopHeartBeat, Join,
        JoinUndefined
  <2> QED
    BY <2>1, <2>2
<1>3. ASSUME NEW h \in Host,
             \/ HeartBeatSteps(h) \/ TestsStop(h) \/ ReceiveDatagram(h)
             \/ ReceiveError(h) \/ SwitchesIp(h)
      PROVE  BufferOfSocket' /\ HearsServer' /\ AddressesServer'
  <2>1. /\ UNCHANGED clientVars
        /\ \A g \in Host : buffer'[g] \subseteq buffer[g]
        /\ \A g \in Host \ {h} : heartBeatPc'[g] = heartBeatPc[g]
    <3>1. CASE HeartBeatSteps(h) \/ ReceiveError(h)
      BY <3>1 DEF HeartBeatSteps, ReceiveError, OpenSocket, TestFlag, Receive
    <3>2. CASE TestsStop(h)
      BY <3>2 DEF TestsStop, TestStop
    <3>3. CASE ReceiveDatagram(h)
      BY <3>3 DEF ReceiveDatagram, Receive
    <3>4. CASE SwitchesIp(h)
      <4>1. UNCHANGED clientVars /\ buffer' = [buffer EXCEPT ![h] = {}]
        BY <3>4 DEF SwitchesIp
      <4>2. \E to : beat(h, heartBeatPc[h], to)
        BY <3>4 DEF SwitchesIp, SwitchIp, SwitchIpReturns
      <4> QED
        BY <4>1, <4>2
    <3> QED
      BY <1>3, <3>1, <3>2, <3>3, <3>4
  <2>2. \/ buffer'[h] = {}
        \/ heartBeatPc'[h] \in {"loop", "recv", "testFlag", "answer", "orderSwitch"}
    <3>1. CASE HeartBeatSteps(h)
      BY <3>1 DEF HeartBeatSteps, OpenSocket, TestFlag
    <3>2. CASE TestsStop(h)
      BY <3>2 DEF TestsStop, TestStop
    <3>3. CASE SwitchesIp(h)
      <4>1. buffer' = [buffer EXCEPT ![h] = {}]
        BY <3>3 DEF SwitchesIp
      <4> QED
        BY <4>1
    <3>4. CASE ReceiveDatagram(h) \/ ReceiveError(h)
      BY <3>4 DEF ReceiveDatagram, ReceiveError, Receive
    <3> QED
      BY <1>3, <3>1, <3>2, <3>3, <3>4
  <2> QED
    BY <2>1, <2>2
<1>4. ASSUME NEW h \in Host, Answers(h)
      PROVE  BufferOfSocket' /\ HearsServer' /\ AddressesServer'
  <2>1. /\ UNCHANGED clientVars
        /\ heartBeatPc[h] \in {"answer", "orderSwitch"}
        /\ heartBeatPc'[h] \in {"loop", "switchIp"}
        /\ \A g \in Host \ {h} : heartBeatPc'[g] = heartBeatPc[g]
    BY <1>4 DEF Answers, SendHeartBeat, SendSwitchServer
  <2>2. \A g \in Host :
            /\ buffer'[g] # {} => buffer[g] # {} \/ Listens(g)
            /\ clientPc[g] # "idle" => \A d \in buffer'[g] : d.from = ServiceIp
    BY <1>4, SendReachesSocket DEF Answers
  <2> QED
    BY <2>1, <2>2
<1>5. ASSUME NEW h \in Host, Asks(h)
      PROVE  BufferOfSocket' /\ HearsServer' /\ AddressesServer'
  <2>1. /\ UNCHANGED <<serverVars, server_addr>>
        /\ clientPc[h] = "send" /\ clientPc'[h] = "recv"
        /\ \A g \in Host \ {h} : clientPc'[g] = clientPc[g]
    BY <1>5 DEF Asks, SendClientHeartBeat
  <2>2. \A g \in Host :
            /\ buffer'[g] # {} => buffer[g] # {} \/ Listens(g)
            /\ clientPc[g] # "idle" => \A d \in buffer'[g] : d.from = ServiceIp
    BY <1>5, SendReachesSocket DEF Asks
  <2> QED
    BY <2>1, <2>2
<1>6. ASSUME NEW h \in Host,
             ClientSteps(h) \/ ClientReceives(h) \/ ChangesServer(h)
      PROVE  BufferOfSocket' /\ HearsServer' /\ AddressesServer'
  BY <1>6 DEF ClientSteps, ClientReceives, ChangesServer, OpenClient,
     SendClientHeartBeat, SendAgain, ClientSleep, RecvError, RecvPackage,
     ChangeServer, ChangeServerReturns
<1>7. ASSUME NEW h \in Host, MainRunsAgain(h) \/ StartDaemon(h)
      PROVE  BufferOfSocket' /\ HearsServer' /\ AddressesServer'
  <2>1. /\ UNCHANGED buffer
        /\ serverPc[h] \in {"idle", "stopped", "crashed"}
        /\ clientPc[h] \in {"idle", "stopped", "crashed"}
        /\ \A g \in Host \ {h} : /\ heartBeatPc'[g] = heartBeatPc[g]
                                 /\ clientPc'[g] = clientPc[g]
                                 /\ server_addr'[g] = server_addr[g]
        /\ server_addr'[h] \in {ServiceIp, server_addr[h]}
    BY <1>7 DEF MainRunsAgain, StartDaemon, RunsAgain, StartMaster, StartSlave,
       HasEnded, RunServer, RunClient, LeaveServer, LeaveClient, NewServer,
       NewClient
  <2>2. buffer[h] = {}
    BY <2>1
  <2> QED
    BY <2>1, <2>2
<1>8. ASSUME NEW h \in Host, StopDaemon(h) \/ HostCrash(h)
      PROVE  BufferOfSocket' /\ HearsServer' /\ AddressesServer'
  <2>1. /\ buffer' = [buffer EXCEPT ![h] = {}]
        /\ \A g \in Host \ {h} : /\ heartBeatPc'[g] = heartBeatPc[g]
                                 /\ clientPc'[g] = clientPc[g]
        /\ \A g \in Host : server_addr'[g] \in {ServiceIp, server_addr[g]}
    BY <1>8 DEF StopDaemon, HostCrash, ProcessEnds, ServerCrash, ClientCrash,
       NewServer, NewClient
  <2> QED
    BY <2>1
<1>9. ASSUME NEW h \in Host,
             \/ ScriptRuns(h) \/ ServiceFails(h) \/ HostBoots(h)
             \/ RepairNetwork(h)
      PROVE  BufferOfSocket' /\ HearsServer' /\ AddressesServer'
  BY <1>9 DEF ScriptRuns, ServiceFails, HostBoots, RepairNetwork
<1>10. CASE Split
  BY <1>10 DEF Split
<1> QED
  BY <1>1, <1>2, <1>3, <1>4, <1>5, <1>6, <1>7, <1>8, <1>9, <1>10
  DEF Next, DaemonStep, FaultStep

\* What holds of the standby holds throughout, under every fault.
THEOREM StandbyInvariant == Spec => [](ComponentInv /\ RoleInv /\ StandbyInv)
<1>1. Init => RoleInv /\ StandbyInv
  BY RoleInvInit, StandbyInvInit
<1>2. ComponentInv /\ RoleInv /\ StandbyInv /\ [Next]_vars
          => RoleInv' /\ StandbyInv'
  BY RoleInvStep, ScriptsLeaveStep, ProcessElsewhereStep, ClientElsewhereStep,
     BufferStep
  DEF StandbyInv
<1> QED
  BY <1>1, <1>2, ComponentInvariant, PTL DEF Spec

\* A host's role and its address fit, whatever fails, is killed, restarted or
\* repaired.
THEOREM RolesFitAddresses == Spec => []RoleFitsAddress
<1>1. RoleInv /\ StandbyInv => RoleFitsAddress
  BY DEF RoleInv, AtServiceAddress, StandbyInv, ClientElsewhere, WaitingPc,
     RoleFitsAddress
<1> QED
  BY <1>1, StandbyInvariant, PTL

\* The datagrams a client takes for its server's come from the service address.
THEOREM ClientsAskService == Spec => []AsksService
<1>1. StandbyInv => AsksService
  BY DEF StandbyInv, AddressesServer, AsksService
<1> QED
  BY <1>1, StandbyInvariant, PTL

-----------------------------------------------------------------------------
(* One host at the service address *)

\* What h answers at or will, unless it waits for a boot or for someone's hand.
LiveClaims(h) == IF Silent(h) THEN {} ELSE Claims(h)

SoleClaims ==
    /\ linked
    /\ \A g, h \in Host : ServiceIp \in LiveClaims(g) \cap LiveClaims(h) => g = h

\* Whoever starts the network of a running host does not give it the service
\* address.
SilentElsewhere ==
    \A h \in Host : Silent(h) /\ up[h] => IPADDR[h] # ServiceIp

\* What a step that asks nobody leaves of a host's claims: no host adds one, and
\* one that has fallen silent stays so, unless it boots or is repaired.
LEMMA UnaskedKeepsSole ==
  ASSUME ComponentInv, SoleClaims, linked' = linked, NEW h \in Host,
         \/ ScanAnswered(h) \/ ScanExhausted(h) \/ AutoNetStop(h)
         \/ stop_mysql(h) \/ PingAnswered(h) \/ NetStop(h)
         \/ ScriptReturns(h)
         \/ \E ok \in BOOLEAN : \/ AutoNetStart(h, ok) \/ NetStart(h, ok)
                                \/ Recover(h, ok) \/ fix_services_ip(h, ok)
         \/ \E started \in CemsStarts : StartCems(h, started)
         \/ \E gateway \in BOOLEAN : auto_switch_ip(h, gateway)
         \/ StartSwitchServer(h) \/ KillScript(h) \/ HostDown(h)
         \/ \E running \in ServiceStates : ServicesChange(h, running)
         \/ UNCHANGED scriptVars
  PROVE  SoleClaims'
<1>1. \A g \in Host : Claims(g)' \subseteq Claims(g)
  <2>1. CASE UNCHANGED scriptVars
    BY <2>1 DEF scriptVars, shellVars, Claims
  <2> QED
    BY <2>1, ClaimsDoNotGrow DEF ComponentInv, ScriptInv, ScriptEnvironment
<1>2. \A g \in Host : Silent(g) => Silent(g)'
  <2> SUFFICES ASSUME NEW g \in Host, Silent(g)
               PROVE  Silent(g)'
    OBVIOUS
  <2> USE DEF Silent, MovingPc, run
  <2>0. ScriptTypeOK
    BY DEF ComponentInv, ScriptInv
  <2> USE <2>0 DEF ScriptTypeOK
  <2>1. CASE ScanAnswered(h) \/ ScanExhausted(h) \/ AutoNetStop(h)
    BY <2>1 DEF ScanAnswered, ScanExhausted, AutoNetStop
  <2>2. CASE stop_mysql(h) \/ PingAnswered(h) \/ ScriptReturns(h)
    BY <2>2 DEF stop_mysql, PingAnswered, ScriptReturns
  <2>3. CASE NetStop(h)
    BY <2>3 DEF NetStop
  <2>4. CASE \E ok \in BOOLEAN : \/ AutoNetStart(h, ok) \/ NetStart(h, ok)
                                 \/ Recover(h, ok) \/ fix_services_ip(h, ok)
    BY <2>4 DEF AutoNetStart, NetStart, Recover, fix_services_ip
  <2>5. CASE \E started \in CemsStarts : StartCems(h, started)
    BY <2>5 DEF StartCems
  <2>6. CASE \/ \E gateway \in BOOLEAN : auto_switch_ip(h, gateway)
             \/ StartSwitchServer(h) \/ KillScript(h) \/ HostDown(h)
             \/ \E running \in ServiceStates : ServicesChange(h, running)
    BY <2>6 DEF auto_switch_ip, StartSwitchServer, KillScript, HostDown,
       ServicesChange
  <2>7. CASE UNCHANGED scriptVars
    BY <2>7 DEF scriptVars
  <2> QED
    BY <2>1, <2>2, <2>3, <2>4, <2>5, <2>6, <2>7
<1>3. \A g \in Host : LiveClaims(g)' \subseteq LiveClaims(g)
  BY <1>1, <1>2 DEF LiveClaims
<1> QED
  BY <1>3 DEF SoleClaims

\* The one host that asks: whoever else can answer at address a does, or would
\* be on its way back to it.
LEMMA PingFindsClaims ==
  ASSUME ComponentInv, SoleClaims, NEW h \in Host, NEW g \in Host \ {h},
         NEW a, ~Answered(h, a), eth0[h] # NoAddress, ~MovesTo(g, a)
  PROVE  a \notin LiveClaims(g)
<1>1. linked /\ eth0[g] # a
  BY DEF SoleClaims, Answered
<1>2. CASE scriptPc[g] \in MovingPc
  BY <1>2 DEF MovesTo, MovingPc, LiveClaims
<1>3. CASE scriptPc[g] \notin MovingPc /\ eth0[g] # NoAddress
  BY <1>1, <1>3 DEF ComponentInv, ScriptInv, BootsWithSameAddress, MovingPc,
     LiveClaims, Claims
<1>4. CASE scriptPc[g] \notin MovingPc /\ eth0[g] = NoAddress
  BY <1>4 DEF Silent, LiveClaims
<1> QED
  BY <1>2, <1>3, <1>4

LEMMA PingKeepsSole ==
  ASSUME ComponentInv, SoleClaims, ScriptsLeave, "race" \notin Faults,
         NEW h \in Host,
         \/ ScanFree(h) /\ InTime(h, tmp[h])
         \/ PingFree(h) /\ InTime(h, ServiceIp)
  PROVE  SoleClaims'
<1> DEFINE a == IF ScanFree(h) THEN tmp[h] ELSE ServiceIp
<1>1. /\ ScriptTypeOK /\ BootsWithSameAddress
      /\ ServiceIp # NoAddress
  BY ServiceIpAssumption, LastAssumption
  DEF ComponentInv, ScriptInv, Address, NoAddress
<1>2. /\ ~Answered(h, a) /\ eth0[h] # NoAddress
      /\ UNCHANGED <<eth0, linked>>
      /\ \A g \in Host \ {h} : ~MovesTo(g, a) /\ scriptPc'[g] = scriptPc[g]
  BY <1>1 DEF ScanFree, PingFree, TakesForFree, InTime, ScriptsLeave, run,
     ScriptTypeOK
<1>3. \A g \in Host \ {h} : a \notin LiveClaims(g)
  BY <1>2, PingFindsClaims
<1>4. \A g \in Host \ {h} : LiveClaims(g)' = LiveClaims(g)
  <2>1. \A g \in Host \ {h} : Claims(g)' = Claims(g)
    BY <1>1, PingClaims
  <2> QED
    BY <1>2, <2>1 DEF LiveClaims, Silent
<1>5. LiveClaims(h)' \subseteq LiveClaims(h) \cup {a}
  <2>1. Claims(h)' \subseteq Claims(h) \cup {a}
    BY <1>1, PingClaims
  <2> QED
    BY <1>2, <2>1 DEF LiveClaims, Silent
<1> HIDE DEF a
<1> QED
  BY <1>2, <1>3, <1>4, <1>5 DEF SoleClaims

\* Where hosts do not boot, and a network start by hand does no harm, nor does
\* the segment come apart, every step is a ping that misses nobody, or one that
\* asks nobody.
LEMMA SoleClaimsStep ==
  ASSUME ComponentInv, SoleClaims, ScriptsLeave,
         "repair" \in Faults => SilentElsewhere,
         Faults \cap {"race", "split", "boot"} = {}, [Next]_vars
  PROVE  SoleClaims'
<1>1. CASE UNCHANGED vars
  BY <1>1, UnaskedKeepsSole, MasterAssumption DEF vars, scriptVars
<1>2. ASSUME NEW h \in Host,
             \/ MainThreadSteps(h) \/ HeartBeatSteps(h) \/ TestsStop(h)
             \/ ReceiveDatagram(h) \/ ReceiveError(h) \/ Answers(h)
             \/ ClientSteps(h) \/ Asks(h) \/ ClientReceives(h)
             \/ MainRunsAgain(h) \/ StartDaemon(h)
      PROVE  SoleClaims'
  <2>1. UNCHANGED scriptVars
    BY <1>2 DEF MainThreadSteps, HeartBeatSteps, TestsStop, ReceiveDatagram,
       ReceiveError, Answers, ClientSteps, Asks, ClientReceives, MainRunsAgain,
       StartDaemon
  <2> QED
    BY <2>1, UnaskedKeepsSole DEF scriptVars
<1>3. ASSUME NEW h \in Host, RestartsService(h) \/ ServiceFails(h)
      PROVE  SoleClaims'
  <2>1. services[h] \subseteq Service
    BY DEF ComponentInv, ScriptInv, ScriptTypeOK
  <2>2. \A started \in {{}, {"database"}, {"cems"}} :
            services[h] \cup started \in ServiceStates
    BY <2>1, AnyServiceAssumption DEF Service
  <2>3. \A service : services[h] \ {service} \in ServiceStates
    BY <2>1, AnyServiceAssumption
  <2>4. PICK running \in ServiceStates : ServicesChange(h, running)
    BY <1>3, <2>2, <2>3 DEF RestartsService, ServiceFails
  <2> QED
    BY <2>4, UnaskedKeepsSole DEF ServicesChange
<1>4. ASSUME NEW h \in Host, SwitchesIp(h) \/ ChangesServer(h)
      PROVE  SoleClaims'
  <2>1. \/ auto_switch_ip(h, TRUE) \/ StartSwitchServer(h) \/ ScriptReturns(h)
    BY <1>4 DEF SwitchesIp, ChangesServer
  <2>2. linked' = linked
    BY <2>1 DEF auto_switch_ip, StartSwitchServer, ScriptReturns
  <2> QED
    BY <2>1, <2>2, UnaskedKeepsSole
<1>5. ASSUME NEW h \in Host, ScriptRuns(h)
      PROVE  SoleClaims'
  <2>1. CASE \/ ScanFree(h) /\ InTime(h, tmp[h])
             \/ PingFree(h) /\ InTime(h, ServiceIp)
    BY <2>1, PingKeepsSole
  <2>2. CASE \/ ScanAnswered(h) \/ ScanExhausted(h) \/ AutoNetStop(h)
             \/ stop_mysql(h) \/ PingAnswered(h) \/ NetStop(h)
             \/ \E ok \in BOOLEAN : \/ AutoNetStart(h, ok) \/ NetStart(h, ok)
                                    \/ Recover(h, ok) \/ fix_services_ip(h, ok)
             \/ \E started \in CemsStarts : StartCems(h, started)
    <3>1. linked' = linked
      BY <2>2 DEF ScanAnswered, ScanExhausted, AutoNetStop, stop_mysql,
         PingAnswered, NetStop, AutoNetStart, NetStart, Recover,
         fix_services_ip, StartCems
    <3> QED
      BY <2>2, <3>1, UnaskedKeepsSole
  <2> QED
    BY <1>5, <2>1, <2>2 DEF ScriptRuns, Outcomes
<1>6. ASSUME NEW h \in Host, StopDaemon(h) \/ HostCrash(h)
      PROVE  SoleClaims'
  <2>1. (KillScript(h) \/ HostDown(h)) /\ linked' = linked
    BY <1>6 DEF StopDaemon, HostCrash, KillScript, HostDown
  <2> QED
    BY <2>1, UnaskedKeepsSole
<1>7. ASSUME NEW h \in Host, RepairNetwork(h)
      PROVE  SoleClaims'
  <2>1. /\ scriptPc[h] = "idle" /\ eth0[h] = NoAddress /\ up[h]
        /\ eth0' = [eth0 EXCEPT ![h] = IPADDR[h]]
        /\ UNCHANGED <<scriptPc, IPADDR, shellVars, linked>>
    BY <1>7 DEF RepairNetwork, NetworkStarted
  <2>2. eth0 \in [Host -> Configured]
    BY DEF ComponentInv, ScriptInv, ScriptTypeOK
  <2>3. \A g \in Host \ {h} : LiveClaims(g)' = LiveClaims(g)
    BY <2>1, <2>2 DEF LiveClaims, Silent, Claims, shellVars
  <2>4. IPADDR[h] # ServiceIp
    BY <1>7, <2>1 DEF RepairNetwork, SilentElsewhere, Silent, MovingPc
  <2>5. ServiceIp \notin LiveClaims(h)'
    BY <2>1, <2>2, <2>4 DEF LiveClaims, Claims
  <2> QED
    BY <2>1, <2>3, <2>5 DEF SoleClaims
<1> QED
  BY <1>1, <1>2, <1>3, <1>4, <1>5, <1>6, <1>7
  DEF Next, DaemonStep, FaultStep, HostBoots, Split

\* Where no script is killed half-way, only a crash leaves a host configured for a
\* service address it has not got, and it boots with it.
LEMMA SilentElsewhereStep ==
  ASSUME ComponentInv, ScriptsLeave, SilentElsewhere, "stop" \notin Faults,
         [Next]_vars
  PROVE  SilentElsewhere'
<1> USE DEF SilentElsewhere, Silent, MovingPc, run
<1>0. ScriptTypeOK /\ NetworkTypeOK /\ ServiceIp # NoAddress
  BY ServiceIpAssumption, LastAssumption
  DEF ComponentInv, ScriptInv, Address, NoAddress
<1> USE <1>0 DEF ScriptTypeOK, NetworkTypeOK
<1>1. CASE UNCHANGED vars
  BY <1>1 DEF vars, scriptVars
<1>2. ASSUME NEW h \in Host,
             \/ MainThreadSteps(h) \/ RestartsService(h) \/ HeartBeatSteps(h)
             \/ TestsStop(h) \/ ReceiveDatagram(h) \/ ReceiveError(h)
             \/ Answers(h) \/ ClientSteps(h) \/ Asks(h) \/ ClientReceives(h)
             \/ MainRunsAgain(h) \/ StartDaemon(h) \/ ServiceFails(h)
      PROVE  SilentElsewhere'
  <2>1. UNCHANGED <<scriptPc, eth0, IPADDR, up>>
    BY <1>2 DEF MainThreadSteps, RestartsService, HeartBeatSteps, TestsStop,
       ReceiveDatagram, ReceiveError, Answers, ClientSteps, Asks,
       ClientReceives, MainRunsAgain, StartDaemon, ServiceFails,
       ServicesChange, scriptVars
  <2> QED
    BY <2>1
<1>3. ASSUME NEW h \in Host, SwitchesIp(h) \/ ChangesServer(h)
      PROVE  SilentElsewhere'
  BY <1>3 DEF SwitchesIp, ChangesServer, auto_switch_ip, StartSwitchServer,
     ScriptReturns
<1>4. ASSUME NEW h \in Host, ScriptRuns(h)
      PROVE  SilentElsewhere'
  <2>1. UNCHANGED up
    BY <1>4 DEF ScriptRuns
  <2> QED
    BY <1>4, <2>1, ScriptSilences
<1>5. ASSUME NEW h \in Host, HostCrash(h)
      PROVE  SilentElsewhere'
  BY <1>5 DEF HostCrash, HostDown
<1>6. ASSUME NEW h \in Host, HostBoots(h) \/ RepairNetwork(h)
      PROVE  SilentElsewhere'
  BY <1>6 DEF HostBoots, HostUp, RepairNetwork, NetworkStarted
<1> QED
  BY <1>1, <1>2, <1>3, <1>4, <1>5, <1>6
  DEF Next, DaemonStep, FaultStep, StopDaemon, Split, LinkChanges

LEMMA MovesInit == Init => SoleClaims /\ SilentElsewhere
<1> SUFFICES ASSUME Init
             PROVE  SoleClaims /\ SilentElsewhere
  OBVIOUS
<1>1. /\ \A h \in Host : HomeIp[h] # NoAddress
      /\ \A g, h \in Host : g # h => HomeIp[g] # HomeIp[h]
  BY HomeIpAssumption, LastAssumption
  DEF HomeAddresses, Distinct, Address, NoAddress
<1>2. /\ scriptPc = [h \in Host |-> "idle"]
      /\ eth0 = HomeIp /\ IPADDR = HomeIp
      /\ linked = TRUE
  BY Zenon DEF Init, ScriptInit
<1>3. SoleClaims
  <2>1. ASSUME NEW h \in Host
        PROVE  LiveClaims(h) \subseteq {HomeIp[h]}
    <3>1. scriptPc[h] = "idle" /\ eth0[h] = HomeIp[h] /\ IPADDR[h] = HomeIp[h]
      BY <1>2
    <3> QED
      BY <3>1 DEF LiveClaims, Claims
  <2> QED
    BY <1>1, <1>2, <2>1 DEF SoleClaims
<1>4. SilentElsewhere
  BY <1>1, <1>2 DEF SilentElsewhere, Silent
<1> QED
  BY <1>3, <1>4

\* Where no script is killed half-way, a network that did not start leaves its
\* host configured with another address.
THEOREM SilentElsewhereInvariant ==
  ASSUME "stop" \notin Faults
  PROVE  Spec => []SilentElsewhere
<1>1. ComponentInv /\ StandbyInv /\ SilentElsewhere /\ [Next]_vars
          => SilentElsewhere'
  BY SilentElsewhereStep DEF StandbyInv
<1> QED
  BY <1>1, MovesInit, StandbyInvariant, PTL DEF Spec

\* As long as no host boots or is cut off, and no ping falls into another's
\* network restart, the service address is not one that two hosts answer at or
\* are about to, whatever services, datagrams, daemons and hosts fail.  Networks
\* may be started by hand if no script is killed half-way.
THEOREM SoleClaimsInvariant ==
  ASSUME Faults \cap {"race", "split", "boot"} = {},
         ~({"stop", "repair"} \subseteq Faults)
  PROVE  Spec => [](ComponentInv /\ SoleClaims)
<1>1. CASE "repair" \notin Faults
  <2>1. ComponentInv /\ StandbyInv /\ SoleClaims /\ [Next]_vars => SoleClaims'
    BY <1>1, SoleClaimsStep DEF StandbyInv
  <2> QED
    BY <2>1, MovesInit, StandbyInvariant, PTL DEF Spec
<1>2. CASE "stop" \notin Faults
  <2>1. ComponentInv /\ StandbyInv /\ SilentElsewhere /\ SoleClaims
            /\ [Next]_vars => SoleClaims'
    BY <1>2, SoleClaimsStep DEF StandbyInv
  <2>2. Spec => []SilentElsewhere
    BY <1>2, SilentElsewhereInvariant
  <2> QED
    BY <2>1, <2>2, MovesInit, StandbyInvariant, PTL DEF Spec
<1> QED
  BY <1>1, <1>2

\* README.txt, line 6: the two machines never both have the service address,
\* whatever services, datagrams, network starts, daemons and hosts fail
\* meanwhile, wherever in their scripts.
THEOREM ServiceAddressIsUnique ==
  ASSUME Faults \cap {"race", "split", "boot"} = {},
         ~({"stop", "repair"} \subseteq Faults)
  PROVE  Spec => []OneServiceAddress
<1>1. SoleClaims => OneServiceAddress
  <2> SUFFICES ASSUME SoleClaims, NEW g \in Host, NEW h \in Host,
                      eth0[g] = ServiceIp, eth0[h] = ServiceIp
               PROVE  g = h
    BY DEF OneServiceAddress
  <2>1. ServiceIp # NoAddress
    BY ServiceIpAssumption, LastAssumption DEF Address, NoAddress
  <2>2. ServiceIp \in LiveClaims(g) /\ ServiceIp \in LiveClaims(h)
    BY <2>1 DEF LiveClaims, Silent, Claims
  <2> QED
    BY <2>2 DEF SoleClaims
<1>2. Spec => [](ComponentInv /\ SoleClaims)
  BY SoleClaimsInvariant
<1> QED
  BY <1>1, <1>2, PTL

\* README.txt, line 6, of the configuration: where no script is killed half-way
\* either, a host that runs while another serves would not boot with the
\* service address.
THEOREM ReplacedServersMove ==
  ASSUME Faults \cap {"race", "split", "boot", "stop"} = {}
  PROVE  Spec => []ReplacedServerMoves
<1>1. /\ Faults \cap {"race", "split", "boot"} = {}
      /\ ~({"stop", "repair"} \subseteq Faults)
      /\ "stop" \notin Faults
  OBVIOUS
<1>2. SoleClaims /\ SilentElsewhere => ReplacedServerMoves
  <2> SUFFICES ASSUME SoleClaims, SilentElsewhere,
                      NEW g \in Host, NEW h \in Host, g # h, Serves(h), up[g],
                      IPADDR[g] = ServiceIp
               PROVE  FALSE
    BY DEF ReplacedServerMoves
  <2>1. ServiceIp # NoAddress
    BY ServiceIpAssumption, LastAssumption DEF Address, NoAddress
  <2>2. ServiceIp \in LiveClaims(h)
    BY <2>1 DEF Serves, LiveClaims, Silent, Claims
  <2>3. ServiceIp \in LiveClaims(g)
    BY <2>1 DEF SilentElsewhere, LiveClaims, Claims
  <2> QED
    BY <2>2, <2>3 DEF SoleClaims
<1>3. Spec => [](ComponentInv /\ SoleClaims)
  BY <1>1, SoleClaimsInvariant
<1>4. Spec => []SilentElsewhere
  BY <1>1, SilentElsewhereInvariant
<1> QED
  BY <1>2, <1>3, <1>4, PTL

=============================================================================
