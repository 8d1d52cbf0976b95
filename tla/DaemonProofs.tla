------------------------------ MODULE DaemonProofs ------------------------------
(***************************************************************************)
(* The process, for every set of hosts and any addresses main may find.    *)
(*                                                                         *)
(* The argument: every step of the process is a step of the server role,   *)
(* or leaves it alone, and likewise of the client role (DaemonStepsRoles), *)
(* so the invariants of both roles hold of the process, although it starts *)
(* and ends them in turn.  OneRole is then inductive: a role is left in    *)
(* the step that begins the other.                                         *)
(***************************************************************************)
EXTENDS Daemon, HotBackupServerProofs, HotBackupClientProofs

DaemonInv ==
    /\ ServerInv
    /\ ClientInv
    /\ main_ip \in [Host -> Configured]
    /\ OneRole

-----------------------------------------------------------------------------

\* What a step of the process is to each of the roles.
LEMMA DaemonStepsRoles ==
  ASSUME NEW h \in Host,
         DaemonThread(h) \/ DaemonHeartBeat(h) \/ DaemonReceives(h)
             \/ DaemonEnvironment(h)
  PROVE  [ServerNext]_serverVars /\ [ClientNext]_clientVars
<1>1. ServerStep(h) => [ServerNext]_serverVars
  BY DEF ServerNext
<1>2. ClientThread(h) \/ ClientReceive(h) \/ ClientProcess(h)
          => [ClientNext]_clientVars
  BY DEF ClientNext
<1>3. CASE DaemonThread(h)
  <2>1. CASE ServerStart(h) /\ UNCHANGED <<clientVars, main_ip>>
    BY <2>1, <1>1 DEF ServerStep, MainThread
  <2>2. CASE ClientStart(h) /\ UNCHANGED <<serverVars, main_ip>>
    BY <2>2, <1>2 DEF ClientThread
  <2>3. ASSUME NEW ip \in Configured, RunsAgain(h, ip)
        PROVE  [ServerNext]_serverVars /\ [ClientNext]_clientVars
    <3>1. RunServer(h) => ServerStep(h)
      BY DEF RunServer, ServerStep, MainThread, ServerProcess
    <3>2. LeaveServer(h) => ServerStep(h)
      BY DEF LeaveServer, ServerStep, MainThread, ServerProcess
    <3>3. RunClient(h) => ClientThread(h) \/ ClientProcess(h)
      BY DEF RunClient, ClientThread, ClientProcess
    <3>4. LeaveClient(h) => ClientThread(h) \/ ClientProcess(h)
      BY DEF LeaveClient, ClientThread, ClientProcess
    <3> QED
      BY <1>1, <1>2, <2>3, <3>1, <3>2, <3>3, <3>4 DEF RunsAgain
  <2> QED
    BY <1>3, <2>1, <2>2, <2>3 DEF DaemonThread
<1>4. CASE DaemonHeartBeat(h)
  BY <1>1, <1>4 DEF DaemonHeartBeat, ServerStep
<1>5. CASE DaemonReceives(h)
  BY <1>1, <1>2, <1>5 DEF DaemonReceives, ServerStep
<1>6. CASE ProcessEnds(h)
  BY <1>1, <1>2, <1>6 DEF ProcessEnds, ServerStep, ServerProcess, ClientProcess
<1>7. ASSUME NEW ip \in Configured, StartMaster(h, ip) \/ StartSlave(h, ip)
      PROVE  [ServerNext]_serverVars /\ [ClientNext]_clientVars
  <2>1. RunServer(h) => ServerStep(h)
    BY DEF RunServer, ServerStep, MainThread, ServerProcess
  <2>2. LeaveServer(h) => ServerStep(h)
    BY DEF LeaveServer, ServerStep, MainThread, ServerProcess
  <2>3. RunClient(h) => ClientThread(h) \/ ClientProcess(h)
    BY DEF RunClient, ClientThread, ClientProcess
  <2>4. LeaveClient(h) => ClientThread(h) \/ ClientProcess(h)
    BY DEF LeaveClient, ClientThread, ClientProcess
  <2> QED
    BY <1>1, <1>2, <1>7, <2>1, <2>2, <2>3, <2>4 DEF StartMaster, StartSlave
<1> QED
  BY <1>3, <1>4, <1>5, <1>6, <1>7 DEF DaemonEnvironment

LEMMA DaemonInvInit ==
  ASSUME NEW Servers \in SUBSET Host, NEW home \in [Host -> Configured],
         DaemonInit(Servers, home)
  PROVE  DaemonInv
<1>1. ServerInv
  BY ServerInvInit DEF DaemonInit
<1>2. Host \ Servers \in SUBSET Host
  OBVIOUS
<1>3. ClientInv
  BY <1>2, ClientInvInit DEF DaemonInit
<1>4. OneRole
  BY DEF DaemonInit, ServerInit, ClientInit, OneRole
<1> QED
  BY <1>1, <1>3, <1>4 DEF DaemonInv, DaemonInit

\* The threads of a role do not leave it, nor begin it.
LEMMA RoleStays ==
  ASSUME ServerTypeOK, ClientTypeOK, NEW h \in Host, NEW g \in Host
  PROVE  /\ ServerStart(h) \/ HeartBeatThread(h) \/ HeartBeatReceive(h)
                => ((serverPc[g] = "idle") <=> (serverPc'[g] = "idle"))
         /\ ClientStart(h) \/ ClientReceive(h)
                => ((clientPc[g] = "idle") <=> (clientPc'[g] = "idle"))
<1> USE DEF ServerTypeOK, ClientTypeOK, goto, beat, mainVars, advance
<1>1. HeartBeatThread(h) \/ HeartBeatReceive(h) => serverPc' = serverPc
  BY DEF HeartBeatThread, HeartBeatReceive, OpenSocket, TestStop, Receive,
     TestFlag, SendHeartBeat, SendSwitchServer, SwitchIp, SwitchIpReturns
<1>2. ServerStart(h)
          => ((serverPc[g] = "idle") <=> (serverPc'[g] = "idle"))
  BY DEF ServerStart, StartHeartBeat, CheckDatabaseStatus, ScanProc,
     CheckMonitorStatus, AllWell, RestartServices, RaiseSwitch,
     RestartDatabase, RestartMonitor, Sleep, StopHeartBeat, Join, JoinUndefined
<1>3. ClientStart(h) \/ ClientReceive(h)
          => ((clientPc[g] = "idle") <=> (clientPc'[g] = "idle"))
  BY DEF ClientStart, ClientReceive, OpenClient, SendClientHeartBeat,
     SendAgain, RecvError, RecvPackage, ClientSleep, ChangeServer,
     ChangeServerReturns
<1> QED
  BY <1>1, <1>2, <1>3

\* A process that has one role keeps one.
LEMMA OneRoleStep ==
  ASSUME ServerTypeOK, ClientTypeOK, OneRole, NEW h \in Host,
         DaemonThread(h) \/ DaemonHeartBeat(h) \/ DaemonReceives(h)
             \/ DaemonEnvironment(h)
  PROVE  OneRole'
<1> SUFFICES ASSUME NEW g \in Host
             PROVE  (serverPc'[g] = "idle") # (clientPc'[g] = "idle")
  BY DEF OneRole
<1> USE DEF OneRole, ServerTypeOK, ClientTypeOK
<1>1. CASE /\ ServerStart(h) \/ HeartBeatThread(h) \/ HeartBeatReceive(h)
           /\ UNCHANGED clientVars
  BY <1>1, RoleStays DEF clientVars
<1>2. CASE (ClientStart(h) \/ ClientReceive(h)) /\ UNCHANGED serverVars
  BY <1>2, RoleStays DEF serverVars, mainVars
<1>3. CASE \E ip \in Configured : RunsAgain(h, ip)
  BY <1>3 DEF RunsAgain, RunServer, LeaveServer, RunClient, LeaveClient,
     clientVars, serverVars, mainVars
<1>4. CASE DaemonEnvironment(h)
  BY <1>4 DEF DaemonEnvironment, ProcessEnds, StartMaster, StartSlave,
     HasEnded, ServerCrash, ClientCrash, RunServer, LeaveServer, RunClient,
     LeaveClient, clientVars, serverVars, mainVars
<1> QED
  BY <1>1, <1>2, <1>3, <1>4 DEF DaemonThread, DaemonHeartBeat, DaemonReceives

\* A step of the process keeps the invariant.
LEMMA DaemonStepKeepsInv ==
  ASSUME DaemonInv, NEW h \in Host,
         DaemonThread(h) \/ DaemonHeartBeat(h) \/ DaemonReceives(h)
             \/ DaemonEnvironment(h)
  PROVE  DaemonInv'
<1>1. ServerInv' /\ ClientInv'
  BY DaemonStepsRoles, ServerInvStep, ClientInvStep DEF DaemonInv
<1>2. main_ip' \in [Host -> Configured]
  BY DEF DaemonInv, DaemonThread, DaemonHeartBeat, DaemonReceives,
     DaemonEnvironment, RunsAgain, ProcessEnds, StartMaster, StartSlave
<1>3. OneRole'
  BY OneRoleStep DEF DaemonInv, ServerInv, ClientInv
<1> QED
  BY <1>1, <1>2, <1>3 DEF DaemonInv

LEMMA DaemonInvStep == DaemonInv /\ [DaemonNext]_daemonVars => DaemonInv'
<1>1. ASSUME DaemonInv, DaemonNext
      PROVE  DaemonInv'
  BY <1>1, DaemonStepKeepsInv DEF DaemonNext
<1>2. ASSUME DaemonInv, UNCHANGED daemonVars
      PROVE  DaemonInv'
  <2>1. UNCHANGED serverVars /\ UNCHANGED clientVars
    BY <1>2 DEF daemonVars
  <2>2. ServerInv' /\ ClientInv'
    BY <1>2, <2>1, ServerInvStep, ClientInvStep DEF DaemonInv
  <2> QED
    BY <1>2, <2>1, <2>2
    DEF DaemonInv, OneRole, daemonVars, serverVars, mainVars, clientVars
<1> QED
  BY <1>1, <1>2

\* The inductive invariant of the process holds throughout.
THEOREM DaemonInvariant == DaemonSpec => []DaemonInv
<1> DEFINE Begin == \E Servers \in SUBSET Host, home \in [Host -> Configured] :
                        /\ \A h \in Servers : home[h] = ServiceIp
                        /\ DaemonInit(Servers, home)
<1>1. Begin => DaemonInv
  BY DaemonInvInit
<1> HIDE DEF Begin
<1>2. DaemonSpec => Begin /\ [][DaemonNext]_daemonVars
  BY DEF DaemonSpec, Begin
<1> QED
  BY <1>1, <1>2, DaemonInvStep, PTL

\* The variables of both roles, and of main, keep their types.
THEOREM DaemonTypeCorrect == DaemonSpec => []DaemonTypeOK
<1>1. DaemonInv => DaemonTypeOK
  BY DEF DaemonInv, ServerInv, ClientInv, DaemonTypeOK
<1> QED
  BY <1>1, DaemonInvariant, PTL

\* Neither main nor stop.sh and start.sh leave a process with both roles, or
\* with none.
THEOREM ProcessHasOneRole == DaemonSpec => []OneRole
<1>1. DaemonInv => OneRole
  BY DEF DaemonInv
<1> QED
  BY <1>1, DaemonInvariant, PTL

\* What holds of a role that is run by itself holds of it inside the process.
THEOREM ProcessKeepsRoles ==
  DaemonSpec => [](/\ OrderOnlyWhenFailing
                   /\ ScriptFromInstallDir
                   /\ OneHeartBeat
                   /\ OrderIsFinal
                   /\ TakesOverForCause)
<1>1. DaemonInv => /\ OrderOnlyWhenFailing
                   /\ ScriptFromInstallDir
                   /\ OneHeartBeat
                   /\ OrderIsFinal
                   /\ TakesOverForCause
  BY DEF DaemonInv, ServerInv, ClientInv, ActsOnFlag, FlagEndsLoop, CwdInScan,
     PastLoop, OrderOnlyWhenFailing, ScriptFromInstallDir
<1> QED
  BY <1>1, DaemonInvariant, PTL

\* A flag that is up stays visible to the thread through everything main does.
THEOREM ProcessHoldsFlags == DaemonSpec => FlagsHold
<1>1. DaemonInv /\ [DaemonNext]_daemonVars => [ServerNext]_serverVars
  BY DaemonStepsRoles DEF DaemonNext, daemonVars
<1>2. DaemonInv /\ [DaemonNext]_daemonVars
      => [\A h \in Host :
             HeartBeatAlive(h) /\ serverPc'[h] # "crashed" =>
                 /\ flag_switch_[h] => flag_switch_'[h]
                 /\ stop_heart_beat_[h] => stop_heart_beat_'[h]]_serverVars
  BY <1>1, StepHoldsFlags DEF DaemonInv
<1>3. DaemonSpec => [][DaemonNext]_daemonVars
  BY DEF DaemonSpec
<1> QED
  BY <1>2, <1>3, DaemonInvariant, PTL DEF FlagsHold

=============================================================================
