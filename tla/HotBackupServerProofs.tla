-------------------------- MODULE HotBackupServerProofs --------------------------
(***************************************************************************)
(* The server's invariants for every set of hosts and every MAX_COUNT.     *)
(*                                                                         *)
(* The argument: flag_switch_ goes up only in the step that leaves the     *)
(* checking loop for good (FlagEndsLoop), the heart-beat thread acts on it *)
(* only while it is up (ActsOnFlag), and it goes down only in RunServer,   *)
(* which Join orders after the end of the thread (OneHeartBeat).  So at    *)
(* SwitchIp the main thread is past its last walk through /proc, which is  *)
(* the only time the working directory is elsewhere (CwdInScan), and the   *)
(* counter still stands where the last check left it (CountsFailures).     *)
(***************************************************************************)
EXTENDS HotBackupServer, TLAPS

\* The main thread has left the checking loop.
PastLoop == {"stopHeartBeat", "join", "stopped", "crashed", "idle"}

FlagEndsLoop ==
    \A h \in Host : flag_switch_[h] => /\ serverPc[h] \in PastLoop
                                       /\ failures[h] = MAX_COUNT + 1

ActsOnFlag ==
    \A h \in Host :
        heartBeatPc[h] \in {"orderSwitch", "switchIp", "script"}
            => flag_switch_[h]

CwdInScan == \A h \in Host : serverPc[h] # "scanProc" => cwd[h] = "install"

\* Start begins with an object that has no thread yet.
StartsWithoutThread ==
    \A h \in Host : serverPc[h] = "startHeartBeat" => heartBeatPc[h] = "none"

\* Inside the loop the counter is the history, except between the check and
\* its evaluation, and has not passed the limit.
CountsFailures ==
    \A h \in Host : serverPc[h] \notin PastLoop =>
        /\ abnormal_count_[h] <= MAX_COUNT
        /\ serverPc[h] # "evaluate" => failures[h] = abnormal_count_[h]
        /\ serverPc[h] = "evaluate" =>
               failures[h] = IF Failed(h) THEN abnormal_count_[h] + 1 ELSE 0

ServerInv ==
    /\ ServerTypeOK
    /\ FlagEndsLoop
    /\ ActsOnFlag
    /\ CwdInScan
    /\ StartsWithoutThread
    /\ CountsFailures
    /\ OneHeartBeat
    /\ OrderIsFinal

-----------------------------------------------------------------------------

\* The first objects satisfy the inductive invariant, whichever hosts have one.
LEMMA ServerInvInit ==
  ASSUME NEW S \in SUBSET Host, ServerInit(S)
  PROVE  ServerInv
  BY MaxCountAssumption
  DEF ServerInit, ServerInv, ServerTypeOK, FlagEndsLoop, ActsOnFlag, CwdInScan,
      CountsFailures, StartsWithoutThread, OneHeartBeat, OrderIsFinal,
      HeartBeatAlive, PastLoop, ServerPc, HeartBeatPc

\* Every step of the main thread keeps it.
LEMMA MainThreadKeepsInv ==
  ASSUME NEW h \in Host, ServerInv, MainThread(h)
  PROVE  ServerInv'
<1> USE MaxCountAssumption, CreateAssumption
    DEF ServerInv, ServerTypeOK, FlagEndsLoop, ActsOnFlag, CwdInScan,
        CountsFailures, StartsWithoutThread, OneHeartBeat, OrderIsFinal,
        HeartBeatAlive, PastLoop, ServerPc, HeartBeatPc, Failed, goto, heartBeatVars, flags
<1>1. ASSUME NEW result \in CreateResults, StartHeartBeat(h, result)
      PROVE  ServerInv'
  BY <1>1 DEF StartHeartBeat
<1>2. ASSUME NEW result \in {0, -1}, CheckDatabaseStatus(h, result)
      PROVE  ServerInv'
  BY <1>2 DEF CheckDatabaseStatus
<1>3. CASE ScanProc(h)
  BY <1>3 DEF ScanProc
<1>4. ASSUME NEW result \in {0, -1}, CheckMonitorStatus(h, result)
      PROVE  ServerInv'
  BY <1>4 DEF CheckMonitorStatus
<1>5. CASE AllWell(h)
  BY <1>5 DEF AllWell
<1>6. CASE RestartServices(h)
  BY <1>6 DEF RestartServices
<1>7. CASE RaiseSwitch(h)
  BY <1>7 DEF RaiseSwitch
<1>8. CASE RestartDatabase(h)
  BY <1>8 DEF RestartDatabase
<1>9. CASE RestartMonitor(h)
  BY <1>9 DEF RestartMonitor
<1>10. CASE Sleep(h)
  BY <1>10 DEF Sleep
<1>11. CASE StopHeartBeat(h)
  BY <1>11 DEF StopHeartBeat
<1>12. CASE Join(h)
  BY <1>12 DEF Join
<1>13. CASE JoinUndefined(h)
  BY <1>13 DEF JoinUndefined
<1>14. CASE serverPc[h] = "stopped" /\ RunServer(h)
  BY <1>14 DEF RunServer, NewServer
<1>15. CASE LeaveServer(h)
  BY <1>15 DEF LeaveServer, NewServer
<1> QED
  BY <1>1, <1>2, <1>3, <1>4, <1>5, <1>6, <1>7, <1>8, <1>9, <1>10, <1>11,
     <1>12, <1>13, <1>14, <1>15, MainThread(h)
  DEF MainThread, ServerStart

\* Every step of the heart-beat thread, and the return of recvfrom, keeps it.
LEMMA HeartBeatKeepsInv ==
  ASSUME NEW h \in Host, ServerInv,
         HeartBeatThread(h) \/ HeartBeatReceive(h)
  PROVE  ServerInv'
<1> USE DEF ServerInv, ServerTypeOK, FlagEndsLoop, ActsOnFlag, CwdInScan,
        CountsFailures, StartsWithoutThread, OneHeartBeat, OrderIsFinal,
        HeartBeatAlive, PastLoop, ServerPc, HeartBeatPc, Failed, beat,
        mainVars, flags
<1>1. ASSUME NEW ok \in BOOLEAN, OpenSocket(h, ok)
      PROVE  ServerInv'
  BY <1>1 DEF OpenSocket
<1>2. CASE TestStop(h)
  BY <1>2 DEF TestStop
<1>3. ASSUME NEW input \in ServerInput, Receive(h, input)
      PROVE  ServerInv'
  BY <1>3 DEF Receive
<1>4. CASE TestFlag(h)
  BY <1>4 DEF TestFlag
<1>5. CASE SendHeartBeat(h)
  BY <1>5 DEF SendHeartBeat
<1>6. ASSUME NEW ok \in BOOLEAN, SendSwitchServer(h, ok)
      PROVE  ServerInv'
  BY <1>6 DEF SendSwitchServer
<1>7. CASE SwitchIp(h)
  BY <1>7 DEF SwitchIp
<1>8. CASE SwitchIpReturns(h)
  BY <1>8 DEF SwitchIpReturns
<1> QED
  BY <1>1, <1>2, <1>3, <1>4, <1>5, <1>6, <1>7, <1>8
  DEF HeartBeatThread, HeartBeatReceive

\* The end of the process and the start of another keep it.
LEMMA ServerProcessKeepsInv ==
  ASSUME NEW h \in Host, ServerInv, ServerProcess(h)
  PROVE  ServerInv'
<1> USE MaxCountAssumption
    DEF ServerInv, ServerTypeOK, FlagEndsLoop, ActsOnFlag, CwdInScan,
        CountsFailures, StartsWithoutThread, OneHeartBeat, OrderIsFinal,
        HeartBeatAlive, PastLoop, ServerPc, HeartBeatPc, Failed, flags
<1>1. CASE ServerCrash(h)
  BY <1>1 DEF ServerCrash, NewServer
<1>2. CASE RunServer(h)
  BY <1>2 DEF RunServer, NewServer
<1>3. CASE LeaveServer(h)
  BY <1>3 DEF LeaveServer, NewServer
<1> QED
  BY <1>1, <1>2, <1>3 DEF ServerProcess

LEMMA ServerInvStep == ServerInv /\ [ServerNext]_serverVars => ServerInv'
<1> SUFFICES ASSUME ServerInv, [ServerNext]_serverVars
             PROVE  ServerInv'
  OBVIOUS
<1>1. CASE ServerNext
  <2>1. PICK h \in Host : ServerStep(h)
    BY <1>1 DEF ServerNext
  <2> QED
    BY <2>1, MainThreadKeepsInv, HeartBeatKeepsInv, ServerProcessKeepsInv
    DEF ServerStep
<1>2. CASE UNCHANGED serverVars
  BY <1>2 DEF serverVars, mainVars, heartBeatVars, flags, ServerInv,
     ServerTypeOK, FlagEndsLoop, ActsOnFlag, CwdInScan, CountsFailures,
     StartsWithoutThread, OneHeartBeat, OrderIsFinal, HeartBeatAlive, Failed
<1> QED
  BY <1>1, <1>2

\* The inductive invariant holds throughout, in particular the type invariant,
\* the single heart-beat thread and the finality of the order.
THEOREM ServerInvariant == ServerSpec => []ServerInv
<1>1. ServerInit(Host) => ServerInv
  BY ServerInvInit
<1> QED
  BY <1>1, ServerInvStep, PTL DEF ServerSpec

\* All of the server's variables keep their types; the counter of failed
\* checks never passes MAX_COUNT + 1.
THEOREM ServerTypeCorrect == ServerSpec => []ServerTypeOK
<1>1. ServerInv => ServerTypeOK
  BY DEF ServerInv
<1> QED
  BY <1>1, ServerInvariant, PTL

\* The order to switch, and the change of address, are preceded by
\* MAX_COUNT + 1 failed checks in a row, however the two threads interleave.
THEOREM OrdersOnlyWhenFailing == ServerSpec => []OrderOnlyWhenFailing
<1>1. ServerInv => OrderOnlyWhenFailing
  BY DEF ServerInv, ActsOnFlag, FlagEndsLoop, OrderOnlyWhenFailing
<1> QED
  BY <1>1, ServerInvariant, PTL

\* SwitchIp never reads the working directory while the other thread walks
\* through /proc.
THEOREM ScriptsRunFromInstallDir == ServerSpec => []ScriptFromInstallDir
<1>1. ServerInv => ScriptFromInstallDir
  BY DEF ServerInv, ActsOnFlag, FlagEndsLoop, CwdInScan, ScriptFromInstallDir,
     PastLoop
<1> QED
  BY <1>1, ServerInvariant, PTL

\* At most one heart-beat thread serves the port.
THEOREM AtMostOneHeartBeat == ServerSpec => []OneHeartBeat
<1>1. ServerInv => OneHeartBeat
  BY DEF ServerInv
<1> QED
  BY <1>1, ServerInvariant, PTL

\* Nothing is answered after the order to switch.
THEOREM OrdersAreFinal == ServerSpec => []OrderIsFinal
<1>1. ServerInv => OrderIsFinal
  BY DEF ServerInv
<1> QED
  BY <1>1, ServerInvariant, PTL

-----------------------------------------------------------------------------

\* No step of the host's own threads takes a flag down under a live
\* heart-beat thread: the two that clear flags run without one.
LEMMA StepHoldsFlags ==
  ASSUME ServerInv, [ServerNext]_serverVars, NEW h \in Host,
         HeartBeatAlive(h), serverPc'[h] # "crashed"
  PROVE  /\ flag_switch_[h] => flag_switch_'[h]
         /\ stop_heart_beat_[h] => stop_heart_beat_'[h]
<1> USE DEF HeartBeatAlive, ServerInv, ServerTypeOK, OneHeartBeat, flags,
        heartBeatVars
<1>1. CASE UNCHANGED serverVars
  BY <1>1 DEF serverVars
<1>2. ASSUME NEW g \in Host, ServerStep(g)
      PROVE  /\ flag_switch_[h] => flag_switch_'[h]
             /\ stop_heart_beat_[h] => stop_heart_beat_'[h]
  <2>1. CASE \E result \in CreateResults : StartHeartBeat(g, result)
    BY <2>1 DEF StartHeartBeat, goto
  <2>2. CASE RunServer(g) \/ ServerCrash(g) \/ LeaveServer(g)
    BY <2>2 DEF RunServer, ServerCrash, LeaveServer, NewServer, goto
  <2>3. CASE RaiseSwitch(g) \/ StopHeartBeat(g)
    BY <2>3 DEF RaiseSwitch, StopHeartBeat
  <2>4. CASE UNCHANGED flags
    BY <2>4
  <2>5. HeartBeatThread(g) \/ HeartBeatReceive(g) => UNCHANGED flags
    BY DEF HeartBeatThread, HeartBeatReceive, OpenSocket, TestStop, Receive,
       TestFlag, SendHeartBeat, SendSwitchServer, SwitchIp, SwitchIpReturns,
       beat
  <2> QED
    BY <1>2, <2>1, <2>2, <2>3, <2>4, <2>5
    DEF ServerStep, MainThread, ServerStart, CheckDatabaseStatus, ScanProc,
        CheckMonitorStatus, AllWell, RestartServices, RestartDatabase,
        RestartMonitor, Sleep, Join, JoinUndefined, ServerProcess
<1> QED
  BY <1>1, <1>2 DEF ServerNext

\* A decision, once visible to a live heart-beat thread, stays visible to it.
THEOREM FlagsAreHeld == ServerSpec => FlagsHold
<1>1. ServerInv /\ [ServerNext]_serverVars
      => [\A h \in Host :
             HeartBeatAlive(h) /\ serverPc'[h] # "crashed" =>
                 /\ flag_switch_[h] => flag_switch_'[h]
                 /\ stop_heart_beat_[h] => stop_heart_beat_'[h]]_serverVars
  BY StepHoldsFlags
<1> QED
  BY <1>1, ServerInvariant, PTL DEF ServerSpec, FlagsHold

=============================================================================
