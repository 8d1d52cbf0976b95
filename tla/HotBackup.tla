------------------------------- MODULE HotBackup -------------------------------
(***************************************************************************)
(* The two machines together: on each the daemon, in the role main gives   *)
(* it, and the scripts it runs; between them the datagrams of port 8101.   *)
(* Every action is one of Daemon and its two roles, or of SwitchScripts,   *)
(* or two of them where one calls the other, with the results of calls     *)
(* taken from the state of the hosts.                                      *)
(***************************************************************************)
EXTENDS Daemon, SwitchScripts

CONSTANTS
    Master,     \* the host that is installed as the server
    HomeIp,     \* the static addresses of the hosts
    Faults      \* what may go wrong, a subset of Fault

Fault == {"database", "cems", "crash", "boot", "stop", "split", "loss", "netStart",
          "repair", "fix", "race", "start"}

ASSUME MasterAssumption == Master \in Host
ASSUME HomeIpAssumption == HomeIp \in HomeAddresses /\ HomeIp[Master] = ServiceIp
ASSUME FaultsAssumption == Faults \subseteq Fault
ASSUME AnyServiceAssumption == ServiceStates = SUBSET Service

VARIABLES
    client_addr,    \* HeartBeat: where the last datagram came from
    buffer,         \* what the socket of the host has received, unread
    up              \* the host runs

processVars == <<main_ip, client_addr>>
vars == <<daemonVars, scriptVars, client_addr, buffer, up>>

Datagram == [msg : {"client-heart-beat", "server-heart-beat", "switch-server"},
             from : Address]

HotBackupTypeOK ==
    /\ DaemonTypeOK
    /\ ScriptTypeOK
    /\ client_addr \in [Host -> Configured]
    /\ buffer \in [Host -> SUBSET Datagram]
    /\ up \in [Host -> BOOLEAN]

\* The master is installed first, then the others, with its address.
Init ==
    /\ DaemonInit({Master}, HomeIp)
    /\ ScriptInit(HomeIp)
    /\ client_addr = [h \in Host |-> NoAddress]
    /\ buffer = [h \in Host |-> {}]
    /\ up = [h \in Host |-> TRUE]

\* The outcomes of a call that only a fault makes fail.
Outcomes(fault) == IF fault \in Faults THEN BOOLEAN ELSE {TRUE}

\* The socket of h is bound to the address of eth0 and open.
Listens(h) ==
    \/ heartBeatPc[h] \in {"loop", "recv", "testFlag", "answer", "orderSwitch"}
    \/ clientPc[h] \in {"send", "sendFailed", "recv", "sleep"}

\* A datagram of h gets into the buffer of the socket that is bound to its
\* destination, if there is one; equal datagrams in a buffer count for one.
Send(h, msg, from, to) ==
    LET Receivers == {g \in Host \ {h} : linked /\ eth0[g] = to /\ Listens(g)}
    IN  \/ /\ Receivers = {} \/ "loss" \in Faults
           /\ UNCHANGED buffer
        \/ \E g \in Receivers :
               buffer' = [buffer EXCEPT ![g] = @ \cup {[msg |-> msg, from |-> from]}]

\* The host answers heart-beats at the service address.
Serves(h) == HeartBeatAlive(h) /\ eth0[h] = ServiceIp

\* The buffer goes with the socket.
Close(h) == buffer' = [buffer EXCEPT ![h] = {}]

-----------------------------------------------------------------------------
(* The server role *)

Exists(h, service) == IF service \in services[h] THEN 0 ELSE -1

MainThreadSteps(h) ==
    /\ \/ \E result \in CreateResults : StartHeartBeat(h, result)
       \/ CheckDatabaseStatus(h, Exists(h, "database"))
       \/ ScanProc(h)
       \/ CheckMonitorStatus(h, Exists(h, "cems"))
       \/ AllWell(h)
       \/ RestartServices(h)
       \/ RaiseSwitch(h)
       \/ Sleep(h)
       \/ StopHeartBeat(h)
       \/ Join(h)
       \/ JoinUndefined(h)
    /\ UNCHANGED <<clientVars, scriptVars, processVars, buffer, up>>

\* "service ... start" brings the service back, or does not.
RestartsService(h) ==
    /\ \E started \in {{}, {"database"}, {"cems"}} :
           /\ \/ started # {"cems"} /\ RestartDatabase(h)
              \/ started # {"database"} /\ RestartMonitor(h)
           /\ ServicesChange(h, services[h] \cup started)
    /\ UNCHANGED <<clientVars, processVars, buffer, up>>

\* bind demands an address of the host.
HeartBeatSteps(h) ==
    /\ \/ OpenSocket(h, eth0[h] = ServiceIp) /\ UNCHANGED client_addr
       \/ TestFlag(h) /\ UNCHANGED client_addr
    /\ UNCHANGED <<clientVars, scriptVars, main_ip, buffer, up>>

TestsStop(h) ==
    /\ TestStop(h)
    /\ client_addr' = [client_addr EXCEPT ![h] = NoAddress]
    /\ IF stop_heart_beat_[h] THEN Close(h) ELSE UNCHANGED buffer
    /\ UNCHANGED <<clientVars, scriptVars, main_ip, up>>

ReceiveDatagram(h) ==
    \E d \in buffer[h] :
        /\ Receive(h, IF d.msg = "client-heart-beat" THEN d.msg ELSE "other")
        /\ client_addr' = [client_addr EXCEPT ![h] = d.from]
        /\ buffer' = [buffer EXCEPT ![h] = @ \ {d}]
        /\ UNCHANGED <<clientVars, scriptVars, main_ip, up>>

\* SO_RCVTIMEO runs out on an empty buffer only.
ReceiveError(h) ==
    /\ buffer[h] = {}
    /\ Receive(h, "error")
    /\ UNCHANGED <<clientVars, scriptVars, processVars, buffer, up>>

Answers(h) ==
    /\ \/ /\ SendHeartBeat(h)
          /\ Send(h, "server-heart-beat", ServiceIp, client_addr[h])
       \/ /\ SendSwitchServer(h, TRUE)
          /\ Send(h, "switch-server", ServiceIp, client_addr[h])
       \/ /\ "loss" \in Faults
          /\ SendSwitchServer(h, FALSE)
          /\ UNCHANGED buffer
    /\ UNCHANGED <<clientVars, scriptVars, processVars, up>>

SwitchesIp(h) ==
    /\ \/ SwitchIp(h) /\ auto_switch_ip(h, TRUE)
       \/ SwitchIpReturns(h) /\ ScriptReturns(h)
    /\ Close(h)
    /\ UNCHANGED <<clientVars, processVars, up>>

-----------------------------------------------------------------------------
(* The client role *)

\* The socket is bound to the address main has read; if eth0 was down then,
\* that is the loopback address, from which nothing can be sent.
CanSend(h) == eth0[h] # NoAddress /\ main_ip[h] = eth0[h]

ClientSteps(h) ==
    /\ \/ OpenClient(h, main_ip[h] = eth0[h])
       \/ SendClientHeartBeat(h, FALSE) /\ ~CanSend(h)
       \/ SendAgain(h)
       \/ ClientSleep(h)
    /\ UNCHANGED <<serverVars, scriptVars, processVars, buffer, up>>

Asks(h) ==
    /\ CanSend(h)
    /\ SendClientHeartBeat(h, TRUE)
    /\ Send(h, "client-heart-beat", main_ip[h], server_addr[h])
    /\ UNCHANGED <<serverVars, scriptVars, processVars, up>>

ClientReceives(h) ==
    \/ /\ buffer[h] = {}
       /\ RecvError(h)
       /\ UNCHANGED <<serverVars, scriptVars, processVars, buffer, up>>
    \/ \E d \in buffer[h] :
           /\ RecvPackage(h, IF d.msg = "client-heart-beat" THEN "other"
                                                           ELSE d.msg, d.from)
           /\ buffer' = [buffer EXCEPT ![h] = @ \ {d}]
           /\ UNCHANGED <<serverVars, scriptVars, processVars, up>>

ChangesServer(h) ==
    /\ \/ ChangeServer(h) /\ StartSwitchServer(h)
       \/ ChangeServerReturns(h) /\ ScriptReturns(h)
    /\ Close(h)
    /\ UNCHANGED <<serverVars, processVars, up>>

-----------------------------------------------------------------------------
(* main *)

\* Interfaces of h, in the order SIOCGIFCONF lists them: lo, whose address is
\* none here, and eth0, which is not up while it has no address.
Interfaces(h) == <<[up |-> TRUE, ip |-> NoAddress],
                   [up |-> eth0[h] # NoAddress, ip |-> eth0[h]]>>

\* The address of the last interface that is up.
GetCurrentIp(interfaces) ==
    LET Up == {i \in DOMAIN interfaces : interfaces[i].up}
    IN  interfaces[CHOOSE i \in Up : \A j \in Up : i >= j].ip

MainRunsAgain(h) ==
    /\ RunsAgain(h, GetCurrentIp(Interfaces(h)))
    /\ UNCHANGED <<scriptVars, client_addr, buffer, up>>

-----------------------------------------------------------------------------
(* The scripts *)

\* Another host is just moving to address a.  This takes it some seconds; that
\* a ping falls into them is counted as a fault.
MovesTo(g, a) ==
    /\ scriptPc[g] \in {"autoNetStop", "autoNetStart", "netStop", "netStart",
                        "recover"}
    /\ a \in Claims(g)

InTime(h, a) == "race" \in Faults \/ \A g \in Host \ {h} : ~MovesTo(g, a)

ScriptRuns(h) ==
    /\ \/ ScanAnswered(h) \/ ScanExhausted(h)
       \/ ScanFree(h) /\ InTime(h, tmp[h])
       \/ AutoNetStop(h)
       \/ stop_mysql(h)
       \/ PingAnswered(h)
       \/ PingFree(h) /\ InTime(h, ServiceIp)
       \/ NetStop(h)
       \/ \E ok \in Outcomes("netStart") :
              AutoNetStart(h, ok) \/ NetStart(h, ok) \/ Recover(h, ok)
       \/ \E ok \in Outcomes("fix") : fix_services_ip(h, ok)
       \/ \E started \in CemsStarts : StartCems(h, started)
    /\ UNCHANGED <<serverVars, clientVars, processVars, buffer, up>>

-----------------------------------------------------------------------------
(* What may go wrong *)

\* Where nobody serves, a failure is as good as one just after the role has
\* been taken.
ServiceFails(h) ==
    /\ serverPc[h] \notin {"idle", "crashed"}
    /\ \E service \in services[h] \cap Faults :
           ServicesChange(h, services[h] \ {service})
    /\ UNCHANGED <<serverVars, clientVars, processVars, buffer, up>>

\* stop.sh
StopDaemon(h) ==
    /\ "stop" \in Faults
    /\ up[h]
    /\ ProcessEnds(h)
    /\ KillScript(h)
    /\ Close(h)
    /\ UNCHANGED <<client_addr, up>>

\* start.sh, where README.txt has it run (lines 10 and 11): on the host the
\* master is installed on while it has the service address, on the others with
\* the service address of a server that runs.
StartDaemon(h) ==
    /\ "start" \in Faults
    /\ up[h]
    /\ \/ h = Master /\ StartMaster(h, GetCurrentIp(Interfaces(h)))
       \/ /\ h # Master
          /\ GetCurrentIp(Interfaces(h)) \notin {ServiceIp, NoAddress}
          /\ \E g \in Host : Serves(g)
          /\ StartSlave(h, GetCurrentIp(Interfaces(h)))
    /\ UNCHANGED <<scriptVars, client_addr, buffer, up>>

HostCrash(h) ==
    /\ "crash" \in Faults
    /\ up[h]
    /\ ProcessEnds(h)
    /\ HostDown(h)
    /\ Close(h)
    /\ up' = [up EXCEPT ![h] = FALSE]
    /\ UNCHANGED client_addr

\* The network and the services are started at boot, the daemon is not.
HostBoots(h) ==
    /\ "boot" \in Faults
    /\ ~up[h]
    /\ HostUp(h)
    /\ up' = [up EXCEPT ![h] = TRUE]
    /\ UNCHANGED <<serverVars, clientVars, processVars, buffer>>

\* Someone starts the network of a running host.
RepairNetwork(h) ==
    /\ "repair" \in Faults
    /\ up[h]
    /\ NetworkStarted(h)
    /\ UNCHANGED <<serverVars, clientVars, processVars, buffer, up>>

Split ==
    /\ "split" \in Faults
    /\ LinkChanges
    /\ UNCHANGED <<serverVars, clientVars, processVars, buffer, up>>

-----------------------------------------------------------------------------
DaemonStep(h) ==
    \/ MainThreadSteps(h) \/ RestartsService(h)
    \/ HeartBeatSteps(h) \/ TestsStop(h) \/ ReceiveDatagram(h) \/ ReceiveError(h)
    \/ Answers(h) \/ SwitchesIp(h)
    \/ ClientSteps(h) \/ Asks(h) \/ ClientReceives(h) \/ ChangesServer(h)
    \/ MainRunsAgain(h)
    \/ ScriptRuns(h)

FaultStep ==
    \/ \E h \in Host : \/ ServiceFails(h) \/ StopDaemon(h) \/ StartDaemon(h)
                       \/ HostCrash(h) \/ HostBoots(h)
                       \/ RepairNetwork(h)
    \/ Split

Next == (\E h \in Host : DaemonStep(h)) \/ FaultStep

Spec == Init /\ [][Next]_vars

\* Each thread and each script is scheduled, and each receive ends, with a
\* datagram or with an error.
Fairness ==
    \A h \in Host :
        /\ WF_vars(MainThreadSteps(h) \/ RestartsService(h) \/ MainRunsAgain(h)
                   \/ ClientSteps(h) \/ Asks(h) \/ ChangesServer(h)
                   \/ ClientReceives(h))
        /\ WF_vars(HeartBeatSteps(h) \/ TestsStop(h) \/ ReceiveDatagram(h) \/ ReceiveError(h)
                   \/ Answers(h) \/ SwitchesIp(h))
        /\ WF_vars(ScriptRuns(h))

FairSpec == Spec /\ Fairness

-----------------------------------------------------------------------------
(* Properties *)

\* Whatever script or fault has moved addresses meanwhile, a host that runs the
\* server role has the service address, until switch_ip.sh moves it and the
\* heart-beat thread ends, which main is then about to notice; and a host that
\* waits for a server's heart-beat does not have it.  main's decision, taken once
\* when Start returned, stays true until the role ends.
RoleFitsAddress ==
    \A h \in Host :
        /\ serverPc[h] \notin {"idle", "stopped", "crashed"} /\ scriptPc[h] = "idle"
           /\ heartBeatPc[h] # "exited"
               => eth0[h] = ServiceIp
        /\ clientPc[h] \in {"send", "recv", "sleep"} => eth0[h] # ServiceIp

\* A server never goes on without its heart-beat thread, once created: its socket
\* is bound where the address is, and neither flag is up before the checks are
\* over (the thread ends silently when bind fails, line 209).
ServerAnswers ==
    \A h \in Host :
        serverPc[h] \in {"checkDatabase", "checkMonitor", "scanProc", "evaluate",
                        "restartDatabase", "restartMonitor", "sleep"}
            => heartBeatPc[h] # "exited"

\* Two hosts only ever serve at once after a ping missed a host on its way
\* back to the address: through a whole hand-over, planned or not.
OneServerUnlessRaced ==
    ~raced => \A g, h \in Host : Serves(g) /\ Serves(h) => g = h

\* The client only ever asks the service address, although each receive
\* overwrites the address it sends to with that of the sender.
AsksService ==
    \A h \in Host :
        clientPc[h] \in {"send", "recv", "sleep"} => server_addr[h] = ServiceIp

\* README.txt, line 6: the address of a replaced server is changed to a free
\* one, so that the two machines never both have the service address.
OneServiceAddress ==
    \A g, h \in Host : eth0[g] = ServiceIp /\ eth0[h] = ServiceIp => g = h

\* README.txt, line 6, of the configuration: a server that runs while another
\* has taken its place is configured with another address.
ReplacedServerMoves ==
    \A g, h \in Host :
        g # h /\ Serves(h) /\ up[g] => IPADDR[g] # ServiceIp

\* README.txt, line 3: the standby sends its heart-beat every 5 seconds; a
\* failed send is tried again, and succeeds once the host has its address.
HeartBeatResumes ==
    \A h \in Host :
        clientPc[h] = "sendFailed" /\ eth0[h] # NoAddress
            ~> clientPc[h] \in {"recv", "idle", "crashed"} \/ eth0[h] = NoAddress

\* While both hosts are up the service address does not stay without one of
\* them: neither the hand-over nor its failure leaves both machines waiting for
\* the other.
ServiceReturns ==
    []<>((\E h \in Host : eth0[h] = ServiceIp) \/ (\E h \in Host : ~up[h]))

\* A host that is left alone ends up serving, wherever it and the other were
\* in their roles, scripts and hand-over when the other went down.
SurvivorServes ==
    \A g, h \in Host :
        g # h => (~up[g] /\ up[h]) ~> (Serves(h) \/ ~up[h])

=============================================================================
