--------------------------------- MODULE Daemon ---------------------------------
(***************************************************************************)
(* The process: main, which runs the two roles in turn, and the scripts    *)
(* that end and start it.  What GetCurrentIp finds when a role ends decides *)
(* on the next one; here it is any address, HotBackup takes it from eth0.  *)
(***************************************************************************)
EXTENDS HotBackupServer, HotBackupClient

VARIABLE main_ip    \* local_ip of main: what GetCurrentIp last returned

daemonVars == <<serverVars, clientVars, main_ip>>

\* The hosts of Servers are started with "server", the others with "client".
DaemonInit(Servers, home) ==
    /\ ServerInit(Servers)
    /\ ClientInit(Host \ Servers)
    /\ main_ip = home

\* One process per host: it has one of the roles, or has ended in one.
HasEnded(h) == serverPc[h] = "crashed" \/ clientPc[h] = "crashed"

-----------------------------------------------------------------------------
(* Variants of RunsAgain, each with a plausible fault. *)

\* "flag = 0" after the client's Start is unconditional.
RunsAgainAsClient(h, ip) ==
    /\ \/ /\ serverPc[h] = "stopped" /\ ip = ServiceIp
          /\ RunServer(h) /\ UNCHANGED clientVars
       \/ /\ serverPc[h] = "stopped" /\ ip # ServiceIp
          /\ LeaveServer(h) /\ RunClient(h)
       \/ clientPc[h] = "stopped" /\ RunClient(h) /\ UNCHANGED serverVars
    /\ main_ip' = [main_ip EXCEPT ![h] = ip]

\* local_ip is not read again after the server's Start.
RunsAgainAsServer(h, ip) ==
    /\ \/ serverPc[h] = "stopped" /\ RunServer(h) /\ UNCHANGED clientVars
       \/ /\ clientPc[h] = "stopped" /\ ip = ServiceIp
          /\ LeaveClient(h) /\ RunServer(h)
       \/ /\ clientPc[h] = "stopped" /\ ip # ServiceIp
          /\ RunClient(h) /\ UNCHANGED serverVars
    /\ UNCHANGED main_ip

\* The other role is started in a thread, as StartClient of HotBackupServer
\* would, and the one that has ended is not left.
RunsBoth(h, ip) ==
    /\ \/ serverPc[h] = "stopped" /\ RunClient(h) /\ UNCHANGED serverVars
       \/ clientPc[h] = "stopped" /\ RunServer(h) /\ UNCHANGED clientVars
    /\ main_ip' = [main_ip EXCEPT ![h] = ip]

-----------------------------------------------------------------------------
(* main: when Start returns, the local address decides on the next role. *)

RunsAgain(h, ip) ==
    /\ \/ /\ serverPc[h] = "stopped" /\ ip = ServiceIp
          /\ RunServer(h) /\ UNCHANGED clientVars
       \/ /\ serverPc[h] = "stopped" /\ ip # ServiceIp
          /\ LeaveServer(h) /\ RunClient(h)
       \/ /\ clientPc[h] = "stopped" /\ ip = ServiceIp
          /\ LeaveClient(h) /\ RunServer(h)
       \/ /\ clientPc[h] = "stopped" /\ ip # ServiceIp
          /\ RunClient(h) /\ UNCHANGED serverVars
    /\ main_ip' = [main_ip EXCEPT ![h] = ip]

-----------------------------------------------------------------------------
(* stop.sh, start.sh and what else ends the process *)

ProcessEnds(h) ==
    /\ \/ serverPc[h] # "idle" /\ ServerCrash(h) /\ UNCHANGED clientVars
       \/ clientPc[h] # "idle" /\ ClientCrash(h) /\ UNCHANGED serverVars
    /\ UNCHANGED main_ip

\* start.sh of the master: "server".  The address it finds then is the one it
\* serves; a daemon that starts with another one has no part in this model.
StartMaster(h, ip) ==
    /\ HasEnded(h)
    /\ ip = ServiceIp
    /\ RunServer(h)
    /\ IF clientPc[h] = "crashed" THEN LeaveClient(h) ELSE UNCHANGED clientVars
    /\ main_ip' = [main_ip EXCEPT ![h] = ip]

\* start.sh of the slave: "client", with the service address.
StartSlave(h, ip) ==
    /\ HasEnded(h)
    /\ RunClient(h)
    /\ IF serverPc[h] = "crashed" THEN LeaveServer(h) ELSE UNCHANGED serverVars
    /\ main_ip' = [main_ip EXCEPT ![h] = ip]

-----------------------------------------------------------------------------
(* The component closed under what its surroundings may do *)

\* The thread that runs main, and Start of either role ...
DaemonThread(h) ==
    \/ ServerStart(h) /\ UNCHANGED <<clientVars, main_ip>>
    \/ ClientStart(h) /\ UNCHANGED <<serverVars, main_ip>>
    \/ \E ip \in Configured : RunsAgain(h, ip)

\* ... and the heart-beat thread.
DaemonHeartBeat(h) == HeartBeatThread(h) /\ UNCHANGED <<clientVars, main_ip>>

DaemonReceives(h) ==
    \/ HeartBeatReceive(h) /\ UNCHANGED <<clientVars, main_ip>>
    \/ ClientReceive(h) /\ UNCHANGED <<serverVars, main_ip>>

DaemonEnvironment(h) ==
    \/ ProcessEnds(h)
    \/ \E ip \in Configured : StartMaster(h, ip) \/ StartSlave(h, ip)

DaemonNext ==
    \E h \in Host : \/ DaemonThread(h) \/ DaemonHeartBeat(h)
                    \/ DaemonReceives(h) \/ DaemonEnvironment(h)

DaemonSpec ==
    /\ \E Servers \in SUBSET Host, home \in [Host -> Configured] :
           /\ \A h \in Servers : home[h] = ServiceIp
           /\ DaemonInit(Servers, home)
    /\ [][DaemonNext]_daemonVars

\* The threads are scheduled, "sleep" ends, every command the process waits for
\* ends, and SO_RCVTIMEO ends a recvfrom nothing arrives for.  Opening the
\* client's socket and sending are not refused for ever: the address the object
\* was made with is the host's.
DaemonFairness ==
    \A h \in Host :
        /\ WF_daemonVars(DaemonThread(h))
        /\ WF_daemonVars(DaemonHeartBeat(h))
        /\ WF_daemonVars(Receive(h, "error") /\ UNCHANGED <<clientVars, main_ip>>)
        /\ SF_daemonVars(OpenClient(h, TRUE) /\ UNCHANGED <<serverVars, main_ip>>)
        /\ SF_daemonVars(SendClientHeartBeat(h, TRUE)
                         /\ UNCHANGED <<serverVars, main_ip>>)

FairDaemonSpec == DaemonSpec /\ DaemonFairness

-----------------------------------------------------------------------------
(* Properties *)

DaemonTypeOK ==
    /\ ServerTypeOK
    /\ ClientTypeOK
    /\ main_ip \in [Host -> Configured]

\* A process never has both roles, or none: neither the end of a Start, whenever
\* its other thread ends, nor a kill and a start of either kind leaves an
\* object of the other role behind, which would bind the same port.
OneRole ==
    \A h \in Host : (serverPc[h] = "idle") # (clientPc[h] = "idle")

=============================================================================
