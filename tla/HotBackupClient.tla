---------------------------- MODULE HotBackupClient ----------------------------
(***************************************************************************)
(* The client role of the daemon: one HotBackupClient object per host and  *)
(* the single thread that runs Start.  It sends a heart-beat, waits for    *)
(* one datagram, and takes the service over when the server orders it to   *)
(* or has not been heard of TIMEOUT_MAX + 1 times in a row.                *)
(*                                                                         *)
(* The results of socket calls, and what recvfrom returns, are parameters  *)
(* of the actions; the last section closes the component under all of      *)
(* them, HotBackup supplies them from the network and the other host.      *)
(***************************************************************************)
EXTENDS Segment

CONSTANT TIMEOUT_MAX    \* failed receives the client puts up with (6)

ASSUME TimeoutMaxAssumption == TIMEOUT_MAX \in Nat

VARIABLES
    clientPc,           \* where the thread is in Start
    timeout_count_,     \* failed receives in a row
    server_addr,        \* where the next heart-beat goes; recvfrom writes it
    received,           \* buf: what recvfrom has returned in this round
    silence             \* history: receives since the last datagram, or Start

clientVars == <<clientPc, timeout_count_, server_addr, received, silence>>

ClientPc == {"idle", "open", "send", "sendFailed", "recv", "sleep",
             "changeServer", "script", "stopped", "crashed"}

\* The datagrams a server sends, and any other.
Package == {"server-heart-beat", "switch-server", "other"}

ClientTypeOK ==
    /\ clientPc \in [Host -> ClientPc]
    /\ timeout_count_ \in [Host -> 0 .. TIMEOUT_MAX + 1]
    /\ server_addr \in [Host -> Address]
    /\ received \in [Host -> Package \cup {"none", "error"}]
    /\ silence \in [Host -> 0 .. TIMEOUT_MAX + 1]

\* The hosts of S have the role and a new object.
ClientInit(S) ==
    /\ clientPc = [h \in Host |-> IF h \in S THEN "open" ELSE "idle"]
    /\ timeout_count_ = [h \in Host |-> 0]
    /\ server_addr = [h \in Host |-> ServiceIp]
    /\ received = [h \in Host |-> "none"]
    /\ silence = [h \in Host |-> 0]

advance(h, from, to) ==
    /\ clientPc[h] = from
    /\ clientPc' = [clientPc EXCEPT ![h] = to]

ParsePackage(msg) ==
    IF msg = "server-heart-beat" THEN 0 ELSE IF msg = "switch-server" THEN 1 ELSE -1

OneMore(n) == IF n > TIMEOUT_MAX THEN n ELSE n + 1

-----------------------------------------------------------------------------
(* Variants of the actions below, each with a plausible fault. *)

\* The limit is not looked at.
RecvErrorForEver(h) ==
    /\ advance(h, "recv", "sleep")
    /\ timeout_count_' = [timeout_count_ EXCEPT ![h] = @ + 1]
    /\ received' = [received EXCEPT ![h] = "error"]
    /\ silence' = [silence EXCEPT ![h] = OneMore(@)]
    /\ UNCHANGED server_addr

\* The counter starts anew with each sleep.
RecvErrorForgets(h) ==
    /\ advance(h, "recv", "sleep")
    /\ timeout_count_' = [timeout_count_ EXCEPT ![h] = 0]
    /\ received' = [received EXCEPT ![h] = "error"]
    /\ silence' = [silence EXCEPT ![h] = OneMore(@)]
    /\ UNCHANGED server_addr

\* timeout_count_ = 0 is missing after a successful receive.
RecvPackageKeepsCount(h, msg, from) ==
    /\ advance(h, "recv",
               IF ParsePackage(msg) = 1 THEN "changeServer" ELSE "sleep")
    /\ server_addr' = [server_addr EXCEPT ![h] = from]
    /\ received' = [received EXCEPT ![h] = msg]
    /\ silence' = [silence EXCEPT ![h] = 0]
    /\ UNCHANGED timeout_count_

-----------------------------------------------------------------------------
(* Start *)

\* socket, SO_REUSEADDR, bind, SO_RCVTIMEO: Start returns -1 if one fails.
OpenClient(h, ok) ==
    /\ advance(h, "open", IF ok THEN "send" ELSE "stopped")
    /\ UNCHANGED <<timeout_count_, server_addr, received, silence>>

\* A failed sendto is tried again after a second; it does not count.
SendClientHeartBeat(h, ok) ==
    /\ advance(h, "send", IF ok THEN "recv" ELSE "sendFailed")
    /\ UNCHANGED <<timeout_count_, server_addr, received, silence>>

SendAgain(h) ==
    /\ advance(h, "sendFailed", "send")
    /\ UNCHANGED <<timeout_count_, server_addr, received, silence>>

\* SO_RCVTIMEO has run out, or recvfrom fails otherwise.
RecvError(h) ==
    /\ advance(h, "recv",
               IF timeout_count_[h] + 1 <= TIMEOUT_MAX THEN "sleep"
                                                       ELSE "changeServer")
    /\ timeout_count_' = [timeout_count_ EXCEPT ![h] = @ + 1]
    /\ received' = [received EXCEPT ![h] = "error"]
    /\ silence' = [silence EXCEPT ![h] = OneMore(@)]
    /\ UNCHANGED server_addr

\* Any datagram clears the counter, and its sender becomes the addressee of
\* the next heart-beat.
RecvPackage(h, msg, from) ==
    /\ advance(h, "recv",
               IF ParsePackage(msg) = 1 THEN "changeServer" ELSE "sleep")
    /\ timeout_count_' = [timeout_count_ EXCEPT ![h] = 0]
    /\ server_addr' = [server_addr EXCEPT ![h] = from]
    /\ received' = [received EXCEPT ![h] = msg]
    /\ silence' = [silence EXCEPT ![h] = 0]

ClientSleep(h) ==
    /\ advance(h, "sleep", "send")
    /\ received' = [received EXCEPT ![h] = "none"]
    /\ UNCHANGED <<timeout_count_, server_addr, silence>>

\* ChangeServer runs switch_server.sh ...
ChangeServer(h) ==
    /\ advance(h, "changeServer", "script")
    /\ UNCHANGED <<timeout_count_, server_addr, received, silence>>

\* ... and Start ends with it, whatever became of it.
ChangeServerReturns(h) ==
    /\ advance(h, "script", "stopped")
    /\ received' = [received EXCEPT ![h] = "none"]
    /\ UNCHANGED <<timeout_count_, server_addr, silence>>

-----------------------------------------------------------------------------
(* The process: stop.sh and the loop of main *)

\* A new object, or none.
NewClient(h) ==
    /\ timeout_count_' = [timeout_count_ EXCEPT ![h] = 0]
    /\ server_addr' = [server_addr EXCEPT ![h] = ServiceIp]
    /\ received' = [received EXCEPT ![h] = "none"]
    /\ silence' = [silence EXCEPT ![h] = 0]

ClientCrash(h) ==
    /\ clientPc[h] \notin {"idle", "crashed"}
    /\ clientPc' = [clientPc EXCEPT ![h] = "crashed"]
    /\ NewClient(h)

RunClient(h) ==
    /\ clientPc[h] \in {"idle", "stopped", "crashed"}
    /\ clientPc' = [clientPc EXCEPT ![h] = "open"]
    /\ NewClient(h)

\* The local address has become the service address; or the process is
\* replaced by one that starts with the other role.
LeaveClient(h) ==
    /\ clientPc[h] \in {"stopped", "crashed"}
    /\ clientPc' = [clientPc EXCEPT ![h] = "idle"]
    /\ NewClient(h)

-----------------------------------------------------------------------------
(* The component closed under what its surroundings may answer *)

ClientReceive(h) ==
    \E msg \in Package, from \in Address : RecvPackage(h, msg, from)

\* The steps of Start other than a receive that returns a datagram ...
ClientStart(h) ==
    \/ \E ok \in BOOLEAN : OpenClient(h, ok)
    \/ \E ok \in BOOLEAN : SendClientHeartBeat(h, ok)
    \/ SendAgain(h)
    \/ RecvError(h)
    \/ ClientSleep(h)
    \/ ChangeServer(h)
    \/ ChangeServerReturns(h)

\* ... and of main between two of its runs.
ClientThread(h) ==
    \/ ClientStart(h)
    \/ clientPc[h] = "stopped" /\ (RunClient(h) \/ LeaveClient(h))

ClientProcess(h) ==
    \/ ClientCrash(h)
    \/ clientPc[h] \in {"idle", "crashed"} /\ RunClient(h)
    \/ clientPc[h] = "crashed" /\ LeaveClient(h)

ClientNext ==
    \E h \in Host : ClientThread(h) \/ ClientReceive(h) \/ ClientProcess(h)

ClientSpec == ClientInit(Host) /\ [][ClientNext]_clientVars

-----------------------------------------------------------------------------
(* Properties *)

\* switch_server.sh is run for one of two causes only: the last datagram was
\* the order to switch, or TIMEOUT_MAX + 1 receives in a row returned nothing
\* (lines 98 to 110); failures that a datagram interrupted do not add up.
TakesOverForCause ==
    \A h \in Host :
        clientPc[h] \in {"changeServer", "script"} =>
            \/ received[h] = "switch-server"
            \/ received[h] = "error" /\ silence[h] = TIMEOUT_MAX + 1

\* A server that falls silent for good is replaced: the client does not go on
\* waiting, over any number of runs of Start.
SilenceLeadsToTakeOver ==
    \A h \in Host :
        <>[](received[h] \in {"none", "error"})
            => []<>(clientPc[h] \in {"script", "idle", "crashed"})

=============================================================================
