---------------------------- MODULE HotBackupServer ----------------------------
(***************************************************************************)
(* The server role of the daemon: one HotBackupServer object per host and  *)
(* the two threads that share it.  The main thread (Start) checks the      *)
(* database and the monitor and decides to hand the service over; the      *)
(* heart-beat thread (HeartBeat) answers the standby, and carries the      *)
(* decision out.  They share flag_switch_ and stop_heart_beat_, and the    *)
(* working directory of the process, which the check of the monitor        *)
(* changes (ProcIsExist walks /proc with chdir) and SwitchIp reads.        *)
(*                                                                         *)
(* What the code gets from outside is a parameter of the action that gets  *)
(* it: the results of the checks, of socket calls and of pthread_create.   *)
(* The last section closes the component under all of them; HotBackup      *)
(* conjoins the same actions with the other host, the network and the      *)
(* scripts.                                                                *)
(***************************************************************************)
EXTENDS Segment

CONSTANTS
    MAX_COUNT,      \* failed checks that are answered by a restart (6)
    CreateResults   \* what pthread_create may return: 0 or an error number

ASSUME MaxCountAssumption == MAX_COUNT \in Nat

\* POSIX: pthread_create returns 0 or a positive error number, and does not
\* set errno.
ASSUME CreateAssumption == CreateResults \subseteq Nat

VARIABLES
    serverPc,           \* where the main thread is in Start
    heartBeatPc,        \* where the heart-beat thread is in HeartBeat
    flag_switch_,       \* the decision to hand over, read by the heart-beat
    stop_heart_beat_,   \* the order to end, read by the heart-beat
    abnormal_count_,    \* failed checks in a row
    res1,               \* result of the last CheckDatabaseStatus
    res2,               \* result of the last CheckMonitorStatus
    cwd,                \* working directory of the process
    told,               \* history: this object has sent "switch-server"
    failures            \* history: checks in a row that found a failure

mainVars == <<serverPc, abnormal_count_, res1, res2, cwd, failures>>
heartBeatVars == <<heartBeatPc, told>>
flags == <<flag_switch_, stop_heart_beat_>>
serverVars == <<mainVars, heartBeatVars, flags>>

ServerPc == {"idle", "startHeartBeat", "checkDatabase", "checkMonitor",
             "scanProc", "evaluate", "restartDatabase", "restartMonitor",
             "sleep", "stopHeartBeat", "join", "stopped", "crashed"}

HeartBeatPc == {"none", "setup", "loop", "recv", "testFlag", "answer",
                "orderSwitch", "switchIp", "script", "exited"}

\* What recvfrom hands to HeartBeat: the datagram the client sends, any other
\* datagram, or an error (SO_RCVTIMEO makes it return one after 120 s).
ServerInput == {"client-heart-beat", "other", "error"}

ServerTypeOK ==
    /\ serverPc \in [Host -> ServerPc]
    /\ heartBeatPc \in [Host -> HeartBeatPc]
    /\ flag_switch_ \in [Host -> BOOLEAN]
    /\ stop_heart_beat_ \in [Host -> BOOLEAN]
    /\ abnormal_count_ \in [Host -> 0 .. MAX_COUNT + 1]
    /\ res1 \in [Host -> {0, -1}]
    /\ res2 \in [Host -> {0, -1}]
    /\ cwd \in [Host -> {"install", "proc"}]
    /\ told \in [Host -> BOOLEAN]
    /\ failures \in [Host -> 0 .. MAX_COUNT + 1]

\* A freshly constructed object on the hosts of S, which run Start; the other
\* hosts do not have the role.
ServerInit(S) ==
    /\ serverPc = [h \in Host |-> IF h \in S THEN "startHeartBeat" ELSE "idle"]
    /\ heartBeatPc = [h \in Host |-> "none"]
    /\ flag_switch_ = [h \in Host |-> FALSE]
    /\ stop_heart_beat_ = [h \in Host |-> FALSE]
    /\ abnormal_count_ = [h \in Host |-> 0]
    /\ res1 = [h \in Host |-> 0]
    /\ res2 = [h \in Host |-> 0]
    /\ cwd = [h \in Host |-> "install"]
    /\ told = [h \in Host |-> FALSE]
    /\ failures = [h \in Host |-> 0]

goto(h, from, to) ==
    /\ serverPc[h] = from
    /\ serverPc' = [serverPc EXCEPT ![h] = to]

beat(h, from, to) ==
    /\ heartBeatPc[h] = from
    /\ heartBeatPc' = [heartBeatPc EXCEPT ![h] = to]
    /\ UNCHANGED <<mainVars, flags>>

Failed(h) == res1[h] # 0 \/ res2[h] # 0

-----------------------------------------------------------------------------
(* Variants of the actions below, each with a plausible fault: what the    *)
(* properties would say of code that had it.                               *)

\* The counter is not cleared by a good check.
AllWellKeepsCount(h) ==
    /\ ~Failed(h)
    /\ goto(h, "evaluate", "sleep")
    /\ UNCHANGED <<abnormal_count_, res1, res2, cwd, failures, heartBeatVars,
                   flags>>

\* The limit is not looked at before a restart.
RestartServicesForEver(h) ==
    /\ Failed(h)
    /\ goto(h, "evaluate",
            IF res1[h] < 0 THEN "restartDatabase" ELSE "restartMonitor")
    /\ abnormal_count_' = [abnormal_count_ EXCEPT ![h] = @ + 1]
    /\ UNCHANGED <<res1, res2, cwd, failures, heartBeatVars, flags>>

\* A restart is taken for a recovery.
RestartServicesForgives(h) ==
    /\ Failed(h)
    /\ goto(h, "evaluate",
            IF res1[h] < 0 THEN "restartDatabase" ELSE "restartMonitor")
    /\ abnormal_count_' = [abnormal_count_ EXCEPT ![h] = 0]
    /\ UNCHANGED <<res1, res2, cwd, failures, heartBeatVars, flags>>

\* The "break" after flag_switch_ = true is missing.
RaiseSwitchGoesOn(h) ==
    /\ Failed(h)
    /\ abnormal_count_[h] + 1 > MAX_COUNT
    /\ goto(h, "evaluate", "checkDatabase")
    /\ flag_switch_' = [flag_switch_ EXCEPT ![h] = TRUE]
    /\ UNCHANGED <<abnormal_count_, res1, res2, cwd, failures, heartBeatVars,
                   stop_heart_beat_>>

\* The thread is told to stop and not joined.
StopHeartBeatNoJoin(h) ==
    /\ goto(h, "stopHeartBeat", "stopped")
    /\ stop_heart_beat_' = [stop_heart_beat_ EXCEPT ![h] = TRUE]
    /\ UNCHANGED <<abnormal_count_, res1, res2, cwd, failures, heartBeatVars,
                   flag_switch_>>

\* The join gives up after a time.
JoinGivesUp(h) ==
    /\ goto(h, "join", "stopped")
    /\ UNCHANGED <<abnormal_count_, res1, res2, cwd, failures, heartBeatVars,
                   flags>>

\* No SO_RCVTIMEO: recvfrom returns for a datagram only.
ReceiveBlocks(h, input) ==
    /\ input # "error"
    /\ beat(h, "recv",
            IF input = "client-heart-beat" THEN "testFlag" ELSE "loop")
    /\ UNCHANGED told

\* The "break" after SwitchIp is missing.
SwitchIpReturnsToLoop(h) ==
    /\ beat(h, "script", "loop")
    /\ UNCHANGED told

-----------------------------------------------------------------------------
(* The main thread *)

\* pthread_create either makes the thread or returns a positive error number;
\* the code takes only negative numbers for a failure (and would then retry).
StartHeartBeat(h, result) ==
    /\ goto(h, "startHeartBeat",
            IF result < 0 THEN "startHeartBeat" ELSE "checkDatabase")
    /\ stop_heart_beat_' = [stop_heart_beat_ EXCEPT ![h] = FALSE]
    /\ heartBeatPc' = [heartBeatPc EXCEPT
                         ![h] = IF result = 0 THEN "setup" ELSE "none"]
    /\ UNCHANGED <<flag_switch_, abnormal_count_, res1, res2, cwd, told, failures>>

CheckDatabaseStatus(h, result) ==
    /\ goto(h, "checkDatabase", "checkMonitor")
    /\ res1' = [res1 EXCEPT ![h] = result]
    /\ UNCHANGED <<abnormal_count_, res2, cwd, failures, heartBeatVars, flags>>

\* ProcIsExist remembers the working directory and descends into /proc ...
ScanProc(h) ==
    /\ goto(h, "checkMonitor", "scanProc")
    /\ cwd' = [cwd EXCEPT ![h] = "proc"]
    /\ UNCHANGED <<abnormal_count_, res1, res2, failures, heartBeatVars, flags>>

\* ... and changes back to it, whatever it found.
CheckMonitorStatus(h, result) ==
    /\ goto(h, "scanProc", "evaluate")
    /\ res2' = [res2 EXCEPT ![h] = result]
    /\ cwd' = [cwd EXCEPT ![h] = "install"]
    /\ failures' = [failures EXCEPT
                      ![h] = IF res1[h] = 0 /\ result = 0 THEN 0
                             ELSE IF @ > MAX_COUNT THEN @ ELSE @ + 1]
    /\ UNCHANGED <<abnormal_count_, res1, heartBeatVars, flags>>

AllWell(h) ==
    /\ ~Failed(h)
    /\ goto(h, "evaluate", "sleep")
    /\ abnormal_count_' = [abnormal_count_ EXCEPT ![h] = 0]
    /\ UNCHANGED <<res1, res2, cwd, failures, heartBeatVars, flags>>

RestartServices(h) ==
    /\ Failed(h)
    /\ abnormal_count_[h] + 1 <= MAX_COUNT
    /\ goto(h, "evaluate",
            IF res1[h] < 0 THEN "restartDatabase" ELSE "restartMonitor")
    /\ abnormal_count_' = [abnormal_count_ EXCEPT ![h] = @ + 1]
    /\ UNCHANGED <<res1, res2, cwd, failures, heartBeatVars, flags>>

\* The limit is passed: flag_switch_ goes up and the loop is left.
RaiseSwitch(h) ==
    /\ Failed(h)
    /\ abnormal_count_[h] + 1 > MAX_COUNT
    /\ goto(h, "evaluate", "stopHeartBeat")
    /\ abnormal_count_' = [abnormal_count_ EXCEPT ![h] = @ + 1]
    /\ flag_switch_' = [flag_switch_ EXCEPT ![h] = TRUE]
    /\ UNCHANGED <<res1, res2, cwd, failures, heartBeatVars,
                   stop_heart_beat_>>

\* "service mysqld start"; its result is only logged.
RestartDatabase(h) ==
    /\ goto(h, "restartDatabase",
            IF res2[h] < 0 THEN "restartMonitor" ELSE "sleep")
    /\ UNCHANGED <<abnormal_count_, res1, res2, cwd, failures, heartBeatVars,
                   flags>>

\* "service CEMS-SERVICE-MONITOR start"; its result is only logged.
RestartMonitor(h) ==
    /\ goto(h, "restartMonitor", "sleep")
    /\ UNCHANGED <<abnormal_count_, res1, res2, cwd, failures, heartBeatVars,
                   flags>>

Sleep(h) ==
    /\ goto(h, "sleep", "checkDatabase")
    /\ UNCHANGED <<abnormal_count_, res1, res2, cwd, failures, heartBeatVars,
                   flags>>

StopHeartBeat(h) ==
    /\ goto(h, "stopHeartBeat", "join")
    /\ stop_heart_beat_' = [stop_heart_beat_ EXCEPT ![h] = TRUE]
    /\ UNCHANGED <<abnormal_count_, res1, res2, cwd, failures, heartBeatVars,
                   flag_switch_>>

\* pthread_join returns when the thread has ended.
Join(h) ==
    /\ heartBeatPc[h] = "exited"
    /\ goto(h, "join", "stopped")
    /\ UNCHANGED <<abnormal_count_, res1, res2, cwd, failures, heartBeatVars,
                   flags>>

\* A join of the handle pthread_create never wrote is undefined: it finds a
\* stale thread and returns, or reads a wild pointer and the process dies.
JoinUndefined(h) ==
    /\ heartBeatPc[h] = "none"
    /\ \E outcome \in {"stopped", "crashed"} : goto(h, "join", outcome)
    /\ UNCHANGED <<abnormal_count_, res1, res2, cwd, failures, heartBeatVars,
                   flags>>

-----------------------------------------------------------------------------
(* The heart-beat thread *)

\* socket, SO_REUSEADDR, bind, SO_RCVTIMEO: the thread ends if one fails, and
\* nobody looks.
OpenSocket(h, ok) ==
    /\ beat(h, "setup", IF ok THEN "loop" ELSE "exited")
    /\ UNCHANGED told

TestStop(h) ==
    /\ beat(h, "loop", IF stop_heart_beat_[h] THEN "exited" ELSE "recv")
    /\ UNCHANGED told

Receive(h, input) ==
    /\ beat(h, "recv",
            IF input = "client-heart-beat" THEN "testFlag" ELSE "loop")
    /\ UNCHANGED told

TestFlag(h) ==
    /\ beat(h, "testFlag", IF flag_switch_[h] THEN "orderSwitch" ELSE "answer")
    /\ UNCHANGED told

\* A failed sendto is logged only.
SendHeartBeat(h) ==
    /\ beat(h, "answer", "loop")
    /\ UNCHANGED told

\* After a failed sendto of "switch-server" the loop is tried again.
SendSwitchServer(h, ok) ==
    /\ beat(h, "orderSwitch", IF ok THEN "switchIp" ELSE "loop")
    /\ told' = [told EXCEPT ![h] = @ \/ ok]

\* The script is looked for in the working directory; the shell popen starts
\* does not find it elsewhere.
SwitchIp(h) ==
    /\ beat(h, "switchIp", IF cwd[h] = "install" THEN "script" ELSE "exited")
    /\ UNCHANGED told

\* pclose waits for switch_ip.sh; failed or not, the loop is left.
SwitchIpReturns(h) ==
    /\ beat(h, "script", "exited")
    /\ UNCHANGED told

-----------------------------------------------------------------------------
(* The process: stop.sh and the loop of main *)

\* The members of the object, and the variables of Start, are as the
\* constructor leaves them: there is a new object, or none.
NewServer(h) ==
    /\ heartBeatPc' = [heartBeatPc EXCEPT ![h] = "none"]
    /\ flag_switch_' = [flag_switch_ EXCEPT ![h] = FALSE]
    /\ stop_heart_beat_' = [stop_heart_beat_ EXCEPT ![h] = FALSE]
    /\ abnormal_count_' = [abnormal_count_ EXCEPT ![h] = 0]
    /\ res1' = [res1 EXCEPT ![h] = 0]
    /\ res2' = [res2 EXCEPT ![h] = 0]
    /\ told' = [told EXCEPT ![h] = FALSE]
    /\ failures' = [failures EXCEPT ![h] = 0]

\* The process ends (kill -9, or the host does), and its threads with it; the
\* next one is started in the installation directory.
ServerCrash(h) ==
    /\ serverPc[h] \notin {"idle", "crashed"}
    /\ serverPc' = [serverPc EXCEPT ![h] = "crashed"]
    /\ cwd' = [cwd EXCEPT ![h] = "install"]
    /\ NewServer(h)

\* A new object, a new Start: of a new process, after a run of the other
\* role, or of this one when the local address is still the service address.
RunServer(h) ==
    /\ serverPc[h] \in {"idle", "stopped", "crashed"}
    /\ serverPc' = [serverPc EXCEPT ![h] = "startHeartBeat"]
    /\ NewServer(h)
    /\ UNCHANGED cwd

\* Start has returned and the local address is another one: the object is
\* destroyed and the role given up; or the process that had it is replaced by
\* one that starts with the other role.
LeaveServer(h) ==
    /\ serverPc[h] \in {"stopped", "crashed"}
    /\ serverPc' = [serverPc EXCEPT ![h] = "idle"]
    /\ NewServer(h)
    /\ UNCHANGED cwd

-----------------------------------------------------------------------------
(* The component closed under what its surroundings may answer *)

\* The steps of Start ...
ServerStart(h) ==
    \/ \E result \in CreateResults : StartHeartBeat(h, result)
    \/ \E result \in {0, -1} : CheckDatabaseStatus(h, result)
    \/ ScanProc(h)
    \/ \E result \in {0, -1} : CheckMonitorStatus(h, result)
    \/ AllWell(h)
    \/ RestartServices(h)
    \/ RaiseSwitch(h)
    \/ RestartDatabase(h)
    \/ RestartMonitor(h)
    \/ Sleep(h)
    \/ StopHeartBeat(h)
    \/ Join(h)
    \/ JoinUndefined(h)

\* ... and of main between two of its runs.
MainThread(h) ==
    \/ ServerStart(h)
    \/ serverPc[h] = "stopped" /\ (RunServer(h) \/ LeaveServer(h))

\* The steps the heart-beat thread takes by itself ...
HeartBeatThread(h) ==
    \/ \E ok \in BOOLEAN : OpenSocket(h, ok)
    \/ TestStop(h)
    \/ TestFlag(h)
    \/ SendHeartBeat(h)
    \/ \E ok \in BOOLEAN : SendSwitchServer(h, ok)
    \/ SwitchIp(h)
    \/ SwitchIpReturns(h)

\* ... and the return of recvfrom.
HeartBeatReceive(h) == \E input \in ServerInput : Receive(h, input)

\* What is done to the process from outside.
ServerProcess(h) ==
    \/ ServerCrash(h)
    \/ serverPc[h] \in {"idle", "crashed"} /\ RunServer(h)
    \/ serverPc[h] = "crashed" /\ LeaveServer(h)

ServerStep(h) ==
    \/ MainThread(h)
    \/ HeartBeatThread(h)
    \/ HeartBeatReceive(h)
    \/ ServerProcess(h)

ServerNext == \E h \in Host : ServerStep(h)

ServerSpec == ServerInit(Host) /\ [][ServerNext]_serverVars

-----------------------------------------------------------------------------
(* Properties *)

HeartBeatAlive(h) == heartBeatPc[h] \notin {"none", "exited"}

\* The standby is told to take over, and the address given up, only after
\* MAX_COUNT + 1 checks in a row found a failure: a good check in between, an
\* earlier Start, or the other thread's timing never brings it about
\* (Start, lines 59 to 85, against HeartBeat, lines 248 to 264).
OrderOnlyWhenFailing ==
    \A h \in Host :
        heartBeatPc[h] \in {"orderSwitch", "switchIp", "script"}
            => failures[h] = MAX_COUNT + 1

\* SwitchIp builds the path of the script from the working directory of the
\* process while the other thread may be walking through /proc: it never
\* does so when the directory is not the installation's.
ScriptFromInstallDir ==
    \A h \in Host : heartBeatPc[h] = "switchIp" => cwd[h] = "install"

\* Start never returns, and never begins, while a heart-beat thread lives:
\* two of them would read the same flags and bind the same port, and the
\* first would go on with the members of a destroyed object.
OneHeartBeat ==
    \A h \in Host :
        serverPc[h] \in {"idle", "startHeartBeat", "stopped", "crashed"}
            => ~HeartBeatAlive(h)

\* Start, line 50 ("start hear beat failed. Sleep 3s..."): it does not go on
\* to watch the services before the heart-beat thread has been created.
StartsHeartBeatFirst ==
    \A h \in Host :
        serverPc[h] \in {"checkDatabase", "checkMonitor", "scanProc", "evaluate",
                        "restartDatabase", "restartMonitor", "sleep"}
            => heartBeatPc[h] # "none"

\* Once it has sent "switch-server" the thread neither answers another
\* heart-beat nor sends the order again: it moves the address and ends.
OrderIsFinal ==
    \A h \in Host : told[h] => heartBeatPc[h] \in {"switchIp", "script", "exited"}

\* As long as the process lives, its heart-beat thread never sees a flag go
\* back down: neither the next StartHeartBeat nor the next object's constructor
\* takes back a decision, or an order to stop, that the thread has not acted on.
FlagsHold ==
    [][\A h \in Host :
           HeartBeatAlive(h) /\ serverPc'[h] # "crashed"
               => /\ flag_switch_[h] => flag_switch_'[h]
                  /\ stop_heart_beat_[h] => stop_heart_beat_'[h]
      ]_serverVars

\* StopHeartBeat returns although the thread may wait in recvfrom and no
\* standby is there to wake it up.
JoinReturns ==
    \A h \in Host :
        serverPc[h] = "join" ~> serverPc[h] \in {"stopped", "crashed"}

\* A database that stays down is never just restarted for ever: the server
\* decides to hand over again and again, as long as it has the role.
DecidesToHandOver ==
    \A h \in Host :
        <>[](res1[h] = -1)
            => []<>(flag_switch_[h] \/ serverPc[h] \in {"idle", "crashed"})

=============================================================================
