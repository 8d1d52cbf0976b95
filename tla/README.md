# Formal model of hot_backup

hot_backup keeps one service (a MySQL database and the "cems" processes) on
two machines of which one at a time is *the server*, recognised by one IP
address, the service address. This directory holds TLA+ models of the daemon
and of the scripts that move the address, the TLC configurations that check
them, and TLAPS proofs of what matters most in each component and in the
composed system.

Running it:

    tlc -workers 2 -config Daemon.cfg MCDaemon.tla      (any run of PROJECT.json)
    tlapm HotBackupProofs.tla                           (any of the *Proofs modules)

## 1. Inventory of the system

The daemon is one C++ program (`src/src`, about 1100 lines) built twice, with
the roles server and client. The two hosts form a ring of roles: the server
hands over and becomes the client of the host that took over, and so on.

| part | state | operations | correct when |
|---|---|---|---|
| **Server role** `hot_backup_server.cc`: two threads | `flag_switch_`, `stop_heart_beat_` (plain `volatile bool`s shared by the threads), `abnormal_count_`, results of the two checks, working directory of the process | `Start` (check database and monitor every 30 s, restart what fails, raise the flag at the 7th failure in a row), `StartHeartBeat`, `StopHeartBeat` (join), `HeartBeat` (answer datagrams; when the flag is up send "switch-server" and run `switch_ip.sh`), `SwitchIp` | the hand-over is ordered only for a run of failures, once, by one thread; the thread ends and is joined; the script is found |
| **Client role** `hot_backup_client.cc`: one thread | `timeout_count_`, `server_addr` (overwritten by every `recvfrom`) | `Start` (heart-beat every 5 s, 5 s receive timeout), `ParsePackage`, `ChangeServer` (runs `switch_server.sh`) | takes over for an order or 7 silent receives in a row, for nothing else, and always then |
| **Scripts** `switch_ip.sh`, `switch_server.sh` | address of `eth0`, `IPADDR` in `ifcfg-eth0`, shell variables, the services | scan for a free address and move to it; stop services, wait for the service address to fall silent, take it, or restore the old one | two hosts never answer at one address; a failed script leaves a bootable configuration; scripts end |
| **Roles** `main.cc` | `local_ip`, `flag` | alternate the roles: the address decides which object runs next | role and address agree |
| **Common functions** `common_function.cc` | working directory while `/proc` is walked | `GetCurrentIp`, `ProcIsExist`/`printdir` | the directory is restored; a running monitor is found |
| **start/stop/install scripts** | the process, the files | start, kill -9, copy | a host can be stopped at any time |
| log.h, Makefile, `log4cplus`, `libs` | | | outside the model |

**Interactions.** Within a process: the two threads of the server share two
flags and the working directory; `pthread_join` orders them. Between the hosts:
UDP datagrams on port 8101 ("client-heart-beat", "server-heart-beat",
"switch-server"), which may be lost; pings, which alone decide whether an
address is free. Between daemon and scripts: `popen`/`pclose`, the script's
result is logged and ignored; what it did to `eth0` is read back by `main`.

**Hard behaviours.** The interleaving of the two threads around the flags; a
hand-over in which the server's move and the standby's take-over run at the
same time and either may time out; the ping and the move as separate steps;
scripts that fail half-way; hosts and processes that go away at any step; a
lost order; limits of the three counters (6 checks, 6 receives, 3 pings) and
of the scan (2..255). PROJECT.json lists each hazard at its line, with the
properties that cover it.

Dead code, not modelled: `StartClient`, `StartServer` and what they call (their
calls are commented out), `GetServerIp`, `switch_ip.sh` with an argument.

## 2. The modules

    Segment                 addresses, hosts, assumptions on them
     +- HotBackupServer     server role, both threads              + HotBackupServerProofs
     +- HotBackupClient     client role                            + HotBackupClientProofs
     |   Daemon             main, both roles, start.sh, stop.sh    + DaemonProofs
     +- AddressLease        what the scripts promise (abstract)
     +- SwitchScripts       both scripts, eth0, ping               + SwitchScriptsProofs
     |                      implements AddressLease                + AddressLeaseProofs
         HotBackup          hosts, UDP, faults                     + HotBackupProofs
                            (EXTENDS Daemon and SwitchScripts)
    ProcScan                ProcIsExist, call by call              + ProcScanProofs
    TimedHandOver           one hand-over with its durations       + TimedHandOverProofs
    MC*                     instances for TLC

Each component module has one action per step of its code that another actor
can see or come in front of. What the code receives (results of calls,
datagrams) is a parameter of the action; the last section of the module closes
the component under *every* value of it (`ServerNext`, `ClientNext`,
`DaemonNext`, `ScriptNext`), which is what the component's runs and theorems quantify over.
`HotBackup` conjoins the *same* actions and takes the parameters from the
state of the hosts: a datagram from a buffer, a check's result from what runs,
`bind`'s result from the address of `eth0`.

Above the actions each module has a section of *variants*: actions with a
plausible fault (a missing reset, break, limit or join). No specification uses
them; substituted for the right action they violate the property named in
PROJECT.json, which shows that the run would notice.

**HotBackupServer.** `serverPc[h]` is the main thread's position in `Start`,
`heartBeatPc[h]` the other thread's in `HeartBeat`; the other variables carry
the names of the code, except `cwd`, and the history variables `failures`
(failed checks in a row) and `told` ("switch-server" has been sent).

| action | code |
|---|---|
| `StartHeartBeat` | l.161-171; positive error numbers are not noticed |
| `CheckDatabaseStatus`, `ScanProc`, `CheckMonitorStatus` | the two checks; `ProcIsExist` is two steps, between which the process is in /proc |
| `AllWell`, `RestartServices`, `RaiseSwitch` | the three branches of l.59-87 |
| `RestartDatabase`, `RestartMonitor`, `Sleep` | l.65-80 |
| `StopHeartBeat`, `Join`, `JoinUndefined` | l.173-186; joining a handle that was never written is undefined behaviour, with both outcomes |
| `OpenSocket` ... `SwitchIpReturns` | `HeartBeat`, one action per test of a shared flag and per blocking call |
| `ServerCrash`, `RunServer`, `LeaveServer` | the process ends; `main` constructs or destroys the object |

**HotBackupClient.** `OpenClient`, `SendClientHeartBeat`/`SendAgain`,
`RecvError`/`RecvPackage`, `ClientSleep`, `ChangeServer`/`ChangeServerReturns`
are the body of `Start`. `silence` is the history `timeout_count_` stands for.

**Daemon.** The process. `RunsAgain` is the loop of `main`: the address that
`GetCurrentIp` finds when a `Start` returns decides which object is made next.
`ProcessEnds` is `kill -9`, in whatever state the threads are; `StartMaster` and
`StartSlave` are what `start.sh` does after it. A role that is not run has the
program counter "idle", one whose process was killed "crashed".

**SwitchScripts.** One action per command of the scripts that changes the
network or asks it. `eth0[h]` is the address the host answers at (`NoAddress`
during the restart), `IPADDR[h]` the configured one. `Claims(h)` is every
address h answers at or comes back to without asking; `raced` becomes true when
an unanswered ping is taken for a free address that another host claims.

**AddressLease** is the abstract specification: an address is a lease, taken one
at a time from nobody who answers, given up at will, exclusive but for the
leases of a silent host. `SwitchScripts` implements it under the mapping
`held <- Claims`, `live <- eth0` (`ImplementsLeases`): the pings are `Lease`,
every other command, kill, boot and failure is `Keep` or a stutter.

**HotBackup.** `main_ip` is what `GetCurrentIp` last returned, `buffer[h]` the
receive buffer of the host's socket: a set, since equal datagrams have equal
effects, delivered in any order. Send and delivery are one step, because what
lies between them is the buffer's delay; a datagram to an address nobody is
bound to vanishes. A datagram is lost otherwise only with the fault "loss".
The constant `Faults` chooses, per run, what may go wrong:

| fault | meaning |
|---|---|
| database, cems | the service ends by itself on the serving host |
| loss | a datagram is lost, or `sendto` of the order fails |
| race | a ping falls into the seconds in which the other host moves to the address asked for |
| split | the hosts stop reaching each other, and reach each other again |
| netStart, fix | `service network start`, or a `sed` on the services' files, fails |
| repair | someone starts the network of a running host |
| crash, boot | a host goes down, at any step; it comes up (the daemon is not started at boot) |
| stop, start | stop.sh; start.sh, as README.txt has it run: the master with the service address, the slave while a server runs |

**ProcScan.** The stack holds the calls of `printdir` with the directory each
opened, what `readdir` has still to list and its `statbuf`; `cwd` is where
relative names lead. `Ends` takes a process or a thread away between any two
calls. Kernels differ in whether ".." can be followed out of the directory of a
process that has ended: `DotDotWorks` has both. What goes wrong by itself is
recorded in `astray`; the properties say that nothing else does. `HotBackup`
does not contain the walk: there it is the two steps `ScanProc` and
`CheckMonitorStatus` of the server, which `InOpenDirectory` and `FindsMonitor`
justify.

**TimedHandOver.** From the datagram "switch-server" on, each host is in one
phase until a time known when it begins; `Advance` moves `now` to the next end.
The steps are those of `HotBackup` between two pauses of the code.

## 3. Properties and runs

| run | asks |
|---|---|
| `daemon` | `OneRole`, `OrderOnlyWhenFailing`, `ScriptFromInstallDir`, `OneHeartBeat`, `OrderIsFinal`, `TakesOverForCause`, `FlagsHold`; live: `JoinReturns`, `DecidesToHandOver`, `SilenceLeadsToTakeOver` |
| `thread_start` | violated: `StartsHeartBeatFirst` |
| `scripts` | `UniqueUnlessRaced`, `BootsWithSameAddress`, the refinement `ImplementsLeases`; live: `ScriptsEnd` |
| `hand_over` | with service failures, loss and crashes: `OneServiceAddress`, `ReplacedServerMoves`, `AsksService`; live: `ServiceReturns`, `SurvivorServes` |
| `disturbed` | with races, splits, failing network starts and repairs: `RoleFitsAddress`, `OneServerUnlessRaced` |
| `crash` | with crashes, boots, stop.sh, start.sh, thread errors and failing seds: the same two and `ServerAnswers` |
| `replaced` | violated: `ReplacedServerMoves` |
| `loopback` | violated: `HeartBeatResumes` |
| `proc_scan` | `InOpenDirectory`, `FindsMonitor`; live: `EndsOrSpins` |
| `scan_hangs` | violated: `ScanReturns` |
| `timed` | `OneServiceAddress`, `OrderIsEnough`, `OutageBounded`; live: `Settles` |
| `timed_double` | violated: `OneServiceAddress` |

The type invariants are checked along with them, and bound the counters by
the code's limits. The deadlock check is off where the system may stop: with
crashes or `stop.sh`, when both daemons have been ended and nothing restarts
them, and in `ProcScan` and `TimedHandOver`, which end with the walk and with
the hand-over.

What the runs show, in short. *Inside the process* the two flags are enough:
the hand-over is ordered for seven failures in a row and for nothing else, no
thread outlives its object, and the working directory the script is looked for
in is right although another function changes it, because the flag is raised
only by a main thread that will not check again. *Between the hosts* the pings
give at most one server as long as none of them falls into the gap of a host
that is on its way back to the address; `UniqueUnlessRaced` says precisely
this. The planned hand-over, with any losses, keeps the service address on one
host and never without one for good. *When a host is lost* the other one ends
up serving, wherever both were. Roles follow addresses under all the faults
listed.

`raced` is not an assumption that hides the bad case: the runs `scripts`,
`disturbed` and `crash` contain the raced behaviours, and the property says
that they are the only ones that double the address. In `hand_over` the ping
gap is closed (no "race"), and there the property is unconditional. How long
the gap is compared with the patience of the other side is a question of time,
which `timed` asks for the planned hand-over: a scan of less than 24 s, or of 60
or 90, passes the address on safely; one in between does not
(`timed_double`; section 6 has the ranges). The walk through /proc finds a monitor that keeps running,
whatever stale stat buffers and vanishing processes it meets, unless a `chdir`
fails, or the read of a command line, which hangs it.

### Violations

* `thread_start`: `pthread_create` reports failure by a positive number; l.165
  tests for a negative one. The message and retry of l.50 are never reached,
  the server watches its services and answers nobody, and the later join
  reads a handle that was never written.
* `replaced`: README.txt l.6 says a replaced server's address is changed to an
  unused one. Only the live heart-beat thread does so. A server that was
  replaced because its host went down is still configured with the service
  address and boots with it, next to its successor.
* `loopback`: after a failed `service network start` `main` reads 127.0.0.1
  and makes a client bound to it. Its sends fail; a failed send is retried on
  the same socket for ever and counts for nothing, so the client neither beats
  nor takes over, also when the network has been started by hand.
* `scan_hangs`: `GrepFile` reads "while(!feof(fp))" and ignores what `fgets`
  returns. A process reaped between `fopen` and the read makes every read fail
  (ESRCH) without an end of file: the main thread never comes back to its 30 s
  checks (README.txt l.4), while the heart-beat thread goes on answering.
* `timed_double`: a scan of 24 to 50 s (as many machines in a row, less three)
  outlasts the standby's three pings. Both hosts are then clients of nobody,
  count seven timeouts each, find the address silent at the same time and take
  it (README.txt l.6 gives it to the standby alone). With 60 s and more the
  standby is first by enough; the run has 30 s.

## 4. Bounds, and why they are enough

| constant | code | runs | why |
|---|---|---|---|
| `MAX_COUNT` | 6 | 6 in `daemon`; 1 in `HotBackup` | the process is checked with the code's value and proved for all; in the composition 1 gives the restart, the hand-over and the reset |
| `TIMEOUT_MAX` | 6 | 6 in `daemon` and `timed`; 1 in `HotBackup` | likewise |
| `PING_MAX` | 3 | 3; 2 in `hand_over` and `loopback`, which check liveness | with 2 a ping is answered and retried, then given up |
| `LAST` | 254 | 2 to 4 | service address, the two homes, a free one (in `hand_over` a host finds the other's address in use before it; in `scripts` another machine's is passed over, and the scan is exhausted) |
| `Host` | 2 | 1 for the process, 2 for scripts and composition | a process's state is the host's own; the theorems hold for any number |
| `CreateResults` | 0, errno | {0} or {0, 11} | only the sign and zero are looked at |
| `Task` | any | two processes of two threads | the monitor and another; a thread with a command line of its own at each depth of the walk; the theorem holds for any number |
| `ScanTimes` | 1 to 3 s for each of 253 addresses | 3 to 23, 60, 90; 30 | each second on one side of the limit, two values beyond it, one in between |
| `StopTimes`, `MoveTimes`, `StartTimes` | | {2, 5, 9}, {5, 8}, {3, 20} s | the commands' durations are not in the code; "sleep 3" is part of a move. The theorem names the relations they have to keep |

All data that could grow is finite by itself: the history counters saturate at
limit + 1, buffers are sets of at most three kinds of datagrams by sender, and
the recursion of `printdir` is as deep as /proc. `TimedHandOver` ends, and with
it the clock. There is no state constraint and no symmetry. The number of
hand-overs, crashes, boots, starts and splits in a behaviour is not bounded.

## 5. Fairness

* Each thread is scheduled (weak fairness of its actions, as one action per
  thread: it has one program counter).
* Calls end: `sleep`, `popen`/`pclose` of commands that end. `recvfrom` ends
  because both sockets have SO_RCVTIMEO (120 s and 5 s); `ReceiveBlocks`, the
  variant without it, violates `JoinReturns`. That the check of the monitor
  ends is part of this in `Daemon` and `HotBackup`, and is what `scan_hangs`
  refutes for the one case named there.
* `FairDaemonSpec` has strong fairness of a successful `bind` and `sendto` of
  the client: it is otherwise allowed to fail in them for ever, which in the
  code only happens in the situation of `loopback`. `HotBackup` does not assume
  it; there the outcome follows from the addresses.
* `FairScanSpec`: the walk goes on as long as it has a step; in "read" and
  "eof" it has none that changes anything once the process has been reaped.
* `FairTimedSpec`: time passes and phases end when it has come.
* Nothing is assumed of the faults, of delivery, or of the network: a fault may
  happen for ever or never. That a segment heals, a host boots or a service
  recovers is never needed.

## 6. Proofs

All theorems are for any set of hosts, any limits (`MaxCountAssumption`,
`TimeoutMaxAssumption`: naturals; `PingMaxAssumption`: positive), any segment
(`LAST >= 2`), any processes and threads, and for every environment: the
components' specifications are closed under all results of all calls, kills at
any step included. TLC evaluates the assumptions on every run. A theorem that needs
more, of the faults or of the durations, says so in its statement.

**HotBackupServerProofs.** `ServerInv` strengthens the properties by
`FlagEndsLoop` (the flag is up only when the main thread has left the checking
loop, with the failures that made it), `ActsOnFlag` (the other thread orders
and switches only while it is up), `CwdInScan`, `StartsWithoutThread` and
`CountsFailures` (the counter is the history of the checks). The properties
are not inductive: that `SwitchIp` sees the installation directory depends on
the other thread being past its last scan, which the flag witnesses.

**HotBackupClientProofs.** `ClientInv`: the counter equals the silence, and is
within its limit except on the way to the script.

**DaemonProofs.** `DaemonInv` is the two invariants and `OneRole`. Each step of
the process is a step of one role while the other is idle, so that the roles'
theorems carry over to the process that runs them in turn and is killed and
started at will (`ProcessKeepsRoles`, `ProcessHoldsFlags`, `ProcessHasOneRole`).

**SwitchScriptsProofs.** `ScriptInv`: the claims of different hosts are
disjoint unless raced (`DisjointClaims`). Uniqueness of live addresses is not
inductive, because a host that is silent in its restart comes back without
asking; claims contain that future address. `ClaimsDoNotGrow`: no step but
the two pings gives a host a new claim, crash, boot, kill and failed take-over
included; `PingClaims`: a ping adds the address that did not answer, and
`raced` compares it with everybody's claims.

**AddressLeaseProofs.** `ScriptsImplementLeases`: the initial state maps to an
initial one; a ping that finds an address free maps to `Lease`, whose guards are
what `ScriptInv` says of a host about to take one; every other step maps to
`Keep`, because claims do not grow, or to `SegmentChanges`. What the abstract
specification is worth is `LeasesAreExclusive`, proved from its own steps without
those of the scripts: until a lease is taken that was held silently, each
address has one holder and nobody else answers at it.

**HotBackupProofs.** Every step of the composition is a step of the processes
and one of the scripts, or leaves them alone: `ImplementsDaemon`,
`ImplementsScripts`. With it the components' invariants hold of the composition
under every fault, and give `HotBackupTypeOK` and `OneServerUnlessRaced` (a host
that serves claims the service address). `ServersAnswer` adds `RoleInv`: a
script runs only for the thread that waits for it, and a server's address moves
only under a thread that has left its loop.

`RolesFitAddresses` and `ClientsAskService` need `StandbyInv`, and no assumption
on the faults: a waiting client's host has another address, its buffer holds
datagrams of the service address only, and these depend on each other and on
where each script starts and leads (`ScriptsLeave`). The hard fault is a network
that did not start and is started by hand later, under a daemon that goes on.
`ProcessElsewhere` says why it brings up the right address: such a daemon is one
whose script has failed on its way to another address than the service address;
one that was killed half-way with its script is gone, and `start.sh` gives a
daemon only to a host that has an address.

`ServiceAddressIsUnique` is README.txt l.6 without "unless raced". Its invariant
`SoleClaims` speaks of the service address only and leaves out a host that is
silent for good, which `Claims` has to count: no ping takes the service address
while another host answers at it or is about to. `SilentElsewhere` adds that no
silent host that runs is configured with it, and gives `ReplacedServersMove`.
Each assumption on `Faults` is needed; with any of these faults TLC finds a
counterexample:

| theorem | excluded | why |
|---|---|---|
| `ServiceAddressIsUnique`, `ReplacedServersMove` | "race" | a ping falls into the gap in which another host restarts its network |
| the same | "split" | each side finds the address silent |
| the same | "boot" | a host that crashed as the server boots with the address (run `replaced`) |
| `ServiceAddressIsUnique` | "stop" with "repair" | a script killed between its two network commands leaves a host configured with the address; someone starts its network |
| `ReplacedServersMove` | "stop" | the same host, before that |

**TimedHandOverProofs.** Two relations between the durations matter. `FastScan`:
the scan ends before the standby's last ping begins, stop + 22 s with the code's
three pings and sleeps, where stop is the time its services take to stop.
`Patience`: what is left of a take-over is shorter than the seven timeouts of a
client (65 s). The second alone gives `OrderSuffices`, for scans of any length; both
give that the order is never given up (`HandOverIsNotRefused`).

A scan that outlasts the pings makes both hosts clients of nobody, and it
depends on when it ends who is first. `TimelyScan` says that it does not end just
after a take-over has been given up: `Begins` collects the times at which the
standby may begin to ping, one patience after the other as long as the scan goes
on, and `Patient` compares each with the time the other host would come. Under
it the address is never doubled (`HandOverKeepsOneAddress`) and the outage is
bounded (`HandOverOutage`). The invariant, `TimedInv`, has no assumption at all:
it says when each host can be in each phase, counted from the server's leaving
and from the latest of those times, for every set that `Begins` and `Patient`
allow. `FastIsTimely` and `CodeIsTimely` show what the assumption comes to:
with the constants of the code, stops of 2 to 9 s and moves of 5 to 8 s it holds
of scans of up to 23 s and of 56 to 123 s. In between lies `timed_double`; after
123 s a third take-over begins, and the same question.

**ProcScanProofs.** `Nested`: unless a `chdir` has failed, the directories of the
calls of `printdir` are each the parent of the next, at any depth. That ".."
leads back is what `InOpenDirectory` needs and does not say. `MonitorIsFound`
adds `SearchInv`: until the result is "found", a monitor that runs is still ahead of
the walk (`Ahead`), in what is left of the listing of /proc, or its command line
in what is left of its own directory. It rests on `Nested`: a relative name that
is looked up elsewhere would be a miss. Processes and threads end at any step;
the stat buffer that is used again after a failed `lstat` stands for one of
those, never for a monitor that runs.

**Only model-checked.** Every liveness property: the prover has no ENABLED, which
fairness needs (`JoinReturns`, `DecidesToHandOver`, `SilenceLeadsToTakeOver`,
`ScriptsEnd`, `ServiceReturns`, `SurvivorServes`, `EndsOrSpins`, `Settles`). The
five violations, which are counterexamples. That the excluded faults are
necessary (above): TLC's counterexamples with those faults added to the runs'.
Every invariant and action property that a passing run checks is also a theorem.

## 7. What is left out

* *Time*, but for `TimedHandOver`. In `HotBackup` timeouts may happen whenever
  the buffer is empty, so that a slow and a dead server are alike to the client.
  This includes every real timing, and some that the durations (5 s, 30 s,
  120 s, 3 pings a few seconds apart) exclude. `TimedHandOver` begins with an
  order that has been received, and has no faults.
* *The platform's own duplicate detection.* `service network start` on Red
  Hat systems may probe for the address before it takes it and then fail. The
  scripts do not rely on it and the model does not have it, except as the fault
  "netStart"; with it some raced behaviours end in `Recover` instead.
* *Starts that README.txt does not describe*: a master started on a host that
  was replaced (it serves the host's other address), a slave started with its
  own address. `Daemon` has them as far as the process is concerned.
* *Descriptors* inherited through `popen`; datagrams from other senders in the
  composition (the process of `Daemon` receives them all); equal copies of a
  datagram; entries of /proc/<process> other than "task" and "cmdline".
* *Copying and deleting* the installed files.
* Logging, formatting of datagrams, `Makefile`.

### Not modelled: the vendored library

Of the repository's 13 800 lines of C, C++ and shell some 12 500 are the headers of
log4cplus, a logging library (`src/src/log4cplus/include`). They declare what
the binary `liblog4cplus.a` implements; the implementation is not in the
repository, and the program calls it for its log file only, with no result it
looks at. A model of it would describe declarations, not behaviour. The modules'
definitions stand for some 900 lines of the program's own code and scripts; the
rest of those are second copies of the scripts, logging, dead code and
formatting.

## 8. Plan

Everything that the first plan named has been built. What could follow:

1. `TimedHandOver` with a lost order and with a host that goes down.
2. `ServiceAddressIsUnique` with boots of hosts that were not the server when
   they crashed, the part of "boot" that does no harm.
3. What the fairness of the roles' threads rests on: that a thread is stuck only
   where `loopback` and `scan_hangs` say so.
4. Scans beyond 123 s: the safe ranges repeat, but drift with the times the
   services take to stop.
