----------------------------- MODULE SwitchScripts -----------------------------
(***************************************************************************)
(* The two scripts that move addresses, on every host, and the segment     *)
(* they do it on: switch_ip.sh (auto_switch_ip) gives the service address  *)
(* up for the first address nobody answers at, switch_server.sh takes it   *)
(* over when nobody answers there.                                         *)
(*                                                                         *)
(* "ping" is all that arbitrates between hosts.  It is one step; the       *)
(* network restart that follows is others, and meanwhile the host answers  *)
(* at no address.  Nothing is assumed of the platform beyond what the      *)
(* scripts use: "service network start" brings eth0 up with the configured *)
(* address, or fails.                                                      *)
(***************************************************************************)
EXTENDS Segment

CONSTANTS
    PING_MAX,       \* answered pings before the take-over is given up (3)
    CemsStarts,     \* what "service CEMS_AUTO_START start" may bring up
    ServiceStates   \* what may run after services ended, or were started,
                    \* without the scripts

ASSUME PingMaxAssumption == PING_MAX \in Nat \ {0}

Service == {"database", "cems"}

ASSUME CemsStartsAssumption == CemsStarts \subseteq SUBSET Service
ASSUME ServiceStatesAssumption == ServiceStates \subseteq SUBSET Service

VARIABLES
    scriptPc,   \* where the script of the host is
    eth0,       \* the address the host answers at
    IPADDR,     \* the address in ifcfg-eth0
    local_ip,   \* the address before, as the script has read it
    tmp,        \* switch_ip.sh: last number of the address tried
    pings,      \* switch_server.sh: i, the answered pings
    services,   \* what runs: the database, and cems with its monitor
    linked,     \* the hosts reach each other
    raced       \* history: a ping missed an address another host came back to

shellVars == <<local_ip, tmp, pings>>
scriptVars == <<scriptPc, eth0, IPADDR, shellVars, services, linked, raced>>

ScriptPc == {"idle", "scan", "autoNetStop", "autoNetStart", "stopServices",
             "ping", "netStop", "netStart", "recover", "fixServices",
             "startCems", "done"}

ScriptTypeOK ==
    /\ scriptPc \in [Host -> ScriptPc]
    /\ eth0 \in [Host -> Configured]
    /\ IPADDR \in [Host -> Configured]
    /\ local_ip \in [Host -> Configured]
    /\ tmp \in [Host -> 2 .. LAST + 1]
    /\ pings \in [Host -> 0 .. PING_MAX]
    /\ services \in [Host -> SUBSET Service]
    /\ linked \in BOOLEAN
    /\ raced \in BOOLEAN

\* Every host is up with the static address home gives it.
ScriptInit(home) ==
    /\ scriptPc = [h \in Host |-> "idle"]
    /\ eth0 = home
    /\ IPADDR = home
    /\ local_ip = [h \in Host |-> NoAddress]
    /\ tmp = [h \in Host |-> 2]
    /\ pings = [h \in Host |-> 0]
    /\ services = [h \in Host |-> Service]
    /\ linked = TRUE
    /\ raced = FALSE

\* The variables of the shell do not outlive it.
ShellEnds(h) ==
    /\ local_ip' = [local_ip EXCEPT ![h] = NoAddress]
    /\ tmp' = [tmp EXCEPT ![h] = 2]
    /\ pings' = [pings EXCEPT ![h] = 0]

run(h, from, to) ==
    /\ scriptPc[h] = from
    /\ scriptPc' = [scriptPc EXCEPT ![h] = to]

\* A ping of address a from h is answered.
Answered(h, a) ==
    /\ eth0[h] # NoAddress
    /\ \/ a \in OtherMachines
       \/ eth0[h] = a
       \/ linked /\ \E g \in Host : eth0[g] = a

\* The addresses h answers at, or will, without asking again.
Claims(h) ==
    ({eth0[h], IPADDR[h]}
        \cup (IF scriptPc[h] = "autoNetStop" THEN {tmp[h]} ELSE {})
        \cup (IF scriptPc[h] = "netStop" THEN {ServiceIp} ELSE {})
        \cup (IF scriptPc[h] \in {"netStart", "recover"} THEN {local_ip[h]} ELSE {}))
    \ {NoAddress}

\* h takes an unanswered ping for a free address.
TakesForFree(h, a) ==
    /\ ~Answered(h, a)
    /\ raced' = (raced \/ \E g \in Host \ {h} : a \in Claims(g))

-----------------------------------------------------------------------------
(* Variants of the actions below, each with a plausible fault. *)

\* "let i++" is missing.
PingAnsweredUncounted(h) ==
    /\ Answered(h, ServiceIp)
    /\ run(h, "ping", IF pings[h] + 1 = PING_MAX THEN "done" ELSE "ping")
    /\ UNCHANGED <<eth0, IPADDR, shellVars, services, linked, raced>>

\* i is never compared with its limit.
PingAnsweredForEver(h) ==
    /\ Answered(h, ServiceIp)
    /\ run(h, "ping", "ping")
    /\ pings' = [pings EXCEPT ![h] = @ + 1]
    /\ UNCHANGED <<eth0, IPADDR, local_ip, tmp, services, linked, raced>>

\* The "exit 1" after the last answer is missing.
PingAnsweredGoesOn(h) ==
    /\ Answered(h, ServiceIp)
    /\ run(h, "ping", IF pings[h] + 1 = PING_MAX THEN "netStop" ELSE "ping")
    /\ pings' = [pings EXCEPT ![h] = @ + 1]
    /\ UNCHANGED <<eth0, IPADDR, local_ip, tmp, services, linked, raced>>

\* The move is made for this boot only: the old address is written back.
AutoNetStartRestores(h, ok) ==
    /\ run(h, "autoNetStart", "done")
    /\ eth0' = [eth0 EXCEPT ![h] = IF ok THEN IPADDR[h] ELSE NoAddress]
    /\ IPADDR' = [IPADDR EXCEPT ![h] = local_ip[h]]
    /\ UNCHANGED <<shellVars, services, linked, raced>>

\* The network is restarted before the old address is written back.
RecoverRestartsFirst(h, ok) ==
    /\ run(h, "recover", "done")
    /\ IPADDR' = [IPADDR EXCEPT ![h] = local_ip[h]]
    /\ eth0' = [eth0 EXCEPT ![h] = IF ok THEN IPADDR[h] ELSE NoAddress]
    /\ UNCHANGED <<shellVars, services, linked, raced>>

-----------------------------------------------------------------------------
(* switch_ip.sh, run without an argument *)

\* The address is read from ifconfig, or from the GATEWAY line: only its first
\* three numbers are used, which are the same.
auto_switch_ip(h, gateway) ==
    /\ run(h, "idle",
           IF eth0[h] # NoAddress \/ gateway THEN "scan" ELSE "done")
    /\ local_ip' = [local_ip EXCEPT ![h] = eth0[h]]
    /\ UNCHANGED <<eth0, IPADDR, tmp, pings, services, linked, raced>>

\* {2..255}: an address that answers is passed over ...
ScanAnswered(h) ==
    /\ run(h, "scan", "scan")
    /\ tmp[h] <= LAST
    /\ Answered(h, tmp[h])
    /\ tmp' = [tmp EXCEPT ![h] = @ + 1]
    /\ UNCHANGED <<eth0, IPADDR, local_ip, pings, services, linked, raced>>

\* ... the first that does not is taken ...
ScanFree(h) ==
    /\ run(h, "scan", "autoNetStop")
    /\ tmp[h] <= LAST
    /\ TakesForFree(h, tmp[h])
    /\ UNCHANGED <<eth0, IPADDR, shellVars, services, linked>>

\* ... and 255, the broadcast address, never answers: exit 1.
ScanExhausted(h) ==
    /\ run(h, "scan", "done")
    /\ tmp[h] = LAST + 1
    /\ UNCHANGED <<eth0, IPADDR, shellVars, services, linked, raced>>

\* sed; service network stop
AutoNetStop(h) ==
    /\ run(h, "autoNetStop", "autoNetStart")
    /\ IPADDR' = [IPADDR EXCEPT ![h] = tmp[h]]
    /\ eth0' = [eth0 EXCEPT ![h] = NoAddress]
    /\ UNCHANGED <<shellVars, services, linked, raced>>

AutoNetStart(h, ok) ==
    /\ run(h, "autoNetStart", "done")
    /\ eth0' = [eth0 EXCEPT ![h] = IF ok THEN IPADDR[h] ELSE NoAddress]
    /\ UNCHANGED <<IPADDR, shellVars, services, linked, raced>>

-----------------------------------------------------------------------------
(* switch_server.sh server_ip *)

\* cems and the database are stopped before anything is asked.
stop_mysql(h) ==
    /\ run(h, "stopServices", "ping")
    /\ services' = [services EXCEPT ![h] = {}]
    /\ UNCHANGED <<eth0, IPADDR, shellVars, linked, raced>>

\* While server_ip answers the script sleeps and asks again; the PING_MAXth
\* answer ends it with exit 1.
PingAnswered(h) ==
    /\ Answered(h, ServiceIp)
    /\ run(h, "ping", IF pings[h] + 1 = PING_MAX THEN "done" ELSE "ping")
    /\ pings' = [pings EXCEPT ![h] = @ + 1]
    /\ UNCHANGED <<eth0, IPADDR, local_ip, tmp, services, linked, raced>>

PingFree(h) ==
    /\ run(h, "ping", "netStop")
    /\ TakesForFree(h, ServiceIp)
    /\ UNCHANGED <<eth0, IPADDR, shellVars, services, linked>>

\* ifconfig; sed; service network stop
NetStop(h) ==
    /\ run(h, "netStop", "netStart")
    /\ local_ip' = [local_ip EXCEPT ![h] = eth0[h]]
    /\ IPADDR' = [IPADDR EXCEPT ![h] = ServiceIp]
    /\ eth0' = [eth0 EXCEPT ![h] = NoAddress]
    /\ UNCHANGED <<tmp, pings, services, linked, raced>>

NetStart(h, ok) ==
    /\ run(h, "netStart", IF ok THEN "fixServices" ELSE "recover")
    /\ eth0' = [eth0 EXCEPT ![h] = IF ok THEN IPADDR[h] ELSE NoAddress]
    /\ UNCHANGED <<IPADDR, shellVars, services, linked, raced>>

\* "recovery": the old address is configured again, and whether the restart
\* brings it up or not, exit 1.
Recover(h, ok) ==
    /\ run(h, "recover", "done")
    /\ IPADDR' = [IPADDR EXCEPT ![h] = local_ip[h]]
    /\ eth0' = [eth0 EXCEPT ![h] = IF ok THEN local_ip[h] ELSE NoAddress]
    /\ UNCHANGED <<shellVars, services, linked, raced>>

\* The address is written into the services' files; a failed check_result is
\* exit 1, with the address moved and the services stopped.
fix_services_ip(h, ok) ==
    /\ run(h, "fixServices", IF ok THEN "startCems" ELSE "done")
    /\ UNCHANGED <<eth0, IPADDR, shellVars, services, linked, raced>>

\* The database is started with cems or it is not: the script does not say.
StartCems(h, started) ==
    /\ run(h, "startCems", "done")
    /\ services' = [services EXCEPT ![h] = @ \cup started]
    /\ UNCHANGED <<eth0, IPADDR, shellVars, linked, raced>>

-----------------------------------------------------------------------------
(* What runs the scripts, and what happens to them *)

\* popen ...
StartSwitchServer(h) ==
    /\ run(h, "idle", "stopServices")
    /\ UNCHANGED <<eth0, IPADDR, shellVars, services, linked, raced>>

\* ... and pclose.
ScriptReturns(h) ==
    /\ run(h, "done", "idle")
    /\ ShellEnds(h)
    /\ UNCHANGED <<eth0, IPADDR, services, linked, raced>>

\* stop.sh and start.sh kill the script with the daemon: the path it was
\* started by contains the name they look for.
KillScript(h) ==
    /\ scriptPc' = [scriptPc EXCEPT ![h] = "idle"]
    /\ ShellEnds(h)
    /\ UNCHANGED <<eth0, IPADDR, services, linked, raced>>

HostDown(h) ==
    /\ scriptPc' = [scriptPc EXCEPT ![h] = "idle"]
    /\ eth0' = [eth0 EXCEPT ![h] = NoAddress]
    /\ services' = [services EXCEPT ![h] = {}]
    /\ ShellEnds(h)
    /\ UNCHANGED <<IPADDR, linked, raced>>

\* The host boots: nothing is asked.
HostUp(h) ==
    /\ scriptPc[h] = "idle"
    /\ eth0[h] = NoAddress
    /\ eth0' = [eth0 EXCEPT ![h] = IPADDR[h]]
    /\ services' = [services EXCEPT ![h] = Service]
    /\ UNCHANGED <<scriptPc, IPADDR, shellVars, linked, raced>>

\* Someone starts the network of a host that runs.
NetworkStarted(h) ==
    /\ scriptPc[h] = "idle"
    /\ eth0[h] = NoAddress
    /\ eth0' = [eth0 EXCEPT ![h] = IPADDR[h]]
    /\ UNCHANGED <<scriptPc, IPADDR, shellVars, services, linked, raced>>

\* Services end by themselves, or are started otherwise than by the scripts.
ServicesChange(h, running) ==
    /\ services' = [services EXCEPT ![h] = running]
    /\ UNCHANGED <<scriptPc, eth0, IPADDR, shellVars, linked, raced>>

\* The segment comes apart, or together again.
LinkChanges ==
    /\ linked' = ~linked
    /\ UNCHANGED <<scriptPc, eth0, IPADDR, shellVars, services, raced>>

-----------------------------------------------------------------------------
(* The component closed under what its surroundings may do *)

ScriptStep(h) ==
    \/ ScanAnswered(h) \/ ScanFree(h) \/ ScanExhausted(h)
    \/ AutoNetStop(h)
    \/ stop_mysql(h)
    \/ PingAnswered(h) \/ PingFree(h)
    \/ NetStop(h)
    \/ \E ok \in BOOLEAN :
           \/ AutoNetStart(h, ok)
           \/ NetStart(h, ok)
           \/ Recover(h, ok)
           \/ fix_services_ip(h, ok)
    \/ \E started \in CemsStarts : StartCems(h, started)
    \/ ScriptReturns(h)

ScriptEnvironment(h) ==
    \/ \E gateway \in BOOLEAN : auto_switch_ip(h, gateway)
    \/ StartSwitchServer(h)
    \/ KillScript(h)
    \/ HostDown(h)
    \/ HostUp(h)
    \/ NetworkStarted(h)
    \/ \E running \in ServiceStates : ServicesChange(h, running)

ScriptNext ==
    \/ \E h \in Host : ScriptStep(h) \/ ScriptEnvironment(h)
    \/ LinkChanges

\* The hosts have addresses of their own, as the installation demands.
Distinct(home) ==
    \A g, h \in Host : g # h => home[g] # home[h]

HomeAddresses == {home \in [Host -> Address \ OtherMachines] : Distinct(home)}

ScriptSpec ==
    /\ \E home \in HomeAddresses : ScriptInit(home)
    /\ [][ScriptNext]_scriptVars

\* Every command of a script ends.
ScriptFairness == \A h \in Host : WF_scriptVars(ScriptStep(h))

FairScriptSpec == ScriptSpec /\ ScriptFairness

-----------------------------------------------------------------------------
(* Properties *)

\* Two hosts answer at one address only after one of them took an unanswered
\* ping for a free address while the other had left it silently and was to
\* come back (the segment was split, or the other was between its own ping
\* and its network start, or down): neither the failed take-over, which
\* restores the old address unasked, nor a boot takes an address from another.
UniqueUnlessRaced ==
    ~raced => \A g, h \in Host :
                  g # h /\ eth0[g] # NoAddress => eth0[g] # eth0[h]

\* A host that answers at an address would boot with the same one: no failure,
\* at any point of a script, leaves the live address and the configured one
\* apart (a host that is down may well come up with the address of a take-over
\* that was killed half-way).
BootsWithSameAddress ==
    \A h \in Host : eth0[h] \in {IPADDR[h], NoAddress}

\* The two scripts, with everything that happens to them, hand addresses out as
\* leases: no command but the two pings gives a host an address it may answer
\* at, and it takes one more at a time only, whatever state an earlier script
\* was killed in.
Leases == INSTANCE AddressLease WITH
              held <- [h \in Host |-> Claims(h)],
              live <- eth0

ImplementsLeases == Leases!LeaseSpec

\* Both scripts end, whoever answers: a service address that stays in use, or
\* a segment with no free address, does not keep the daemon waiting.
ScriptsEnd == \A h \in Host : scriptPc[h] # "idle" ~> scriptPc[h] = "idle"

=============================================================================
