----------------------------- MODULE TimedHandOver -----------------------------
(***************************************************************************)
(* One planned hand-over with the durations of the code, from the moment   *)
(* the server has sent "switch-server" and the standby has received it:    *)
(* the server runs switch_ip.sh, the standby switch_server.sh, and each is *)
(* a client afterwards unless it has the service address.  HotBackup has   *)
(* the same steps, with all faults and without durations.                  *)
(*                                                                         *)
(* A host is in one phase until a time it knows when the phase begins; time *)
(* passes when no phase ends now.  Seconds.                                *)
(***************************************************************************)
EXTENDS Integers

CONSTANTS
    Old, New,       \* the server that gives up, and its standby
    ScanTimes,      \* switch_ip.sh until an address has not answered
    StopTimes,      \* switch_server.sh until the services have been stopped
    MoveTimes,      \* service network stop; sleep 3; service network start
    StartTimes,     \* switch_server.sh after that
    PING_GAP,       \* "ping -c2": between the two requests (1)
    PING_WAIT,      \* from the second to the end of a ping without answer
    PING_SLEEP,     \* sleep after an answered ping (10)
    PING_MAX,       \* answered pings before the take-over is given up (3)
    CHECK_TIME,     \* of the client: receive timeout, and sleep (5)
    TIMEOUT_MAX     \* failed receives the client puts up with (6)

ASSUME HostsAssumption == Old # New
ASSUME TimesAssumption ==
    /\ {ScanTimes, StopTimes, MoveTimes, StartTimes} \subseteq SUBSET Nat
    /\ {PING_GAP, PING_WAIT, PING_SLEEP, CHECK_TIME, TIMEOUT_MAX} \subseteq Nat
    /\ PING_MAX \in Nat \ {0}

Host == {Old, New}

VARIABLES
    now,
    phase,      \* what the host is doing
    until,      \* the time that ends
    address,    \* what it answers at: the service address, its own, or nothing
    pings,      \* answered pings of its take-over
    misses,     \* timeout_count_
    goneAt,     \* history: when the old server left the service address
    refused     \* history: the standby has given a take-over up

timedVars == <<now, phase, until, address, pings, misses, goneAt, refused>>

\* "scan", "leave" and "enter" are the network restarts of the two scripts; in
\* "serve" and "standby" nothing is left to happen.
Phase == {"scan", "leave", "stop", "ping", "pingAgain", "pingLost", "pingSleep",
          "enter", "start", "serve", "beat", "recv", "standby"}

TimedTypeOK ==
    /\ now \in Nat
    /\ phase \in [Host -> Phase]
    /\ until \in [Host -> Nat]
    /\ address \in [Host -> {"service", "own", "none"}]
    /\ pings \in [Host -> 0 .. PING_MAX - 1]
    /\ misses \in [Host -> 0 .. TIMEOUT_MAX]
    /\ goneAt \in Nat
    /\ refused \in BOOLEAN

TimedInit ==
    /\ now = 0
    /\ phase = [h \in Host |-> IF h = Old THEN "scan" ELSE "stop"]
    /\ \E scan \in ScanTimes, stop \in StopTimes :
           until = [h \in Host |-> IF h = Old THEN scan ELSE stop]
    /\ address = [h \in Host |-> IF h = Old THEN "service" ELSE "own"]
    /\ pings = [h \in Host |-> 0]
    /\ misses = [h \in Host |-> 0]
    /\ goneAt = 0
    /\ refused = FALSE

Answers == \E h \in Host : address[h] = "service"

Serving == \E h \in Host : phase[h] = "serve"

\* The phase of h ends now, and the next one lasts for a time.
ends(h, from, to, time) ==
    /\ phase[h] = from
    /\ until[h] = now
    /\ phase' = [phase EXCEPT ![h] = to]
    /\ until' = [until EXCEPT ![h] = now + time]

-----------------------------------------------------------------------------
(* Variants of the actions below, each with a plausible fault. *)

\* No sleep after an answered ping.
PingsAtOnce(h) ==
    /\ \/ Answers /\ ends(h, "ping", "pingSleep", PING_GAP)
       \/ ~Answers /\ ends(h, "ping", "pingAgain", PING_GAP)
    /\ UNCHANGED <<now, address, pings, misses, goneAt, refused>>

\* The counter of pings is not compared with its limit.
PingSleepForEver(h) ==
    /\ ends(h, "pingSleep", "ping", 0)
    /\ pings' = [pings EXCEPT ![h] = @ + 1]
    /\ UNCHANGED <<now, address, misses, goneAt, refused>>

\* The first silence is taken for the end of the server.
RecvImpatient(h) ==
    /\ \E time \in StopTimes : ends(h, "recv", "stop", time)
    /\ pings' = [pings EXCEPT ![h] = 0]
    /\ UNCHANGED <<now, address, misses, goneAt, refused>>

\* Timeouts are not counted.
RecvForgets(h) ==
    /\ ends(h, "recv", "beat", CHECK_TIME)
    /\ UNCHANGED <<now, address, pings, misses, goneAt, refused>>

\* recvfrom has no timeout.
BeatBlocks(h) ==
    /\ ends(h, "beat", "standby", 0)
    /\ UNCHANGED <<now, address, pings, misses, goneAt, refused>>

-----------------------------------------------------------------------------
(* switch_ip.sh *)

\* An address has not answered: network stop ...
ScanEnds(h) ==
    /\ \E time \in MoveTimes : ends(h, "scan", "leave", time)
    /\ address' = [address EXCEPT ![h] = "none"]
    /\ goneAt' = now
    /\ UNCHANGED <<now, pings, misses, refused>>

\* ... and start; main makes the host a client.
Left(h) ==
    /\ ends(h, "leave", "beat", 0)
    /\ address' = [address EXCEPT ![h] = "own"]
    /\ misses' = [misses EXCEPT ![h] = 0]
    /\ UNCHANGED <<now, pings, goneAt, refused>>

-----------------------------------------------------------------------------
(* switch_server.sh *)

StopEnds(h) ==
    /\ ends(h, "stop", "ping", 0)
    /\ UNCHANGED <<now, address, pings, misses, goneAt, refused>>

\* The first request, or the second, is answered: sleep 10.
Ping(h) ==
    /\ \/ Answers /\ ends(h, "ping", "pingSleep", PING_GAP + PING_SLEEP)
       \/ ~Answers /\ ends(h, "ping", "pingAgain", PING_GAP)
    /\ UNCHANGED <<now, address, pings, misses, goneAt, refused>>

PingAgain(h) ==
    /\ \/ Answers /\ ends(h, "pingAgain", "pingSleep", PING_SLEEP)
       \/ ~Answers /\ ends(h, "pingAgain", "pingLost", PING_WAIT)
    /\ UNCHANGED <<now, address, pings, misses, goneAt, refused>>

\* The PING_MAXth answer: exit 1, and main makes the host a client again.
PingSleepEnds(h) ==
    /\ \/ /\ pings[h] + 1 < PING_MAX
          /\ ends(h, "pingSleep", "ping", 0)
          /\ pings' = [pings EXCEPT ![h] = @ + 1]
          /\ UNCHANGED <<misses, refused>>
       \/ /\ pings[h] + 1 = PING_MAX
          /\ ends(h, "pingSleep", "beat", 0)
          /\ pings' = [pings EXCEPT ![h] = 0]
          /\ misses' = [misses EXCEPT ![h] = 0]
          /\ refused' = (refused \/ h = New)
    /\ UNCHANGED <<now, address, goneAt>>

\* The address is taken for free: network stop, start; then the services.
PingLost(h) ==
    /\ \E time \in MoveTimes : ends(h, "pingLost", "enter", time)
    /\ address' = [address EXCEPT ![h] = "none"]
    /\ UNCHANGED <<now, pings, misses, goneAt, refused>>

Entered(h) ==
    /\ \E time \in StartTimes : ends(h, "enter", "start", time)
    /\ address' = [address EXCEPT ![h] = "service"]
    /\ UNCHANGED <<now, pings, misses, goneAt, refused>>

Started(h) ==
    /\ ends(h, "start", "serve", 0)
    /\ UNCHANGED <<now, address, pings, misses, goneAt, refused>>

-----------------------------------------------------------------------------
(* HotBackupClient::Start *)

\* A heart-beat is answered by a host that serves, and by no other.
Beat(h) ==
    /\ \/ Serving /\ ends(h, "beat", "standby", 0)
       \/ ~Serving /\ ends(h, "beat", "recv", CHECK_TIME)
    /\ UNCHANGED <<now, address, pings, misses, goneAt, refused>>

RecvTimesOut(h) ==
    /\ \/ /\ misses[h] < TIMEOUT_MAX
          /\ ends(h, "recv", "beat", CHECK_TIME)
          /\ misses' = [misses EXCEPT ![h] = @ + 1]
          /\ UNCHANGED pings
       \/ /\ misses[h] = TIMEOUT_MAX
          /\ \E time \in StopTimes : ends(h, "recv", "stop", time)
          /\ pings' = [pings EXCEPT ![h] = 0]
          /\ UNCHANGED misses
    /\ UNCHANGED <<now, address, goneAt, refused>>

-----------------------------------------------------------------------------
Busy == {h \in Host : phase[h] \notin {"serve", "standby"}}

\* Time passes up to the next end of a phase.
Advance ==
    /\ \E h \in Busy : now' = until[h]
    /\ \A h \in Busy : now < until[h] /\ now' <= until[h]
    /\ UNCHANGED <<phase, until, address, pings, misses, goneAt, refused>>

TimedNext ==
    \/ \E h \in Host :
           \/ ScanEnds(h) \/ Left(h)
           \/ StopEnds(h) \/ Ping(h) \/ PingAgain(h) \/ PingSleepEnds(h)
           \/ PingLost(h) \/ Entered(h) \/ Started(h)
           \/ Beat(h) \/ RecvTimesOut(h)
    \/ Advance

TimedSpec == TimedInit /\ [][TimedNext]_timedVars

FairTimedSpec == TimedSpec /\ WF_timedVars(TimedNext)

-----------------------------------------------------------------------------
(* Properties *)

\* README.txt, line 6: after the hand-over the server has a free address, and
\* the standby the server's; never both the service address.
OneServiceAddress == \E h \in Host : address[h] # "service"

\* README.txt, line 6: a standby that has been ordered to take over does so: it
\* gives up only if the scan for a free address outlasts its pings.
OrderIsEnough ==
    refused => \/ phase[Old] = "scan"
               \/ \E stop \in StopTimes :
                      goneAt >= stop + (PING_MAX - 1) * (PING_GAP + PING_SLEEP)

\* Nobody answers at the service address for a limited time only: the stop of
\* the standby's services, a sleep between two pings and a move or, if its
\* take-over has been given up, the patience of a client besides.
PATIENCE == (2 * TIMEOUT_MAX + 1) * CHECK_TIME

OutageBounded ==
    \A stop \in StopTimes, move \in MoveTimes :
        /\ \A other \in StopTimes : other <= stop
        /\ \A other \in MoveTimes : other <= move
        /\ ~Answers
      => now - goneAt <= stop + move + 2 * PING_GAP + PING_SLEEP + PING_WAIT
                          + IF refused THEN PATIENCE ELSE 0

\* In the end one host serves and the other is its standby.
Settles == <>(\E g, h \in Host : phase[g] = "serve" /\ phase[h] = "standby")

=============================================================================
