-------------------------- MODULE TimedHandOverProofs --------------------------
(***************************************************************************)
(* The planned hand-over for all durations, not only those of the runs.    *)
(* The service address passes from one host to the other if the scan ends  *)
(* before the last ping of the standby (FastScan), or if it ends so late   *)
(* that the standby is on its next take-over, which it begins when it has  *)
(* given one up and been a client for PATIENCE (TimelyScan is both).  That *)
(* a client waits longer than a take-over lasts (Patience) is enough for a *)
(* standby that gives up to have had reason to.                            *)
(*                                                                         *)
(* The argument: the k-th ping of the standby starts at begin + k * Round. *)
(* One that is answered starts while the server still scans, so it is not  *)
(* the last if the scan is Fast, and the next, which is not answered,      *)
(* follows after a Round.  That bounds the time at which the standby has   *)
(* the address (InTimeFor).  If the scan is not Fast the same holds of the *)
(* take-over that follows.  The other host, counting timeouts since it has *)
(* left the address, comes to ask for it only later (Patient).             *)
(***************************************************************************)
EXTENDS TimedHandOver, TLAPS

\* From one ping to the next.
Round == PING_GAP + PING_SLEEP

\* A ping that nobody answers.
Lost == PING_GAP + PING_WAIT

\* The scan is over when the last ping of a take-over begins.
Fast(scan, begin) == scan < begin + (PING_MAX - 1) * Round

\* Among B are the times at which the standby begins to ping: first, and again
\* after each take-over that the scan has outlasted.
Begins(scan, first, B) ==
    /\ first \in B
    /\ \A begin \in B, stop \in StopTimes :
           ~Fast(scan, begin) => begin + PING_MAX * Round + PATIENCE + stop \in B

\* A client waits longer than such a take-over lasts.
Patient(scan, B) ==
    \A begin \in B, other \in StopTimes, in, out \in MoveTimes :
        /\ Round + Lost + in < out + PATIENCE + other
        /\ begin + Lost + in < scan + out + PATIENCE + other

FastScan == \A scan \in ScanTimes, stop \in StopTimes : Fast(scan, stop)

Patience == \A scan \in ScanTimes : Patient(scan, StopTimes)

\* No scan is over just after a take-over has been given up.
TimelyScan ==
    \A scan \in ScanTimes, first \in StopTimes :
        \E B \in SUBSET Nat : Begins(scan, first, B) /\ Patient(scan, B)

LEMMA Times ==
  /\ ScanTimes \subseteq Nat /\ StopTimes \subseteq Nat
  /\ MoveTimes \subseteq Nat /\ StartTimes \subseteq Nat
  /\ PING_GAP \in Nat /\ PING_WAIT \in Nat /\ PING_SLEEP \in Nat
  /\ CHECK_TIME \in Nat /\ TIMEOUT_MAX \in Nat /\ PING_MAX \in Nat \ {0}
  BY TimesAssumption

-----------------------------------------------------------------------------

LEMMA TimedTypeInit == TimedInit => TimedTypeOK
<1> SUFFICES ASSUME TimedInit
             PROVE  TimedTypeOK
  OBVIOUS
<1>1. phase \in [Host -> Phase]
  BY DEF TimedInit, Phase
<1>2. until \in [Host -> Nat]
  BY Times DEF TimedInit
<1>3. pings \in [Host -> 0 .. PING_MAX - 1] /\ misses \in [Host -> 0 .. TIMEOUT_MAX]
  BY Times DEF TimedInit
<1> QED
  BY <1>1, <1>2, <1>3 DEF TimedInit, TimedTypeOK

LEMMA TimedTypeStep == TimedTypeOK /\ [TimedNext]_timedVars => TimedTypeOK'
<1> SUFFICES ASSUME TimedTypeOK, [TimedNext]_timedVars
             PROVE  TimedTypeOK'
  OBVIOUS
<1> USE Times DEF TimedTypeOK, Phase, ends
<1>1. CASE UNCHANGED timedVars
  BY <1>1 DEF timedVars
<1>2. CASE Advance
  BY <1>2 DEF Advance, Busy
<1>3. ASSUME NEW h \in Host, ScanEnds(h) \/ Left(h)
      PROVE  TimedTypeOK'
  BY <1>3 DEF ScanEnds, Left
<1>4. ASSUME NEW h \in Host, StopEnds(h) \/ Ping(h) \/ PingAgain(h)
      PROVE  TimedTypeOK'
  BY <1>4 DEF StopEnds, Ping, PingAgain
<1>5. ASSUME NEW h \in Host, PingSleepEnds(h)
      PROVE  TimedTypeOK'
  <2>1. CASE pings[h] + 1 < PING_MAX
    <3>1. /\ ends(h, "pingSleep", "ping", 0)
          /\ pings' = [pings EXCEPT ![h] = @ + 1]
          /\ UNCHANGED <<now, address, misses, goneAt, refused>>
      BY <1>5, <2>1 DEF PingSleepEnds
    <3>2. pings[h] + 1 \in 0 .. PING_MAX - 1
      BY <2>1
    <3>3. pings' \in [Host -> 0 .. PING_MAX - 1]
      BY <3>1, <3>2
    <3>4. phase' \in [Host -> Phase] /\ until' \in [Host -> Nat]
      BY <3>1
    <3> QED
      BY <3>1, <3>3, <3>4
  <2>2. CASE pings[h] + 1 = PING_MAX
    <3>1. /\ ends(h, "pingSleep", "beat", 0)
          /\ pings' = [pings EXCEPT ![h] = 0]
          /\ misses' = [misses EXCEPT ![h] = 0]
          /\ refused' = (refused \/ h = New)
          /\ UNCHANGED <<now, address, goneAt>>
      BY <1>5, <2>2 DEF PingSleepEnds
    <3>2. pings' \in [Host -> 0 .. PING_MAX - 1] /\ misses' \in [Host -> 0 .. TIMEOUT_MAX]
      BY <3>1
    <3>3. phase' \in [Host -> Phase] /\ until' \in [Host -> Nat]
      BY <3>1
    <3>4. refused' \in BOOLEAN
      BY <3>1, Zenon
    <3> QED
      BY <3>1, <3>2, <3>3, <3>4
  <2> QED
    BY <1>5, <2>1, <2>2 DEF PingSleepEnds
<1>6. ASSUME NEW h \in Host, PingLost(h) \/ Entered(h) \/ Started(h)
      PROVE  TimedTypeOK'
  BY <1>6 DEF PingLost, Entered, Started
<1>7. ASSUME NEW h \in Host, Beat(h) \/ RecvTimesOut(h)
      PROVE  TimedTypeOK'
  BY <1>7 DEF Beat, RecvTimesOut
<1> QED
  BY <1>1, <1>2, <1>3, <1>4, <1>5, <1>6, <1>7 DEF TimedNext

\* The variables keep their types, for all durations: neither counter passes
\* its limit.
THEOREM TimedTypeCorrect == TimedSpec => []TimedTypeOK
  BY TimedTypeInit, TimedTypeStep, PTL DEF TimedSpec

-----------------------------------------------------------------------------

NotLate == \A h \in Busy : now <= until[h]

\* The server stops answering at scan, is a client move later, and does not ask
\* for the address within PATIENCE unless the standby answers there already.
OldInv(scan, move) ==
    /\ phase[Old] \in {"scan", "leave", "beat", "recv", "stop", "ping",
                       "pingSleep", "standby"}
    /\ phase[Old] = "scan" => until[Old] = scan
    /\ phase[Old] = "scan" <=> address[Old] = "service"
    /\ phase[Old] # "scan" => goneAt = scan
    /\ phase[Old] = "leave" => until[Old] = scan + move
    /\ address[New] # "service" =>
           /\ phase[Old] \notin {"ping", "pingSleep"}
           /\ phase[Old] = "beat"
                  => until[Old] >= scan + move + misses[Old] * (2 * CHECK_TIME)
           /\ phase[Old] = "recv"
                  => until[Old] >= scan + move + misses[Old] * (2 * CHECK_TIME)
                                    + CHECK_TIME
           /\ phase[Old] = "stop"
                  => \E other \in StopTimes :
                         until[Old] >= scan + move + PATIENCE + other

\* t is not later than time after the take-over's first ping, or after a Round in
\* which the server has left.
Within(t, scan, begin, time) == t <= begin + time \/ t <= scan + Round + time

\* The phases of the take-over end in time; one that is given up is followed by a
\* client's patience.
InTimeFor(scan, begin) ==
    /\ phase[New] = "stop" => until[New] = begin /\ pings[New] = 0
    /\ phase[New] = "ping" => /\ until[New] = begin + pings[New] * Round
                             /\ Within(until[New], scan, begin, 0)
    /\ phase[New] = "pingSleep" =>
           /\ until[New] = begin + pings[New] * Round + Round
           /\ until[New] <= scan + Round
    /\ phase[New] \in {"beat", "recv"} =>
           /\ ~Fast(scan, begin) /\ refused
           /\ until[New] = begin + PING_MAX * Round + misses[New] * (2 * CHECK_TIME)
                            + IF phase[New] = "recv" THEN CHECK_TIME ELSE 0
    /\ phase[New] = "pingAgain" => Within(until[New], scan, begin, PING_GAP)
    /\ phase[New] = "pingLost" => Within(until[New], scan, begin, Lost)
    /\ phase[New] = "enter" =>
           \E in \in MoveTimes : Within(until[New], scan, begin, Lost + in)

\* How late a take-over may begin, and when one has been given up.
BeginsInTime(scan, first, begin) ==
    /\ ~refused => begin = first
    /\ refused => /\ ~Fast(scan, first)
                  /\ \E stop \in StopTimes : begin <= scan + Round + PATIENCE + stop

NewInv(scan, first, begin) ==
    /\ phase[New] \in {"stop", "ping", "pingAgain", "pingLost", "pingSleep",
                       "beat", "recv", "enter", "start", "serve"}
    /\ phase[New] \in {"pingAgain", "pingLost", "enter", "start", "serve"}
           => phase[Old] # "scan"
    /\ address[New] = "service" <=> phase[New] \in {"start", "serve"}
    /\ BeginsInTime(scan, first, begin)
    /\ InTimeFor(scan, begin)

HandOver(scan, first, B) ==
    /\ \E begin \in B : NewInv(scan, first, begin)
    /\ \/ phase[Old] = "scan" /\ \A move \in Nat : OldInv(scan, move)
       \/ \E move \in MoveTimes : OldInv(scan, move)

\* The one scan there is ends, or has ended, at scan.
OneScan(scan) ==
    /\ phase[New] # "scan"
    /\ phase[Old] = "scan" => until[Old] = scan
    /\ phase[Old] # "scan" => goneAt = scan

TimedInv ==
    /\ TimedTypeOK
    /\ NotLate
    /\ \E scan \in ScanTimes, first \in StopTimes :
           /\ OneScan(scan)
           /\ \A B \in SUBSET Nat :
                  Begins(scan, first, B) /\ Patient(scan, B)
                      => HandOver(scan, first, B)

LEMMA TimedInvInit == TimedInit => TimedInv
<1> SUFFICES ASSUME TimedInit
             PROVE  TimedInv
  OBVIOUS
<1>1. PICK scan \in ScanTimes, stop \in StopTimes :
          until = [h \in Host |-> IF h = Old THEN scan ELSE stop]
  BY DEF TimedInit
<1>2. /\ phase[Old] = "scan" /\ until[Old] = scan /\ address[Old] = "service"
      /\ phase[New] = "stop" /\ until[New] = stop /\ address[New] = "own"
      /\ pings[New] = 0
  BY <1>1, HostsAssumption DEF TimedInit, Host
<1>3. NotLate
  BY <1>2, Times DEF TimedInit, NotLate, Busy, Host
<1>4. NewInv(scan, stop, stop) /\ \A move \in Nat : OldInv(scan, move)
  BY <1>2 DEF TimedInit, NewInv, InTimeFor, BeginsInTime, OldInv
<1>5. OneScan(scan)
  BY <1>2 DEF OneScan
<1> QED
  BY <1>2, <1>3, <1>4, <1>5, TimedTypeInit
  DEF TimedInv, HandOver, Begins

\* No phase is left unended when its time has come.
LEMMA NotLateStep ==
  ASSUME TimedTypeOK, NotLate, [TimedNext]_timedVars
  PROVE  NotLate'
<1> USE Times DEF TimedTypeOK, NotLate, Busy, ends
<1>1. CASE UNCHANGED timedVars
  BY <1>1 DEF timedVars
<1>2. CASE Advance
  BY <1>2 DEF Advance
<1>3. ASSUME NEW h \in Host, ScanEnds(h) \/ Left(h)
      PROVE  NotLate'
  BY <1>3 DEF ScanEnds, Left
<1>4. ASSUME NEW h \in Host, StopEnds(h) \/ Ping(h) \/ PingAgain(h)
      PROVE  NotLate'
  BY <1>4 DEF StopEnds, Ping, PingAgain
<1>5. ASSUME NEW h \in Host, PingSleepEnds(h)
      PROVE  NotLate'
  BY <1>5 DEF PingSleepEnds
<1>6. ASSUME NEW h \in Host, PingLost(h) \/ Entered(h) \/ Started(h)
      PROVE  NotLate'
  BY <1>6 DEF PingLost, Entered, Started
<1>7. ASSUME NEW h \in Host, Beat(h) \/ RecvTimesOut(h)
      PROVE  NotLate'
  BY <1>7 DEF Beat, RecvTimesOut
<1> QED
  BY <1>1, <1>2, <1>3, <1>4, <1>5, <1>6, <1>7 DEF TimedNext

\* One more round, one more timeout.
LEMMA RoundTimes ==
  /\ Round \in Nat /\ Lost \in Nat /\ PATIENCE \in Nat
  /\ \A k \in Nat : /\ k * Round \in Nat
                    /\ (k + 1) * Round = k * Round + Round
                    /\ k * (2 * CHECK_TIME) \in Nat
                    /\ (k + 1) * (2 * CHECK_TIME)
                           = k * (2 * CHECK_TIME) + 2 * CHECK_TIME
  /\ PATIENCE = TIMEOUT_MAX * (2 * CHECK_TIME) + CHECK_TIME
<1>1. Round \in Nat /\ Lost \in Nat /\ PATIENCE \in Nat
  BY Times DEF Round, Lost, PATIENCE
<1>2. \A k, n \in Nat : k * n \in Nat /\ (k + 1) * n = k * n + n
  OBVIOUS
<1>3. 2 * CHECK_TIME \in Nat
  BY Times
<1>4. PATIENCE = TIMEOUT_MAX * (2 * CHECK_TIME) + CHECK_TIME
  BY Times DEF PATIENCE
<1> QED
  BY <1>1, <1>2, <1>3, <1>4

\* A take-over that a scan outlasts has pinged for the last time before its end.
LEMMA LastPing ==
  ASSUME NEW scan \in Nat, NEW begin \in Nat, ~Fast(scan, begin)
  PROVE  begin + PING_MAX * Round <= scan + Round
<1>1. PING_MAX - 1 \in Nat /\ PING_MAX = (PING_MAX - 1) + 1
  BY Times
<1>2. PING_MAX * Round = (PING_MAX - 1) * Round + Round
  BY <1>1, RoundTimes
<1>3. (PING_MAX - 1) * Round \in Nat /\ Round \in Nat
  BY <1>1, RoundTimes
<1> QED
  BY <1>2, <1>3 DEF Fast

\* The standby's own steps keep its take-over in time, or begin the next.
LEMMA TakeOverStep ==
  ASSUME TimedTypeOK, NotLate,
         NEW scan \in ScanTimes, NEW first \in StopTimes, NEW move \in Nat,
         NEW B \in SUBSET Nat, Begins(scan, first, B), NEW begin \in B,
         OldInv(scan, move), NewInv(scan, first, begin),
         \/ ScanEnds(New) \/ Left(New) \/ StopEnds(New) \/ Ping(New)
         \/ PingAgain(New) \/ PingSleepEnds(New) \/ PingLost(New)
         \/ Entered(New) \/ Started(New) \/ Beat(New) \/ RecvTimesOut(New)
  PROVE  \E next \in B : NewInv(scan, first, next)'
<1> USE Times, RoundTimes, HostsAssumption
    DEF TimedTypeOK, NewInv, InTimeFor, Within, ends, Host
<1>0. BeginsInTime(scan, first, begin) /\ refused \in BOOLEAN
  OBVIOUS
<1>1. CASE ScanEnds(New) \/ Left(New)
  BY <1>1 DEF ScanEnds, Left
<1>2. CASE StopEnds(New)
  <2>1. BeginsInTime(scan, first, begin)'
    BY <1>0, <1>2 DEF StopEnds, BeginsInTime
  <2> QED
    BY <1>2, <2>1 DEF StopEnds
<1>3. CASE Ping(New)
  <2>1. BeginsInTime(scan, first, begin)'
    BY <1>0, <1>3 DEF Ping, BeginsInTime
  <2>2. CASE Answers
    <3>1. phase[Old] = "scan"
      BY <1>3, <2>2 DEF Ping, Answers, OldInv
    <3>2. now <= scan /\ now = begin + pings[New] * Round
      BY <1>3, <3>1 DEF Ping, OldInv, NotLate, Busy
    <3>3. ends(New, "ping", "pingSleep", Round)
      BY <1>3, <2>2 DEF Ping, Round
    <3> QED
      BY <1>3, <2>1, <3>2, <3>3 DEF Ping
  <2>3. CASE ~Answers
    <3>1. phase[Old] # "scan"
      BY <2>3 DEF Answers, OldInv
    <3> QED
      BY <1>3, <2>1, <2>3, <3>1 DEF Ping
  <2> QED
    BY <2>2, <2>3
<1>4. CASE PingAgain(New)
  <2>1. BeginsInTime(scan, first, begin)'
    BY <1>0, <1>4 DEF PingAgain, BeginsInTime
  <2>2. ~Answers
    BY <1>4 DEF PingAgain, Answers, OldInv
  <2> QED
    BY <1>4, <2>1, <2>2 DEF PingAgain, Lost
<1>5. CASE PingSleepEnds(New)
  <2>1. (pings[New] + 1) * Round = pings[New] * Round + Round
    OBVIOUS
  <2>2. CASE pings[New] + 1 < PING_MAX
    <3>1. /\ ends(New, "pingSleep", "ping", 0)
          /\ pings' = [pings EXCEPT ![New] = @ + 1]
          /\ UNCHANGED <<now, address, misses, goneAt, refused>>
      BY <1>5, <2>2 DEF PingSleepEnds
    <3>2. BeginsInTime(scan, first, begin)'
      BY <1>0, <3>1 DEF BeginsInTime
    <3> QED
      BY <2>1, <3>1, <3>2
  <2>3. CASE pings[New] + 1 = PING_MAX
    <3>1. /\ ends(New, "pingSleep", "beat", 0)
          /\ misses' = [misses EXCEPT ![New] = 0]
          /\ refused' = (refused \/ New = New)
          /\ UNCHANGED <<now, address, goneAt>>
      BY <1>5, <2>3 DEF PingSleepEnds
    <3>2. /\ PING_MAX * Round = pings[New] * Round + Round
          /\ (PING_MAX - 1) * Round = pings[New] * Round
      BY <2>1, <2>3
    <3>3. now = begin + PING_MAX * Round /\ begin + (PING_MAX - 1) * Round <= scan
      BY <3>1, <3>2
    <3>4. ~Fast(scan, begin)
      BY <3>2, <3>3 DEF Fast
    <3>5. refused'
      BY <3>1
    <3>6. BeginsInTime(scan, first, begin)'
      <4>1. ~Fast(scan, first)
        BY <1>0, <3>4 DEF BeginsInTime
      <4>2. begin <= scan + Round + PATIENCE + first
        BY <3>2, <3>3
      <4> QED
        BY <3>5, <4>1, <4>2 DEF BeginsInTime, Fast, Round
    <3>7. ~Fast(scan, begin)'
      BY <3>4 DEF Fast, Round
    <3> QED
      BY <3>1, <3>3, <3>5, <3>6, <3>7
  <2> QED
    BY <1>5, <2>2, <2>3 DEF PingSleepEnds
<1>6. CASE PingLost(New)
  <2>1. BeginsInTime(scan, first, begin)'
    BY <1>0, <1>6 DEF PingLost, BeginsInTime
  <2> QED
    BY <1>6, <2>1 DEF PingLost
<1>7. CASE Entered(New) \/ Started(New)
  <2>1. BeginsInTime(scan, first, begin)'
    BY <1>0, <1>7 DEF Entered, Started, BeginsInTime
  <2> QED
    BY <1>7, <2>1 DEF Entered, Started
<1>8. CASE Beat(New)
  <2>1. BeginsInTime(scan, first, begin)'
    BY <1>0, <1>8 DEF Beat, BeginsInTime
  <2>2. ~Serving
    BY <1>8 DEF Beat, Serving, OldInv
  <2> QED
    BY <1>8, <2>1, <2>2 DEF Beat
<1>9. CASE RecvTimesOut(New)
  <2>1. CASE misses[New] < TIMEOUT_MAX
    <3>1. /\ ends(New, "recv", "beat", CHECK_TIME)
          /\ misses' = [misses EXCEPT ![New] = @ + 1]
          /\ UNCHANGED <<now, address, pings, goneAt, refused>>
      BY <1>9, <2>1 DEF RecvTimesOut
    <3>2. BeginsInTime(scan, first, begin)'
      BY <1>0, <3>1 DEF BeginsInTime
    <3> QED
      BY <3>1, <3>2
  <2>2. CASE misses[New] = TIMEOUT_MAX
    <3>1. PICK stop \in StopTimes : ends(New, "recv", "stop", stop)
      BY <1>9, <2>2 DEF RecvTimesOut
    <3>2. /\ pings' = [pings EXCEPT ![New] = 0]
          /\ UNCHANGED <<now, address, misses, goneAt, refused>>
      BY <1>9, <2>2 DEF RecvTimesOut
    <3> DEFINE next == begin + PING_MAX * Round + PATIENCE + stop
    <3>3. ~Fast(scan, begin) /\ now = begin + PING_MAX * Round + PATIENCE
      BY <2>2, <3>1
    <3>4. next \in B
      BY <3>3 DEF Begins
    <3>5. BeginsInTime(scan, first, next)'
      <4>1. refused /\ refused' = refused
        BY <3>1, <3>2
      <4>2. next <= scan + Round + PATIENCE + stop
        BY <3>3, LastPing
      <4> QED
        BY <1>0, <4>1, <4>2 DEF BeginsInTime, Fast, Round
    <3> QED
      BY <3>1, <3>2, <3>3, <3>4, <3>5
  <2>3. misses[New] < TIMEOUT_MAX \/ misses[New] = TIMEOUT_MAX
    BY <1>9 DEF RecvTimesOut
  <2> QED
    BY <2>1, <2>2, <2>3
<1> QED
  BY <1>1, <1>2, <1>3, <1>4, <1>5, <1>6, <1>7, <1>8, <1>9

\* The other host's steps leave the take-over alone; it does not scan again.
LEMMA OthersLeaveTakeOver ==
  ASSUME TimedTypeOK, NEW scan \in ScanTimes, NEW first \in StopTimes,
         NEW begin \in Nat, NEW move \in Nat,
         OldInv(scan, move), NewInv(scan, first, begin),
         \/ ScanEnds(Old) \/ Left(Old) \/ StopEnds(Old) \/ Ping(Old)
         \/ PingAgain(Old) \/ PingSleepEnds(Old) \/ PingLost(Old)
         \/ Entered(Old) \/ Started(Old) \/ Beat(Old) \/ RecvTimesOut(Old)
         \/ Advance \/ UNCHANGED timedVars
  PROVE  NewInv(scan, first, begin)'
<1>1. /\ phase'[New] = phase[New] /\ until'[New] = until[New]
      /\ pings'[New] = pings[New] /\ misses'[New] = misses[New]
      /\ address'[New] = address[New]
      /\ phase'[Old] = "scan" => phase[Old] = "scan"
      /\ refused' <=> refused
  <2> USE HostsAssumption DEF TimedTypeOK, ends, Host
  <2>1. CASE \/ ScanEnds(Old) \/ Left(Old) \/ StopEnds(Old) \/ Ping(Old)
             \/ PingAgain(Old) \/ PingLost(Old) \/ Entered(Old)
             \/ Started(Old) \/ Beat(Old)
    BY <2>1 DEF ScanEnds, Left, StopEnds, Ping, PingAgain, PingLost, Entered,
       Started, Beat
  <2>2. CASE PingSleepEnds(Old)
    BY <2>2 DEF PingSleepEnds
  <2>3. CASE RecvTimesOut(Old)
    BY <2>3 DEF RecvTimesOut
  <2>4. CASE Advance \/ UNCHANGED timedVars
    BY <2>4 DEF Advance, timedVars
  <2> QED
    BY <2>1, <2>2, <2>3, <2>4
<1>2. BeginsInTime(scan, first, begin)'
  BY <1>1 DEF NewInv, BeginsInTime, Fast, Round
<1> QED
  BY <1>1, <1>2 DEF NewInv, InTimeFor, Within, Fast, Round, Lost

\* As long as the standby does not answer it is on its way, and in time.
LEMMA StandbyIsOnItsWay ==
  ASSUME TimedTypeOK, NotLate, NEW scan \in ScanTimes, NEW first \in StopTimes,
         NEW B \in SUBSET Nat, Begins(scan, first, B), NEW begin \in B,
         NEW move \in MoveTimes, NewInv(scan, first, begin),
         address[New] # "service"
  PROVE  \E next \in B, in \in MoveTimes :
             /\ Within(now, scan, next, Lost + in)
             /\ BeginsInTime(scan, first, next)
<1> USE Times, RoundTimes, HostsAssumption
    DEF TimedTypeOK, NewInv, InTimeFor, Within, NotLate, Busy, Host
<1>1. now <= until[New] /\ phase[New] \notin {"start", "serve"}
  OBVIOUS
<1>2. CASE phase[New] = "enter"
  BY <1>1, <1>2
<1>3. CASE phase[New] \in {"beat", "recv"}
  <2> DEFINE next == begin + PING_MAX * Round + PATIENCE + first
  <2>1. next \in B
    BY <1>3 DEF Begins
  <2>2. misses[New] * (2 * CHECK_TIME) <= TIMEOUT_MAX * (2 * CHECK_TIME)
    <3>1. \A k, d, n \in Nat : (k + d) * n = k * n + d * n /\ d * n >= 0
      OBVIOUS
    <3>2. PICK d \in Nat : TIMEOUT_MAX = misses[New] + d
      <4>1. TIMEOUT_MAX - misses[New] \in Nat
        OBVIOUS
      <4> QED
        BY <4>1
    <3>3. 2 * CHECK_TIME \in Nat /\ misses[New] \in Nat
      OBVIOUS
    <3> QED
      BY <3>1, <3>2, <3>3
  <2>3. now <= next
    BY <1>1, <1>3, <2>2
  <2>4. BeginsInTime(scan, first, next)
    <3>1. ~Fast(scan, begin) /\ refused /\ BeginsInTime(scan, first, begin)
      BY <1>3
    <3>2. next <= scan + Round + PATIENCE + first
      BY <3>1, LastPing
    <3> QED
      BY <3>1, <3>2 DEF BeginsInTime
  <2> QED
    BY <2>1, <2>3, <2>4
<1>4. CASE phase[New] \notin {"enter", "beat", "recv"}
  <2>1. PING_GAP <= Lost /\ 0 <= Lost
    BY DEF Lost
  <2>2. Within(now, scan, begin, Lost + move)
    BY <1>1, <1>4, <2>1
  <2> QED
    BY <2>2
<1> QED
  BY <1>2, <1>3, <1>4

\* The server's own steps, once it has left: by the time it asks for the service
\* address as a client the standby has it.
LEMMA ReturnStep ==
  ASSUME TimedTypeOK, NotLate,
         NEW scan \in ScanTimes, NEW first \in StopTimes, NEW move \in MoveTimes,
         NEW B \in SUBSET Nat, Begins(scan, first, B), Patient(scan, B),
         NEW begin \in B, OldInv(scan, move), NewInv(scan, first, begin),
         \/ Left(Old) \/ StopEnds(Old) \/ Ping(Old)
         \/ PingAgain(Old) \/ PingSleepEnds(Old) \/ PingLost(Old)
         \/ Entered(Old) \/ Started(Old) \/ Beat(Old) \/ RecvTimesOut(Old)
  PROVE  OldInv(scan, move)'
<1> USE Times, RoundTimes, HostsAssumption DEF TimedTypeOK, OldInv, ends, Host
<1>1. CASE Left(Old)
  BY <1>1 DEF Left
<1>2. CASE StopEnds(Old)
  <2>1. address[New] = "service"
    <3> SUFFICES ASSUME address[New] # "service"
                 PROVE  FALSE
      OBVIOUS
    <3>1. PICK other \in StopTimes : now >= scan + move + PATIENCE + other
      BY <1>2 DEF StopEnds
    <3>2. PICK next \in B, in \in MoveTimes : Within(now, scan, next, Lost + in)
      BY StandbyIsOnItsWay
    <3>3. /\ Round + Lost + in < move + PATIENCE + other
          /\ next + Lost + in < scan + move + PATIENCE + other
      BY DEF Patient
    <3> QED
      BY <3>1, <3>2, <3>3 DEF Within
  <2> QED
    BY <1>2, <2>1 DEF StopEnds
<1>3. CASE Ping(Old)
  <2>1. address[New] = "service"
    BY <1>3 DEF Ping
  <2> QED
    BY <1>3, <2>1 DEF Ping, Answers
<1>4. CASE PingAgain(Old) \/ PingLost(Old) \/ Entered(Old) \/ Started(Old)
  BY <1>4 DEF PingAgain, PingLost, Entered, Started
<1>5. CASE PingSleepEnds(Old)
  <2>1. address[New] = "service"
    BY <1>5 DEF PingSleepEnds
  <2>2. /\ phase[Old] = "pingSleep" /\ phase'[Old] \in {"ping", "beat"}
        /\ UNCHANGED <<address, goneAt>>
    BY <1>5 DEF PingSleepEnds
  <2> QED
    BY <2>1, <2>2
<1>6. CASE Beat(Old)
  BY <1>6 DEF Beat
<1>7. CASE RecvTimesOut(Old)
  <2>1. CASE misses[Old] < TIMEOUT_MAX
    <3>1. /\ ends(Old, "recv", "beat", CHECK_TIME)
          /\ misses' = [misses EXCEPT ![Old] = @ + 1]
          /\ UNCHANGED <<now, address, pings, goneAt, refused>>
      BY <1>7, <2>1 DEF RecvTimesOut
    <3> QED
      BY <3>1
  <2>2. CASE misses[Old] = TIMEOUT_MAX
    <3>1. PICK other \in StopTimes : ends(Old, "recv", "stop", other)
      BY <1>7, <2>2 DEF RecvTimesOut
    <3>2. UNCHANGED <<now, address, goneAt, refused>>
      BY <1>7 DEF RecvTimesOut
    <3> QED
      BY <2>2, <3>1, <3>2
  <2>3. misses[Old] < TIMEOUT_MAX \/ misses[Old] = TIMEOUT_MAX
    BY <1>7 DEF RecvTimesOut
  <2> QED
    BY <2>1, <2>2, <2>3
<1> QED
  BY <1>1, <1>2, <1>3, <1>4, <1>5, <1>6, <1>7

\* Leaving the address begins the time the client waits.
LEMMA LeaveStep ==
  ASSUME TimedTypeOK, NEW scan \in ScanTimes, NEW move \in Nat,
         OldInv(scan, move), ScanEnds(Old), address[New] # "service"
  PROVE  \E time \in MoveTimes : OldInv(scan, time)'
<1> USE Times, HostsAssumption DEF TimedTypeOK, OldInv, ends, Host
<1>1. PICK time \in MoveTimes : ends(Old, "scan", "leave", time)
  BY DEF ScanEnds
<1>2. OldInv(scan, time)'
  BY <1>1 DEF ScanEnds
<1> QED
  BY <1>2

\* The standby's steps leave the server alone, and only bring its address nearer.
LEMMA StandbyLeavesServer ==
  ASSUME TimedTypeOK, NEW scan \in ScanTimes, NEW first \in StopTimes,
         NEW begin \in Nat, NEW move \in Nat,
         OldInv(scan, move), NewInv(scan, first, begin),
         \/ ScanEnds(New) \/ Left(New) \/ StopEnds(New) \/ Ping(New)
         \/ PingAgain(New) \/ PingSleepEnds(New) \/ PingLost(New)
         \/ Entered(New) \/ Started(New) \/ Beat(New) \/ RecvTimesOut(New)
         \/ Advance \/ UNCHANGED timedVars
  PROVE  OldInv(scan, move)' /\ phase'[Old] = phase[Old]
<1>1. /\ phase'[Old] = phase[Old] /\ until'[Old] = until[Old]
      /\ misses'[Old] = misses[Old] /\ goneAt' = goneAt
      /\ address'[Old] = address[Old]
      /\ address[New] = "service" => address'[New] = "service"
  <2> USE HostsAssumption DEF TimedTypeOK, NewInv, ends, Host
  <2>1. CASE \/ ScanEnds(New) \/ Left(New) \/ StopEnds(New) \/ Ping(New)
             \/ PingAgain(New) \/ PingLost(New) \/ Entered(New)
             \/ Started(New) \/ Beat(New)
    BY <2>1 DEF ScanEnds, Left, StopEnds, Ping, PingAgain, PingLost, Entered,
       Started, Beat
  <2>2. CASE PingSleepEnds(New) \/ RecvTimesOut(New)
    BY <2>2 DEF PingSleepEnds, RecvTimesOut
  <2>3. CASE Advance \/ UNCHANGED timedVars
    BY <2>3 DEF Advance, timedVars
  <2> QED
    BY <2>1, <2>2, <2>3
<1> QED
  BY <1>1 DEF OldInv

\* Nobody begins to scan again.
LEMMA OneScanStep ==
  ASSUME TimedTypeOK, NEW scan \in ScanTimes, OneScan(scan),
         [TimedNext]_timedVars
  PROVE  OneScan(scan)'
<1> USE HostsAssumption DEF TimedTypeOK, OneScan, ends, Host
<1>1. CASE Advance \/ UNCHANGED timedVars
  BY <1>1 DEF Advance, timedVars
<1>2. ASSUME NEW h \in Host, ScanEnds(h)
      PROVE  OneScan(scan)'
  <2>1. h = Old /\ now = scan
    BY <1>2 DEF ScanEnds
  <2> QED
    BY <1>2, <2>1 DEF ScanEnds
<1>3. ASSUME NEW h \in Host,
             \/ Left(h) \/ StopEnds(h) \/ Ping(h) \/ PingAgain(h)
             \/ PingLost(h) \/ Entered(h) \/ Started(h) \/ Beat(h)
      PROVE  OneScan(scan)'
  BY <1>3 DEF Left, StopEnds, Ping, PingAgain, PingLost, Entered, Started, Beat
<1>4. ASSUME NEW h \in Host, PingSleepEnds(h) \/ RecvTimesOut(h)
      PROVE  OneScan(scan)'
  BY <1>4 DEF PingSleepEnds, RecvTimesOut
<1> QED
  BY <1>1, <1>2, <1>3, <1>4 DEF TimedNext

LEMMA HandOverStep ==
  ASSUME TimedTypeOK, NotLate, [TimedNext]_timedVars,
         NEW scan \in ScanTimes, NEW first \in StopTimes, NEW B \in SUBSET Nat,
         Begins(scan, first, B), Patient(scan, B), HandOver(scan, first, B)
  PROVE  HandOver(scan, first, B)'
<1> USE HostsAssumption
<1>1. PICK begin \in B : NewInv(scan, first, begin)
  BY DEF HandOver
<1>2. PICK move \in Nat : OldInv(scan, move)
  BY Times DEF HandOver
<1>3. PICK h \in Host :
          \/ \/ ScanEnds(h) \/ Left(h) \/ StopEnds(h) \/ Ping(h)
             \/ PingAgain(h) \/ PingSleepEnds(h) \/ PingLost(h)
             \/ Entered(h) \/ Started(h) \/ Beat(h) \/ RecvTimesOut(h)
          \/ Advance \/ UNCHANGED timedVars
  BY DEF TimedNext, Host
<1>4. \E next \in B : NewInv(scan, first, next)'
  <2>1. CASE h = New /\ ~Advance /\ ~UNCHANGED timedVars
    BY <1>1, <1>2, <1>3, <2>1, TakeOverStep
  <2>2. CASE h = Old \/ Advance \/ UNCHANGED timedVars
    BY <1>1, <1>2, <1>3, <2>2, OthersLeaveTakeOver
  <2> QED
    BY <2>1, <2>2 DEF Host
<1>5. \/ phase'[Old] = "scan" /\ \A out \in Nat : OldInv(scan, out)'
      \/ \E out \in MoveTimes : OldInv(scan, out)'
  <2>1. CASE h = New \/ Advance \/ UNCHANGED timedVars
    <3>1. \A out \in Nat : OldInv(scan, out) => OldInv(scan, out)'
                                                /\ phase'[Old] = phase[Old]
      BY <1>1, <1>3, <2>1, StandbyLeavesServer
    <3> QED
      BY <3>1, Times DEF HandOver
  <2>2. CASE h = Old /\ ScanEnds(Old)
    <3>1. phase[Old] = "scan"
      BY <2>2 DEF ScanEnds, ends
    <3>2. address[New] # "service"
      BY <1>1, <3>1 DEF NewInv
    <3> QED
      BY <1>2, <2>2, <3>2, LeaveStep
  <2>3. CASE h = Old /\ ~ScanEnds(Old) /\ ~Advance /\ ~UNCHANGED timedVars
    <3>1. phase[Old] # "scan"
      BY <1>3, <2>3
      DEF Left, StopEnds, Ping, PingAgain, PingSleepEnds, PingLost, Entered,
          Started, Beat, RecvTimesOut, ends
    <3>2. PICK out \in MoveTimes : OldInv(scan, out)
      BY <3>1 DEF HandOver
    <3> QED
      BY <1>1, <1>3, <2>3, <3>2, ReturnStep
  <2> QED
    BY <2>1, <2>2, <2>3 DEF Host
<1> QED
  BY <1>4, <1>5 DEF HandOver

LEMMA TimedInvStep ==
  ASSUME TimedInv, [TimedNext]_timedVars
  PROVE  TimedInv'
<1> USE DEF TimedInv
<1>1. TimedTypeOK' /\ NotLate'
  BY TimedTypeStep, NotLateStep
<1>2. PICK scan \in ScanTimes, first \in StopTimes :
          /\ OneScan(scan)
          /\ \A B \in SUBSET Nat :
                 Begins(scan, first, B) /\ Patient(scan, B)
                     => HandOver(scan, first, B)
  OBVIOUS
<1>3. OneScan(scan)'
  BY <1>2, OneScanStep
<1>4. \A B \in SUBSET Nat :
          Begins(scan, first, B) /\ Patient(scan, B) => HandOver(scan, first, B)'
  BY <1>2, HandOverStep
<1> QED
  BY <1>1, <1>3, <1>4 DEF Begins, Patient, Fast, Round, Lost, PATIENCE

\* The take-over passes the service address on unless a scan is over just after
\* it has been given up, and with it the times of all phases are those of the
\* invariant.
THEOREM TimedInvariant == TimedSpec => []TimedInv
  BY TimedInvInit, TimedInvStep, PTL DEF TimedSpec

\* However long the scan takes, the order given to the standby is enough unless
\* the scan outlasts its pings: a server that has left in time does not come
\* back, as a client that takes over, to answer one of them.
THEOREM OrderSuffices ==
  ASSUME Patience
  PROVE  TimedSpec => []OrderIsEnough
<1>1. TimedInv => OrderIsEnough
  <2> SUFFICES ASSUME TimedInv, refused, phase[Old] # "scan"
               PROVE  \E stop \in StopTimes : goneAt >= stop + (PING_MAX - 1) * Round
    BY DEF OrderIsEnough, Round
  <2>1. PICK scan \in ScanTimes, first \in StopTimes :
            /\ OneScan(scan)
            /\ Begins(scan, first, {first}) /\ Patient(scan, {first})
                   => HandOver(scan, first, {first})
    BY Times DEF TimedInv
  <2>2. goneAt = scan
    BY <2>1 DEF OneScan
  <2>3. ~Fast(scan, first)
    <3> SUFFICES ASSUME Fast(scan, first)
                 PROVE  FALSE
      OBVIOUS
    <3>1. Begins(scan, first, {first})
      BY DEF Begins
    <3>2. Patient(scan, {first})
      BY DEF Patience, Patient
    <3> QED
      BY <2>1, <3>1, <3>2 DEF HandOver, NewInv, BeginsInTime
  <2>4. (PING_MAX - 1) * Round \in Int
    BY Times, RoundTimes
  <2> QED
    BY <2>2, <2>3, <2>4, Times DEF Fast
<1> QED
  BY <1>1, TimedInvariant, PTL

-----------------------------------------------------------------------------
(* What follows when no scan is over just after a take-over *)

LEMMA TimelyHandOver ==
  ASSUME TimelyScan, TimedInv
  PROVE  \E scan \in ScanTimes, first \in StopTimes, B \in SUBSET Nat :
             Begins(scan, first, B) /\ HandOver(scan, first, B)
  BY DEF TimelyScan, TimedInv

LEMMA FastIsTimely ==
  ASSUME FastScan, Patience
  PROVE  TimelyScan
<1> SUFFICES ASSUME NEW scan \in ScanTimes, NEW first \in StopTimes
             PROVE  \E B \in SUBSET Nat : Begins(scan, first, B) /\ Patient(scan, B)
  BY DEF TimelyScan
<1>1. Begins(scan, first, StopTimes)
  BY DEF FastScan, Begins
<1>2. Patient(scan, StopTimes) /\ StopTimes \in SUBSET Nat
  BY Times DEF Patience
<1> QED
  BY <1>1, <1>2

\* With the constants of the code, services that stop within 2 to 9 seconds and
\* networks that restart within 5 to 8, the scans that are timely are those that
\* end before the third ping (23 s) or leave room for a second take-over (56 s),
\* as long as that is not outlasted too (123 s).
THEOREM CodeIsTimely ==
  ASSUME PING_GAP = 1, PING_WAIT = 2, PING_SLEEP = 10, PING_MAX = 3,
         CHECK_TIME = 5, TIMEOUT_MAX = 6,
         StopTimes \subseteq 2 .. 9, MoveTimes \subseteq 5 .. 8,
         ScanTimes \subseteq (0 .. 23) \cup (56 .. 123)
  PROVE  TimelyScan
<1> SUFFICES ASSUME NEW scan \in ScanTimes, NEW first \in StopTimes
             PROVE  \E B \in SUBSET Nat : Begins(scan, first, B) /\ Patient(scan, B)
  BY DEF TimelyScan
<1>1. Round = 11 /\ Lost = 3 /\ PATIENCE = 65
  BY DEF Round, Lost, PATIENCE
<1>2. first \in 2 .. 9 /\ scan \in (0 .. 23) \cup (56 .. 123)
  OBVIOUS
<1>3. \A begin : Fast(scan, begin) <=> scan < begin + 22
  BY <1>1 DEF Fast
<1>4. CASE scan \in 0 .. 23
  <2>1. Begins(scan, first, {first})
    BY <1>2, <1>3, <1>4 DEF Begins
  <2>2. Patient(scan, {first})
    BY <1>1, <1>2, <1>4 DEF Patient
  <2> QED
    BY <1>2, <2>1, <2>2
<1>5. CASE scan \in 56 .. 123
  <2> DEFINE again == {first + 98 + stop : stop \in StopTimes}
  <2>1. again \subseteq 102 .. 116
    BY <1>2
  <2>2. Begins(scan, first, {first} \cup again)
    <3>1. \A begin \in again : Fast(scan, begin)
      BY <1>3, <1>5, <2>1
    <3>2. \A stop \in StopTimes : first + PING_MAX * Round + PATIENCE + stop \in again
      BY <1>1, <1>2
    <3> QED
      BY <3>1, <3>2 DEF Begins
  <2>3. Patient(scan, {first} \cup again)
    <3> SUFFICES ASSUME NEW begin \in {first} \cup again, NEW other \in StopTimes,
                        NEW in \in MoveTimes, NEW out \in MoveTimes
                 PROVE  /\ Round + Lost + in < out + PATIENCE + other
                        /\ begin + Lost + in < scan + out + PATIENCE + other
      BY DEF Patient
    <3>1. begin \in 2 .. 116 /\ other \in 2 .. 9 /\ in \in 5 .. 8 /\ out \in 5 .. 8
      BY <1>2, <2>1
    <3> QED
      BY <1>1, <1>5, <3>1
  <2>4. {first} \cup again \in SUBSET Nat
    BY <1>2, <2>1
  <2> QED
    BY <2>2, <2>3, <2>4
<1> QED
  BY <1>2, <1>4, <1>5

\* A standby whose server scans Fast never gives its take-over up.
THEOREM HandOverIsNotRefused ==
  ASSUME FastScan, Patience
  PROVE  TimedSpec => []~refused
<1>1. TimedInv => ~refused
  BY FastIsTimely, TimelyHandOver DEF HandOver, NewInv, BeginsInTime, FastScan
<1> QED
  BY <1>1, TimedInvariant, PTL

\* The two hosts never both have the service address.
THEOREM HandOverKeepsOneAddress ==
  ASSUME TimelyScan
  PROVE  TimedSpec => []OneServiceAddress
<1>1. TimedInv => OneServiceAddress
  BY TimelyHandOver, Times
  DEF HandOver, OldInv, NewInv, OneServiceAddress, Host
<1> QED
  BY <1>1, TimedInvariant, PTL

\* And nobody answers at the service address only for the time of a stop, a
\* sleep between two pings, a lost ping and a move, besides a client's patience
\* if the standby has given up.
THEOREM HandOverOutage ==
  ASSUME TimelyScan
  PROVE  TimedSpec => []OutageBounded
<1>1. TimedInv => OutageBounded
  <2> SUFFICES ASSUME TimedInv
               PROVE  OutageBounded
    OBVIOUS
  <2>0. PICK scan \in ScanTimes, first \in StopTimes, B \in SUBSET Nat :
            Begins(scan, first, B) /\ HandOver(scan, first, B)
    BY TimelyHandOver
  <2>1. goneAt \in Nat /\ now \in Nat /\ refused \in BOOLEAN
    BY DEF TimedInv, TimedTypeOK
  <2> SUFFICES ASSUME NEW stop \in StopTimes, NEW move \in MoveTimes,
                      \A other \in StopTimes : other <= stop,
                      \A other \in MoveTimes : other <= move,
                      ~Answers
               PROVE  now - goneAt <= stop + move + 2 * PING_GAP + PING_SLEEP
                                       + PING_WAIT + IF refused THEN PATIENCE ELSE 0
    BY DEF OutageBounded
  <2> USE Times, RoundTimes
  <2>2. goneAt = scan /\ address[New] # "service"
    BY <2>0 DEF HandOver, OldInv, Answers, Host
  <2>3. PICK next \in B, in \in MoveTimes :
            Within(now, scan, next, Lost + in) /\ BeginsInTime(scan, first, next)
    BY <2>0, <2>2, StandbyIsOnItsWay DEF TimedInv, HandOver
  <2>4. next <= scan + Round + stop + IF refused THEN PATIENCE ELSE 0
    BY <2>1, <2>3 DEF BeginsInTime
  <2> QED
    BY <2>1, <2>2, <2>3, <2>4 DEF Within, Round, Lost
<1> QED
  BY <1>1, TimedInvariant, PTL

=============================================================================
