---------------------------- MODULE MCTimedHandOver ----------------------------
(* The durations of the scripts and of the client; those of commands vary. *)
(* An answered ping takes a second, so that a scan lasts as many seconds as *)
(* machines are in a row from address 2 on, and 3 more.                    *)
EXTENDS TimedHandOver

CONSTANTS old, new

MCScanTimes == (3 .. 23) \cup {60, 90}
MCSlowScan == {30}
MCStopTimes == {2, 5, 9}
MCMoveTimes == {5, 8}
MCStartTimes == {3, 20}

=============================================================================
