SPECIFICATION TimedSpec
CONSTANTS
    old = old
    new = new
    Old = old
    New = new
    ScanTimes <- MCSlowScan
    StopTimes <- MCStopTimes
    MoveTimes <- MCMoveTimes
    StartTimes <- MCStartTimes
    PING_GAP = 1
    PING_WAIT = 2
    PING_SLEEP = 10
    PING_MAX = 3
    CHECK_TIME = 5
    TIMEOUT_MAX = 6
INVARIANT OneServiceAddress
CHECK_DEADLOCK FALSE
