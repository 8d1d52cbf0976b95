SPECIFICATION ServerSpec
CONSTANTS
    h1 = h1
    Host <- MCHost
    LAST = 2
    ServiceIp = 1
    OtherMachines = {}
    CreateResults <- MCCreateResults
    MAX_COUNT = 6
INVARIANT StartsHeartBeatFirst
