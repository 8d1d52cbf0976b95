SPECIFICATION FairDaemonSpec
CONSTANTS
    h1 = h1
    Host <- MCHost
    LAST = 3
    ServiceIp = 1
    OtherMachines = {}
    CreateResults <- MCCreateResults
    MAX_COUNT = 6
    TIMEOUT_MAX = 6
INVARIANTS
    DaemonTypeOK
    OneRole
    OrderOnlyWhenFailing
    ScriptFromInstallDir
    OneHeartBeat
    OrderIsFinal
    TakesOverForCause
PROPERTIES
    FlagsHold
    JoinReturns
    DecidesToHandOver
    SilenceLeadsToTakeOver
