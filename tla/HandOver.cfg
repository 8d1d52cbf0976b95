SPECIFICATION FairSpec
CONSTANTS
    master = master
    slave = slave
    Host <- MCHost
    LAST = 3
    ServiceIp = 1
    OtherMachines = {}
    MAX_COUNT = 1
    CreateResults <- MCCreateResults
    TIMEOUT_MAX = 1
    PING_MAX = 2
    CemsStarts <- MCCemsStarts
    ServiceStates <- MCServiceStates
    Master = master
    HomeIp <- MCHomeIp
    Faults = {"database", "loss", "crash"}
INVARIANTS
    HotBackupTypeOK
    OneServiceAddress
    ReplacedServerMoves
    
PROPERTIES
    ServiceReturns
    SurvivorServes
CHECK_DEADLOCK FALSE
