SPECIFICATION Spec
CONSTANTS
    master = master
    slave = slave
    Host <- MCHost
    LAST = 3
    ServiceIp = 1
    OtherMachines = {}
    MAX_COUNT = 1
    CreateResults <- MCCreateErrors
    TIMEOUT_MAX = 1
    PING_MAX = 3
    CemsStarts <- MCCemsStarts
    ServiceStates <- MCServiceStates
    Master = master
    HomeIp <- MCHomeIp
    Faults = {"cems", "crash", "boot", "stop", "start", "fix"}
INVARIANTS
    RoleFitsAddress
    OneServerUnlessRaced
    
CHECK_DEADLOCK FALSE
