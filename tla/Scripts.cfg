SPECIFICATION FairScriptSpec
CONSTANTS
    h1 = h1
    h2 = h2
    Host <- MCHost
    LAST = 4
    ServiceIp = 1
    OtherMachines = {3}
    PING_MAX = 3
    CemsStarts <- MCCemsStarts
    ServiceStates <- MCServiceStates
INVARIANTS
    ScriptTypeOK
    UniqueUnlessRaced
    
PROPERTIES
    ScriptsEnd
    
