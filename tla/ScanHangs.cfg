SPECIFICATION FairScanSpec
CONSTANTS
    m = m
    mt = mt
    p = p
    pt = pt
    Task <- MCTask
    Leader <- MCLeader
    Monitor <- MCMonitor
    DotDotWorks <- MCDotDot
PROPERTY ScanReturns
CHECK_DEADLOCK FALSE
