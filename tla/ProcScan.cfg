SPECIFICATION FairScanSpec
CONSTANTS
    m = m
    mt = mt
    p = p
    pt = pt
    Task <- MCTask
    Leader <- MCLeader
    Monitor <- MCMonitor
    DotDotWorks <- MCDotDot
INVARIANTS
    ScanTypeOK
    InOpenDirectory
    FindsMonitor
PROPERTY EndsOrSpins
CHECK_DEADLOCK FALSE
