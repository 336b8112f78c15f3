SPECIFICATION FairSpec
CONSTANTS
    k1 = k1  k2 = k2  k3 = k3
    NoConn = NoConn
    Conns <- MCConns
    MayRefuse = TRUE
    MaxFaults = 2
    MaxPushes = 1
CHECK_DEADLOCK FALSE
INVARIANTS
    TypeOK
    OneConnection
    ReadyIsReal
    RulesBeforeRows
PROPERTY
    ResumesDecoding
