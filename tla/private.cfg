CONSTANTS
    Socks = {4, 5, 6}
    MaxClients = 2
    MaxConnects = 3
    MaxTyped = 3
    MayStall = {4, 5}
    MaxJoins = 3
SPECIFICATION FairSpec
INVARIANTS
    TypeOK
    NothingElseVanishes
    MainReadsAtOnce
PROPERTIES
    PrivateStaysPrivate
    LeaveReturns
CHECK_DEADLOCK FALSE
