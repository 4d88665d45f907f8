CONSTANTS
    Fds = {4, 5}
    ChanMod = 2
    UpBuf = 2
    DownBuf = 2
    Commands <- CmdAll
    ChanArgs = {0, 1}
    UserLists <- ListTwice
    Counted <- CmdAll
    MaxCounted = 4
SPECIFICATION Spec
INVARIANTS
    TypeOK
    FlaggedStillReadable
    OutboxMatchesList
    LoginAgreement
    ChatOnlyWhileLoggedIn
PROPERTY KeepsRooms
CHECK_DEADLOCK FALSE
