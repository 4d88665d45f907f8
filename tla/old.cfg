CONSTANTS
    Fds = {4, 5}
    ChanMod = 2
    UpBuf = 2
    DownBuf = 1
    Commands <- CmdAll
    ChanArgs = {0, 1}
    UserLists <- ListOlder
    Counted <- CmdAll
    MaxCounted = 4
SPECIFICATION FairSpec
INVARIANT CallerIsNewest
PROPERTIES
    OnlyNewestHeard
    KeepsRooms
    NewestIsHeard
CHECK_DEADLOCK FALSE
