CONSTANTS
    Fds = {4, 5}
    ChanMod = 2
    UpBuf = 1
    DownBuf = 1
    Commands <- CmdCreate
    ChanArgs = {0}
    UserLists <- ListOlder
    Counted <- CmdCreate
    MaxCounted = 4
SPECIFICATION Spec
PROPERTY ListedAreAdded
CHECK_DEADLOCK FALSE
