CONSTANTS
    Fds = {4, 5}
    ChanMod = 2
    UpBuf = 1
    DownBuf = 1
    Commands <- CmdEnter
    ChanArgs = {1}
    UserLists <- NoList
    Counted <- JustCreate
    MaxCounted = 1
SPECIFICATION Spec
PROPERTY CreatesNew
CHECK_DEADLOCK FALSE
