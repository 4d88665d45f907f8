CONSTANTS
    Fds = {4}
    ChanMod = 2
    UpBuf = 1
    DownBuf = 1
    Commands <- CmdMove
    ChanArgs = {0}
    UserLists <- NoList
    Counted = {}
    MaxCounted = 0
SPECIFICATION Spec
INVARIANT LoginIsCheckedFirst
CHECK_DEADLOCK FALSE
