CONSTANTS
    Fds = {4, 5}
    ChanMod = 2
    UpBuf = 1
    DownBuf = 2
    Commands <- CmdMove
    ChanArgs = {0, 1}
    UserLists <- NoList
    Counted = {}
    MaxCounted = 0
SPECIFICATION Spec
INVARIANT JoinAddsOwnName
CHECK_DEADLOCK FALSE
