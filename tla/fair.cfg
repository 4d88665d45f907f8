CONSTANTS
    Fds = {4, 5}
    ChanMod = 2
    UpBuf = 1
    DownBuf = 1
    Commands <- CmdStay
    ChanArgs = {0}
    UserLists <- NoList
    Counted = {}
    MaxCounted = 0
SPECIFICATION FairSpec
PROPERTIES
    EveryConnectionAccepted
    EveryPacketReported
    EveryVisitHappens
    LoginIsLearned
CHECK_DEADLOCK FALSE
