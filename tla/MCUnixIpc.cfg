SPECIFICATION FairSpec
CONSTANTS
    Clients = {c1}
    Workers = {w1, w2}
    NoOne = NoOne
    Chunks = 2
    MaxFrames = 2
    MaxPush = 2
    MaxInbox = 1
CHECK_DEADLOCK FALSE
INVARIANTS
    NoUseAfterFree
    FrameOnOpenFd
PROPERTIES
    SinkSpec
    FreedAfterHangUp
