SPECIFICATION FilesSpec
CONSTANTS
    t1 = t1
    t2 = t2
    Nobody = Nobody
    Threads = {t1, t2}
    MAX_SLOTS = 4
    PER_SLOT_CAP = 5
    MaxLine = 2
    RingSize = 2
    RecLen = 2
    KMSG_CAP = 5
    MaxRecords = 6
    Pids = {1, 2, 3, 4}
    MAX_PROCS = 3
    TOP_N = 2
    MaxTicks = 2
    w1 = w1
    w2 = w2
    Writers = {w1, w2}
    Inodes = {1, 2, 3, 4}
    Empty = Empty
    Torn = Torn
    OldZone = OldZone
    Zone = Zone
    NoFile = NoFile
INVARIANTS NothingSkipped TopIsTop HomeWhole ZoneIsSet
PROPERTIES KeepsRecent MarkerIsLast PersistHonest
CHECK_DEADLOCK FALSE
