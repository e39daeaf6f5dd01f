SPECIFICATION BleSpec
CONSTANTS
    MaxRetries = 2
    loop = loop
    w1 = w1
    f1 = f1
    f2 = f2
    b1 = b1
    b2 = b2
    None = None
    Loop = loop
    Workers = {w1}
    Frames = {f1, f2}
    Bufs = {b1, b2}
INVARIANT UsesLiveValue
CHECK_DEADLOCK FALSE
