SPECIFICATION WireSpec
CONSTANTS
    plain = plain
    utf8 = utf8
    sae = sae
    hidden = hidden
    loop = loop
    w1 = w1
    f1 = f1
    f2 = f2
    b1 = b1
    b2 = b2
    None = None
    MaxRetries = 2
    Loop = loop
    Workers = {w1}
    Frames = {f1, f2}
    Bufs = {b1, b2}
    Lens <- MCLens
    MaxEntries = 11
    Headers <- MCHeaders
    Payloads <- MCPayloads
    MaxFrames = 2
    Near = 2
    Bss <- MCBss
    Escaped = {utf8}
    Words <- MCWords
    Hidden = hidden
    MaxBss = 3
    OutCap = 2
INVARIANT EachEntryOnce
INVARIANT EndsOnce
INVARIANT HandlesWholeFrames
INVARIANT ListsTheAir
INVARIANT FindsTarget
INVARIANT AdvertisesLiveApp
INVARIANT SerialSendsKeepValue
PROPERTY LoopsEnd
PROPERTY ComesUp
PROPERTY LoopRuns
CHECK_DEADLOCK FALSE
