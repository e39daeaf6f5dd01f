SPECIFICATION FairSpec
CONSTANTS
    a = a
    b = b
    c = c
    Producers = {a}
    N = 1
    SlotOf <- MCSlotOf
    Inputs <- MCInputs
    MaxSend <- MCMaxSend
    None = None
PROPERTY StopsAllThreads
CHECK_DEADLOCK FALSE
