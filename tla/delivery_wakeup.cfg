SPECIFICATION FairSpec
CONSTANTS
    Reader = {r}
    Packet = {p, q}
    ChanSize = 1
PROPERTY QueuedIsRead
CHECK_DEADLOCK FALSE
