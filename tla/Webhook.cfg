\* Flushes overlap, the buffer overflows, the bridge exits.
SPECIFICATION FairSpec
CONSTANTS
    Msgs = {m1, m2, m3}
    Refused = {m3}
    Flushes = {f1, f2}
    Attempts = 2
    PendingLimit = 2
    MaxFailures = 7
    MaxExits = 1
CHECK_DEADLOCK FALSE
INVARIANTS LossNeedsARace BufferHasTimer FlushesInOrder
PROPERTY AllArrive
