\* A flush outlives the interval.
SPECIFICATION Spec
CONSTANTS
    Msgs = {m1, m2, m3}
    Refused = {}
    Flushes = {f1, f2}
    Attempts = 2
    PendingLimit = 3
    MaxFailures = 7
    MaxExits = 0
CHECK_DEADLOCK FALSE
INVARIANT DelayedNotLost
