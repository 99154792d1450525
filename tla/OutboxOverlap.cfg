\* Two saves in flight at once, and a crash.
SPECIFICATION Spec
CONSTANTS
    Ids = {m1, m2}
    Loops = {d1, d2}
    NoId = NoId
    MaxAttempts = 2
    MaxSaves = 2
    MaxCrashes = 1
    MaxFsErrors = 0
CHECK_DEADLOCK FALSE
INVARIANT AcceptedIsDurable
