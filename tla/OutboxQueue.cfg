\* Saves overlap freely and may fail: what the queue and the loop keep to.
SPECIFICATION Spec
CONSTANTS
    Ids = {m1, m2}
    Loops = {d1, d2}
    NoId = NoId
    MaxAttempts = 2
    MaxSaves = 2
    MaxCrashes = 1
    MaxFsErrors = 1
CHECK_DEADLOCK FALSE
INVARIANTS OneDrain HeadStable NoLostWakeup DuplicatesAreExplained
    FirstDeliveriesInOrder NeverGivesUpEarly
