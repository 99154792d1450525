\* Saves that do not overlap, crashes and stops anywhere.
SPECIFICATION FairSpec
CONSTANTS
    Ids = {m1, m2}
    Loops = {d1, d2}
    NoId = NoId
    MaxAttempts = 2
    MaxSaves = 1
    MaxCrashes = 2
    MaxFsErrors = 0
CHECK_DEADLOCK FALSE
PROPERTIES AcceptedIsFinished KeepsThePromise
