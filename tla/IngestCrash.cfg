\* The api dies between the ledger and the queue.
SPECIFICATION Spec
CONSTANTS
    Msgs = {m1}
    Documents = {}
    Deliveries = 2
    MaxRetries = 1
    MaxApiFaults = 1
    MaxRedisFaults = 0
    MaxWorkerFaults = 0
    MaxToolFaults = 1
    MaxReplays = 1
CHECK_DEADLOCK FALSE
INVARIANT NothingLost
