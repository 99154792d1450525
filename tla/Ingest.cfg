\* One message with a file, a fault of every process, two replays.
SPECIFICATION FairSpec
CONSTANTS
    Msgs = {m1}
    Documents = {m1}
    Deliveries = 2
    MaxRetries = 1
    MaxApiFaults = 1
    MaxRedisFaults = 1
    MaxWorkerFaults = 1
    MaxToolFaults = 1
    MaxReplays = 2
CHECK_DEADLOCK FALSE
INVARIANTS LossShowsInLedger HandledTwiceNeedsAFault HandledReadsProcessed
    DocumentKeepsItsBudget
PROPERTY TakenIsServed
