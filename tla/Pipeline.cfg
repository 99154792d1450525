\* One or two jobs and another client, over two days of two minutes, each a tick.
SPECIFICATION PipelineSpec
CONSTANTS
    Clients = {worker, other}
    Worker = worker
    PerMinute = 3
    PerDay = 4
    MinuteLen = 1
    DayLen = 2
    MinuteTtl = 2
    DayTtl = 3
    MaxLag = 1
    MaxTime = 2
    Broken = {"BroadcastHandler", "SageImportHandler"}
    Inbox <- MCInbox
    BroadcastAdmins <- MCAdmins
    SageAdmins <- MCAdmins
    StoredAliases <- MCStored
    EnvAliases <- MCEnv
    RelayTargets <- MCTargets
    MaxRecipients = 2
    MaxRetries = 1
    MaxFaults = 1
CHECK_DEADLOCK FALSE
INVARIANTS QuotaHolds RefusalsAreFree ReceiptAccountsForAll CountersTellRuns
