\* A broadcast that may be refused, time out and run again.
SPECIFICATION FairSpec
CONSTANTS
    MaxLines = 2
    MaxRecipients = 2
    PerMinute = 2
    PerDay = 3
    Attempts = 2
    MaxTimeouts = 1
    MaxRefusals = 1
    MaxLostCallbacks = 1
CHECK_DEADLOCK FALSE
INVARIANTS NothingSilent LateAnswerCostsOneRow FullMinuteSuffices SettledRowIsFinal
PROPERTY RowsSettle
