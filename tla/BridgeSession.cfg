\* One tick of each process lands in a handshake; two attempts.
SPECIFICATION SessionSpec
CONSTANTS
    Sockets = {s1, s2, s3}
    NoSocket = NoSocket
    MaxRivals = 1
    MaxAttempts = 2
    Messages = {m1, m2, m3}
    NoMessage = NoMessage
    CacheSize = 2
CHECK_DEADLOCK FALSE
INVARIANTS OnlyATickAddsASocket FlagIsAboutASocket RevokedRests NoAttemptIsWasted
    CacheKeepsTheLatest
PROPERTY CorpseRevives
