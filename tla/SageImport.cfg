\* Two orders, all their suffixes, a replaced export and failing calls.
SPECIFICATION Spec
CONSTANTS
    Sheets = {a, b}
    Suffixes = {x, y}
    MaxRetries = 1
    MaxAttempts = 2
    MaxReplacements = 1
    MaxFaults = 2
CHECK_DEADLOCK FALSE
INVARIANTS AloneGetsOwnFile NeverSilent FreshIndex
