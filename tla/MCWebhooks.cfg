SPECIFICATION FairSpec
CONSTANTS
    Rows = {d1, d2}
    Dispatchers = {w1, w2}
    MaxAttempts = 2
    MaxReplays = 1
    MaxThrows = 1
    MaxCrashes = 1
    None = None
CHECK_DEADLOCK FALSE
INVARIANTS
    TypeOK
    ClaimedOnce
    OutcomeIsJustified
PROPERTIES
    EveryRowIsSettled
