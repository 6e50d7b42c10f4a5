SPECIFICATION FairSpec
CONSTANTS
    purchase = purchase
    refund = refund
    Events <- MCEvents
    Parent <- MCParent
    Callers = {c1}
    Relays = {r1}
    BatchSize = 1
    MaxAttempts = 2
    MaxThrows = 0
    MaxCrashes = 1
    None = None
PROPERTIES
    NoEventIsLost
