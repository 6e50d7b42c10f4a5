SPECIFICATION FairSpec
CONSTANTS
    purchase = purchase
    refund = refund
    Events <- MCEvents
    Parent <- MCParent
    Callers = {c1, c2}
    Relays = {r1, r2}
    BatchSize = 2
    MaxAttempts = 2
    MaxThrows = 2
    MaxCrashes = 1
    None = None
INVARIANTS
    ClaimedByOneRelay
    DispatchedIsPublished
    HandledOnceWithoutFaults
    AcceptedIsScreened
    LinkedInTurn
PROPERTIES
    AcceptedIsHandled
