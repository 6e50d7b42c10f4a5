SPECIFICATION FairSpec
CONSTANTS
    Redemptions = {r1}
    Payouts = {p1}
    Reservers = {w1, f1}
    Finishers = {f1, f2}
    GrantLimit = 2
    Deltas <- MCUnitDeltas
    Amounts = {1}
    MaxDeaths = 1
    NoHold = NoHold
CHECK_DEADLOCK FALSE
INVARIANTS
    SentIsInLedger
PROPERTIES
    CheckoutSettles
