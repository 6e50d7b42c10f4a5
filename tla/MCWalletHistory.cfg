SPECIFICATION HistorySpec
SYMMETRY Slots
CONSTANTS
    s1 = s1
    s2 = s2
    Redemptions = {r1}
    Payouts = {p1}
    Reservers = {s1, s2}
    Finishers = {s1, s2}
    GrantLimit = 2
    Deltas <- MCDeltas
    Amounts = {1, 2}
    MaxDeaths = 1
    NoHold = NoHold
CHECK_DEADLOCK FALSE
INVARIANTS
    NoOverdraft
    CreditsConserved
    PayoutTablesAgree
PROPERTIES
    SettledOnce
    ImplementsBank
