SPECIFICATION FairSpec
CONSTANTS
    alice = alice
    first = first
    second = second
    Users = {alice}
    Edges = {first, second}
    Referrer <- MCReferrer
    Applications = {a1}
    Slots = {s1, s2}
    Runners = {w1}
    Tenants = {t1}
    Own = t1
    Required = 2
    WindowDays = 2
    LastDay = 2
    MaxFaults = 1
    None = None
INVARIANTS
    TypeOK
    ApprovedIsPromoter
PROPERTIES
    PromotedIsEarned
    EarnedIsPromoted
