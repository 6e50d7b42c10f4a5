SPECIFICATION Spec
CONSTANTS
    Rewards = {a}
    Suspect = {a}
    Sale = Sale
    Compensations = {refund}
    Schedulers = {s1, s2}
    Consumers = {c1, c2}
    Reviewers = {v1}
    Cases = {k1}
    MaxCopies = 2
    BatchSize = 1
    MaxFaults = 1
    None = None
CHECK_DEADLOCK FALSE
SYMMETRY Symmetry
INVARIANTS
    CancelledNotPaid
    WalletFollowsLedger
    GrantedAtMostOnce
    DeductedAtMostOnce
PROPERTIES
    CancelledForGood
