SPECIFICATION FairSpec
CONSTANTS
    Rewards = {a, b, c}
    Suspect = {a}
    Sale = Sale
    Compensations = {refund}
    Schedulers = {s1}
    Consumers = {c1}
    Reviewers = {v1}
    Cases = {k1}
    MaxCopies = 1
    BatchSize = 2
    MaxFaults = 0
    None = None
CHECK_DEADLOCK FALSE
PROPERTIES
    PendingSettles
