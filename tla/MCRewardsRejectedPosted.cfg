SPECIFICATION Spec
CONSTANTS
    Rewards = {a}
    Suspect = {a}
    Sale = Sale
    Compensations = {}
    Schedulers = {s1}
    Consumers = {c1}
    Reviewers = {v1}
    Cases = {k1}
    MaxCopies = 1
    BatchSize = 1
    MaxFaults = 0
    None = None
CHECK_DEADLOCK FALSE
PROPERTIES
    RejectedNeverPosts
