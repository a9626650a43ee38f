SPECIFICATION FairSpec
CONSTANTS
    Users = {u1}
    DedupeKeys = {n1, n2}
    Dispatchers = {d1}
    Workers = {w1}
    Limit = 1
    MaxRetry = 2
    MaxFaults = 1
    NoKey = NoKey
PROPERTIES
    EventuallySettled
