SPECIFICATION Spec
CONSTANTS
    Users = {u1}
    DedupeKeys = {n1}
    Dispatchers = {d1}
    Workers = {w1}
    Limit = 1
    MaxRetry = 3
    MaxFaults = 0
    NoKey = NoKey
INVARIANTS
    GuaranteedDelivery
