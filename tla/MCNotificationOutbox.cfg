SPECIFICATION Spec
CONSTANTS
    Users = {u1}
    DedupeKeys = {n1}
    Dispatchers = {d1, d2}
    Workers = {w1, w2, w3}
    Limit = 1
    MaxRetry = 3
    MaxFaults = 2
    NoKey = NoKey
SYMMETRY Symmetry
INVARIANTS
    TypeOK
    Paired
    RetryBound
    NeverStranded
    NoFalseDelivery
    ExclusiveClaim
    RelayedOnce
    AgreeAtRest
PROPERTY
    Delivery
