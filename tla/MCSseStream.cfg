SPECIFICATION FairSpec
CONSTANTS
    Streams = {s1, s2}
    Notifications = {n1, n2}
    MaxFaults = 1
INVARIANTS
    RegistryFollows
PROPERTIES
    EventuallyShown
CHECK_DEADLOCK FALSE
