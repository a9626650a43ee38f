SPECIFICATION FairSpec
CONSTANTS
    Polls = {p1}
    Voters = {v1}
    Choices = {c1, c2}
    Buildings = {}
    Everyone = Everyone
    NoHome = NoHome
    Admins = {a1}
    Requests = {}
    Runs = {s1, s2}
    Horizon = 3
    MaxEdits = 2
    MaxFaults = 2
INVARIANTS
    DatesInOrder
    OneResultNotice
    ClosedIsAnnounced
PROPERTIES
    StartedIsSettled
    EventuallyClosed
