SPECIFICATION Spec
CONSTANTS
    Polls = {p1}
    Voters = {v1, v2}
    Choices = {c1}
    Buildings = {b1}
    Everyone = Everyone
    NoHome = NoHome
    Admins = {a1}
    Requests = {q1, q2}
    Runs = {s1}
    Horizon = 2
    MaxEdits = 1
    MaxFaults = 0
SYMMETRY Symmetry
INVARIANTS
    TypeOK
    BallotBox
    VotesInTimeCount
PROPERTIES
    VotesAreKept
    HeldByTheRules
