SPECIFICATION Spec
CONSTANTS
    Users = {u1}
    Residents = {u1}
    Clients = {c1, c2}
    Requests = {r1, r2}
    Passwords = {p1, p2}
    NoToken = NoToken
    NoCall = NoCall
    MaxLogins = 2
    MaxRows = 3
    MaxClock = 1
    AccessLifetime = 1
    Lifetime = 1
SYMMETRY Symmetry
INVARIANTS
    TypeOK
    EndedStaysEnded
    OneTokenPerUser
    ClientKeepsSession
CHECK_DEADLOCK FALSE
