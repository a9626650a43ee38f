SPECIFICATION Spec
CONSTANTS
    Users = {u1}
    Residents = {u1}
    Clients = {c1}
    Requests = {r1}
    Passwords = {p1}
    NoToken = NoToken
    NoCall = NoCall
    MaxLogins = 2
    MaxRows = 3
    MaxClock = 1
    AccessLifetime = 1
    Lifetime = 1
INVARIANT ResidentKeepsScope
CHECK_DEADLOCK FALSE
