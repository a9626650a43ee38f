SPECIFICATION Spec
CONSTANTS
    Users = {u1}
    Residents = {u1}
    Clients = {c1}
    Requests = {r1}
    Passwords = {p1}
    NoToken = NoToken
    NoCall = NoCall
    MaxLogins = 1
    MaxRows = 2
    MaxClock = 1
    AccessLifetime = 2
    Lifetime = 2
PROPERTY LogoutEndsSession
CHECK_DEADLOCK FALSE
