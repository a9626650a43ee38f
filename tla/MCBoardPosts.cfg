SPECIFICATION Spec
CONSTANTS
    Complaints = {c1}
    Notices = {n1}
    NoPost = NoPost
    Requests = {r1, r2}
    MaxComments = 2
    MaxEvents = 2
SYMMETRY Symmetry
INVARIANTS
    TypeOK
    CommentsCounted
    ResolvedIsNotified
    OneEventPerPost
CHECK_DEADLOCK FALSE
