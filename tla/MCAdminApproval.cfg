SPECIFICATION Spec
CONSTANTS
    Admins = {a1, a2, a3}
    Requests = {r1, r2}
SYMMETRY Symmetry
INVARIANTS
    TypeOK
    ApartmentWithAdmin
    InStepUnlessStrayed
PROPERTIES
    DecisionsStand
    UndecidedNotCleaned
