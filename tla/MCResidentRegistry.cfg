SPECIFICATION Spec
CONSTANTS
    Contacts = {c1, c2}
    Units = {u1}
    Complex = complex
    Apartments = {complex}
    ApartmentOf <- MCApartmentOf
    Roles = {"HOUSEHOLDER"}
    Requests = {r1, r2}
    MaxRows = 3
    MaxAccounts = 2
SYMMETRY Symmetry
INVARIANTS
    TypeOK
    LinkedAgree
    ApprovedHaveEntry
    OneNewcomerPerUnit
    ApprovalByManager
CHECK_DEADLOCK FALSE
