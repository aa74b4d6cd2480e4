SPECIFICATION Spec
CONSTANTS
    UserIDs = {u1, u2}
    ClientIDs = {c1}
    Names = {n1}
    Passwords = {none}
    EmptyPassword = none
    ObjectTypes = {}
    FieldIDs = {}
    NoRow = NoRow
    Handlers = {h1, h2, h3}
    AppOf <- CodeMount
    SystemClient = c2
    Rotates = TRUE
    DBFaults = TRUE
    MaxGrants = 2
SYMMETRY Symmetry
INVARIANTS
    TypeOK
    SessionConsistent
    SessionInv
    RefreshTokenKept
    TokensAreSeparate
PROPERTIES
    LogoutEndsSession
