SPECIFICATION Spec
CONSTANTS
    UserIDs = {u1}
    ClientIDs = {c1}
    Names = {n1}
    Passwords = {none}
    EmptyPassword = none
    ObjectTypes = {}
    FieldIDs = {}
    NoRow = NoRow
    Handlers = {h1, h2}
    AppOf <- CodeMount
    SystemClient = c2
    Rotates = FALSE
    DBFaults = FALSE
    MaxGrants = 2
SYMMETRY Symmetry
PROPERTIES
    CallbackReportsStoredToken
