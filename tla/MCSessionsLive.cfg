SPECIFICATION LiveSpec
CONSTANTS
    UserIDs = {u1}
    ClientIDs = {c1, c2}
    Names = {n1, n2}
    Passwords = {none, p1}
    EmptyPassword = none
    ObjectTypes = {}
    FieldIDs = {}
    NoRow = NoRow
    Handlers = {h1, h2}
    AppOf <- MixedMounts
    SystemClient = c2
    Rotates = FALSE
    DBFaults = TRUE
    MaxGrants = 2
PROPERTIES
    GrantIsAnswered
