SPECIFICATION Spec
CONSTANTS
    UserIDs = {u1}
    ClientIDs = {c1}
    Names = {n1}
    Passwords = {none}
    ObjectTypes = {}
    FieldIDs = {}
    NoRow = NoRow
    Peers = {p1}
    Admins = {a1}
    MaxSecrets = 2
SYMMETRY Symmetry
PROPERTIES
    DeletedGetsNoToken
