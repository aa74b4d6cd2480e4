SPECIFICATION Spec
CONSTANTS
    UserIDs = {u1}
    ClientIDs = {c1, c2}
    Names = {n1, n2}
    Passwords = {none}
    ObjectTypes = {}
    FieldIDs = {}
    NoRow = NoRow
    Peers = {p1}
    Admins = {a1, a2}
    MaxSecrets = 3
SYMMETRY Symmetry
INVARIANTS
    TypeOK
    AppMatchesStatus
    StaleSecretRefused
    CurrentSecretIsShown
PROPERTIES
    RoutingOnlyByCreation
    ConfigReopensAtEndOnly
    SecretsAuthorise
