SPECIFICATION FairSpec
CONSTANTS
    Seeds = {r1, r2}
    NoValue = NoValue
    MaxCrashes = 5
INVARIANTS
    TypeOK
    SchemaBeforeVersion
    StoredPasswordsReadable
PROPERTIES
    InstalledStays
    ComesUpAgain
