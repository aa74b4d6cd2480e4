SPECIFICATION Spec
CONSTANTS
    Seeds = {r1, r2}
    NoValue = NoValue
    MaxCrashes = 3
INVARIANTS
    SecretsInstalled
