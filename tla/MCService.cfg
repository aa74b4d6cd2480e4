SPECIFICATION FairSpec
CONSTANTS
    Configs = {default, k1}
    Default = default
    Missing = missing
    Broken = broken
    NoConfig = none
    Handlers = {h1, h2}
INVARIANTS
    TypeOK
    OAuthFollowsConfig
    DrainedBeforeClose
PROPERTIES
    ReloadApplies
    TerminateEnds
