CONSTANTS
    w1 = w1
    w2 = w2
    MaxBuilds = 2
    Workers = {w1, w2}
    MaxUpsets = 2

SPECIFICATION FairSpec
INVARIANTS
    ReadyIsThere
    NoStaleEnvironmentSecrets
    OneArtifact
    NoneForgotten
PROPERTIES
    BuildsEnd
CHECK_DEADLOCK FALSE
