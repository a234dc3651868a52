SPECIFICATION FairSpec
CONSTANTS
    Nodes = {n1}
    Versions = {f1, f2, other}
    Other = other
    Resources = {r1, r2}
    Debounce = 2
    MaxTime = 3
    MaxEvents = 3
    MaxLost = 1
    MaxRestarts = 1
INVARIANTS
    TypeOK
    NoChangeForgotten
PROPERTIES
    RateLimited
    Noticed
CHECK_DEADLOCK FALSE
