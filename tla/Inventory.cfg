SPECIFICATION FairSpec
CONSTANTS
    outer = outer
    inner = inner
    shared = shared
    single = single
    None = None
    Repos = {1}
    Manifests = {outer, inner, shared, single}
    Tags = {1, 2, 3, 4}
    Home <- MCHome
    RepoOf <- MCRepoOf
    Children <- MCChildren
    Initial <- MCInitial
    Servers = {"public", "private", "looping"}
    PageSize = 1
    MaxPuts = 1
    MaxDrops = 4
    MaxFaults = 1
INVARIANTS
    TypeOK
    ListingComplete
    InventoryClosed
    FailureExplained
PROPERTIES
    InventoryAdvances
    InventoryEnds
CHECK_DEADLOCK FALSE
