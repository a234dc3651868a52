SPECIFICATION Spec
CONSTANTS
    idx = idx
    img = img
    lone = lone
    pre = pre
    fresh = fresh
    None = None
    Repos = {1, 2}
    Manifests = {idx, img, lone, pre}
    Tags = {1, 2, 3, 5}
    Dated = {idx, img, lone, pre}
    Passes = {w1}
    Policies <- Keeping
    MaxHistory = 2
    LostReplies = FALSE
    Crashes = FALSE
    MaxTime = 1
    MaxFaults = 2
    MaxWrites = 1
    MinAge = 1
    Versions = {1, 2, 3, 4}
    Home <- MCHome
    RepoOf <- MCRepoOf
    Children <- MCChildren
    Created <- MCCreated
    Recognized <- MCRecognized
    FlatcarOf <- MCFlatcarOf
    Initial <- MCInitial
INVARIANTS
    HistoriesTyped
    HistoryComplete
    RollbackDepth
