SPECIFICATION FairSpec
CONSTANTS
    idx = idx
    img = img
    lone = lone
    pre = pre
    fresh = fresh
    None = None
    Repos = {1}
    Manifests = {idx, img}
    Tags = {1, 2}
    Dated = {idx, img}
    Passes = {w1, w2}
    Policies <- Everything
    MaxHistory = 1
    LostReplies = TRUE
    Crashes = TRUE
    MaxTime = 1
    MaxFaults = 1
    MaxWrites = 0
    MinAge = 1
    Versions = {1, 2, 3, 4}
    Home <- MCHome
    RepoOf <- MCRepoOf
    Children <- MCChildren
    Created <- MCCreated
    Recognized <- MCRecognized
    FlatcarOf <- MCFlatcarOf
    Initial <- MCInitial
INVARIANTS
    RecordTruthful
PROPERTIES
    PassesEnd
    GarbageCollected
