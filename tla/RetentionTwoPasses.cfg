SPECIFICATION Spec
CONSTANTS
    idx = idx
    img = img
    lone = lone
    pre = pre
    fresh = fresh
    None = None
    Repos = {1}
    Manifests = {idx, img, fresh}
    Tags = {1, 2, 4}
    Dated = {idx, img, fresh}
    Passes = {w1, w2}
    Policies <- Rolling
    MaxHistory = 0
    LostReplies = TRUE
    Crashes = TRUE
    MaxTime = 1
    MaxFaults = 1
    MaxWrites = 1
    MinAge = 1
    Versions = {1, 2, 3, 4}
    Home <- MCHome
    RepoOf <- MCRepoOf
    Children <- MCChildren
    Created <- MCCreated
    Recognized <- MCRecognized
    FlatcarOf <- MCFlatcarOf
    Initial <- MCInitial
SYMMETRY EachPass
INVARIANTS
    NextStepFound
    RecordExact
    TypeOK
    Intact
    PlanStillTrue
PROPERTIES
    OnlyForward
    OnlyGarbageVanishes
    SafeSpec
    SuccessLeavesNothing
