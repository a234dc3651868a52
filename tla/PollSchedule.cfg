SPECIFICATION FairSpec
CONSTANTS
    Resources = {r1}
    Channels = {c1, c2}
    Flaky = {c2}
    MaxRelease = 1
    MaxEdits = 1
    MaxFailing = 1
    Jobs = {j1, j2}
    History = 1
    Attempts = 2
    MaxUpgrades = 1
INVARIANTS
    TypeOK
    SuccessMeansCurrent
    ArchiveResumable
PROPERTIES
    FailuresNoted
    NeverBack
    FollowedUnlessStuck
CHECK_DEADLOCK FALSE
