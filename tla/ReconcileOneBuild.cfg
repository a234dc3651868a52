SPECIFICATION Spec
CONSTANTS
    d1 = d1
    d2 = d2
    f1 = f1
    f2 = f2
    Passes = {w1}
    Drivers = {d1}
    Flatcars = {f1}
    Extends = {}
    Specs <- Rebuilt
    Clusters <- NoNodes
    Channels <- NoChannels
    Watching = FALSE
    Failing = {"build", "call", "crash"}
    MaxFaults = 2
    MaxChanges = 3
INVARIANTS
    TypeOK
    OneLiveJob
PROPERTIES
    SafeBuilding
