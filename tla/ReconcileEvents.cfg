SPECIFICATION FairSpec
CONSTANTS
    d1 = d1
    d2 = d2
    f1 = f1
    f2 = f2
    Passes = {w1}
    Drivers = {d1}
    Flatcars = {f1}
    Extends = {}
    Specs <- ModeSwitched
    Clusters <- NoNodes
    Channels <- NoChannels
    Watching = TRUE
    Failing = {"build", "jobs", "call", "crash"}
    MaxFaults = 1
    MaxChanges = 1
INVARIANTS
    ReadyWasBuilt
PROPERTIES
    Converges
