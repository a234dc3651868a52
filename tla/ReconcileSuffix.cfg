SPECIFICATION Spec
CONSTANTS
    d1 = d1
    d2 = d2
    f1 = f1
    f2 = f2
    Passes = {w1}
    Drivers = {d1, d2}
    Flatcars = {f1}
    Extends <- Suffixed
    Specs <- BothDrivers
    Clusters <- NoNodes
    Channels <- NoChannels
    Watching = TRUE
    Failing = {}
    MaxFaults = 0
    MaxChanges = 0
INVARIANTS
    ReadyWasBuilt
