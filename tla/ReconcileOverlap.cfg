SPECIFICATION FairSpec
CONSTANTS
    d1 = d1
    d2 = d2
    f1 = f1
    f2 = f2
    Passes = {w1, w2}
    Drivers = {d1}
    Flatcars = {f1}
    Extends = {}
    Specs <- PinnedRevised
    Clusters <- NoNodes
    Channels <- NoChannels
    Watching = FALSE
    Failing = {"build"}
    MaxFaults = 1
    MaxChanges = 1
PROPERTIES
    Converges
