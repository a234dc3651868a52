SPECIFICATION FairSpec
CONSTANTS
    d1 = d1
    d2 = d2
    f1 = f1
    f2 = f2
    Passes = {w1}
    Drivers = {d1}
    Flatcars = {f1, f2}
    Extends = {}
    Specs <- Following
    Clusters <- AnyNodes
    Channels <- Latest
    Watching = FALSE
    Failing = {"build", "jobs", "call", "crash"}
    MaxFaults = 1
    MaxChanges = 2
PROPERTIES
    Converges
    NoRebuild
