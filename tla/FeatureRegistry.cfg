\* Two runs that may overlap, two edits, one fault.
SPECIFICATION FairSpec
CONSTANTS
    r1 = r1
    r2 = r2
    Runs = {r1, r2}
    NumFeatures = 2
    NumSets = 2
    Configs <- Releases
    MaxEdits = 2
    MaxFaults = 1
INVARIANTS
    RegisteredStays
PROPERTIES
    OnlyRefusalLeavesRows
    FreshIsRegistered
