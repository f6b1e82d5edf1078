\* Two processes, one of which refreshes by force, and failed attempts.
SPECIFICATION FairSpec
CONSTANTS
    r1 = r1
    r2 = r2
    Runs = {r1, r2}
    Mode <- OneForced
    Overlap = TRUE
    CheckAfter = 1
    MaxRetries = 1
    MaxArchive = 2
    MaxFaults = 1
INVARIANTS
    NamedIsStored
    StoredIsWhole
PROPERTIES
    NewestIsNamed
