\* Two securities in batches of one: several target dates, overrides, failures,
\* aborted runs, rejected rows and actions published late.
SPECIFICATION Spec
CONSTANTS
    Securities = {s1, s2}
    Runs = {r1}
    MaxDate = 2
    Backfills = {1}
    Overrides = {1}
    OverlapDays = 1
    BatchSize = 1
    MaxFailedSecurities = 0
    RatioNum = 1
    RatioDen = 2
    MaxFaults = 2
    LateActions = TRUE
    MayReject = TRUE
SYMMETRY SecuritySymmetry
INVARIANTS
    SyncDatesAreStored
    SucceededRunAccountsForAll
    SucceededRunLeavesNoneBehind
