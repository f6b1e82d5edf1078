\* One security, one run at a time, failures and crashes, history lengthened;
\* failures are finite and the asset keeps being materialised.
SPECIFICATION FairSpec
CONSTANTS
    Securities = {s1}
    Runs = {r1}
    MaxDate = 3
    Backfills = {1, 2}
    Overrides = {}
    OverlapDays = 0
    BatchSize = 1
    MaxFailedSecurities = 0
    RatioNum = 1
    RatioDen = 2
    MaxFaults = 2
    LateActions = FALSE
    MayReject = FALSE
INVARIANTS
    StoredActionsApplied
    NoInteriorGap
    RevealedActionsReconciled
PROPERTIES
    PublishedBarArrives
    FailureKeepsProgress
