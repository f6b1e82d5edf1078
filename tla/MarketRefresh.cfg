\* Two companies, three securities, two scans per run.
SPECIFICATION FairSpec
CONSTANTS
    c1 = c1
    c2 = c2
    s1 = s1
    s2 = s2
    s3 = s3
    Companies = {c1, c2}
    Securities = {s1, s2, s3}
    Company <- CompanyOf
    Ticker <- TickerOf
    LastSession = 3
    LiquidityLookback = 2
    DataProfile <- Reports
    MinimumAnnual = 3
    MinimumCoverage = 8
    MinimumHistory = 2
    MinimumVolume = 2
    MaximumMissing = 1
    MaximumAge = 1
    InBuckets = {c1}
    IncludeCiks = {}
    IncludeTickers = {2}
    ExcludeCiks = {}
    ExcludeTickers = {}
    Histories <- Listings
    Limit = 2
    RefreshAfter = 1
    RetryAfter = 1
    Volatile = {s2}
    MaxFaults = 1
PROPERTIES
    MembersQualify
    OnlyDisplaced
    ScoringFollows
    DueIsScanned
    Recovers
