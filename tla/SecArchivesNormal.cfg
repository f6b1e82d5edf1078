\* Both assets, three archives, one published again, two dates.
SPECIFICATION FairSpec
CONSTANTS
    c1 = c1
    c2 = c2
    Assets = {"catalog", "profiles"}
    Companies = {c1, c2}
    Codes = {"3571", "7372", "2834"}
    Exchanges = {"Nasdaq", "OTC"}
    Listing <- Changes
    Venues <- Moves
    Operating <- EntityTypes
    CandidateConfig <- TestConfig
    RetainArchives = "no"
    BatchSize = 1
    MaxArchive = 3
    MaxTag <- Publications
    MaxDate = 2
    MaxFaults = 1
INVARIANTS
    StoredCoversRecorded
    ValidatorMatchesArchive
    ClassificationsFollowArchive
PROPERTIES
    ImplementsDating
    NewArchiveArrives
