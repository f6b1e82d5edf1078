\* The resource as it is declared, without retain_archives, and the configuration as
\* it is committed.
SPECIFICATION Spec
CONSTANTS
    c1 = c1
    c2 = c2
    Assets = {"catalog", "profiles"}
    Companies = {c1, c2}
    Codes = {"3571", "7372", "2834"}
    Exchanges = {"Nasdaq", "OTC"}
    Listing <- Changes
    Venues <- Moves
    Operating <- EntityTypes
    CandidateConfig <- CommittedConfig
    RetainArchives = "undeclared"
    BatchSize = 1
    MaxArchive = 3
    MaxTag <- Publications
    MaxDate = 2
    MaxFaults = 0
INVARIANT
    ProcessedIsRecorded
