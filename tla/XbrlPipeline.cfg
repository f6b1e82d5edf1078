\* One run at a time: fetch, ingest, errors and crashes in both.
SPECIFICATION PipelineFairSpec
CONSTANTS
    c1 = c1
    c2 = c2
    r1 = r1
    r2 = r2
    Companies = {c1, c2}
    Runs = {r1}
    MaxPayload = 2
    MaxVersion = 2
    MaxFaults = 2
    Documents <- Growing
    Mode <- OneNormal
    Overlap = FALSE
    CheckAfter = 1
    MaxRetries = 1
    MaxArchive = 2
    MaxFailures = 2
INVARIANTS
    LineageIsDerived
    SucceededRunIsComplete
PROPERTIES
    ImplementsIngestion
    SucceededIsFinal
    PublishedIsDerived
