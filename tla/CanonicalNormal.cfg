\* Overlapping runs over two companies in batches of one.
SPECIFICATION FairSpec
CONSTANTS
    Companies = {c1, c2}
    Derivations <- VariousDerivations
    Instant = FALSE
    Runs = {r1, r2}
    BatchSize = 1
    MaxDerivations = 2
    MaxFaults = 1
INVARIANTS
    ConflictHasCause
    RowIsBestOfItsFiling
    SucceededRunCoversFacts
PROPERTIES
    MetricsArrive
