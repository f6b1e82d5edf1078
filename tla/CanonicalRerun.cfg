\* Two figures with one end and different starts in a filing.
SPECIFICATION Spec
CONSTANTS
    Companies = {c1}
    Derivations <- TwoStarts
    Instant = FALSE
    Runs = {r1}
    BatchSize = 1
    MaxDerivations = 1
    MaxFaults = 0
INVARIANT
    RerunIsIdempotent
