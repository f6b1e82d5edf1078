\* Two runs that may work on the same documents.
SPECIFICATION Spec
CONSTANTS
    Companies = {c1}
    Runs = {r1, r2}
    MaxPayload = 2
    MaxVersion = 2
    MaxFaults = 2
SYMMETRY XbrlSymmetry
INVARIANTS
    SucceededIsComplete
    SkippedIsStored
PROPERTIES
    FactsAreFinal
