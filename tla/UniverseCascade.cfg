\* The three universes, runs of different universes interleaved, a second run
\* on one date and a second deployment.
SPECIFICATION Spec
CONSTANTS
    Companies = {c1}
    Securities = {s1, s2}
    Materialised = {"candidate", "training", "scoring"}
    Runs = {r1, r2}
    MaxDate = 2
    MaxConfig = 2
    Overlap = FALSE
    SameDay = {"scoring"}
SYMMETRY UniverseSymmetry
INVARIANTS
    MembersComeFromParent
PROPERTIES
    ImplementsDating
    DefinitionIsBinding
    RunAppliesDecision
