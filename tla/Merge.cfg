\* Two threads, which call in turn or at once.
SPECIFICATION MCSpec
CONSTANTS
    Branches = {main, b1}
    Main = main
    Elsewhere = elsewhere
    Changes = {c1, c2}
    Threads = {w1, w2}
    Idle = Idle
    Requests = {r1}
SYMMETRY Symmetry
INVARIANTS
    CompletedIsHeldInTurn
    NothingDamagedInTurn
    OnlyApprovedRuns
    RegistryMatchesGit
    RegisteredOnce
PROPERTIES
    OutcomeStaysInTurn
    CommitsLandInTurn
    ReviewedOnce
