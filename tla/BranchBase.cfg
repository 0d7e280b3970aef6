\* Two task branches, one thread.
SPECIFICATION BranchSpec
CONSTANTS
    Branches = {main, b1, b2}
    Main = main
    Elsewhere = elsewhere
    Changes = {c1}
    Threads = {w1}
    Idle = Idle
INVARIANT ForksFromBase
