\* Two workers, batches of up to two requests; a table of four tools, of which
\* the roles may use two, three and all.
SPECIFICATION MCSpec
CONSTANTS
    NoId = NoId
    NoRole = NoRole
    Malformed = Malformed
    NoPost = NoPost
    Workers = {w1, w2}
    Bodies <- MCBodies
    Registered <- MCRegistered
    Limits = {0, 1, 3}
    DefaultLimit = 2
    LimitCap = 2
SYMMETRY Symmetry
INVARIANTS
    OnlyPermittedRuns
    ToldIsTrue
    ListedIsCallable
PROPERTIES
    PagingAdvances
\* A client that stopped listing is done.
CHECK_DEADLOCK FALSE
