\* Three tasks, two callers: every dependency graph on three nodes.
SPECIFICATION MCSpec
CONSTANTS
    Tasks = {t1, t2, t3}
    Threads = {w1, w2}
    NoNote = NoNote
    NoJob = NoJob
    Unknown = Unknown
    Garbled = Garbled
SYMMETRY Symmetry
INVARIANTS
    TypeOK
    NoCircularWait
    ReadyUnlessHeld
    AnsweredAsNamed
\* The instance can use up its ids: with every task deleted nothing is left to call.
CHECK_DEADLOCK FALSE
