\* Every store of up to three tasks, every pair of arguments.
\* The search ends, and then nothing is left to do.
CHECK_DEADLOCK FALSE
SPECIFICATION FairSpec
CONSTANTS
    Tasks = {t1, t2, t3}
    Threads = {}
    NoNote = NoNote
INVARIANT AnswersRight
PROPERTY Terminates
