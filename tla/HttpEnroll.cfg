\* One token, printed by --enroll and shown to a server that runs.
SPECIFICATION Spec
CONSTANTS
    Second = 1
    MaxTime = 2
    Keys = {k1}
    Limit = 1
    Period = 1
    Tokens = {t1}
    Ttl = 1
    Refreshers = {r1}
    NoToken = NoToken
    MaxPending = 1
INVARIANTS
    EnrolledIsAccepted
CHECK_DEADLOCK FALSE
