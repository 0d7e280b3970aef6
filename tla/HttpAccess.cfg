\* A window of two ticks in four ticks: it slides past its own start.  Two
\* addresses, which must not share a budget; two tokens, for one to be revoked
\* or refreshed while another is good.
SPECIFICATION Spec
CONSTANTS
    Second = 2
    MaxTime = 3
    Keys = {k1, k2}
    Limit = 2
    Period = 1
    Tokens = {t1, t2}
    Ttl = 1
    Refreshers = {r1}
    NoToken = NoToken
    MaxPending = 1
SYMMETRY Symmetry
INVARIANT NeverOverLimit
PROPERTIES
    RefusedOnlyAtLimit
    RevokedForever
CHECK_DEADLOCK FALSE
