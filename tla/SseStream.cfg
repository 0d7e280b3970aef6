\* Two streams, for a broadcast to call one while the other's worker runs; one
\* notice more than a queue holds.
SPECIFICATION FairSseSpec
CONSTANTS
    Streams = {s1, s2}
    MaxQueue = 2
    MaxNotices = 3
INVARIANTS
    SseTypeOK
    NewestKept
    InOrder
    EndedIsForgotten
PROPERTIES
    NewestArrives
CHECK_DEADLOCK FALSE
