\* Commands of the caller meet those of a reconnection on the way.
SPECIFICATION FairMqttSpec
CONSTANTS
    Filters = {f1, f2, f3}
    MaxNotices = 2
    MaxOutbox = 2
    NoCall = NoCall
    NoHandler = NoHandler
INVARIANTS
    SettledAgree
    QuietAfterUnsubscribe
PROPERTIES
    HeardOnceUp
