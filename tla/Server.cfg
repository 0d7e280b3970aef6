\* Two changes are enough for a save to be ahead of the stores or behind them.
SPECIFICATION ServerSpec
CONSTANTS
    Order <- MCOrder
    Restored <- MCRestored
    Snapshots <- MCSnapshots
    MaxChanges = 2
    Nothing = Nothing
    Absent = Absent
INVARIANTS
    ServerTypeOK
    NothingSavedIsLost
    NoSaveAfterStop
PROPERTIES
    IsSnapshotFile
    SnapshotIsRecent
