SPECIFICATION LiveSpec
CONSTANTS
    Operation = {o1, o2}
    o1 = o1
    o2 = o2
    Steps = 2
    MaxSnapshots = 3
    MaxFailures = 1
    MaxCrashes = 2
INVARIANTS
    Quiescent
    SuspendsForSnapshot
    SavedIsComplete
PROPERTIES
    SnapshotsEnd
CHECK_DEADLOCK FALSE
