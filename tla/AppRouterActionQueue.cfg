\* Four dispatches of any kind, two of whose promises may reject.
CONSTANTS
    MaxDispatches = 4
    MaxRejections = 2
SPECIFICATION LiveSpec
CHECK_DEADLOCK FALSE
INVARIANTS
    PendingMoves
    QueueInOrder
    ShownIsCurrent
PROPERTIES
    BuildsOnCurrent
    DispatchedRuns
