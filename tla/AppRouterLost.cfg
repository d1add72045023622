\* Three dispatches whose promises all resolve.
CONSTANTS
    MaxDispatches = 3
    MaxRejections = 0
SPECIFICATION Spec
CHECK_DEADLOCK FALSE
INVARIANT QueuedIsWaiting
