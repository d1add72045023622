CONSTANTS
    MaxRequests = 2
    None = None
    Revalidate = 0
    MaxTime = 1
    MaxSource = 1
    MaxEvents = 2
    OverlapCost = 2
SPECIFICATION LiveSpec
CHECK_DEADLOCK FALSE
INVARIANTS
    NotTorn
    FreshAfterRevalidation
    ReadsDoNotGoBack
    OnDemandIsDurable
PROPERTY
    EveryAnswered
