SPECIFICATION LiveSpec
CONSTANTS
    leaf = leaf
    mid = mid
    root = root
    Task <- MCTask
    Root = root
    Value <- MCValue
    Err = Err
    Ok = Ok
    Missing = Missing
    NextRead <- MCNextRead
    Compute <- MCCompute
    Compared = {mid, root}
    Unserialized = {mid}
    Hinted = {leaf, mid}
    MaxChanges = 1
    MaxDrops = 1
INVARIANTS
    OneJob
    DirtyIsScheduled
    CalledHasOutput
    ReadsAreCurrent
    EdgesAreExact
PROPERTIES
    JobsEnd
CHECK_DEADLOCK FALSE
