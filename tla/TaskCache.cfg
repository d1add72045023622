SPECIFICATION Spec
CONSTANTS
    Thread = {t1, t2}
    Type = {f, g}
    MaxCalls = 4
    MaxSnapshots = 2
    MaxFailures = 1
    MaxStops = 1
INVARIANTS
    NamesAreUnique
    FreeIdsAreFree
    OwnData
    DataIsNamed
CHECK_DEADLOCK FALSE
