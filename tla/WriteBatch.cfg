\* Three threads with collectors of two entries, one of them with a large value; two batches.
CONSTANTS
    Thread = {t1, t2, t3}
    Entry = {a, b, c, d, e}
    Large = {a}
    MaxEntries = 2
    MaxBatches = 2
SPECIFICATION LiveSpec
CHECK_DEADLOCK FALSE
INVARIANTS
    FilesAreExact
PROPERTY FinishReturns
