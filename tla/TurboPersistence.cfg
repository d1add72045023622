\* Batches of up to two files with large values, and compactions.
CONSTANTS
    Key = {1, 2}
    Value = {v1}
    Deleted = Deleted
    NotFound = NotFound
    Writes <- LargeWrites
    MaxCoverage = 0
    MaxMerge = 8
    MaxSeq = 6
    MaxBatchFiles = 2
SPECIFICATION Spec
INVARIANTS
    DirectoryIsExact
    RestartKeepsFiles
PROPERTIES
    FilesAreImmutable
    ImplementsKVStore
