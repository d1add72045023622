\* Room for a compaction of four files that merges two and moves one.
CONSTANTS
    Key = {1, 2}
    Value = {v1}
    Deleted = Deleted
    NotFound = NotFound
    Writes <- OverlappingWrites
    MaxCoverage = 0
    MaxMerge = 8
    MaxSeq = 7
    MaxBatchFiles = 1
SPECIFICATION Spec
PROPERTY CompactionKeepsContents
