\* A full compaction and one whose jobs end early and leave files behind.
CONSTANTS
    MaxHash = 2
    MaxFiles = 6
    MergeLimits = {3, 8}
SPECIFICATION SelectorSpec
CHECK_DEADLOCK FALSE
INVARIANTS
    JobsAreDisjoint
    MergesKeepOrder
