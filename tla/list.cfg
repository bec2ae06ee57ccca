\* Every one and two ranges of an address space of 16.
CONSTANTS
    WordBits = 2
    ShortBits = 1
    MaxBlocks = 12
    SniffLines = 3
    Bodies <- MCBodies
    Owned <- MCOwned
SPECIFICATION FairSpec
INVARIANTS
    TypeOK
    ParsedExactly
    WholeFeedRead
    ColumnIsDetermined
    Tiling
    Canonical
    OwnSpared
PROPERTIES
    Finishes
CHECK_DEADLOCK FALSE
