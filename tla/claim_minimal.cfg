\* A counterexample is expected.
CONSTANTS
    WordBits = 2
    ShortBits = 1
    MaxBlocks = 12
    SniffLines = 3
    Bodies <- MCWhole
    Owned <- MCOwned
SPECIFICATION FairSpec
INVARIANTS
    NoBlockTwice
CHECK_DEADLOCK FALSE
