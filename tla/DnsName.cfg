\* The parser stops at its result.
CHECK_DEADLOCK FALSE
CONSTANTS
    Packets <- MCPackets
    HeaderLen = 1
    MaxJumps = 5
    IsUtf8 <- MCIsUtf8
SPECIFICATION FairSpec
INVARIANTS
    ReadsInBounds
    NameIsEncoded
PROPERTIES
    WalkProgresses
    Terminates
