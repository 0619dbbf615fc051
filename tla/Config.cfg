\* The first section of the file, one option in it, and what follows.
CONSTANTS
    Width = 8
    Hour = 4
    Day = 12
    Kinds <- MCKinds
    Values <- MCValues
    IsPrefix <- MCIsPrefix
    Defaults <- MCDefaults
    MaxLines = 3
SPECIFICATION Spec
INVARIANT RetentionNotNegative
