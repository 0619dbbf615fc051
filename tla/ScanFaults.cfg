\* One client over two days of two hours of three minutes: rows pass through
\* every tier and out of every retention, while one database statement may fail
\* and the process may die once.  The last scan allowed by MaxTicks is the last
\* step of a behaviour.
CHECK_DEADLOCK FALSE
CONSTANTS
    a = a
    b = b
    m = m
    Ip <- MCOneIp
    Id <- MCOneId
    NameTables <- MCChangingNameTables
    Minute = 1
    Hour = 3
    Day = 6
    MinSecs = 2
    HourSecs = 4
    DaySecs = 6
    MaintPeriod = 2
    RealtimeCap = 2
    MinuteCap = 2
    Start = 3
    MaxGap = 2
    StepBack = 0
    MaxTicks = 5
    MaxCrashes = 1
    MaxFailures = 1
SPECIFICATION Spec
INVARIANTS
    RingAgreesWithStore
PROPERTIES
    PrunedIsSummarised
    BooksBalance
