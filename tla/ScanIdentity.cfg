\* Two addresses, one MAC, names that change between scans, one process death.
\* The last scan allowed by MaxTicks is the last step of a behaviour.
CHECK_DEADLOCK FALSE
CONSTANTS
    a = a
    b = b
    m = m
    Ip <- MCIp
    Id <- MCId
    NameTables <- MCNameTables
    Minute = 2
    Hour = 4
    Day = 8
    MinSecs = 100
    HourSecs = 100
    DaySecs = 100
    MaintPeriod = 3
    RealtimeCap = 2
    MinuteCap = 2
    Start = 3
    MaxGap = 2
    StepBack = 0
    MaxTicks = 4
    MaxCrashes = 1
    MaxFailures = 0
SPECIFICATION Spec
INVARIANTS
    Conserved
    SpansDisjoint
    RowsWithinClientLife
    ReadersSeeOneScan
    ChartsAscend
    TotalIsOneScan
    TotalIsItsClients
PROPERTY MinuteRowsImmutable
