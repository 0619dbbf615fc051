\* The wall clock may be set back by up to two minutes between two scans.
\* The last scan allowed by MaxTicks is the last step of a behaviour.
CHECK_DEADLOCK FALSE
CONSTANTS
    a = a
    b = b
    m = m
    Ip <- MCOneIp
    Id <- MCOneId
    NameTables <- MCChangingNameTables
    Minute = 2
    Hour = 4
    Day = 8
    MinSecs = 3
    HourSecs = 5
    DaySecs = 8
    MaintPeriod = 2
    RealtimeCap = 2
    MinuteCap = 2
    Start = 9
    MaxGap = 2
    StepBack = 4
    MaxTicks = 4
    MaxCrashes = 1
    MaxFailures = 0
SPECIFICATION Spec
INVARIANT RowsMatchBuckets
