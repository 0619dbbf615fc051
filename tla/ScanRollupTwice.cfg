\* No crash, no failure, no clock change, one client with one name.
CHECK_DEADLOCK FALSE
CONSTANTS
    a = a
    b = b
    m = m
    Ip <- MCOneIp
    Id <- MCOneId
    NameTables <- MCOneNameTables
    Minute = 1
    Hour = 3
    Day = 6
    MinSecs = 2
    HourSecs = 12
    DaySecs = 24
    MaintPeriod = 2
    RealtimeCap = 2
    MinuteCap = 2
    Start = 3
    MaxGap = 1
    StepBack = 0
    MaxTicks = 12
    MaxCrashes = 0
    MaxFailures = 0
SPECIFICATION Spec
PROPERTY RollupIdempotent
