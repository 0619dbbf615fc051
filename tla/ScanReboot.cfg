\* One client, one process death, no failure, no clock change.
CHECK_DEADLOCK FALSE
CONSTANTS
    a = a
    b = b
    m = m
    Ip <- MCOneIp
    Id <- MCOneId
    NameTables <- MCOneNameTables
    Minute = 1
    Hour = 3
    Day = 6
    MinSecs = 8
    HourSecs = 12
    DaySecs = 24
    MaintPeriod = 20
    RealtimeCap = 2
    MinuteCap = 4
    Start = 3
    MaxGap = 1
    StepBack = 0
    MaxTicks = 5
    MaxCrashes = 1
    MaxFailures = 0
SPECIFICATION Spec
INVARIANT HistorySurvivesReboot
