\* An address that moves between two clients, a window with room for one of two
\* domains, several days, prune, a process death and failing writes.  The
\* behaviour stops at its bounds.
CHECK_DEADLOCK FALSE
CONSTANTS
    ip1 = ip1
    mac1 = mac1
    mac2 = mac2
    dom1 = dom1
    dom2 = dom2
    Other = Other
    Ip <- MCIp
    Mac <- MCMac
    Domain <- MCDomain
    Cap = 1
    FlushSecs = 2
    Day = 4
    DnsSecs = 3
    Start = 3
    MaxGap = 2
    StepBack = 0
    MaxNow = 8
    MaxQueries = 3
    MaxCrashes = 1
SYMMETRY Alike
SPECIFICATION Spec
INVARIANTS
    CountedOnce
    NeverSplit
    CapRespected
    QueriesConserved
    FiledNearItsDay
    TopIsExact
PROPERTY DnsBooksBalance
