\* Two clients that talk to each other and to one remote, connections reused in
\* both directions, listings that may lack one, a clock that may stand still or
\* be set back, one restart.  The behaviour stops at its bounds.
CHECK_DEADLOCK FALSE
CONSTANTS
    c1 = c1
    c2 = c2
    w = w
    Ip <- MCIp
    Lan <- MCLan
    Port <- MCPort
    Proto <- MCProto
    Gaps <- MCGaps
    MayMiss = TRUE
    MaxBytes = 2
    MaxOpens = 2
    MaxScans = 3
    MaxRestarts = 1
SYMMETRY MCSymmetry
SPECIFICATION Spec
INVARIANTS
    NeverOvercredited
    ExactUnlessReused
    TotalsBounded
    SummaryCoversAll
PROPERTIES
    RateIsTraffic
    TotalsNeverDrop
