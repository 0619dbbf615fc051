CONSTANTS
  c1 = c1
  c2 = c2
  Conn <- MCConn
  Limits <- MCLimits
  MaxPanics = 1
SPECIFICATION FairSpec
INVARIANTS HolderIsInside AnswersAreWhole
PROPERTIES RequestsEnd ScanLoopRuns FlushesGetTheMutex ListenerComesUp
