CONSTANTS
  c1 = c1
  c2 = c2
  Conn <- MCConn
  Limits <- MCLimits
  MaxPanics = 2
SPECIFICATION Spec
PROPERTY PanicIsContained
