SPECIFICATION FairSpec
CONSTANTS
  A = A
  B = B
  C = C
  x = x
  y = y
  z = z
  Probe = Probe
  Bridges = {A, B}
  Msgs = {x, y}
  Home <- TwoWays
  Frags <- LongShort
  SelfTest = {}
  Cap = 5
  MaxFrame = 2
  IdSpace = 2
  Lossy = FALSE
  MaxIds = 1
  MaxTaken = 3
INVARIANTS FaithfulRelay RelayInv
PROPERTIES MessagesCross
CHECK_DEADLOCK FALSE
