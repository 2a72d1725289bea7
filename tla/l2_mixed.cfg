SPECIFICATION Spec
CONSTANTS
  A = A
  B = B
  C = C
  x = x
  y = y
  z = z
  Probe = Probe
  Bridges = {A, B, C}
  Msgs = {x, y}
  Home <- TwoWays
  Frags <- Long
  SelfTest = {}
  Cap = 2
  MaxFrame = 2
  IdSpace = 65536
  Lossy = FALSE
  MaxIds = 1
  MaxTaken = 1
INVARIANTS NeverMixed
CHECK_DEADLOCK FALSE
