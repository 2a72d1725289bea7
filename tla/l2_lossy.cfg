SPECIFICATION Spec
CONSTANTS
  A = A
  B = B
  C = C
  x = x
  y = y
  z = z
  Probe = Probe
  Bridges = {A, B}
  Msgs = {x, y, z}
  Home <- AllAtA
  Frags <- Mixture
  SelfTest = {A}
  Cap = 2
  MaxFrame = 3
  IdSpace = 65536
  Lossy = TRUE
  MaxIds = 3
  MaxTaken = 3
INVARIANTS BridgeInv NeverMixed AcksAnswer
CHECK_DEADLOCK FALSE
