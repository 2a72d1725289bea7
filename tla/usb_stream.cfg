SPECIFICATION FairSpec
CONSTANTS
  A = A
  B = B
  x = x
  Probe = Probe
  Stray = Stray
  Bridges = {A, B}
  Ptys = {A}
  SelfTest = {A}
  Mortal = {A, B}
  MayLackBus = {A, B}
  Msgs = {x}
  Home <- HomeAB
  Bytes <- Magical
  Cap = 2
  Room = 5
  MaxFrame = 3
  LenSpace = 65536
  MaxSeq <- TwoEach
INVARIANTS SteadyInv GenuineFrames NothingSkipped PassIsEarned
PROPERTIES Resyncs EndsWithPeer
CHECK_DEADLOCK FALSE
