SPECIFICATION Spec
CONSTANTS
  p1 = p1
  p2 = p2
  s1 = s1
  s2 = s2
  a = a
  b = b
  NoMsg = NoMsg
  Producers = {p1, p2}
  Subscribers = {s1, s2}
  Msgs <- Msgs2
  MsgLen <- LenOne
  Outbox <- OneEach
  BufBytes <- BufBoth
  Cap = 1
  MaxSubs = 2
  SlotBytes = 2
  MaxClaims = 3
  JoinAnytime = FALSE
  Mortal = {}
INVARIANTS NoOverrun ReaderUndisturbed
PROPERTIES CountersGrow RefinesFanout
SYMMETRY SwapSubs
CHECK_DEADLOCK FALSE
