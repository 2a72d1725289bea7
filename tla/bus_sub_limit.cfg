SPECIFICATION Spec
CONSTANTS
  p1 = p1
  p2 = p2
  s1 = s1
  s2 = s2
  a = a
  b = b
  NoMsg = NoMsg
  Producers = {p1}
  Subscribers = {s1, s2}
  Msgs <- Msgs1
  MsgLen <- LenA
  Outbox <- Solo
  BufBytes <- BufBoth
  Cap = 2
  MaxSubs = 1
  SlotBytes = 2
  MaxClaims = 1
  JoinAnytime = FALSE
  Mortal = {}
INVARIANTS NoProducerPanics
CHECK_DEADLOCK FALSE
