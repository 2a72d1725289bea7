SPECIFICATION TsoSpec
CONSTANTS
  p1 = p1
  p2 = p2
  s1 = s1
  a = a
  b = b
  NoMsg = NoMsg
  Producers = {p1, p2}
  Subscribers = {s1}
  Msgs = {a, b}
  MsgLen <- LenTwo
  Outbox <- Mixed
  BufBytes <- Buf1
  Cap = 2
  MaxSubs = 1
  SlotBytes = 2
  MaxClaims = 3
  JoinAnytime = FALSE
  Mortal = {}
PROPERTIES TsoRefinesFanout FencedProgress CommittedArrives
CHECK_DEADLOCK FALSE
