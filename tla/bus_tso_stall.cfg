SPECIFICATION TsoSpec
CONSTANTS
  p1 = p1
  p2 = p2
  s1 = s1
  a = a
  b = b
  NoMsg = NoMsg
  Producers = {p1, p2}
  Subscribers = {}
  Msgs = {a}
  MsgLen <- LenA
  Outbox <- BothA
  BufBytes <- NoBuf
  Cap = 2
  MaxSubs = 1
  SlotBytes = 1
  MaxClaims = 4
  JoinAnytime = FALSE
  Mortal = {}
PROPERTIES PublishReturns
CHECK_DEADLOCK FALSE
