SPECIFICATION Spec
CONSTANTS
  p1 = p1
  p2 = p2
  s1 = s1
  s2 = s2
  a = a
  b = b
  NoMsg = NoMsg
  Producers = {p1, p2}
  Subscribers = {s1}
  Msgs <- Msgs1
  MsgLen <- LenA
  Outbox <- BothA
  BufBytes <- BufOne
  Cap = 1
  MaxSubs = 1
  SlotBytes = 2
  MaxClaims = 3
  JoinAnytime = TRUE
  Mortal = {}
INVARIANTS NoOverrun
CHECK_DEADLOCK FALSE
