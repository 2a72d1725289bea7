SPECIFICATION Spec
CONSTANTS
  p1 = p1
  p2 = p2
  s1 = s1
  s2 = s2
  a = a
  b = b
  NoMsg = NoMsg
  Producers = {p1, p2}
  Subscribers = {s1, s2}
  Msgs <- Msgs2
  MsgLen <- LenTwo
  Outbox <- OneEach
  BufBytes <- BufBoth
  Cap = 2
  MaxSubs = 1
  SlotBytes = 2
  MaxClaims = 3
  JoinAnytime = FALSE
  Mortal = {p1, s1}
INVARIANTS TypeOK CoreInv AdvanceInv ReaderInv OrderInv ContiguousPrefix SlotExclusive NoOrphanClaim NoLostAdvance InOrderDelivery
CHECK_DEADLOCK FALSE
