SPECIFICATION Spec
CONSTANTS
  p1 = p1
  p2 = p2
  s1 = s1
  s2 = s2
  a = a
  b = b
  c = c
  Relay = Relay
  Producers = {p1, p2}
  Subs = {s1, s2}
  On <- Places
  Msgs = {a, b, c}
  MsgLen <- LongC
  Outbox <- Mixed
  Cap <- Caps
  Slot <- Slots
  MaxSends <- TwoOne
INVARIANTS TypeOK FaithfulForwarding ReceivedWasForwarded PipeInv HeldBackByTheGone
PROPERTIES BothFanOut
CHECK_DEADLOCK FALSE
