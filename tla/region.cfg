SPECIFICATION Spec
CONSTANTS
  c1 = c1
  c2 = c2
  o1 = o1
  Creators = {c1, c2}
  Openers = {o1}
  Geo <- Shapes
  MaxSubs = 2
  MaxClaims = 1
  CacheLine = 2
  HeaderSize = 2
  SlotSize = 2
INVARIANTS TypeOK SameGeometry OwnCursor RegionInv
PROPERTIES FreshRegion
CHECK_DEADLOCK FALSE
