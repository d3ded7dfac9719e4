SPECIFICATION Spec
CONSTANTS
  r = r
  g = g
  h = h
  a = a
  b = b
  c = c
  x = x
  Families = {"one", "pairs", "mixed", "unset"}
  Name <- MCName
  Segment <- MCSegment
  Seed <- MCSeed
  Programs <- MCPrograms
INVARIANTS
  TypeOK
  FramesMirrorScopes
  PinnedWhenStraight
