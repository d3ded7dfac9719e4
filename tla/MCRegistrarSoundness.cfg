SPECIFICATION SoundSpec
CONSTANTS
  r = r
  g = g
  h = h
  a = a
  b = b
  c = c
  x = x
  Families = {"one", "pairs", "nested", "mixed"}
  Name <- MCName
  Segment <- MCSegment
  Seed <- MCSeed
  Programs <- MCPrograms
  Foreign <- MCForeign
  MaxCalls = 2
  MaxLaps = 2
INVARIANT RoutesHoldTheirPrefix
