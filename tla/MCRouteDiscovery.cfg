SPECIFICATION Spec
CONSTANTS
  Inline = FALSE
  Variants = TRUE
  Segment <- MCSegment
  Projects <- MCProjects
INVARIANTS
  TypeOK
  RoutesComplete
  RoutesKeepPrefix
  DetachedMeansUnused
  NearMissesHonest
PROPERTY Termination
