SPECIFICATION Spec
CONSTANTS
  Projects <- MCProjects
  MaxDepth = 5
  MaxExtractions = 10
  MaxFields = 2
  MaxRuns = 2
INVARIANTS
  TypeOK
  ExpandedOnce
  FieldsIndependent
  FirstReported
PROPERTIES
  ImplementsExpansion
