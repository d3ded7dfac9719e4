SPECIFICATION Spec
CONSTANTS
  Name = {"a", "b", "c", "d", "g", "p", "q", "T", "U", "V", "W"}
  Projects <- MCProjects
  MaxDepth = 3
  MaxExtractions = 3
INVARIANTS
  TypeOK
  FieldsAsEncoded
  ParamsKept
  WarningsExact
