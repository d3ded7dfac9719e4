SPECIFICATION Spec
CONSTANTS
  Fourths = {"struct", "alias", "defined", "nonstruct"}
  Twins = TRUE
  MaxDepth = 2
  Sources <- MCResolvable
INVARIANTS
  TypeOK
  NamesPaired
  StampsMatch
  RegistryIsClosure
PROPERTIES
  NamesStable
