SPECIFICATION Spec
CONSTANTS
  Fields <- MCFields
  Text <- MCText
  Length <- MCLength
  Fits <- MCFits
  Numbers <- MCNumbers
  Sizes <- MCSizes
  MaxRules = 3
INVARIANTS
  SchemaAdmits
  BoundsExact
