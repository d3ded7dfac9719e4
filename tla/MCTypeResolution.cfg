SPECIFICATION Spec
CONSTANTS
  Packages <- MCPackages
  PackageMethods <- MCPackageMethods
  Projects <- MCProjects
  Fields <- MCFields
  Builds <- MCBuilds
  MaxOpen = 2
INVARIANTS
  EncodedAsDocumented
  WarningTellsLeaf
