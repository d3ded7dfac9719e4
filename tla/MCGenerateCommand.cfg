SPECIFICATION Spec
CONSTANTS
  Names <- MCNames
  Projects <- MCProjects
  MaxRuns = 2
INVARIANTS
  ExitTellsDisk
  GatesHold
