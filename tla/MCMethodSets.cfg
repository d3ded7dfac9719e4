SPECIFICATION Spec
CONSTANTS
  api = api
  lib = lib
  Method <- MCMethod
  Dir <- MCDir
  Projects <- MCProjects
  MaxAsks = 2
INVARIANTS
  TypeOK
  MemoExact
  SetsMatchSelectorRules
  LeavesMatchEncoding
