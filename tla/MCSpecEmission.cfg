SPECIFICATION Spec
CONSTANTS
  ErrorResponse <- MCError
  RawErrorResponse <- MCRaw
  JOSEErrorEnvelope <- MCJose
  SuccessResponse <- MCSuccess
  Slots = {1, 2, 3}
  Unrooted = {3}
  Projects <- MCProjects
INVARIANTS
  TypeOK
  OperationIDsUnique
  FirstRegistrationWins
  IDsFollowKeyOrder
  RefsResolve
  GateMatchesPaths
