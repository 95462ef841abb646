CONSTANTS
  Paths <- MCPaths
  Lines = {"x", "y"}
  Allowed <- MCAllowed
  InitTrees <- MCInitTrees
  Contents <- MCContents
  MaxBytes = 2
  MaxOut = 2
  MaxLen = 3
  MaxCalls = 2
SPECIFICATION Spec
INVARIANT AnswersHold
 
INVARIANT ReadersComplete
 
PROPERTY LossIsAskedFor
CHECK_DEADLOCK FALSE
