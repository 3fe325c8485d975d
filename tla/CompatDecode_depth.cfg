CONSTANTS
  Registry <- Schemas
  Width = 3
  Valid = {0, 1}
  MaxDepth = 8
  MinWireDepth = 4
  ZstCap = 2
  MaxWord = 8
  MaxCells = 5
  Lowered <- Programs
  Bodies <- ProgramBodies
  SkipRef <- SkipFromRoot
  Cases <- EndlessCalls
  Inputs <- AllInputs
SPECIFICATION Spec
CHECK_DEADLOCK FALSE
INVARIANT BlocksAreBounded
