CONSTANTS
  Shapes <- TypedShapes
  Registry <- TypedSchemas
  Cases <- AllJitCases
  Lowered <- JitPrograms
  Images <- JitImages
  Inputs <- AllInputs
  SkipValue <- SkipWire
  Equal <- LooksSame
  Width = 3
  Valid = {0, 1}
  MaxDepth = 8
  MinWireDepth = 4
  ZstCap = 2
  MaxWord = 8
  MaxCells = 4
  Hints = {0, 2}
  Headroom = {0, 1}
SPECIFICATION JitSpec
CHECK_DEADLOCK FALSE
INVARIANTS InStep JitEncodes
PROPERTIES ImplementsInterpreter JitReturns
