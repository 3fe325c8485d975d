CONSTANTS
  Shapes <- TypedShapes
  Registry <- TypedSchemas
  Cases <- AllTypedCases
  Lowered <- Programs
  Layouts <- ProgramLayouts
  Inputs <- AllInputs
  SkipValue <- SkipWire
  Equal <- LooksSame
  Width = 3
  Valid = {0, 1}
  MaxDepth = 8
  MinWireDepth = 4
  ZstCap = 2
  MaxWord = 8
  NativeMax = 1
  MaxCells = 5
SPECIFICATION Spec
CHECK_DEADLOCK FALSE
INVARIANTS TypeOK OneOwner FreshTarget RefsLive TypedAgrees LowersExactlyCarried SameSchemaLowersSame
PROPERTY Returns
