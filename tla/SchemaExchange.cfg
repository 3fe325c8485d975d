CONSTANTS
  Primitives <- MCPrimitives
  Unit <- MCUnit
  Qualified <- MCQualified
  Width <- MCWidth
  Genuine <- MCGenuine
  Batches <- MCBatches
  AllNames <- MCAllNames
  AllIds <- MCAllIds
  MaxNesting = 4
  MaxDepth = 6
  MaxStrings = 5
  MaxSchemas = 5
  MaxOwned = 24
  MaxTotal = 106
  ZstCountCap = 8
  MaxCount = 100
  MinWireDepth = 4
  MaxSteps = 6
SPECIFICATION Spec
INVARIANT WrittenIsAdmitted
INVARIANT AdmittedIsCanonical
INVARIANT AdmittedResolves
INVARIANT ChargesWhatIsSpelledOut
CHECK_DEADLOCK FALSE
