SPECIFICATION Spec
CONSTANTS
  MaxDepth = 2
  MaxWord = 255
  Sizes <- MCSizes
  Scalars <- MCScalars
  Nested <- MCNested
  Names <- MCNames
  Counts <- MCCounts
  Dims <- MCDims
  Same <- SameValue
  Written <- WrittenForm
INVARIANT KeepsEveryScalar
INVARIANT RereadsWhatItWrites
INVARIANT StackIsBounded
PROPERTY Returns
CHECK_DEADLOCK FALSE
