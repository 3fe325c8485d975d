CONSTANTS
  Datum <- Data0
  Primitive = {1}
  Generic = 9
  Features = {1, 2}
  Plans <- SmallPlans
  Earlier <- EarlierPlans
  Garbage <- Junk
SPECIFICATION Spec
CHECK_DEADLOCK FALSE
INVARIANTS OneGeneration WrittenIsAdmitted DamageIsNotServed RegionSchemasHold FeatureVerdicts
