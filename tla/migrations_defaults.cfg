SPECIFICATION Spec
CONSTANT
  Facts <- RowFacts
INVARIANT
  DefaultsMigrated
