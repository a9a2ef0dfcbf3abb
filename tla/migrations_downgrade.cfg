SPECIFICATION Spec
CONSTANT
  Facts <- RowFacts
INVARIANT
  DowngradeWorks
