SPECIFICATION Spec
CONSTANT
  Facts <- RowFacts
INVARIANT
  NothingDisappears
