SPECIFICATION Spec
CONSTANT
  Facts <- RowFacts
INVARIANT
  TypeOK
  SchemaIsThatOfRevision
  HeadMatchesModels
  FailsOnlyAtObstacles
