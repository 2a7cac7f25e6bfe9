SPECIFICATION FileSpec
CONSTANTS
  Keys <- MCKeys
  Values = {v1}
  MapSize = 3
  Hash <- MCHash
  Predicates <- MCPredicates
  OnFile = TRUE
  NoValue = NoValue
  BlankKey = 0
  BlankValue = v1
VIEW WithoutAnswers
INVARIANTS
  OneWriteAtRisk
  IntactRecordsFound
  DeliveredSatisfy
  IntactTraversalComplete
PROPERTIES
  OpenRestores
