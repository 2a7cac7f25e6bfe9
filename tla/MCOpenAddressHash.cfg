SPECIFICATION Spec
CONSTANTS
  Keys <- MCKeys
  Values = {v1, v2}
  MapSize = 3
  Hash <- MCHash
  Predicates <- MCPredicates
  OnFile = FALSE
  NoValue = NoValue
CONSTRAINT OneValueRead
INVARIANTS
  TypeOK
  ProbeChainUnbroken
  LookupComplete
  NoBucketTwice
  TraversalComplete
PROPERTIES
  ImplementsStacks
