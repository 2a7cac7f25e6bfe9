SPECIFICATION Spec
CONSTANTS
  Keys = {1, 2}
  Values = {v1, v2}
  Node = {n1, n2, n3}
  HeadNode = HeadNode
  Null = Null
  MaxHeight = 2
  Predicates <- MCPredicates
  NoValue = NoValue
SYMMETRY Addresses
INVARIANTS
  LevelsNested
  NothingLeaks
  FindsFirst
  TraversalOrdered
PROPERTY
  ImplementsBags
