SPECIFICATION SharedSpec
CONSTANTS
  Keys = {1, 2}
  Values = {v1, v2}
  Predicates <- MCPredicates
  Cursors = {c1, c2}
  NumBuffered = 2
  MaxRows = 3
  NoValue = NoValue
CONSTRAINT Bounds
VIEW WithoutAnswers
SYMMETRY CursorNames
INVARIANTS
  TypeOK
  RowsPacked
  BufferFresh
  TraversalExact
PROPERTIES
  ImplementsBags
  OpenRestores
  DeliversRowUnlessShared
