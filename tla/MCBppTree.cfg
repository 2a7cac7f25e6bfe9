SPECIFICATION FairSpec
CONSTANTS
  Keys <- MCKeys
  Values <- MCValues
  MaxCt = 7
  Predicates <- MCPredicates
  Scripts <- MCScripts
  HotKeys <- MCHotKeys
  MaxCalls = 2
INVARIANTS
  KeysFound ListsApart TreeOrdered LeavesLinked TraversalExact RepairsRightKey
PROPERTIES ScatterAdvances CallsReturn

