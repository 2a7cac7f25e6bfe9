SPECIFICATION FairSpec
CONSTANTS
  Keys <- MCKeys
  Values <- MCValues
  MaxCt = 7
  Predicates <- MCPredicates
  Scripts <- SeparatorScripts
  HotKeys <- MCHotKeys
  MaxCalls = 0
INVARIANT KeysFound
