SPECIFICATION FairSpec
CONSTANTS
  Keys <- EvenKeys
  Values <- MCValues
  MaxCt = 10
  Predicates = {}
  Scripts <- EvenScripts
  HotKeys = {}
  MaxCalls = 0
INVARIANT TreeOrdered
