SPECIFICATION Spec
CONSTANTS
  Slots = {s1, s2}
  Local = Local
  Records = {r1}
  NoFile = NoFile
  MaxId = 3
  MaxGaps = 1
  Reopened = FALSE
SYMMETRY Symmetry
INVARIANTS
  IdsHandedOutOnce
  RowsWhereLookedUp
  NothingLost
