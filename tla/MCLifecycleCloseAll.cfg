SPECIFICATION Spec
CONSTANTS
  Slots = {s1, s2}
  Local = Local
  Records = {r1}
  NoFile = NoFile
  MaxId = 2
  MaxGaps = 0
  Reopened = TRUE
INVARIANT
  ClosedWithRecords
