----------------------------- MODULE MCFlatFile -----------------------------
(***************************************************************************)
(* Up to three rows behind a buffer of two, which two cursors share: a     *)
(* region is left, entered in the middle and cut short by eof, and the row *)
(* one find leaves in the buffer may or may not have been read over when   *)
(* its cursor comes to it.  Two values tell the bags apart; what a cursor  *)
(* delivers is told by its location.                                       *)
(***************************************************************************)
EXTENDS FlatFileCursors, TLC

MCPredicates == { Equality(1), AllRecords }

CursorNames == Permutations(Cursors)

\* Bounds: while a cursor is open the rows have one value; while both are,
\* their predicates differ, none has come to its end, no row is cut off
\* behind eof, and they deliver two rows in all.
ReadValue == CHOOSE v \in Values : TRUE
OneValueRead ==
  NoCursorOpen \/ \A l \in DOMAIN file : file[l].value \in {ReadValue, NoValue}
ReadTogether ==
  /\ eof = Len(file)
  /\ \A c \in Cursors : cursor[c].status # "cs_end_of_results"
  /\ \A c, d \in Cursors : c # d => cursor[c].pred # cursor[d].pred
  /\ FoldFunction(LAMBDA seq, n : Len(seq) + n, 0, trail) <= 2
Bounds ==
  /\ OneValueRead
  /\ (\A c \in Cursors : cursor[c].status # "none") => ReadTogether

\* The last answer decides no step and is in no property but that of one
\* step: states that differ in it alone are one.
WithoutAnswers == <<open, fileVars, cursor, trail, quiet, alone, disk>>
=============================================================================
