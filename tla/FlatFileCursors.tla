--------------------------- MODULE FlatFileCursors ---------------------------
(***************************************************************************)
(* A flat file read by several cursors.  They share the buffer of the      *)
(* file: a find leaves the row it stops at there, and the first next reads *)
(* it.  A history variable tells which cursors have had the buffer to      *)
(* themselves in between.                                                  *)
(***************************************************************************)
EXTENDS FlatFileCrash

VARIABLE
  alone     \* history: the cursors since whose find no other took its first row

TakesFirstRow(c) ==
  cursor[c].status = "cs_cursor_initialized" /\ cursor'[c].status = "cs_cursor_active"

NoteFirstRows ==
  alone' = { c \in Cursors :
               /\ cursor'[c].status # "none"
               /\ cursor[c].status = "none" \/ c \in alone
               /\ \A d \in Cursors \ {c} : ~TakesFirstRow(d) }

sharedVars == <<allVars, alone>>

SharedInit == CrashInit /\ alone = {}
SharedNext == CrashNext /\ NoteFirstRows

SharedSpec == SharedInit /\ [][SharedNext]_sharedVars

Delivers(c) == Len(trail'[c]) > Len(trail[c])
RowOfFile(c) == Last(trail'[c]).row = file[Last(trail'[c]).location]

\* What a cursor delivers is the row of the file it stands on, whatever is
\* written and whatever other cursors read, but for its first row when
\* another cursor has taken its own first row since the find: that one may
\* have been read over the row find left in the buffer.  flat_file.h says of
\* flat_file_read_row that it "Reads the row specified by the given
\* location"; the exception is where the code does not.
DeliversRowUnlessShared ==
  [][\A c \in Cursors :
       Delivers(c) /\ (cursor[c].status = "cs_cursor_active" \/ c \in alone) => RowOfFile(c)]_sharedVars
=============================================================================
