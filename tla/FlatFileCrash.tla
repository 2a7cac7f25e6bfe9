---------------------------- MODULE FlatFileCrash ----------------------------
(***************************************************************************)
(* A flat file whose process may stop without closing it.  The stream is   *)
(* buffered and every seek writes the buffer out: a call's writes reach    *)
(* the file in their order, and the last write of a call is in the file    *)
(* once a later scan, read or write has moved the stream.                  *)
(***************************************************************************)
EXTENDS FlatFile

VARIABLE
  disk      \* what the file holds; file is what reads of the stream return

allVars == <<vars, disk>>

(***************************************************************************)
(* The images of the file that the writes of a call go through, from the   *)
(* one the call starts with.                                               *)
(***************************************************************************)
InsertImages(k, v) == { file, WriteRow(file, eof + 1, Occupied(k, v)) }

\* Turn n of a delete writes twice: the row that moves, then the mark.
MovedIn(turn, n) == Swapped(turn[n - 1], turn[n].loc)

DeleteImages(k) ==
  LET turn == DeleteTurns(k)
      count == turn[eof].count
  IN { turn[n].file : n \in 0 .. count } \cup { MovedIn(turn, n) : n \in 1 .. count }

\* An update in the middle: the rows of k up to l have been written.
UpdatedTo(k, v, l) ==
  LET hits == Matching(file, eof, 1, Equality(k)) IN
  [i \in DOMAIN file |-> IF i \in hits /\ i <= l THEN Occupied(k, v) ELSE file[i]]

UpdateImages(k, v) ==
  IF Matching(file, eof, 1, Equality(k)) = {} THEN InsertImages(k, v)
  ELSE { UpdatedTo(k, v, l) : l \in 0 .. eof }

\* A call that ends with a scan leaves nothing in the stream buffer; one that
\* ends with a write leaves that write there, and the file is as before it.
Keep(before) == disk' = IF cache'.region # 0 THEN file' ELSE before

BeforeLastUpdate(k, v) ==
  LET hits == Matching(file, eof, 1, Equality(k)) IN
  IF hits = {} THEN file ELSE UpdatedTo(k, v, Max(hits) - 1)

BeforeLastDelete(k) ==
  LET turn == DeleteTurns(k)
      count == turn[eof].count
  IN IF count = 0 THEN disk ELSE MovedIn(turn, count)

ffdict_insert(k, v) == flat_file_insert(k, v) /\ Keep(file)
ffdict_update(k, v) == flat_file_update(k, v) /\ Keep(BeforeLastUpdate(k, v))
ffdict_delete(k) == flat_file_delete(k) /\ Keep(BeforeLastDelete(k))
ffdict_get(k) == flat_file_get(k) /\ Keep(disk)

ffdict_find_on_disk(c, pred) == ffdict_find(c, pred) /\ Keep(disk)

\* A next that scans or reads seeks; at the end of the file it does neither.
ffdict_next_on_disk(c) ==
  /\ ffdict_next(c)
  /\ disk' = IF cursor[c].status = "cs_cursor_initialized" \/ cursor[c].location < eof
             THEN file ELSE disk

ffdict_destroy_cursor_on_disk(c) == ffdict_destroy_cursor(c) /\ UNCHANGED disk

\* fclose writes the buffer out.
ffdict_close_dictionary == flat_file_close /\ disk' = file
ffdict_create_dictionary == flat_file_initialize /\ UNCHANGED disk
ffdict_delete_dictionary == flat_file_destroy /\ disk' = << >>
ffdict_remove_by_id == ffdict_destroy_dictionary /\ disk' = << >>

\* The process stops: after a call, with the last write still in the stream
\* buffer or not, or in the middle of a call.  eof is what an open will find.
WriteImages(k) ==
  DeleteImages(k) \cup UNION { InsertImages(k, v) \cup UpdateImages(k, v) : v \in Values }

Crash ==
  /\ open
  /\ open' = FALSE
  /\ \E image \in {disk} \cup UNION { WriteImages(k) : k \in Keys } :
       /\ Len(image) <= MaxRows
       /\ file' = image /\ disk' = image
       /\ eof' = LastOccupied(image)
  /\ cache' = NoRegion
  /\ cursor' = [c \in Cursors |-> NoCursor]
  /\ trail' = [c \in Cursors |-> << >>] /\ quiet' = {}
  /\ UNCHANGED result

CrashInit == Init /\ disk = file

CrashNext ==
  \/ \E k \in Keys, v \in Values : ffdict_insert(k, v)
  \/ \E k \in Keys, v \in Values : ffdict_update(k, v)
  \/ \E k \in Keys : ffdict_delete(k)
  \/ \E k \in Keys : ffdict_get(k)
  \/ \E c \in Cursors, pred \in Predicates : ffdict_find_on_disk(c, pred)
  \/ \E c \in Cursors : ffdict_next_on_disk(c)
  \/ \E c \in Cursors : ffdict_destroy_cursor_on_disk(c)
  \/ ffdict_close_dictionary
  \/ ffdict_create_dictionary
  \/ ffdict_delete_dictionary
  \/ ffdict_remove_by_id
  \/ Crash

CrashSpec == CrashInit /\ [][CrashNext]_allVars
=============================================================================
