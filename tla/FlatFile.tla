------------------------------ MODULE FlatFile ------------------------------
(***************************************************************************)
(* The flat file store of IonDB (dictionary/flat_file), in the mode every  *)
(* dictionary is created in: rows in insertion order, in the file          *)
(* "<id>.ffs".  Deleting moves the last row into the hole, so that the     *)
(* occupied rows are always the first ones.  Reads go through a buffer of  *)
(* num_buffered rows that a scan fills and that read_row may be answered   *)
(* from.                                                                   *)
(*                                                                         *)
(* Rows are numbered from 1 here (from 0 in the code); region 0 stands for *)
(* the -1 of current_loaded_region.                                        *)
(***************************************************************************)
EXTENDS DictionaryTypes, SequencesExt, FiniteSetsExt

CONSTANTS
  Keys, Values,
  Predicates,   \* the predicates cursors are opened with
  Cursors,      \* the cursors the caller may hold at a time
  NumBuffered,  \* num_buffered: rows the buffer has room for
  MaxRows,      \* bound on the number of rows
  NoValue       \* no value returned

ASSUME KeysAssumption == Keys \subseteq Int /\ IsFiniteSet(Keys)
ASSUME ValuesAssumption == IsFiniteSet(Values)
ASSUME PredicatesAssumption == Predicates \subseteq Predicate
ASSUME NumBufferedAssumption == NumBuffered \in Nat \ {0}
ASSUME MaxRowsAssumption == MaxRows \in Nat

VARIABLES
  open,     \* the instance exists
  file,     \* all rows of the file, << >> when there is none
  eof,      \* eof_position, as the number of rows before it
  cache,    \* current_loaded_region and the num_in_buffer rows read there
  cursor,   \* the cursors
  result,   \* what the last insert, update, delete or get returned
  trail,    \* history: what each cursor has delivered, and from where
  quiet     \* history: the cursors since whose opening no row has changed

fileVars == <<file, eof, cache>>
cursorVars == <<cursor, trail, quiet>>
vars == <<open, fileVars, result, cursorVars>>

Row == [status: {"occupied", "empty"}, key: Keys, value: Values]
Occupied(k, v) == [status |-> "occupied", key |-> k, value |-> v]

NoRegion == [region |-> 0, rows |-> << >>]
NoCursor == [status |-> "none", pred |-> AllRecords, location |-> 0]

TypeOK ==
  /\ open \in BOOLEAN
  /\ file \in Seq(Row) /\ eof \in 0 .. Len(file)
  /\ cache \in [region: 0 .. Len(file), rows: Seq(Row)]
  /\ Len(cache.rows) <= NumBuffered
  /\ cache.rows = << >> <=> cache.region = 0
  /\ cursor \in [Cursors -> [status: CursorStatus \cup {"none", "cs_possible_data_inconsistency"},
                             pred: Predicate, location: 0 .. Len(file)]]
  /\ result \in [call: {"none", "insert", "update", "delete", "get"},
                 key: Keys \cup {NoValue},
                 err: {"err_ok", "err_item_not_found"},
                 count: Nat,
                 value: Values \cup {NoValue}]
  /\ trail \in [Cursors -> Seq([location: 1 .. Len(file), row: Row])]
  /\ quiet \subseteq Cursors

-----------------------------------------------------------------------------
(***************************************************************************)
(* Reading.  A scan reads num_buffered rows at a time from its start up to *)
(* eof and stops in the chunk that has the row it looks for; that chunk,   *)
(* or the last one, stays in the buffer.                                   *)
(***************************************************************************)
row_matches(pred, row) == row.status = "occupied" /\ test_predicate(pred, row.key)

\* Mutant: the row a scan starts at is not looked at.
MatchingAfterStart(f, e, start, pred) == { l \in (start + 1) .. e : row_matches(pred, f[l]) }

\* The rows from start on, in f with end e, that a scan for pred stops at.
Matching(f, e, start, pred) == { l \in start .. e : row_matches(pred, f[l]) }

\* What the buffer holds after a scan that found hits; a scan that starts at
\* eof reads nothing.
AfterScan(old, f, e, start, hits) ==
  LET stop == IF hits = {} THEN e ELSE Min(hits)
      region == start + ((stop - start) \div NumBuffered) * NumBuffered
  IN IF start > e THEN old
     ELSE [region |-> region,
           rows |-> SubSeq(f, region, Min({region + NumBuffered - 1, e}))]

ScanFor(start, pred) ==
  cache' = AfterScan(cache, file, eof, start, Matching(file, eof, start, pred))

\* flat_file_read_row: a row of the loaded region comes from the buffer.  Any
\* other is read from the file into the first place of the buffer; the region
\* stays what it was.
CacheHit(c, l) == l \in c.region .. (c.region + Len(c.rows) - 1) /\ c.region # 0

\* Mutant: a hit is answered from the first place of the buffer.
ReadRowFirst(c, l) == IF CacheHit(c, l) THEN c.rows[1] ELSE file[l]

ReadRow(c, l) == IF CacheHit(c, l) THEN c.rows[l - c.region + 1] ELSE file[l]

\* Mutant: a miss counts the row it reads as buffered, without a region.
AfterReadCounted(c, l) == IF CacheHit(c, l) THEN c ELSE [c EXCEPT !.rows = << file[l] >>]

AfterRead(c, l) ==
  IF CacheHit(c, l) \/ c.region = 0 THEN c ELSE [c EXCEPT !.rows[1] = file[l]]

\* flat_file_write_row invalidates the buffer, and appends when l is one past
\* the last row of the file.
WriteRow(f, l, row) == IF l <= Len(f) THEN [f EXCEPT ![l] = row] ELSE Append(f, row)

-----------------------------------------------------------------------------
Answer(call, k, err, n, v) ==
  result' = [call |-> call, key |-> k, err |-> err, count |-> n, value |-> v]

NoteWrite ==
  /\ quiet' = IF file' = file /\ eof' = eof THEN quiet ELSE {}
  /\ UNCHANGED <<open, cursor, trail>>

AppendRow(call, k, v) ==
  /\ eof < MaxRows
  /\ file' = WriteRow(file, eof + 1, Occupied(k, v))
  /\ eof' = eof + 1
  /\ cache' = NoRegion
  /\ Answer(call, k, "err_ok", 1, NoValue)

flat_file_insert(k, v) == open /\ AppendRow("insert", k, v) /\ NoteWrite

flat_file_get(k) ==
  LET hits == Matching(file, eof, 1, Equality(k)) IN
  /\ open
  /\ \/ hits = {} /\ Answer("get", k, "err_item_not_found", 0, NoValue)
     \/ hits # {} /\ Answer("get", k, "err_ok", 1, file[Min(hits)].value)
  /\ ScanFor(1, Equality(k))
  /\ UNCHANGED <<open, file, eof, cursorVars>>

\* One turn of the loop of flat_file_delete on a file state s: the last row
\* is copied over the match, then it is marked as empty and cut off.  The
\* next turn looks at the same place again.
Swapped(s, l) == [s.file EXCEPT ![l] = s.file[s.eof]]

\* Mutant: the row cut off keeps its status.
DeleteTurnUnmarked(s, k) ==
  LET hits == Matching(s.file, s.eof, s.loc, Equality(k))
      l == Min(hits)
  IN IF hits = {} THEN s
     ELSE [file |-> Swapped(s, l), eof |-> s.eof - 1, loc |-> l, count |-> s.count + 1]

\* Mutant: the row moved into the hole is not looked at.
DeleteTurnAdvancing(s, k) ==
  LET hits == Matching(s.file, s.eof, s.loc, Equality(k))
      l == Min(hits)
  IN IF hits = {} THEN s
     ELSE [file |-> [Swapped(s, l) EXCEPT ![s.eof].status = "empty"],
           eof |-> s.eof - 1, loc |-> l + 1, count |-> s.count + 1]

DeleteTurn(s, k) ==
  LET hits == Matching(s.file, s.eof, s.loc, Equality(k))
      l == Min(hits)
  IN IF hits = {} THEN s
     ELSE [file |-> [Swapped(s, l) EXCEPT ![s.eof].status = "empty"],
           eof |-> s.eof - 1, loc |-> l, count |-> s.count + 1]

\* The file after n turns: there are no more turns than rows.
DeleteTurns(k) ==
  LET turn[n \in 0 .. eof] ==
        IF n = 0 THEN [file |-> file, eof |-> eof, loc |-> 1, count |-> 0]
        ELSE DeleteTurn(turn[n - 1], k)
  IN turn

flat_file_delete(k) ==
  LET last == DeleteTurns(k)[eof] IN
  /\ open
  /\ file' = last.file /\ eof' = last.eof
  /\ cache' = AfterScan(IF last.count = 0 THEN cache ELSE NoRegion,
                        last.file, last.eof, last.loc, {})
  /\ Answer("delete", k, IF last.count = 0 THEN "err_item_not_found" ELSE "err_ok",
            last.count, NoValue)
  /\ NoteWrite

\* Mutant: an update does not invalidate the buffer.
flat_file_update_buffered(k, v) ==
  LET hits == Matching(file, eof, 1, Equality(k)) IN
  /\ open /\ hits # {}
  /\ file' = [l \in DOMAIN file |-> IF l \in hits THEN Occupied(k, v) ELSE file[l]]
  /\ cache' = AfterScan(cache, file', eof, Max(hits) + 1, {})
  /\ Answer("update", k, "err_ok", Cardinality(hits), NoValue)
  /\ UNCHANGED eof
  /\ NoteWrite

flat_file_update(k, v) ==
  LET hits == Matching(file, eof, 1, Equality(k)) IN
  /\ open
  /\ \/ hits = {} /\ AppendRow("update", k, v)
     \/ /\ hits # {}
        /\ file' = [l \in DOMAIN file |-> IF l \in hits THEN Occupied(k, v) ELSE file[l]]
        /\ cache' = AfterScan(NoRegion, file', eof, Max(hits) + 1, {})
        /\ Answer("update", k, "err_ok", Cardinality(hits), NoValue)
        /\ UNCHANGED eof
  /\ NoteWrite

-----------------------------------------------------------------------------
(***************************************************************************)
(* The instance.  The caller has destroyed its cursors before the instance *)
(* goes away.                                                              *)
(***************************************************************************)
NoCursorOpen == \A c \in Cursors : cursor[c].status = "none"

flat_file_close ==
  /\ open /\ NoCursorOpen
  /\ open' = FALSE
  /\ UNCHANGED <<fileVars, result, cursorVars>>

\* The end of the data is found by a scan backwards from the end of the file
\* for an occupied row; its chunks are counted from that end.
LastOccupied(f) == SelectLastInSeq(f, LAMBDA row : row.status = "occupied")

AfterBackwardScan ==
  LET n == Len(file)
      stop == Max({1, LastOccupied(file)})
      top == n - ((n - stop) \div NumBuffered) * NumBuffered
      region == Max({1, top - NumBuffered + 1})
  IN IF n = 0 THEN NoRegion ELSE [region |-> region, rows |-> SubSeq(file, region, top)]

\* Opening and creating are the same call; a missing file is created empty.
flat_file_initialize ==
  /\ ~open
  /\ open' = TRUE
  /\ eof' = LastOccupied(file)
  /\ cache' = AfterBackwardScan
  /\ UNCHANGED <<file, result, cursorVars>>

RemoveFile == file' = << >> /\ eof' = 0 /\ cache' = NoRegion

\* flat_file_destroy closes the stream and removes the file.
flat_file_destroy ==
  /\ open /\ NoCursorOpen
  /\ open' = FALSE
  /\ RemoveFile
  /\ UNCHANGED <<result, cursorVars>>

\* Removal by id, of a dictionary that is not open.
ffdict_destroy_dictionary ==
  /\ ~open
  /\ RemoveFile
  /\ UNCHANGED <<open, result, cursorVars>>

-----------------------------------------------------------------------------
ffdict_find(c, pred) ==
  LET hits == Matching(file, eof, 1, pred) IN
  /\ open /\ cursor[c].status = "none"
  /\ cursor' = [cursor EXCEPT ![c] =
       IF hits = {}
       THEN [status |-> "cs_end_of_results", pred |-> pred, location |-> 0]
       ELSE [status |-> "cs_cursor_initialized", pred |-> pred, location |-> Min(hits)]]
  /\ ScanFor(1, pred)
  /\ trail' = [trail EXCEPT ![c] = << >>]
  /\ quiet' = quiet \cup {c}
  /\ UNCHANGED <<open, file, eof, result>>

\* read_row at l with the buffer as c0; the row is copied to the caller.
Deliver(c, c0, l) ==
  /\ cursor' = [cursor EXCEPT ![c].status = "cs_cursor_active", ![c].location = l]
  /\ trail' = [trail EXCEPT ![c] = Append(@, [location |-> l, row |-> ReadRow(c0, l)])]
  /\ cache' = AfterRead(c0, l)

\* The first call reads the row that find stopped at, the others scan on.
ffdict_next(c) ==
  LET pred == cursor[c].pred
      start == cursor[c].location + 1
      hits == Matching(file, eof, start, pred)
  IN
  /\ \/ /\ cursor[c].status = "cs_cursor_initialized"
        /\ Deliver(c, cache, cursor[c].location)
     \/ /\ cursor[c].status = "cs_cursor_active"
        /\ hits # {}
        /\ Deliver(c, AfterScan(cache, file, eof, start, hits), Min(hits))
     \/ /\ cursor[c].status = "cs_cursor_active"
        /\ hits = {} /\ start <= eof + 1
        /\ cursor' = [cursor EXCEPT ![c].status = "cs_end_of_results", ![c].location = eof]
        /\ ScanFor(start, pred)
        /\ UNCHANGED trail
     \/ /\ cursor[c].status = "cs_cursor_active"
        /\ start > eof + 1
        /\ cursor' = [cursor EXCEPT ![c].status = "cs_possible_data_inconsistency"]
        /\ UNCHANGED <<cache, trail>>
  /\ UNCHANGED <<open, file, eof, result, quiet>>

ffdict_destroy_cursor(c) ==
  /\ cursor[c].status # "none"
  /\ cursor' = [cursor EXCEPT ![c] = NoCursor]
  /\ trail' = [trail EXCEPT ![c] = << >>]
  /\ quiet' = quiet \ {c}
  /\ UNCHANGED <<open, fileVars, result>>

Init ==
  /\ open = TRUE
  /\ file = << >> /\ eof = 0 /\ cache = NoRegion
  /\ cursor = [c \in Cursors |-> NoCursor]
  /\ result = [call |-> "none", key |-> NoValue, err |-> "err_ok", count |-> 0, value |-> NoValue]
  /\ trail = [c \in Cursors |-> << >>]
  /\ quiet = {}

Next ==
  \/ \E k \in Keys, v \in Values : flat_file_insert(k, v)
  \/ \E k \in Keys, v \in Values : flat_file_update(k, v)
  \/ \E k \in Keys : flat_file_delete(k)
  \/ \E k \in Keys : flat_file_get(k)
  \/ \E c \in Cursors, pred \in Predicates : ffdict_find(c, pred)
  \/ \E c \in Cursors : ffdict_next(c)
  \/ \E c \in Cursors : ffdict_destroy_cursor(c)
  \/ flat_file_close
  \/ flat_file_initialize
  \/ flat_file_destroy
  \/ ffdict_destroy_dictionary

Spec == Init /\ [][Next]_vars

-----------------------------------------------------------------------------
(***************************************************************************)
(* Properties.                                                             *)
(***************************************************************************)

\* The occupied rows are the ones before eof: rows cut off by a delete are
\* marked, or the next open would take them back.
RowsPacked == \A l \in DOMAIN file : file[l].status = "occupied" <=> l <= eof

\* No write leaves an old row in the buffer: what is buffered is the region
\* of the file, but for the first place, which read_row may have overwritten.
BufferFresh ==
  \A i \in 2 .. Len(cache.rows) : cache.rows[i] = file[cache.region + i - 1]

\* Opening finds the rows that were there at the close: eof is recomputed
\* from the file and is what it was.
OpenRestores == [][open' /\ ~open => eof' = eof /\ file' = file]_vars

\* Each key has a bag of values; every answer and count is the one of the bags.
BagOf(k) ==
  [v \in Values |-> Cardinality({ l \in 1 .. eof : file[l].key = k /\ file[l].value = v })]

Abstract == INSTANCE MultiDictionary WITH bag <- [k \in Keys |-> BagOf(k)]

ImplementsBags == Abstract!CrashSpec

\* At the end of a traversal of an unchanged file every row that satisfies
\* the predicate has been delivered, once, in the order of the file; and no
\* cursor over an unchanged file reports an inconsistency.
TraversalExact ==
  \A c \in quiet :
    /\ cursor[c].status = "cs_end_of_results" =>
         /\ { trail[c][i].location : i \in DOMAIN trail[c] } =
              { l \in 1 .. eof : row_matches(cursor[c].pred, file[l]) }
         /\ \A i, j \in DOMAIN trail[c] :
              i < j => trail[c][i].location < trail[c][j].location
    /\ cursor[c].status # "cs_possible_data_inconsistency"
=============================================================================
