------------------------- MODULE OpenAddressFileHash -------------------------
(***************************************************************************)
(* The open address hash on a file (dictionary/open_address_file_hash).    *)
(* The buckets are the file "<id>.oaf"; each call seeks to the first       *)
(* bucket it probes, reads from there and writes at most one bucket.  The  *)
(* stream is buffered and no call flushes it: a seek does, so that what is *)
(* not yet in the file is at most the write of the last call.              *)
(*                                                                         *)
(* The algorithm is the one of OpenAddressHash with OnFile = TRUE.  There  *)
(* entry is what reads of the stream return; disk is what the file holds.  *)
(***************************************************************************)
EXTENDS OpenAddressHash

CONSTANTS
  BlankKey,   \* the key and the value that zeroed bytes read as
  BlankValue

ASSUME BlankAssumption == BlankKey \in Keys /\ BlankValue \in Values

VARIABLES
  disk,       \* the buckets in the file, or NoFile
  crashed,    \* the instance was lost without being closed
  torn        \* history: buckets a crash left half written

fileVars == <<disk, crashed, torn>>
allVars == <<vars, fileVars>>

NoFile == << >>

\* The seek a call starts with writes out what earlier calls have written.
SeekFlushes == disk' = entry /\ UNCHANGED <<crashed, torn>>

\* Mutant: what is written stays in the buffer until the close.
RewritesBuffered == UNCHANGED fileVars

\* A bucket that is written again as a whole is no longer torn.
Rewrites ==
  /\ disk' = entry
  /\ torn' = { s \in torn : entry'[s] = entry[s] }
  /\ UNCHANGED crashed

oafh_insert(k, v) == oadict_insert(k, v) /\ Rewrites
oafh_update(k, v) == oah_update(k, v) /\ Rewrites
oafh_delete(k) == oah_delete(k) /\ Rewrites
oafh_get(k) == oah_get(k) /\ SeekFlushes

oafdict_find(pred) == oadict_find(pred) /\ SeekFlushes
oafdict_next == oadict_next /\ SeekFlushes
oafdict_destroy_cursor == oadict_destroy_cursor /\ UNCHANGED fileVars

\* oafh_close: fclose writes out the buffer.
oafdict_close_dictionary ==
  /\ allocated /\ cursor.status = "none"
  /\ allocated' = FALSE
  /\ disk' = entry
  /\ UNCHANGED <<entry, result, cursorVars, crashed, torn>>

\* Mutant: opening truncates the file.
oafdict_create_afresh ==
  /\ ~allocated
  /\ allocated' = TRUE /\ crashed' = FALSE
  /\ entry' = [s \in Slots |-> Empty] /\ disk' = entry' /\ torn' = {}
  /\ UNCHANGED <<result, cursorVars>>

\* Opening a dictionary is creating it: oafh_initialize takes the file as it
\* is when there is one, and writes and flushes empty buckets when not.
oafdict_create_dictionary ==
  /\ ~allocated
  /\ allocated' = TRUE /\ crashed' = FALSE
  /\ \/ /\ disk # NoFile
        /\ entry' = disk
        /\ UNCHANGED <<disk, torn>>
     \/ /\ disk = NoFile
        /\ entry' = [s \in Slots |-> Empty]
        /\ disk' = entry'
        /\ torn' = {}
  /\ UNCHANGED <<result, cursorVars>>

\* oafh_destroy closes the stream and removes the file.
oafdict_delete_dictionary ==
  /\ allocated /\ cursor.status = "none"
  /\ allocated' = FALSE
  /\ disk' = NoFile
  /\ UNCHANGED <<entry, result, cursorVars, crashed, torn>>

\* Removal by id, of a dictionary that is not open.
oafdict_destroy_dictionary ==
  /\ ~allocated /\ disk # NoFile
  /\ disk' = NoFile
  /\ UNCHANGED <<vars, crashed, torn>>

\* A bucket never written holds zeroed bytes behind its status.
Bytes(b) == IF b = Empty THEN Record("empty", BlankKey, BlankValue) ELSE b

\* A bucket is status, key, value in one buffered write: a process that ends
\* without fclose leaves a prefix of it in the file.
Prefixes(old, new) ==
  { old, new,
    [Bytes(old) EXCEPT !.status = new.status],
    [Bytes(old) EXCEPT !.status = new.status, !.key = Bytes(new).key] }

Pending == { s \in Slots : disk[s] # entry[s] }

\* The process ends: instance, cursor and buffer are gone, the file is left.
Crash ==
  /\ allocated
  /\ allocated' = FALSE /\ crashed' = TRUE
  /\ cursor' = NoCursor /\ trail' = << >> /\ quiet' = TRUE
  /\ \E image \in [Pending -> UNION { Prefixes(disk[s], entry[s]) : s \in Pending }] :
       /\ \A s \in Pending : image[s] \in Prefixes(disk[s], entry[s])
       /\ disk' = [s \in Slots |-> IF s \in Pending THEN image[s] ELSE disk[s]]
       /\ torn' = torn \cup { s \in Pending : image[s] \notin {disk[s], entry[s]} }
  /\ UNCHANGED <<entry, result>>

FileInit == Init /\ disk = entry /\ crashed = FALSE /\ torn = {}

FileNext ==
  \/ \E k \in Keys, v \in Values : oafh_insert(k, v)
  \/ \E k \in Keys, v \in Values : oafh_update(k, v)
  \/ \E k \in Keys : oafh_delete(k)
  \/ \E k \in Keys : oafh_get(k)
  \/ \E pred \in Predicates : oafdict_find(pred)
  \/ oafdict_next
  \/ oafdict_destroy_cursor
  \/ oafdict_close_dictionary
  \/ oafdict_create_dictionary
  \/ oafdict_delete_dictionary
  \/ oafdict_destroy_dictionary
  \/ Crash

FileSpec == FileInit /\ [][FileNext]_allVars

-----------------------------------------------------------------------------
\* At any time the file lacks the write of one call at most: the program
\* would otherwise lose several acknowledged calls when it stops.
OneWriteAtRisk == allocated => Cardinality(Pending) <= 1

\* What is opened is what was closed; after a crash it is that but for one
\* bucket.  While the instance is closed, entry is what its callers last saw.
OpenRestores ==
  [][ (~allocated /\ allocated' /\ disk # NoFile) =>
        LET changed == { s \in Slots : entry'[s] # entry[s] } IN
        IF crashed THEN Cardinality(changed) <= 1 ELSE changed = {} ]_allVars

\* A crash costs no record but the one being written: every record in a
\* bucket that is not torn is still found by its key, although a torn bucket
\* may hold a record nobody inserted.
IntactRecordsFound ==
  allocated => \A s \in Slots \ torn : InUse(s) => Found(entry[s].key)

\* A traversal of an unchanged file without torn buckets is complete up to the
\* end of the file: the reads of a scan that wraps fail, and what is then seen
\* of the last bucket again neither adds a record nor hides one before it.
IntactTraversalComplete == torn = {} => TraversalComplete
=============================================================================
