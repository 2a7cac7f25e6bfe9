----------------------------- MODULE MasterTable -----------------------------
(***************************************************************************)
(* The master table of IonDB: a file of fixed-size rows that says which    *)
(* dictionaries there are.  The row at position 0 holds the next id, the   *)
(* row of a dictionary is looked up at the position that is its id.  But   *)
(* a row is written at the end of the file, wherever that is.              *)
(*                                                                         *)
(* A write ends in a seek, which hands the row to the file: what has been  *)
(* written outlives the process.  The write of a row does not fail here.   *)
(***************************************************************************)
EXTENDS Integers, Sequences

CONSTANT NoFile

VARIABLES
  table,      \* the file: [next, rows], or NoFile; rows[i] is at position i
  next_id,    \* ion_master_table_next_id
  opened      \* whether ion_master_table_file is open

tableVars == <<table, next_id, opened>>

\* Of a configuration: the id and the type.  The other fields are given back
\* to the implementation as they are.  dictionary_status is always "ok": it
\* is written once, when the dictionary has just been created.
Row(id, type) == [id |-> id, type |-> type]
Blank == Row(0, "none")

TableInit ==
  /\ table = NoFile
  /\ next_id = 1
  /\ opened = FALSE

WriteFromEnd(row) == table' = [table EXCEPT !.rows = Append(@, row)]

\* A position behind the end: the rows in between read as zeros.
WriteAt(i, row) ==
  LET rows == table.rows
      size == IF i > Len(rows) THEN i ELSE Len(rows)
  IN table' = [table EXCEPT !.rows = [p \in 1..size |->
                 IF p = i THEN row ELSE IF p <= Len(rows) THEN rows[p] ELSE Blank]]

\* ion_lookup_in_master_table succeeds: the row is in the file and not blank.
Found(i) == i \in 1..Len(table.rows) /\ table.rows[i].id # 0

\* The id that is handed out is next_id as it was.
ion_master_table_get_next_id ==
  /\ table' = [table EXCEPT !.next = next_id + 1]
  /\ next_id' = next_id + 1
  /\ UNCHANGED opened

\* Mutant: the next id of an existing file is not read.
init_master_table_afresh ==
  /\ ~opened /\ opened' = TRUE
  /\ table' = IF table = NoFile THEN [next |-> 1, rows |-> << >>] ELSE table
  /\ next_id' = 1

ion_init_master_table ==
  /\ ~opened /\ opened' = TRUE
  /\ table' = IF table = NoFile THEN [next |-> 1, rows |-> << >>] ELSE table
  /\ next_id' = table'.next

ion_close_master_table ==
  /\ opened /\ opened' = FALSE
  /\ UNCHANGED <<table, next_id>>

\* The dictionaries and their files stay.
ion_delete_master_table ==
  /\ ~opened /\ table # NoFile
  /\ table' = NoFile /\ next_id' = 1
  /\ UNCHANGED opened

ion_add_to_master_table(id, type) == WriteFromEnd(Row(id, type)) /\ UNCHANGED <<next_id, opened>>

\* Mutant: positions are counted without the master row.
delete_counting_rows(id) == WriteAt(id + 1, Blank) /\ UNCHANGED <<next_id, opened>>

ion_delete_from_master_table(id) == WriteAt(id, Blank) /\ UNCHANGED <<next_id, opened>>

\* The process is gone; the statics have their first values again.
TableCrash == next_id' = 1 /\ opened' = FALSE /\ UNCHANGED table
=============================================================================
