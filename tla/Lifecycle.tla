------------------------------ MODULE Lifecycle ------------------------------
(***************************************************************************)
(* The life of IonDB's dictionaries under the master table: they are       *)
(* created, closed, opened and deleted, and all closed at once, by a       *)
(* program that may fail to get memory or room, and that may stop between  *)
(* any two steps.                                                          *)
(*                                                                         *)
(* A dictionary is its bag of records here.  A skip list stands for the    *)
(* implementations that live in memory and implement neither open nor      *)
(* close: the dictionary layer closes them by copying what a cursor over   *)
(* all records delivers into a flat file, and opens them by copying it     *)
(* back and deleting the file.                                             *)
(* A flat file stands for the implementations that live in a file.         *)
(***************************************************************************)
EXTENDS MasterTable, FiniteSetsExt

CONSTANTS
  Slots,      \* the dictionary objects of the program
  Local,      \* the dictionary object of ion_close_all_master_table
  Records,
  MaxId,      \* bound: ids handed out before the master table is deleted
  MaxGaps,    \* bound: creations that fail after their id was handed out
  Reopened    \* whether close_all is called while reopened dictionaries are open

VARIABLES
  files,      \* files[i]: the records of the flat file of id i, or NoFile
  handle,     \* the dictionary objects
  call,       \* the call that is in progress
  scan,       \* the id ion_close_all_master_table is at; Off when it is not called
  live,       \* history: the ids of dictionaries created and not deleted
  kept,       \* history: kept[i]: the records its user has put and not lost in a crash
  gaps        \* history: creations that took an id and wrote no row

dictVars == <<files, handle, call, scan>>
history == <<live, kept, gaps>>
vars == <<tableVars, dictVars, history>>

Ids == 1..MaxId
Objects == Slots \cup {Local}
SkipList == "dictionary_type_skip_list_t"
FlatFile == "dictionary_type_flat_file_t"
Types == { SkipList, FlatFile }

\* No file is not a table, next id and rows, and not a bag of records.
ASSUME NoFileAssumption == NoFile \notin [next: Nat, rows: Seq([id: Nat, type: Types \cup {"none"}])]
ASSUME NoBagAssumption == NoFile \notin [Records -> Nat]

Off == -1

NoRecords == [r \in Records |-> 0]
Plus(bag, r) == [bag EXCEPT ![r] = @ + 1]
Less(bag, r) == [bag EXCEPT ![r] = @ - 1]
OnFile(i) == IF files[i] = NoFile THEN NoRecords ELSE files[i]

\* held: the records of an instance that lives in memory.  fresh (history): it
\* has been created, and not closed and opened again.
Handle(status, id, type, held) ==
  [status |-> status, id |-> id, type |-> type, held |-> held, fresh |-> FALSE]
NoHandle == Handle("unset", 0, "none", NoRecords)

\* rest: the records that are yet to be copied.
Call(op, s, id, type, rest) == [op |-> op, slot |-> s, id |-> id, type |-> type, rest |-> rest]
NoCall == Call("none", Local, 0, "none", NoRecords)

IsOpen(s) == handle[s].status = "ok"
HeldOpen(i) == \E s \in Objects : IsOpen(s) /\ handle[s].id = i
Contents(s) == IF handle[s].type = SkipList THEN handle[s].held ELSE OnFile(handle[s].id)

\* The program may call; close_all is not under way.
Idle == call = NoCall /\ scan = Off

Init ==
  /\ TableInit
  /\ files = [i \in Ids |-> NoFile]
  /\ handle = [s \in Objects |-> NoHandle]
  /\ call = NoCall /\ scan = Off
  /\ live = {} /\ kept = [i \in Ids |-> NoRecords] /\ gaps = 0

(***************************************************************************)
(* ion_master_table_create_dictionary: an id, an instance, a row.          *)
(***************************************************************************)
CreateTakesId(s, type) ==
  /\ Idle /\ opened /\ next_id <= MaxId
  /\ ~IsOpen(s)
  /\ ion_master_table_get_next_id
  /\ call' = Call("create", s, next_id, type, NoRecords)
  /\ UNCHANGED <<files, handle, scan, history>>

CreateInstance ==
  LET i == call.id
  IN /\ call.op = "create"
     /\ call' = [call EXCEPT !.op = "created"]
     /\ handle' = [handle EXCEPT ![call.slot] =
                    [Handle("ok", i, call.type, NoRecords) EXCEPT !.fresh = TRUE]]
     /\ files' = IF call.type = FlatFile THEN [files EXCEPT ![i] = OnFile(i)] ELSE files
     /\ UNCHANGED <<tableVars, scan, history>>

\* There is no memory for the instance.  The id is not given back.
CreateFails ==
  /\ call.op = "create" /\ gaps < MaxGaps
  /\ call' = NoCall
  /\ handle' = [handle EXCEPT ![call.slot] = [NoHandle EXCEPT !.status = "error"]]
  /\ gaps' = gaps + 1
  /\ UNCHANGED <<tableVars, files, scan, live, kept>>

CreateAddsRow ==
  /\ call.op = "created"
  /\ ion_add_to_master_table(call.id, call.type)
  /\ call' = NoCall
  /\ live' = live \cup {call.id}
  /\ kept' = [kept EXCEPT ![call.id] = NoRecords]
  /\ UNCHANGED <<files, handle, scan, gaps>>

Insert(s, r) ==
  LET i == handle[s].id
  IN /\ Idle /\ IsOpen(s)
     /\ kept[i][r] = 0
     /\ kept' = [kept EXCEPT ![i] = Plus(@, r)]
     /\ IF handle[s].type = SkipList
          THEN handle' = [handle EXCEPT ![s].held = Plus(@, r)] /\ UNCHANGED files
          ELSE files' = [files EXCEPT ![i] = Plus(@, r)] /\ UNCHANGED handle
     /\ UNCHANGED <<tableVars, call, scan, live, gaps>>

(***************************************************************************)
(* dictionary_open.  An instance in memory is filled from the flat file,   *)
(* which is created when there is none and deleted at the end.             *)
(***************************************************************************)
dictionary_open(s, row) ==
  /\ files' = [files EXCEPT ![row.id] = OnFile(row.id)]
  /\ IF row.type = SkipList
       THEN /\ call' = Call("open", s, row.id, row.type, OnFile(row.id))
            /\ handle' = [handle EXCEPT ![s] = Handle("unset", row.id, row.type, NoRecords)]
       ELSE /\ handle' = [handle EXCEPT ![s] = Handle("ok", row.id, row.type, NoRecords)]
            /\ UNCHANGED call

CopyIn(r) ==
  /\ call.op = "open" /\ call.rest[r] > 0
  /\ call' = [call EXCEPT !.rest = Less(@, r)]
  /\ handle' = [handle EXCEPT ![call.slot].held = Plus(@, r)]
  /\ UNCHANGED <<tableVars, files, scan, history>>

\* The instance is not created or refuses a record: the flat file stays, the
\* dictionary object cannot be used, and ion_close_all_master_table returns.
OpenFails ==
  /\ call.op = "open"
  /\ call' = NoCall /\ scan' = Off
  /\ handle' = [handle EXCEPT ![call.slot] = NoHandle]
  /\ UNCHANGED <<tableVars, files, history>>

\* Mutant: the flat file is not deleted once its records are in memory.
OpenEndsFileLeft ==
  /\ call.op = "open" /\ call.rest = NoRecords
  /\ call' = NoCall
  /\ handle' = [handle EXCEPT ![call.slot].status = "ok"]
  /\ UNCHANGED <<tableVars, files, scan, history>>

OpenEnds ==
  /\ call.op = "open" /\ call.rest = NoRecords
  /\ call' = NoCall
  /\ files' = [files EXCEPT ![call.id] = NoFile]
  /\ handle' = [handle EXCEPT ![call.slot].status = "ok"]
  /\ UNCHANGED <<tableVars, scan, history>>

\* The program does not open a dictionary that it has open.
ion_open_dictionary(s, i) ==
  /\ Idle /\ opened /\ Found(i)
  /\ ~IsOpen(s) /\ ~HeldOpen(table.rows[i].id)
  /\ dictionary_open(s, table.rows[i])
  /\ UNCHANGED <<tableVars, scan, history>>

(***************************************************************************)
(* dictionary_close.  An instance in memory is copied to the flat file of  *)
(* its id, behind what is already in it, and deleted at the end.           *)
(***************************************************************************)
dictionary_close(s) ==
  LET d == handle[s]
  IN IF d.type = SkipList
       THEN /\ files' = [files EXCEPT ![d.id] = OnFile(d.id)]
            /\ call' = Call("close", s, d.id, d.type, d.held)
            /\ UNCHANGED handle
       ELSE /\ handle' = [handle EXCEPT ![s].status = "closed", ![s].fresh = FALSE]
            /\ UNCHANGED <<files, call>>

CopyOut(r) ==
  /\ call.op = "close" /\ call.rest[r] > 0
  /\ call' = [call EXCEPT !.rest = Less(@, r)]
  /\ files' = [files EXCEPT ![call.id] = Plus(@, r)]
  /\ UNCHANGED <<tableVars, handle, scan, history>>

\* The flat file is not created, or refuses a record and is deleted; the
\* instance stays open.
\* In ion_close_all_master_table nobody has it then.
CloseFails ==
  LET s == call.slot
  IN /\ call.op = "close"
     /\ call' = NoCall /\ scan' = Off
     /\ files' = [files EXCEPT ![call.id] = NoFile]
     /\ IF s = Local
          THEN /\ handle' = [handle EXCEPT ![Local] = NoHandle]
               /\ kept' = [kept EXCEPT ![call.id] = NoRecords]
          ELSE UNCHANGED <<handle, kept>>
     /\ UNCHANGED <<tableVars, live, gaps>>

CloseEnds ==
  /\ call.op = "close" /\ call.rest = NoRecords
  /\ call' = NoCall
  /\ handle' = [handle EXCEPT ![call.slot] = Handle("closed", @.id, @.type, NoRecords)]
  /\ UNCHANGED <<tableVars, files, scan, history>>

ion_close_dictionary(s) ==
  /\ Idle /\ IsOpen(s)
  /\ dictionary_close(s)
  /\ UNCHANGED <<tableVars, scan, history>>

(***************************************************************************)
(* ion_delete_dictionary, of an open dictionary and of one this program    *)
(* has closed: the instance and its file first, then the row at its id.    *)
(* Only a flat file can be behind a closed one, and it must be there.      *)
(***************************************************************************)
DeleteInstance(s) ==
  LET i == handle[s].id
      open == IsOpen(s)
  IN /\ Idle /\ opened
     /\ \/ open
        \/ handle[s].status = "closed" /\ ~HeldOpen(i) /\ Found(i) /\ files[i] # NoFile
     /\ call' = Call("delete", s, i, handle[s].type, NoRecords)
     /\ handle' = [handle EXCEPT ![s] = NoHandle]
     /\ files' = IF open /\ handle[s].type = SkipList THEN files ELSE [files EXCEPT ![i] = NoFile]
     /\ kept' = [kept EXCEPT ![i] = NoRecords]
     /\ UNCHANGED <<tableVars, scan, live, gaps>>

DeleteRow ==
  /\ call.op = "delete"
  /\ ion_delete_from_master_table(call.id)
  /\ call' = NoCall
  /\ live' = live \ {call.id}
  /\ UNCHANGED <<files, handle, scan, kept, gaps>>

(***************************************************************************)
(* ion_close_all_master_table goes down the ids and opens and closes every *)
(* dictionary that has a row: the status in a row is never "closed".       *)
(***************************************************************************)
CloseAll ==
  /\ Idle /\ opened
  /\ \A s \in Slots : IsOpen(s) => Reopened /\ ~handle[s].fresh
  /\ scan' = next_id - 1
  /\ UNCHANGED <<tableVars, files, handle, call, history>>

CloseAllSkips ==
  /\ scan > 0 /\ ~Found(scan)
  /\ scan' = scan - 1
  /\ UNCHANGED <<tableVars, files, handle, call, history>>

CloseAllOpens ==
  /\ scan > 0 /\ call = NoCall /\ Found(scan)
  /\ handle[Local].status = "unset"
  /\ dictionary_open(Local, table.rows[scan])
  /\ UNCHANGED <<tableVars, scan, history>>

CloseAllCloses ==
  /\ scan > 0 /\ call = NoCall /\ IsOpen(Local)
  /\ dictionary_close(Local)
  /\ UNCHANGED <<tableVars, scan, history>>

CloseAllNext ==
  /\ scan > 0 /\ handle[Local].status = "closed"
  /\ handle' = [handle EXCEPT ![Local] = NoHandle]
  /\ scan' = scan - 1
  /\ UNCHANGED <<tableVars, files, call, history>>

CloseAllEnds ==
  /\ scan = 0
  /\ ion_close_master_table
  /\ scan' = Off
  /\ UNCHANGED <<files, handle, call, history>>

(***************************************************************************)
(* The master table itself.  It is deleted when it is closed and every     *)
(* dictionary has been deleted.                                            *)
(***************************************************************************)
InitTable == Idle /\ ion_init_master_table /\ UNCHANGED <<dictVars, history>>

CloseTable == Idle /\ ion_close_master_table /\ UNCHANGED <<dictVars, history>>

DeleteTable ==
  /\ Idle /\ live = {} /\ \A s \in Slots : ~IsOpen(s)
  /\ ion_delete_master_table
  /\ handle' = [s \in Objects |-> NoHandle]
  /\ UNCHANGED <<files, call, scan, history>>

(***************************************************************************)
(* The process stops, with whatever it was doing.  What was in memory is   *)
(* gone; so may be the last record written to a flat file that is open.    *)
(* Which one that is, is left open.                                        *)
(***************************************************************************)
FileAfterCrash(i) ==
  {files[i]} \cup { Less(files[i], r) : r \in {q \in Records :
                     HeldOpen(i) /\ files[i] # NoFile /\ files[i][q] > 0} }

Crash ==
  LET row_missing == IF call.op \in {"create", "created"} THEN 1 ELSE 0
  IN /\ gaps' = gaps + row_missing /\ gaps' <= MaxGaps
     /\ TableCrash
     /\ files' \in { f \in [Ids -> UNION { FileAfterCrash(i) : i \in Ids }] :
                      \A i \in Ids : f[i] \in FileAfterCrash(i) }
     /\ kept' = [i \in Ids |-> IF HeldOpen(i) THEN OnFile(i)' ELSE kept[i]]
     /\ handle' = [s \in Objects |-> NoHandle]
     /\ call' = NoCall /\ scan' = Off
     /\ UNCHANGED live

Next ==
  \/ \E s \in Slots, type \in Types : CreateTakesId(s, type)
  \/ CreateInstance \/ CreateFails \/ CreateAddsRow
  \/ \E s \in Slots, r \in Records : Insert(s, r)
  \/ \E s \in Slots, i \in Ids : ion_open_dictionary(s, i)
  \/ \E s \in Slots : ion_close_dictionary(s) \/ DeleteInstance(s)
  \/ \E r \in Records : CopyIn(r) \/ CopyOut(r)
  \/ OpenFails \/ OpenEnds \/ CloseFails \/ CloseEnds \/ DeleteRow
  \/ CloseAll \/ CloseAllSkips \/ CloseAllOpens \/ CloseAllCloses \/ CloseAllNext \/ CloseAllEnds
  \/ InitTable \/ CloseTable \/ DeleteTable
  \/ Crash

Spec == Init /\ [][Next]_vars

-----------------------------------------------------------------------------
(* Properties *)

\* An id is handed out once in the life of a master table, whatever fails and
\* whenever the process stops: the next id of the file is above every id that
\* a row, a dictionary or a creation in progress has
\* (ion_master_table_get_next_id writes the id before it is used).
IdsHandedOutOnce ==
  LET rows == IF table = NoFile THEN << >> ELSE table.rows
      used == live \cup { rows[p].id : p \in DOMAIN rows } \cup {call.id}
  IN /\ \A i \in used : i > 0 => table # NoFile /\ i < table.next
     /\ \A p, q \in DOMAIN rows : p < q /\ rows[p].id # 0 /\ rows[q].id # 0 => rows[p].id < rows[q].id
     /\ call.op \in {"create", "created"} => \A p \in DOMAIN rows : rows[p].id < call.id

\* A row is behind its position by at most the ids that never got a row; with
\* none of those, exactly the dictionaries that there are, are found, each at
\* its id (ion_add_to_master_table appends, ion_lookup_in_master_table and
\* ion_delete_from_master_table go to the id's position).  After a creation
\* that failed, another dictionary may be found at an id, or none.
RowsWhereLookedUp ==
  table # NoFile =>
    /\ \A p \in DOMAIN table.rows :
         LET i == table.rows[p].id IN i # 0 => p <= i /\ i <= p + gaps
    /\ gaps = 0 => /\ \A i \in live : Found(i) /\ table.rows[i].id = i
                   /\ \A p \in DOMAIN table.rows : table.rows[p].id # 0 => p \in live

\* What a dictionary's users have put is in the instance while it is open, and
\* in its file, once, when it is not: through close and open by way of a flat
\* file, their failures half-way, and a crash at any point of an open
\* (dictionary_open, dictionary_close).  Rows that are off void this.
NothingLost ==
  gaps = 0 => \A i \in live :
    IF HeldOpen(i)
      THEN \A s \in Objects : IsOpen(s) /\ handle[s].id = i => Contents(s) = kept[i]
      ELSE OnFile(i) = kept[i]

\* When ion_close_all_master_table has gone through the ids, the records of
\* every dictionary are in its file.
ClosedWithRecords ==
  scan = 0 /\ gaps = 0 => \A i \in live : OnFile(i) = kept[i]
=============================================================================
