--------------------------- MODULE OpenAddressHash ---------------------------
(***************************************************************************)
(* The open address hash map of IonDB (dictionary/open_address_hash): a    *)
(* fixed array of buckets, linear probing, tombstones for deleted records, *)
(* and the cursors of its dictionary handler.  The library is single       *)
(* threaded, so an operation of the handler is one step; what interleaves  *)
(* are whole operations, and the steps of an open cursor with them.        *)
(*                                                                         *)
(* The file variant (OpenAddressFileHash) runs the same algorithm on a     *)
(* file; the two places where its text differs are behind OnFile.          *)
(***************************************************************************)
EXTENDS DictionaryTypes, Sequences, FiniteSets

CONSTANTS
  Keys,       \* the keys of the workload
  Values,     \* the values of the workload
  MapSize,    \* map_size: number of buckets
  Hash,       \* compute_hash, as bound by oah_initialize
  Predicates, \* the predicates cursors are opened with
  OnFile,     \* TRUE for the file variant
  NoValue     \* no value returned

ASSUME KeysAssumption == Keys \subseteq Int /\ IsFiniteSet(Keys)
ASSUME MapSizeAssumption == MapSize \in Nat \ {0}
ASSUME HashAssumption == Hash \in [Keys -> 0 .. (MapSize - 1)]
ASSUME PredicatesAssumption ==
  /\ Predicates \subseteq Predicate
  /\ \A p \in Predicates : p.type = "equality" => p.lower \in Keys
ASSUME OnFileAssumption == OnFile \in BOOLEAN

VARIABLES
  allocated,  \* the instance exists: created and not deleted
  entry,      \* the buckets
  cursor,     \* the caller's cursor
  result,     \* what the last insert, update, delete or get returned
  trail,      \* history: the records the cursor has delivered, in order
  quiet       \* history: no bucket has changed since the cursor was opened

mapVars == <<allocated, entry, result>>
cursorVars == <<cursor, trail, quiet>>
vars == <<mapVars, cursorVars>>

Slots == 0 .. (MapSize - 1)

\* A bucket that was never written has no key or value the code would read.
Empty == [status |-> "empty"]
Record(status, k, v) == [status |-> status, key |-> k, value |-> v]
Bucket == {Empty} \cup [status: {"in_use", "deleted"}, key: Keys, value: Values]

NoCursor == [status |-> "none", pred |-> AllRecords, first |-> 0, current |-> 0]

TypeOK ==
  /\ allocated \in BOOLEAN
  /\ entry \in [Slots -> Bucket]
  /\ cursor \in [status: CursorStatus \cup {"none"}, pred: Predicate,
                 first: Slots, current: Slots \cup {-1}]
  /\ result \in [call: {"none", "insert", "update", "delete", "get"},
                 key: Keys \cup {NoValue},
                 err: {"err_ok", "err_duplicate_key", "err_max_capacity",
                       "err_item_not_found"},
                 value: Values \cup {NoValue}]
  /\ trail \in Seq([slot: Slots, status: {"in_use", "deleted"}, key: Keys])
  /\ quiet \in BOOLEAN

\* The C remainder takes the sign of the dividend; the code adds map_size
\* and reduces again, so that a negative key has a bucket too.
CRemainder(a, n) == IF a >= 0 THEN a % n ELSE -((-a) % n)
oah_compute_simple_hash(k, n) == (CRemainder(k, n) + n) % n

(***************************************************************************)
(* Probing.  loc starts at the hash and is incremented, wrapping to 0 at   *)
(* map_size: the d-th bucket looked at is Probe(k, d).                     *)
(***************************************************************************)
Wrap(n) == IF n < MapSize THEN n ELSE n - MapSize
Probe(k, d) == Wrap(Hash[k] + d)

InUse(s) == entry[s].status = "in_use"
Matches(k, s) == InUse(s) /\ entry[s].key = k

\* oah_find_item_loc: the d-th bucket is the first that holds k, and no
\* bucket before it ended the search.
FoundAt(k, d) ==
  /\ Matches(k, Probe(k, d))
  /\ \A e \in 0 .. (d - 1) :
       /\ entry[Probe(k, e)].status # "empty"
       /\ ~Matches(k, Probe(k, e))

Found(k) == \E d \in Slots : FoundAt(k, d)

\* Mutant: the insert looks for a free bucket only.
StopsAtFree(k, s) == ~InUse(s)

\* oah_insert looks at buckets until one holds k or is free.
StopsInsert(k, s) == Matches(k, s) \/ ~InUse(s)
InsertStopsAt(k, d) ==
  /\ StopsInsert(k, Probe(k, d))
  /\ \A e \in 0 .. (d - 1) : ~StopsInsert(k, Probe(k, e))

-----------------------------------------------------------------------------
Answer(call, k, err, v) ==
  result' = [call |-> call, key |-> k, err |-> err, value |-> v]

Write(s, bucket) == entry' = [entry EXCEPT ![s] = bucket]

\* The bookkeeping of the history variables for a call that may write.
NoteWrite ==
  /\ quiet' = (quiet /\ entry' = entry)
  /\ UNCHANGED <<allocated, cursor, trail>>

\* The write concern is the parameter: it is wc_insert_unique but for the
\* duration of an update, and the other concerns are never set.
oah_insert(call, k, v, write_concern) ==
  /\ allocated
  /\ \/ \E d \in Slots :
          LET s == Probe(k, d) IN
          /\ InsertStopsAt(k, d)
          /\ \/ /\ Matches(k, s) /\ write_concern = "wc_insert_unique"
                /\ Answer(call, k, "err_duplicate_key", NoValue)
                /\ UNCHANGED entry
             \/ /\ Matches(k, s) /\ write_concern = "wc_update"
                /\ Write(s, [entry[s] EXCEPT !.value = v])
                /\ Answer(call, k, "err_ok", NoValue)
             \/ /\ ~InUse(s)
                /\ Write(s, Record("in_use", k, v))
                /\ Answer(call, k, "err_ok", NoValue)
     \/ /\ \A d \in Slots : ~StopsInsert(k, Probe(k, d))
        /\ Answer(call, k, "err_max_capacity", NoValue)
        /\ UNCHANGED entry
  /\ NoteWrite

oadict_insert(k, v) == oah_insert("insert", k, v, "wc_insert_unique")

oah_update(k, v) == oah_insert("update", k, v, "wc_update")

\* Mutant: the bucket of a deleted record is emptied.
oah_delete_leaving_gap(k) ==
  /\ allocated
  /\ \/ \E d \in Slots :
          /\ FoundAt(k, d)
          /\ Write(Probe(k, d), Empty)
          /\ Answer("delete", k, "err_ok", NoValue)
     \/ /\ ~Found(k)
        /\ Answer("delete", k, "err_item_not_found", NoValue)
        /\ UNCHANGED entry
  /\ NoteWrite

\* Mutant: a deleted record loses its key and value with its status.
oah_delete_blanking(k) ==
  /\ allocated
  /\ \E d \in Slots : FoundAt(k, d) /\ Write(Probe(k, d), [status |-> "deleted"])
  /\ Answer("delete", k, "err_ok", NoValue)
  /\ NoteWrite

oah_delete(k) ==
  /\ allocated
  /\ \/ \E d \in Slots :
          /\ FoundAt(k, d)
          /\ Write(Probe(k, d), [entry[Probe(k, d)] EXCEPT !.status = "deleted"])
          /\ Answer("delete", k, "err_ok", NoValue)
     \/ /\ ~Found(k)
        /\ Answer("delete", k, "err_item_not_found", NoValue)
        /\ UNCHANGED entry
  /\ NoteWrite

oah_get(k) ==
  /\ allocated
  /\ \/ \E d \in Slots :
          /\ FoundAt(k, d)
          /\ Answer("get", k, "err_ok", entry[Probe(k, d)].value)
     \/ /\ ~Found(k)
        /\ Answer("get", k, "err_item_not_found", NoValue)
  /\ UNCHANGED <<allocated, entry, cursorVars>>

\* Deleting the dictionary frees the buckets.  The caller has destroyed its
\* cursor: a cursor of a freed instance is not a state of a program.
oadict_delete_dictionary ==
  /\ allocated /\ cursor.status = "none"
  /\ allocated' = FALSE
  /\ entry' = [s \in Slots |-> Empty]
  /\ UNCHANGED <<result, cursorVars>>

oadict_create_dictionary ==
  /\ ~allocated
  /\ allocated' = TRUE
  /\ entry' = [s \in Slots |-> Empty]
  /\ UNCHANGED <<result, cursorVars>>

-----------------------------------------------------------------------------
(***************************************************************************)
(* Cursors.  A scan looks at the bucket after current, and goes on, with   *)
(* wrap-around, up to but not including first.                             *)
(***************************************************************************)
\* Mutant: a scan starts at the bucket that was delivered last.
ScanStartAtCurrent == cursor.current

ScanStart == Wrap(cursor.current + 1)

\* Mutant: a scan stops one bucket early.
AheadShort(loc, first) == IF loc <= first THEN first - loc - 1 ELSE first - loc + MapSize - 1

\* The number of buckets between loc and first.
Ahead(loc, first) == IF loc <= first THEN first - loc ELSE first - loc + MapSize

\* The file variant reads the buckets of a scan one after the other and does
\* not rewind at the wrap: from there on every read fails, and the buffer
\* keeps the last bucket of the file.
ScanItem(start, loc) ==
  IF OnFile /\ loc < start THEN entry[MapSize - 1] ELSE entry[loc]

\* Mutant: a scan does not look at the status of a bucket.
SatisfiesWhenDeleted(pred, bucket) ==
  bucket.status # "empty" /\ test_predicate(pred, bucket.key)

Satisfies(pred, bucket) ==
  bucket.status = "in_use" /\ test_predicate(pred, bucket.key)

\* A scan for pred from start finds a record in the j-th bucket it reads.
ScanHits(pred, start, j) ==
  /\ Satisfies(pred, ScanItem(start, Wrap(start + j)))
  /\ \A i \in 0 .. (j - 1) : ~Satisfies(pred, ScanItem(start, Wrap(start + i)))

Scan(pred, start, first) ==
  { Wrap(start + j) : j \in { i \in 0 .. (Ahead(start, first) - 1) : ScanHits(pred, start, i) } }

OpenCursor(status, pred, first, current) ==
  cursor' = [status |-> status, pred |-> pred, first |-> first, current |-> current]

EmptyScanStatus == IF OnFile THEN "cs_end_of_results" ELSE "cs_cursor_uninitialized"

\* An equality cursor starts at the bucket a lookup finds, the others scan
\* from bucket 0 with the last bucket as the place to stop.
oadict_find(pred) ==
  /\ allocated /\ cursor.status = "none"
  /\ IF pred.type = "equality"
     THEN \/ \E d \in Slots :
               /\ FoundAt(pred.lower, d)
               /\ OpenCursor("cs_cursor_initialized", pred,
                             Probe(pred.lower, d), Probe(pred.lower, d))
          \/ /\ ~Found(pred.lower)
             /\ OpenCursor("cs_end_of_results", pred, 0, 0)
     ELSE LET hits == Scan(pred, 0, MapSize - 1) IN
          \/ \E s \in hits : OpenCursor("cs_cursor_initialized", pred, MapSize - 1, s)
          \/ /\ hits = {}
             /\ OpenCursor(EmptyScanStatus, pred, MapSize - 1, -1)
  /\ trail' = << >> /\ quiet' = TRUE
  /\ UNCHANGED mapVars

Deliver(s) ==
  /\ cursor' = [cursor EXCEPT !.status = "cs_cursor_active", !.current = s]
  /\ trail' = Append(trail, [slot |-> s, status |-> entry[s].status, key |-> entry[s].key])

\* The first call delivers the bucket the cursor was opened on, whatever it
\* holds by now; every later one scans.
oadict_next ==
  /\ \/ /\ cursor.status = "cs_cursor_initialized"
        /\ Deliver(cursor.current)
     \/ /\ cursor.status = "cs_cursor_active"
        /\ LET hits == Scan(cursor.pred, ScanStart, cursor.first) IN
           \/ \E s \in hits : Deliver(s)
           \/ /\ hits = {}
              /\ cursor' = [cursor EXCEPT !.status = "cs_end_of_results"]
              /\ UNCHANGED trail
  /\ UNCHANGED <<mapVars, quiet>>

oadict_destroy_cursor ==
  /\ cursor.status # "none"
  /\ cursor' = NoCursor
  /\ trail' = << >> /\ quiet' = TRUE
  /\ UNCHANGED mapVars

Init ==
  /\ allocated = TRUE
  /\ entry = [s \in Slots |-> Empty]
  /\ cursor = NoCursor
  /\ result = [call |-> "none", key |-> NoValue, err |-> "err_ok", value |-> NoValue]
  /\ trail = << >> /\ quiet = TRUE

Next ==
  \/ \E k \in Keys, v \in Values : oadict_insert(k, v)
  \/ \E k \in Keys, v \in Values : oah_update(k, v)
  \/ \E k \in Keys : oah_delete(k)
  \/ \E k \in Keys : oah_get(k)
  \/ \E pred \in Predicates : oadict_find(pred)
  \/ oadict_next
  \/ oadict_destroy_cursor
  \/ oadict_delete_dictionary
  \/ oadict_create_dictionary

Spec == Init /\ [][Next]_vars

-----------------------------------------------------------------------------
(***************************************************************************)
(* Properties.                                                             *)
(***************************************************************************)

\* Every bucket between the hash of a record and the record has been used:
\* a lookup, which stops at an empty bucket, gets past all of them.  This is
\* what tombstones are for; a delete that emptied the bucket would break it.
ProbeChainUnbroken ==
  \A k \in Keys : \A d \in Slots :
    Matches(k, Probe(k, d)) =>
      \A e \in 0 .. (d - 1) : entry[Probe(k, e)].status # "empty"

\* An open cursor belongs to a live instance, and one with records to deliver
\* stands on a bucket that has been written: next reads a key and a value there.
CursorOnRecord ==
  /\ cursor.status # "none" => allocated
  /\ cursor.status \in {"cs_cursor_initialized", "cs_cursor_active"} =>
       cursor.current \in Slots /\ entry[cursor.current].status # "empty"

\* The inductive invariant the proofs use.
IInv == TypeOK /\ ProbeChainUnbroken /\ CursorOnRecord

\* A record that is in the table is found by a lookup of its key, and a
\* lookup that finds nothing is right.
LookupComplete ==
  \A k \in Keys : Found(k) <=> \E s \in Slots : Matches(k, s)

\* The values of a key in probe order: the newest first.
Copies(k) ==
  LET from[d \in 0 .. MapSize] ==
        IF d = MapSize THEN << >>
        ELSE LET s == Probe(k, d) IN
             IF Matches(k, s) THEN <<entry[s].value>> \o from[d + 1] ELSE from[d + 1]
  IN from[0]

Abstract == INSTANCE StackDictionary WITH
  Capacity <- MapSize,
  stack <- [k \in Keys |-> Copies(k)]

\* The map keeps a stack of values for each key, newest first, and every
\* answer of insert, update, delete and get is the one of the stacks.
ImplementsStacks == Abstract!Spec

\* What a cursor delivers after its first record is a record in use that
\* satisfies its predicate, whatever is inserted, updated and deleted
\* meanwhile; so is the first record if no bucket has changed since find.
DeliveredSatisfy ==
  \A i \in DOMAIN trail : (i > 1 \/ quiet) =>
    trail[i].status = "in_use" /\ test_predicate(cursor.pred, trail[i].key)

\* No bucket is delivered twice by one cursor, whatever is inserted, updated
\* and deleted while it is open.
NoBucketTwice ==
  \A i, j \in DOMAIN trail : trail[i].slot = trail[j].slot => i = j

\* The buckets a traversal gets to: all but the last one with a range or with
\* all records; with an equality cursor all of a map in memory, and those of
\* a file from the first record to the last bucket, or all of them if the last
\* bucket holds a record for it, so that a scan starts afresh behind it.
Visited(s) ==
  IF cursor.pred.type # "equality" THEN s # MapSize - 1
  ELSE ~OnFile \/ s >= cursor.first \/ Satisfies(cursor.pred, entry[MapSize - 1])

\* A traversal of an unchanged map delivers every record that satisfies the
\* predicate in the buckets it gets to, and no other: what a range leaves out
\* at the end of the map and an equality cursor behind the wrap of a file is
\* all that is left out.
TraversalComplete ==
  (quiet /\ cursor.status \in {"cs_end_of_results", "cs_cursor_uninitialized"}) =>
    { trail[i].slot : i \in DOMAIN trail } =
    { s \in Slots : Satisfies(cursor.pred, entry[s]) /\ Visited(s) }
=============================================================================
