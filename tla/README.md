# IonDB in TLA+

IonDB is a key-value store in C for microcontrollers.  It is a library: one
thread calls it, and every call runs to its end.  What makes it hard is not
concurrency of threads but long sequences of calls over shared state: cursors
that stay open while records change under them, tombstones, caches in front of
files, files that a process leaves behind when it stops, structures that are
rebuilt by the very operations that walk over them, and dictionaries that
are moved between two implementations when they are closed and opened.

This directory models the storage structures of IonDB in TLA+, checks them with
TLC on small instances, and proves properties of them with TLAPS for every
instance.  Paths below are relative to `src/` of the repository.

## 1. Inventory

| Component | State | Operations | What must hold |
|---|---|---|---|
| Dictionary layer (`dictionary/dictionary.c`) | status of a dictionary, its handler | dispatch to the handler; comparison; predicates; open and close through a flat file when the handler has neither | reopening restores what was closed; predicates and order agree |
| Master table (`dictionary/ion_master_table.c`) | file `ion_mt.tbl`, next id | create, open, close, delete, look up, find by use, close all | an id names one dictionary for ever; a row is found where it was written |
| Open address hash (`dictionary/open_address_hash`) | array of buckets with status, key, value | insert, update, delete, get, find, next | probe sequences are never broken; lookups and traversals are complete |
| Open address file hash (`dictionary/open_address_file_hash`) | the same buckets in `<id>.oaf` | the same, with close, open, removal | the same, and a crash costs one bucket at most |
| Flat file (`dictionary/flat_file`) | rows in `<id>.ffs`, end of the data, read buffer | insert, update, delete, get, find, next, close, open, removal | occupied rows are the first ones; the buffer is never stale; open finds the end |
| Skip list (`dictionary/skip_list`) | nodes in memory, linked on several levels | insert, update, delete, get, find, next | the levels stay nested and sorted; nothing leaks |
| Linear hash (`dictionary/linear_hash`) | buckets and overflow chains in `<id>.lhd`, heads of the chains and a cache of values in memory, state in `<id>.lhs` | insert, update, delete, get, close, open, removal; a split inside an insert; no cursor | a split moves every record it should and no other; every call ends; the state survives a close |
| B+ tree (`dictionary/bpp_tree`) | nodes in `<id>.bpt` behind seven buffers, one position for all cursors; lists of values in `<id>.val` | insert, update, delete, get, find, next, close, open, removal | the tree stays balanced and ordered, its leaves linked; every key is found; no list is mixed up with another; every call ends |
| Linked file bag (`file/linked_file_bag.c`) | lists of records, list of freed records | put, get, delete, update | a record is in one list or in the free list |
| IINQ (`iinq`) | a schema file for each source | create, open, insert, update, delete, drop a source | the schema file and the master table agree |
| C++ wrapper, serial output, SD stdio, benchmarks | none of their own | forward calls, do I/O | not modelled, see section 7 |

How they interact: a caller creates a dictionary through the master table, which
takes an id, calls the handler of the implementation and appends a row.  Every
later call goes through the handler.  A cursor belongs to the caller, points
into the implementation's state and is advanced by calls of its own.  The flat
file serves twice: as a dictionary, and as the place where the dictionary layer
puts the records of an in-memory dictionary that is closed.  IINQ opens the
master table, a dictionary and a schema file for every statement.

Hard behaviours, each listed with its line under `hazards` of `PROJECT.json`:

- interleaving of whole calls with the steps of an open cursor (all structures);
- stale state: a bucket chosen at `find` and delivered later, the read buffer of
  the flat file, the node a skip-list cursor holds, buffered nodes of the B+ tree;
- sequences of legal calls with a surprising result: tombstones that are used
  again before the key has been looked for behind them;
- crashes: writes that are buffered, torn or one of two;
- partial failures: ids that are used up, dictionaries half filled;
- a structure that is changed inside the loop over it: a split of the linear hash
  deletes and inserts in the bucket it scans, a delete of the B+ tree moves the keys
  of three nodes on its way down;
- limits: a full table, the fixed-size cache of the linear hash, wrap-around, the
  number of keys a node must and may have.

There is no waiting, no timeout, no message and no lock.  What must eventually happen
is that a call returns.  In the hash maps, the flat file and the skip list that is
plain from their loops, and a call is one action.  In the linear hash and the B+ tree
it is not: loops start again after they have changed what they run over.  There
a call is a thread of steps, and `CallsReturn` is a liveness property.

## 2. Modules

| Module | What it is |
|---|---|
| `DictionaryTypes` | predicates, cursor states; extended by all implementations |
| `StackDictionary` | abstract: a stack of values for each key, bounded capacity |
| `MultiDictionary` | abstract: a bag of values for each key; `CrashSpec` adds what a crash may cost |
| `OpenAddressHash` | the hash map and its cursors, refines `StackDictionary` |
| `OpenAddressHashProofs` | theorems about `OpenAddressHash`, its table and its traversals, and about `OpenAddressFileHash` |
| `OpenAddressFileHash` | the hash map on a file: composes `OpenAddressHash` with a file, close, open, crash |
| `FlatFile` | the flat file, its buffer and its cursors, refines `MultiDictionary` |
| `FlatFileCursors` | composes `FlatFileCrash` with a history of which cursor has had the buffer to itself |
| `FlatFileProofs` | theorems about the three |
| `FlatFileCrash` | composes `FlatFile` with the stream buffer and crashes |
| `SkipList` | the skip list and its cursor, refines `MultiDictionary` |
| `SkipListProofs` | theorems about `SkipList` |
| `NumberProofs` | lemmas on least and greatest numbers, sums over finite sets, and sequences |
| `MasterTable` | the file of the master table, its next id, rows by position |
| `Lifecycle` | composes `MasterTable` with the dictionary layer: create, open, close, delete, close all, crashes |
| `LifecycleProofs` | theorems about `MasterTable` and `Lifecycle` |
| `LinearHash` | the linear hash: chains of buckets, splits step by step, the state file |
| `LinearHashProofs` | theorems about `LinearHash` |
| `LinkedFileBag` | the linked file bag as operators on a bag: used by `BppTree` |
| `BppTree` | the B+ tree with its buffers, its handler and a cursor; composes `LinkedFileBag` with the tree |
| `BppNodeProofs` | lemmas about `BppTree`: nodes, trees of nodes, buffers, the invariant, the steps at a leaf and of the handler |
| `BppTreeProofs` | theorems about `BppTree`: the steps of the descent, and what holds between calls |
| `MC*` | the instances that TLC checks |

In the first modules a handler call is one action, because nothing else runs while it
does; the actions of an open cursor (`find`, `next`, `destroy`) interleave with all
others.  Only a crash can fall inside a call.  `FlatFileCrash` and `OpenAddressFileHash`
list the images the file goes through; `Lifecycle` splits the calls that change several
things into the steps a crash can fall between.  In `LinearHash` and `BppTree` the
loops of a call are steps (`call` has its locals), and a property of what calls leave
behind is stated for the states between them (`Idling`).  Definitions keep
the names of the C functions; helpers are named for what they are.

History variables constrain nothing: `trail`, what a cursor has delivered, and `quiet`
or `intact`, whether what it traverses has changed since it was opened; in
`LinearHash` and `BppTree` `held`, the values the callers have put in for each key.

### Open address hash

`entry` is the array; a bucket never written has no key or value.  `Probe(k, d)` is
the d-th bucket a probe for `k` looks at, with the wrap of the C loop.  `FoundAt`
states `oah_find_item_loc` and `InsertStopsAt` the loop of `oah_insert`; both as
"the first bucket such that", with all buckets before it looked at and passed.  The
write concern is a parameter: the code sets it for the duration of an update and
nothing else sets it.  A cursor is `first`, `current` and a status as in the
handler: `oadict_next` delivers the bucket that `find` stopped at unread, later ones
scan.  `OnFile` selects the two places in which the scan of the file variant is
different: the status of an empty traversal, and the missing rewind at the wrap.

### Open address file hash

`entry` is what reads of the stream return, `disk` what the file holds.  A call
starts with a seek, which writes out what earlier calls left in the stream buffer;
hence at most one bucket is ahead of the file (`OneWriteAtRisk`).  A bucket is
status, key, value in one buffered write, so a crash leaves a prefix of these
fields.  `torn` remembers such buckets until they are written as a whole again.

### Flat file

Rows are numbered from 1.  `file` has all rows, those behind `eof` included, which
is what an open has to tell apart.  `cache` is the read buffer as the code keeps it:
the region that the last scan loaded, and its rows.  A miss of `flat_file_read_row`
overwrites the first of them and leaves the region: `AfterRead`.  A delete is a
sequence of turns, each of which moves the last row into the hole and marks it;
`DeleteTurns` is that sequence and `DeleteImages` the files between its writes.  Keys and
values are finite sets: an abstract delete counts the records of all of them.

### Skip list

`heap` is the memory: its domain is what is allocated, so that freeing is leaving
the domain.  A walk along a level, and a descent through the levels, are recursive
functions that follow links, as in the code, and assume nothing about the list.
`OnLevel` are the nodes of a level; `Stops` are the nodes at which a descent goes down.
`sl_gen_level` may return any level.  Addresses may be used again; a cursor whose
node was freed behaves in any way the code could (`undefined`), one whose node was
freed and allocated again delivers the new record.  An allocation may fail in any
insert.

### Master table and lifecycle

`table` is the file: the next id at position 0 and the rows behind it, by position.
`WriteFromEnd` and `WriteAt` are the two ways `ion_master_table_write` is used for a row;
a write behind the end leaves blank rows.  A dictionary object is a `handle`, with the
records of its instance if that is in memory; a flat file is `files[i]`.  A dictionary
is its bag of records: what an implementation does with records is the matter of its own
module.  The skip list stands for the implementations in memory and the flat file for
those in a file; the bucket an open address hash leaves out of a traversal (section 3)
is also left out when it is closed, which this module does not show.  `call` is the call in progress: a create takes an id, makes the
instance, appends the row; an open and a close of a dictionary in memory copy record by
record and end by removing the source; a delete removes the instance, then the row.
`ion_close_all_master_table` goes down the ids with an object of its own, `Local`, and uses
the same steps.

The program that calls is part of the model: it does not open a dictionary it has open,
deletes the master table only when it has deleted every dictionary, and calls close all
when all are closed, or (`Reopened`) while some that were closed before are open.
`live`, `kept` and `gaps` are history: which dictionaries there are, what their users
have put into them, and how many ids never got a row.  `kept` is reset where the code
loses records by what it is: a crash while they are in memory, and a failed close within
close all, which drops the only object that has them.  All that is left after these must
agree with `kept`.  `NoFile` stands for a file that is not there: it is neither a table nor
a bag of records (`NoFileAssumption`, `NoBagAssumption`).

### Linear hash

`file` is the sequence of buckets as they were written; it only grows.  `bucket_map` is
the array list, with the doubling of `array_list_insert` and the zeroed entries it
leaves.  A record goes to `IndexOf(k)`: the hash in the address space before or after
it was doubled, whether the bucket has been split or not.  `InsertAt` is the whole of
`linear_hash_insert` up to the split that its end may start: the record, the load,
one bucket more, the doubling of the address space.

`SplitStep`, `DeleteStep`, `SwapStep` and `ReinsertStep` are one turn each of the loops
of `split`, of the walk of `linear_hash_delete`, of its inner loop over swap records,
and of the inserts that take values back from the cache.  `call.records` is the copy of
a bucket that the walk reads while the file changes under it, `call.back` what a
delete returns to.  A slot never written holds `Blank`, what the build leaves there;
it is a parameter, because `write_new_bucket` writes blank records that are three bytes
too long and does not clear them to their end (`linear_hash.c:1129`).  `BlankAssumption` is
that such a slot does not read as a record of a key in use.  The code does not see to
that: a build whose garbage is a status other than empty in front of the bytes of such a key has
lookups that return a record nobody put in, as all slots of a bucket are looked at (`linear_hash.c:718`).  `linear_hash_reopen` is the close and the open that follow
from the state file as it is written and read; it is in `ReopenSpec` only, since
a table that was closed is not the same table afterwards (section 3).

### B+ tree and linked file bag

A node has its count, its links and an array of slots; slots behind the count keep what
was there, because `b_find_first_greater_or_equal` may read one of them.  `search` is the
binary search, a recursive function over its bounds, and `search_LLEQ` its variant.
`h` is the handle: `nodes` is what a read of an address gives, `file` the sectors, `bufs`
the seven buffers in the order of their last use with their marks.  `assignBuf` writes
the buffer it takes only when it is marked as modified; otherwise the address goes back
to what the file has.  `writeDisk` marks, `flushAll` writes.

Insert, update and delete go down in one pass.  `Descend` is one level: the search,
the read of the child, and, when the child is `Crowded`, the `gather` of three
neighbours and what follows, the collapse of the root or a scatter.  The loop of `scatter` that counts
nodes is `AddNode` and `DropNode`, the rest of it `ScatterKeys`: the link of the leaf
behind, the parent, the nodes.  `FixUp` is the repair of an inner key when the first key
of a leaf changes; `ge`, `at` and `lt` are the locals that decide where it goes.

The handler runs two tree operations for an insert (`b_get`, then `b_insert` or
`b_update`) and one or more for an update; `call.op` is the call, `call.tree` the operation.
Values are in a `LinkedFileBag`, which is modelled as operators from bag to bag: a bag has
no life of its own, and all of its operations are reached from the handler.  A cursor
delivers the list of a key before it moves on by the position in `h`.

## 3. What the runs check

TLC checks all of these with the bounds in the `.cfg` files.

| Run | States | Question and answer |
|---|---|---|
| `oah` | 15 thousand | Are records found whatever was inserted and deleted before? Probe sequences stay unbroken, lookups are complete, and the map implements one newest-first stack of values per key. |
| `oah_cursor` | 494 thousand | What does a cursor deliver meanwhile? No bucket twice, and of an unchanged table every record for it, around the wrap too, but for the one bucket at which a range stops. |
| `oafh` | 269 thousand | What does a crash cost, and what the reads that fail behind the wrap of a scan? A crash one bucket; every record in another bucket is found after the next open. The wrap costs what is behind it while the last bucket has no record for the cursor, and nothing else. |
| `flat_file` | 90 thousand | Does the flat file keep a bag of values per key, across deletes, closes and crashes, and is a traversal exact? Yes; a crash in a delete may leave one row twice. |
| `flat_file_cursors` | 115 thousand | Do two cursors that share the buffer deliver the rows of the file while it changes? Yes, but for the first row of one after the other has taken its own. |
| `skip_list` | 95 thousand | Do the levels stay nested, is all memory reached, does a cursor lose or repeat a record under inserts? They do, it is, it does not. |
| `lifecycle` | 485 thousand | Do ids, rows and records stay together through failures and crashes? An id is never handed out twice; rows are off by at most the creations that failed; if none did, every dictionary is found at its id and has its records, once. |
| `linear_hash` | 89 thousand | Do splits, overflow buckets and swap-on-delete lose or repeat records, break a count, or run for ever? They do not, as long as the table is not closed; values may change places (below). |
| `bpp_tree` | 27 thousand | Does the tree stay balanced, ordered and linked through splits, merges, collapses of the root, evicted buffers and reopenings, and does every call end? Yes, from the trees the scripts build. |
| `flat_file_shared` | violation | Does every cursor deliver the row of the file it stands on? Not when another one reads its first row over the one that find left in the buffer. |
| `close_all_reopened` | violation | Does close all keep the records of dictionaries that were closed and opened again? Not of those in memory. |
| `bpp_separator` | violation | Is every key found that was put in? Not after the first key of a leaf was deleted and put back when its inner key had moved up. |
| `bpp_even_nodes` | violation | Are the nodes of the tree half full when they have room for an even number of keys? Not the inner ones: a delete takes a key from one that has the least. |
| `lh_split_values` | violation | Does a split keep the values of the records it moves? Not when a key has two of them. |
| `lh_reopen` | violation | Does a close write the state of the table? No: the table that is opened counts no records. |

What the properties say, beyond their comments in the modules:

- `ImplementsStacks` and `ImplementsBags` are refinements with the abstract
  specification as a property: every answer (error, count, value) of every call is
  checked, not only the state.  `StackDictionary` is deliberately not a map.  The
  hash map is meant to hold one record per key; because tombstones are used before
  the key has been looked for, it holds a stack, and what the code does guarantee
  is that the newest value is the one read, updated and deleted.
- `LevelsNested`, `NothingLeaks` and `FindsFirst` together say that the links, the
  memory and the search of the skip list agree after any sequence of calls.
- `TraversalOrdered`, `TraversalExact`, `TraversalComplete` compare the whole
  history of a cursor with the contents of the structure.
- `OpenRestores` and `IntactRecordsFound` relate what a process left in the file
  to what the next one finds.
- `KeysFound`, `ValuesGenuine` and `CountsExact` compare the linear hash with what its
  callers have put in, record by record; `RoomAtHeadOnly` and `LoadBounded` are what its
  operations rely on: that only the head of a chain has room (a comment of
  `linear_hash_delete` claims it), and that a split never starts a split.
- `TreeOrdered` and `LeavesLinked` are the two ways into the B+ tree, which must agree;
  `KeysFound` compares what a search finds with what was put in, and `ListsApart` the lists
  of values with each other and with the freed records.
- `RepairsRightKey` is what keeps the order of the tree when the first key of a leaf changes: the key
  that `b_insert` writes over is the one that led to the leaf.  The run `bpp_separator` leaves it, and
  loses keys; `bpp_tree` keeps it, and the theorems of section 5 assume it.
- `ScatterAdvances` says why the loop that counts nodes ends: once it has given up a
  node it does not add one.  `CallsReturn` says that calls end, all of them.

Each property has a mutant in `PROJECT.json`: a definition changed the way a bug
would change it (a delete that empties a bucket, an update that leaves the buffer,
a row that is cut off without its mark, a further record with a height of its own),
with which TLC finds the property violated.  The operators are marked `Mutant` in
the modules and used nowhere else.

### Disagreements between the code and its documentation

Six have a run, and are listed under `findings` of `PROJECT.json`:

1. `ion_master_table.h:144` says that all dictionaries are closed, which works for those
   "closed previously and are now re-opened"; close all opens and closes a second,
   empty instance of a dictionary in memory (`ion_master_table.c:286`).
   Run `close_all_reopened`.
2. `bpp_tree.c:1257` says that the last key passed is repaired when a first key is
   put in front of a leaf; the code writes over the first key of that node
   (`bpp_tree.c:1267`), while the line that follows the comment is commented out.
   Run `bpp_separator`.
3. `bpp_tree.c:621` says that the limits of a scatter allow for a deletion; with an even
   number of keys to a node they do not (`bpp_tree.c:630`): an inner node is left with
   half of its keys, loses one more when its children are merged, and is never seen as
   too small again (`bpp_tree.c:1543`).  Run `bpp_even_nodes`, with ten keys to a node, as
   integer keys have where addresses have eight bytes.  The compiled code agrees with
   the model to the key: with 215 ascending inserts all deletes from the greatest key down
   succeed in both, with 220 the model has a node of four keys and the code refuses
   to delete key 167 with `bErrIO`.
4. `linear_hash.c:358` says that the cache keeps a split from losing data; the values
   cached are not those of the records taken away when the swap record has the
   key as well (`linear_hash.c:939`).  Run `lh_split_values`.
5. `linear_hash.c:1460` says that close writes the state; the call is under the
   condition that closing the data file failed (`linear_hash.c:1469`).
   Run `lh_reopen`.
6. `flat_file.h:252` says that `flat_file_read_row` reads the row it is given; a miss reads it into the
   first place of the buffer and leaves the region of the buffer as it is (`flat_file.c:361`), so that
   the row that was there is afterwards served from the wrong bytes.  A find leaves a row there
   for the first next, and a second cursor comes between.  Run `flat_file_shared`;
   `DeliversRowUnlessShared` and its theorem say that there is no other way.

The others were met while modelling.  The models behave as the code does there, and the
properties that pass are stated so that they hold with it:

- `open_address_hash.h:156` says that inserts keep records unique;
  `open_address_hash.c:165` uses a tombstone before it has looked for the key.  Hence the
  stacks of `StackDictionary`.
- A traversal of the open address hash stops before the last bucket
  (`open_address_hash_dictionary_handler.c:234`).  `TraversalComplete` leaves it out.
- On a file, the reads of a scan that wraps fail (`open_address_file_hash_dictionary_handler.c:132`): a
  cursor for a key that has records behind the wrap ends without them.
  `IntactTraversalComplete` says exactly which.
- With six keys in a node, the least that `b_open` allows, the limits of a scatter
  overlap (`bpp_tree.c:659`): eleven keys of leaves are too many for two nodes and too
  few for three.  The loop adds and gives up a node for ever.  With `MaxCt = 6`
  TLC finds `ScatterAdvances` violated; the run has seven, with which it holds.
- `b_update` changes a buffer without marking it (`bpp_tree.c:1400`), so that the newest
  value of a key with several may be lost.  `ListsApart` allows for older values.
- A range whose lower bound is not in the tree starts at the slot behind the key below
  it (`bpp_tree.c:1135`), which may be behind the last key of a leaf.
  `TraversalExact` speaks of ranges whose lower bound is there.
- After a creation that failed, the row of each later dictionary is one position before
  its id, so that its id leads to the next dictionary, or to none.  `RowsWhereLookedUp`
  bounds this.

## 4. Bounds

- Hash maps: three buckets.  In `oah`, three keys of which two collide in the last bucket and
  one is negative, as in `oah_compute_simple_hash`: probe sequences wrap, fill the table and pass
  tombstones of the other key, which is all that the known hazards need.  With a cursor, three
  keys of which two share bucket 1, so that records of a key are before and behind the wrap
  of its scan; on the file one of them is 0, as which zeroed bytes read.  `oafh` takes states that
  differ in the last answer alone as one (`WithoutAnswers`).
- Flat file: three rows behind a buffer of two, so that a region is left, entered in
  the middle and cut short; two keys and two values.  `MaxRows` bounds the file.  While a
  cursor is open the rows have one value (`OneValueRead`): a traversal is told by
  locations and keys, and the theorems of section 5 have no such bound.  With two cursors `Bounds` limits
  the rows delivered, and the rows behind the end of the data while both are open; the violation
  needs a buffer of one row.
- Skip list: three nodes, two keys, two values, two levels: a block of two or three
  records of one key with a neighbour, and every pattern of heights.  `Node` bounds
  the memory, and addresses are symmetric.
- Lifecycle: three ids, so that a dictionary follows one that follows a failed creation,
  and after a delete the next row is appended at its right place again; two objects; one
  record, which is enough for "lost" and "twice" since a bag counts.  `MaxId` bounds the
  ids of one table, `MaxGaps` the creations that fail.
- Linear hash: one index at first and two records in a bucket, so that the second record
  starts the first split, which moves nothing, and the fourth doubles the address space and
  starts one that moves one of the two keys out of a chain with an overflow bucket; two
  values, so that a key has several records of which some are alike.  `MaxRecords` (4) bounds the records and `MaxFile` (5)
  the buckets when an insert begins; deletes and updates are not bounded.
- B+ tree: a node of seven keys needs dozens of records before it has anything to
  merge.  A behaviour therefore begins with one of the `Scripts`, calls like any other,
  checked at every step: an empty tree; a root about to be split; leaves about to be
  merged and a root about to collapse; 115 ascending keys, which is a height of three,
  deleted from the left; the same from the right, with first keys of leaves deleted and put
  back; keys with two values, and more leaves than buffers.  Then come up to
  `MaxCalls` (2) calls of any kind on `HotKeys`, which are at the places where the next
  split, merge or first key is, with every predicate and every step of a cursor.  Seven
  is odd; `TreeOrdered` does not hold with an even number (`bpp_even_nodes`).
- Cursor runs use one value where the value does not matter, and predicates of all
  three types (one type each where the run asks about something else).

Fairness.  The library has one thread, which runs a call to its end, so that the next
step of a call is taken when nothing else may happen: weak fairness of `Step`, the loops
of calls.  Nothing is assumed about the callers: they need not make another call.  In
`LinearHash` it is `WF_vars(Step)`; in `BppTree` the same is written out without `ENABLED`, whose
evaluation is slow there: between calls again and again, or steps again and again.
The two agree because a step is enabled whenever a call runs, which the deadlock check
of the run shows: no other action is enabled then.

## 5. Proofs

All theorems are about every value of the constants that the named `ASSUME`s of the
modules allow.

| Module | Theorem | Establishes |
|---|---|---|
| `OpenAddressHashProofs` | `Invariance` | `IInv` always holds |
| | `TypeCorrect` | `TypeOK` always holds |
| | `ChainsHold` | `ProbeChainUnbroken` always holds |
| | `CursorsStandOnRecords` | `CursorOnRecord` always holds |
| | `LookupIsComplete` | `LookupComplete` always holds |
| | `StacksImplemented` | `ImplementsStacks` |
| | `CursorInvariance` | what a cursor has delivered is what is for it where it has scanned |
| | `NeverTwice` | `NoBucketTwice` always holds |
| | `DeliveriesSatisfy` | `DeliveredSatisfy` always holds |
| | `TraversalsComplete` | `TraversalComplete` always holds, in memory and where reads fail behind the wrap |
| | `FileKeepsUp` | `FileBehind` always holds |
| | `OneWrite` | `OneWriteAtRisk` always holds |
| | `ReopenRestores` | every step is as `OpenRestores` says |
| | `FileChainsHold` | probe sequences are unbroken across closes, opens and crashes |
| | `CrashKeepsRecords` | `IntactRecordsFound` always holds |
| | `FileCursorInvariance`, `FileNeverTwice`, `FileDeliveriesSatisfy` | what the cursor theorems say, with a file |
| | `FileTraversalsComplete` | `IntactTraversalComplete` always holds |
| `FlatFileProofs` | `Invariance` | the inductive invariant always holds |
| | `TypeCorrect` | `TypeOK` always holds |
| | `RowsStayPacked` | `RowsPacked` always holds |
| | `BufferStaysFresh` | `BufferFresh` always holds |
| | `OpensRestore` | every step is as `OpenRestores` says |
| | `TraversalsExact` | `TraversalExact` always holds |
| | `LaterRowsOfFile` | what is delivered after a first row is the row of the file |
| | `RowsOfFile` | every step is as `DeliversRowUnlessShared` says |
| | `BagsImplemented` | `ImplementsBags`, with crashes |
| `SkipListProofs` | `Invariance` | the inductive invariant always holds |
| | `TypeCorrect` | `TypeOK` always holds |
| | `LevelsStayNested` | `LevelsNested` always holds |
| | `NothingIsLost` | `NothingLeaks` always holds |
| | `FirstIsFound` | `FindsFirst` always holds |
| | `TraversalsOrdered` | `TraversalOrdered` always holds |
| | `BagsImplemented` | `ImplementsBags` |
| `LinearHashProofs` | `LinearHashInvariance` | `IInv` always holds |
| | `LoadStaysBounded` | `LoadBounded` always holds |
| | `ContentsInvariance` | `IInv` and `ContentsInv` always hold |
| | `KeysStayFound` | `KeysFound` always holds |
| | `ValuesStayGenuine` | `ValuesGenuine` always holds |
| | `CountsStayExact` | `CountsExact` always holds |
| | `RoomStaysAtHead` | `RoomAtHeadOnly` always holds |
| `LifecycleProofs` | `LifecycleInvariance` | `IInv` always holds |
| | `IdsOnce` | every step is as `IdsHandedOutOnce` says |
| | `RowsFound` | `RowsWhereLookedUp` always holds |
| | `RecordsInvariance` | `RecordsOK` always holds, while no creation has failed |
| | `NothingIsLost` | `NothingLost` always holds, with `Reopened` false |
| `BppTreeProofs` | `TreeConsistent` | `BppInv` always holds, with `OddRoom` and `RepairsRightKey` |
| | `BppTreeOrdered` | `TreeOrdered` always holds, with the same |
| | `BppKeysFound` | `KeysFound` always holds, with the same |
| | `BppScatterAdvances` | every step is as `ScatterAdvances` says, with the same |

**Open address hash**: all finite sets of integer keys, all values, every table size and every
hash function into the table.  The inductive invariant `IInv` is the conjunction of
`TypeOK`, `ProbeChainUnbroken` and `CursorOnRecord`.  `LookupComplete` alone is not
inductive: of two records of one key, only the first need be reachable for it to hold,
and after a delete of that one a second record behind an empty bucket would be out of
reach.  `ProbeChainUnbroken` speaks of every record and every bucket before it.
`CursorOnRecord` is needed for `TypeOK`: `next`
appends the key it reads, and a bucket never written has none.  The argument:

1. `Probe(k, _)` is a bijection from distances to buckets (`ProbeInRange`, `ProbeInjective`,
   `ProbeSurjective`), so that a record has one distance.
2. A write that makes a bucket used never breaks a sequence (`WriteKeepsChain`): an
   insert has passed only buckets in use on its way; a delete leaves a tombstone.
3. Each action keeps the invariant; one lemma for each.
4. A record at distance d, and a least distance at which the key is found
   (`FirstMatch`), give `Found`.

`StacksImplemented` is the refinement.  A call writes at most one bucket, at a distance `d` before
which no bucket holds its key, so the list of values of the key has the same rest
behind `d` before and after, and differs in its first value alone (`WriteLists`); the lists of all other
keys stay.  A lookup ends at the first record of the key (`TopListed`), or there is none, by
`ProbeChainUnbroken`.  What the stacks hold together are the buckets in use (`HeldIs`),
a sum over the keys, which is why there are finitely many.

**Open address file hash**: the same constants, with crashes.  A call writes one bucket or
none (`WriteOne`, one lemma for insert and one for delete), and it begins with a seek that
brings the file up to what earlier calls have written.  `FileBehind` says how the file and
the table can differ: by one bucket while the instance is open, not at all after
a close, by one bucket after a crash.  The two properties follow from it and from the fact that
a set with at most one member has at most one member to count.
`FileChains` says that probe sequences are unbroken in the table the calls work on and in the one
on disk.  A crash leaves a prefix of one bucket: it is as used afterwards as it was
before, or more so, hence no sequence breaks, and every other record is found.

**Traversals of the hash map**: any number of cursors between any calls.  A cursor that has
begun has scanned an arc of the circle of buckets, from where it began to where it stands
(`CursorInv`).  What it has delivered is in the arc, in its order, and at most once; while
nothing has changed, what satisfies its predicate in the arc has been delivered
(`TrailCovers`).  When it ends, the arc is the circle, but for the last bucket with a range.  On a
file, the scan that wraps reads the last bucket again and again, so that it finds nothing there that
it has not found before the wrap (`FoundBeforeWrap`), and the cursor can only be behind it by having
delivered the last bucket (`WrappedOnDue`).  That what is due is delivered needs that find starts at the first
record of its key, hence a file without torn buckets (`TornOrCovered`): one that a crash
has left may be a record nobody inserted.

**Flat file**: all finite sets of integer keys and of values, any buffer size and any
number of cursors.  The invariant (`FInv`, `QuietInv`, `AloneFresh`) says that the rows are packed up to `eof`, that the
buffer holds rows of the file but for the place `read_row` overwrites, and where a cursor
stands in what it has delivered.  A delete is a recursion over its turns (`DeleteTurns`); each
turn keeps the file packed and takes one record of the key (`TurnsExist` and the lemmas
behind it).  A find leaves the row it stops at in the buffer, in its place; while no other cursor takes its first
row (`alone`) nothing but a write touches that place, and a write drops the region (`AloneFresh`).
Later rows need no such thing, since a scan fills the buffer before each.  Hence `RowsOfFile`,
with any number of cursors.
`BagsImplemented` takes the images of a call apart: each differs from the bag before or after by
the records of its key, and doubles one at most.  How many records two bags
differ by is a sum over values and a sum over keys, which is why both sets are finite.  `NearBy`
and `DiskNear` say how far the file on disk may be behind.

**Skip list**: all sets of integer keys, all finite sets of values, any number of levels and
nodes.  The nodes have places, numbers such that every link leads to the nearest later node of its
level (`Shape`): the places are not in the program, the invariant says that some exist.  A
further record of a key is on the bottom level only, which is why a search that descends finds
the first.  An insert doubles all places and takes one between two; a delete leaves
those of the rest.  A walk stops at the last node before a cut of the places, a descent at
one node of each level.  The cursor has delivered what is for it before the place
where it stands, until something is deleted (`intact`).

**Sums**.  What a bag holds of a key is a sum over values, a recursive function over subsets.  It is
the number of records with that key (`TotalIs` of `NumberProofs`): a function that counts the
elements of a finite set by their values satisfies the recursion, and two functions that do
are equal, by the least number of elements where they are not.  All inductions of these
proofs are of this kind: a least or a greatest number at which something
fails.

**Linear hash**: all keys, values, hash functions, initial sizes, bucket sizes and
thresholds for which `SplitThreshold * RecordsPerBucket >= 100`; the handler has 85 and 4.
A record that a split has deleted and not yet inserted again is `InFlight`.  The invariant
counts it as if it were in the table: the load with it is never over the threshold, since
an insert adds a bucket when the load passes the threshold, and by the assumption a bucket
is room for more than one record (`CapacityGrows`).  So the inserts of a split find the
load that the split began with, and never start another.  `Sizes` says that while a split is
under way the bucket is already counted and `next_split` is not; `CallShape` that
the running call is one of four records.  The contents of the file are not needed for this.

The contents are `ContentsInv`, for any keys and a finite set of values, with `BlankAssumption`.
No property of the run is inductive by itself.  `Chained` is the shape of the file, in terms
that need no walk: a link leads to an older bucket of the same index; a bucket is in its chain
if it has records or is the head; a link skips no such bucket; a bucket that has records and
is not the head is full.  That the walk of the code lists just these buckets is a lemma
(`ChainIs`), and so are the effects of each piece of work on the shape and on the cells, the
places of records: a bucket is appended, a record is put in a head, the last record of a head
is taken out and the head leaves its chain with it, records are overwritten.
`Placed` says which chain a record is in: the one its key is looked up in or, during
a split, the one that the split takes it from.  `Progress` is what the loops have behind them: a
delete nothing of its key, a split no record that moves, and the copy of the bucket that a
delete reads still agrees with the file from its slot on.  It survives the swap because the
record that fills the hole comes from a bucket that is walked already, or from behind the
slot in the same one.  `Counted` and `Genuine` compare the cells with `held`, with the records in
flight of the key that is moved; that only values may change places (section 3) is why `Genuine` asks
for a value that is held and not for as many of it as are.  When the address space is doubled,
no key changes its index (`DoublingKeepsIndex`).

**Master table**: any number of ids, dictionary objects and records, any creations that
fail and any crashes.  Neither property is inductive.  `TableOK` adds how many ids are above the
last row: as many as creations that failed (`gaps`), and the one under way, which is why the
position of a row is off by at most `gaps`.  Rows ascend in their ids, so that the row at
the end belongs to the newest one; if no creation has failed, the rows are exactly the
dictionaries there are.  `OpenedOK` says that the id in memory is the one of the file
while the table is open, and `HandlesOK` that objects have ids that were handed out, since a
delete blanks the row of the id it is given.

`NothingLost` needs `RecordsOK`: what is owed for an id is in the object that is open for it, with
nothing in the file if it is a skip list; or in the file; or, while an open or a close copies,
in both together, each record once.  No two objects are open for one id.  That
is the hypothesis `~Reopened`: close all opens with an object of its own, and if the program
still has the dictionary open, there are two (section 3).  The property has `gaps = 0`
as a premise: after a creation that failed, rows are looked up where they are not.

**B+ tree**: all sets of integer keys, all values, scripts of calls and predicates.  The theorems have
two hypotheses, and each has a run that shows what happens without it:

- `OddRoom`: a node has room for an odd number of keys, seven or more.  With an even number
  inner nodes are left with too few (`bpp_even_nodes`); with six, the least `b_open` allows, the
  loop of a scatter need not end either (section 3).
- `RepairsRightKey`, at every state: where an insert writes a new first key of a leaf over the first
  key of an inner node, that key is the one that led to the leaf.  It is a condition on what the
  callers do, not on the constants: the code takes the first key whichever it is (`bpp_separator`).  The
  behaviours of `bpp_tree` meet it, which the run checks; they delete first keys of leaves
  and put them back, and write over inner keys.

The nodes of a correct tree are told by `IsTree(N, t)`: `t` has the addresses `t.T`, the level `t.L` of each above the
leaves, the keys `t.K` below it and its parent `t.up`.  None of these is in the program; the invariant
says that some `t` exists.  A child is one level down, so that paths have one length; its keys are the ones of
its parent that are routed to it; a leaf has its own.  Nothing is defined by
recursion along the tree, and the only inductions are over levels, again by a least number at
which something fails.

`BppInv` is one of six cases, by where the call is (`IdleOK`, `ReturnOK`, `BeginOK`, `DescendOK`, `RescanOK`,
`ScatterOK`).  In all of them there is a `t` for the nodes with exactly the keys that are held in
`t.K[Root]`, but for the key that the call is about to put in or has taken out (`KeysHeld`).
Besides:

- *Sizes.*  Every node but the root has from half of `MaxCt` to `MaxCt` keys; the node the call is in
  has one more than the least when it deletes and one less than the most when it
  writes (`NodeRoom`).  This is why one pass down is enough.
- *The way.*  The nodes from the root to the one the call is in are on the route of its key, and the inner
  key it remembers (`ge`, `at`) is the one that bounds the subtree it is in (`PathOK`, `Guard`).  Hence the
  repair of an inner key moves a bound over no other key (`MoveSeparator`).
- *Buffers.*  A node in no buffer is what the file has; one in a marked buffer will be.  A node in
  an unmarked buffer is the one of the file but for offsets of lists and links of
  leaves (`Same`), which `b_update` and the scatter may change without marking it.  A node
  whose pointer a call still holds has been used recently enough to be in its buffer when
  the next ones are read (`Near`): a scatter reads at most six others in between, of seven buffers.
  The root has a flag of its own (`RootKept`): when it takes the keys of its last
  children, the file has still the root and the children it had before, so that
  a close and an open restore the tree (`Collapsed`, `ReopenTree`).
- *Keys in no node.*  Between a gather and the end of its scatter the keys of three neighbours are in `gbuf`
  alone.  `ScatterOK` has a second table of nodes `N`, in which one node has them all: it is a tree, and the real nodes
  agree with it everywhere else.  `Amount` is how many keys there can be by the way they were gathered,
  `TmpOK` which sectors they will go to.

The steps: a gather is the inverse of a cut into three (`CutUp`), a scatter a cut into two, three
or four pieces whose first keys go to the parent (`CutDown`), and a root that grows or collapses is a
node put above it or taken away (`Lift`, `Lower`).  Each is a lemma about trees in which
no handle or buffer occurs.  The others say that the program does these things to the nodes it
reads: `SearchIs` what the binary search finds, `AssignIs` and `EvictStore` what a buffer taken for another node
loses, `LeafInsertGood` and its like for each step.  `BppInvNext` puts them together.

`BppTreeOrdered` walks the rows of the tree (`Rows`) down by levels, and `BppKeysFound` shows that `Lookup`,
which goes down as many levels as there are nodes, ends at the leaf of the key.  In
`BppScatterAdvances` the amount of keys decides: what was too few for three nodes is not too many
for two.

Only model-checked:

- the linear hash behind a close and an open (`ReopenSpec`), where nothing of this is left;
- the lists of the linked file bag (`ListsApart`), the links of the leaves (`LeavesLinked`) and
  the traversals of the B+ tree (`TraversalExact`).  `BppInv` says of offsets that they are
  records of the bag, and of links nothing: both may be lost with an unmarked buffer, so
  that an invariant about them has to say which of the values they had they may go back to;
- everything temporal under fairness (`CallsReturn`), which the prover does not treat;
- that calls meet `RepairsRightKey`: `bpp_separator` is one that does not.

## 6. Plan

Done: `DictionaryTypes`, the hash maps, the flat file, the skip list, the master table with
the life of dictionaries, the linear hash, the linked file bag and the B+ tree; proofs
about all of them, but not about the lists of the bag.

Next, in this order:

1. Proofs: the lists of the linked file bag with the offsets of the tree (`ListsApart`), and
   the links of the leaves (`LeavesLinked`), each with what an unmarked buffer may lose.
2. `Iinq` on top of the master table, with the schema file of a source.
3. `Comparators` (bytes, signs, narrowing) and the binary search of the sorted flat file, as
   functions against reference definitions.
4. Cursors of the B+ tree between other calls, once there is something to say about
   what they share.

## 7. Not modelled

- IINQ: sources with a schema file on top of the master table.  Its query operators are
  macros that expand into the caller.  Planned.
- Byte-wise comparison: keys are integers in every module.  What
  `dictionary_compare_char_array` returns is an `int` of `strncmp` narrowed to a `char`
  (`dictionary.c:66`), and is not covered.
- Sorted mode of the flat file: no dictionary is created in it.
- Open address file hash: a crash while a new file is filled, and the results of `fread` that
  the probe loops do not look at.
- Read and write errors of intact files, and a row of the flat file written in part.
- Memory exhaustion in `find`: it gives back what it has taken and changes nothing.
- Write errors of the master table, and errors of `fclose` and `fremove`.
- `ion_find_by_use_master_table`, which only reads; every row has use type 0.
- Linear hash: the end of the cache (128 bytes, no test), keys of eight bytes or more, for
  which the hash reads behind its coefficients, and read errors.  The code implements no
  cursor for it.
- B+ tree: `b_find_last_key` and `b_find_prev_key`, which nothing calls; duplicate keys in
  the tree, which the handler turns off; I/O errors; a crash, after which the file may
  hold any mixture of old and new sectors, as nothing in the code orders their writes;
  other calls while a cursor is open, since all share one position.
- Calls on a dictionary or cursor that the caller has destroyed.
- `predicate_predicate`: every implementation leaves its cursor unset.
- SD stdio, serial output, the C++ wrapper, benchmarks and utilities forward calls or do
  I/O and keep no state of a dictionary.
