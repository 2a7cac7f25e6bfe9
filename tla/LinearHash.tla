----------------------------- MODULE LinearHash -----------------------------
(***************************************************************************)
(* The linear hash (dictionary/linear_hash).  The file "<id>.lhd" is a     *)
(* sequence of buckets that only grows.  Each bucket index has a chain of  *)
(* them, linked from the newest to the oldest; bucket_map holds the newest *)
(* of each, the head, and only the head has room.  A delete fills the hole *)
(* it makes with the last record of the head; an insert that takes the     *)
(* load over the threshold adds an index and splits the chain of           *)
(* next_split over two.  A split deletes and inserts the records it moves  *)
(* through the same operations, key by key, with the values in a cache.    *)
(*                                                                         *)
(* One call is one thread of steps: a user call sets call.pc and the steps *)
(* below run until it is idle again.                                       *)
(***************************************************************************)
EXTENDS Integers, Sequences, FiniteSetsExt

CONSTANTS
  Keys,
  Values,
  KeyInt,           \* KeyInt[k]: key_bytes_to_int of the bytes of k
  InitialSize,      \* the parameters of linear_hash_init
  SplitThreshold,
  RecordsPerBucket,
  Blank,            \* what a slot never written holds, see write_new_bucket
  MaxRecords,       \* bound: records held when one is inserted
  MaxFile           \* bound: buckets in the file when one is inserted

\* A threshold that one record cannot pass twice is what keeps a split from
\* starting another; 85 and 4, the handler's values, are far above it.
ASSUME ParameterAssumption ==
  /\ KeyInt \in [Keys -> Int]
  /\ InitialSize \in Nat \ {0}
  /\ RecordsPerBucket \in Nat \ {0}
  /\ SplitThreshold \in Nat
  /\ SplitThreshold * RecordsPerBucket >= 100

\* Such a slot is not taken for a record of a key that is used.
ASSUME BlankAssumption == Blank.status = "empty" \/ Blank.key \notin Keys

ASSUME ValuesAssumption == IsFiniteSet(Values)

VARIABLES
  file,             \* the buckets in the order they were written
  bucket_map,       \* array list: index -> place in file of the head
  initial_size,
  next_split,
  num_buckets,
  num_records,
  cache,            \* values of deleted records, cache[1 .. last_cache_idx]
  call,             \* the call that runs and its locals
  held              \* history: held[k][v], the records callers have put in

table == <<file, bucket_map, initial_size, next_split, num_buckets, num_records>>
vars == <<table, cache, call, held>>

EndOfList == 0      \* linear_hash_end_of_list
FirstPlace == 1     \* file offset 0, what a zeroed entry of bucket_map means
Slots == 1 .. RecordsPerBucket
Full(k, v) == [status |-> "full", key |-> k, value |-> v]
Emptied == [status |-> "empty"]

Idle == [pc |-> "idle"]

-----------------------------------------------------------------------------
(***************************************************************************)
(* Hashing.  The sizes are powers of two, so the masks are remainders.     *)
(***************************************************************************)
coefficients == <<3, 5, 7, 11, 13, 17, 19>>

\* A polynomial of all bytes of a key but the last.
key_bytes_to_int(bytes) ==
  MapThenSumSet(LAMBDA i : bytes[i] * coefficients[i + 1] - bytes[i] * coefficients[i],
                1 .. (Len(bytes) - 1))

insert_hash_to_bucket(k) == KeyInt[k] % initial_size
hash_to_bucket(k) == KeyInt[k] % (2 * initial_size)

\* Where get, update and delete look for a key, and insert puts it.
IndexOf(k) ==
  IF insert_hash_to_bucket(k) < next_split THEN hash_to_bucket(k)
                                           ELSE insert_hash_to_bucket(k)

bucket_idx_to_ion_fpos_t(idx) == bucket_map[idx + 1]

\* Mutant: the load is measured against the buckets there are about to be.
ThresholdReached(n, b) == 100 * n > SplitThreshold * (b + 1) * RecordsPerBucket

linear_hash_above_threshold(n, b) == 100 * n > SplitThreshold * b * RecordsPerBucket

-----------------------------------------------------------------------------
(***************************************************************************)
(* The file and the array list.  A store is the pair of both.              *)
(***************************************************************************)
Store == [file |-> file, map |-> bucket_map]

Bucket(idx, n, next, s) == [idx |-> idx, count |-> n, overflow |-> next, slots |-> s]

\* The array is doubled, once, when the index is behind its end.
array_list_insert(map, idx, place) ==
  LET grown == IF idx >= Len(map) THEN map \o [i \in 1 .. Len(map) |-> FirstPlace] ELSE map
  IN [grown EXCEPT ![idx + 1] = place]

\* The blank records are written 3 bytes too long (the size of an int for the
\* status) and not cleared to their end: what a slot of a new bucket reads as
\* is left to the build.  Blank is that slot, the same in every bucket.
write_new_bucket(s, idx) ==
  [file |-> Append(s.file, Bucket(idx, 0, EndOfList, [i \in Slots |-> Blank])),
   map  |-> array_list_insert(s.map, idx, Len(s.file) + 1)]

linear_hash_bucket_is_full(b) == b.count = RecordsPerBucket

\* Mutant: the overflow bucket goes behind the head, which stays full.
OverflowBehind(s, place, r) ==
  [s EXCEPT !.file = Append([@ EXCEPT ![place].overflow = Len(s.file) + 1],
                            Bucket(s.file[place].idx, 1, s.file[place].overflow,
                                   [[i \in Slots |-> Blank] EXCEPT ![1] = r]))]

\* The head is full: the record starts a new bucket in front of it.
create_overflow_bucket(s, place, r) ==
  LET idx == s.file[place].idx IN
  [file |-> Append(s.file, Bucket(idx, 1, place, [[i \in Slots |-> Blank] EXCEPT ![1] = r])),
   map  |-> array_list_insert(s.map, idx, Len(s.file) + 1)]

\* What linear_hash_insert writes for a record of the chain of idx.
PutRecord(s, idx, r) ==
  LET place == s.map[idx + 1]
      b == s.file[place]
  IN IF linear_hash_bucket_is_full(b)
       THEN create_overflow_bucket(s, place, r)
       ELSE [s EXCEPT !.file[place].slots[b.count + 1] = r, !.file[place].count = @ + 1]

\* A chain, from the head to its oldest bucket; links point to older buckets.
Chain(place) ==
  LET from[p \in 0 .. Len(file)] ==
        IF p = EndOfList THEN << >> ELSE <<p>> \o from[file[p].overflow]
  IN from[place]

ChainOf(k) == Chain(bucket_idx_to_ion_fpos_t(IndexOf(k)))
PlacesOf(k) == { ChainOf(k)[j] : j \in DOMAIN ChainOf(k) }

\* <<place, slot>> of the records of a key, as get and update test them: all
\* slots of a bucket are read, not only the first count.
Matches(k, statuses) ==
  { m \in PlacesOf(k) \X Slots :
      LET r == file[m[1]].slots[m[2]] IN r.status \in statuses /\ r.key = k }

-----------------------------------------------------------------------------
(***************************************************************************)
(* linear_hash_insert, and the split its end may start.                    *)
(***************************************************************************)
Ready == call.pc = "idle"

Write(s) == file' = s.file /\ bucket_map' = s.map

\* split walks the chain of next_split from its head.
SplitFrom(place, k) == [pc |-> "split", key |-> k, place |-> place]

\* linear_hash_increment_num_buckets: the address space is doubled when all
\* of it has been split.
linear_hash_increment_num_buckets ==
  /\ num_buckets' = num_buckets + 1
  /\ IF num_buckets + 1 = 2 * initial_size + 1
       THEN initial_size' = 2 * initial_size /\ next_split' = 0
       ELSE UNCHANGED <<initial_size, next_split>>

\* The record is written, and the load decides whether an index is added and
\* a split begun.
InsertAt(k, v) ==
  LET s == PutRecord(Store, IndexOf(k), Full(k, v)) IN
  /\ num_records' = num_records + 1
  /\ IF linear_hash_above_threshold(num_records + 1, num_buckets)
       THEN /\ linear_hash_increment_num_buckets
            /\ Write(write_new_bucket(s, num_buckets))
            /\ call' = SplitFrom(bucket_map'[next_split' + 1], k)
       ELSE /\ Write(s)
            /\ call' = Idle
            /\ UNCHANGED <<num_buckets, initial_size, next_split>>
  /\ held' = [held EXCEPT ![k][v] = @ + 1]
  /\ UNCHANGED cache

Room == num_records < MaxRecords /\ Len(file) <= MaxFile

linear_hash_insert(k, v) == Ready /\ Room /\ InsertAt(k, v)

\* Mutant: the first record with the key is overwritten, not every one.
FirstMatchUpdated(k, v) ==
  LET found == Matches(k, {"full"}) IN
  /\ Ready
  /\ found # {}
  /\ LET m == CHOOSE x \in found : TRUE IN
     file' = [file EXCEPT ![m[1]].slots[m[2]].value = v]
  /\ held' = [held EXCEPT ![k] = [[w \in Values |-> 0] EXCEPT ![v] = Cardinality(found)]]
  /\ UNCHANGED <<bucket_map, initial_size, next_split, num_buckets, num_records, cache, call>>

\* Every record with the key is overwritten; without one the record is new.
linear_hash_update(k, v) ==
  LET found == Matches(k, {"full"}) IN
  /\ Ready
  /\ IF found = {} THEN Room /\ InsertAt(k, v) ELSE
     /\ file' = [p \in DOMAIN file |-> [file[p] EXCEPT !.slots =
                   [i \in Slots |-> IF <<p, i>> \in found THEN Full(k, v) ELSE @[i]]]]
     /\ held' = [held EXCEPT ![k] = [[w \in Values |-> 0] EXCEPT ![v] = Cardinality(found)]]
     /\ UNCHANGED <<bucket_map, initial_size, next_split, num_buckets, num_records, cache, call>>

\* The records linear_hash_get may return, the first of them from the head on;
\* their status only has to be other than empty.
linear_hash_get(k) == Matches(k, {"full", "other"})

-----------------------------------------------------------------------------
(***************************************************************************)
(* linear_hash_delete.  back says what the call returns to; records is the *)
(* bucket as it was when the walk came to it.                              *)
(***************************************************************************)
DeleteFrom(k, place, back) ==
  [pc |-> "delete", key |-> k, place |-> place, slot |-> 1,
   records |-> file[place].slots, count |-> 0, back |-> back]

linear_hash_delete(k) ==
  /\ Ready
  /\ call' = DeleteFrom(k, bucket_idx_to_ion_fpos_t(IndexOf(k)), Idle)
  /\ cache' = << >>
  /\ held' = [held EXCEPT ![k] = [w \in Values |-> 0]]
  /\ UNCHANGED table

\* The walk goes on in the bucket, passes to the next one, or ends.  A split
\* then inserts as many records as were deleted, the first ones of the cache.
DeleteStep ==
  LET b == file[call.place]
      hits == { i \in call.slot .. b.count :
                  call.records[i].status # "empty" /\ call.records[i].key = call.key }
  IN
  /\ call.pc = "delete"
  /\ IF hits # {} THEN
       /\ cache' = Append(cache, call.records[Min(hits)].value)
       /\ call' = [call EXCEPT !.pc = "swap", !.slot = Min(hits)]
     ELSE
       /\ UNCHANGED cache
       /\ call' = IF b.overflow # EndOfList
                    THEN [call EXCEPT !.place = b.overflow, !.slot = 1,
                                      !.records = file[b.overflow].slots]
                    ELSE IF call.back = Idle THEN Idle
                    ELSE [pc |-> "reinsert", key |-> call.key, place |-> call.back.place,
                          todo |-> call.count, next |-> 1]
  /\ UNCHANGED <<table, held>>

\* The head, and the record it gives up.
SwapHead == bucket_idx_to_ion_fpos_t(IndexOf(call.key))
SwapRecord == file[SwapHead].slots[file[SwapHead].count]
SwapIsSelf == SwapHead = call.place /\ file[SwapHead].count = call.slot

\* Mutant: the count of the head is not written back.
SwapKeepsCount(fill) ==
  LET h == SwapHead
      b == file[h]
      taken == [file EXCEPT ![h].slots[b.count] = Emptied]
  IN
  /\ file' = IF fill THEN [taken EXCEPT ![call.place].slots[call.slot] = b.slots[b.count]] ELSE taken
  /\ num_records' = num_records - 1
  /\ UNCHANGED <<bucket_map, initial_size, next_split, num_buckets>>

\* linear_hash_get_bucket_swap_record takes the last record of the head; a
\* head that is empty then, and not the whole chain, is left to itself.  r is
\* what the hole at call.place, call.slot gets, when it gets something.
TakeSwapRecord(fill) ==
  LET h == SwapHead
      b == file[h]
      taken == [file EXCEPT ![h].slots[b.count] = Emptied, ![h].count = @ - 1]
  IN
  /\ file' = IF fill THEN [taken EXCEPT ![call.place].slots[call.slot] = b.slots[b.count]] ELSE taken
  /\ bucket_map' = IF b.count = 1 /\ b.overflow # EndOfList
                     THEN array_list_insert(bucket_map, b.idx, b.overflow) ELSE bucket_map
  /\ num_records' = num_records - 1
  /\ UNCHANGED <<initial_size, next_split, num_buckets>>

\* The loop around the swap record: one that is to be deleted as well leaves,
\* its value is cached and the next one is taken, until the swap record is of
\* another key or is the record being deleted.
SwapStep ==
  LET again == SwapRecord.key = call.key /\ ~SwapIsSelf IN
  /\ call.pc = "swap"
  /\ TakeSwapRecord(SwapRecord.key # call.key)
  /\ cache' = IF SwapRecord.key = call.key THEN Append(cache, SwapRecord.value) ELSE cache
  /\ call' = IF again THEN [call EXCEPT !.count = @ + 1]
             ELSE [call EXCEPT !.pc = "delete", !.slot = @ + 1, !.count = @ + 1]
  /\ UNCHANGED held

-----------------------------------------------------------------------------
(***************************************************************************)
(* split.  A bucket is scanned again from its first slot after each key    *)
(* that was moved.                                                         *)
(***************************************************************************)
\* Mutant: the records that stay in the bucket are moved as well.
MovingAll(b) == { i \in 1 .. b.count : b.slots[i].status = "full" }

Moving(b) ==
  { i \in 1 .. b.count : /\ b.slots[i].status = "full"
                         /\ insert_hash_to_bucket(b.slots[i].key) # hash_to_bucket(b.slots[i].key) }

SplitStep ==
  LET b == file[call.place]
      k == b.slots[Min(Moving(b))].key
  IN
  /\ call.pc = "split"
  /\ IF Moving(b) # {} THEN
       /\ call' = DeleteFrom(k, bucket_idx_to_ion_fpos_t(IndexOf(k)), call)
       /\ cache' = << >>
       /\ UNCHANGED next_split
     ELSE IF b.overflow # EndOfList THEN
       /\ call' = [call EXCEPT !.place = b.overflow]
       /\ UNCHANGED <<cache, next_split>>
     ELSE
       /\ call' = Idle
       /\ next_split' = next_split + 1
       /\ UNCHANGED cache
  /\ UNCHANGED <<file, bucket_map, initial_size, num_buckets, num_records, held>>

\* Mutant: the records go back to the bucket they came from.
ReinsertIndexOld(k) == insert_hash_to_bucket(k)

ReinsertIndex(k) == hash_to_bucket(k)

\* linear_hash_insert of one cached value.  LoadBounded says that it never
\* gets to a split of its own.
ReinsertStep ==
  /\ call.pc = "reinsert"
  /\ IF call.todo = 0
       THEN /\ call' = SplitFrom(call.place, call.key)
            /\ UNCHANGED table
       ELSE /\ Write(PutRecord(Store, ReinsertIndex(call.key), Full(call.key, cache[call.next])))
            /\ num_records' = num_records + 1
            /\ call' = [call EXCEPT !.todo = @ - 1, !.next = @ + 1]
            /\ UNCHANGED <<initial_size, next_split, num_buckets>>
  /\ UNCHANGED <<cache, held>>

-----------------------------------------------------------------------------
(***************************************************************************)
(* Opening and closing.                                                    *)
(***************************************************************************)
\* linear_hash_init without a file: the buckets of the first address space,
\* and the array list of 5 entries, doubled as far as they need.
NewFile == [p \in 1 .. InitialSize |-> Bucket(p - 1, 0, EndOfList, [i \in Slots |-> Blank])]
array_list_init(size) == [i \in 1 .. size |-> FirstPlace]
NewMap ==
  LET grow[i \in 0 .. InitialSize] ==
        IF i = 0 THEN array_list_init(5) ELSE array_list_insert(grow[i - 1], i - 1, i)
  IN grow[InitialSize]

Init ==
  /\ file = NewFile
  /\ bucket_map = NewMap
  /\ initial_size = InitialSize /\ num_buckets = InitialSize
  /\ next_split = 0 /\ num_records = 0
  /\ cache = << >>
  /\ call = Idle
  /\ held = [k \in Keys |-> [v \in Values |-> 0]]

\* What a read of the state file gives: linear_hash_init writes it when it is
\* new, and behind that once more; linear_hash_close does not.
StateRead == [initial_size |-> InitialSize, next_split |-> 0,
              num_buckets |-> InitialSize, num_records |-> 0]

\* linear_hash_destroy, then linear_hash_init under the same id.
linear_hash_delete_dictionary ==
  /\ Ready
  /\ file' = NewFile
  /\ bucket_map' = NewMap
  /\ initial_size' = InitialSize /\ num_buckets' = InitialSize
  /\ next_split' = 0 /\ num_records' = 0
  /\ held' = [k \in Keys |-> [v \in Values |-> 0]]
  /\ UNCHANGED <<cache, call>>

\* linear_hash_close, then linear_hash_init on the files: the array list is
\* written to the state file where it should be read, and stays zeroed.
linear_hash_reopen ==
  /\ Ready
  /\ initial_size' = StateRead.initial_size /\ num_buckets' = StateRead.num_buckets
  /\ next_split' = StateRead.next_split /\ num_records' = StateRead.num_records
  /\ bucket_map' = array_list_init(5)
  /\ cache' = << >>
  /\ UNCHANGED <<file, call, held>>

-----------------------------------------------------------------------------
Step == DeleteStep \/ SwapStep \/ SplitStep \/ ReinsertStep

Next ==
  \/ \E k \in Keys, v \in Values : linear_hash_insert(k, v) \/ linear_hash_update(k, v)
  \/ \E k \in Keys : linear_hash_delete(k)
  \/ linear_hash_delete_dictionary
  \/ Step

Spec == Init /\ [][Next]_vars

\* The loops of a call are run by the thread that makes it, to their end.
FairSpec == Spec /\ WF_vars(Step)

ReopenSpec == Init /\ [][Next \/ linear_hash_reopen]_vars

-----------------------------------------------------------------------------
Idling == call.pc = "idle"
HeldOf(k) == MapThenSumSet(LAMBDA v : held[k][v], Values)

\* Between calls a lookup finds as many records of a key as callers have put in
\* since the key was last deleted: no record is left in the bucket it hashed to
\* before a split, none is dropped by the swap of a delete or is met twice.
KeysFound ==
  Idling => \A k \in Keys : Cardinality(linear_hash_get(k)) = HeldOf(k)

\* Between calls every record a lookup can return has a value that was put in
\* for that key and not overwritten since: what split takes back from the
\* cache belongs to the key, and none is left over from before an update.
ValuesGenuine ==
  Idling => \A k \in Keys : \A m \in linear_hash_get(k) :
              held[k][file[m[1]].slots[m[2]].value] > 0

\* The records that can be reached, chain by chain, are the ones num_records
\* counts, and they fill the slots up to the count of each bucket; what was never
\* written is taken for no record.  Insert adds at the count and delete moves the
\* last record into the hole, so a wrong count overwrites or loses a record later.
Reached == UNION { { Chain(bucket_map[i])[j] : j \in DOMAIN Chain(bucket_map[i]) } : i \in 1 .. num_buckets }
IsRecord(r) == r.status = "full" /\ r.key \in Keys
CountsExact ==
  /\ MapThenSumSet(LAMBDA p : file[p].count, Reached) = num_records
  /\ \A p \in Reached, i \in Slots : IsRecord(file[p].slots[i]) <=> i <= file[p].count

\* "This garuantees that if there is empty space in a bucket chain, it will be
\* in the terminal bucket" (linear_hash_delete): every bucket behind the head
\* is full, at every step, so that insert need not look behind the head.
RoomAtHeadOnly ==
  \A i \in 1 .. num_buckets : LET chain == Chain(bucket_map[i]) IN
    \A j \in DOMAIN chain : /\ file[chain[j]].idx = i - 1
                            /\ j > 1 => linear_hash_bucket_is_full(file[chain[j]])

\* Between calls the load is not over the threshold and the address space is
\* the buckets there are; while split inserts what it deleted, no insert is over
\* the threshold, so that a split never starts another inside it.
Capacity == SplitThreshold * num_buckets * RecordsPerBucket
LoadBounded ==
  /\ Idling => /\ 100 * num_records <= Capacity
               /\ num_buckets = initial_size + next_split
               /\ next_split <= initial_size
  /\ call.pc = "reinsert" /\ call.todo > 0
       => 100 * (num_records + call.todo) <= Capacity

\* Every call returns: the restarts of split's scan and the loop over swap
\* records come to an end, whatever the duplicates of a key.
CallsReturn == ~Idling ~> Idling

\* split's comment: "To avoid data loss caused by the swap-on-delete strategy
\* used in the linear_hash_delete deleting multiple records per call
\* potentially, a cache is used to store the values": the values of a key
\* are the ones put in.  Violated: the cache holds the value of a record twice.
NoValueLost ==
  Idling => \A k \in Keys, v \in Values :
              held[k][v] > 0 => \E m \in linear_hash_get(k) : file[m[1]].slots[m[2]].value = v

\* The comment of linear_hash_close: it "writes it state to its associated .lhs
\* file".  A table that was closed and opened again counts its records.
\* Violated: the state file holds the state of a new table.
StateSurvives == Idling => num_records = MapThenSumSet(HeldOf, Keys)
=============================================================================
