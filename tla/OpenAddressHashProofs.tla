----------------------- MODULE OpenAddressHashProofs ------------------------
(***************************************************************************)
(* Theorems about the open address hash, for any number of buckets, any    *)
(* keys and values and any hash function into the buckets, in memory and   *)
(* on file.                                                                *)
(***************************************************************************)
EXTENDS OpenAddressFileHash, NumberProofs, TLAPS

(***************************************************************************)
(* Arithmetic of the wrap-around.                                          *)
(***************************************************************************)

\* A probe stays within the table.
LEMMA ProbeInRange ==
  ASSUME NEW k \in Keys, NEW d \in Slots
  PROVE  Probe(k, d) \in Slots
  BY MapSizeAssumption, HashAssumption DEF Probe, Wrap, Slots

\* The probe sequence of a key does not visit a bucket twice.
LEMMA ProbeInjective ==
  ASSUME NEW k \in Keys, NEW d \in Slots, NEW e \in Slots, Probe(k, d) = Probe(k, e)
  PROVE  d = e
  BY MapSizeAssumption, HashAssumption DEF Probe, Wrap, Slots

\* The probe sequence of a key visits every bucket.
LEMMA ProbeSurjective ==
  ASSUME NEW k \in Keys, NEW s \in Slots
  PROVE  \E d \in Slots : Probe(k, d) = s
<1> DEFINE d == IF s >= Hash[k] THEN s - Hash[k] ELSE s - Hash[k] + MapSize
<1>1. d \in Slots /\ Probe(k, d) = s
  BY MapSizeAssumption, HashAssumption DEF Probe, Wrap, Slots
<1>2. QED
  BY <1>1

\* A bucket that matches a key is at some distance the first to match it.
LEMMA FirstMatch ==
  ASSUME NEW k \in Keys, NEW d \in Slots, Matches(k, Probe(k, d))
  PROVE  \E e \in 0 .. d : /\ Matches(k, Probe(k, e))
                           /\ \A f \in 0 .. (e - 1) : ~Matches(k, Probe(k, f))
<1> DEFINE D == { e \in Nat : e <= d /\ Matches(k, Probe(k, e)) }
<1>1. d \in Nat
  BY MapSizeAssumption DEF Slots
<1>2. D # {} /\ D \in SUBSET Nat
  BY <1>1
<1>3. PICK e \in D : \A f \in D : e <= f
  BY <1>2, LeastNatural
<1>4. e \in 0 .. d /\ Matches(k, Probe(k, e))
  BY <1>1, <1>3
<1>5. ASSUME NEW f \in 0 .. (e - 1)
      PROVE  ~Matches(k, Probe(k, f))
  BY <1>1, <1>3, <1>5
<1>6. QED
  BY <1>4, <1>5

\* The wrap-around of a position at most one table length ahead.
LEMMA WrapInRange ==
  ASSUME NEW n \in 0 .. (2 * MapSize - 1)
  PROVE  Wrap(n) \in Slots
  BY MapSizeAssumption DEF Wrap, Slots

\* A bucket that a scan hits holds, itself, a record that satisfies the
\* predicate: the stale buffer of a file scan that has wrapped never does.
LEMMA ScanHitsRecord ==
  ASSUME TypeOK, NEW pred, NEW start \in Slots, NEW first \in Slots,
         NEW s \in Scan(pred, start, first)
  PROVE  s \in Slots /\ Satisfies(pred, entry[s])
<1>1. PICK j \in 0 .. (Ahead(start, first) - 1) :
        ScanHits(pred, start, j) /\ s = Wrap(start + j)
  BY DEF Scan
<1>2. Ahead(start, first) \in 0 .. (MapSize - 1)
  BY MapSizeAssumption DEF Ahead, Slots
<1>3. start \in Nat /\ start < MapSize /\ j \in Nat /\ j < MapSize - 1 /\ MapSize \in Nat
  BY <1>1, <1>2, MapSizeAssumption DEF Slots
<1>4. s \in Slots
  BY <1>1, <1>3, WrapInRange
<1>5. CASE OnFile /\ s < start
  <2> DEFINE i == MapSize - 1 - start
  <2>1. i \in 0 .. (j - 1) /\ Wrap(start + i) = MapSize - 1
    BY <1>1, <1>3, <1>5 DEF Wrap
  <2>2. ~Satisfies(pred, ScanItem(start, Wrap(start + i)))
    BY <1>1, <2>1 DEF ScanHits
  <2>3. ScanItem(start, Wrap(start + i)) = entry[MapSize - 1]
    BY <2>1, <1>3 DEF ScanItem
  <2>4. ScanItem(start, s) = entry[MapSize - 1]
    BY <1>5 DEF ScanItem
  <2>5. QED
    BY <1>1, <2>2, <2>3, <2>4 DEF ScanHits
<1>6. CASE ~(OnFile /\ s < start)
  BY <1>1, <1>4, <1>6 DEF ScanHits, ScanItem
<1>7. QED
  BY <1>5, <1>6

-----------------------------------------------------------------------------
(***************************************************************************)
(* Chains.  The file variant can be left with buckets half written, so the *)
(* lemmas are about the chains of the records outside a set of buckets;    *)
(* a bucket that is written again leaves the set.                          *)
(***************************************************************************)

\* No bucket probed for k before the d-th is empty.
Reached(table, k, d) == \A e \in 0 .. (d - 1) : table[Probe(k, e)].status # "empty"

ChainsBut(table, T) ==
  \A k \in Keys : \A d \in Slots :
    LET s == Probe(k, d) IN
    (s \notin T /\ table[s].status = "in_use" /\ table[s].key = k) => Reached(table, k, d)

StillIn(T) == { s \in T : entry'[s] = entry[s] }

LEMMA ChainsOfAll == ProbeChainUnbroken <=> ChainsBut(entry, {})
  BY DEF ProbeChainUnbroken, ChainsBut, Reached, Matches, InUse

\* A write of a bucket that its probes reach, as they reached the record it
\* held before, if it held one.
LEMMA WriteKeepsChains ==
  ASSUME entry \in [Slots -> Bucket], NEW T \in SUBSET Slots, ChainsBut(entry, T),
         NEW k \in Keys, NEW d \in Slots, NEW b \in Bucket, Write(Probe(k, d), b),
         b.status # "empty", b.key = k, Reached(entry, k, d),
         InUse(Probe(k, d)) => entry[Probe(k, d)].key = k
  PROVE  ChainsBut(entry', StillIn(T)) /\ ChainsBut(entry, StillIn(T))
<1>1. PICK s \in Slots : s = Probe(k, d)
  BY ProbeInRange
<1>2. entry'[s] = b /\ \A t \in Slots : t # s => entry'[t] = entry[t]
  BY <1>1 DEF Write
<1>3. \A t \in Slots : entry[t].status # "empty" => entry'[t].status # "empty"
  BY <1>2
<1>4. \A t \in Slots : t \notin StillIn(T) => t \notin T \/ t = s
  BY <1>2 DEF StillIn
<1>5. \A k2 \in Keys : \A d2 \in Slots :
        Reached(entry, k2, d2) => Reached(entry', k2, d2)
  <2> SUFFICES ASSUME NEW k2 \in Keys, NEW d2 \in Slots, Reached(entry, k2, d2),
                      NEW e \in 0 .. (d2 - 1)
               PROVE  entry'[Probe(k2, e)].status # "empty"
    BY DEF Reached
  <2>1. e \in Slots
    BY MapSizeAssumption DEF Slots
  <2>2. QED
    BY <1>3, <2>1, ProbeInRange DEF Reached
<1>6. ASSUME NEW k2 \in Keys, NEW d2 \in Slots, Probe(k2, d2) \notin StillIn(T),
             \/ entry[Probe(k2, d2)].status = "in_use" /\ entry[Probe(k2, d2)].key = k2
             \/ entry'[Probe(k2, d2)].status = "in_use" /\ entry'[Probe(k2, d2)].key = k2
      PROVE  Reached(entry, k2, d2)
  <2>1. PICK t \in Slots : t = Probe(k2, d2)
    BY ProbeInRange
  <2>2. CASE t = s
    <3>1. k2 = k
      BY <1>1, <1>2, <1>6, <2>1, <2>2 DEF InUse
    <3>2. d2 = d
      BY <1>1, <2>1, <2>2, <3>1, ProbeInjective
    <3>3. QED
      BY <3>1, <3>2
  <2>3. CASE t # s
    <3>1. t \notin T /\ entry'[t] = entry[t]
      BY <1>2, <1>4, <1>6, <2>1, <2>3
    <3>2. entry[t].status = "in_use" /\ entry[t].key = k2
      BY <1>6, <2>1, <3>1
    <3>3. QED
      BY <2>1, <3>1, <3>2 DEF ChainsBut
  <2>4. QED
    BY <2>2, <2>3
<1>7. ChainsBut(entry, StillIn(T))
  BY <1>6 DEF ChainsBut
<1>8. ChainsBut(entry', StillIn(T))
  BY <1>5, <1>6 DEF ChainsBut
<1>9. QED
  BY <1>7, <1>8

LEMMA NoWriteKeepsChains ==
  ASSUME NEW T, ChainsBut(entry, T), UNCHANGED entry
  PROVE  ChainsBut(entry', StillIn(T)) /\ ChainsBut(entry, StillIn(T))
<1>1. StillIn(T) = T
  BY DEF StillIn
<1>2. QED
  BY <1>1

\* An insert writes where its probes have reached: over the record of the key
\* or into a free bucket.
LEMMA InsertKeepsChains ==
  ASSUME entry \in [Slots -> Bucket], NEW T \in SUBSET Slots, ChainsBut(entry, T),
         NEW k \in Keys, NEW v \in Values, NEW call, NEW wc, oah_insert(call, k, v, wc)
  PROVE  ChainsBut(entry', StillIn(T)) /\ ChainsBut(entry, StillIn(T))
<1> USE DEF oah_insert
<1>1. ASSUME NEW d \in Slots, InsertStopsAt(k, d) PROVE Reached(entry, k, d)
  BY <1>1 DEF InsertStopsAt, StopsInsert, InUse, Reached
<1>2. CASE \E d \in Slots : /\ InsertStopsAt(k, d) /\ Matches(k, Probe(k, d))
                            /\ Write(Probe(k, d), [entry[Probe(k, d)] EXCEPT !.value = v])
  <2>1. PICK d \in Slots : /\ InsertStopsAt(k, d) /\ Matches(k, Probe(k, d))
                           /\ Write(Probe(k, d), [entry[Probe(k, d)] EXCEPT !.value = v])
    BY <1>2
  <2> DEFINE b == [entry[Probe(k, d)] EXCEPT !.value = v]
  <2>2. entry[Probe(k, d)] \in [status: {"in_use"}, key: {k}, value: Values]
    BY <2>1, ProbeInRange DEF Matches, InUse, Bucket, Empty
  <2>3. b \in Bucket /\ b.status = "in_use" /\ b.key = k
    BY <2>2 DEF Bucket
  <2> HIDE DEF b
  <2>4. Write(Probe(k, d), b)
    BY <2>1 DEF b
  <2>5. QED
    BY <1>1, <2>1, <2>2, <2>3, <2>4, WriteKeepsChains
<1>3. CASE \E d \in Slots : /\ InsertStopsAt(k, d) /\ ~InUse(Probe(k, d))
                            /\ Write(Probe(k, d), Record("in_use", k, v))
  <2>1. Record("in_use", k, v) \in Bucket /\ Record("in_use", k, v).status = "in_use"
        /\ Record("in_use", k, v).key = k
    BY DEF Bucket, Record
  <2>2. QED
    BY <1>1, <1>3, <2>1, WriteKeepsChains
<1>4. CASE UNCHANGED entry
  BY <1>4, NoWriteKeepsChains
<1>5. QED
  BY <1>2, <1>3, <1>4

\* A delete leaves a tombstone where its probes have found the record.
LEMMA DeleteKeepsChains ==
  ASSUME entry \in [Slots -> Bucket], NEW T \in SUBSET Slots, ChainsBut(entry, T),
         NEW k \in Keys, oah_delete(k)
  PROVE  ChainsBut(entry', StillIn(T)) /\ ChainsBut(entry, StillIn(T))
<1> USE DEF oah_delete
<1>1. CASE \E d \in Slots :
             /\ FoundAt(k, d)
             /\ Write(Probe(k, d), [entry[Probe(k, d)] EXCEPT !.status = "deleted"])
  <2>1. PICK d \in Slots :
             /\ FoundAt(k, d)
             /\ Write(Probe(k, d), [entry[Probe(k, d)] EXCEPT !.status = "deleted"])
    BY <1>1
  <2> DEFINE b == [entry[Probe(k, d)] EXCEPT !.status = "deleted"]
  <2>2. entry[Probe(k, d)] \in [status: {"in_use"}, key: {k}, value: Values]
    BY <2>1, ProbeInRange DEF FoundAt, Matches, InUse, Bucket, Empty
  <2>3. b \in Bucket /\ b.status = "deleted" /\ b.key = k
    BY <2>2 DEF Bucket
  <2>4. Reached(entry, k, d)
    BY <2>1 DEF FoundAt, Reached
  <2> HIDE DEF b
  <2>5. Write(Probe(k, d), b)
    BY <2>1 DEF b
  <2>6. QED
    BY <2>2, <2>3, <2>4, <2>5, WriteKeepsChains
<1>2. CASE UNCHANGED entry
  BY <1>2, NoWriteKeepsChains
<1>3. QED
  BY <1>1, <1>2

-----------------------------------------------------------------------------
(***************************************************************************)
(* The inductive invariant.                                                *)
(***************************************************************************)

\* The part of it that says nothing of the chains.
WellFormed == TypeOK /\ CursorOnRecord

LEMMA InitIInv == Init => IInv
<1> SUFFICES ASSUME Init PROVE IInv
  OBVIOUS
<1>1. \A s \in Slots : entry[s] = Empty
  BY DEF Init
<1>2. TypeOK
  BY MapSizeAssumption
  DEF Init, TypeOK, Slots, Bucket, NoCursor, AllRecords, Predicate, CursorStatus
<1>3. ProbeChainUnbroken
  BY <1>1, ProbeInRange DEF ProbeChainUnbroken, Matches, InUse, Empty
<1>4. CursorOnRecord
  BY DEF Init, NoCursor, CursorOnRecord
<1>5. QED
  BY <1>2, <1>3, <1>4 DEF IInv

\* An answer of the right type, a write of a bucket that is not empty, and
\* the cursor left alone: type and cursor parts of the invariant hold again.
LEMMA WriteWellFormed ==
  ASSUME WellFormed, NEW s \in Slots, NEW b \in Bucket, b.status # "empty",
         Write(s, b) \/ UNCHANGED entry,
         NEW call \in {"insert", "update", "delete", "get"}, NEW k \in Keys,
         NEW err \in {"err_ok", "err_duplicate_key", "err_max_capacity", "err_item_not_found"},
         NEW v \in Values \cup {NoValue},
         Answer(call, k, err, v), quiet' \in BOOLEAN, UNCHANGED <<allocated, cursor, trail>>
  PROVE  TypeOK' /\ CursorOnRecord'
<1>1. entry \in [Slots -> Bucket]
  BY DEF WellFormed, TypeOK
<1>2. entry' \in [Slots -> Bucket]
      /\ \A t \in Slots : entry[t].status # "empty" => entry'[t].status # "empty"
  BY <1>1 DEF Write
<1>3. result' \in [call: {"none", "insert", "update", "delete", "get"},
                   key: Keys \cup {NoValue},
                   err: {"err_ok", "err_duplicate_key", "err_max_capacity",
                         "err_item_not_found"},
                   value: Values \cup {NoValue}]
  BY DEF Answer
<1>4. TypeOK'
  BY <1>2, <1>3 DEF WellFormed, TypeOK
<1>5. CursorOnRecord'
  BY <1>2 DEF WellFormed, CursorOnRecord
<1>6. QED
  BY <1>4, <1>5

LEMMA InsertWellFormed ==
  ASSUME WellFormed, NEW k \in Keys, NEW v \in Values, NEW call \in {"insert", "update"},
         NEW wc \in {"wc_insert_unique", "wc_update"}, oah_insert(call, k, v, wc)
  PROVE  WellFormed'
<1> USE DEF oah_insert
<1>1. UNCHANGED <<allocated, cursor, trail>> /\ quiet' \in BOOLEAN
  BY DEF NoteWrite
<1>2. entry \in [Slots -> Bucket]
  BY DEF WellFormed, TypeOK
<1>3. Record("in_use", k, v) \in Bucket /\ Record("in_use", k, v).status = "in_use"
  BY DEF Bucket, Record
<1>4. CASE UNCHANGED entry /\ \E err \in {"err_duplicate_key", "err_max_capacity"} :
                                  Answer(call, k, err, NoValue)
  <2>1. 0 \in Slots
    BY MapSizeAssumption DEF Slots
  <2>2. TypeOK' /\ CursorOnRecord'
    BY <1>1, <1>3, <1>4, <2>1, WriteWellFormed
  <2>3. QED
    BY <2>2 DEF WellFormed
<1>5. CASE \E d \in Slots : /\ InsertStopsAt(k, d) /\ Matches(k, Probe(k, d))
                            /\ Write(Probe(k, d), [entry[Probe(k, d)] EXCEPT !.value = v])
                            /\ Answer(call, k, "err_ok", NoValue)
  <2>1. PICK d \in Slots : /\ Matches(k, Probe(k, d))
                           /\ Write(Probe(k, d), [entry[Probe(k, d)] EXCEPT !.value = v])
                           /\ Answer(call, k, "err_ok", NoValue)
    BY <1>5
  <2> DEFINE s == Probe(k, d)
             b == [entry[s] EXCEPT !.value = v]
  <2>2. s \in Slots
    BY ProbeInRange
  <2>3. entry[s] \in [status: {"in_use", "deleted"}, key: Keys, value: Values]
        /\ entry[s].status = "in_use" /\ InUse(s)
    BY <1>2, <2>1, <2>2 DEF Matches, InUse, Bucket, Empty
  <2>4. b \in Bucket /\ b.status = "in_use" /\ b.key = entry[s].key
    BY <2>3 DEF Bucket
  <2>5. Write(s, b)
    BY <2>1
  <2>6. TypeOK' /\ CursorOnRecord'
    BY <1>1, <2>1, <2>2, <2>4, <2>5, WriteWellFormed
  <2>7. QED
    BY <2>6 DEF WellFormed
<1>6. CASE \E d \in Slots : /\ InsertStopsAt(k, d) /\ ~InUse(Probe(k, d))
                            /\ Write(Probe(k, d), Record("in_use", k, v))
                            /\ Answer(call, k, "err_ok", NoValue)
  <2>1. PICK d \in Slots : /\ InsertStopsAt(k, d) /\ ~InUse(Probe(k, d))
                           /\ Write(Probe(k, d), Record("in_use", k, v))
                           /\ Answer(call, k, "err_ok", NoValue)
    BY <1>6
  <2>2. TypeOK' /\ CursorOnRecord'
    BY <1>1, <1>3, <2>1, ProbeInRange, WriteWellFormed
  <2>3. QED
    BY <2>2 DEF WellFormed
<1>7. QED
  BY <1>4, <1>5, <1>6

LEMMA DeleteWellFormed ==
  ASSUME WellFormed, NEW k \in Keys, oah_delete(k)
  PROVE  WellFormed'
<1> USE DEF oah_delete
<1>1. UNCHANGED <<allocated, cursor, trail>> /\ quiet' \in BOOLEAN
  BY DEF NoteWrite
<1>2. entry \in [Slots -> Bucket]
  BY DEF WellFormed, TypeOK
<1>3. CASE \E d \in Slots :
             /\ FoundAt(k, d)
             /\ Write(Probe(k, d), [entry[Probe(k, d)] EXCEPT !.status = "deleted"])
             /\ Answer("delete", k, "err_ok", NoValue)
  <2>1. PICK d \in Slots :
             /\ FoundAt(k, d)
             /\ Write(Probe(k, d), [entry[Probe(k, d)] EXCEPT !.status = "deleted"])
             /\ Answer("delete", k, "err_ok", NoValue)
    BY <1>3
  <2> DEFINE s == Probe(k, d)
             b == [entry[s] EXCEPT !.status = "deleted"]
  <2>2. s \in Slots
    BY ProbeInRange
  <2>3. entry[s] \in [status: {"in_use", "deleted"}, key: Keys, value: Values] /\ InUse(s)
    BY <1>2, <2>1, <2>2 DEF FoundAt, Matches, InUse, Bucket, Empty
  <2>4. b \in Bucket /\ b.status = "deleted"
    BY <2>3 DEF Bucket
  <2>5. Write(s, b)
    BY <2>1
  <2>6. TypeOK' /\ CursorOnRecord'
    BY <1>1, <2>1, <2>2, <2>4, <2>5, WriteWellFormed
  <2>7. QED
    BY <2>6 DEF WellFormed
<1>4. CASE Answer("delete", k, "err_item_not_found", NoValue) /\ UNCHANGED entry
  <2>1. TypeOK'
    BY <1>1, <1>4 DEF WellFormed, TypeOK, Answer
  <2>2. CursorOnRecord'
    BY <1>1, <1>4 DEF WellFormed, CursorOnRecord
  <2>3. QED
    BY <2>1, <2>2 DEF WellFormed
<1>5. QED
  BY <1>3, <1>4

LEMMA GetWellFormed ==
  ASSUME WellFormed, NEW k \in Keys, oah_get(k)
  PROVE  WellFormed'
<1> USE DEF oah_get, cursorVars
<1>1. CursorOnRecord'
  BY DEF WellFormed, CursorOnRecord
<1>2. entry \in [Slots -> Bucket]
  BY DEF WellFormed, TypeOK
<1>3. result' \in [call: {"get"}, key: Keys, err: {"err_ok", "err_item_not_found"},
                   value: Values \cup {NoValue}]
  <2>1. CASE \E d \in Slots : FoundAt(k, d) /\ Answer("get", k, "err_ok", entry[Probe(k, d)].value)
    <3>1. PICK d \in Slots : FoundAt(k, d) /\ Answer("get", k, "err_ok", entry[Probe(k, d)].value)
      BY <2>1
    <3>2. entry[Probe(k, d)].value \in Values
      BY <1>2, <3>1, ProbeInRange DEF FoundAt, Matches, InUse, Bucket, Empty
    <3>3. QED
      BY <3>1, <3>2 DEF Answer
  <2>2. CASE Answer("get", k, "err_item_not_found", NoValue)
    BY <2>2 DEF Answer
  <2>3. QED
    BY <2>1, <2>2
<1>4. TypeOK'
  BY <1>3 DEF WellFormed, TypeOK
<1>5. QED
  BY <1>1, <1>4 DEF WellFormed

\* The buckets of a dictionary that is created, opened or deleted.
LEMMA NewTableWellFormed ==
  ASSUME WellFormed, entry' \in [Slots -> Bucket], allocated' \in BOOLEAN,
         allocated => cursor.status = "none", UNCHANGED <<result, cursorVars>>
  PROVE  WellFormed'
<1>1. TypeOK'
  BY DEF WellFormed, TypeOK, cursorVars, Bucket
<1>2. CursorOnRecord'
  BY DEF WellFormed, CursorOnRecord, cursorVars
<1>3. QED
  BY <1>1, <1>2 DEF WellFormed

LEMMA FindWellFormed ==
  ASSUME WellFormed, NEW pred \in Predicates, oadict_find(pred)
  PROVE  WellFormed'
<1> USE DEF oadict_find, mapVars
<1>1. pred \in Predicate /\ (pred.type = "equality" => pred.lower \in Keys)
  BY PredicatesAssumption
<1>2. 0 \in Slots /\ MapSize - 1 \in Slots
  BY MapSizeAssumption DEF Slots
<1>3. PICK status \in CursorStatus, first \in Slots, current \in Slots \cup {-1} :
        /\ OpenCursor(status, pred, first, current)
        /\ status \in {"cs_cursor_initialized", "cs_cursor_active"} =>
             current \in Slots /\ entry[current].status # "empty"
  <2>1. CASE pred.type = "equality"
    <3>1. CASE \E d \in Slots :
                 /\ FoundAt(pred.lower, d)
                 /\ OpenCursor("cs_cursor_initialized", pred,
                               Probe(pred.lower, d), Probe(pred.lower, d))
      BY <1>1, <2>1, <3>1, ProbeInRange DEF FoundAt, Matches, InUse, CursorStatus
    <3>2. CASE OpenCursor("cs_end_of_results", pred, 0, 0)
      BY <1>2, <3>2 DEF CursorStatus
    <3>3. QED
      BY <2>1, <3>1, <3>2
  <2>2. CASE pred.type # "equality"
    <3>1. CASE \E s \in Scan(pred, 0, MapSize - 1) :
                 OpenCursor("cs_cursor_initialized", pred, MapSize - 1, s)
      BY <1>2, <3>1, ScanHitsRecord DEF WellFormed, Satisfies, CursorStatus
    <3>2. CASE OpenCursor(EmptyScanStatus, pred, MapSize - 1, -1)
      BY <1>2, <3>2 DEF EmptyScanStatus, CursorStatus
    <3>3. QED
      BY <2>2, <3>1, <3>2
  <2>3. QED
    BY <2>1, <2>2
<1>4. CursorOnRecord'
  BY <1>3 DEF OpenCursor, CursorOnRecord
<1>5. cursor' \in [status: CursorStatus \cup {"none"}, pred: Predicate,
                   first: Slots, current: Slots \cup {-1}]
  BY <1>1, <1>3 DEF OpenCursor
<1>6. TypeOK'
  BY <1>5 DEF WellFormed, TypeOK
<1>7. QED
  BY <1>4, <1>6 DEF WellFormed

LEMMA DeliverWellFormed ==
  ASSUME WellFormed, allocated, NEW s \in Slots, entry[s].status # "empty", Deliver(s),
         UNCHANGED <<mapVars, quiet>>
  PROVE  WellFormed'
<1> USE DEF Deliver, mapVars
<1>1. CursorOnRecord'
  BY DEF WellFormed, TypeOK, CursorOnRecord
<1>2. [slot |-> s, status |-> entry[s].status, key |-> entry[s].key]
        \in [slot: Slots, status: {"in_use", "deleted"}, key: Keys]
  BY DEF WellFormed, TypeOK, Bucket, Empty
<1>3. trail' \in Seq([slot: Slots, status: {"in_use", "deleted"}, key: Keys])
  BY <1>2 DEF WellFormed, TypeOK
<1>4. cursor' \in [status: CursorStatus \cup {"none"}, pred: Predicate,
                   first: Slots, current: Slots \cup {-1}]
  BY DEF WellFormed, TypeOK, CursorStatus
<1>5. TypeOK'
  BY <1>3, <1>4 DEF WellFormed, TypeOK
<1>6. QED
  BY <1>1, <1>5 DEF WellFormed

LEMMA NextWellFormed ==
  ASSUME WellFormed, oadict_next
  PROVE  WellFormed'
<1> USE DEF oadict_next
<1>1. CASE cursor.status = "cs_cursor_initialized" /\ Deliver(cursor.current)
  BY <1>1, DeliverWellFormed DEF WellFormed, CursorOnRecord
<1>2. CASE /\ cursor.status = "cs_cursor_active"
           /\ \E s \in Scan(cursor.pred, ScanStart, cursor.first) : Deliver(s)
  <2>1. cursor.current \in Slots /\ cursor.first \in Slots
    BY <1>2 DEF WellFormed, CursorOnRecord, TypeOK
  <2>2. ScanStart \in Slots
    BY <2>1, MapSizeAssumption DEF ScanStart, Wrap, Slots
  <2>3. PICK s \in Scan(cursor.pred, ScanStart, cursor.first) : Deliver(s)
    BY <1>2
  <2>4. s \in Slots /\ entry[s].status # "empty"
    BY <2>1, <2>2, ScanHitsRecord DEF WellFormed, Satisfies
  <2>5. QED
    BY <1>2, <2>3, <2>4, DeliverWellFormed DEF WellFormed, CursorOnRecord
<1>3. CASE /\ cursor' = [cursor EXCEPT !.status = "cs_end_of_results"]
           /\ UNCHANGED trail
  <2>1. CursorOnRecord' /\ TypeOK'
    BY <1>3 DEF WellFormed, TypeOK, CursorOnRecord, CursorStatus, mapVars
  <2>2. QED
    BY <2>1 DEF WellFormed
<1>4. QED
  BY <1>1, <1>2, <1>3

LEMMA DestroyCursorWellFormed ==
  ASSUME WellFormed, oadict_destroy_cursor
  PROVE  WellFormed'
<1> USE DEF oadict_destroy_cursor, mapVars
<1>1. CursorOnRecord'
  BY DEF NoCursor, CursorOnRecord
<1>2. TypeOK'
  BY MapSizeAssumption DEF WellFormed, TypeOK, NoCursor, AllRecords, Predicate, Slots
<1>3. QED
  BY <1>1, <1>2 DEF WellFormed

LEMMA StutterWellFormed ==
  ASSUME WellFormed, UNCHANGED vars
  PROVE  WellFormed'
<1>1. TypeOK' /\ CursorOnRecord'
  BY DEF WellFormed, TypeOK, CursorOnRecord, vars, mapVars, cursorVars
<1>2. QED
  BY <1>1 DEF WellFormed

\* The chains of all records, as the lemmas above state them for a set.
LEMMA WriteKeepsAllChains ==
  ASSUME IInv, \/ \E k \in Keys, v \in Values : oadict_insert(k, v) \/ oah_update(k, v)
               \/ \E k \in Keys : oah_delete(k)
  PROVE  ProbeChainUnbroken'
<1>1. entry \in [Slots -> Bucket] /\ ChainsBut(entry, {}) /\ StillIn({}) = {}
  BY ChainsOfAll DEF IInv, TypeOK, StillIn
<1>2. ChainsBut(entry', {})
  BY <1>1, InsertKeepsChains, DeleteKeepsChains DEF oadict_insert, oah_update
<1>3. QED
  BY <1>2 DEF ChainsBut, ProbeChainUnbroken, Reached, Matches, InUse, Probe, Wrap

LEMMA SameTableKeepsChains ==
  ASSUME IInv, UNCHANGED entry
  PROVE  ProbeChainUnbroken'
  BY DEF IInv, ProbeChainUnbroken, Matches, InUse, Probe, Wrap

LEMMA EmptyTableHasChains ==
  ASSUME entry' = [s \in Slots |-> Empty]
  PROVE  ProbeChainUnbroken' /\ entry' \in [Slots -> Bucket]
  BY ProbeInRange DEF ProbeChainUnbroken, Matches, InUse, Empty, Probe, Wrap, Bucket

LEMMA NextKeepsIInv == IInv /\ [Next]_vars => IInv'
<1> SUFFICES ASSUME IInv, [Next]_vars PROVE IInv'
  OBVIOUS
<1>1. WellFormed
  BY DEF IInv, WellFormed
<1>2. WellFormed' /\ ProbeChainUnbroken' => IInv'
  BY DEF IInv, WellFormed
<1>3. CASE \E k \in Keys, v \in Values : oadict_insert(k, v) \/ oah_update(k, v)
  BY <1>1, <1>2, <1>3, WriteKeepsAllChains, InsertWellFormed DEF oadict_insert, oah_update
<1>4. CASE \E k \in Keys : oah_delete(k)
  BY <1>1, <1>2, <1>4, WriteKeepsAllChains, DeleteWellFormed
<1>5. CASE \E k \in Keys : oah_get(k)
  BY <1>1, <1>2, <1>5, SameTableKeepsChains, GetWellFormed DEF oah_get
<1>6. CASE \E pred \in Predicates : oadict_find(pred)
  BY <1>1, <1>2, <1>6, SameTableKeepsChains, FindWellFormed DEF oadict_find, mapVars
<1>7. CASE oadict_next
  BY <1>1, <1>2, <1>7, SameTableKeepsChains, NextWellFormed DEF oadict_next, mapVars
<1>8. CASE oadict_destroy_cursor
  BY <1>1, <1>2, <1>8, SameTableKeepsChains, DestroyCursorWellFormed
  DEF oadict_destroy_cursor, mapVars
<1>9. CASE oadict_delete_dictionary
  BY <1>1, <1>2, <1>9, EmptyTableHasChains, NewTableWellFormed DEF oadict_delete_dictionary
<1>10. CASE oadict_create_dictionary
  BY <1>1, <1>2, <1>10, EmptyTableHasChains, NewTableWellFormed DEF oadict_create_dictionary
<1>11. CASE UNCHANGED vars
  BY <1>1, <1>2, <1>11, SameTableKeepsChains, StutterWellFormed DEF vars, mapVars
<1>12. QED
  BY <1>3, <1>4, <1>5, <1>6, <1>7, <1>8, <1>9, <1>10, <1>11 DEF Next

\* The inductive invariant holds in every state of every behaviour.
THEOREM Invariance == Spec => []IInv
<1>1. Init => IInv
  BY InitIInv
<1>2. IInv /\ [Next]_vars => IInv'
  BY NextKeepsIInv
<1>3. QED
  BY <1>1, <1>2, PTL DEF Spec

\* Every variable keeps its type; the buckets stay a table of map_size
\* buckets and the cursor stays within it.
THEOREM TypeCorrect == Spec => []TypeOK
<1>1. IInv => TypeOK
  BY DEF IInv
<1>2. QED
  BY <1>1, Invariance, PTL

\* Tombstones keep every probe sequence unbroken: no bucket before a record,
\* in the order in which its key is probed, is empty.
THEOREM ChainsHold == Spec => []ProbeChainUnbroken
<1>1. IInv => ProbeChainUnbroken
  BY DEF IInv
<1>2. QED
  BY <1>1, Invariance, PTL

\* A cursor with records to deliver stands on a bucket that has been written,
\* of an instance that exists: next never reads a key that is not there.
THEOREM CursorsStandOnRecords == Spec => []CursorOnRecord
<1>1. IInv => CursorOnRecord
  BY DEF IInv
<1>2. QED
  BY <1>1, Invariance, PTL

\* A record in the table is not hidden from the lookup of its key: the first
\* record of the key in probe order has no empty bucket before it.
LEMMA ChainsReach ==
  ASSUME IInv, NEW k \in Keys, NEW s \in Slots, Matches(k, s)
  PROVE  Found(k)
<1>1. PICK d \in Slots : Probe(k, d) = s
  BY ProbeSurjective
<1>2. PICK e \in 0 .. d : /\ Matches(k, Probe(k, e))
                          /\ \A f \in 0 .. (e - 1) : ~Matches(k, Probe(k, f))
  BY <1>1, FirstMatch
<1>3. e \in Slots
  BY MapSizeAssumption DEF Slots
<1>4. \A f \in 0 .. (e - 1) : entry[Probe(k, f)].status # "empty"
  BY <1>2, <1>3 DEF IInv, ProbeChainUnbroken
<1>5. QED
  BY <1>2, <1>3, <1>4 DEF Found, FoundAt

LEMMA LookupFollows == IInv => LookupComplete
<1> SUFFICES ASSUME IInv, NEW k \in Keys
             PROVE  Found(k) <=> \E s \in Slots : Matches(k, s)
  BY DEF LookupComplete
<1>1. ASSUME Found(k) PROVE \E s \in Slots : Matches(k, s)
  BY <1>1, ProbeInRange DEF Found, FoundAt
<1>2. QED
  BY <1>1, ChainsReach

\* oah_find_item_loc finds a key exactly when the table holds a record of it,
\* for every table size and every hash function.
THEOREM LookupIsComplete == Spec => []LookupComplete
  BY LookupFollows, Invariance, PTL

-----------------------------------------------------------------------------
(***************************************************************************)
(* The stacks.  c lists, at d, the values of the records of k from the     *)
(* d-th probe on: the definition of Copies, for any table.                 *)
(***************************************************************************)
Holds(table, k, s) == table[s].status = "in_use" /\ table[s].key = k

IsCopies(c, table, k) ==
  c = [d \in 0 .. MapSize |->
         IF d = MapSize THEN << >>
         ELSE LET s == Probe(k, d) IN
              IF Holds(table, k, s) THEN <<table[s].value>> \o c[d + 1] ELSE c[d + 1]]

CopiesIn(table, k) == (CHOOSE c : IsCopies(c, table, k))[0]

\* The buckets that hold k from the d-th probe on.
HeldFrom(table, k, d) ==
  { Probe(k, e) : e \in { f \in Slots : f >= d /\ Holds(table, k, Probe(k, f)) } }

LEMMA CopiesAre == \A k : Copies(k) = CopiesIn(entry, k)
  BY DEF Copies, CopiesIn, IsCopies, Matches, InUse, Holds

LEMMA CopiesAreNext == \A k : Copies(k)' = CopiesIn(entry', k)
  BY DEF Copies, CopiesIn, IsCopies, Matches, InUse, Holds

\* The lists exist: from the last probe backwards.
LEMMA CopiesExist ==
  ASSUME NEW table, NEW k
  PROVE  IsCopies(CHOOSE c : IsCopies(c, table, k), table, k)
<1> DEFINE body(c, d) ==
             IF d = MapSize THEN << >>
             ELSE LET s == Probe(k, d) IN
                  IF Holds(table, k, s) THEN <<table[s].value>> \o c[d + 1] ELSE c[d + 1]
           lists(c, n) == \A d \in n .. MapSize : c[d] = body(c, d)
           D == { n \in 0 .. MapSize : \E c : lists(c, n) }
<1>0. MapSize \in Nat
  BY MapSizeAssumption
<1>1. MapSize \in D
  <2> DEFINE c == [d \in {MapSize} |-> << >>]
  <2>1. \A d \in MapSize .. MapSize : d = MapSize
    BY <1>0
  <2>2. lists(c, MapSize)
    BY <2>1
  <2> HIDE DEF lists, c
  <2>3. QED
    BY <1>0, <2>2
<1>2. PICK n \in D : \A m \in D : n <= m
  <2> HIDE DEF lists
  <2>1. D \in SUBSET Nat /\ D # {}
    BY <1>0, <1>1
  <2> HIDE DEF D
  <2>2. QED
    BY <2>1, LeastNatural
<1>3. PICK c : lists(c, n)
  BY <1>2
<1>4. n \in 0 .. MapSize
  BY <1>2
<1>5. n = 0
  <2> SUFFICES ASSUME n # 0 PROVE FALSE
    OBVIOUS
  <2> DEFINE m == n - 1
             b == [d \in m .. MapSize |-> IF d = m THEN body(c, m) ELSE c[d]]
  <2>1. m \in 0 .. MapSize /\ m < n /\ m # MapSize
    BY <1>0, <1>4
  <2>2. ASSUME NEW d \in n .. MapSize PROVE b[d] = c[d] /\ b[d] = body(b, d)
    <3>1. b[d] = c[d]
      BY <1>0, <1>4, <2>2
    <3>2. d # MapSize => b[d + 1] = c[d + 1]
      BY <1>0, <1>4, <2>2
    <3>3. c[d] = body(c, d)
      BY <1>3
    <3> HIDE DEF b
    <3>4. QED
      BY <3>1, <3>2, <3>3
  <2>3. b[m] = body(b, m)
    <3>1. b[m] = body(c, m)
      BY <1>0, <2>1
    <3>2. b[m + 1] = c[m + 1]
      BY <1>0, <1>4
    <3> HIDE DEF b
    <3>3. QED
      BY <3>1, <3>2
  <2>4. \A d \in m .. MapSize : d = m \/ d \in n .. MapSize
    BY <1>0, <1>4
  <2>5. lists(b, m)
    <3> HIDE DEF b, m
    <3>1. QED
      BY <2>2, <2>3, <2>4
  <2>6. m \in D
    <3> HIDE DEF b, m
    <3>1. QED
      BY <2>1, <2>5
  <2>7. QED
    BY <1>2, <1>4, <2>1, <2>6
<1>6. PICK f : f = [d \in 0 .. MapSize |-> c[d]]
  OBVIOUS
<1>7. IsCopies(f, table, k)
  <2>1. ASSUME NEW d \in 0 .. MapSize PROVE f[d] = body(f, d)
    <3>1. c[d] = body(c, d)
      BY <1>3, <1>5
    <3>2. f[d] = c[d] /\ (d # MapSize => f[d + 1] = c[d + 1])
      BY <1>0, <1>6
    <3>3. QED
      BY <3>1, <3>2
  <2>2. f = [d \in 0 .. MapSize |-> f[d]]
    BY <1>6
  <2>3. f = [d \in 0 .. MapSize |-> body(f, d)]
    <3> HIDE DEF body
    <3>1. QED
      BY <2>1, <2>2
  <2>4. QED
    BY <2>3 DEF IsCopies
<1>8. QED
  BY <1>7, Zenon

\* A list starts with the value at its probe, when the bucket there holds k.
LEMMA CopiesStep ==
  ASSUME NEW table, NEW k, NEW c, IsCopies(c, table, k)
  PROVE  /\ c[MapSize] = << >>
         /\ \A d \in Slots :
              /\ ~Holds(table, k, Probe(k, d)) => c[d] = c[d + 1]
              /\ Holds(table, k, Probe(k, d)) => c[d] = <<table[Probe(k, d)].value>> \o c[d + 1]
<1> DEFINE body(d) ==
             IF d = MapSize THEN << >>
             ELSE LET s == Probe(k, d) IN
                  IF Holds(table, k, s) THEN <<table[s].value>> \o c[d + 1] ELSE c[d + 1]
<1>1. \A d \in 0 .. MapSize : c[d] = body(d)
  <2> HIDE DEF body
  <2>1. c = [d \in 0 .. MapSize |-> body(d)]
    BY DEF IsCopies, body
  <2>2. QED
    BY <2>1
<1>2. MapSize \in 0 .. MapSize
  BY MapSizeAssumption
<1>3. \A d \in Slots : d \in 0 .. MapSize /\ d # MapSize
  BY MapSizeAssumption DEF Slots
<1>4. QED
  BY <1>1, <1>2, <1>3

LEMMA CopiesAt ==
  ASSUME NEW table, NEW k, NEW c, IsCopies(c, table, k), NEW d \in Slots
  PROVE  c[d] = IF Holds(table, k, Probe(k, d)) THEN <<table[Probe(k, d)].value>> \o c[d + 1]
                ELSE c[d + 1]
<1>1. \A x \in Slots :
        /\ ~Holds(table, k, Probe(k, x)) => c[x] = c[x + 1]
        /\ Holds(table, k, Probe(k, x)) => c[x] = <<table[Probe(k, x)].value>> \o c[x + 1]
  BY CopiesStep
<1>2. QED
  BY <1>1

\* Lists of values, with as many as there are buckets that hold k.
LEMMA CopiesType ==
  ASSUME NEW table \in [Slots -> Bucket], NEW k \in Keys, NEW c, IsCopies(c, table, k)
  PROVE  \A n \in 0 .. MapSize :
           /\ c[n] \in Seq(Values)
           /\ IsFiniteSet(HeldFrom(table, k, n)) /\ Len(c[n]) = Cardinality(HeldFrom(table, k, n))
<1> DEFINE good(n) == /\ c[n] \in Seq(Values)
                      /\ IsFiniteSet(HeldFrom(table, k, n))
                      /\ Len(c[n]) = Cardinality(HeldFrom(table, k, n))
           D == { n \in 0 .. MapSize : \A m \in n .. MapSize : good(m) }
<1>s. /\ c[MapSize] = << >>
      /\ \A x \in Slots :
           /\ ~Holds(table, k, Probe(k, x)) => c[x] = c[x + 1]
           /\ Holds(table, k, Probe(k, x)) => c[x] = <<table[Probe(k, x)].value>> \o c[x + 1]
  BY CopiesStep
<1>0. MapSize \in Nat
  BY MapSizeAssumption
<1>1. good(MapSize)
  <2>1. HeldFrom(table, k, MapSize) = {}
    BY <1>0 DEF HeldFrom, Slots
  <2>2. QED
    BY <2>1, <1>s, FS_EmptySet
<1>2. ASSUME NEW n \in 0 .. MapSize, n # MapSize, good(n + 1)
      PROVE  good(n)
  <2> DEFINE s == Probe(k, n)
  <2>1. n \in Slots /\ s \in Slots
    BY <1>0, <1>2, ProbeInRange DEF Slots
  <2>2. CASE ~Holds(table, k, s)
    <3>1. c[n] = c[n + 1]
      BY <2>1, <2>2, <1>s
    <3>2. HeldFrom(table, k, n) = HeldFrom(table, k, n + 1)
      <4>1. \A f \in Slots : Holds(table, k, Probe(k, f)) => (f >= n <=> f >= n + 1)
        <5> SUFFICES ASSUME NEW f \in Slots
                     PROVE  Holds(table, k, Probe(k, f)) => (f >= n <=> f >= n + 1)
          OBVIOUS
        <5>1. f = n \/ (f >= n <=> f >= n + 1)
          BY <1>0, <2>1 DEF Slots
        <5>2. ~(n >= n + 1)
          BY <2>1 DEF Slots
        <5>3. QED
          BY <2>2, <5>1, <5>2
      <4>2. QED
        BY <4>1 DEF HeldFrom
    <3>3. QED
      BY <1>2, <3>1, <3>2
  <2>3. CASE Holds(table, k, s)
    <3>1. c[n] = <<table[s].value>> \o c[n + 1]
      BY <2>1, <2>3, <1>s
    <3>2. table[s].value \in Values
      <4>1. table[s] \in Bucket /\ table[s].status = "in_use"
        BY <2>1, <2>3 DEF Holds
      <4>2. table[s] # Empty
        BY <4>1 DEF Empty
      <4>3. QED
        BY <4>1, <4>2 DEF Bucket
    <3>3. c[n] \in Seq(Values) /\ Len(c[n]) = Len(c[n + 1]) + 1
      BY <1>2, <3>1, <3>2, Preceded
    <3>4. HeldFrom(table, k, n) = HeldFrom(table, k, n + 1) \cup {s}
      <4>1. \A f \in Slots : f >= n <=> (f >= n + 1 \/ f = n)
        BY <1>0, <2>1 DEF Slots
      <4>2. n >= n
        BY <2>1 DEF Slots
      <4>3. QED
        BY <2>1, <2>3, <4>1, <4>2 DEF HeldFrom
    <3>5. s \notin HeldFrom(table, k, n + 1)
      <4>1. \A f \in Slots : Probe(k, f) = s => f = n
        BY <2>1, ProbeInjective
      <4>2. ~(n >= n + 1)
        BY <2>1 DEF Slots
      <4>3. QED
        BY <4>1, <4>2 DEF HeldFrom
    <3>6. IsFiniteSet(HeldFrom(table, k, n)) 
          /\ Cardinality(HeldFrom(table, k, n)) = Cardinality(HeldFrom(table, k, n + 1)) + 1
      BY <1>2, <3>4, <3>5, FS_AddElement
    <3>7. QED
      BY <1>2, <3>3, <3>6
  <2>4. QED
    BY <2>2, <2>3
<1>3. \A n \in 0 .. MapSize : good(n)
  <2> HIDE DEF good
  <2>1. D \in SUBSET Nat /\ D # {}
    BY <1>0, <1>1
  <2>2. PICK n \in D : \A m \in D : n <= m
    <3> HIDE DEF D
    <3>1. QED
      BY <2>1, LeastNatural
  <2>3. n = 0
    <3> SUFFICES ASSUME n # 0 PROVE FALSE
      OBVIOUS
    <3>1. n - 1 \in 0 .. MapSize /\ n - 1 # MapSize /\ (n - 1) + 1 = n /\ n \in n .. MapSize
      BY <1>0, <2>2
    <3>2. good(n - 1)
      BY <1>2, <2>2, <3>1
    <3>3. \A m \in (n - 1) .. MapSize : m = n - 1 \/ m \in n .. MapSize
      BY <1>0, <2>2
    <3>4. n - 1 \in D
      BY <2>2, <3>1, <3>2, <3>3
    <3>5. QED
      BY <2>2, <3>1, <3>4
  <2>4. QED
    BY <2>2, <2>3
<1>4. QED
  BY <1>3

\* Buckets that do not hold k add nothing to the list.
LEMMA CopiesSkip ==
  ASSUME NEW table, NEW k \in Keys, NEW c, IsCopies(c, table, k), NEW d \in 0 .. MapSize,
         \A e \in 0 .. (d - 1) : ~Holds(table, k, Probe(k, e))
  PROVE  c[0] = c[d]
<1> DEFINE D == { n \in 0 .. d : c[n] = c[d] }
<1>s. /\ c[MapSize] = << >>
      /\ \A x \in Slots :
           /\ ~Holds(table, k, Probe(k, x)) => c[x] = c[x + 1]
           /\ Holds(table, k, Probe(k, x)) => c[x] = <<table[Probe(k, x)].value>> \o c[x + 1]
  BY CopiesStep
<1>0. MapSize \in Nat /\ d \in Nat /\ d <= MapSize
  BY MapSizeAssumption
<1>1. D \in SUBSET Nat /\ D # {}
  BY <1>0
<1>2. PICK n \in D : \A m \in D : n <= m
  <2> HIDE DEF D
  <2>1. QED
    BY <1>1, LeastNatural
<1>3. n = 0
  <2> SUFFICES ASSUME n # 0 PROVE FALSE
    OBVIOUS
  <2>1. n - 1 \in 0 .. d /\ n - 1 \in Slots /\ n - 1 \in 0 .. (d - 1) /\ (n - 1) + 1 = n
    BY <1>0, <1>2 DEF Slots
  <2>2. c[n - 1] = c[n]
    BY <2>1, <1>s
  <2>3. QED
    BY <1>2, <2>1, <2>2
<1>4. QED
  BY <1>2, <1>3

\* Two tables that hold the same of k from the d-th probe on.
SameFrom(new, table, k, d) ==
  \A e \in Slots : e >= d =>
    /\ Holds(new, k, Probe(k, e)) <=> Holds(table, k, Probe(k, e))
    /\ Holds(table, k, Probe(k, e)) => new[Probe(k, e)].value = table[Probe(k, e)].value

\* They have the same list there.
LEMMA CopiesAgree ==
  ASSUME NEW table, NEW new, NEW k \in Keys, NEW c, NEW b,
         IsCopies(c, table, k), IsCopies(b, new, k), NEW d \in 0 .. MapSize,
         SameFrom(new, table, k, d)
  PROVE  b[d] = c[d]
<1> DEFINE D == { n \in d .. MapSize : b[n] = c[n] }
<1>s. /\ c[MapSize] = << >>
      /\ \A x \in Slots :
           /\ ~Holds(table, k, Probe(k, x)) => c[x] = c[x + 1]
           /\ Holds(table, k, Probe(k, x)) => c[x] = <<table[Probe(k, x)].value>> \o c[x + 1]
  BY CopiesStep
<1>t. /\ b[MapSize] = << >>
      /\ \A x \in Slots :
           /\ ~Holds(new, k, Probe(k, x)) => b[x] = b[x + 1]
           /\ Holds(new, k, Probe(k, x)) => b[x] = <<new[Probe(k, x)].value>> \o b[x + 1]
  BY CopiesStep
<1>0. MapSize \in Nat /\ d \in Nat /\ d <= MapSize
  BY MapSizeAssumption
<1>1. D \in SUBSET Nat /\ D # {}
  <2>1. b[MapSize] = c[MapSize]
    BY <1>s, <1>t
  <2>2. QED
    BY <1>0, <2>1
<1>2. PICK n \in D : \A m \in D : n <= m
  <2> HIDE DEF D
  <2>1. QED
    BY <1>1, LeastNatural
<1>3. ASSUME NEW e \in Slots, e >= d, b[e + 1] = c[e + 1]
      PROVE  b[e] = c[e]
  <2>1. CASE Holds(table, k, Probe(k, e))
    BY <1>3, <2>1, <1>s, <1>t DEF SameFrom
  <2>2. CASE ~Holds(table, k, Probe(k, e))
    BY <1>3, <2>2, <1>s, <1>t DEF SameFrom
  <2>3. QED
    BY <2>1, <2>2
<1>4. n = d
  <2> SUFFICES ASSUME n # d PROVE FALSE
    OBVIOUS
  <2>1. n - 1 \in d .. MapSize /\ n - 1 \in Slots /\ n - 1 >= d /\ (n - 1) + 1 = n
    BY <1>0, <1>2 DEF Slots
  <2>2. b[n - 1] = c[n - 1]
    BY <1>2, <1>3, <2>1
  <2>3. QED
    BY <1>2, <2>1, <2>2
<1>5. QED
  BY <1>2, <1>4

\* The buckets in use, and the key of each.
Records(table) == { s \in Slots : table[s].status = "in_use" }
KeysOf(table) == [s \in Records(table) |-> table[s].key]

\* A list has every record of its key once.
LEMMA CopiesCount ==
  ASSUME NEW table \in [Slots -> Bucket], NEW k \in Keys
  PROVE  /\ CopiesIn(table, k) \in Seq(Values)
         /\ Len(CopiesIn(table, k)) = Cardinality(Valued(Records(table), KeysOf(table), k))
<1>1. PICK c : c = CHOOSE b : IsCopies(b, table, k)
  OBVIOUS
<1>2. IsCopies(c, table, k)
  BY <1>1, CopiesExist
<1>3. CopiesIn(table, k) = c[0]
  BY <1>1 DEF CopiesIn
<1>4. c[0] \in Seq(Values) /\ Len(c[0]) = Cardinality(HeldFrom(table, k, 0))
  BY <1>2, CopiesType, MapSizeAssumption
<1>5. HeldFrom(table, k, 0) = Valued(Records(table), KeysOf(table), k)
  <2>1. HeldFrom(table, k, 0) = { s \in Slots : Holds(table, k, s) }
    <3>1. \A f \in Slots : f >= 0 /\ Probe(k, f) \in Slots
      BY ProbeInRange, MapSizeAssumption DEF Slots
    <3>2. \A s \in Slots : \E f \in Slots : Probe(k, f) = s
      BY ProbeSurjective
    <3>3. QED
      BY <3>1, <3>2 DEF HeldFrom
  <2>2. QED
    BY <2>1 DEF Valued, Records, KeysOf, Holds
<1>6. QED
  BY <1>3, <1>4, <1>5

IsHeld(it) ==
  it = [s \in SUBSET Keys |->
          IF s = {} THEN 0
          ELSE LET x == CHOOSE x \in s : TRUE IN Len([k \in Keys |-> Copies(k)][x]) + it[s \ {x}]]

\* What the stacks hold together are the buckets in use.
LEMMA HeldIs ==
  ASSUME entry \in [Slots -> Bucket]
  PROVE  Abstract!Held = Cardinality(Records(entry))
<1> DEFINE B == Records(entry)
           val == KeysOf(entry)
           f == [k \in Keys |-> Len(Copies(k))]
<1>1. Abstract!Held = (CHOOSE it : IsHeld(it))[Keys]
  BY DEF Abstract!Held, Abstract!MapThenSumSet, Abstract!MapThenFoldSet, IsHeld
<1>2. ASSUME NEW it
      PROVE  IsSum(it, Keys, f) <=> IsHeld(it)
  <2> DEFINE lens(x) == Len([k \in Keys |-> Copies(k)][x])
  <2>1. ASSUME NEW s \in SUBSET Keys
        PROVE  (IF s = {} THEN 0 ELSE LET x == CHOOSE x \in s : TRUE IN f[x] + it[s \ {x}])
                 = IF s = {} THEN 0 ELSE LET x == CHOOSE x \in s : TRUE IN lens(x) + it[s \ {x}]
    <3>1. CASE s = {}
      BY <3>1
    <3>2. CASE s # {}
      <4>1. PICK x \in s : x = CHOOSE y \in s : TRUE
        BY <3>2
      <4>2. f[x] = lens(x)
        BY <4>1
      <4> HIDE DEF f, lens
      <4>3. QED
        BY <3>2, <4>1, <4>2
    <3>3. QED
      BY <3>1, <3>2
  <2> HIDE DEF f
  <2>2. QED
    BY <2>1 DEF IsSum, IsHeld
<1>3. Abstract!Held = Total(Keys, f)
  <2> HIDE DEF f
  <2>1. QED
    BY <1>1, <1>2 DEF Total
<1>4. IsFiniteSet(B)
  <2>1. IsFiniteSet(Slots)
    BY FS_Interval, MapSizeAssumption DEF Slots
  <2>2. QED
    BY <2>1, FS_Subset DEF Records
<1>5. \A k \in Keys : f[k] = Cardinality(Valued(B, val, k))
  BY CopiesCount, CopiesAre
<1>6. \A b \in B : val[b] \in Keys
  <2> SUFFICES ASSUME NEW b \in B PROVE val[b] \in Keys
    OBVIOUS
  <2>1. entry[b] \in Bucket /\ entry[b].status = "in_use"
    BY DEF Records
  <2>2. entry[b] # Empty
    BY <2>1 DEF Empty
  <2>3. entry[b].key \in Keys
    BY <2>1, <2>2 DEF Bucket
  <2>4. QED
    BY <2>3 DEF KeysOf
<1> HIDE DEF B, val, f
<1>7. Total(Keys, f) = Cardinality(B)
  BY <1>4, <1>5, <1>6, KeysAssumption, TotalIs
<1>8. QED
  BY <1>3, <1>7 DEF B

\* There is room as long as a bucket is not in use.
LEMMA HeldRoom ==
  ASSUME entry \in [Slots -> Bucket]
  PROVE  /\ (\E s \in Slots : ~InUse(s)) => Abstract!Held < MapSize
         /\ (\A s \in Slots : InUse(s)) => Abstract!Held = MapSize
<1>1. IsFiniteSet(Slots) /\ Cardinality(Slots) = MapSize
  BY FS_Interval, MapSizeAssumption DEF Slots
<1>2. Records(entry) \subseteq Slots /\ \A s \in Slots : s \in Records(entry) <=> InUse(s)
  BY DEF Records, InUse
<1>3. ASSUME NEW s \in Slots, ~InUse(s) PROVE Cardinality(Records(entry)) < MapSize
  <2>1. Records(entry) \subseteq Slots /\ Records(entry) # Slots
    BY <1>2, <1>3
  <2>2. /\ Cardinality(Records(entry)) <= Cardinality(Slots)
        /\ Cardinality(Slots) = Cardinality(Records(entry)) => Slots = Records(entry)
        /\ IsFiniteSet(Records(entry))
    BY <1>1, <2>1, FS_Subset
  <2>3. Cardinality(Records(entry)) \in Nat
    BY <2>2, FS_CardinalityType
  <2>4. QED
    BY <1>1, <2>1, <2>2, <2>3, MapSizeAssumption
<1>4. ASSUME \A s \in Slots : InUse(s) PROVE Records(entry) = Slots
  BY <1>2, <1>4
<1>5. QED
  BY <1>1, <1>3, <1>4, HeldIs

\* What a write does to the lists: r are the values that are behind the bucket.
LEMMA WriteLists ==
  ASSUME entry \in [Slots -> Bucket], NEW k \in Keys, NEW d \in Slots, NEW b \in Bucket,
         \A e \in 0 .. (d - 1) : ~Matches(k, Probe(k, e)),
         InUse(Probe(k, d)) => Matches(k, Probe(k, d)),
         b.status = "in_use" => b.key = k,
         Write(Probe(k, d), b)
  PROVE  /\ \A j \in Keys \ {k} : Copies(j)' = Copies(j)
         /\ \E r \in Seq(Values) :
              /\ Copies(k) = IF InUse(Probe(k, d)) THEN <<entry[Probe(k, d)].value>> \o r ELSE r
              /\ Copies(k)' = IF b.status = "in_use" THEN <<b.value>> \o r ELSE r
<1> DEFINE s == Probe(k, d)
<1>0. d \in 0 .. MapSize /\ d + 1 \in 0 .. MapSize /\ 0 \in 0 .. MapSize /\ d \in Nat
  BY MapSizeAssumption DEF Slots
<1>1. s \in Slots /\ entry' \in [Slots -> Bucket] /\ entry'[s] = b
      /\ \A t \in Slots \ {s} : entry'[t] = entry[t]
  BY ProbeInRange DEF Write
<1>2. \A j \in Keys \ {k} : Holds(entry, j, s) = FALSE /\ Holds(entry', j, s) = FALSE
  BY <1>1 DEF Holds, Matches, InUse
<1>3. ASSUME NEW j \in Keys \ {k} PROVE Copies(j)' = Copies(j)
  <2>1. PICK c : c = CHOOSE a : IsCopies(a, entry, j)
    OBVIOUS
  <2>2. PICK n : n = CHOOSE a : IsCopies(a, entry', j)
    OBVIOUS
  <2>3. IsCopies(c, entry, j) /\ IsCopies(n, entry', j)
    BY <2>1, <2>2, CopiesExist
  <2>4. SameFrom(entry', entry, j, 0)
    BY <1>1, <1>2, ProbeInRange DEF Holds, SameFrom
  <2>5. n[0] = c[0]
    BY <1>0, <2>3, <2>4, CopiesAgree
  <2>6. Copies(j) = c[0] /\ Copies(j)' = n[0]
    BY <2>1, <2>2, CopiesAre, CopiesAreNext DEF CopiesIn
  <2>7. QED
    BY <2>5, <2>6
<1>4. PICK c : c = CHOOSE a : IsCopies(a, entry, k)
  OBVIOUS
<1>5. PICK n : n = CHOOSE a : IsCopies(a, entry', k)
  OBVIOUS
<1>6. IsCopies(c, entry, k) /\ IsCopies(n, entry', k)
  BY <1>4, <1>5, CopiesExist
<1>7. \A e \in Slots : e # d => Probe(k, e) \in Slots \ {s}
  BY ProbeInRange, ProbeInjective
<1>8. SameFrom(entry', entry, k, d + 1)
  <2>1. \A e \in Slots : e >= d + 1 => e # d
    BY <1>0
  <2>2. QED
    BY <1>1, <1>7, <2>1 DEF Holds, SameFrom
<1>9. n[d + 1] = c[d + 1]
  BY <1>0, <1>6, <1>8, CopiesAgree
<1>10. c[0] = c[d]
  BY <1>0, <1>6, CopiesSkip DEF Holds, Matches, InUse
<1>11. n[0] = n[d]
  <2>1. \A e \in 0 .. (d - 1) : e \in Slots /\ e # d
    BY <1>0, MapSizeAssumption DEF Slots
  <2>2. \A e \in 0 .. (d - 1) : ~Holds(entry', k, Probe(k, e))
    BY <1>1, <1>7, <2>1 DEF Holds, Matches, InUse
  <2>3. QED
    BY <1>0, <1>6, <2>2, CopiesSkip
<1>12. c[d] = IF InUse(s) THEN <<entry[s].value>> \o c[d + 1] ELSE c[d + 1]
  <2>1. Holds(entry, k, s) <=> InUse(s)
    BY DEF Holds, Matches, InUse
  <2>2. QED
    BY <1>6, <2>1, CopiesAt
<1>13. n[d] = IF b.status = "in_use" THEN <<b.value>> \o n[d + 1] ELSE n[d + 1]
  <2>1. Holds(entry', k, s) <=> b.status = "in_use"
    BY <1>1 DEF Holds
  <2>2. QED
    BY <1>1, <1>6, <2>1, CopiesAt
<1>14. Copies(k) = c[0] /\ Copies(k)' = n[0]
  BY <1>4, <1>5, CopiesAre, CopiesAreNext DEF CopiesIn
<1>15. c[d + 1] \in Seq(Values)
  BY <1>0, <1>6, CopiesType
<1>16. QED
  BY <1>3, <1>9, <1>10, <1>11, <1>12, <1>13, <1>14, <1>15

\* No record of a key, no values.
LEMMA NothingListed ==
  ASSUME NEW k \in Keys, \A s \in Slots : ~Matches(k, s)
  PROVE  Copies(k) = << >>
<1>1. PICK c : c = CHOOSE a : IsCopies(a, entry, k)
  OBVIOUS
<1>2. IsCopies(c, entry, k)
  BY <1>1, CopiesExist
<1>3. MapSize \in 0 .. MapSize /\ \A e \in 0 .. (MapSize - 1) : ~Holds(entry, k, Probe(k, e))
  BY MapSizeAssumption, ProbeInRange DEF Slots, Holds, Matches, InUse
<1>4. c[0] = c[MapSize]
  BY <1>2, <1>3, CopiesSkip
<1>5. c[MapSize] = << >>
  BY <1>2, CopiesStep
<1>6. QED
  BY <1>1, <1>4, <1>5, CopiesAre DEF CopiesIn

\* The first record of a key in probe order is the top of its stack.
LEMMA TopListed ==
  ASSUME entry \in [Slots -> Bucket], NEW k \in Keys, NEW d \in Slots,
         Matches(k, Probe(k, d)), \A e \in 0 .. (d - 1) : ~Matches(k, Probe(k, e))
  PROVE  \E r \in Seq(Values) : Copies(k) = <<entry[Probe(k, d)].value>> \o r
<1>1. PICK c : c = CHOOSE a : IsCopies(a, entry, k)
  OBVIOUS
<1>2. IsCopies(c, entry, k)
  BY <1>1, CopiesExist
<1>3. d \in 0 .. MapSize /\ d + 1 \in 0 .. MapSize
  BY MapSizeAssumption DEF Slots
<1>4. c[0] = c[d]
  BY <1>2, <1>3, CopiesSkip DEF Holds, Matches, InUse
<1>5. c[d] = <<entry[Probe(k, d)].value>> \o c[d + 1]
  <2>1. Holds(entry, k, Probe(k, d))
    BY DEF Holds, Matches, InUse
  <2>2. QED
    BY <1>2, <2>1, CopiesAt
<1>6. c[d + 1] \in Seq(Values)
  BY <1>2, <1>3, CopiesType
<1>7. QED
  BY <1>1, <1>4, <1>5, <1>6, CopiesAre DEF CopiesIn

\* The value of a record in use is one of Values.
LEMMA ValueIn ==
  ASSUME NEW b \in Bucket, b.status = "in_use"
  PROVE  b.value \in Values /\ b.key \in Keys
<1>1. b # Empty
  BY DEF Empty
<1>2. QED
  BY <1>1 DEF Bucket

\* Another value on top of a stack.
LEMMA TopReplaced ==
  ASSUME NEW S, NEW m \in S, NEW w \in S, NEW r \in Seq(S)
  PROVE  <<w>> \o r = [<<m>> \o r EXCEPT ![1] = w] /\ <<m>> \o r # << >>
<1>1. Len(r) \in Nat /\ DOMAIN r = 1 .. Len(r)
  BY SequenceDomain
<1>2. ASSUME NEW x \in S
      PROVE  <<x>> \o r = [i \in 1 .. (Len(r) + 1) |-> IF i = 1 THEN x ELSE r[i - 1]]
  BY <1>1
<1>3. PICK q : q = [i \in 1 .. (Len(r) + 1) |-> IF i = 1 THEN m ELSE r[i - 1]]
  OBVIOUS
<1>4. [q EXCEPT ![1] = w] = [i \in 1 .. (Len(r) + 1) |-> IF i = 1 THEN w ELSE r[i - 1]]
  BY <1>1, <1>3
<1>5. q = <<m>> \o r
  BY <1>2, <1>3
<1>6. <<m>> \o r # << >>
  BY <1>1, Preceded
<1>7. <<w>> \o r = [q EXCEPT ![1] = w]
  BY <1>2, <1>4
<1>8. QED
  BY <1>5, <1>6, <1>7

LEMMA StackChanges ==
  ASSUME NEW k \in Keys, \A j \in Keys \ {k} : Copies(j)' = Copies(j)
  PROVE  [j \in Keys |-> Copies(j)]' = [[j \in Keys |-> Copies(j)] EXCEPT ![k] = Copies(k)']
<1>1. ASSUME NEW j \in Keys PROVE Copies(j)' = IF j = k THEN Copies(k)' ELSE Copies(j)
  BY <1>1
<1>2. QED
  BY <1>1

LEMMA SameStacks ==
  ASSUME entry' = entry
  PROVE  [k \in Keys |-> Copies(k)]' = [k \in Keys |-> Copies(k)]
<1>1. \A k \in Keys : Copies(k)' = Copies(k)
  BY CopiesAre, CopiesAreNext
<1>2. QED
  BY <1>1

\* A key that is held: an insert is refused, an update replaces the top.
Refused(call, k) ==
  /\ Abstract!Answer(call, k, "err_duplicate_key", NoValue)
  /\ Copies(k) # << >>
  /\ UNCHANGED [j \in Keys |-> Copies(j)]

Replaced(call, k, v) ==
  /\ Abstract!Answer(call, k, "err_ok", NoValue)
  /\ Copies(k) # << >>
  /\ [j \in Keys |-> Copies(j)]' = [[j \in Keys |-> Copies(j)] EXCEPT ![k][1] = v]

\* The three outcomes of an insert or an update: a push, a full table, or the
\* top of the stack, which an update replaces.
LEMMA InsertsAre ==
  ASSUME TypeOK, NEW k \in Keys, NEW v \in Values, NEW call, NEW concern,
         oah_insert(call, k, v, concern)
  PROVE  \/ Abstract!Push(call, k, v)
         \/ Abstract!RefuseFull(call, k)
         \/ concern = "wc_insert_unique" /\ Refused(call, k)
         \/ concern = "wc_update" /\ Replaced(call, k, v)
<1>0. entry \in [Slots -> Bucket]
  BY DEF TypeOK
<1>1. CASE /\ \A d \in Slots : ~StopsInsert(k, Probe(k, d))
           /\ Answer(call, k, "err_max_capacity", NoValue)
           /\ UNCHANGED entry
  <2>1. \A s \in Slots : InUse(s) /\ ~Matches(k, s)
    BY <1>1, ProbeSurjective DEF StopsInsert
  <2>2. Abstract!Held = MapSize
    BY <1>0, <2>1, HeldRoom
  <2>3. Copies(k) = << >>
    BY <2>1, NothingListed
  <2>4. UNCHANGED [j \in Keys |-> Copies(j)]
    BY <1>1, SameStacks
  <2>5. Abstract!RefuseFull(call, k)
    BY <1>1, <2>2, <2>3, <2>4 DEF Abstract!RefuseFull, Abstract!Answer, Answer
  <2>6. QED
    BY <2>5
<1>2. ASSUME NEW d \in Slots, InsertStopsAt(k, d),
             \/ /\ Matches(k, Probe(k, d)) /\ concern = "wc_insert_unique"
                /\ Answer(call, k, "err_duplicate_key", NoValue)
                /\ UNCHANGED entry
             \/ /\ Matches(k, Probe(k, d)) /\ concern = "wc_update"
                /\ Write(Probe(k, d), [entry[Probe(k, d)] EXCEPT !.value = v])
                /\ Answer(call, k, "err_ok", NoValue)
             \/ /\ ~InUse(Probe(k, d))
                /\ Write(Probe(k, d), Record("in_use", k, v))
                /\ Answer(call, k, "err_ok", NoValue)
      PROVE  \/ Abstract!Push(call, k, v)
             \/ concern = "wc_insert_unique" /\ Refused(call, k)
             \/ concern = "wc_update" /\ Replaced(call, k, v)
  <2> DEFINE s == Probe(k, d)
  <2>1. s \in Slots /\ entry[s] \in Bucket
    BY <1>0, ProbeInRange
  <2>2. \A e \in 0 .. (d - 1) : ~Matches(k, Probe(k, e))
    BY <1>2 DEF InsertStopsAt, StopsInsert
  <2>3. CASE /\ Matches(k, s) /\ concern = "wc_insert_unique"
             /\ Answer(call, k, "err_duplicate_key", NoValue)
             /\ UNCHANGED entry
    <3>1. PICK r \in Seq(Values) : Copies(k) = <<entry[s].value>> \o r
      BY <1>0, <2>2, <2>3, TopListed
    <3>2. entry[s].value \in Values
      BY <2>1, <2>3, ValueIn DEF Matches, InUse
    <3>3. Copies(k) # << >>
      BY <3>1, <3>2
    <3>4. UNCHANGED [j \in Keys |-> Copies(j)]
      BY <2>3, SameStacks
    <3>5. QED
      BY <2>3, <3>3, <3>4 DEF Abstract!Answer, Answer, Refused
  <2>4. CASE /\ Matches(k, s) /\ concern = "wc_update"
             /\ Write(s, [entry[s] EXCEPT !.value = v])
             /\ Answer(call, k, "err_ok", NoValue)
    <3> DEFINE b == [entry[s] EXCEPT !.value = v]
    <3>1. entry[s].status = "in_use" /\ entry[s].key = k /\ entry[s] # Empty
      BY <2>4 DEF Matches, InUse, Empty
    <3>2. b \in Bucket /\ b.status = "in_use" /\ b.key = k /\ b.value = v
      BY <2>1, <3>1 DEF Bucket
    <3>3. Write(s, b) /\ InUse(s) /\ Matches(k, s)
      BY <2>4 DEF Matches
    <3> HIDE DEF b
    <3>4. /\ \A j \in Keys \ {k} : Copies(j)' = Copies(j)
          /\ \E r \in Seq(Values) : Copies(k) = <<entry[s].value>> \o r /\ Copies(k)' = <<v>> \o r
      BY <1>0, <2>2, <3>2, <3>3, WriteLists
    <3>5. PICK r \in Seq(Values) : Copies(k) = <<entry[s].value>> \o r /\ Copies(k)' = <<v>> \o r
      BY <3>4
    <3>6. entry[s].value \in Values
      BY <2>1, <3>1, ValueIn
    <3>7. <<v>> \o r = [<<entry[s].value>> \o r EXCEPT ![1] = v] /\ <<entry[s].value>> \o r # << >>
      BY <3>6, TopReplaced
    <3>8. [j \in Keys |-> Copies(j)]' = [[j \in Keys |-> Copies(j)] EXCEPT ![k] = Copies(k)']
      BY <3>4, StackChanges
    <3>9. Copies(k)' = [Copies(k) EXCEPT ![1] = v]
      BY <3>5, <3>7
    <3>10. [j \in Keys |-> Copies(j)]' = [[j \in Keys |-> Copies(j)] EXCEPT ![k][1] = v]
      BY <3>8, <3>9
    <3>11. QED
      BY <2>4, <3>5, <3>7, <3>10 DEF Abstract!Answer, Answer, Replaced
  <2>5. CASE /\ ~InUse(s)
             /\ Write(s, Record("in_use", k, v))
             /\ Answer(call, k, "err_ok", NoValue)
    <3> DEFINE b == Record("in_use", k, v)
    <3>1. b \in Bucket /\ b.status = "in_use" /\ b.key = k /\ b.value = v
      BY DEF Bucket, Record
    <3> HIDE DEF b
    <3>2. Write(s, b)
      BY <2>5 DEF b
    <3>3. /\ \A j \in Keys \ {k} : Copies(j)' = Copies(j)
          /\ \E r \in Seq(Values) : Copies(k) = r /\ Copies(k)' = <<v>> \o r
      BY <1>0, <2>2, <2>5, <3>1, <3>2, WriteLists
    <3>4. Copies(k)' = <<v>> \o Copies(k)
      BY <3>3
    <3>5. [j \in Keys |-> Copies(j)]' = [[j \in Keys |-> Copies(j)] EXCEPT ![k] = Copies(k)']
      BY <3>3, StackChanges
    <3>6. [j \in Keys |-> Copies(j)]' = [[j \in Keys |-> Copies(j)] EXCEPT ![k] = <<v>> \o @]
      BY <3>4, <3>5
    <3>7. Abstract!Held < MapSize
      BY <1>0, <2>1, <2>5, HeldRoom
    <3>8. Abstract!Push(call, k, v)
      BY <2>5, <3>6, <3>7 DEF Abstract!Push, Abstract!Answer, Answer
    <3>9. QED
      BY <3>8
  <2>6. QED
    BY <1>2, <2>3, <2>4, <2>5
<1>3. QED
  BY <1>1, <1>2 DEF oah_insert

\* A delete takes the top of the stack.
LEMMA DeletesAre ==
  ASSUME IInv, NEW k \in Keys, oah_delete(k)
  PROVE  Abstract!Delete(k)
<1>0. TypeOK /\ entry \in [Slots -> Bucket]
  BY DEF IInv, TypeOK
<1>1. ASSUME NEW d \in Slots, FoundAt(k, d),
             Write(Probe(k, d), [entry[Probe(k, d)] EXCEPT !.status = "deleted"]),
             Answer("delete", k, "err_ok", NoValue)
      PROVE  Abstract!Delete(k)
  <2> DEFINE s == Probe(k, d)
             b == [entry[s] EXCEPT !.status = "deleted"]
  <2>1. entry[s] \in Bucket /\ Matches(k, s) /\ \A e \in 0 .. (d - 1) : ~Matches(k, Probe(k, e))
    BY <1>0, <1>1, ProbeInRange DEF FoundAt
  <2>2. entry[s].status = "in_use" /\ entry[s].key = k /\ entry[s] # Empty
    BY <2>1 DEF Matches, InUse, Empty
  <2>3. b \in Bucket /\ b.status # "in_use" /\ Write(s, b)
    BY <1>1, <2>1, <2>2 DEF Bucket
  <2>4. InUse(s)
    BY <2>2 DEF InUse
  <2> HIDE DEF b
  <2>5. /\ \A j \in Keys \ {k} : Copies(j)' = Copies(j)
        /\ \E r \in Seq(Values) : Copies(k) = <<entry[s].value>> \o r /\ Copies(k)' = r
    BY <1>0, <2>1, <2>3, <2>4, WriteLists
  <2>6. PICK r \in Seq(Values) : Copies(k) = <<entry[s].value>> \o r /\ Copies(k)' = r
    BY <2>5
  <2>7. entry[s].value \in Values
    BY <2>1, <2>2, ValueIn
  <2>8. Copies(k) # << >> /\ Copies(k)' = Tail(Copies(k))
    BY <2>6, <2>7
  <2>9. [j \in Keys |-> Copies(j)]' = [[j \in Keys |-> Copies(j)] EXCEPT ![k] = Tail(@)]
    BY <2>5, <2>8, StackChanges
  <2>10. QED
    BY <1>1, <2>8, <2>9 DEF Abstract!Delete, Abstract!Answer, Answer
<1>2. CASE ~Found(k) /\ Answer("delete", k, "err_item_not_found", NoValue) /\ UNCHANGED entry
  <2>1. Copies(k) = << >>
    BY <1>2, ChainsReach, NothingListed
  <2>2. UNCHANGED [j \in Keys |-> Copies(j)]
    BY <1>2, SameStacks
  <2>3. QED
    BY <1>2, <2>1, <2>2 DEF Abstract!Delete, Abstract!Miss, Abstract!Answer, Answer
<1>3. QED
  BY <1>1, <1>2 DEF oah_delete

\* A read answers with the top of the stack.
LEMMA GetsAre ==
  ASSUME IInv, NEW k \in Keys, oah_get(k)
  PROVE  Abstract!Get(k)
<1>0. entry \in [Slots -> Bucket] /\ UNCHANGED [j \in Keys |-> Copies(j)]
  BY SameStacks DEF IInv, TypeOK, oah_get
<1>1. ASSUME NEW d \in Slots, FoundAt(k, d), Answer("get", k, "err_ok", entry[Probe(k, d)].value)
      PROVE  Abstract!Get(k)
  <2> DEFINE s == Probe(k, d)
  <2>1. entry[s] \in Bucket /\ Matches(k, s) /\ \A e \in 0 .. (d - 1) : ~Matches(k, Probe(k, e))
    BY <1>0, <1>1, ProbeInRange DEF FoundAt
  <2>2. PICK r \in Seq(Values) : Copies(k) = <<entry[s].value>> \o r
    BY <1>0, <2>1, TopListed
  <2>3. entry[s].value \in Values
    BY <2>1, ValueIn DEF Matches, InUse
  <2>4. Copies(k) # << >> /\ Head(Copies(k)) = entry[s].value
    BY <2>2, <2>3
  <2>5. QED
    BY <1>0, <1>1, <2>4 DEF Abstract!Get, Abstract!Answer, Answer
<1>2. CASE ~Found(k) /\ Answer("get", k, "err_item_not_found", NoValue)
  <2>1. Copies(k) = << >>
    BY <1>2, ChainsReach, NothingListed
  <2>2. QED
    BY <1>0, <1>2, <2>1 DEF Abstract!Get, Abstract!Miss, Abstract!Answer, Answer
<1>3. QED
  BY <1>1, <1>2 DEF oah_get

\* A table of empty buckets has empty stacks.
LEMMA StacksStart ==
  ASSUME Init
  PROVE  Abstract!Init
<1>1. \A k \in Keys, s \in Slots : ~Matches(k, s)
  BY DEF Init, Matches, InUse, Empty
<1>2. \A k \in Keys : Copies(k) = << >>
  BY <1>1, NothingListed
<1>3. QED
  BY <1>2 DEF Init, Abstract!Init

LEMMA ClearsStacks ==
  ASSUME entry' = [s \in Slots |-> Empty], UNCHANGED result
  PROVE  Abstract!Clear
<1>1. ASSUME NEW k \in Keys PROVE Copies(k)' = << >>
  <2>1. PICK c : c = CHOOSE a : IsCopies(a, entry', k)
    OBVIOUS
  <2>2. IsCopies(c, entry', k)
    BY <2>1, CopiesExist
  <2>3. MapSize \in 0 .. MapSize /\ \A e \in 0 .. (MapSize - 1) : ~Holds(entry', k, Probe(k, e))
    BY MapSizeAssumption, ProbeInRange DEF Slots, Holds, Empty
  <2>4. c[0] = c[MapSize]
    BY <2>2, <2>3, CopiesSkip
  <2>5. c[MapSize] = << >>
    BY <2>2, CopiesStep
  <2>6. QED
    BY <2>1, <2>4, <2>5, CopiesAreNext DEF CopiesIn
<1>2. QED
  BY <1>1 DEF Abstract!Clear

LEMMA StacksStep ==
  ASSUME IInv, [Next]_vars
  PROVE  [Abstract!Next]_(Abstract!vars)
<1>0. TypeOK
  BY DEF IInv
<1>1. ASSUME NEW k \in Keys, NEW v \in Values, oadict_insert(k, v) PROVE Abstract!Next
  <2>1. oah_insert("insert", k, v, "wc_insert_unique") /\ "wc_insert_unique" # "wc_update"
    BY <1>1 DEF oadict_insert
  <2>2. \/ Abstract!Push("insert", k, v) \/ Abstract!RefuseFull("insert", k)
        \/ Refused("insert", k)
    BY <1>0, <2>1, InsertsAre
  <2>3. Abstract!Insert(k, v)
    BY <2>2 DEF Abstract!Insert, Refused
  <2>4. QED
    BY <2>3 DEF Abstract!Next
<1>2. ASSUME NEW k \in Keys, NEW v \in Values, oah_update(k, v) PROVE Abstract!Next
  <2>1. oah_insert("update", k, v, "wc_update") /\ "wc_insert_unique" # "wc_update"
    BY <1>2 DEF oah_update
  <2>2. Abstract!Update(k, v)
    BY <1>0, <2>1, InsertsAre DEF Abstract!Update, Replaced
  <2>3. QED
    BY <2>2 DEF Abstract!Next
<1>3. ASSUME NEW k \in Keys, oah_delete(k) PROVE Abstract!Next
  BY <1>3, DeletesAre DEF Abstract!Next
<1>4. ASSUME NEW k \in Keys, oah_get(k) PROVE Abstract!Next
  BY <1>4, GetsAre DEF Abstract!Next
<1>5. CASE UNCHANGED <<entry, result>>
  BY <1>5, SameStacks DEF Abstract!vars
<1>6. CASE oadict_delete_dictionary \/ oadict_create_dictionary
  BY <1>6, ClearsStacks DEF oadict_delete_dictionary, oadict_create_dictionary, Abstract!Next
<1>7. CASE UNCHANGED vars
  BY <1>5, <1>7 DEF vars, mapVars
<1>8. ASSUME NEW pred \in Predicates, oadict_find(pred) PROVE UNCHANGED <<entry, result>>
  BY <1>8 DEF oadict_find, mapVars
<1>9. CASE oadict_next \/ oadict_destroy_cursor
  BY <1>5, <1>9 DEF oadict_next, oadict_destroy_cursor, mapVars
<1>10. QED
  BY <1>1, <1>2, <1>3, <1>4, <1>5, <1>6, <1>7, <1>8, <1>9 DEF Next

\* The hash map implements the stacks: every answer of an insert, an update, a
\* delete and a lookup is the one of a stack of values for each key, although
\* an insert that reuses a tombstone hides the record behind it.
THEOREM StacksImplemented == Spec => ImplementsStacks
<1>1. Init => Abstract!Init
  BY StacksStart
<1>2. IInv /\ [Next]_vars => [Abstract!Next]_(Abstract!vars)
  BY StacksStep
<1>3. QED
  BY <1>1, <1>2, Invariance, PTL DEF Spec, ImplementsStacks, Abstract!Spec

-----------------------------------------------------------------------------
(***************************************************************************)
(* Theorems about the cursors of the open address hash, for any number of  *)
(* buckets, any predicates and any hash function: what is delivered, that  *)
(* no bucket is delivered twice, and that none is left out.                *)
(*                                                                         *)
(* A scan goes forward from a bucket to the place to stop at, so the       *)
(* distance from that place (Place) only grows: this orders the trail of a *)
(* cursor, whatever is written to the map between two calls.               *)
(***************************************************************************)

\* The number of buckets a scan goes from first, with wrap-around, to s.
Place(s, first) == IF s >= first THEN s - first ELSE s - first + MapSize

TrailInOrder ==
  /\ \A i, j \in DOMAIN trail : i < j =>
       Place(trail[i].slot, cursor.first) < Place(trail[j].slot, cursor.first)
  /\ cursor.status = "cs_cursor_active" =>
       /\ trail # << >>
       /\ trail[Len(trail)].slot = cursor.current
  /\ cursor.status \in {"none", "cs_cursor_uninitialized", "cs_cursor_initialized"} =>
       trail = << >>

\* The records a traversal has to deliver.
Due(s) ==
  /\ Satisfies(cursor.pred, entry[s])
  /\ cursor.pred.type = "equality" \/ s # MapSize - 1

\* The buckets a cursor has left behind.
Passed(s) ==
  \/ /\ cursor.status = "cs_cursor_initialized"
     /\ Place(s, cursor.first) < Place(cursor.current, cursor.first)
  \/ /\ cursor.status = "cs_cursor_active"
     /\ Place(s, cursor.first) <= Place(cursor.current, cursor.first)
  \/ cursor.status \in {"cs_cursor_uninitialized", "cs_end_of_results"} /\ Visited(s)

TrailSlots == { trail[i].slot : i \in DOMAIN trail }

\* A cursor on a file gets behind the last bucket only by delivering it: the
\* scans that wrap find nothing.
WrappedOnDue ==
  (OnFile /\ cursor.pred.type = "equality" /\ cursor.status = "cs_cursor_active"
   /\ cursor.current < cursor.first) => Satisfies(cursor.pred, entry[MapSize - 1])

TrailCovers ==
  quiet => TrailSlots = { s \in Slots : Due(s) /\ Passed(s) } /\ WrappedOnDue

OpenedOnDue ==
  /\ (cursor.status # "none" /\ cursor.pred.type # "equality") => cursor.first = MapSize - 1
  /\ (cursor.status = "cs_cursor_initialized" /\ quiet) => Due(cursor.current)
  /\ (cursor.status = "cs_cursor_initialized" /\ cursor.pred.type = "equality") =>
       cursor.current = cursor.first
  /\ (cursor.status \in {"cs_cursor_initialized", "cs_cursor_active"}
      /\ cursor.pred.type # "equality") => cursor.current # MapSize - 1

\* What holds whatever a file scan reads, and does not depend on the chains.
CursorInv == TrailInOrder /\ OpenedOnDue /\ DeliveredSatisfy

-----------------------------------------------------------------------------
(***************************************************************************)
(* Arithmetic of a scan.                                                   *)
(***************************************************************************)

LEMMA PlaceRange ==
  ASSUME NEW first \in Slots, NEW s \in Slots
  PROVE  Place(s, first) \in Slots
  BY MapSizeAssumption DEF Place, Slots

LEMMA PlaceInjective ==
  ASSUME NEW first \in Slots, NEW s \in Slots, NEW t \in Slots,
         Place(s, first) = Place(t, first)
  PROVE  s = t
  BY MapSizeAssumption DEF Place, Slots

\* The bucket after current is the next place, or the scan is at its end.
LEMMA NextPlace ==
  ASSUME NEW first \in Slots, NEW current \in Slots
  PROVE  LET start == Wrap(current + 1) IN
         /\ start \in Slots
         /\ start # first => Place(start, first) = Place(current, first) + 1
         /\ start = first => Place(current, first) = MapSize - 1
  BY MapSizeAssumption DEF Place, Wrap, Slots

\* The buckets of a scan, in order, are the places from its start on.
LEMMA ScanOrder ==
  ASSUME NEW first \in Slots, NEW start \in Slots, NEW j \in 0 .. (Ahead(start, first) - 1)
  PROVE  /\ start # first
         /\ Wrap(start + j) \in Slots
         /\ Place(Wrap(start + j), first) = Place(start, first) + j
<1>1. start \in Nat /\ first \in Nat /\ start < MapSize /\ first < MapSize /\ MapSize \in Nat
  BY MapSizeAssumption DEF Slots
<1>2. Ahead(start, first) \in Nat /\ j \in Nat /\ j < Ahead(start, first)
  BY <1>1 DEF Ahead
<1>3. CASE start < first
  BY <1>1, <1>2, <1>3 DEF Ahead, Place, Wrap, Slots
<1>4. CASE start > first
  <2>1. CASE start + j < MapSize
    BY <1>1, <1>2, <1>4, <2>1 DEF Ahead, Place, Wrap, Slots
  <2>2. CASE start + j >= MapSize
    BY <1>1, <1>2, <1>4, <2>2 DEF Ahead, Place, Wrap, Slots
  <2>3. QED
    BY <1>1, <1>2, <2>1, <2>2
<1>5. CASE start = first
  BY <1>1, <1>2, <1>5 DEF Ahead
<1>6. QED
  BY <1>1, <1>3, <1>4, <1>5

\* Every place from the start of a scan on is one of its buckets.
LEMMA ScanReaches ==
  ASSUME NEW first \in Slots, NEW start \in Slots, start # first, NEW s \in Slots,
         Place(start, first) <= Place(s, first)
  PROVE  LET j == Place(s, first) - Place(start, first) IN
         j \in 0 .. (Ahead(start, first) - 1) /\ Wrap(start + j) = s
  BY MapSizeAssumption DEF Place, Ahead, Wrap, Slots

\* A scan in memory, or one that has not wrapped, reads the bucket it is at.
LEMMA ScanReads ==
  ASSUME NEW start, NEW s, ~OnFile \/ ~(s < start)
  PROVE  ScanItem(start, s) = entry[s]
  BY DEF ScanItem

\* On a file, a scan that has wrapped has the last bucket in the buffer, which
\* it has passed over already: it finds nothing any more.
LEMMA FoundBeforeWrap ==
  ASSUME OnFile, NEW pred, NEW first \in Slots, NEW start \in Slots,
         NEW j \in 0 .. (Ahead(start, first) - 1), ScanHits(pred, start, j)
  PROVE  start + j < MapSize /\ Wrap(start + j) = start + j
<1>1. start \in Nat /\ first \in Nat /\ start < MapSize /\ first < MapSize /\ MapSize \in Nat
  BY MapSizeAssumption DEF Slots
<1>2. Ahead(start, first) \in Nat /\ j \in Nat /\ j < Ahead(start, first)
  BY <1>1 DEF Ahead
<1>3. ASSUME start + j >= MapSize PROVE FALSE
  <2> DEFINE i == MapSize - 1 - start
  <2>1. i \in 0 .. (j - 1) /\ Wrap(start + i) = MapSize - 1 /\ ~(MapSize - 1 < start)
    BY <1>1, <1>2, <1>3 DEF Wrap
  <2>2. ScanItem(start, Wrap(start + i)) = entry[MapSize - 1]
    BY <2>1, ScanReads
  <2>3. Wrap(start + j) < start
    BY <1>1, <1>2, <1>3 DEF Wrap, Ahead
  <2>4. ScanItem(start, Wrap(start + j)) = entry[MapSize - 1]
    BY <2>3 DEF ScanItem
  <2>5. QED
    BY <2>1, <2>2, <2>4 DEF ScanHits
<1>4. QED
  BY <1>1, <1>2, <1>3 DEF Wrap

\* What a scan passes over does not satisfy the predicate.
LEMMA ScanPassesOver ==
  ASSUME NEW pred, NEW first \in Slots, NEW start \in Slots,
         NEW s \in Scan(pred, start, first),
         NEW t \in Slots, Place(start, first) <= Place(t, first),
         Place(t, first) < Place(s, first)
  PROVE  ~Satisfies(pred, entry[t])
<1>1. PICK j \in 0 .. (Ahead(start, first) - 1) :
        ScanHits(pred, start, j) /\ s = Wrap(start + j)
  BY DEF Scan
<1> DEFINE i == Place(t, first) - Place(start, first)
<1>2. start # first /\ Place(s, first) = Place(start, first) + j
  BY <1>1, ScanOrder
<1>3. i \in 0 .. (Ahead(start, first) - 1) /\ Wrap(start + i) = t
  BY <1>2, ScanReaches
<1>4. Place(t, first) \in Nat /\ Place(start, first) \in Nat /\ j \in Nat
  BY <1>1, PlaceRange DEF Slots
<1>5. i \in 0 .. (j - 1)
  BY <1>2, <1>4
<1>6. ~OnFile \/ ~(t < start)
  <2>1. ASSUME OnFile PROVE ~(t < start)
    <3>1. start + j < MapSize
      BY <1>1, <2>1, FoundBeforeWrap
    <3>2. start + i < MapSize /\ start + i >= start /\ start \in Nat /\ i \in Nat
      BY <1>1, <1>5, <3>1, MapSizeAssumption DEF Slots
    <3>3. t = start + i
      BY <1>3, <3>2 DEF Wrap
    <3>4. QED
      BY <3>2, <3>3
  <2>2. QED
    BY <2>1
<1>7. ScanItem(start, Wrap(start + i)) = entry[t]
  BY <1>3, <1>6, ScanReads
<1>8. QED
  BY <1>1, <1>5, <1>7 DEF ScanHits

\* A scan that finds nothing has passed over every place ahead of it, as far
\* as the end of a file.
LEMMA EmptyScan ==
  ASSUME NEW pred, NEW first \in Slots, NEW start \in Slots, start # first,
         Scan(pred, start, first) = {},
         NEW t \in Slots, Place(start, first) <= Place(t, first), ~OnFile \/ ~(t < start)
  PROVE  ~Satisfies(pred, entry[t])
<1> SUFFICES ASSUME Satisfies(pred, entry[t]) PROVE FALSE
  OBVIOUS
<1> DEFINE n == Ahead(start, first)
           D == { j \in Nat : j < n /\ Satisfies(pred, ScanItem(start, Wrap(start + j))) }
           i == Place(t, first) - Place(start, first)
<1>1. i \in 0 .. (n - 1) /\ Wrap(start + i) = t
  BY ScanReaches
<1>2. ScanItem(start, Wrap(start + i)) = entry[t]
  BY <1>1, ScanReads
<1>3. n \in Nat
  BY MapSizeAssumption DEF Ahead, Slots
<1>4. i \in D /\ D \in SUBSET Nat
  BY <1>1, <1>2, <1>3
<1>5. PICK j \in D : \A f \in D : j <= f
  BY <1>4, LeastNatural
<1>6. j \in 0 .. (n - 1) /\ Satisfies(pred, ScanItem(start, Wrap(start + j)))
  BY <1>3, <1>5
<1>7. \A f \in 0 .. (j - 1) : f \in Nat /\ f < n /\ f < j
  BY <1>3, <1>6
<1>8. \A f \in 0 .. (j - 1) : ~Satisfies(pred, ScanItem(start, Wrap(start + f)))
  BY <1>5, <1>7
<1>9. ScanHits(pred, start, j)
  BY <1>6, <1>8 DEF ScanHits
<1>10. Wrap(start + j) \in Scan(pred, start, first)
  BY <1>6, <1>9 DEF Scan
<1>11. QED
  BY <1>10

-----------------------------------------------------------------------------
(***************************************************************************)
(* The cursor's invariants, call by call.                                  *)
(***************************************************************************)

\* A call that leaves the cursor alone: either the cursor is no longer quiet
\* or no bucket has changed, unless there is no cursor.
LEMMA OtherCallKeepsCursor ==
  ASSUME CursorInv, UNCHANGED <<cursor, trail>>,
         quiet' => quiet /\ (UNCHANGED entry \/ cursor.status = "none")
  PROVE  CursorInv' /\ (TrailCovers => TrailCovers')
<1>1. TrailInOrder'
  BY DEF CursorInv, TrailInOrder, Place
<1>2. OpenedOnDue'
  BY DEF CursorInv, OpenedOnDue, Due, Satisfies
<1>3. DeliveredSatisfy'
  BY DEF CursorInv, DeliveredSatisfy
<1>4. ASSUME TrailCovers PROVE TrailCovers'
  <2>1. CASE quiet' /\ UNCHANGED entry
    BY <1>4, <2>1 DEF TrailCovers, TrailSlots, Due, Passed, Visited, WrappedOnDue, Satisfies, Place
  <2>2. CASE quiet' /\ cursor.status = "none"
    <3>1. trail' = << >>
      BY <2>2 DEF CursorInv, TrailInOrder
    <3>2. (\A s \in Slots : ~Passed(s)') /\ WrappedOnDue'
      BY <2>2 DEF Passed, WrappedOnDue
    <3>3. QED
      BY <3>1, <3>2 DEF TrailCovers, TrailSlots
  <2>3. QED
    BY <2>1, <2>2 DEF TrailCovers
<1>5. QED
  BY <1>1, <1>2, <1>3, <1>4 DEF CursorInv

\* Without a cursor nothing has been delivered and nothing is passed.
LEMMA NoCursorCovers ==
  ASSUME CursorInv, cursor.status = "none"
  PROVE  TrailCovers
<1>1. trail = << >>
  BY DEF CursorInv, TrailInOrder
<1>2. (\A s \in Slots : ~Passed(s)) /\ WrappedOnDue
  BY DEF Passed, WrappedOnDue
<1>3. QED
  BY <1>1, <1>2 DEF TrailCovers, TrailSlots

\* A cursor has just been opened, or closed.
LEMMA NoTrailYet ==
  ASSUME trail' = << >>, (cursor.status # "cs_cursor_active")', OpenedOnDue'
  PROVE  CursorInv'
<1>1. DOMAIN trail' = {}
  OBVIOUS
<1>2. TrailInOrder'
  BY <1>1 DEF TrailInOrder
<1>3. DeliveredSatisfy'
  BY <1>1 DEF DeliveredSatisfy
<1>4. QED
  BY <1>2, <1>3 DEF CursorInv

LEMMA FindCursor ==
  ASSUME TypeOK, NEW pred \in Predicates, oadict_find(pred)
  PROVE  CursorInv'
<1> USE DEF oadict_find, mapVars
<1>1. CASE \E d \in Slots :
             /\ FoundAt(pred.lower, d) /\ pred.type = "equality"
             /\ OpenCursor("cs_cursor_initialized", pred,
                           Probe(pred.lower, d), Probe(pred.lower, d))
  <2>1. OpenedOnDue'
    BY <1>1 DEF OpenedOnDue, OpenCursor, FoundAt, Matches, InUse, Due, Satisfies, test_predicate
  <2>2. QED
    BY <1>1, <2>1, NoTrailYet DEF OpenCursor
<1>2. CASE OpenCursor("cs_end_of_results", pred, 0, 0) /\ pred.type = "equality"
  <2>1. OpenedOnDue'
    BY <1>2 DEF OpenedOnDue, OpenCursor
  <2>2. QED
    BY <1>2, <2>1, NoTrailYet DEF OpenCursor
<1>3. CASE \E s \in Scan(pred, 0, MapSize - 1) :
             OpenCursor("cs_cursor_initialized", pred, MapSize - 1, s)
  <2>1. PICK s \in Scan(pred, 0, MapSize - 1) :
             OpenCursor("cs_cursor_initialized", pred, MapSize - 1, s)
    BY <1>3
  <2>2. 0 \in Slots /\ MapSize - 1 \in Slots
    BY MapSizeAssumption DEF Slots
  <2>3. Satisfies(pred, entry[s])
    BY <2>2, ScanHitsRecord
  <2>4. s # MapSize - 1
    BY <2>2, MapSizeAssumption DEF Scan, Ahead, Wrap, Slots
  <2>5. OpenedOnDue'
    BY <2>1, <2>3, <2>4 DEF OpenedOnDue, OpenCursor, Due, Satisfies
  <2>6. QED
    BY <2>1, <2>5, NoTrailYet DEF OpenCursor
<1>4. CASE OpenCursor(EmptyScanStatus, pred, MapSize - 1, -1)
  <2>1. OpenedOnDue'
    BY <1>4 DEF OpenedOnDue, OpenCursor, EmptyScanStatus
  <2>2. QED
    BY <1>4, <2>1, NoTrailYet DEF OpenCursor, EmptyScanStatus
<1>5. QED
  BY <1>1, <1>2, <1>3, <1>4

\* Nothing has been delivered, and nothing behind the bucket the cursor was
\* opened on is due: all the buckets behind it were passed over.
LEMMA FindCovers ==
  ASSUME TypeOK, LookupComplete, NEW pred \in Predicates, oadict_find(pred)
  PROVE  TrailCovers'
<1> USE DEF oadict_find, mapVars
<1>1. pred.type = "equality" => pred.lower \in Keys
  BY PredicatesAssumption
<1>2. 0 \in Slots /\ MapSize - 1 \in Slots /\ MapSize \in Nat
  BY MapSizeAssumption DEF Slots
<1>3. trail' = << >> /\ TrailSlots' = {}
  BY DEF TrailSlots
<1>9. WrappedOnDue'
  BY DEF WrappedOnDue, OpenCursor, EmptyScanStatus
<1> SUFFICES ASSUME NEW s \in Slots, Due(s)', Passed(s)'
             PROVE  FALSE
  BY <1>3, <1>9 DEF TrailCovers
<1>4. /\ cursor'.pred = pred
      /\ Satisfies(pred, entry[s])
      /\ pred.type = "equality" \/ s # MapSize - 1
  BY DEF Due, Satisfies, OpenCursor
<1>5. CASE \E d \in Slots :
             OpenCursor("cs_cursor_initialized", pred, Probe(pred.lower, d), Probe(pred.lower, d))
           /\ pred.type = "equality"
  <2>1. PICK d \in Slots :
          OpenCursor("cs_cursor_initialized", pred, Probe(pred.lower, d), Probe(pred.lower, d))
    BY <1>5
  <2> DEFINE f == Probe(pred.lower, d)
  <2>2. f \in Slots
    BY <1>1, <1>5, ProbeInRange
  <2>3. Place(s, f) < Place(f, f)
    BY <2>1 DEF Passed, OpenCursor, Place
  <2>4. QED
    BY <1>2, <2>2, <2>3 DEF Place, Slots
<1>6. CASE ~Found(pred.lower) /\ pred.type = "equality"
  BY <1>1, <1>4, <1>6 DEF LookupComplete, Matches, InUse, Satisfies, test_predicate
<1>7. CASE pred.type # "equality"
  <2> DEFINE last == MapSize - 1
  <2>1. Place(s, last) >= Place(0, last) /\ Place(0, last) = 1 /\ 0 # last
    BY <1>2, <1>4, <1>7 DEF Place, Slots
  <2>2. CASE \E t \in Scan(pred, 0, last) :
               OpenCursor("cs_cursor_initialized", pred, last, t)
    <3>1. PICK t \in Scan(pred, 0, last) :
               OpenCursor("cs_cursor_initialized", pred, last, t)
      BY <2>2
    <3>2. Place(s, last) < Place(t, last)
      BY <3>1 DEF Passed, OpenCursor, Place
    <3>3. QED
      BY <1>2, <1>4, <2>1, <3>2, ScanPassesOver
  <2>3. CASE Scan(pred, 0, last) = {}
    <3>1. ~(s < 0)
      BY MapSizeAssumption DEF Slots
    <3>2. 0 \in Slots /\ last \in Slots /\ Place(0, last) <= Place(s, last)
      BY <1>2, <2>1 DEF Place, Slots
    <3>3. ~Satisfies(pred, entry[s])
      BY <2>1, <2>3, <3>1, <3>2, EmptyScan
    <3>4. QED
      BY <1>4, <3>3
  <2>4. QED
    BY <1>7, <2>2, <2>3
<1>8. QED
  BY <1>5, <1>6, <1>7

LEMMA DestroyCursor ==
  ASSUME oadict_destroy_cursor
  PROVE  CursorInv' /\ TrailCovers'
<1> USE DEF oadict_destroy_cursor, NoCursor
<1>1. OpenedOnDue'
  BY DEF OpenedOnDue
<1>2. CursorInv'
  BY <1>1, NoTrailYet
<1>3. (\A s \in Slots : ~Passed(s)') /\ WrappedOnDue'
  BY DEF Passed, WrappedOnDue
<1>4. TrailCovers'
  BY <1>3 DEF TrailCovers, TrailSlots
<1>5. QED
  BY <1>2, <1>4

\* A record is delivered: it is the only one so far, or it is ahead of the
\* last one.
LEMMA DeliverOrder ==
  ASSUME TypeOK, CursorInv, NEW s \in Slots, Deliver(s),
         trail = << >> \/ /\ cursor.status = "cs_cursor_active"
                          /\ Place(cursor.current, cursor.first) < Place(s, cursor.first)
  PROVE  TrailInOrder'
<1> DEFINE r == [slot |-> s, status |-> entry[s].status, key |-> entry[s].key]
           n == Len(trail)
           f == cursor.first
<1>1. /\ trail \in Seq([slot: Slots, status: {"in_use", "deleted"}, key: Keys])
      /\ n \in Nat /\ f \in Slots
  BY DEF TypeOK
<1>2. /\ trail' = Append(trail, r)
      /\ cursor'.status = "cs_cursor_active" /\ cursor'.current = s /\ cursor'.first = f
  BY DEF Deliver, TypeOK
<1>3. /\ Len(trail') = n + 1 /\ trail'[n + 1] = r
      /\ DOMAIN trail' = 1 .. (n + 1) /\ DOMAIN trail = 1 .. n
      /\ \A i \in 1 .. n : trail'[i] = trail[i]
  BY <1>1, <1>2
<1>4. \A i \in 1 .. n : trail[i].slot \in Slots
  <2> SUFFICES ASSUME NEW i \in 1 .. n PROVE trail[i].slot \in Slots
    OBVIOUS
  <2>1. trail[i] \in [slot: Slots, status: {"in_use", "deleted"}, key: Keys]
    BY <1>1, SequenceElement
  <2>2. QED
    BY <2>1
<1>5. trail' # << >> /\ trail'[Len(trail')].slot = s
  BY <1>1, <1>3
<1>6. ASSUME NEW i \in 1 .. n
      PROVE  Place(trail[i].slot, f) < Place(s, f)
  <2>1. /\ trail # << >> /\ n \in 1 .. n
        /\ cursor.status = "cs_cursor_active"
        /\ Place(cursor.current, f) < Place(s, f)
    BY <1>1, <1>6
  <2>2. trail[n].slot = cursor.current
    BY <2>1 DEF CursorInv, TrailInOrder
  <2>3. i < n => Place(trail[i].slot, f) < Place(trail[n].slot, f)
    BY <1>3, <2>1 DEF CursorInv, TrailInOrder
  <2>4. /\ Place(trail[i].slot, f) \in Slots /\ Place(trail[n].slot, f) \in Slots
        /\ Place(s, f) \in Slots
    BY <1>1, <1>4, <2>1, PlaceRange
  <2>5. QED
    BY <1>1, <2>1, <2>2, <2>3, <2>4 DEF Slots
<1>7. ASSUME NEW i \in DOMAIN trail', NEW j \in DOMAIN trail', i < j
      PROVE  Place(trail'[i].slot, f) < Place(trail'[j].slot, f)
  <2>1. i \in 1 .. n
    BY <1>1, <1>3, <1>7
  <2>2. CASE j = n + 1
    BY <1>3, <1>6, <2>1, <2>2
  <2>3. CASE j \in 1 .. n
    BY <1>3, <1>7, <2>1, <2>3 DEF CursorInv, TrailInOrder
  <2>4. QED
    BY <1>1, <1>3, <2>2, <2>3
<1>8. QED
  BY <1>2, <1>5, <1>7 DEF TrailInOrder, Place

LEMMA DeliverSatisfies ==
  ASSUME TypeOK, CursorInv, NEW s \in Slots, Deliver(s), UNCHANGED quiet,
         Satisfies(cursor.pred, entry[s]) \/ (trail = << >> /\ ~quiet)
  PROVE  DeliveredSatisfy'
<1> DEFINE r == [slot |-> s, status |-> entry[s].status, key |-> entry[s].key]
           n == Len(trail)
<1>1. /\ trail \in Seq([slot: Slots, status: {"in_use", "deleted"}, key: Keys])
      /\ n \in Nat
  BY DEF TypeOK
<1>2. trail' = Append(trail, r) /\ cursor'.pred = cursor.pred
  BY DEF Deliver, TypeOK
<1>3. /\ trail'[n + 1] = r
      /\ DOMAIN trail' = 1 .. (n + 1) /\ DOMAIN trail = 1 .. n
      /\ \A i \in 1 .. n : trail'[i] = trail[i]
  BY <1>1, <1>2
<1> SUFFICES ASSUME NEW i \in DOMAIN trail', i > 1 \/ quiet
             PROVE  trail'[i].status = "in_use" /\ test_predicate(cursor.pred, trail'[i].key)
  BY <1>2 DEF DeliveredSatisfy
<1>4. CASE i \in 1 .. n
  BY <1>3, <1>4 DEF CursorInv, DeliveredSatisfy
<1>5. CASE i = n + 1
  <2>1. Satisfies(cursor.pred, entry[s])
    BY <1>1, <1>5
  <2>2. QED
    BY <1>3, <1>5, <2>1 DEF Satisfies
<1>6. QED
  BY <1>1, <1>3, <1>4, <1>5

\* The trail grows by the bucket that is delivered.
LEMMA DeliverGrowsTrail ==
  ASSUME TypeOK, NEW s \in Slots, Deliver(s)
  PROVE  TrailSlots' = TrailSlots \cup {s}
<1> DEFINE r == [slot |-> s, status |-> entry[s].status, key |-> entry[s].key]
           n == Len(trail)
<1>1. /\ trail \in Seq([slot: Slots, status: {"in_use", "deleted"}, key: Keys])
      /\ n \in Nat
  BY DEF TypeOK
<1>2. trail' = Append(trail, r)
  BY DEF Deliver
<1>3. /\ trail'[n + 1] = r
      /\ DOMAIN trail' = 1 .. (n + 1) /\ DOMAIN trail = 1 .. n
      /\ \A i \in 1 .. n : trail'[i] = trail[i]
  BY <1>1, <1>2
<1>4. DOMAIN trail' = DOMAIN trail \cup {n + 1} /\ r.slot = s
  BY <1>1, <1>3
<1>5. QED
  BY <1>3, <1>4 DEF TrailSlots

\* The first call of next delivers the bucket the cursor was opened on.
LEMMA FirstDelivery ==
  ASSUME TypeOK, CursorOnRecord, CursorInv, cursor.status = "cs_cursor_initialized",
         Deliver(cursor.current), UNCHANGED <<mapVars, quiet>>
  PROVE  CursorInv' /\ (TrailCovers => TrailCovers')
<1> USE DEF mapVars
<1>1. PICK s \in Slots : s = cursor.current
  BY DEF CursorOnRecord
<1>2. cursor.first \in Slots /\ trail = << >> /\ Deliver(s)
  BY <1>1 DEF CursorInv, TrailInOrder, TypeOK
<1>3. cursor' = [cursor EXCEPT !.status = "cs_cursor_active", !.current = s]
  BY <1>2 DEF Deliver
<1>4. /\ cursor'.status = "cs_cursor_active" /\ cursor'.current = s
      /\ cursor'.pred = cursor.pred /\ cursor'.first = cursor.first
  BY <1>3 DEF TypeOK
<1>5. TrailInOrder'
  BY <1>2, DeliverOrder
<1>6. quiet => Due(s)
  BY <1>1 DEF CursorInv, OpenedOnDue
<1>7. DeliveredSatisfy'
  BY <1>6, <1>2, DeliverSatisfies DEF Due
<1>8. OpenedOnDue'
  BY <1>1, <1>4 DEF CursorInv, OpenedOnDue
<1>9. ASSUME TrailCovers, quiet PROVE TrailSlots' = { t \in Slots : Due(t)' /\ Passed(t)' }
  <2>1. TrailSlots' = {s}
    BY <1>2, DeliverGrowsTrail DEF TrailSlots
  <2>2. \A t \in Slots : ~(Due(t) /\ Place(t, cursor.first) < Place(s, cursor.first))
    BY <1>1, <1>4, <1>9, <1>2 DEF TrailCovers, TrailSlots, Passed
  <2>3. \A t \in Slots : Due(t)' <=> Due(t)
    BY <1>4 DEF Due, Satisfies
  <2>4. \A t \in Slots : Passed(t)' <=> Place(t, cursor.first) <= Place(s, cursor.first)
    BY <1>1, <1>4 DEF Passed, Place
  <2>5. \A t \in Slots : Place(t, cursor.first) \in Slots
    BY <1>2, PlaceRange
  <2>6. ASSUME NEW t \in Slots, Due(t)', Passed(t)' PROVE t = s
    <3>1. ~(Place(t, cursor.first) < Place(s, cursor.first))
      BY <2>2, <2>3, <2>6
    <3>2. Place(t, cursor.first) <= Place(s, cursor.first)
      BY <2>4, <2>6
    <3>3. Place(t, cursor.first) = Place(s, cursor.first)
      BY <1>1, <2>5, <3>1, <3>2 DEF Slots
    <3>4. QED
      BY <1>2, <3>3, PlaceInjective
  <2>7. Due(s)' /\ Passed(s)'
    BY <1>1, <1>6, <1>9, <2>3, <2>4, <2>5 DEF Slots
  <2>8. QED
    BY <1>1, <2>1, <2>6, <2>7
<1>10. WrappedOnDue'
  BY <1>1, <1>2, <1>4 DEF CursorInv, OpenedOnDue, WrappedOnDue, Slots
<1>11. TrailCovers => TrailCovers'
  BY <1>9, <1>10 DEF TrailCovers
<1>12. QED
  BY <1>5, <1>7, <1>8, <1>11 DEF CursorInv

\* A later call of next delivers the next record that satisfies the predicate.
LEMMA LaterDelivery ==
  ASSUME TypeOK, CursorOnRecord, CursorInv, cursor.status = "cs_cursor_active",
         NEW s \in Scan(cursor.pred, ScanStart, cursor.first),
         Deliver(s), UNCHANGED <<mapVars, quiet>>
  PROVE  CursorInv' /\ (TrailCovers => TrailCovers')
<1> DEFINE c == cursor.current
           f == cursor.first
<1> USE DEF mapVars
<1>1. c \in Slots /\ f \in Slots
  BY DEF CursorOnRecord, TypeOK
<1>2. ScanStart \in Slots /\ (ScanStart # f => Place(ScanStart, f) = Place(c, f) + 1)
  BY <1>1, NextPlace DEF ScanStart
<1>3. s \in Slots /\ Satisfies(cursor.pred, entry[s])
  BY <1>1, <1>2, ScanHitsRecord
<1>4. PICK j \in 0 .. (Ahead(ScanStart, f) - 1) : s = Wrap(ScanStart + j)
  BY DEF Scan
<1>5. ScanStart # f /\ Place(s, f) = Place(ScanStart, f) + j
  BY <1>1, <1>2, <1>4, ScanOrder
<1>6. \A t \in Slots : Place(t, f) \in Slots
  BY <1>1, PlaceRange
<1>7. Place(c, f) < Place(s, f)
  BY <1>1, <1>2, <1>4, <1>5, <1>6 DEF Slots
<1>8. s # f
  BY <1>1, <1>6, <1>7, MapSizeAssumption DEF Place, Slots
<1>9. /\ cursor'.status = "cs_cursor_active" /\ cursor'.current = s
      /\ cursor'.pred = cursor.pred /\ cursor'.first = f
  BY DEF Deliver, TypeOK
<1>10. TrailInOrder'
  BY <1>3, <1>7, DeliverOrder
<1>11. DeliveredSatisfy'
  BY <1>3, DeliverSatisfies
<1>12. cursor.pred.type # "equality" => f = MapSize - 1
  BY DEF CursorInv, OpenedOnDue
<1>13. OpenedOnDue'
  BY <1>8, <1>9, <1>12 DEF OpenedOnDue
<1>14. ASSUME TrailCovers, quiet PROVE TrailSlots' = { t \in Slots : Due(t)' /\ Passed(t)' }
  <2>1. TrailSlots' = TrailSlots \cup {s}
    BY <1>3, DeliverGrowsTrail
  <2>3. \A t \in Slots : Passed(t) <=> Place(t, f) <= Place(c, f)
    BY DEF Passed
  <2>4. TrailSlots = { t \in Slots : Due(t) /\ Place(t, f) <= Place(c, f) }
    BY <1>14, <2>3 DEF TrailCovers
  <2>5. \A t \in Slots : Due(t)' <=> Due(t)
    BY <1>9 DEF Due, Satisfies
  <2>6. \A t \in Slots : Passed(t)' <=> Place(t, f) <= Place(s, f)
    BY <1>9 DEF Passed, Place
  <2>7. Due(s)
    BY <1>3, <1>8, <1>12 DEF Due
  <2>8. ASSUME NEW t \in Slots, Due(t), Place(t, f) <= Place(s, f), ~(Place(t, f) <= Place(c, f))
        PROVE  t = s
    <3>1. ~(Place(t, f) < Place(s, f))
      <4>1. ASSUME Place(t, f) < Place(s, f) PROVE FALSE
        <5>1. Place(ScanStart, f) <= Place(t, f)
          BY <1>1, <1>2, <1>5, <1>6, <2>8 DEF Slots
        <5>2. ~Satisfies(cursor.pred, entry[t])
          BY <1>1, <1>2, <4>1, <5>1, ScanPassesOver
        <5>3. QED
          BY <2>8, <5>2 DEF Due
      <4>2. QED
        BY <4>1
    <3>2. Place(t, f) = Place(s, f)
      BY <1>3, <1>6, <2>8, <3>1 DEF Slots
    <3>3. QED
      BY <1>1, <1>3, <3>2, PlaceInjective
  <2>9. \A t \in Slots : Place(t, f) <= Place(c, f) => Place(t, f) <= Place(s, f)
    BY <1>1, <1>3, <1>6, <1>7 DEF Slots
  <2>10. Place(s, f) <= Place(s, f)
    BY <1>3, <1>6 DEF Slots
  <2>11. QED
    BY <1>3, <2>1, <2>4, <2>5, <2>6, <2>7, <2>8, <2>9, <2>10
<1>15. ASSUME TrailCovers, quiet PROVE WrappedOnDue'
  <2> SUFFICES ASSUME OnFile, cursor.pred.type = "equality", s < f
               PROVE  Satisfies(cursor.pred, entry[MapSize - 1])
    BY <1>9 DEF WrappedOnDue, Satisfies
  <2>1. CASE c < f
    BY <1>15, <2>1 DEF TrailCovers, WrappedOnDue
  <2>2. CASE ~(c < f)
    <3>1. PICK i \in 0 .. (Ahead(ScanStart, f) - 1) :
            ScanHits(cursor.pred, ScanStart, i) /\ s = Wrap(ScanStart + i)
      BY DEF Scan
    <3>2. s = ScanStart + i
      BY <1>1, <1>2, <3>1, FoundBeforeWrap
    <3>3. c = MapSize - 1
      <4>1. i >= 0 /\ i \in Int /\ s = Wrap(c + 1) + i
        BY <3>1, <3>2 DEF ScanStart
      <4>2. c \in Int /\ f \in Int /\ c < MapSize /\ MapSize \in Int
        BY <1>1, MapSizeAssumption DEF Slots
      <4>3. ~(c + 1 < MapSize)
        BY <2>2, <4>1, <4>2 DEF Wrap
      <4>4. QED
        BY <4>2, <4>3
    <3>4. c \in TrailSlots
      <4>1. /\ trail # << >> /\ trail[Len(trail)].slot = c
            /\ trail \in Seq([slot: Slots, status: {"in_use", "deleted"}, key: Keys])
        BY DEF CursorInv, TrailInOrder, TypeOK
      <4>2. Len(trail) \in DOMAIN trail
        BY <4>1
      <4>3. QED
        BY <4>1, <4>2 DEF TrailSlots
    <3>5. Due(c)
      BY <1>15, <3>4 DEF TrailCovers
    <3>6. QED
      BY <3>3, <3>5 DEF Due
  <2>3. QED
    BY <2>1, <2>2
<1>16. TrailCovers => TrailCovers'
  BY <1>14, <1>15 DEF TrailCovers
<1>17. QED
  BY <1>10, <1>11, <1>13, <1>16 DEF CursorInv

\* A scan that finds nothing ends the traversal: nothing is left ahead.
LEMMA EndOfScan ==
  ASSUME TypeOK, CursorOnRecord, CursorInv, cursor.status = "cs_cursor_active",
         Scan(cursor.pred, ScanStart, cursor.first) = {},
         cursor' = [cursor EXCEPT !.status = "cs_end_of_results"],
         UNCHANGED <<mapVars, quiet, trail>>
  PROVE  CursorInv' /\ (TrailCovers => TrailCovers')
<1> DEFINE c == cursor.current
           f == cursor.first
<1> USE DEF mapVars
<1>1. c \in Slots /\ f \in Slots
  BY DEF CursorOnRecord, TypeOK
<1>2. /\ cursor'.status = "cs_end_of_results"
      /\ cursor'.pred = cursor.pred /\ cursor'.first = f
  BY DEF TypeOK
<1>3. TrailInOrder' /\ DeliveredSatisfy'
  BY <1>2 DEF CursorInv, TrailInOrder, DeliveredSatisfy, Place
<1>4. OpenedOnDue'
  BY <1>2 DEF CursorInv, OpenedOnDue
<1>5. ASSUME TrailCovers, quiet PROVE TrailSlots' = { t \in Slots : Due(t)' /\ Passed(t)' }
  <2>1. /\ TrailSlots = { t \in Slots : Due(t) /\ Place(t, f) <= Place(c, f) }
        /\ WrappedOnDue
    BY <1>5 DEF TrailCovers, Passed
  <2>2. cursor.pred.type # "equality" => f = MapSize - 1
    BY DEF CursorInv, OpenedOnDue
  <2>3. /\ ScanStart \in Slots
        /\ ScanStart # f => Place(ScanStart, f) = Place(c, f) + 1
        /\ ScanStart = f => Place(c, f) = MapSize - 1
    BY <1>1, NextPlace DEF ScanStart
  <2>4. ASSUME NEW t \in Slots, Due(t), ~(Place(t, f) <= Place(c, f))
        PROVE  OnFile /\ t < ScanStart /\ ScanStart # f
    <3>1. Place(t, f) \in Slots /\ Place(c, f) \in Slots
      BY <1>1, PlaceRange
    <3>2. ScanStart # f /\ Place(ScanStart, f) <= Place(t, f)
      BY <2>3, <2>4, <3>1, MapSizeAssumption DEF Slots
    <3>3. QED
      BY <1>1, <2>3, <2>4, <3>2, EmptyScan DEF Due
  <2>5. ASSUME NEW t \in Slots, Due(t), Place(t, f) <= Place(c, f) PROVE Visited(t)
    <3> SUFFICES ASSUME cursor.pred.type = "equality", OnFile, t < f
                 PROVE  Satisfies(cursor.pred, entry[MapSize - 1])
      BY <1>1, <2>5 DEF Visited, Due, Slots
    <3>1. c < f
      BY <1>1, <2>5, MapSizeAssumption DEF Place, Slots
    <3>2. QED
      BY <2>1, <3>1 DEF WrappedOnDue
  <2>6. ASSUME NEW t \in Slots, Due(t), Visited(t) PROVE Place(t, f) <= Place(c, f)
    <3> SUFFICES ASSUME ~(Place(t, f) <= Place(c, f)) PROVE FALSE
      OBVIOUS
    <3>1. OnFile /\ t < ScanStart /\ ScanStart # f
      BY <2>4, <2>6
    <3>2. cursor.pred.type = "equality" /\ t < f /\ c >= f /\ ScanStart = c + 1
      BY <1>1, <2>2, <2>3, <2>6, <3>1, MapSizeAssumption DEF Place, ScanStart, Wrap, Slots
    <3>3. ~Satisfies(cursor.pred, entry[MapSize - 1])
      <4>1. /\ MapSize - 1 \in Slots /\ ~(MapSize - 1 < ScanStart)
            /\ Place(ScanStart, f) <= Place(MapSize - 1, f)
        BY <1>1, <2>3, <3>2, MapSizeAssumption DEF Place, Slots
      <4>2. QED
        BY <1>1, <2>3, <3>1, <4>1, EmptyScan
    <3>4. QED
      BY <1>1, <2>6, <3>1, <3>2, <3>3 DEF Visited, Slots
  <2>7. \A t \in Slots : (Passed(t)' <=> Visited(t)) /\ (Due(t)' <=> Due(t))
    BY <1>2 DEF Passed, Due, Satisfies, Visited
  <2>8. TrailSlots' = TrailSlots
    BY DEF TrailSlots
  <2>9. QED
    BY <2>1, <2>5, <2>6, <2>7, <2>8
<1>6. WrappedOnDue'
  BY <1>2 DEF WrappedOnDue
<1>7. TrailCovers => TrailCovers'
  BY <1>5, <1>6 DEF TrailCovers
<1>8. QED
  BY <1>3, <1>4, <1>7 DEF CursorInv

LEMMA NextCursor ==
  ASSUME TypeOK, CursorOnRecord, CursorInv, oadict_next
  PROVE  CursorInv' /\ (TrailCovers => TrailCovers')
<1>1. CASE cursor.status = "cs_cursor_initialized" /\ Deliver(cursor.current)
  BY <1>1, FirstDelivery DEF oadict_next
<1>2. CASE /\ cursor.status = "cs_cursor_active"
           /\ \E s \in Scan(cursor.pred, ScanStart, cursor.first) : Deliver(s)
  BY <1>2, LaterDelivery DEF oadict_next
<1>3. CASE /\ cursor.status = "cs_cursor_active"
           /\ Scan(cursor.pred, ScanStart, cursor.first) = {}
           /\ cursor' = [cursor EXCEPT !.status = "cs_end_of_results"]
           /\ UNCHANGED trail
  BY <1>3, EndOfScan DEF oadict_next
<1>4. QED
  BY <1>1, <1>2, <1>3 DEF oadict_next

-----------------------------------------------------------------------------
(***************************************************************************)
(* The theorems.                                                           *)
(***************************************************************************)

LEMMA InitCursor == Init => CursorInv /\ TrailCovers
<1> SUFFICES ASSUME Init PROVE CursorInv /\ TrailCovers
  OBVIOUS
<1> USE DEF Init, NoCursor
<1>1. CursorInv
  BY DEF CursorInv, TrailInOrder, OpenedOnDue, DeliveredSatisfy
<1>2. (\A s \in Slots : ~Passed(s)) /\ WrappedOnDue
  BY DEF Passed, WrappedOnDue
<1>3. TrailCovers
  BY <1>2 DEF TrailCovers, TrailSlots
<1>4. QED
  BY <1>1, <1>3

LEMMA StepKeepsCursor ==
  IInv /\ CursorInv /\ TrailCovers /\ [Next]_vars => CursorInv' /\ TrailCovers'
<1> SUFFICES ASSUME IInv, CursorInv, TrailCovers, [Next]_vars
             PROVE  CursorInv' /\ TrailCovers'
  OBVIOUS
<1>1. TypeOK /\ CursorOnRecord /\ LookupComplete
  BY LookupFollows DEF IInv
<1>2. ASSUME UNCHANGED <<cursor, trail>>,
             quiet' => quiet /\ (UNCHANGED entry \/ cursor.status = "none")
      PROVE  CursorInv' /\ TrailCovers'
  BY <1>2, OtherCallKeepsCursor
<1>3. CASE NoteWrite
  BY <1>2, <1>3 DEF NoteWrite
<1>4. CASE UNCHANGED <<entry, cursorVars>>
  BY <1>2, <1>4 DEF cursorVars
<1>5. CASE \E pred \in Predicates : oadict_find(pred)
  BY <1>1, <1>5, FindCursor, FindCovers
<1>6. CASE oadict_next
  BY <1>1, <1>6, NextCursor
<1>7. CASE oadict_destroy_cursor
  BY <1>7, DestroyCursor
<1>8. CASE cursor.status = "none" /\ UNCHANGED cursorVars
  BY <1>2, <1>8 DEF cursorVars
<1>9. CASE oadict_create_dictionary
  BY <1>8, <1>9 DEF oadict_create_dictionary, IInv, CursorOnRecord
<1>10. CASE \/ \E k \in Keys, v \in Values : oadict_insert(k, v) \/ oah_update(k, v)
            \/ \E k \in Keys : oah_delete(k)
  BY <1>3, <1>10 DEF oadict_insert, oah_update, oah_insert, oah_delete
<1>11. CASE (\E k \in Keys : oah_get(k)) \/ UNCHANGED vars
  BY <1>4, <1>11 DEF oah_get, vars, mapVars
<1>12. CASE oadict_delete_dictionary
  BY <1>8, <1>12 DEF oadict_delete_dictionary
<1>13. QED
  BY <1>5, <1>6, <1>7, <1>9, <1>10, <1>11, <1>12 DEF Next

THEOREM CursorInvariance == Spec => [](CursorInv /\ TrailCovers)
<1>1. Init => CursorInv /\ TrailCovers
  BY InitCursor
<1>2. IInv /\ (CursorInv /\ TrailCovers) /\ [Next]_vars => (CursorInv /\ TrailCovers)'
  BY StepKeepsCursor
<1>3. QED
  BY <1>1, <1>2, Invariance, PTL DEF Spec

\* An ordered trail has no bucket twice.
LEMMA OrderedOnce ==
  ASSUME TypeOK, CursorInv
  PROVE  NoBucketTwice
<1> SUFFICES ASSUME NEW i \in DOMAIN trail, NEW j \in DOMAIN trail,
                    trail[i].slot = trail[j].slot, i # j
             PROVE  FALSE
  BY DEF NoBucketTwice
<1>1. trail \in Seq([slot: Slots, status: {"in_use", "deleted"}, key: Keys])
  BY DEF TypeOK
<1>2. i \in 1 .. Len(trail) /\ j \in 1 .. Len(trail)
  BY <1>1
<1>3. trail[i].slot \in Slots /\ trail[j].slot \in Slots /\ cursor.first \in Slots
  <2> DEFINE R == [slot: Slots, status: {"in_use", "deleted"}, key: Keys]
  <2>1. trail[i] \in R /\ trail[j] \in R
    <3> HIDE DEF R
    <3>1. trail \in Seq(R)
      BY <1>1 DEF R
    <3>2. QED
      BY <1>2, <3>1, SequenceElement
  <2>2. QED
    BY <2>1 DEF TypeOK
<1>4. ~(Place(trail[i].slot, cursor.first) < Place(trail[j].slot, cursor.first))
      /\ ~(Place(trail[j].slot, cursor.first) < Place(trail[i].slot, cursor.first))
  BY <1>3, PlaceRange DEF Slots
<1>5. i < j \/ j < i
  BY <1>2
<1>6. QED
  BY <1>4, <1>5 DEF CursorInv, TrailInOrder

\* No cursor delivers a bucket twice, whatever is inserted, updated and
\* deleted while it is open: a scan stops before the place it started from.
THEOREM NeverTwice == Spec => []NoBucketTwice
<1>1. TypeOK /\ CursorInv => NoBucketTwice
  BY OrderedOnce
<1>2. QED
  BY <1>1, CursorInvariance, TypeCorrect, PTL

\* What next delivers after the first record satisfies the predicate of the
\* cursor and is in use, on file and in memory; the first record does, too,
\* as long as the map has not changed since find.
THEOREM DeliveriesSatisfy == Spec => []DeliveredSatisfy
<1>1. CursorInv => DeliveredSatisfy
  BY DEF CursorInv
<1>2. QED
  BY <1>1, CursorInvariance, PTL

LEMMA CoverIsComplete ==
  ASSUME TypeOK, CursorInv, TrailCovers
  PROVE  TraversalComplete
<1>1. \A s \in Slots : Visited(s) => cursor.pred.type = "equality" \/ s # MapSize - 1
  BY DEF Visited
<1>2. QED
  BY <1>1 DEF TrailCovers, TraversalComplete, TrailSlots, Due, Passed

\* A traversal of a map that does not change delivers every record that
\* satisfies the predicate in the buckets it gets to: in memory and on a file,
\* for every predicate, and so for scans that wrap and those that do not.
THEOREM TraversalsComplete == Spec => []TraversalComplete
<1>1. TypeOK /\ CursorInv /\ TrailCovers => TraversalComplete
  BY CoverIsComplete
<1>2. QED
  BY <1>1, CursorInvariance, TypeCorrect, PTL

-----------------------------------------------------------------------------
(***************************************************************************)
(* Theorems about the open address hash on a file, for every set of keys   *)
(* and values, table size and hash function: how far the file is behind    *)
(* the stream, and so what a process that stops can lose.                  *)
(*                                                                         *)
(* Neither property is inductive: both follow from how the file and what   *)
(* the callers last saw differ, while the instance is open, after a close  *)
(* and after a crash (FileBehind).  Which records survive a crash follows  *)
(* from the chains of the records outside the torn buckets, which hold of  *)
(* the stream and of the file alike (FileChains).                          *)
(***************************************************************************)

IsBuckets(b) == b = [s \in Slots |-> b[s]]

\* Two tables differ in one bucket at most.
OneApart(a, b) == \E x \in Slots : \A s \in Slots : s = x \/ a[s] = b[s]

FileBehind ==
  /\ IsBuckets(entry)
  /\ disk = NoFile \/ IsBuckets(disk)
  /\ allocated => ~crashed /\ IsBuckets(disk) /\ OneApart(disk, entry)
  /\ ~allocated /\ disk # NoFile => OneApart(disk, entry) /\ (~crashed => disk = entry)

-----------------------------------------------------------------------------
LEMMA ProbedBucket ==
  ASSUME NEW k \in Keys, NEW d \in Slots
  PROVE  Probe(k, d) \in Slots
  BY MapSizeAssumption, HashAssumption DEF Probe, Wrap, Slots

LEMMA SameTables == \A b : OneApart(b, b)
<1>1. 0 \in Slots
  BY MapSizeAssumption DEF Slots
<1>2. QED
  BY <1>1 DEF OneApart

\* A call of the map writes one bucket, or none.
LEMMA WriteOne ==
  ASSUME IsBuckets(entry), NEW s \in Slots, NEW b, Write(s, b)
  PROVE  IsBuckets(entry') /\ OneApart(entry, entry')
<1> DEFINE e == [x \in Slots |-> IF x = s THEN b ELSE entry[x]]
<1>1. entry' = e
  BY DEF Write, IsBuckets
<1>2. \A x \in Slots : x = s \/ e[x] = entry[x]
  OBVIOUS
<1>3. e = [x \in Slots |-> e[x]]
  OBVIOUS
<1> HIDE DEF e
<1>4. QED
  BY <1>1, <1>2, <1>3 DEF IsBuckets, OneApart

LEMMA WriteNone ==
  ASSUME IsBuckets(entry), UNCHANGED entry
  PROVE  IsBuckets(entry') /\ OneApart(entry, entry')
  BY SameTables

LEMMA InsertWritesOne ==
  ASSUME IsBuckets(entry), NEW op, NEW k \in Keys, NEW v, NEW wc, oah_insert(op, k, v, wc)
  PROVE  IsBuckets(entry') /\ OneApart(entry, entry') /\ allocated /\ allocated'
<1>1. allocated /\ allocated'
  BY DEF oah_insert, NoteWrite
<1>2. CASE UNCHANGED entry
  BY <1>1, <1>2, WriteNone
<1>3. CASE \E d \in Slots : \/ Write(Probe(k, d), Record("in_use", k, v))
                             \/ Write(Probe(k, d), [entry[Probe(k, d)] EXCEPT !.value = v])
  BY <1>1, <1>3, ProbedBucket, WriteOne
<1>4. QED
  BY <1>2, <1>3 DEF oah_insert

LEMMA DeleteWritesOne ==
  ASSUME IsBuckets(entry), NEW k \in Keys, oah_delete(k)
  PROVE  IsBuckets(entry') /\ OneApart(entry, entry') /\ allocated /\ allocated'
<1>1. allocated /\ allocated'
  BY DEF oah_delete, NoteWrite
<1>2. CASE UNCHANGED entry
  BY <1>1, <1>2, WriteNone
<1>3. CASE \E d \in Slots : Write(Probe(k, d), [entry[Probe(k, d)] EXCEPT !.status = "deleted"])
  BY <1>1, <1>3, ProbedBucket, WriteOne
<1>4. QED
  BY <1>2, <1>3 DEF oah_delete

-----------------------------------------------------------------------------
LEMMA InitFileBehind == FileInit => FileBehind
<1> SUFFICES ASSUME FileInit PROVE FileBehind
  OBVIOUS
<1>1. IsBuckets(entry)
  <2> DEFINE e == [s \in Slots |-> Empty]
  <2>1. e = [s \in Slots |-> e[s]]
    OBVIOUS
  <2>2. entry = e
    BY DEF FileInit, Init
  <2> HIDE DEF e
  <2>3. QED
    BY <2>1, <2>2 DEF IsBuckets
<1>2. QED
  BY <1>1, SameTables DEF FileInit, Init, FileBehind

\* A call that may write: the file has what was there before it.
LEMMA CallKeepsBehind ==
  ASSUME FileBehind, IsBuckets(entry'), OneApart(entry, entry'), allocated, allocated',
         disk' = entry, UNCHANGED crashed
  PROVE  FileBehind'
  BY DEF FileBehind

LEMMA CrashKeepsBehind ==
  ASSUME FileBehind, Crash
  PROVE  FileBehind'
<1>1. allocated /\ ~allocated' /\ crashed' /\ entry' = entry
  BY DEF Crash
<1>2. PICK image : disk' = [s \in Slots |-> IF s \in Pending THEN image[s] ELSE disk[s]]
  BY DEF Crash
<1> DEFINE e == [s \in Slots |-> IF s \in Pending THEN image[s] ELSE disk[s]]
<1>3. e = [s \in Slots |-> e[s]] /\ \A s \in Slots : s \notin Pending => e[s] = disk[s]
  OBVIOUS
<1>4. disk' = e
  BY <1>2
<1> HIDE DEF e
<1>5. IsBuckets(disk')
  BY <1>3, <1>4 DEF IsBuckets
<1>6. PICK x \in Slots : \A s \in Slots : s = x \/ disk[s] = entry[s]
  BY <1>1 DEF FileBehind, OneApart
<1>7. \A s \in Slots : s = x \/ e[s] = entry[s]
  BY <1>3, <1>6 DEF Pending
<1>8. OneApart(disk', entry')
  BY <1>1, <1>4, <1>7 DEF OneApart
<1>9. QED
  BY <1>1, <1>5, <1>8 DEF FileBehind

LEMMA NextKeepsBehind == FileBehind /\ [FileNext]_allVars => FileBehind'
<1> SUFFICES ASSUME FileBehind, [FileNext]_allVars PROVE FileBehind'
  OBVIOUS
<1>1. IsBuckets(entry) /\ (disk = NoFile \/ IsBuckets(disk))
  BY DEF FileBehind
<1>2. ASSUME NEW k \in Keys, NEW v \in Values, oafh_insert(k, v) \/ oafh_update(k, v)
      PROVE  FileBehind'
  BY <1>1, <1>2, InsertWritesOne, CallKeepsBehind
  DEF oafh_insert, oafh_update, oadict_insert, oah_update, Rewrites
<1>3. ASSUME NEW k \in Keys, oafh_delete(k) PROVE FileBehind'
  BY <1>1, <1>3, DeleteWritesOne, CallKeepsBehind DEF oafh_delete, Rewrites
<1>4. ASSUME NEW k \in Keys, oafh_get(k) PROVE FileBehind'
  BY <1>1, <1>4, WriteNone, CallKeepsBehind DEF oafh_get, oah_get, SeekFlushes
<1>5. ASSUME NEW pred \in Predicates, oafdict_find(pred) PROVE FileBehind'
  BY <1>1, <1>5, WriteNone, CallKeepsBehind DEF oafdict_find, oadict_find, SeekFlushes, mapVars
<1>6. CASE oafdict_next
  <2>1. UNCHANGED <<allocated, entry, crashed>> /\ disk' = entry
    BY <1>6 DEF oafdict_next, oadict_next, SeekFlushes, mapVars
  <2>2. QED
    BY <1>1, <2>1, SameTables DEF FileBehind
<1>7. CASE oafdict_destroy_cursor
  BY <1>7 DEF oafdict_destroy_cursor, oadict_destroy_cursor, mapVars, fileVars, FileBehind
<1>8. CASE oafdict_close_dictionary
  BY <1>8, SameTables DEF oafdict_close_dictionary, FileBehind
<1>9. CASE oafdict_create_dictionary
  <2>1. CASE disk # NoFile
    BY <1>9, <2>1, SameTables DEF oafdict_create_dictionary, FileBehind
  <2>2. CASE disk = NoFile
    <3> DEFINE e == [s \in Slots |-> Empty]
    <3>1. e = [s \in Slots |-> e[s]]
      OBVIOUS
    <3>2. allocated' /\ ~crashed' /\ entry' = e /\ disk' = e
      BY <1>9, <2>2 DEF oafdict_create_dictionary
    <3> HIDE DEF e
    <3>3. QED
      BY <3>1, <3>2, SameTables DEF FileBehind, IsBuckets
  <2>3. QED
    BY <2>1, <2>2
<1>10. CASE oafdict_delete_dictionary \/ oafdict_destroy_dictionary
  BY <1>10 DEF oafdict_delete_dictionary, oafdict_destroy_dictionary, vars, mapVars, FileBehind
<1>11. CASE Crash
  BY <1>11, CrashKeepsBehind
<1>12. CASE UNCHANGED allVars
  BY <1>12 DEF allVars, fileVars, vars, mapVars, FileBehind
<1>13. QED
  BY <1>2, <1>3, <1>4, <1>5, <1>6, <1>7, <1>8, <1>9, <1>10, <1>11, <1>12 DEF FileNext

\* The file is one bucket behind what the callers have seen at most, and not
\* at all once the dictionary is closed.
THEOREM FileKeepsUp == FileSpec => []FileBehind
<1>1. QED
  BY InitFileBehind, NextKeepsBehind, PTL DEF FileSpec

-----------------------------------------------------------------------------
LEMMA AtMostOne ==
  ASSUME NEW S, NEW x, S \subseteq {x}
  PROVE  Cardinality(S) <= 1
<1>1. S = {} \/ S = {x}
  OBVIOUS
<1>2. Cardinality({}) = 0 /\ Cardinality({x}) = 1
  BY FS_EmptySet, FS_Singleton
<1>3. QED
  BY <1>1, <1>2

\* At any time the file lacks the write of one call at most.
THEOREM OneWrite == FileSpec => []OneWriteAtRisk
<1>1. ASSUME FileBehind PROVE OneWriteAtRisk
  <2> SUFFICES ASSUME allocated PROVE Cardinality(Pending) <= 1
    BY DEF OneWriteAtRisk
  <2>1. PICK x \in Slots : \A s \in Slots : s = x \/ disk[s] = entry[s]
    BY <1>1 DEF FileBehind, OneApart
  <2>2. Pending \subseteq {x}
    BY <2>1 DEF Pending
  <2>3. QED
    BY <2>2, AtMostOne
<1>2. QED
  BY <1>1, FileKeepsUp, PTL

\* What is opened is what was closed; after a crash it is that but for one
\* bucket.
THEOREM ReopenRestores == FileSpec => OpenRestores
<1> DEFINE changed == { s \in Slots : entry'[s] # entry[s] }
           Restores == (~allocated /\ allocated' /\ disk # NoFile) =>
                         IF crashed THEN Cardinality(changed) <= 1 ELSE changed = {}
<1>1. ASSUME FileBehind, [FileNext]_allVars PROVE Restores
  <2> SUFFICES ASSUME ~allocated, allocated', disk # NoFile
               PROVE  IF crashed THEN Cardinality(changed) <= 1 ELSE changed = {}
    OBVIOUS
  <2>1. entry' = disk
    BY <1>1 DEF FileNext, oafh_insert, oafh_update, oafh_delete, oafh_get, oafdict_find, oafdict_next,
       oafdict_destroy_cursor, oadict_insert, oah_update, oah_insert, oah_delete, oah_get, oadict_find,
       oadict_next, oadict_destroy_cursor, mapVars, oafdict_close_dictionary,
       oafdict_create_dictionary, oafdict_delete_dictionary, oafdict_destroy_dictionary, Crash,
       allVars, vars
  <2>2. CASE ~crashed
    BY <1>1, <2>1, <2>2 DEF FileBehind
  <2>3. CASE crashed
    <3>1. PICK x \in Slots : \A s \in Slots : s = x \/ disk[s] = entry[s]
      BY <1>1 DEF FileBehind, OneApart
    <3>2. changed \subseteq {x}
      BY <2>1, <3>1
    <3> HIDE DEF changed
    <3>3. QED
      BY <2>3, <3>2, AtMostOne
  <2>4. QED
    BY <2>2, <2>3
<1>2. QED
  BY <1>1, FileKeepsUp, PTL DEF FileSpec, OpenRestores

-----------------------------------------------------------------------------
(***************************************************************************)
(* What a crash costs.                                                     *)
(***************************************************************************)

FileChains ==
  /\ WellFormed
  /\ disk = NoFile \/ disk \in [Slots -> Bucket]
  /\ torn \in SUBSET Slots
  /\ allocated => disk \in [Slots -> Bucket]
                  /\ \A s \in Slots : disk[s] # entry[s] => entry[s].status # "empty"
  /\ ChainsBut(entry, torn)
  /\ disk # NoFile => ChainsBut(disk, torn)

LEMMA EmptyTable ==
  ASSUME NEW table, table = [s \in Slots |-> Empty], NEW T
  PROVE  table \in [Slots -> Bucket] /\ ChainsBut(table, T)
<1>1. table \in [Slots -> Bucket] /\ \A s \in Slots : table[s].status = "empty"
  BY DEF Bucket, Empty
<1>2. \A k \in Keys : \A d \in Slots : table[Probe(k, d)].status = "empty"
  BY <1>1, ProbeInRange
<1>3. QED
  BY <1>1, <1>2 DEF ChainsBut

LEMMA InitFileChains == FileInit => FileChains
<1> SUFFICES ASSUME FileInit PROVE FileChains
  OBVIOUS
<1>1. IInv
  BY InitIInv DEF FileInit
<1>2. entry = [s \in Slots |-> Empty] /\ disk = entry /\ torn = {}
  BY DEF FileInit, Init
<1>3. entry \in [Slots -> Bucket] /\ ChainsBut(entry, {})
  BY <1>2, EmptyTable
<1>4. QED
  BY <1>1, <1>2, <1>3 DEF IInv, WellFormed, FileChains

\* A bucket that a call has written is not an empty one.
LEMMA WritesAreRecords ==
  ASSUME entry \in [Slots -> Bucket],
         \/ \E k \in Keys, v \in Values : oadict_insert(k, v) \/ oah_update(k, v)
         \/ \E k \in Keys : oah_delete(k)
  PROVE  \A s \in Slots : entry[s] # entry'[s] => entry'[s].status # "empty"
<1>1. CASE UNCHANGED entry
  BY <1>1
<1>2. CASE \E t \in Slots : \E b : Write(t, b) /\ b.status # "empty"
  <2>1. PICK t \in Slots : \E b : Write(t, b) /\ b.status # "empty"
    BY <1>2
  <2>2. PICK b : Write(t, b) /\ b.status # "empty"
    BY <2>1
  <2>3. entry'[t] = b /\ \A s \in Slots : s # t => entry'[s] = entry[s]
    BY <2>2 DEF Write
  <2>4. QED
    BY <2>2, <2>3
<1>3. ASSUME NEW k \in Keys, NEW v \in Values, oadict_insert(k, v) \/ oah_update(k, v)
      PROVE  UNCHANGED entry \/ \E t \in Slots : \E b : Write(t, b) /\ b.status # "empty"
  <2>1. CASE UNCHANGED entry
    BY <2>1
  <2>2. CASE \E d \in Slots : Write(Probe(k, d), Record("in_use", k, v))
    BY <2>2, ProbeInRange DEF Record
  <2>3. CASE \E d \in Slots : /\ Matches(k, Probe(k, d))
                              /\ Write(Probe(k, d), [entry[Probe(k, d)] EXCEPT !.value = v])
    <3>1. PICK d \in Slots : /\ Matches(k, Probe(k, d))
                             /\ Write(Probe(k, d), [entry[Probe(k, d)] EXCEPT !.value = v])
      BY <2>3
    <3>2. [entry[Probe(k, d)] EXCEPT !.value = v].status = "in_use"
      BY <3>1, ProbeInRange DEF Matches, InUse, Bucket, Empty
    <3>3. QED
      BY <3>1, <3>2, ProbeInRange
  <2>4. QED
    BY <1>3, <2>1, <2>2, <2>3 DEF oadict_insert, oah_update, oah_insert
<1>4. ASSUME NEW k \in Keys, oah_delete(k)
      PROVE  UNCHANGED entry \/ \E t \in Slots : \E b : Write(t, b) /\ b.status # "empty"
  <2>1. CASE \E d \in Slots :
               /\ FoundAt(k, d)
               /\ Write(Probe(k, d), [entry[Probe(k, d)] EXCEPT !.status = "deleted"])
    <3>1. PICK d \in Slots :
               /\ FoundAt(k, d)
               /\ Write(Probe(k, d), [entry[Probe(k, d)] EXCEPT !.status = "deleted"])
      BY <2>1
    <3>2. [entry[Probe(k, d)] EXCEPT !.status = "deleted"].status = "deleted"
      BY <3>1, ProbeInRange DEF FoundAt, Matches, InUse, Bucket, Empty
    <3>3. QED
      BY <3>1, <3>2, ProbeInRange
  <2>2. QED
    BY <1>4, <2>1 DEF oah_delete
<1>5. QED
  BY <1>1, <1>2, <1>3, <1>4

\* A call that may write: the file has what was there before it, and a bucket
\* that is rewritten is no longer torn.
LEMMA RewriteKeepsFileChains ==
  ASSUME FileChains, WellFormed', Rewrites, allocated,
         \/ \E k \in Keys, v \in Values : oadict_insert(k, v) \/ oah_update(k, v)
         \/ \E k \in Keys : oah_delete(k)
  PROVE  FileChains'
<1>1. /\ entry \in [Slots -> Bucket] /\ torn \in SUBSET Slots /\ ChainsBut(entry, torn)
      /\ disk' = entry /\ torn' = StillIn(torn)
  BY DEF FileChains, WellFormed, TypeOK, Rewrites, StillIn
<1>2. ChainsBut(entry', StillIn(torn)) /\ ChainsBut(entry, StillIn(torn))
  BY <1>1, InsertKeepsChains, DeleteKeepsChains DEF oadict_insert, oah_update
<1>3. \A s \in Slots : disk'[s] # entry'[s] => entry'[s].status # "empty"
  BY <1>1, WritesAreRecords
<1>4. StillIn(torn) \in SUBSET Slots
  BY <1>1 DEF StillIn
<1>5. ChainsBut(entry', torn') /\ ChainsBut(disk', torn')
  BY <1>1, <1>2
<1>6. QED
  BY <1>1, <1>3, <1>4, <1>5 DEF FileChains

\* A call that only reads the stream, after the seek.
LEMMA SeekKeepsFileChains ==
  ASSUME FileChains, WellFormed', SeekFlushes, UNCHANGED entry
  PROVE  FileChains'
<1>1. entry \in [Slots -> Bucket] /\ disk' = entry /\ entry' = entry /\ torn' = torn
  BY DEF FileChains, WellFormed, TypeOK, SeekFlushes
<1>2. QED
  BY <1>1 DEF FileChains

\* What a crash leaves in a bucket is a bucket, and is not empty where the
\* bucket was used before and after the write.
LEMMA PrefixOfRecords ==
  ASSUME NEW old \in Bucket, NEW new \in Bucket, new.status # "empty", NEW b \in Prefixes(old, new)
  PROVE  b \in Bucket /\ (old.status # "empty" => b.status # "empty")
<1>1. new \in [status: {"in_use", "deleted"}, key: Keys, value: Values] /\ Bytes(new) = new
  BY DEF Bucket, Empty, Bytes
<1>2. Bytes(old) \in [status: {"in_use", "deleted", "empty"}, key: Keys, value: Values]
  BY BlankAssumption DEF Bucket, Bytes, Record, Empty
<1>3. [Bytes(old) EXCEPT !.status = new.status]
        \in [status: {"in_use", "deleted"}, key: Keys, value: Values]
  BY <1>1, <1>2
<1>4. [Bytes(old) EXCEPT !.status = new.status, !.key = Bytes(new).key]
        \in [status: {"in_use", "deleted"}, key: Keys, value: Values]
  BY <1>1, <1>2
<1>5. \A c \in [status: {"in_use", "deleted"}, key: Keys, value: Values] :
        c \in Bucket /\ c.status # "empty"
  BY DEF Bucket
<1>6. \/ b = old \/ b = new
      \/ b \in [status: {"in_use", "deleted"}, key: Keys, value: Values]
  BY <1>3, <1>4 DEF Prefixes
<1>7. QED
  BY <1>1, <1>5, <1>6

LEMMA CrashKeepsFileChains ==
  ASSUME FileChains, FileBehind, Crash
  PROVE  FileChains'
<1>1. /\ allocated /\ allocated' = FALSE /\ entry' = entry /\ result' = result
      /\ cursor' = NoCursor /\ trail' = << >> /\ quiet' = TRUE
  BY DEF Crash
<1>2. WellFormed'
  <2>1. cursor' \in [status: CursorStatus \cup {"none"}, pred: Predicate,
                     first: Slots, current: Slots \cup {-1}]
    BY <1>1, MapSizeAssumption DEF NoCursor, AllRecords, Predicate, Slots
  <2>2. trail' \in Seq([slot: Slots, status: {"in_use", "deleted"}, key: Keys])
    BY <1>1
  <2>3. TypeOK'
    BY <1>1, <2>1, <2>2 DEF FileChains, WellFormed, TypeOK
  <2>4. CursorOnRecord'
    BY <1>1 DEF CursorOnRecord, NoCursor
  <2>5. QED
    BY <2>3, <2>4 DEF WellFormed
<1>3. /\ entry \in [Slots -> Bucket] /\ disk \in [Slots -> Bucket]
      /\ torn \in SUBSET Slots
      /\ ChainsBut(entry, torn) /\ ChainsBut(disk, torn)
      /\ \A s \in Slots : disk[s] # entry[s] => entry[s].status # "empty"
  <2>1. disk # NoFile
    <3>1. 0 \in Slots /\ disk \in [Slots -> Bucket]
      BY <1>1, MapSizeAssumption DEF FileChains, Slots
    <3>2. QED
      BY <3>1 DEF NoFile
  <2>2. QED
    BY <1>1, <2>1 DEF FileChains, WellFormed, TypeOK
<1>4. PICK x \in Slots : \A s \in Slots : s = x \/ disk[s] = entry[s]
  BY <1>1 DEF FileBehind, OneApart
<1>5. PICK image : /\ \A s \in Pending : image[s] \in Prefixes(disk[s], entry[s])
                   /\ disk' = [s \in Slots |-> IF s \in Pending THEN image[s] ELSE disk[s]]
                   /\ torn' = torn \cup { s \in Pending : image[s] \notin {disk[s], entry[s]} }
  BY DEF Crash
<1>6. PICK after : after = [s \in Slots |-> IF s \in Pending THEN image[s] ELSE disk[s]]
  OBVIOUS
<1>7. \A s \in Slots : s # x => after[s] = disk[s] /\ after[s] = entry[s]
  BY <1>4, <1>6 DEF Pending
<1>8. /\ after[x] \in Bucket
      /\ (disk[x].status # "empty" /\ entry[x].status # "empty") => after[x].status # "empty"
      /\ x \notin torn' => after[x] = disk[x] \/ after[x] = entry[x]
  <2>1. CASE x \in Pending
    <3>1. disk[x] \in Bucket /\ entry[x] \in Bucket /\ entry[x].status # "empty"
      BY <1>3, <2>1 DEF Pending
    <3>2. after[x] = image[x] /\ image[x] \in Prefixes(disk[x], entry[x])
      BY <1>5, <1>6, <2>1
    <3>3. after[x] \in Bucket /\ (disk[x].status # "empty" => after[x].status # "empty")
      BY <3>1, <3>2, PrefixOfRecords
    <3>4. x \notin torn' => image[x] \in {disk[x], entry[x]}
      BY <1>5, <2>1
    <3>5. QED
      BY <3>2, <3>3, <3>4
  <2>2. CASE x \notin Pending
    BY <1>3, <1>6, <2>2 DEF Pending
  <2>3. QED
    BY <2>1, <2>2
<1>9. after \in [Slots -> Bucket]
  <2>1. \A s \in Slots : after[s] \in Bucket
    BY <1>3, <1>7, <1>8
  <2>2. QED
    BY <1>6, <2>1
<1>10. torn' \in SUBSET Slots /\ torn \subseteq torn'
  BY <1>3, <1>5 DEF Pending
<1>11. \A s \in Slots : entry[s].status # "empty" /\ disk[s].status # "empty" => after[s].status # "empty"
  BY <1>7, <1>8
<1>12. ASSUME NEW k \in Keys, NEW d \in Slots, Probe(k, d) \notin torn',
              after[Probe(k, d)].status = "in_use", after[Probe(k, d)].key = k
       PROVE  Reached(after, k, d)
  <2>1. PICK s \in Slots : s = Probe(k, d)
    BY ProbeInRange
  <2>2. s \notin torn /\ (after[s] = disk[s] \/ after[s] = entry[s])
    BY <1>7, <1>8, <1>10, <1>12, <2>1
  <2>3. CASE s = x
    <3>1. Reached(disk, k, d) \/ Reached(entry, k, d)
      BY <1>3, <1>12, <2>1, <2>2 DEF ChainsBut
    <3>2. ASSUME NEW e \in 0 .. (d - 1) PROVE after[Probe(k, e)].status # "empty"
      <4>1. e \in Slots /\ e # d /\ Probe(k, e) \in Slots
        BY MapSizeAssumption, ProbeInRange DEF Slots
      <4>2. Probe(k, e) # x
        BY <2>1, <2>3, <4>1, ProbeInjective
      <4>3. QED
        BY <1>7, <3>1, <4>1, <4>2 DEF Reached
    <3>3. QED
      BY <3>2 DEF Reached
  <2>4. CASE s # x
    <3>1. after[s] = disk[s] /\ after[s] = entry[s]
      BY <1>7, <2>4
    <3>2. Reached(disk, k, d) /\ Reached(entry, k, d)
      BY <1>3, <1>12, <2>1, <2>2, <3>1 DEF ChainsBut
    <3>3. ASSUME NEW e \in 0 .. (d - 1) PROVE after[Probe(k, e)].status # "empty"
      <4>1. e \in Slots /\ Probe(k, e) \in Slots
        BY MapSizeAssumption, ProbeInRange DEF Slots
      <4>2. QED
        BY <1>11, <3>2, <4>1 DEF Reached
    <3>4. QED
      BY <3>3 DEF Reached
  <2>5. QED
    BY <2>3, <2>4
<1>13. ChainsBut(after, torn')
  BY <1>12 DEF ChainsBut
<1>14. ChainsBut(entry, torn')
  BY <1>3, <1>10 DEF ChainsBut
<1>15. disk' = after
  BY <1>5, <1>6
<1>16. QED
  BY <1>1, <1>2, <1>9, <1>10, <1>13, <1>14, <1>15 DEF FileChains

LEMMA NextKeepsFileChains ==
  FileChains /\ FileBehind /\ [FileNext]_allVars => FileChains'
<1> SUFFICES ASSUME FileChains, FileBehind, [FileNext]_allVars PROVE FileChains'
  OBVIOUS
<1>1. WellFormed /\ TypeOK /\ (~allocated => cursor.status = "none")
  BY DEF FileChains, WellFormed, CursorOnRecord
<1>2. CASE \E k \in Keys, v \in Values : oafh_insert(k, v) \/ oafh_update(k, v)
  <2>1. WellFormed' /\ allocated
    BY <1>1, <1>2, InsertWellFormed
    DEF oafh_insert, oafh_update, oadict_insert, oah_update, oah_insert
  <2>2. QED
    BY <1>2, <2>1, RewriteKeepsFileChains DEF oafh_insert, oafh_update
<1>3. CASE \E k \in Keys : oafh_delete(k)
  <2>1. WellFormed' /\ allocated
    BY <1>1, <1>3, DeleteWellFormed DEF oafh_delete, oah_delete
  <2>2. QED
    BY <1>3, <2>1, RewriteKeepsFileChains DEF oafh_delete
<1>4. CASE \E k \in Keys : oafh_get(k)
  BY <1>1, <1>4, GetWellFormed, SeekKeepsFileChains DEF oafh_get, oah_get
<1>5. CASE \E pred \in Predicates : oafdict_find(pred)
  BY <1>1, <1>5, FindWellFormed, SeekKeepsFileChains DEF oafdict_find, oadict_find, mapVars
<1>6. CASE oafdict_next
  BY <1>1, <1>6, NextWellFormed, SeekKeepsFileChains DEF oafdict_next, oadict_next, mapVars
<1>7. CASE oafdict_destroy_cursor
  <2>1. WellFormed' /\ UNCHANGED <<entry, allocated, fileVars>>
    BY <1>1, <1>7, DestroyCursorWellFormed DEF oafdict_destroy_cursor, oadict_destroy_cursor, mapVars
  <2>2. QED
    BY <2>1 DEF fileVars, FileChains
<1>8. CASE oafdict_close_dictionary
  <2>1. /\ entry' = entry /\ disk' = entry /\ torn' = torn /\ allocated' = FALSE
        /\ cursor.status = "none" /\ UNCHANGED <<result, cursorVars>>
    BY <1>8 DEF oafdict_close_dictionary
  <2>2. entry \in [Slots -> Bucket]
    BY <1>1 DEF TypeOK
  <2>3. WellFormed'
    BY <1>1, <2>1, <2>2, NewTableWellFormed
  <2>4. QED
    BY <2>1, <2>2, <2>3 DEF FileChains
<1>9. CASE oafdict_create_dictionary
  <2>1. CASE disk # NoFile /\ entry' = disk /\ UNCHANGED <<disk, torn>>
    <3>1. disk \in [Slots -> Bucket] /\ ChainsBut(disk, torn) /\ torn \in SUBSET Slots
      BY <2>1 DEF FileChains
    <3>2. WellFormed'
      BY <1>1, <1>9, <2>1, <3>1, NewTableWellFormed DEF oafdict_create_dictionary
    <3>3. QED
      BY <2>1, <3>1, <3>2 DEF FileChains
  <2>2. CASE entry' = [s \in Slots |-> Empty] /\ disk' = entry' /\ torn' = {}
    <3>1. entry' \in [Slots -> Bucket] /\ ChainsBut(entry', {})
      BY <2>2, EmptyTable
    <3>2. WellFormed'
      BY <1>1, <1>9, <3>1, NewTableWellFormed DEF oafdict_create_dictionary
    <3>3. QED
      BY <2>2, <3>1, <3>2 DEF FileChains
  <2>3. QED
    BY <1>9, <2>1, <2>2 DEF oafdict_create_dictionary
<1>10. CASE oafdict_delete_dictionary
  <2>1. /\ entry' = entry /\ disk' = NoFile /\ torn' = torn /\ allocated' = FALSE
        /\ cursor.status = "none" /\ UNCHANGED <<result, cursorVars>>
    BY <1>10 DEF oafdict_delete_dictionary
  <2>2. entry \in [Slots -> Bucket]
    BY <1>1 DEF TypeOK
  <2>3. WellFormed'
    BY <1>1, <2>1, <2>2, NewTableWellFormed
  <2>4. QED
    BY <2>1, <2>2, <2>3 DEF FileChains
<1>11. CASE oafdict_destroy_dictionary
  <2>1. WellFormed'
    BY <1>1, <1>11, StutterWellFormed DEF oafdict_destroy_dictionary
  <2>2. ~allocated' /\ disk' = NoFile /\ torn' = torn /\ entry' = entry
    BY <1>11 DEF oafdict_destroy_dictionary, vars, mapVars
  <2>3. QED
    BY <2>1, <2>2 DEF FileChains
<1>12. CASE Crash
  BY <1>12, CrashKeepsFileChains
<1>13. CASE UNCHANGED allVars
  <2>1. WellFormed'
    BY <1>1, <1>13, StutterWellFormed DEF allVars
  <2>2. UNCHANGED <<entry, allocated, fileVars>>
    BY <1>13 DEF allVars, vars, mapVars
  <2>3. QED
    BY <2>1, <2>2 DEF fileVars, FileChains
<1>14. QED
  BY <1>2, <1>3, <1>4, <1>5, <1>6, <1>7, <1>8, <1>9, <1>10, <1>11, <1>12, <1>13 DEF FileNext

THEOREM FileChainsHold == FileSpec => []FileChains
<1>1. FileInit => FileChains
  BY InitFileChains
<1>2. FileChains /\ FileBehind /\ [FileNext]_allVars => FileChains'
  BY NextKeepsFileChains
<1>3. QED
  BY <1>1, <1>2, FileKeepsUp, PTL DEF FileSpec

\* A record outside the torn buckets is found by a lookup of its key: the
\* first record of the key that the lookup meets, torn or not, answers it.
LEMMA IntactReached ==
  ASSUME FileChains, NEW s \in Slots \ torn, InUse(s)
  PROVE  Found(entry[s].key)
<1>1. PICK k \in Keys : k = entry[s].key /\ Matches(k, s)
  BY DEF FileChains, WellFormed, TypeOK, Bucket, Empty, InUse, Matches
<1>2. PICK d \in Slots : Probe(k, d) = s
  BY ProbeSurjective
<1>3. Reached(entry, k, d)
  BY <1>1, <1>2 DEF FileChains, ChainsBut, Matches, InUse
<1>4. PICK e \in 0 .. d : /\ Matches(k, Probe(k, e))
                          /\ \A f \in 0 .. (e - 1) : ~Matches(k, Probe(k, f))
  BY <1>1, <1>2, FirstMatch
<1>5. e \in Slots /\ 0 .. (e - 1) \subseteq 0 .. (d - 1)
  BY MapSizeAssumption DEF Slots
<1>6. QED
  BY <1>1, <1>3, <1>4, <1>5 DEF Found, FoundAt, Reached

\* A crash costs no record but the one being written: whatever a process that
\* stops leaves in the bucket it was writing, and however often that happens,
\* every record in another bucket is found by its key.
THEOREM CrashKeepsRecords == FileSpec => []IntactRecordsFound
<1>1. FileChains => IntactRecordsFound
  BY IntactReached DEF IntactRecordsFound
<1>2. QED
  BY <1>1, FileChainsHold, PTL

-----------------------------------------------------------------------------
(***************************************************************************)
(* Cursors of the file variant.                                            *)
(***************************************************************************)

\* A traversal of a file covers what is due unless buckets are torn.
TornOrCovered == torn = {} => TrailCovers

\* Without torn buckets every lookup is right.
LEMMA IntactLookups ==
  ASSUME FileChains, torn = {}
  PROVE  LookupComplete
<1> SUFFICES ASSUME NEW k \in Keys
             PROVE  Found(k) <=> \E s \in Slots : Matches(k, s)
  BY DEF LookupComplete
<1>1. Found(k) => \E s \in Slots : Matches(k, s)
  BY ProbedBucket DEF Found, FoundAt
<1>2. ASSUME NEW s \in Slots, Matches(k, s) PROVE Found(k)
  BY <1>2, IntactReached DEF Matches
<1>3. QED
  BY <1>1, <1>2

LEMMA FileStepKeepsCursor ==
  ASSUME FileChains, CursorInv, TornOrCovered, [FileNext]_allVars
  PROVE  CursorInv' /\ TornOrCovered'
<1>1. TypeOK /\ CursorOnRecord
  BY DEF FileChains, WellFormed
<1>2. ASSUME UNCHANGED <<cursor, trail>>, torn' = {} => torn = {} \/ ~quiet' \/ cursor.status = "none",
             quiet' => quiet /\ (UNCHANGED entry \/ cursor.status = "none")
      PROVE  CursorInv' /\ TornOrCovered'
  <2>1. CursorInv' /\ (TrailCovers => TrailCovers')
    BY <1>2, OtherCallKeepsCursor
  <2>2. cursor.status = "none" => TrailCovers
    BY NoCursorCovers
  <2>3. ~quiet' => TrailCovers'
    BY DEF TrailCovers
  <2>4. QED
    BY <1>2, <2>1, <2>2, <2>3 DEF TornOrCovered
<1>3. CASE \/ \E k \in Keys, v \in Values : oafh_insert(k, v) \/ oafh_update(k, v)
           \/ \E k \in Keys : oafh_delete(k)
  <2>1. NoteWrite /\ Rewrites
    BY <1>3 DEF oafh_insert, oafh_update, oafh_delete, oadict_insert, oah_update,
       oah_insert, oah_delete
  <2>2. torn \subseteq Slots
    BY DEF FileChains
  <2>3. quiet' /\ torn' = {} => torn = {}
    BY <2>1 DEF NoteWrite, Rewrites
  <2>4. QED
    BY <1>2, <2>1, <2>3 DEF NoteWrite
<1>4. CASE (\E k \in Keys : oafh_get(k)) \/ oafdict_destroy_dictionary \/ UNCHANGED allVars
  <2>1. UNCHANGED <<entry, cursorVars, torn>>
    BY <1>4 DEF oafh_get, oah_get, SeekFlushes, oafdict_destroy_dictionary, allVars, vars,
       mapVars, fileVars
  <2>2. QED
    BY <1>2, <2>1 DEF cursorVars
<1>5. CASE \E pred \in Predicates : oafdict_find(pred)
  <2>1. PICK pred \in Predicates : oadict_find(pred) /\ torn' = torn
    BY <1>5 DEF oafdict_find, SeekFlushes
  <2>2. CursorInv'
    BY <1>1, <2>1, FindCursor
  <2>3. torn = {} => TrailCovers'
    BY <1>1, <2>1, IntactLookups, FindCovers
  <2>4. QED
    BY <2>1, <2>2, <2>3 DEF TornOrCovered
<1>6. CASE oafdict_next
  BY <1>1, <1>6, NextCursor DEF oafdict_next, SeekFlushes, TornOrCovered
<1>7. CASE oafdict_destroy_cursor
  BY <1>7, DestroyCursor DEF oafdict_destroy_cursor, TornOrCovered
<1>8. CASE \/ oafdict_close_dictionary \/ oafdict_delete_dictionary
           \/ oafdict_create_dictionary
  <2>1. cursor.status = "none" /\ UNCHANGED cursorVars
    BY <1>1, <1>8 DEF oafdict_close_dictionary, oafdict_delete_dictionary,
       oafdict_create_dictionary, CursorOnRecord
  <2>2. QED
    BY <1>2, <2>1 DEF cursorVars
<1>9. CASE Crash
  <2>1. trail' = << >> /\ cursor' = NoCursor
    BY <1>9 DEF Crash
  <2>2. OpenedOnDue'
    BY <2>1 DEF OpenedOnDue, NoCursor
  <2>3. CursorInv'
    BY <2>1, <2>2, NoTrailYet DEF NoCursor
  <2>4. TrailCovers'
    BY <2>1 DEF NoCursor, TrailCovers, TrailSlots, Passed, WrappedOnDue
  <2>5. QED
    BY <2>3, <2>4 DEF TornOrCovered
<1>10. QED
  BY <1>3, <1>4, <1>5, <1>6, <1>7, <1>8, <1>9 DEF FileNext

THEOREM FileCursorInvariance == FileSpec => [](CursorInv /\ TornOrCovered)
<1>1. FileInit => CursorInv /\ TornOrCovered
  BY InitCursor DEF FileInit, TornOrCovered
<1>2. FileChains /\ (CursorInv /\ TornOrCovered) /\ [FileNext]_allVars =>
        (CursorInv /\ TornOrCovered)'
  BY FileStepKeepsCursor
<1>3. QED
  BY <1>1, <1>2, FileChainsHold, PTL DEF FileSpec

\* A traversal of a file that does not change and has no torn bucket delivers
\* every record that satisfies the predicate in the buckets it gets to, after
\* any crashes: with an equality cursor those from its first record to the end
\* of the file, or all if the last bucket has a record for it.
THEOREM FileTraversalsComplete == FileSpec => []IntactTraversalComplete
<1>1. FileChains /\ CursorInv /\ TornOrCovered => IntactTraversalComplete
  BY CoverIsComplete DEF FileChains, WellFormed, TornOrCovered, IntactTraversalComplete
<1>2. QED
  BY <1>1, FileChainsHold, FileCursorInvariance, PTL

\* Scans of a file deliver records in use that satisfy the predicate, although
\* the buffer of a scan that has wrapped is stale, and after any crashes.
THEOREM FileDeliveriesSatisfy == FileSpec => []DeliveredSatisfy
<1>1. CursorInv => DeliveredSatisfy
  BY DEF CursorInv
<1>2. QED
  BY <1>1, FileCursorInvariance, PTL

\* A cursor on a file delivers no bucket twice.
THEOREM FileNeverTwice == FileSpec => []NoBucketTwice
<1>1. FileChains /\ CursorInv => NoBucketTwice
  BY OrderedOnce DEF FileChains, WellFormed
<1>2. QED
  BY <1>1, FileChainsHold, FileCursorInvariance, PTL
=============================================================================
