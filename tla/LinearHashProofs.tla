-------------------------- MODULE LinearHashProofs --------------------------
(***************************************************************************)
(* Theorems about the linear hash: for any keys, values, hash function,    *)
(* initial size, bucket size and threshold that the assumptions allow, the *)
(* load stays under the threshold and no split starts another; and through *)
(* the loops of inserts, updates, deletes and splits no record is lost,    *)
(* met twice or left where it is not looked up.                            *)
(*                                                                         *)
(* The load needs the counters and the running call alone: a record that a *)
(* split has deleted is counted until it is inserted again, so that the    *)
(* load during a split is never above the one the split began with.  The   *)
(* contents need the shape of the file: which buckets are in a chain, and  *)
(* what of its chain a delete or a split has behind it (ContentsInv).      *)
(***************************************************************************)
EXTENDS LinearHash, NumberProofs, SequenceTheorems, TLAPS

\* What the running call is: the records that call' is made from.
CallShape ==
  \/ call = Idle
  \/ call.pc = "split" /\ call = SplitFrom(call.place, call.key)
  \/ /\ call.pc \in {"delete", "swap"}
     /\ call = [pc |-> call.pc, key |-> call.key, place |-> call.place, slot |-> call.slot,
                records |-> call.records, count |-> call.count, back |-> call.back]
     /\ call.count \in Int
     /\ call.back = Idle \/ call.back = SplitFrom(call.back.place, call.back.key)
  \/ /\ call.pc = "reinsert"
     /\ call = [pc |-> "reinsert", key |-> call.key, place |-> call.place,
                todo |-> call.todo, next |-> call.next]
     /\ call.todo \in Int

\* A split is under way, in a call of its own or in one that returns to it.
Splitting == call.pc \in {"split", "reinsert"} \/ (call.pc \in {"delete", "swap"} /\ call.back # Idle)

\* The records that a split has deleted and not inserted again.
InFlight ==
  IF call.pc \in {"delete", "swap"} /\ call.back # Idle THEN call.count
  ELSE IF call.pc = "reinsert" THEN call.todo ELSE 0

Numbers ==
  /\ initial_size \in Nat \ {0} /\ num_buckets \in Nat /\ next_split \in Nat
  /\ num_records \in Int

\* While a split is under way its new bucket is counted and next_split is not
\* yet moved on.
Sizes ==
  IF Splitting THEN num_buckets = initial_size + next_split + 1 /\ next_split < initial_size
               ELSE num_buckets = initial_size + next_split /\ next_split <= initial_size

Load == 100 * (num_records + InFlight) <= Capacity

IInv == Numbers /\ CallShape /\ Sizes /\ Load

\* The room that one more bucket adds is more than one record takes.
LEMMA CapacityGrows ==
  ASSUME NEW b \in Nat
  PROVE  /\ SplitThreshold * b * RecordsPerBucket \in Nat
         /\ SplitThreshold * (b + 1) * RecordsPerBucket >= SplitThreshold * b * RecordsPerBucket + 100
<1>1. SplitThreshold \in Nat /\ RecordsPerBucket \in Nat
  BY ParameterAssumption
<1>2. SplitThreshold * (b + 1) * RecordsPerBucket
        = SplitThreshold * b * RecordsPerBucket + SplitThreshold * RecordsPerBucket
  BY <1>1
<1>3. SplitThreshold * b * RecordsPerBucket \in Nat /\ SplitThreshold * RecordsPerBucket >= 100
  BY <1>1, ParameterAssumption
<1>4. SplitThreshold * RecordsPerBucket \in Nat
  BY <1>1
<1>5. SplitThreshold * (b + 1) * RecordsPerBucket \in Nat
  BY <1>1
<1>6. QED
  BY <1>2, <1>3, <1>4, <1>5

\* Fewer records, held and in flight, are no more load.
LEMMA LoadFalls ==
  ASSUME NEW n \in Int, NEW f \in Int, NEW m \in Int, NEW g \in Int, NEW c \in Nat,
         100 * (n + f) <= c, m + g <= n + f
  PROVE  100 * (m + g) <= c
  OBVIOUS

\* A call that is idle does not split and has nothing in flight.
LEMMA IdleFacts ==
  ASSUME call = Idle
  PROVE  ~Splitting /\ InFlight = 0 /\ CallShape
  BY DEF Idle, Splitting, InFlight, CallShape

LEMMA InitIInv == Init => IInv
<1> SUFFICES ASSUME Init PROVE IInv
  OBVIOUS
<1>1. Numbers
  BY ParameterAssumption DEF Init, Numbers
<1>2. CallShape /\ ~Splitting /\ InFlight = 0
  BY IdleFacts DEF Init
<1>3. Sizes
  BY <1>2, ParameterAssumption DEF Init, Sizes
<1>4. Capacity \in Nat
  BY <1>1, CapacityGrows DEF Capacity, Numbers
<1>5. Load
  BY <1>2, <1>4 DEF Init, Load
<1>6. QED
  BY <1>1, <1>2, <1>3, <1>5 DEF IInv

\* A step that changes none of what the invariant speaks of.
LEMMA SameNumbers ==
  ASSUME IInv, UNCHANGED <<initial_size, num_buckets, next_split, num_records, call>>
  PROVE  IInv'
  BY DEF IInv, Numbers, CallShape, Sizes, Splitting, Load, InFlight, Capacity

\* An insert of a caller: the load may go over the threshold, and a bucket is
\* added then.
LEMMA InsertKeepsIInv ==
  ASSUME IInv, call = Idle, NEW k, NEW v, InsertAt(k, v)
  PROVE  IInv'
<1> DEFINE over == linear_hash_above_threshold(num_records + 1, num_buckets)
<1>1. ~Splitting /\ InFlight = 0
  BY IdleFacts
<1>2. Numbers /\ num_buckets = initial_size + next_split /\ next_split <= initial_size
  BY <1>1 DEF IInv, Sizes
<1>3. 100 * num_records <= SplitThreshold * num_buckets * RecordsPerBucket
  BY <1>1, <1>2 DEF IInv, Load, Capacity, Numbers
<1>4. num_records' = num_records + 1
  BY DEF InsertAt
<1>5. CASE over
  <2>1. /\ num_buckets' = num_buckets + 1
        /\ IF num_buckets + 1 = 2 * initial_size + 1
             THEN initial_size' = 2 * initial_size /\ next_split' = 0
             ELSE UNCHANGED <<initial_size, next_split>>
    BY <1>5 DEF InsertAt, linear_hash_increment_num_buckets
  <2>2. call' = SplitFrom(bucket_map'[next_split' + 1], k)
    BY <1>5 DEF InsertAt
  <2>3. CallShape' /\ Splitting' /\ InFlight' = 0
    BY <2>2 DEF CallShape, Splitting, InFlight, SplitFrom
  <2>4. Numbers'
    BY <1>2, <1>4, <2>1 DEF Numbers
  <2>5. num_buckets' = initial_size' + next_split' + 1 /\ next_split' < initial_size'
    BY <1>2, <2>1 DEF Numbers
  <2>6. SplitThreshold * (num_buckets + 1) * RecordsPerBucket
          >= SplitThreshold * num_buckets * RecordsPerBucket + 100
        /\ SplitThreshold * num_buckets * RecordsPerBucket \in Nat
        /\ SplitThreshold * (num_buckets + 1) * RecordsPerBucket \in Nat
    BY <1>2, CapacityGrows DEF Numbers
  <2>7. Load'
    BY <1>2, <1>3, <1>4, <2>1, <2>3, <2>6 DEF Load, Capacity, Numbers
  <2>8. QED
    BY <2>3, <2>4, <2>5, <2>7 DEF IInv, Sizes
<1>6. CASE ~over
  <2>1. call' = Idle /\ UNCHANGED <<num_buckets, initial_size, next_split>>
    BY <1>6 DEF InsertAt
  <2>2. CallShape' /\ ~Splitting' /\ InFlight' = 0
    BY <2>1 DEF Idle, CallShape, Splitting, InFlight
  <2>3. Numbers' /\ Sizes'
    BY <1>2, <1>4, <2>1, <2>2 DEF Numbers, Sizes
  <2>4. ~(100 * (num_records + 1) > SplitThreshold * num_buckets * RecordsPerBucket)
    BY <1>6 DEF linear_hash_above_threshold
  <2>5. SplitThreshold * num_buckets * RecordsPerBucket \in Nat
    BY <1>2, CapacityGrows DEF Numbers
  <2>6. Load'
    BY <1>2, <1>4, <2>1, <2>2, <2>4, <2>5 DEF Load, Capacity, Numbers
  <2>7. QED
    BY <2>2, <2>3, <2>6 DEF IInv
<1>7. QED
  BY <1>5, <1>6

\* A step that leaves the counters of buckets and keeps a split under way or
\* not keeps the invariant if the records held and in flight do not rise.
LEMMA SameSplit ==
  ASSUME IInv, CallShape', Splitting' <=> Splitting,
         UNCHANGED <<initial_size, num_buckets, next_split>>,
         num_records' \in Int, InFlight \in Int, InFlight' \in Int,
         num_records' + InFlight' <= num_records + InFlight
  PROVE  IInv'
<1>1. Numbers'
  BY DEF IInv, Numbers
<1>2. Sizes'
  BY DEF IInv, Sizes
<1>3. Capacity \in Nat /\ Capacity' = Capacity
  BY CapacityGrows DEF IInv, Numbers, Capacity
<1>4. 100 * (num_records + InFlight) <= Capacity /\ num_records \in Int
  BY DEF IInv, Load, Numbers
<1>5. 100 * (num_records' + InFlight') <= Capacity'
  BY <1>3, <1>4, LoadFalls
<1>6. QED
  BY <1>1, <1>2, <1>5 DEF IInv, Load

LEMMA DeleteStepKeepsIInv == ASSUME IInv, DeleteStep PROVE IInv'
<1> DEFINE b == file[call.place]
           hits == { i \in call.slot .. b.count :
                       call.records[i].status # "empty" /\ call.records[i].key = call.key }
<1>1. /\ call.pc = "delete"
      /\ UNCHANGED <<initial_size, num_buckets, next_split>>
      /\ num_records' = num_records /\ num_records \in Int
  BY DEF DeleteStep, table, IInv, Numbers
<1>2. /\ call = [pc |-> "delete", key |-> call.key, place |-> call.place, slot |-> call.slot,
                 records |-> call.records, count |-> call.count, back |-> call.back]
      /\ call.count \in Int
      /\ call.back = Idle \/ call.back = SplitFrom(call.back.place, call.back.key)
  BY <1>1 DEF IInv, CallShape, Idle
<1>3. CASE hits # {}
  <2>1. call' = [call EXCEPT !.pc = "swap", !.slot = Min(hits)]
    BY <1>3 DEF DeleteStep
  <2>2. call' = [pc |-> "swap", key |-> call.key, place |-> call.place, slot |-> Min(hits),
                 records |-> call.records, count |-> call.count, back |-> call.back]
    BY <1>2, <2>1
  <2>3. CallShape'
    BY <1>2, <2>2 DEF CallShape
  <2>4. (Splitting' <=> Splitting) /\ InFlight' = InFlight /\ InFlight \in Int
    BY <1>1, <1>2, <2>2 DEF Splitting, InFlight
  <2>5. QED
    BY <1>1, <2>3, <2>4, SameSplit
<1>4. CASE hits = {} /\ b.overflow # EndOfList
  <2>1. call' = [call EXCEPT !.place = b.overflow, !.slot = 1, !.records = file[b.overflow].slots]
    BY <1>4 DEF DeleteStep
  <2>2. call' = [pc |-> "delete", key |-> call.key, place |-> b.overflow, slot |-> 1,
                 records |-> file[b.overflow].slots, count |-> call.count, back |-> call.back]
    <3> DEFINE c == [pc |-> "delete", key |-> call.key, place |-> call.place, slot |-> call.slot,
                     records |-> call.records, count |-> call.count, back |-> call.back]
    <3>1. call' = [c EXCEPT !.place = b.overflow, !.slot = 1, !.records = file[b.overflow].slots]
      BY <1>2, <2>1
    <3>2. QED
      BY <3>1
  <2>3. CallShape'
    BY <1>2, <2>2 DEF CallShape
  <2>4. (Splitting' <=> Splitting) /\ InFlight' = InFlight /\ InFlight \in Int
    BY <1>1, <1>2, <2>2 DEF Splitting, InFlight
  <2>5. QED
    BY <1>1, <2>3, <2>4, SameSplit
<1>5. CASE hits = {} /\ b.overflow = EndOfList /\ call.back = Idle
  <2>1. call' = Idle
    BY <1>5 DEF DeleteStep
  <2>2. CallShape' /\ ~Splitting' /\ InFlight' = 0
    BY <2>1 DEF CallShape, Splitting, InFlight, Idle
  <2>3. ~Splitting /\ InFlight = 0
    BY <1>1, <1>5 DEF Splitting, InFlight
  <2>4. QED
    BY <1>1, <2>2, <2>3, SameSplit
<1>6. CASE hits = {} /\ b.overflow = EndOfList /\ call.back # Idle
  <2>1. call' = [pc |-> "reinsert", key |-> call.key, place |-> call.back.place,
                 todo |-> call.count, next |-> 1]
    BY <1>6 DEF DeleteStep
  <2>2. CallShape' /\ Splitting' /\ InFlight' = call.count
    BY <1>2, <2>1 DEF CallShape, Splitting, InFlight
  <2>3. Splitting /\ InFlight = call.count
    BY <1>1, <1>6 DEF Splitting, InFlight
  <2>4. QED
    BY <1>1, <1>2, <2>2, <2>3, SameSplit
<1>7. QED
  BY <1>3, <1>4, <1>5, <1>6

LEMMA SwapStepKeepsIInv == ASSUME IInv, SwapStep PROVE IInv'
<1>1. /\ call.pc = "swap"
      /\ UNCHANGED <<initial_size, num_buckets, next_split>>
      /\ num_records' = num_records - 1 /\ num_records \in Int
  BY DEF SwapStep, TakeSwapRecord, IInv, Numbers
<1>2. /\ call = [pc |-> "swap", key |-> call.key, place |-> call.place, slot |-> call.slot,
                 records |-> call.records, count |-> call.count, back |-> call.back]
      /\ call.count \in Int
      /\ call.back = Idle \/ call.back = SplitFrom(call.back.place, call.back.key)
  BY <1>1 DEF IInv, CallShape, Idle
<1>3. \/ call' = [call EXCEPT !.count = @ + 1]
      \/ call' = [call EXCEPT !.pc = "delete", !.slot = @ + 1, !.count = @ + 1]
  BY DEF SwapStep
<1>3a. PICK pc \in {"delete", "swap"} : \E slot :
        call' = [pc |-> pc, key |-> call.key, place |-> call.place, slot |-> slot,
                 records |-> call.records, count |-> call.count + 1, back |-> call.back]
  <2> DEFINE c == [pc |-> "swap", key |-> call.key, place |-> call.place, slot |-> call.slot,
                   records |-> call.records, count |-> call.count, back |-> call.back]
             n == call.count + 1
             s == call.slot + 1
  <2>1. CASE call' = [c EXCEPT !.count = n]
    <3>1. call' = [pc |-> "swap", key |-> call.key, place |-> call.place, slot |-> call.slot,
                   records |-> call.records, count |-> n, back |-> call.back]
      <4> HIDE DEF n
      <4> QED
        BY <2>1
    <3>2. QED
      BY <3>1
  <2>2. CASE call' = [c EXCEPT !.pc = "delete", !.slot = s, !.count = n]
    <3>1. call' = [pc |-> "delete", key |-> call.key, place |-> call.place, slot |-> s,
                   records |-> call.records, count |-> n, back |-> call.back]
      <4> HIDE DEF n, s
      <4> QED
        BY <2>2
    <3>2. QED
      BY <3>1
  <2>3. QED
    BY <1>2, <1>3, <2>1, <2>2
<1>4. PICK slot :
        call' = [pc |-> pc, key |-> call.key, place |-> call.place, slot |-> slot,
                 records |-> call.records, count |-> call.count + 1, back |-> call.back]
  BY <1>3a
<1>5. CallShape'
  BY <1>2, <1>4 DEF CallShape
<1>6. CASE call.back = Idle
  <2>1. ~Splitting /\ ~Splitting' /\ InFlight = 0 /\ InFlight' = 0
    BY <1>1, <1>4, <1>6 DEF Splitting, InFlight
  <2>2. num_records' + 0 <= num_records + 0
    BY <1>1
  <2>3. QED
    BY <1>1, <1>5, <2>1, <2>2, SameSplit
<1>7. CASE call.back # Idle
  <2>1. Splitting /\ Splitting' /\ InFlight = call.count /\ InFlight' = call.count + 1
    BY <1>1, <1>4, <1>7 DEF Splitting, InFlight
  <2>2. num_records' + (call.count + 1) <= num_records + call.count
    BY <1>1, <1>2
  <2>3. QED
    BY <1>1, <1>2, <1>5, <2>1, <2>2, SameSplit
<1>8. QED
  BY <1>6, <1>7

\* A split begins the delete of a key, goes on in the next bucket, or ends.
LEMMA SplitStepKeepsIInv == ASSUME IInv, SplitStep PROVE IInv'
<1> DEFINE b == file[call.place]
           k == b.slots[Min(Moving(b))].key
<1>1. /\ call.pc = "split"
      /\ UNCHANGED <<initial_size, num_buckets>>
      /\ num_records' = num_records
      /\ Numbers
  BY DEF SplitStep, IInv
<1>2. call = SplitFrom(call.place, call.key) /\ Splitting /\ InFlight = 0
  BY <1>1 DEF IInv, CallShape, Idle, Splitting, InFlight
<1>3. call # Idle
  BY <1>1 DEF Idle
<1>4. CASE Moving(b) # {}
  <2>1. call' = DeleteFrom(k, bucket_idx_to_ion_fpos_t(IndexOf(k)), call) /\ UNCHANGED next_split
    BY <1>4 DEF SplitStep
  <2>2. CallShape' /\ Splitting' /\ InFlight' = 0
    BY <1>2, <1>3, <2>1 DEF CallShape, Splitting, InFlight, DeleteFrom
  <2>3. QED
    BY <1>1, <1>2, <2>1, <2>2, SameSplit DEF Numbers
<1>5. CASE Moving(b) = {} /\ b.overflow # EndOfList
  <2>1. call' = [call EXCEPT !.place = b.overflow] /\ UNCHANGED next_split
    BY <1>5 DEF SplitStep
  <2>2. call' = SplitFrom(b.overflow, call.key)
    BY <1>2, <2>1 DEF SplitFrom
  <2>3. CallShape' /\ Splitting' /\ InFlight' = 0
    BY <2>2 DEF CallShape, Splitting, InFlight, SplitFrom
  <2>4. QED
    BY <1>1, <1>2, <2>1, <2>3, SameSplit DEF Numbers
<1>6. CASE Moving(b) = {} /\ b.overflow = EndOfList
  <2>1. call' = Idle /\ next_split' = next_split + 1
    BY <1>6 DEF SplitStep
  <2>2. CallShape' /\ ~Splitting' /\ InFlight' = 0
    BY <2>1 DEF CallShape, Splitting, InFlight, Idle
  <2>3. num_buckets = initial_size + next_split + 1 /\ next_split < initial_size
    BY <1>2 DEF IInv, Sizes
  <2>4. Numbers' /\ Sizes'
    BY <1>1, <2>1, <2>2, <2>3 DEF Numbers, Sizes
  <2>5. Load'
    BY <1>1, <1>2, <2>2 DEF IInv, Load, Capacity
  <2>6. QED
    BY <2>2, <2>4, <2>5 DEF IInv
<1>7. QED
  BY <1>4, <1>5, <1>6

LEMMA ReinsertStepKeepsIInv == ASSUME IInv, ReinsertStep PROVE IInv'
<1>1. /\ call.pc = "reinsert"
      /\ UNCHANGED <<initial_size, num_buckets, next_split>>
      /\ num_records \in Int
  BY DEF ReinsertStep, table, IInv, Numbers
<1>2. /\ call = [pc |-> "reinsert", key |-> call.key, place |-> call.place,
                 todo |-> call.todo, next |-> call.next]
      /\ call.todo \in Int
      /\ Splitting /\ InFlight = call.todo
  BY <1>1 DEF IInv, CallShape, Idle, Splitting, InFlight
<1>3. CASE call.todo = 0
  <2>1. call' = SplitFrom(call.place, call.key) /\ num_records' = num_records
    BY <1>3 DEF ReinsertStep, table
  <2>2. CallShape' /\ Splitting' /\ InFlight' = 0
    BY <2>1 DEF CallShape, Splitting, InFlight, SplitFrom
  <2>3. QED
    BY <1>1, <1>2, <1>3, <2>1, <2>2, SameSplit
<1>4. CASE call.todo # 0
  <2> DEFINE c == [pc |-> "reinsert", key |-> call.key, place |-> call.place,
                   todo |-> call.todo, next |-> call.next]
             n == call.todo - 1
             m == call.next + 1
  <2>1. num_records' = num_records + 1
    BY <1>4 DEF ReinsertStep
  <2>2. call' = [c EXCEPT !.todo = n, !.next = m]
    BY <1>2, <1>4 DEF ReinsertStep
  <2>3. call' = [pc |-> "reinsert", key |-> call.key, place |-> call.place, todo |-> n, next |-> m]
    <3> HIDE DEF n, m
    <3> QED
      BY <2>2
  <2>4. CallShape' /\ Splitting' /\ InFlight' = call.todo - 1
    BY <1>2, <2>3 DEF CallShape, Splitting, InFlight
  <2>5. (num_records + 1) + (call.todo - 1) <= num_records + call.todo
    BY <1>1, <1>2
  <2>6. num_records' \in Int /\ InFlight' \in Int
    BY <1>1, <1>2, <2>1, <2>4
  <2>7. num_records' + InFlight' <= num_records + InFlight
    BY <1>2, <2>1, <2>4, <2>5
  <2>8. QED
    BY <1>1, <1>2, <2>4, <2>6, <2>7, SameSplit
<1>5. QED
  BY <1>3, <1>4

\* The calls of the program.
LEMMA UpdateKeepsIInv ==
  ASSUME IInv, NEW k \in Keys, NEW v \in Values, linear_hash_update(k, v)
  PROVE  IInv'
<1>1. CASE Matches(k, {"full"}) = {}
  <2>1. call = Idle /\ InsertAt(k, v)
    BY <1>1 DEF linear_hash_update, Ready, IInv, CallShape
  <2>2. QED
    BY <2>1, InsertKeepsIInv
<1>2. CASE Matches(k, {"full"}) # {}
  <2>1. UNCHANGED <<initial_size, num_buckets, next_split, num_records, call>>
    BY <1>2 DEF linear_hash_update
  <2>2. QED
    BY <2>1, SameNumbers
<1>3. QED
  BY <1>1, <1>2

LEMMA DeleteKeepsIInv ==
  ASSUME IInv, NEW k \in Keys, linear_hash_delete(k)
  PROVE  IInv'
<1>1. call = Idle
  BY DEF linear_hash_delete, Ready, IInv, CallShape
<1>2. ~Splitting /\ InFlight = 0
  BY <1>1, IdleFacts
<1>3. call' = DeleteFrom(k, bucket_idx_to_ion_fpos_t(IndexOf(k)), Idle)
      /\ UNCHANGED <<initial_size, num_buckets, next_split, num_records>>
  BY DEF linear_hash_delete, table
<1>4. CallShape' /\ ~Splitting' /\ InFlight' = 0
  BY <1>3 DEF CallShape, Splitting, InFlight, DeleteFrom
<1>5. num_records \in Int
  BY DEF IInv, Numbers
<1>6. QED
  BY <1>2, <1>3, <1>4, <1>5, SameSplit

LEMMA DeleteDictionaryKeepsIInv ==
  ASSUME IInv, linear_hash_delete_dictionary
  PROVE  IInv'
<1>1. call = Idle
  BY DEF linear_hash_delete_dictionary, Ready, IInv, CallShape
<1>2. /\ initial_size' = InitialSize /\ num_buckets' = InitialSize
      /\ next_split' = 0 /\ num_records' = 0 /\ call' = Idle
  BY <1>1 DEF linear_hash_delete_dictionary
<1>3. CallShape' /\ ~Splitting' /\ InFlight' = 0
  BY <1>2 DEF Idle, CallShape, Splitting, InFlight
<1>4. Numbers' /\ Sizes'
  BY <1>2, <1>3, ParameterAssumption DEF Numbers, Sizes
<1>5. SplitThreshold * InitialSize * RecordsPerBucket \in Nat
  BY CapacityGrows, ParameterAssumption
<1>6. Load'
  BY <1>2, <1>3, <1>5 DEF Load, Capacity
<1>7. QED
  BY <1>3, <1>4, <1>6 DEF IInv

LEMMA NextKeepsIInv == IInv /\ [Next]_vars => IInv'
<1> SUFFICES ASSUME IInv, [Next]_vars PROVE IInv'
  OBVIOUS
<1>1. ASSUME NEW k \in Keys, NEW v \in Values, linear_hash_insert(k, v)
      PROVE  IInv'
  <2>1. call = Idle /\ InsertAt(k, v)
    BY <1>1 DEF linear_hash_insert, Ready, IInv, CallShape
  <2>2. QED
    BY <2>1, InsertKeepsIInv
<1>2. ASSUME NEW k \in Keys, NEW v \in Values, linear_hash_update(k, v)
      PROVE  IInv'
  BY <1>2, UpdateKeepsIInv
<1>3. ASSUME NEW k \in Keys, linear_hash_delete(k) PROVE IInv'
  BY <1>3, DeleteKeepsIInv
<1>4. ASSUME linear_hash_delete_dictionary PROVE IInv'
  BY <1>4, DeleteDictionaryKeepsIInv
<1>5. ASSUME Step PROVE IInv'
  BY <1>5, DeleteStepKeepsIInv, SwapStepKeepsIInv, SplitStepKeepsIInv, ReinsertStepKeepsIInv
  DEF Step
<1>6. ASSUME UNCHANGED vars PROVE IInv'
  BY <1>6, SameNumbers DEF vars, table
<1>7. QED
  BY <1>1, <1>2, <1>3, <1>4, <1>5, <1>6 DEF Next

\* The counters agree with each other, and the load counts what a split has in
\* flight (linear_hash_insert, linear_hash_delete, split): for any parameters.
THEOREM LinearHashInvariance == Spec => []IInv
<1>1. QED
  BY InitIInv, NextKeepsIInv, PTL DEF Spec

\* Between calls the load is not over the threshold, and an insert of a split
\* never starts another split, whatever the threshold and the sizes are that
\* ParameterAssumption allows.
THEOREM LoadStaysBounded == Spec => []LoadBounded
<1>1. IInv => LoadBounded
  <2> SUFFICES ASSUME IInv PROVE LoadBounded
    OBVIOUS
  <2>1. CASE call.pc = "idle"
    <3>1. call = Idle
      BY <2>1 DEF IInv, CallShape
    <3>2. ~Splitting /\ InFlight = 0
      BY <3>1, IdleFacts
    <3>3. 100 * num_records <= Capacity
      BY <3>2 DEF IInv, Load, Numbers
    <3>4. QED
      BY <2>1, <3>2, <3>3 DEF LoadBounded, IInv, Sizes
  <2>2. CASE call.pc = "reinsert"
    <3>1. InFlight = call.todo
      BY <2>2 DEF InFlight
    <3>2. QED
      BY <2>2, <3>1 DEF LoadBounded, IInv, Load, Idling
  <2>3. QED
    BY <2>1, <2>2 DEF LoadBounded, Idling
<1>2. QED
  BY <1>1, LinearHashInvariance, PTL

-----------------------------------------------------------------------------
(***************************************************************************)
(* Remainders of n and of 2 * n.                                           *)
(***************************************************************************)
LEMMA MultipleIsLarge ==
  ASSUME NEW n \in Nat, NEW d \in Int, n * d < n, -n < n * d
  PROVE  n * d = 0
<1>1. d >= 1 => n * d >= n
  OBVIOUS
<1>2. d <= -1 => n * d <= -n
  OBVIOUS
<1>3. d = 0 => n * d = 0
  OBVIOUS
<1>4. d >= 1 \/ d <= -1 \/ d = 0
  OBVIOUS
<1>5. QED
  BY <1>1, <1>2, <1>3, <1>4

LEMMA RemainderIs ==
  ASSUME NEW a \in Int, NEW n \in Nat \ {0}, NEW q \in Int, NEW r \in 0 .. n - 1, a = n * q + r
  PROVE  a % n = r
<1>1. a = n * (a \div n) + (a % n) /\ a \div n \in Int /\ a % n \in 0 .. n - 1
  OBVIOUS
<1>2. PICK p \in Int : p = a \div n
  BY <1>1
<1>3. PICK s \in 0 .. n - 1 : s = a % n
  BY <1>1
<1>4. a = n * p + s
  BY <1>1, <1>2, <1>3
<1>5. n * (q - p) = n * q - n * p /\ n * q \in Int /\ n * p \in Int
  OBVIOUS
<1>6. n * (q - p) = s - r
  BY <1>4, <1>5
<1>7. s - r < n /\ -n < s - r
  OBVIOUS
<1>8. n * (q - p) = 0
  BY <1>6, <1>7, MultipleIsLarge
<1>9. QED
  BY <1>3, <1>6, <1>8

LEMMA RemainderOfTwice ==
  ASSUME NEW a \in Int, NEW n \in Nat \ {0}
  PROVE  /\ a % n \in 0 .. n - 1
         /\ a % (2 * n) = a % n \/ a % (2 * n) = (a % n) + n
<1>1. PICK m \in Nat \ {0} : m = 2 * n
  OBVIOUS
<1>2. a = m * (a \div m) + (a % m) /\ a \div m \in Int /\ a % m \in 0 .. m - 1
  OBVIOUS
<1>3. PICK p \in Int : p = a \div m
  BY <1>2
<1>4. PICK r \in 0 .. m - 1 : r = a % m
  BY <1>2
<1>5. a = m * p + r
  BY <1>2, <1>3, <1>4
<1>6. m * p = n * (2 * p) /\ n * (2 * p + 1) = n * (2 * p) + n
  BY <1>1
<1>7. CASE r < n
  <2>1. r \in 0 .. n - 1 /\ a = n * (2 * p) + r /\ 2 * p \in Int
    BY <1>5, <1>6, <1>7
  <2>2. a % n = r
    BY <2>1, RemainderIs
  <2>3. QED
    BY <1>1, <1>4, <2>2, <2>1
<1>8. CASE r >= n
  <2>1. r - n \in 0 .. n - 1 /\ a = n * (2 * p + 1) + (r - n) /\ 2 * p + 1 \in Int
    BY <1>1, <1>5, <1>6, <1>8
  <2>2. a % n = r - n
    BY <2>1, RemainderIs
  <2>3. QED
    BY <1>1, <1>4, <2>2, <2>1
<1>9. QED
  BY <1>7, <1>8
-----------------------------------------------------------------------------
(***************************************************************************)
(* The buckets.  A bucket is written at the end of the file and linked to  *)
(* an older one; one that leaves its chain has become empty.  So the       *)
(* buckets of a chain are those with records, and the head.                *)
(***************************************************************************)
Indexes == 0 .. num_buckets - 1
Records == [status: {"full"}, key: Keys, value: Values]
Buckets == [idx: Nat, count: 0 .. RecordsPerBucket, overflow: Nat,
            slots: [Slots -> Records \cup {Emptied, Blank}]]

\* The head of a map's chain, and the buckets of f that are in a chain.
HeadOf(m, i) == m[i + 1]
InChain(f, m, p) == f[p].count # 0 \/ p = HeadOf(m, f[p].idx)

StoreTyped(f, m, n) ==
  /\ f \in Seq(Buckets) /\ m \in Seq(Nat)
  /\ n \in Nat /\ n <= Len(m) /\ Len(m) # 0
  /\ \A i \in 0 .. n - 1 : HeadOf(m, i) \in DOMAIN f /\ f[HeadOf(m, i)].idx = i
  /\ \A p \in DOMAIN f : f[p].idx \in 0 .. n - 1

\* Records fill the slots up to the count.
Filled(f) ==
  \A p \in DOMAIN f, s \in Slots : f[p].slots[s] \in Records <=> s <= f[p].count

\* Links lead to older buckets of the index and pass none that is in the chain.
LinksBack(f, m) ==
  \A p \in DOMAIN f :
    /\ f[p].overflow < p
    /\ f[p].overflow # EndOfList => f[f[p].overflow].idx = f[p].idx
    /\ f[p].overflow # EndOfList /\ InChain(f, m, p) => f[f[p].overflow].count # 0
    /\ \A q \in DOMAIN f : q < p /\ f[q].idx = f[p].idx /\ InChain(f, m, q) => q <= f[p].overflow

\* A bucket with records is full, or it is the head, and never newer.  An empty
\* head is the whole chain.
RoomAtHeads(f, m) ==
  \A p \in DOMAIN f : LET h == HeadOf(m, f[p].idx) IN
    /\ f[p].count # 0 => p <= h /\ (p # h => f[p].count = RecordsPerBucket)
    /\ p = h /\ f[p].count = 0 => f[p].overflow = EndOfList

Chained(f, m, n) ==
  StoreTyped(f, m, n) /\ Filled(f) /\ LinksBack(f, m) /\ RoomAtHeads(f, m)

\* The places of records.
Cells(f) == { c \in (DOMAIN f) \X Slots : c[2] <= f[c[1]].count }
RecordAt(f, c) == f[c[1]].slots[c[2]]
CellsOf(f, k) == { c \in Cells(f) : RecordAt(f, c).key = k }
InIndex(f, i) == { c \in Cells(f) : f[c[1]].idx = i }

Moves(k) == insert_hash_to_bucket(k) # hash_to_bucket(k)

\* A record is in the chain where it is looked up, or in the one that a split
\* moves it to.
BelongsTo(k, i) ==
  \/ i = IndexOf(k)
  \/ Splitting /\ Moves(k) /\ insert_hash_to_bucket(k) = next_split /\ hash_to_bucket(k) = i

Placed == \A c \in Cells(file) : BelongsTo(RecordAt(file, c).key, file[c[1]].idx)

\* What a split has behind it, when it stands on bucket p.
SplitPassed(p) ==
  /\ p \in DOMAIN file /\ file[p].idx = next_split
  /\ \A c \in InIndex(file, next_split) : c[1] > p => ~Moves(RecordAt(file, c).key)

\* The key that a split takes from one chain to the other.
SplitKey(k) == k \in Keys /\ Moves(k) /\ insert_hash_to_bucket(k) = next_split

Passed(c, p, s) == c[1] > p \/ (c[1] = p /\ c[2] < s)

\* What a delete has behind it, and that its copy of the bucket is right for
\* the rest of it.
DeletePassed ==
  LET i == IndexOf(call.key) IN
  /\ call.key \in Keys /\ call.slot \in Nat \ {0} /\ call.count \in Nat
  /\ call.place \in DOMAIN file /\ file[call.place].idx = i
  /\ \A c \in InIndex(file, i) :
       Passed(c, call.place, call.slot) => RecordAt(file, c).key # call.key
  /\ \A s \in call.slot .. file[call.place].count : call.records[s] = file[call.place].slots[s]
  /\ call.pc = "swap" => /\ call.slot <= file[call.place].count
                         /\ file[call.place].slots[call.slot].key = call.key

Progress ==
  /\ call.pc = "split" => SplitPassed(call.place)
  /\ call.pc \in {"delete", "swap"} =>
       /\ DeletePassed
       /\ call.back # Idle => SplitPassed(call.back.place) /\ SplitKey(call.key)
  /\ call.pc = "reinsert" =>
       /\ SplitPassed(call.place) /\ SplitKey(call.key)
       /\ call.todo \in Nat
       /\ \A c \in InIndex(file, next_split) : RecordAt(file, c).key # call.key

\* A user deletes k: what is left of it is not held any more.
Deleting(k) == call.pc \in {"delete", "swap"} /\ call.back = Idle /\ call.key = k

\* The records of k that a split has taken out.
Taken(k) == IF call.pc # "idle" /\ call.key = k THEN InFlight ELSE 0

Counted ==
  /\ num_records = Cardinality(Cells(file))
  /\ held \in [Keys -> [Values -> Nat]]
  /\ \A k \in Keys :
       Total(Values, held[k]) = IF Deleting(k) THEN 0 ELSE Cardinality(CellsOf(file, k)) + Taken(k)

\* The values of records, and those of the cache that a split puts back, are held.
Genuine ==
  /\ cache \in Seq(Values)
  /\ \A c \in Cells(file) : LET r == RecordAt(file, c) IN
       Deleting(r.key) \/ held[r.key][r.value] > 0
  /\ Splitting /\ call.pc # "split" => \A i \in 1 .. Len(cache) : held[call.key][cache[i]] > 0
  /\ call.pc = "delete" => call.count <= Len(cache)
  /\ call.pc = "swap" => call.count < Len(cache)
  /\ call.pc = "reinsert" => call.next \in Nat \ {0} /\ call.next + call.todo <= Len(cache) + 1

ContentsInv ==
  /\ Chained(file, bucket_map, num_buckets)
  /\ Placed /\ Progress /\ Counted /\ Genuine
-----------------------------------------------------------------------------
(***************************************************************************)
(* Steps of a store: a bucket that is appended, a head that is changed, a  *)
(* head that leaves its chain, records that are overwritten.               *)
(***************************************************************************)
LEMMA Parameters ==
  /\ RecordsPerBucket \in Nat \ {0} /\ Slots \subseteq Nat
  /\ Emptied \notin Records /\ Blank \notin Records
  BY ParameterAssumption, BlankAssumption DEF Slots, Emptied, Records

LEMMA StoreFacts ==
  ASSUME NEW f, NEW m, NEW n, StoreTyped(f, m, n)
  PROVE  /\ Len(f) \in Nat /\ DOMAIN f = 1 .. Len(f) /\ Len(m) \in Nat /\ DOMAIN m = 1 .. Len(m)
         /\ \A p \in DOMAIN f :
              /\ p \in Nat /\ f[p] \in Buckets
              /\ f[p].idx \in 0 .. n - 1 /\ f[p].count \in 0 .. RecordsPerBucket
              /\ f[p].overflow \in Nat /\ f[p].slots \in [Slots -> Records \cup {Emptied, Blank}]
         /\ \A i \in 0 .. n - 1 : HeadOf(m, i) \in DOMAIN f /\ f[HeadOf(m, i)].idx = i
<1>1. f \in Seq(Buckets) /\ m \in Seq(Nat)
  BY DEF StoreTyped
<1>2. Len(f) \in Nat /\ DOMAIN f = 1 .. Len(f) /\ Len(m) \in Nat /\ DOMAIN m = 1 .. Len(m)
  BY <1>1
<1>3. ASSUME NEW p \in DOMAIN f
      PROVE  p \in Nat /\ f[p] \in Buckets
  BY <1>1, <1>2
<1>4. QED
  BY <1>2, <1>3 DEF StoreTyped, Buckets

LEMMA ArrayInsert ==
  ASSUME NEW m \in Seq(Nat), Len(m) # 0, NEW i \in Nat, i <= Len(m), NEW place \in Nat
  PROVE  LET a == array_list_insert(m, i, place) IN
         /\ a \in Seq(Nat) /\ Len(a) >= Len(m) /\ i + 1 <= Len(a)
         /\ HeadOf(a, i) = place
         /\ \A j \in Nat : j < Len(m) /\ j # i => HeadOf(a, j) = HeadOf(m, j)
<1> DEFINE zeros == [j \in 1 .. Len(m) |-> FirstPlace]
           grown == IF i >= Len(m) THEN m \o zeros ELSE m
           a == array_list_insert(m, i, place)
<1>1. Len(m) \in Nat \ {0}
  OBVIOUS
<1>2. zeros \in Seq(Nat) /\ Len(zeros) = Len(m)
  BY <1>1 DEF FirstPlace
<1> HIDE DEF zeros
<1>3. /\ grown \in Seq(Nat) /\ Len(grown) >= Len(m) /\ i + 1 <= Len(grown)
      /\ \A j \in 1 .. Len(m) : grown[j] = m[j]
  BY <1>1, <1>2
<1>4. a = [grown EXCEPT ![i + 1] = place]
  BY DEF array_list_insert, zeros
<1> HIDE DEF grown
<1>5. i + 1 \in 1 .. Len(grown) /\ Len(grown) \in Nat
  BY <1>3
<1>6. a \in Seq(Nat) /\ Len(a) = Len(grown) /\ a[i + 1] = place
      /\ \A j \in 1 .. Len(grown) : j # i + 1 => a[j] = grown[j]
  BY <1>3, <1>4, <1>5
<1>7. ASSUME NEW j \in Nat, j < Len(m), j # i PROVE a[j + 1] = m[j + 1]
  <2>1. j + 1 \in 1 .. Len(m) /\ j + 1 # i + 1
    BY <1>1, <1>7
  <2>2. j + 1 \in 1 .. Len(grown)
    BY <1>1, <1>3, <1>5, <2>1
  <2>3. QED
    BY <1>3, <1>6, <2>1, <2>2
<1>8. QED
  BY <1>3, <1>6, <1>7 DEF HeadOf

LEMMA Appended ==
  ASSUME NEW S, NEW q \in Seq(S), NEW e \in S
  PROVE  LET r == Append(q, e)
             n == Len(q) + 1
         IN /\ Len(q) \in Nat /\ n \in Nat /\ DOMAIN q = 1 .. Len(q)
            /\ r \in Seq(S) /\ DOMAIN r = 1 .. n /\ n \in DOMAIN r /\ r[n] = e
            /\ \A p \in DOMAIN q : r[p] = q[p] /\ p \in DOMAIN r /\ p < n /\ p # n
            /\ \A p \in DOMAIN r : p # n => p \in DOMAIN q
<1> DEFINE r == Append(q, e)
           n == Len(q) + 1
<1>1. Len(q) \in Nat /\ n \in Nat /\ DOMAIN q = 1 .. Len(q)
  OBVIOUS
<1>2. r \in Seq(S) /\ DOMAIN r = 1 .. n /\ r[n] = e
  OBVIOUS
<1>3. \A p \in DOMAIN q : r[p] = q[p]
  OBVIOUS
<1> HIDE DEF r
<1>4. \A p \in DOMAIN q : p \in DOMAIN r /\ p < n /\ p # n
  BY <1>1, <1>2
<1>5. n \in DOMAIN r /\ \A p \in DOMAIN r : p # n => p \in DOMAIN q
  BY <1>1, <1>2
<1>6. QED
  BY <1>1, <1>2, <1>3, <1>4, <1>5 DEF r

\* A bucket is appended: the first one of a new index, or one with a record in
\* front of a head that is full.
LEMMA Appending ==
  ASSUME NEW f, NEW m, NEW n, Chained(f, m, n), NEW i \in 0 .. n, NEW k \in Nat,
         NEW b \in Buckets, b.idx = i, \A s \in Slots : b.slots[s] \in Records <=> s <= b.count,
         \/ i = n /\ k = n + 1 /\ b.count = 0 /\ b.overflow = EndOfList
         \/ /\ i < n /\ k = n /\ b.count # 0
            /\ b.overflow = HeadOf(m, i) /\ f[HeadOf(m, i)].count = RecordsPerBucket
  PROVE  Chained(Append(f, b), array_list_insert(m, i, Len(f) + 1), k)
<1> DEFINE L == Len(f) + 1
           g == Append(f, b)
           a == array_list_insert(m, i, L)
<1>1. /\ StoreTyped(f, m, n) /\ f \in Seq(Buckets) /\ m \in Seq(Nat)
      /\ n \in Nat /\ n <= Len(m) /\ Len(m) # 0 /\ Len(m) \in Nat /\ i \in Nat /\ i <= Len(m)
  BY DEF Chained, StoreTyped
<1>2. /\ Len(f) \in Nat /\ L \in Nat /\ DOMAIN f = 1 .. Len(f)
      /\ g \in Seq(Buckets) /\ DOMAIN g = 1 .. L /\ L \in DOMAIN g /\ g[L] = b
      /\ \A p \in DOMAIN f : g[p] = f[p] /\ p \in DOMAIN g /\ p < L /\ p # L
      /\ \A p \in DOMAIN g : p # L => p \in DOMAIN f
  BY <1>1, Appended
<1> HIDE DEF L, g
<1>3. /\ a \in Seq(Nat) /\ Len(a) >= Len(m) /\ i + 1 <= Len(a) /\ HeadOf(a, i) = L
      /\ \A j \in Nat : j < Len(m) /\ j # i => HeadOf(a, j) = HeadOf(m, j)
  BY <1>1, <1>2, ArrayInsert
<1> HIDE DEF a
<1>4. /\ \A p \in DOMAIN f : p \in Nat /\ f[p] \in Buckets /\ f[p].idx \in 0 .. n - 1
           /\ f[p].count \in 0 .. RecordsPerBucket /\ f[p].overflow \in Nat
      /\ \A j \in 0 .. n - 1 : HeadOf(m, j) \in DOMAIN f /\ f[HeadOf(m, j)].idx = j
  BY <1>1, StoreFacts
<1>5. \A j \in 0 .. n - 1 : j # i => HeadOf(a, j) = HeadOf(m, j)
  BY <1>1, <1>3
<1>6. StoreTyped(g, a, k)
  <2>1. \A j \in 0 .. k - 1 : HeadOf(a, j) \in DOMAIN g /\ g[HeadOf(a, j)].idx = j
    <3> SUFFICES ASSUME NEW j \in 0 .. k - 1 PROVE HeadOf(a, j) \in DOMAIN g /\ g[HeadOf(a, j)].idx = j
      OBVIOUS
    <3>1. CASE j = i
      BY <1>2, <1>3, <3>1
    <3>2. CASE j # i
      <4>1. j \in 0 .. n - 1
        BY <1>1, <3>2
      <4>2. QED
        BY <1>2, <1>4, <1>5, <3>2, <4>1
    <3>3. QED
      BY <3>1, <3>2
  <2>2. \A p \in DOMAIN g : g[p].idx \in 0 .. k - 1
    <3> SUFFICES ASSUME NEW p \in DOMAIN g PROVE g[p].idx \in 0 .. k - 1
      OBVIOUS
    <3>1. CASE p = L
      BY <1>1, <1>2, <3>1
    <3>2. CASE p # L
      <4>1. g[p] = f[p] /\ f[p].idx \in 0 .. n - 1
        BY <1>2, <1>4, <3>2
      <4>2. QED
        BY <1>1, <4>1
    <3>3. QED
      BY <3>1, <3>2
  <2>3. k <= Len(a) /\ Len(a) # 0
    <3>1. Len(a) \in Nat /\ Len(m) \in Nat
      BY <1>1, <1>3
    <3>2. QED
      BY <1>1, <1>3, <3>1
  <2>4. QED
    BY <1>2, <1>3, <2>1, <2>2, <2>3 DEF StoreTyped
<1>7. Filled(g)
  <2> SUFFICES ASSUME NEW p \in DOMAIN g, NEW s \in Slots
               PROVE  g[p].slots[s] \in Records <=> s <= g[p].count
    BY DEF Filled
  <2>1. CASE p = L
    BY <1>2, <2>1
  <2>2. CASE p # L
    BY <1>2, <2>2 DEF Chained, Filled
  <2>3. QED
    BY <2>1, <2>2
<1>8. ASSUME NEW p \in DOMAIN f PROVE InChain(g, a, p) <=> InChain(f, m, p)
  <2>1. g[p] = f[p] /\ p # L /\ f[p].idx \in 0 .. n - 1
    BY <1>2, <1>4
  <2>2. CASE f[p].idx # i
    BY <1>5, <2>1, <2>2 DEF InChain
  <2>3. CASE f[p].idx = i
    <3>1. i < n
      BY <1>1, <2>1, <2>3
    <3>2. f[HeadOf(m, i)].count # 0
      BY <1>1, <3>1, Parameters
    <3>3. QED
      BY <1>3, <2>1, <2>3, <3>2 DEF InChain
  <2>4. QED
    BY <2>2, <2>3
<1>9. LinksBack(g, a)
  <2> SUFFICES ASSUME NEW p \in DOMAIN g
               PROVE  /\ g[p].overflow < p
                      /\ g[p].overflow # EndOfList => g[g[p].overflow].idx = g[p].idx
                      /\ g[p].overflow # EndOfList /\ InChain(g, a, p) => g[g[p].overflow].count # 0
                      /\ \A q \in DOMAIN g : q < p /\ g[q].idx = g[p].idx /\ InChain(g, a, q)
                                               => q <= g[p].overflow
    BY DEF LinksBack
  <2>1. CASE p # L
    <3>1. p \in DOMAIN f /\ g[p] = f[p] /\ p < L /\ p \in Nat /\ f[p].overflow \in Nat
      BY <1>2, <1>4, <2>1
    <3>2. /\ f[p].overflow < p
          /\ f[p].overflow # EndOfList => f[f[p].overflow].idx = f[p].idx
          /\ f[p].overflow # EndOfList /\ InChain(f, m, p) => f[f[p].overflow].count # 0
          /\ \A q \in DOMAIN f : q < p /\ f[q].idx = f[p].idx /\ InChain(f, m, q) => q <= f[p].overflow
      BY <3>1 DEF Chained, LinksBack
    <3>3. f[p].overflow # EndOfList => f[p].overflow \in DOMAIN f
      BY <1>2, <3>1, <3>2 DEF EndOfList
    <3>4. ASSUME NEW q \in DOMAIN g, q < p, g[q].idx = g[p].idx, InChain(g, a, q)
          PROVE  q <= g[p].overflow
      <4>1. q # L
        BY <1>2, <3>1, <3>4
      <4>2. q \in DOMAIN f /\ g[q] = f[q] /\ InChain(f, m, q)
        BY <1>2, <1>8, <3>4, <4>1
      <4>3. QED
        BY <3>1, <3>2, <3>4, <4>2
    <3>5. QED
      BY <1>2, <1>8, <3>1, <3>2, <3>3, <3>4
  <2>2. CASE p = L /\ i = n
    <3>1. g[p] = b /\ b.overflow = EndOfList /\ EndOfList < L
      BY <1>1, <1>2, <2>2 DEF EndOfList
    <3>2. ASSUME NEW q \in DOMAIN g, q < p, g[q].idx = g[p].idx PROVE FALSE
      <4>1. q \in DOMAIN f /\ g[q] = f[q] /\ f[q].idx \in 0 .. n - 1
        BY <1>2, <1>4, <2>2, <3>2
      <4>2. QED
        BY <1>1, <2>2, <3>1, <3>2, <4>1
    <3>3. QED
      BY <2>2, <3>1, <3>2
  <2>3. CASE p = L /\ i # n
    <3> DEFINE h == HeadOf(m, i)
    <3>1. i \in 0 .. n - 1 /\ g[p] = b /\ b.overflow = h /\ f[h].count = RecordsPerBucket
      BY <1>1, <1>2, <2>3
    <3>2. h \in DOMAIN f /\ f[h].idx = i /\ h < L /\ g[h] = f[h] /\ f[h].count # 0
      BY <1>2, <1>4, <3>1, Parameters
    <3>3. ASSUME NEW q \in DOMAIN g, q < p, g[q].idx = g[p].idx, InChain(g, a, q) PROVE q <= h
      <4>1. q \in DOMAIN f /\ g[q] = f[q] /\ InChain(f, m, q) /\ f[q].idx = i
        BY <1>2, <1>8, <2>3, <3>1, <3>3
      <4>2. CASE q = h
        BY <1>4, <4>1, <4>2
      <4>3. CASE q # h
        <5>1. f[q].count # 0
          BY <4>1, <4>3 DEF InChain
        <5>2. QED
          BY <4>1, <5>1 DEF Chained, RoomAtHeads
      <4>4. QED
        BY <4>2, <4>3
    <3>4. QED
      BY <2>3, <3>1, <3>2, <3>3
  <2>4. QED
    BY <2>1, <2>2, <2>3
<1>10. RoomAtHeads(g, a)
  <2> SUFFICES ASSUME NEW p \in DOMAIN g, NEW h, h = HeadOf(a, g[p].idx)
               PROVE  /\ g[p].count # 0 => p <= h /\ (p # h => g[p].count = RecordsPerBucket)
                      /\ p = h /\ g[p].count = 0 => g[p].overflow = EndOfList
    BY DEF RoomAtHeads
  <2>1. CASE p = L
    <3>1. h = L /\ g[p] = b
      BY <1>2, <1>3, <2>1
    <3>2. QED
      BY <1>2, <2>1, <3>1
  <2>2. CASE p # L /\ f[p].idx # i
    <3>1. p \in DOMAIN f /\ g[p] = f[p] /\ f[p].idx \in 0 .. n - 1
      BY <1>2, <1>4, <2>2
    <3>2. h = HeadOf(m, f[p].idx)
      BY <1>5, <2>2, <3>1
    <3>3. QED
      BY <3>1, <3>2 DEF Chained, RoomAtHeads
  <2>3. CASE p # L /\ f[p].idx = i
    <3>1. p \in DOMAIN f /\ g[p] = f[p] /\ f[p].idx \in 0 .. n - 1 /\ h = L /\ p < L
      BY <1>2, <1>3, <1>4, <2>3
    <3>2. f[HeadOf(m, i)].count = RecordsPerBucket
      BY <1>1, <2>3, <3>1
    <3>3. f[p].count # 0 /\ p # HeadOf(m, i) => f[p].count = RecordsPerBucket
      BY <2>3, <3>1 DEF Chained, RoomAtHeads
    <3>4. p \in Nat
      BY <1>4, <3>1
    <3>5. QED
      BY <1>2, <2>3, <3>1, <3>2, <3>3, <3>4
  <2>4. QED
    BY <2>1, <2>2, <2>3
<1>11. QED
  BY <1>6, <1>7, <1>9, <1>10 DEF Chained, g, a, L

LEMMA SameLinks ==
  ASSUME NEW f, NEW m, NEW n, Chained(f, m, n), NEW g \in Seq(Buckets), Len(g) = Len(f), Filled(g),
         \A p \in DOMAIN f : g[p].idx = f[p].idx /\ g[p].count = f[p].count
                             /\ g[p].overflow = f[p].overflow
  PROVE  Chained(g, m, n)
<1>1. StoreTyped(f, m, n)
  BY DEF Chained
<1>2. DOMAIN g = DOMAIN f
  BY <1>1, StoreFacts
<1>3. StoreTyped(g, m, n)
  BY <1>1, <1>2 DEF StoreTyped
<1>4. \A p \in DOMAIN f : InChain(g, m, p) <=> InChain(f, m, p)
  BY DEF InChain
<1>5. \A p \in DOMAIN f : f[p].overflow # EndOfList => f[p].overflow \in DOMAIN f
  <2> SUFFICES ASSUME NEW p \in DOMAIN f, f[p].overflow # EndOfList PROVE f[p].overflow \in DOMAIN f
    OBVIOUS
  <2>1. f[p].overflow < p /\ f[p].overflow \in Nat /\ DOMAIN f = 1 .. Len(f) /\ Len(f) \in Nat
    BY <1>1, StoreFacts DEF Chained, LinksBack
  <2>2. QED
    BY <2>1 DEF EndOfList
<1>6. LinksBack(g, m)
  <2>1. LinksBack(f, m)
    BY DEF Chained
  <2>2. QED
    BY <1>2, <1>4, <1>5, <2>1 DEF LinksBack
<1>7. RoomAtHeads(g, m)
  <2>1. RoomAtHeads(f, m)
    BY DEF Chained
  <2>2. QED
    BY <1>2, <2>1 DEF RoomAtHeads
<1>8. QED
  BY <1>3, <1>6, <1>7 DEF Chained

\* The bucket b takes the place of the one at h.
WithBucket(f, h, b) == [f EXCEPT ![h] = b]

LEMMA Replaced ==
  ASSUME NEW f, NEW m, NEW n, StoreTyped(f, m, n), Filled(f), NEW h \in DOMAIN f, NEW b \in Buckets,
         b.idx = f[h].idx, b.overflow = f[h].overflow,
         \A s \in Slots : b.slots[s] \in Records <=> s <= b.count,
         NEW g, g = WithBucket(f, h, b)
  PROVE  /\ g \in Seq(Buckets) /\ DOMAIN g = DOMAIN f /\ Len(g) = Len(f)
         /\ g[h] = b /\ \A p \in DOMAIN f : p # h => g[p] = f[p]
         /\ \A p \in DOMAIN f : g[p].idx = f[p].idx /\ g[p].overflow = f[p].overflow
         /\ Filled(g)
<1>1. f \in Seq(Buckets)
  BY DEF StoreTyped
<1>2. /\ g \in Seq(Buckets) /\ DOMAIN g = DOMAIN f /\ Len(g) = Len(f)
      /\ g[h] = b /\ \A p \in DOMAIN f : p # h => g[p] = f[p]
  BY <1>1 DEF WithBucket
<1>3. \A p \in DOMAIN f : g[p].idx = f[p].idx /\ g[p].overflow = f[p].overflow
  BY <1>2
<1>4. Filled(g)
  <2> SUFFICES ASSUME NEW p \in DOMAIN f, NEW s \in Slots
               PROVE  g[p].slots[s] \in Records <=> s <= g[p].count
    BY <1>2 DEF Filled
  <2>1. CASE p = h
    BY <1>2, <2>1
  <2>2. CASE p # h
    BY <1>2, <2>2 DEF Filled
  <2>3. QED
    BY <2>1, <2>2
<1>5. QED
  BY <1>2, <1>3, <1>4

LEMMA LinkInFile ==
  ASSUME NEW f, NEW m, NEW n, Chained(f, m, n), NEW p \in DOMAIN f, f[p].overflow # EndOfList
  PROVE  f[p].overflow \in DOMAIN f /\ f[p].overflow < p /\ f[f[p].overflow].idx = f[p].idx
<1>1. StoreTyped(f, m, n)
  BY DEF Chained
<1>2. f[p].overflow < p /\ f[f[p].overflow].idx = f[p].idx /\ f[p].overflow \in Nat
      /\ DOMAIN f = 1 .. Len(f) /\ Len(f) \in Nat
  BY <1>1, StoreFacts DEF Chained, LinksBack
<1>3. QED
  BY <1>2 DEF EndOfList

LEMMA HeadChanges ==
  ASSUME NEW f, NEW m, NEW n, Chained(f, m, n), NEW i \in 0 .. n - 1, NEW h, h = HeadOf(m, i),
         NEW b \in Buckets, b.idx = i, b.overflow = f[h].overflow,
         \A s \in Slots : b.slots[s] \in Records <=> s <= b.count,
         b.count # 0 \/ b.overflow = EndOfList
  PROVE  Chained(WithBucket(f, h, b), m, n)
<1> DEFINE g == WithBucket(f, h, b)
<1>1. StoreTyped(f, m, n) /\ Filled(f) /\ LinksBack(f, m) /\ RoomAtHeads(f, m)
  BY DEF Chained
<1>2. h \in DOMAIN f /\ f[h].idx = i
  BY <1>1, StoreFacts
<1>2a. g = WithBucket(f, h, b) /\ b.idx = f[h].idx
  BY <1>2
<1> HIDE DEF g
<1>3. /\ g \in Seq(Buckets) /\ DOMAIN g = DOMAIN f /\ Len(g) = Len(f)
      /\ g[h] = b /\ \A p \in DOMAIN f : p # h => g[p] = f[p]
      /\ \A p \in DOMAIN f : g[p].idx = f[p].idx /\ g[p].overflow = f[p].overflow
      /\ Filled(g)
  BY <1>1, <1>2, <1>2a, Replaced
<1>4. StoreTyped(g, m, n)
  BY <1>1, <1>3 DEF StoreTyped
<1>5. \A p \in DOMAIN f : p \in Nat /\ f[p].overflow \in Nat
  BY <1>1, StoreFacts
<1>6. \A p \in DOMAIN f : InChain(g, m, p) <=> InChain(f, m, p)
  BY <1>2, <1>3 DEF InChain
<1>7. LinksBack(g, m)
  <2> SUFFICES ASSUME NEW p \in DOMAIN f
               PROVE  /\ g[p].overflow < p
                      /\ g[p].overflow # EndOfList => g[g[p].overflow].idx = g[p].idx
                      /\ g[p].overflow # EndOfList /\ InChain(g, m, p) => g[g[p].overflow].count # 0
                      /\ \A q \in DOMAIN f : q < p /\ g[q].idx = g[p].idx /\ InChain(g, m, q)
                                               => q <= g[p].overflow
    BY <1>3 DEF LinksBack
  <2>1. /\ f[p].overflow < p
        /\ f[p].overflow # EndOfList => f[f[p].overflow].idx = f[p].idx
        /\ f[p].overflow # EndOfList /\ InChain(f, m, p) => f[f[p].overflow].count # 0
        /\ \A q \in DOMAIN f : q < p /\ f[q].idx = f[p].idx /\ InChain(f, m, q) => q <= f[p].overflow
    BY <1>1 DEF LinksBack
  <2>2. f[p].overflow # EndOfList => f[p].overflow \in DOMAIN f
    BY LinkInFile
  <2>3. ASSUME g[p].overflow # EndOfList, InChain(g, m, p) PROVE g[g[p].overflow].count # 0
    <3>1. f[p].overflow # EndOfList /\ InChain(f, m, p) /\ g[p].overflow = f[p].overflow
      BY <1>3, <1>6, <2>3
    <3>2. CASE f[p].overflow # h
      BY <1>3, <2>1, <2>2, <3>1, <3>2
    <3>3. CASE f[p].overflow = h
      <4>1. f[p].idx = i /\ h < p
        BY <1>2, <2>1, <3>1, <3>3
      <4>2. p = h \/ p <= h
        BY <1>1, <3>1, <4>1 DEF InChain, RoomAtHeads
      <4>3. QED
        BY <1>2, <1>5, <4>1, <4>2
    <3>4. QED
      BY <3>2, <3>3
  <2>4. QED
    BY <1>3, <1>6, <2>1, <2>2, <2>3
<1>8. RoomAtHeads(g, m)
  <2> SUFFICES ASSUME NEW p \in DOMAIN f, NEW e, e = HeadOf(m, f[p].idx)
               PROVE  /\ g[p].count # 0 => p <= e /\ (p # e => g[p].count = RecordsPerBucket)
                      /\ p = e /\ g[p].count = 0 => g[p].overflow = EndOfList
    BY <1>3 DEF RoomAtHeads
  <2>1. CASE p = h
    BY <1>2, <1>3, <1>5, <2>1
  <2>2. CASE p # h
    BY <1>1, <1>3, <2>2 DEF RoomAtHeads
  <2>3. QED
    BY <2>1, <2>2
<1>9. QED
  BY <1>3, <1>4, <1>7, <1>8 DEF Chained, g

LEMMA HeadLeaves ==
  ASSUME NEW f, NEW m, NEW n, Chained(f, m, n), NEW i \in 0 .. n - 1, NEW h, h = HeadOf(m, i),
         NEW b \in Buckets, b.idx = i, b.overflow = f[h].overflow, b.count = 0,
         \A s \in Slots : b.slots[s] \in Records <=> s <= b.count,
         b.overflow # EndOfList
  PROVE  Chained(WithBucket(f, h, b), array_list_insert(m, i, b.overflow), n)
<1> DEFINE g == WithBucket(f, h, b)
           o == b.overflow
           a == array_list_insert(m, i, o)
<1>1. StoreTyped(f, m, n) /\ Filled(f) /\ LinksBack(f, m) /\ RoomAtHeads(f, m)
  BY DEF Chained
<1>2. h \in DOMAIN f /\ f[h].idx = i /\ InChain(f, m, h)
  BY <1>1, StoreFacts DEF InChain
<1>2a. g = WithBucket(f, h, b) /\ b.idx = f[h].idx
  BY <1>2
<1> HIDE DEF g
<1>3. /\ g \in Seq(Buckets) /\ DOMAIN g = DOMAIN f /\ Len(g) = Len(f)
      /\ g[h] = b /\ \A p \in DOMAIN f : p # h => g[p] = f[p]
      /\ \A p \in DOMAIN f : g[p].idx = f[p].idx /\ g[p].overflow = f[p].overflow
      /\ Filled(g)
  BY <1>1, <1>2, <1>2a, Replaced
<1>4. o \in DOMAIN f /\ o < h /\ f[o].idx = i /\ f[o].count # 0
  BY <1>1, <1>2, LinkInFile DEF LinksBack
<1>5. \A p \in DOMAIN f : p \in Nat /\ f[p].overflow \in Nat /\ f[p].idx \in 0 .. n - 1
  BY <1>1, StoreFacts
<1>6. m \in Seq(Nat) /\ n \in Nat /\ n <= Len(m) /\ Len(m) # 0 /\ Len(m) \in Nat /\ i \in Nat /\ i <= Len(m)
  BY <1>1 DEF StoreTyped
<1>7. /\ a \in Seq(Nat) /\ Len(a) >= Len(m) /\ Len(a) \in Nat /\ HeadOf(a, i) = o
      /\ \A j \in Nat : j < Len(m) /\ j # i => HeadOf(a, j) = HeadOf(m, j)
  BY <1>4, <1>5, <1>6, ArrayInsert
<1> HIDE DEF a, o
<1>8. \A j \in 0 .. n - 1 : j # i => HeadOf(a, j) = HeadOf(m, j)
  BY <1>6, <1>7
<1>9. StoreTyped(g, a, n)
  <2>1. \A j \in 0 .. n - 1 : HeadOf(a, j) \in DOMAIN g /\ g[HeadOf(a, j)].idx = j
    <3> SUFFICES ASSUME NEW j \in 0 .. n - 1 PROVE HeadOf(a, j) \in DOMAIN g /\ g[HeadOf(a, j)].idx = j
      OBVIOUS
    <3>1. CASE j = i
      BY <1>3, <1>4, <1>7, <3>1
    <3>2. CASE j # i
      BY <1>1, <1>3, <1>8, <3>2, StoreFacts
    <3>3. QED
      BY <3>1, <3>2
  <2>2. \A p \in DOMAIN g : g[p].idx \in 0 .. n - 1
    BY <1>3, <1>5
  <2>3. QED
    BY <1>3, <1>6, <1>7, <2>1, <2>2 DEF StoreTyped
<1>10. \A p \in DOMAIN f : p # h => (InChain(g, a, p) <=> InChain(f, m, p))
  <2> SUFFICES ASSUME NEW p \in DOMAIN f, p # h PROVE InChain(g, a, p) <=> InChain(f, m, p)
    OBVIOUS
  <2>1. g[p] = f[p]
    BY <1>3
  <2>2. CASE f[p].idx # i
    BY <1>5, <1>8, <2>1, <2>2 DEF InChain
  <2>3. CASE f[p].idx = i
    BY <1>4, <1>7, <2>1, <2>3 DEF InChain
  <2>4. QED
    BY <2>2, <2>3
<1>11. ~InChain(g, a, h)
  BY <1>2, <1>3, <1>4, <1>5, <1>7 DEF InChain
<1>12. LinksBack(g, a)
  <2> SUFFICES ASSUME NEW p \in DOMAIN f
               PROVE  /\ g[p].overflow < p
                      /\ g[p].overflow # EndOfList => g[g[p].overflow].idx = g[p].idx
                      /\ g[p].overflow # EndOfList /\ InChain(g, a, p) => g[g[p].overflow].count # 0
                      /\ \A q \in DOMAIN f : q < p /\ g[q].idx = g[p].idx /\ InChain(g, a, q)
                                               => q <= g[p].overflow
    BY <1>3 DEF LinksBack
  <2>1. /\ f[p].overflow < p
        /\ f[p].overflow # EndOfList => f[f[p].overflow].idx = f[p].idx
        /\ f[p].overflow # EndOfList /\ InChain(f, m, p) => f[f[p].overflow].count # 0
        /\ \A q \in DOMAIN f : q < p /\ f[q].idx = f[p].idx /\ InChain(f, m, q) => q <= f[p].overflow
    BY <1>1 DEF LinksBack
  <2>2. f[p].overflow # EndOfList => f[p].overflow \in DOMAIN f
    BY LinkInFile
  <2>3. ASSUME g[p].overflow # EndOfList, InChain(g, a, p) PROVE g[g[p].overflow].count # 0
    <3>1. p # h /\ f[p].overflow # EndOfList /\ InChain(f, m, p) /\ g[p].overflow = f[p].overflow
      BY <1>3, <1>10, <1>11, <2>3
    <3>2. CASE f[p].overflow # h
      BY <1>3, <2>1, <2>2, <3>1, <3>2
    <3>3. CASE f[p].overflow = h
      <4>1. f[p].idx = i /\ h < p
        BY <1>2, <2>1, <3>1, <3>3
      <4>2. p = h \/ p <= h
        BY <1>1, <3>1, <4>1 DEF InChain, RoomAtHeads
      <4>3. QED
        BY <1>2, <1>5, <4>1, <4>2
    <3>4. QED
      BY <3>2, <3>3
  <2>4. ASSUME NEW q \in DOMAIN f, q < p, g[q].idx = g[p].idx, InChain(g, a, q) PROVE q <= g[p].overflow
    BY <1>3, <1>10, <1>11, <2>1, <2>4
  <2>5. QED
    BY <1>3, <2>1, <2>2, <2>3, <2>4
<1>13. RoomAtHeads(g, a)
  <2> SUFFICES ASSUME NEW p \in DOMAIN f, NEW e, e = HeadOf(a, f[p].idx)
               PROVE  /\ g[p].count # 0 => p <= e /\ (p # e => g[p].count = RecordsPerBucket)
                      /\ p = e /\ g[p].count = 0 => g[p].overflow = EndOfList
    BY <1>3 DEF RoomAtHeads
  <2>1. CASE f[p].idx # i
    BY <1>1, <1>2, <1>3, <1>5, <1>8, <2>1 DEF RoomAtHeads
  <2>2. CASE p = h
    BY <1>2, <1>3, <1>4, <1>5, <1>7, <2>2
  <2>3. CASE f[p].idx = i /\ p # h
    <3>1. g[p] = f[p] /\ e = o
      BY <1>3, <1>7, <2>3
    <3>2. ASSUME f[p].count # 0 PROVE p <= o /\ f[p].count = RecordsPerBucket
      <4>1. p <= h /\ f[p].count = RecordsPerBucket
        BY <1>1, <2>3, <3>2 DEF RoomAtHeads
      <4>2. p < h /\ InChain(f, m, p)
        BY <1>2, <1>5, <2>3, <3>2, <4>1 DEF InChain
      <4>3. QED
        BY <1>1, <1>2, <2>3, <4>1, <4>2 DEF LinksBack, o
    <3>3. QED
      BY <1>4, <3>1, <3>2
  <2>4. QED
    BY <2>1, <2>2, <2>3
<1>14. QED
  BY <1>3, <1>9, <1>12, <1>13 DEF Chained, g, a, o

-----------------------------------------------------------------------------
(***************************************************************************)
(* Chains.  The walk along the links lists the buckets of an index that    *)
(* are in its chain, from the newest on.                                   *)
(***************************************************************************)
FromBody(g, p) == IF p = EndOfList THEN << >> ELSE <<p>> \o g[file[p].overflow]

IsFromUpTo(g, n) == g = [p \in 0 .. n |-> FromBody(g, p)]

\* The recursive definition of a chain has a solution.
LEMMA FromExists ==
  ASSUME NEW m, NEW n, Chained(file, m, n)
  PROVE  \E g : IsFromUpTo(g, Len(file))
<1>1. Len(file) \in Nat /\ DOMAIN file = 1 .. Len(file)
      /\ \A p \in DOMAIN file : file[p].overflow \in Nat /\ file[p].overflow < p
  BY StoreFacts DEF Chained, LinksBack
<1> DEFINE D == { j \in Nat : j <= Len(file) /\ ~ \E g : IsFromUpTo(g, j) }
<1>2. ASSUME D # {} PROVE FALSE
  <2>1. D \in SUBSET Nat
    OBVIOUS
  <2>2. PICK j \in D : \A e \in D : j <= e
    BY <1>2, <2>1, LeastNatural
  <2>3. CASE j = 0
    <3> DEFINE g == [p \in 0 .. 0 |-> << >>]
    <3>1. \A p \in 0 .. 0 : FromBody(g, p) = << >>
      BY DEF FromBody, EndOfList
    <3>2. g = [p \in 0 .. 0 |-> FromBody(g, p)]
      BY <3>1
    <3>3. QED
      BY <2>2, <2>3, <3>2 DEF IsFromUpTo
  <2>4. CASE j # 0
    <3>1. j \in Nat /\ j - 1 \in Nat /\ j - 1 <= Len(file) /\ j - 1 \notin D /\ j \in DOMAIN file
      BY <1>1, <2>2, <2>4
    <3>2. PICK f : IsFromUpTo(f, j - 1)
      BY <3>1
    <3> DEFINE g == [p \in 0 .. j |-> IF p = j THEN FromBody(f, j) ELSE f[p]]
    <3>3. g = [p \in 0 .. j |-> g[p]] /\ g[j] = FromBody(f, j) /\ \A p \in 0 .. j - 1 : g[p] = f[p]
      BY <3>1
    <3> HIDE DEF g
    <3>4. \A p \in 0 .. j - 1 : f[p] = FromBody(f, p)
      BY <3>2 DEF IsFromUpTo
    <3>5. \A p \in 0 .. j : p # EndOfList => p \in DOMAIN file /\ file[p].overflow \in 0 .. j - 1
      BY <1>1, <3>1 DEF EndOfList
    <3>6. ASSUME NEW p \in 0 .. j PROVE g[p] = FromBody(g, p)
      <4>1. FromBody(g, p) = FromBody(f, p)
        BY <3>3, <3>5 DEF FromBody
      <4>2. CASE p = j
        BY <3>3, <4>1, <4>2
      <4>3. CASE p # j
        <5>1. p \in 0 .. j - 1
          BY <3>1, <4>3
        <5>2. QED
          BY <3>3, <3>4, <4>1, <5>1
      <4>4. QED
        BY <4>2, <4>3
    <3>7. IsFromUpTo(g, j)
      BY <3>3, <3>6 DEF IsFromUpTo
    <3>8. QED
      BY <2>2, <3>7
  <2>5. QED
    BY <2>3, <2>4
<1>3. QED
  BY <1>1, <1>2

\* q is the chain from p on.
ListsChain(m, p, q) ==
  /\ q \in Seq(DOMAIN file)
  /\ p = EndOfList => q = << >>
  /\ p # EndOfList =>
       /\ Len(q) # 0 /\ q[1] = p
       /\ \A i \in 1 .. Len(q) : q[i] <= p /\ file[q[i]].idx = file[p].idx /\ InChain(file, m, q[i])
       /\ \A x \in DOMAIN file : x <= p /\ file[x].idx = file[p].idx /\ InChain(file, m, x)
                                   => \E i \in 1 .. Len(q) : q[i] = x
       /\ \A i, j \in 1 .. Len(q) : i < j => q[j] < q[i]

LEMMA ListsOneMore ==
  ASSUME NEW m, NEW n, Chained(file, m, n), NEW p \in DOMAIN file, InChain(file, m, p),
         NEW r, ListsChain(m, file[p].overflow, r)
  PROVE  ListsChain(m, p, <<p>> \o r)
<1> DEFINE o == file[p].overflow
           q == <<p>> \o r
<1>1. \A x \in DOMAIN file : x \in Nat
  BY StoreFacts DEF Chained
<1>2. r \in Seq(DOMAIN file) /\ Len(r) \in Nat /\ \A i \in 1 .. Len(r) : r[i] \in DOMAIN file
  BY SequenceElement, SequenceDomain DEF ListsChain
<1>3. /\ q \in Seq(DOMAIN file) /\ Len(q) = Len(r) + 1 /\ q[1] = p
      /\ \A i \in 1 .. Len(r) : q[i + 1] = r[i]
  BY <1>2, Preceded
<1> HIDE DEF q
<1>4. \A i \in 1 .. Len(q) : i # 1 => i - 1 \in 1 .. Len(r) /\ q[i] = r[i - 1]
  <2> SUFFICES ASSUME NEW i \in 1 .. Len(q), i # 1
               PROVE  i - 1 \in 1 .. Len(r) /\ q[i] = r[i - 1]
    OBVIOUS
  <2>1. i - 1 \in 1 .. Len(r) /\ (i - 1) + 1 = i
    BY <1>2, <1>3
  <2>2. q[(i - 1) + 1] = r[i - 1]
    BY <1>3, <2>1
  <2>3. QED
    BY <2>1, <2>2
<1>5. o # EndOfList => o \in DOMAIN file /\ o < p /\ file[o].idx = file[p].idx
  BY LinkInFile
<1>6. \A i \in 1 .. Len(r) : r[i] < p /\ file[r[i]].idx = file[p].idx /\ InChain(file, m, r[i])
  <2> SUFFICES ASSUME NEW i \in 1 .. Len(r)
               PROVE  r[i] < p /\ file[r[i]].idx = file[p].idx /\ InChain(file, m, r[i])
    OBVIOUS
  <2>1. o # EndOfList
    BY DEF ListsChain
  <2>2. r[i] <= o /\ file[r[i]].idx = file[o].idx /\ InChain(file, m, r[i])
    BY <2>1 DEF ListsChain
  <2>3. r[i] \in Nat /\ o \in Nat /\ p \in Nat
    BY <1>1, <1>2, <1>5, <2>1
  <2>4. QED
    BY <1>5, <2>1, <2>2, <2>3
<1>7. ASSUME NEW i \in 1 .. Len(q) PROVE q[i] <= p /\ file[q[i]].idx = file[p].idx /\ InChain(file, m, q[i])
  <2>1. CASE i = 1
    BY <1>1, <1>3, <2>1
  <2>2. CASE i # 1
    <3>1. i - 1 \in 1 .. Len(r) /\ q[i] = r[i - 1] /\ r[i - 1] \in Nat /\ p \in Nat
      BY <1>1, <1>2, <1>4, <2>2
    <3>2. QED
      BY <1>6, <3>1
  <2>3. QED
    BY <2>1, <2>2
<1>8. ASSUME NEW x \in DOMAIN file, x <= p, file[x].idx = file[p].idx, InChain(file, m, x)
      PROVE  \E i \in 1 .. Len(q) : q[i] = x
  <2>1. CASE x = p
    BY <1>2, <1>3, <2>1
  <2>2. CASE x # p
    <3>1. x < p /\ x \in Nat /\ x # 0
      BY <1>1, <1>8, <2>2, StoreFacts DEF Chained
    <3>2. x <= o
      BY <1>8, <3>1 DEF Chained, LinksBack
    <3>3. o # EndOfList
      BY <3>1, <3>2 DEF EndOfList
    <3>4. PICK i \in 1 .. Len(r) : r[i] = x
      BY <1>5, <1>8, <3>2, <3>3 DEF ListsChain
    <3>5. i + 1 \in 1 .. Len(q) /\ q[i + 1] = x
      BY <1>2, <1>3, <3>4
    <3>6. QED
      BY <3>5
  <2>3. QED
    BY <2>1, <2>2
<1>9. ASSUME NEW i \in 1 .. Len(q), NEW j \in 1 .. Len(q), i < j PROVE q[j] < q[i]
  <2>1. j # 1 /\ j - 1 \in 1 .. Len(r) /\ q[j] = r[j - 1]
    BY <1>4, <1>9
  <2>2. CASE i = 1
    BY <1>3, <1>6, <2>1, <2>2
  <2>3. CASE i # 1
    <3>1. i - 1 \in 1 .. Len(r) /\ q[i] = r[i - 1] /\ i - 1 < j - 1
      BY <1>4, <1>9, <2>3
    <3>2. o # EndOfList
      BY <3>1 DEF ListsChain
    <3>3. r[j - 1] < r[i - 1]
      BY <2>1, <3>1, <3>2 DEF ListsChain
    <3>4. QED
      BY <2>1, <3>1, <3>3
  <2>4. QED
    BY <2>2, <2>3
<1>10. p # EndOfList /\ Len(q) # 0
  BY <1>2, <1>3, StoreFacts DEF EndOfList, Chained
<1>11. ListsChain(m, p, q)
  BY <1>3, <1>7, <1>8, <1>9, <1>10 DEF ListsChain
<1>12. QED
  BY <1>11 DEF q

LEMMA ChainIs ==
  ASSUME NEW m, NEW n, Chained(file, m, n), NEW p \in DOMAIN file, InChain(file, m, p)
  PROVE  ListsChain(m, p, Chain(p))
<1> DEFINE from == CHOOSE g : IsFromUpTo(g, Len(file))
<1>1. IsFromUpTo(from, Len(file))
  BY FromExists
<1>2. Chain(p) = from[p]
  BY DEF Chain, IsFromUpTo, FromBody
<1> HIDE DEF from
<1>3. Len(file) \in Nat /\ DOMAIN file = 1 .. Len(file)
  BY StoreFacts DEF Chained
<1>4. \A x \in 0 .. Len(file) : from[x] = FromBody(from, x)
  BY <1>1 DEF IsFromUpTo
<1>5. ListsChain(m, EndOfList, from[EndOfList])
  <2>1. EndOfList \in 0 .. Len(file)
    BY <1>3 DEF EndOfList
  <2>2. from[EndOfList] = << >>
    BY <1>4, <2>1 DEF FromBody
  <2>3. << >> \in Seq(DOMAIN file)
    OBVIOUS
  <2>4. QED
    BY <2>2, <2>3 DEF ListsChain
<1> DEFINE bad == { x \in DOMAIN file : InChain(file, m, x) /\ ~ListsChain(m, x, from[x]) }
<1>6. ASSUME bad # {} PROVE FALSE
  <2>1. bad \in SUBSET Nat
    BY <1>3
  <2>2. PICK x \in bad : \A e \in bad : x <= e
    BY <1>6, <2>1, LeastNatural
  <2> DEFINE o == file[x].overflow
  <2>3. ListsChain(m, o, from[o])
    <3>1. CASE o = EndOfList
      BY <1>5, <3>1
    <3>2. CASE o # EndOfList
      <4>1. o \in DOMAIN file /\ o < x
        BY <2>2, <3>2, LinkInFile
      <4>2. InChain(file, m, o)
        BY <2>2, <3>2 DEF Chained, LinksBack, InChain
      <4>3. o \in Nat /\ x \in Nat
        BY <1>3, <2>2, <4>1
      <4>4. o \notin bad
        BY <2>2, <4>1, <4>3
      <4>5. QED
        BY <4>1, <4>2, <4>4
    <3>3. QED
      BY <3>1, <3>2
  <2>4. x \in 0 .. Len(file) /\ x # EndOfList
    BY <1>3, <2>2 DEF EndOfList
  <2>5. from[x] = <<x>> \o from[o]
    BY <1>4, <2>4 DEF FromBody
  <2>6. x \in DOMAIN file /\ InChain(file, m, x) /\ ~ListsChain(m, x, from[x])
    BY <2>2
  <2>7. ListsChain(m, x, <<x>> \o from[o])
    BY <2>3, <2>6, ListsOneMore
  <2>8. QED
    BY <2>5, <2>6, <2>7
<1>7. QED
  BY <1>2, <1>6

\* The chain of an index.
LEMMA ChainOfIndex ==
  ASSUME NEW m, NEW n, Chained(file, m, n), NEW i \in 0 .. n - 1, NEW q, q = Chain(HeadOf(m, i))
  PROVE  /\ DOMAIN q = 1 .. Len(q) /\ Len(q) \in Nat
         /\ { q[j] : j \in DOMAIN q } = { p \in DOMAIN file : file[p].idx = i /\ InChain(file, m, p) }
         /\ \A j \in DOMAIN q : /\ q[j] \in DOMAIN file /\ file[q[j]].idx = i
                                /\ j > 1 => file[q[j]].count = RecordsPerBucket
<1>1. PICK h : h = HeadOf(m, i)
  OBVIOUS
<1>2. h \in DOMAIN file /\ file[h].idx = i /\ h # EndOfList /\ \A p \in DOMAIN file : p \in Nat
  BY <1>1, StoreFacts DEF Chained, EndOfList
<1>3. InChain(file, m, h)
  BY <1>1, <1>2 DEF InChain
<1>4. ListsChain(m, h, q)
  BY <1>1, <1>2, <1>3, ChainIs
<1>5. DOMAIN q = 1 .. Len(q) /\ Len(q) \in Nat /\ \A j \in 1 .. Len(q) : q[j] \in DOMAIN file
  BY <1>4, SequenceDomain, SequenceElement DEF ListsChain
<1>6. ASSUME NEW p \in DOMAIN file, file[p].idx = i, InChain(file, m, p) PROVE \E j \in 1 .. Len(q) : q[j] = p
  <2>1. p <= h
    BY <1>1, <1>2, <1>6 DEF InChain, Chained, RoomAtHeads
  <2>2. QED
    BY <1>2, <1>4, <1>6, <2>1 DEF ListsChain
<1>7. \A j \in 1 .. Len(q) : file[q[j]].idx = i /\ InChain(file, m, q[j])
  BY <1>2, <1>4 DEF ListsChain
<1>8. ASSUME NEW j \in 1 .. Len(q), j > 1 PROVE file[q[j]].count = RecordsPerBucket
  <2>1. q[j] < q[1] /\ q[1] = h
    <3>1. 1 \in 1 .. Len(q)
      BY <1>5
    <3>2. QED
      BY <1>2, <1>4, <1>8, <3>1 DEF ListsChain
  <2>2. q[j] # h /\ q[j] \in DOMAIN file
    BY <1>2, <1>5, <2>1
  <2>3. file[q[j]].count # 0
    BY <1>1, <1>7, <2>2 DEF InChain
  <2>4. QED
    BY <1>1, <1>7, <2>2, <2>3 DEF Chained, RoomAtHeads
<1>9. QED
  BY <1>5, <1>6, <1>7, <1>8

-----------------------------------------------------------------------------
(***************************************************************************)
(* The cells, which hold the records, and how they are counted.            *)
(***************************************************************************)
LEMMA CellFacts ==
  ASSUME NEW f, NEW m, NEW n, Chained(f, m, n)
  PROVE  /\ IsFiniteSet(Cells(f))
         /\ \A c \in Cells(f) :
              /\ c = <<c[1], c[2]>> /\ c[1] \in DOMAIN f /\ c[2] \in Slots
              /\ c[1] \in Nat /\ c[2] \in Nat \ {0} /\ c[2] <= f[c[1]].count
              /\ f[c[1]].count \in Nat \ {0} /\ InChain(f, m, c[1])
              /\ RecordAt(f, c) \in Records
         /\ \A p \in DOMAIN f, s \in Slots : s <= f[p].count => <<p, s>> \in Cells(f)
<1>1. StoreTyped(f, m, n) /\ Filled(f)
  BY DEF Chained
<1>2. /\ Len(f) \in Nat /\ DOMAIN f = 1 .. Len(f) /\ RecordsPerBucket \in Nat
      /\ \A p \in DOMAIN f : f[p].count \in 0 .. RecordsPerBucket
  BY <1>1, StoreFacts, Parameters
<1>3. IsFiniteSet((DOMAIN f) \X Slots)
  <2>1. IsFiniteSet(DOMAIN f) /\ IsFiniteSet(Slots)
    BY <1>2, FS_Interval DEF Slots
  <2>2. QED
    BY <2>1, FS_Product
<1>4. IsFiniteSet(Cells(f))
  BY <1>3, FS_Subset DEF Cells
<1>5. ASSUME NEW c \in Cells(f)
      PROVE  /\ c = <<c[1], c[2]>> /\ c[1] \in DOMAIN f /\ c[2] \in Slots
             /\ c[1] \in Nat /\ c[2] \in Nat \ {0} /\ c[2] <= f[c[1]].count
             /\ f[c[1]].count \in Nat \ {0} /\ InChain(f, m, c[1])
             /\ RecordAt(f, c) \in Records
  <2>1. c = <<c[1], c[2]>> /\ c[1] \in DOMAIN f /\ c[2] \in Slots /\ c[2] <= f[c[1]].count
    BY DEF Cells
  <2>2. c[1] \in Nat /\ c[2] \in Nat \ {0}
    BY <1>2, <2>1 DEF Slots
  <2>3. f[c[1]].count \in Nat \ {0}
    BY <1>2, <2>1, <2>2
  <2>4. f[c[1]].slots[c[2]] \in Records
    BY <1>1, <2>1 DEF Filled
  <2>5. QED
    BY <2>1, <2>2, <2>3, <2>4 DEF InChain, RecordAt
<1>6. \A p \in DOMAIN f, s \in Slots : s <= f[p].count => <<p, s>> \in Cells(f)
  BY DEF Cells
<1>7. QED
  BY <1>4, <1>5, <1>6

\* The cells of a bucket are as many as its count.
LEMMA CellsOfBucket ==
  ASSUME NEW f, NEW m, NEW n, Chained(f, m, n), NEW p \in DOMAIN f
  PROVE  Cardinality({ c \in Cells(f) : c[1] = p }) = f[p].count
<1>1. f[p].count \in 0 .. RecordsPerBucket /\ RecordsPerBucket \in Nat
  BY StoreFacts, Parameters DEF Chained
<1>2. { c \in Cells(f) : c[1] = p } = Column(p, f[p].count)
  BY <1>1 DEF Cells, Column, Slots
<1>3. QED
  BY <1>1, <1>2, ColumnIs

LEMMA ReachedIs ==
  ASSUME Chained(file, bucket_map, num_buckets)
  PROVE  Reached = { p \in DOMAIN file : InChain(file, bucket_map, p) }
<1> DEFINE chain(i) == Chain(bucket_map[i])
           R == { p \in DOMAIN file : InChain(file, bucket_map, p) }
<1>1. num_buckets \in Nat
  BY DEF Chained, StoreTyped
<1>2. ASSUME NEW i \in 1 .. num_buckets
      PROVE  { chain(i)[j] : j \in DOMAIN chain(i) } = { p \in R : file[p].idx = i - 1 }
  <2>1. i - 1 \in 0 .. num_buckets - 1 /\ chain(i) = Chain(HeadOf(bucket_map, i - 1))
    BY <1>1 DEF HeadOf
  <2>2. PICK q : q = chain(i)
    OBVIOUS
  <2>3. { q[j] : j \in DOMAIN q } = { p \in DOMAIN file : file[p].idx = i - 1 /\ InChain(file, bucket_map, p) }
    BY <2>1, <2>2, ChainOfIndex
  <2>4. QED
    BY <2>2, <2>3
<1>3. \A p \in R : file[p].idx + 1 \in 1 .. num_buckets /\ (file[p].idx + 1) - 1 = file[p].idx
  BY <1>1, StoreFacts DEF Chained
<1>4. Reached = UNION { { chain(i)[j] : j \in DOMAIN chain(i) } : i \in 1 .. num_buckets }
  BY DEF Reached
<1> HIDE DEF chain, R
<1>5. \A p : p \in Reached <=> \E i \in 1 .. num_buckets : p \in { q \in R : file[q].idx = i - 1 }
  BY <1>2, <1>4
<1>6. \A p : p \in Reached <=> p \in R
  BY <1>3, <1>5
<1>7. QED
  BY <1>6 DEF R

LEMMA CountsAdd ==
  ASSUME Chained(file, bucket_map, num_buckets)
  PROVE  MapThenSumSet(LAMBDA p : file[p].count, Reached) = Cardinality(Cells(file))
<1> DEFINE B == Cells(file)
           val == [c \in B |-> c[1]]
           f == [p \in Reached |-> file[p].count]
<1>1. IsFiniteSet(B) /\ \A c \in B : c[1] \in Reached
  BY CellFacts, ReachedIs
<1>2. IsFiniteSet(Reached)
  <2>1. IsFiniteSet(DOMAIN file)
    BY StoreFacts, FS_Interval DEF Chained
  <2>2. QED
    BY <2>1, ReachedIs, FS_Subset
<1>3. ASSUME NEW p \in Reached PROVE f[p] = Cardinality(Valued(B, val, p))
  <2>1. Valued(B, val, p) = { c \in Cells(file) : c[1] = p }
    BY DEF Valued
  <2>2. QED
    BY <2>1, CellsOfBucket, ReachedIs
<1>4. \A c \in B : val[c] \in Reached
  BY <1>1
<1>5. MapThenSumSet(LAMBDA p : file[p].count, Reached) = Total(Reached, f)
  <2>1. ASSUME NEW it
        PROVE  IsSum(it, Reached, f) <=>
                 it = [s \in SUBSET Reached |->
                         IF s = {} THEN 0 ELSE LET x == CHOOSE x \in s : TRUE IN file[x].count + it[s \ {x}]]
    <3>1. ASSUME NEW s \in SUBSET Reached
          PROVE  (IF s = {} THEN 0 ELSE LET x == CHOOSE x \in s : TRUE IN f[x] + it[s \ {x}])
                   = IF s = {} THEN 0 ELSE LET x == CHOOSE x \in s : TRUE IN file[x].count + it[s \ {x}]
      <4>1. CASE s = {}
        BY <4>1
      <4>2. CASE s # {}
        <5>1. PICK x \in s : x = CHOOSE y \in s : TRUE
          BY <4>2
        <5>2. f[x] = file[x].count
          BY <5>1
        <5>3. QED
          BY <4>2, <5>1, <5>2
      <4>3. QED
        BY <4>1, <4>2
    <3>2. QED
      BY <3>1 DEF IsSum
  <2>2. QED
    BY <2>1 DEF MapThenSumSet, MapThenFoldSet, Total
<1> HIDE DEF f, B, val
<1>6. Total(Reached, f) = Cardinality(B)
  BY <1>1, <1>2, <1>3, <1>4, TotalIs
<1>7. QED
  BY <1>5, <1>6 DEF B

LEMMA HeldOfIs ==
  ASSUME NEW k
  PROVE  HeldOf(k) = Total(Values, held[k])
  BY DEF HeldOf, MapThenSumSet, MapThenFoldSet, IsSum, Total

\* What a lookup meets of a key are the cells of it in the chain of its index.
LEMMA MatchesAre ==
  ASSUME Chained(file, bucket_map, num_buckets), NEW k \in Keys, IndexOf(k) \in Indexes,
         NEW S \in {{"full"}, {"full", "other"}}
  PROVE  Matches(k, S) = { c \in InIndex(file, IndexOf(k)) : RecordAt(file, c).key = k }
<1> DEFINE i == IndexOf(k)
<1>1. PICK q : q = ChainOf(k)
  OBVIOUS
<1>2. PlacesOf(k) = { p \in DOMAIN file : file[p].idx = i /\ InChain(file, bucket_map, p) }
  <2>1. q = Chain(HeadOf(bucket_map, i)) /\ i \in 0 .. num_buckets - 1
    BY <1>1 DEF ChainOf, bucket_idx_to_ion_fpos_t, HeadOf, Indexes
  <2>2. { q[j] : j \in DOMAIN q } = { p \in DOMAIN file : file[p].idx = i /\ InChain(file, bucket_map, p) }
    BY <2>1, ChainOfIndex
  <2>3. QED
    BY <1>1, <2>2 DEF PlacesOf
<1>3. ASSUME NEW p \in DOMAIN file, NEW s \in Slots
      PROVE  (file[p].slots[s].status \in S /\ file[p].slots[s].key = k)
               <=> (s <= file[p].count /\ file[p].slots[s].key = k)
  <2>1. file[p].slots[s] \in Records \cup {Emptied, Blank}
    BY StoreFacts DEF Chained
  <2>2. file[p].slots[s] \in Records <=> s <= file[p].count
    BY DEF Chained, Filled
  <2>3. \A r \in Records : r.status \in S
    BY DEF Records
  <2>4. Emptied.status \notin S
    BY DEF Emptied
  <2>5. ~(Blank.status \in S /\ Blank.key = k)
    BY BlankAssumption
  <2>6. CASE s <= file[p].count
    BY <2>2, <2>3, <2>6
  <2>7. CASE ~(s <= file[p].count)
    BY <2>1, <2>2, <2>4, <2>5, <2>7
  <2>8. QED
    BY <2>6, <2>7
<1>4. ASSUME NEW c
      PROVE  c \in Matches(k, S) <=> c \in { d \in InIndex(file, i) : RecordAt(file, d).key = k }
  <2>1. ASSUME c \in Matches(k, S) PROVE c \in InIndex(file, i) /\ RecordAt(file, c).key = k
    <3>1. c \in PlacesOf(k) \X Slots /\ file[c[1]].slots[c[2]].status \in S /\ file[c[1]].slots[c[2]].key = k
      BY <2>1 DEF Matches
    <3>2. c[1] \in DOMAIN file /\ c[2] \in Slots /\ file[c[1]].idx = i /\ c \in (DOMAIN file) \X Slots
      BY <1>2, <3>1
    <3>3. c[2] <= file[c[1]].count
      BY <1>3, <3>1, <3>2
    <3>4. QED
      BY <3>1, <3>2, <3>3 DEF InIndex, Cells, RecordAt
  <2>2. ASSUME c \in InIndex(file, i), RecordAt(file, c).key = k PROVE c \in Matches(k, S)
    <3>1. c \in Cells(file) /\ file[c[1]].idx = i /\ file[c[1]].slots[c[2]].key = k
      BY <2>2 DEF InIndex, RecordAt
    <3>2. c = <<c[1], c[2]>> /\ c[1] \in DOMAIN file /\ c[2] \in Slots /\ InChain(file, bucket_map, c[1])
          /\ c[2] <= file[c[1]].count
      BY <3>1, CellFacts
    <3>3. c \in PlacesOf(k) \X Slots
      BY <1>2, <3>1, <3>2
    <3>4. file[c[1]].slots[c[2]].status \in S
      BY <1>3, <3>1, <3>2
    <3>5. QED
      BY <3>1, <3>3, <3>4 DEF Matches
  <2>3. QED
    BY <2>1, <2>2
<1>5. QED
  BY <1>4

-----------------------------------------------------------------------------
(***************************************************************************)
(* What the operations do to the cells.                                    *)
(***************************************************************************)
\* g is f with the cells of C besides, and possibly more buckets.
Grown(f, g, C) ==
  /\ \A p \in DOMAIN f : p \in DOMAIN g /\ g[p].idx = f[p].idx
  /\ Cells(g) = Cells(f) \cup C
  /\ \A d \in Cells(f) : RecordAt(g, d) = RecordAt(f, d)

LEMMA BlankSlots ==
  ASSUME NEW i \in Nat, NEW o \in Nat
  PROVE  /\ Bucket(i, 0, o, [j \in Slots |-> Blank]) \in Buckets
         /\ \A r \in Records : Bucket(i, 1, o, [[j \in Slots |-> Blank] EXCEPT ![1] = r]) \in Buckets
<1>1. 0 \in 0 .. RecordsPerBucket /\ 1 \in 0 .. RecordsPerBucket /\ 1 \in Slots
  BY Parameters DEF Slots
<1>2. [j \in Slots |-> Blank] \in [Slots -> Records \cup {Emptied, Blank}]
  OBVIOUS
<1>3. ASSUME NEW c \in 0 .. RecordsPerBucket, NEW s \in [Slots -> Records \cup {Emptied, Blank}]
      PROVE  Bucket(i, c, o, s) \in Buckets
  BY DEF Bucket, Buckets
<1>4. ASSUME NEW r \in Records
      PROVE  [[j \in Slots |-> Blank] EXCEPT ![1] = r] \in [Slots -> Records \cup {Emptied, Blank}]
  OBVIOUS
<1>5. QED
  BY <1>1, <1>2, <1>3, <1>4

\* A record is put behind the last one of the bucket at h.
PutAt(f, m, h, k, r) ==
  [[file |-> f, map |-> m] EXCEPT !.file[h].slots[k] = r, !.file[h].count = @ + 1]

WithRecord(a, k, r) == [a EXCEPT ![k] = r]

LEMMA PutInHead ==
  ASSUME NEW f, NEW m, NEW h \in DOMAIN f, NEW k, NEW r,
         NEW i, NEW c, NEW o, NEW a, f[h] = Bucket(i, c, o, a),
         NEW s, s = PutAt(f, m, h, k, r)
  PROVE  s.map = m /\ s.file = WithBucket(f, h, Bucket(i, c + 1, o, WithRecord(a, k, r)))
<1> DEFINE e == [f EXCEPT ![h].slots[k] = r]
<1>1. s.map = m /\ s.file = [f EXCEPT ![h].slots[k] = r, ![h].count = @ + 1]
  BY DEF PutAt
<1>2. [f EXCEPT ![h].slots[k] = r, ![h].count = @ + 1] = [e EXCEPT ![h].count = @ + 1]
  OBVIOUS
<1>3. e = [f EXCEPT ![h] = [f[h] EXCEPT !.slots[k] = r]]
  OBVIOUS
<1> DEFINE b == Bucket(i, c, o, [a EXCEPT ![k] = r])
           d == Bucket(i, c + 1, o, [a EXCEPT ![k] = r])
<1>4. [f[h] EXCEPT !.slots[k] = r] = b
  BY DEF Bucket
<1>5. [b EXCEPT !.count = c + 1] = d /\ b.count = c
  BY DEF Bucket
<1> HIDE DEF e, b, d
<1>6. e = [f EXCEPT ![h] = b]
  BY <1>3, <1>4
<1>7. e[h] = b /\ h \in DOMAIN e
  BY <1>6
<1>8. [e EXCEPT ![h].count = @ + 1] = [e EXCEPT ![h] = [b EXCEPT !.count = c + 1]]
  BY <1>5, <1>7
<1>9. [e EXCEPT ![h] = d] = [f EXCEPT ![h] = d]
  BY <1>6
<1>10. s.file = [f EXCEPT ![h] = d]
  BY <1>1, <1>2, <1>5, <1>8, <1>9
<1>11. QED
  BY <1>1, <1>10 DEF WithBucket, WithRecord, d

LEMMA NewIndex ==
  ASSUME NEW f, NEW m, NEW n, Chained(f, m, n), NEW s, s = write_new_bucket([file |-> f, map |-> m], n)
  PROVE  Chained(s.file, s.map, n + 1) /\ Grown(f, s.file, {})
<1> DEFINE b == Bucket(n, 0, EndOfList, [j \in Slots |-> Blank])
           g == s.file
<1>1. g = Append(f, b) /\ s.map = array_list_insert(m, n, Len(f) + 1)
  BY DEF write_new_bucket
<1>2. n \in Nat /\ n \in 0 .. n /\ n + 1 \in Nat /\ EndOfList \in Nat
  BY DEF Chained, StoreTyped, EndOfList
<1>3. b \in Buckets /\ b.idx = n /\ b.count = 0 /\ b.overflow = EndOfList /\ b.slots = [j \in Slots |-> Blank]
  BY <1>2, BlankSlots DEF Bucket
<1> HIDE DEF b
<1>4. \A j \in Slots : b.slots[j] \in Records <=> j <= b.count
  <2> SUFFICES ASSUME NEW j \in Slots PROVE b.slots[j] \notin Records /\ ~(j <= 0)
    BY <1>3
  <2>1. b.slots[j] = Blank
    BY <1>3
  <2>2. QED
    BY <2>1, Parameters DEF Slots
<1>5. Chained(Append(f, b), array_list_insert(m, n, Len(f) + 1), n + 1)
  BY <1>2, <1>3, <1>4, Appending
<1>6. DOMAIN f = 1 .. Len(f) /\ Len(f) \in Nat /\ f \in Seq(Buckets)
  BY StoreFacts DEF Chained, StoreTyped
<1>7. DOMAIN g = 1 .. Len(f) + 1 /\ g[Len(f) + 1] = b /\ \A p \in DOMAIN f : g[p] = f[p]
  BY <1>1, <1>6
<1> HIDE DEF g
<1>8. Cells(g) = Cells(f)
  <2>1. ASSUME NEW c \in Cells(g) PROVE c \in Cells(f)
    <3>1. c \in (DOMAIN g) \X Slots /\ c[2] <= g[c[1]].count
      BY DEF Cells
    <3>2. c[1] # Len(f) + 1
      BY <1>3, <1>7, <3>1 DEF Slots
    <3>3. c[1] \in DOMAIN f
      BY <1>6, <1>7, <3>1, <3>2
    <3>4. QED
      BY <1>7, <3>1, <3>3 DEF Cells
  <2>2. ASSUME NEW c \in Cells(f) PROVE c \in Cells(g)
    BY <1>6, <1>7 DEF Cells
  <2>3. QED
    BY <2>1, <2>2
<1>9. Grown(f, g, {})
  BY <1>6, <1>7, <1>8 DEF Grown, Cells, RecordAt
<1>10. QED
  BY <1>1, <1>5, <1>9 DEF g

\* g has the record r besides, in the chain of i.
HasMore(f, g, r, i) ==
  \E c : c \notin Cells(f) /\ Grown(f, g, {c}) /\ RecordAt(g, c) = r /\ g[c[1]].idx = i

LEMMA Putting ==
  ASSUME NEW f, NEW m, NEW n, Chained(f, m, n), NEW i \in 0 .. n - 1, NEW r \in Records,
         NEW s, s = PutRecord([file |-> f, map |-> m], i, r)
  PROVE  Chained(s.file, s.map, n) /\ HasMore(f, s.file, r, i)
<1> DEFINE h == HeadOf(m, i)
           full == linear_hash_bucket_is_full(f[h])
           g == s.file
<1>0. StoreTyped(f, m, n) /\ f \in Seq(Buckets) /\ n \in Nat
  BY DEF Chained, StoreTyped
<1>0a. h \in DOMAIN f /\ f[h].idx = i
  BY <1>0, StoreFacts
<1>1. /\ f \in Seq(Buckets) /\ DOMAIN f = 1 .. Len(f) /\ Len(f) \in Nat /\ n \in Nat
      /\ h \in DOMAIN f /\ f[h] \in Buckets /\ f[h].idx = i /\ h \in Nat /\ i \in Nat
      /\ f[h].count \in 0 .. RecordsPerBucket
      /\ f[h].slots \in [Slots -> Records \cup {Emptied, Blank}]
  BY <1>0, <1>0a, StoreFacts
<1>2. \A j \in Slots : f[h].slots[j] \in Records <=> j <= f[h].count
  BY <1>1 DEF Chained, Filled
<1>3. RecordsPerBucket \in Nat \ {0} /\ Slots = 1 .. RecordsPerBucket
  BY Parameters DEF Slots
<1>4. CASE full
  <2> DEFINE b == Bucket(i, 1, h, [[j \in Slots |-> Blank] EXCEPT ![1] = r])
             c == <<Len(f) + 1, 1>>
  <2>1. g = Append(f, b) /\ s.map = array_list_insert(m, i, Len(f) + 1)
    BY <1>1, <1>4 DEF PutRecord, create_overflow_bucket, HeadOf
  <2>2. /\ b \in Buckets /\ b.idx = i /\ b.count = 1 /\ b.overflow = h
        /\ b.slots[1] = r /\ \A j \in Slots : j # 1 => b.slots[j] = Blank
    <3>1. b \in Buckets
      BY <1>1, BlankSlots
    <3>2. QED
      BY <1>3, <3>1 DEF Bucket
  <2> HIDE DEF b
  <2>3. \A j \in Slots : b.slots[j] \in Records <=> j <= b.count
    <3> SUFFICES ASSUME NEW j \in Slots PROVE b.slots[j] \in Records <=> j <= 1
      BY <2>2
    <3>1. CASE j = 1
      BY <2>2, <3>1
    <3>2. CASE j # 1
      BY <1>3, <2>2, <3>2, Parameters
    <3>3. QED
      BY <3>1, <3>2
  <2>4. f[h].count = RecordsPerBucket /\ i < n /\ i \in 0 .. n
    BY <1>1, <1>4 DEF linear_hash_bucket_is_full
  <2>5. Chained(Append(f, b), array_list_insert(m, i, Len(f) + 1), n)
    BY <1>1, <2>2, <2>3, <2>4, Appending
  <2>6. DOMAIN g = 1 .. Len(f) + 1 /\ g[Len(f) + 1] = b /\ \A p \in DOMAIN f : g[p] = f[p]
    BY <1>1, <2>1
  <2> HIDE DEF g
  <2>7. \A d : d \in Cells(g) <=> (d \in Cells(f) \/ d = c)
    <3>1. ASSUME NEW d \in Cells(g), d # c PROVE d \in Cells(f)
      <4>1. d = <<d[1], d[2]>> /\ d \in (DOMAIN g) \X Slots /\ d[2] <= g[d[1]].count
        BY DEF Cells
      <4>2. d[1] # Len(f) + 1
        BY <1>3, <2>2, <2>6, <3>1, <4>1
      <4>3. d[1] \in DOMAIN f
        BY <1>1, <2>6, <4>1, <4>2
      <4>4. QED
        BY <2>6, <4>1, <4>3 DEF Cells
    <3>2. ASSUME NEW d \in Cells(f) PROVE d \in Cells(g)
      BY <1>1, <2>6 DEF Cells
    <3>3. c \in Cells(g)
      BY <1>1, <1>3, <2>2, <2>6 DEF Cells
    <3>4. QED
      BY <3>1, <3>2, <3>3
  <2>8. Cells(g) = Cells(f) \cup {c}
    BY <2>7
  <2>9. c \notin Cells(f)
    BY <1>1 DEF Cells
  <2>10. Grown(f, g, {c})
    BY <1>1, <2>6, <2>8 DEF Grown, Cells, RecordAt
  <2>11. RecordAt(g, c) = r /\ g[c[1]].idx = i
    BY <2>2, <2>6 DEF RecordAt
  <2>12. QED
    BY <2>1, <2>5, <2>9, <2>10, <2>11 DEF g, HasMore
<1>5. CASE ~full
  <2> DEFINE k == f[h].count + 1
             b == Bucket(i, k, f[h].overflow, [f[h].slots EXCEPT ![k] = r])
             c == <<h, k>>
  <2>1. k \in Slots /\ k \in Nat /\ k # 0 /\ k - 1 = f[h].count
    BY <1>1, <1>3, <1>5 DEF linear_hash_bucket_is_full
  <2>2. f[h] = Bucket(i, f[h].count, f[h].overflow, f[h].slots)
    BY <1>1 DEF Buckets, Bucket
  <2>3. g = WithBucket(f, h, b) /\ s.map = m
    <3>1. ~linear_hash_bucket_is_full(f[m[i + 1]])
      BY <1>5 DEF HeadOf
    <3>2. s = [[file |-> f, map |-> m] EXCEPT !.file[m[i + 1]].slots[f[m[i + 1]].count + 1] = r,
                                              !.file[m[i + 1]].count = @ + 1]
      BY <3>1 DEF PutRecord
    <3>3. QED
      <4>1. h \in DOMAIN f /\ s = PutAt(f, m, h, k, r)
        BY <1>1, <3>2 DEF HeadOf, PutAt
      <4>2. f[h] = Bucket(i, f[h].count, f[h].overflow, f[h].slots)
        BY <2>2
      <4> HIDE DEF h, k
      <4>3. s.map = m /\ s.file = WithBucket(f, h, Bucket(i, f[h].count + 1, f[h].overflow, WithRecord(f[h].slots, k, r)))
        BY <4>1, <4>2, PutInHead
      <4>4. QED
        BY <4>3 DEF k, WithRecord
  <2>4. /\ b \in Buckets /\ b.idx = i /\ b.count = k /\ b.overflow = f[h].overflow
        /\ b.slots[k] = r /\ \A j \in Slots : j # k => b.slots[j] = f[h].slots[j]
    BY <1>1, <1>3, <2>1 DEF Bucket, Buckets
  <2> HIDE DEF b
  <2>5. \A j \in Slots : b.slots[j] \in Records <=> j <= b.count
    <3> SUFFICES ASSUME NEW j \in Slots PROVE b.slots[j] \in Records <=> j <= k
      BY <2>4
    <3>1. CASE j = k
      BY <1>3, <2>4, <3>1
    <3>2. CASE j # k
      BY <1>2, <1>3, <2>1, <2>4, <3>2
    <3>3. QED
      BY <3>1, <3>2
  <2>6. Chained(WithBucket(f, h, b), m, n)
    BY <2>1, <2>4, <2>5, HeadChanges
  <2>7. /\ DOMAIN g = DOMAIN f /\ g[h] = b /\ \A p \in DOMAIN f : p # h => g[p] = f[p]
        /\ \A p \in DOMAIN f : g[p].idx = f[p].idx
    BY <1>1, <2>3, <2>4 DEF WithBucket
  <2> HIDE DEF g, k
  <2>8. \A d : d \in Cells(g) <=> (d \in Cells(f) \/ d = c)
    <3>1. ASSUME NEW d \in Cells(g), d # c PROVE d \in Cells(f)
      <4>1. d = <<d[1], d[2]>> /\ d \in (DOMAIN f) \X Slots /\ d[2] <= g[d[1]].count
        BY <2>7 DEF Cells
      <4>2. CASE d[1] # h
        BY <2>7, <4>1, <4>2 DEF Cells
      <4>3. CASE d[1] = h
        <5>1. d[2] <= k /\ d[2] # k /\ d[2] \in Nat
          BY <1>3, <2>4, <2>7, <3>1, <4>1, <4>3
        <5>2. d[2] <= f[h].count
          BY <2>1, <5>1
        <5>3. QED
          BY <4>1, <4>3, <5>2 DEF Cells
      <4>4. QED
        BY <4>2, <4>3
    <3>2. ASSUME NEW d \in Cells(f) PROVE d \in Cells(g)
      <4>1. d = <<d[1], d[2]>> /\ d \in (DOMAIN f) \X Slots /\ d[2] <= f[d[1]].count
        BY DEF Cells
      <4>2. d[2] <= g[d[1]].count
        BY <1>1, <1>3, <2>1, <2>4, <2>7, <4>1
      <4>3. QED
        BY <2>7, <4>1, <4>2 DEF Cells
    <3>3. c \in Cells(g)
      BY <1>1, <2>1, <2>4, <2>7 DEF Cells
    <3>4. QED
      BY <3>1, <3>2, <3>3
  <2>9. Cells(g) = Cells(f) \cup {c}
    BY <2>8
  <2>10. c \notin Cells(f)
    BY <1>1, <2>1 DEF Cells
  <2>11. ASSUME NEW d \in Cells(f) PROVE RecordAt(g, d) = RecordAt(f, d)
    <3>1. d = <<d[1], d[2]>> /\ d \in (DOMAIN f) \X Slots /\ d[2] <= f[d[1]].count
      BY DEF Cells
    <3>2. CASE d[1] # h
      BY <2>7, <3>1, <3>2 DEF RecordAt
    <3>3. CASE d[1] = h
      <4>1. d[2] # k /\ d[2] \in Slots
        BY <1>3, <2>1, <3>1, <3>3
      <4>2. QED
        BY <2>4, <2>7, <3>3, <4>1 DEF RecordAt
    <3>4. QED
      BY <3>2, <3>3
  <2>12. Grown(f, g, {c})
    BY <2>7, <2>9, <2>11 DEF Grown
  <2>13. RecordAt(g, c) = r /\ g[c[1]].idx = i
    BY <1>1, <2>4, <2>7 DEF RecordAt
  <2>14. QED
    BY <2>3, <2>6, <2>10, <2>12, <2>13 DEF g, HasMore
<1>6. QED
  BY <1>4, <1>5

\* The last record of the bucket at h is taken out.
Take(f, h) == [f EXCEPT ![h].slots[f[h].count] = Emptied, ![h].count = @ - 1]

LEMMA TakeIs ==
  ASSUME NEW f, NEW h \in DOMAIN f, NEW i, NEW c, NEW o, NEW a, f[h] = Bucket(i, c, o, a)
  PROVE  Take(f, h) = WithBucket(f, h, Bucket(i, c - 1, o, WithRecord(a, c, Emptied)))
<1> DEFINE e == [f EXCEPT ![h].slots[c] = Emptied]
           b == Bucket(i, c, o, [a EXCEPT ![c] = Emptied])
           d == Bucket(i, c - 1, o, [a EXCEPT ![c] = Emptied])
<1>1. f[h].count = c
  BY DEF Bucket
<1>2. [f EXCEPT ![h].slots[c] = Emptied, ![h].count = @ - 1] = [e EXCEPT ![h].count = @ - 1]
  OBVIOUS
<1>3. e = [f EXCEPT ![h] = [f[h] EXCEPT !.slots[c] = Emptied]]
  OBVIOUS
<1>4. [f[h] EXCEPT !.slots[c] = Emptied] = b
  BY DEF Bucket
<1>5. [b EXCEPT !.count = c - 1] = d /\ b.count = c
  BY DEF Bucket
<1> HIDE DEF e, b, d
<1>6. e = [f EXCEPT ![h] = b]
  BY <1>3, <1>4
<1>7. e[h] = b /\ h \in DOMAIN e
  BY <1>6
<1>8. [e EXCEPT ![h].count = @ - 1] = [e EXCEPT ![h] = [b EXCEPT !.count = c - 1]]
  BY <1>5, <1>7
<1>9. [e EXCEPT ![h] = d] = [f EXCEPT ![h] = d]
  BY <1>6
<1>10. [f EXCEPT ![h].slots[c] = Emptied, ![h].count = @ - 1] = [f EXCEPT ![h] = d]
  BY <1>2, <1>5, <1>8, <1>9
<1>11. Take(f, h) = [f EXCEPT ![h].slots[c] = Emptied, ![h].count = @ - 1]
  BY <1>1 DEF Take
<1>12. QED
  BY <1>10, <1>11 DEF WithBucket, WithRecord, d

LEMMA Taking ==
  ASSUME NEW f, NEW m, NEW n, Chained(f, m, n), NEW i \in 0 .. n - 1, NEW h, h = HeadOf(m, i),
         f[h].count # 0, NEW g, g = Take(f, h),
         NEW a, a = IF f[h].count = 1 /\ f[h].overflow # EndOfList
                      THEN array_list_insert(m, i, f[h].overflow) ELSE m
  PROVE  /\ Chained(g, a, n)
         /\ <<h, f[h].count>> \notin Cells(g) /\ Grown(g, f, {<<h, f[h].count>>})
         /\ DOMAIN g = DOMAIN f
<1>0. StoreTyped(f, m, n) /\ f \in Seq(Buckets) /\ n \in Nat
  BY DEF Chained, StoreTyped
<1>0a. h \in DOMAIN f /\ f[h].idx = i
  BY <1>0, StoreFacts
<1>1. /\ h \in DOMAIN f /\ f[h] \in Buckets /\ f[h].idx = i /\ h \in Nat /\ i \in Nat
      /\ f[h].count \in 0 .. RecordsPerBucket
      /\ f[h].slots \in [Slots -> Records \cup {Emptied, Blank}]
  BY <1>0, <1>0a, StoreFacts
<1>2. \A j \in Slots : f[h].slots[j] \in Records <=> j <= f[h].count
  BY <1>1 DEF Chained, Filled
<1>3. RecordsPerBucket \in Nat \ {0} /\ Slots = 1 .. RecordsPerBucket
  BY Parameters DEF Slots
<1> DEFINE k == f[h].count
           b == Bucket(i, k - 1, f[h].overflow, WithRecord(f[h].slots, k, Emptied))
           c == <<h, k>>
<1>4. k \in Slots /\ k \in Nat \ {0} /\ k - 1 \in 0 .. RecordsPerBucket
  BY <1>1, <1>3
<1>5. f[h] = Bucket(i, k, f[h].overflow, f[h].slots)
  BY <1>1 DEF Buckets, Bucket
<1>6. g = WithBucket(f, h, b)
  BY <1>1, <1>5, TakeIs
<1>7. /\ b \in Buckets /\ b.idx = i /\ b.count = k - 1 /\ b.overflow = f[h].overflow
      /\ b.slots[k] = Emptied /\ \A j \in Slots : j # k => b.slots[j] = f[h].slots[j]
  <2>1. WithRecord(f[h].slots, k, Emptied) \in [Slots -> Records \cup {Emptied, Blank}]
    BY <1>1 DEF WithRecord
  <2>2. b \in Buckets
    BY <1>1, <1>4, <2>1 DEF Bucket, Buckets
  <2>3. QED
    BY <1>1, <1>4, <2>2 DEF Bucket, WithRecord
<1> HIDE DEF b
<1>8. \A j \in Slots : b.slots[j] \in Records <=> j <= b.count
  <2> SUFFICES ASSUME NEW j \in Slots PROVE b.slots[j] \in Records <=> j <= k - 1
    BY <1>7
  <2>1. CASE j = k
    BY <1>4, <1>7, <2>1, Parameters
  <2>2. CASE j # k
    BY <1>2, <1>3, <1>4, <1>7, <2>2
  <2>3. QED
    BY <2>1, <2>2
<1>9. Chained(g, a, n)
  <2>1. CASE k = 1 /\ f[h].overflow # EndOfList
    <3>1. b.count = 0 /\ b.overflow # EndOfList /\ a = array_list_insert(m, i, b.overflow)
      BY <1>7, <2>1
    <3>2. Chained(WithBucket(f, h, b), array_list_insert(m, i, b.overflow), n)
      BY <1>7, <1>8, <3>1, HeadLeaves
    <3>3. QED
      BY <1>6, <3>1, <3>2
  <2>2. CASE ~(k = 1 /\ f[h].overflow # EndOfList)
    <3>1. (b.count # 0 \/ b.overflow = EndOfList) /\ a = m
      BY <1>4, <1>7, <2>2
    <3>2. Chained(WithBucket(f, h, b), m, n)
      BY <1>7, <1>8, <3>1, HeadChanges
    <3>3. QED
      BY <1>6, <3>1, <3>2
  <2>3. QED
    BY <2>1, <2>2
<1>10. /\ DOMAIN g = DOMAIN f /\ g[h] = b /\ \A p \in DOMAIN f : p # h => g[p] = f[p]
       /\ \A p \in DOMAIN f : g[p].idx = f[p].idx
  BY <1>0, <1>1, <1>6, <1>7 DEF WithBucket
<1> HIDE DEF k
<1>11. f[h].count = k
  BY DEF k
<1>12. \A d : d \in Cells(f) <=> (d \in Cells(g) \/ d = c)
  <2>1. ASSUME NEW d \in Cells(f), d # c PROVE d \in Cells(g)
    <3>1. d = <<d[1], d[2]>> /\ d \in (DOMAIN f) \X Slots /\ d[2] <= f[d[1]].count
      BY DEF Cells
    <3>2. CASE d[1] # h
      BY <1>10, <3>1, <3>2 DEF Cells
    <3>3. CASE d[1] = h
      <4>1. d[2] <= k /\ d[2] # k /\ d[2] \in Nat
        BY <1>3, <1>11, <2>1, <3>1, <3>3
      <4>2. d[2] <= k - 1
        BY <1>4, <4>1
      <4>3. QED
        BY <1>7, <1>10, <3>1, <3>3, <4>2 DEF Cells
    <3>4. QED
      BY <3>2, <3>3
  <2>2. ASSUME NEW d \in Cells(g) PROVE d \in Cells(f)
    <3>1. d = <<d[1], d[2]>> /\ d \in (DOMAIN f) \X Slots /\ d[2] <= g[d[1]].count
      BY <1>10 DEF Cells
    <3>2. d[2] <= f[d[1]].count
      BY <1>3, <1>4, <1>7, <1>10, <1>11, <3>1
    <3>3. QED
      BY <3>1, <3>2 DEF Cells
  <2>3. c \in Cells(f)
    BY <1>1, <1>4, <1>11 DEF Cells
  <2>4. QED
    BY <2>1, <2>2, <2>3
<1>13. Cells(f) = Cells(g) \cup {c}
  BY <1>12
<1>14. c \notin Cells(g)
  BY <1>4, <1>7, <1>10 DEF Cells
<1>15. ASSUME NEW d \in Cells(g) PROVE RecordAt(f, d) = RecordAt(g, d)
  <2>1. d = <<d[1], d[2]>> /\ d \in (DOMAIN f) \X Slots /\ d[2] <= g[d[1]].count
    BY <1>10 DEF Cells
  <2>2. CASE d[1] # h
    BY <1>10, <2>1, <2>2 DEF RecordAt
  <2>3. CASE d[1] = h
    <3>1. d[2] # k /\ d[2] \in Slots
      BY <1>3, <1>4, <1>7, <1>10, <2>1, <2>3
    <3>2. QED
      BY <1>7, <1>10, <2>3, <3>1 DEF RecordAt
  <2>4. QED
    BY <2>2, <2>3
<1>16. Grown(g, f, {c})
  BY <1>10, <1>13, <1>15 DEF Grown
<1>17. QED
  BY <1>9, <1>10, <1>11, <1>14, <1>16

\* Records are overwritten: the cells stay.
LEMMA Overwriting ==
  ASSUME NEW f, NEW m, NEW n, Chained(f, m, n), NEW g, DOMAIN g = DOMAIN f, g \in Seq(Buckets),
         \A p \in DOMAIN f : /\ g[p].idx = f[p].idx /\ g[p].count = f[p].count
                             /\ g[p].overflow = f[p].overflow,
         \A p \in DOMAIN f, s \in Slots :
             \/ g[p].slots[s] = f[p].slots[s]
             \/ s <= f[p].count /\ g[p].slots[s] \in Records
  PROVE  Chained(g, m, n) /\ Cells(g) = Cells(f)
<1>1. Len(g) = Len(f) /\ Filled(f)
  <2>1. DOMAIN f = 1 .. Len(f) /\ Len(f) \in Nat
    BY StoreFacts DEF Chained
  <2>2. DOMAIN g = 1 .. Len(g) /\ Len(g) \in Nat
    OBVIOUS
  <2>3. QED
    BY <2>1, <2>2 DEF Chained
<1>2. Filled(g)
  BY <1>1 DEF Filled
<1>3. Chained(g, m, n)
  BY <1>1, <1>2, SameLinks
<1>4. QED
  BY <1>3 DEF Cells

Fill(f, c, r) == [f EXCEPT ![c[1]].slots[c[2]] = r]

LEMMA Filling ==
  ASSUME NEW f, NEW m, NEW n, Chained(f, m, n), NEW c \in Cells(f), NEW r \in Records,
         NEW g, g = Fill(f, c, r)
  PROVE  /\ Chained(g, m, n) /\ Cells(g) = Cells(f) /\ DOMAIN g = DOMAIN f
         /\ \A p \in DOMAIN f : g[p].idx = f[p].idx /\ g[p].count = f[p].count
                                /\ g[p].overflow = f[p].overflow
         /\ RecordAt(g, c) = r /\ \A d \in Cells(f) : d # c => RecordAt(g, d) = RecordAt(f, d)
<1>1. f \in Seq(Buckets)
  BY DEF Chained, StoreTyped
<1>2. c = <<c[1], c[2]>> /\ c[1] \in DOMAIN f /\ c[2] \in Slots /\ c[2] <= f[c[1]].count
  BY CellFacts
<1>3. PICK p, s : p = c[1] /\ s = c[2]
  OBVIOUS
<1>4. PICK b : b = [f[p] EXCEPT !.slots[s] = r]
  OBVIOUS
<1>5. f[p] \in Buckets /\ f[p].slots \in [Slots -> Records \cup {Emptied, Blank}]
  BY <1>2, <1>3, StoreFacts DEF Chained
<1>6. /\ b \in Buckets /\ b.idx = f[p].idx /\ b.count = f[p].count /\ b.overflow = f[p].overflow
      /\ b.slots[s] = r /\ \A j \in Slots : j # s => b.slots[j] = f[p].slots[j]
  BY <1>2, <1>3, <1>4, <1>5 DEF Buckets
<1>7. g = [f EXCEPT ![p] = b]
  BY <1>3, <1>4 DEF Fill
<1>8. /\ g \in Seq(Buckets) /\ DOMAIN g = DOMAIN f /\ g[p] = b
      /\ \A q \in DOMAIN f : q # p => g[q] = f[q]
  BY <1>1, <1>2, <1>3, <1>6, <1>7
<1>9. \A q \in DOMAIN f : g[q].idx = f[q].idx /\ g[q].count = f[q].count /\ g[q].overflow = f[q].overflow
  BY <1>6, <1>8
<1>10. \A q \in DOMAIN f, j \in Slots :
         \/ g[q].slots[j] = f[q].slots[j]
         \/ j <= f[q].count /\ g[q].slots[j] \in Records
  BY <1>2, <1>3, <1>6, <1>8
<1>11. Chained(g, m, n) /\ Cells(g) = Cells(f)
  BY <1>8, <1>9, <1>10, Overwriting
<1>12. ASSUME NEW d \in Cells(f), d # c PROVE RecordAt(g, d) = RecordAt(f, d)
  <2>1. d = <<d[1], d[2]>> /\ d[1] \in DOMAIN f /\ d[2] \in Slots
    BY CellFacts
  <2>2. d[1] # p \/ d[2] # s
    BY <1>2, <1>3, <1>12, <2>1
  <2>3. QED
    BY <1>6, <1>8, <2>1, <2>2 DEF RecordAt
<1>13. QED
  BY <1>3, <1>6, <1>8, <1>9, <1>11, <1>12 DEF RecordAt

-----------------------------------------------------------------------------
(***************************************************************************)
(* Hashing.                                                                *)
(***************************************************************************)
LEMMA Hashes ==
  ASSUME IInv, NEW k \in Keys
  PROVE  /\ insert_hash_to_bucket(k) \in 0 .. initial_size - 1
         /\ \/ hash_to_bucket(k) = insert_hash_to_bucket(k)
            \/ hash_to_bucket(k) = insert_hash_to_bucket(k) + initial_size
<1>1. KeyInt[k] \in Int /\ initial_size \in Nat \ {0}
  BY ParameterAssumption DEF IInv, Numbers
<1>2. QED
  BY <1>1, RemainderOfTwice DEF insert_hash_to_bucket, hash_to_bucket

LEMMA IndexInRange ==
  ASSUME IInv, NEW k \in Keys
  PROVE  IndexOf(k) \in Indexes
<1>1. /\ insert_hash_to_bucket(k) \in 0 .. initial_size - 1
      /\ \/ hash_to_bucket(k) = insert_hash_to_bucket(k)
         \/ hash_to_bucket(k) = insert_hash_to_bucket(k) + initial_size
  BY Hashes
<1>2. /\ initial_size \in Nat \ {0} /\ num_buckets \in Nat /\ next_split \in Nat
      /\ num_buckets >= initial_size + next_split
  BY DEF IInv, Numbers, Sizes
<1>3. QED
  BY <1>1, <1>2 DEF IndexOf, Indexes

\* A key that a split moves is looked up in the chain that is split, and goes
\* to the newest index.
LEMMA SplitKeyFacts ==
  ASSUME IInv, Splitting, NEW k, SplitKey(k)
  PROVE  /\ IndexOf(k) = next_split /\ hash_to_bucket(k) = num_buckets - 1
         /\ next_split \in Indexes /\ num_buckets - 1 \in Indexes /\ next_split # num_buckets - 1
<1>1. k \in Keys /\ Moves(k) /\ insert_hash_to_bucket(k) = next_split
  BY DEF SplitKey
<1>2. hash_to_bucket(k) = next_split + initial_size
  BY <1>1, Hashes DEF Moves
<1>3. /\ initial_size \in Nat \ {0} /\ num_buckets \in Nat /\ next_split \in Nat
      /\ num_buckets = initial_size + next_split + 1
  BY DEF IInv, Numbers, Sizes
<1>4. QED
  BY <1>1, <1>2, <1>3 DEF IndexOf, Indexes

\* A moving key of the chain that is split is such a key.
LEMMA MovingKeys ==
  ASSUME IInv, Splitting, NEW k \in Keys, BelongsTo(k, next_split)
  PROVE  /\ insert_hash_to_bucket(k) = next_split
         /\ Moves(k) => SplitKey(k)
<1>1. /\ insert_hash_to_bucket(k) \in 0 .. initial_size - 1
      /\ \/ hash_to_bucket(k) = insert_hash_to_bucket(k)
         \/ hash_to_bucket(k) = insert_hash_to_bucket(k) + initial_size
  BY Hashes
<1>2. initial_size \in Nat \ {0} /\ next_split \in Nat /\ next_split < initial_size
  BY DEF IInv, Numbers, Sizes
<1>3. QED
  BY <1>1, <1>2 DEF BelongsTo, IndexOf, SplitKey, Moves

\* When the address space has all been split, it is doubled and no key changes
\* its chain.
LEMMA DoublingKeepsIndex ==
  ASSUME IInv, call = Idle, linear_hash_increment_num_buckets, NEW k \in Keys
  PROVE  IndexOf(k)' = IndexOf(k)
<1>1. num_buckets = initial_size + next_split /\ next_split <= initial_size
      /\ initial_size \in Nat \ {0} /\ next_split \in Nat
  BY IdleFacts DEF IInv, Numbers, Sizes
<1>2. insert_hash_to_bucket(k) \in 0 .. initial_size - 1
  BY Hashes
<1>3. CASE num_buckets + 1 = 2 * initial_size + 1
  <2>1. initial_size' = 2 * initial_size /\ next_split' = 0 /\ next_split = initial_size
    BY <1>1, <1>3 DEF linear_hash_increment_num_buckets
  <2>2. insert_hash_to_bucket(k)' = hash_to_bucket(k)
    BY <2>1 DEF insert_hash_to_bucket, hash_to_bucket
  <2>3. IndexOf(k) = hash_to_bucket(k)
    BY <1>1, <1>2, <2>1 DEF IndexOf
  <2>4. KeyInt[k] % (2 * initial_size) \in Nat
    <3>1. KeyInt[k] \in Int /\ 2 * initial_size \in Nat \ {0}
      BY <1>1, ParameterAssumption
    <3>2. PICK n \in Nat \ {0} : n = 2 * initial_size
      BY <3>1
    <3>3. KeyInt[k] % n \in 0 .. n - 1
      BY <3>1, RemainderOfTwice
    <3>4. QED
      BY <3>2, <3>3
  <2>5. ~(insert_hash_to_bucket(k)' < next_split')
    BY <2>1, <2>2, <2>4 DEF hash_to_bucket
  <2>6. QED
    BY <2>2, <2>3, <2>5 DEF IndexOf
<1>4. CASE num_buckets + 1 # 2 * initial_size + 1
  <2>1. initial_size' = initial_size /\ next_split' = next_split
    BY <1>4 DEF linear_hash_increment_num_buckets
  <2>2. QED
    BY <2>1 DEF IndexOf, insert_hash_to_bucket, hash_to_bucket
<1>5. QED
  BY <1>3, <1>4

\* Keys stay where they belong.
LEMMA SameBelonging ==
  ASSUME UNCHANGED <<initial_size, next_split>>, Splitting => Splitting', NEW k, NEW i, BelongsTo(k, i)
  PROVE  BelongsTo(k, i)'
  BY DEF BelongsTo, IndexOf, Moves, insert_hash_to_bucket, hash_to_bucket

-----------------------------------------------------------------------------
(***************************************************************************)
(* Walks and counts.                                                       *)
(***************************************************************************)
\* A walk meets no record of its index between a bucket and the next one.
LEMMA NextIsOlder ==
  ASSUME NEW f, NEW m, NEW n, Chained(f, m, n), NEW p \in DOMAIN f,
         NEW c \in InIndex(f, f[p].idx), c[1] < p
  PROVE  c[1] <= f[p].overflow /\ f[p].overflow # EndOfList
<1>1. c \in Cells(f) /\ f[c[1]].idx = f[p].idx
  BY DEF InIndex
<1>2. c[1] \in DOMAIN f /\ c[1] \in Nat /\ InChain(f, m, c[1])
  BY <1>1, CellFacts
<1>3. c[1] <= f[p].overflow /\ c[1] # 0 /\ f[p].overflow \in Nat
  BY <1>1, <1>2, StoreFacts DEF Chained, LinksBack
<1>4. QED
  BY <1>2, <1>3 DEF EndOfList

\* It begins with the newest.
LEMMA HeadIsNewest ==
  ASSUME NEW f, NEW m, NEW n, Chained(f, m, n), NEW i \in 0 .. n - 1, NEW c \in InIndex(f, i)
  PROVE  c[1] <= HeadOf(m, i) /\ f[HeadOf(m, i)].count # 0
<1>1. c \in Cells(f) /\ f[c[1]].idx = i
  BY DEF InIndex
<1>2. c[1] \in DOMAIN f /\ c[1] \in Nat /\ InChain(f, m, c[1]) /\ f[c[1]].count # 0
  BY <1>1, CellFacts
<1>3. PICK h : h = HeadOf(m, i)
  OBVIOUS
<1>4. h \in DOMAIN f /\ f[h].idx = i /\ h \in Nat
  BY <1>3, StoreFacts DEF Chained
<1>5. c[1] <= h
  BY <1>1, <1>2, <1>3 DEF Chained, RoomAtHeads
<1>6. ASSUME f[h].count = 0 PROVE FALSE
  <2>1. f[h].overflow = EndOfList
    BY <1>3, <1>4, <1>6 DEF Chained, RoomAtHeads
  <2>2. c[1] < h
    BY <1>2, <1>4, <1>5, <1>6
  <2>3. QED
    BY <1>1, <1>4, <2>1, <2>2, NextIsOlder
<1>7. QED
  BY <1>3, <1>5, <1>6

\* One cell more, and one record more of its key.
LEMMA GrownByOne ==
  ASSUME NEW f, NEW g, NEW c, Grown(f, g, {c}), c \notin Cells(f), IsFiniteSet(Cells(f)),
         NEW k
  PROVE  /\ Cardinality(Cells(f)) \in Nat /\ Cardinality(CellsOf(f, k)) \in Nat
         /\ Cardinality(Cells(g)) = Cardinality(Cells(f)) + 1
         /\ RecordAt(g, c).key = k => Cardinality(CellsOf(g, k)) = Cardinality(CellsOf(f, k)) + 1
         /\ RecordAt(g, c).key # k => CellsOf(g, k) = CellsOf(f, k)
<1>1. Cells(g) = Cells(f) \cup {c} /\ \A d \in Cells(f) : RecordAt(g, d) = RecordAt(f, d)
  BY DEF Grown
<1>2. CellsOf(f, k) \in SUBSET Cells(f) /\ c \notin CellsOf(f, k)
  BY DEF CellsOf
<1>3. IsFiniteSet(CellsOf(f, k))
  BY <1>2, FS_Subset
<1>4. Cardinality(Cells(f)) \in Nat /\ Cardinality(CellsOf(f, k)) \in Nat
  BY <1>3, FS_CardinalityType
<1>5. Cardinality(Cells(f) \cup {c}) = Cardinality(Cells(f)) + 1
  BY FS_AddElement
<1>6. ASSUME RecordAt(g, c).key = k PROVE Cardinality(CellsOf(g, k)) = Cardinality(CellsOf(f, k)) + 1
  <2>1. CellsOf(g, k) = CellsOf(f, k) \cup {c}
    BY <1>1, <1>6 DEF CellsOf
  <2>2. QED
    BY <1>2, <1>3, <2>1, FS_AddElement
<1>7. ASSUME RecordAt(g, c).key # k PROVE CellsOf(g, k) = CellsOf(f, k)
  BY <1>1, <1>7 DEF CellsOf
<1>8. QED
  BY <1>1, <1>4, <1>5, <1>6, <1>7

-----------------------------------------------------------------------------
(***************************************************************************)
(* A new table.                                                            *)
(***************************************************************************)
GrowBody(g, i) ==
  IF i = 0 THEN array_list_init(5) ELSE array_list_insert(g[i - 1], i - 1, i)

IsGrowUpTo(g, n) == g = [i \in 0 .. n |-> GrowBody(g, i)]

LEMMA GrowExists ==
  ASSUME NEW n \in Nat
  PROVE  \E g : IsGrowUpTo(g, n)
<1> DEFINE D == { j \in Nat : ~ \E g : IsGrowUpTo(g, j) }
<1>1. ASSUME D # {} PROVE FALSE
  <2>1. PICK j \in D : \A e \in D : j <= e
    BY <1>1, LeastNatural
  <2>2. CASE j = 0
    <3> DEFINE g == [i \in 0 .. 0 |-> array_list_init(5)]
    <3>1. \A i \in 0 .. 0 : GrowBody(g, i) = array_list_init(5)
      BY DEF GrowBody
    <3>2. g = [i \in 0 .. 0 |-> GrowBody(g, i)]
      BY <3>1
    <3>3. QED
      BY <2>1, <2>2, <3>2 DEF IsGrowUpTo
  <2>3. CASE j # 0
    <3>1. j \in Nat /\ j - 1 \in Nat /\ j - 1 \notin D
      BY <2>1, <2>3
    <3>2. PICK f : IsGrowUpTo(f, j - 1)
      BY <3>1
    <3> DEFINE g == [i \in 0 .. j |-> IF i = j THEN GrowBody(f, j) ELSE f[i]]
    <3>3. g = [i \in 0 .. j |-> g[i]] /\ g[j] = GrowBody(f, j) /\ \A i \in 0 .. j - 1 : g[i] = f[i]
      BY <3>1
    <3> HIDE DEF g
    <3>4. \A i \in 0 .. j - 1 : f[i] = GrowBody(f, i)
      BY <3>2 DEF IsGrowUpTo
    <3>5. ASSUME NEW i \in 0 .. j PROVE g[i] = GrowBody(g, i)
      <4>1. i # 0 => i - 1 \in 0 .. j - 1
        BY <3>1
      <4>2. GrowBody(g, i) = GrowBody(f, i)
        BY <3>3, <4>1 DEF GrowBody
      <4>3. CASE i = j
        BY <3>3, <4>2, <4>3
      <4>4. CASE i # j
        <5>1. i \in 0 .. j - 1
          BY <3>1, <4>4
        <5>2. QED
          BY <3>3, <3>4, <4>2, <5>1
      <4>5. QED
        BY <4>3, <4>4
    <3>6. IsGrowUpTo(g, j)
      BY <3>3, <3>5 DEF IsGrowUpTo
    <3>7. QED
      BY <2>1, <3>6
  <2>4. QED
    BY <2>2, <2>3
<1>2. QED
  BY <1>1

\* m leads the first i indexes to the first i buckets.
LeadsTo(m, i) ==
  /\ m \in Seq(Nat) /\ Len(m) # 0 /\ i <= Len(m)
  /\ \A j \in 0 .. i - 1 : HeadOf(m, j) = j + 1

LEMMA NewMapIs == LeadsTo(NewMap, InitialSize)
<1> DEFINE grow == CHOOSE g : IsGrowUpTo(g, InitialSize)
<1>1. InitialSize \in Nat
  BY ParameterAssumption
<1>2. IsGrowUpTo(grow, InitialSize)
  BY <1>1, GrowExists
<1>3. NewMap = grow[InitialSize]
  BY DEF NewMap, IsGrowUpTo, GrowBody
<1> HIDE DEF grow
<1>4. \A i \in 0 .. InitialSize : grow[i] = GrowBody(grow, i)
  BY <1>2 DEF IsGrowUpTo
<1> DEFINE bad == { i \in 0 .. InitialSize : ~LeadsTo(grow[i], i) }
<1>5. ASSUME bad # {} PROVE FALSE
  <2>1. bad \in SUBSET Nat
    BY <1>1
  <2>2. PICK i \in bad : \A e \in bad : i <= e
    BY <1>5, <2>1, LeastNatural
  <2>3. i \in 0 .. InitialSize /\ ~LeadsTo(grow[i], i)
    BY <2>2
  <2>4. CASE i = 0
    <3>1. grow[i] = [j \in 1 .. 5 |-> FirstPlace]
      BY <1>4, <2>3, <2>4 DEF GrowBody, array_list_init
    <3>2. grow[i] \in Seq(Nat) /\ Len(grow[i]) = 5
      BY <3>1 DEF FirstPlace
    <3>3. QED
      BY <2>3, <2>4, <3>2 DEF LeadsTo
  <2>5. CASE i # 0
    <3>1. i - 1 \in 0 .. InitialSize /\ i - 1 < i /\ i \in Nat /\ i - 1 \in Nat
      BY <1>1, <2>3, <2>5
    <3>2. i - 1 \notin bad
      BY <2>2, <3>1
    <3>3. PICK m : m = grow[i - 1]
      OBVIOUS
    <3>4. m \in Seq(Nat) /\ Len(m) # 0 /\ i - 1 <= Len(m) /\ \A j \in 0 .. (i - 1) - 1 : HeadOf(m, j) = j + 1
      BY <3>1, <3>2, <3>3 DEF LeadsTo
    <3>5. PICK a : a = array_list_insert(m, i - 1, i)
      OBVIOUS
    <3>6. /\ a \in Seq(Nat) /\ Len(a) >= Len(m) /\ (i - 1) + 1 <= Len(a)
          /\ HeadOf(a, i - 1) = i
          /\ \A j \in Nat : j < Len(m) /\ j # i - 1 => HeadOf(a, j) = HeadOf(m, j)
      BY <3>1, <3>4, <3>5, ArrayInsert
    <3>7. Len(m) \in Nat /\ Len(a) \in Nat
      BY <3>4, <3>6
    <3>8. ASSUME NEW j \in 0 .. i - 1 PROVE HeadOf(a, j) = j + 1
      <4>1. CASE j = i - 1
        BY <3>1, <3>6, <4>1
      <4>2. CASE j # i - 1
        <5>1. j \in 0 .. (i - 1) - 1 /\ j \in Nat /\ j < Len(m)
          BY <3>1, <3>4, <3>7, <4>2
        <5>2. QED
          BY <3>4, <3>6, <4>2, <5>1
      <4>3. QED
        BY <4>1, <4>2
    <3>9. LeadsTo(a, i)
      BY <3>1, <3>4, <3>6, <3>7, <3>8 DEF LeadsTo
    <3>10. grow[i] = a
      BY <1>4, <2>3, <2>5, <3>3, <3>5 DEF GrowBody
    <3>11. QED
      BY <2>3, <3>9, <3>10
  <2>6. QED
    BY <2>4, <2>5
<1>6. InitialSize \in 0 .. InitialSize
  BY <1>1
<1>7. QED
  BY <1>3, <1>5, <1>6

LEMMA NewTable == Chained(NewFile, NewMap, InitialSize) /\ Cells(NewFile) = {}
<1> DEFINE f == NewFile
           blank == [j \in Slots |-> Blank]
<1>1. InitialSize \in Nat \ {0}
  BY ParameterAssumption
<1>2. /\ NewMap \in Seq(Nat) /\ Len(NewMap) # 0 /\ InitialSize <= Len(NewMap)
      /\ \A j \in 0 .. InitialSize - 1 : HeadOf(NewMap, j) = j + 1
  BY NewMapIs DEF LeadsTo
<1>3. f = [p \in 1 .. InitialSize |-> Bucket(p - 1, 0, EndOfList, blank)]
  BY DEF NewFile
<1> HIDE DEF f
<1>4. \A i \in Nat : Bucket(i, 0, EndOfList, blank) \in Buckets
  BY BlankSlots DEF EndOfList
<1>5. /\ f \in Seq(Buckets) /\ DOMAIN f = 1 .. InitialSize
      /\ \A p \in 1 .. InitialSize : f[p] = Bucket(p - 1, 0, EndOfList, blank)
  <2>1. \A p \in 1 .. InitialSize : p - 1 \in Nat
    BY <1>1
  <2>2. \A p \in 1 .. InitialSize : Bucket(p - 1, 0, EndOfList, blank) \in Buckets
    BY <1>4, <2>1
  <2> HIDE DEF blank
  <2>3. QED
    BY <1>1, <1>3, <2>2
<1>6. \A p \in DOMAIN f : /\ f[p].idx = p - 1 /\ f[p].count = 0 /\ f[p].overflow = EndOfList
                          /\ \A s \in Slots : f[p].slots[s] = Blank
  BY <1>5 DEF Bucket
<1>7. StoreTyped(f, NewMap, InitialSize)
  <2>1. \A i \in 0 .. InitialSize - 1 : HeadOf(NewMap, i) \in DOMAIN f /\ f[HeadOf(NewMap, i)].idx = i
    BY <1>1, <1>2, <1>5, <1>6
  <2>2. \A p \in DOMAIN f : f[p].idx \in 0 .. InitialSize - 1
    BY <1>1, <1>5, <1>6
  <2>3. QED
    BY <1>1, <1>2, <1>5, <2>1, <2>2 DEF StoreTyped
<1>8. Filled(f)
  <2>1. \A s \in Slots : ~(s <= 0)
    BY DEF Slots
  <2>2. QED
    BY <1>6, <2>1, Parameters DEF Filled
<1>9. LinksBack(f, NewMap)
  <2>1. \A p \in DOMAIN f : 0 < p
    BY <1>5
  <2>2. \A p \in DOMAIN f, q \in DOMAIN f : f[q].idx = f[p].idx => ~(q < p)
    BY <1>5, <1>6
  <2>3. QED
    BY <1>6, <2>1, <2>2 DEF LinksBack, EndOfList
<1>10. RoomAtHeads(f, NewMap)
  BY <1>6 DEF RoomAtHeads
<1>11. Cells(f) = {}
  <2>1. \A s \in Slots : ~(s <= 0)
    BY DEF Slots
  <2>2. QED
    BY <1>6, <2>1 DEF Cells
<1>12. QED
  BY <1>7, <1>8, <1>9, <1>10, <1>11 DEF Chained, f

-----------------------------------------------------------------------------
(***************************************************************************)
(* The steps keep the invariant of the contents.  First the parts that a   *)
(* step leaves as they are.                                                *)
(***************************************************************************)
LEMMA SamePlaces ==
  ASSUME Placed, UNCHANGED <<file, initial_size, next_split>>, Splitting => Splitting'
  PROVE  Placed'
<1> SUFFICES ASSUME NEW c \in Cells(file) PROVE BelongsTo(RecordAt(file, c).key, file[c[1]].idx)'
  BY DEF Placed
<1>1. PICK k, i : k = RecordAt(file, c).key /\ i = file[c[1]].idx
  OBVIOUS
<1>2. BelongsTo(k, i)
  BY <1>1 DEF Placed
<1>3. BelongsTo(k, i)'
  BY <1>2, SameBelonging
<1>4. RecordAt(file, c)' = RecordAt(file, c) /\ file'[c[1]] = file[c[1]]
  BY DEF RecordAt
<1>5. QED
  BY <1>1, <1>3, <1>4 DEF BelongsTo, IndexOf, insert_hash_to_bucket, hash_to_bucket, Moves, RecordAt

LEMMA SameCounts ==
  ASSUME Counted, UNCHANGED <<file, num_records, held>>,
         \A k \in Keys : (Deleting(k)' <=> Deleting(k)) /\ Taken(k)' = Taken(k)
  PROVE  Counted'
  BY DEF Counted, CellsOf

\* Records of a table have a key and a value.
LEMMA RecordFacts ==
  ASSUME NEW r \in Records
  PROVE  r.status = "full" /\ r.key \in Keys /\ r.value \in Values
  BY DEF Records

LEMMA DeleteStepKeepsContents == ASSUME IInv, ContentsInv, DeleteStep PROVE ContentsInv'
<1> DEFINE b == file[call.place]
           hits == { s \in call.slot .. b.count :
                       call.records[s].status # "empty" /\ call.records[s].key = call.key }
           i == IndexOf(call.key)
<1>1. /\ call.pc = "delete"
      /\ UNCHANGED <<file, bucket_map, initial_size, next_split, num_buckets, num_records, held>>
  BY DEF DeleteStep, table
<1>2. /\ call = [pc |-> "delete", key |-> call.key, place |-> call.place, slot |-> call.slot,
                 records |-> call.records, count |-> call.count, back |-> call.back]
      /\ call.back = Idle \/ call.back = SplitFrom(call.back.place, call.back.key)
  BY <1>1 DEF IInv, CallShape, Idle
<1>3. Chained(file, bucket_map, num_buckets) /\ Placed /\ Progress /\ Counted /\ Genuine
  BY DEF ContentsInv
<1>4. /\ call.key \in Keys /\ call.slot \in Nat \ {0} /\ call.count \in Nat
      /\ call.place \in DOMAIN file /\ b.idx = i
      /\ \A c \in InIndex(file, i) :
           Passed(c, call.place, call.slot) => RecordAt(file, c).key # call.key
      /\ \A s \in call.slot .. b.count : call.records[s] = b.slots[s]
  BY <1>1, <1>3 DEF Progress, DeletePassed
<1>5. call.back # Idle => SplitPassed(call.back.place) /\ SplitKey(call.key)
  BY <1>1, <1>3 DEF Progress
<1>6. b.count \in Nat /\ b.count <= RecordsPerBucket /\ RecordsPerBucket \in Nat
  BY <1>3, <1>4, StoreFacts, Parameters DEF Chained
<1>7. \A s \in call.slot .. b.count : s \in Slots /\ <<call.place, s>> \in InIndex(file, i)
                                      /\ call.records[s] = RecordAt(file, <<call.place, s>>)
                                      /\ call.records[s] \in Records
  <2> SUFFICES ASSUME NEW s \in call.slot .. b.count
               PROVE  s \in Slots /\ <<call.place, s>> \in InIndex(file, i)
                      /\ call.records[s] = RecordAt(file, <<call.place, s>>)
                      /\ call.records[s] \in Records
    OBVIOUS
  <2>1. s \in Slots /\ s <= b.count
    BY <1>4, <1>6 DEF Slots
  <2>2. <<call.place, s>> \in Cells(file)
    BY <1>3, <1>4, <2>1, CellFacts
  <2>3. RecordAt(file, <<call.place, s>>) \in Records
    BY <1>3, <2>2, CellFacts
  <2>4. QED
    BY <1>4, <2>1, <2>2, <2>3 DEF InIndex, RecordAt
<1>8. \A s \in call.slot .. b.count : call.records[s].status = "full"
  BY <1>7, RecordFacts
<1>9. hits \in SUBSET Nat
  BY <1>4, <1>6
<1>10. CASE hits # {}
  <2>1. Min(hits) \in hits /\ \A s \in hits : Min(hits) <= s
    BY <1>9, <1>10, MinIn
  <2>2. PICK n \in hits : n = Min(hits) /\ \A s \in hits : n <= s
    BY <2>1
  <2>3. n \in call.slot .. b.count /\ call.records[n].key = call.key
    OBVIOUS
  <2>4. call' = [call EXCEPT !.pc = "swap", !.slot = n] /\ cache' = Append(cache, call.records[n].value)
    BY <1>10, <2>2 DEF DeleteStep
  <2>5. call' = [pc |-> "swap", key |-> call.key, place |-> call.place, slot |-> n,
                 records |-> call.records, count |-> call.count, back |-> call.back]
    BY <1>2, <2>4
  <2> HIDE DEF hits
  <2>6. /\ call'.pc = "swap" /\ call'.key = call.key /\ call'.place = call.place /\ call'.slot = n
        /\ call'.records = call.records /\ call'.count = call.count /\ call'.back = call.back
    BY <2>5
  <2>7. (Splitting' <=> Splitting) /\ InFlight' = InFlight
    BY <1>1, <2>6 DEF Splitting, InFlight
  <2>8. Placed'
    BY <1>1, <1>3, <2>7, SamePlaces
  <2>9. i' = i
    BY <1>1, <2>6 DEF IndexOf, insert_hash_to_bucket, hash_to_bucket
  <2>10. n \in Nat \ {0}
    BY <1>4, <1>6, <2>3
  <2>11. ASSUME NEW c \in InIndex(file, i), Passed(c, call.place, n)
         PROVE  RecordAt(file, c).key # call.key
    <3>1. c = <<c[1], c[2]>> /\ c[1] \in Nat /\ c[2] \in Nat /\ c[2] <= file[c[1]].count
      BY <1>3, CellFacts DEF InIndex
    <3>2. CASE Passed(c, call.place, call.slot)
      BY <1>4, <3>2
    <3>3. CASE ~Passed(c, call.place, call.slot)
      <4>1. c[1] = call.place /\ c[2] < n /\ ~(c[2] < call.slot)
        BY <2>11, <3>3 DEF Passed
      <4>2. c[2] \in call.slot .. b.count
        BY <1>4, <1>6, <3>1, <4>1
      <4>3. c[2] \notin hits
        BY <2>2, <2>10, <3>1, <4>1
      <4>4. call.records[c[2]].key # call.key
        BY <1>8, <4>2, <4>3 DEF hits
      <4>5. QED
        BY <1>7, <3>1, <4>1, <4>2, <4>4
    <3>4. QED
      BY <3>2, <3>3
  <2>12. \A s \in n .. b.count : call.records[s] = b.slots[s]
    BY <1>4, <1>6, <2>3
  <2>13. n <= b.count /\ b.slots[n].key = call.key
    BY <1>4, <1>6, <2>3
  <2>14. DeletePassed'
    BY <1>1, <1>4, <2>6, <2>9, <2>10, <2>11, <2>12, <2>13 DEF DeletePassed, RecordAt, InIndex, Cells
  <2>15. Progress'
    BY <1>1, <1>5, <2>6, <2>14
       DEF Progress, SplitPassed, SplitKey, Moves, insert_hash_to_bucket, hash_to_bucket, InIndex, Cells, RecordAt
  <2>16. Counted'
    BY <1>1, <1>3, <2>6, <2>7, SameCounts DEF Deleting, Taken
  <2>17. PICK r \in Records : r = call.records[n]
    BY <1>7, <2>3
  <2>18. r.key = call.key /\ r.value \in Values
    BY <2>3, <2>17, RecordFacts
  <2>19. cache' \in Seq(Values) /\ Len(cache') = Len(cache) + 1 /\ Len(cache) \in Nat
         /\ \A j \in 1 .. Len(cache') : cache'[j] = r.value \/ (j \in 1 .. Len(cache) /\ cache'[j] = cache[j])
    BY <1>3, <2>4, <2>17, <2>18 DEF Genuine
  <2>20. Splitting => held[call.key][r.value] > 0
    <3>1. Deleting(call.key) \/ held[r.key][r.value] > 0
      <4>1. <<call.place, n>> \in Cells(file) /\ RecordAt(file, <<call.place, n>>) = r
        BY <1>7, <2>3, <2>17 DEF InIndex
      <4>2. QED
        BY <1>3, <2>18, <4>1 DEF Genuine
    <3>2. QED
      BY <1>1, <2>18, <3>1 DEF Deleting, Splitting
  <2>21. Genuine'
    <3>1. \A c \in Cells(file) : LET d == RecordAt(file, c) IN Deleting(d.key)' \/ held[d.key][d.value] > 0
      BY <1>1, <1>3, <2>6 DEF Genuine, Deleting
    <3>2. Splitting => \A j \in 1 .. Len(cache) : held[call.key][cache[j]] > 0
      BY <1>1, <1>3 DEF Genuine
    <3>3. Splitting => \A j \in 1 .. Len(cache') : held[call.key][cache'[j]] > 0
      BY <2>19, <2>20, <3>2
    <3>4. call.count < Len(cache')
      BY <1>1, <1>3, <1>4, <2>19 DEF Genuine
    <3>5. QED
      BY <1>1, <2>6, <2>7, <2>19, <3>1, <3>3, <3>4 DEF Genuine, Cells, RecordAt, Deleting
  <2>22. QED
    BY <1>1, <1>3, <2>8, <2>15, <2>16, <2>21 DEF ContentsInv
<1>11. ASSUME hits = {}, NEW c \in InIndex(file, i), ~(c[1] < call.place)
       PROVE  RecordAt(file, c).key # call.key
  <2>1. c = <<c[1], c[2]>> /\ c[1] \in Nat /\ c[2] \in Nat /\ c[2] <= file[c[1]].count /\ call.place \in Nat
    BY <1>3, <1>4, CellFacts, StoreFacts DEF InIndex, Chained
  <2>2. CASE Passed(c, call.place, call.slot)
    BY <1>4, <2>2
  <2>3. CASE ~Passed(c, call.place, call.slot)
    <3>1. c[1] = call.place /\ ~(c[2] < call.slot)
      BY <1>11, <2>1, <2>3 DEF Passed
    <3>2. c[2] \in call.slot .. b.count
      BY <1>4, <1>6, <2>1, <3>1
    <3>3. call.records[c[2]].key # call.key
      BY <1>8, <1>11, <3>2
    <3>4. QED
      BY <1>7, <2>1, <3>1, <3>2, <3>3
  <2>4. QED
    BY <2>2, <2>3
<1>12. CASE hits = {} /\ b.overflow # EndOfList
  <2>1. call' = [call EXCEPT !.place = b.overflow, !.slot = 1, !.records = file[b.overflow].slots]
        /\ cache' = cache
    BY <1>12 DEF DeleteStep
  <2>2. call' = [pc |-> "delete", key |-> call.key, place |-> b.overflow, slot |-> 1,
                 records |-> file[b.overflow].slots, count |-> call.count, back |-> call.back]
    <3> DEFINE d == [pc |-> "delete", key |-> call.key, place |-> call.place, slot |-> call.slot,
                     records |-> call.records, count |-> call.count, back |-> call.back]
    <3>1. call' = [d EXCEPT !.place = b.overflow, !.slot = 1, !.records = file[b.overflow].slots]
      BY <1>2, <2>1
    <3>2. QED
      BY <3>1
  <2>3. /\ call'.pc = "delete" /\ call'.key = call.key /\ call'.place = b.overflow /\ call'.slot = 1
        /\ call'.records = file[b.overflow].slots /\ call'.count = call.count /\ call'.back = call.back
    BY <2>2
  <2>4. (Splitting' <=> Splitting) /\ InFlight' = InFlight
    BY <1>1, <2>3 DEF Splitting, InFlight
  <2>5. Placed'
    BY <1>1, <1>3, <2>4, SamePlaces
  <2>6. i' = i
    BY <1>1, <2>3 DEF IndexOf, insert_hash_to_bucket, hash_to_bucket
  <2>7. b.overflow \in DOMAIN file /\ file[b.overflow].idx = i
    BY <1>3, <1>4, <1>12, LinkInFile
  <2>8. ASSUME NEW c \in InIndex(file, i), Passed(c, b.overflow, 1)
        PROVE  RecordAt(file, c).key # call.key
    <3>1. c[1] \in Nat /\ c[2] \in Nat \ {0} /\ b.overflow \in Nat
      BY <1>3, <1>4, CellFacts, StoreFacts DEF InIndex, Chained
    <3>2. c[1] > b.overflow
      BY <2>8, <3>1 DEF Passed
    <3>3. ~(c[1] < call.place)
      <4>1. c[1] < call.place => c[1] <= b.overflow
        BY <1>3, <1>4, NextIsOlder
      <4>2. QED
        BY <3>1, <3>2, <4>1
    <3>4. QED
      BY <1>11, <1>12, <3>3
  <2>9. DeletePassed'
    BY <1>1, <1>4, <2>3, <2>6, <2>7, <2>8 DEF DeletePassed, RecordAt, InIndex, Cells
  <2>10. Progress'
    BY <1>1, <1>5, <2>3, <2>9
       DEF Progress, SplitPassed, SplitKey, Moves, insert_hash_to_bucket, hash_to_bucket, InIndex, Cells, RecordAt
  <2>11. Counted'
    BY <1>1, <1>3, <2>3, <2>4, SameCounts DEF Deleting, Taken
  <2>12. Genuine'
    BY <1>1, <1>3, <2>1, <2>3, <2>4 DEF Genuine, Cells, RecordAt, Deleting
  <2>13. QED
    BY <1>1, <1>3, <2>5, <2>10, <2>11, <2>12 DEF ContentsInv
\* The walk is at its end: no record of the key is left in its chain.
<1>13. ASSUME hits = {}, b.overflow = EndOfList, NEW c \in InIndex(file, i)
       PROVE  RecordAt(file, c).key # call.key
  <2>1. ~(c[1] < call.place)
    BY <1>3, <1>4, <1>13, NextIsOlder
  <2>2. QED
    BY <1>11, <1>13, <2>1
<1>14. CASE hits = {} /\ b.overflow = EndOfList /\ call.back = Idle
  <2>1. call' = Idle /\ cache' = cache
    BY <1>14 DEF DeleteStep
  <2>2. ~Splitting /\ ~Splitting' /\ InFlight = 0 /\ InFlight' = 0 /\ call'.pc = "idle"
    BY <1>1, <1>14, <2>1 DEF Splitting, InFlight, Idle
  <2>3. Placed'
    BY <1>1, <1>3, <2>2, SamePlaces
  <2>4. Progress'
    BY <2>2 DEF Progress
  <2>5. \A c \in Cells(file) : RecordAt(file, c).key # call.key
    <3> SUFFICES ASSUME NEW c \in Cells(file), RecordAt(file, c).key = call.key PROVE FALSE
      OBVIOUS
    <3>1. file[c[1]].idx = i
      BY <1>3, <2>2 DEF Placed, BelongsTo
    <3>2. QED
      BY <1>13, <1>14, <3>1 DEF InIndex
  <2>6. CellsOf(file, call.key) = {}
    BY <2>5 DEF CellsOf
  <2>7. ASSUME NEW k \in Keys PROVE Total(Values, held[k]) = Cardinality(CellsOf(file, k))
    <3>1. CASE k = call.key
      <4>1. Total(Values, held[k]) = 0
        BY <1>1, <1>3, <1>14, <3>1 DEF Counted, Deleting
      <4>2. QED
        BY <2>6, <3>1, <4>1, FS_EmptySet
    <3>2. CASE k # call.key
      <4>1. IsFiniteSet(CellsOf(file, k))
        BY <1>3, CellFacts, FS_Subset DEF CellsOf
      <4>2. Cardinality(CellsOf(file, k)) \in Nat
        BY <4>1, FS_CardinalityType
      <4>3. Total(Values, held[k]) = Cardinality(CellsOf(file, k)) + 0
        BY <1>3, <3>2 DEF Counted, Deleting, Taken
      <4>4. QED
        BY <4>2, <4>3
    <3>3. QED
      BY <3>1, <3>2
  <2>8. Counted'
    <3>1. \A k \in Keys : ~Deleting(k)' /\ Taken(k)' = 0
      BY <2>2 DEF Deleting, Taken
    <3>2. \A k \in Keys : IsFiniteSet(CellsOf(file, k)) /\ Cardinality(CellsOf(file, k)) \in Nat
      BY <1>3, CellFacts, FS_Subset, FS_CardinalityType DEF CellsOf
    <3>3. \A k \in Keys : CellsOf(file, k)' = CellsOf(file, k)
      BY <1>1 DEF CellsOf, Cells, RecordAt
    <3>4. QED
      BY <1>1, <1>3, <2>7, <3>1, <3>2, <3>3 DEF Counted, Cells
  <2>9. Genuine'
    <3>1. \A c \in Cells(file) : LET d == RecordAt(file, c) IN held[d.key][d.value] > 0
      BY <1>3, <2>5 DEF Genuine, Deleting
    <3>2. QED
      BY <1>1, <1>3, <2>1, <2>2, <3>1 DEF Genuine, Cells, RecordAt
  <2>10. QED
    BY <1>1, <1>3, <2>3, <2>4, <2>8, <2>9 DEF ContentsInv
<1>15. CASE hits = {} /\ b.overflow = EndOfList /\ call.back # Idle
  <2>1. call' = [pc |-> "reinsert", key |-> call.key, place |-> call.back.place,
                 todo |-> call.count, next |-> 1] /\ cache' = cache
    BY <1>15 DEF DeleteStep
  <2>2. /\ call'.pc = "reinsert" /\ call'.key = call.key /\ call'.place = call.back.place
        /\ call'.todo = call.count /\ call'.next = 1
    BY <2>1
  <2>3. Splitting /\ Splitting' /\ InFlight = call.count /\ InFlight' = call.count
    BY <1>1, <1>15, <2>2 DEF Splitting, InFlight
  <2>4. Placed'
    BY <1>1, <1>3, <2>3, SamePlaces
  <2>5. i = next_split
    BY <1>5, <1>15, <2>3, SplitKeyFacts
  <2>6. \A c \in InIndex(file, next_split) : RecordAt(file, c).key # call.key
    BY <1>13, <1>15, <2>5
  <2>7. Progress'
    BY <1>1, <1>4, <1>5, <1>15, <2>2, <2>6
       DEF Progress, SplitPassed, SplitKey, Moves, insert_hash_to_bucket, hash_to_bucket, InIndex, Cells, RecordAt
  <2>8. Counted'
    BY <1>1, <1>3, <1>15, <2>2, <2>3, SameCounts DEF Deleting, Taken
  <2>9. Genuine'
    <3>1. \A c \in Cells(file) : LET d == RecordAt(file, c) IN held[d.key][d.value] > 0
      BY <1>3, <1>15 DEF Genuine, Deleting
    <3>2. \A j \in 1 .. Len(cache) : held[call.key][cache[j]] > 0
      BY <1>1, <1>3, <2>3 DEF Genuine
    <3>3. 1 + call.count <= Len(cache) + 1
      <4>1. call.count <= Len(cache) /\ Len(cache) \in Nat
        BY <1>1, <1>3 DEF Genuine
      <4>2. QED
        BY <1>4, <4>1
    <3>4. cache' \in Seq(Values) /\ cache' = cache
      BY <1>3, <2>1 DEF Genuine
    <3>5. (\A c \in Cells(file) : LET d == RecordAt(file, c) IN Deleting(d.key) \/ held[d.key][d.value] > 0)'
      BY <1>1, <3>1 DEF Cells, RecordAt
    <3>6. call'.next \in Nat \ {0} /\ call'.next + call'.todo <= Len(cache') + 1
      BY <2>2, <3>3, <3>4
    <3>7. \A j \in 1 .. Len(cache') : held'[call'.key][cache'[j]] > 0
      BY <1>1, <2>2, <3>2, <3>4
    <3>8. QED
      BY <2>2, <3>4, <3>5, <3>6, <3>7 DEF Genuine
  <2>10. QED
    BY <1>1, <1>3, <2>4, <2>7, <2>8, <2>9 DEF ContentsInv
<1>16. QED
  BY <1>10, <1>12, <1>14, <1>15

\* A record of the key of the one at c leaves: the last one of the head fills
\* the hole, unless it is of the key itself.
LEMMA Swapping ==
  ASSUME NEW f, NEW m, NEW n, Chained(f, m, n), NEW i \in 0 .. n - 1, NEW h, h = HeadOf(m, i),
         NEW c \in InIndex(f, i), NEW k, k = RecordAt(f, c).key,
         NEW l, l = <<h, f[h].count>>, NEW r, r = RecordAt(f, l),
         NEW t, t = Take(f, h), NEW g, g = IF r.key # k THEN Fill(t, c, r) ELSE t,
         NEW a, a = IF f[h].count = 1 /\ f[h].overflow # EndOfList
                      THEN array_list_insert(m, i, f[h].overflow) ELSE m
  PROVE  /\ Chained(g, a, n) /\ DOMAIN g = DOMAIN f /\ \A p \in DOMAIN f : g[p].idx = f[p].idx
         /\ l \in InIndex(f, i) /\ r \in Records /\ l \notin Cells(g) /\ Cells(f) = Cells(g) \cup {l}
         /\ \A d \in Cells(g) : d # c => RecordAt(g, d) = RecordAt(f, d)
         /\ r.key = k => RecordAt(g, c) = RecordAt(f, c) \/ c \notin Cells(g)
         /\ r.key # k => c \in Cells(g) /\ RecordAt(g, c) = r
         /\ Cardinality(Cells(f)) = Cardinality(Cells(g)) + 1
         /\ Cardinality(CellsOf(f, k)) = Cardinality(CellsOf(g, k)) + 1
         /\ \A x : x # k => Cardinality(CellsOf(f, x)) = Cardinality(CellsOf(g, x))
<1>1. f[h].count # 0
  BY HeadIsNewest
<1>2. Chained(t, a, n) /\ l \notin Cells(t) /\ Grown(t, f, {l}) /\ DOMAIN t = DOMAIN f
  BY <1>1, Taking
<1>3. /\ \A p \in DOMAIN f : t[p].idx = f[p].idx
      /\ Cells(f) = Cells(t) \cup {l}
      /\ \A d \in Cells(t) : RecordAt(t, d) = RecordAt(f, d)
  BY <1>2 DEF Grown
<1>4. IsFiniteSet(Cells(t)) /\ IsFiniteSet(Cells(f))
  BY <1>2, CellFacts
<1>5. l \in Cells(f) /\ l[1] = h
  BY <1>3
<1>6. r \in Records /\ l \in InIndex(f, i)
  <2>1. f[h].idx = i
    BY StoreFacts DEF Chained
  <2>2. QED
    BY <1>5, <2>1, CellFacts DEF InIndex
<1>7. /\ Cardinality(Cells(f)) = Cardinality(Cells(t)) + 1
      /\ \A x : /\ r.key = x => Cardinality(CellsOf(f, x)) = Cardinality(CellsOf(t, x)) + 1
                /\ r.key # x => CellsOf(f, x) = CellsOf(t, x)
                /\ Cardinality(CellsOf(t, x)) \in Nat
  BY <1>2, <1>4, GrownByOne
<1>8. CASE r.key = k
  <2>1. g = t
    BY <1>8
  <2>2. \A x : x # k => Cardinality(CellsOf(f, x)) = Cardinality(CellsOf(g, x))
    BY <1>7, <1>8, <2>1
  <2>3. QED
    BY <1>2, <1>3, <1>6, <1>7, <1>8, <2>1, <2>2
<1>9. CASE r.key # k
  <2>1. g = Fill(t, c, r) /\ c # l /\ c \in Cells(f) /\ c \in Cells(t)
    <3>1. c \in Cells(f) /\ c # l
      BY <1>9 DEF InIndex
    <3>2. QED
      BY <1>3, <1>9, <3>1
  <2>2. /\ Chained(g, a, n) /\ Cells(g) = Cells(t) /\ DOMAIN g = DOMAIN t
        /\ \A p \in DOMAIN t : g[p].idx = t[p].idx
        /\ RecordAt(g, c) = r /\ \A d \in Cells(t) : d # c => RecordAt(g, d) = RecordAt(t, d)
    <3>1. Chained(t, a, n) /\ c \in Cells(t) /\ r \in Records /\ g = Fill(t, c, r)
      BY <1>2, <1>6, <2>1
    <3>2. QED
      BY <3>1, Filling
  <2>3. \A x : IsFiniteSet(CellsOf(t, x)) /\ IsFiniteSet(CellsOf(g, x))
    BY <1>4, <2>2, FS_Subset DEF CellsOf
  <2>4. RecordAt(t, c).key = k
    BY <1>3, <2>1
  <2>5. Cardinality(CellsOf(f, k)) = Cardinality(CellsOf(g, k)) + 1
    <3>1. CellsOf(t, k) = CellsOf(g, k) \cup {c} /\ c \notin CellsOf(g, k)
      BY <1>9, <2>1, <2>2, <2>4 DEF CellsOf
    <3>2. Cardinality(CellsOf(g, k) \cup {c}) = Cardinality(CellsOf(g, k)) + 1
      BY <2>3, <3>1, FS_AddElement
    <3>3. QED
      BY <1>7, <1>9, <3>1, <3>2
  <2>6. ASSUME NEW x, x # k PROVE Cardinality(CellsOf(f, x)) = Cardinality(CellsOf(g, x))
    <3>1. CASE r.key = x
      <4>1. CellsOf(g, x) = CellsOf(t, x) \cup {c} /\ c \notin CellsOf(t, x)
        BY <2>1, <2>2, <2>4, <2>6, <3>1 DEF CellsOf
      <4>2. Cardinality(CellsOf(t, x) \cup {c}) = Cardinality(CellsOf(t, x)) + 1
        BY <2>3, <4>1, FS_AddElement
      <4>3. QED
        BY <1>7, <3>1, <4>1, <4>2
    <3>2. CASE r.key # x
      <4>1. CellsOf(g, x) = CellsOf(t, x)
        BY <2>1, <2>2, <2>4, <2>6, <3>2 DEF CellsOf
      <4>2. QED
        BY <1>7, <3>2, <4>1
    <3>3. QED
      BY <3>1, <3>2
  <2>7. QED
    BY <1>2, <1>3, <1>6, <1>7, <1>9, <2>1, <2>2, <2>5, <2>6
<1>10. QED
  BY <1>8, <1>9

LEMMA SwapStepKeepsContents == ASSUME IInv, ContentsInv, SwapStep PROVE ContentsInv'
<1> DEFINE i == IndexOf(call.key)
           c == <<call.place, call.slot>>
           h == SwapHead
           l == <<h, file[h].count>>
           r == SwapRecord
           again == r.key = call.key /\ ~SwapIsSelf
<1>1. /\ call.pc = "swap"
      /\ UNCHANGED <<initial_size, next_split, num_buckets, held>>
      /\ num_records' = num_records - 1
  BY DEF SwapStep, TakeSwapRecord
<1>2. /\ call = [pc |-> "swap", key |-> call.key, place |-> call.place, slot |-> call.slot,
                 records |-> call.records, count |-> call.count, back |-> call.back]
      /\ call.back = Idle \/ call.back = SplitFrom(call.back.place, call.back.key)
  BY <1>1 DEF IInv, CallShape, Idle
<1>3. Chained(file, bucket_map, num_buckets) /\ Placed /\ Progress /\ Counted /\ Genuine
  BY DEF ContentsInv
<1>4. /\ call.key \in Keys /\ call.slot \in Nat \ {0} /\ call.count \in Nat
      /\ call.place \in DOMAIN file /\ file[call.place].idx = i
      /\ \A d \in InIndex(file, i) :
           Passed(d, call.place, call.slot) => RecordAt(file, d).key # call.key
      /\ \A s \in call.slot .. file[call.place].count : call.records[s] = file[call.place].slots[s]
      /\ call.slot <= file[call.place].count /\ file[call.place].slots[call.slot].key = call.key
  BY <1>1, <1>3 DEF Progress, DeletePassed
<1>5. call.back # Idle => SplitPassed(call.back.place) /\ SplitKey(call.key)
  BY <1>1, <1>3 DEF Progress
<1>6. file[call.place].count \in 0 .. RecordsPerBucket /\ RecordsPerBucket \in Nat
  BY <1>3, <1>4, StoreFacts, Parameters DEF Chained
<1>7. c \in InIndex(file, i) /\ RecordAt(file, c).key = call.key
  <2>1. call.slot \in Slots
    BY <1>4, <1>6 DEF Slots
  <2>2. c \in Cells(file)
    BY <1>3, <1>4, <2>1, CellFacts
  <2>3. QED
    BY <1>4, <2>2 DEF InIndex, RecordAt
<1>8. i \in 0 .. num_buckets - 1 /\ h = HeadOf(bucket_map, i)
  BY <1>4, IndexInRange DEF Indexes, SwapHead, bucket_idx_to_ion_fpos_t, HeadOf
<1>9. file[h].idx = i /\ h \in DOMAIN file
  BY <1>3, <1>8, StoreFacts DEF Chained
<1>10. r = RecordAt(file, l)
  BY DEF SwapRecord, RecordAt
<1>11. /\ file' = IF r.key # call.key THEN Fill(Take(file, h), c, r) ELSE Take(file, h)
       /\ bucket_map' = IF file[h].count = 1 /\ file[h].overflow # EndOfList
                          THEN array_list_insert(bucket_map, i, file[h].overflow) ELSE bucket_map
  <2>1. TakeSwapRecord(r.key # call.key)
    BY DEF SwapStep
  <2>2. QED
    BY <1>9, <2>1 DEF TakeSwapRecord, Fill, Take, SwapRecord
<1>12. l = c <=> SwapIsSelf
  BY DEF SwapIsSelf
<1> HIDE DEF i, c, h, l, r
<1>12a. l = <<h, file[h].count>>
  BY DEF l
<1>13. /\ Chained(file', bucket_map', num_buckets) /\ DOMAIN file' = DOMAIN file
       /\ \A p \in DOMAIN file : file'[p].idx = file[p].idx
       /\ l \in InIndex(file, i) /\ r \in Records /\ l \notin Cells(file') /\ Cells(file) = Cells(file') \cup {l}
       /\ \A d \in Cells(file') : d # c => RecordAt(file', d) = RecordAt(file, d)
       /\ r.key = call.key => RecordAt(file', c) = RecordAt(file, c) \/ c \notin Cells(file')
       /\ r.key # call.key => c \in Cells(file') /\ RecordAt(file', c) = r
       /\ Cardinality(Cells(file)) = Cardinality(Cells(file')) + 1
       /\ Cardinality(CellsOf(file, call.key)) = Cardinality(CellsOf(file', call.key)) + 1
       /\ \A x : x # call.key => Cardinality(CellsOf(file, x)) = Cardinality(CellsOf(file', x))
  BY <1>3, <1>7, <1>8, <1>10, <1>11, <1>12a, Swapping
<1>14. \A d \in Cells(file') : d \in Cells(file) /\ file'[d[1]].idx = file[d[1]].idx
  <2> SUFFICES ASSUME NEW d \in Cells(file') PROVE d \in Cells(file) /\ file'[d[1]].idx = file[d[1]].idx
    OBVIOUS
  <2>1. d \in Cells(file)
    BY <1>13
  <2>2. d[1] \in DOMAIN file
    BY <1>3, <2>1, CellFacts
  <2>3. QED
    BY <1>13, <2>1, <2>2
<1>15. r.key \in Keys /\ r.value \in Values
  BY <1>13, RecordFacts
\* Every record there is after the step was there before, in the same chain.
<1>16. ASSUME NEW d \in Cells(file')
       PROVE  \E e \in Cells(file) : RecordAt(file, e) = RecordAt(file', d) /\ file[e[1]].idx = file'[d[1]].idx
  <2>1. CASE d # c \/ r.key = call.key
    <3>1. RecordAt(file', d) = RecordAt(file, d)
      BY <1>13, <2>1
    <3>2. QED
      BY <1>14, <3>1
  <2>2. CASE d = c /\ r.key # call.key
    <3>1. RecordAt(file', d) = RecordAt(file, l) /\ l \in Cells(file) /\ file[l[1]].idx = i
      BY <1>10, <1>13, <2>2 DEF InIndex
    <3>2. file'[d[1]].idx = i
      BY <1>7, <1>14, <2>2 DEF InIndex
    <3>3. QED
      BY <3>1, <3>2
  <2>3. QED
    BY <2>1, <2>2
<1>17. PICK pc \in {"delete", "swap"}, slot \in Nat :
         /\ call' = [pc |-> pc, key |-> call.key, place |-> call.place, slot |-> slot,
                     records |-> call.records, count |-> call.count + 1, back |-> call.back]
         /\ again => pc = "swap" /\ slot = call.slot
         /\ ~again => pc = "delete" /\ slot = call.slot + 1
  <2> DEFINE d == [pc |-> "swap", key |-> call.key, place |-> call.place, slot |-> call.slot,
                   records |-> call.records, count |-> call.count, back |-> call.back]
             n == call.count + 1
             s == call.slot + 1
  <2>1. CASE again
    <3>1. call' = [d EXCEPT !.count = n]
      BY <1>2, <2>1 DEF SwapStep, r
    <3>2. call' = [pc |-> "swap", key |-> call.key, place |-> call.place, slot |-> call.slot,
                   records |-> call.records, count |-> n, back |-> call.back]
      <4> HIDE DEF n
      <4> QED
        BY <3>1
    <3>3. call.slot \in Nat
      BY <1>4
    <3>4. QED
      BY <2>1, <3>2, <3>3
  <2>2. CASE ~again
    <3>1. call' = [d EXCEPT !.pc = "delete", !.slot = s, !.count = n]
      BY <1>2, <2>2 DEF SwapStep, r
    <3>2. call' = [pc |-> "delete", key |-> call.key, place |-> call.place, slot |-> s,
                   records |-> call.records, count |-> n, back |-> call.back]
      <4> HIDE DEF n, s
      <4> QED
        BY <3>1
    <3>3. s \in Nat
      BY <1>4
    <3>4. QED
      BY <2>2, <3>2, <3>3
  <2>3. QED
    BY <2>1, <2>2
<1>18. /\ call'.pc = pc /\ call'.key = call.key /\ call'.place = call.place /\ call'.slot = slot
       /\ call'.records = call.records /\ call'.count = call.count + 1 /\ call'.back = call.back
  BY <1>17
<1>19. (Splitting' <=> Splitting) /\ (Splitting <=> call.back # Idle)
       /\ InFlight = (IF call.back # Idle THEN call.count ELSE 0)
       /\ InFlight' = (IF call.back # Idle THEN call.count + 1 ELSE 0)
  BY <1>1, <1>18 DEF Splitting, InFlight
<1>20. Placed'
  <2> SUFFICES ASSUME NEW d \in Cells(file') PROVE BelongsTo(RecordAt(file, d).key, file[d[1]].idx)'
    BY DEF Placed
  <2>1. PICK e \in Cells(file) : RecordAt(file, e) = RecordAt(file', d) /\ file[e[1]].idx = file'[d[1]].idx
    BY <1>16
  <2>2. PICK k, j : k = RecordAt(file, e).key /\ j = file[e[1]].idx
    OBVIOUS
  <2>3. BelongsTo(k, j)
    BY <1>3, <2>2 DEF Placed
  <2>4. BelongsTo(k, j)'
    BY <1>1, <1>19, <2>3, SameBelonging
  <2>5. RecordAt(file', d).key = k /\ file'[d[1]].idx = j
    BY <2>1, <2>2
  <2>6. QED
    BY <2>4, <2>5 DEF BelongsTo, IndexOf, insert_hash_to_bucket, hash_to_bucket, Moves, RecordAt
<1>21. IndexOf(call.key)' = i
  BY <1>1, <1>18 DEF IndexOf, insert_hash_to_bucket, hash_to_bucket, i
<1>22. ASSUME NEW d \in InIndex(file', i), Passed(d, call.place, slot)
       PROVE  RecordAt(file', d).key # call.key
  <2>1. d \in InIndex(file, i) /\ d \in Cells(file') /\ d = <<d[1], d[2]>> /\ d[2] \in Nat
    BY <1>3, <1>14, CellFacts DEF InIndex
  <2>2. CASE d # c /\ Passed(d, call.place, call.slot)
    BY <1>4, <1>13, <2>1, <2>2 DEF i
  <2>3. CASE d # c /\ ~Passed(d, call.place, call.slot)
    <3>1. d[1] = call.place /\ d[2] < slot /\ ~(d[2] < call.slot)
      BY <1>22, <2>3 DEF Passed
    <3>2. d[2] = call.slot
      BY <1>4, <1>17, <2>1, <3>1
    <3>3. QED
      BY <2>1, <2>3, <3>1, <3>2 DEF c
  <2>4. CASE d = c
    <3>1. slot # call.slot
      <4>1. call.place \in Nat
        BY <1>3, <1>4, StoreFacts DEF Chained
      <4>2. QED
        BY <1>4, <1>22, <2>4, <4>1 DEF Passed, c
    <3>2. ~again
      BY <1>17, <3>1
    <3>3. r.key # call.key
      BY <1>12, <1>13, <2>1, <2>4, <3>2
    <3>4. QED
      BY <1>13, <2>4, <3>3
  <2>5. QED
    BY <2>2, <2>3, <2>4
<1>23. ASSUME NEW s \in slot .. file'[call.place].count
       PROVE  call.records[s] = file'[call.place].slots[s]
  <2> DEFINE d == <<call.place, s>>
  <2>1. file'[call.place].count \in 0 .. RecordsPerBucket
    BY <1>4, <1>13, StoreFacts DEF Chained
  <2>2. s \in Slots /\ s <= file'[call.place].count
    BY <1>4, <1>6, <1>17, <2>1 DEF Slots
  <2>3. d \in Cells(file')
    BY <1>4, <1>13, <2>2, CellFacts
  <2>4. s <= file[call.place].count
    BY <1>14, <2>3 DEF Cells
  <2>5. s \in call.slot .. file[call.place].count
    BY <1>4, <1>6, <1>17, <2>2, <2>4 DEF Slots
  <2>6. RecordAt(file', d) = RecordAt(file, d)
    <3>1. CASE d # c
      BY <1>13, <2>3, <3>1
    <3>2. CASE d = c
      <4>1. s = call.slot
        BY <3>2 DEF c
      <4>2. again
        BY <1>4, <1>17, <4>1
      <4>3. QED
        BY <1>13, <2>3, <3>2, <4>2
    <3>3. QED
      BY <3>1, <3>2
  <2>7. QED
    BY <1>4, <2>5, <2>6 DEF RecordAt
<1>24. pc = "swap" => slot <= file'[call.place].count /\ file'[call.place].slots[slot].key = call.key
  <2> SUFFICES ASSUME pc = "swap"
               PROVE  slot <= file'[call.place].count /\ file'[call.place].slots[slot].key = call.key
    OBVIOUS
  <2>1. again /\ slot = call.slot
    BY <1>17
  <2>2. c # l /\ r.key = call.key
    BY <1>12, <2>1
  <2>3. c \in Cells(file')
    BY <1>7, <1>13, <2>2 DEF InIndex
  <2>4. RecordAt(file', c) = RecordAt(file, c)
    BY <1>13, <2>2, <2>3
  <2>5. QED
    BY <1>7, <2>1, <2>3, <2>4 DEF c, Cells, RecordAt
<1>25. DeletePassed'
  <2>1. slot \in Nat \ {0} /\ call.count + 1 \in Nat
    BY <1>4, <1>17
  <2>2. call.place \in DOMAIN file' /\ file'[call.place].idx = i
    BY <1>4, <1>13 DEF i
  <2>3. \A d \in InIndex(file', i) : Passed(d, call.place, slot) => RecordAt(file', d).key # call.key
    BY <1>22
  <2>4. QED
    BY <1>4, <1>18, <1>21, <1>23, <1>24, <2>1, <2>2, <2>3 DEF DeletePassed, RecordAt, InIndex, Cells
<1>26. ASSUME call.back # Idle PROVE SplitPassed(call.back.place)' /\ SplitKey(call.key)'
  <2>0. PICK p : p = call.back.place
    OBVIOUS
  <2>1. /\ p \in DOMAIN file /\ file[p].idx = next_split
        /\ \A d \in InIndex(file, next_split) : d[1] > p => ~Moves(RecordAt(file, d).key)
        /\ SplitKey(call.key)
    BY <1>5, <1>26, <2>0 DEF SplitPassed
  <2>2. i = next_split
    BY <1>19, <1>26, <2>1, SplitKeyFacts DEF i
  <2>3. ~(c[1] > p)
    BY <1>7, <2>1, <2>2 DEF SplitKey
  <2>4. ASSUME NEW d \in InIndex(file', next_split), d[1] > p
        PROVE  Moves(RecordAt(file, d).key)' <=> FALSE
    <3>1. d # c /\ d \in InIndex(file, next_split) /\ d \in Cells(file')
      BY <1>14, <2>3, <2>4 DEF InIndex
    <3>2. PICK x : x = RecordAt(file', d).key
      OBVIOUS
    <3>3. ~Moves(x)
      BY <1>13, <2>1, <2>4, <3>1, <3>2
    <3>4. ~Moves(x)'
      BY <1>1, <3>3 DEF Moves, insert_hash_to_bucket, hash_to_bucket
    <3>5. QED
      BY <3>2, <3>4 DEF Moves, insert_hash_to_bucket, hash_to_bucket, RecordAt
  <2>5. (\A d \in InIndex(file, next_split) : d[1] > p => ~Moves(RecordAt(file, d).key))'
    BY <1>1, <2>4 DEF InIndex, Cells
  <2>6. SplitPassed(call.back.place)'
    <3>1. p \in DOMAIN file' /\ file'[p].idx = next_split' /\ call'.back.place = p
      BY <1>1, <1>13, <1>18, <2>0, <2>1
    <3>2. SplitPassed(p)'
      BY <2>5, <3>1 DEF SplitPassed
    <3>3. QED
      BY <3>1, <3>2 DEF SplitPassed
  <2>7. SplitKey(call.key)'
    BY <1>1, <1>18, <2>1 DEF SplitKey, Moves, insert_hash_to_bucket, hash_to_bucket
  <2>8. QED
    BY <2>6, <2>7
<1>27. Progress'
  <2>1. pc # "split" /\ pc # "reinsert"
    BY <1>17
  <2>2. QED
    BY <1>18, <1>25, <1>26, <2>1 DEF Progress
<1>28. Counted'
  <2>1. IsFiniteSet(Cells(file'))
    BY <1>13, CellFacts
  <2>2. Cardinality(Cells(file')) \in Nat /\ \A x : Cardinality(CellsOf(file', x)) \in Nat
    BY <2>1, FS_Subset, FS_CardinalityType DEF CellsOf
  <2>3. num_records' = Cardinality(Cells(file'))
    BY <1>1, <1>3, <1>13, <2>2 DEF Counted
  <2>4. ASSUME NEW k \in Keys
        PROVE  Total(Values, held[k]) = IF Deleting(k)' THEN 0 ELSE Cardinality(CellsOf(file', k)) + Taken(k)'
    <3>1. Total(Values, held[k]) = IF Deleting(k) THEN 0 ELSE Cardinality(CellsOf(file, k)) + Taken(k)
      BY <1>3 DEF Counted
    <3>2. Deleting(k)' <=> Deleting(k)
      BY <1>1, <1>18 DEF Deleting
    <3>3. CASE k = call.key /\ call.back = Idle
      BY <1>1, <3>1, <3>2, <3>3 DEF Deleting
    <3>4. CASE k = call.key /\ call.back # Idle
      <4>1. Taken(k) = call.count /\ Taken(k)' = call.count + 1 /\ ~Deleting(k)
        BY <1>1, <1>18, <1>19, <3>4 DEF Taken, Deleting
      <4>2. Total(Values, held[k]) = (Cardinality(CellsOf(file', k)) + 1) + call.count
        BY <1>13, <3>1, <3>4, <4>1
      <4>3. (Cardinality(CellsOf(file', k)) + 1) + call.count = Cardinality(CellsOf(file', k)) + (call.count + 1)
        BY <1>4, <2>2
      <4>4. QED
        BY <3>2, <4>1, <4>2, <4>3
    <3>5. CASE k # call.key
      BY <1>13, <1>18, <3>1, <3>2, <3>5 DEF Taken
    <3>6. QED
      BY <3>3, <3>4, <3>5
  <2>5. held \in [Keys -> [Values -> Nat]]
    BY <1>3 DEF Counted
  <2>6. QED
    BY <1>1, <2>3, <2>4, <2>5 DEF Counted, Cells, CellsOf, RecordAt
<1>29. \A j \in Keys : Deleting(j)' <=> Deleting(j)
  BY <1>1, <1>18 DEF Deleting
<1>30. ASSUME NEW d \in Cells(file')
       PROVE  (LET q == RecordAt(file, d) IN Deleting(q.key) \/ held[q.key][q.value] > 0)'
  <2>1. PICK e \in Cells(file) : RecordAt(file, e) = RecordAt(file', d)
    BY <1>16
  <2>2. PICK q \in Records : q = RecordAt(file, e)
    BY <1>3, CellFacts
  <2>3. Deleting(q.key) \/ held[q.key][q.value] > 0
    BY <1>3, <2>2 DEF Genuine
  <2>4. q.key \in Keys
    BY <2>2, RecordFacts
  <2>5. Deleting(q.key)' \/ held'[q.key][q.value] > 0
    BY <1>1, <1>29, <2>3, <2>4
  <2>6. RecordAt(file', d) = q
    BY <2>1, <2>2
  <2>7. QED
    BY <2>5, <2>6 DEF Deleting, RecordAt
<1>31. /\ cache' \in Seq(Values) /\ Len(cache) \in Nat
       /\ Len(cache') = Len(cache) + (IF r.key = call.key THEN 1 ELSE 0)
       /\ \A j \in 1 .. Len(cache') : \/ r.key = call.key /\ cache'[j] = r.value
                                      \/ j \in 1 .. Len(cache) /\ cache'[j] = cache[j]
  <2>1. cache' = IF r.key = call.key THEN Append(cache, r.value) ELSE cache
    BY DEF SwapStep, r
  <2>2. cache \in Seq(Values)
    BY <1>3 DEF Genuine
  <2>3. QED
    BY <1>15, <2>1, <2>2
<1>32. Splitting => \A j \in 1 .. Len(cache') : held[call.key][cache'[j]] > 0
  <2> SUFFICES ASSUME Splitting, NEW j \in 1 .. Len(cache') PROVE held[call.key][cache'[j]] > 0
    OBVIOUS
  <2>1. \A x \in 1 .. Len(cache) : held[call.key][cache[x]] > 0
    BY <1>1, <1>3 DEF Genuine
  <2>2. l \in Cells(file) /\ ~Deleting(call.key)
    BY <1>13, <1>19 DEF InIndex, Deleting
  <2>3. r.key = call.key => held[call.key][r.value] > 0
    BY <1>3, <1>10, <2>2 DEF Genuine
  <2>4. QED
    BY <1>31, <2>1, <2>3
<1>33. Genuine'
  <2>1. call.count < Len(cache)
    BY <1>1, <1>3 DEF Genuine
  <2>2. pc = "delete" => call.count + 1 <= Len(cache')
    BY <1>4, <1>31, <2>1
  <2>3. pc = "swap" => call.count + 1 < Len(cache')
    <3>1. pc = "swap" => r.key = call.key
      BY <1>17
    <3>2. QED
      BY <1>4, <1>31, <2>1, <3>1
  <2>4. (\A d \in Cells(file) : LET q == RecordAt(file, d) IN Deleting(q.key) \/ held[q.key][q.value] > 0)'
    BY <1>30 DEF Cells
  <2>5. Splitting' => \A j \in 1 .. Len(cache') : held'[call'.key][cache'[j]] > 0
    BY <1>1, <1>18, <1>19, <1>32
  <2>6. pc # "reinsert"
    BY <1>17
  <2>7. QED
    BY <1>18, <1>31, <2>2, <2>3, <2>4, <2>5, <2>6 DEF Genuine
<1>34. Chained(file, bucket_map, num_buckets)'
  BY <1>1, <1>13
<1>35. QED
  BY <1>20, <1>27, <1>28, <1>33, <1>34 DEF ContentsInv

\* A delete begins at the head of the chain of its key.
LEMMA DeleteBegins ==
  ASSUME IInv, ContentsInv, NEW k \in Keys, NEW back,
         UNCHANGED <<file, initial_size, next_split>>,
         call' = DeleteFrom(k, bucket_idx_to_ion_fpos_t(IndexOf(k)), back)
  PROVE  /\ call'.pc = "delete" /\ call'.key = k /\ call'.back = back /\ call'.count = 0
         /\ DeletePassed'
<1> DEFINE i == IndexOf(k)
           h == bucket_idx_to_ion_fpos_t(i)
<1>1. Chained(file, bucket_map, num_buckets)
  BY DEF ContentsInv
<1>2. i \in 0 .. num_buckets - 1 /\ h = HeadOf(bucket_map, i)
  BY IndexInRange DEF Indexes, bucket_idx_to_ion_fpos_t, HeadOf
<1>3. h \in DOMAIN file /\ h \in Nat /\ file[h].idx = i /\ file[h].count \in Nat
  BY <1>1, <1>2, StoreFacts, Parameters DEF Chained
<1>4. /\ call'.pc = "delete" /\ call'.key = k /\ call'.back = back /\ call'.count = 0
      /\ call'.place = h /\ call'.slot = 1 /\ call'.records = file[h].slots
  BY DEF DeleteFrom
<1>5. IndexOf(call.key)' = i
  BY <1>4 DEF IndexOf, insert_hash_to_bucket, hash_to_bucket
<1> HIDE DEF h, i
<1>6. ASSUME NEW c \in InIndex(file, i) PROVE ~Passed(c, h, 1)
  <2>1. c[1] <= h /\ c[1] \in Nat /\ c[2] \in Nat \ {0}
    BY <1>1, <1>2, HeadIsNewest, CellFacts DEF InIndex
  <2>2. QED
    BY <1>3, <2>1 DEF Passed
<1>7. DeletePassed'
  BY <1>3, <1>4, <1>5, <1>6 DEF DeletePassed, InIndex, Cells
<1>8. QED
  BY <1>4, <1>7

\* A split that goes on with the file as it is.
LEMMA SplitGoesOn ==
  ASSUME UNCHANGED <<file, initial_size, next_split>>, NEW p, SplitPassed(p)
  PROVE  SplitPassed(p)'
  BY DEF SplitPassed, InIndex, Cells, RecordAt, Moves, insert_hash_to_bucket, hash_to_bucket

LEMMA SplitStepKeepsContents == ASSUME IInv, ContentsInv, SplitStep PROVE ContentsInv'
<1> DEFINE b == file[call.place]
<1>1. /\ call.pc = "split"
      /\ UNCHANGED <<file, bucket_map, initial_size, num_buckets, num_records, held>>
  BY DEF SplitStep
<1>2. call = SplitFrom(call.place, call.key) /\ Splitting /\ InFlight = 0 /\ call # Idle
  BY <1>1 DEF IInv, CallShape, Idle, Splitting, InFlight
<1>3. Chained(file, bucket_map, num_buckets) /\ Placed /\ Progress /\ Counted /\ Genuine
  BY DEF ContentsInv
<1>4. /\ call.place \in DOMAIN file /\ b.idx = next_split
      /\ \A c \in InIndex(file, next_split) : c[1] > call.place => ~Moves(RecordAt(file, c).key)
  BY <1>1, <1>3 DEF Progress, SplitPassed
<1>5. b.count \in Nat /\ b.count <= RecordsPerBucket /\ RecordsPerBucket \in Nat /\ call.place \in Nat
  BY <1>3, <1>4, StoreFacts, Parameters DEF Chained
<1>6. ASSUME NEW s \in 1 .. b.count
      PROVE  <<call.place, s>> \in InIndex(file, next_split) /\ b.slots[s] \in Records
  <2>1. s \in Slots /\ s <= b.count
    BY <1>5 DEF Slots
  <2>2. <<call.place, s>> \in Cells(file)
    BY <1>3, <1>4, <2>1, CellFacts
  <2>3. RecordAt(file, <<call.place, s>>) \in Records
    BY <1>3, <2>2, CellFacts
  <2>4. QED
    BY <1>4, <2>2, <2>3 DEF InIndex, RecordAt
\* Nothing of what the callers hold is deleted or in flight.
<1>7. ASSUME InFlight' = 0, \A k \in Keys : ~Deleting(k)' PROVE Counted'
  <2>1. \A k \in Keys : Taken(k) = 0 /\ Taken(k)' = 0 /\ ~Deleting(k)
    BY <1>1, <1>2, <1>7 DEF Taken, Deleting
  <2>2. QED
    BY <1>1, <1>3, <1>7, <2>1, SameCounts
<1>8. \A c \in Cells(file) : LET r == RecordAt(file, c) IN held[r.key][r.value] > 0
  BY <1>1, <1>3 DEF Genuine, Deleting
<1>9. (\A c \in Cells(file) : LET r == RecordAt(file, c) IN Deleting(r.key) \/ held[r.key][r.value] > 0)'
  BY <1>1, <1>8 DEF Cells, RecordAt
<1>10. CASE Moving(b) # {}
  <2>1. Moving(b) \in SUBSET Nat
    BY <1>5 DEF Moving
  <2>2. PICK n \in Moving(b) : n = Min(Moving(b))
    BY <1>10, <2>1, MinIn
  <2>3. PICK k : k = b.slots[n].key
    OBVIOUS
  <2>4. n \in 1 .. b.count /\ Moves(k)
    BY <2>3 DEF Moving, Moves
  <2>5. k \in Keys
    BY <1>6, <2>3, <2>4, RecordFacts
  <2>6. BelongsTo(k, next_split)
    <3>1. <<call.place, n>> \in Cells(file) /\ file[call.place].idx = next_split
      BY <1>4, <1>6, <2>4 DEF InIndex
    <3>2. RecordAt(file, <<call.place, n>>).key = k
      BY <2>3 DEF RecordAt
    <3>3. QED
      BY <1>3, <3>1, <3>2 DEF Placed
  <2>7. SplitKey(k)
    BY <1>2, <2>4, <2>5, <2>6, MovingKeys
  <2>8. /\ call' = DeleteFrom(k, bucket_idx_to_ion_fpos_t(IndexOf(k)), call)
        /\ cache' = << >> /\ next_split' = next_split
    BY <1>10, <2>2, <2>3 DEF SplitStep
  <2>9. PICK back : back = call
    OBVIOUS
  <2>10. /\ call'.pc = "delete" /\ call'.key = k /\ call'.back = back /\ call'.count = 0
         /\ DeletePassed'
    BY <1>1, <2>5, <2>8, <2>9, DeleteBegins
  <2>11. Splitting' /\ InFlight' = 0 /\ \A j : ~Deleting(j)'
    BY <1>2, <2>9, <2>10 DEF Splitting, InFlight, Deleting
  <2>12. Placed'
    BY <1>1, <1>3, <2>8, <2>11, SamePlaces
  <2>13. SplitPassed(back.place)' /\ SplitKey(k)'
    <3>1. SplitPassed(back.place)
      BY <1>1, <1>3, <2>9 DEF Progress
    <3>2. SplitPassed(back.place)'
      BY <1>1, <2>8, <3>1, SplitGoesOn
    <3>3. QED
      BY <1>1, <2>7, <2>8, <3>2 DEF SplitKey, Moves, insert_hash_to_bucket, hash_to_bucket
  <2>14. Progress'
    <3>1. SplitPassed(call.back.place)' /\ SplitKey(call.key)'
      BY <2>10, <2>13 DEF SplitPassed, SplitKey, Moves, insert_hash_to_bucket, hash_to_bucket
    <3>2. QED
      BY <2>10, <3>1 DEF Progress
  <2>15. Genuine'
    BY <1>9, <2>8, <2>10 DEF Genuine
  <2>16. QED
    BY <1>1, <1>3, <1>7, <2>11, <2>12, <2>14, <2>15 DEF ContentsInv
<1>11. ASSUME Moving(b) = {}, NEW c \in InIndex(file, next_split), ~(c[1] < call.place)
       PROVE  ~Moves(RecordAt(file, c).key)
  <2>1. c = <<c[1], c[2]>> /\ c[1] \in Nat /\ c[2] \in Nat \ {0} /\ c[2] <= file[c[1]].count
    BY <1>3, CellFacts DEF InIndex
  <2>2. CASE c[1] > call.place
    BY <1>4, <2>2
  <2>3. CASE c[1] = call.place
    <3>1. c[2] \in 1 .. b.count
      BY <1>5, <2>1, <2>3
    <3>2. b.slots[c[2]].status = "full"
      BY <1>6, <3>1, RecordFacts
    <3>3. QED
      BY <1>11, <2>3, <3>1, <3>2 DEF Moving, Moves, RecordAt
  <2>4. QED
    BY <1>5, <1>11, <2>1, <2>2, <2>3
<1>12. CASE Moving(b) = {} /\ b.overflow # EndOfList
  <2>1. call' = [call EXCEPT !.place = b.overflow] /\ cache' = cache /\ next_split' = next_split
    BY <1>12 DEF SplitStep
  <2>2. call' = SplitFrom(b.overflow, call.key)
    BY <1>2, <2>1 DEF SplitFrom
  <2>3. call'.pc = "split" /\ call'.place = b.overflow /\ call'.key = call.key
    BY <2>2 DEF SplitFrom
  <2>4. Splitting' /\ InFlight' = 0 /\ \A j : ~Deleting(j)'
    BY <2>3 DEF Splitting, InFlight, Deleting
  <2>5. Placed'
    BY <1>1, <1>3, <2>1, <2>4, SamePlaces
  <2>6. b.overflow \in DOMAIN file /\ file[b.overflow].idx = next_split
    BY <1>3, <1>4, <1>12, LinkInFile
  <2>7. ASSUME NEW c \in InIndex(file, next_split), c[1] > b.overflow
        PROVE  ~Moves(RecordAt(file, c).key)
    <3>1. c[1] \in Nat /\ b.overflow \in Nat
      BY <1>3, <1>4, CellFacts, StoreFacts DEF InIndex, Chained
    <3>2. c[1] < call.place => c[1] <= b.overflow
      BY <1>3, <1>4, NextIsOlder
    <3>3. ~(c[1] < call.place)
      BY <2>7, <3>1, <3>2
    <3>4. QED
      BY <1>11, <1>12, <3>3
  <2>8. PICK o : o = b.overflow
    OBVIOUS
  <2>9. SplitPassed(o)
    BY <2>6, <2>7, <2>8 DEF SplitPassed
  <2>10. SplitPassed(o)'
    BY <1>1, <2>1, <2>9, SplitGoesOn
  <2>11. Progress'
    BY <2>3, <2>8, <2>10 DEF Progress, SplitPassed
  <2>12. Genuine'
    BY <1>3, <1>9, <2>1, <2>3 DEF Genuine
  <2>13. QED
    BY <1>1, <1>3, <1>7, <2>4, <2>5, <2>11, <2>12 DEF ContentsInv
\* The chain has been walked: the keys that move are looked up where they are.
<1>13. CASE Moving(b) = {} /\ b.overflow = EndOfList
  <2>1. call' = Idle /\ next_split' = next_split + 1 /\ cache' = cache
    BY <1>13 DEF SplitStep
  <2>2. call'.pc = "idle" /\ ~Splitting' /\ InFlight' = 0 /\ \A j : ~Deleting(j)'
    BY <2>1 DEF Idle, Splitting, InFlight, Deleting
  <2>3. \A c \in InIndex(file, next_split) : ~Moves(RecordAt(file, c).key)
    <3> SUFFICES ASSUME NEW c \in InIndex(file, next_split) PROVE ~Moves(RecordAt(file, c).key)
      OBVIOUS
    <3>1. ~(c[1] < call.place)
      BY <1>3, <1>4, <1>13, NextIsOlder
    <3>2. QED
      BY <1>11, <1>13, <3>1
  <2>4. initial_size \in Nat \ {0} /\ next_split \in Nat
    BY DEF IInv, Numbers
  <2>5. ASSUME NEW c \in Cells(file) PROVE BelongsTo(RecordAt(file, c).key, file[c[1]].idx)'
    <3>1. PICK k, i : k = RecordAt(file, c).key /\ i = file[c[1]].idx
      OBVIOUS
    <3>2. k \in Keys
      BY <1>3, <3>1, CellFacts, RecordFacts
    <3>3. BelongsTo(k, i)
      BY <1>3, <3>1 DEF Placed
    <3>4. i = next_split => ~Moves(k)
      BY <2>3, <3>1 DEF InIndex
    <3>5. insert_hash_to_bucket(k) \in 0 .. initial_size - 1
      BY <3>2, Hashes
    <3>6. insert_hash_to_bucket(k)' = insert_hash_to_bucket(k) /\ hash_to_bucket(k)' = hash_to_bucket(k)
      BY <1>1 DEF insert_hash_to_bucket, hash_to_bucket
    <3>7. i = IndexOf(k)'
      <4>1. CASE insert_hash_to_bucket(k) # next_split
        <5>1. i = IndexOf(k)
          BY <3>3, <4>1 DEF BelongsTo
        <5>2. insert_hash_to_bucket(k) < next_split + 1 <=> insert_hash_to_bucket(k) < next_split
          BY <2>4, <3>5, <4>1
        <5>3. QED
          BY <2>1, <3>6, <5>1, <5>2 DEF IndexOf
      <4>2. CASE insert_hash_to_bucket(k) = next_split
        <5>1. IndexOf(k) = next_split /\ IndexOf(k)' = hash_to_bucket(k)
          BY <2>1, <2>4, <3>6, <4>2 DEF IndexOf
        <5>2. CASE i = IndexOf(k)
          BY <3>4, <4>2, <5>1, <5>2 DEF Moves
        <5>3. CASE i # IndexOf(k)
          BY <3>3, <5>1, <5>3 DEF BelongsTo
        <5>4. QED
          BY <5>2, <5>3
      <4>3. QED
        BY <4>1, <4>2
    <3>8. RecordAt(file', c).key = k /\ file'[c[1]].idx = i
      BY <1>1, <3>1
    <3>9. QED
      BY <3>7, <3>8 DEF BelongsTo, IndexOf, insert_hash_to_bucket, hash_to_bucket, RecordAt
  <2>6. Placed'
    BY <1>1, <2>5 DEF Placed, Cells
  <2>7. Progress'
    BY <2>2 DEF Progress
  <2>8. Genuine'
    BY <1>3, <1>9, <2>1, <2>2 DEF Genuine
  <2>9. QED
    BY <1>1, <1>3, <1>7, <2>2, <2>6, <2>7, <2>8 DEF ContentsInv
<1>14. QED
  BY <1>10, <1>12, <1>13

\* The value that a cell has more, as a record of the table.
LEMMA FullFacts ==
  ASSUME NEW k \in Keys, NEW v \in Values
  PROVE  Full(k, v) \in Records /\ Full(k, v).key = k /\ Full(k, v).value = v
  BY DEF Full, Records

LEMMA StillBelonging ==
  ASSUME ContentsInv, IInv, \A k \in Keys : IndexOf(k)' = IndexOf(k),
         \/ ~Splitting
         \/ Splitting' /\ UNCHANGED <<initial_size, next_split>>,
         NEW c, Grown(file, file', {c}), BelongsTo(RecordAt(file, c).key, file[c[1]].idx)'
  PROVE  Placed'
<1>1. Chained(file, bucket_map, num_buckets) /\ Placed
  BY DEF ContentsInv
<1> SUFFICES ASSUME NEW d \in Cells(file') PROVE BelongsTo(RecordAt(file, d).key, file[d[1]].idx)'
  BY DEF Placed
<1>2. CASE d = c
  BY <1>2
<1>3. CASE d # c
  <2>1. d \in Cells(file) /\ RecordAt(file', d) = RecordAt(file, d)
    BY <1>3 DEF Grown
  <2>2. d[1] \in DOMAIN file /\ RecordAt(file, d) \in Records
    BY <1>1, <2>1, CellFacts
  <2>3. file'[d[1]].idx = file[d[1]].idx
    BY <2>2 DEF Grown
  <2>4. PICK k, i : k = RecordAt(file, d).key /\ i = file[d[1]].idx
    OBVIOUS
  <2>5. BelongsTo(k, i) /\ k \in Keys
    BY <1>1, <2>1, <2>2, <2>4, RecordFacts DEF Placed
  <2>6. BelongsTo(k, i)'
    <3>1. CASE ~Splitting
      BY <2>5, <3>1 DEF BelongsTo
    <3>2. CASE Splitting
      BY <2>5, <3>2, SameBelonging
    <3>3. QED
      BY <3>1, <3>2
  <2>7. RecordAt(file', d).key = k /\ file'[d[1]].idx = i
    BY <2>1, <2>3, <2>4
  <2>8. QED
    BY <2>6, <2>7 DEF BelongsTo, IndexOf, insert_hash_to_bucket, hash_to_bucket, Moves, RecordAt
<1>4. QED
  BY <1>2, <1>3

LEMMA ReinsertStepKeepsContents == ASSUME IInv, ContentsInv, ReinsertStep PROVE ContentsInv'
<1>1. call.pc = "reinsert" /\ UNCHANGED <<initial_size, next_split, num_buckets, held, cache>>
  BY DEF ReinsertStep, table
<1>2. /\ call = [pc |-> "reinsert", key |-> call.key, place |-> call.place,
                 todo |-> call.todo, next |-> call.next]
      /\ Splitting /\ InFlight = call.todo
  BY <1>1 DEF IInv, CallShape, Idle, Splitting, InFlight
<1>3. Chained(file, bucket_map, num_buckets) /\ Placed /\ Progress /\ Counted /\ Genuine
  BY DEF ContentsInv
<1>4. PICK k, p : k = call.key /\ p = call.place
  OBVIOUS
<1>5. /\ SplitPassed(p) /\ SplitKey(k) /\ call.todo \in Nat
      /\ \A c \in InIndex(file, next_split) : RecordAt(file, c).key # k
  BY <1>1, <1>3, <1>4 DEF Progress
<1>6. \A c \in Cells(file) : LET r == RecordAt(file, c) IN held[r.key][r.value] > 0
  BY <1>1, <1>3 DEF Genuine, Deleting
<1>7. CASE call.todo = 0
  <2>1. call' = SplitFrom(p, k) /\ UNCHANGED <<file, bucket_map, num_records>>
    BY <1>4, <1>7 DEF ReinsertStep, table
  <2>2. call'.pc = "split" /\ call'.place = p /\ call'.key = k
    BY <2>1 DEF SplitFrom
  <2>3. Splitting' /\ InFlight' = 0
    BY <2>2 DEF Splitting, InFlight
  <2>4. Placed'
    BY <1>1, <1>3, <2>1, <2>3, SamePlaces
  <2>5. SplitPassed(p)'
    BY <1>1, <1>5, <2>1, SplitGoesOn
  <2>6. Progress'
    BY <2>2, <2>5 DEF Progress, SplitPassed
  <2>7. Counted'
    <3>1. \A j \in Keys : Taken(j) = 0 /\ Taken(j)' = 0 /\ ~Deleting(j) /\ ~Deleting(j)'
      BY <1>1, <1>2, <1>7, <2>2, <2>3 DEF Taken, Deleting
    <3>2. QED
      BY <1>1, <1>3, <2>1, <3>1, SameCounts
  <2>8. Genuine'
    <3>1. (\A c \in Cells(file) : LET r == RecordAt(file, c) IN Deleting(r.key) \/ held[r.key][r.value] > 0)'
      BY <1>1, <1>6, <2>1 DEF Cells, RecordAt
    <3>2. QED
      BY <1>1, <1>3, <2>2, <3>1 DEF Genuine
  <2>9. QED
    BY <1>1, <1>3, <2>1, <2>4, <2>6, <2>7, <2>8 DEF ContentsInv
<1>8. CASE call.todo # 0
  <2> DEFINE n == call.todo - 1
             m == call.next + 1
  <2>1. call' = [pc |-> "reinsert", key |-> k, place |-> p, todo |-> n, next |-> m]
    <3> DEFINE c == [pc |-> "reinsert", key |-> call.key, place |-> call.place,
                     todo |-> call.todo, next |-> call.next]
    <3>1. call' = [c EXCEPT !.todo = n, !.next = m]
      BY <1>2, <1>8 DEF ReinsertStep
    <3>2. QED
      <4> HIDE DEF n, m
      <4> QED
        BY <1>4, <3>1
  <2>2. /\ call'.pc = "reinsert" /\ call'.key = k /\ call'.place = p
        /\ call'.todo = n /\ call'.next = m
    BY <2>1
  <2>3. Splitting' /\ InFlight' = n
    BY <2>2 DEF Splitting, InFlight
  <2>4. /\ call.next \in Nat \ {0} /\ call.next + call.todo <= Len(cache) + 1
        /\ cache \in Seq(Values) /\ \A j \in 1 .. Len(cache) : held[k][cache[j]] > 0
    BY <1>1, <1>2, <1>3, <1>4 DEF Genuine
  <2>5. n \in Nat /\ m \in Nat \ {0} /\ m + n <= Len(cache) + 1 /\ call.next \in 1 .. Len(cache)
    BY <1>5, <1>8, <2>4
  <2>6. PICK v \in Values : v = cache[call.next]
    BY <2>4, <2>5
  <2>7. k \in Keys /\ held[k][v] > 0
    BY <1>5, <2>4, <2>5, <2>6 DEF SplitKey
  <2>8. PICK r \in Records : r = Full(k, v) /\ r.key = k /\ r.value = v
    BY <2>6, <2>7, FullFacts
  <2>9. PICK i : i = hash_to_bucket(k)
    OBVIOUS
  <2>10. i \in 0 .. num_buckets - 1 /\ i # next_split
    BY <1>2, <1>5, <2>9, SplitKeyFacts DEF Indexes
  <2>11. PICK s : s = PutRecord([file |-> file, map |-> bucket_map], i, r)
    OBVIOUS
  <2>12. file' = s.file /\ bucket_map' = s.map /\ num_records' = num_records + 1
    BY <1>4, <1>8, <2>6, <2>8, <2>9, <2>11 DEF ReinsertStep, Write, Store, ReinsertIndex
  <2>13. Chained(s.file, s.map, num_buckets) /\ HasMore(file, s.file, r, i)
    BY <1>3, <2>10, <2>11, Putting
  <2>14. PICK c : /\ c \notin Cells(file) /\ Grown(file, s.file, {c})
                  /\ RecordAt(s.file, c) = r /\ s.file[c[1]].idx = i
    BY <2>13 DEF HasMore
  <2>15. /\ Chained(file', bucket_map', num_buckets)
         /\ Grown(file, file', {c}) /\ RecordAt(file', c) = r /\ file'[c[1]].idx = i
    BY <2>12, <2>13, <2>14
  <2>16. \A d \in Cells(file) : d[1] \in DOMAIN file /\ file'[d[1]].idx = file[d[1]].idx
                                /\ RecordAt(file', d) = RecordAt(file, d)
    BY <1>3, <2>15, CellFacts DEF Grown
  <2>17. InIndex(file', next_split) = InIndex(file, next_split)
    BY <2>10, <2>14, <2>15, <2>16 DEF Grown, InIndex
  <2>18. Placed'
    <3>1. \A j \in Keys : IndexOf(j)' = IndexOf(j)
      BY <1>1 DEF IndexOf, insert_hash_to_bucket, hash_to_bucket
    <3>2. BelongsTo(k, i)
      BY <1>2, <1>5, <2>9 DEF BelongsTo, SplitKey
    <3>3. BelongsTo(k, i)'
      BY <1>1, <2>3, <3>2, SameBelonging
    <3>4. BelongsTo(RecordAt(file, c).key, file[c[1]].idx)'
      BY <2>8, <2>15, <3>3 DEF BelongsTo, IndexOf, insert_hash_to_bucket, hash_to_bucket, Moves, RecordAt
    <3>5. QED
      BY <1>1, <2>3, <2>15, <3>1, <3>4, StillBelonging
  <2>19. SplitPassed(p)'
    <3>1. p \in DOMAIN file' /\ file'[p].idx = next_split
      BY <1>5, <2>15 DEF SplitPassed, Grown
    <3>2. ASSUME NEW d \in InIndex(file, next_split), d[1] > p
          PROVE  (~Moves(RecordAt(file, d).key))'
      <4>1. PICK x : x = RecordAt(file, d).key
        OBVIOUS
      <4>2. ~Moves(x)
        BY <1>5, <3>2, <4>1 DEF SplitPassed
      <4>3. ~Moves(x)' /\ RecordAt(file', d).key = x
        BY <1>1, <2>16, <4>1, <4>2 DEF Moves, insert_hash_to_bucket, hash_to_bucket, InIndex
      <4>4. QED
        BY <4>3 DEF Moves, insert_hash_to_bucket, hash_to_bucket, RecordAt
    <3>3. (\A d \in InIndex(file, next_split) : d[1] > p => ~Moves(RecordAt(file, d).key))'
      BY <1>1, <2>17, <3>2
    <3>4. QED
      BY <1>1, <3>1, <3>3 DEF SplitPassed
  <2>20. \A d \in InIndex(file', next_split) : RecordAt(file', d).key # k
    BY <1>5, <2>16, <2>17 DEF InIndex
  <2>21. SplitKey(k)'
    BY <1>1, <1>5 DEF SplitKey, Moves, insert_hash_to_bucket, hash_to_bucket
  <2>22. Progress'
    <3>1. SplitPassed(call.place)' /\ SplitKey(call.key)'
      BY <2>2, <2>19, <2>21 DEF SplitPassed, SplitKey, Moves, insert_hash_to_bucket, hash_to_bucket
    <3>2. (\A d \in InIndex(file, next_split) : RecordAt(file, d).key # call.key)'
      BY <1>1, <2>2, <2>20 DEF InIndex, Cells, RecordAt
    <3>3. QED
      BY <2>2, <2>5, <3>1, <3>2 DEF Progress
  <2>23. Counted'
    <3>1. IsFiniteSet(Cells(file))
      BY <1>3, CellFacts
    <3>2. /\ Cardinality(Cells(file)) \in Nat /\ \A x : Cardinality(CellsOf(file, x)) \in Nat
          /\ Cardinality(Cells(file')) = Cardinality(Cells(file)) + 1
          /\ Cardinality(CellsOf(file', k)) = Cardinality(CellsOf(file, k)) + 1
          /\ \A x : x # k => CellsOf(file', x) = CellsOf(file, x)
      BY <2>8, <2>14, <2>15, <3>1, GrownByOne
    <3>3. num_records' = Cardinality(Cells(file'))
      BY <1>3, <2>12, <3>2 DEF Counted
    <3>4. ASSUME NEW x \in Keys
          PROVE  Total(Values, held[x]) = IF Deleting(x)' THEN 0 ELSE Cardinality(CellsOf(file', x)) + Taken(x)'
      <4>1. ~Deleting(x) /\ ~Deleting(x)' /\ Total(Values, held[x]) = Cardinality(CellsOf(file, x)) + Taken(x)
        BY <1>1, <1>3, <2>2 DEF Counted, Deleting
      <4>2. CASE x = k
        <5>1. Taken(x) = n + 1 /\ Taken(x)' = n
          BY <1>1, <1>2, <1>4, <1>5, <2>2, <2>3, <4>2 DEF Taken
        <5>2. Cardinality(CellsOf(file, x)) + (n + 1) = (Cardinality(CellsOf(file, x)) + 1) + n
          <6>1. PICK a \in Nat, z \in Nat : a = Cardinality(CellsOf(file, x)) /\ z = n
            BY <2>5, <3>2
          <6>2. a + (z + 1) = (a + 1) + z
            OBVIOUS
          <6>3. QED
            BY <6>1, <6>2
        <5>3. QED
          BY <3>2, <4>1, <4>2, <5>1, <5>2
      <4>3. CASE x # k
        BY <1>4, <2>2, <3>2, <4>1, <4>3 DEF Taken
      <4>4. QED
        BY <4>2, <4>3
    <3>5. held \in [Keys -> [Values -> Nat]]
      BY <1>3 DEF Counted
    <3>6. QED
      BY <1>1, <3>3, <3>4, <3>5 DEF Counted, Cells, CellsOf, RecordAt
  <2>24. Genuine'
    <3>1. ASSUME NEW d \in Cells(file') PROVE held[RecordAt(file', d).key][RecordAt(file', d).value] > 0
      <4>1. CASE d = c
        BY <2>7, <2>8, <2>15, <4>1
      <4>2. CASE d # c
        <5>1. d \in Cells(file) /\ RecordAt(file', d) = RecordAt(file, d)
          BY <2>15, <4>2 DEF Grown
        <5>2. QED
          BY <1>6, <5>1
      <4>3. QED
        BY <4>1, <4>2
    <3>2. (\A d \in Cells(file) : LET q == RecordAt(file, d) IN Deleting(q.key) \/ held[q.key][q.value] > 0)'
      BY <1>1, <3>1 DEF Cells, RecordAt
    <3>3. \A j \in 1 .. Len(cache') : held'[call'.key][cache'[j]] > 0
      BY <1>1, <2>2, <2>4
    <3>4. call'.next \in Nat \ {0} /\ call'.next + call'.todo <= Len(cache') + 1
      BY <1>1, <2>2, <2>5
    <3>5. QED
      BY <1>1, <2>2, <2>4, <3>2, <3>3, <3>4 DEF Genuine
  <2>25. QED
    BY <1>1, <2>15, <2>18, <2>22, <2>23, <2>24 DEF ContentsInv
<1>9. QED
  BY <1>7, <1>8

-----------------------------------------------------------------------------
(***************************************************************************)
(* The calls of a user.  One begins when no other runs.                    *)
(***************************************************************************)
LEMMA IdleContents ==
  ASSUME IInv, ContentsInv, call = Idle
  PROVE  /\ Chained(file, bucket_map, num_buckets) /\ Placed /\ Counted /\ Genuine
         /\ ~Splitting /\ \A k : ~Deleting(k) /\ Taken(k) = 0
         /\ \A k \in Keys : Total(Values, held[k]) = Cardinality(CellsOf(file, k))
         /\ \A c \in Cells(file) : LET r == RecordAt(file, c) IN held[r.key][r.value] > 0
<1>1. Chained(file, bucket_map, num_buckets) /\ Placed /\ Counted /\ Genuine
  BY DEF ContentsInv
<1>2. ~Splitting /\ \A k : ~Deleting(k) /\ Taken(k) = 0
  BY DEF Idle, Splitting, Deleting, Taken
<1>3. ASSUME NEW k \in Keys PROVE Total(Values, held[k]) = Cardinality(CellsOf(file, k))
  <2>1. IsFiniteSet(CellsOf(file, k))
    BY <1>1, CellFacts, FS_Subset DEF CellsOf
  <2>2. Cardinality(CellsOf(file, k)) \in Nat
    BY <2>1, FS_CardinalityType
  <2>3. Total(Values, held[k]) = Cardinality(CellsOf(file, k)) + 0
    BY <1>1, <1>2 DEF Counted
  <2>4. QED
    BY <2>2, <2>3
<1>4. \A c \in Cells(file) : LET r == RecordAt(file, c) IN held[r.key][r.value] > 0
  BY <1>1, <1>2 DEF Genuine
<1>5. QED
  BY <1>1, <1>2, <1>3, <1>4

\* After such a step nothing is being deleted or in flight.
LEMMA QuietStep ==
  ASSUME call' = Idle \/ \E p, k : call' = SplitFrom(p, k)
  PROVE  /\ call'.pc \in {"idle", "split"} /\ InFlight' = 0
         /\ \A k : ~Deleting(k)' /\ Taken(k)' = 0
<1>1. call'.pc \in {"idle", "split"}
  BY DEF Idle, SplitFrom
<1>2. InFlight' = 0
  BY <1>1 DEF InFlight
<1>3. QED
  BY <1>1, <1>2 DEF Deleting, Taken

\* One more is held of k and v.
HeldOneMore(k, v) == [held EXCEPT ![k][v] = @ + 1]

LEMMA HeldMore ==
  ASSUME NEW k \in Keys, NEW v \in Values, held \in [Keys -> [Values -> Nat]],
         NEW g, g = HeldOneMore(k, v)
  PROVE  /\ g \in [Keys -> [Values -> Nat]]
         /\ Total(Values, held[k]) \in Nat /\ Total(Values, g[k]) = Total(Values, held[k]) + 1
         /\ \A x \in Keys : x # k => g[x] = held[x]
         /\ g[k][v] > 0 /\ \A x \in Keys, w \in Values : held[x][w] > 0 => g[x][w] > 0
<1>1. PICK a \in [Values -> Nat] : a = held[k]
  OBVIOUS
<1>2. PICK b : b = [a EXCEPT ![v] = @ + 1]
  OBVIOUS
<1>3. b \in [Values -> Nat] /\ b[v] = a[v] + 1 /\ a[v] \in Nat /\ \A w \in Values \ {v} : b[w] = a[w]
  BY <1>1, <1>2
<1>4. g = [held EXCEPT ![k] = b]
  BY <1>1, <1>2 DEF HeldOneMore
<1>5. g \in [Keys -> [Values -> Nat]] /\ g[k] = b /\ \A x \in Keys : x # k => g[x] = held[x]
  BY <1>3, <1>4
<1>6. Total(Values, a) \in Nat /\ Total(Values, b) = Total(Values, a) + 1
  BY <1>1, <1>3, TotalOfMore, ValuesAssumption
<1>7. ASSUME NEW x \in Keys, NEW w \in Values, held[x][w] > 0 PROVE g[x][w] > 0
  <2>1. CASE x = k
    BY <1>1, <1>3, <1>5, <1>7, <2>1
  <2>2. CASE x # k
    BY <1>5, <1>7, <2>2
  <2>3. QED
    BY <2>1, <2>2
<1>8. QED
  BY <1>1, <1>3, <1>5, <1>6, <1>7

LEMMA InsertCounts ==
  ASSUME IInv, ContentsInv, call = Idle, NEW k \in Keys, NEW v \in Values,
         call' = Idle \/ \E p, q : call' = SplitFrom(p, q),
         NEW c, c \notin Cells(file), Grown(file, file', {c}), RecordAt(file', c) = Full(k, v),
         num_records' = num_records + 1, held' = HeldOneMore(k, v), cache' = cache
  PROVE  Counted' /\ Genuine'
<1>1. /\ Chained(file, bucket_map, num_buckets) /\ Counted /\ Genuine
      /\ \A x \in Keys : Total(Values, held[x]) = Cardinality(CellsOf(file, x))
      /\ \A d \in Cells(file) : LET r == RecordAt(file, d) IN held[r.key][r.value] > 0
  BY IdleContents
<1>2. call'.pc \in {"idle", "split"} /\ \A x : ~Deleting(x)' /\ Taken(x)' = 0
  BY QuietStep
<1>3. RecordAt(file', c).key = k /\ RecordAt(file', c).value = v
  BY FullFacts
<1>4. held \in [Keys -> [Values -> Nat]]
  BY <1>1 DEF Counted
<1>5. PICK g : g = held' /\ g = HeldOneMore(k, v)
  OBVIOUS
<1>6. /\ g \in [Keys -> [Values -> Nat]]
      /\ Total(Values, held[k]) \in Nat /\ Total(Values, g[k]) = Total(Values, held[k]) + 1
      /\ \A x \in Keys : x # k => g[x] = held[x]
      /\ g[k][v] > 0 /\ \A x \in Keys, w \in Values : held[x][w] > 0 => g[x][w] > 0
  BY <1>4, <1>5, HeldMore
<1>7. IsFiniteSet(Cells(file))
  BY <1>1, CellFacts
<1>8. /\ Cardinality(Cells(file)) \in Nat /\ \A x : Cardinality(CellsOf(file, x)) \in Nat
      /\ Cardinality(Cells(file')) = Cardinality(Cells(file)) + 1
      /\ Cardinality(CellsOf(file', k)) = Cardinality(CellsOf(file, k)) + 1
      /\ \A x : x # k => CellsOf(file', x) = CellsOf(file, x)
  BY <1>3, <1>7, GrownByOne
<1>9. num_records' = Cardinality(Cells(file'))
  BY <1>1, <1>8 DEF Counted
<1>10. ASSUME NEW x \in Keys PROVE Total(Values, g[x]) = Cardinality(CellsOf(file', x)) + 0
  <2>1. CASE x = k
    BY <1>1, <1>6, <1>8, <2>1
  <2>2. CASE x # k
    BY <1>1, <1>6, <1>8, <2>2
  <2>3. QED
    BY <2>1, <2>2
<1>11. Counted'
  <2>1. ASSUME NEW x \in Keys
        PROVE  Total(Values, held'[x])
                 = IF Deleting(x)' THEN 0 ELSE Cardinality(CellsOf(file', x)) + Taken(x)'
    BY <1>2, <1>5, <1>10
  <2>2. held' \in [Keys -> [Values -> Nat]]
    BY <1>5, <1>6
  <2>3. QED
    BY <1>9, <2>1, <2>2 DEF Counted, Cells, CellsOf, RecordAt
<1>12. ASSUME NEW d \in Cells(file') PROVE g[RecordAt(file', d).key][RecordAt(file', d).value] > 0
  <2>1. CASE d = c
    BY <1>3, <1>6, <2>1
  <2>2. CASE d # c
    <3>1. d \in Cells(file) /\ RecordAt(file', d) = RecordAt(file, d)
      BY <2>2 DEF Grown
    <3>2. PICK r \in Records : r = RecordAt(file, d)
      BY <1>1, <3>1, CellFacts
    <3>3. r.key \in Keys /\ r.value \in Values
      BY <3>2, RecordFacts
    <3>4. held[r.key][r.value] > 0
      BY <1>1, <3>1, <3>2
    <3>5. QED
      BY <1>6, <3>1, <3>2, <3>3, <3>4
  <2>3. QED
    BY <2>1, <2>2
<1>13. (\A d \in Cells(file) : LET q == RecordAt(file, d) IN Deleting(q.key) \/ held[q.key][q.value] > 0)'
  BY <1>5, <1>12 DEF Cells, RecordAt
<1>14. Genuine'
  BY <1>1, <1>2, <1>13 DEF Genuine, Splitting
<1>15. QED
  BY <1>11, <1>14

LEMMA GrownTwice ==
  ASSUME NEW f, NEW g, NEW h, NEW c, Grown(f, g, {c}), Grown(g, h, {})
  PROVE  Grown(f, h, {c}) /\ RecordAt(h, c) = RecordAt(g, c) /\ h[c[1]].idx = g[c[1]].idx
<1>1. c \in Cells(g) /\ Cells(h) = Cells(g) /\ Cells(g) = Cells(f) \cup {c}
  BY DEF Grown
<1>2. c[1] \in DOMAIN g
  BY <1>1 DEF Cells
<1>3. RecordAt(h, c) = RecordAt(g, c) /\ h[c[1]].idx = g[c[1]].idx
  BY <1>1, <1>2 DEF Grown
<1>4. \A p \in DOMAIN f : p \in DOMAIN h /\ h[p].idx = f[p].idx
  BY DEF Grown
<1>5. \A d \in Cells(f) : RecordAt(h, d) = RecordAt(f, d)
  BY <1>1 DEF Grown
<1>6. QED
  BY <1>1, <1>3, <1>4, <1>5 DEF Grown

LEMMA InsertKeepsContents ==
  ASSUME IInv, ContentsInv, call = Idle, NEW k \in Keys, NEW v \in Values, InsertAt(k, v)
  PROVE  ContentsInv'
<1> DEFINE over == linear_hash_above_threshold(num_records + 1, num_buckets)
<1>1. Chained(file, bucket_map, num_buckets) /\ ~Splitting
  BY IdleContents
<1>2. PICK i \in 0 .. num_buckets - 1 : i = IndexOf(k)
  BY IndexInRange DEF Indexes
<1>3. PICK r \in Records : r = Full(k, v)
  BY FullFacts
<1>4. PICK s : s = PutRecord([file |-> file, map |-> bucket_map], i, r)
  OBVIOUS
<1>5. Chained(s.file, s.map, num_buckets) /\ HasMore(file, s.file, r, i)
  BY <1>1, <1>4, Putting
<1>6. PICK c : /\ c \notin Cells(file) /\ Grown(file, s.file, {c})
               /\ RecordAt(s.file, c) = r /\ s.file[c[1]].idx = i
  BY <1>5 DEF HasMore
<1>7. num_records' = num_records + 1 /\ held' = HeldOneMore(k, v) /\ cache' = cache
  BY DEF InsertAt, HeldOneMore
<1>8. ASSUME Grown(file, file', {c}), RecordAt(file', c) = r, file'[c[1]].idx = i,
             \A x \in Keys : IndexOf(x)' = IndexOf(x)
      PROVE  Placed'
  <2>1. RecordAt(file', c).key = k /\ i = IndexOf(k)'
    BY <1>2, <1>3, <1>8, FullFacts
  <2>2. BelongsTo(RecordAt(file, c).key, file[c[1]].idx)'
    BY <1>8, <2>1 DEF BelongsTo, IndexOf, insert_hash_to_bucket, hash_to_bucket, RecordAt
  <2>3. QED
    BY <1>1, <1>8, <2>2, StillBelonging
<1>9. CASE ~over
  <2>1. /\ file' = s.file /\ bucket_map' = s.map /\ call' = Idle
        /\ UNCHANGED <<num_buckets, initial_size, next_split>>
    BY <1>2, <1>3, <1>4, <1>9 DEF InsertAt, Write, Store
  <2>2. Counted' /\ Genuine'
    BY <1>3, <1>6, <1>7, <2>1, InsertCounts
  <2>3. Placed'
    BY <1>6, <1>8, <2>1 DEF IndexOf, insert_hash_to_bucket, hash_to_bucket
  <2>4. Progress'
    BY <2>1 DEF Progress, Idle
  <2>5. Chained(file', bucket_map', num_buckets')
    BY <1>5, <2>1
  <2>6. QED
    BY <2>2, <2>3, <2>4, <2>5 DEF ContentsInv
<1>10. CASE over
  <2>1. PICK t : t = write_new_bucket(s, num_buckets)
    OBVIOUS
  <2>2. t = write_new_bucket([file |-> s.file, map |-> s.map], num_buckets)
    BY <2>1 DEF write_new_bucket
  <2>3. /\ linear_hash_increment_num_buckets
        /\ file' = t.file /\ bucket_map' = t.map
        /\ call' = SplitFrom(bucket_map'[next_split' + 1], k)
    BY <1>2, <1>3, <1>4, <1>10, <2>1 DEF InsertAt, Write, Store
  <2>4. Chained(t.file, t.map, num_buckets + 1) /\ Grown(s.file, t.file, {})
    BY <1>5, <2>2, NewIndex
  <2>5. Grown(file, t.file, {c}) /\ RecordAt(t.file, c) = r /\ t.file[c[1]].idx = i
    BY <1>6, <2>4, GrownTwice
  <2>6. num_buckets' = num_buckets + 1
    BY <2>3 DEF linear_hash_increment_num_buckets
  <2>7. PICK j, h : j = next_split' /\ h = HeadOf(bucket_map', j)
    OBVIOUS
  <2>8. call' = SplitFrom(h, k) /\ call'.pc = "split" /\ call'.place = h
    BY <2>3, <2>7 DEF HeadOf, SplitFrom
  <2>9. Counted' /\ Genuine'
    BY <1>3, <1>6, <1>7, <2>3, <2>5, <2>8, InsertCounts
  <2>10. Placed'
    <3>1. \A x \in Keys : IndexOf(x)' = IndexOf(x)
      BY <2>3, DoublingKeepsIndex
    <3>2. QED
      BY <1>8, <2>3, <2>5, <3>1
  <2>11. Chained(file', bucket_map', num_buckets')
    BY <2>3, <2>4, <2>6
  <2>12. j \in 0 .. num_buckets' - 1
    <3>1. num_buckets \in Nat /\ next_split \in Nat /\ next_split <= num_buckets
      BY <1>1 DEF IInv, Numbers, Sizes
    <3>2. j = next_split \/ j = 0
      BY <2>3, <2>7 DEF linear_hash_increment_num_buckets
    <3>3. QED
      BY <2>6, <3>1, <3>2
  <2>13. h \in DOMAIN file' /\ file'[h].idx = j /\ h \in Nat
    BY <2>7, <2>11, <2>12, StoreFacts DEF Chained
  <2>14. ASSUME NEW d \in InIndex(file', j) PROVE ~(d[1] > h)
    <3>1. d[1] <= h
      BY <2>7, <2>11, <2>12, HeadIsNewest
    <3>2. d[1] \in Nat
      BY <2>11, CellFacts DEF InIndex
    <3>3. QED
      BY <2>13, <3>1, <3>2
  <2>15. SplitPassed(h)'
    BY <2>7, <2>13, <2>14 DEF SplitPassed, InIndex, Cells
  <2>16. Progress'
    BY <2>8, <2>15 DEF Progress, SplitPassed
  <2>17. QED
    BY <2>9, <2>10, <2>11, <2>16 DEF ContentsInv
<1>11. QED
  BY <1>9, <1>10

\* Between calls all records of a key are in the chain where it is looked up.
LEMMA IdleMatches ==
  ASSUME IInv, ContentsInv, call = Idle, NEW k \in Keys, NEW S \in {{"full"}, {"full", "other"}}
  PROVE  Matches(k, S) = CellsOf(file, k)
<1>1. Chained(file, bucket_map, num_buckets) /\ Placed /\ ~Splitting
  BY IdleContents
<1>2. Matches(k, S) = { c \in InIndex(file, IndexOf(k)) : RecordAt(file, c).key = k }
  BY <1>1, IndexInRange, MatchesAre
<1>3. \A c \in Cells(file) : file[c[1]].idx = IndexOf(RecordAt(file, c).key)
  BY <1>1 DEF Placed, BelongsTo
<1>4. QED
  BY <1>2, <1>3 DEF InIndex, CellsOf

\* The records of the cells of C are overwritten with r.
Overwrite(C, r) ==
  [p \in DOMAIN file |-> [file[p] EXCEPT !.slots = [s \in Slots |-> IF <<p, s>> \in C THEN r ELSE @[s]]]]

LEMMA OverwriteIs ==
  ASSUME ContentsInv, NEW C \in SUBSET Cells(file), NEW r \in Records, NEW g, g = Overwrite(C, r)
  PROVE  /\ Chained(g, bucket_map, num_buckets) /\ Cells(g) = Cells(file)
         /\ \A c \in Cells(file) : /\ g[c[1]].idx = file[c[1]].idx
                                   /\ RecordAt(g, c) = IF c \in C THEN r ELSE RecordAt(file, c)
<1>1. Chained(file, bucket_map, num_buckets)
  BY DEF ContentsInv
<1>2. file \in Seq(Buckets) /\ Len(file) \in Nat /\ DOMAIN file = 1 .. Len(file)
  BY <1>1, StoreFacts DEF Chained, StoreTyped
<1> DEFINE row(p) == [s \in Slots |-> IF <<p, s>> \in C THEN r ELSE file[p].slots[s]]
<1>3. ASSUME NEW p \in DOMAIN file
      PROVE  /\ g[p].idx = file[p].idx /\ g[p].count = file[p].count /\ g[p].overflow = file[p].overflow
             /\ g[p].slots = row(p) /\ g[p] \in Buckets
  <2>1. PICK b \in Buckets : b = file[p]
    BY <1>2
  <2>2. b = [idx |-> b.idx, count |-> b.count, overflow |-> b.overflow, slots |-> b.slots]
        /\ b.slots \in [Slots -> Records \cup {Emptied, Blank}]
    BY DEF Buckets
  <2>3. g[p] = [b EXCEPT !.slots = row(p)]
    BY <2>1 DEF Overwrite
  <2>4. row(p) \in [Slots -> Records \cup {Emptied, Blank}]
    BY <2>1, <2>2
  <2>5. PICK q \in [Slots -> Records \cup {Emptied, Blank}] : q = row(p)
    BY <2>4
  <2>6. g[p] = [b EXCEPT !.slots = q]
    BY <2>3, <2>5
  <2> HIDE DEF row
  <2>7. /\ g[p].idx = b.idx /\ g[p].count = b.count /\ g[p].overflow = b.overflow
        /\ g[p].slots = q /\ g[p] \in Buckets
    BY <2>2, <2>6 DEF Buckets
  <2>8. QED
    BY <2>1, <2>5, <2>7
<1>4. DOMAIN g = DOMAIN file
  BY DEF Overwrite
<1>5. g = [p \in 1 .. Len(file) |-> g[p]]
  BY <1>2 DEF Overwrite
<1>6. g \in Seq(Buckets)
  <2>1. Len(file) \in Nat
    BY <1>2
  <2>2. PICK n \in Nat : n = Len(file)
    BY ONLY <2>1
  <2>3. g \in [1 .. n -> Buckets]
    BY <1>2, <1>3, <1>5, <2>2
  <2>4. QED
    BY <2>3
<1>7. ASSUME NEW p \in DOMAIN file, NEW s \in Slots
      PROVE  \/ g[p].slots[s] = file[p].slots[s]
             \/ s <= file[p].count /\ g[p].slots[s] \in Records
  <2>1. g[p].slots[s] = IF <<p, s>> \in C THEN r ELSE file[p].slots[s]
    BY <1>3
  <2>2. <<p, s>> \in C => s <= file[p].count
    BY DEF Cells
  <2>3. QED
    BY <2>1, <2>2
<1>8. \A p \in DOMAIN file : /\ g[p].idx = file[p].idx /\ g[p].count = file[p].count
                             /\ g[p].overflow = file[p].overflow
  BY <1>3
<1>9. Chained(g, bucket_map, num_buckets) /\ Cells(g) = Cells(file)
  BY <1>1, <1>4, <1>6, <1>7, <1>8, Overwriting
<1>10. ASSUME NEW c \in Cells(file)
       PROVE  /\ g[c[1]].idx = file[c[1]].idx
              /\ RecordAt(g, c) = IF c \in C THEN r ELSE RecordAt(file, c)
  <2>1. c = <<c[1], c[2]>> /\ c[1] \in DOMAIN file /\ c[2] \in Slots
    BY <1>1, CellFacts
  <2>2. g[c[1]].slots[c[2]] = IF <<c[1], c[2]>> \in C THEN r ELSE file[c[1]].slots[c[2]]
    BY <1>3, <2>1
  <2>3. QED
    BY <1>8, <2>1, <2>2 DEF RecordAt
<1>11. QED
  BY <1>9, <1>10

\* All that is held of k are n of v.
HeldOnly(k, v, n) == [held EXCEPT ![k] = [[w \in Values |-> 0] EXCEPT ![v] = n]]

LEMMA HeldOnlyIs ==
  ASSUME NEW k \in Keys, NEW v \in Values, NEW n \in Nat, held \in [Keys -> [Values -> Nat]],
         NEW g, g = HeldOnly(k, v, n)
  PROVE  /\ g \in [Keys -> [Values -> Nat]] /\ Total(Values, g[k]) = n /\ g[k][v] = n
         /\ \A x \in Keys : x # k => g[x] = held[x]
<1>1. PICK b : b = [[w \in Values |-> 0] EXCEPT ![v] = n]
  OBVIOUS
<1>2. b \in [Values -> Nat] /\ b[v] = n /\ \A w \in Values \ {v} : b[w] = 0
  BY <1>1
<1>3. g = [held EXCEPT ![k] = b]
  BY <1>1 DEF HeldOnly
<1>4. g \in [Keys -> [Values -> Nat]] /\ g[k] = b /\ \A x \in Keys : x # k => g[x] = held[x]
  BY <1>2, <1>3
<1>5. Total(Values, b) = b[v]
  BY <1>2, TotalOfOne, ValuesAssumption
<1>6. QED
  BY <1>2, <1>4, <1>5

LEMMA UpdateKeepsContents ==
  ASSUME IInv, ContentsInv, NEW k \in Keys, NEW v \in Values, linear_hash_update(k, v)
  PROVE  ContentsInv'
<1>1. call = Idle
  BY DEF linear_hash_update, Ready, IInv, CallShape
<1>2. /\ Chained(file, bucket_map, num_buckets) /\ Placed /\ Counted /\ Genuine
      /\ ~Splitting /\ \A x : ~Deleting(x) /\ Taken(x) = 0
      /\ \A x \in Keys : Total(Values, held[x]) = Cardinality(CellsOf(file, x))
      /\ \A c \in Cells(file) : LET r == RecordAt(file, c) IN held[r.key][r.value] > 0
  BY <1>1, IdleContents
<1>3. PICK found : found = Matches(k, {"full"})
  OBVIOUS
<1>4. CASE found = {}
  <2>1. InsertAt(k, v)
    BY <1>3, <1>4 DEF linear_hash_update
  <2>2. QED
    BY <1>1, <2>1, InsertKeepsContents
<1>5. CASE found # {}
  <2>1. found = CellsOf(file, k)
    BY <1>1, <1>3, IdleMatches
  <2>2. found \in SUBSET Cells(file) /\ \A c \in Cells(file) : c \in found <=> RecordAt(file, c).key = k
    BY <2>1 DEF CellsOf
  <2>3. IsFiniteSet(found)
    BY <1>2, <2>2, CellFacts, FS_Subset
  <2>4. PICK n \in Nat \ {0} : n = Cardinality(found)
    BY <1>5, <2>3, FS_CardinalityType, FS_EmptySet
  <2>5. PICK r \in Records : r = Full(k, v) /\ r.key = k /\ r.value = v
    BY FullFacts
  <2>6. PICK g, h : g = Overwrite(found, r) /\ h = HeldOnly(k, v, n)
    OBVIOUS
  <2>7. /\ file' = g /\ held' = h
        /\ UNCHANGED <<bucket_map, initial_size, next_split, num_buckets, num_records, cache, call>>
    BY <1>3, <1>5, <2>4, <2>5, <2>6 DEF linear_hash_update, Overwrite, HeldOnly
  <2>8. /\ Chained(g, bucket_map, num_buckets) /\ Cells(g) = Cells(file)
        /\ \A c \in Cells(file) : /\ g[c[1]].idx = file[c[1]].idx
                                  /\ RecordAt(g, c) = IF c \in found THEN r ELSE RecordAt(file, c)
    BY <2>2, <2>6, OverwriteIs
  <2>9. \A c \in Cells(file) : RecordAt(g, c).key = RecordAt(file, c).key
    BY <2>2, <2>5, <2>8
  <2>10. \A x : CellsOf(g, x) = CellsOf(file, x)
    BY <2>8, <2>9 DEF CellsOf
  <2>11. held \in [Keys -> [Values -> Nat]]
    BY <1>2 DEF Counted
  <2>12. /\ h \in [Keys -> [Values -> Nat]] /\ Total(Values, h[k]) = n /\ h[k][v] = n
         /\ \A x \in Keys : x # k => h[x] = held[x]
    BY <2>6, <2>11, HeldOnlyIs
  <2>13. call' = Idle
    BY <1>1, <2>7
  <2>14. call'.pc = "idle" /\ \A x : ~Deleting(x)' /\ Taken(x)' = 0
    BY <2>13 DEF Idle, Deleting, Taken
  <2>15. Placed'
    <3> SUFFICES ASSUME NEW c \in Cells(file') PROVE BelongsTo(RecordAt(file, c).key, file[c[1]].idx)'
      BY DEF Placed
    <3>1. PICK x, i : x = RecordAt(file, c).key /\ i = file[c[1]].idx
      OBVIOUS
    <3>2. c \in Cells(file) /\ BelongsTo(x, i)
      BY <1>2, <2>7, <2>8, <3>1 DEF Placed
    <3>3. BelongsTo(x, i)'
      BY <1>2, <2>7, <3>2, SameBelonging
    <3>4. RecordAt(file', c).key = x /\ file'[c[1]].idx = i
      BY <2>7, <2>8, <2>9, <3>1, <3>2
    <3>5. QED
      BY <3>3, <3>4 DEF BelongsTo, IndexOf, insert_hash_to_bucket, hash_to_bucket, Moves, RecordAt
  <2>16. Progress'
    BY <2>14 DEF Progress
  <2>17. Counted'
    <3>1. ASSUME NEW x \in Keys
          PROVE  Total(Values, h[x]) = IF Deleting(x)' THEN 0 ELSE Cardinality(CellsOf(g, x)) + Taken(x)'
      <4>1. Total(Values, h[x]) = Cardinality(CellsOf(g, x))
        BY <1>2, <2>1, <2>4, <2>10, <2>12
      <4>2. IsFiniteSet(CellsOf(g, x))
        BY <1>2, <2>10, CellFacts, FS_Subset DEF CellsOf
      <4>3. Cardinality(CellsOf(g, x)) \in Nat
        BY <4>2, FS_CardinalityType
      <4>4. QED
        BY <2>14, <4>1, <4>3
    <3>2. num_records = Cardinality(Cells(g))
      BY <1>2, <2>8 DEF Counted
    <3>3. QED
      BY <2>7, <2>12, <3>1, <3>2 DEF Counted, Cells, CellsOf, RecordAt
  <2>18. ASSUME NEW c \in Cells(g) PROVE h[RecordAt(g, c).key][RecordAt(g, c).value] > 0
    <3>1. CASE c \in found
      BY <2>4, <2>5, <2>8, <2>12, <3>1
    <3>2. CASE c \notin found
      <4>1. c \in Cells(file) /\ RecordAt(g, c) = RecordAt(file, c)
        BY <2>8, <3>2
      <4>2. PICK q \in Records : q = RecordAt(file, c)
        BY <1>2, <4>1, CellFacts
      <4>3. q.key \in Keys /\ q.key # k /\ held[q.key][q.value] > 0
        BY <1>2, <2>2, <3>2, <4>1, <4>2, RecordFacts
      <4>4. QED
        BY <2>12, <4>1, <4>2, <4>3
    <3>3. QED
      BY <3>1, <3>2
  <2>19. (\A c \in Cells(file) : LET q == RecordAt(file, c) IN Deleting(q.key) \/ held[q.key][q.value] > 0)'
    BY <2>7, <2>18 DEF Cells, RecordAt
  <2>20. Genuine'
    BY <1>2, <2>7, <2>14, <2>19 DEF Genuine, Splitting
  <2>21. QED
    BY <2>7, <2>8, <2>15, <2>16, <2>17, <2>20 DEF ContentsInv
<1>6. QED
  BY <1>4, <1>5

LEMMA DeleteKeepsContents ==
  ASSUME IInv, ContentsInv, NEW k \in Keys, linear_hash_delete(k)
  PROVE  ContentsInv'
<1>1. call = Idle
  BY DEF linear_hash_delete, Ready, IInv, CallShape
<1>2. /\ Chained(file, bucket_map, num_buckets) /\ Placed /\ Counted
      /\ ~Splitting /\ \A x : ~Deleting(x) /\ Taken(x) = 0
      /\ \A x \in Keys : Total(Values, held[x]) = Cardinality(CellsOf(file, x))
      /\ \A c \in Cells(file) : LET r == RecordAt(file, c) IN held[r.key][r.value] > 0
  BY <1>1, IdleContents
<1>3. /\ call' = DeleteFrom(k, bucket_idx_to_ion_fpos_t(IndexOf(k)), Idle) /\ cache' = << >>
      /\ UNCHANGED <<file, bucket_map, initial_size, next_split, num_buckets, num_records>>
      /\ held' = [held EXCEPT ![k] = [w \in Values |-> 0]]
  BY DEF linear_hash_delete, table
<1>4. /\ call'.pc = "delete" /\ call'.key = k /\ call'.back = Idle /\ call'.count = 0
      /\ DeletePassed'
  BY <1>3, DeleteBegins
<1>5. ~Splitting' /\ InFlight' = 0 /\ \A x : (Deleting(x)' <=> x = k) /\ Taken(x)' = 0
  BY <1>4 DEF Splitting, InFlight, Deleting, Taken
<1>6. Placed'
  BY <1>2, <1>3, SamePlaces
<1>7. Progress'
  BY <1>4 DEF Progress
<1>8. held \in [Keys -> [Values -> Nat]]
  BY <1>2 DEF Counted
<1>9. PICK z \in [Values -> Nat] : z = [w \in Values |-> 0]
  OBVIOUS
<1>10. Total(Values, z) = 0
  BY <1>9, TotalOfZeros, ValuesAssumption
<1>11. /\ held' \in [Keys -> [Values -> Nat]] /\ held'[k] = z
       /\ \A x \in Keys : x # k => held'[x] = held[x]
  BY <1>3, <1>8, <1>9
<1>12. Counted'
  <2>1. ASSUME NEW x \in Keys
        PROVE  Total(Values, held'[x])
                 = IF Deleting(x)' THEN 0 ELSE Cardinality(CellsOf(file, x)) + Taken(x)'
    <3>1. CASE x = k
      BY <1>5, <1>10, <1>11, <3>1
    <3>2. CASE x # k
      <4>1. Total(Values, held'[x]) = Cardinality(CellsOf(file, x))
        BY <1>2, <1>11, <3>2
      <4>2. IsFiniteSet(CellsOf(file, x))
        BY <1>2, CellFacts, FS_Subset DEF CellsOf
      <4>3. Cardinality(CellsOf(file, x)) \in Nat
        BY <4>2, FS_CardinalityType
      <4>4. QED
        BY <1>5, <3>2, <4>1, <4>3
    <3>3. QED
      BY <3>1, <3>2
  <2>2. num_records = Cardinality(Cells(file))
    BY <1>2 DEF Counted
  <2>3. QED
    BY <1>3, <1>11, <2>1, <2>2 DEF Counted, Cells, CellsOf, RecordAt
<1>13. Genuine'
  <2>1. ASSUME NEW c \in Cells(file) PROVE LET r == RecordAt(file, c) IN r.key = k \/ held'[r.key][r.value] > 0
    <3>1. PICK r \in Records : r = RecordAt(file, c)
      BY <1>2, CellFacts
    <3>2. r.key \in Keys /\ held[r.key][r.value] > 0
      BY <1>2, <3>1, RecordFacts
    <3>3. QED
      BY <1>11, <3>1, <3>2
  <2>2. (\A c \in Cells(file) : LET q == RecordAt(file, c) IN Deleting(q.key) \/ held[q.key][q.value] > 0)'
    BY <1>3, <1>4, <2>1 DEF Cells, RecordAt, Deleting
  <2>3. cache' \in Seq(Values) /\ call'.count <= Len(cache')
    BY <1>3, <1>4
  <2>4. QED
    BY <1>4, <1>5, <2>2, <2>3 DEF Genuine
<1>14. QED
  BY <1>2, <1>3, <1>6, <1>7, <1>12, <1>13 DEF ContentsInv

\* A new table, the first one or the one behind a delete_dictionary.
IsNew ==
  /\ file = NewFile /\ bucket_map = NewMap /\ num_buckets = InitialSize /\ num_records = 0
  /\ held = [k \in Keys |-> [v \in Values |-> 0]]
  /\ cache \in Seq(Values) /\ call = Idle

LEMMA NewContents == IsNew => ContentsInv
<1> SUFFICES ASSUME IsNew PROVE ContentsInv
  OBVIOUS
<1>1. Chained(file, bucket_map, num_buckets) /\ Cells(file) = {}
  BY NewTable DEF IsNew
<1>2. call.pc = "idle" /\ ~Splitting /\ \A k : ~Deleting(k) /\ Taken(k) = 0
  BY DEF IsNew, Idle, Splitting, Deleting, Taken
<1>3. Placed /\ Progress
  BY <1>1, <1>2 DEF Placed, Progress
<1>4. PICK z \in [Values -> Nat] : z = [v \in Values |-> 0]
  OBVIOUS
<1>5. held \in [Keys -> [Values -> Nat]] /\ \A k \in Keys : held[k] = z
  BY <1>4 DEF IsNew
<1>6. Total(Values, z) = 0
  BY <1>4, TotalOfZeros, ValuesAssumption
<1>7. \A k : CellsOf(file, k) = {}
  BY <1>1 DEF CellsOf
<1>8. Cardinality(Cells(file)) = 0 /\ \A k : Cardinality(CellsOf(file, k)) = 0
  BY <1>1, <1>7, FS_EmptySet
<1>9. \A k \in Keys : Total(Values, held[k]) = IF Deleting(k) THEN 0 ELSE Cardinality(CellsOf(file, k)) + Taken(k)
  BY <1>2, <1>5, <1>6, <1>8
<1>10. Counted
  BY <1>5, <1>8, <1>9 DEF Counted, IsNew
<1>11. Genuine
  BY <1>1, <1>2 DEF Genuine, IsNew
<1>12. QED
  BY <1>1, <1>3, <1>10, <1>11 DEF ContentsInv

LEMMA DeleteDictionaryKeepsContents ==
  ASSUME IInv, ContentsInv, linear_hash_delete_dictionary
  PROVE  ContentsInv'
<1>1. call = Idle /\ cache \in Seq(Values)
  BY DEF linear_hash_delete_dictionary, Ready, IInv, CallShape, ContentsInv, Genuine
<1>2. IsNew'
  BY <1>1 DEF linear_hash_delete_dictionary, IsNew
<1>3. QED
  BY <1>2, NewContents, PTL

LEMMA InitContents == Init => ContentsInv
  BY NewContents DEF Init, IsNew

LEMMA NextKeepsContents == IInv /\ ContentsInv /\ [Next]_vars => ContentsInv'
<1> SUFFICES ASSUME IInv, ContentsInv, [Next]_vars PROVE ContentsInv'
  OBVIOUS
<1>1. ASSUME NEW k \in Keys, NEW v \in Values, linear_hash_insert(k, v) PROVE ContentsInv'
  <2>1. call = Idle /\ InsertAt(k, v)
    BY <1>1 DEF linear_hash_insert, Ready, IInv, CallShape
  <2>2. QED
    BY <2>1, InsertKeepsContents
<1>2. ASSUME NEW k \in Keys, NEW v \in Values, linear_hash_update(k, v) PROVE ContentsInv'
  BY <1>2, UpdateKeepsContents
<1>3. ASSUME NEW k \in Keys, linear_hash_delete(k) PROVE ContentsInv'
  BY <1>3, DeleteKeepsContents
<1>4. CASE linear_hash_delete_dictionary
  BY <1>4, DeleteDictionaryKeepsContents
<1>5. CASE DeleteStep
  BY <1>5, DeleteStepKeepsContents
<1>6. CASE SwapStep
  BY <1>6, SwapStepKeepsContents
<1>7. CASE SplitStep
  BY <1>7, SplitStepKeepsContents
<1>8. CASE ReinsertStep
  BY <1>8, ReinsertStepKeepsContents
<1>9. CASE UNCHANGED vars
  <2>1. UNCHANGED <<file, bucket_map, initial_size, next_split, num_buckets, num_records, cache, call, held>>
    BY <1>9 DEF vars, table
  <2>2. Chained(file, bucket_map, num_buckets)'
    BY <2>1 DEF ContentsInv, Chained, StoreTyped, Filled, LinksBack, RoomAtHeads, InChain
  <2>3. Placed'
    BY <2>1, SamePlaces DEF ContentsInv, Splitting
  <2>4. Counted'
    BY <2>1, SameCounts DEF ContentsInv, Deleting, Taken, InFlight
  <2>5. Progress'
    <3>1. SplitPassed(call.place) => SplitPassed(call.place)'
      BY <2>1 DEF SplitPassed, InIndex, Cells, RecordAt, Moves, insert_hash_to_bucket, hash_to_bucket
    <3>2. SplitPassed(call.back.place) => SplitPassed(call.back.place)'
      BY <2>1 DEF SplitPassed, InIndex, Cells, RecordAt, Moves, insert_hash_to_bucket, hash_to_bucket
    <3>3. SplitKey(call.key) => SplitKey(call.key)'
      BY <2>1 DEF SplitKey, Moves, insert_hash_to_bucket, hash_to_bucket
    <3>4. DeletePassed => DeletePassed'
      BY <2>1 DEF DeletePassed, IndexOf, InIndex, Cells, RecordAt, Passed, insert_hash_to_bucket, hash_to_bucket
    <3>5. (\A c \in InIndex(file, next_split) : RecordAt(file, c).key # call.key)
            => (\A c \in InIndex(file, next_split) : RecordAt(file, c).key # call.key)'
      BY <2>1 DEF InIndex, Cells, RecordAt
    <3>6. QED
      BY <2>1, <3>1, <3>2, <3>3, <3>4, <3>5 DEF ContentsInv, Progress
  <2>6. Genuine'
    BY <2>1 DEF ContentsInv, Genuine, Splitting, Deleting, Cells, RecordAt
  <2>7. QED
    BY <2>2, <2>3, <2>4, <2>5, <2>6 DEF ContentsInv
<1>10. QED
  BY <1>1, <1>2, <1>3, <1>4, <1>5, <1>6, <1>7, <1>8, <1>9 DEF Next, Step

-----------------------------------------------------------------------------
(***************************************************************************)
(* The contents of the table.                                              *)
(***************************************************************************)

\* Records are in the chain where they are looked up, or in the one that a split
\* takes them from; they are counted, and have values that callers have put in,
\* all through the loops of delete and split (linear_hash_insert,
\* linear_hash_update, linear_hash_delete, split): for any keys, values and
\* hash function.
THEOREM ContentsInvariance == Spec => [](IInv /\ ContentsInv)
<1>1. Init => IInv /\ ContentsInv
  BY InitIInv, InitContents
<1>2. IInv /\ ContentsInv /\ [Next]_vars => IInv' /\ ContentsInv'
  BY NextKeepsIInv, NextKeepsContents
<1>3. QED
  BY <1>1, <1>2, PTL DEF Spec

\* A lookup finds as many records of a key as callers have put in since the key
\* was last deleted: no split, update or delete loses one or leaves one behind
\* (linear_hash_get).
THEOREM KeysStayFound == Spec => []KeysFound
<1>1. IInv /\ ContentsInv => KeysFound
  <2> SUFFICES ASSUME IInv, ContentsInv, Idling, NEW k \in Keys
               PROVE  Cardinality(linear_hash_get(k)) = HeldOf(k)
    BY DEF KeysFound
  <2>1. call = Idle
    BY DEF Idling, IInv, CallShape
  <2>2. Matches(k, {"full", "other"}) = CellsOf(file, k)
    BY <2>1, IdleMatches
  <2>3. Total(Values, held[k]) = Cardinality(CellsOf(file, k))
    BY <2>1, IdleContents
  <2>4. QED
    BY <2>2, <2>3, HeldOfIs DEF linear_hash_get
<1>2. QED
  BY <1>1, ContentsInvariance, PTL

\* Whatever lookup returns of a key is a value that was put in for the key and
\* neither deleted nor overwritten since (linear_hash_get, split).
THEOREM ValuesStayGenuine == Spec => []ValuesGenuine
<1>1. IInv /\ ContentsInv => ValuesGenuine
  <2> SUFFICES ASSUME IInv, ContentsInv, Idling, NEW k \in Keys, NEW c \in linear_hash_get(k)
               PROVE  held[k][file[c[1]].slots[c[2]].value] > 0
    BY DEF ValuesGenuine
  <2>1. call = Idle
    BY DEF Idling, IInv, CallShape
  <2>2. c \in CellsOf(file, k)
    BY <2>1, IdleMatches DEF linear_hash_get
  <2>3. c \in Cells(file) /\ RecordAt(file, c).key = k
    BY <2>2 DEF CellsOf
  <2>4. held[RecordAt(file, c).key][RecordAt(file, c).value] > 0
    BY <2>1, <2>3, IdleContents
  <2>5. QED
    BY <2>3, <2>4 DEF RecordAt
<1>2. QED
  BY <1>1, ContentsInvariance, PTL

\* num_records counts the records that can be reached, and the count of a bucket
\* is where its records end, at every step of every call.
THEOREM CountsStayExact == Spec => []CountsExact
<1>1. IInv /\ ContentsInv => CountsExact
  <2> SUFFICES ASSUME ContentsInv PROVE CountsExact
    OBVIOUS
  <2>1. Chained(file, bucket_map, num_buckets) /\ Counted
    BY DEF ContentsInv
  <2>2. MapThenSumSet(LAMBDA p : file[p].count, Reached) = num_records
    BY <2>1, CountsAdd DEF Counted
  <2>3. ASSUME NEW p \in Reached, NEW s \in Slots
        PROVE  IsRecord(file[p].slots[s]) <=> s <= file[p].count
    <3>1. p \in DOMAIN file
      BY <2>1, ReachedIs
    <3>2. file[p].slots[s] \in Records \cup {Emptied, Blank}
      BY <2>1, <3>1, StoreFacts DEF Chained
    <3>3. file[p].slots[s] \in Records <=> s <= file[p].count
      BY <2>1, <3>1 DEF Chained, Filled
    <3>4. PICK r \in Records \cup {Emptied, Blank} : r = file[p].slots[s]
      BY <3>2
    <3>5. IsRecord(r) <=> r \in Records
      <4>1. CASE r \in Records
        BY <4>1, RecordFacts DEF IsRecord
      <4>2. CASE r \notin Records
        BY <4>2, BlankAssumption DEF IsRecord, Emptied
      <4>3. QED
        BY <4>1, <4>2
    <3>6. QED
      BY <3>3, <3>4, <3>5
  <2>4. QED
    BY <2>2, <2>3 DEF CountsExact
<1>2. QED
  BY <1>1, ContentsInvariance, PTL

\* Every bucket behind the head of a chain is full, and belongs to the index of
\* the chain, at every step of every call: the comment of linear_hash_delete.
THEOREM RoomStaysAtHead == Spec => []RoomAtHeadOnly
<1>1. IInv /\ ContentsInv => RoomAtHeadOnly
  <2> SUFFICES ASSUME IInv, ContentsInv, NEW n \in 1 .. num_buckets,
                      NEW j \in DOMAIN Chain(bucket_map[n])
               PROVE  LET chain == Chain(bucket_map[n]) IN
                      /\ file[chain[j]].idx = n - 1
                      /\ j > 1 => linear_hash_bucket_is_full(file[chain[j]])
    BY DEF RoomAtHeadOnly
  <2>1. Chained(file, bucket_map, num_buckets) /\ num_buckets \in Nat
    BY DEF ContentsInv, IInv, Numbers
  <2>2. PICK i \in 0 .. num_buckets - 1 : i = n - 1 /\ i + 1 = n
    BY <2>1
  <2>3. PICK q : q = Chain(HeadOf(bucket_map, i))
    OBVIOUS
  <2>4. q = Chain(bucket_map[n])
    BY <2>2, <2>3 DEF HeadOf
  <2>5. \A x \in DOMAIN q : file[q[x]].idx = i /\ (x > 1 => file[q[x]].count = RecordsPerBucket)
    BY <2>1, <2>3, ChainOfIndex
  <2>6. QED
    BY <2>2, <2>4, <2>5 DEF linear_hash_bucket_is_full
<1>2. QED
  BY <1>1, ContentsInvariance, PTL
=============================================================================
