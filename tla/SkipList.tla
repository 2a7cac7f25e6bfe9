------------------------------ MODULE SkipList ------------------------------
(***************************************************************************)
(* The skip list of IonDB (dictionary/skip_list): linked levels of nodes   *)
(* in memory, in the order of their keys.  Records of one key form a block *)
(* in the order of their insertion; only the first node of a block has a   *)
(* random height, the others are on the bottom level alone.                *)
(*                                                                         *)
(* heap is the memory of the list: a node that is not in its domain has    *)
(* been freed, or was never allocated.  Levels are numbered from 0.        *)
(***************************************************************************)
EXTENDS DictionaryTypes, SequencesExt, FiniteSetsExt

CONSTANTS
  Keys, Values,
  Node,         \* addresses malloc may return: a bound on the number of records
  HeadNode, Null, \* the head node, and the NULL of a link
  MaxHeight,    \* maxheight: number of levels
  Predicates,   \* the predicates cursors are opened with
  NoValue       \* no value returned

ASSUME KeysAssumption == Keys \subseteq Int
ASSUME ValuesAssumption == IsFiniteSet(Values)
ASSUME NodeAssumption == HeadNode \notin Node /\ Null \notin Node \cup {HeadNode}
ASSUME MaxHeightAssumption == MaxHeight \in Nat \ {0}
ASSUME PredicatesAssumption == Predicates \subseteq Predicate

VARIABLES
  heap,       \* the allocated nodes
  cursor,     \* the caller's cursor; current is the node it delivers next
  result,     \* what the last insert, update, delete or get returned
  intact,     \* history: no record has been deleted since the cursor was opened
  trail,      \* history: while intact, the nodes the cursor has delivered
  atFind      \* history: while intact, the nodes there were when it was opened

vars == <<heap, cursor, result, trail, atFind, intact>>
cursorVars == <<cursor, trail, atFind, intact>>

Levels == 0 .. (MaxHeight - 1)
Open == HeadNode \in DOMAIN heap
Live == DOMAIN heap \ {HeadNode}

Nodes == UNION { [key: Keys, value: Values, next: [0 .. h -> Node \cup {Null}]] : h \in Levels }
height(n) == Max(DOMAIN heap[n].next)

NoCursor == [status |-> "none", pred |-> AllRecords, current |-> Null]

TypeOK ==
  /\ Live \subseteq Node
  /\ \A n \in Live : heap[n] \in Nodes
  /\ Open => heap[HeadNode] \in [next: [Levels -> Node \cup {Null}]]
  /\ cursor \in [status: CursorStatus \cup {"none", "undefined"}, pred: Predicate,
                 current: Node \cup {Null}]
  /\ result \in [call: {"none", "insert", "update", "delete", "get"},
                 key: Keys \cup {NoValue},
                 err: {"err_ok", "err_item_not_found", "err_out_of_memory"},
                 count: Nat,
                 value: Values \cup {NoValue}]
  /\ trail \in Seq(Node)
  /\ atFind \subseteq Node /\ intact \in BOOLEAN

-----------------------------------------------------------------------------
(***************************************************************************)
(* Walks.  Every operation takes a memory hp, so that a delete can go on   *)
(* from the memory its last turn has left.                                 *)
(***************************************************************************)
\* The nodes that are tall enough for level h.
OnLevel(hp, h) == { m \in DOMAIN hp : h \in DOMAIN hp[m].next }

\* The node at which a walk along level h from n stops: its successor is NULL
\* or is not to be passed.
Walk(hp, n, h, passed) ==
  LET walk[m \in OnLevel(hp, h)] ==
        LET s == hp[m].next[h] IN
        IF s # Null /\ s \in passed THEN walk[s] ELSE m
  IN walk[n]

\* The nodes where the walks stop from level top down: each goes on from the
\* node at which the one above it has stopped.
Stops(hp, from, top, passed) ==
  LET stop[h \in 0 .. top] ==
        Walk(hp, IF h = top THEN from ELSE stop[h + 1], h, passed)
  IN stop

Descent(hp, passed) == Stops(hp, HeadNode, MaxHeight - 1, passed)

\* Where the walks for the nodes before key k stop, and the levels on which
\* the next node from there holds k.
Before(hp, k) == Descent(hp, { n \in DOMAIN hp \ {HeadNode} : hp[n].key < k })
HitLevels(hp, k, at) ==
  { h \in Levels : LET n == hp[at[h]].next[h] IN n # Null /\ hp[n].key = k }

\* The first node of k the descent meets, or the last node before k.
sl_find_node(hp, k) ==
  LET at == Before(hp, k)
      hits == HitLevels(hp, k, at)
      top == Max(hits)
  IN IF hits = {} THEN at[0] ELSE hp[at[top]].next[top]

Holds(hp, n, k) == n # HeadNode /\ hp[n].key = k

\* The nodes from n on, along level h.
From(hp, n, h) ==
  LET from[m \in OnLevel(hp, h) \cup {Null}] ==
        IF m = Null THEN << >> ELSE <<m>> \o from[hp[m].next[h]]
  IN from[n]

\* The nodes of level h, in their order.
Level(h) == IF Open THEN From(heap, heap[HeadNode].next[h], h) ELSE << >>

-----------------------------------------------------------------------------
Answer(call, k, err, n, v) ==
  result' = [call |-> call, key |-> k, err |-> err, count |-> n, value |-> v]

\* Mutant: the links above the bottom level are left out.
LinkInBottom(n, k, v, at) ==
  heap' = [m \in DOMAIN heap \cup {n} |->
             IF m = n THEN [key |-> k, value |-> v, next |-> [h \in DOMAIN at |-> heap[at[h]].next[h]]]
             ELSE IF at[0] = m THEN [heap[m] EXCEPT !.next[0] = n] ELSE heap[m]]

\* n becomes the successor of at[h] on each level of at.
LinkIn(n, k, v, at) ==
  heap' = [m \in DOMAIN heap \cup {n} |->
             IF m = n THEN [key |-> k, value |-> v, next |-> [h \in DOMAIN at |-> heap[at[h]].next[h]]]
             ELSE [heap[m] EXCEPT !.next = [h \in DOMAIN @ |->
                     IF h \in DOMAIN at /\ at[h] = m THEN n ELSE @[h]]]]

\* sl_gen_level may return any level.
PlacesByKey(k) ==
  LET at == Descent(heap, { m \in Live : heap[m].key <= k }) IN
  { [h \in 0 .. top |-> at[h]] : top \in Levels }

\* Mutant: a further record of a key is inserted like the first.
InsertPlacesVanilla(k) == PlacesByKey(k)

\* The nodes a node for k may be linked behind; a further record of a key is
\* linked behind the last one of its block, on the bottom level only.
InsertPlaces(k) ==
  LET dup == sl_find_node(heap, k) IN
  IF Holds(heap, dup, k)
  THEN { [h \in {0} |-> Walk(heap, dup, 0, { m \in Live : heap[m].key = k })] }
  ELSE PlacesByKey(k)

\* The node, its parts and its links are allocated first: when one allocation
\* fails the others are freed and nothing has changed.
sl_insert(call, k, v, refused) ==
  \/ /\ \E n \in Node \ DOMAIN heap, at \in InsertPlaces(k) : LinkIn(n, k, v, at)
     /\ Answer(call, k, "err_ok", 1, NoValue)
  \/ /\ Answer(call, k, "err_out_of_memory", refused, NoValue)
     /\ UNCHANGED heap

sldict_insert(k, v) == Open /\ sl_insert("insert", k, v, 0) /\ UNCHANGED cursorVars

sl_get(k) ==
  LET n == sl_find_node(heap, k) IN
  /\ Open
  /\ \/ Holds(heap, n, k) /\ Answer("get", k, "err_ok", 1, heap[n].value)
     \/ ~Holds(heap, n, k) /\ Answer("get", k, "err_item_not_found", 0, NoValue)
  /\ UNCHANGED <<heap, cursorVars>>

\* Mutant: only the first record of a block is updated.
BlockFirst(n, k) == {n}

\* The block of k from n on.
Block(n, k) ==
  LET nodes == From(heap, n, 0) IN
  { nodes[i] : i \in { i \in DOMAIN nodes : \A j \in 1 .. i : heap[nodes[j]].key = k } }

sl_update(k, v) ==
  LET n == sl_find_node(heap, k) IN
  /\ Open
  /\ \/ /\ Holds(heap, n, k)
        /\ heap' = [m \in DOMAIN heap |->
                      IF m \in Block(n, k) THEN [heap[m] EXCEPT !.value = v] ELSE heap[m]]
        /\ Answer("update", k, "err_ok", Cardinality(Block(n, k)), NoValue)
     \/ ~Holds(heap, n, k) /\ sl_insert("update", k, v, 1)
  /\ UNCHANGED cursorVars

\* Node n, met on level top after node from, is taken out of every level it
\* is on: on each the walk goes on to the node before it.
Unlink(hp, n, from, top) ==
  LET pred == Stops(hp, from, top, DOMAIN hp \ {n})
  IN [m \in DOMAIN hp \ {n} |->
        [hp[m] EXCEPT !.next = [h \in DOMAIN @ |->
           IF h \in DOMAIN hp[n].next /\ pred[h] = m THEN hp[n].next[h] ELSE @[h]]]]

\* One turn of sl_delete: the first node of k on the highest level that has
\* one is taken out and freed.  A turn that finds none leaves the memory.
DeleteTurn(hp, k) ==
  LET at == Before(hp, k)
      hits == HitLevels(hp, k, at)
      top == Max(hits)
  IN IF hits = {} THEN hp ELSE Unlink(hp, hp[at[top]].next[top], at[top], top)

\* The memory at the end: there are no more turns than nodes.
AfterDelete(k) ==
  LET turn[i \in 0 .. Cardinality(Live)] == IF i = 0 THEN heap ELSE DeleteTurn(turn[i - 1], k)
  IN turn[Cardinality(Live)]

sl_delete(k) ==
  /\ Open
  /\ heap' = AfterDelete(k)
  /\ LET n == Cardinality(DOMAIN heap) - Cardinality(DOMAIN heap') IN
     Answer("delete", k, IF n = 0 THEN "err_item_not_found" ELSE "err_ok", n, NoValue)
  /\ IF heap' = heap \/ cursor.status = "none" THEN UNCHANGED <<intact, trail, atFind>>
     ELSE intact' = FALSE /\ trail' = << >> /\ atFind' = {}
  /\ UNCHANGED cursor

\* Mutant: what is reached along the top level is freed.
delete_along_top ==
  /\ Open /\ cursor.status = "none"
  /\ heap' = [n \in Live \ Range(Level(MaxHeight - 1)) |-> heap[n]]
  /\ UNCHANGED <<result, cursorVars>>

\* sl_destroy frees what it reaches along the bottom level.
sldict_delete_dictionary ==
  /\ Open /\ cursor.status = "none"
  /\ heap' = [n \in Live \ Range(Level(0)) |-> heap[n]]
  /\ UNCHANGED <<result, cursorVars>>

sldict_create_dictionary ==
  /\ ~Open
  /\ heap' = [n \in DOMAIN heap \cup {HeadNode} |->
                IF n = HeadNode THEN [next |-> [h \in Levels |-> Null]] ELSE heap[n]]
  /\ UNCHANGED <<result, cursorVars>>

-----------------------------------------------------------------------------
\* Mutant: a range starts where the lower bound is found, if it is there or not.
FirstNodeUnskipped(pred) ==
  IF sl_find_node(heap, pred.lower) = HeadNode THEN Null ELSE sl_find_node(heap, pred.lower)

\* The node a cursor starts at, or NULL when there is no record for it.  A
\* range first looks whether a record up to its upper bound is above the lower.
FirstNode(pred) ==
  LET atLower == sl_find_node(heap, pred.lower)
      after == From(heap, IF atLower = HeadNode THEN heap[HeadNode].next[0] ELSE atLower, 0)
      atUpper == sl_find_node(heap, pred.upper)
  IN CASE pred.type = "equality" -> IF Holds(heap, atLower, pred.lower) THEN atLower ELSE Null
       [] pred.type = "range" ->
            IF atUpper = HeadNode \/ heap[atUpper].key < pred.lower THEN Null
            ELSE LET i == SelectInSeq(after, LAMBDA n : heap[n].key >= pred.lower) IN
                 IF i = 0 THEN Null ELSE after[i]
       [] OTHER -> heap[HeadNode].next[0]

sldict_find(pred) ==
  /\ Open /\ cursor.status = "none"
  /\ LET n == FirstNode(pred) IN
     cursor' = [status |-> IF n = Null THEN "cs_end_of_results" ELSE "cs_cursor_initialized",
                pred |-> pred, current |-> n]
  /\ trail' = << >> /\ atFind' = Live /\ intact' = TRUE
  /\ UNCHANGED <<heap, result>>

\* The record of current is delivered, and current moves to its successor.
Deliver ==
  /\ cursor' = [cursor EXCEPT !.status = "cs_cursor_active",
                              !.current = heap[cursor.current].next[0]]
  /\ trail' = IF intact THEN Append(trail, cursor.current) ELSE trail

\* The first call does not test the predicate.
Delivers ==
  \/ cursor.status = "cs_cursor_initialized"
  \/ /\ cursor.status = "cs_cursor_active"
     /\ cursor.current # Null
     /\ test_predicate(cursor.pred, heap[cursor.current].key)

\* A cursor holds the address of the node to deliver next.  When that node has
\* been freed, what next reads is undefined: it ends the traversal or delivers
\* something, and then it has no defined place in the list.
sldict_next ==
  /\ cursor.status \in {"cs_cursor_initialized", "cs_cursor_active"}
  /\ \/ /\ cursor.current \in Live \cup {Null}
        /\ \/ Delivers /\ Deliver
           \/ /\ ~Delivers
              /\ cursor' = [cursor EXCEPT !.status = "cs_end_of_results"]
              /\ UNCHANGED trail
     \/ /\ cursor.current \notin Live \cup {Null}
        /\ \/ cursor' = [cursor EXCEPT !.status = "undefined"]
           \/ /\ cursor.status = "cs_cursor_active"
              /\ cursor' = [cursor EXCEPT !.status = "cs_end_of_results"]
        /\ UNCHANGED trail
  /\ UNCHANGED <<heap, result, atFind, intact>>

sldict_destroy_cursor ==
  /\ cursor.status # "none"
  /\ cursor' = NoCursor
  /\ trail' = << >> /\ atFind' = {} /\ intact' = TRUE
  /\ UNCHANGED <<heap, result>>

Init ==
  /\ heap = [n \in {HeadNode} |-> [next |-> [h \in Levels |-> Null]]]
  /\ cursor = NoCursor
  /\ result = [call |-> "none", key |-> NoValue, err |-> "err_ok", count |-> 0, value |-> NoValue]
  /\ trail = << >> /\ atFind = {} /\ intact = TRUE

Next ==
  \/ \E k \in Keys, v \in Values : sldict_insert(k, v)
  \/ \E k \in Keys, v \in Values : sl_update(k, v)
  \/ \E k \in Keys : sl_delete(k)
  \/ \E k \in Keys : sl_get(k)
  \/ \E pred \in Predicates : sldict_find(pred)
  \/ sldict_next
  \/ sldict_destroy_cursor
  \/ sldict_delete_dictionary
  \/ sldict_create_dictionary

Spec == Init /\ [][Next]_vars

-----------------------------------------------------------------------------
(***************************************************************************)
(* Properties.                                                             *)
(***************************************************************************)
\* Where a node is in the list.
Place(n) == CHOOSE i \in DOMAIN Level(0) : Level(0)[i] = n

\* Each level visits exactly the nodes that are tall enough, once, in the order
\* of the bottom level, and the keys of the bottom level never decrease: a node
\* unlinked from some of its levels only would leave a link to freed memory.
LevelsNested ==
  Open =>
    /\ \A h \in Levels :
         /\ Range(Level(h)) = { n \in Range(Level(0)) : height(n) >= h }
         /\ \A i, j \in DOMAIN Level(h) : i < j => Place(Level(h)[i]) < Place(Level(h)[j])
    /\ \A i, j \in DOMAIN Level(0) : i < j => heap[Level(0)[i]].key <= heap[Level(0)[j]].key

\* Every allocated node is in the list: nothing is lost to a delete, and
\* deleting the dictionary frees every record.
NothingLeaks == Live = Range(Level(0))

\* sl_find_node returns the first node of the key's block, or the last node
\* with a smaller key: get, update and the cursors start there, and would
\* miss the records before it.
FindsFirst ==
  Open => \A k \in Keys :
    LET n == sl_find_node(heap, k)
        smaller == { m \in Range(Level(0)) : heap[m].key < k }
        block == { m \in Range(Level(0)) : heap[m].key = k }
    IN IF block # {}
         THEN n \in block /\ \A m \in block : Place(n) <= Place(m)
         ELSE IF smaller = {} THEN n = HeadNode
              ELSE n \in smaller /\ \A m \in smaller : Place(m) <= Place(n)

\* Each key has a bag of values; every answer and count is the one of the bags.
BagOf(k) ==
  [v \in Values |-> Cardinality({ n \in Live : heap[n].key = k /\ heap[n].value = v })]

Abstract == INSTANCE MultiDictionary WITH bag <- [k \in Keys |-> BagOf(k)]

ImplementsBags == Abstract!Spec

\* A cursor under which records are only added and overwritten delivers
\* records that satisfy its predicate, each at most once and in the order of
\* the list, and by its end every such record that was there when it was
\* opened, although it has chosen the next record before each call.
TraversalOrdered ==
  intact =>
    /\ Range(trail) \subseteq Range(Level(0))
    /\ \A i, j \in DOMAIN trail : i < j => Place(trail[i]) < Place(trail[j])
    /\ \A n \in Range(trail) : test_predicate(cursor.pred, heap[n].key)
    /\ cursor.status = "cs_end_of_results" =>
         \A n \in atFind : test_predicate(cursor.pred, heap[n].key) => n \in Range(trail)
=============================================================================
