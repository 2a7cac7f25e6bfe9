------------------------------- MODULE BppTree -------------------------------
(***************************************************************************)
(* The B+ tree (dictionary/bpp_tree/bpp_tree.c) and its handler.  A node   *)
(* has a sector of the file; the root has the first three, and room for    *)
(* three times the keys.  Nodes are read and written through seven         *)
(* buffers, reused in the order of their last use.  Insert and delete make *)
(* one pass from the root down: where the child they come to is full, or   *)
(* as empty as it may be, three neighbours are gathered and scattered over *)
(* as many nodes as they need, so that a leaf always has room.  The values *)
(* are in a linked file bag, the tree holds the offset of a key's first.   *)
(*                                                                         *)
(* A call of the handler sets call, and the steps run until it is idle.    *)
(***************************************************************************)
EXTENDS LinkedFileBag, DictionaryTypes, FiniteSetsExt, SequencesExt, TLC

CONSTANTS
  Keys,          \* integers: the order of the comparison
  Values,
  MaxCt,         \* keys a node has room for; b_open refuses less than 6
  Predicates,    \* predicates of find
  Scripts,       \* sequences of calls; a behaviour begins with one of them
  HotKeys,       \* keys of the calls after it
  MaxCalls       \* bound: calls after the script

ASSUME ParameterAssumption == Keys \subseteq Nat \ {0} /\ HotKeys \subseteq Keys /\ MaxCt \in Nat /\ MaxCt >= 6
ASSUME PredicatesAssumption == Predicates \subseteq Predicate
ASSUME ScriptsAssumption ==
  \A s \in Scripts : s \in Seq({"insert", "get", "update", "delete"} \X Keys \X Values)

VARIABLES
  h,             \* the handle: ion_bpp_h_node_t and the file
  bag,           \* the values
  call,          \* the call that runs and its locals
  cursor,
  script,        \* calls of the script still to be made
  calls,         \* calls made after the script
  held           \* history: the values put in for a key since its last delete

vars == <<h, bag, call, cursor, script, calls, held>>

-----------------------------------------------------------------------------
(***************************************************************************)
(* Nodes.  Slots behind ct keep what was there.  Positions in a node count *)
(* from 0 as in the code; child i is left of key i, the last right of all. *)
(***************************************************************************)
Root == 0
NoAdr == 0          \* prev and next at the ends of the leaves
FirstFree == 3
Zero == [key |-> 0, rec |-> 0, ge |-> NoAdr]

Room(adr) == IF adr = Root THEN 3 * MaxCt ELSE MaxCt
NewNode(adr) == [leaf |-> TRUE, ct |-> 0, prev |-> NoAdr, next |-> NoAdr, lt |-> NoAdr,
                 ent |-> [i \in 1 .. Room(adr) |-> Zero]]

Entries(n) == SubSeq(n.ent, 1, n.ct)
Child(n, i) == IF i = 0 THEN n.lt ELSE n.ent[i].ge
\* A slot behind the sector is memory of another buffer.
Slot(n, i) == IF i < Len(n.ent) THEN n.ent[i + 1] ELSE Zero

\* memcpy to the first slots, memmove right of a slot, memmove left onto it
Overwrite(ent, new) == new \o SubSeq(ent, Len(new) + 1, Len(ent))
PutIn(n, i, e) == [n EXCEPT !.ct = @ + 1, !.ent = Overwrite(@, InsertAt(Entries(n), i + 1, e))]
TakeOut(n, i) == [n EXCEPT !.ct = @ - 1, !.ent = Overwrite(@, RemoveAt(Entries(n), i + 1))]

\* The binary search of MODE_MATCH and MODE_FIRST without duplicates: the last
\* key it looked at, and how the key compares with it.
search(n, key) ==
  LET probe[w \in (0 .. n.ct) \X (-1 .. (n.ct - 1))] ==
        LET m == (w[1] + w[2]) \div 2
            k == n.ent[m + 1].key
        IN IF key = k THEN [cc |-> 0, at |-> m]
           ELSE IF key < k THEN IF w[1] < m THEN probe[<<w[1], m - 1>>] ELSE [cc |-> -1, at |-> m]
           ELSE IF m < w[2] THEN probe[<<m + 1, w[2]>>] ELSE [cc |-> 1, at |-> m]
  IN IF n.ct = 0 THEN [cc |-> -1, at |-> 0] ELSE probe[<<0, n.ct - 1>>]

\* Mutant: the last key below the one looked for.
search_LL(n, key) ==
  LET below == { i \in 0 .. (n.ct - 1) : n.ent[i + 1].key < key } IN
  IF below = {} THEN [cc |-> -1, at |-> 0] ELSE [cc |-> 1, at |-> Max(below)]

\* MODE_LLEQ: the last key not above the one looked for, or the first key.
search_LLEQ(n, key) ==
  LET upto == { i \in 0 .. (n.ct - 1) : n.ent[i + 1].key <= key } IN
  IF upto = {} THEN [cc |-> -1, at |-> 0]
  ELSE [cc |-> IF n.ent[Max(upto) + 1].key = key THEN 0 ELSE 1, at |-> Max(upto)]

ChildFor(n, r) == Child(n, IF r.cc < 0 THEN r.at ELSE r.at + 1)

-----------------------------------------------------------------------------
(***************************************************************************)
(* The file and its buffers.  nodes is what a read of an address gives:    *)
(* the buffer that has it, or else the sector in the file.                 *)
(***************************************************************************)
BufCt == 7
NoBuffer == [adr |-> NoAdr, valid |-> FALSE, modified |-> FALSE]

\* A root no call has changed is in the file from the start.
EmptyFile == [adr \in {Root} |-> NewNode(adr)]
Handle(file, free) ==
  [nodes |-> file, file |-> file, bufs |-> [i \in 1 .. BufCt |-> NoBuffer],
   rootModified |-> FALSE, nextFreeAdr |-> free, curBuf |-> Root, curKey |-> 0]

flush(g, adr) ==
  [g EXCEPT !.file = [a \in DOMAIN g.file \cup {adr} |-> IF a = adr THEN g.nodes[a] ELSE g.file[a]]]

\* The buffer that leaves an address: it is written if it is marked modified,
\* and what else it held is lost.
Evict(g, b) ==
  LET f == IF b.modified THEN flush(g, b.adr) ELSE g IN
  [f EXCEPT !.nodes[b.adr] = f.file[b.adr]]

\* The buffer of the address moves to the front; without one, the last does.
assignBuf(g, adr) ==
  IF adr = Root THEN g ELSE
  LET hits == { i \in 1 .. (BufCt - 1) : g.bufs[i].valid /\ g.bufs[i].adr = adr }
      i == IF hits = {} THEN BufCt ELSE Min(hits)
      b == g.bufs[i]
      kept == b.valid /\ b.adr = adr
      f == IF b.valid /\ ~kept THEN Evict(g, b) ELSE g
  IN [f EXCEPT !.bufs = <<IF kept THEN b ELSE [NoBuffer EXCEPT !.adr = adr]>> \o RemoveAt(@, i)]

readDisk(g, adr) ==
  LET f == assignBuf(g, adr) IN
  IF adr = Root THEN f ELSE [f EXCEPT !.bufs[1].valid = TRUE]

\* Marks the buffer of the address; the write itself waits for flush.
writeDisk(g, adr) ==
  IF adr = Root THEN [g EXCEPT !.rootModified = TRUE] ELSE
  [g EXCEPT !.bufs = [i \in DOMAIN @ |-> IF @[i].adr = adr
                        THEN [@[i] EXCEPT !.valid = TRUE, !.modified = TRUE] ELSE @[i]]]

writeNode(g, adr, n) == writeDisk([g EXCEPT !.nodes[adr] = n], adr)

readAll(g, adrs) == readDisk(readDisk(readDisk(g, adrs[1]), adrs[2]), adrs[3])

\* Mutant: the root is not flushed.
FlushesBuffers(g) ==
  LET dirty == { g.bufs[i].adr : i \in { j \in 1 .. BufCt : g.bufs[j].modified } } IN
  [adr \in DOMAIN g.file \cup dirty |-> IF adr \in dirty THEN g.nodes[adr] ELSE g.file[adr]]

\* The file after flushAll.
flushAll(g) ==
  LET dirty == { g.bufs[i].adr : i \in { j \in 1 .. BufCt : g.bufs[j].modified } }
               \cup (IF g.rootModified THEN {Root} ELSE {})
  IN [adr \in DOMAIN g.file \cup dirty |-> IF adr \in dirty THEN g.nodes[adr] ELSE g.file[adr]]

-----------------------------------------------------------------------------
(***************************************************************************)
(* The calls.  tree is the operation of the tree that runs, buf the node   *)
(* it has come to; ge, at and lt are lastGE, lastGEkey and lastLTvalid.     *)
(***************************************************************************)
CallIdle == [pc |-> "idle"]
NoCursor == [status |-> "none"]
Quiet == call = CallIdle /\ cursor = NoCursor

NoGather == [leaf |-> TRUE, lt |-> NoAdr, ent |-> << >>]
Enter(op, k, v, tree, rec) ==
  [pc |-> IF tree \in {"insert", "update"} THEN "begin" ELSE "descend",
   op |-> op, key |-> k, value |-> v, tree |-> tree, rec |-> rec, buf |-> Root,
   ge |-> -1, at |-> 0, lt |-> FALSE, gbuf |-> NoGather, pkey |-> 0, is |-> 0, iu |-> 0, tmp |-> << >>]

\* The tree operation is over; the handler goes on with its result.
Return(rc, e) == call' = [pc |-> "return", op |-> call.op, key |-> call.key,
                               value |-> call.value, tree |-> call.tree, rc |-> rc,
                               found |-> e.key, offset |-> e.rec]

Here == h.nodes[call.buf]
Writes == call.tree \in {"insert", "update"}

\* gbuf and what scatter needs of the gather before it: where in buf the keys
\* of the is nodes begin, the nodes, how many are used.
Scatter(gbuf, pkey, is, tmp) ==
  call' = [call EXCEPT !.pc = "scatter", !.gbuf = gbuf, !.pkey = pkey, !.is = is, !.iu = is, !.tmp = tmp]

\* A full root is gathered and scattered first, one level below.
BeginWrite ==
  /\ call.pc = "begin"
  /\ IF h.nodes[Root].ct = 3 * MaxCt
       THEN /\ Scatter([leaf |-> h.nodes[Root].leaf, lt |-> h.nodes[Root].lt,
                        ent |-> Entries(h.nodes[Root])], 0, 0, << >>)
            /\ h' = [h EXCEPT !.nodes[Root].ct = 0]
       ELSE call' = [call EXCEPT !.pc = "descend"] /\ UNCHANGED h
  /\ UNCHANGED <<bag, cursor, script, calls, held>>

\* Mutant: the key on the right of the child is remembered.
GoDownPast(r, child) ==
  call' = IF r.cc >= 0 \/ r.at # 0
            THEN [call EXCEPT !.pc = "descend", !.buf = child, !.ge = call.buf, !.lt = FALSE,
                              !.at = IF r.cc < 0 THEN r.at ELSE r.at + 1]
            ELSE [call EXCEPT !.pc = "descend", !.buf = child, !.lt = (call.ge # -1)]

\* To the child; the last key passed on the right is remembered for the fix-up
\* of a leaf's first key.
GoDown(r, child) ==
  call' = IF r.cc >= 0 \/ r.at # 0
            THEN [call EXCEPT !.pc = "descend", !.buf = child, !.ge = call.buf, !.lt = FALSE,
                              !.at = IF r.cc < 0 THEN r.at - 1 ELSE r.at]
            ELSE [call EXCEPT !.pc = "descend", !.buf = child, !.lt = (call.ge # -1)]

\* Mutant: a node is merged one delete too late.
CrowdedLate(n) == (Writes /\ n.ct = MaxCt) \/ (call.tree = "delete" /\ n.ct = MaxCt \div 2 - 1)

Crowded(n) == (Writes /\ n.ct = MaxCt) \/ (call.tree = "delete" /\ n.ct = MaxCt \div 2)

gather(g, n, pkey) ==
  LET t == [i \in 1 .. 3 |-> g.nodes[Child(n, pkey + i - 1)]]
      down(i) == IF t[i].leaf THEN << >> ELSE <<[n.ent[pkey + i - 1] EXCEPT !.ge = t[i].lt]>>
  IN [leaf |-> t[1].leaf, lt |-> t[1].lt,
      ent |-> Entries(t[1]) \o down(2) \o Entries(t[2]) \o down(3) \o Entries(t[3])]

\* The last three nodes fit in the root.
Collapses(gbuf) ==
  /\ call.tree = "delete" /\ call.buf = Root /\ Here.ct = 2
  /\ Len(gbuf.ent) < (9 * MaxCt) \div 4

scatterRoot(n, gbuf) ==
  [n EXCEPT !.leaf = gbuf.leaf, !.lt = gbuf.lt, !.ct = Len(gbuf.ent), !.ent = Overwrite(@, gbuf.ent)]

Descend ==
  LET r == CASE call.tree = "first" -> [cc |-> -1, at |-> 0]
             [] call.tree = "fgeq" -> search_LLEQ(Here, call.key)
             [] OTHER -> search(Here, call.key)
      child == ChildFor(Here, r)
      g == readDisk(h, child)
      pkey == IF r.at = Here.ct - 1 THEN r.at - 1 ELSE r.at
      tmp == [i \in 1 .. 3 |-> Child(Here, pkey + i - 1)]
      f == readAll(g, tmp)
      gbuf == gather(f, Here, pkey)
  IN
  /\ call.pc = "descend" /\ ~Here.leaf
  /\ IF ~Crowded(g.nodes[child]) THEN h' = g /\ GoDown(r, child)
     ELSE IF Collapses(gbuf) THEN h' = [f EXCEPT !.nodes[Root] = scatterRoot(@, gbuf)] /\ UNCHANGED call
     ELSE h' = f /\ Scatter(gbuf, pkey, 3, tmp)
  /\ UNCHANGED <<bag, cursor, script, calls, held>>

\* After the scatter the node is searched again.
Rescan ==
  LET r == search(Here, call.key) IN
  /\ call.pc = "rescan"
  /\ h' = readDisk(h, ChildFor(Here, r))
  /\ GoDown(r, ChildFor(Here, r))
  /\ UNCHANGED <<bag, cursor, script, calls, held>>

-----------------------------------------------------------------------------
(***************************************************************************)
(* scatter.  The loop finds how many nodes the gathered keys take; an      *)
(* internal node other than the first gives a key to its parent.           *)
(***************************************************************************)
GatherCt == Len(call.gbuf.ent)
AtMost(n, leaf) == (MaxCt - 1) + (n - 1) * (IF leaf THEN MaxCt - 1 ELSE MaxCt)

\* Mutant: a leaf must be as full as an internal node.
AtLeastInner(n, leaf) == (MaxCt \div 2 + 1) + (n - 1) * ((MaxCt + 1) \div 2 + 1)

AtLeast(n, leaf) ==
  (MaxCt \div 2 + 1) + (n - 1) * (IF leaf THEN MaxCt \div 2 + 1 ELSE (MaxCt + 1) \div 2 + 1)

Adds == call.iu = 0 \/ GatherCt > AtMost(call.iu, call.gbuf.leaf)
Drops == ~Adds /\ call.iu > 1 /\ GatherCt < AtLeast(call.iu, call.gbuf.leaf)

\* allocAdr, and a new node behind the last one in use.
AddNode ==
  LET adr == h.nextFreeAdr
      g == assignBuf(h, adr)
      last == call.tmp[call.iu]
      new == IF call.iu = 0 \/ ~call.gbuf.leaf THEN NewNode(adr)
             ELSE [NewNode(adr) EXCEPT !.prev = last, !.next = g.nodes[last].next]
      f == [g EXCEPT !.nextFreeAdr = @ + 1,
                     !.nodes = [a \in DOMAIN g.nodes \cup {adr} |-> IF a = adr THEN new ELSE g.nodes[a]]]
  IN
  /\ call.pc = "scatter" /\ Adds
  /\ h' = IF call.iu > 0 /\ call.gbuf.leaf THEN [f EXCEPT !.nodes[last].next = adr] ELSE f
  /\ call' = [call EXCEPT !.iu = @ + 1, !.tmp = Append(SubSeq(@, 1, call.iu), adr)]
  /\ UNCHANGED <<bag, cursor, script, calls, held>>

\* The last node is given up; its sector is never used again.
DropNode ==
  /\ call.pc = "scatter" /\ Drops
  /\ h' = [h EXCEPT !.nodes[call.tmp[call.iu - 1]].next = h.nodes[call.tmp[call.iu]].next]
  /\ call' = [call EXCEPT !.iu = @ - 1]
  /\ UNCHANGED <<bag, cursor, script, calls, held>>

\* The keys of node i, counted from 1; the extra ones go to the second on.
Piece(i) ==
  LET base == GatherCt \div call.iu
      extra == GatherCt % call.iu
      upto(n) == n * base + (IF n = 0 THEN 0 ELSE Min({n - 1, extra}))
  IN SubSeq(call.gbuf.ent, upto(i - 1) + 1, upto(i))

\* Mutant: the node behind the last one keeps its backward link.
LinksForward(g) == g

\* The leaf behind the last node is linked back to it.
LinkNext(g) ==
  LET last == call.tmp[call.iu]
      next == g.nodes[last].next
      f == readDisk(g, next)
  IN IF call.iu = call.is \/ ~call.gbuf.leaf \/ next = NoAdr THEN g
     ELSE writeNode(f, next, [f.nodes[next] EXCEPT !.prev = last])

Filled(n, i) ==
  LET piece == Piece(i)
      in == IF call.gbuf.leaf \/ i = 1 THEN piece ELSE Tail(piece)
  IN [n EXCEPT !.leaf = call.gbuf.leaf, !.ct = Len(in), !.ent = Overwrite(@, in),
               !.lt = IF call.gbuf.leaf THEN NoAdr ELSE IF i = 1 THEN call.gbuf.lt ELSE piece[1].ge]

\* In the parent the keys between the nodes are replaced, the others shifted.
Parent(n) ==
  LET up == [i \in 1 .. (call.iu - 1) |-> [Head(Piece(i + 1)) EXCEPT !.ge = call.tmp[i + 1]]]
      new == SubSeq(n.ent, 1, call.pkey) \o up \o SubSeq(n.ent, call.pkey + Max({1, call.is}), n.ct)
  IN [n EXCEPT !.leaf = FALSE, !.ct = Len(new), !.ent = Overwrite(@, new),
               !.lt = IF call.pkey = 0 THEN call.tmp[1] ELSE @]

ScatterKeys ==
  LET g == LinkNext(h)
      fill[i \in 0 .. call.iu] ==
        IF i = 0 THEN writeNode(g, call.buf, Parent(g.nodes[call.buf]))
        ELSE writeNode(fill[i - 1], call.tmp[i], Filled(g.nodes[call.tmp[i]], i))
  IN
  /\ call.pc = "scatter" /\ ~Adds /\ ~Drops
  /\ h' = fill[call.iu]
  /\ call' = [call EXCEPT !.pc = IF call.is = 0 THEN "descend" ELSE "rescan",
                          !.gbuf = NoGather, !.tmp = << >>, !.is = 0, !.iu = 0, !.pkey = 0]
  /\ UNCHANGED <<bag, cursor, script, calls, held>>

-----------------------------------------------------------------------------
(***************************************************************************)
(* At a leaf.                                                              *)
(***************************************************************************)
AtLeaf(trees) == call.pc = "descend" /\ Here.leaf /\ call.tree \in trees

\* Where each of the three finds puts curKey in the leaf it came to.  The second
\* goes behind the last key when that is less than the key it looks for.
b_get(n, key) == LET r == search(n, key) IN [found |-> r.cc = 0, at |-> r.at]
b_find_first_greater_or_equal(n, key) ==
  LET r == search_LLEQ(n, key) IN [found |-> TRUE, at |-> IF r.cc > 0 THEN r.at + 1 ELSE r.at]
b_find_first_key(n) == [found |-> n.ct > 0, at |-> 0]

LeafFind ==
  LET hit == CASE call.tree = "get" -> b_get(Here, call.key)
               [] call.tree = "fgeq" -> b_find_first_greater_or_equal(Here, call.key)
               [] OTHER -> b_find_first_key(Here)
  IN
  /\ AtLeaf({"get", "first", "fgeq"})
  /\ IF hit.found
       THEN h' = [h EXCEPT !.curBuf = call.buf, !.curKey = hit.at] /\ Return("ok", Slot(Here, hit.at))
       ELSE UNCHANGED h /\ Return("notfound", Zero)
  /\ UNCHANGED <<bag, cursor, script, calls, held>>

\* The key of an inner node that a new or removed first key of a leaf has made
\* wrong; insert writes it over the first key of that node.
FixUp(g, slot, e) ==
  LET f == readDisk(g, call.ge) IN
  writeNode(f, call.ge, [f.nodes[call.ge] EXCEPT !.ent[slot + 1].key = e.key, !.ent[slot + 1].rec = e.rec])

LeafInsert ==
  LET r == search(Here, call.key)
      at == IF r.cc > 0 THEN r.at + 1 ELSE r.at
      e == [key |-> call.key, rec |-> call.rec, ge |-> NoAdr]
      g == writeNode(h, call.buf, PutIn(Here, at, e))
  IN
  /\ AtLeaf({"insert"})
  /\ IF r.cc = 0
       THEN UNCHANGED h /\ Return("duplicate", Zero)
       ELSE h' = (IF at = 0 /\ call.lt THEN FixUp(g, 0, e) ELSE g) /\ Return("ok", Zero)
  /\ UNCHANGED <<bag, cursor, script, calls, held>>

\* The entry is changed in the buffer, which is not marked modified.
LeafUpdate ==
  LET r == search(Here, call.key) IN
  /\ AtLeaf({"update"})
  /\ IF r.cc = 0
       THEN h' = [h EXCEPT !.nodes[call.buf].ent[r.at + 1].rec = call.rec] /\ Return("ok", Zero)
       ELSE UNCHANGED h /\ Return("notfound", Zero)
  /\ UNCHANGED <<bag, cursor, script, calls, held>>

LeafDelete ==
  LET r == search(Here, call.key)
      left == TakeOut(Here, r.at)
      g == writeNode(h, call.buf, left)
  IN
  /\ AtLeaf({"delete"})
  /\ IF r.cc = 0
       THEN /\ h' = IF r.at = 0 /\ call.lt THEN FixUp(g, call.at, left.ent[1]) ELSE g
            /\ Return("ok", Slot(Here, r.at))
       ELSE UNCHANGED h /\ Return("notfound", Zero)
  /\ UNCHANGED <<bag, cursor, script, calls, held>>

-----------------------------------------------------------------------------
(***************************************************************************)
(* The handler.                                                            *)
(***************************************************************************)
Scripted == script # << >>
Begin(op, k, v, tree) ==
  /\ Quiet
  /\ IF Scripted THEN script[1] = <<op, k, v>> /\ script' = Tail(script) /\ UNCHANGED calls
                 ELSE calls < MaxCalls /\ calls' = calls + 1 /\ UNCHANGED script
  /\ call' = Enter(op, k, v, tree, 0)
  /\ UNCHANGED <<h, bag, cursor, held>>

bpptree_insert(k, v) == Begin("insert", k, v, "get")
bpptree_get(k, v) == Begin("get", k, v, "get")
bpptree_update(k, v) == Begin("update", k, v, "get")
bpptree_delete(k, v) == Begin("delete", k, v, "delete")

Returned(op) == call.pc = "return" /\ call.op = op
EndsCall == call' = CallIdle

\* A new value goes in front of the list of its key.
InsertReturns ==
  /\ Returned("insert")
  /\ IF call.tree = "get"
       THEN LET new == call.rc = "notfound" IN
            /\ bag' = lfb_put(bag, call.value, IF new THEN ION_LFB_NULL ELSE call.offset)
            /\ call' = Enter("insert", call.key, call.value, IF new THEN "insert" ELSE "update", PutAt(bag))
            /\ held' = [held EXCEPT ![call.key] = @ \cup {call.value}]
       ELSE EndsCall /\ UNCHANGED <<bag, held>>
  /\ UNCHANGED <<h, cursor, script, calls>>

GetReturns ==
  /\ Returned("get")
  /\ EndsCall
  /\ UNCHANGED <<h, bag, cursor, script, calls, held>>

\* Mutant: an update that finds no key is tried again.
UpdateRetried ==
  /\ Returned("update")
  /\ IF call.rc = "ok"
       THEN /\ bag' = lfb_update_all(bag, call.offset, call.value)
            /\ held' = [held EXCEPT ![call.key] = {call.value}]
            /\ EndsCall
       ELSE call' = Enter("update", call.key, call.value, "get", 0) /\ UNCHANGED <<bag, held>>
  /\ UNCHANGED <<h, cursor, script, calls>>

UpdateReturns ==
  /\ Returned("update")
  /\ IF call.rc = "ok"
       THEN /\ bag' = lfb_update_all(bag, call.offset, call.value)
            /\ held' = [held EXCEPT ![call.key] = {call.value}]
            /\ EndsCall
       ELSE /\ call' = Enter("insert", call.key, call.value, "get", 0)
            /\ UNCHANGED <<bag, held>>
  /\ UNCHANGED <<h, cursor, script, calls>>

DeleteReturns ==
  /\ Returned("delete")
  /\ IF call.rc = "ok"
       THEN bag' = lfb_delete_all(bag, call.offset) /\ held' = [held EXCEPT ![call.key] = {}]
       ELSE UNCHANGED <<bag, held>>
  /\ EndsCall
  /\ UNCHANGED <<h, cursor, script, calls>>

\* bpptree_close_dictionary and bpptree_open_dictionary: the buffers are
\* flushed and dropped, the list of freed records is not kept.
bpptree_reopen ==
  /\ Quiet /\ ~Scripted /\ calls < MaxCalls
  /\ h' = Handle(flushAll(h), Max(DOMAIN flushAll(h) \cup {FirstFree - 1}) + 1)
  /\ bag' = [bag EXCEPT !.next_empty = ION_LFB_NULL]
  /\ calls' = calls + 1
  /\ UNCHANGED <<call, cursor, script, held>>

\* The files are removed; the dictionary is created again.
bpptree_delete_dictionary ==
  /\ Quiet /\ ~Scripted /\ calls < MaxCalls
  /\ h' = Handle(EmptyFile, FirstFree)
  /\ bag' = NewBag
  /\ held' = [k \in Keys |-> {}]
  /\ calls' = calls + 1
  /\ UNCHANGED <<call, cursor, script>>

-----------------------------------------------------------------------------
(***************************************************************************)
(* Cursors.  A traversal is one that no other call of the dictionary       *)
(* interrupts: all of them share curBuf and curKey.  all and left are      *)
(* history: the keys it should deliver, and has not delivered yet.         *)
(***************************************************************************)
bpptree_find(p) ==
  /\ Quiet /\ ~Scripted /\ calls < MaxCalls
  /\ calls' = calls + 1
  /\ call' = Enter("find", p.lower, p,
                   CASE p.type = "equality" -> "get" [] p.type = "range" -> "fgeq" [] OTHER -> "first", 0)
  /\ UNCHANGED <<h, bag, cursor, script, held>>

FindReturns ==
  LET all == { k \in Keys : held[k] # {} /\ test_predicate(call.value, k) }
      hit == call.rc = "ok" /\ test_predicate(call.value, call.found)
  IN
  /\ Returned("find")
  /\ cursor' = [status |-> IF hit THEN "cs_cursor_initialized" ELSE "cs_end_of_results",
                pred |-> call.value, key |-> call.found, offset |-> call.offset,
                value |-> "none", all |-> all, left |-> all]
  /\ EndsCall
  /\ UNCHANGED <<h, bag, script, calls, held>>

Deliver(k, offset) ==
  cursor' = [cursor EXCEPT !.status = "cs_cursor_active", !.key = k, !.left = @ \ {k},
                           !.value = lfb_get(bag, offset).value, !.offset = lfb_get(bag, offset).next]
Finish == cursor' = [cursor EXCEPT !.status = "cs_end_of_results"]

\* bpptree_next while the list of the key lasts, or at the first key.
NextOfList ==
  /\ call = CallIdle /\ cursor.status \in {"cs_cursor_initialized", "cs_cursor_active"}
  /\ cursor.status = "cs_cursor_initialized" \/ cursor.offset # ION_LFB_NULL
  /\ Deliver(cursor.key, cursor.offset)
  /\ UNCHANGED <<h, bag, call, script, calls, held>>

\* ... and after it, with b_find_next_key.
NextKey ==
  LET n == h.nodes[h.curBuf]
      last == h.curKey = n.ct - 1
      to == IF last THEN n.next ELSE h.curBuf
      at == IF last THEN 0 ELSE h.curKey + 1
      g == IF last THEN readDisk(h, to) ELSE h
      e == Slot(g.nodes[to], at)
  IN
  /\ call = CallIdle /\ cursor.status = "cs_cursor_active" /\ cursor.offset = ION_LFB_NULL
  /\ IF cursor.pred.type = "equality" \/ (last /\ to = NoAdr)
       THEN Finish /\ UNCHANGED h
       ELSE /\ h' = [g EXCEPT !.curBuf = to, !.curKey = at]
            /\ IF test_predicate(cursor.pred, e.key) THEN Deliver(e.key, e.rec) ELSE Finish
  /\ UNCHANGED <<bag, call, script, calls, held>>

bpptree_next == NextOfList \/ NextKey

bpptree_destroy_cursor ==
  /\ call = CallIdle /\ cursor # NoCursor
  /\ cursor' = NoCursor
  /\ UNCHANGED <<h, bag, call, script, calls, held>>

-----------------------------------------------------------------------------
Init ==
  /\ h = Handle(EmptyFile, FirstFree)
  /\ bag = NewBag
  /\ call = CallIdle
  /\ cursor = NoCursor
  /\ script \in Scripts
  /\ calls = 0
  /\ held = [k \in Keys |-> {}]

Idling == call = CallIdle

\* The bound is reached.
CallsMade == Quiet /\ calls = MaxCalls /\ ~Scripted /\ UNCHANGED vars

Step ==
  \/ BeginWrite \/ Descend \/ Rescan
  \/ AddNode \/ DropNode \/ ScatterKeys
  \/ LeafFind \/ LeafInsert \/ LeafUpdate \/ LeafDelete
  \/ InsertReturns \/ GetReturns \/ UpdateReturns \/ DeleteReturns \/ FindReturns

Next ==
  \/ Step
  \/ \E k \in (IF Scripted THEN {script[1][2]} ELSE HotKeys), v \in Values :
       bpptree_insert(k, v) \/ bpptree_get(k, v) \/ bpptree_update(k, v) \/ bpptree_delete(k, v)
  \/ \E p \in Predicates : bpptree_find(p)
  \/ bpptree_next \/ bpptree_destroy_cursor
  \/ bpptree_reopen \/ bpptree_delete_dictionary
  \/ CallsMade

Spec == Init /\ [][Next]_vars

\* The loops of a call are run by the thread that makes it, to their end: weak
\* fairness of Step.  Written out, as a step is enabled unless no call runs
\* (TLC, looking for deadlocks, checks that), and ENABLED Step is slow.
FairSpec == Spec /\ ([]<>Idling \/ []<><<Step>>_vars)

-----------------------------------------------------------------------------
Adrs == DOMAIN h.nodes

\* The leaves below a node, from left to right.
Leaves(adr) ==
  LET below[a \in Adrs] ==
        LET n == h.nodes[a] IN
        IF n.leaf THEN <<a>> ELSE FlattenSeq([i \in 1 .. (n.ct + 1) |-> below[Child(n, i - 1)]])
  IN below[adr]

Inner(n) == { i \in 0 .. n.ct : ~n.leaf }

\* The nodes at each depth below the root; no path is longer than there are
\* addresses.
Depth == Cardinality(Adrs)
Rows ==
  LET row[d \in 0 .. Depth] ==
        IF d = 0 THEN {Root}
        ELSE UNION { { Child(h.nodes[a], i) : i \in Inner(h.nodes[a]) } : a \in row[d - 1] }
  IN row

\* What b_get finds for a key: the offset of its list.
Lookup(k) ==
  LET down[d \in 0 .. Depth] ==
        IF d = 0 THEN Root
        ELSE LET a == down[d - 1]
                 n == h.nodes[a]
             IN IF n.leaf THEN a ELSE ChildFor(n, search(n, k))
      n == h.nodes[down[Depth]]
      r == search(n, k)
  IN IF r.cc = 0 THEN n.ent[r.at + 1].rec ELSE ION_LFB_NULL

\* Between calls a key is found if and only if a value was put in for it since
\* it was last deleted, whatever splits, merges, collapses of the root,
\* evictions of buffers and reopenings there were.
KeysFound == Idling => \A k \in Keys : (Lookup(k) # ION_LFB_NULL) = (held[k] # {})

\* Between calls the list of a key has values put in for it and not overwritten
\* since, and no record is in two lists or in a list and free at once.
ListsApart ==
  Idling =>
    LET listed == UNION { {k} \X Offsets(bag, Lookup(k)) : k \in Keys }
        free == Offsets(bag, bag.next_empty)
    IN /\ \A x \in listed : bag.file[x[2]].value \in held[x[1]] /\ x[2] \notin free
       /\ Cardinality({ x[2] : x \in listed }) = Cardinality(listed)

\* Between calls the tree is balanced, its nodes but the root are half full or
\* more, and every key is on the side of each inner key that a search takes.
TreeOrdered ==
  Idling =>
    LET row == Rows IN
    \A d \in 0 .. Depth : \A a \in row[d] :
      LET n == h.nodes[a] IN
      /\ \A b \in row[d] : h.nodes[b].leaf = n.leaf
      /\ \A i \in 1 .. (n.ct - 1) : n.ent[i].key < n.ent[i + 1].key
      /\ \A i \in Inner(n) :
           LET c == h.nodes[Child(n, i)] IN
           /\ c.ct \in (MaxCt \div 2) .. MaxCt
           /\ i > 0 => n.ent[i].key <= c.ent[1].key
           /\ i < n.ct => c.ent[c.ct].key < n.ent[i + 1].key

\* Between calls next leads through the leaves in the order of the tree, and
\* prev back: a cursor passes every key once.
LeavesLinked ==
  Idling =>
    LET leaves == Leaves(Root) IN
    \A i \in DOMAIN leaves :
      /\ h.nodes[leaves[i]].next = IF i < Len(leaves) THEN leaves[i + 1] ELSE NoAdr
      /\ h.nodes[leaves[i]].prev = IF i > 1 THEN leaves[i - 1] ELSE NoAdr

\* A cursor over all records, over one key, or over a range whose lower bound
\* is in the dictionary delivers the keys it should, with values of theirs, and
\* ends after the last of them.
TraversalExact ==
  (cursor # NoCursor /\ (cursor.pred.type = "range" => held[cursor.pred.lower] # {})) =>
    /\ cursor.status = "cs_end_of_results" => cursor.left = {}
    /\ cursor.status = "cs_cursor_active" => cursor.key \in cursor.all /\ cursor.value \in held[cursor.key]

\* Where b_insert is right to write a new first key of a leaf over the first
\* key of the node remembered: that is the key that led to the leaf.  It is not
\* always (bpp_separator); without it, the order of the tree is lost.
RepairsRightKey ==
  LET r == search(Here, call.key) IN
  AtLeaf({"insert"}) /\ r.cc < 0 /\ r.at = 0 /\ call.lt => call.at = 0

\* The loop of scatter, once it has given up a node, does not add one: it would
\* give that up again.
ScatterAdvances == [][AddNode => call.iu >= call.is]_vars

\* Every call returns.
CallsReturn == ~Idling ~> Idling
=============================================================================
