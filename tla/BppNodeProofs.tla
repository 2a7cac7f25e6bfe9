--------------------------- MODULE BppNodeProofs ----------------------------
(***************************************************************************)
(* Lemmas about the B+ tree: its nodes and the search of one; trees of     *)
(* nodes, and what they are when a node is cut into pieces, pieces are     *)
(* joined, or the root grows or collapses; the buffers and the file; the   *)
(* invariant of a call, case by case of where it is; the steps at a leaf,  *)
(* of the handler and of a reopening; and what a gather reads and joins.   *)
(*                                                                         *)
(* A tree is described by t: the addresses in it, for each one its level   *)
(* above the leaves, the keys below it, and its parent. None of this is in *)
(* the program; the invariant says that there is such a t for the nodes.   *)
(* While keys are gathered and not yet scattered they are in no node: the  *)
(* tree is then one of nodes N in which a single node has them all.        *)
(*                                                                         *)
(* Nodes are compared but for the offsets of lists and the links of        *)
(* leaves, because both may be lost: what is written to a buffer that is   *)
(* not marked as modified is not in the file.                              *)
(***************************************************************************)
EXTENDS BppTree, NumberProofs, SequenceTheorems, TLAPS

(***************************************************************************)
(* Nodes.                                                                  *)
(***************************************************************************)
Entry == [key : Int, rec : Int, ge : Int]
NodeType == [leaf : BOOLEAN, ct : Nat, prev : Int, next : Int, lt : Int, ent : Seq(Entry)]
IsNode(n) == n \in NodeType /\ n.ct <= Len(n.ent)

KeysOf(n) == { n.ent[i].key : i \in 1 .. n.ct }
Sorted(n) == \A i, j \in 1 .. n.ct : i < j => n.ent[i].key < n.ent[j].key

\* A search for x goes to child i.
Routes(n, i, x) == (i > 0 => n.ent[i].key <= x) /\ (i < n.ct => x < n.ent[i + 1].key)

\* The same but for the offsets of the lists and the links between leaves.
Same(n, o) ==
  /\ n.leaf = o.leaf /\ n.ct = o.ct /\ n.lt = o.lt
  /\ \A i \in 1 .. n.ct : n.ent[i].key = o.ent[i].key /\ n.ent[i].ge = o.ent[i].ge

\* The fields of a node, its keys and its children.
LEMMA NodeParts ==
  ASSUME NEW n, IsNode(n)
  PROVE  /\ n.leaf \in BOOLEAN /\ n.ct \in Nat /\ n.prev \in Int /\ n.next \in Int /\ n.lt \in Int
         /\ n.ent \in Seq(Entry) /\ Len(n.ent) \in Nat /\ n.ct <= Len(n.ent)
         /\ \A i \in 1 .. n.ct : n.ent[i] \in Entry /\ n.ent[i].key \in Int /\ n.ent[i].rec \in Int /\ n.ent[i].ge \in Int
         /\ \A i \in 0 .. n.ct : Child(n, i) \in Int
<1>1. n.ent \in Seq(Entry) /\ n.ct \in Nat /\ n.ct <= Len(n.ent) /\ n.lt \in Int
  BY DEF IsNode, NodeType
<1>2. Len(n.ent) \in Nat /\ \A i \in 1 .. n.ct : n.ent[i] \in Entry
  <2>1. Len(n.ent) \in Nat
    BY <1>1, LenProperties
  <2>2. \A i \in 1 .. n.ct : i \in 1 .. Len(n.ent)
    BY <1>1, <2>1
  <2>3. QED
    BY <1>1, <2>1, <2>2, ElementOfSeq
<1>3. \A i \in 1 .. n.ct : n.ent[i].key \in Int /\ n.ent[i].rec \in Int /\ n.ent[i].ge \in Int
  BY <1>2 DEF Entry
<1>4. \A i \in 0 .. n.ct : i = 0 \/ i \in 1 .. n.ct
  BY <1>1
<1>5. \A i \in 0 .. n.ct : Child(n, i) \in Int
  BY <1>1, <1>3, <1>4 DEF Child
<1>6. n.leaf \in BOOLEAN /\ n.prev \in Int /\ n.next \in Int
  BY DEF IsNode, NodeType
<1>7. QED
  BY <1>1, <1>2, <1>3, <1>5, <1>6

\* The slots of a node that are in use.
LEMMA EntriesIs ==
  ASSUME NEW n, IsNode(n)
  PROVE  /\ Entries(n) \in Seq(Entry) /\ Len(Entries(n)) = n.ct
         /\ \A i \in 1 .. n.ct : Entries(n)[i] = n.ent[i]
<1>1. n.ct \in Nat /\ \A i \in 1 .. n.ct : n.ent[i] \in Entry
  BY NodeParts
<1>2. QED
  BY <1>1, SubSeqProperties DEF Entries

\* New first slots leave the others.
LEMMA OverwriteIs ==
  ASSUME NEW e \in Seq(Entry), NEW new \in Seq(Entry)
  PROVE  /\ Overwrite(e, new) \in Seq(Entry) /\ Len(Overwrite(e, new)) \in Nat /\ Len(new) \in Nat
         /\ Len(new) <= Len(Overwrite(e, new))
         /\ \A i \in 1 .. Len(new) : Overwrite(e, new)[i] = new[i]
<1>1. Len(e) \in Nat /\ Len(new) \in Nat
  BY LenProperties
<1> DEFINE r == SubSeq(e, Len(new) + 1, Len(e))
<1>2. r \in Seq(Entry) /\ Len(r) \in Nat
  <2>1. \A i \in (Len(new) + 1) .. Len(e) : i \in 1 .. Len(e)
    BY <1>1
  <2>2. \A i \in (Len(new) + 1) .. Len(e) : e[i] \in Entry
    BY <2>1, ElementOfSeq
  <2>3. r \in Seq(Entry)
    BY <1>1, <2>2, SubSeqProperties
  <2>4. QED
    BY <2>3, LenProperties
<1> HIDE DEF r
<1>3. /\ new \o r \in Seq(Entry) /\ Len(new \o r) = Len(new) + Len(r)
      /\ \A i \in 1 .. Len(new) + Len(r) : (new \o r)[i] = IF i <= Len(new) THEN new[i] ELSE r[i - Len(new)]
  BY <1>2, ConcatProperties
<1>4. Overwrite(e, new) = new \o r
  BY DEF Overwrite, r
<1>5. QED
  BY <1>1, <1>2, <1>3, <1>4

\* A key goes into its slot, the ones from there on move right.
LEMMA PutInIs ==
  ASSUME NEW n, IsNode(n), NEW i \in 0 .. n.ct, NEW e \in Entry
  PROVE  LET p == PutIn(n, i, e) IN
         /\ IsNode(p) /\ p.ct = n.ct + 1 /\ p.leaf = n.leaf /\ p.lt = n.lt /\ p.prev = n.prev /\ p.next = n.next
         /\ \A j \in 1 .. (n.ct + 1) : p.ent[j] = IF j <= i THEN n.ent[j] ELSE IF j = i + 1 THEN e ELSE n.ent[j - 1]
<1> DEFINE s == Entries(n)
           a == SubSeq(s, 1, i)
           b == SubSeq(s, i + 1, Len(s))
           new == InsertAt(s, i + 1, e)
           p == PutIn(n, i, e)
<1>1. s \in Seq(Entry) /\ Len(s) = n.ct /\ n.ct \in Nat /\ \A j \in 1 .. n.ct : s[j] = n.ent[j]
  BY EntriesIs, NodeParts
<1> HIDE DEF s
<1>2. \A j \in 1 .. n.ct : s[j] \in Entry
  BY <1>1, ElementOfSeq
<1>3. a \in Seq(Entry) /\ Len(a) = i /\ \A j \in 1 .. i : a[j] = s[j]
  <2>1. \A j \in 1 .. i : s[j] \in Entry
    BY <1>1, <1>2
  <2>2. QED
    BY <1>1, <2>1, SubSeqProperties
<1>4. b \in Seq(Entry) /\ Len(b) = n.ct - i /\ \A j \in 1 .. (n.ct - i) : b[j] = s[i + j]
  <2>1. \A j \in (i + 1) .. Len(s) : s[j] \in Entry
    BY <1>1, <1>2
  <2>2. /\ b \in Seq(Entry)
        /\ Len(b) = IF i + 1 <= Len(s) THEN Len(s) - (i + 1) + 1 ELSE 0
        /\ \A j \in 1 .. Len(s) - (i + 1) + 1 : b[j] = s[i + 1 + j - 1]
    BY <1>1, <2>1, SubSeqProperties
  <2>3. QED
    BY <1>1, <2>2
<1>5. new = (a \o <<e>>) \o b
  BY <1>1 DEF InsertAt
<1> HIDE DEF a, b, new
<1>6. <<e>> \in Seq(Entry) /\ Len(<<e>>) = 1 /\ <<e>>[1] = e
  OBVIOUS
<1>7. /\ a \o <<e>> \in Seq(Entry) /\ Len(a \o <<e>>) = i + 1
      /\ \A j \in 1 .. (i + 1) : (a \o <<e>>)[j] = IF j <= i THEN s[j] ELSE e
  <2>1. /\ a \o <<e>> \in Seq(Entry) /\ Len(a \o <<e>>) = Len(a) + Len(<<e>>)
        /\ \A j \in 1 .. Len(a) + Len(<<e>>) : (a \o <<e>>)[j] = IF j <= Len(a) THEN a[j] ELSE <<e>>[j - Len(a)]
    BY <1>3, <1>6, ConcatProperties
  <2>2. \A j \in 1 .. (i + 1) : j > i => j - i = 1
    OBVIOUS
  <2>3. QED
    BY <1>3, <1>6, <2>1, <2>2
<1>8. /\ new \in Seq(Entry) /\ Len(new) = n.ct + 1
      /\ \A j \in 1 .. (n.ct + 1) : new[j] = IF j <= i THEN n.ent[j] ELSE IF j = i + 1 THEN e ELSE n.ent[j - 1]
  <2>1. /\ new \in Seq(Entry) /\ Len(new) = (i + 1) + (n.ct - i)
        /\ \A j \in 1 .. (i + 1) + (n.ct - i) : new[j] = IF j <= i + 1 THEN (a \o <<e>>)[j] ELSE b[j - (i + 1)]
    <3> DEFINE c == a \o <<e>>
    <3>1. c \in Seq(Entry) /\ Len(c) = i + 1
      BY <1>7
    <3>2. new = c \o b
      BY <1>5
    <3> HIDE DEF c
    <3>3. /\ new \in Seq(Entry) /\ Len(new) = Len(c) + Len(b)
          /\ \A j \in 1 .. Len(c) + Len(b) : new[j] = IF j <= Len(c) THEN c[j] ELSE b[j - Len(c)]
      BY <1>4, <3>1, <3>2, ConcatProperties
    <3>4. QED
      BY <1>4, <3>1, <3>3 DEF c
  <2>2. ASSUME NEW j \in 1 .. (n.ct + 1)
        PROVE  new[j] = IF j <= i THEN n.ent[j] ELSE IF j = i + 1 THEN e ELSE n.ent[j - 1]
    <3>1. CASE j <= i
      BY <1>1, <1>7, <2>1, <3>1
    <3>2. CASE j = i + 1
      BY <1>1, <1>7, <2>1, <3>2
    <3>3. CASE j > i + 1
      <4>1. j - (i + 1) \in 1 .. (n.ct - i) /\ i + (j - (i + 1)) = j - 1 /\ j - 1 \in 1 .. n.ct
        BY <1>1, <3>3
      <4>2. b[j - (i + 1)] = s[j - 1]
        BY <1>4, <4>1
      <4>3. QED
        BY <1>1, <2>1, <3>3, <4>1, <4>2
    <3>4. QED
      BY <1>1, <3>1, <3>2, <3>3
  <2>3. QED
    BY <1>1, <2>1, <2>2
<1>9. p = [n EXCEPT !.ct = n.ct + 1, !.ent = Overwrite(n.ent, new)]
  BY DEF PutIn, new, s
<1>10. /\ Overwrite(n.ent, new) \in Seq(Entry) /\ Len(new) <= Len(Overwrite(n.ent, new))
       /\ \A j \in 1 .. Len(new) : Overwrite(n.ent, new)[j] = new[j]
  BY <1>8, NodeParts, OverwriteIs
<1>11. p \in NodeType /\ p.ct = n.ct + 1 /\ p.ent = Overwrite(n.ent, new)
       /\ p.leaf = n.leaf /\ p.lt = n.lt /\ p.prev = n.prev /\ p.next = n.next
  <2>1. n.ct + 1 \in Nat
    BY <1>1
  <2>2. QED
    BY <2>1, <1>9, <1>10 DEF IsNode, NodeType
<1> HIDE DEF p
<1>12. IsNode(p) /\ \A j \in 1 .. (n.ct + 1) : p.ent[j] = IF j <= i THEN n.ent[j] ELSE IF j = i + 1 THEN e ELSE n.ent[j - 1]
  BY <1>8, <1>10, <1>11 DEF IsNode
<1>13. QED
  BY <1>11, <1>12 DEF p

\* A key leaves its slot, the ones behind it move left.
LEMMA TakeOutIs ==
  ASSUME NEW n, IsNode(n), NEW i \in 0 .. (n.ct - 1)
  PROVE  LET p == TakeOut(n, i) IN
         /\ IsNode(p) /\ p.ct = n.ct - 1 /\ p.leaf = n.leaf /\ p.lt = n.lt /\ p.prev = n.prev /\ p.next = n.next
         /\ \A j \in 1 .. (n.ct - 1) : p.ent[j] = IF j <= i THEN n.ent[j] ELSE n.ent[j + 1]
<1> DEFINE s == Entries(n)
           a == SubSeq(s, 1, i)
           b == SubSeq(s, i + 2, Len(s))
           new == RemoveAt(s, i + 1)
           p == TakeOut(n, i)
<1>1. s \in Seq(Entry) /\ Len(s) = n.ct /\ n.ct \in Nat /\ \A j \in 1 .. n.ct : s[j] = n.ent[j]
  BY EntriesIs, NodeParts
<1> HIDE DEF s
<1>2. \A j \in 1 .. n.ct : s[j] \in Entry
  BY <1>1, ElementOfSeq
<1>3. a \in Seq(Entry) /\ Len(a) = i /\ \A j \in 1 .. i : a[j] = s[j]
  <2>1. \A j \in 1 .. i : s[j] \in Entry
    BY <1>1, <1>2
  <2>2. QED
    BY <1>1, <2>1, SubSeqProperties
<1>4. b \in Seq(Entry) /\ Len(b) = n.ct - i - 1 /\ \A j \in 1 .. (n.ct - i - 1) : b[j] = s[i + 1 + j]
  <2>1. \A j \in (i + 2) .. Len(s) : s[j] \in Entry
    BY <1>1, <1>2
  <2>2. /\ b \in Seq(Entry)
        /\ Len(b) = IF i + 2 <= Len(s) THEN Len(s) - (i + 2) + 1 ELSE 0
        /\ \A j \in 1 .. Len(s) - (i + 2) + 1 : b[j] = s[i + 2 + j - 1]
    BY <1>1, <2>1, SubSeqProperties
  <2>3. QED
    BY <1>1, <2>2
<1>5. new = a \o b
  BY <1>1 DEF RemoveAt
<1> HIDE DEF a, b, new
<1>8. /\ new \in Seq(Entry) /\ Len(new) = n.ct - 1
      /\ \A j \in 1 .. (n.ct - 1) : new[j] = IF j <= i THEN n.ent[j] ELSE n.ent[j + 1]
  <2>1. /\ new \in Seq(Entry) /\ Len(new) = i + (n.ct - i - 1)
        /\ \A j \in 1 .. i + (n.ct - i - 1) : new[j] = IF j <= i THEN a[j] ELSE b[j - i]
    <3>1. /\ new \in Seq(Entry) /\ Len(new) = Len(a) + Len(b)
          /\ \A j \in 1 .. Len(a) + Len(b) : new[j] = IF j <= Len(a) THEN a[j] ELSE b[j - Len(a)]
      BY <1>3, <1>4, <1>5, ConcatProperties
    <3>2. QED
      BY <1>3, <1>4, <3>1
  <2>2. ASSUME NEW j \in 1 .. (n.ct - 1)
        PROVE  new[j] = IF j <= i THEN n.ent[j] ELSE n.ent[j + 1]
    <3>1. CASE j <= i
      <4>1. j \in 1 .. i /\ j \in 1 .. i + (n.ct - i - 1) /\ j \in 1 .. n.ct
        BY <1>1, <3>1
      <4>2. QED
        BY <1>1, <1>3, <2>1, <3>1, <4>1
    <3>3. CASE j > i
      <4>1. j - i \in 1 .. (n.ct - i - 1) /\ i + 1 + (j - i) = j + 1 /\ j + 1 \in 1 .. n.ct
        BY <1>1, <3>3
      <4>2. b[j - i] = s[j + 1]
        BY <1>4, <4>1
      <4>3. QED
        BY <1>1, <2>1, <3>3, <4>1, <4>2
    <3>4. QED
      BY <1>1, <3>1, <3>3
  <2>3. QED
    BY <1>1, <2>1, <2>2
<1>9. p = [n EXCEPT !.ct = n.ct - 1, !.ent = Overwrite(n.ent, new)]
  BY DEF TakeOut, new, s
<1>10. /\ Overwrite(n.ent, new) \in Seq(Entry) /\ Len(new) <= Len(Overwrite(n.ent, new))
       /\ \A j \in 1 .. Len(new) : Overwrite(n.ent, new)[j] = new[j]
  BY <1>8, NodeParts, OverwriteIs
<1>11. p \in NodeType /\ p.ct = n.ct - 1 /\ p.ent = Overwrite(n.ent, new)
       /\ p.leaf = n.leaf /\ p.lt = n.lt /\ p.prev = n.prev /\ p.next = n.next
  <2>1. n.ct - 1 \in Nat
    BY <1>1
  <2>2. QED
    BY <2>1, <1>9, <1>10 DEF IsNode, NodeType
<1> HIDE DEF p
<1>12. IsNode(p) /\ \A j \in 1 .. (n.ct - 1) : p.ent[j] = IF j <= i THEN n.ent[j] ELSE n.ent[j + 1]
  BY <1>8, <1>10, <1>11 DEF IsNode
<1>13. QED
  BY <1>11, <1>12 DEF p

(***************************************************************************)
(* The binary search.                                                      *)
(***************************************************************************)
Probes(n) == (0 .. n.ct) \X (-1 .. (n.ct - 1))
ProbeBody(f, n, key, w) ==
  LET m == (w[1] + w[2]) \div 2
      k == n.ent[m + 1].key
  IN IF key = k THEN [cc |-> 0, at |-> m]
     ELSE IF key < k THEN IF w[1] < m THEN f[<<w[1], m - 1>>] ELSE [cc |-> -1, at |-> m]
     ELSE IF m < w[2] THEN f[<<m + 1, w[2]>>] ELSE [cc |-> 1, at |-> m]
Probed(f, n, key) == f = [w \in Probes(n) |-> ProbeBody(f, n, key, w)]

\* The search as the choice of a table of its probes.
LEMMA SearchIs ==
  ASSUME NEW n, NEW key
  PROVE  search(n, key) = IF n.ct = 0 THEN [cc |-> -1, at |-> 0]
                          ELSE (CHOOSE f : Probed(f, n, key))[<<0, n.ct - 1>>]
  BY DEF search, Probed, Probes, ProbeBody

\* What a probe looks up is a shorter part of the node.
LEMMA ProbeShrinks ==
  ASSUME NEW n, n.ct \in Nat, NEW lb \in 0 .. n.ct, NEW ub \in -1 .. (n.ct - 1)
  PROVE  LET m == (lb + ub) \div 2 IN
         /\ m \in Int
         /\ lb < m => <<lb, m - 1>> \in Probes(n) /\ (m - 1) - lb < ub - lb /\ lb <= m - 1 /\ lb <= ub
         /\ m < ub => <<m + 1, ub>> \in Probes(n) /\ ub - (m + 1) < ub - lb /\ m + 1 <= ub /\ lb <= ub
         /\ lb <= ub => lb <= m /\ m <= ub
<1> DEFINE m == (lb + ub) \div 2
<1>1. m \in Int /\ 2 * m <= lb + ub /\ lb + ub <= 2 * m + 1
  OBVIOUS
<1> HIDE DEF m
<1>2. lb < m => m - 1 \in -1 .. (n.ct - 1) /\ (m - 1) - lb < ub - lb /\ lb <= m - 1 /\ lb <= ub
  BY <1>1
<1>3. m < ub => m + 1 \in 0 .. n.ct /\ ub - (m + 1) < ub - lb /\ m + 1 <= ub /\ lb <= ub
  BY <1>1
<1>4. lb <= ub => lb <= m /\ m <= ub
  BY <1>1
<1>5. QED
  BY <1>1, <1>2, <1>3, <1>4 DEF m, Probes

\* There is such a table.
LEMMA ProbedExists ==
  ASSUME NEW n, IsNode(n), NEW key
  PROVE  Probed(CHOOSE f : Probed(f, n, key), n, key)
<1> DEFINE P(g) == { w \in Probes(n) : w[2] - w[1] < g }
           tables(c, g) == \A w \in P(g) : c[w] = ProbeBody(c, n, key, w)
           D == { g \in 0 .. n.ct : \E c : tables(c, g) }
<1>0. n.ct \in Nat
  BY NodeParts
<1>1. \A w \in Probes(n) : w[1] \in 0 .. n.ct /\ w[2] \in -1 .. (n.ct - 1) /\ w = <<w[1], w[2]>>
  BY DEF Probes

\* A table for all parts shorter than g gives one for those of length g.
<1>2. ASSUME NEW c, NEW g \in Nat, tables(c, g)
      PROVE  LET b == [w \in Probes(n) |-> IF w[2] - w[1] < g THEN c[w] ELSE ProbeBody(c, n, key, w)] IN
             \A w \in Probes(n) : w[2] - w[1] <= g => b[w] = ProbeBody(b, n, key, w)
  <2> DEFINE b == [w \in Probes(n) |-> IF w[2] - w[1] < g THEN c[w] ELSE ProbeBody(c, n, key, w)]
  <2>1. \A w \in Probes(n) : w[2] - w[1] < g => b[w] = c[w]
    OBVIOUS
  <2>2. \A w \in Probes(n) : b[w] = ProbeBody(c, n, key, w)
    BY <1>2
  <2> HIDE DEF b
  <2>3. ASSUME NEW w \in Probes(n), w[2] - w[1] <= g
        PROVE  ProbeBody(b, n, key, w) = ProbeBody(c, n, key, w)
    <3> DEFINE m == (w[1] + w[2]) \div 2
    <3>1. w[1] \in 0 .. n.ct /\ w[2] \in -1 .. (n.ct - 1)
      BY <1>1
    <3>2. /\ m \in Int
          /\ w[1] < m => <<w[1], m - 1>> \in Probes(n) /\ (m - 1) - w[1] < w[2] - w[1]
          /\ m < w[2] => <<m + 1, w[2]>> \in Probes(n) /\ w[2] - (m + 1) < w[2] - w[1]
      BY <1>0, <3>1, ProbeShrinks
    <3> HIDE DEF m
    <3>3. w[1] < m => b[<<w[1], m - 1>>] = c[<<w[1], m - 1>>]
      <4>1. w[1] < m => <<w[1], m - 1>>[2] - <<w[1], m - 1>>[1] < g
        BY <2>3, <3>1, <3>2
      <4>2. QED
        BY <2>1, <3>2, <4>1
    <3>4. m < w[2] => b[<<m + 1, w[2]>>] = c[<<m + 1, w[2]>>]
      <4>1. m < w[2] => <<m + 1, w[2]>>[2] - <<m + 1, w[2]>>[1] < g
        BY <2>3, <3>1, <3>2
      <4>2. QED
        BY <2>1, <3>2, <4>1
    <3>5. QED
      BY <3>3, <3>4 DEF ProbeBody, m
  <2>4. QED
    BY <2>2, <2>3 DEF b
<1>3. 0 \in D
  <2> DEFINE c == [w \in P(0) |-> [cc |-> IF n.ent[((w[1] + w[2]) \div 2) + 1].key = key THEN 0
                                        ELSE IF key < n.ent[((w[1] + w[2]) \div 2) + 1].key THEN -1 ELSE 1,
                                   at |-> (w[1] + w[2]) \div 2]]
  <2>1. ASSUME NEW w \in P(0) PROVE c[w] = ProbeBody(c, n, key, w)
    <3> DEFINE m == (w[1] + w[2]) \div 2
    <3>1. w[1] \in 0 .. n.ct /\ w[2] \in -1 .. (n.ct - 1) /\ w[2] < w[1]
      BY <1>0, <1>1
    <3>2. ~(w[1] < m) /\ ~(m < w[2])
      BY <1>0, <3>1, ProbeShrinks
    <3>3. c[w] = [cc |-> IF n.ent[m + 1].key = key THEN 0 ELSE IF key < n.ent[m + 1].key THEN -1 ELSE 1, at |-> m]
      OBVIOUS
    <3> HIDE DEF c, m
    <3>4. QED
      BY <3>2, <3>3 DEF ProbeBody, m
  <2> HIDE DEF c
  <2>2. QED
    BY <1>0, <2>1
<1>4. PICK g \in D : \A e \in D : e <= g
  <2> HIDE DEF tables
  <2>1. D \in SUBSET Nat /\ D # {} /\ \A e \in D : e <= n.ct
    BY <1>0, <1>3
  <2> HIDE DEF D
  <2>2. QED
    BY <1>0, <2>1, GreatestNatural
<1>5. g \in 0 .. n.ct /\ \E c : tables(c, g)
  BY <1>4
<1>6. PICK c : tables(c, g)
  BY <1>5
<1> DEFINE b == [w \in Probes(n) |-> IF w[2] - w[1] < g THEN c[w] ELSE ProbeBody(c, n, key, w)]
<1>7. \A w \in Probes(n) : w[2] - w[1] <= g => b[w] = ProbeBody(b, n, key, w)
  BY <1>0, <1>2, <1>5, <1>6
<1>8. g = n.ct
  <2> HIDE DEF b
  <2> SUFFICES ASSUME g # n.ct PROVE FALSE
    OBVIOUS
  <2>1. g + 1 \in 0 .. n.ct /\ g + 1 > g
    BY <1>0, <1>5
  <2>2. tables(b, g + 1)
    BY <1>0, <1>1, <1>5, <1>7
  <2>3. g + 1 \in D
    <3> HIDE DEF tables
    <3>1. QED
      BY <2>1, <2>2
  <2>4. QED
    BY <1>4, <2>1, <2>3
<1>9. \A w \in Probes(n) : w[2] - w[1] <= g
  BY <1>0, <1>1, <1>8
<1>10. b = [w \in Probes(n) |-> b[w]]
  OBVIOUS
<1> HIDE DEF b
<1>11. b = [w \in Probes(n) |-> ProbeBody(b, n, key, w)]
  BY <1>7, <1>9, <1>10
<1>12. Probed(b, n, key)
  BY <1>11 DEF Probed
<1>13. QED
  BY <1>12

\* Where the search of a part of a node ends.
FoundAt(n, key, r, lb, ub) ==
  /\ r.at \in lb .. ub /\ r.cc \in {-1, 0, 1}
  /\ r.cc = 0 => n.ent[r.at + 1].key = key
  /\ r.cc = 1 => n.ent[r.at + 1].key < key /\ (r.at + 1 < n.ct => key < n.ent[r.at + 2].key)
  /\ r.cc = -1 => key < n.ent[r.at + 1].key /\ (r.at > 0 => n.ent[r.at].key < key)

\* A probe ends where the key is, or next to where it would be.
LEMMA ProbeFinds ==
  ASSUME NEW n, IsNode(n), Sorted(n), NEW key \in Int, NEW f, Probed(f, n, key)
  PROVE  \A w \in Probes(n) :
           (/\ w[1] <= w[2]
            /\ \A i \in 1 .. w[1] : n.ent[i].key < key
            /\ \A i \in (w[2] + 2) .. n.ct : key < n.ent[i].key)
           => FoundAt(n, key, f[w], w[1], w[2])
<1> DEFINE Around(w) == /\ w[1] <= w[2]
                        /\ \A i \in 1 .. w[1] : n.ent[i].key < key
                        /\ \A i \in (w[2] + 2) .. n.ct : key < n.ent[i].key
           Ends(w) == FoundAt(n, key, f[w], w[1], w[2])
           D == { d \in 0 .. n.ct : \E w \in Probes(n) : Around(w) /\ ~Ends(w) /\ d = w[2] - w[1] }
<1>0. n.ct \in Nat /\ \A i \in 1 .. n.ct : n.ent[i].key \in Int
  BY NodeParts
<1>1. \A w \in Probes(n) : w[1] \in 0 .. n.ct /\ w[2] \in -1 .. (n.ct - 1) /\ w = <<w[1], w[2]>>
  BY DEF Probes
<1> SUFFICES ASSUME NEW u \in Probes(n), Around(u), ~Ends(u) PROVE FALSE
  OBVIOUS
<1> HIDE DEF Around, Ends
<1>2. D \in SUBSET Nat /\ D # {}
  <2>1. u[2] - u[1] \in 0 .. n.ct
    BY <1>0, <1>1 DEF Around
  <2>2. QED
    BY <1>0, <2>1
<1>3. PICK d \in D : \A e \in D : d <= e
  <2> HIDE DEF D
  <2>1. QED
    BY <1>2, LeastNatural
<1>4. PICK w \in Probes(n) : Around(w) /\ ~Ends(w) /\ d = w[2] - w[1]
  BY <1>3
<1>5. \A v \in Probes(n) : v[2] - v[1] < w[2] - w[1] /\ Around(v) => Ends(v)
  <2> SUFFICES ASSUME NEW v \in Probes(n), v[2] - v[1] < w[2] - w[1], Around(v), ~Ends(v) PROVE FALSE
    OBVIOUS
  <2>1. v[2] - v[1] \in 0 .. n.ct
    BY <1>0, <1>1 DEF Around
  <2>2. v[2] - v[1] \in D
    BY <2>1
  <2> HIDE DEF D
  <2>3. QED
    BY <1>0, <1>1, <1>3, <1>4, <2>2
<1> DEFINE lb == w[1]
           ub == w[2]
           m == (lb + ub) \div 2
           k == n.ent[m + 1].key
<1>6. lb \in 0 .. n.ct /\ ub \in -1 .. (n.ct - 1) /\ lb <= ub /\ w = <<lb, ub>>
  BY <1>1, <1>4 DEF Around
<1>7. /\ m \in Int /\ lb <= m /\ m <= ub
      /\ lb < m => <<lb, m - 1>> \in Probes(n) /\ (m - 1) - lb < ub - lb /\ lb <= m - 1
      /\ m < ub => <<m + 1, ub>> \in Probes(n) /\ ub - (m + 1) < ub - lb /\ m + 1 <= ub
  BY <1>0, <1>6, ProbeShrinks
<1>8. f[w] = IF key = k THEN [cc |-> 0, at |-> m]
             ELSE IF key < k THEN IF lb < m THEN f[<<lb, m - 1>>] ELSE [cc |-> -1, at |-> m]
             ELSE IF m < ub THEN f[<<m + 1, ub>>] ELSE [cc |-> 1, at |-> m]
  <2>1. f[w] = ProbeBody(f, n, key, w)
    BY DEF Probed
  <2>2. QED
    BY <2>1 DEF ProbeBody
<1>9. /\ \A i \in 1 .. lb : n.ent[i].key < key
      /\ \A i \in (ub + 2) .. n.ct : key < n.ent[i].key
  BY <1>4 DEF Around
<1> HIDE DEF m
<1>10. m + 1 \in 1 .. n.ct /\ k \in Int
  BY <1>0, <1>6, <1>7
<1>11. \A i, j \in 1 .. n.ct : i < j => n.ent[i].key < n.ent[j].key
  BY DEF Sorted
<1> HIDE DEF k, lb, ub, D
<1>12. CASE key = k
  <2>1. f[w] = [cc |-> 0, at |-> m]
    BY <1>8, <1>12
  <2>2. FoundAt(n, key, f[w], lb, ub)
    BY <1>6, <1>7, <1>12, <2>1 DEF FoundAt, k
  <2>3. QED
    BY <1>4, <2>2 DEF Ends, lb, ub
<1>13. CASE key < k /\ lb < m
  <2> DEFINE v == <<lb, m - 1>>
  <2>1. v \in Probes(n) /\ v[1] = lb /\ v[2] = m - 1 /\ v[2] - v[1] < w[2] - w[1]
    BY <1>7, <1>13 DEF lb, ub
  <2>2. f[w] = f[v]
    BY <1>8, <1>10, <1>13
  <2> HIDE DEF v
  <2>3. \A i \in (m + 1) .. n.ct : key < n.ent[i].key
    <3>1. \A i \in (m + 1) .. n.ct : i \in 1 .. n.ct /\ (i = m + 1 \/ m + 1 < i)
      BY <1>0, <1>10
    <3>2. \A i \in (m + 1) .. n.ct : i = m + 1 \/ n.ent[m + 1].key < n.ent[i].key
      BY <1>10, <1>11, <3>1
    <3>3. QED
      BY <1>0, <1>10, <1>13, <3>1, <3>2 DEF k
  <2>4. Around(v)
    BY <1>7, <1>9, <1>13, <2>1, <2>3 DEF Around
  <2>5. FoundAt(n, key, f[w], lb, m - 1)
    BY <1>5, <2>1, <2>2, <2>4 DEF Ends
  <2>6. FoundAt(n, key, f[w], lb, ub)
    BY <1>6, <1>7, <2>5 DEF FoundAt
  <2>7. QED
    BY <1>4, <2>6 DEF Ends, lb, ub
<1>14. CASE key < k /\ ~(lb < m)
  <2>1. f[w] = [cc |-> -1, at |-> m] /\ m = lb
    BY <1>6, <1>7, <1>8, <1>10, <1>14
  <2>2. m > 0 => n.ent[m].key < key
    BY <1>6, <1>9, <2>1
  <2>3. FoundAt(n, key, f[w], lb, ub)
    BY <1>6, <1>7, <1>14, <2>1, <2>2 DEF FoundAt, k
  <2>4. QED
    BY <1>4, <2>3 DEF Ends, lb, ub
<1>15. CASE key > k /\ m < ub
  <2> DEFINE v == <<m + 1, ub>>
  <2>1. v \in Probes(n) /\ v[1] = m + 1 /\ v[2] = ub /\ v[2] - v[1] < w[2] - w[1]
    BY <1>7, <1>15 DEF lb, ub
  <2>2. f[w] = f[v]
    BY <1>8, <1>10, <1>15
  <2> HIDE DEF v
  <2>3. \A i \in 1 .. (m + 1) : n.ent[i].key < key
    <3>1. \A i \in 1 .. (m + 1) : i \in 1 .. n.ct /\ (i = m + 1 \/ i < m + 1)
      BY <1>0, <1>10
    <3>2. \A i \in 1 .. (m + 1) : i = m + 1 \/ n.ent[i].key < n.ent[m + 1].key
      BY <1>10, <1>11, <3>1
    <3>3. QED
      BY <1>0, <1>10, <1>15, <3>1, <3>2 DEF k
  <2>4. Around(v)
    BY <1>7, <1>9, <1>15, <2>1, <2>3 DEF Around
  <2>5. FoundAt(n, key, f[w], m + 1, ub)
    BY <1>5, <2>1, <2>2, <2>4 DEF Ends
  <2>6. FoundAt(n, key, f[w], lb, ub)
    BY <1>6, <1>7, <2>5 DEF FoundAt
  <2>7. QED
    BY <1>4, <2>6 DEF Ends, lb, ub
<1>16. CASE key > k /\ ~(m < ub)
  <2>1. f[w] = [cc |-> 1, at |-> m] /\ m = ub
    BY <1>6, <1>7, <1>8, <1>10, <1>16
  <2>2. m + 1 < n.ct => key < n.ent[m + 2].key
    BY <1>0, <1>6, <1>9, <2>1
  <2>3. FoundAt(n, key, f[w], lb, ub)
    BY <1>6, <1>7, <1>16, <2>1, <2>2 DEF FoundAt, k
  <2>4. QED
    BY <1>4, <2>3 DEF Ends, lb, ub
<1>17. QED
  BY <1>10, <1>12, <1>13, <1>14, <1>15, <1>16

\* A search of a node whose keys are in order.
LEMMA SearchSorted ==
  ASSUME NEW n, IsNode(n), Sorted(n), NEW key \in Int
  PROVE  LET r == search(n, key) IN
         /\ n.ct = 0 => r = [cc |-> -1, at |-> 0]
         /\ n.ct > 0 => FoundAt(n, key, r, 0, n.ct - 1)
<1> DEFINE f == CHOOSE f : Probed(f, n, key)
           r == search(n, key)
<1>0. n.ct \in Nat
  BY NodeParts
<1>1. Probed(f, n, key)
  BY ProbedExists
<1>2. r = IF n.ct = 0 THEN [cc |-> -1, at |-> 0] ELSE f[<<0, n.ct - 1>>]
  BY SearchIs
<1> HIDE DEF f, r
<1>3. ASSUME n.ct > 0 PROVE FoundAt(n, key, r, 0, n.ct - 1)
  <2> DEFINE w == <<0, n.ct - 1>>
  <2>1. w \in Probes(n) /\ w[1] = 0 /\ w[2] = n.ct - 1
    BY <1>0, <1>3 DEF Probes
  <2>2. r = f[w]
    BY <1>0, <1>2, <1>3
  <2> HIDE DEF w
  <2>3. /\ w[1] <= w[2]
        /\ \A i \in 1 .. w[1] : n.ent[i].key < key
        /\ \A i \in (w[2] + 2) .. n.ct : key < n.ent[i].key
    BY <1>0, <1>3, <2>1
  <2>4. FoundAt(n, key, f[w], w[1], w[2])
    BY <1>1, <2>1, <2>3, ProbeFinds
  <2>5. QED
    BY <2>1, <2>2, <2>4
<1>4. QED
  BY <1>2, <1>3 DEF r

\* In an inner node it goes to a child.
LEMMA SearchRoutes ==
  ASSUME NEW n, IsNode(n), Sorted(n), n.ct > 0, NEW key \in Int
  PROVE  LET r == search(n, key)
             i == IF r.cc < 0 THEN r.at ELSE r.at + 1
         IN /\ r.at \in 0 .. (n.ct - 1) /\ r.cc \in {-1, 0, 1}
            /\ i \in 0 .. n.ct /\ Routes(n, i, key) /\ ChildFor(n, r) = Child(n, i)
<1> DEFINE r == search(n, key)
           i == IF r.cc < 0 THEN r.at ELSE r.at + 1
<1>0. n.ct \in Nat /\ \A j \in 1 .. n.ct : n.ent[j].key \in Int
  BY NodeParts
<1>1. FoundAt(n, key, r, 0, n.ct - 1)
  BY SearchSorted
<1> HIDE DEF r
<1>2. i \in 0 .. n.ct /\ r.at \in 0 .. (n.ct - 1) /\ r.cc \in {-1, 0, 1}
  BY <1>0, <1>1 DEF FoundAt
<1>3. Routes(n, i, key)
  <2>1. CASE r.cc = -1
    <3>1. i = r.at /\ key < n.ent[r.at + 1].key /\ (r.at > 0 => n.ent[r.at].key < key)
      BY <1>1, <2>1 DEF FoundAt
    <3>2. r.at > 0 => r.at \in 1 .. n.ct
      BY <1>0, <1>2
    <3>3. QED
      BY <1>0, <1>2, <3>1, <3>2 DEF Routes
  <2>2. CASE r.cc = 0
    <3>1. i = r.at + 1 /\ n.ent[r.at + 1].key = key /\ r.at + 1 \in 1 .. n.ct
      BY <1>0, <1>1, <1>2, <2>2 DEF FoundAt
    <3>2. i < n.ct => n.ent[i].key < n.ent[i + 1].key
      BY <1>0, <3>1 DEF Sorted
    <3>3. QED
      BY <1>0, <3>1, <3>2 DEF Routes
  <2>3. CASE r.cc = 1
    <3>1. i = r.at + 1 /\ n.ent[r.at + 1].key < key /\ (r.at + 1 < n.ct => key < n.ent[r.at + 2].key)
          /\ r.at + 1 \in 1 .. n.ct
      BY <1>0, <1>1, <1>2, <2>3 DEF FoundAt
    <3>2. r.at + 2 = i + 1
      BY <1>2, <3>1
    <3>3. QED
      BY <1>0, <3>1, <3>2 DEF Routes
  <2>4. QED
    BY <1>2, <2>1, <2>2, <2>3
<1>4. QED
  BY <1>2, <1>3 DEF ChildFor, r

\* A key is in a node if and only if the search finds it.
LEMMA SearchFinds ==
  ASSUME NEW n, IsNode(n), Sorted(n), NEW key \in Int
  PROVE  LET r == search(n, key) IN
         /\ (r.cc = 0) <=> (key \in KeysOf(n))
         /\ r.cc = 0 => r.at \in 0 .. (n.ct - 1) /\ n.ent[r.at + 1].key = key
<1> DEFINE r == search(n, key)
<1>0. n.ct \in Nat /\ \A j \in 1 .. n.ct : n.ent[j].key \in Int
  BY NodeParts
<1>1. CASE n.ct = 0
  <2>1. r.cc = -1
    BY <1>1, SearchSorted
  <2>2. KeysOf(n) = {}
    BY <1>1 DEF KeysOf
  <2>3. QED
    BY <2>1, <2>2
<1>2. CASE n.ct > 0
  <2>1. FoundAt(n, key, r, 0, n.ct - 1)
    BY <1>2, SearchSorted
  <2>2. /\ r.at \in 0 .. (n.ct - 1) /\ r.cc \in {-1, 0, 1}
        /\ LET i == IF r.cc < 0 THEN r.at ELSE r.at + 1 IN i \in 0 .. n.ct /\ Routes(n, i, key)
    BY <1>2, SearchRoutes
  <2> HIDE DEF r
  <2>3. r.cc = 0 => n.ent[r.at + 1].key = key /\ r.at + 1 \in 1 .. n.ct
    BY <1>0, <2>1, <2>2 DEF FoundAt
  <2>4. r.cc = 0 => key \in KeysOf(n)
    BY <2>3 DEF KeysOf
  <2>5. ASSUME r.cc # 0, NEW j \in 1 .. n.ct, n.ent[j].key = key PROVE FALSE
    <3>1. CASE r.cc = -1
      <4>1. key < n.ent[r.at + 1].key /\ (r.at > 0 => n.ent[r.at].key < key)
        BY <2>1, <3>1 DEF FoundAt
      <4>2. r.at + 1 \in 1 .. n.ct /\ (r.at > 0 => r.at \in 1 .. n.ct)
        BY <1>0, <2>2
      <4>3. j < r.at + 1
        BY <1>0, <2>2, <2>5, <4>1, <4>2 DEF Sorted
      <4>4. j = r.at \/ j < r.at
        BY <1>0, <2>2, <4>3
      <4>5. QED
        BY <1>0, <2>2, <2>5, <4>1, <4>2, <4>4 DEF Sorted
    <3>2. CASE r.cc = 1
      <4>1. n.ent[r.at + 1].key < key /\ (r.at + 1 < n.ct => key < n.ent[r.at + 2].key)
        BY <2>1, <3>2 DEF FoundAt
      <4>2. r.at + 1 \in 1 .. n.ct /\ (r.at + 1 < n.ct => r.at + 2 \in 1 .. n.ct)
        BY <1>0, <2>2
      <4>3. j > r.at + 1
        BY <1>0, <2>2, <2>5, <4>1, <4>2 DEF Sorted
      <4>4. r.at + 1 < n.ct /\ (j = r.at + 2 \/ r.at + 2 < j)
        BY <1>0, <2>2, <4>3
      <4>5. QED
        BY <1>0, <2>2, <2>5, <4>1, <4>2, <4>4 DEF Sorted
    <3>3. QED
      BY <2>2, <2>5, <3>1, <3>2
  <2>6. QED
    BY <2>2, <2>3, <2>4, <2>5 DEF KeysOf, r
<1>3. QED
  BY <1>0, <1>1, <1>2

\* MODE_LLEQ: where it looks.
LEMMA SearchLLEQ ==
  ASSUME NEW n, IsNode(n), NEW key \in Int
  PROVE  LET r == search_LLEQ(n, key) IN
         /\ r.cc \in {-1, 0, 1} /\ r.at \in Nat
         /\ n.ct > 0 => r.at \in 0 .. (n.ct - 1)
<1> DEFINE upto == { i \in 0 .. (n.ct - 1) : n.ent[i + 1].key <= key }
<1>0. n.ct \in Nat
  BY NodeParts
<1>1. CASE upto = {}
  <2>1. search_LLEQ(n, key) = [cc |-> -1, at |-> 0]
    BY <1>1 DEF search_LLEQ
  <2>2. QED
    BY <1>0, <2>1
<1>2. CASE upto # {}
  <2>1. upto \in SUBSET Nat /\ \A i \in upto : i <= n.ct
    BY <1>0
  <2>2. Max(upto) \in upto
    <3> HIDE DEF upto
    <3>1. QED
      BY <1>0, <1>2, <2>1, MaxIn
  <2>3. Max(upto) \in 0 .. (n.ct - 1)
    BY <2>2
  <2>4. search_LLEQ(n, key) = [cc |-> IF n.ent[Max(upto) + 1].key = key THEN 0 ELSE 1, at |-> Max(upto)]
    BY <1>2 DEF search_LLEQ
  <2> HIDE DEF upto
  <2>5. QED
    BY <1>0, <2>3, <2>4
<1>3. QED
  BY <1>1, <1>2

(***************************************************************************)
(* Definitions by recursion from 0 up: there is a function.                *)
(***************************************************************************)
LEMMA RecursionExists ==
  ASSUME NEW S, NEW s0 \in S, NEW F \in [Nat -> [S -> S]], NEW n \in Nat
  PROVE  \E f \in [0 .. n -> S] : f[0] = s0 /\ \A i \in 1 .. n : f[i] = F[i][f[i - 1]]
<1> DEFINE steps(f, m) == f[0] = s0 /\ \A i \in 1 .. m : f[i] = F[i][f[i - 1]]
           D == { m \in 0 .. n : \E f \in [0 .. m -> S] : steps(f, m) }
<1>1. 0 \in D
  <2> DEFINE f == [i \in 0 .. 0 |-> s0]
  <2>1. f \in [0 .. 0 -> S] /\ steps(f, 0)
    OBVIOUS
  <2> HIDE DEF f, steps
  <2>2. QED
    BY <2>1
<1>2. PICK m \in D : \A e \in D : e <= m
  <2> DEFINE R(m) == \E f \in [0 .. m -> S] : steps(f, m)
  <2>0. D = { m \in 0 .. n : R(m) }
    OBVIOUS
  <2> HIDE DEF R, D
  <2>1. D \in SUBSET Nat /\ D # {} /\ \A e \in D : e <= n
    BY <1>1, <2>0
  <2>2. QED
    BY <2>1, GreatestNatural
<1>3. m \in 0 .. n /\ \E f \in [0 .. m -> S] : steps(f, m)
  BY <1>2
<1>4. PICK f \in [0 .. m -> S] : steps(f, m)
  BY <1>3
<1>5. m = n
  <2> SUFFICES ASSUME m # n PROVE FALSE
    OBVIOUS
  <2> DEFINE g == [i \in 0 .. (m + 1) |-> IF i = m + 1 THEN F[m + 1][f[m]] ELSE f[i]]
  <2>1. m + 1 \in 0 .. n /\ m + 1 \in Nat /\ f[m] \in S
    BY <1>3
  <2>2. F[m + 1][f[m]] \in S
    BY <2>1
  <2>3. g \in [0 .. (m + 1) -> S]
    BY <1>3, <2>2
  <2>4. g[0] = s0
    BY <1>3, <1>4
  <2>5. ASSUME NEW i \in 1 .. (m + 1) PROVE g[i] = F[i][g[i - 1]]
    <3>1. CASE i = m + 1
      BY <1>3, <3>1
    <3>2. CASE i \in 1 .. m
      <4>1. g[i] = f[i] /\ g[i - 1] = f[i - 1]
        BY <1>3, <3>2
      <4>2. f[i] = F[i][f[i - 1]]
        BY <1>4, <3>2
      <4> HIDE DEF g
      <4>3. QED
        BY <4>1, <4>2
    <3>3. QED
      BY <1>3, <3>1, <3>2
  <2> HIDE DEF g
  <2>6. steps(g, m + 1)
    BY <2>4, <2>5
  <2>7. m + 1 \in D
    <3> HIDE DEF steps
    <3>1. QED
      BY <2>1, <2>3, <2>6
  <2>8. QED
    BY <1>2, <1>3, <2>7
<1>6. QED
  BY <1>4, <1>5

(***************************************************************************)
(* What stays the same.                                                    *)
(***************************************************************************)
LEMMA SameNode ==
  ASSUME NEW n, NEW o, IsNode(n), IsNode(o), Same(n, o)
  PROVE  /\ n.leaf = o.leaf /\ n.ct = o.ct /\ KeysOf(n) = KeysOf(o) /\ (Sorted(n) <=> Sorted(o))
         /\ \A i \in 0 .. n.ct : Child(n, i) = Child(o, i)
         /\ \A i \in 1 .. n.ct : n.ent[i].key = o.ent[i].key
         /\ \A x : \A i \in 0 .. n.ct : Routes(n, i, x) <=> Routes(o, i, x)
<1>1. n.ct \in Nat /\ n.ct = o.ct /\ n.lt = o.lt /\ n.leaf = o.leaf
  BY NodeParts DEF Same
<1>2. \A i \in 1 .. n.ct : n.ent[i].key = o.ent[i].key /\ n.ent[i].ge = o.ent[i].ge
  BY DEF Same
<1>3. KeysOf(n) = KeysOf(o)
  BY <1>1, <1>2 DEF KeysOf
<1>4. Sorted(n) <=> Sorted(o)
  BY <1>1, <1>2 DEF Sorted
<1>5. \A i \in 0 .. n.ct : i = 0 \/ i \in 1 .. n.ct
  BY <1>1
<1>6. \A i \in 0 .. n.ct : Child(n, i) = Child(o, i)
  BY <1>1, <1>2, <1>5 DEF Child
<1>7. ASSUME NEW x, NEW i \in 0 .. n.ct PROVE Routes(n, i, x) <=> Routes(o, i, x)
  <2>1. i > 0 => n.ent[i].key = o.ent[i].key
    BY <1>1, <1>2
  <2>2. i < n.ct => n.ent[i + 1].key = o.ent[i + 1].key
    BY <1>1, <1>2
  <2>3. QED
    BY <1>1, <2>1, <2>2 DEF Routes
<1>8. QED
  BY <1>1, <1>2, <1>3, <1>4, <1>6, <1>7

\* Being the same but for offsets and links is an equivalence.
LEMMA SameTwice ==
  /\ \A n : Same(n, n)
  /\ \A n, o : Same(n, o) => Same(o, n)
  /\ \A n, o, p : Same(n, o) /\ Same(o, p) => Same(n, p)
  BY DEF Same

\* Keys each less than the next are in order.
LEMMA SortedChain ==
  ASSUME NEW n, IsNode(n), \A i \in 1 .. (n.ct - 1) : n.ent[i].key < n.ent[i + 1].key
  PROVE  Sorted(n)
<1>0. n.ct \in Nat /\ \A i \in 1 .. n.ct : n.ent[i].key \in Int
  BY NodeParts
<1> SUFFICES ASSUME NEW i \in 1 .. n.ct, NEW k \in 1 .. n.ct, i < k, ~(n.ent[i].key < n.ent[k].key) PROVE FALSE
  BY DEF Sorted
<1> DEFINE D == { j \in 1 .. n.ct : i < j /\ ~(n.ent[i].key < n.ent[j].key) }
<1>1. D \in SUBSET Nat /\ D # {}
  BY <1>0
<1>2. PICK j \in D : \A e \in D : j <= e
  <2> HIDE DEF D
  <2>1. QED
    BY <1>1, LeastNatural
<1>3. j \in 1 .. n.ct /\ i < j /\ ~(n.ent[i].key < n.ent[j].key)
  BY <1>2
<1>4. j - 1 \in 1 .. (n.ct - 1) /\ j - 1 \in 1 .. n.ct /\ j - 1 + 1 = j
  BY <1>0, <1>3
<1>5. n.ent[j - 1].key < n.ent[j].key
  BY <1>4
<1>6. j - 1 = i \/ j - 1 \in D
  <2>1. j - 1 \notin D
    <3> HIDE DEF D
    <3>1. QED
      BY <1>0, <1>2, <1>3
  <2>2. CASE i < j - 1
    <3>1. n.ent[i].key < n.ent[j - 1].key
      BY <1>4, <2>1, <2>2
    <3>2. QED
      BY <1>0, <1>3, <1>4, <1>5, <3>1
  <2>3. QED
    BY <1>0, <1>3, <2>2
<1>7. j - 1 \notin D
  <2> HIDE DEF D
  <2>1. QED
    BY <1>0, <1>2, <1>3
<1>8. QED
  BY <1>0, <1>3, <1>4, <1>5, <1>6, <1>7

(***************************************************************************)
(* Trees.  N are the nodes; t has the addresses of the tree, for each one  *)
(* the level above the leaves, the keys below it, and its parent with the  *)
(* position there.                                                         *)
(***************************************************************************)
LeafIn(n, t, a) == t.L[a] = 0 /\ Sorted(n) /\ t.K[a] = KeysOf(n)
ChildIn(n, t, a, i) ==
  LET c == Child(n, i) IN
  /\ c \in t.T /\ c # Root /\ t.up[c] = <<a, i>> /\ t.L[a] = t.L[c] + 1
  /\ t.K[c] # {} /\ \A x \in t.K[c] : Routes(n, i, x)
InnerIn(n, t, a) ==
  /\ \A i \in 0 .. n.ct : ChildIn(n, t, a, i)
  /\ t.K[a] = UNION { t.K[Child(n, i)] : i \in 0 .. n.ct }
InTree(n, t, a) == IF n.leaf THEN LeafIn(n, t, a) ELSE InnerIn(n, t, a)

IsTree(N, t) ==
  /\ t.T \subseteq DOMAIN N /\ Root \in t.T
  /\ t.L \in [t.T -> Nat] /\ t.K \in [t.T -> SUBSET Int]
  /\ \A a \in t.T : IsNode(N[a]) /\ InTree(N[a], t, a)

\* A child in a tree: it is below its parent, and so are its keys.
LEMMA TreeChild ==
  ASSUME NEW N, NEW t, IsTree(N, t), NEW a \in t.T, ~N[a].leaf, NEW i \in 0 .. N[a].ct
  PROVE  /\ ChildIn(N[a], t, a, i) /\ t.K[Child(N[a], i)] \subseteq t.K[a]
         /\ t.K[Child(N[a], i)] \subseteq Int /\ t.K[a] \subseteq Int
<1>1. InnerIn(N[a], t, a)
  BY DEF IsTree, InTree
<1>2. ChildIn(N[a], t, a, i) /\ t.K[Child(N[a], i)] \subseteq t.K[a]
  BY <1>1 DEF InnerIn
<1>3. QED
  BY <1>2 DEF ChildIn, IsTree

\* The keys of every node are in order.
LEMMA TreeSorted ==
  ASSUME NEW N, NEW t, IsTree(N, t), NEW a \in t.T
  PROVE  Sorted(N[a])
<1>1. IsNode(N[a]) /\ InTree(N[a], t, a)
  BY DEF IsTree
<1>2. CASE N[a].leaf
  BY <1>1, <1>2 DEF InTree, LeafIn
<1>3. CASE ~N[a].leaf
  <2>0. N[a].ct \in Nat /\ \A i \in 1 .. N[a].ct : N[a].ent[i].key \in Int
    BY <1>1, NodeParts
  <2>1. ASSUME NEW i \in 1 .. (N[a].ct - 1) PROVE N[a].ent[i].key < N[a].ent[i + 1].key
    <3>1. i \in 0 .. N[a].ct /\ i + 1 \in 1 .. N[a].ct /\ i \in 1 .. N[a].ct /\ i > 0 /\ i < N[a].ct
      BY <2>0
    <3>2. ChildIn(N[a], t, a, i) /\ t.K[Child(N[a], i)] \subseteq Int
      BY <1>3, <3>1, TreeChild
    <3>3. PICK x \in t.K[Child(N[a], i)] : Routes(N[a], i, x)
      BY <3>2 DEF ChildIn
    <3>4. N[a].ent[i].key <= x /\ x < N[a].ent[i + 1].key
      BY <3>1, <3>3 DEF Routes
    <3>5. QED
      BY <2>0, <3>1, <3>2, <3>3, <3>4
  <2>2. QED
    BY <1>1, <2>1, SortedChain
<1>4. QED
  BY <1>2, <1>3

\* Two children do not have a key in common.
LEMMA RoutesOnce ==
  ASSUME NEW n, IsNode(n), Sorted(n), NEW x \in Int, NEW i \in 0 .. n.ct, NEW j \in 0 .. n.ct,
         Routes(n, i, x), Routes(n, j, x)
  PROVE  i = j
<1>0. n.ct \in Nat /\ \A k \in 1 .. n.ct : n.ent[k].key \in Int
  BY NodeParts
<1>1. ASSUME NEW k \in 0 .. n.ct, NEW l \in 0 .. n.ct, Routes(n, k, x), Routes(n, l, x), k < l PROVE FALSE
  <2>1. k + 1 \in 1 .. n.ct /\ l \in 1 .. n.ct /\ (k + 1 = l \/ k + 1 < l) /\ k < n.ct /\ l > 0
    BY <1>0, <1>1
  <2>2. x < n.ent[k + 1].key /\ n.ent[l].key <= x
    BY <1>1, <2>1 DEF Routes
  <2>3. n.ent[k + 1].key <= n.ent[l].key
    BY <1>0, <2>1 DEF Sorted
  <2>4. QED
    BY <1>0, <2>1, <2>2, <2>3
<1>2. QED
  BY <1>0, <1>1

\* A node that is the same but for offsets and links takes its place.
LEMMA SameInTree ==
  ASSUME NEW n, NEW o, IsNode(n), IsNode(o), Same(n, o), NEW t, NEW a, InTree(o, t, a)
  PROVE  InTree(n, t, a)
<1>1. /\ n.leaf = o.leaf /\ n.ct = o.ct /\ KeysOf(n) = KeysOf(o) /\ (Sorted(n) <=> Sorted(o))
      /\ \A i \in 0 .. n.ct : Child(n, i) = Child(o, i)
      /\ \A x : \A i \in 0 .. n.ct : Routes(n, i, x) <=> Routes(o, i, x)
  BY SameNode
<1>2. CASE n.leaf
  BY <1>1, <1>2 DEF InTree, LeafIn
<1>3. CASE ~n.leaf
  <2>1. InnerIn(o, t, a)
    BY <1>1, <1>3 DEF InTree
  <2>2. \A i \in 0 .. n.ct : ChildIn(n, t, a, i)
    BY <1>1, <2>1 DEF InnerIn, ChildIn
  <2>3. { t.K[Child(n, i)] : i \in 0 .. n.ct } = { t.K[Child(o, i)] : i \in 0 .. o.ct }
    BY <1>1
  <2>4. QED
    BY <1>3, <2>1, <2>2, <2>3 DEF InTree, InnerIn
<1>4. QED
  BY <1>2, <1>3

\* A tree of nodes that are the same is the same tree.
LEMMA TreeSame ==
  ASSUME NEW N, NEW M, NEW t, IsTree(N, t), t.T \subseteq DOMAIN M,
         \A a \in t.T : IsNode(M[a]) /\ Same(M[a], N[a])
  PROVE  IsTree(M, t)
<1>1. \A a \in t.T : InTree(M[a], t, a)
  BY SameInTree DEF IsTree
<1>2. QED
  BY <1>1 DEF IsTree

\* An inner key may be moved between the keys on its left and on its right.
LEMMA MoveSeparator ==
  ASSUME NEW N, NEW M, NEW t, IsTree(N, t), t.T \subseteq DOMAIN M,
         NEW a \in t.T, ~N[a].leaf, NEW i \in 1 .. N[a].ct,
         \A b \in t.T \ {a} : IsNode(M[b]) /\ Same(M[b], N[b]),
         IsNode(M[a]), ~M[a].leaf, M[a].ct = N[a].ct, M[a].lt = N[a].lt,
         \A j \in 1 .. N[a].ct : M[a].ent[j].ge = N[a].ent[j].ge,
         \A j \in 1 .. N[a].ct : j # i => M[a].ent[j].key = N[a].ent[j].key,
         \A x \in t.K[Child(N[a], i - 1)] : x < M[a].ent[i].key,
         \A x \in t.K[Child(N[a], i)] : M[a].ent[i].key <= x
  PROVE  IsTree(M, t)
<1> DEFINE n == N[a]
           m == M[a]
<1>0. n.ct \in Nat /\ m.ct = n.ct /\ m.lt = n.lt /\ i \in 1 .. n.ct
  BY NodeParts DEF IsTree
<1>1. \A j \in 0 .. n.ct : j = 0 \/ j \in 1 .. n.ct
  BY <1>0
<1>2. \A j \in 0 .. n.ct : Child(m, j) = Child(n, j)
  BY <1>0, <1>1 DEF Child
<1>3. ASSUME NEW j \in 0 .. n.ct PROVE ChildIn(m, t, a, j)
  <2>1. ChildIn(n, t, a, j)
    BY TreeChild
  <2>2. ASSUME NEW x \in t.K[Child(n, j)] PROVE Routes(m, j, x)
    <3>1. Routes(n, j, x)
      BY <2>1 DEF ChildIn
    <3>2. j > 0 => m.ent[j].key <= x
      <4>1. CASE j = i
        BY <4>1
      <4>2. CASE j # i
        BY <1>0, <1>1, <3>1, <4>2 DEF Routes
      <4>3. QED
        BY <4>1, <4>2
    <3>3. j < m.ct => x < m.ent[j + 1].key
      <4>1. CASE j + 1 = i
        <5>1. j = i - 1
          BY <1>0, <4>1
        <5>2. QED
          BY <4>1, <5>1
      <4>2. CASE j + 1 # i
        BY <1>0, <1>1, <3>1, <4>2 DEF Routes
      <4>3. QED
        BY <4>1, <4>2
    <3>4. QED
      BY <3>2, <3>3 DEF Routes
  <2>3. QED
    BY <1>2, <2>1, <2>2 DEF ChildIn
<1>4. { t.K[Child(m, j)] : j \in 0 .. m.ct } = { t.K[Child(n, j)] : j \in 0 .. n.ct }
  BY <1>0, <1>2
<1>5. InTree(m, t, a)
  <2>1. InnerIn(n, t, a)
    BY DEF IsTree, InTree
  <2>2. QED
    BY <1>0, <1>3, <1>4, <2>1 DEF InTree, InnerIn
<1>6. \A b \in t.T : InTree(M[b], t, b)
  BY <1>5, SameInTree DEF IsTree
<1>7. QED
  BY <1>6 DEF IsTree

(***************************************************************************)
(* The way to a key: the nodes P from the root to b.                       *)
(***************************************************************************)
OnRoute(N, t, P, b, key) ==
  /\ P \subseteq t.T /\ Root \in P /\ b \in P /\ (b = Root => P = {Root})
  /\ \A c \in P \ {Root} : \E a \in P \ {b} : \E i \in 0 .. N[a].ct :
        ~N[a].leaf /\ c = Child(N[a], i) /\ Routes(N[a], i, key)
  /\ \A a \in P \ {b} : ~N[a].leaf /\ \E i \in 0 .. N[a].ct : Child(N[a], i) \in P
  /\ \A a \in P : t.K[b] \subseteq t.K[a]
  /\ key \in t.K[Root] => key \in t.K[b]

\* The way to a key begins at the root.
LEMMA RouteStarts ==
  ASSUME NEW N, NEW t, IsTree(N, t), NEW key
  PROVE  OnRoute(N, t, {Root}, Root, key)
  BY DEF OnRoute, IsTree

\* A node is on the way if its parent is, and the search of the parent goes to it.
LEMMA RouteChild ==
  ASSUME NEW N, NEW t, IsTree(N, t), NEW P, NEW b, NEW key, OnRoute(N, t, P, b, key),
         NEW a \in t.T, ~N[a].leaf, NEW i \in 0 .. N[a].ct, Child(N[a], i) \in P
  PROVE  a \in P /\ a # b /\ Routes(N[a], i, key)
<1> DEFINE c == Child(N[a], i)
<1>1. ChildIn(N[a], t, a, i)
  BY TreeChild
<1>2. c # Root /\ t.up[c] = <<a, i>>
  BY <1>1 DEF ChildIn
<1>3. PICK d \in P \ {b} : \E j \in 0 .. N[d].ct : ~N[d].leaf /\ c = Child(N[d], j) /\ Routes(N[d], j, key)
  BY <1>2 DEF OnRoute
<1>4. PICK j \in 0 .. N[d].ct : ~N[d].leaf /\ c = Child(N[d], j) /\ Routes(N[d], j, key)
  BY <1>3
<1>5. d \in t.T
  BY DEF OnRoute
<1>6. t.up[c] = <<d, j>>
  BY <1>4, <1>5, TreeChild DEF ChildIn
<1>7. d = a /\ j = i
  BY <1>2, <1>6
<1>8. QED
  BY <1>3, <1>4, <1>7

\* The way goes on to the child that the search leads to.
LEMMA RouteDown ==
  ASSUME NEW N, NEW t, IsTree(N, t), NEW P, NEW b, NEW key \in Int, OnRoute(N, t, P, b, key),
         ~N[b].leaf, NEW i \in 0 .. N[b].ct, Routes(N[b], i, key)
  PROVE  LET c == Child(N[b], i) IN c \notin P /\ c # Root /\ c \in t.T /\ OnRoute(N, t, P \cup {c}, c, key)
<1> DEFINE c == Child(N[b], i)
           Q == P \cup {c}
<1>1. b \in t.T /\ b \in P /\ P \subseteq t.T /\ Root \in P
  BY DEF OnRoute
<1>2. ChildIn(N[b], t, b, i) /\ t.K[c] \subseteq t.K[b] /\ t.K[b] \subseteq Int
  BY <1>1, TreeChild
<1>3. c \in t.T /\ c # Root
  BY <1>2 DEF ChildIn
<1>4. c \notin P
  BY <1>1, RouteChild
<1>5. \A d \in Q \ {Root} : \E a \in Q \ {c} : \E j \in 0 .. N[a].ct :
        ~N[a].leaf /\ d = Child(N[a], j) /\ Routes(N[a], j, key)
  <2>1. \A d \in P \ {Root} : \E a \in P \ {b} : \E j \in 0 .. N[a].ct :
        ~N[a].leaf /\ d = Child(N[a], j) /\ Routes(N[a], j, key)
    BY DEF OnRoute
  <2>2. P \ {b} \subseteq Q \ {c} /\ b \in Q \ {c}
    BY <1>1, <1>4
  <2>3. \E a \in Q \ {c} : \E j \in 0 .. N[a].ct : ~N[a].leaf /\ c = Child(N[a], j) /\ Routes(N[a], j, key)
    BY <2>2
  <2> HIDE DEF c
  <2>4. QED
    BY <2>1, <2>2, <2>3
<1>6. \A a \in Q \ {c} : ~N[a].leaf /\ \E j \in 0 .. N[a].ct : Child(N[a], j) \in Q
  <2>1. \A a \in P \ {b} : ~N[a].leaf /\ \E j \in 0 .. N[a].ct : Child(N[a], j) \in P
    BY DEF OnRoute
  <2>2. \E j \in 0 .. N[b].ct : Child(N[b], j) \in Q
    OBVIOUS
  <2>3. \A a \in Q \ {c} : a = b \/ a \in P \ {b}
    OBVIOUS
  <2> HIDE DEF c
  <2>4. QED
    BY <2>1, <2>2, <2>3
<1>7. \A a \in Q : t.K[c] \subseteq t.K[a]
  BY <1>2 DEF OnRoute
<1>8. key \in t.K[Root] => key \in t.K[c]
  <2> SUFFICES ASSUME key \in t.K[b] PROVE key \in t.K[c]
    BY DEF OnRoute
  <2>1. InnerIn(N[b], t, b)
    BY <1>1 DEF IsTree, InTree
  <2>2. PICK j \in 0 .. N[b].ct : key \in t.K[Child(N[b], j)]
    BY <2>1 DEF InnerIn
  <2>3. Routes(N[b], j, key)
    BY <2>1, <2>2 DEF InnerIn, ChildIn
  <2>4. IsNode(N[b]) /\ Sorted(N[b])
    BY <1>1, TreeSorted DEF IsTree
  <2>5. i = j
    BY <2>3, <2>4, RoutesOnce
  <2>6. QED
    BY <2>2, <2>5
<1>9. QED
  BY <1>1, <1>3, <1>4, <1>5, <1>6, <1>7, <1>8 DEF OnRoute

(***************************************************************************)
(* A key put into a leaf, or taken out.                                    *)
(***************************************************************************)
Changed(S, put, key) == IF put THEN S \cup {key} ELSE S \ {key}
KeyChange(t, P, put, key) ==
  [T |-> t.T, K |-> [a \in t.T |-> IF a \in P THEN Changed(t.K[a], put, key) ELSE t.K[a]],
   L |-> t.L, up |-> t.up]

\* A leaf with one key more or less, the key being added or removed on the way
\* to it.
LEMMA TreeOtherKeys ==
  ASSUME NEW N, NEW M, NEW t, IsTree(N, t), t.T \subseteq DOMAIN M, NEW P, NEW b, NEW key \in Int, NEW put \in BOOLEAN,
         OnRoute(N, t, P, b, key), N[b].leaf,
         \A a \in t.T \ {b} : IsNode(M[a]) /\ Same(M[a], N[a]),
         IsNode(M[b]), M[b].leaf, Sorted(M[b]), KeysOf(M[b]) = Changed(KeysOf(N[b]), put, key),
         b = Root \/ KeysOf(M[b]) # {}
  PROVE  IsTree(M, KeyChange(t, P, put, key))
<1> DEFINE s == KeyChange(t, P, put, key)
<1>1. /\ s.T = t.T /\ s.L = t.L /\ s.up = t.up
      /\ s.K = [a \in t.T |-> IF a \in P THEN Changed(t.K[a], put, key) ELSE t.K[a]]
  BY DEF KeyChange
<1>2. P \subseteq t.T /\ b \in P /\ Root \in P /\ (b = Root => P = {Root})
  BY DEF OnRoute
<1>3. t.K[b] = KeysOf(N[b]) /\ t.L[b] = 0
  BY <1>2 DEF IsTree, InTree, LeafIn
<1> HIDE DEF s
<1>4. \A a \in t.T : t.K[a] \subseteq Int
  BY DEF IsTree
<1>5. s.K \in [s.T -> SUBSET Int]
  BY <1>1, <1>4 DEF Changed
<1>6. InTree(M[b], s, b)
  BY <1>1, <1>2, <1>3 DEF InTree, LeafIn
<1>7. ASSUME NEW a \in t.T, a # b PROVE InTree(N[a], s, a)
  <2>0. IsNode(N[a]) /\ InTree(N[a], t, a)
    BY DEF IsTree
  <2>1. CASE N[a].leaf
    <3>1. a \notin P
      BY <1>7, <2>1 DEF OnRoute
    <3>2. QED
      BY <1>1, <2>0, <2>1, <3>1 DEF InTree, LeafIn
  <2>2. CASE ~N[a].leaf
    <3> DEFINE n == N[a]
    <3>0. InnerIn(n, t, a)
      BY <2>0, <2>2 DEF InTree
    <3>1. \A i \in 0 .. n.ct : ChildIn(n, t, a, i) /\ Child(n, i) \in t.T
      BY <3>0 DEF InnerIn, ChildIn
    <3>2. \A i \in 0 .. n.ct : Child(n, i) \in P => a \in P /\ Routes(n, i, key)
      BY <2>2, RouteChild
    <3> HIDE DEF n
    <3>3. ASSUME NEW i \in 0 .. n.ct PROVE ChildIn(n, s, a, i)
      <4> DEFINE c == Child(n, i)
      <4>1. /\ c \in t.T /\ c # Root /\ t.up[c] = <<a, i>> /\ t.L[a] = t.L[c] + 1
            /\ t.K[c] # {} /\ \A x \in t.K[c] : Routes(n, i, x)
        BY <3>1 DEF ChildIn
      <4> HIDE DEF c
      <4>2. CASE c \in P
        <5>1. s.K[c] = Changed(t.K[c], put, key)
          BY <1>1, <4>1, <4>2
        <5>2. Routes(n, i, key)
          BY <3>2, <4>2 DEF c
        <5>3. \A x \in s.K[c] : Routes(n, i, x)
          BY <4>1, <5>1, <5>2 DEF Changed
        <5>4. s.K[c] # {}
          <6>1. b # Root
            BY <1>2, <4>1, <4>2
          <6>2. KeysOf(M[b]) # {} /\ KeysOf(N[b]) \subseteq t.K[c]
            BY <1>3, <4>2, <6>1 DEF OnRoute
          <6>3. QED
            BY <5>1, <6>2 DEF Changed
        <5>5. QED
          BY <1>1, <4>1, <5>3, <5>4 DEF ChildIn, c
      <4>3. CASE c \notin P
        <5>1. s.K[c] = t.K[c]
          BY <1>1, <4>1, <4>3
        <5>2. QED
          BY <1>1, <4>1, <5>1 DEF ChildIn, c
      <4>4. QED
        BY <4>2, <4>3
    <3>4. s.K[a] = UNION { s.K[Child(n, i)] : i \in 0 .. n.ct }
      <4>1. CASE a \in P
        <5>1. PICK i \in 0 .. n.ct : Child(n, i) \in P
          BY <1>7, <4>1 DEF OnRoute, n
        <5>2. Routes(n, i, key)
          BY <3>2, <5>1
        <5>3. IsNode(n) /\ Sorted(n)
          BY <2>0, TreeSorted DEF n
        <5>4. \A j \in 0 .. n.ct : j # i => key \notin t.K[Child(n, j)]
          <6>1. ASSUME NEW j \in 0 .. n.ct, key \in t.K[Child(n, j)] PROVE i = j
            <7>1. Routes(n, j, key)
              BY <3>1, <6>1 DEF ChildIn
            <7>2. QED
              BY <5>2, <5>3, <7>1, RoutesOnce
          <6>2. QED
            BY <6>1
        <5>5. \A j \in 0 .. n.ct : j # i => Child(n, j) \notin P
          <6>1. ASSUME NEW j \in 0 .. n.ct, Child(n, j) \in P PROVE i = j
            <7>1. Routes(n, j, key)
              BY <3>2, <6>1
            <7>2. QED
              BY <5>2, <5>3, <7>1, RoutesOnce
          <6>2. QED
            BY <6>1
        <5>6. \A j \in 0 .. n.ct : s.K[Child(n, j)] = IF j = i THEN Changed(t.K[Child(n, j)], put, key) ELSE t.K[Child(n, j)]
          BY <1>1, <3>1, <5>1, <5>5
        <5>7. s.K[a] = Changed(t.K[a], put, key) /\ t.K[a] = UNION { t.K[Child(n, j)] : j \in 0 .. n.ct }
          BY <1>1, <3>0, <4>1 DEF InnerIn
        <5> DEFINE before(j) == t.K[Child(n, j)]
                   after(j) == s.K[Child(n, j)]
        <5>8. \A x : x \in t.K[a] <=> \E j \in 0 .. n.ct : x \in before(j)
          BY <5>7
        <5>9. \A j \in 0 .. n.ct : after(j) = IF j = i THEN Changed(before(j), put, key) ELSE before(j)
          BY <5>6
        <5>10. \A j \in 0 .. n.ct : j # i => key \notin before(j)
          BY <5>4
        <5> HIDE DEF before, after
        <5>11. ASSUME NEW x PROVE x \in Changed(t.K[a], put, key) <=> \E j \in 0 .. n.ct : x \in after(j)
          <6>1. CASE x = key
            <7>1. \A j \in 0 .. n.ct : x \in after(j) <=> (put /\ j = i) \/ (put /\ x \in before(j))
              BY <5>9, <5>10, <6>1 DEF Changed
            <7>2. (\E j \in 0 .. n.ct : x \in after(j)) <=> put
              BY <7>1
            <7>3. QED
              BY <6>1, <7>2 DEF Changed
          <6>2. CASE x # key
            <7>1. \A j \in 0 .. n.ct : x \in after(j) <=> x \in before(j)
              BY <5>9, <6>2 DEF Changed
            <7>2. QED
              BY <5>8, <6>2, <7>1 DEF Changed
          <6>3. QED
            BY <6>1, <6>2
        <5>12. s.K[a] = UNION { after(j) : j \in 0 .. n.ct }
          BY <5>7, <5>11
        <5>13. QED
          BY <5>12 DEF after
      <4>2. CASE a \notin P
        <5>1. \A i \in 0 .. n.ct : s.K[Child(n, i)] = t.K[Child(n, i)]
          BY <1>1, <3>1, <3>2, <4>2
        <5>2. { s.K[Child(n, i)] : i \in 0 .. n.ct } = { t.K[Child(n, i)] : i \in 0 .. n.ct }
          BY <5>1
        <5>3. QED
          BY <1>1, <3>0, <4>2, <5>2 DEF InnerIn
      <4>3. QED
        BY <4>1, <4>2
    <3>5. QED
      BY <2>2, <3>3, <3>4 DEF InTree, InnerIn, n
  <2>3. QED
    BY <2>1, <2>2
<1>8. \A a \in t.T \ {b} : InTree(M[a], s, a)
  BY <1>7, SameInTree DEF IsTree
<1>9. \A a \in t.T : IsNode(M[a]) /\ InTree(M[a], s, a)
  BY <1>6, <1>8
<1>10. IsTree(M, s)
  BY <1>1, <1>5, <1>9 DEF IsTree
<1>11. QED
  BY <1>10 DEF s

(***************************************************************************)
(* A node above the root, and back.                                        *)
(***************************************************************************)
LEMMA Lift ==
  ASSUME NEW N, NEW M, NEW t, IsTree(N, t), NEW v, v \notin t.T, t.T \cup {v} \subseteq DOMAIN M, t.K[Root] # {},
         IsNode(M[Root]), ~M[Root].leaf, M[Root].ct = 0, M[Root].lt = v,
         IsNode(M[v]), Same(M[v], N[Root]),
         \A a \in t.T \ {Root} : IsNode(M[a]) /\ Same(M[a], N[a])
  PROVE  \E s : /\ IsTree(M, s) /\ s.T = t.T \cup {v} /\ s.K[v] = t.K[Root]
                /\ \A a \in t.T : s.K[a] = t.K[a]
<1> DEFINE s == [T |-> t.T \cup {v},
                 K |-> [a \in t.T \cup {v} |-> IF a = v THEN t.K[Root] ELSE t.K[a]],
                 L |-> [a \in t.T \cup {v} |-> IF a = v THEN t.L[Root] ELSE IF a = Root THEN t.L[Root] + 1 ELSE t.L[a]],
                 up |-> [c \in t.T \cup {v} |-> IF c = v THEN <<Root, 0>>
                                                ELSE IF t.up[c][1] = Root THEN <<v, t.up[c][2]>> ELSE t.up[c]]]
<1>1. Root \in t.T /\ v # Root /\ t.L \in [t.T -> Nat] /\ t.K \in [t.T -> SUBSET Int]
  BY DEF IsTree
<1>2. /\ s.T = t.T \cup {v} /\ s.K \in [s.T -> SUBSET Int] /\ s.L \in [s.T -> Nat]
      /\ s.K[v] = t.K[Root] /\ s.L[v] = t.L[Root] /\ s.up[v] = <<Root, 0>>
      /\ \A a \in t.T : s.K[a] = t.K[a] /\ s.L[a] = IF a = Root THEN t.L[Root] + 1 ELSE t.L[a]
      /\ \A a \in t.T : s.up[a] = IF t.up[a][1] = Root THEN <<v, t.up[a][2]>> ELSE t.up[a]
  BY <1>1
<1> HIDE DEF s
<1>3. ASSUME NEW a \in t.T PROVE InTree(N[a], s, IF a = Root THEN v ELSE a)
  <2> DEFINE b == IF a = Root THEN v ELSE a
  <2>1. s.L[b] = t.L[a] /\ s.K[b] = t.K[a]
    BY <1>1, <1>2
  <2>2. InTree(N[a], t, a)
    BY DEF IsTree
  <2>3. CASE N[a].leaf
    BY <2>1, <2>2, <2>3 DEF InTree, LeafIn
  <2>4. CASE ~N[a].leaf
    <3>1. InnerIn(N[a], t, a)
      BY <2>2, <2>4 DEF InTree
    <3>2. ASSUME NEW i \in 0 .. N[a].ct
          PROVE  ChildIn(N[a], s, b, i) /\ s.K[Child(N[a], i)] = t.K[Child(N[a], i)]
      <4> DEFINE c == Child(N[a], i)
      <4>1. /\ c \in t.T /\ c # Root /\ t.up[c] = <<a, i>> /\ t.L[a] = t.L[c] + 1
            /\ t.K[c] # {} /\ \A x \in t.K[c] : Routes(N[a], i, x)
        BY <3>1 DEF InnerIn, ChildIn
      <4> HIDE DEF c
      <4>2. s.up[c] = <<b, i>>
        <5>1. t.up[c][1] = a /\ t.up[c][2] = i
          BY <4>1
        <5>2. CASE a = Root
          BY <1>2, <4>1, <5>1, <5>2
        <5>3. CASE a # Root
          BY <1>2, <4>1, <5>1, <5>3
        <5>4. QED
          BY <5>2, <5>3
      <4>3. s.K[c] = t.K[c] /\ s.L[c] = t.L[c] /\ c \in s.T
        BY <1>2, <4>1
      <4>4. QED
        BY <2>1, <4>1, <4>2, <4>3 DEF ChildIn, c
    <3>3. { s.K[Child(N[a], i)] : i \in 0 .. N[a].ct } = { t.K[Child(N[a], i)] : i \in 0 .. N[a].ct }
      BY <3>2
    <3>4. QED
      BY <2>1, <2>4, <3>1, <3>2, <3>3 DEF InTree, InnerIn
  <2>5. QED
    BY <2>3, <2>4
<1>4. InTree(M[v], s, v)
  <2>1. IsNode(N[Root]) /\ InTree(N[Root], s, v)
    BY <1>1, <1>3 DEF IsTree
  <2>2. QED
    BY <2>1, SameInTree
<1>5. InTree(M[Root], s, Root)
  <2> DEFINE m == M[Root]
  <2>1. ~m.leaf /\ m.ct = 0 /\ Child(m, 0) = v /\ \A i \in 0 .. m.ct : i = 0
    BY DEF Child
  <2> HIDE DEF m
  <2>2. \A i \in 0 .. m.ct : ChildIn(m, s, Root, i)
    BY <1>1, <1>2, <2>1 DEF ChildIn, Routes
  <2>3. UNION { s.K[Child(m, i)] : i \in 0 .. m.ct } = s.K[v]
    <3>1. \A i \in 0 .. m.ct : s.K[Child(m, i)] = s.K[v]
      BY <2>1
    <3>2. 0 \in 0 .. m.ct
      BY <2>1
    <3>3. QED
      BY <3>1, <3>2
  <2>4. QED
    BY <1>1, <1>2, <2>1, <2>2, <2>3 DEF InTree, InnerIn, m
<1>6. \A a \in t.T \ {Root} : InTree(M[a], s, a)
  <2>1. \A a \in t.T \ {Root} : IsNode(N[a]) /\ InTree(N[a], s, a)
    BY <1>3 DEF IsTree
  <2>2. QED
    BY <2>1, SameInTree
<1>7. IsTree(M, s)
  BY <1>1, <1>2, <1>4, <1>5, <1>6 DEF IsTree
<1>8. QED
  BY <1>2, <1>7

\* A root without keys takes the place of its child.
LEMMA Lower ==
  ASSUME NEW N, NEW M, NEW t, IsTree(N, t), ~N[Root].leaf, N[Root].ct = 0,
         t.T \ {N[Root].lt} \subseteq DOMAIN M,
         IsNode(M[Root]), Same(M[Root], N[N[Root].lt]),
         \A a \in t.T \ {Root, N[Root].lt} : IsNode(M[a]) /\ Same(M[a], N[a])
  PROVE  \E s : /\ IsTree(M, s) /\ s.T = t.T \ {N[Root].lt} /\ \A a \in s.T : s.K[a] = t.K[a]
<1> DEFINE v == N[Root].lt
           s == [T |-> t.T \ {v},
                 K |-> [a \in t.T \ {v} |-> t.K[a]],
                 L |-> [a \in t.T \ {v} |-> IF a = Root THEN t.L[v] ELSE t.L[a]],
                 up |-> [c \in t.T \ {v} |-> IF t.up[c][1] = v THEN <<Root, t.up[c][2]>> ELSE t.up[c]]]
<1>0. Root \in t.T /\ t.L \in [t.T -> Nat] /\ t.K \in [t.T -> SUBSET Int]
  BY DEF IsTree
<1>1. v \in t.T /\ v # Root /\ t.up[v] = <<Root, 0>> /\ t.K[Root] = t.K[v]
  <2>1. InnerIn(N[Root], t, Root)
    BY <1>0 DEF IsTree, InTree
  <2>2. Child(N[Root], 0) = v /\ 0 \in 0 .. N[Root].ct /\ \A i \in 0 .. N[Root].ct : i = 0
    BY DEF Child
  <2> HIDE DEF v
  <2>3. ChildIn(N[Root], t, Root, 0)
    BY <2>1, <2>2 DEF InnerIn
  <2>4. t.K[Root] = UNION { t.K[Child(N[Root], i)] : i \in 0 .. N[Root].ct }
    BY <2>1 DEF InnerIn
  <2>5. \A i \in 0 .. N[Root].ct : t.K[Child(N[Root], i)] = t.K[v]
    BY <2>2
  <2>6. t.K[Root] = t.K[v]
    BY <2>2, <2>4, <2>5
  <2>7. QED
    BY <2>2, <2>3, <2>6 DEF ChildIn
<1> HIDE DEF v
<1>2. /\ s.T = t.T \ {v} /\ s.K \in [s.T -> SUBSET Int] /\ s.L \in [s.T -> Nat]
      /\ \A a \in s.T : s.K[a] = t.K[a] /\ s.L[a] = IF a = Root THEN t.L[v] ELSE t.L[a]
      /\ \A a \in s.T : s.up[a] = IF t.up[a][1] = v THEN <<Root, t.up[a][2]>> ELSE t.up[a]
  BY <1>0, <1>1
<1> HIDE DEF s
<1>3. ASSUME NEW a \in t.T, a # Root PROVE InTree(N[a], s, IF a = v THEN Root ELSE a)
  <2> DEFINE b == IF a = v THEN Root ELSE a
  <2>1. s.L[b] = t.L[a] /\ s.K[b] = t.K[a]
    BY <1>0, <1>1, <1>2, <1>3
  <2>2. InTree(N[a], t, a)
    BY DEF IsTree
  <2>3. CASE N[a].leaf
    BY <2>1, <2>2, <2>3 DEF InTree, LeafIn
  <2>4. CASE ~N[a].leaf
    <3>1. InnerIn(N[a], t, a)
      BY <2>2, <2>4 DEF InTree
    <3>2. ASSUME NEW i \in 0 .. N[a].ct
          PROVE  ChildIn(N[a], s, b, i) /\ s.K[Child(N[a], i)] = t.K[Child(N[a], i)]
      <4> DEFINE c == Child(N[a], i)
      <4>1. /\ c \in t.T /\ c # Root /\ t.up[c] = <<a, i>> /\ t.L[a] = t.L[c] + 1
            /\ t.K[c] # {} /\ \A x \in t.K[c] : Routes(N[a], i, x)
        BY <3>1 DEF InnerIn, ChildIn
      <4> HIDE DEF c
      <4>2. c # v
        BY <1>1, <1>3, <4>1
      <4>3. s.up[c] = <<b, i>>
        <5>1. t.up[c][1] = a /\ t.up[c][2] = i
          BY <4>1
        <5>2. CASE a = v
          BY <1>2, <4>1, <4>2, <5>1, <5>2
        <5>3. CASE a # v
          BY <1>2, <4>1, <4>2, <5>1, <5>3
        <5>4. QED
          BY <5>2, <5>3
      <4>4. s.K[c] = t.K[c] /\ s.L[c] = t.L[c] /\ c \in s.T
        BY <1>2, <4>1, <4>2
      <4>5. QED
        BY <2>1, <4>1, <4>3, <4>4 DEF ChildIn, c
    <3>3. { s.K[Child(N[a], i)] : i \in 0 .. N[a].ct } = { t.K[Child(N[a], i)] : i \in 0 .. N[a].ct }
      BY <3>2
    <3>4. QED
      BY <2>1, <2>4, <3>1, <3>2, <3>3 DEF InTree, InnerIn
  <2>5. QED
    BY <2>3, <2>4
<1>4. InTree(M[Root], s, Root)
  <2>1. IsNode(N[v]) /\ InTree(N[v], s, Root)
    BY <1>1, <1>3 DEF IsTree
  <2>2. QED
    BY <2>1, SameInTree DEF v
<1>5. \A a \in s.T \ {Root} : InTree(M[a], s, a)
  <2>1. \A a \in s.T \ {Root} : IsNode(N[a]) /\ InTree(N[a], s, a)
    BY <1>2, <1>3 DEF IsTree
  <2>2. QED
    BY <1>2, <2>1, SameInTree DEF v
<1>6. IsTree(M, s)
  BY <1>0, <1>1, <1>2, <1>4, <1>5 DEF IsTree, v
<1>7. QED
  BY <1>2, <1>6 DEF v

(***************************************************************************)
(* Cuts.  The keys of a node V, child p of o, are cut at u[1], u[2], ...   *)
(* into the k nodes W, at the addresses x, of which the first is V's own;  *)
(* z is o with the keys between them.  In an inner node the key behind the *)
(* cut goes up, and its child is the first of the next piece.              *)
(***************************************************************************)
Off(V, u, j) == u[j - 1] + (IF V.leaf \/ j = 1 THEN 0 ELSE 1)
CutAt(V, W, k, u) ==
  /\ k \in Nat /\ k > 0 /\ u \in [0 .. k -> Nat] /\ u[0] = 0 /\ u[k] = V.ct
  /\ \A i, j \in 0 .. k : i <= j => u[i] <= u[j]
  /\ \A j \in 1 .. k : W[j].leaf = V.leaf /\ W[j].ct > 0 /\ Off(V, u, j) + W[j].ct = u[j]
  /\ \A j \in 1 .. k : \A i \in 1 .. W[j].ct : W[j].ent[i].key = V.ent[Off(V, u, j) + i].key
  /\ ~V.leaf => \A j \in 1 .. k : \A i \in 0 .. W[j].ct : Child(W[j], i) = Child(V, Off(V, u, j) + i)
CutUnder(o, z, p, k, V, u, x) ==
  /\ ~o.leaf /\ ~z.leaf /\ p \in 0 .. o.ct /\ z.ct = o.ct + k - 1 /\ Child(o, p) = x[1]
  /\ \A i \in 1 .. p : z.ent[i].key = o.ent[i].key
  /\ \A i \in (p + 1) .. o.ct : z.ent[i + k - 1].key = o.ent[i].key
  /\ \A i \in 0 .. (p - 1) : Child(z, i) = Child(o, i)
  /\ \A i \in (p + 1) .. o.ct : Child(z, i + k - 1) = Child(o, i)
  /\ \A j \in 1 .. k : Child(z, p + j - 1) = x[j]
  /\ ~V.leaf => \A j \in 2 .. k : z.ent[p + j - 1].key = V.ent[u[j - 1] + 1].key
Between(z, p, k, V, u) ==
  V.leaf => \A j \in 2 .. k : /\ V.ent[u[j - 1]].key < z.ent[p + j - 1].key
                             /\ z.ent[p + j - 1].key <= V.ent[u[j - 1] + 1].key

\* Every key is in one piece, and every child.
LEMMA PieceOf ==
  ASSUME NEW k \in Nat, k > 0, NEW u \in [0 .. k -> Nat], u[0] = 0, NEW i \in 0 .. u[k]
  PROVE  \E j \in 1 .. k : i <= u[j] /\ (j = 1 \/ u[j - 1] < i)
<1> DEFINE D == { j \in 1 .. k : i <= u[j] }
<1>1. D \in SUBSET Nat /\ D # {}
  <2>1. k \in D
    OBVIOUS
  <2>2. QED
    BY <2>1
<1>2. PICK j \in D : \A e \in D : j <= e
  <2> HIDE DEF D
  <2>1. QED
    BY <1>1, LeastNatural
<1>3. j \in 1 .. k /\ i <= u[j]
  BY <1>2
<1>4. ASSUME j # 1 PROVE u[j - 1] < i
  <2>1. j - 1 \in 1 .. k /\ ~(j <= j - 1)
    BY <1>3, <1>4
  <2>2. j - 1 \notin D
    BY <1>2, <2>1
  <2>3. u[j - 1] \in Nat
    BY <2>1
  <2>4. QED
    BY <2>1, <2>2, <2>3
<1>5. QED
  BY <1>3, <1>4

\* Where the pieces of a node begin and end.
LEMMA CutParts ==
  ASSUME NEW V, IsNode(V), NEW W, NEW k, NEW u, CutAt(V, W, k, u), \A j \in 1 .. k : IsNode(W[j])
  PROVE  /\ k \in Nat /\ k > 0 /\ V.ct \in Nat
         /\ \A j \in 0 .. k : u[j] \in Nat /\ u[j] <= V.ct
         /\ \A j \in 1 .. k : /\ Off(V, u, j) \in Nat /\ u[j - 1] <= Off(V, u, j)
                              /\ Off(V, u, j) <= u[j - 1] + 1
                              /\ (V.leaf \/ j = 1 => Off(V, u, j) = u[j - 1])
                              /\ (~V.leaf /\ j > 1 => Off(V, u, j) = u[j - 1] + 1)
                              /\ W[j].ct \in Nat /\ W[j].ct > 0 /\ Off(V, u, j) + W[j].ct = u[j]
                              /\ W[j].leaf = V.leaf
         /\ \A i, j \in 1 .. k : i < j => u[i] <= u[j - 1]
         /\ \A j \in 2 .. k : u[j - 1] \in 1 .. V.ct /\ u[j - 1] + 1 \in 1 .. V.ct
<1>1. /\ k \in Nat /\ k > 0 /\ u \in [0 .. k -> Nat] /\ u[0] = 0 /\ u[k] = V.ct
      /\ \A i, j \in 0 .. k : i <= j => u[i] <= u[j]
      /\ \A j \in 1 .. k : W[j].leaf = V.leaf /\ W[j].ct > 0 /\ Off(V, u, j) + W[j].ct = u[j]
  BY DEF CutAt
<1>2. V.ct \in Nat /\ \A j \in 1 .. k : W[j].ct \in Nat
  BY NodeParts
<1>3. \A j \in 0 .. k : u[j] \in Nat /\ u[j] <= V.ct
  BY <1>1
<1>4. ASSUME NEW j \in 1 .. k
      PROVE  /\ Off(V, u, j) \in Nat /\ u[j - 1] <= Off(V, u, j)
             /\ Off(V, u, j) <= u[j - 1] + 1
             /\ (V.leaf \/ j = 1 => Off(V, u, j) = u[j - 1])
             /\ (~V.leaf /\ j > 1 => Off(V, u, j) = u[j - 1] + 1)
  <2>1. u[j - 1] \in Nat
    BY <1>1
  <2>2. QED
    BY <1>1, <2>1 DEF Off
<1>5. \A i, j \in 1 .. k : i < j => u[i] <= u[j - 1]
  BY <1>1
<1>6. ASSUME NEW j \in 2 .. k PROVE u[j - 1] \in 1 .. V.ct /\ u[j - 1] + 1 \in 1 .. V.ct
  <2>1. j - 1 \in 1 .. k /\ j \in 1 .. k /\ j - 1 \in 0 .. k /\ j \in 0 .. k /\ j - 1 - 1 \in 0 .. k
    BY <1>1
  <2>2. Off(V, u, j - 1) + W[j - 1].ct = u[j - 1] /\ W[j - 1].ct > 0 /\ Off(V, u, j - 1) \in Nat
    BY <1>1, <1>4, <2>1
  <2>3. Off(V, u, j) + W[j].ct = u[j] /\ W[j].ct > 0 /\ u[j - 1] <= Off(V, u, j) /\ u[j] <= V.ct
    BY <1>1, <1>3, <1>4, <2>1
  <2>4. u[j - 1] \in Nat /\ u[j] \in Nat /\ W[j].ct \in Nat /\ W[j - 1].ct \in Nat /\ Off(V, u, j) \in Nat
    BY <1>2, <1>3, <1>4, <2>1
  <2>5. QED
    BY <1>2, <2>2, <2>3, <2>4
<1>7. QED
  BY <1>1, <1>2, <1>3, <1>4, <1>5, <1>6

\* The piece that child i of V goes to, and no other one.
LEMMA PieceOfChild ==
  ASSUME NEW V, IsNode(V), NEW W, NEW k, NEW u, CutAt(V, W, k, u), \A j \in 1 .. k : IsNode(W[j]), ~V.leaf
  PROVE  /\ \A i \in 0 .. V.ct : \E j \in 1 .. k : Off(V, u, j) <= i /\ i <= u[j]
         /\ \A i \in 0 .. V.ct : \A j, l \in 1 .. k :
              Off(V, u, j) <= i /\ i <= u[j] /\ Off(V, u, l) <= i /\ i <= u[l] => j = l
<1> DEFINE off(j) == Off(V, u, j)
<1>1. /\ k \in Nat /\ k > 0 /\ V.ct \in Nat /\ \A j \in 0 .. k : u[j] \in Nat
      /\ \A j \in 1 .. k : off(j) \in Nat /\ (j = 1 => off(j) = u[j - 1]) /\ (j > 1 => off(j) = u[j - 1] + 1)
      /\ \A i, j \in 1 .. k : i < j => u[i] <= u[j - 1]
  BY CutParts
<1>2. u \in [0 .. k -> Nat] /\ u[0] = 0 /\ u[k] = V.ct
  BY DEF CutAt
<1> HIDE DEF off
<1>3. ASSUME NEW i \in 0 .. V.ct PROVE \E j \in 1 .. k : off(j) <= i /\ i <= u[j]
  <2>1. PICK j \in 1 .. k : i <= u[j] /\ (j = 1 \/ u[j - 1] < i)
    BY <1>1, <1>2, PieceOf
  <2>2. u[j - 1] \in Nat
    BY <1>1
  <2>3. off(j) <= i
    BY <1>1, <1>2, <2>1, <2>2
  <2>4. QED
    BY <2>1, <2>3
<1>4. ASSUME NEW i \in 0 .. V.ct, NEW j \in 1 .. k, NEW l \in 1 .. k, i <= u[j], off(l) <= i, j < l PROVE FALSE
  <2>1. u[j] <= u[l - 1] /\ off(l) = u[l - 1] + 1 /\ u[j] \in Nat /\ u[l - 1] \in Nat
    BY <1>1, <1>4
  <2>2. QED
    BY <1>4, <2>1
<1>5. \A i \in 0 .. V.ct : \A j, l \in 1 .. k :
              off(j) <= i /\ i <= u[j] /\ off(l) <= i /\ i <= u[l] => j = l
  BY <1>1, <1>4
<1>6. QED
  BY <1>3, <1>5 DEF off

\* Every key of V is in a piece.
LEMMA PieceKeys ==
  ASSUME NEW V, IsNode(V), NEW W, NEW k, NEW u, CutAt(V, W, k, u), \A j \in 1 .. k : IsNode(W[j]), V.leaf
  PROVE  KeysOf(V) = UNION { KeysOf(W[j]) : j \in 1 .. k }
<1>1. /\ k \in Nat /\ k > 0 /\ V.ct \in Nat /\ \A j \in 0 .. k : u[j] \in Nat /\ u[j] <= V.ct
      /\ \A j \in 1 .. k : Off(V, u, j) = u[j - 1] /\ W[j].ct \in Nat /\ u[j - 1] + W[j].ct = u[j]
  BY CutParts
<1>2. /\ u \in [0 .. k -> Nat] /\ u[0] = 0 /\ u[k] = V.ct
      /\ \A j \in 1 .. k : \A i \in 1 .. W[j].ct : W[j].ent[i].key = V.ent[u[j - 1] + i].key
  <2>1. /\ u \in [0 .. k -> Nat] /\ u[0] = 0 /\ u[k] = V.ct
        /\ \A j \in 1 .. k : \A i \in 1 .. W[j].ct : W[j].ent[i].key = V.ent[Off(V, u, j) + i].key
    BY DEF CutAt
  <2>2. \A j \in 1 .. k : Off(V, u, j) = u[j - 1]
    BY <1>1
  <2>3. QED
    BY ONLY <2>1, <2>2
<1>3. ASSUME NEW i \in 1 .. V.ct PROVE \E j \in 1 .. k : V.ent[i].key \in KeysOf(W[j])
  <2>1. PICK j \in 1 .. k : i <= u[j] /\ (j = 1 \/ u[j - 1] < i)
    <3>1. i \in 0 .. u[k]
      BY <1>1, <1>2
    <3>2. QED
      BY <1>1, <1>2, <3>1, PieceOf
  <2>2. u[j - 1] \in Nat /\ u[j - 1] < i /\ u[j - 1] + W[j].ct = u[j] /\ W[j].ct \in Nat
    <3>1. u[j - 1] + W[j].ct = u[j] /\ W[j].ct \in Nat
      BY <1>1
    <3>2. j - 1 \in 0 .. k /\ (j = 1 => j - 1 = 0) /\ 0 < i
      BY <1>1
    <3>3. u[j - 1] \in Nat
      BY <1>1, <3>2
    <3>4. u[j - 1] < i
      BY <1>2, <2>1, <3>2
    <3>5. QED
      BY <3>1, <3>3, <3>4
  <2>3. i - u[j - 1] \in 1 .. W[j].ct /\ u[j - 1] + (i - u[j - 1]) = i
    BY <2>1, <2>2
  <2>4. W[j].ent[i - u[j - 1]].key = V.ent[i].key
    BY <1>2, <2>3
  <2>5. QED
    BY <2>3, <2>4 DEF KeysOf
<1>4. ASSUME NEW j \in 1 .. k, NEW i \in 1 .. W[j].ct PROVE W[j].ent[i].key \in KeysOf(V)
  <2>1. u[j - 1] \in Nat /\ u[j - 1] + W[j].ct = u[j] /\ u[j] <= V.ct /\ W[j].ct \in Nat
    BY <1>1
  <2>2. u[j - 1] + i \in 1 .. V.ct
    BY <1>1, <2>1
  <2>3. W[j].ent[i].key = V.ent[u[j - 1] + i].key
    BY <1>2, <1>4
  <2>4. QED
    BY <2>2, <2>3 DEF KeysOf
<1>5. QED
  BY <1>3, <1>4 DEF KeysOf

\* What the tree has below piece j when V is cut.
PieceK(t, V, W, j) == IF V.leaf THEN KeysOf(W[j]) ELSE UNION { t.K[Child(W[j], i)] : i \in 0 .. W[j].ct }

\* The keys of the pieces are those of V, and on their side of the keys between.
LEMMA PieceKs ==
  ASSUME NEW t, NEW v, NEW V, IsNode(V), Sorted(V), InTree(V, t, v), t.K \in [t.T -> SUBSET Int], v \in t.T,
         NEW W, NEW k, NEW u, CutAt(V, W, k, u), \A j \in 1 .. k : IsNode(W[j])
  PROVE  /\ t.K[v] = UNION { PieceK(t, V, W, j) : j \in 1 .. k }
         /\ \A j \in 1 .. k : PieceK(t, V, W, j) # {}
         /\ \A j \in 2 .. k : \A y \in PieceK(t, V, W, j) : V.ent[u[j - 1] + 1].key <= y
         /\ \A j \in 1 .. (k - 1) : \A y \in PieceK(t, V, W, j) :
              IF V.leaf THEN y <= V.ent[u[j]].key ELSE y < V.ent[u[j] + 1].key
<1> DEFINE off(j) == Off(V, u, j)
           PK(j) == PieceK(t, V, W, j)
<1>1. /\ k \in Nat /\ k > 0 /\ V.ct \in Nat /\ \A j \in 0 .. k : u[j] \in Nat /\ u[j] <= V.ct
      /\ \A j \in 1 .. k : /\ off(j) \in Nat /\ u[j - 1] <= off(j)
                           /\ (V.leaf => off(j) = u[j - 1]) /\ (~V.leaf /\ j > 1 => off(j) = u[j - 1] + 1)
                           /\ W[j].ct \in Nat /\ W[j].ct > 0 /\ off(j) + W[j].ct = u[j]
      /\ \A j \in 2 .. k : u[j - 1] \in 1 .. V.ct /\ u[j - 1] + 1 \in 1 .. V.ct
  BY CutParts
<1>2. /\ \A j \in 1 .. k : \A i \in 1 .. W[j].ct : W[j].ent[i].key = V.ent[off(j) + i].key
      /\ ~V.leaf => \A j \in 1 .. k : \A i \in 0 .. W[j].ct : Child(W[j], i) = Child(V, off(j) + i)
  BY DEF CutAt
<1>3. \A i \in 1 .. V.ct : V.ent[i].key \in Int
  BY NodeParts
<1>4. \A i, j \in 1 .. V.ct : i <= j => V.ent[i].key <= V.ent[j].key
  BY <1>1, <1>3 DEF Sorted
<1>5. \A j \in 1 .. (k - 1) : j + 1 \in 2 .. k /\ u[j] \in 1 .. V.ct /\ u[j] + 1 \in 1 .. V.ct
  <2> SUFFICES ASSUME NEW j \in 1 .. (k - 1) PROVE j + 1 \in 2 .. k /\ u[j] \in 1 .. V.ct /\ u[j] + 1 \in 1 .. V.ct
    OBVIOUS
  <2>1. j + 1 \in 2 .. k /\ j + 1 - 1 = j
    BY <1>1
  <2>2. QED
    BY <1>1, <2>1
<1> HIDE DEF off
<1>6. CASE V.leaf
  <2>1. \A j \in 1 .. k : PK(j) = KeysOf(W[j])
    BY <1>6 DEF PieceK
  <2>2. t.K[v] = KeysOf(V)
    BY <1>6 DEF InTree, LeafIn
  <2>3. KeysOf(V) = UNION { KeysOf(W[j]) : j \in 1 .. k }
    BY <1>6, PieceKeys
  <2> HIDE DEF PK
  <2>4. t.K[v] = UNION { PK(j) : j \in 1 .. k }
    <3>1. { PK(j) : j \in 1 .. k } = { KeysOf(W[j]) : j \in 1 .. k }
      BY <2>1
    <3>2. QED
      BY <2>2, <2>3, <3>1
  <2>5. \A j \in 1 .. k : PK(j) # {}
    <3> SUFFICES ASSUME NEW j \in 1 .. k PROVE KeysOf(W[j]) # {}
      BY <2>1
    <3>1. 1 \in 1 .. W[j].ct
      BY <1>1
    <3>2. W[j].ent[1].key \in KeysOf(W[j])
      BY <3>1 DEF KeysOf
    <3>3. QED
      BY <3>2
  <2>6. ASSUME NEW j \in 1 .. k, NEW y \in PK(j)
        PROVE  /\ j > 1 => V.ent[u[j - 1] + 1].key <= y
               /\ j < k => y <= V.ent[u[j]].key
    <3>1. PICK i \in 1 .. W[j].ct : y = W[j].ent[i].key
      BY <2>1, <2>6 DEF KeysOf
    <3>a. off(j) = u[j - 1] /\ off(j) + W[j].ct = u[j] /\ W[j].ct \in Nat
      BY <1>1, <1>6
    <3>b. j - 1 \in 0 .. k /\ j \in 0 .. k
      BY <1>1
    <3>c. u[j] \in Nat /\ u[j] <= V.ct /\ u[j - 1] \in Nat
      BY <1>1, <3>b
    <3>d. y = V.ent[off(j) + i].key
      BY <1>2, <3>1
    <3>2. y = V.ent[off(j) + i].key /\ off(j) = u[j - 1] /\ off(j) + W[j].ct = u[j] /\ W[j].ct \in Nat
          /\ u[j] \in Nat /\ u[j] <= V.ct /\ u[j - 1] \in Nat
      BY <3>a, <3>c, <3>d
    <3>3. u[j - 1] + i \in 1 .. V.ct /\ u[j - 1] + i <= u[j] /\ u[j - 1] + 1 <= u[j - 1] + i
      BY <1>1, <3>2
    <3>4. j > 1 => u[j - 1] + 1 \in 1 .. V.ct
      BY <1>1
    <3>5. j < k => u[j] \in 1 .. V.ct
      BY <1>1, <1>5
    <3>6. QED
      BY <1>4, <3>2, <3>3, <3>4, <3>5
  <2>7. QED
    BY <1>1, <1>6, <2>4, <2>5, <2>6 DEF PK
<1>7. CASE ~V.leaf
  <2>1. \A j \in 1 .. k : PK(j) = UNION { t.K[Child(W[j], i)] : i \in 0 .. W[j].ct }
    BY <1>7 DEF PieceK
  <2>2. InnerIn(V, t, v)
    BY <1>7 DEF InTree
  <2>3. \A i \in 0 .. V.ct : ChildIn(V, t, v, i)
    BY <2>2 DEF InnerIn
  <2>4. \A j \in 1 .. k : \A i \in 0 .. W[j].ct : off(j) + i \in 0 .. V.ct /\ Child(W[j], i) = Child(V, off(j) + i)
    <3> SUFFICES ASSUME NEW j \in 1 .. k, NEW i \in 0 .. W[j].ct
                 PROVE  off(j) + i \in 0 .. V.ct /\ Child(W[j], i) = Child(V, off(j) + i)
      OBVIOUS
    <3>1. off(j) \in Nat /\ off(j) + W[j].ct = u[j] /\ u[j] <= V.ct /\ W[j].ct \in Nat /\ u[j] \in Nat
      BY <1>1
    <3>2. QED
      BY <1>1, <1>2, <1>7, <3>1
  <2> HIDE DEF PK
  <2>5. \A i \in 0 .. V.ct : \E j \in 1 .. k : off(j) <= i /\ i <= u[j]
    BY <1>7, PieceOfChild DEF off
  <2>6. ASSUME NEW j \in 1 .. k, NEW y \in PK(j)
        PROVE  \E q \in 0 .. V.ct : off(j) <= q /\ q <= u[j] /\ y \in t.K[Child(V, q)]
    <3>1. PICK i \in 0 .. W[j].ct : y \in t.K[Child(W[j], i)]
      BY <2>1, <2>6
    <3>2. off(j) + i \in 0 .. V.ct /\ Child(W[j], i) = Child(V, off(j) + i)
      BY <2>4
    <3>3. off(j) <= off(j) + i /\ off(j) + i <= u[j]
      BY <1>1, <3>2
    <3>4. QED
      BY <3>1, <3>2, <3>3
  <2>7. t.K[v] = UNION { PK(j) : j \in 1 .. k }
    <3>1. \A y : y \in t.K[v] <=> \E q \in 0 .. V.ct : y \in t.K[Child(V, q)]
      BY <2>2 DEF InnerIn
    <3>2. ASSUME NEW q \in 0 .. V.ct, NEW y \in t.K[Child(V, q)] PROVE \E j \in 1 .. k : y \in PK(j)
      <4>1. PICK j \in 1 .. k : off(j) <= q /\ q <= u[j]
        BY <2>5
      <4>2. off(j) \in Nat /\ off(j) + W[j].ct = u[j] /\ W[j].ct \in Nat
        BY <1>1
      <4>3. q - off(j) \in 0 .. W[j].ct /\ off(j) + (q - off(j)) = q
        BY <4>1, <4>2
      <4>4. Child(W[j], q - off(j)) = Child(V, q)
        BY <2>4, <4>3
      <4>5. y \in PK(j)
        BY <2>1, <3>2, <4>3, <4>4
      <4>6. QED
        BY <4>5
    <3>3. \A y : y \in t.K[v] <=> \E j \in 1 .. k : y \in PK(j)
      BY <2>6, <3>1, <3>2
    <3>4. QED
      BY <3>3
  <2>8. \A j \in 1 .. k : PK(j) # {}
    <3> SUFFICES ASSUME NEW j \in 1 .. k PROVE PK(j) # {}
      OBVIOUS
    <3>1. 0 \in 0 .. W[j].ct
      BY <1>1
    <3>2. t.K[Child(W[j], 0)] # {}
      BY <2>3, <2>4, <3>1 DEF ChildIn
    <3>3. QED
      BY <2>1, <3>1, <3>2
  <2>9. ASSUME NEW j \in 1 .. k, NEW y \in PK(j)
        PROVE  /\ j > 1 => V.ent[u[j - 1] + 1].key <= y
               /\ j < k => y < V.ent[u[j] + 1].key
    <3>1. PICK q \in 0 .. V.ct : off(j) <= q /\ q <= u[j] /\ y \in t.K[Child(V, q)]
      BY <2>6, <2>9
    <3>2. Routes(V, q, y) /\ Child(V, q) \in t.T
      BY <2>3, <3>1 DEF ChildIn
    <3>3. y \in Int
      BY <3>1, <3>2
    <3>4. ASSUME j > 1 PROVE V.ent[u[j - 1] + 1].key <= y
      <4>1. u[j - 1] + 1 = off(j) /\ u[j - 1] + 1 \in 1 .. V.ct
        BY <1>1, <1>7, <3>4
      <4>2. q \in 1 .. V.ct /\ q > 0
        BY <1>1, <3>1, <4>1
      <4>3. V.ent[q].key <= y
        BY <3>2, <4>2 DEF Routes
      <4>4. V.ent[u[j - 1] + 1].key <= V.ent[q].key
        BY <1>4, <3>1, <4>1, <4>2
      <4>5. QED
        BY <1>3, <3>3, <4>1, <4>2, <4>3, <4>4
    <3>5. ASSUME j < k PROVE y < V.ent[u[j] + 1].key
      <4>1. u[j] + 1 \in 1 .. V.ct /\ u[j] \in Nat
        BY <1>1, <1>5, <3>5
      <4>2. q < V.ct /\ q + 1 \in 1 .. V.ct /\ q + 1 <= u[j] + 1
        BY <1>1, <3>1, <4>1
      <4>3. y < V.ent[q + 1].key
        BY <3>2, <4>2 DEF Routes
      <4>4. V.ent[q + 1].key <= V.ent[u[j] + 1].key
        BY <1>4, <4>1, <4>2
      <4>5. QED
        BY <1>3, <3>3, <4>1, <4>2, <4>3, <4>4
    <3>6. QED
      BY <3>4, <3>5
  <2>10. \A j \in 2 .. k : \A y \in PK(j) : V.ent[u[j - 1] + 1].key <= y
    <3> SUFFICES ASSUME NEW j \in 2 .. k, NEW y \in PK(j) PROVE V.ent[u[j - 1] + 1].key <= y
      OBVIOUS
    <3>1. j \in 1 .. k /\ j > 1
      BY <1>1
    <3>2. QED
      BY <2>9, <3>1
  <2>11. \A j \in 1 .. (k - 1) : \A y \in PK(j) : y < V.ent[u[j] + 1].key
    <3> SUFFICES ASSUME NEW j \in 1 .. (k - 1), NEW y \in PK(j) PROVE y < V.ent[u[j] + 1].key
      OBVIOUS
    <3>1. j \in 1 .. k /\ j < k
      BY <1>1
    <3>2. QED
      BY <2>9, <3>1
  <2>12. QED
    BY <1>7, <2>7, <2>8, <2>10, <2>11 DEF PK
<1>8. QED
  BY <1>6, <1>7

\* A piece is in the tree that has its children where they now are.
LEMMA PieceInTree ==
  ASSUME NEW t, NEW v, NEW V, IsNode(V), InTree(V, t, v),
         NEW W, NEW k, NEW u, CutAt(V, W, k, u), \A j \in 1 .. k : IsNode(W[j]),
         NEW j \in 1 .. k, NEW s, NEW y, s.K[y] = PieceK(t, V, W, j), s.L[y] = t.L[v],
         ~V.leaf => \A i \in 0 .. W[j].ct : LET c == Child(W[j], i) IN
           /\ c \in s.T /\ s.up[c] = <<y, i>> /\ s.L[c] = t.L[c] /\ s.K[c] = t.K[c]
  PROVE  InTree(W[j], s, y)
<1>1. /\ V.ct \in Nat /\ \A i \in 0 .. k : u[i] \in Nat /\ u[i] <= V.ct
      /\ Off(V, u, j) \in Nat /\ W[j].ct \in Nat /\ Off(V, u, j) + W[j].ct = u[j] /\ W[j].leaf = V.leaf /\ k \in Nat
  BY CutParts
<1>2. /\ \A i \in 1 .. W[j].ct : W[j].ent[i].key = V.ent[Off(V, u, j) + i].key
      /\ ~V.leaf => \A i \in 0 .. W[j].ct : Child(W[j], i) = Child(V, Off(V, u, j) + i)
  BY DEF CutAt
<1> DEFINE o == Off(V, u, j)
           w == W[j]
<1>3. o \in Nat /\ w.ct \in Nat /\ o + w.ct <= V.ct
  BY <1>1
<1> HIDE DEF o
<1>4. CASE V.leaf
  <2>1. t.L[v] = 0 /\ Sorted(V)
    BY <1>4 DEF InTree, LeafIn
  <2>2. Sorted(w)
    <3> SUFFICES ASSUME NEW i \in 1 .. w.ct, NEW l \in 1 .. w.ct, i < l PROVE w.ent[i].key < w.ent[l].key
      BY DEF Sorted
    <3>1. o + i \in 1 .. V.ct /\ o + l \in 1 .. V.ct /\ o + i < o + l
      BY <1>1, <1>3
    <3>2. V.ent[o + i].key < V.ent[o + l].key
      BY <2>1, <3>1 DEF Sorted
    <3>3. QED
      BY <1>2, <3>2 DEF o
  <2>3. QED
    BY <1>1, <1>4, <2>1, <2>2 DEF InTree, LeafIn, PieceK
<1>5. CASE ~V.leaf
  <2>1. InnerIn(V, t, v)
    BY <1>5 DEF InTree
  <2>2. ASSUME NEW i \in 0 .. w.ct PROVE ChildIn(w, s, y, i) /\ s.K[Child(w, i)] = t.K[Child(w, i)]
    <3>1. o + i \in 0 .. V.ct
      BY <1>1, <1>3
    <3>2. ChildIn(V, t, v, o + i)
      BY <2>1, <3>1 DEF InnerIn
    <3> DEFINE c == Child(w, i)
    <3>3. c = Child(V, o + i)
      BY <1>2, <1>5 DEF o
    <3>4. c \in s.T /\ s.up[c] = <<y, i>> /\ s.L[c] = t.L[c] /\ s.K[c] = t.K[c]
      BY <1>5
    <3> HIDE DEF c
    <3>5. c # Root /\ t.L[v] = t.L[c] + 1 /\ t.K[c] # {} /\ \A q \in t.K[c] : Routes(V, o + i, q)
      BY <3>2, <3>3 DEF ChildIn
    <3>6. ASSUME NEW q, Routes(V, o + i, q) PROVE Routes(w, i, q)
      <4>1. ASSUME i > 0 PROVE w.ent[i].key <= q
        <5>1. i \in 1 .. w.ct /\ o + i > 0
          BY <1>3, <4>1
        <5>2. w.ent[i].key = V.ent[o + i].key
          BY <1>2, <5>1 DEF o
        <5>3. QED
          BY <3>6, <5>1, <5>2 DEF Routes
      <4>2. ASSUME i < w.ct PROVE q < w.ent[i + 1].key
        <5>1. i + 1 \in 1 .. w.ct /\ o + i < V.ct /\ o + (i + 1) = (o + i) + 1
          BY <1>1, <1>3, <4>2
        <5>2. w.ent[i + 1].key = V.ent[o + (i + 1)].key
          BY <1>2, <5>1 DEF o
        <5>3. QED
          BY <3>6, <5>1, <5>2 DEF Routes
      <4>3. QED
        BY <4>1, <4>2 DEF Routes
    <3>7. QED
      BY <3>4, <3>5, <3>6 DEF ChildIn, c
  <2>3. { s.K[Child(w, i)] : i \in 0 .. w.ct } = { t.K[Child(w, i)] : i \in 0 .. w.ct }
    BY <2>2
  <2>4. s.K[y] = UNION { s.K[Child(w, i)] : i \in 0 .. w.ct }
    BY <1>5, <2>3 DEF PieceK
  <2>5. QED
    BY <1>1, <1>5, <2>2, <2>4 DEF InTree, InnerIn
<1>6. QED
  BY <1>4, <1>5

\* The parent with the pieces for its child.
LEMMA ParentCut ==
  ASSUME NEW t, NEW a, NEW o, NEW z, NEW p, NEW k, NEW V, NEW u, NEW x, NEW W, NEW s,
         IsNode(o), IsNode(z), IsNode(V), Sorted(V), InTree(o, t, a), InTree(V, t, x[1]),
         CutUnder(o, z, p, k, V, u, x), Between(z, p, k, V, u),
         CutAt(V, W, k, u), \A j \in 1 .. k : IsNode(W[j]), t.K \in [t.T -> SUBSET Int],
         s.K[a] = t.K[a], s.L[a] = t.L[a],
         \A j \in 1 .. k : /\ x[j] \in s.T /\ x[j] # Root /\ s.up[x[j]] = <<a, p + j - 1>>
                           /\ s.L[x[j]] = t.L[x[1]] /\ s.K[x[j]] = PieceK(t, V, W, j),
         \A i \in 0 .. o.ct : i # p =>
           LET c == Child(o, i) IN
           /\ c \in s.T /\ s.up[c] = <<a, IF i < p THEN i ELSE i + k - 1>>
           /\ s.L[c] = t.L[c] /\ s.K[c] = t.K[c]
  PROVE  InTree(z, s, a)
<1>1. /\ ~o.leaf /\ ~z.leaf /\ p \in 0 .. o.ct /\ z.ct = o.ct + k - 1 /\ Child(o, p) = x[1]
      /\ \A i \in 1 .. p : z.ent[i].key = o.ent[i].key
      /\ \A i \in (p + 1) .. o.ct : z.ent[i + k - 1].key = o.ent[i].key
      /\ \A i \in 0 .. (p - 1) : Child(z, i) = Child(o, i)
      /\ \A i \in (p + 1) .. o.ct : Child(z, i + k - 1) = Child(o, i)
      /\ \A j \in 1 .. k : Child(z, p + j - 1) = x[j]
      /\ ~V.leaf => \A j \in 2 .. k : z.ent[p + j - 1].key = V.ent[u[j - 1] + 1].key
      /\ V.leaf => \A j \in 2 .. k : /\ V.ent[u[j - 1]].key < z.ent[p + j - 1].key
                                     /\ z.ent[p + j - 1].key <= V.ent[u[j - 1] + 1].key
  BY DEF CutUnder, Between
<1>2. /\ k \in Nat /\ k > 0 /\ V.ct \in Nat /\ o.ct \in Nat /\ z.ct \in Nat
      /\ \A j \in 2 .. k : u[j - 1] \in 1 .. V.ct /\ u[j - 1] + 1 \in 1 .. V.ct
      /\ \A i \in 1 .. V.ct : V.ent[i].key \in Int
      /\ \A i \in 1 .. z.ct : z.ent[i].key \in Int
      /\ \A i \in 1 .. o.ct : o.ent[i].key \in Int
  BY CutParts, NodeParts
<1>3. InnerIn(o, t, a)
  BY <1>1 DEF InTree
<1>4. x[1] \in t.T /\ t.L[a] = t.L[x[1]] + 1 /\ \A y \in t.K[x[1]] : Routes(o, p, y)
  BY <1>1, <1>3 DEF InnerIn, ChildIn
<1> DEFINE PK(j) == PieceK(t, V, W, j)
<1>5. /\ t.K[x[1]] = UNION { PK(j) : j \in 1 .. k }
      /\ \A j \in 1 .. k : PK(j) # {}
      /\ \A j \in 2 .. k : \A y \in PK(j) : V.ent[u[j - 1] + 1].key <= y
      /\ \A j \in 1 .. (k - 1) : \A y \in PK(j) :
              IF V.leaf THEN y <= V.ent[u[j]].key ELSE y < V.ent[u[j] + 1].key
  BY <1>4, PieceKs
<1> HIDE DEF PK
<1>6. ASSUME NEW i \in 0 .. o.ct, i # p
      PROVE  LET q == IF i < p THEN i ELSE i + k - 1 IN
             q \in 0 .. z.ct /\ ChildIn(z, s, a, q) /\ Child(z, q) = Child(o, i)
  <2> DEFINE q == IF i < p THEN i ELSE i + k - 1
             c == Child(o, i)
  <2>1. ChildIn(o, t, a, i)
    BY <1>3 DEF InnerIn
  <2>2. q \in 0 .. z.ct /\ Child(z, q) = c
    BY <1>1, <1>2, <1>6
  <2>3. c \in s.T /\ s.up[c] = <<a, q>> /\ s.L[c] = t.L[c] /\ s.K[c] = t.K[c]
    BY <1>6
  <2>4. c # Root /\ t.L[a] = t.L[c] + 1 /\ t.K[c] # {} /\ \A y \in t.K[c] : Routes(o, i, y)
    BY <2>1 DEF ChildIn
  <2>5. ASSUME NEW y, Routes(o, i, y) PROVE Routes(z, q, y)
    <3>1. ASSUME q > 0 PROVE z.ent[q].key <= y
      <4>1. i \in 1 .. o.ct /\ z.ent[q].key = o.ent[i].key
        BY <1>1, <1>2, <1>6, <3>1
      <4>2. QED
        BY <2>5, <4>1 DEF Routes
    <3>2. ASSUME q < z.ct PROVE y < z.ent[q + 1].key
      <4>1. i < o.ct /\ i + 1 \in 1 .. o.ct
        BY <1>1, <1>2, <1>6, <3>2
      <4>2. z.ent[q + 1].key = o.ent[i + 1].key
        <5>1. CASE i < p
          BY <1>1, <1>2, <5>1
        <5>2. CASE ~(i < p)
          <6>1. i + 1 \in (p + 1) .. o.ct /\ q + 1 = (i + 1) + k - 1
            BY <1>1, <1>2, <1>6, <4>1, <5>2
          <6>2. QED
            BY <1>1, <6>1
        <5>3. QED
          BY <5>1, <5>2
      <4>3. QED
        BY <2>5, <4>1, <4>2 DEF Routes
    <3> HIDE DEF q
    <3>3. QED
      BY <3>1, <3>2 DEF Routes
  <2> HIDE DEF q, c
  <2>6. ChildIn(z, s, a, q)
    BY <1>4, <2>2, <2>3, <2>4, <2>5 DEF ChildIn
  <2>7. QED
    BY <2>2, <2>6 DEF q, c
<1>7. ASSUME NEW j \in 1 .. k
      PROVE  LET q == p + j - 1 IN q \in 0 .. z.ct /\ ChildIn(z, s, a, q) /\ s.K[Child(z, q)] = PK(j)
  <2> DEFINE q == p + j - 1
  <2>1. q \in 0 .. z.ct /\ Child(z, q) = x[j]
    BY <1>1, <1>2
  <2>2. /\ x[j] \in s.T /\ x[j] # Root /\ s.up[x[j]] = <<a, q>> /\ s.L[x[j]] = t.L[x[1]] /\ s.K[x[j]] = PK(j)
    BY DEF PK
  <2>3. ASSUME NEW y \in PK(j) PROVE Routes(z, q, y)
    <3>0. y \in t.K[x[1]] /\ Routes(o, p, y) /\ y \in Int
      BY <1>4, <1>5
    <3>1. ASSUME q > 0 PROVE z.ent[q].key <= y
      <4>1. CASE j = 1
        <5>1. q = p /\ p \in 1 .. p
          BY <1>1, <1>2, <3>1, <4>1
        <5>2. QED
          BY <1>1, <3>0, <5>1 DEF Routes
      <4>2. CASE j # 1
        <5>1. j \in 2 .. k /\ V.ent[u[j - 1] + 1].key \in Int /\ q \in 1 .. z.ct
          BY <1>2, <2>1, <3>1, <4>2
        <5>2. V.ent[u[j - 1] + 1].key <= y
          BY <1>5, <5>1
        <5>3. z.ent[q].key <= V.ent[u[j - 1] + 1].key
          BY <1>1, <1>2, <5>1
        <5>4. QED
          BY <1>2, <3>0, <5>1, <5>2, <5>3
      <4>3. QED
        BY <4>1, <4>2
    <3>2. ASSUME q < z.ct PROVE y < z.ent[q + 1].key
      <4>1. CASE j = k
        <5>1. p < o.ct /\ p + 1 \in (p + 1) .. o.ct /\ q + 1 = (p + 1) + k - 1
          BY <1>1, <1>2, <3>2, <4>1
        <5>2. z.ent[q + 1].key = o.ent[p + 1].key
          BY <1>1, <5>1
        <5>3. QED
          BY <3>0, <5>1, <5>2 DEF Routes
      <4>2. CASE j # k
        <5>1. j \in 1 .. (k - 1) /\ j + 1 \in 2 .. k /\ (j + 1) - 1 = j /\ q + 1 = p + (j + 1) - 1 /\ q + 1 \in 1 .. z.ct
          BY <1>1, <1>2, <2>1, <3>2, <4>2
        <5>2. V.ent[u[j]].key \in Int /\ V.ent[u[j] + 1].key \in Int /\ z.ent[q + 1].key \in Int
          BY <1>2, <5>1
        <5>3. CASE V.leaf
          <6>1. y <= V.ent[u[j]].key
            BY <1>5, <5>1, <5>3
          <6>2. V.ent[u[j]].key < z.ent[q + 1].key
            BY <1>1, <5>1, <5>3
          <6>3. QED
            BY <3>0, <5>2, <6>1, <6>2
        <5>4. CASE ~V.leaf
          <6>1. y < V.ent[u[j] + 1].key
            BY <1>5, <5>1, <5>4
          <6>2. V.ent[u[j] + 1].key = z.ent[q + 1].key
            BY <1>1, <5>1, <5>4
          <6>3. QED
            BY <6>1, <6>2
        <5>5. QED
          BY <5>3, <5>4
      <4>3. QED
        BY <4>1, <4>2
    <3> HIDE DEF q
    <3>3. QED
      BY <3>1, <3>2 DEF Routes
  <2>4. PK(j) # {}
    BY <1>5
  <2> HIDE DEF q
  <2>5. ChildIn(z, s, a, q)
    BY <1>4, <2>1, <2>2, <2>3, <2>4 DEF ChildIn
  <2>6. s.K[Child(z, q)] = PK(j)
    BY <2>1, <2>2
  <2>7. QED
    BY <2>1, <2>5, <2>6 DEF q
<1>8. ASSUME NEW q \in 0 .. z.ct
      PROVE  \/ \E i \in 0 .. o.ct : i # p /\ q = IF i < p THEN i ELSE i + k - 1
             \/ \E j \in 1 .. k : q = p + j - 1
  <2>1. CASE q < p
    <3>1. q \in 0 .. o.ct /\ q # p
      BY <1>1, <1>2, <2>1
    <3>2. QED
      BY <2>1, <3>1
  <2>2. CASE q >= p /\ q < p + k
    <3>1. q - p + 1 \in 1 .. k /\ q = p + (q - p + 1) - 1
      BY <1>1, <1>2, <2>2
    <3>2. QED
      BY <3>1
  <2>3. CASE q >= p + k
    <3>1. q - (k - 1) \in 0 .. o.ct /\ q - (k - 1) > p /\ q = (q - (k - 1)) + k - 1
      BY <1>1, <1>2, <2>3
    <3>2. QED
      BY <1>1, <1>2, <3>1
  <2>4. QED
    BY <1>1, <1>2, <2>1, <2>2, <2>3
<1>9. \A q \in 0 .. z.ct : ChildIn(z, s, a, q)
  <2> SUFFICES ASSUME NEW q \in 0 .. z.ct PROVE ChildIn(z, s, a, q)
    OBVIOUS
  <2>1. CASE \E i \in 0 .. o.ct : i # p /\ q = IF i < p THEN i ELSE i + k - 1
    BY <1>6, <2>1
  <2>2. CASE \E j \in 1 .. k : q = p + j - 1
    BY <1>7, <2>2
  <2>3. QED
    BY <1>8, <2>1, <2>2
<1>10. \A y : y \in t.K[a] <=> \E i \in 0 .. o.ct : y \in t.K[Child(o, i)]
  BY <1>3 DEF InnerIn
<1>11. \A y : y \in t.K[x[1]] <=> \E j \in 1 .. k : y \in PK(j)
  BY <1>5
<1>12. ASSUME NEW q \in 0 .. z.ct, NEW y \in s.K[Child(z, q)] PROVE y \in t.K[a]
  <2>1. CASE \E i \in 0 .. o.ct : i # p /\ q = IF i < p THEN i ELSE i + k - 1
    <3>1. PICK i \in 0 .. o.ct : i # p /\ q = IF i < p THEN i ELSE i + k - 1
      BY <2>1
    <3>2. s.K[Child(z, q)] = t.K[Child(o, i)]
      BY <1>6, <3>1
    <3>3. QED
      BY <1>10, <1>12, <3>2
  <2>2. CASE \E j \in 1 .. k : q = p + j - 1
    <3>1. PICK j \in 1 .. k : q = p + j - 1
      BY <2>2
    <3>2. y \in PK(j)
      BY <1>7, <1>12, <3>1
    <3>3. QED
      BY <1>1, <1>10, <1>11, <3>2
  <2>3. QED
    BY <1>8, <2>1, <2>2
<1>13. ASSUME NEW y \in t.K[a] PROVE \E q \in 0 .. z.ct : y \in s.K[Child(z, q)]
  <2>1. PICK i \in 0 .. o.ct : y \in t.K[Child(o, i)]
    BY <1>10
  <2>2. CASE i = p
    <3>1. PICK j \in 1 .. k : y \in PK(j)
      BY <1>1, <1>11, <2>1, <2>2
    <3>2. QED
      BY <1>7, <3>1
  <2>3. CASE i # p
    <3> DEFINE q == IF i < p THEN i ELSE i + k - 1
    <3>1. q \in 0 .. z.ct /\ Child(z, q) = Child(o, i) /\ s.K[Child(o, i)] = t.K[Child(o, i)]
      BY <1>6, <2>3
    <3>2. QED
      BY <2>1, <3>1
  <2>4. QED
    BY <2>2, <2>3
<1>14. s.K[a] = UNION { s.K[Child(z, q)] : q \in 0 .. z.ct }
  BY <1>12, <1>13
<1>15. QED
  BY <1>1, <1>9, <1>14 DEF InTree, InnerIn

\* A node of a tree is cut in pieces, of which the first has its address.
CanCut(N, M, t, a, p, k, u, x, W) ==
  /\ IsTree(N, t) /\ a \in t.T /\ t.T \subseteq DOMAIN M /\ IsNode(M[a])
  /\ CutUnder(N[a], M[a], p, k, N[x[1]], u, x) /\ Between(M[a], p, k, N[x[1]], u) /\ CutAt(N[x[1]], W, k, u)
  /\ \A i, j \in 1 .. k : x[i] = x[j] => i = j
  /\ \A j \in 2 .. k : x[j] \notin t.T
  /\ \A j \in 1 .. k : x[j] \in DOMAIN M /\ W[j] = M[x[j]] /\ IsNode(W[j])
  /\ \A b \in t.T \ {a, x[1]} : IsNode(M[b]) /\ Same(M[b], N[b])
IsCut(M, t, s, k, x) ==
  /\ IsTree(M, s) /\ s.T = t.T \cup { x[j] : j \in 1 .. k }
  /\ \A b \in t.T \ {x[1]} : s.K[b] = t.K[b]

\* A node of the tree is cut into pieces, which its parent leads to.
LEMMA CutDown ==
  ASSUME NEW N, NEW M, NEW t, NEW a, NEW p, NEW k, NEW u, NEW x, NEW W, CanCut(N, M, t, a, p, k, u, x, W)
  PROVE  \E s : IsCut(M, t, s, k, x)
<1> SUFFICES ASSUME IsTree(N, t), a \in t.T,
                    CutUnder(N[a], M[a], p, k, N[x[1]], u, x), Between(M[a], p, k, N[x[1]], u), CutAt(N[x[1]], W, k, u),
                    \A i, j \in 1 .. k : x[i] = x[j] => i = j,
                    \A j \in 2 .. k : x[j] \notin t.T,
                    \A j \in 1 .. k : x[j] \in DOMAIN M /\ W[j] = M[x[j]] /\ IsNode(W[j]),
                    t.T \subseteq DOMAIN M, IsNode(M[a]),
                    \A b \in t.T \ {a, x[1]} : IsNode(M[b]) /\ Same(M[b], N[b])
             PROVE  \E s : /\ IsTree(M, s) /\ s.T = t.T \cup { x[j] : j \in 1 .. k }
                           /\ \A b \in t.T \ {x[1]} : s.K[b] = t.K[b]
  BY DEF CanCut, IsCut
<1> DEFINE o == N[a]
           z == M[a]
           v == x[1]
           V == N[x[1]]
           X == { x[j] : j \in 1 .. k }
           num(c) == CHOOSE j \in 1 .. k : x[j] = c
           to == [i \in 0 .. V.ct |-> CHOOSE j \in 1 .. k : Off(V, u, j) <= i /\ i <= u[j]]
           s == [T |-> t.T \cup X,
                 K |-> [c \in t.T \cup X |-> IF c \in X THEN PieceK(t, V, W, num(c)) ELSE t.K[c]],
                 L |-> [c \in t.T \cup X |-> IF c \in X THEN t.L[v] ELSE t.L[c]],
                 up |-> [c \in t.T \cup X |->
                          IF c \in X THEN <<a, p + num(c) - 1>>
                          ELSE IF t.up[c][1] = a THEN <<a, IF t.up[c][2] < p THEN t.up[c][2] ELSE t.up[c][2] + k - 1>>
                          ELSE IF t.up[c][1] = v
                            THEN <<x[to[t.up[c][2]]], t.up[c][2] - Off(V, u, to[t.up[c][2]])>>
                          ELSE t.up[c]]]
<1>1. /\ t.T \subseteq DOMAIN N /\ Root \in t.T /\ t.L \in [t.T -> Nat] /\ t.K \in [t.T -> SUBSET Int]
      /\ \A b \in t.T : IsNode(N[b]) /\ InTree(N[b], t, b)
  BY DEF IsTree
<1>2. ~o.leaf /\ ~z.leaf /\ p \in 0 .. o.ct /\ Child(o, p) = v
  BY DEF CutUnder
<1>3. InnerIn(o, t, a)
  BY <1>1, <1>2 DEF InTree
<1>4. v \in t.T /\ v # Root /\ t.up[v] = <<a, p>> /\ t.L[a] = t.L[v] + 1
  BY <1>2, <1>3 DEF InnerIn, ChildIn
<1>5. v # a /\ t.L[v] \in Nat
  BY <1>1, <1>4
<1>6. k \in Nat /\ k > 0 /\ V.ct \in Nat /\ IsNode(V) /\ InTree(V, t, v) /\ Sorted(V) /\ IsNode(o)
  BY <1>1, <1>4, CutParts, TreeSorted
<1>7. \A j \in 1 .. k : x[j] \in X /\ num(x[j]) = j /\ x[j] # a /\ x[j] # Root
  <2>1. \A j \in 1 .. k : j = 1 \/ j \in 2 .. k
    BY <1>6
  <2>2. QED
    BY <1>1, <1>4, <1>5, <2>1
<1>8. \A c \in t.T : c \in X => c = v
  BY <1>6
<1>9. a \notin X
  BY <1>7
<1>a. ~V.leaf => \A j \in 1 .. k : \A i \in 0 .. V.ct : Off(V, u, j) <= i /\ i <= u[j] => to[i] = j
  <2> SUFFICES ASSUME ~V.leaf, NEW j \in 1 .. k, NEW i \in 0 .. V.ct, Off(V, u, j) <= i, i <= u[j] PROVE to[i] = j
    OBVIOUS
  <2>1. \A l \in 1 .. k : Off(V, u, l) <= i /\ i <= u[l] => l = j
    BY <1>6, PieceOfChild
  <2>2. QED
    BY <2>1
<1> HIDE DEF to
<1> DEFINE PK(j) == PieceK(t, V, W, j)
<1>10. \A j \in 1 .. k : PK(j) \subseteq t.K[v]
  <2>1. t.K[v] = UNION { PK(j) : j \in 1 .. k }
    BY <1>1, <1>4, <1>6, PieceKs
  <2> HIDE DEF PK
  <2>2. QED
    BY <2>1
<1>11. /\ s.T = t.T \cup X
       /\ \A j \in 1 .. k : /\ x[j] \in s.T /\ s.K[x[j]] = PieceK(t, V, W, j) /\ s.L[x[j]] = t.L[v]
                            /\ s.up[x[j]] = <<a, p + j - 1>>
       /\ \A c \in t.T \ {v} : c \in s.T /\ s.K[c] = t.K[c] /\ s.L[c] = t.L[c]
       /\ \A c \in t.T \ {v} :
            s.up[c] = IF t.up[c][1] = a THEN <<a, IF t.up[c][2] < p THEN t.up[c][2] ELSE t.up[c][2] + k - 1>>
                      ELSE IF t.up[c][1] = v THEN <<x[to[t.up[c][2]]], t.up[c][2] - Off(V, u, to[t.up[c][2]])>>
                      ELSE t.up[c]
  BY <1>7, <1>8
<1>12. s.K \in [s.T -> SUBSET Int] /\ s.L \in [s.T -> Nat]
  <2>1. \A c \in X : PieceK(t, V, W, num(c)) \in SUBSET Int
    <3> SUFFICES ASSUME NEW c \in X PROVE PieceK(t, V, W, num(c)) \in SUBSET Int
      OBVIOUS
    <3>1. PICK j \in 1 .. k : c = x[j]
      OBVIOUS
    <3>2. num(c) = j
      BY <1>7, <3>1
    <3>3. t.K[v] \subseteq Int
      BY <1>1, <1>4
    <3>4. QED
      BY <1>10, <3>2, <3>3
  <2> HIDE DEF num
  <2>2. QED
    BY <1>1, <1>5, <2>1
<1> HIDE DEF s, num

\* The children of the nodes of the old tree.
<1>13. ASSUME NEW b \in t.T, ~N[b].leaf, NEW i \in 0 .. N[b].ct
       PROVE  LET c == Child(N[b], i) IN
              /\ c \in t.T /\ t.up[c] = <<b, i>> /\ c # Root /\ ChildIn(N[b], t, b, i)
              /\ (b # a \/ i # p) => c # v
  <2>1. ChildIn(N[b], t, b, i)
    BY <1>1, <1>13 DEF InTree, InnerIn
  <2>2. QED
    BY <1>4, <2>1 DEF ChildIn
<1>14. ASSUME NEW b \in t.T, b # a, b # v PROVE InTree(N[b], s, b)
  <2>1. InTree(N[b], t, b) /\ s.K[b] = t.K[b] /\ s.L[b] = t.L[b]
    BY <1>1, <1>11, <1>14
  <2>2. CASE N[b].leaf
    BY <2>1, <2>2 DEF InTree, LeafIn
  <2>3. CASE ~N[b].leaf
    <3>1. ASSUME NEW i \in 0 .. N[b].ct
          PROVE  ChildIn(N[b], s, b, i) /\ s.K[Child(N[b], i)] = t.K[Child(N[b], i)]
      <4> DEFINE c == Child(N[b], i)
      <4>1. c \in t.T /\ t.up[c] = <<b, i>> /\ c # v /\ ChildIn(N[b], t, b, i)
        BY <1>13, <1>14, <2>3
      <4> HIDE DEF c
      <4>2. t.up[c][1] = b
        BY <4>1
      <4>3. s.up[c] = <<b, i>> /\ c \in s.T /\ s.K[c] = t.K[c] /\ s.L[c] = t.L[c]
        BY <1>11, <1>14, <4>1, <4>2
      <4>4. QED
        BY <2>1, <4>1, <4>3 DEF ChildIn, c
    <3>2. { s.K[Child(N[b], i)] : i \in 0 .. N[b].ct } = { t.K[Child(N[b], i)] : i \in 0 .. N[b].ct }
      BY <3>1
    <3>3. QED
      BY <2>1, <2>3, <3>1, <3>2 DEF InTree, InnerIn
  <2>4. QED
    BY <2>2, <2>3
<1>15. ASSUME NEW b \in t.T, b # a, b # v PROVE IsNode(M[b]) /\ InTree(M[b], s, b)
  BY <1>1, <1>14, <1>15, SameInTree
<1>16. InTree(z, s, a)
  <2>1. s.K[a] = t.K[a] /\ s.L[a] = t.L[a]
    BY <1>5, <1>11
  <2>2. \A j \in 1 .. k : /\ x[j] \in s.T /\ x[j] # Root /\ s.up[x[j]] = <<a, p + j - 1>>
                          /\ s.L[x[j]] = t.L[x[1]] /\ s.K[x[j]] = PieceK(t, V, W, j)
    BY <1>7, <1>11
  <2>3. ASSUME NEW i \in 0 .. o.ct, i # p
        PROVE  LET c == Child(o, i) IN
               /\ c \in s.T /\ s.up[c] = <<a, IF i < p THEN i ELSE i + k - 1>>
               /\ s.L[c] = t.L[c] /\ s.K[c] = t.K[c]
    <3> DEFINE c == Child(o, i)
    <3>1. c \in t.T /\ t.up[c] = <<a, i>> /\ c # v
      BY <1>2, <1>13, <2>3
    <3> HIDE DEF c
    <3>2. t.up[c][1] = a /\ t.up[c][2] = i
      BY <3>1
    <3>3. c \in s.T /\ s.K[c] = t.K[c] /\ s.L[c] = t.L[c]
      BY <1>11, <3>1
    <3>4. s.up[c] = IF t.up[c][1] = a THEN <<a, IF t.up[c][2] < p THEN t.up[c][2] ELSE t.up[c][2] + k - 1>>
                    ELSE IF t.up[c][1] = v THEN <<x[to[t.up[c][2]]], t.up[c][2] - Off(V, u, to[t.up[c][2]])>>
                    ELSE t.up[c]
      BY <1>11, <3>1
    <3>5. s.up[c] = <<a, IF i < p THEN i ELSE i + k - 1>>
      BY <3>2, <3>4
    <3>6. QED
      BY <3>3, <3>5 DEF c
  <2>4. InTree(o, t, a) /\ IsNode(z)
    BY <1>1
  <2>5. QED
    BY <1>1, <1>6, <2>1, <2>2, <2>3, <2>4, ParentCut
<1>17. ASSUME NEW j \in 1 .. k PROVE InTree(M[x[j]], s, x[j])
  <2>1. s.K[x[j]] = PieceK(t, V, W, j) /\ s.L[x[j]] = t.L[v]
    BY <1>11
  <2>2. ASSUME ~V.leaf, NEW i \in 0 .. W[j].ct
        PROVE  LET c == Child(W[j], i) IN
               c \in s.T /\ s.up[c] = <<x[j], i>> /\ s.L[c] = t.L[c] /\ s.K[c] = t.K[c]
    <3> DEFINE c == Child(W[j], i)
    <3>1. PICK q : q = Off(V, u, j) + i
      OBVIOUS
    <3>2. Off(V, u, j) \in Nat /\ W[j].ct \in Nat /\ Off(V, u, j) + W[j].ct = u[j] /\ u[j] \in Nat /\ u[j] <= V.ct
      BY <1>6, CutParts
    <3>3. c = Child(V, q)
      BY <2>2, <3>1 DEF CutAt
    <3>4. q \in 0 .. V.ct /\ Off(V, u, j) <= q /\ q <= u[j] /\ q - Off(V, u, j) = i
      BY <1>6, <3>1, <3>2
    <3>5. to[q] = j
      BY <1>a, <2>2, <3>4
    <3> HIDE DEF c
    <3>6. c \in t.T /\ t.up[c] = <<v, q>> /\ c # v
      BY <1>4, <1>5, <1>13, <2>2, <3>3, <3>4
    <3>7. t.up[c][1] = v /\ t.up[c][2] = q
      BY <3>6
    <3>b. c \in t.T \ {v} /\ ~(v = a)
      BY <1>5, <3>6
    <3>c. s.up[c] = IF v = a THEN <<a, IF q < p THEN q ELSE q + k - 1>>
                      ELSE IF v = v THEN <<x[to[q]], q - Off(V, u, to[q])>> ELSE t.up[c]
      BY <1>11, <3>b, <3>7
    <3>d. s.up[c] = <<x[to[q]], q - Off(V, u, to[q])>>
      BY <3>b, <3>c
    <3>8. s.up[c] = <<x[j], i>>
      BY <3>4, <3>5, <3>d
    <3>9. QED
      BY <1>11, <3>6, <3>8 DEF c
  <2>3. InTree(W[j], s, x[j])
    BY <1>6, <2>1, <2>2, PieceInTree
  <2>4. QED
    BY <2>3
<1>18. \A b \in s.T : IsNode(M[b]) /\ InTree(M[b], s, b)
  <2> SUFFICES ASSUME NEW b \in s.T PROVE IsNode(M[b]) /\ InTree(M[b], s, b)
    OBVIOUS
  <2>1. CASE b \in X
    BY <1>17, <2>1
  <2>2. CASE b = a
    BY <1>16, <2>2
  <2>3. CASE b \notin X /\ b # a
    <3>1. b \in t.T /\ b # v
      BY <1>7, <1>6, <1>11, <2>3
    <3>2. QED
      BY <1>15, <2>3, <3>1
  <2>4. QED
    BY <2>1, <2>2, <2>3
<1>19. s.T \subseteq DOMAIN M /\ Root \in s.T
  BY <1>1, <1>11
<1>20. IsTree(M, s)
  BY <1>12, <1>18, <1>19 DEF IsTree
<1>21. QED
  BY <1>11, <1>20

\* The keys of the pieces at x, and keys between them.
AllKeys(t, x, k) == UNION { t.K[x[j]] : j \in 1 .. k }
Apart(t, x, k, sep) ==
  \A j \in 2 .. k : /\ sep[j] \in Int /\ \A y \in t.K[x[j]] : sep[j] <= y
                    /\ \A y \in t.K[x[j - 1]] : y < sep[j]

\* The children of the pieces have V above them at v.
PiecesUnder(V, W, k, u, t, s, v) ==
  ~V.leaf => \A j \in 1 .. k : \A i \in 0 .. W[j].ct : LET c == Child(W[j], i) IN
    /\ c \in s.T /\ s.up[c] = <<v, Off(V, u, j) + i>> /\ s.L[c] = t.L[c] /\ s.K[c] = t.K[c]

\* Pieces put together again are in the tree that has their children under them.
LEMMA JoinedInTree ==
  ASSUME NEW t, NEW s, NEW x, NEW v, NEW V, IsNode(V), NEW W, NEW k, NEW u, CutAt(V, W, k, u),
         \A j \in 1 .. k : IsNode(W[j]) /\ InTree(W[j], t, x[j]) /\ t.L[x[j]] = s.L[v] /\ t.K[x[j]] \subseteq Int,
         NEW sep,
         Apart(t, x, k, sep),
         ~V.leaf => \A j \in 2 .. k : sep[j] = V.ent[u[j - 1] + 1].key,
         s.K[v] = AllKeys(t, x, k),
         PiecesUnder(V, W, k, u, t, s, v)
  PROVE  InTree(V, s, v)
<1> DEFINE off(j) == Off(V, u, j)
<1>1. /\ k \in Nat /\ k > 0 /\ V.ct \in Nat /\ \A j \in 0 .. k : u[j] \in Nat /\ u[j] <= V.ct
      /\ \A j \in 1 .. k : /\ off(j) \in Nat /\ (V.leaf \/ j = 1 => off(j) = u[j - 1])
                           /\ (~V.leaf /\ j > 1 => off(j) = u[j - 1] + 1)
                           /\ W[j].ct \in Nat /\ W[j].ct > 0 /\ off(j) + W[j].ct = u[j] /\ W[j].leaf = V.leaf
  BY CutParts
<1>2. /\ u[0] = 0 /\ u[k] = V.ct /\ u \in [0 .. k -> Nat]
      /\ \A j \in 1 .. k : \A i \in 1 .. W[j].ct : W[j].ent[i].key = V.ent[off(j) + i].key
      /\ ~V.leaf => \A j \in 1 .. k : \A i \in 0 .. W[j].ct : Child(W[j], i) = Child(V, off(j) + i)
  BY DEF CutAt
<1>3. 1 \in 1 .. k /\ \A i \in 1 .. V.ct : V.ent[i].key \in Int
  BY <1>1, NodeParts
<1> HIDE DEF off
<1>a. /\ \A y : y \in s.K[v] <=> \E j \in 1 .. k : y \in t.K[x[j]]
      /\ s.K[v] = UNION { t.K[x[j]] : j \in 1 .. k }
  BY DEF AllKeys
<1>b. \A j \in 2 .. k : /\ sep[j] \in Int /\ \A y \in t.K[x[j]] : sep[j] <= y
                        /\ \A y \in t.K[x[j - 1]] : y < sep[j]
  BY DEF Apart
<1>4. CASE V.leaf
  <2>1. \A j \in 1 .. k : LeafIn(W[j], t, x[j])
    BY <1>1, <1>4 DEF InTree
  <2>2. s.L[v] = 0
    BY <1>3, <2>1 DEF LeafIn
  <2>3. s.K[v] = KeysOf(V)
    <3>1. \A j \in 1 .. k : t.K[x[j]] = KeysOf(W[j])
      BY <2>1 DEF LeafIn
    <3>2. { t.K[x[j]] : j \in 1 .. k } = { KeysOf(W[j]) : j \in 1 .. k }
      BY <3>1
    <3>3. KeysOf(V) = UNION { KeysOf(W[j]) : j \in 1 .. k }
      BY <1>4, PieceKeys
    <3>4. QED
      BY <1>a, <3>2, <3>3
  <2>4. ASSUME NEW i \in 1 .. (V.ct - 1) PROVE V.ent[i].key < V.ent[i + 1].key
    <3>1. i \in 0 .. u[k] /\ i \in 1 .. V.ct /\ i + 1 \in 1 .. V.ct
      BY <1>1, <1>2
    <3>2. PICK j \in 1 .. k : i <= u[j] /\ (j = 1 \/ u[j - 1] < i)
      BY <1>1, <1>2, <3>1, PieceOf
    <3>c. off(j) = u[j - 1] /\ off(j) \in Nat /\ W[j].ct \in Nat /\ off(j) + W[j].ct = u[j]
      BY <1>1, <1>4
    <3>d. j \in 0 .. k
      BY <1>1
    <3>a. off(j) = u[j - 1] /\ off(j) \in Nat /\ W[j].ct \in Nat /\ off(j) + W[j].ct = u[j] /\ u[j] \in Nat
      BY <1>1, <3>c, <3>d
    <3>b. off(j) < i
      BY <1>2, <3>1, <3>2, <3>a
    <3>3. i - off(j) \in 1 .. W[j].ct /\ off(j) + (i - off(j)) = i
      BY <3>1, <3>2, <3>a, <3>b
    <3>4. W[j].ent[i - off(j)].key = V.ent[i].key
      BY <1>2, <3>3
    <3>5. CASE i < u[j]
      <4>1. i + 1 - off(j) \in 1 .. W[j].ct /\ off(j) + (i + 1 - off(j)) = i + 1 /\ i - off(j) < i + 1 - off(j)
        BY <3>1, <3>a, <3>b, <3>5
      <4>2. W[j].ent[i + 1 - off(j)].key = V.ent[i + 1].key
        BY <1>2, <4>1
      <4>3. W[j].ent[i - off(j)].key < W[j].ent[i + 1 - off(j)].key
        BY <2>1, <3>3, <4>1 DEF LeafIn, Sorted
      <4>4. QED
        BY <3>4, <4>2, <4>3
    <3>6. CASE i = u[j]
      <4>1. j # k /\ j + 1 \in 2 .. k /\ j + 1 \in 1 .. k /\ (j + 1) - 1 = j
        BY <1>1, <1>2, <3>1, <3>6
      <4>a. off(j + 1) = u[(j + 1) - 1] /\ W[j + 1].ct \in Nat /\ W[j + 1].ct > 0
        BY <1>1, <1>4, <4>1
      <4>2. off(j + 1) = i /\ 1 \in 1 .. W[j + 1].ct
        BY <3>6, <4>1, <4>a
      <4>3. W[j + 1].ent[1].key = V.ent[i + 1].key
        BY <1>2, <4>1, <4>2
      <4>4. W[j].ent[i - off(j)].key \in t.K[x[j]] /\ W[j + 1].ent[1].key \in t.K[x[j + 1]]
        BY <2>1, <3>3, <4>1, <4>2 DEF LeafIn, KeysOf
      <4>5. V.ent[i].key < sep[j + 1] /\ sep[j + 1] <= V.ent[i + 1].key /\ sep[j + 1] \in Int
        BY <1>b, <3>4, <4>1, <4>3, <4>4
      <4>6. QED
        BY <1>3, <3>1, <4>5
    <3>7. QED
      BY <3>1, <3>2, <3>5, <3>6, <3>a
  <2>5. Sorted(V)
    BY <2>4, SortedChain
  <2>6. QED
    BY <1>4, <2>2, <2>3, <2>5 DEF InTree, LeafIn
<1>5. CASE ~V.leaf
  <2>1. \A j \in 1 .. k : InnerIn(W[j], t, x[j])
    BY <1>1, <1>5 DEF InTree
  <2>2. ASSUME NEW i \in 0 .. V.ct
        PROVE  \E j \in 1 .. k : \E m \in 0 .. W[j].ct : i = off(j) + m
    <3>1. PICK j \in 1 .. k : off(j) <= i /\ i <= u[j]
      BY <1>5, PieceOfChild DEF off
    <3>2. off(j) \in Nat /\ W[j].ct \in Nat /\ off(j) + W[j].ct = u[j]
      BY <1>1
    <3>3. i - off(j) \in 0 .. W[j].ct /\ i = off(j) + (i - off(j))
      BY <3>1, <3>2
    <3>4. QED
      BY <3>3
  <2>3. ASSUME NEW j \in 1 .. k, NEW m \in 0 .. W[j].ct
        PROVE  /\ off(j) + m \in 0 .. V.ct /\ ChildIn(V, s, v, off(j) + m)
               /\ Child(V, off(j) + m) = Child(W[j], m) /\ s.K[Child(W[j], m)] = t.K[Child(W[j], m)]
    <3> DEFINE c == Child(W[j], m)
    <3>1. PICK i : i = off(j) + m
      OBVIOUS
    <3>2. off(j) \in Nat /\ W[j].ct \in Nat /\ off(j) + W[j].ct = u[j] /\ u[j] \in Nat /\ u[j] <= V.ct /\ W[j].ct > 0
      BY <1>1
    <3>3. i \in 0 .. V.ct /\ m \in Nat
      BY <1>1, <3>1, <3>2
    <3>4. Child(V, i) = c /\ c \in s.T /\ s.up[c] = <<v, i>> /\ s.L[c] = t.L[c] /\ s.K[c] = t.K[c]
      BY <1>2, <1>5, <3>1 DEF off, PiecesUnder
    <3>5. ChildIn(W[j], t, x[j], m) /\ t.K[c] \subseteq t.K[x[j]]
      BY <2>1 DEF InnerIn
    <3> HIDE DEF c
    <3>6. c # Root /\ t.L[x[j]] = t.L[c] + 1 /\ t.K[c] # {} /\ \A y \in t.K[c] : Routes(W[j], m, y)
      BY <3>5 DEF ChildIn, c
    <3>7. ASSUME NEW y \in t.K[c] PROVE Routes(V, i, y)
      <4>0. y \in t.K[x[j]] /\ Routes(W[j], m, y) /\ y \in Int
        BY <3>5, <3>6
      <4>1. ASSUME i > 0 PROVE V.ent[i].key <= y
        <5>1. CASE m > 0
          <6>1. m \in 1 .. W[j].ct /\ W[j].ent[m].key = V.ent[i].key
            BY <1>2, <3>1, <3>3, <5>1
          <6>2. QED
            BY <4>0, <6>1, <5>1 DEF Routes
        <5>2. CASE ~(m > 0)
          <6>1. off(j) = i /\ i > 0
            BY <3>1, <3>2, <3>3, <4>1, <5>2
          <6>2. j # 1
            <7>1. j = 1 => off(j) = u[0]
              BY <1>1
            <7>2. QED
              BY <1>2, <6>1, <7>1
          <6>3. j \in 2 .. k /\ i = u[j - 1] + 1
            BY <1>1, <1>5, <6>1, <6>2
          <6>4. sep[j] = V.ent[i].key
            BY <1>5, <6>3
          <6>5. QED
            BY <1>b, <4>0, <6>3, <6>4
        <5>3. QED
          BY <5>1, <5>2
      <4>2. ASSUME i < V.ct PROVE y < V.ent[i + 1].key
        <5>1. CASE m < W[j].ct
          <6>1. m + 1 \in 1 .. W[j].ct /\ i + 1 = off(j) + (m + 1)
            BY <3>1, <3>2, <3>3, <5>1
          <6>2. W[j].ent[m + 1].key = V.ent[i + 1].key
            BY <1>2, <6>1
          <6>3. QED
            BY <4>0, <6>2, <5>1 DEF Routes
        <5>2. CASE ~(m < W[j].ct)
          <6>1. i = u[j] /\ j # k
            BY <1>2, <3>1, <3>2, <3>3, <4>2, <5>2
          <6>a. k \in Nat /\ j \in 1 .. k /\ j # k
            BY <1>1, <6>1
          <6>2. j + 1 \in 2 .. k /\ (j + 1) - 1 = j
            BY <6>a
          <6>3. sep[j + 1] = V.ent[i + 1].key
            BY <1>5, <6>1, <6>2
          <6>4. y < sep[j + 1]
            BY <1>b, <4>0, <6>2
          <6>5. QED
            BY <6>3, <6>4
        <5>3. QED
          BY <5>1, <5>2
      <4>3. QED
        BY <4>1, <4>2 DEF Routes
    <3>8. ChildIn(V, s, v, i)
      <4>1. s.L[v] = s.L[c] + 1
        BY <3>4, <3>6
      <4>2. QED
        BY <3>4, <3>6, <3>7, <4>1 DEF ChildIn
    <3>9. QED
      BY <3>1, <3>3, <3>4, <3>8 DEF c
  <2>4. \A i \in 0 .. V.ct : ChildIn(V, s, v, i)
    BY <2>2, <2>3
  <2>5. \A y : y \in s.K[v] <=> \E i \in 0 .. V.ct : y \in s.K[Child(V, i)]
    <3>1. ASSUME NEW y \in s.K[v] PROVE \E i \in 0 .. V.ct : y \in s.K[Child(V, i)]
      <4>1. PICK j \in 1 .. k : y \in t.K[x[j]]
        BY <1>a, <3>1
      <4>2. PICK m \in 0 .. W[j].ct : y \in t.K[Child(W[j], m)]
        BY <2>1, <4>1 DEF InnerIn
      <4>3. QED
        BY <2>3, <4>2
    <3>2. ASSUME NEW i \in 0 .. V.ct, NEW y \in s.K[Child(V, i)] PROVE y \in s.K[v]
      <4>0. PICK j \in 1 .. k : \E m \in 0 .. W[j].ct : i = off(j) + m
        BY <2>2
      <4>1. PICK m \in 0 .. W[j].ct : i = off(j) + m
        BY <4>0
      <4>2. y \in t.K[Child(W[j], m)]
        BY <2>3, <3>2, <4>1
      <4>a. t.K[x[j]] = UNION { t.K[Child(W[j], l)] : l \in 0 .. W[j].ct }
        BY <2>1 DEF InnerIn
      <4>3. y \in t.K[x[j]]
        BY <4>2, <4>a
      <4>4. QED
        BY <1>a, <4>3
    <3>3. QED
      BY <3>1, <3>2
  <2> DEFINE below(i) == s.K[Child(V, i)]
             all == s.K[v]
  <2>a. \A y : y \in all <=> \E i \in 0 .. V.ct : y \in below(i)
    BY <2>5
  <2> HIDE DEF below, all
  <2>b. all = UNION { below(i) : i \in 0 .. V.ct }
    BY <2>a
  <2>6. s.K[v] = UNION { s.K[Child(V, i)] : i \in 0 .. V.ct }
    BY <2>b DEF below, all
  <2>7. QED
    BY <1>5, <2>4, <2>6 DEF InTree, InnerIn
<1>6. QED
  BY <1>4, <1>5

\* The children of o but child p stay, and have o above them at a.
OthersUnder(o, p, t, s, a) ==
  \A i \in 0 .. o.ct : i # p =>
    LET c == Child(o, i) IN
    /\ c \in s.T /\ s.up[c] = <<a, i>> /\ s.L[c] = t.L[c] /\ s.K[c] = t.K[c]

\* The parent with one child for the pieces.
LEMMA ParentJoined ==
  ASSUME NEW t, NEW a, NEW o, NEW z, NEW p, NEW k, NEW V, NEW u, NEW x, NEW s,
         IsNode(o), IsNode(z), Sorted(z), InTree(z, t, a), k \in Nat, k > 0,
         CutUnder(o, z, p, k, V, u, x), t.K \in [t.T -> SUBSET Int],
         s.K[a] = t.K[a], s.L[a] = t.L[a],
         x[1] \in s.T, s.up[x[1]] = <<a, p>>, s.L[x[1]] = t.L[x[1]],
         s.K[x[1]] = AllKeys(t, x, k),
         OthersUnder(o, p, t, s, a)
  PROVE  InTree(o, s, a)
<1>1. /\ ~o.leaf /\ ~z.leaf /\ p \in 0 .. o.ct /\ z.ct = o.ct + k - 1 /\ Child(o, p) = x[1]
      /\ \A i \in 1 .. p : z.ent[i].key = o.ent[i].key
      /\ \A i \in (p + 1) .. o.ct : z.ent[i + k - 1].key = o.ent[i].key
      /\ \A i \in 0 .. (p - 1) : Child(z, i) = Child(o, i)
      /\ \A i \in (p + 1) .. o.ct : Child(z, i + k - 1) = Child(o, i)
      /\ \A j \in 1 .. k : Child(z, p + j - 1) = x[j]
  BY DEF CutUnder
<1>2. /\ o.ct \in Nat /\ z.ct \in Nat
      /\ \A i \in 1 .. z.ct : z.ent[i].key \in Int
  BY NodeParts
<1>3. InnerIn(z, t, a)
  BY <1>1 DEF InTree
<1>4. ASSUME NEW j \in 1 .. k
      PROVE  /\ p + j - 1 \in 0 .. z.ct /\ x[j] \in t.T /\ x[j] # Root /\ t.L[a] = t.L[x[j]] + 1 /\ t.K[x[j]] # {}
             /\ \A y \in t.K[x[j]] : Routes(z, p + j - 1, y)
  <2>1. p + j - 1 \in 0 .. z.ct /\ Child(z, p + j - 1) = x[j]
    BY <1>1, <1>2
  <2>2. ChildIn(z, t, a, p + j - 1)
    BY <1>3, <2>1 DEF InnerIn
  <2>3. QED
    BY <2>1, <2>2 DEF ChildIn
<1>5. \A i, j \in 1 .. z.ct : i <= j => z.ent[i].key <= z.ent[j].key
  BY <1>2 DEF Sorted
<1>a. \A y : y \in s.K[x[1]] <=> \E j \in 1 .. k : y \in t.K[x[j]]
  BY DEF AllKeys
<1>6. ChildIn(o, s, a, p)
  <2>1. x[1] # Root /\ t.L[a] = t.L[x[1]] + 1 /\ t.K[x[1]] # {} /\ 1 \in 1 .. k
    BY <1>4
  <2>2. s.K[x[1]] # {}
    BY <1>a, <2>1
  <2>3. ASSUME NEW y \in s.K[x[1]] PROVE Routes(o, p, y)
    <3>1. PICK j \in 1 .. k : y \in t.K[x[j]]
      BY <1>a, <2>3
    <3> DEFINE q == p + j - 1
    <3>2. q \in 0 .. z.ct /\ Routes(z, q, y) /\ x[j] \in t.T
      BY <1>4, <3>1
    <3>3. y \in Int
      BY <3>1, <3>2
    <3>4. ASSUME p > 0 PROVE o.ent[p].key <= y
      <4>1. p \in 1 .. z.ct /\ q \in 1 .. z.ct /\ p <= q /\ p \in 1 .. p
        BY <1>1, <1>2, <3>2, <3>4
      <4>2. z.ent[p].key <= z.ent[q].key /\ z.ent[p].key = o.ent[p].key
        BY <1>1, <1>5, <4>1
      <4>3. z.ent[q].key <= y
        BY <3>2, <4>1 DEF Routes
      <4>4. QED
        BY <1>2, <3>3, <4>1, <4>2, <4>3
    <3>5. ASSUME p < o.ct PROVE y < o.ent[p + 1].key
      <4>1. p + 1 \in (p + 1) .. o.ct /\ p + k \in 1 .. z.ct /\ (p + 1) + k - 1 = p + k
            /\ q < z.ct /\ q + 1 \in 1 .. z.ct /\ q + 1 <= p + k
        BY <1>1, <1>2, <3>2, <3>5
      <4>2. z.ent[q + 1].key <= z.ent[p + k].key /\ z.ent[p + k].key = o.ent[p + 1].key
        BY <1>1, <1>5, <4>1
      <4>3. y < z.ent[q + 1].key
        BY <3>2, <4>1 DEF Routes
      <4>4. QED
        BY <1>2, <3>3, <4>1, <4>2, <4>3
    <3>6. QED
      BY <3>4, <3>5 DEF Routes
  <2>4. QED
    BY <1>1, <2>1, <2>2, <2>3 DEF ChildIn
<1>7. ASSUME NEW i \in 0 .. o.ct, i # p
      PROVE  LET q == IF i < p THEN i ELSE i + k - 1 IN
             ChildIn(o, s, a, i) /\ q \in 0 .. z.ct /\ Child(z, q) = Child(o, i)
  <2> DEFINE q == IF i < p THEN i ELSE i + k - 1
             c == Child(o, i)
  <2>1. q \in 0 .. z.ct /\ Child(z, q) = c
    BY <1>1, <1>2, <1>7
  <2>2. ChildIn(z, t, a, q)
    BY <1>3, <2>1 DEF InnerIn
  <2>3. c \in s.T /\ s.up[c] = <<a, i>> /\ s.L[c] = t.L[c] /\ s.K[c] = t.K[c]
    BY <1>7 DEF OthersUnder
  <2>4. c # Root /\ t.L[a] = t.L[c] + 1 /\ t.K[c] # {} /\ \A y \in t.K[c] : Routes(z, q, y)
    BY <2>1, <2>2 DEF ChildIn
  <2>5. ASSUME NEW y, Routes(z, q, y) PROVE Routes(o, i, y)
    <3>1. ASSUME i > 0 PROVE o.ent[i].key <= y
      <4>1. q > 0 /\ z.ent[q].key = o.ent[i].key
        BY <1>1, <1>2, <1>7, <3>1
      <4>2. QED
        BY <2>5, <4>1 DEF Routes
    <3>2. ASSUME i < o.ct PROVE y < o.ent[i + 1].key
      <4>1. q < z.ct
        BY <1>1, <1>2, <1>7, <3>2
      <4>2. z.ent[q + 1].key = o.ent[i + 1].key
        <5>1. CASE i < p
          BY <1>1, <1>2, <5>1
        <5>2. CASE ~(i < p)
          <6>1. i + 1 \in (p + 1) .. o.ct /\ q + 1 = (i + 1) + k - 1
            BY <1>1, <1>2, <1>7, <3>2, <5>2
          <6>2. QED
            BY <1>1, <6>1
        <5>3. QED
          BY <5>1, <5>2
      <4>3. QED
        BY <2>5, <4>1, <4>2 DEF Routes
    <3>3. QED
      BY <3>1, <3>2 DEF Routes
  <2> HIDE DEF q, c
  <2>6. ChildIn(o, s, a, i)
    BY <2>3, <2>4, <2>5 DEF ChildIn, c
  <2>7. QED
    BY <2>1, <2>6 DEF q, c
<1>8. \A i \in 0 .. o.ct : ChildIn(o, s, a, i)
  BY <1>6, <1>7
<1> DEFINE old(q) == t.K[Child(z, q)]
           new(i) == s.K[Child(o, i)]
           all == t.K[a]
<1>9. \A y : y \in all <=> \E q \in 0 .. z.ct : y \in old(q)
  BY <1>3 DEF InnerIn
<1>10. ASSUME NEW y, NEW i \in 0 .. o.ct, y \in new(i) PROVE y \in all
  <2>1. CASE i = p
    <3>1. PICK j \in 1 .. k : y \in t.K[x[j]]
      BY <1>1, <1>10, <1>a, <2>1
    <3>2. p + j - 1 \in 0 .. z.ct /\ y \in old(p + j - 1)
      BY <1>1, <1>4, <3>1
    <3> HIDE DEF old, all
    <3>3. QED
      BY <1>9, <3>2
  <2>2. CASE i # p
    <3> DEFINE q == IF i < p THEN i ELSE i + k - 1
    <3>1. q \in 0 .. z.ct /\ y \in old(q)
      BY <1>7, <1>10, <2>2 DEF OthersUnder
    <3> HIDE DEF old, all, q
    <3>2. QED
      BY <1>9, <3>1
  <2>3. QED
    BY <2>1, <2>2
<1>11. ASSUME NEW y, NEW q \in 0 .. z.ct, y \in old(q) PROVE \E i \in 0 .. o.ct : y \in new(i)
  <2>1. CASE q < p
    <3>1. q \in 0 .. o.ct /\ q # p
      BY <1>1, <1>2, <2>1
    <3>2. y \in new(q)
      BY <1>7, <1>11, <2>1, <3>1 DEF OthersUnder
    <3>3. QED
      BY <3>1, <3>2
  <2>2. CASE q >= p /\ q < p + k
    <3>1. q - p + 1 \in 1 .. k /\ q = p + (q - p + 1) - 1
      BY <1>1, <1>2, <2>2
    <3>2. y \in t.K[x[q - p + 1]]
      BY <1>1, <1>11, <3>1
    <3>3. y \in new(p)
      BY <1>1, <1>a, <3>1, <3>2
    <3>4. QED
      BY <1>1, <3>3
  <2>3. CASE q >= p + k
    <3> DEFINE i == q - (k - 1)
    <3>1. i \in 0 .. o.ct /\ i # p /\ ~(i < p) /\ q = i + k - 1
      BY <1>1, <1>2, <2>3
    <3> HIDE DEF i
    <3>2. y \in new(i)
      BY <1>7, <1>11, <3>1 DEF OthersUnder
    <3>3. QED
      BY <3>1, <3>2
  <2>4. QED
    BY <1>1, <1>2, <2>1, <2>2, <2>3
<1> HIDE DEF old, new, all
<1>12. \A y : y \in all <=> \E i \in 0 .. o.ct : y \in new(i)
  BY <1>9, <1>10, <1>11
<1>13. all = UNION { new(i) : i \in 0 .. o.ct }
  BY <1>12
<1>14. s.K[a] = UNION { s.K[Child(o, i)] : i \in 0 .. o.ct }
  BY <1>13 DEF all, new
<1>15. QED
  BY <1>1, <1>8, <1>14 DEF InTree, InnerIn

\* Neighbours are put together in a node at the first one's address.
CanJoin(N, M, t, a, p, k, u, x, W) ==
  /\ IsTree(N, t) /\ a \in t.T /\ t.T \ { x[j] : j \in 2 .. k } \subseteq DOMAIN M /\ IsNode(M[a]) /\ IsNode(M[x[1]])
  /\ CutUnder(M[a], N[a], p, k, M[x[1]], u, x) /\ CutAt(M[x[1]], W, k, u)
  /\ \A i, j \in 1 .. k : x[i] = x[j] => i = j
  /\ \A j \in 1 .. k : W[j] = N[x[j]]
  /\ \A b \in t.T \ ({a} \cup { x[j] : j \in 1 .. k }) : IsNode(M[b]) /\ Same(M[b], N[b])
IsJoined(M, t, s, k, x) ==
  /\ IsTree(M, s) /\ s.T = t.T \ { x[j] : j \in 2 .. k }
  /\ \A b \in s.T \ {x[1]} : s.K[b] = t.K[b]
  /\ s.K[x[1]] = AllKeys(t, x, k)

\* Neighbours are joined to one node, and their parent leads to it.
LEMMA CutUp ==
  ASSUME NEW N, NEW M, NEW t, NEW a, NEW p, NEW k, NEW u, NEW x, NEW W, CanJoin(N, M, t, a, p, k, u, x, W)
  PROVE  \E s : IsJoined(M, t, s, k, x)
<1> SUFFICES ASSUME IsTree(N, t), a \in t.T,
                    CutUnder(M[a], N[a], p, k, M[x[1]], u, x), CutAt(M[x[1]], W, k, u),
                    \A i, j \in 1 .. k : x[i] = x[j] => i = j,
                    \A j \in 1 .. k : W[j] = N[x[j]],
                    t.T \ { x[j] : j \in 2 .. k } \subseteq DOMAIN M, IsNode(M[a]), IsNode(M[x[1]]),
                    \A b \in t.T \ ({a} \cup { x[j] : j \in 1 .. k }) : IsNode(M[b]) /\ Same(M[b], N[b])
             PROVE  \E s : /\ IsTree(M, s) /\ s.T = t.T \ { x[j] : j \in 2 .. k }
                           /\ \A b \in s.T \ {x[1]} : s.K[b] = t.K[b]
                           /\ s.K[x[1]] = AllKeys(t, x, k)
  BY DEF CanJoin, IsJoined
<1> DEFINE z == N[a]
           o == M[a]
           v == x[1]
           V == M[x[1]]
           X == { x[j] : j \in 1 .. k }
           gone == { x[j] : j \in 2 .. k }
           all == AllKeys(t, x, k)
           num == [c \in X |-> CHOOSE j \in 1 .. k : x[j] = c]
           s == [T |-> t.T \ gone,
                 K |-> [c \in t.T \ gone |-> IF c = v THEN all ELSE t.K[c]],
                 L |-> [c \in t.T \ gone |-> t.L[c]],
                 up |-> [c \in t.T \ gone |->
                          IF t.up[c][1] = a THEN <<a, IF t.up[c][2] <= p THEN t.up[c][2] ELSE t.up[c][2] - (k - 1)>>
                          ELSE IF t.up[c][1] \in X
                            THEN <<v, Off(V, u, num[t.up[c][1]]) + t.up[c][2]>>
                          ELSE t.up[c]]]
<1>1. /\ t.T \subseteq DOMAIN N /\ Root \in t.T /\ t.L \in [t.T -> Nat] /\ t.K \in [t.T -> SUBSET Int]
      /\ \A b \in t.T : IsNode(N[b]) /\ InTree(N[b], t, b)
  BY DEF IsTree
<1>2. /\ ~o.leaf /\ ~z.leaf /\ p \in 0 .. o.ct /\ z.ct = o.ct + k - 1
      /\ \A j \in 1 .. k : Child(z, p + j - 1) = x[j]
      /\ \A i \in 0 .. (p - 1) : Child(z, i) = Child(o, i)
      /\ \A i \in (p + 1) .. o.ct : Child(z, i + k - 1) = Child(o, i)
  BY DEF CutUnder
<1>3. InnerIn(z, t, a)
  BY <1>1, <1>2 DEF InTree
<1>4. k \in Nat /\ k > 0 /\ V.ct \in Nat /\ o.ct \in Nat /\ z.ct \in Nat
  <2>1. k \in Nat /\ k > 0
    BY DEF CutAt
  <2>2. QED
    BY <1>1, <2>1, NodeParts
<1>5. ASSUME NEW j \in 1 .. k
      PROVE  /\ p + j - 1 \in 0 .. z.ct /\ x[j] \in t.T /\ x[j] # Root /\ t.up[x[j]] = <<a, p + j - 1>>
             /\ t.L[a] = t.L[x[j]] + 1 /\ \A y \in t.K[x[j]] : Routes(z, p + j - 1, y)
             /\ x[j] # a /\ t.L[x[j]] = t.L[x[1]] /\ IsNode(W[j]) /\ W[j] = N[x[j]]
  <2>1. p + j - 1 \in 0 .. z.ct /\ Child(z, p + j - 1) = x[j] /\ p + 1 - 1 \in 0 .. z.ct /\ Child(z, p + 1 - 1) = x[1]
    BY <1>2, <1>4
  <2>2. ChildIn(z, t, a, p + j - 1) /\ ChildIn(z, t, a, p + 1 - 1)
    BY <1>3, <2>1 DEF InnerIn
  <2>3. /\ x[j] \in t.T /\ x[j] # Root /\ t.up[x[j]] = <<a, p + j - 1>>
        /\ t.L[a] = t.L[x[j]] + 1 /\ \A y \in t.K[x[j]] : Routes(z, p + j - 1, y)
        /\ x[1] \in t.T /\ t.L[a] = t.L[x[1]] + 1
    BY <2>1, <2>2 DEF ChildIn
  <2>4. t.L[a] \in Nat /\ t.L[x[j]] \in Nat /\ t.L[x[1]] \in Nat
    BY <1>1, <2>3
  <2>5. QED
    BY <1>1, <2>1, <2>3, <2>4
<1>6. \A j \in 1 .. k : IsNode(W[j])
  BY <1>5
<1>7. /\ \A j \in 1 .. k : x[j] \in X /\ num[x[j]] = j
      /\ 1 \in 1 .. k /\ v \in X /\ v \notin gone /\ a \notin X /\ Root \notin X
      /\ gone \subseteq X /\ \A c \in X : c # v => c \in gone
  <2>1. \A j \in 2 .. k : j \in 1 .. k /\ x[j] # x[1]
    BY <1>4
  <2>2. \A j \in 1 .. k : j # 1 => j \in 2 .. k
    BY <1>4
  <2>3. 1 \in 1 .. k
    BY <1>4
  <2>4. QED
    BY <1>5, <2>1, <2>2, <2>3
<1>8. all \subseteq Int
  BY <1>1, <1>5 DEF AllKeys
<1>9. /\ s.T = t.T \ gone /\ v \in s.T /\ s.K[v] = all
      /\ \A c \in s.T : s.L[c] = t.L[c] /\ (c # v => s.K[c] = t.K[c])
      /\ \A c \in s.T :
            s.up[c] = IF t.up[c][1] = a THEN <<a, IF t.up[c][2] <= p THEN t.up[c][2] ELSE t.up[c][2] - (k - 1)>>
                      ELSE IF t.up[c][1] \in X THEN <<v, Off(V, u, num[t.up[c][1]]) + t.up[c][2]>>
                      ELSE t.up[c]
  BY <1>5, <1>7
<1>10. s.K \in [s.T -> SUBSET Int] /\ s.L \in [s.T -> Nat]
  BY <1>1, <1>8
<1> HIDE DEF s, num
<1> HIDE DEF all, gone, X

\* The children of the nodes of the old tree.
<1>11. ASSUME NEW b \in t.T, ~N[b].leaf, NEW i \in 0 .. N[b].ct, NEW c, c = Child(N[b], i)
       PROVE  /\ c \in t.T /\ t.up[c] = <<b, i>> /\ c # Root /\ ChildIn(N[b], t, b, i)
              /\ (b # a \/ i < p \/ i > p + k - 1) => c \notin X
  <2>1. ChildIn(N[b], t, b, i)
    BY <1>1, <1>11 DEF InTree, InnerIn
  <2>2. c \in t.T /\ t.up[c] = <<b, i>> /\ c # Root
    BY <1>11, <2>1 DEF ChildIn
  <2>3. ASSUME NEW j \in 1 .. k, c = x[j] PROVE b = a /\ i >= p /\ i <= p + k - 1
    <3>1. t.up[c] = <<a, p + j - 1>>
      BY <1>5, <2>3
    <3>2. b = a /\ i = p + j - 1
      BY <2>2, <3>1
    <3>3. QED
      BY <1>2, <1>4, <3>2
  <2>4. N[b].ct \in Nat
    BY <1>1, <1>11, NodeParts
  <2>5. (b # a \/ i < p \/ i > p + k - 1) => c \notin X
    BY <1>2, <1>4, <2>3, <2>4 DEF X
  <2>6. QED
    BY <2>1, <2>2, <2>5
<1>12. ASSUME NEW b \in t.T, b # a, b \notin X PROVE InTree(N[b], s, b)
  <2>1. InTree(N[b], t, b) /\ s.K[b] = t.K[b] /\ s.L[b] = t.L[b]
    BY <1>1, <1>7, <1>9, <1>12
  <2>2. CASE N[b].leaf
    BY <2>1, <2>2 DEF InTree, LeafIn
  <2>3. CASE ~N[b].leaf
    <3>1. ASSUME NEW i \in 0 .. N[b].ct
          PROVE  ChildIn(N[b], s, b, i) /\ s.K[Child(N[b], i)] = t.K[Child(N[b], i)]
      <4> DEFINE c == Child(N[b], i)
      <4>1. c \in t.T /\ t.up[c] = <<b, i>> /\ c \notin X /\ ChildIn(N[b], t, b, i)
        BY <1>11, <1>12, <2>3
      <4> HIDE DEF c
      <4>2. t.up[c][1] = b /\ c \in s.T /\ c # v
        BY <1>7, <1>9, <4>1
      <4>3. s.up[c] = <<b, i>> /\ s.K[c] = t.K[c] /\ s.L[c] = t.L[c]
        BY <1>9, <1>12, <4>1, <4>2
      <4>4. QED
        BY <2>1, <4>1, <4>2, <4>3 DEF ChildIn, c
    <3>2. { s.K[Child(N[b], i)] : i \in 0 .. N[b].ct } = { t.K[Child(N[b], i)] : i \in 0 .. N[b].ct }
      BY <3>1
    <3>3. QED
      BY <2>1, <2>3, <3>1, <3>2 DEF InTree, InnerIn
  <2>4. QED
    BY <2>2, <2>3
<1>13. ASSUME NEW b \in t.T, b # a, b \notin X PROVE IsNode(M[b]) /\ InTree(M[b], s, b)
  BY <1>1, <1>12, <1>13, SameInTree DEF X
<1>14. InTree(o, s, a)
  <2>1. s.K[a] = t.K[a] /\ s.L[a] = t.L[a]
    BY <1>7, <1>9
  <2>2. x[1] \in s.T /\ s.L[x[1]] = t.L[x[1]]
    BY <1>9
  <2>3. s.up[x[1]] = <<a, p>>
    <3>1. t.up[v] = <<a, p + 1 - 1>> /\ v \in s.T
      BY <1>5, <1>7, <1>9
    <3>2. t.up[v][1] = a /\ t.up[v][2] = p + 1 - 1
      BY <3>1
    <3>3. p + 1 - 1 = p /\ p <= p
      BY <1>2, <1>4
    <3>a. s.up[v] = IF t.up[v][1] = a THEN <<a, IF t.up[v][2] <= p THEN t.up[v][2] ELSE t.up[v][2] - (k - 1)>>
                    ELSE IF t.up[v][1] \in X THEN <<v, Off(V, u, num[t.up[v][1]]) + t.up[v][2]>>
                    ELSE t.up[v]
      BY <1>9
    <3>b. t.up[v][2] = p
      BY <3>2, <3>3
    <3>4. s.up[v] = <<a, IF p <= p THEN p ELSE p - (k - 1)>>
      BY <3>2, <3>a, <3>b
    <3>5. QED
      BY <3>3, <3>4
  <2>4. s.K[x[1]] = AllKeys(t, x, k)
    BY <1>9 DEF all
  <2>5. ASSUME NEW i \in 0 .. o.ct, i # p
        PROVE  LET c == Child(o, i) IN
               /\ c \in s.T /\ s.up[c] = <<a, i>> /\ s.L[c] = t.L[c] /\ s.K[c] = t.K[c]
    <3> DEFINE c == Child(o, i)
    <3>1. PICK q : q = IF i < p THEN i ELSE i + k - 1
      OBVIOUS
    <3>2. q \in 0 .. z.ct /\ Child(z, q) = c /\ (q < p \/ q > p + k - 1) /\ i = IF q <= p THEN q ELSE q - (k - 1)
      BY <1>2, <1>4, <2>5, <3>1
    <3> HIDE DEF c
    <3>3. c \in t.T /\ t.up[c] = <<a, q>> /\ c \notin X
      BY <1>2, <1>11, <3>2
    <3>4. t.up[c][1] = a /\ t.up[c][2] = q /\ c \in s.T /\ c # v
      BY <1>7, <1>9, <3>3
    <3>5. s.up[c] = <<a, IF q <= p THEN q ELSE q - (k - 1)>>
      BY <1>9, <3>4
    <3>6. s.up[c] = <<a, i>>
      BY <3>2, <3>5
    <3>7. QED
      BY <1>9, <3>4, <3>6 DEF c
  <2>6. InTree(z, t, a) /\ IsNode(z) /\ Sorted(z)
    BY <1>1, TreeSorted
  <2>7. t.K \in [t.T -> SUBSET Int] /\ k \in Nat /\ k > 0
    BY <1>1, <1>4
  <2>8. IsNode(o) /\ CutUnder(o, z, p, k, V, u, x)
    OBVIOUS
  <2> HIDE DEF o, z, V, v
  <2>9. OthersUnder(o, p, t, s, a)
    BY <2>5 DEF OthersUnder, o
  <2>10. QED
    BY <2>1, <2>2, <2>3, <2>4, <2>9, <2>6, <2>7, <2>8, ParentJoined
<1>15. InTree(V, s, v)
  <2> DEFINE sep == [j \in 2 .. k |-> z.ent[p + j - 1].key]
  <2>1. \A j \in 1 .. k : IsNode(W[j]) /\ InTree(W[j], t, x[j]) /\ t.L[x[j]] = s.L[v] /\ t.K[x[j]] \subseteq Int
    BY <1>1, <1>5, <1>9
  <2>2. ASSUME NEW j \in 2 .. k
        PROVE  /\ sep[j] \in Int /\ \A y \in t.K[x[j]] : sep[j] <= y
               /\ \A y \in t.K[x[j - 1]] : y < sep[j]
    <3>1. j \in 1 .. k /\ j - 1 \in 1 .. k
      BY <1>4
    <3>2. PICK q : q = p + j - 1
      OBVIOUS
    <3>3. q \in 1 .. z.ct /\ p + (j - 1) - 1 = q - 1 /\ q - 1 < z.ct /\ q - 1 + 1 = q /\ q > 0
      BY <1>2, <1>4, <3>2
    <3>4. z.ent[q].key \in Int /\ sep[j] = z.ent[q].key
      BY <1>1, <3>2, <3>3, NodeParts
    <3>5. \A y \in t.K[x[j]] : Routes(z, q, y)
      BY <1>5, <3>1, <3>2
    <3>6. \A y \in t.K[x[j - 1]] : Routes(z, q - 1, y)
      BY <1>5, <3>1, <3>3
    <3> HIDE DEF sep
    <3>7. \A y \in t.K[x[j]] : sep[j] <= y
      BY <3>3, <3>4, <3>5 DEF Routes
    <3>8. \A y \in t.K[x[j - 1]] : y < sep[j]
      BY <3>3, <3>4, <3>6 DEF Routes
    <3>9. QED
      BY <3>4, <3>7, <3>8
  <2>3. ~V.leaf => \A j \in 2 .. k : sep[j] = V.ent[u[j - 1] + 1].key
    BY DEF CutUnder
  <2>4. s.K[v] = AllKeys(t, x, k)
    BY <1>9 DEF all
  <2>a. Apart(t, x, k, sep)
    BY <2>2 DEF Apart
  <2>5. ASSUME ~V.leaf, NEW j \in 1 .. k, NEW i \in 0 .. W[j].ct
        PROVE  LET c == Child(W[j], i) IN
               c \in s.T /\ s.up[c] = <<v, Off(V, u, j) + i>> /\ s.L[c] = t.L[c] /\ s.K[c] = t.K[c]
    <3> DEFINE c == Child(W[j], i)
    <3>1. ~N[x[j]].leaf /\ W[j] = N[x[j]] /\ x[j] \in t.T /\ x[j] # a /\ x[j] \in X /\ num[x[j]] = j
      BY <1>5, <1>6, <1>7, <2>5, CutParts
    <3>a. c = Child(N[x[j]], i) /\ i \in 0 .. N[x[j]].ct
      BY <3>1
    <3> HIDE DEF c
    <3>b. PICK b \in t.T : b = x[j] /\ b # a /\ ~N[b].leaf /\ i \in 0 .. N[b].ct /\ c = Child(N[b], i)
      BY <3>1, <3>a
    <3>d. c \in t.T /\ t.up[c] = <<b, i>> /\ c \notin X
      BY <1>11, <3>b
    <3>2. c \in t.T /\ t.up[c] = <<x[j], i>> /\ c \notin X
      BY <3>b, <3>d
    <3>3. t.up[c][1] = x[j] /\ t.up[c][2] = i /\ c \in s.T /\ c # v
      BY <1>7, <1>9, <3>2
    <3>4. s.up[c] = <<v, Off(V, u, num[x[j]]) + i>>
      BY <1>9, <3>1, <3>3
    <3>5. s.up[c] = <<v, Off(V, u, j) + i>>
      BY <3>1, <3>4
    <3>6. QED
      BY <1>9, <3>3, <3>5 DEF c
  <2>6. PiecesUnder(V, W, k, u, t, s, v)
    BY <2>5 DEF PiecesUnder
  <2>7. IsNode(V) /\ CutAt(V, W, k, u)
    OBVIOUS
  <2> HIDE DEF sep, o, z, V, v
  <2>8. QED
    BY <2>1, <2>3, <2>4, <2>6, <2>7, <2>a, JoinedInTree
<1>16. \A b \in s.T : IsNode(M[b]) /\ InTree(M[b], s, b)
  <2> SUFFICES ASSUME NEW b \in s.T PROVE IsNode(M[b]) /\ InTree(M[b], s, b)
    OBVIOUS
  <2>1. CASE b = v
    BY <1>15, <2>1
  <2>2. CASE b = a
    BY <1>14, <2>2
  <2>3. CASE b # v /\ b # a
    <3>1. b \in t.T /\ b \notin X
      BY <1>7, <1>9, <2>3
    <3>2. QED
      BY <1>13, <2>3, <3>1
  <2>4. QED
    BY <2>1, <2>2, <2>3
<1>17. s.T \subseteq DOMAIN M /\ Root \in s.T
  BY <1>1, <1>7, <1>9 DEF gone
<1>18. IsTree(M, s)
  BY <1>10, <1>16, <1>17 DEF IsTree
<1>19. QED
  BY <1>9, <1>18 DEF gone, all

(***************************************************************************)
(* The handle.                                                             *)
(***************************************************************************)
Buffer == [adr : Int, valid : BOOLEAN, modified : BOOLEAN]
IsMap(m) == m = [a \in DOMAIN m |-> m[a]] /\ DOMAIN m \subseteq Nat
IsHandle(g) ==
  /\ g = [nodes |-> g.nodes, file |-> g.file, bufs |-> g.bufs, rootModified |-> g.rootModified,
          nextFreeAdr |-> g.nextFreeAdr, curBuf |-> g.curBuf, curKey |-> g.curKey]
  /\ IsMap(g.nodes) /\ IsMap(g.file) /\ g.bufs \in [1 .. BufCt -> Buffer] /\ g.rootModified \in BOOLEAN
  /\ g.nextFreeAdr \in Nat

\* The address is in one of the first p buffers.
Near(g, a, p) == a = Root \/ \E i \in 1 .. p : g.bufs[i].adr = a
Fresh(g) == { a \in DOMAIN g.nodes : a # NoAdr /\ \E i \in 1 .. BufCt : g.bufs[i].adr = a /\ ~g.bufs[i].valid }
Dirty(g) == { a \in DOMAIN g.nodes : \E i \in 1 .. BufCt : g.bufs[i].adr = a /\ g.bufs[i].modified }

NodeOK(n, A, top) ==
  IsNode(n) /\ n.next \in A /\ (n.leaf => \A i \in 1 .. n.ct : n.ent[i].rec \in 1 .. top)
BufsOK(g) ==
  /\ \A i \in 1 .. BufCt : /\ g.bufs[i].adr \in DOMAIN g.nodes /\ (g.bufs[i].adr = NoAdr => ~g.bufs[i].valid)
                           /\ (g.bufs[i].modified => g.bufs[i].valid)
  /\ \A i, j \in 1 .. BufCt : g.bufs[i].adr = g.bufs[j].adr /\ g.bufs[i].adr # NoAdr => i = j

\* The file has what a node is.
InFile(g, a) == a \in DOMAIN g.file /\ Same(g.nodes[a], g.file[a])
Kept(g, a) == a \in Fresh(g) \/ a \in Dirty(g) \/ InFile(g, a)
NodesOK(g, top) ==
  /\ \A a \in DOMAIN g.nodes : a < g.nextFreeAdr /\ NodeOK(g.nodes[a], DOMAIN g.nodes, top)
  /\ \A a \in DOMAIN g.file : NodeOK(g.file[a], DOMAIN g.nodes, top)
  /\ Root \in DOMAIN g.file /\ DOMAIN g.file \subseteq DOMAIN g.nodes
  /\ g.curBuf \in DOMAIN g.nodes
StoreBut(g, top, X) ==
  IsHandle(g) /\ BufsOK(g) /\ NodesOK(g, top) /\ \A a \in DOMAIN g.nodes \ ({Root} \cup X) : Kept(g, a)
Store(g, top) == StoreBut(g, top, {})

\* The buffer of an address is written before another one takes it.
LEMMA EvictIs ==
  ASSUME NEW g, IsHandle(g), NEW b \in Buffer, b.adr \in DOMAIN g.nodes, ~b.modified => b.adr \in DOMAIN g.file
  PROVE  LET f == Evict(g, b) IN
         /\ IsHandle(f) /\ DOMAIN f.nodes = DOMAIN g.nodes
         /\ \A a \in DOMAIN g.nodes : a # b.adr => f.nodes[a] = g.nodes[a]
         /\ f.nodes[b.adr] = IF b.modified THEN g.nodes[b.adr] ELSE g.file[b.adr]
         /\ DOMAIN f.file = DOMAIN g.file \cup (IF b.modified THEN {b.adr} ELSE {})
         /\ \A a \in DOMAIN g.file : a # b.adr => f.file[a] = g.file[a]
         /\ f.file[b.adr] = IF b.modified THEN g.nodes[b.adr] ELSE g.file[b.adr]
         /\ f.bufs = g.bufs /\ f.rootModified = g.rootModified /\ f.nextFreeAdr = g.nextFreeAdr
         /\ f.curBuf = g.curBuf /\ f.curKey = g.curKey
<1> DEFINE file == IF b.modified THEN [a \in DOMAIN g.file \cup {b.adr} |-> IF a = b.adr THEN g.nodes[a] ELSE g.file[a]]
                   ELSE g.file
           nodes == [g.nodes EXCEPT ![b.adr] = file[b.adr]]
           r == [nodes |-> nodes, file |-> file, bufs |-> g.bufs, rootModified |-> g.rootModified,
                 nextFreeAdr |-> g.nextFreeAdr, curBuf |-> g.curBuf, curKey |-> g.curKey]
<1>1. g = [nodes |-> g.nodes, file |-> g.file, bufs |-> g.bufs, rootModified |-> g.rootModified,
          nextFreeAdr |-> g.nextFreeAdr, curBuf |-> g.curBuf, curKey |-> g.curKey]
  BY DEF IsHandle
<1>2. Evict(g, b) = r
  <2>1. CASE b.modified
    <3>1. flush(g, b.adr) = [nodes |-> g.nodes, file |-> file, bufs |-> g.bufs, rootModified |-> g.rootModified,
          nextFreeAdr |-> g.nextFreeAdr, curBuf |-> g.curBuf, curKey |-> g.curKey]
      BY <1>1, <2>1 DEF flush
    <3> HIDE DEF file
    <3>2. QED
      BY <2>1, <3>1 DEF Evict
  <2>2. CASE ~b.modified
    <3> DEFINE fb == g.file[b.adr]
    <3>1. Evict(g, b) = [g EXCEPT !.nodes[b.adr] = fb] /\ file = g.file /\ file[b.adr] = fb
      BY <2>2 DEF Evict
    <3> HIDE DEF file, fb
    <3>2. QED
      BY <1>1, <2>2, <3>1
  <2>3. QED
    BY <2>1, <2>2
<1>3. /\ DOMAIN file = DOMAIN g.file \cup (IF b.modified THEN {b.adr} ELSE {})
      /\ \A a \in DOMAIN g.file : a # b.adr => file[a] = g.file[a]
      /\ file[b.adr] = IF b.modified THEN g.nodes[b.adr] ELSE g.file[b.adr]
      /\ IsMap(file)
  <2>1. CASE b.modified
    <3>1. file = [a \in DOMAIN g.file \cup {b.adr} |-> IF a = b.adr THEN g.nodes[a] ELSE g.file[a]]
      BY <2>1
    <3> HIDE DEF file
    <3>2. QED
      BY <2>1, <3>1 DEF IsMap, IsHandle
  <2>2. CASE ~b.modified
    BY <2>2 DEF IsHandle
  <2>3. QED
    BY <2>1, <2>2
<1> HIDE DEF file
<1>4. /\ DOMAIN nodes = DOMAIN g.nodes /\ nodes[b.adr] = file[b.adr] /\ IsMap(nodes)
      /\ \A a \in DOMAIN g.nodes : a # b.adr => nodes[a] = g.nodes[a]
  BY DEF IsMap, IsHandle
<1> HIDE DEF nodes
<1>5. IsHandle(r)
  BY <1>3, <1>4 DEF IsHandle
<1>6. QED
  BY <1>2, <1>3, <1>4, <1>5

\* A function on 1 .. n is a sequence of length n.
LEMMA SequenceOfFunction ==
  ASSUME NEW S, NEW n \in Nat, NEW f \in [1 .. n -> S]
  PROVE  f \in Seq(S) /\ Len(f) = n
  OBVIOUS

\* The buffer that is used moves to the front.
Turn(bufs, nb, i) == <<nb>> \o RemoveAt(bufs, i)
IsTurn(q, bufs, nb, i) ==
  /\ q \in [1 .. BufCt -> Buffer] /\ q[1] = nb
  /\ \A j \in 2 .. BufCt : q[j] = IF j <= i THEN bufs[j - 1] ELSE bufs[j]

\* The buffers after a turn.
LEMMA TurnIs ==
  ASSUME NEW bufs \in [1 .. BufCt -> Buffer], NEW nb \in Buffer, NEW i \in 1 .. BufCt
  PROVE  IsTurn(Turn(bufs, nb, i), bufs, nb, i)
<1>0. BufCt = 7
  BY DEF BufCt
<1>1. bufs \in Seq(Buffer) /\ Len(bufs) = 7 /\ (\A j \in 1 .. 7 : bufs[j] \in Buffer) /\ i \in 1 .. 7
  <2>1. bufs \in [1 .. 7 -> Buffer]
    BY <1>0
  <2>2. bufs \in Seq(Buffer) /\ Len(bufs) = 7
    <3>1. 7 \in Nat
      OBVIOUS
    <3>2. QED
      BY <2>1, <3>1, SequenceOfFunction
  <2>3. i \in 1 .. 7
    BY <1>0
  <2>4. QED
    BY <1>0, <2>1, <2>2, <2>3
<1> DEFINE s == SubSeq(bufs, 1, i - 1)
           e == SubSeq(bufs, i + 1, Len(bufs))
<1>2. s \in Seq(Buffer) /\ Len(s) = i - 1 /\ \A j \in 1 .. (i - 1) : s[j] = bufs[j]
  <2>1. \A j \in 1 .. (i - 1) : bufs[j] \in Buffer
    BY <1>1
  <2>2. QED
    BY <1>1, <2>1, SubSeqProperties
<1>3. e \in Seq(Buffer) /\ Len(e) = 7 - i /\ \A j \in 1 .. (7 - i) : e[j] = bufs[i + j]
  <2>1. \A j \in (i + 1) .. 7 : bufs[j] \in Buffer
    BY <1>1
  <2>2. /\ e \in Seq(Buffer) /\ Len(e) = IF i + 1 <= 7 THEN 7 - (i + 1) + 1 ELSE 0
        /\ \A j \in 1 .. 7 - (i + 1) + 1 : e[j] = bufs[i + 1 + j - 1]
    BY <1>1, <2>1, SubSeqProperties
  <2>3. QED
    BY <1>1, <2>2
<1>4. RemoveAt(bufs, i) = s \o e
  BY DEF RemoveAt
<1> HIDE DEF s, e
<1> DEFINE r == s \o e
<1>5. r \in Seq(Buffer) /\ Len(r) = 6 /\ \A j \in 1 .. 6 : r[j] = IF j <= i - 1 THEN s[j] ELSE e[j - (i - 1)]
  <2>1. /\ r \in Seq(Buffer) /\ Len(r) = Len(s) + Len(e)
        /\ \A j \in 1 .. Len(s) + Len(e) : r[j] = IF j <= Len(s) THEN s[j] ELSE e[j - Len(s)]
    BY <1>2, <1>3, ConcatProperties
  <2>2. Len(s) + Len(e) = 6 /\ Len(s) = i - 1
    BY <1>1, <1>2, <1>3
  <2>3. QED
    BY <2>1, <2>2
<1> HIDE DEF r
<1>6. \A j \in 1 .. 6 : r[j] = IF j < i THEN bufs[j] ELSE bufs[j + 1]
  <2> SUFFICES ASSUME NEW j \in 1 .. 6 PROVE r[j] = IF j < i THEN bufs[j] ELSE bufs[j + 1]
    OBVIOUS
  <2>1. CASE j < i
    <3>1. j \in 1 .. (i - 1) /\ j <= i - 1
      BY <1>1, <2>1
    <3>2. QED
      BY <1>2, <1>5, <2>1, <3>1
  <2>2. CASE ~(j < i)
    <3>1. j - (i - 1) \in 1 .. (7 - i) /\ i + (j - (i - 1)) = j + 1 /\ ~(j <= i - 1)
      BY <1>1, <2>2
    <3>2. r[j] = e[j - (i - 1)]
      BY <1>5, <3>1
    <3>3. e[j - (i - 1)] = bufs[i + (j - (i - 1))]
      BY <1>3, <3>1
    <3>4. QED
      BY <2>2, <3>1, <3>2, <3>3
  <2>3. QED
    BY <2>1, <2>2
<1> DEFINE q == <<nb>> \o r
<1>7. q \in Seq(Buffer) /\ Len(q) = 7 /\ q[1] = nb /\ \A j \in 1 .. 6 : q[j + 1] = r[j]
  <2>1. /\ q \in Seq(Buffer) /\ Len(q) = Len(r) + 1 /\ q[1] = nb
        /\ \A j \in 1 .. Len(r) : q[j + 1] = r[j]
    <3>1. r \in Seq(Buffer) /\ nb \in Buffer
      BY <1>5
    <3>2. QED
      BY <3>1, Preceded
  <2> HIDE DEF q
  <2>2. QED
    BY <1>5, <2>1
<1>8. \A j \in 2 .. 7 : q[j] = r[j - 1]
  <2> SUFFICES ASSUME NEW j \in 2 .. 7 PROVE q[j] = r[j - 1]
    OBVIOUS
  <2>1. j - 1 \in 1 .. 6 /\ (j - 1) + 1 = j
    OBVIOUS
  <2> HIDE DEF q
  <2>2. QED
    BY <1>7, <2>1
<1> HIDE DEF q
<1>9. q \in [1 .. BufCt -> Buffer]
  BY <1>0, <1>7, LenProperties
<1>10. ASSUME NEW j \in 2 .. BufCt PROVE q[j] = IF j <= i THEN bufs[j - 1] ELSE bufs[j]
  <2>1. j - 1 \in 1 .. 6 /\ (j - 1) + 1 = j /\ j \in 2 .. 7
    BY <1>0
  <2>2. q[j] = IF j - 1 < i THEN bufs[j - 1] ELSE bufs[j]
    BY <1>6, <1>8, <2>1
  <2>3. (j - 1 < i) <=> (j <= i)
    BY <1>1, <2>1
  <2>4. QED
    BY <2>2, <2>3
<1>11. QED
  BY <1>4, <1>7, <1>9, <1>10 DEF q, r, Turn, IsTurn

\* A node is the same as itself.
LEMMA SameRefl == ASSUME NEW n PROVE Same(n, n)
  BY DEF Same

\* A buffer that is written, or has nothing to write, can be taken away.
LEMMA EvictStore ==
  ASSUME NEW g, NEW top, Store(g, top), NEW i \in 1 .. BufCt, g.bufs[i].valid
  PROVE  LET b == g.bufs[i]
             e == Evict(g, b) IN
         /\ Store(e, top) /\ DOMAIN e.nodes = DOMAIN g.nodes /\ e.bufs = g.bufs
         /\ \A a \in DOMAIN g.nodes : Same(e.nodes[a], g.nodes[a])
         /\ \A a \in DOMAIN g.nodes : a # b.adr => e.nodes[a] = g.nodes[a] /\ (InFile(g, a) => InFile(e, a))
         /\ InFile(e, b.adr)
         /\ e.file[Root] = g.file[Root] /\ e.rootModified = g.rootModified /\ e.nextFreeAdr = g.nextFreeAdr
         /\ e.curBuf = g.curBuf /\ e.curKey = g.curKey /\ b.adr # Root
<1> DEFINE b == g.bufs[i]
           e == Evict(g, b)
<1>1. /\ IsHandle(g) /\ BufsOK(g) /\ NodesOK(g, top) /\ \A a \in DOMAIN g.nodes \ {Root} : Kept(g, a)
      /\ b \in Buffer /\ b.adr \in DOMAIN g.nodes /\ b.adr # NoAdr /\ b.adr # Root
  BY DEF Store, StoreBut, IsHandle, BufsOK, NoAdr, Root
<1>2. \A j \in 1 .. BufCt : g.bufs[j].adr = b.adr => j = i
  BY <1>1 DEF BufsOK
<1>3. ~b.modified => InFile(g, b.adr)
  BY <1>1, <1>2 DEF Kept, Fresh, Dirty
<1>4. ~b.modified => b.adr \in DOMAIN g.file
  BY <1>3 DEF InFile
<1> HIDE DEF b
<1>5. /\ IsHandle(e) /\ DOMAIN e.nodes = DOMAIN g.nodes
      /\ \A a \in DOMAIN g.nodes : a # b.adr => e.nodes[a] = g.nodes[a]
      /\ e.nodes[b.adr] = IF b.modified THEN g.nodes[b.adr] ELSE g.file[b.adr]
      /\ DOMAIN e.file = DOMAIN g.file \cup (IF b.modified THEN {b.adr} ELSE {})
      /\ \A a \in DOMAIN g.file : a # b.adr => e.file[a] = g.file[a]
      /\ e.file[b.adr] = IF b.modified THEN g.nodes[b.adr] ELSE g.file[b.adr]
      /\ e.bufs = g.bufs /\ e.rootModified = g.rootModified /\ e.nextFreeAdr = g.nextFreeAdr
      /\ e.curBuf = g.curBuf /\ e.curKey = g.curKey
  BY <1>1, <1>4, EvictIs
<1> HIDE DEF e
<1>6. b.adr \in DOMAIN e.file /\ e.nodes[b.adr] = e.file[b.adr]
  BY <1>4, <1>5
<1>7. InFile(e, b.adr)
  BY <1>6, SameRefl DEF InFile
<1>8. \A a \in DOMAIN g.nodes : a # b.adr => (InFile(g, a) => InFile(e, a))
  BY <1>5 DEF InFile
<1>9. \A a \in DOMAIN g.nodes : Same(e.nodes[a], g.nodes[a])
  <2> SUFFICES ASSUME NEW a \in DOMAIN g.nodes PROVE Same(e.nodes[a], g.nodes[a])
    OBVIOUS
  <2>1. CASE a # b.adr \/ b.modified
    BY <1>5, <2>1, SameRefl
  <2>2. CASE a = b.adr /\ ~b.modified
    BY <1>3, <1>5, <2>2 DEF InFile, Same
  <2>3. QED
    BY <2>1, <2>2
<1>10. e.file[Root] = g.file[Root] /\ Root \in DOMAIN e.file
  BY <1>1, <1>5 DEF NodesOK
<1>11. BufsOK(e)
  BY <1>1, <1>5 DEF BufsOK
<1>12. NodesOK(e, top)
  <2>1. \A a \in DOMAIN e.nodes : a < e.nextFreeAdr /\ NodeOK(e.nodes[a], DOMAIN e.nodes, top)
    BY <1>1, <1>4, <1>5 DEF NodesOK
  <2>2. \A a \in DOMAIN e.file : NodeOK(e.file[a], DOMAIN e.nodes, top)
    BY <1>1, <1>4, <1>5 DEF NodesOK
  <2>3. QED
    BY <1>1, <1>5, <1>10, <2>1, <2>2 DEF NodesOK
<1>13. \A a \in DOMAIN e.nodes \ {Root} : Kept(e, a)
  <2>1. Fresh(e) = Fresh(g) /\ Dirty(e) = Dirty(g)
    BY <1>5 DEF Fresh, Dirty
  <2>2. QED
    BY <1>1, <1>5, <1>7, <1>8, <2>1 DEF Kept
<1>14. Store(e, top)
  BY <1>5, <1>11, <1>12, <1>13 DEF Store, StoreBut
<1>15. QED
  BY <1>1, <1>5, <1>7, <1>8, <1>9, <1>10, <1>14 DEF b, e

Turned(e, nb, i) == [e EXCEPT !.bufs = Turn(@, nb, i)]

\* A buffer moves to the front, or a new one takes the place of one that is
\* not needed.
CanTurn(g, top, X, adr, nb, i) ==
  /\ StoreBut(g, top, X) /\ X \subseteq {adr} /\ adr \in DOMAIN g.nodes \ {Root}
  /\ i \in 1 .. BufCt /\ nb \in Buffer /\ nb.adr = adr /\ (nb.modified => nb.valid)
  /\ \A j \in 1 .. BufCt : j # i => g.bufs[j].adr # adr
  /\ g.bufs[i].adr = adr \/ i = BufCt
  /\ g.bufs[i].adr \in {adr, NoAdr} \/ (g.bufs[i].valid /\ InFile(g, g.bufs[i].adr))
  /\ ~nb.valid \/ nb.modified \/ InFile(g, adr)
HasTurned(g, f, top, adr, nb) ==
  /\ Store(f, top) /\ f.nodes = g.nodes /\ f.file = g.file
  /\ f.rootModified = g.rootModified /\ f.nextFreeAdr = g.nextFreeAdr
  /\ f.curBuf = g.curBuf /\ f.curKey = g.curKey
  /\ Fresh(f) = (Fresh(g) \ {adr}) \cup (IF nb.valid THEN {} ELSE {adr})
  /\ Near(f, adr, 1)
  /\ \A a, p : p \in 1 .. 6 /\ Near(g, a, p) => Near(f, a, p + 1)

\* After a turn the buffers and the file still have every node.
LEMMA TurnStore ==
  ASSUME NEW g, NEW top, NEW X, NEW adr, NEW nb, NEW i, CanTurn(g, top, X, adr, nb, i)
  PROVE  HasTurned(g, Turned(g, nb, i), top, adr, nb)
<1> USE DEF CanTurn
<1> DEFINE q == Turn(g.bufs, nb, i)
           f == Turned(g, nb, i)
<1>0. BufCt = 7 /\ 1 .. BufCt = 1 .. 7
  BY DEF BufCt
<1>1. /\ IsHandle(g) /\ BufsOK(g) /\ NodesOK(g, top) /\ \A a \in DOMAIN g.nodes \ {Root, adr} : Kept(g, a)
      /\ g.bufs \in [1 .. 7 -> Buffer] /\ i \in 1 .. 7 /\ nb.valid \in BOOLEAN /\ nb.modified \in BOOLEAN
  BY <1>0 DEF StoreBut, IsHandle, Buffer
<1>2. /\ q \in [1 .. 7 -> Buffer] /\ q[1] = nb
      /\ \A j \in 2 .. 7 : q[j] = IF j <= i THEN g.bufs[j - 1] ELSE g.bufs[j]
  <2>1. g.bufs \in [1 .. BufCt -> Buffer]
    BY <1>0, <1>1
  <2>2. /\ q \in [1 .. BufCt -> Buffer] /\ q[1] = nb
        /\ \A j \in 2 .. BufCt : q[j] = IF j <= i THEN g.bufs[j - 1] ELSE g.bufs[j]
    <3>1. IsTurn(q, g.bufs, nb, i)
      BY <2>1, TurnIs
    <3>2. QED
      BY <3>1 DEF IsTurn
  <2>3. QED
    BY <1>0, <2>2
<1>3. /\ f = [nodes |-> g.nodes, file |-> g.file, bufs |-> q, rootModified |-> g.rootModified,
              nextFreeAdr |-> g.nextFreeAdr, curBuf |-> g.curBuf, curKey |-> g.curKey]
  <2> HIDE DEF q
  <2>1. f = [g EXCEPT !.bufs = q]
    BY DEF Turned, q
  <2>2. QED
    BY <1>1, <2>1 DEF IsHandle
<1> HIDE DEF q, f
<1>4. /\ f.nodes = g.nodes /\ f.file = g.file /\ f.bufs = q
      /\ f.rootModified = g.rootModified /\ f.nextFreeAdr = g.nextFreeAdr
      /\ f.curBuf = g.curBuf /\ f.curKey = g.curKey /\ IsHandle(f)
  BY <1>0, <1>1, <1>2, <1>3 DEF IsHandle

\* Where each of the others is.
<1>5. \A j \in 1 .. 7 : j # i => \E l \in 2 .. 7 : l <= j + 1 /\ q[l] = g.bufs[j]
  <2> SUFFICES ASSUME NEW j \in 1 .. 7, j # i PROVE \E l \in 2 .. 7 : l <= j + 1 /\ q[l] = g.bufs[j]
    OBVIOUS
  <2>1. CASE j < i
    <3>1. j + 1 \in 2 .. 7 /\ j + 1 <= i /\ (j + 1) - 1 = j
      BY <1>1, <2>1
    <3>2. q[j + 1] = g.bufs[j]
      BY <1>2, <3>1
    <3>3. QED
      BY <3>1, <3>2
  <2>2. CASE ~(j < i)
    <3>1. j \in 2 .. 7 /\ ~(j <= i) /\ j <= j + 1
      BY <1>1, <2>2
    <3>2. QED
      BY <1>2, <3>1
  <2>3. QED
    BY <2>1, <2>2
<1>6. \A l \in 2 .. 7 : \E j \in 1 .. 7 : j # i /\ q[l] = g.bufs[j] /\ j = IF l <= i THEN l - 1 ELSE l
  BY <1>1, <1>2
<1>7. BufsOK(f)
  <2>1. ASSUME NEW l \in 1 .. 7
        PROVE  /\ q[l].adr \in DOMAIN g.nodes /\ (q[l].adr = NoAdr => ~q[l].valid) /\ (q[l].modified => q[l].valid)
    <3>1. CASE l = 1
      BY <1>2, <3>1 DEF NoAdr, Root
    <3>2. CASE l \in 2 .. 7
      <4>1. PICK j \in 1 .. 7 : q[l] = g.bufs[j]
        BY <1>6, <3>2
      <4>2. QED
        BY <1>0, <1>1, <4>1 DEF BufsOK
    <3>3. QED
      BY <3>1, <3>2
  <2>2. ASSUME NEW l \in 1 .. 7, NEW m \in 1 .. 7, q[l].adr = q[m].adr, q[l].adr # NoAdr
        PROVE  l = m
    <3>1. \A k \in 2 .. 7 : q[k].adr # adr
      BY <1>0, <1>6
    <3>2. CASE l = 1 \/ m = 1
      BY <1>2, <2>2, <3>1, <3>2
    <3>3. CASE l \in 2 .. 7 /\ m \in 2 .. 7
      <4>1. PICK j \in 1 .. 7 : q[l] = g.bufs[j] /\ j = IF l <= i THEN l - 1 ELSE l
        BY <1>6, <3>3
      <4>2. PICK k \in 1 .. 7 : q[m] = g.bufs[k] /\ k = IF m <= i THEN m - 1 ELSE m
        BY <1>6, <3>3
      <4>3. j = k
        BY <1>0, <1>1, <2>2, <4>1, <4>2 DEF BufsOK
      <4>4. j # i /\ k # i
        BY <1>1, <2>2, <3>1, <3>3, <1>6, <4>1, <4>2
      <4>5. QED
        BY <1>1, <3>3, <4>1, <4>2, <4>3
    <3>4. QED
      BY <3>2, <3>3
  <2>3. QED
    BY <1>0, <1>4, <2>1, <2>2 DEF BufsOK
<1>8. Fresh(f) = (Fresh(g) \ {adr}) \cup (IF nb.valid THEN {} ELSE {adr})
  <2>1. ASSUME NEW a, a \in Fresh(f) PROVE a \in (Fresh(g) \ {adr}) \cup (IF nb.valid THEN {} ELSE {adr})
    <3>1. PICK l \in 1 .. 7 : a \in DOMAIN g.nodes /\ a # NoAdr /\ q[l].adr = a /\ ~q[l].valid
      BY <1>0, <1>4, <2>1 DEF Fresh
    <3>2. CASE l = 1
      BY <1>2, <3>1, <3>2
    <3>3. CASE l \in 2 .. 7
      <4>1. PICK j \in 1 .. 7 : j # i /\ q[l] = g.bufs[j]
        BY <1>6, <3>3
      <4>2. QED
        BY <1>0, <3>1, <4>1 DEF Fresh
    <3>4. QED
      BY <3>2, <3>3
  <2>2. ASSUME NEW a, a \in Fresh(g) \ {adr} PROVE a \in Fresh(f)
    <3>1. PICK j \in 1 .. 7 : a \in DOMAIN g.nodes /\ a # NoAdr /\ g.bufs[j].adr = a /\ ~g.bufs[j].valid
      BY <1>0, <2>2 DEF Fresh
    <3>2. j # i
      BY <2>2, <3>1
    <3>3. PICK l \in 2 .. 7 : q[l] = g.bufs[j]
      BY <1>5, <3>2
    <3>4. QED
      BY <1>0, <1>4, <3>1, <3>3 DEF Fresh
  <2>3. ASSUME ~nb.valid PROVE adr \in Fresh(f)
    BY <1>0, <1>2, <1>4, <2>3 DEF Fresh, NoAdr, Root
  <2>4. QED
    BY <2>1, <2>2, <2>3
<1>9. \A a \in DOMAIN f.nodes \ {Root} : Kept(f, a)
  <2> SUFFICES ASSUME NEW a \in DOMAIN g.nodes \ {Root} PROVE Kept(f, a)
    BY <1>4
  <2>1. InFile(f, a) <=> InFile(g, a)
    BY <1>4 DEF InFile
  <2>2. CASE a = adr
    <3>1. nb.modified => a \in Dirty(f)
      BY <1>0, <1>2, <1>4, <2>2 DEF Dirty
    <3>2. ~nb.valid => a \in Fresh(f)
      BY <1>8, <2>2
    <3>3. QED
      BY <2>1, <2>2, <3>1, <3>2 DEF Kept
  <2>3. CASE a # adr
    <3>1. Kept(g, a)
      BY <1>1, <2>3
    <3>2. CASE a \in Fresh(g)
      BY <1>8, <2>3, <3>2 DEF Kept
    <3>3. CASE a \in Dirty(g)
      <4>1. PICK j \in 1 .. 7 : g.bufs[j].adr = a /\ g.bufs[j].modified
        BY <1>0, <3>3 DEF Dirty
      <4>2. CASE j = i
        BY <2>1, <2>3, <4>1, <4>2 DEF Kept, NoAdr, Root
      <4>3. CASE j # i
        <5>1. PICK l \in 2 .. 7 : q[l] = g.bufs[j]
          BY <1>5, <4>3
        <5>2. QED
          BY <1>0, <1>4, <4>1, <5>1 DEF Dirty, Kept
      <4>4. QED
        BY <4>2, <4>3
    <3>4. CASE InFile(g, a)
      BY <2>1, <3>4 DEF Kept
    <3>5. QED
      BY <3>1, <3>2, <3>3, <3>4 DEF Kept
  <2>4. QED
    BY <2>2, <2>3
<1>10. NodesOK(f, top)
  BY <1>1, <1>4 DEF NodesOK
<1>11. Near(f, adr, 1)
  BY <1>2, <1>4 DEF Near
<1>12. ASSUME NEW a, NEW p \in 1 .. 6, Near(g, a, p) PROVE Near(f, a, p + 1)
  <2>1. CASE a = Root
    BY <2>1 DEF Near
  <2>2. CASE a = adr
    BY <1>2, <1>4, <2>2 DEF Near
  <2>3. CASE a # Root /\ a # adr
    <3>1. PICK j \in 1 .. p : g.bufs[j].adr = a
      BY <1>12, <2>3 DEF Near
    <3>2. CASE j = i
      BY <1>0, <1>12, <2>3, <3>1, <3>2
    <3>3. CASE j # i
      <4>1. PICK l \in 2 .. 7 : l <= j + 1 /\ q[l] = g.bufs[j]
        BY <1>5, <3>3
      <4>2. l \in 1 .. (p + 1)
        BY <4>1
      <4>3. QED
        BY <1>4, <3>1, <4>1, <4>2 DEF Near
    <3>4. QED
      BY <3>2, <3>3
  <2>4. QED
    BY <2>1, <2>2, <2>3
<1>13. QED
  BY <1>4, <1>7, <1>8, <1>9, <1>10, <1>11, <1>12 DEF Store, StoreBut, f, HasTurned

\* What a reader sees of another handle is the same.
Alike(g, f) ==
  /\ DOMAIN f.nodes = DOMAIN g.nodes /\ \A a \in DOMAIN g.nodes : Same(f.nodes[a], g.nodes[a])
  /\ f.file[Root] = g.file[Root] /\ f.rootModified = g.rootModified /\ f.nextFreeAdr = g.nextFreeAdr
  /\ f.curBuf = g.curBuf /\ f.curKey = g.curKey
NearAlike(g, f) == \A a \in DOMAIN g.nodes : Near(g, a, 6) => f.nodes[a] = g.nodes[a]

\* A handle is like itself.
LEMMA AlikeRefl == ASSUME NEW g PROVE Alike(g, g) /\ NearAlike(g, g)
  BY SameRefl DEF Alike, NearAlike

\* How a buffer is assigned: which one moves, and what is written before.
Assigned(g, f, top, adr, e, nb, i) ==
  /\ f = Turned(e, nb, i) /\ Store(e, top) /\ Alike(g, e) /\ NearAlike(g, e) /\ e.bufs = g.bufs
  /\ nb \in Buffer /\ i \in 1 .. BufCt /\ nb.adr = adr /\ (nb.modified => nb.valid)
  /\ \A j \in 1 .. BufCt : j # i => g.bufs[j].adr # adr
  /\ g.bufs[i].adr = adr \/ i = BufCt
  /\ g.bufs[i].adr \in {adr, NoAdr} \/ (g.bufs[i].valid /\ InFile(e, g.bufs[i].adr))
  /\ \/ nb = g.bufs[i] /\ nb.valid
     \/ nb = [adr |-> adr, valid |-> FALSE, modified |-> FALSE] /\ \A j \in 1 .. BufCt : g.bufs[j].adr # adr

\* assignBuf: one buffer moves to the front, what was in it is in the file.
LEMMA AssignIs ==
  ASSUME NEW g, NEW top, Store(g, top), NEW adr \in Nat \ {Root}, adr \notin Fresh(g),
         \A a \in Fresh(g) : Near(g, a, 6)
  PROVE  \E e, nb, i : Assigned(g, assignBuf(g, adr), top, adr, e, nb, i)
<1>0. BufCt = 7 /\ 1 .. BufCt = 1 .. 7
  BY DEF BufCt
<1>1. /\ IsHandle(g) /\ BufsOK(g) /\ \A j \in 1 .. 7 : g.bufs[j] \in Buffer
  BY <1>0 DEF Store, StoreBut, IsHandle
<1>2. \A j \in 1 .. 7 : g.bufs[j].adr = adr => g.bufs[j].valid /\ \A k \in 1 .. 7 : g.bufs[k].adr = adr => k = j
  BY <1>0, <1>1 DEF BufsOK, Fresh, NoAdr, Root
<1> DEFINE hits == { j \in 1 .. (BufCt - 1) : g.bufs[j].valid /\ g.bufs[j].adr = adr }
           i == IF hits = {} THEN BufCt ELSE Min(hits)
           b == g.bufs[i]
           kept == b.valid /\ b.adr = adr
           f == IF b.valid /\ ~kept THEN Evict(g, b) ELSE g
           nb == IF kept THEN b ELSE [NoBuffer EXCEPT !.adr = adr]
<1>3. assignBuf(g, adr) = Turned(f, nb, i)
  BY DEF assignBuf, Turned, Turn
<1>4. CASE \E j \in 1 .. 7 : g.bufs[j].adr = adr
  <2>1. PICK j \in 1 .. 7 : g.bufs[j].adr = adr
    BY <1>4
  <2>2. g.bufs[j].valid /\ \A k \in 1 .. 7 : g.bufs[k].adr = adr => k = j
    BY <1>2, <2>1
  <2>3. i = j
    <3>1. CASE j = 7
      BY <1>0, <2>2, <3>1
    <3>2. CASE j # 7
      <4>1. hits = {j}
        BY <1>0, <2>1, <2>2, <3>2
      <4>2. Min({j}) = j
        BY DEF Min
      <4>3. QED
        BY <4>1, <4>2
    <3>3. QED
      BY <3>1, <3>2
  <2>4. kept /\ f = g /\ nb = g.bufs[j]
    BY <2>1, <2>2, <2>3
  <2> HIDE DEF f, nb, i
  <2>5. Assigned(g, Turned(g, g.bufs[j], j), top, adr, g, g.bufs[j], j)
    BY <1>0, <1>1, <2>1, <2>2, AlikeRefl DEF Assigned
  <2>6. QED
    BY <1>3, <2>3, <2>4, <2>5
<1>5. CASE \A j \in 1 .. 7 : g.bufs[j].adr # adr
  <2>1. hits = {}
    BY <1>0, <1>5
  <2>2. i = 7
    BY <1>0, <2>1
  <2>3. ~kept /\ nb = [adr |-> adr, valid |-> FALSE, modified |-> FALSE]
    <3> HIDE DEF i
    <3>1. b = g.bufs[7] /\ b.adr # adr
      BY <1>5, <2>2
    <3> HIDE DEF b
    <3>2. QED
      BY <3>1 DEF NoBuffer
  <2> DEFINE z == [adr |-> adr, valid |-> FALSE, modified |-> FALSE]
  <2>4. z \in Buffer /\ z.adr = adr /\ ~z.modified
    BY DEF Buffer
  <2>5. CASE g.bufs[7].valid
    <3> DEFINE e == Evict(g, g.bufs[7])
    <3>1. f = e
      <4> HIDE DEF i
      <4>1. b = g.bufs[7]
        BY <2>2
      <4> HIDE DEF b, kept
      <4>2. QED
        BY <2>3, <2>5, <4>1
    <3>2. /\ Store(e, top) /\ DOMAIN e.nodes = DOMAIN g.nodes /\ e.bufs = g.bufs
          /\ \A a \in DOMAIN g.nodes : Same(e.nodes[a], g.nodes[a])
          /\ \A a \in DOMAIN g.nodes : a # g.bufs[7].adr => e.nodes[a] = g.nodes[a]
          /\ InFile(e, g.bufs[7].adr)
          /\ e.file[Root] = g.file[Root] /\ e.rootModified = g.rootModified /\ e.nextFreeAdr = g.nextFreeAdr
          /\ e.curBuf = g.curBuf /\ e.curKey = g.curKey /\ g.bufs[7].adr # Root
      BY <1>0, <2>5, EvictStore
    <3>3. \A a \in DOMAIN g.nodes : Near(g, a, 6) => a # g.bufs[7].adr
      BY <1>0, <1>1, <3>2 DEF Near, BufsOK, Root, NoAdr
    <3> HIDE DEF e, z, f, nb, i
    <3>4. Alike(g, e) /\ NearAlike(g, e)
      BY <3>2, <3>3 DEF Alike, NearAlike
    <3>5. Assigned(g, Turned(e, z, 7), top, adr, e, z, 7)
      <4>1. z = [adr |-> adr, valid |-> FALSE, modified |-> FALSE]
        BY DEF z
      <4>2. QED
        BY <1>0, <1>5, <2>4, <2>5, <3>2, <3>4, <4>1 DEF Assigned
    <3>6. QED
      BY <1>3, <2>2, <2>3, <3>1, <3>5 DEF z
  <2>6. CASE ~g.bufs[7].valid
    <3>1. f = g
      <4> HIDE DEF i
      <4>1. b = g.bufs[7]
        BY <2>2
      <4> HIDE DEF b, kept
      <4>2. QED
        BY <2>6, <4>1
    <3>2. g.bufs[7].adr = NoAdr
      <4>1. SUFFICES ASSUME g.bufs[7].adr # NoAdr PROVE FALSE
        OBVIOUS
      <4>2. g.bufs[7].adr \in DOMAIN g.nodes
        BY <1>0, <1>1, <2>6, <4>1 DEF BufsOK
      <4>3. g.bufs[7].adr \in Fresh(g)
        BY <1>0, <1>1, <2>6, <4>1, <4>2 DEF Fresh
      <4>4. PICK j \in 1 .. 6 : g.bufs[j].adr = g.bufs[7].adr
        BY <4>1, <4>3 DEF Near, NoAdr, Root
      <4>5. QED
        BY <1>0, <1>1, <4>1, <4>4 DEF BufsOK
    <3> HIDE DEF z, f, nb, i
    <3>3. Assigned(g, Turned(g, z, 7), top, adr, g, z, 7)
      <4>1. z = [adr |-> adr, valid |-> FALSE, modified |-> FALSE]
        BY DEF z
      <4>2. QED
        BY <1>0, <1>5, <2>4, <3>2, <4>1, AlikeRefl DEF Assigned
    <3>4. QED
      BY <1>3, <2>2, <2>3, <3>1, <3>3 DEF z
  <2>7. QED
    BY <2>5, <2>6
<1>6. QED
  BY <1>4, <1>5

\* Reading an address.
Read(g, f, top, adr) ==
  /\ Store(f, top) /\ Alike(g, f) /\ NearAlike(g, f) /\ Fresh(f) = Fresh(g) /\ Near(f, adr, 1)
  /\ \A a, p : p \in 1 .. 6 /\ Near(g, a, p) => Near(f, a, p + 1)

\* readDisk: the node is in the first buffer, and no node has changed for a
\* reader of keys.
LEMMA ReadIs ==
  ASSUME NEW g, NEW top, Store(g, top), NEW adr \in DOMAIN g.nodes, adr \notin Fresh(g),
         \A a \in Fresh(g) : Near(g, a, 6)
  PROVE  Read(g, readDisk(g, adr), top, adr)
<1>1. CASE adr = Root
  <2>1. readDisk(g, adr) = g
    <3>1. assignBuf(g, adr) = g
      BY <1>1 DEF assignBuf
    <3>2. QED
      BY <1>1, <3>1 DEF readDisk
  <2>2. ASSUME NEW a, NEW p \in 1 .. 6, Near(g, a, p) PROVE Near(g, a, p + 1)
    BY <2>2 DEF Near
  <2>3. QED
    BY <1>1, <2>1, <2>2, AlikeRefl DEF Read, Near
<1>2. CASE adr # Root
  <2>1. adr \in Nat \ {Root}
    BY <1>2 DEF Store, StoreBut, IsHandle, IsMap
  <2>2. PICK e, nb, i : Assigned(g, assignBuf(g, adr), top, adr, e, nb, i)
    BY <2>1, AssignIs
  <2> DEFINE nv == [nb EXCEPT !.valid = TRUE]
  <2>3. /\ nb \in Buffer /\ nv \in Buffer /\ nv.adr = adr /\ nv.valid /\ nv.modified = nb.modified
        /\ i \in 1 .. BufCt /\ e.bufs \in [1 .. BufCt -> Buffer] /\ e.bufs = g.bufs
    BY <2>2 DEF Assigned, Buffer, Store, StoreBut, IsHandle
  <2> HIDE DEF nv
  <2>4. readDisk(g, adr) = Turned(e, nv, i)
    <3>1. readDisk(g, adr) = [Turned(e, nb, i) EXCEPT !.bufs[1].valid = TRUE]
      <4>1. PICK m : m = assignBuf(g, adr)
        OBVIOUS
      <4>2. readDisk(g, adr) = [m EXCEPT !.bufs[1].valid = TRUE]
        BY <1>2, <4>1 DEF readDisk
      <4>3. m = Turned(e, nb, i)
        BY <2>2, <4>1 DEF Assigned
      <4>4. QED
        BY <4>2, <4>3
    <3>2. [Turned(e, nb, i) EXCEPT !.bufs[1].valid = TRUE]
            = [e EXCEPT !.bufs = [Turn(e.bufs, nb, i) EXCEPT ![1] = nv]]
      <4>1. PICK q : q = Turn(e.bufs, nb, i)
        OBVIOUS
      <4>2. q[1] = nb
        BY <2>3, <4>1, TurnIs DEF IsTurn
      <4>3. Turned(e, nb, i) = [e EXCEPT !.bufs = q]
        BY <4>1 DEF Turned
      <4>4. IsHandle(e)
        BY <2>2 DEF Assigned, Store, StoreBut
      <4>5. [[e EXCEPT !.bufs = q] EXCEPT !.bufs[1].valid = TRUE] = [e EXCEPT !.bufs = [q EXCEPT ![1] = nv]]
        <5> DEFINE r == [e EXCEPT !.bufs = q]
                   y == [q EXCEPT ![1] = nv]
        <5>1. e = [nodes |-> e.nodes, file |-> e.file, bufs |-> e.bufs, rootModified |-> e.rootModified,
                   nextFreeAdr |-> e.nextFreeAdr, curBuf |-> e.curBuf, curKey |-> e.curKey]
          BY <4>4 DEF IsHandle
        <5>2. r.bufs = q
          BY <5>1
        <5>3. [r EXCEPT !.bufs = y] = [e EXCEPT !.bufs = y]
          <6> HIDE DEF y
          <6>1. QED
            BY <5>1
        <5> HIDE DEF r, y
        <5>4. [r EXCEPT !.bufs[1].valid = TRUE] = [r EXCEPT !.bufs = [q EXCEPT ![1] = [nb EXCEPT !.valid = TRUE]]]
          BY <4>2, <5>2
        <5>5. QED
          BY <5>3, <5>4 DEF r, y, nv
      <4>6. QED
        BY <4>1, <4>3, <4>5
    <3>3. [Turn(e.bufs, nb, i) EXCEPT ![1] = nv] = Turn(e.bufs, nv, i)
      <4>1. IsTurn(Turn(e.bufs, nb, i), e.bufs, nb, i) /\ IsTurn(Turn(e.bufs, nv, i), e.bufs, nv, i)
        BY <2>3, TurnIs
      <4>2. ASSUME NEW q, NEW r, IsTurn(q, e.bufs, nb, i), IsTurn(r, e.bufs, nv, i)
            PROVE  [q EXCEPT ![1] = nv] = r
        <5>1. BufCt = 7
          BY DEF BufCt
        <5>2. /\ q \in [1 .. 7 -> Buffer] /\ r \in [1 .. 7 -> Buffer] /\ r[1] = nv
              /\ \A j \in 2 .. 7 : q[j] = r[j]
          BY <4>2, <5>1 DEF IsTurn
        <5>3. QED
          BY <5>2
      <4>3. QED
        BY <4>1, <4>2
    <3>4. QED
      BY <3>1, <3>2, <3>3 DEF Turned
  <2>5. InFile(e, adr) \/ nb.modified
    <3>1. CASE nb = g.bufs[i] /\ nb.valid /\ ~nb.modified
      <4>1. BufsOK(e) /\ Kept(e, adr) /\ adr \in DOMAIN e.nodes
        BY <1>2, <2>2 DEF Assigned, Alike, Store, StoreBut
      <4>2. e.bufs[i].adr = adr /\ adr # NoAdr
        BY <1>2, <2>2, <2>3, <3>1 DEF Assigned, NoAdr, Root
      <4>3. \A j \in 1 .. BufCt : e.bufs[j].adr = adr => j = i
        BY <2>3, <4>1, <4>2 DEF BufsOK
      <4>4. QED
        BY <2>3, <3>1, <4>1, <4>3 DEF Kept, Fresh, Dirty
    <3>2. CASE \A j \in 1 .. BufCt : g.bufs[j].adr # adr
      <4>1. Kept(e, adr)
        BY <1>2, <2>2 DEF Assigned, Alike, Store, StoreBut
      <4>2. QED
        BY <2>3, <3>2, <4>1 DEF Kept, Fresh, Dirty
    <3>3. QED
      BY <2>2, <3>1, <3>2 DEF Assigned
  <2>6. /\ StoreBut(e, top, {}) /\ adr \in DOMAIN e.nodes \ {Root}
        /\ \A j \in 1 .. BufCt : j # i => e.bufs[j].adr # adr
        /\ e.bufs[i].adr = adr \/ i = BufCt
        /\ e.bufs[i].adr \in {adr, NoAdr} \/ (e.bufs[i].valid /\ InFile(e, e.bufs[i].adr))
    BY <1>2, <2>2 DEF Assigned, Alike, Store
  <2> DEFINE f == Turned(e, nv, i)
  <2> HIDE DEF f
  <2>7. /\ Store(f, top) /\ f.nodes = e.nodes /\ f.file = e.file
        /\ f.rootModified = e.rootModified /\ f.nextFreeAdr = e.nextFreeAdr
        /\ f.curBuf = e.curBuf /\ f.curKey = e.curKey
        /\ Fresh(f) = Fresh(e) \ {adr}
        /\ Near(f, adr, 1)
        /\ \A a, p : p \in 1 .. 6 /\ Near(e, a, p) => Near(f, a, p + 1)
    <3>1. {} \subseteq {adr}
      OBVIOUS
    <3>2. nv.adr = adr /\ (nv.modified => nv.valid) /\ (~nv.valid \/ nv.modified \/ InFile(e, adr))
      BY <2>3, <2>5
    <3>3. PICK X : X = {} /\ StoreBut(e, top, X) /\ X \subseteq {adr}
      BY <2>6
    <3>4. /\ Store(f, top) /\ f.nodes = e.nodes /\ f.file = e.file
          /\ f.rootModified = e.rootModified /\ f.nextFreeAdr = e.nextFreeAdr
          /\ f.curBuf = e.curBuf /\ f.curKey = e.curKey
          /\ Fresh(f) = (Fresh(e) \ {adr}) \cup (IF nv.valid THEN {} ELSE {adr})
          /\ Near(f, adr, 1)
          /\ \A a, p : p \in 1 .. 6 /\ Near(e, a, p) => Near(f, a, p + 1)
      <4>1. CanTurn(e, top, X, adr, nv, i)
        BY <2>3, <2>6, <3>2, <3>3 DEF CanTurn
      <4>2. HasTurned(e, f, top, adr, nv)
        BY <4>1, TurnStore DEF f
      <4>3. QED
        BY <4>2 DEF HasTurned
    <3>5. QED
      BY <2>3, <3>4
  <2>8. Alike(g, e) /\ NearAlike(g, e) /\ e.bufs = g.bufs
    BY <2>2 DEF Assigned
  <2>9. Fresh(e) = Fresh(g) /\ \A a, p : Near(e, a, p) <=> Near(g, a, p)
    BY <2>8 DEF Fresh, Near, Alike
  <2>10. Alike(g, f) /\ NearAlike(g, f)
    BY <2>7, <2>8 DEF Alike, NearAlike
  <2>11. QED
    BY <2>4, <2>7, <2>9, <2>10 DEF Read, f
<1>3. QED
  BY <1>1, <1>2

\* What is the same as the same is the same.
LEMMA SameTrans == ASSUME NEW a, NEW b, NEW c, Same(a, b), Same(b, c) PROVE Same(a, c)
  BY DEF Same

\* Being the same goes both ways.
LEMMA SameSym == ASSUME NEW a, NEW b, Same(a, b) PROVE Same(b, a)
  BY DEF Same

\* A change of a node in memory that a reader of keys does not see, or of the root.
PutNode(g, a, n) == [g EXCEPT !.nodes[a] = n]
HasPut(g, f, top, a, n) ==
  /\ Store(f, top) /\ DOMAIN f.nodes = DOMAIN g.nodes /\ f.nodes[a] = n
  /\ \A b \in DOMAIN g.nodes : b # a => f.nodes[b] = g.nodes[b]
  /\ f.file = g.file /\ f.bufs = g.bufs /\ f.rootModified = g.rootModified
  /\ f.nextFreeAdr = g.nextFreeAdr /\ f.curBuf = g.curBuf /\ f.curKey = g.curKey
  /\ Fresh(f) = Fresh(g)

\* After such a change the buffers and the file still have every node.
LEMMA PutStore ==
  ASSUME NEW g, NEW top, Store(g, top), NEW a \in DOMAIN g.nodes, NEW n, NodeOK(n, DOMAIN g.nodes, top),
         a = Root \/ Same(n, g.nodes[a])
  PROVE  HasPut(g, PutNode(g, a, n), top, a, n)
<1> DEFINE N == [g.nodes EXCEPT ![a] = n]
           f == PutNode(g, a, n)
<1>1. IsHandle(g) /\ BufsOK(g) /\ NodesOK(g, top) /\ \A b \in DOMAIN g.nodes \ {Root} : Kept(g, b)
  BY DEF Store, StoreBut
<1>2. /\ DOMAIN N = DOMAIN g.nodes /\ N[a] = n /\ IsMap(N)
      /\ \A b \in DOMAIN g.nodes : b # a => N[b] = g.nodes[b]
  BY <1>1 DEF IsMap, IsHandle
<1> HIDE DEF N
<1>3. f = [nodes |-> N, file |-> g.file, bufs |-> g.bufs, rootModified |-> g.rootModified,
           nextFreeAdr |-> g.nextFreeAdr, curBuf |-> g.curBuf, curKey |-> g.curKey]
  <2>1. f = [g EXCEPT !.nodes = N]
    BY DEF PutNode, N
  <2> HIDE DEF f
  <2>2. QED
    BY <1>1, <2>1 DEF IsHandle
<1> HIDE DEF f
<1>4. /\ f.nodes = N /\ f.file = g.file /\ f.bufs = g.bufs /\ f.rootModified = g.rootModified
      /\ f.nextFreeAdr = g.nextFreeAdr /\ f.curBuf = g.curBuf /\ f.curKey = g.curKey /\ IsHandle(f)
  BY <1>1, <1>2, <1>3 DEF IsHandle
<1>5. BufsOK(f)
  BY <1>1, <1>2, <1>4 DEF BufsOK
<1>6. NodesOK(f, top)
  BY <1>1, <1>2, <1>4 DEF NodesOK
<1>7. Fresh(f) = Fresh(g) /\ Dirty(f) = Dirty(g)
  BY <1>2, <1>4 DEF Fresh, Dirty
<1>8. \A b \in DOMAIN f.nodes \ {Root} : Kept(f, b)
  <2> SUFFICES ASSUME NEW b \in DOMAIN g.nodes \ {Root} PROVE Kept(f, b)
    BY <1>2, <1>4
  <2>1. InFile(g, b) => InFile(f, b)
    <3>1. CASE b = a
      BY <1>2, <1>4, <3>1, SameTrans DEF InFile
    <3>2. CASE b # a
      BY <1>2, <1>4, <3>2 DEF InFile
    <3>3. QED
      BY <3>1, <3>2
  <2>2. QED
    BY <1>1, <1>7, <2>1 DEF Kept
<1>9. QED
  BY <1>2, <1>4, <1>5, <1>6, <1>7, <1>8 DEF Store, StoreBut, HasPut, f

\* A node that has a buffer is written.
Wrote(g, f, top, adr, n) ==
  /\ Store(f, top) /\ DOMAIN f.nodes = DOMAIN g.nodes /\ f.nodes[adr] = n
  /\ \A b \in DOMAIN g.nodes : b # adr => f.nodes[b] = g.nodes[b]
  /\ f.file = g.file /\ f.rootModified = (g.rootModified \/ adr = Root)
  /\ f.nextFreeAdr = g.nextFreeAdr /\ f.curBuf = g.curBuf /\ f.curKey = g.curKey
  /\ Fresh(f) = Fresh(g) \ {adr}
  /\ \A b, p : p \in 1 .. 7 => (Near(f, b, p) <=> Near(g, b, p))

\* writeNode: the node is as written, and its buffer marked.
LEMMA WriteIs ==
  ASSUME NEW g, NEW top, Store(g, top), NEW adr \in DOMAIN g.nodes, Near(g, adr, 7),
         NEW n, NodeOK(n, DOMAIN g.nodes, top)
  PROVE  Wrote(g, writeNode(g, adr, n), top, adr, n)
<1> DEFINE N == [g.nodes EXCEPT ![adr] = n]
           B == IF adr = Root THEN g.bufs
                ELSE [i \in DOMAIN g.bufs |-> IF g.bufs[i].adr = adr
                        THEN [g.bufs[i] EXCEPT !.valid = TRUE, !.modified = TRUE] ELSE g.bufs[i]]
           m == g.rootModified \/ adr = Root
           f == writeNode(g, adr, n)
<1>0. BufCt = 7 /\ 1 .. BufCt = 1 .. 7
  BY DEF BufCt
<1>1. IsHandle(g) /\ BufsOK(g) /\ NodesOK(g, top) /\ (\A b \in DOMAIN g.nodes \ {Root} : Kept(g, b))
      /\ g.bufs \in [1 .. 7 -> Buffer] /\ m \in BOOLEAN
  BY <1>0 DEF Store, StoreBut, IsHandle
<1>2. /\ DOMAIN N = DOMAIN g.nodes /\ N[adr] = n /\ IsMap(N)
      /\ \A b \in DOMAIN g.nodes : b # adr => N[b] = g.nodes[b]
  BY <1>1 DEF IsMap, IsHandle
<1>3. /\ B \in [1 .. 7 -> Buffer]
      /\ \A i \in 1 .. 7 : B[i].adr = g.bufs[i].adr
      /\ \A i \in 1 .. 7 : g.bufs[i].adr # adr \/ adr = Root => B[i] = g.bufs[i]
      /\ \A i \in 1 .. 7 : g.bufs[i].adr = adr /\ adr # Root => B[i].valid /\ B[i].modified
  BY <1>1, Zenon DEF Buffer
<1>4. f = [nodes |-> N, file |-> g.file, bufs |-> B, rootModified |-> m,
           nextFreeAdr |-> g.nextFreeAdr, curBuf |-> g.curBuf, curKey |-> g.curKey]
  <2> DEFINE e == [g EXCEPT !.nodes[adr] = n]
  <2>1. e = [g EXCEPT !.nodes = N]
    OBVIOUS
  <2>2. f = writeDisk(e, adr)
    BY DEF writeNode
  <2> HIDE DEF N, e, f
  <2>3. e = [nodes |-> N, file |-> g.file, bufs |-> g.bufs, rootModified |-> g.rootModified,
             nextFreeAdr |-> g.nextFreeAdr, curBuf |-> g.curBuf, curKey |-> g.curKey]
    BY <1>1, <2>1 DEF IsHandle
  <2>4. CASE adr = Root
    <3>1. f = [e EXCEPT !.rootModified = TRUE] /\ B = g.bufs /\ m = TRUE
      BY <2>2, <2>4 DEF writeDisk
    <3> HIDE DEF B, m
    <3>2. QED
      BY <2>3, <3>1
  <2>5. CASE adr # Root
    <3>1. m = g.rootModified
      BY <1>1, <2>5 DEF IsHandle
    <3>2. e.bufs = g.bufs
      BY <2>3
    <3>3. f = [e EXCEPT !.bufs = B]
      BY <2>2, <2>5, <3>2, Zenon DEF writeDisk
    <3> HIDE DEF B, m
    <3>4. QED
      BY <2>3, <3>1, <3>3
  <2>6. QED
    BY <2>4, <2>5, Zenon
<1> HIDE DEF N, B, m, f
<1>5. /\ f.nodes = N /\ f.file = g.file /\ f.bufs = B /\ f.rootModified = m
      /\ f.nextFreeAdr = g.nextFreeAdr /\ f.curBuf = g.curBuf /\ f.curKey = g.curKey /\ IsHandle(f)
  BY <1>0, <1>1, <1>2, <1>3, <1>4 DEF IsHandle
<1>6. BufsOK(f)
  <2>1. ASSUME NEW i \in 1 .. 7
        PROVE  B[i].adr \in DOMAIN g.nodes /\ (B[i].adr = NoAdr => ~B[i].valid) /\ (B[i].modified => B[i].valid)
    BY <1>0, <1>1, <1>3 DEF BufsOK, NoAdr, Root
  <2>2. QED
    BY <1>0, <1>1, <1>2, <1>3, <1>5, <2>1 DEF BufsOK
<1>7. NodesOK(f, top)
  BY <1>1, <1>2, <1>5 DEF NodesOK
<1>8. Fresh(f) = Fresh(g) \ {adr}
  BY <1>0, <1>1, <1>2, <1>3, <1>5 DEF Fresh, NoAdr, Root
<1>9. Dirty(g) \subseteq Dirty(f) /\ (adr # Root => adr \in Dirty(f))
  <2>1. Dirty(g) \subseteq Dirty(f)
    BY <1>0, <1>1, <1>2, <1>3, <1>5 DEF Dirty
  <2>2. ASSUME adr # Root PROVE adr \in Dirty(f)
    <3>1. PICK i \in 1 .. 7 : g.bufs[i].adr = adr
      BY <2>2 DEF Near
    <3>2. QED
      BY <1>0, <1>2, <1>3, <1>5, <2>2, <3>1 DEF Dirty
  <2>3. QED
    BY <2>1, <2>2
<1>10. \A b \in DOMAIN f.nodes \ {Root} : Kept(f, b)
  <2> SUFFICES ASSUME NEW b \in DOMAIN g.nodes \ {Root} PROVE Kept(f, b)
    BY <1>2, <1>5
  <2>1. CASE b = adr
    BY <1>9, <2>1 DEF Kept
  <2>2. CASE b # adr
    <3>1. InFile(g, b) => InFile(f, b)
      BY <1>2, <1>5, <2>2 DEF InFile
    <3>2. QED
      BY <1>1, <1>8, <1>9, <2>2, <3>1 DEF Kept
  <2>3. QED
    BY <2>1, <2>2
<1>11. \A b, p : p \in 1 .. 7 => (Near(f, b, p) <=> Near(g, b, p))
  BY <1>3, <1>5 DEF Near
<1>12. QED
  BY <1>2, <1>5, <1>6, <1>7, <1>8, <1>10, <1>11 DEF Store, StoreBut, Wrote, m, f

\* More addresses and more values do no harm to a node.
LEMMA NodeMore ==
  ASSUME NEW n, NEW A, NEW B, NEW top \in Nat, NEW more \in Nat, A \subseteq B, top <= more, NodeOK(n, A, top)
  PROVE  NodeOK(n, B, more)
  BY DEF NodeOK

\* More values do no harm.
LEMMA StoreMore ==
  ASSUME NEW g, NEW top \in Nat, NEW more \in Nat, top <= more, Store(g, top)
  PROVE  Store(g, more)
<1>1. NodesOK(g, top)
  BY DEF Store, StoreBut
<1>2. \A a \in DOMAIN g.nodes : NodeOK(g.nodes[a], DOMAIN g.nodes, more)
  BY <1>1, NodeMore DEF NodesOK
<1>3. \A a \in DOMAIN g.file : NodeOK(g.file[a], DOMAIN g.nodes, more)
  BY <1>1, NodeMore DEF NodesOK
<1>4. NodesOK(g, more)
  BY <1>1, <1>2, <1>3 DEF NodesOK
<1>5. QED
  BY <1>4 DEF Store, StoreBut

\* A new node has the first buffer, which has not been written yet.
NewNodeIn(g, adr, new) ==
  [g EXCEPT !.nextFreeAdr = @ + 1,
            !.nodes = [a \in DOMAIN @ \cup {adr} |-> IF a = adr THEN new ELSE @[a]]]
Added(h0, f, top, adr, new) ==
  /\ Store(f, top) /\ DOMAIN f.nodes = DOMAIN h0.nodes \cup {adr} /\ f.nodes[adr] = new
  /\ \A a \in DOMAIN h0.nodes : Same(f.nodes[a], h0.nodes[a])
  /\ \A a \in DOMAIN h0.nodes : Near(h0, a, 6) => f.nodes[a] = h0.nodes[a]
  /\ f.file[Root] = h0.file[Root] /\ f.rootModified = h0.rootModified /\ f.nextFreeAdr = h0.nextFreeAdr + 1
  /\ f.curBuf = h0.curBuf /\ f.curKey = h0.curKey
  /\ Fresh(f) = Fresh(h0) \cup {adr} /\ Near(f, adr, 1)
  /\ \A a, p : p \in 1 .. 6 /\ Near(h0, a, p) => Near(f, a, p + 1)

\* A new node, as allocAdr and assignBuf leave it.
LEMMA NewIs ==
  ASSUME NEW g, NEW top \in Nat, Store(g, top), \A a \in Fresh(g) : Near(g, a, 6),
         NEW adr, adr = g.nextFreeAdr, adr # Root,
         NEW new, NodeOK(new, DOMAIN g.nodes \cup {adr}, top)
  PROVE  Added(g, NewNodeIn(assignBuf(g, adr), adr, new), top, adr, new)
<1>1. /\ IsHandle(g) /\ BufsOK(g) /\ NodesOK(g, top) /\ adr \in Nat /\ adr \notin DOMAIN g.nodes
  BY DEF Store, StoreBut, IsHandle, NodesOK
<1>2. adr \notin Fresh(g) /\ \A j \in 1 .. BufCt : g.bufs[j].adr # adr
  BY <1>1 DEF Fresh, BufsOK
<1>3. PICK e, nb, i : Assigned(g, assignBuf(g, adr), top, adr, e, nb, i)
  BY <1>1, <1>2, AssignIs
<1>4. /\ Store(e, top) /\ Alike(g, e) /\ NearAlike(g, e) /\ e.bufs = g.bufs
      /\ assignBuf(g, adr) = Turned(e, nb, i)
      /\ nb = [adr |-> adr, valid |-> FALSE, modified |-> FALSE] /\ nb \in Buffer /\ i \in 1 .. BufCt
      /\ g.bufs[i].adr = adr \/ i = BufCt
      /\ g.bufs[i].adr \in {adr, NoAdr} \/ (g.bufs[i].valid /\ InFile(e, g.bufs[i].adr))
  BY <1>2, <1>3 DEF Assigned
<1>5. /\ IsHandle(e) /\ BufsOK(e) /\ NodesOK(e, top) /\ \A b \in DOMAIN e.nodes \ {Root} : Kept(e, b)
      /\ DOMAIN e.nodes = DOMAIN g.nodes /\ e.nextFreeAdr = adr
  BY <1>4 DEF Store, StoreBut, Alike
<1> DEFINE N == [a \in DOMAIN e.nodes \cup {adr} |-> IF a = adr THEN new ELSE e.nodes[a]]
           e2 == [e EXCEPT !.nextFreeAdr = @ + 1, !.nodes = N]
<1>6. /\ DOMAIN N = DOMAIN g.nodes \cup {adr} /\ N[adr] = new /\ IsMap(N)
      /\ \A b \in DOMAIN g.nodes : N[b] = e.nodes[b] /\ b # adr
  BY <1>1, <1>5 DEF IsMap, IsHandle
<1> HIDE DEF N
<1>7. e2 = [nodes |-> N, file |-> e.file, bufs |-> e.bufs, rootModified |-> e.rootModified,
           nextFreeAdr |-> e.nextFreeAdr + 1, curBuf |-> e.curBuf, curKey |-> e.curKey]
  <2>1. PICK k : k = e.nextFreeAdr + 1
    OBVIOUS
  <2>2. e2 = [e EXCEPT !.nextFreeAdr = k, !.nodes = N]
    BY <2>1
  <2>3. e = [nodes |-> e.nodes, file |-> e.file, bufs |-> e.bufs, rootModified |-> e.rootModified,
             nextFreeAdr |-> e.nextFreeAdr, curBuf |-> e.curBuf, curKey |-> e.curKey]
    BY <1>5 DEF IsHandle
  <2> HIDE DEF e2
  <2>4. e2 = [nodes |-> N, file |-> e.file, bufs |-> e.bufs, rootModified |-> e.rootModified,
              nextFreeAdr |-> k, curBuf |-> e.curBuf, curKey |-> e.curKey]
    BY <2>2, <2>3
  <2>5. QED
    BY <2>1, <2>4
<1>8. NewNodeIn(assignBuf(g, adr), adr, new) = Turned(e2, nb, i)
  <2>1. PICK q : q = Turn(e.bufs, nb, i)
    OBVIOUS
  <2>2. assignBuf(g, adr) = [e EXCEPT !.bufs = q]
    BY <1>4, <2>1 DEF Turned
  <2>3. PICK m : m = [nodes |-> e.nodes, file |-> e.file, bufs |-> q, rootModified |-> e.rootModified,
           nextFreeAdr |-> e.nextFreeAdr, curBuf |-> e.curBuf, curKey |-> e.curKey]
    OBVIOUS
  <2>4. assignBuf(g, adr) = m
    BY <1>5, <2>2, <2>3 DEF IsHandle
  <2>5. m.nodes = e.nodes /\ m.nextFreeAdr = e.nextFreeAdr
    BY <2>3
  <2>6. NewNodeIn(m, adr, new) = [m EXCEPT !.nextFreeAdr = e.nextFreeAdr + 1, !.nodes = N]
    BY <2>5 DEF NewNodeIn, N
  <2>7. NewNodeIn(m, adr, new) = [nodes |-> N, file |-> e.file, bufs |-> q, rootModified |-> e.rootModified,
           nextFreeAdr |-> e.nextFreeAdr + 1, curBuf |-> e.curBuf, curKey |-> e.curKey]
    BY <2>3, <2>6
  <2>8. Turned(e2, nb, i) = [e2 EXCEPT !.bufs = q]
    BY <1>7, <2>1 DEF Turned
  <2> HIDE DEF e2
  <2>9. Turned(e2, nb, i) = [nodes |-> N, file |-> e.file, bufs |-> q, rootModified |-> e.rootModified,
           nextFreeAdr |-> e.nextFreeAdr + 1, curBuf |-> e.curBuf, curKey |-> e.curKey]
    BY <1>7, <2>8
  <2>10. QED
    BY <2>4, <2>7, <2>9
<1> HIDE DEF e2
<1>9. /\ e2.nodes = N /\ e2.file = e.file /\ e2.bufs = e.bufs /\ e2.rootModified = e.rootModified
      /\ e2.nextFreeAdr = adr + 1 /\ e2.curBuf = e.curBuf /\ e2.curKey = e.curKey /\ IsHandle(e2)
  <2>1. e.nextFreeAdr + 1 \in Nat
    BY <1>1, <1>5
  <2>2. QED
    BY <1>5, <1>6, <1>7, <2>1 DEF IsHandle
<1>10. BufsOK(e2)
  BY <1>5, <1>6, <1>9 DEF BufsOK
<1>11. NodesOK(e2, top)
  <2>1. \A a \in DOMAIN N : a < adr + 1 /\ NodeOK(N[a], DOMAIN N, top)
    <3> SUFFICES ASSUME NEW a \in DOMAIN N PROVE a < adr + 1 /\ NodeOK(N[a], DOMAIN N, top)
      OBVIOUS
    <3>1. CASE a = adr
      BY <1>1, <1>6, <3>1
    <3>2. CASE a # adr
      <4>1. a \in DOMAIN e.nodes /\ N[a] = e.nodes[a] /\ a < adr /\ NodeOK(e.nodes[a], DOMAIN e.nodes, top)
        BY <1>5, <1>6, <3>2 DEF NodesOK
      <4>2. a \in Nat
        BY <1>5, <4>1 DEF IsHandle, IsMap
      <4>3. DOMAIN e.nodes \subseteq DOMAIN N
        BY <1>5, <1>6
      <4>4. top <= top
        OBVIOUS
      <4>5. NodeOK(N[a], DOMAIN N, top)
        BY <4>1, <4>3, <4>4, NodeMore
      <4>6. QED
        BY <1>1, <4>1, <4>2, <4>5
    <3>3. QED
      BY <3>1, <3>2
  <2>2. \A a \in DOMAIN e.file : NodeOK(e.file[a], DOMAIN N, top)
    <3> SUFFICES ASSUME NEW a \in DOMAIN e.file PROVE NodeOK(e.file[a], DOMAIN N, top)
      OBVIOUS
    <3>1. NodeOK(e.file[a], DOMAIN e.nodes, top) /\ DOMAIN e.nodes \subseteq DOMAIN N /\ top <= top
      BY <1>5, <1>6 DEF NodesOK
    <3>2. QED
      BY <3>1, NodeMore
  <2>3. QED
    BY <1>5, <1>6, <1>9, <2>1, <2>2 DEF NodesOK
<1>12. Fresh(e2) = Fresh(e) /\ Dirty(e2) = Dirty(e)
  BY <1>5, <1>6, <1>9 DEF Fresh, Dirty, BufsOK
<1>13. \A b \in DOMAIN e.nodes : InFile(e, b) => InFile(e2, b)
  BY <1>5, <1>6, <1>9 DEF InFile
<1>14. \A b \in DOMAIN e2.nodes \ {Root, adr} : Kept(e2, b)
  BY <1>5, <1>6, <1>9, <1>12, <1>13 DEF Kept
<1>15. StoreBut(e2, top, {adr})
  BY <1>9, <1>10, <1>11, <1>14 DEF StoreBut
<1>16. CanTurn(e2, top, {adr}, adr, nb, i)
  <2>1. adr \in DOMAIN e2.nodes \ {Root}
    BY <1>6, <1>9
  <2>2. \A j \in 1 .. BufCt : e2.bufs[j].adr # adr
    BY <1>2, <1>4, <1>9
  <2>3. e2.bufs[i].adr \in {adr, NoAdr} \/ (e2.bufs[i].valid /\ InFile(e2, e2.bufs[i].adr))
    BY <1>4, <1>5, <1>9, <1>13 DEF BufsOK
  <2>4. e2.bufs[i].adr = adr \/ i = BufCt
    BY <1>4, <1>9
  <2>5. nb.adr = adr /\ ~nb.modified /\ ~nb.valid
    BY <1>4
  <2>6. QED
    BY <1>4, <1>15, <2>1, <2>2, <2>3, <2>4, <2>5 DEF CanTurn
<1> DEFINE f == Turned(e2, nb, i)
<1>17. HasTurned(e2, f, top, adr, nb)
  BY <1>16, TurnStore
<1> HIDE DEF f
<1>18. Fresh(e) = Fresh(g) /\ \A a, p : Near(e2, a, p) <=> Near(g, a, p)
  BY <1>4, <1>9 DEF Fresh, Near, Alike
<1>19. Fresh(f) = Fresh(g) \cup {adr}
  BY <1>2, <1>4, <1>12, <1>17, <1>18 DEF HasTurned
<1>20. f.nodes = N /\ \A a \in DOMAIN g.nodes : f.nodes[a] = e.nodes[a]
  BY <1>6, <1>9, <1>17 DEF HasTurned
<1>21. Added(g, f, top, adr, new)
  BY <1>4, <1>5, <1>6, <1>9, <1>17, <1>18, <1>19, <1>20 DEF HasTurned, Added, Alike, NearAlike
<1>22. QED
  BY <1>8, <1>21 DEF f

\* Three addresses are read.
ReadThree(g, f, top, x) ==
  /\ Store(f, top) /\ Alike(g, f) /\ Fresh(f) = {}
  /\ \A a \in DOMAIN g.nodes : Near(g, a, 4) => f.nodes[a] = g.nodes[a]
  /\ \A j \in 1 .. 3 : Near(f, x[j], 3)
  /\ \A a, p : p \in 1 .. 4 /\ Near(g, a, p) => Near(f, a, p + 3)

\* A buffer among the first p is among the first q.
LEMMA NearMore ==
  ASSUME NEW g, NEW a, NEW p \in Int, NEW q \in Int, p <= q, Near(g, a, p)
  PROVE  Near(g, a, q)
  BY DEF Near

\* What is like a handle like another is like the other.
LEMMA AlikeTrans ==
  ASSUME NEW a, NEW b, NEW c, Alike(a, b), Alike(b, c)
  PROVE  Alike(a, c)
<1>1. \A x \in DOMAIN a.nodes : Same(c.nodes[x], a.nodes[x])
  BY SameTrans DEF Alike
<1>2. QED
  BY <1>1 DEF Alike

\* Three reads: the three nodes are in the first buffers.
LEMMA ReadAllIs ==
  ASSUME NEW g, NEW top, Store(g, top), Fresh(g) = {}, NEW x, \A j \in 1 .. 3 : x[j] \in DOMAIN g.nodes
  PROVE  ReadThree(g, readAll(g, x), top, x)
<1> DEFINE r1 == readDisk(g, x[1])
           r2 == readDisk(r1, x[2])
           r3 == readDisk(r2, x[3])
<1>0. x[1] \in DOMAIN g.nodes /\ x[2] \in DOMAIN g.nodes /\ x[3] \in DOMAIN g.nodes
  OBVIOUS
<1>1. Read(g, r1, top, x[1])
  BY <1>0, ReadIs
<1> HIDE DEF r1
<1>2. Store(r1, top) /\ Fresh(r1) = {} /\ DOMAIN r1.nodes = DOMAIN g.nodes
  BY <1>1 DEF Read, Alike
<1>3. Read(r1, r2, top, x[2])
  BY <1>0, <1>2, ReadIs
<1> HIDE DEF r2
<1>4. Store(r2, top) /\ Fresh(r2) = {} /\ DOMAIN r2.nodes = DOMAIN g.nodes
  BY <1>2, <1>3 DEF Read, Alike
<1>5. Read(r2, r3, top, x[3])
  BY <1>0, <1>4, ReadIs
<1> HIDE DEF r3
<1>6. Alike(g, r3)
  BY <1>1, <1>3, <1>5, AlikeTrans DEF Read
<1>7. Store(r3, top) /\ Fresh(r3) = {}
  BY <1>4, <1>5 DEF Read
<1>8. ASSUME NEW a, NEW p \in 1 .. 4, Near(g, a, p)
      PROVE  Near(r1, a, p + 1) /\ Near(r2, a, p + 2) /\ Near(r3, a, p + 3)
  <2>1. p \in 1 .. 6 /\ p + 1 \in 1 .. 6 /\ p + 2 \in 1 .. 6 /\ (p + 1) + 1 = p + 2 /\ (p + 2) + 1 = p + 3
    OBVIOUS
  <2>2. Near(r1, a, p + 1)
    BY <1>1, <1>8, <2>1 DEF Read
  <2>3. Near(r2, a, p + 2)
    BY <1>3, <2>1, <2>2 DEF Read
  <2>4. Near(r3, a, p + 3)
    BY <1>5, <2>1, <2>3 DEF Read
  <2>5. QED
    BY <2>2, <2>3, <2>4
<1>9. ASSUME NEW a \in DOMAIN g.nodes, Near(g, a, 4) PROVE r3.nodes[a] = g.nodes[a]
  <2>1. Near(g, a, 6) /\ Near(r1, a, 6) /\ Near(r2, a, 6)
    <3>1. Near(r1, a, 5) /\ Near(r2, a, 6)
      <4>1. 4 \in 1 .. 4 /\ 4 + 1 = 5 /\ 4 + 2 = 6
        OBVIOUS
      <4>2. QED
        BY <1>8, <1>9, <4>1
    <3>2. QED
      BY <1>9, <3>1, NearMore
  <2>2. QED
    BY <1>1, <1>2, <1>3, <1>4, <1>5, <2>1 DEF Read, NearAlike
<1>10. \A j \in 1 .. 3 : Near(r3, x[j], 3)
  <2>1. Near(r3, x[3], 3)
    BY <1>5, NearMore DEF Read
  <2>2. Near(r3, x[2], 3)
    <3>1. Near(r2, x[2], 1) /\ 1 \in 1 .. 6 /\ 1 + 1 = 2
      BY <1>3 DEF Read
    <3>2. Near(r3, x[2], 2)
      BY <1>5, <3>1 DEF Read
    <3>3. QED
      BY <3>2, NearMore
  <2>3. Near(r3, x[1], 3)
    <3>1. Near(r1, x[1], 1) /\ 1 \in 1 .. 6 /\ 1 + 1 = 2 /\ 2 \in 1 .. 6 /\ 2 + 1 = 3
      BY <1>1 DEF Read
    <3>2. Near(r2, x[1], 2)
      BY <1>3, <3>1 DEF Read
    <3>3. QED
      BY <1>5, <3>1, <3>2 DEF Read
  <2>4. QED
    BY <2>1, <2>2, <2>3
<1>11. QED
  BY <1>6, <1>7, <1>8, <1>9, <1>10 DEF readAll, ReadThree, r1, r2, r3

\* A dictionary that is opened.
LEMMA HandleStore ==
  ASSUME NEW file, NEW free \in Nat, NEW top, IsMap(file), Root \in DOMAIN file,
         \A a \in DOMAIN file : a < free /\ NodeOK(file[a], DOMAIN file, top)
  PROVE  Store(Handle(file, free), top) /\ Fresh(Handle(file, free)) = {}
<1> DEFINE g == Handle(file, free)
           none == [i \in 1 .. BufCt |-> NoBuffer]
<1>1. /\ none \in [1 .. BufCt -> Buffer] /\ \A i \in 1 .. BufCt : none[i] = NoBuffer
      /\ NoBuffer.adr = NoAdr /\ ~NoBuffer.valid /\ ~NoBuffer.modified
  BY DEF NoBuffer, Buffer, NoAdr
<1>2. g = [nodes |-> file, file |-> file, bufs |-> none,
           rootModified |-> FALSE, nextFreeAdr |-> free, curBuf |-> Root, curKey |-> 0]
  BY DEF Handle
<1> HIDE DEF g, none
<1>3. /\ g.nodes = file /\ g.file = file /\ g.bufs = none /\ g.rootModified = FALSE
      /\ g.nextFreeAdr = free /\ g.curBuf = Root /\ g.curKey = 0 /\ IsHandle(g)
  BY <1>1, <1>2 DEF IsHandle
<1>4. BufsOK(g)
  BY <1>1, <1>3 DEF BufsOK, NoAdr, Root
<1>5. NodesOK(g, top)
  BY <1>3 DEF NodesOK
<1>6. \A a \in DOMAIN g.nodes \ {Root} : Kept(g, a)
  BY <1>3, SameRefl DEF Kept, InFile
<1>7. Fresh(g) = {}
  BY <1>1, <1>3 DEF Fresh
<1>8. QED
  BY <1>3, <1>4, <1>5, <1>6, <1>7 DEF Store, StoreBut, g

\* The handle of a new dictionary has the root and nothing else.
LEMMA EmptyStore ==
  ASSUME NEW top
  PROVE  LET g == Handle(EmptyFile, FirstFree) IN
         /\ Store(g, top) /\ Fresh(g) = {} /\ g.nodes = EmptyFile /\ g.file = EmptyFile
         /\ IsNode(NewNode(Root)) /\ NewNode(Root).leaf /\ NewNode(Root).ct = 0
<1> DEFINE n == NewNode(Root)
<1>1. IsNode(n) /\ n.leaf /\ n.ct = 0 /\ n.next = NoAdr
  <2>1. Room(Root) \in Nat
    BY ParameterAssumption DEF Room, Root
  <2>2. PICK r \in Nat : r = Room(Root)
    BY <2>1
  <2>3. Zero \in Entry
    BY DEF Zero, Entry, NoAdr
  <2>4. PICK en : en = [i \in 1 .. r |-> Zero]
    OBVIOUS
  <2>5. en \in Seq(Entry) /\ Len(en) = r
    BY <2>3, <2>4, SequenceOfFunction
  <2>6. n = [leaf |-> TRUE, ct |-> 0, prev |-> NoAdr, next |-> NoAdr, lt |-> NoAdr, ent |-> en]
    BY <2>2, <2>4 DEF NewNode
  <2> HIDE DEF n
  <2>7. QED
    BY <2>5, <2>6 DEF IsNode, NodeType, NoAdr
<1> HIDE DEF n
<1>2. DOMAIN EmptyFile = {Root} /\ IsMap(EmptyFile) /\ EmptyFile[Root] = n
  BY DEF EmptyFile, IsMap, Root, n
<1>3. FirstFree \in Nat /\ Root < FirstFree
  BY DEF FirstFree, Root
<1>4. NodeOK(n, {Root}, top)
  BY <1>1 DEF NodeOK, Root, NoAdr
<1>5. \A a \in DOMAIN EmptyFile : a < FirstFree /\ NodeOK(EmptyFile[a], DOMAIN EmptyFile, top)
  BY <1>2, <1>3, <1>4
<1>6. Root \in DOMAIN EmptyFile
  BY <1>2
<1>7. Store(Handle(EmptyFile, FirstFree), top) /\ Fresh(Handle(EmptyFile, FirstFree)) = {}
  BY <1>2, <1>3, <1>5, <1>6, HandleStore
<1>8. Handle(EmptyFile, FirstFree).nodes = EmptyFile /\ Handle(EmptyFile, FirstFree).file = EmptyFile
  BY DEF Handle
<1>9. QED
  BY <1>1, <1>7, <1>8 DEF n

\* A dictionary that is closed: the file has every node.
LEMMA FlushIs ==
  ASSUME NEW g, NEW top, Store(g, top), Fresh(g) = {}
  PROVE  LET f == flushAll(g) IN
         /\ IsMap(f) /\ DOMAIN f = DOMAIN g.nodes
         /\ \A a \in DOMAIN g.nodes \ {Root} : Same(f[a], g.nodes[a])
         /\ f[Root] = IF g.rootModified THEN g.nodes[Root] ELSE g.file[Root]
         /\ \A a \in DOMAIN g.nodes : NodeOK(f[a], DOMAIN g.nodes, top)
<1>0. /\ IsHandle(g) /\ BufsOK(g) /\ NodesOK(g, top) /\ (\A a \in DOMAIN g.nodes \ {Root} : Kept(g, a))
      /\ Root \in DOMAIN g.file /\ DOMAIN g.file \subseteq DOMAIN g.nodes
  BY DEF Store, StoreBut, NodesOK
<1> DEFINE dirty == { g.bufs[i].adr : i \in { j \in 1 .. BufCt : g.bufs[j].modified } }
                    \cup (IF g.rootModified THEN {Root} ELSE {})
           f == [a \in DOMAIN g.file \cup dirty |-> IF a \in dirty THEN g.nodes[a] ELSE g.file[a]]
<1>1. flushAll(g) = f
  BY DEF flushAll
<1>2. dirty \subseteq DOMAIN g.nodes
  BY <1>0 DEF BufsOK
<1>3. Root \in dirty <=> g.rootModified
  BY <1>0 DEF BufsOK, NoAdr, Root
<1>4. Dirty(g) \subseteq dirty
  BY DEF Dirty
<1> HIDE DEF dirty
<1>5. DOMAIN f = DOMAIN g.nodes
  <2>1. \A a \in DOMAIN g.nodes : a \in DOMAIN g.file \cup dirty
    BY <1>0, <1>4 DEF Kept, InFile
  <2>2. QED
    BY <1>0, <1>2, <2>1
<1>6. \A a \in DOMAIN g.nodes : f[a] = IF a \in dirty THEN g.nodes[a] ELSE g.file[a]
  BY <1>5
<1>7. IsMap(f)
  BY <1>0, <1>5 DEF IsMap, IsHandle
<1> HIDE DEF f
<1>8. \A a \in DOMAIN g.nodes \ {Root} : Same(f[a], g.nodes[a])
  <2> SUFFICES ASSUME NEW a \in DOMAIN g.nodes \ {Root} PROVE Same(f[a], g.nodes[a])
    OBVIOUS
  <2>1. CASE a \in dirty
    BY <1>6, <2>1, SameRefl
  <2>2. CASE a \notin dirty
    <3>1. InFile(g, a)
      BY <1>0, <1>4, <2>2 DEF Kept
    <3>2. QED
      BY <1>6, <2>2, <3>1, SameSym DEF InFile
  <2>3. QED
    BY <2>1, <2>2
<1>9. f[Root] = IF g.rootModified THEN g.nodes[Root] ELSE g.file[Root]
  BY <1>0, <1>3, <1>6
<1>10. \A a \in DOMAIN g.nodes : NodeOK(f[a], DOMAIN g.nodes, top)
  <2> SUFFICES ASSUME NEW a \in DOMAIN g.nodes PROVE NodeOK(f[a], DOMAIN g.nodes, top)
    OBVIOUS
  <2>1. CASE a \in dirty
    BY <1>0, <1>6, <2>1 DEF NodesOK
  <2>2. CASE a \notin dirty
    <3>1. a \in DOMAIN g.file
      BY <1>0, <1>4, <2>2 DEF Kept, InFile
    <3>2. QED
      BY <1>0, <1>6, <2>2, <3>1 DEF NodesOK
  <2>3. QED
    BY <2>1, <2>2
<1>11. QED
  BY <1>1, <1>5, <1>7, <1>8, <1>9, <1>10

\* The handle after the dictionary is closed and opened.
Reopened(g, f, top) ==
  /\ Store(f, top) /\ Fresh(f) = {} /\ DOMAIN f.nodes = DOMAIN g.nodes /\ f.file = f.nodes
  /\ \A a \in DOMAIN g.nodes \ {Root} : Same(f.nodes[a], g.nodes[a])
  /\ f.nodes[Root] = IF g.rootModified THEN g.nodes[Root] ELSE g.file[Root]

\* A close and an open leave every node but the root as it was.
LEMMA ReopenIs ==
  ASSUME NEW g, NEW top, Store(g, top), Fresh(g) = {}
  PROVE  Reopened(g, Handle(flushAll(g), Max(DOMAIN flushAll(g) \cup {FirstFree - 1}) + 1), top)
<1>1. PICK f : f = flushAll(g)
  OBVIOUS
<1>2. /\ IsMap(f) /\ DOMAIN f = DOMAIN g.nodes
      /\ \A a \in DOMAIN g.nodes \ {Root} : Same(f[a], g.nodes[a])
      /\ f[Root] = IF g.rootModified THEN g.nodes[Root] ELSE g.file[Root]
      /\ \A a \in DOMAIN g.nodes : NodeOK(f[a], DOMAIN g.nodes, top)
  BY <1>1, FlushIs
<1>3. /\ DOMAIN g.nodes \subseteq Nat /\ g.nextFreeAdr \in Nat /\ Root \in DOMAIN g.nodes
      /\ \A a \in DOMAIN g.nodes : a < g.nextFreeAdr
  BY DEF Store, StoreBut, IsHandle, IsMap, NodesOK
<1> DEFINE S == DOMAIN f \cup {FirstFree - 1}
<1>4. S \subseteq Nat /\ S # {} /\ g.nextFreeAdr + 3 \in Nat /\ \A a \in S : a <= g.nextFreeAdr + 3
  BY <1>2, <1>3 DEF FirstFree
<1> HIDE DEF S
<1>5. Max(S) \in S /\ \A a \in S : a <= Max(S)
  BY <1>4, MaxIn
<1>51. PICK mx : mx = Max(S)
  OBVIOUS
<1>52. mx \in Nat /\ \A a \in S : a \in Nat /\ a <= mx
  BY <1>4, <1>5, <1>51
<1>6. PICK free \in Nat : free = mx + 1
  BY <1>52
<1>7. \A a \in DOMAIN f : a < free
  BY <1>52, <1>6 DEF S
<1>8. Store(Handle(f, free), top) /\ Fresh(Handle(f, free)) = {}
  <2>1. \A a \in DOMAIN f : a < free /\ NodeOK(f[a], DOMAIN f, top)
    BY <1>2, <1>7
  <2>2. Root \in DOMAIN f
    BY <1>2, <1>3
  <2>3. QED
    BY <1>2, <2>1, <2>2, HandleStore
<1>9. Handle(f, free).nodes = f /\ Handle(f, free).file = f
  BY DEF Handle
<1>10. Reopened(g, Handle(f, free), top)
  BY <1>2, <1>8, <1>9 DEF Reopened
<1>11. QED
  BY <1>1, <1>51, <1>6, <1>10 DEF S

(***************************************************************************)
(* The invariant.  g is the handle, c the call, hd what is held, top the   *)
(* number of records of the bag, P the nodes the call has come through.    *)
(***************************************************************************)
OddRoom == MaxCt % 2 = 1 /\ MaxCt >= 7
Half == MaxCt \div 2

Sizes(N, S) ==
  /\ \A a \in S \ {Root} : N[a].ct \in Half .. MaxCt
  /\ Root \in S => N[Root].ct <= 3 * MaxCt /\ (~N[Root].leaf => N[Root].ct >= 2)

\* The root was changed last when it took the keys of its children R had: the
\* file still has R, and they are still there.
Collapsed(g, T) ==
  \E x, u, V, W, o :
    /\ \A j \in 1 .. 3 : x[j] \in DOMAIN g.nodes \ T /\ IsNode(W[j]) /\ Same(W[j], g.nodes[x[j]])
    /\ \A j \in 1 .. 3 : W[j].ct \in Half .. MaxCt
    /\ \A i, j \in 1 .. 3 : x[i] = x[j] => i = j
    /\ IsNode(V) /\ Same(V, g.nodes[Root]) /\ IsNode(o) /\ ~o.leaf /\ o.ct = 0
    /\ CutUnder(o, g.file[Root], 0, 3, V, u, x) /\ Between(g.file[Root], 0, 3, V, u) /\ CutAt(V, W, 3, u)
RootKept(g, T) == g.rootModified \/ Same(g.nodes[Root], g.file[Root]) \/ Collapsed(g, T)

Settled(g, top, t) ==
  /\ Store(g, top) /\ Fresh(g) = {} /\ IsTree(g.nodes, t) /\ Sizes(g.nodes, t.T) /\ RootKept(g, t.T)

\* The calls.
IsWrite(c) == c.tree \in {"insert", "update"}
KeyTree(c) == c.tree \notin {"first", "fgeq"}
OpOK(c) ==
  /\ \/ c.op = "insert" /\ c.tree \in {"get", "insert", "update"}
     \/ c.op \in {"get", "update"} /\ c.tree = "get"
     \/ c.op = "delete" /\ c.tree = "delete"
     \/ c.op = "find" /\ c.tree \in {"get", "first", "fgeq"}
  /\ c.key \in Int /\ (c.op # "find" => c.key \in Keys)
  /\ c.op \in {"insert", "update"} => c.value \in Values
Running(c, hd, top) ==
  /\ c = [pc |-> c.pc, op |-> c.op, key |-> c.key, value |-> c.value, tree |-> c.tree, rec |-> c.rec,
          buf |-> c.buf, ge |-> c.ge, at |-> c.at, lt |-> c.lt, gbuf |-> c.gbuf, pkey |-> c.pkey,
          is |-> c.is, iu |-> c.iu, tmp |-> c.tmp]
  /\ OpOK(c)
  /\ IsWrite(c) => c.rec \in 1 .. top
  /\ c.tree = "insert" => hd[c.key] # {}

\* The keys of the tree are those held; a key that is put in is held before it is
\* in the tree, one that is deleted is held after it was.
HeldKeys(hd) == { k \in Keys : hd[k] # {} }
KeysHeld(c, hd) ==
  IF (c.pc # "return" /\ c.tree = "insert") \/ (c.pc = "return" /\ c.tree = "delete" /\ c.rc = "ok")
    THEN HeldKeys(hd) \ {c.key} ELSE HeldKeys(hd)

\* The way the call has come, and the node with the last key it passed.
Guard(N, t, P, c) ==
  \/ c.ge = -1 /\ ~c.lt
  \/ /\ c.ge \in P \ {c.buf} /\ c.at \in Int /\ c.at + 1 \in 1 .. N[c.ge].ct
     /\ Child(N[c.ge], c.at + 1) \in P
     /\ \A x \in t.K[Child(N[c.ge], c.at + 1)] \ t.K[c.buf] : c.key < x /\ \A y \in t.K[c.buf] : y < x
PathOK(N, t, P, c) ==
  c.buf \in t.T /\ (KeyTree(c) => OnRoute(N, t, P, c.buf, c.key) /\ Guard(N, t, P, c))

IdleOK(g, c, hd, top, t) ==
  c = CallIdle /\ Settled(g, top, t) /\ t.K[Root] = HeldKeys(hd)
ReturnOK(g, c, hd, top, t) ==
  /\ c.pc = "return" /\ OpOK(c) /\ Settled(g, top, t) /\ t.K[Root] = KeysHeld(c, hd)
  /\ c.tree = "get" => (c.rc = "ok" <=> c.key \in t.K[Root]) /\ c.rc \in {"ok", "notfound"}
  /\ c.tree \in {"get", "delete"} /\ c.rc = "ok" => c.offset \in 1 .. top
BeginOK(g, c, hd, top, t, P) ==
  /\ c.pc = "begin" /\ Running(c, hd, top) /\ Settled(g, top, t) /\ t.K[Root] = KeysHeld(c, hd)
  /\ IsWrite(c) /\ c.buf = Root /\ PathOK(g.nodes, t, P, c)
NodeRoom(c, n) ==
  /\ c.tree = "delete" /\ c.buf # Root => n.ct >= Half + 1
  /\ IsWrite(c) => n.ct < (IF c.buf = Root THEN 3 * MaxCt ELSE MaxCt)
DescendOK(g, c, hd, top, t, P) ==
  /\ c.pc = "descend" /\ Running(c, hd, top) /\ Settled(g, top, t) /\ t.K[Root] = KeysHeld(c, hd)
  /\ PathOK(g.nodes, t, P, c) /\ NodeRoom(c, g.nodes[c.buf]) /\ Near(g, c.buf, 1)
ChildRoom(c, n) ==
  /\ c.tree = "delete" => n.ct >= Half + 1
  /\ IsWrite(c) => n.ct < MaxCt
RescanOK(g, c, hd, top, t, P) ==
  /\ c.pc = "rescan" /\ Running(c, hd, top) /\ Settled(g, top, t) /\ t.K[Root] = KeysHeld(c, hd)
  /\ PathOK(g.nodes, t, P, c) /\ KeyTree(c) /\ ~g.nodes[c.buf].leaf
  /\ \A i \in 0 .. g.nodes[c.buf].ct :
       Routes(g.nodes[c.buf], i, c.key) => ChildRoom(c, g.nodes[Child(g.nodes[c.buf], i)])

\* While the gathered keys are not yet in their nodes: N is the tree with one node
\* that has them all, at the address of the first one.
Whole(g, c) == IF c.iu = 0 THEN g.nextFreeAdr ELSE c.tmp[1]
Tmp(c) == { c.tmp[i] : i \in 1 .. c.iu }
Gathered(c, V) ==
  V.leaf = c.gbuf.leaf /\ V.lt = c.gbuf.lt /\ V.ent = c.gbuf.ent /\ V.ct = Len(c.gbuf.ent)
ListsOK(gb, top) == gb.leaf => \A i \in 1 .. Len(gb.ent) : gb.ent[i].rec \in 1 .. top

\* z has is children in place of the one of o, and the keys between them.
JoinedOf(o, z, p, is) ==
  LET d == IF is = 0 THEN 0 ELSE 2 IN
  /\ ~o.leaf /\ p \in 0 .. o.ct /\ z.ct = o.ct + d
  /\ \A i \in 1 .. p : z.ent[i].key = o.ent[i].key
  /\ \A i \in (p + 1) .. o.ct : z.ent[i + d].key = o.ent[i].key
  /\ \A i \in 0 .. (p - 1) : Child(z, i) = Child(o, i)
  /\ \A i \in (p + 1) .. o.ct : Child(z, i + d) = Child(o, i)
  /\ IF is = 0 THEN o.ct = 0 ELSE Child(z, p) = Child(o, p)
AtMostM(n, leaf) == (MaxCt - 1) + (n - 1) * (IF leaf THEN MaxCt - 1 ELSE MaxCt)
AtLeastM(n, leaf) == (Half + 1) + (n - 1) * (IF leaf THEN Half + 1 ELSE (MaxCt + 1) \div 2 + 1)

\* How many keys there can be, by the way the scatter came about.
Amount(c, oct, G, leaf) ==
  LET d == IF leaf THEN 0 ELSE 2 IN
  \/ c.is = 0 /\ c.buf = Root /\ c.pkey = 0 /\ IsWrite(c) /\ G = 3 * MaxCt /\ c.iu \in 0 .. 4
  \/ /\ c.is = 3 /\ IsWrite(c)
     /\ oct + 2 < (IF c.buf = Root THEN 3 * MaxCt ELSE MaxCt)
     /\ c.buf # Root => oct + 2 >= Half
     /\ G \in (4 * Half + 1 + d) .. (3 * MaxCt + d)
     /\ c.iu = 3 \/ (c.iu = 4 /\ G > AtMostM(3, leaf))
  \/ /\ c.is = 3 /\ c.tree = "delete"
     /\ G \in (3 * Half + d) .. (5 * Half + 2 + d)
     /\ c.buf # Root => oct + 2 >= Half + 1
     /\ c.buf = Root /\ oct = 0 => G >= (9 * MaxCt) \div 4
     /\ c.buf = Root => oct + 2 <= 3 * MaxCt
     /\ c.buf # Root => oct + 2 <= MaxCt
     /\ c.iu = 3 \/ (c.iu = 2 /\ G < AtLeastM(3, leaf))
TmpOK(g, c, T) ==
  LET pos == IF c.is = 0 THEN c.iu ELSE IF c.iu = 4 THEN 6 ELSE 5 IN
  /\ \A i \in 1 .. c.iu : c.tmp[i] \in DOMAIN g.nodes \ {Root} /\ (i > 1 => c.tmp[i] \notin T) /\ Near(g, c.tmp[i], pos)
  /\ \A i, j \in 1 .. c.iu : c.tmp[i] = c.tmp[j] => i = j
  /\ Near(g, c.buf, pos) /\ c.buf \notin Tmp(c)
  /\ Fresh(g) \subseteq Tmp(c) /\ \A i \in 1 .. c.iu : i <= c.is => c.tmp[i] \notin Fresh(g)
  /\ c.iu > 0 => g.nodes[c.tmp[c.iu]].next \notin Fresh(g)
  /\ c.tmp \in Seq(Nat) /\ c.iu <= Len(c.tmp)
ScatterOK(g, c, hd, top, t, P, N) ==
  /\ c.pc = "scatter" /\ Running(c, hd, top) /\ Store(g, top) /\ t.K[Root] = KeysHeld(c, hd)
  /\ c.buf = Root \/ RootKept(g, t.T \cup Tmp(c))
  /\ IsTree(N, t) /\ DOMAIN N \subseteq DOMAIN g.nodes \cup {Whole(g, c)} /\ PathOK(N, t, P, c) /\ KeyTree(c)
  /\ Whole(g, c) \in t.T \ {Root, c.buf} /\ Gathered(c, N[Whole(g, c)]) /\ ListsOK(c.gbuf, top)
  /\ c.buf \in DOMAIN g.nodes /\ JoinedOf(N[c.buf], g.nodes[c.buf], c.pkey, c.is)
  /\ Child(N[c.buf], c.pkey) = Whole(g, c) /\ Routes(N[c.buf], c.pkey, c.key)
  /\ \A a \in t.T \ {c.buf, Whole(g, c)} : a \in DOMAIN g.nodes /\ Same(N[a], g.nodes[a])
  /\ Sizes(g.nodes, t.T \ {c.buf, Whole(g, c)})
  /\ c.is = 3 => ~g.nodes[c.buf].leaf
  /\ Amount(c, N[c.buf].ct, Len(c.gbuf.ent), c.gbuf.leaf) /\ TmpOK(g, c, t.T)

Good(g, c, hd, top, t, P, N) ==
  \/ IdleOK(g, c, hd, top, t) \/ ReturnOK(g, c, hd, top, t)
  \/ BeginOK(g, c, hd, top, t, P) \/ DescendOK(g, c, hd, top, t, P) \/ RescanOK(g, c, hd, top, t, P)
  \/ ScatterOK(g, c, hd, top, t, P, N)

\* What the file has of the root stays right under changes of other nodes.
LEMMA RootKeptOn ==
  ASSUME NEW g, NEW f, NEW T, NEW S, RootKept(g, T), f.rootModified = g.rootModified, f.file[Root] = g.file[Root],
         Same(f.nodes[Root], g.nodes[Root]),
         \A a \in DOMAIN g.nodes \ T : a \in DOMAIN f.nodes \ S /\ Same(f.nodes[a], g.nodes[a])
  PROVE  RootKept(f, S)
<1>1. CASE g.rootModified
  BY <1>1 DEF RootKept
<1>2. CASE Same(g.nodes[Root], g.file[Root])
  <2>1. Same(f.nodes[Root], f.file[Root])
    BY <1>2, SameTrans
  <2>2. QED
    BY <2>1 DEF RootKept
<1>3. CASE Collapsed(g, T)
  <2>1. PICK x, u, V, W, o :
    /\ \A j \in 1 .. 3 : x[j] \in DOMAIN g.nodes \ T /\ IsNode(W[j]) /\ Same(W[j], g.nodes[x[j]])
    /\ \A j \in 1 .. 3 : W[j].ct \in Half .. MaxCt
    /\ \A i, j \in 1 .. 3 : x[i] = x[j] => i = j
    /\ IsNode(V) /\ Same(V, g.nodes[Root]) /\ IsNode(o) /\ ~o.leaf /\ o.ct = 0
    /\ CutUnder(o, g.file[Root], 0, 3, V, u, x) /\ Between(g.file[Root], 0, 3, V, u) /\ CutAt(V, W, 3, u)
    BY <1>3 DEF Collapsed
  <2>2. Same(V, f.nodes[Root])
    BY <2>1, SameTrans, SameSym
  <2>3. \A j \in 1 .. 3 : x[j] \in DOMAIN f.nodes \ S /\ IsNode(W[j]) /\ Same(W[j], f.nodes[x[j]])
    BY <2>1, SameTrans, SameSym
  <2>4. Collapsed(f, S)
    BY <2>1, <2>2, <2>3 DEF Collapsed
  <2>5. QED
    BY <2>4 DEF RootKept
<1>4. QED
  BY <1>1, <1>2, <1>3 DEF RootKept

\* The nodes of a handle.
LEMMA StoreNodes ==
  ASSUME NEW g, NEW top, NEW X, StoreBut(g, top, X)
  PROVE  /\ \A a \in DOMAIN g.nodes : IsNode(g.nodes[a]) /\ NodeOK(g.nodes[a], DOMAIN g.nodes, top) /\ a \in Nat
         /\ \A a \in DOMAIN g.nodes : a < g.nextFreeAdr
         /\ Root \in DOMAIN g.nodes /\ g.curBuf \in DOMAIN g.nodes /\ IsNode(g.file[Root])
         /\ g.nextFreeAdr \in Nat \ {Root} /\ g.nextFreeAdr \notin DOMAIN g.nodes
         /\ g.rootModified \in BOOLEAN
<1>1. IsHandle(g) /\ NodesOK(g, top)
  BY DEF StoreBut
<1>2. Root \in DOMAIN g.nodes /\ IsNode(g.file[Root])
  BY <1>1 DEF NodesOK, NodeOK
<1>3. /\ \A a \in DOMAIN g.nodes : IsNode(g.nodes[a]) /\ NodeOK(g.nodes[a], DOMAIN g.nodes, top) /\ a \in Nat
      /\ \A a \in DOMAIN g.nodes : a < g.nextFreeAdr
  BY <1>1 DEF NodesOK, NodeOK, IsHandle, IsMap
<1>4. g.curBuf \in DOMAIN g.nodes /\ g.rootModified \in BOOLEAN /\ g.nextFreeAdr \in Nat
  BY <1>1 DEF NodesOK, IsHandle
<1>5. QED
  BY <1>2, <1>3, <1>4 DEF Root

\* What other reads leave.
LEMMA SettledAlike ==
  ASSUME NEW g, NEW f, NEW top, NEW t, Settled(g, top, t), Store(f, top), Fresh(f) = {}, Alike(g, f)
  PROVE  Settled(f, top, t)
<1>1. /\ \A a \in DOMAIN g.nodes : IsNode(g.nodes[a])
      /\ \A a \in DOMAIN f.nodes : IsNode(f.nodes[a])
      /\ Root \in DOMAIN g.nodes /\ DOMAIN f.nodes = DOMAIN g.nodes
  BY StoreNodes DEF Store, Settled, Alike
<1>2. IsTree(g.nodes, t) /\ t.T \subseteq DOMAIN g.nodes /\ \A a \in DOMAIN g.nodes : Same(f.nodes[a], g.nodes[a])
  BY DEF Settled, IsTree, Alike
<1>3. IsTree(f.nodes, t)
  BY <1>1, <1>2, TreeSame
<1>4. Sizes(f.nodes, t.T)
  <2>1. \A a \in t.T : f.nodes[a].ct = g.nodes[a].ct /\ f.nodes[a].leaf = g.nodes[a].leaf
    BY <1>2 DEF Same
  <2>2. QED
    BY <2>1 DEF Settled, Sizes
<1>5. RootKept(f, t.T)
  <2>1. RootKept(g, t.T) /\ f.rootModified = g.rootModified /\ f.file[Root] = g.file[Root]
    BY DEF Settled, Alike
  <2>2. Same(f.nodes[Root], g.nodes[Root])
    BY <1>1, <1>2
  <2>3. \A a \in DOMAIN g.nodes \ t.T : a \in DOMAIN f.nodes \ t.T /\ Same(f.nodes[a], g.nodes[a])
    BY <1>1, <1>2
  <2>4. QED
    BY <2>1, <2>2, <2>3, RootKeptOn
<1>6. QED
  BY <1>3, <1>4, <1>5 DEF Settled

\* The way stays the same when only the node it has come to, and what is below,
\* is changed.
LEMMA RouteKept ==
  ASSUME NEW N, NEW M, NEW t, NEW s, NEW P, NEW b, NEW key, OnRoute(N, t, P, b, key), P \subseteq s.T,
         \A a \in P \ {b} : IsNode(N[a]) /\ IsNode(M[a]) /\ Same(M[a], N[a]),
         \A a \in P : s.K[a] = t.K[a]
  PROVE  OnRoute(M, s, P, b, key)
<1>1. ASSUME NEW a \in P \ {b}
      PROVE  /\ M[a].leaf = N[a].leaf /\ M[a].ct = N[a].ct
             /\ \A i \in 0 .. N[a].ct : Child(M[a], i) = Child(N[a], i)
             /\ \A x : \A i \in 0 .. N[a].ct : Routes(M[a], i, x) <=> Routes(N[a], i, x)
  BY <1>1, SameNode
<1>2. \A c \in P \ {Root} : \E a \in P \ {b} : \E i \in 0 .. M[a].ct :
        ~M[a].leaf /\ c = Child(M[a], i) /\ Routes(M[a], i, key)
  <2> SUFFICES ASSUME NEW c \in P \ {Root}
               PROVE  \E a \in P \ {b} : \E i \in 0 .. M[a].ct : ~M[a].leaf /\ c = Child(M[a], i) /\ Routes(M[a], i, key)
    OBVIOUS
  <2>1. PICK a \in P \ {b} : \E i \in 0 .. N[a].ct : ~N[a].leaf /\ c = Child(N[a], i) /\ Routes(N[a], i, key)
    BY DEF OnRoute
  <2>2. PICK i \in 0 .. N[a].ct : ~N[a].leaf /\ c = Child(N[a], i) /\ Routes(N[a], i, key)
    BY <2>1
  <2>3. i \in 0 .. M[a].ct /\ ~M[a].leaf /\ c = Child(M[a], i) /\ Routes(M[a], i, key)
    BY <1>1, <2>2
  <2>4. QED
    BY <2>3
<1>3. \A a \in P \ {b} : ~M[a].leaf /\ \E i \in 0 .. M[a].ct : Child(M[a], i) \in P
  <2> SUFFICES ASSUME NEW a \in P \ {b} PROVE ~M[a].leaf /\ \E i \in 0 .. M[a].ct : Child(M[a], i) \in P
    OBVIOUS
  <2>1. PICK i \in 0 .. N[a].ct : ~N[a].leaf /\ Child(N[a], i) \in P
    BY DEF OnRoute
  <2>2. QED
    BY <1>1, <2>1
<1>4. Root \in P /\ b \in P /\ (b = Root => P = {Root})
  BY DEF OnRoute
<1>5. (\A a \in P : s.K[b] \subseteq s.K[a]) /\ (key \in s.K[Root] => key \in s.K[b])
  BY <1>4 DEF OnRoute
<1>6. QED
  BY <1>2, <1>3, <1>4, <1>5 DEF OnRoute

\* The key that was passed last stays, when nodes above the one the call has
\* come to do.
LEMMA GuardKept ==
  ASSUME NEW N, NEW M, NEW t, NEW s, NEW P, NEW c, NEW d, Guard(N, t, P, c),
         d.ge = c.ge, d.at = c.at, d.lt = c.lt, d.buf = c.buf, d.key = c.key, c.buf \in P,
         \A a \in P \ {c.buf} : IsNode(N[a]) /\ IsNode(M[a]) /\ Same(M[a], N[a]),
         \A a \in P : s.K[a] = t.K[a]
  PROVE  Guard(M, s, P, d)
<1>1. CASE c.ge = -1 /\ ~c.lt
  BY <1>1 DEF Guard
<1>2. CASE ~(c.ge = -1 /\ ~c.lt)
  <2>1. /\ c.ge \in P \ {c.buf} /\ c.at \in Int /\ c.at + 1 \in 1 .. N[c.ge].ct
        /\ Child(N[c.ge], c.at + 1) \in P
        /\ \A x \in t.K[Child(N[c.ge], c.at + 1)] \ t.K[c.buf] : c.key < x /\ \A y \in t.K[c.buf] : y < x
    BY <1>2 DEF Guard
  <2>2. /\ M[c.ge].ct = N[c.ge].ct /\ N[c.ge].ct \in Nat
        /\ \A i \in 0 .. N[c.ge].ct : Child(M[c.ge], i) = Child(N[c.ge], i)
    BY <2>1, SameNode, NodeParts
  <2>3. PICK i \in 0 .. N[c.ge].ct : i = c.at + 1 /\ i \in 1 .. N[c.ge].ct
    BY <2>1, <2>2
  <2>4. Child(M[c.ge], i) = Child(N[c.ge], i)
    BY <2>2
  <2>5. Child(M[c.ge], c.at + 1) = Child(N[c.ge], c.at + 1)
    BY <2>3, <2>4
  <2>6. QED
    BY <2>1, <2>2, <2>5 DEF Guard
<1>3. QED
  BY <1>1, <1>2

\* What the steps do to the locals of a call.
KeepsCall(c, d) ==
  d.op = c.op /\ d.key = c.key /\ d.value = c.value /\ d.tree = c.tree /\ d.rec = c.rec
KeepsWay(c, d) == d.buf = c.buf /\ d.ge = c.ge /\ d.at = c.at /\ d.lt = c.lt
RunningRec(c) ==
  [pc |-> c.pc, op |-> c.op, key |-> c.key, value |-> c.value, tree |-> c.tree, rec |-> c.rec,
   buf |-> c.buf, ge |-> c.ge, at |-> c.at, lt |-> c.lt, gbuf |-> c.gbuf, pkey |-> c.pkey,
   is |-> c.is, iu |-> c.iu, tmp |-> c.tmp]

\* A call that keeps its operation, key and value stays one that runs.
LEMMA CallKept ==
  ASSUME NEW c, NEW d, NEW hd, NEW top, Running(c, hd, top), KeepsCall(c, d), d = RunningRec(d)
  PROVE  Running(d, hd, top)
  BY DEF Running, KeepsCall, RunningRec, OpOK, IsWrite

\* Such a call writes, looks for a key and changes what is held as before.
LEMMA KeepsSorts ==
  ASSUME NEW c, NEW d, KeepsCall(c, d), d.pc # "return", c.pc # "return", NEW hd
  PROVE  (IsWrite(d) <=> IsWrite(c)) /\ (KeyTree(d) <=> KeyTree(c)) /\ KeysHeld(d, hd) = KeysHeld(c, hd)
  BY DEF KeepsCall, IsWrite, KeyTree, KeysHeld

CallOf(c) == c = RunningRec(c)

\* A call that goes on to descend.
LEMMA ToDescend ==
  ASSUME NEW c, CallOf(c), NEW d, d = [c EXCEPT !.pc = "descend"]
  PROVE  CallOf(d) /\ KeepsCall(c, d) /\ KeepsWay(c, d) /\ d.pc = "descend"
  BY DEF CallOf, RunningRec, KeepsCall, KeepsWay

ScatterCall(c, gb, p, is, x) ==
  [c EXCEPT !.pc = "scatter", !.gbuf = gb, !.pkey = p, !.is = is, !.iu = is, !.tmp = x]
Scatters(c, d, gb, p, is, x) ==
  /\ CallOf(d) /\ KeepsCall(c, d) /\ KeepsWay(c, d) /\ d.pc = "scatter"
  /\ d.gbuf = gb /\ d.pkey = p /\ d.is = is /\ d.iu = is /\ d.tmp = x

\* A call that goes on to scatter what was gathered.
LEMMA ToScatter ==
  ASSUME NEW c, CallOf(c), NEW gb, NEW p, NEW is, NEW x, NEW d, d = ScatterCall(c, gb, p, is, x)
  PROVE  Scatters(c, d, gb, p, is, x)
  BY DEF CallOf, RunningRec, KeepsCall, KeepsWay, ScatterCall, Scatters

\* Lift, for use.
LiftOK(N, M, t, v) ==
  /\ v \notin t.T /\ t.T \cup {v} \subseteq DOMAIN M /\ t.K[Root] # {}
  /\ IsNode(M[Root]) /\ ~M[Root].leaf /\ M[Root].ct = 0 /\ M[Root].lt = v
  /\ IsNode(M[v]) /\ Same(M[v], N[Root])
  /\ \A a \in t.T \ {Root} : IsNode(M[a]) /\ Same(M[a], N[a])
Lifted(M, t, s, v) ==
  /\ IsTree(M, s) /\ s.T = t.T \cup {v} /\ s.K[v] = t.K[Root]
  /\ \A a \in t.T : s.K[a] = t.K[a]

\* A root that is lifted gives a tree of the same keys.
LEMMA LiftIs ==
  ASSUME NEW N, NEW M, NEW t, NEW v, IsTree(N, t), LiftOK(N, M, t, v)
  PROVE  \E s : Lifted(M, t, s, v)
<1>1. /\ v \notin t.T /\ t.T \cup {v} \subseteq DOMAIN M /\ t.K[Root] # {}
      /\ IsNode(M[Root]) /\ ~M[Root].leaf /\ M[Root].ct = 0 /\ M[Root].lt = v
      /\ IsNode(M[v]) /\ Same(M[v], N[Root])
      /\ \A a \in t.T \ {Root} : IsNode(M[a]) /\ Same(M[a], N[a])
  BY DEF LiftOK
<1>2. \E s : /\ IsTree(M, s) /\ s.T = t.T \cup {v} /\ s.K[v] = t.K[Root] /\ \A a \in t.T : s.K[a] = t.K[a]
  BY <1>1, Lift
<1>3. QED
  BY <1>2 DEF Lifted

AsNode(gb) == [leaf |-> gb.leaf, ct |-> Len(gb.ent), prev |-> NoAdr, next |-> NoAdr, lt |-> gb.lt, ent |-> gb.ent]

\* The gathered keys as a node.
LEMMA AsNodeIs ==
  ASSUME NEW gb, gb.leaf \in BOOLEAN, gb.lt \in Int, gb.ent \in Seq(Entry)
  PROVE  LET V == AsNode(gb) IN
         IsNode(V) /\ V.leaf = gb.leaf /\ V.lt = gb.lt /\ V.ent = gb.ent /\ V.ct = Len(gb.ent)
<1>1. Len(gb.ent) \in Nat
  BY LenProperties
<1>2. QED
  BY <1>1 DEF AsNode, IsNode, NodeType, NoAdr

\* The dictionary is created.
LEMMA EmptyGood ==
  ASSUME NEW hd, HeldKeys(hd) = {}, NEW top
  PROVE  \E t : IdleOK(Handle(EmptyFile, FirstFree), CallIdle, hd, top, t)
<1> DEFINE g == Handle(EmptyFile, FirstFree)
           n == NewNode(Root)
           t == [T |-> {Root}, L |-> [a \in {Root} |-> 0], K |-> [a \in {Root} |-> {}], up |-> [a \in {Root} |-> 0]]
<1>1. /\ Store(g, top) /\ Fresh(g) = {} /\ g.nodes = EmptyFile /\ g.file = EmptyFile
      /\ IsNode(n) /\ n.leaf /\ n.ct = 0
  BY EmptyStore
<1> HIDE DEF g, n
<1>2. g.nodes[Root] = n /\ g.file[Root] = n /\ DOMAIN g.nodes = {Root}
  BY <1>1 DEF EmptyFile, n
<1>3. /\ t.T = {Root} /\ t.L \in [t.T -> Nat] /\ t.L[Root] = 0 /\ t.K \in [t.T -> SUBSET Int] /\ t.K[Root] = {}
  OBVIOUS
<1> HIDE DEF t
<1>4. KeysOf(n) = {} /\ Sorted(n)
  BY <1>1 DEF KeysOf, Sorted
<1>5. IsTree(g.nodes, t)
  <2>1. InTree(g.nodes[Root], t, Root)
    BY <1>1, <1>2, <1>3, <1>4 DEF InTree, LeafIn
  <2>2. QED
    BY <1>1, <1>2, <1>3, <2>1 DEF IsTree
<1>6. Sizes(g.nodes, t.T)
  BY <1>1, <1>2, <1>3, ParameterAssumption DEF Sizes
<1>7. RootKept(g, t.T)
  BY <1>2, SameRefl DEF RootKept
<1>8. IdleOK(g, CallIdle, hd, top, t)
  BY <1>1, <1>3, <1>5, <1>6, <1>7 DEF IdleOK, Settled
<1>9. QED
  BY <1>8 DEF g

\* A full root gets a new root above it.
LEMMA BeginWriteGood ==
  ASSUME NEW top, NEW t, NEW P, BeginOK(h, call, held, top, t, P), BeginWrite
  PROVE  \E s, Q, N : Good(h', call', held, top, s, Q, N)
<1>1. /\ call.pc = "begin" /\ Running(call, held, top) /\ Settled(h, top, t) /\ t.K[Root] = KeysHeld(call, held)
      /\ IsWrite(call) /\ call.buf = Root /\ PathOK(h.nodes, t, P, call) /\ CallOf(call)
  BY DEF BeginOK, Running, CallOf, RunningRec
<1>2. /\ Store(h, top) /\ Fresh(h) = {} /\ IsTree(h.nodes, t) /\ Sizes(h.nodes, t.T) /\ RootKept(h, t.T)
  BY <1>1 DEF Settled
<1>3. /\ \A a \in DOMAIN h.nodes : IsNode(h.nodes[a]) /\ NodeOK(h.nodes[a], DOMAIN h.nodes, top)
      /\ Root \in DOMAIN h.nodes /\ h.nextFreeAdr \in Nat \ {Root} /\ h.nextFreeAdr \notin DOMAIN h.nodes
      /\ t.T \subseteq DOMAIN h.nodes /\ Root \in t.T
  BY <1>2, StoreNodes DEF Store, IsTree
<1>4. KeyTree(call) /\ call.ge = -1 /\ ~call.lt /\ P = {Root}
  <2>1. KeyTree(call)
    BY <1>1 DEF IsWrite, KeyTree
  <2>2. QED
    BY <1>1, <2>1 DEF PathOK, OnRoute, Guard
<1> DEFINE R == h.nodes[Root]
<1>5. R.ct \in Nat /\ R.ct <= 3 * MaxCt
  BY <1>2, <1>3, NodeParts DEF Sizes
<1>6. CASE R.ct # 3 * MaxCt
  <2>1. call' = [call EXCEPT !.pc = "descend"] /\ h' = h
    BY <1>6 DEF BeginWrite
  <2>2. CallOf(call') /\ KeepsCall(call, call') /\ KeepsWay(call, call') /\ call'.pc = "descend"
    BY <1>1, <2>1, ToDescend
  <2>3. Running(call', held, top) /\ call'.buf = Root /\ call'.pc = "descend"
    BY <1>1, <2>2, CallKept DEF CallOf, KeepsWay
  <2>4. PathOK(h.nodes, t, P, call')
    BY <1>1, <2>2 DEF PathOK, Guard, KeepsCall, KeepsWay, KeyTree
  <2>5. t.K[Root] = KeysHeld(call', held)
    <3>1. KeepsCall(call, call') /\ call.pc # "return" /\ call'.pc # "return"
      BY <1>1, <2>2
    <3>2. QED
      BY <1>1, <3>1, KeepsSorts
  <2>6. NodeRoom(call', h.nodes[Root])
    BY <1>5, <1>6, <2>3, ParameterAssumption DEF NodeRoom
  <2>7. DescendOK(h, call', held, top, t, P)
    BY <1>1, <2>3, <2>4, <2>5, <2>6 DEF DescendOK, Near
  <2>8. Good(h', call', held, top, t, P, h.nodes)
    BY <2>1, <2>7 DEF Good
  <2>9. QED
    BY <2>8
<1>7. CASE R.ct = 3 * MaxCt
  <2> DEFINE gb == [leaf |-> R.leaf, lt |-> R.lt, ent |-> Entries(R)]
             v == h.nextFreeAdr
             n0 == [R EXCEPT !.ct = 0]
             V == AsNode(gb)
             o == [leaf |-> FALSE, ct |-> 0, prev |-> NoAdr, next |-> NoAdr, lt |-> v, ent |-> << >>]
             N == [a \in DOMAIN h.nodes \cup {v} |-> IF a = Root THEN o ELSE IF a = v THEN V ELSE h.nodes[a]]
  <2>1. call' = [call EXCEPT !.pc = "scatter", !.gbuf = gb, !.pkey = 0, !.is = 0, !.iu = 0, !.tmp = << >>]
    BY <1>7 DEF BeginWrite, Scatter
  <2>2. h' = PutNode(h, Root, n0)
    BY <1>7 DEF BeginWrite, PutNode
  <2>3. IsNode(R) /\ Entries(R) \in Seq(Entry) /\ Len(Entries(R)) = R.ct /\ \A i \in 1 .. R.ct : Entries(R)[i] = R.ent[i]
    BY <1>3, EntriesIs
  <2>4. gb.leaf = R.leaf /\ gb.lt = R.lt /\ gb.ent = Entries(R) /\ R.leaf \in BOOLEAN /\ R.lt \in Int
    BY <2>3, NodeParts
  <2> HIDE DEF gb
  <2>5. IsNode(V) /\ V.leaf = R.leaf /\ V.lt = R.lt /\ V.ent = Entries(R) /\ V.ct = R.ct
    BY <2>3, <2>4, AsNodeIs
  <2> HIDE DEF V
  <2>6. Same(V, R)
    BY <2>3, <2>5 DEF Same
  <2>7. NodeOK(n0, DOMAIN h.nodes, top)
    <3>1. IsNode(R) /\ R.next \in DOMAIN h.nodes
      BY <1>3 DEF NodeOK
    <3>2. n0.ct = 0 /\ n0 \in NodeType /\ n0.next = R.next /\ Len(n0.ent) \in Nat
      BY <3>1, LenProperties DEF IsNode, NodeType
    <3>3. QED
      BY <3>1, <3>2 DEF NodeOK, IsNode
  <2>8. n0.ct = 0
    BY <2>3 DEF IsNode, NodeType
  <2> HIDE DEF n0
  <2>9. HasPut(h, h', top, Root, n0)
    BY <1>2, <1>3, <2>2, <2>7, PutStore
  <2>10. /\ o.ct = 0 /\ ~o.leaf /\ o.lt = v /\ IsNode(o)
    BY <1>3 DEF IsNode, NodeType, NoAdr
  <2> HIDE DEF o
  <2>11. /\ DOMAIN N = DOMAIN h.nodes \cup {v} /\ N[Root] = o /\ N[v] = V
         /\ \A a \in DOMAIN h.nodes : a # Root => N[a] = h.nodes[a] /\ a # v
    BY <1>3
  <2> HIDE DEF N
  <2>12. t.K[Root] # {}
    <3>1. R.ct > 0
      BY <1>7, ParameterAssumption
    <3>2. CASE R.leaf
      <4>1. t.K[Root] = KeysOf(R) /\ R.ent[1].key \in KeysOf(R)
        BY <1>2, <1>3, <1>5, <3>1, <3>2 DEF IsTree, InTree, LeafIn, KeysOf
      <4>2. QED
        BY <4>1
    <3>3. CASE ~R.leaf
      <4>1. 0 \in 0 .. R.ct
        BY <1>5
      <4>2. t.K[Child(R, 0)] # {} /\ t.K[Child(R, 0)] \subseteq t.K[Root]
        BY <1>2, <1>3, <3>3, <4>1, TreeChild DEF ChildIn
      <4>3. QED
        BY <4>2
    <3>4. QED
      BY <3>2, <3>3
  <2>13. PICK s : /\ IsTree(N, s) /\ s.T = t.T \cup {v} /\ s.K[v] = t.K[Root]
                  /\ \A a \in t.T : s.K[a] = t.K[a]
    <3>1. v \notin t.T /\ t.T \cup {v} \subseteq DOMAIN N
      BY <1>3, <2>11
    <3>2. \A a \in t.T \ {Root} : IsNode(N[a]) /\ Same(N[a], h.nodes[a])
      BY <1>3, <2>11, SameRefl
    <3>3. IsNode(N[Root]) /\ ~N[Root].leaf /\ N[Root].ct = 0 /\ N[Root].lt = v /\ IsNode(N[v]) /\ Same(N[v], h.nodes[Root])
      BY <2>5, <2>6, <2>10, <2>11
    <3>4. LiftOK(h.nodes, N, t, v)
      BY <2>12, <3>1, <3>2, <3>3 DEF LiftOK
    <3>5. PICK s : Lifted(N, t, s, v)
      BY <1>2, <3>4, LiftIs
    <3>6. QED
      BY <3>5 DEF Lifted
  <2>14. /\ CallOf(call') /\ KeepsCall(call, call') /\ KeepsWay(call, call') /\ call'.pc = "scatter"
         /\ call'.gbuf = gb /\ call'.pkey = 0 /\ call'.is = 0 /\ call'.iu = 0 /\ call'.tmp = << >>
    <3>1. call' = ScatterCall(call, gb, 0, 0, << >>)
      BY <2>1 DEF ScatterCall
    <3>2. Scatters(call, call', gb, 0, 0, << >>)
      BY <1>1, <3>1, ToScatter
    <3>3. QED
      BY <3>2 DEF Scatters
  <2>15. /\ Running(call', held, top) /\ s.K[Root] = KeysHeld(call', held) /\ IsWrite(call') /\ KeyTree(call')
         /\ call'.buf = Root /\ call'.ge = -1 /\ ~call'.lt
    <3>1. Running(call', held, top)
      BY <1>1, <2>14, CallKept DEF CallOf
    <3>2. (IsWrite(call') <=> IsWrite(call)) /\ (KeyTree(call') <=> KeyTree(call))
          /\ KeysHeld(call', held) = KeysHeld(call, held)
      <4>1. KeepsCall(call, call') /\ call.pc # "return" /\ call'.pc # "return"
        BY <1>1, <2>14
      <4>2. QED
        BY <4>1, KeepsSorts
    <3>3. s.K[Root] = t.K[Root]
      BY <1>3, <2>13
    <3>4. QED
      BY <1>1, <1>4, <2>14, <3>1, <3>2, <3>3 DEF KeepsWay
  <2>16. PathOK(N, s, {Root}, call')
    <3>1. OnRoute(N, s, {Root}, Root, call'.key)
      BY <2>13, RouteStarts
    <3>2. Guard(N, s, {Root}, call')
      BY <2>15 DEF Guard
    <3>3. QED
      BY <1>3, <2>13, <2>15, <3>1, <3>2 DEF PathOK
  <2>17. /\ Store(h', top) /\ DOMAIN h'.nodes = DOMAIN h.nodes /\ h'.nodes[Root] = n0
         /\ \A a \in DOMAIN h.nodes : a # Root => h'.nodes[a] = h.nodes[a]
         /\ h'.nextFreeAdr = v /\ Fresh(h') = {}
    BY <1>2, <2>9 DEF HasPut
  <2>18. Whole(h', call') = v /\ Tmp(call') = {}
    BY <2>14, <2>17 DEF Whole, Tmp
  <2>19. Gathered(call', N[v])
    BY <2>3, <2>4, <2>5, <2>11, <2>14 DEF Gathered
  <2>19a. ListsOK(gb, top)
    <3>1. R.leaf => \A i \in 1 .. R.ct : R.ent[i].rec \in 1 .. top
      BY <1>3 DEF NodeOK
    <3> QED BY <3>1, <2>3, <2>4 DEF ListsOK
  <2>20. JoinedOf(N[Root], h'.nodes[Root], 0, 0)
    BY <2>8, <2>10, <2>11, <2>17 DEF JoinedOf
  <2>21. Child(N[Root], 0) = v /\ Routes(N[Root], 0, call'.key)
    BY <2>10, <2>11 DEF Child, Routes
  <2>22. \A a \in s.T \ {Root, v} : a \in DOMAIN h'.nodes /\ Same(N[a], h'.nodes[a])
    BY <1>3, <2>11, <2>13, <2>17, SameRefl
  <2>23. Sizes(h'.nodes, s.T \ {Root, v})
    BY <1>2, <1>3, <2>13, <2>17 DEF Sizes
  <2>24. Amount(call', N[Root].ct, Len(call'.gbuf.ent), call'.gbuf.leaf)
    BY <1>7, <2>3, <2>4, <2>14, <2>15 DEF Amount
  <2>25. TmpOK(h', call', s.T)
    <3>1. call'.tmp \in Seq(Nat) /\ call'.iu <= Len(call'.tmp)
      BY <2>14, EmptySeq
    <3>2. Near(h', call'.buf, 0)
      BY <2>15 DEF Near
    <3>3. QED
      BY <2>14, <2>15, <2>17, <2>18, <3>1, <3>2 DEF TmpOK
  <2>26. ScatterOK(h', call', held, top, s, {Root}, N)
    <3>1. v \in s.T \ {Root, call'.buf}
      BY <1>3, <2>13, <2>15
    <3>2. DOMAIN N \subseteq DOMAIN h'.nodes \cup {v}
      BY <2>11, <2>17
    <3>3. QED
      BY <1>3, <2>13, <2>14, <2>15, <2>16, <2>17, <2>18, <2>19, <2>19a, <2>20, <2>21, <2>22, <2>23, <2>24, <2>25, <3>1, <3>2
         DEF ScatterOK
  <2>27. QED
    BY <2>26 DEF Good
<1>8. QED
  BY <1>6, <1>7

\* The way of a call stays when the nodes are the same.
LEMMA PathAlike ==
  ASSUME NEW N, NEW M, NEW t, NEW P, NEW c, PathOK(N, t, P, c),
         \A a \in t.T : IsNode(N[a]) /\ IsNode(M[a]) /\ Same(M[a], N[a])
  PROVE  PathOK(M, t, P, c)
<1>1. CASE ~KeyTree(c)
  BY <1>1 DEF PathOK
<1>2. CASE KeyTree(c)
  <2>1. OnRoute(N, t, P, c.buf, c.key) /\ Guard(N, t, P, c) /\ c.buf \in t.T /\ P \subseteq t.T /\ c.buf \in P
    BY <1>2 DEF PathOK, OnRoute
  <2>2. \A a \in P \ {c.buf} : IsNode(N[a]) /\ IsNode(M[a]) /\ Same(M[a], N[a])
    BY <2>1
  <2>3. \A a \in P : t.K[a] = t.K[a]
    OBVIOUS
  <2>4. OnRoute(M, t, P, c.buf, c.key)
    BY <2>1, <2>2, <2>3, RouteKept
  <2>5. Guard(M, t, P, c)
    BY <2>1, <2>2, <2>3, GuardKept
  <2>6. QED
    BY <2>1, <2>4, <2>5 DEF PathOK
<1>3. QED
  BY <1>1, <1>2

DownCall(c, r, child) ==
  IF r.cc >= 0 \/ r.at # 0
    THEN [c EXCEPT !.pc = "descend", !.buf = child, !.ge = c.buf, !.lt = FALSE,
                   !.at = IF r.cc < 0 THEN r.at - 1 ELSE r.at]
    ELSE [c EXCEPT !.pc = "descend", !.buf = child, !.lt = (c.ge # -1)]
WentDown(c, d, r, child) ==
  /\ CallOf(d) /\ KeepsCall(c, d) /\ d.pc = "descend" /\ d.buf = child
  /\ IF r.cc >= 0 \/ r.at # 0
       THEN d.ge = c.buf /\ ~d.lt /\ d.at = IF r.cc < 0 THEN r.at - 1 ELSE r.at
       ELSE d.ge = c.ge /\ d.at = c.at /\ (d.lt = (c.ge # -1))

\* A call one level further down.
LEMMA DownCallIs ==
  ASSUME NEW c, CallOf(c), NEW r, NEW child, NEW d, d = DownCall(c, r, child)
  PROVE  WentDown(c, d, r, child)
<1>1. CASE r.cc >= 0 \/ r.at # 0
  <2>1. PICK at : at = IF r.cc < 0 THEN r.at - 1 ELSE r.at
    OBVIOUS
  <2>2. d = [c EXCEPT !.pc = "descend", !.buf = child, !.ge = c.buf, !.lt = FALSE, !.at = at]
    BY <1>1, <2>1 DEF DownCall
  <2>3. CallOf(d) /\ KeepsCall(c, d) /\ d.pc = "descend" /\ d.buf = child /\ d.ge = c.buf /\ ~d.lt /\ d.at = at
    BY <2>2 DEF CallOf, RunningRec, KeepsCall
  <2>4. QED
    BY <1>1, <2>1, <2>3 DEF WentDown
<1>2. CASE ~(r.cc >= 0 \/ r.at # 0)
  <2>1. d = [c EXCEPT !.pc = "descend", !.buf = child, !.lt = (c.ge # -1)]
    BY <1>2 DEF DownCall
  <2>2. CallOf(d) /\ KeepsCall(c, d) /\ d.pc = "descend" /\ d.buf = child /\ d.ge = c.ge /\ d.at = c.at /\ d.lt = (c.ge # -1)
    BY <2>1 DEF CallOf, RunningRec, KeepsCall
  <2>3. QED
    BY <1>2, <2>2 DEF WentDown
<1>3. QED
  BY <1>1, <1>2

\* To a child the search leads to.
LEMMA DownPath ==
  ASSUME NEW N, NEW t, NEW P, NEW c, IsTree(N, t), PathOK(N, t, P, c), ~N[c.buf].leaf, c.key \in Int,
         NEW r, NEW i \in 0 .. N[c.buf].ct, NEW child, child = Child(N[c.buf], i),
         KeyTree(c) => /\ r.cc \in {-1, 0, 1} /\ r.at \in 0 .. (N[c.buf].ct - 1)
                       /\ i = (IF r.cc < 0 THEN r.at ELSE r.at + 1) /\ Routes(N[c.buf], i, c.key),
         NEW d, WentDown(c, d, r, child)
  PROVE  PathOK(N, t, P \cup {child}, d) /\ child \in t.T \ {Root}
<1> DEFINE b == c.buf
           n == N[b]
<1>1. b \in t.T /\ IsNode(n) /\ Sorted(n) /\ ChildIn(n, t, b, i) /\ child \in t.T \ {Root}
      /\ t.K[child] \subseteq t.K[b] /\ t.K[b] \subseteq Int
  <2>1. b \in t.T
    BY DEF PathOK
  <2>2. IsNode(n) /\ Sorted(n)
    BY <2>1, TreeSorted DEF IsTree
  <2>3. b \in t.T /\ ~N[b].leaf /\ i \in 0 .. N[b].ct
    BY <2>1
  <2> HIDE DEF b
  <2>4. ChildIn(N[b], t, b, i) /\ t.K[Child(N[b], i)] \subseteq t.K[b] /\ t.K[b] \subseteq Int
    BY <2>3, TreeChild
  <2>5. child = Child(N[b], i)
    BY DEF b
  <2>6. child \in t.T \ {Root}
    BY <2>4, <2>5 DEF ChildIn
  <2>7. QED
    BY <2>1, <2>2, <2>4, <2>5, <2>6
<1>2. n.ct \in Nat /\ \A j \in 1 .. n.ct : n.ent[j].key \in Int
  BY <1>1, NodeParts
<1>3. (KeyTree(d) <=> KeyTree(c)) /\ d.key = c.key /\ d.buf = child
  BY DEF WentDown, KeepsCall, KeyTree
<1>4. CASE ~KeyTree(c)
  BY <1>1, <1>3, <1>4 DEF PathOK
<1>5. CASE KeyTree(c)
  <2>1. /\ OnRoute(N, t, P, b, c.key) /\ Guard(N, t, P, c)
        /\ r.cc \in {-1, 0, 1} /\ r.at \in 0 .. (n.ct - 1)
        /\ i = (IF r.cc < 0 THEN r.at ELSE r.at + 1) /\ Routes(n, i, c.key)
    BY <1>5 DEF PathOK
  <2>2. child \notin P /\ OnRoute(N, t, P \cup {child}, child, c.key)
    <3>1. PICK x : x = b
      OBVIOUS
    <3>2. /\ OnRoute(N, t, P, x, c.key) /\ ~N[x].leaf /\ i \in 0 .. N[x].ct /\ Routes(N[x], i, c.key)
          /\ c.key \in Int /\ child = Child(N[x], i)
      BY <2>1, <3>1
    <3>3. Child(N[x], i) \notin P /\ OnRoute(N, t, P \cup {Child(N[x], i)}, Child(N[x], i), c.key)
      BY <3>2, RouteDown
    <3>4. QED
      BY <3>2, <3>3
  <2>3. b \in P /\ b # child
    BY <2>1, <2>2 DEF OnRoute
  <2>4. CASE r.cc >= 0 \/ r.at # 0
    <3>1. d.ge = b /\ ~d.lt /\ d.at = IF r.cc < 0 THEN r.at - 1 ELSE r.at
      BY <2>4 DEF WentDown
    <3>2. d.at \in Int /\ d.at + 1 = i /\ i \in 1 .. n.ct
      BY <1>2, <2>1, <2>4, <3>1
    <3>3. Child(N[d.ge], d.at + 1) = child
      BY <3>1, <3>2
    <3>4. Guard(N, t, P \cup {child}, d)
      BY <1>3, <2>3, <3>1, <3>2, <3>3 DEF Guard
    <3>5. QED
      BY <1>1, <1>3, <2>2, <3>4 DEF PathOK
  <2>5. CASE ~(r.cc >= 0 \/ r.at # 0)
    <3>1. d.ge = c.ge /\ d.at = c.at /\ d.lt = (c.ge # -1) /\ i = 0
      BY <2>1, <2>5 DEF WentDown
    <3>2. CASE c.ge = -1
      BY <1>1, <1>3, <2>2, <3>1, <3>2 DEF PathOK, Guard
    <3>3. CASE c.ge # -1
      <4> DEFINE C == Child(N[c.ge], c.at + 1)
      <4>1. /\ c.ge \in P \ {b} /\ c.at \in Int /\ c.at + 1 \in 1 .. N[c.ge].ct /\ C \in P
            /\ \A x \in t.K[C] \ t.K[b] : c.key < x /\ \A y \in t.K[b] : y < x
        BY <2>1, <3>3 DEF Guard
      <4> HIDE DEF C
      <4>2. ASSUME NEW x \in t.K[C] \ t.K[child]
            PROVE  c.key < x /\ \A y \in t.K[child] : y < x
        <5>1. CASE x \notin t.K[b]
          BY <1>1, <4>1, <5>1
        <5>2. CASE x \in t.K[b]
          <6>1. PICK j \in 0 .. n.ct : x \in t.K[Child(n, j)]
            BY <1>1, <5>2 DEF IsTree, InTree, InnerIn
          <6>2. j # 0
            BY <3>1, <4>2, <6>1
          <6>3. Routes(n, j, x)
            BY <1>1, <6>1, TreeChild DEF ChildIn
          <6>4. 1 \in 1 .. n.ct /\ j \in 1 .. n.ct /\ n.ent[j].key <= x
            BY <1>2, <6>1, <6>2, <6>3 DEF Routes
          <6>5. n.ent[1].key <= n.ent[j].key
            BY <1>1, <1>2, <6>4 DEF Sorted
          <6>6. c.key < n.ent[1].key /\ \A y \in t.K[child] : y < n.ent[1].key
            <7>1. i = 0 /\ 0 < n.ct /\ Routes(n, 0, c.key)
              BY <1>2, <2>1, <3>1, <6>4
            <7>2. child = Child(n, 0)
              BY <7>1
            <7>3. \A y \in t.K[child] : Routes(n, 0, y)
              BY <1>1, <7>1, <7>2 DEF ChildIn
            <7>4. \A y : Routes(n, 0, y) => y < n.ent[1].key
              BY <7>1 DEF Routes
            <7>5. QED
              BY <7>1, <7>3, <7>4
          <6>7. x \in Int /\ (\A y \in t.K[child] : y \in Int) /\ n.ent[1].key \in Int /\ n.ent[j].key \in Int
            BY <1>1, <1>2, <5>2, <6>4
          <6>8. QED
            BY <6>4, <6>5, <6>6, <6>7
        <5>3. QED
          BY <5>1, <5>2
      <4>3. Guard(N, t, P \cup {child}, d)
        BY <1>3, <2>2, <3>1, <4>1, <4>2 DEF Guard, C
      <4>4. QED
        BY <1>1, <1>3, <2>2, <4>3 DEF PathOK
    <3>4. QED
      BY <3>2, <3>3
  <2>6. QED
    BY <2>4, <2>5
<1>6. QED
  BY <1>4, <1>5

\* Down one level.
LEMMA DownGood ==
  ASSUME NEW g, NEW c, NEW hd, NEW top, NEW t, NEW P, NEW f, NEW d, NEW r, NEW i, NEW child,
         Running(c, hd, top), Settled(g, top, t), t.K[Root] = KeysHeld(c, hd), PathOK(g.nodes, t, P, c), c.pc # "return",
         ~g.nodes[c.buf].leaf, i \in 0 .. g.nodes[c.buf].ct, child = Child(g.nodes[c.buf], i),
         KeyTree(c) => /\ r.cc \in {-1, 0, 1} /\ r.at \in 0 .. (g.nodes[c.buf].ct - 1)
                       /\ i = (IF r.cc < 0 THEN r.at ELSE r.at + 1) /\ Routes(g.nodes[c.buf], i, c.key),
         Read(g, f, top, child), ChildRoom(c, g.nodes[child]), d = DownCall(c, r, child)
  PROVE  DescendOK(f, d, hd, top, t, P \cup {child})
<1>1. IsTree(g.nodes, t) /\ Store(g, top) /\ Fresh(g) = {} /\ CallOf(c) /\ c.key \in Int
  BY DEF Settled, Running, CallOf, RunningRec, OpOK
<1>2. WentDown(c, d, r, child)
  BY <1>1, DownCallIs
<1>3. PathOK(g.nodes, t, P \cup {child}, d) /\ child \in t.T \ {Root}
  BY <1>1, <1>2, DownPath
<1>4. Settled(f, top, t) /\ Near(f, child, 1) /\ Alike(g, f)
  BY <1>1, SettledAlike DEF Read
<1>5. \A a \in t.T : IsNode(g.nodes[a]) /\ IsNode(f.nodes[a]) /\ Same(f.nodes[a], g.nodes[a])
  BY <1>1, <1>4 DEF IsTree, Settled, Alike
<1>6. PathOK(f.nodes, t, P \cup {child}, d)
  BY <1>3, <1>5, PathAlike
<1>7. Running(d, hd, top)
  BY <1>2, CallKept DEF WentDown, CallOf
<1>8. (IsWrite(d) <=> IsWrite(c)) /\ KeysHeld(d, hd) = KeysHeld(c, hd) /\ d.tree = c.tree
      /\ d.pc = "descend" /\ d.buf = child
  <2>1. KeepsCall(c, d) /\ d.pc # "return" /\ d.pc = "descend" /\ d.buf = child /\ d.tree = c.tree
    BY <1>2 DEF WentDown, KeepsCall
  <2>2. QED
    BY <2>1, KeepsSorts
<1>9. NodeRoom(d, f.nodes[child])
  <2>1. f.nodes[child].ct = g.nodes[child].ct
    BY <1>3, <1>5 DEF Same
  <2>2. QED
    BY <1>3, <1>8, <2>1 DEF NodeRoom, ChildRoom
<1>10. QED
  BY <1>4, <1>6, <1>7, <1>8, <1>9 DEF DescendOK

\* Rescan keeps the invariant: the child it goes down to has room.
LEMMA RescanGood ==
  ASSUME NEW top, NEW t, NEW P, RescanOK(h, call, held, top, t, P), Rescan
  PROVE  \E s, Q, N : Good(h', call', held, top, s, Q, N)
<1>1. /\ call.pc = "rescan" /\ Running(call, held, top) /\ Settled(h, top, t) /\ t.K[Root] = KeysHeld(call, held)
      /\ PathOK(h.nodes, t, P, call) /\ KeyTree(call) /\ ~h.nodes[call.buf].leaf
      /\ \A i \in 0 .. h.nodes[call.buf].ct :
           Routes(h.nodes[call.buf], i, call.key) => ChildRoom(call, h.nodes[Child(h.nodes[call.buf], i)])
  BY DEF RescanOK
<1>2. /\ IsTree(h.nodes, t) /\ Store(h, top) /\ Fresh(h) = {} /\ call.key \in Int /\ call.buf \in t.T
      /\ Sizes(h.nodes, t.T) /\ t.T \subseteq DOMAIN h.nodes
  BY <1>1 DEF Settled, Running, OpOK, PathOK, IsTree
<1> DEFINE n == h.nodes[call.buf]
           r == search(n, call.key)
           i == IF r.cc < 0 THEN r.at ELSE r.at + 1
           child == ChildFor(n, r)
<1>3. IsNode(n) /\ Sorted(n) /\ n.ct > 0
  <2>1. IsNode(n) /\ Sorted(n)
    BY <1>2, TreeSorted DEF IsTree
  <2>2. n.ct \in Nat /\ MaxCt \in Nat /\ MaxCt >= 6
    BY <2>1, NodeParts, ParameterAssumption
  <2>3. QED
    BY <1>1, <1>2, <2>1, <2>2 DEF Sizes, Half
<1>4. /\ r.at \in 0 .. (n.ct - 1) /\ r.cc \in {-1, 0, 1}
      /\ i \in 0 .. n.ct /\ Routes(n, i, call.key) /\ child = Child(n, i)
  BY <1>2, <1>3, SearchRoutes
<1>5. h' = readDisk(h, child) /\ call' = DownCall(call, r, child)
  BY DEF Rescan, Here, GoDown, DownCall
<1> HIDE DEF r, child, i
<1>6. child \in DOMAIN h.nodes
  BY <1>1, <1>2, <1>4, TreeChild DEF ChildIn
<1>7. Read(h, h', top, child)
  BY <1>2, <1>5, <1>6, ReadIs
<1>8. ChildRoom(call, h.nodes[child])
  BY <1>1, <1>4
<1>9. call.pc # "return"
  BY <1>1
<1>10. DescendOK(h', call', held, top, t, P \cup {child})
  BY <1>1, <1>4, <1>5, <1>7, <1>8, <1>9, DownGood DEF i
<1>11. QED
  BY <1>10 DEF Good

(***************************************************************************)
(* At a leaf.                                                              *)
(***************************************************************************)
\* Where a new key goes.
LEMMA SlotFor ==
  ASSUME NEW n, IsNode(n), Sorted(n), NEW key \in Int, key \notin KeysOf(n), NEW r, r = search(n, key)
  PROVE  /\ r.cc # 0 /\ r.at \in Nat
         /\ (IF r.cc > 0 THEN r.at + 1 ELSE r.at) \in 0 .. n.ct
         /\ Routes(n, IF r.cc > 0 THEN r.at + 1 ELSE r.at, key)
         /\ r.cc \in {-1, 1}
<1>0. n.ct \in Nat
  BY NodeParts
<1>1. r.cc # 0
  BY SearchFinds
<1>2. CASE n.ct = 0
  <2>1. r.cc = -1 /\ r.at = 0
    BY <1>2, SearchSorted
  <2>2. QED
    BY <1>2, <2>1 DEF Routes
<1>3. CASE n.ct > 0
  <2>1. /\ r.at \in 0 .. (n.ct - 1) /\ r.cc \in {-1, 0, 1}
        /\ (IF r.cc < 0 THEN r.at ELSE r.at + 1) \in 0 .. n.ct
        /\ Routes(n, IF r.cc < 0 THEN r.at ELSE r.at + 1, key)
    BY <1>3, SearchRoutes
  <2>2. (IF r.cc > 0 THEN r.at + 1 ELSE r.at) = (IF r.cc < 0 THEN r.at ELSE r.at + 1)
    BY <1>1, <2>1
  <2>3. QED
    BY <1>1, <2>1, <2>2
<1>4. QED
  BY <1>0, <1>2, <1>3

\* A key that is put where a search for it ends leaves the keys in order.
LEMMA PutKey ==
  ASSUME NEW n, IsNode(n), Sorted(n), NEW i \in 0 .. n.ct, NEW e \in Entry, Routes(n, i, e.key), e.key \notin KeysOf(n)
  PROVE  LET p == PutIn(n, i, e) IN Sorted(p) /\ KeysOf(p) = KeysOf(n) \cup {e.key}
<1> DEFINE p == PutIn(n, i, e)
<1>1. n.ct \in Nat /\ (\A j \in 1 .. n.ct : n.ent[j].key \in Int) /\ e.key \in Int
  BY NodeParts DEF Entry
<1>2. /\ IsNode(p) /\ p.ct = n.ct + 1
      /\ \A j \in 1 .. (n.ct + 1) : p.ent[j] = IF j <= i THEN n.ent[j] ELSE IF j = i + 1 THEN e ELSE n.ent[j - 1]
  BY PutInIs
<1> HIDE DEF p
<1>3. /\ \A j \in 1 .. i : p.ent[j].key = n.ent[j].key
      /\ p.ent[i + 1].key = e.key
      /\ \A j \in (i + 1) .. n.ct : p.ent[j + 1].key = n.ent[j].key
  BY <1>1, <1>2
<1>4. \A j \in 1 .. n.ct : n.ent[j].key # e.key
  BY DEF KeysOf
<1>5. \A j \in 1 .. i : n.ent[j].key < e.key
  <2> SUFFICES ASSUME NEW j \in 1 .. i PROVE n.ent[j].key < e.key
    OBVIOUS
  <2>1. j \in 1 .. n.ct /\ i \in 1 .. n.ct
    BY <1>1
  <2>2. n.ent[i].key <= e.key /\ n.ent[i].key # e.key
    BY <1>4, <2>1 DEF Routes
  <2>3. j = i \/ n.ent[j].key < n.ent[i].key
    BY <2>1 DEF Sorted
  <2>4. QED
    BY <1>1, <2>1, <2>2, <2>3
<1>6. \A j \in (i + 1) .. n.ct : e.key < n.ent[j].key
  <2> SUFFICES ASSUME NEW j \in (i + 1) .. n.ct PROVE e.key < n.ent[j].key
    OBVIOUS
  <2>1. j \in 1 .. n.ct /\ i + 1 \in 1 .. n.ct
    BY <1>1
  <2>2. e.key < n.ent[i + 1].key
    BY <1>1, <2>1 DEF Routes
  <2>3. j = i + 1 \/ n.ent[i + 1].key < n.ent[j].key
    BY <1>1, <2>1 DEF Sorted
  <2>4. QED
    BY <1>1, <2>1, <2>2, <2>3
<1>7. \A j \in 1 .. (p.ct - 1) : p.ent[j].key < p.ent[j + 1].key
  <2> SUFFICES ASSUME NEW j \in 1 .. n.ct PROVE p.ent[j].key < p.ent[j + 1].key
    BY <1>1, <1>2
  <2>1. CASE j < i
    <3>1. j \in 1 .. i /\ j + 1 \in 1 .. i /\ j + 1 \in 1 .. n.ct
      BY <1>1, <2>1
    <3>2. n.ent[j].key < n.ent[j + 1].key
      BY <3>1 DEF Sorted
    <3>3. QED
      BY <1>3, <3>1, <3>2
  <2>2. CASE j = i
    BY <1>3, <1>5, <2>2
  <2>3. CASE j = i + 1
    BY <1>1, <1>3, <1>6, <2>3
  <2>4. CASE j > i + 1
    <3>1. j - 1 \in (i + 1) .. n.ct /\ j \in (i + 1) .. n.ct /\ j - 1 \in 1 .. n.ct
      BY <1>1, <2>4
    <3>2. n.ent[j - 1].key < n.ent[j].key
      BY <3>1 DEF Sorted
    <3>3. p.ent[(j - 1) + 1].key = n.ent[j - 1].key /\ p.ent[j + 1].key = n.ent[j].key /\ (j - 1) + 1 = j
      BY <1>3, <3>1
    <3>4. QED
      BY <3>2, <3>3
  <2>5. QED
    BY <1>1, <2>1, <2>2, <2>3, <2>4
<1>8. Sorted(p)
  BY <1>2, <1>7, SortedChain
<1>9. KeysOf(p) \subseteq KeysOf(n) \cup {e.key}
  <2> SUFFICES ASSUME NEW j \in 1 .. (n.ct + 1) PROVE p.ent[j].key \in KeysOf(n) \cup {e.key}
    BY <1>2 DEF KeysOf
  <2>1. j \in 1 .. i \/ j = i + 1 \/ (j - 1 \in (i + 1) .. n.ct /\ (j - 1) + 1 = j)
    BY <1>1
  <2>2. j \in 1 .. i => j \in 1 .. n.ct
    BY <1>1
  <2>3. j - 1 \in (i + 1) .. n.ct => j - 1 \in 1 .. n.ct
    BY <1>1
  <2>4. QED
    BY <1>3, <2>1, <2>2, <2>3 DEF KeysOf
<1>10. KeysOf(n) \cup {e.key} \subseteq KeysOf(p)
  <2>1. e.key \in KeysOf(p)
    <3>1. i + 1 \in 1 .. p.ct
      BY <1>1, <1>2
    <3>2. QED
      BY <1>3, <3>1 DEF KeysOf
  <2>2. ASSUME NEW j \in 1 .. n.ct PROVE n.ent[j].key \in KeysOf(p)
    <3>1. j \in 1 .. i \/ j \in (i + 1) .. n.ct
      BY <1>1
    <3>2. j \in 1 .. p.ct /\ j + 1 \in 1 .. p.ct
      BY <1>1, <1>2
    <3>3. QED
      BY <1>3, <3>1, <3>2 DEF KeysOf
  <2>3. QED
    BY <2>1, <2>2 DEF KeysOf
<1>11. QED
  BY <1>8, <1>9, <1>10 DEF p

\* A key that is taken out leaves the others in order.
LEMMA TakeKey ==
  ASSUME NEW n, IsNode(n), Sorted(n), NEW i \in 0 .. (n.ct - 1)
  PROVE  LET p == TakeOut(n, i) IN Sorted(p) /\ KeysOf(p) = KeysOf(n) \ {n.ent[i + 1].key}
<1> DEFINE p == TakeOut(n, i)
<1>1. n.ct \in Nat /\ (\A j \in 1 .. n.ct : n.ent[j].key \in Int) /\ i + 1 \in 1 .. n.ct
  BY NodeParts
<1>2. /\ IsNode(p) /\ p.ct = n.ct - 1
      /\ \A j \in 1 .. (n.ct - 1) : p.ent[j] = IF j <= i THEN n.ent[j] ELSE n.ent[j + 1]
  BY TakeOutIs
<1> HIDE DEF p
<1>3. /\ \A j \in 1 .. i : p.ent[j].key = n.ent[j].key
      /\ \A j \in (i + 1) .. (n.ct - 1) : p.ent[j].key = n.ent[j + 1].key
  <2>1. \A j \in 1 .. i : j \in 1 .. (n.ct - 1) /\ j <= i
    BY <1>1
  <2>2. \A j \in (i + 1) .. (n.ct - 1) : j \in 1 .. (n.ct - 1) /\ ~(j <= i)
    BY <1>1
  <2>3. QED
    BY <1>2, <2>1, <2>2
<1>4. \A j \in 1 .. (p.ct - 1) : p.ent[j].key < p.ent[j + 1].key
  <2> SUFFICES ASSUME NEW j \in 1 .. (n.ct - 2) PROVE p.ent[j].key < p.ent[j + 1].key
    BY <1>1, <1>2
  <2>1. /\ j \in 1 .. n.ct /\ j + 1 \in 1 .. n.ct /\ j + 2 \in 1 .. n.ct
        /\ j < j + 1 /\ j + 1 < j + 2 /\ j < j + 2 /\ (j + 1) + 1 = j + 2
    BY <1>1
  <2>2. n.ent[j].key < n.ent[j + 1].key /\ n.ent[j + 1].key < n.ent[j + 2].key /\ n.ent[j].key < n.ent[j + 2].key
    BY <2>1 DEF Sorted
  <2>3. CASE j < i
    <3>1. j \in 1 .. i /\ j + 1 \in 1 .. i
      BY <1>1, <2>3
    <3>2. QED
      BY <1>3, <2>2, <3>1
  <2>4. CASE j = i
    <3>1. j \in 1 .. i /\ j + 1 \in (i + 1) .. (n.ct - 1)
      BY <1>1, <2>4
    <3>2. QED
      BY <1>3, <2>1, <2>2, <3>1
  <2>5. CASE j > i
    <3>1. j \in (i + 1) .. (n.ct - 1) /\ j + 1 \in (i + 1) .. (n.ct - 1)
      BY <1>1, <2>5
    <3>2. QED
      BY <1>3, <2>1, <2>2, <3>1
  <2>6. QED
    BY <1>1, <2>3, <2>4, <2>5
<1>5. Sorted(p)
  BY <1>2, <1>4, SortedChain
<1>6. KeysOf(p) \subseteq KeysOf(n) \ {n.ent[i + 1].key}
  <2> SUFFICES ASSUME NEW j \in 1 .. (n.ct - 1) PROVE p.ent[j].key \in KeysOf(n) \ {n.ent[i + 1].key}
    BY <1>2 DEF KeysOf
  <2>1. CASE j \in 1 .. i
    <3>1. j \in 1 .. n.ct /\ j < i + 1
      BY <1>1, <2>1
    <3>2. n.ent[j].key < n.ent[i + 1].key
      BY <1>1, <3>1 DEF Sorted
    <3>3. QED
      BY <1>1, <1>3, <2>1, <3>1, <3>2 DEF KeysOf
  <2>2. CASE j \in (i + 1) .. (n.ct - 1)
    <3>1. j + 1 \in 1 .. n.ct /\ i + 1 < j + 1
      BY <1>1, <2>2
    <3>2. n.ent[i + 1].key < n.ent[j + 1].key
      BY <1>1, <3>1 DEF Sorted
    <3>3. QED
      BY <1>1, <1>3, <2>2, <3>1, <3>2 DEF KeysOf
  <2>3. j \in 1 .. i \/ j \in (i + 1) .. (n.ct - 1)
    BY <1>1
  <2>4. QED
    BY <2>1, <2>2, <2>3
<1>7. KeysOf(n) \ {n.ent[i + 1].key} \subseteq KeysOf(p)
  <2> SUFFICES ASSUME NEW j \in 1 .. n.ct, j # i + 1 PROVE n.ent[j].key \in KeysOf(p)
    BY DEF KeysOf
  <2>1. (j \in 1 .. i /\ j \in 1 .. p.ct) \/ (j - 1 \in (i + 1) .. (n.ct - 1) /\ j - 1 \in 1 .. p.ct /\ (j - 1) + 1 = j)
    BY <1>1, <1>2
  <2>2. QED
    BY <1>3, <2>1 DEF KeysOf
<1>8. QED
  BY <1>5, <1>6, <1>7 DEF p

\* A node of the tree is written.
LEMMA WroteKept ==
  ASSUME NEW g, NEW f, NEW top, NEW T, NEW adr, NEW n, Wrote(g, f, top, adr, n), RootKept(g, T), adr = Root \/ adr \in T,
         Root \in DOMAIN g.nodes, g.rootModified \in BOOLEAN
  PROVE  RootKept(f, T)
<1>1. CASE adr = Root
  <2>1. f.rootModified
    BY <1>1 DEF Wrote
  <2>2. QED
    BY <2>1 DEF RootKept
<1>2. CASE adr # Root
  <2>1. f.rootModified = g.rootModified /\ f.file[Root] = g.file[Root]
    BY <1>2 DEF Wrote
  <2>2. Same(f.nodes[Root], g.nodes[Root])
    BY <1>2, SameRefl DEF Wrote
  <2>3. \A a \in DOMAIN g.nodes \ T : a \in DOMAIN f.nodes \ T /\ Same(f.nodes[a], g.nodes[a])
    BY <1>2, SameRefl DEF Wrote
  <2>4. QED
    BY <2>1, <2>2, <2>3, RootKeptOn
<1>3. QED
  BY <1>1, <1>2

LeafChange(g, top, t, P, b, key, put, n) ==
  /\ Settled(g, top, t) /\ OnRoute(g.nodes, t, P, b, key) /\ key \in Int /\ put \in BOOLEAN
  /\ g.nodes[b].leaf /\ Near(g, b, 1)
  /\ NodeOK(n, DOMAIN g.nodes, top) /\ n.leaf /\ Sorted(n) /\ KeysOf(n) = Changed(KeysOf(g.nodes[b]), put, key)
  /\ n.ct \in 0 .. 3 * MaxCt /\ (b # Root => n.ct \in Half .. MaxCt)
LeafChanged(g, f, top, t, P, b, key, put, n) ==
  Wrote(g, f, top, b, n) /\ Settled(f, top, KeyChange(t, P, put, key)) /\ b \in t.T

\* A write of a leaf with one key more or less leaves a tree with that key more
\* or less.
LEMMA LeafChangeIs ==
  ASSUME OddRoom, NEW g, NEW top, NEW t, NEW P, NEW b, NEW key, NEW put, NEW n, LeafChange(g, top, t, P, b, key, put, n)
  PROVE  LeafChanged(g, writeNode(g, b, n), top, t, P, b, key, put, n)
<1> DEFINE f == writeNode(g, b, n)
           s == KeyChange(t, P, put, key)
<1>1. /\ Store(g, top) /\ Fresh(g) = {} /\ IsTree(g.nodes, t) /\ Sizes(g.nodes, t.T) /\ RootKept(g, t.T)
      /\ OnRoute(g.nodes, t, P, b, key) /\ key \in Int /\ put \in BOOLEAN
      /\ g.nodes[b].leaf /\ Near(g, b, 1)
      /\ NodeOK(n, DOMAIN g.nodes, top) /\ n.leaf /\ Sorted(n) /\ KeysOf(n) = Changed(KeysOf(g.nodes[b]), put, key)
      /\ n.ct \in 0 .. 3 * MaxCt /\ (b # Root => n.ct \in Half .. MaxCt)
  BY DEF LeafChange, Settled
<1>2. b \in t.T /\ t.T \subseteq DOMAIN g.nodes /\ Root \in t.T /\ \A a \in t.T : IsNode(g.nodes[a])
  BY <1>1 DEF IsTree, OnRoute
<1>3. Near(g, b, 7)
  BY <1>1, NearMore
<1>4. Wrote(g, f, top, b, n)
  BY <1>1, <1>2, <1>3, WriteIs
<1> HIDE DEF f
<1>5. /\ Store(f, top) /\ DOMAIN f.nodes = DOMAIN g.nodes /\ f.nodes[b] = n /\ Fresh(f) = {}
      /\ \A a \in DOMAIN g.nodes : a # b => f.nodes[a] = g.nodes[a]
  BY <1>1, <1>4 DEF Wrote
<1>6. IsNode(n) /\ n.ct \in Nat
  BY <1>1 DEF NodeOK
<1>7. b = Root \/ KeysOf(n) # {}
  <2>1. CASE b # Root
    <3>1. 1 \in 1 .. n.ct
      BY <1>1, <1>6, <2>1, ParameterAssumption DEF OddRoom, Half
    <3>2. n.ent[1].key \in KeysOf(n)
      BY <3>1 DEF KeysOf
    <3>3. QED
      BY <3>2
  <2>2. QED
    BY <2>1
<1>8. IsTree(f.nodes, s)
  <2>1. \A a \in t.T \ {b} : IsNode(f.nodes[a]) /\ Same(f.nodes[a], g.nodes[a])
    BY <1>2, <1>5, SameRefl
  <2>2. /\ IsNode(f.nodes[b]) /\ f.nodes[b].leaf /\ Sorted(f.nodes[b])
        /\ KeysOf(f.nodes[b]) = Changed(KeysOf(g.nodes[b]), put, key)
        /\ b = Root \/ KeysOf(f.nodes[b]) # {}
    BY <1>1, <1>5, <1>6, <1>7
  <2>3. t.T \subseteq DOMAIN f.nodes
    BY <1>2, <1>5
  <2>4. QED
    BY <1>1, <2>1, <2>2, <2>3, TreeOtherKeys
<1>9. s.T = t.T
  BY DEF KeyChange
<1> HIDE DEF s
<1>10. Sizes(f.nodes, s.T)
  <2>1. \A a \in t.T \ {Root} : f.nodes[a].ct \in Half .. MaxCt
    BY <1>1, <1>2, <1>5 DEF Sizes
  <2>2. f.nodes[Root].ct <= 3 * MaxCt /\ (~f.nodes[Root].leaf => f.nodes[Root].ct >= 2)
    BY <1>1, <1>2, <1>5 DEF Sizes
  <2>3. QED
    BY <1>9, <2>1, <2>2 DEF Sizes
<1>11. RootKept(f, s.T)
  <2>1. g.rootModified \in BOOLEAN
    BY <1>1, StoreNodes DEF Store
  <2>2. QED
    BY <1>1, <1>2, <1>4, <1>9, <2>1, WroteKept
<1>12. Settled(f, top, s)
  BY <1>5, <1>8, <1>10, <1>11 DEF Settled
<1>13. QED
  BY <1>2, <1>4, <1>12 DEF LeafChanged, f, s

\* The key between two children is written over.
Fixed(n, i, e) == [n EXCEPT !.ent[i].key = e.key, !.ent[i].rec = e.rec]

\* An entry with another key and record.
LEMMA EntryParts ==
  ASSUME NEW y, y = [key |-> y.key, rec |-> y.rec, ge |-> y.ge], NEW k, NEW r, NEW d, d = [y EXCEPT !.key = k, !.rec = r]
  PROVE  d = [key |-> d.key, rec |-> d.rec, ge |-> d.ge] /\ d.key = k /\ d.rec = r /\ d.ge = y.ge
  OBVIOUS

\* The same, when its fields are known.
LEMMA EntryFixed ==
  ASSUME NEW y \in Entry, NEW k, NEW r
  PROVE  [y EXCEPT !.key = k, !.rec = r] = [key |-> k, rec |-> r, ge |-> y.ge]
<1>1. PICK d : d = [y EXCEPT !.key = k, !.rec = r]
  OBVIOUS
<1>2. y = [key |-> y.key, rec |-> y.rec, ge |-> y.ge]
  BY DEF Entry
<1>3. d = [key |-> d.key, rec |-> d.rec, ge |-> d.ge] /\ d.key = k /\ d.rec = r /\ d.ge = y.ge
  BY <1>1, <1>2, EntryParts, Zenon
<1>4. QED
  BY <1>1, <1>3

\* A node with another key and record in one slot.
LEMMA FixedIs ==
  ASSUME NEW n, IsNode(n), NEW i \in 1 .. n.ct, NEW e, e.key \in Int, e.rec \in Int
  PROVE  LET m == Fixed(n, i, e) IN
         /\ IsNode(m) /\ m.leaf = n.leaf /\ m.ct = n.ct /\ m.lt = n.lt /\ m.next = n.next
         /\ \A j \in 1 .. n.ct : m.ent[j].ge = n.ent[j].ge
         /\ \A j \in 1 .. n.ct : j # i => m.ent[j].key = n.ent[j].key
         /\ m.ent[i].key = e.key
<1>1. n.ct \in Nat /\ Len(n.ent) \in Nat /\ n.ct <= Len(n.ent) /\ n.ent \in Seq(Entry) /\ n \in NodeType
  BY NodeParts DEF IsNode
<1>2. i \in 1 .. Len(n.ent) /\ n.ent[i] \in Entry
  BY <1>1, ElementOfSeq
<1> DEFINE x == [key |-> e.key, rec |-> e.rec, ge |-> n.ent[i].ge]
           ent == [n.ent EXCEPT ![i] = x]
           m == Fixed(n, i, e)
<1>3. x \in Entry
  BY <1>2 DEF Entry
<1>4. [n.ent[i] EXCEPT !.key = e.key, !.rec = e.rec] = x
  <2>1. PICK y : y = n.ent[i]
    OBVIOUS
  <2>2. y \in Entry /\ x = [key |-> e.key, rec |-> e.rec, ge |-> y.ge]
    BY <1>2, <2>1
  <2>3. [y EXCEPT !.key = e.key, !.rec = e.rec] = [key |-> e.key, rec |-> e.rec, ge |-> y.ge]
    BY <2>2, EntryFixed, Zenon
  <2>4. QED
    BY <2>1, <2>2, <2>3
<1>5. [n.ent EXCEPT ![i].key = e.key, ![i].rec = e.rec] = ent
  <2>1. [n.ent EXCEPT ![i].key = e.key, ![i].rec = e.rec] = [n.ent EXCEPT ![i] = [n.ent[i] EXCEPT !.key = e.key, !.rec = e.rec]]
    BY <1>1, <1>2
  <2>2. QED
    BY <1>4, <2>1
<1>6. ent \in Seq(Entry) /\ Len(ent) = Len(n.ent)
  BY <1>1, <1>2, <1>3, ExceptSeq
<1>7. /\ ent[i] = x /\ \A j \in 1 .. n.ct : j # i => ent[j] = n.ent[j]
  BY <1>1, <1>2
<1>8. m = [n EXCEPT !.ent = ent]
  BY <1>5, <1>1 DEF Fixed, NodeType
<1> HIDE DEF ent, m, x
<1>9. /\ m \in NodeType /\ m.ent = ent /\ m.leaf = n.leaf /\ m.ct = n.ct /\ m.lt = n.lt /\ m.next = n.next
  BY <1>1, <1>6, <1>8 DEF NodeType
<1>10. IsNode(m)
  BY <1>1, <1>6, <1>9 DEF IsNode
<1>11. x.key = e.key /\ x.ge = n.ent[i].ge
  BY DEF x
<1>12. QED
  BY <1>7, <1>9, <1>10, <1>11 DEF m

FixAt(g, a, i, e) ==
  LET f == readDisk(g, a) IN writeNode(f, a, Fixed(f.nodes[a], i, e))
CanFix(g, top, t, a, i, e) ==
  /\ Settled(g, top, t) /\ a \in t.T /\ ~g.nodes[a].leaf /\ i \in 1 .. g.nodes[a].ct /\ e.key \in Int /\ e.rec \in Int
  /\ \A x \in t.K[Child(g.nodes[a], i - 1)] : x < e.key
  /\ \A x \in t.K[Child(g.nodes[a], i)] : e.key <= x

\* FixUp: the inner key is moved within the gap its children leave it, and the
\* tree stays a tree.
LEMMA FixAtIs ==
  ASSUME NEW g, NEW top, NEW t, NEW a, NEW i, NEW e, CanFix(g, top, t, a, i, e)
  PROVE  Settled(FixAt(g, a, i, e), top, t)
<1>1. /\ Settled(g, top, t) /\ a \in t.T /\ ~g.nodes[a].leaf /\ i \in 1 .. g.nodes[a].ct /\ e.key \in Int /\ e.rec \in Int
      /\ \A x \in t.K[Child(g.nodes[a], i - 1)] : x < e.key
      /\ \A x \in t.K[Child(g.nodes[a], i)] : e.key <= x
  BY DEF CanFix
<1>2. Store(g, top) /\ Fresh(g) = {} /\ IsTree(g.nodes, t) /\ t.T \subseteq DOMAIN g.nodes /\ Root \in t.T
      /\ IsNode(g.nodes[a])
  BY <1>1 DEF Settled, IsTree
<1> DEFINE f == readDisk(g, a)
           m == Fixed(f.nodes[a], i, e)
           w == writeNode(f, a, m)
<1>3. Read(g, f, top, a)
  BY <1>1, <1>2, ReadIs
<1> HIDE DEF f
<1>4. Store(f, top) /\ Alike(g, f) /\ Fresh(f) = {} /\ Near(f, a, 7) /\ DOMAIN f.nodes = DOMAIN g.nodes
  BY <1>2, <1>3, NearMore DEF Read, Alike
<1>5. Settled(f, top, t) /\ IsTree(f.nodes, t) /\ Sizes(f.nodes, t.T) /\ RootKept(f, t.T)
  BY <1>1, <1>4, SettledAlike DEF Settled
<1>6. Same(f.nodes[a], g.nodes[a]) /\ IsNode(f.nodes[a]) /\ NodeOK(f.nodes[a], DOMAIN f.nodes, top)
  <2>1. Same(f.nodes[a], g.nodes[a]) /\ a \in DOMAIN f.nodes
    BY <1>1, <1>2, <1>4 DEF Alike
  <2>2. QED
    BY <1>4, <2>1, StoreNodes DEF Store
<1>7. /\ f.nodes[a].ct = g.nodes[a].ct /\ ~f.nodes[a].leaf
      /\ \A j \in 0 .. g.nodes[a].ct : Child(f.nodes[a], j) = Child(g.nodes[a], j)
  BY <1>1, <1>2, <1>6, SameNode
<1>8. g.nodes[a].ct \in Nat /\ i \in 0 .. g.nodes[a].ct /\ i - 1 \in 0 .. g.nodes[a].ct
  BY <1>1, <1>2, NodeParts
<1>9. /\ IsNode(m) /\ m.leaf = f.nodes[a].leaf /\ m.ct = f.nodes[a].ct /\ m.lt = f.nodes[a].lt /\ m.next = f.nodes[a].next
      /\ \A j \in 1 .. f.nodes[a].ct : m.ent[j].ge = f.nodes[a].ent[j].ge
      /\ \A j \in 1 .. f.nodes[a].ct : j # i => m.ent[j].key = f.nodes[a].ent[j].key
      /\ m.ent[i].key = e.key
  BY <1>1, <1>6, <1>7, FixedIs
<1> HIDE DEF m
<1>10. NodeOK(m, DOMAIN f.nodes, top)
  BY <1>6, <1>7, <1>9 DEF NodeOK
<1>11. a \in DOMAIN f.nodes
  BY <1>1, <1>2, <1>4
<1>12. Wrote(f, w, top, a, m)
  BY <1>4, <1>10, <1>11, WriteIs
<1> HIDE DEF w
<1>13. /\ Store(w, top) /\ DOMAIN w.nodes = DOMAIN f.nodes /\ w.nodes[a] = m /\ Fresh(w) = {}
       /\ \A b \in DOMAIN f.nodes : b # a => w.nodes[b] = f.nodes[b]
  BY <1>4, <1>12 DEF Wrote
<1>14. IsTree(w.nodes, t)
  <2>1. t.T \subseteq DOMAIN w.nodes
    BY <1>2, <1>4, <1>13
  <2>2. \A b \in t.T \ {a} : IsNode(w.nodes[b]) /\ Same(w.nodes[b], f.nodes[b])
    BY <1>5, <1>13, SameRefl DEF IsTree
  <2>3. i \in 1 .. f.nodes[a].ct /\ ~f.nodes[a].leaf /\ a \in t.T
    BY <1>1, <1>7
  <2>4. IsNode(w.nodes[a]) /\ ~w.nodes[a].leaf /\ w.nodes[a].ct = f.nodes[a].ct /\ w.nodes[a].lt = f.nodes[a].lt
    BY <1>7, <1>9, <1>13
  <2>5. /\ \A j \in 1 .. f.nodes[a].ct : w.nodes[a].ent[j].ge = f.nodes[a].ent[j].ge
        /\ \A j \in 1 .. f.nodes[a].ct : j # i => w.nodes[a].ent[j].key = f.nodes[a].ent[j].key
    BY <1>9, <1>13
  <2>6. Child(f.nodes[a], i - 1) = Child(g.nodes[a], i - 1) /\ Child(f.nodes[a], i) = Child(g.nodes[a], i)
    BY <1>7, <1>8
  <2>7. /\ \A x \in t.K[Child(f.nodes[a], i - 1)] : x < w.nodes[a].ent[i].key
        /\ \A x \in t.K[Child(f.nodes[a], i)] : w.nodes[a].ent[i].key <= x
    BY <1>1, <1>9, <1>13, <2>6
  <2>8. QED
    BY <1>5, <2>1, <2>2, <2>3, <2>4, <2>5, <2>7, MoveSeparator
<1>15. Sizes(w.nodes, t.T)
  <2>1. \A b \in t.T : w.nodes[b].ct = f.nodes[b].ct /\ w.nodes[b].leaf = f.nodes[b].leaf
    BY <1>5, <1>9, <1>13 DEF IsTree
  <2>2. QED
    BY <1>5, <2>1 DEF Sizes
<1>16. RootKept(w, t.T)
  <2>1. Root \in DOMAIN f.nodes /\ f.rootModified \in BOOLEAN
    BY <1>2, <1>4, StoreNodes DEF Store
  <2>2. QED
    BY <1>1, <1>5, <1>12, <2>1, WroteKept
<1>17. Settled(w, top, t)
  BY <1>13, <1>14, <1>15, <1>16 DEF Settled
<1>18. QED
  BY <1>17 DEF FixAt, f, m, w

\* What the key remembered on the way separates.
Remembered(N, t, P, b, key, a, i) ==
  /\ a \in P /\ a \in t.T /\ a # b /\ b # Root /\ ~N[a].leaf /\ i \in 1 .. N[a].ct
  /\ Child(N[a], i) \in P /\ Child(N[a], i) \in t.T /\ Child(N[a], i - 1) \in t.T \ P
  /\ N[a].ent[i].key \in Int /\ N[a].ent[i].key <= key
  /\ \A x \in t.K[Child(N[a], i - 1)] : x \in Int /\ x < N[a].ent[i].key
  /\ \A x \in t.K[Child(N[a], i)] : x \in Int
  /\ \A x \in t.K[Child(N[a], i)] \ t.K[b] : key < x /\ \A y \in t.K[b] : y < x

\* The key remembered on the way down is the nearest one on the right of the
\* leaf, or on its left.
LEMMA RememberedIs ==
  ASSUME NEW N, NEW t, NEW P, NEW c, IsTree(N, t), OnRoute(N, t, P, c.buf, c.key), Guard(N, t, P, c), c.key \in Int,
         c.lt \/ c.ge # -1
  PROVE  Remembered(N, t, P, c.buf, c.key, c.ge, c.at + 1)
<1> DEFINE i == c.at + 1
<1>1. /\ c.ge \in P \ {c.buf} /\ c.at \in Int /\ i \in 1 .. N[c.ge].ct
      /\ Child(N[c.ge], i) \in P
      /\ \A x \in t.K[Child(N[c.ge], i)] \ t.K[c.buf] : c.key < x /\ \A y \in t.K[c.buf] : y < x
  BY DEF Guard
<1>2. c.ge \in t.T /\ c.buf # Root /\ ~N[c.ge].leaf /\ P \subseteq t.T
  BY <1>1 DEF OnRoute
<1> HIDE DEF i
<1>3. PICK a : a = c.ge
  OBVIOUS
<1>4. PICK b : b = c.buf
  OBVIOUS
<1>5. /\ a \in t.T /\ a \in P /\ a # b /\ b # Root /\ ~N[a].leaf /\ i \in 1 .. N[a].ct /\ Child(N[a], i) \in P
      /\ OnRoute(N, t, P, b, c.key)
      /\ \A x \in t.K[Child(N[a], i)] \ t.K[b] : c.key < x /\ \A y \in t.K[b] : y < x
  BY <1>1, <1>2, <1>3, <1>4
<1>6. IsNode(N[a]) /\ Sorted(N[a])
  BY <1>5, TreeSorted DEF IsTree
<1>7. N[a].ct \in Nat /\ (\A j \in 1 .. N[a].ct : N[a].ent[j].key \in Int) /\ i \in 0 .. N[a].ct /\ i - 1 \in 0 .. N[a].ct
      /\ i > 0 /\ i - 1 < N[a].ct /\ (i - 1) + 1 = i /\ i # i - 1
  <2>1. N[a].ct \in Nat /\ \A j \in 1 .. N[a].ct : N[a].ent[j].key \in Int
    BY ONLY <1>6, NodeParts
  <2>2. i \in 1 .. N[a].ct
    BY <1>5
  <2>3. QED
    BY ONLY <2>1, <2>2
<1>8. ChildIn(N[a], t, a, i) /\ t.K[Child(N[a], i)] \subseteq Int
  BY <1>5, <1>7, TreeChild
<1>9. ChildIn(N[a], t, a, i - 1) /\ t.K[Child(N[a], i - 1)] \subseteq Int
  BY <1>5, <1>7, TreeChild
<1>10. Routes(N[a], i, c.key)
  BY <1>5, <1>7, RouteChild
<1>11. Child(N[a], i - 1) \notin P
  <2> SUFFICES ASSUME Child(N[a], i - 1) \in P PROVE FALSE
    OBVIOUS
  <2>1. Routes(N[a], i - 1, c.key)
    BY <1>5, <1>7, RouteChild
  <2>2. i = i - 1
    BY <1>6, <1>7, <1>10, <2>1, RoutesOnce
  <2>3. QED
    BY <1>7, <2>2
<1>12. N[a].ent[i].key <= c.key
  BY <1>7, <1>10 DEF Routes
<1>13. Child(N[a], i - 1) \in t.T /\ \A x \in t.K[Child(N[a], i - 1)] : Routes(N[a], i - 1, x)
  BY <1>9 DEF ChildIn
<1>14. \A x \in t.K[Child(N[a], i - 1)] : x < N[a].ent[i].key
  BY <1>7, <1>13 DEF Routes
<1>15. Remembered(N, t, P, b, c.key, a, i)
  BY <1>2, <1>5, <1>7, <1>8, <1>9, <1>11, <1>12, <1>13, <1>14 DEF Remembered
<1>16. QED
  BY <1>3, <1>4, <1>15 DEF i

\* It is repaired with the new first key of the leaf.
FixFor(t, b, key, put, e) ==
  /\ e.key \in Changed(t.K[b], put, key) /\ e.key \in Int /\ e.rec \in Int /\ key <= e.key
  /\ \A y \in Changed(t.K[b], put, key) : e.key <= y

\* The first key of a changed leaf may be written over the key remembered.
LEMMA FixHere ==
  ASSUME NEW g, NEW f, NEW top, NEW t, NEW P, NEW b, NEW key, NEW put, NEW n,
         LeafChange(g, top, t, P, b, key, put, n), LeafChanged(g, f, top, t, P, b, key, put, n),
         NEW a, NEW i, Remembered(g.nodes, t, P, b, key, a, i), NEW e, FixFor(t, b, key, put, e)
  PROVE  CanFix(f, top, KeyChange(t, P, put, key), a, i, e)
<1> DEFINE s == KeyChange(t, P, put, key)
           n0 == g.nodes[a]
<1>1. /\ a \in P /\ a \in t.T /\ a # b /\ b # Root /\ ~n0.leaf /\ i \in 1 .. n0.ct
      /\ Child(n0, i) \in P /\ Child(n0, i) \in t.T /\ Child(n0, i - 1) \in t.T \ P
      /\ n0.ent[i].key \in Int /\ n0.ent[i].key <= key
      /\ \A x \in t.K[Child(n0, i - 1)] : x \in Int /\ x < n0.ent[i].key
      /\ \A x \in t.K[Child(n0, i)] : x \in Int
      /\ \A x \in t.K[Child(n0, i)] \ t.K[b] : key < x /\ \A y \in t.K[b] : y < x
  BY DEF Remembered
<1>2. Wrote(g, f, top, b, n) /\ Settled(f, top, s) /\ key \in Int /\ put \in BOOLEAN /\ IsTree(g.nodes, t)
  BY DEF LeafChange, LeafChanged, Settled
<1>3. f.nodes[a] = n0
  BY <1>1, <1>2 DEF Wrote, IsTree
<1>4. /\ s.T = t.T /\ s.K[Child(n0, i)] = Changed(t.K[Child(n0, i)], put, key) /\ s.K[Child(n0, i - 1)] = t.K[Child(n0, i - 1)]
  BY <1>1 DEF KeyChange
<1> HIDE DEF s, n0
<1>5. /\ e.key \in Changed(t.K[b], put, key) /\ e.key \in Int /\ e.rec \in Int /\ key <= e.key
      /\ \A y \in Changed(t.K[b], put, key) : e.key <= y
  BY DEF FixFor
<1>6. \A x \in t.K[Child(n0, i - 1)] : x < e.key
  BY <1>1, <1>2, <1>5
<1>7. ASSUME NEW x \in Changed(t.K[Child(n0, i)], put, key) PROVE e.key <= x
  <2>1. CASE x \in Changed(t.K[b], put, key)
    BY <1>5, <2>1
  <2>2. CASE x \notin Changed(t.K[b], put, key)
    <3>1. x \in t.K[Child(n0, i)] \ t.K[b]
      BY <1>2, <1>7, <2>2 DEF Changed
    <3>2. key < x /\ (\A y \in t.K[b] : y < x) /\ x \in Int
      BY <1>1, <3>1
    <3>3. e.key = key \/ e.key \in t.K[b]
      BY <1>2, <1>5 DEF Changed
    <3>4. e.key < x
      BY <3>2, <3>3
    <3>5. QED
      BY <1>5, <3>2, <3>4
  <2>3. QED
    BY <2>1, <2>2
<1>8. QED
  BY <1>1, <1>2, <1>3, <1>4, <1>5, <1>6, <1>7 DEF CanFix, s

ReturnOf(c, rc, e) ==
  [pc |-> "return", op |-> c.op, key |-> c.key, value |-> c.value, tree |-> c.tree, rc |-> rc,
   found |-> e.key, offset |-> e.rec]

\* A call that returns.
LEMMA ReturnIs ==
  ASSUME NEW c, NEW hd, NEW top, Running(c, hd, top), NEW rc, NEW e, NEW d, d = ReturnOf(c, rc, e)
  PROVE  OpOK(d) /\ d.pc = "return" /\ d.tree = c.tree /\ d.key = c.key /\ d.rc = rc /\ d.offset = e.rec
<1>1. d.op = c.op /\ d.key = c.key /\ d.value = c.value /\ d.tree = c.tree /\ d.pc = "return" /\ d.rc = rc /\ d.offset = e.rec
  BY DEF ReturnOf
<1>2. QED
  BY <1>1 DEF Running, OpOK

LeafAt(g, c, hd, top, t, P, n) ==
  /\ Running(c, hd, top) /\ Settled(g, top, t) /\ t.K[Root] = KeysHeld(c, hd) /\ c.pc = "descend"
  /\ c.buf \in t.T /\ c.buf \in DOMAIN g.nodes /\ n = g.nodes[c.buf] /\ n.leaf /\ NodeRoom(c, n) /\ Near(g, c.buf, 1)
  /\ IsNode(n) /\ Sorted(n) /\ NodeOK(n, DOMAIN g.nodes, top) /\ t.K[c.buf] = KeysOf(n) /\ c.key \in Int
  /\ (KeyTree(c) => OnRoute(g.nodes, t, P, c.buf, c.key) /\ Guard(g.nodes, t, P, c)
                    /\ (c.key \in KeysOf(n) <=> c.key \in t.K[Root]))
  /\ n.ct \in Nat /\ (c.buf # Root => n.ct \in Half .. MaxCt) /\ (c.buf = Root => n.ct <= 3 * MaxCt)

\* What is known where the descent has come to a leaf.
LEMMA LeafAtIs ==
  ASSUME NEW g, NEW c, NEW hd, NEW top, NEW t, NEW P, DescendOK(g, c, hd, top, t, P), g.nodes[c.buf].leaf
  PROVE  LeafAt(g, c, hd, top, t, P, g.nodes[c.buf])
<1> DEFINE n == g.nodes[c.buf]
<1>1. /\ Running(c, hd, top) /\ Settled(g, top, t) /\ t.K[Root] = KeysHeld(c, hd) /\ c.pc = "descend"
      /\ PathOK(g.nodes, t, P, c) /\ NodeRoom(c, n) /\ Near(g, c.buf, 1) /\ c.key \in Int
  BY DEF DescendOK, Running, OpOK
<1>2. IsTree(g.nodes, t) /\ Store(g, top) /\ Sizes(g.nodes, t.T) /\ c.buf \in t.T /\ t.T \subseteq DOMAIN g.nodes
  BY <1>1 DEF Settled, IsTree, PathOK
<1>3. IsNode(n) /\ Sorted(n) /\ NodeOK(n, DOMAIN g.nodes, top) /\ n.ct \in Nat
  BY <1>2, TreeSorted, StoreNodes, NodeParts DEF Store
<1>4. t.K[c.buf] = KeysOf(n)
  BY <1>2 DEF IsTree, InTree, LeafIn
<1>5. KeyTree(c) => OnRoute(g.nodes, t, P, c.buf, c.key) /\ Guard(g.nodes, t, P, c)
                    /\ (c.key \in KeysOf(n) <=> c.key \in t.K[Root])
  BY <1>1, <1>4 DEF PathOK, OnRoute
<1>6. (c.buf # Root => n.ct \in Half .. MaxCt) /\ (c.buf = Root => n.ct <= 3 * MaxCt)
  BY <1>2 DEF Sizes
<1>7. QED
  BY <1>1, <1>2, <1>3, <1>4, <1>5, <1>6 DEF LeafAt

\* FixUp writes slot call.at of node call.ge.
LEMMA FixUpIs ==
  ASSUME NEW g, NEW e
  PROVE  FixUp(g, call.at, e) = FixAt(g, call.ge, call.at + 1, e)
  BY DEF FixUp, FixAt, Fixed

\* A new key.
LEMMA LeafInsertGood ==
  ASSUME OddRoom, RepairsRightKey, NEW top, NEW t, NEW P, DescendOK(h, call, held, top, t, P), LeafInsert
  PROVE  \E s, Q, N : Good(h', call', held, top, s, Q, N)
<1> DEFINE n == h.nodes[call.buf]
           r == search(n, call.key)
           at == IF r.cc > 0 THEN r.at + 1 ELSE r.at
           e == [key |-> call.key, rec |-> call.rec, ge |-> NoAdr]
           p == PutIn(n, at, e)
           g == writeNode(h, call.buf, p)
           s == KeyChange(t, P, TRUE, call.key)
<1>1. /\ call.tree = "insert" /\ n.leaf /\ call.pc = "descend"
  BY DEF LeafInsert, AtLeaf, Here
<1>2. IF r.cc = 0 THEN h' = h /\ Return("duplicate", Zero)
                  ELSE h' = (IF at = 0 /\ call.lt THEN FixUp(g, 0, e) ELSE g) /\ Return("ok", Zero)
  BY DEF LeafInsert, Here
<1>3. r.at = 0 /\ r.cc < 0 /\ call.lt => call.at = 0
  BY <1>1 DEF RepairsRightKey, AtLeaf, Here
<1>4. LeafAt(h, call, held, top, t, P, n)
  BY <1>1, LeafAtIs
<1> HIDE DEF n
<1>5. /\ Running(call, held, top) /\ Settled(h, top, t) /\ t.K[Root] = KeysHeld(call, held)
      /\ call.buf \in t.T /\ n = h.nodes[call.buf] /\ n.leaf /\ NodeRoom(call, n) /\ Near(h, call.buf, 1)
      /\ IsNode(n) /\ Sorted(n) /\ NodeOK(n, DOMAIN h.nodes, top) /\ t.K[call.buf] = KeysOf(n) /\ call.key \in Int
      /\ n.ct \in Nat /\ (call.buf # Root => n.ct \in Half .. MaxCt) /\ (call.buf = Root => n.ct <= 3 * MaxCt)
  BY <1>4 DEF LeafAt
<1>6. /\ OnRoute(h.nodes, t, P, call.buf, call.key) /\ Guard(h.nodes, t, P, call)
      /\ (call.key \in KeysOf(n) <=> call.key \in t.K[Root])
  BY <1>1, <1>4 DEF LeafAt, KeyTree
<1>7. /\ IsWrite(call) /\ call.rec \in 1 .. top /\ call.key \in HeldKeys(held) /\ KeysHeld(call, held) = HeldKeys(held) \ {call.key}
  <2>1. call.op = "insert" /\ call.key \in Keys
    BY <1>1, <1>5 DEF Running, OpOK
  <2>2. IsWrite(call) /\ call.rec \in 1 .. top /\ held[call.key] # {}
    BY <1>1, <1>5 DEF Running, IsWrite
  <2>3. QED
    BY <1>1, <2>1, <2>2 DEF HeldKeys, KeysHeld
<1>8. call.key \notin KeysOf(n)
  BY <1>5, <1>6, <1>7
<1> HIDE DEF r
<1>9. r = search(n, call.key)
  BY DEF r
<1>10. /\ r.cc # 0 /\ r.cc \in {-1, 1} /\ r.at \in Nat /\ at \in 0 .. n.ct /\ Routes(n, at, call.key)
  BY <1>5, <1>8, <1>9, SlotFor
<1>11. at = 0 => r.cc < 0 /\ r.at = 0
  BY <1>10
<1>12. h' = (IF at = 0 /\ call.lt THEN FixUp(g, 0, e) ELSE g) /\ Return("ok", Zero)
  BY <1>2, <1>10
<1> HIDE DEF at
<1>13. e \in Entry /\ e.key = call.key /\ e.rec = call.rec
  BY <1>5, <1>7 DEF Entry, NoAdr
<1> HIDE DEF e
<1>14. /\ IsNode(p) /\ p.ct = n.ct + 1 /\ p.leaf = n.leaf /\ p.next = n.next
       /\ \A j \in 1 .. (n.ct + 1) : p.ent[j] = IF j <= at THEN n.ent[j] ELSE IF j = at + 1 THEN e ELSE n.ent[j - 1]
       /\ Sorted(p) /\ KeysOf(p) = KeysOf(n) \cup {call.key}
  <2>1. at \in 0 .. n.ct /\ Routes(n, at, e.key) /\ e.key \notin KeysOf(n)
    BY <1>8, <1>10, <1>13
  <2>2. /\ IsNode(p) /\ p.ct = n.ct + 1 /\ p.leaf = n.leaf /\ p.next = n.next
        /\ \A j \in 1 .. (n.ct + 1) : p.ent[j] = IF j <= at THEN n.ent[j] ELSE IF j = at + 1 THEN e ELSE n.ent[j - 1]
    <3>1. PICK i \in 0 .. n.ct : i = at
      BY <2>1
    <3>2. IsNode(n) /\ e \in Entry
      BY <1>5, <1>13
    <3>3. /\ IsNode(PutIn(n, i, e)) /\ PutIn(n, i, e).ct = n.ct + 1 /\ PutIn(n, i, e).leaf = n.leaf
          /\ PutIn(n, i, e).next = n.next
          /\ \A j \in 1 .. (n.ct + 1) :
               PutIn(n, i, e).ent[j] = IF j <= i THEN n.ent[j] ELSE IF j = i + 1 THEN e ELSE n.ent[j - 1]
      BY <3>2, PutInIs
    <3>4. QED
      BY <3>1, <3>3
  <2>3. Sorted(p) /\ KeysOf(p) = KeysOf(n) \cup {e.key}
    BY <1>5, <1>13, <2>1, PutKey
  <2>4. QED
    BY <1>13, <2>2, <2>3
<1> HIDE DEF p
<1>15. NodeOK(p, DOMAIN h.nodes, top)
  <2>1. \A j \in 1 .. n.ct : n.ent[j].rec \in 1 .. top
    BY <1>5 DEF NodeOK
  <2>2. ASSUME NEW j \in 1 .. (n.ct + 1) PROVE p.ent[j].rec \in 1 .. top
    <3>1. (j <= at /\ j \in 1 .. n.ct /\ p.ent[j] = n.ent[j]) \/ p.ent[j] = e \/ (j - 1 \in 1 .. n.ct /\ p.ent[j] = n.ent[j - 1])
      BY <1>5, <1>10, <1>14
    <3>2. QED
      BY <1>7, <1>13, <2>1, <3>1
  <2>3. QED
    BY <1>5, <1>14, <2>2 DEF NodeOK
<1>16. LeafChange(h, top, t, P, call.buf, call.key, TRUE, p)
  <2>1. p.ct \in 0 .. 3 * MaxCt /\ (call.buf # Root => p.ct \in Half .. MaxCt)
    <3>1. n.ct < IF call.buf = Root THEN 3 * MaxCt ELSE MaxCt
      BY <1>5, <1>7 DEF NodeRoom
    <3>2. MaxCt \in Nat /\ Half \in Nat
      BY ParameterAssumption DEF Half
    <3>3. QED
      BY <1>5, <1>14, <3>1, <3>2
  <2>2. KeysOf(p) = Changed(KeysOf(h.nodes[call.buf]), TRUE, call.key)
    BY <1>5, <1>14 DEF Changed
  <2>3. QED
    BY <1>5, <1>6, <1>14, <1>15, <2>1, <2>2 DEF LeafChange
<1>17. LeafChanged(h, g, top, t, P, call.buf, call.key, TRUE, p)
  BY <1>16, LeafChangeIs
<1> HIDE DEF g
<1>18. Settled(h', top, s)
  <2>1. CASE ~(at = 0 /\ call.lt)
    BY <1>12, <1>17, <2>1 DEF LeafChanged
  <2>2. CASE at = 0 /\ call.lt
    <3>1. call.at = 0
      BY <1>3, <1>11, <2>2
    <3>2. h' = FixAt(g, call.ge, call.at + 1, e)
      BY <1>12, <2>2, <3>1, FixUpIs
    <3>3. Remembered(h.nodes, t, P, call.buf, call.key, call.ge, call.at + 1)
      BY <1>5, <1>6, <2>2, RememberedIs DEF Settled
    <3>4. FixFor(t, call.buf, call.key, TRUE, e)
      <4>1. \A y \in KeysOf(n) : call.key < y
        <5> SUFFICES ASSUME NEW j \in 1 .. n.ct PROVE call.key < n.ent[j].key
          BY DEF KeysOf
        <5>0. n.ct \in Nat /\ \A i \in 1 .. n.ct : n.ent[i].key \in Int
          <6>1. IsNode(n)
            BY <1>5
          <6>2. QED
            BY <6>1, NodeParts
        <5>1. 1 \in 1 .. n.ct /\ n.ct > 0 /\ n.ent[1].key \in Int /\ n.ent[j].key \in Int
          BY <5>0
        <5>2. call.key < n.ent[1].key
          BY <1>10, <2>2, <5>1 DEF Routes
        <5>3. j = 1 \/ n.ent[1].key < n.ent[j].key
          BY <1>5, <5>1 DEF Sorted
        <5>4. QED
          BY <1>5, <5>1, <5>2, <5>3
      <4>2. e.key \in Int /\ e.rec \in Int
        BY <1>13 DEF Entry
      <4>3. \A y \in KeysOf(n) : call.key <= y
        <5>1. \A y \in KeysOf(n) : y \in Int
          BY <1>5, NodeParts DEF KeysOf
        <5>2. QED
          BY <1>5, <4>1, <5>1
      <4>4. QED
        BY <1>5, <1>13, <4>2, <4>3 DEF FixFor, Changed
    <3>5. CanFix(g, top, s, call.ge, call.at + 1, e)
      BY <1>16, <1>17, <3>3, <3>4, FixHere
    <3>6. QED
      BY <3>2, <3>5, FixAtIs
  <2>3. QED
    BY <2>1, <2>2
<1>19. s.K[Root] = HeldKeys(held)
  <2>1. Root \in P /\ Root \in t.T
    BY <1>6 DEF OnRoute
  <2>2. s.K[Root] = t.K[Root] \cup {call.key}
    BY <2>1 DEF KeyChange, Changed
  <2>3. QED
    BY <1>5, <1>7, <2>2
<1> HIDE DEF s
<1>20. call' = ReturnOf(call, "ok", Zero)
  BY <1>12 DEF Return, ReturnOf
<1>21. OpOK(call') /\ call'.pc = "return" /\ call'.tree = "insert" /\ call'.rc = "ok"
  BY <1>1, <1>5, <1>20, ReturnIs
<1>22. ReturnOK(h', call', held, top, s)
  BY <1>18, <1>19, <1>21 DEF ReturnOK, KeysHeld
<1>23. QED
  BY <1>22 DEF Good

\* A key is taken out.
LEMMA LeafDeleteGood ==
  ASSUME OddRoom, NEW top, NEW t, NEW P, DescendOK(h, call, held, top, t, P), LeafDelete
  PROVE  \E s, Q, N : Good(h', call', held, top, s, Q, N)
<1> DEFINE n == h.nodes[call.buf]
           r == search(n, call.key)
           p == TakeOut(n, r.at)
           g == writeNode(h, call.buf, p)
           s == KeyChange(t, P, FALSE, call.key)
<1>1. /\ call.tree = "delete" /\ n.leaf /\ call.pc = "descend"
  BY DEF LeafDelete, AtLeaf, Here
<1>2. IF r.cc = 0 THEN /\ h' = IF r.at = 0 /\ call.lt THEN FixUp(g, call.at, p.ent[1]) ELSE g
                       /\ Return("ok", Slot(n, r.at))
                  ELSE h' = h /\ Return("notfound", Zero)
  BY DEF LeafDelete, Here
<1>4. LeafAt(h, call, held, top, t, P, n)
  BY <1>1, LeafAtIs
<1> HIDE DEF n
<1>5. /\ Running(call, held, top) /\ Settled(h, top, t) /\ t.K[Root] = KeysHeld(call, held)
      /\ call.buf \in t.T /\ n = h.nodes[call.buf] /\ n.leaf /\ NodeRoom(call, n) /\ Near(h, call.buf, 1)
      /\ IsNode(n) /\ Sorted(n) /\ NodeOK(n, DOMAIN h.nodes, top) /\ t.K[call.buf] = KeysOf(n) /\ call.key \in Int
      /\ n.ct \in Nat /\ (call.buf # Root => n.ct \in Half .. MaxCt) /\ (call.buf = Root => n.ct <= 3 * MaxCt)
  BY <1>4 DEF LeafAt
<1>6. /\ OnRoute(h.nodes, t, P, call.buf, call.key) /\ Guard(h.nodes, t, P, call)
      /\ (call.key \in KeysOf(n) <=> call.key \in t.K[Root])
  BY <1>1, <1>4 DEF LeafAt, KeyTree
<1>7. KeysHeld(call, held) = HeldKeys(held)
  BY <1>1 DEF KeysHeld
<1> HIDE DEF r
<1>8. r = search(n, call.key)
  BY DEF r
<1>9. (r.cc = 0) <=> (call.key \in KeysOf(n))
  BY <1>5, <1>8, SearchFinds
<1>10. CASE r.cc # 0
  <2>1. h' = h /\ call' = ReturnOf(call, "notfound", Zero)
    BY <1>2, <1>10 DEF Return, ReturnOf
  <2>2. OpOK(call') /\ call'.pc = "return" /\ call'.tree = "delete" /\ call'.rc = "notfound"
    BY <1>1, <1>5, <2>1, ReturnIs
  <2>3. ReturnOK(h', call', held, top, t)
    BY <1>5, <1>7, <2>1, <2>2 DEF ReturnOK, KeysHeld
  <2>4. QED
    BY <2>3 DEF Good
<1>11. CASE r.cc = 0
  <2>1. r.at \in 0 .. (n.ct - 1) /\ n.ent[r.at + 1].key = call.key
    BY <1>5, <1>8, <1>11, SearchFinds
  <2>2. PICK i \in 0 .. (n.ct - 1) : i = r.at
    BY <2>1
  <2>3. p = TakeOut(n, i)
    BY <2>2
  <2>4. /\ IsNode(p) /\ p.ct = n.ct - 1 /\ p.leaf = n.leaf /\ p.next = n.next
        /\ \A j \in 1 .. (n.ct - 1) : p.ent[j] = IF j <= i THEN n.ent[j] ELSE n.ent[j + 1]
        /\ Sorted(p) /\ KeysOf(p) = KeysOf(n) \ {n.ent[i + 1].key}
    <3>1. IsNode(n) /\ Sorted(n)
      BY <1>5
    <3>2. /\ IsNode(TakeOut(n, i)) /\ TakeOut(n, i).ct = n.ct - 1 /\ TakeOut(n, i).leaf = n.leaf /\ TakeOut(n, i).next = n.next
          /\ \A j \in 1 .. (n.ct - 1) : TakeOut(n, i).ent[j] = IF j <= i THEN n.ent[j] ELSE n.ent[j + 1]
      BY <3>1, TakeOutIs
    <3>3. Sorted(TakeOut(n, i)) /\ KeysOf(TakeOut(n, i)) = KeysOf(n) \ {n.ent[i + 1].key}
      BY <3>1, TakeKey
    <3>4. QED
      BY <2>3, <3>2, <3>3
  <2> HIDE DEF p
  <2>5. KeysOf(p) = KeysOf(n) \ {call.key}
    BY <2>1, <2>2, <2>4
  <2>6. NodeOK(p, DOMAIN h.nodes, top)
    <3>1. \A j \in 1 .. n.ct : n.ent[j].rec \in 1 .. top
      BY <1>5 DEF NodeOK
    <3>2. ASSUME NEW j \in 1 .. (n.ct - 1) PROVE p.ent[j].rec \in 1 .. top
      <4>1. j \in 1 .. n.ct /\ j + 1 \in 1 .. n.ct /\ (p.ent[j] = n.ent[j] \/ p.ent[j] = n.ent[j + 1])
        BY <1>5, <2>4
      <4>2. QED
        BY <3>1, <4>1
    <3>3. QED
      BY <1>5, <2>4, <3>2 DEF NodeOK
  <2>7. LeafChange(h, top, t, P, call.buf, call.key, FALSE, p)
    <3>1. p.ct \in 0 .. 3 * MaxCt /\ (call.buf # Root => p.ct \in Half .. MaxCt)
      <4>1. call.buf # Root => n.ct >= Half + 1
        BY <1>1, <1>5 DEF NodeRoom
      <4>2. MaxCt \in Nat /\ Half \in Nat
        BY ParameterAssumption DEF Half
      <4>3. n.ct \in Nat /\ n.ct <= 3 * MaxCt /\ (call.buf # Root => n.ct <= MaxCt)
        BY <1>5, <4>2
      <4>4. r.at \in 0 .. (n.ct - 1) /\ p.ct = n.ct - 1
        BY <2>1, <2>4
      <4>5. QED
        BY ONLY <4>1, <4>2, <4>3, <4>4
    <3>2. KeysOf(p) = Changed(KeysOf(h.nodes[call.buf]), FALSE, call.key)
      BY <1>5, <2>5 DEF Changed
    <3>3. QED
      BY <1>5, <1>6, <2>4, <2>6, <3>1, <3>2 DEF LeafChange
  <2>8. LeafChanged(h, g, top, t, P, call.buf, call.key, FALSE, p)
    BY <2>7, LeafChangeIs
  <2> HIDE DEF g
  <2>9. Settled(h', top, s)
    <3>1. CASE ~(r.at = 0 /\ call.lt)
      BY <1>2, <1>11, <2>8, <3>1 DEF LeafChanged
    <3>2. CASE r.at = 0 /\ call.lt
      <4> DEFINE e == p.ent[1]
      <4>1. h' = FixAt(g, call.ge, call.at + 1, e)
        BY <1>2, <1>11, <3>2, FixUpIs
      <4>2. Remembered(h.nodes, t, P, call.buf, call.key, call.ge, call.at + 1)
        BY <1>5, <1>6, <3>2, RememberedIs DEF Settled
      <4>3. n.ct >= 2
        <5>1. call.buf # Root
          BY <4>2 DEF Remembered
        <5>2. n.ct >= Half + 1 /\ Half >= 3
          BY <1>1, <1>5, <5>1, ParameterAssumption DEF NodeRoom, Half, OddRoom
        <5>3. QED
          BY <1>5, <5>2, ParameterAssumption DEF Half
      <4>4. FixFor(t, call.buf, call.key, FALSE, e)
        <5>1. 1 \in 1 .. p.ct /\ 1 \in 1 .. n.ct /\ 2 \in 1 .. n.ct
          BY <1>5, <2>4, <4>3
        <5>2. e.key \in KeysOf(p) /\ e.key \in Int /\ e.rec \in Int
          BY <2>4, <5>1, NodeParts DEF KeysOf
        <5>3. call.key < e.key
          <6>1. e = n.ent[2] /\ n.ent[1].key = call.key
            <7>1. r.at = 0 /\ i = 0
              BY <2>2, <3>2
            <7>2. n.ent[1].key = call.key
              BY ONLY <2>1, <7>1
            <7>3. 1 \in 1 .. (n.ct - 1)
              BY <1>5, <4>3
            <7>4. p.ent[1] = n.ent[2]
              BY <2>4, <7>1, <7>3
            <7>5. QED
              BY <7>2, <7>4
          <6>2. QED
            BY <1>5, <5>1, <6>1 DEF Sorted
        <5>4. \A y \in KeysOf(p) : e.key <= y
          <6> SUFFICES ASSUME NEW j \in 1 .. p.ct PROVE e.key <= p.ent[j].key
            BY DEF KeysOf
          <6>1. j = 1 \/ e.key < p.ent[j].key
            <7>1. Sorted(p) /\ p.ct \in Nat
              BY <1>5, <2>4
            <7>2. 1 \in 1 .. p.ct /\ (j = 1 \/ 1 < j)
              BY <7>1
            <7>3. QED
              BY ONLY <7>1, <7>2, j \in 1 .. p.ct DEF Sorted
          <6>2. p.ent[j].key \in Int
            BY <2>4, NodeParts
          <6>3. QED
            BY <5>2, <6>1, <6>2
        <5>5. Changed(t.K[call.buf], FALSE, call.key) = KeysOf(p)
          BY <1>5, <2>5 DEF Changed
        <5> HIDE DEF e
        <5>6. call.key <= e.key
          BY <1>5, <5>2, <5>3
        <5>7. QED
          BY <5>2, <5>4, <5>5, <5>6 DEF FixFor
      <4> HIDE DEF e
      <4>5. CanFix(g, top, s, call.ge, call.at + 1, e)
        BY <2>7, <2>8, <4>2, <4>4, FixHere
      <4>6. QED
        BY <4>1, <4>5, FixAtIs
    <3>3. QED
      BY <3>1, <3>2
  <2>10. s.K[Root] = HeldKeys(held) \ {call.key}
    <3>1. Root \in P /\ Root \in t.T
      BY <1>6 DEF OnRoute
    <3>2. s.K[Root] = t.K[Root] \ {call.key}
      BY <3>1 DEF KeyChange, Changed
    <3>3. QED
      BY <1>5, <1>7, <3>2
  <2> HIDE DEF s
  <2>11. call' = ReturnOf(call, "ok", Slot(n, r.at))
    BY <1>2, <1>11 DEF Return, ReturnOf
  <2>12. OpOK(call') /\ call'.pc = "return" /\ call'.tree = "delete" /\ call'.rc = "ok" /\ call'.key = call.key
         /\ call'.offset = Slot(n, r.at).rec
    BY <1>1, <1>5, <2>11, ReturnIs
  <2>13. Slot(n, r.at).rec \in 1 .. top
    <3>1. r.at < Len(n.ent) /\ r.at + 1 \in 1 .. n.ct
      <4>1. n.ct \in Nat /\ Len(n.ent) \in Nat /\ n.ct <= Len(n.ent)
        <5>1. IsNode(n)
          BY <1>5
        <5>2. QED
          BY ONLY <5>1, NodeParts
      <4>2. QED
        BY ONLY <2>1, <4>1
    <3>2. QED
      BY <1>5, <3>1 DEF Slot, NodeOK
  <2>14. ReturnOK(h', call', held, top, s)
    BY <2>9, <2>10, <2>12, <2>13 DEF ReturnOK, KeysHeld
  <2>15. QED
    BY <2>14 DEF Good
<1>12. QED
  BY <1>10, <1>11

\* A node is changed in memory where a reader of keys does not look.
LEMMA PutSettled ==
  ASSUME NEW g, NEW top, NEW t, Settled(g, top, t), NEW a \in DOMAIN g.nodes, NEW m, NodeOK(m, DOMAIN g.nodes, top),
         Same(m, g.nodes[a])
  PROVE  Settled(PutNode(g, a, m), top, t)
<1>1. Store(g, top) /\ Fresh(g) = {}
  BY DEF Settled
<1>2. HasPut(g, PutNode(g, a, m), top, a, m)
  BY <1>1, PutStore
<1>3. Store(PutNode(g, a, m), top) /\ Fresh(PutNode(g, a, m)) = {} /\ Alike(g, PutNode(g, a, m))
  BY <1>1, <1>2, SameRefl DEF HasPut, Alike
<1>4. QED
  BY <1>3, SettledAlike

\* An entry with another record.
LEMMA RecParts ==
  ASSUME NEW y, y = [key |-> y.key, rec |-> y.rec, ge |-> y.ge], NEW r, NEW d, d = [y EXCEPT !.rec = r]
  PROVE  d = [key |-> d.key, rec |-> d.rec, ge |-> d.ge] /\ d.key = y.key /\ d.rec = r /\ d.ge = y.ge
  OBVIOUS

\* A node with another record in one slot is the same to a reader of keys.
LEMMA RecSet ==
  ASSUME NEW n, IsNode(n), NEW i \in 1 .. n.ct, NEW r \in Int
  PROVE  LET m == [n EXCEPT !.ent[i].rec = r] IN
         /\ IsNode(m) /\ m.leaf = n.leaf /\ m.next = n.next /\ m.ct = n.ct /\ Same(m, n)
         /\ \A j \in 1 .. n.ct : m.ent[j].rec = n.ent[j].rec \/ m.ent[j].rec = r
<1>1. n.ct \in Nat /\ Len(n.ent) \in Nat /\ n.ct <= Len(n.ent) /\ n.ent \in Seq(Entry) /\ n \in NodeType
  BY NodeParts DEF IsNode
<1>2. i \in 1 .. Len(n.ent) /\ n.ent[i] \in Entry
  BY <1>1, ElementOfSeq
<1>3. PICK x : x = [n.ent[i] EXCEPT !.rec = r]
  OBVIOUS
<1>4. x = [key |-> x.key, rec |-> x.rec, ge |-> x.ge] /\ x.key = n.ent[i].key /\ x.rec = r /\ x.ge = n.ent[i].ge
  <2>1. n.ent[i] = [key |-> n.ent[i].key, rec |-> n.ent[i].rec, ge |-> n.ent[i].ge]
    BY <1>2 DEF Entry
  <2>2. QED
    BY <1>3, <2>1, RecParts
<1>5. x \in Entry
  BY <1>2, <1>4 DEF Entry
<1> DEFINE ent == [n.ent EXCEPT ![i] = x]
           m == [n EXCEPT !.ent[i].rec = r]
<1>6. ent \in Seq(Entry) /\ Len(ent) = Len(n.ent)
  BY <1>1, <1>2, <1>5, ExceptSeq
<1>7. /\ ent[i] = x /\ \A j \in 1 .. n.ct : j # i => ent[j] = n.ent[j]
  BY <1>1, <1>2
<1>8. m = [n EXCEPT !.ent = ent]
  BY <1>1, <1>3 DEF NodeType
<1> HIDE DEF ent, m
<1>9. m \in NodeType /\ m.ent = ent /\ m.leaf = n.leaf /\ m.ct = n.ct /\ m.lt = n.lt /\ m.next = n.next
  BY <1>1, <1>6, <1>8 DEF NodeType
<1>10. IsNode(m)
  BY <1>1, <1>6, <1>9 DEF IsNode
<1>11. \A j \in 1 .. n.ct : m.ent[j].key = n.ent[j].key /\ m.ent[j].ge = n.ent[j].ge
                            /\ (m.ent[j].rec = n.ent[j].rec \/ m.ent[j].rec = r)
  BY <1>4, <1>7, <1>9
<1>12. QED
  BY <1>9, <1>10, <1>11 DEF m, Same

\* Another value's offset.
LEMMA LeafUpdateGood ==
  ASSUME NEW top, NEW t, NEW P, DescendOK(h, call, held, top, t, P), LeafUpdate
  PROVE  \E s, Q, N : Good(h', call', held, top, s, Q, N)
<1> DEFINE n == h.nodes[call.buf]
           r == search(n, call.key)
<1>1. /\ call.tree = "update" /\ n.leaf /\ call.pc = "descend"
  BY DEF LeafUpdate, AtLeaf, Here
<1>2. IF r.cc = 0 THEN h' = [h EXCEPT !.nodes[call.buf].ent[r.at + 1].rec = call.rec] /\ Return("ok", Zero)
                  ELSE h' = h /\ Return("notfound", Zero)
  BY DEF LeafUpdate, Here
<1>3. LeafAt(h, call, held, top, t, P, n)
  BY <1>1, LeafAtIs
<1> HIDE DEF n
<1>5. /\ Running(call, held, top) /\ Settled(h, top, t) /\ t.K[Root] = KeysHeld(call, held)
      /\ call.buf \in t.T /\ call.buf \in DOMAIN h.nodes /\ n = h.nodes[call.buf] /\ n.leaf
      /\ IsNode(n) /\ Sorted(n) /\ NodeOK(n, DOMAIN h.nodes, top) /\ call.key \in Int
  BY <1>3 DEF LeafAt
<1>6. call.rec \in 1 .. top /\ KeysHeld(call, held) = HeldKeys(held)
  BY <1>1, <1>5 DEF Running, IsWrite, KeysHeld
<1> HIDE DEF r
<1>7. r = search(n, call.key)
  BY DEF r
<1>8. Settled(h', top, t)
  <2>1. CASE r.cc # 0
    BY <1>2, <1>5, <2>1
  <2>2. CASE r.cc = 0
    <3>1. r.at \in 0 .. (n.ct - 1)
      BY <1>5, <1>7, <2>2, SearchFinds
    <3>2. PICK i : i = r.at + 1
      OBVIOUS
    <3>3. i \in 1 .. n.ct
      BY <1>5, <3>1, <3>2, NodeParts
    <3> DEFINE m == [n EXCEPT !.ent[i].rec = call.rec]
    <3>4. h' = [h EXCEPT !.nodes[call.buf].ent[i].rec = call.rec]
      BY <1>2, <2>2, <3>2
    <3>5. h' = PutNode(h, call.buf, m)
      BY <1>5, <3>4 DEF PutNode
    <3>6. IsNode(m) /\ m.leaf = n.leaf /\ m.next = n.next /\ m.ct = n.ct /\ Same(m, n)
          /\ \A j \in 1 .. n.ct : m.ent[j].rec = n.ent[j].rec \/ m.ent[j].rec = call.rec
      <4>1. call.rec \in Int /\ IsNode(n)
        BY <1>5, <1>6
      <4>2. QED
        BY <3>3, <4>1, RecSet
    <3> HIDE DEF m
    <3>7. NodeOK(m, DOMAIN h.nodes, top)
      BY <1>5, <1>6, <3>6 DEF NodeOK
    <3>8. Settled(PutNode(h, call.buf, m), top, t)
      BY <1>5, <3>6, <3>7, PutSettled
    <3>9. QED
      BY <3>5, <3>8
  <2>3. QED
    BY <2>1, <2>2
<1>9. PICK rc : call' = ReturnOf(call, rc, Zero)
  BY <1>2 DEF Return, ReturnOf
<1>10. OpOK(call') /\ call'.pc = "return" /\ call'.tree = "update"
  BY <1>1, <1>5, <1>9, ReturnIs
<1>11. ReturnOK(h', call', held, top, t)
  BY <1>5, <1>6, <1>8, <1>10 DEF ReturnOK, KeysHeld
<1>12. QED
  BY <1>11 DEF Good

\* What a find leaves.
CurSet(g, b, k) == [g EXCEPT !.curBuf = b, !.curKey = k]
HandleRec(g) ==
  [nodes |-> g.nodes, file |-> g.file, bufs |-> g.bufs, rootModified |-> g.rootModified,
   nextFreeAdr |-> g.nextFreeAdr, curBuf |-> g.curBuf, curKey |-> g.curKey]

\* The position of a traversal is set: nothing else changes.
LEMMA CurParts ==
  ASSUME NEW g, g = HandleRec(g), NEW b, NEW k, NEW f, f = CurSet(g, b, k)
  PROVE  /\ f = HandleRec(f) /\ f.nodes = g.nodes /\ f.file = g.file /\ f.bufs = g.bufs /\ f.rootModified = g.rootModified
         /\ f.nextFreeAdr = g.nextFreeAdr /\ f.curBuf = b
  BY DEF HandleRec, CurSet

\* So the buffers and the file still have every node.
LEMMA CurStore ==
  ASSUME NEW g, NEW top, Store(g, top), NEW b \in DOMAIN g.nodes, NEW k
  PROVE  /\ Store(CurSet(g, b, k), top) /\ Fresh(CurSet(g, b, k)) = Fresh(g)
         /\ CurSet(g, b, k).nodes = g.nodes /\ CurSet(g, b, k).file = g.file
         /\ CurSet(g, b, k).rootModified = g.rootModified
<1> DEFINE f == CurSet(g, b, k)
<1>1. IsHandle(g) /\ BufsOK(g) /\ NodesOK(g, top) /\ \A a \in DOMAIN g.nodes \ {Root} : Kept(g, a)
  BY DEF Store, StoreBut
<1>2. /\ f = HandleRec(f) /\ f.nodes = g.nodes /\ f.file = g.file /\ f.bufs = g.bufs /\ f.rootModified = g.rootModified
      /\ f.nextFreeAdr = g.nextFreeAdr /\ f.curBuf = b
  <2>1. g = HandleRec(g)
    BY <1>1 DEF IsHandle, HandleRec
  <2>2. PICK x : x = CurSet(g, b, k)
    OBVIOUS
  <2>3. /\ x = HandleRec(x) /\ x.nodes = g.nodes /\ x.file = g.file /\ x.bufs = g.bufs /\ x.rootModified = g.rootModified
        /\ x.nextFreeAdr = g.nextFreeAdr /\ x.curBuf = b
    BY <2>1, <2>2, CurParts
  <2>4. x = f
    BY <2>2
  <2>5. QED
    BY <2>3, <2>4
<1> HIDE DEF f
<1>3. IsHandle(f) /\ BufsOK(f) /\ NodesOK(f, top)
  <2>1. IsHandle(f)
    BY <1>1, <1>2 DEF IsHandle, HandleRec
  <2>2. BufsOK(f) /\ NodesOK(f, top)
    BY <1>1, <1>2 DEF BufsOK, NodesOK
  <2>3. QED
    BY <2>1, <2>2
<1>4. Fresh(f) = Fresh(g) /\ Dirty(f) = Dirty(g)
  BY <1>2 DEF Fresh, Dirty
<1>5. \A a \in DOMAIN f.nodes \ {Root} : Kept(f, a)
  BY <1>1, <1>2, <1>4 DEF Kept, InFile
<1>6. QED
  BY <1>2, <1>3, <1>4, <1>5 DEF Store, StoreBut, f

\* And the tree is the same.
LEMMA CurSettled ==
  ASSUME NEW g, NEW top, NEW t, Settled(g, top, t), NEW b \in DOMAIN g.nodes, NEW k
  PROVE  Settled(CurSet(g, b, k), top, t)
<1> DEFINE f == CurSet(g, b, k)
<1>1. Store(g, top) /\ Fresh(g) = {} /\ RootKept(g, t.T) /\ IsTree(g.nodes, t) /\ Sizes(g.nodes, t.T)
  BY DEF Settled
<1>2. Store(f, top) /\ Fresh(f) = {} /\ f.nodes = g.nodes /\ f.file = g.file /\ f.rootModified = g.rootModified
  BY <1>1, CurStore
<1> HIDE DEF f
<1>3. RootKept(f, t.T)
  BY <1>1, <1>2, SameRefl, RootKeptOn
<1>4. QED
  BY <1>1, <1>2, <1>3 DEF Settled, f

\* LeafFind keeps the invariant.
LEMMA LeafFindGood ==
  ASSUME NEW top, NEW t, NEW P, DescendOK(h, call, held, top, t, P), LeafFind
  PROVE  \E s, Q, N : Good(h', call', held, top, s, Q, N)
<1> DEFINE n == h.nodes[call.buf]
           hit == CASE call.tree = "get" -> b_get(n, call.key)
                    [] call.tree = "fgeq" -> b_find_first_greater_or_equal(n, call.key)
                    [] OTHER -> b_find_first_key(n)
<1>1. /\ call.tree \in {"get", "first", "fgeq"} /\ n.leaf /\ call.pc = "descend"
  BY DEF LeafFind, AtLeaf, Here
<1>2. IF hit.found THEN h' = CurSet(h, call.buf, hit.at) /\ Return("ok", Slot(n, hit.at))
                   ELSE h' = h /\ Return("notfound", Zero)
  BY DEF LeafFind, Here, CurSet
<1>3. LeafAt(h, call, held, top, t, P, n)
  BY <1>1, LeafAtIs
<1>4. call.tree = "get" => hit.found = (search(n, call.key).cc = 0) /\ hit.at = search(n, call.key).at
  BY DEF b_get
<1> HIDE DEF n, hit
<1>5. /\ Running(call, held, top) /\ Settled(h, top, t) /\ t.K[Root] = KeysHeld(call, held)
      /\ call.buf \in DOMAIN h.nodes /\ n = h.nodes[call.buf] /\ n.leaf
      /\ IsNode(n) /\ Sorted(n) /\ NodeOK(n, DOMAIN h.nodes, top) /\ call.key \in Int
      /\ (KeyTree(call) => (call.key \in KeysOf(n) <=> call.key \in t.K[Root]))
  BY <1>3 DEF LeafAt
<1>6. KeysHeld(call, held) = HeldKeys(held)
  BY <1>1 DEF KeysHeld
<1>7. Settled(h', top, t)
  BY <1>2, <1>5, CurSettled
<1>8. \E rc, e : /\ call' = ReturnOf(call, rc, e)
                 /\ hit.found => rc = "ok" /\ e = Slot(n, hit.at)
                 /\ ~hit.found => rc = "notfound"
  BY <1>2 DEF Return, ReturnOf
<1>9. PICK rc, e : /\ call' = ReturnOf(call, rc, e)
                   /\ hit.found => rc = "ok" /\ e = Slot(n, hit.at)
                   /\ ~hit.found => rc = "notfound"
  BY <1>8
<1>10. OpOK(call') /\ call'.pc = "return" /\ call'.tree = call.tree /\ call'.key = call.key /\ call'.rc = rc /\ call'.offset = e.rec
  BY <1>5, <1>9, ReturnIs
<1>11. ASSUME call.tree = "get" PROVE (rc = "ok" <=> call.key \in t.K[Root]) /\ rc \in {"ok", "notfound"} /\ (rc = "ok" => e.rec \in 1 .. top)
  <2>1. (search(n, call.key).cc = 0) <=> (call.key \in KeysOf(n))
    BY <1>5, SearchFinds
  <2>2. rc = "ok" <=> search(n, call.key).cc = 0
    BY <1>4, <1>9, <1>11
  <2>3. KeyTree(call)
    BY <1>11 DEF KeyTree
  <2>4. ASSUME rc = "ok" PROVE e.rec \in 1 .. top
    <3>1. search(n, call.key).cc = 0
      BY <2>2, <2>4
    <3>2. search(n, call.key).at \in 0 .. (n.ct - 1)
      BY <1>5, <3>1, SearchFinds
    <3>3. PICK i : i = search(n, call.key).at
      OBVIOUS
    <3>4. i \in 0 .. (n.ct - 1) /\ e = Slot(n, i)
      BY <1>4, <1>9, <1>11, <2>4, <3>1, <3>2, <3>3
    <3>5. i < Len(n.ent) /\ i + 1 \in 1 .. n.ct
      BY <1>5, <3>4, NodeParts
    <3>6. QED
      BY <1>5, <3>4, <3>5 DEF Slot, NodeOK
  <2>5. QED
    BY <1>5, <1>9, <2>1, <2>2, <2>3, <2>4
<1>12. ReturnOK(h', call', held, top, t)
  BY <1>1, <1>5, <1>6, <1>7, <1>10, <1>11 DEF ReturnOK, KeysHeld
<1>13. QED
  BY <1>12 DEF Good

(***************************************************************************)
(* The values.  A bag of n records; every link is to one of them, or none. *)
(***************************************************************************)
Link(n) == {ION_LFB_NULL} \cup 1 .. n
Record(n) == [value : Values, next : Link(n)]
Bags(n) == [file : [1 .. n -> Record(n)], next_empty : Link(n)]

\* The records of a bag.
LEMMA BagLen ==
  ASSUME NEW n \in Nat, NEW b \in Bags(n)
  PROVE  Len(b.file) = n /\ b.file \in [1 .. n -> Record(n)] /\ b.next_empty \in Link(n) /\ b.file \in Seq(Record(n))
<1>1. b.file \in [1 .. n -> Record(n)] /\ b.next_empty \in Link(n)
  BY DEF Bags
<1>2. QED
  BY <1>1, SequenceOfFunction

\* Numbers in a set that has zero, and each one's successor.
LEMMA UpTo ==
  ASSUME NEW n \in Nat, NEW D \in SUBSET (0 .. n), 0 \in D, \A i \in D : i < n => i + 1 \in D
  PROVE  n \in D
<1>1. PICK m \in D : \A e \in D : e <= m
  <2>1. D \in SUBSET Nat /\ D # {} /\ \A e \in D : e <= n
    OBVIOUS
  <2>2. QED
    BY <2>1, GreatestNatural
<1>2. m = n
  <2> SUFFICES ASSUME m # n PROVE FALSE
    OBVIOUS
  <2>1. m < n /\ m \in Nat
    OBVIOUS
  <2>2. m + 1 \in D
    BY <2>1
  <2>3. m + 1 <= m
    BY <1>1, <2>2
  <2>4. QED
    BY <2>1, <2>3
<1>3. QED
  BY <1>2

Recur(S, s0, F, n) == \E f \in [0 .. n -> S] : f[0] = s0 /\ \A i \in 1 .. n : f[i] = F[i][f[i - 1]]

\* The same, by name.
LEMMA RecurExists ==
  ASSUME NEW S, NEW s0 \in S, NEW F \in [Nat -> [S -> S]], NEW n \in Nat
  PROVE  Recur(S, s0, F, n)
  BY RecursionExists DEF Recur

ListGrown(b, offset, so) ==
  LET o == IF so = << >> THEN offset ELSE b.file[so[Len(so)]].next
  IN IF o = ION_LFB_NULL THEN so ELSE Append(so, o)
IsList(f, b, offset) == f = [n \in 0 .. Len(b.file) |-> IF n = 0 THEN << >> ELSE ListGrown(b, offset, f[n - 1])]

\* The list of an offset as the choice of a table of its prefixes.
LEMMA ListIsChoice ==
  ASSUME NEW b, NEW offset
  PROVE  List(b, offset) = (CHOOSE f : IsList(f, b, offset))[Len(b.file)]
  BY DEF List, IsList, ListGrown

\* A list that has grown by one is one of records of the bag.
LEMMA ListGrownIn ==
  ASSUME NEW n \in Nat, NEW b \in Bags(n), NEW offset \in Link(n), NEW so \in Seq(1 .. n)
  PROVE  ListGrown(b, offset, so) \in Seq(1 .. n)
<1>1. Len(b.file) = n /\ b.file \in [1 .. n -> Record(n)]
  BY BagLen
<1>2. PICK o : o = IF so = << >> THEN offset ELSE b.file[so[Len(so)]].next
  OBVIOUS
<1>3. o \in Link(n)
  <2>1. CASE so = << >>
    BY <1>2, <2>1
  <2>2. CASE so # << >>
    <3>1. so[Len(so)] \in 1 .. n
      <4>1. Len(so) \in 1 .. Len(so)
        BY <2>2, EmptySeq, LenProperties
      <4>2. QED
        BY <4>1, ElementOfSeq
    <3>2. b.file[so[Len(so)]] \in Record(n)
      BY <1>1, <3>1
    <3>3. QED
      BY <1>2, <2>2, <3>2 DEF Record
  <2>3. QED
    BY <2>1, <2>2
<1>4. ListGrown(b, offset, so) = IF o = ION_LFB_NULL THEN so ELSE Append(so, o)
  BY <1>2 DEF ListGrown
<1>5. CASE o = ION_LFB_NULL
  BY <1>4, <1>5
<1>6. CASE o # ION_LFB_NULL
  <2>1. o \in 1 .. n
    BY <1>3, <1>6 DEF Link
  <2>2. Append(so, o) \in Seq(1 .. n)
    BY <2>1, AppendProperties
  <2>3. QED
    BY <1>4, <1>6, <2>2
<1>7. QED
  BY <1>5, <1>6

\* A list is one of records of the bag.
LEMMA ListIs ==
  ASSUME NEW n \in Nat, NEW b \in Bags(n), NEW offset \in Link(n)
  PROVE  List(b, offset) \in Seq(1 .. n)
<1> DEFINE S == Seq(1 .. n)
           F == [i \in Nat |-> [so \in S |-> ListGrown(b, offset, so)]]
           f == CHOOSE f : IsList(f, b, offset)
<1>1. Len(b.file) = n
  BY BagLen
<1>2. << >> \in S
  BY EmptySeq
<1>3. F \in [Nat -> [S -> S]] /\ \A i \in Nat : \A so \in S : F[i][so] = ListGrown(b, offset, so)
  BY ListGrownIn
<1> HIDE DEF F, S
<1>4. PICK x \in [0 .. n -> S] : x[0] = << >> /\ \A i \in 1 .. n : x[i] = F[i][x[i - 1]]
  <2>1. F \in [Nat -> [S -> S]]
    BY <1>3
  <2>2. PICK s0 \in S : s0 = << >>
    BY <1>2
  <2> HIDE DEF f
  <2>3. Recur(S, s0, F, n)
    BY <2>1, RecurExists
  <2>4. QED
    BY <2>2, <2>3 DEF Recur
<1>5. \A i \in 1 .. n : x[i] = ListGrown(b, offset, x[i - 1])
  <2> SUFFICES ASSUME NEW i \in 1 .. n PROVE x[i] = ListGrown(b, offset, x[i - 1])
    OBVIOUS
  <2>1. i - 1 \in 0 .. n /\ i \in Nat
    OBVIOUS
  <2>2. QED
    BY <1>3, <1>4, <2>1
<1>6. IsList(x, b, offset)
  <2>1. x = [i \in 0 .. n |-> IF i = 0 THEN << >> ELSE ListGrown(b, offset, x[i - 1])]
    <3>1. \A i \in 0 .. n : x[i] = IF i = 0 THEN << >> ELSE ListGrown(b, offset, x[i - 1])
      BY <1>4, <1>5
    <3>2. QED
      BY <3>1
  <2>2. QED
    BY <1>1, <2>1 DEF IsList
<1>7. IsList(f, b, offset)
  BY <1>6
<1>8. List(b, offset) = f[n]
  BY <1>1, ListIsChoice
<1> HIDE DEF f
<1> DEFINE D == { i \in 0 .. n : f[i] \in S }
<1>9. \A i \in 0 .. n : f[i] = IF i = 0 THEN << >> ELSE ListGrown(b, offset, f[i - 1])
  <2>1. f = [i \in 0 .. n |-> IF i = 0 THEN << >> ELSE ListGrown(b, offset, f[i - 1])]
    BY <1>1, <1>7 DEF IsList
  <2> DEFINE G(i) == IF i = 0 THEN << >> ELSE ListGrown(b, offset, f[i - 1])
  <2>2. f = [i \in 0 .. n |-> G(i)]
    BY <2>1
  <2> HIDE DEF G
  <2>3. \A i \in 0 .. n : f[i] = G(i)
    BY <2>2
  <2>4. QED
    BY <2>3 DEF G
<1>10. 0 \in D
  BY <1>2, <1>9
<1>11. ASSUME NEW i \in D, i < n PROVE i + 1 \in D
  <2>1. i + 1 \in 0 .. n /\ i + 1 # 0 /\ (i + 1) - 1 = i /\ f[i] \in S
    BY <1>11
  <2>2. f[i + 1] = ListGrown(b, offset, f[i])
    BY <1>9, <2>1
  <2>3. f[i + 1] \in S
    BY <2>1, <2>2, ListGrownIn DEF S
  <2>4. QED
    BY <2>1, <2>3
<1>12. n \in D
  <2>1. D \in SUBSET (0 .. n)
    OBVIOUS
  <2> HIDE DEF D
  <2>2. QED
    BY <1>10, <1>11, <2>1, UpTo
<1>13. QED
  BY <1>8, <1>12 DEF S

\* lfb_delete leaves a bag.
LEMMA FreeOne ==
  ASSUME NEW n \in Nat, NEW b \in Bags(n), NEW o \in 1 .. n
  PROVE  lfb_delete(b, o) \in Bags(n)
<1>1. b.file \in [1 .. n -> Record(n)] /\ b.next_empty \in Link(n)
  BY BagLen
<1>2. PICK r : r = [b.file[o] EXCEPT !.next = b.next_empty]
  OBVIOUS
<1>3. r \in Record(n)
  BY <1>1, <1>2 DEF Record
<1>4. lfb_delete(b, o) = [file |-> [b.file EXCEPT ![o] = r], next_empty |-> o]
  BY <1>1, <1>2 DEF lfb_delete, lfb_update_next
<1>5. [b.file EXCEPT ![o] = r] \in [1 .. n -> Record(n)]
  BY <1>1, <1>3
<1>6. QED
  BY <1>4, <1>5 DEF Bags, Link

IsFreed(f, b, list) == f = [i \in 0 .. Len(list) |-> IF i = 0 THEN b ELSE lfb_delete(f[i - 1], list[i])]

\* lfb_delete_all as the choice of a table of bags.
LEMMA FreedIsChoice ==
  ASSUME NEW b, NEW offset
  PROVE  lfb_delete_all(b, offset) = (CHOOSE f : IsFreed(f, b, List(b, offset)))[Len(List(b, offset))]
  BY DEF lfb_delete_all, IsFreed

\* lfb_delete_all leaves a bag.
LEMMA FreedAll ==
  ASSUME NEW n \in Nat, NEW b \in Bags(n), NEW offset \in Link(n)
  PROVE  lfb_delete_all(b, offset) \in Bags(n)
<1>1. PICK list : list = List(b, offset)
  OBVIOUS
<1>2. list \in Seq(1 .. n)
  BY <1>1, ListIs
<1>3. PICK m : m = Len(list)
  OBVIOUS
<1>4. m \in Nat /\ \A i \in 1 .. m : list[i] \in 1 .. n
  BY <1>2, <1>3, LenProperties, ElementOfSeq
<1> DEFINE S == Bags(n)
           F == [i \in Nat |-> [x \in S |-> IF i \in 1 .. m THEN lfb_delete(x, list[i]) ELSE x]]
           f == CHOOSE f : IsFreed(f, b, list)
<1>5. /\ F \in [Nat -> [S -> S]]
      /\ \A i \in 1 .. m : \A x \in S : F[i][x] = lfb_delete(x, list[i])
  <2>1. ASSUME NEW i \in Nat, NEW x \in S PROVE (IF i \in 1 .. m THEN lfb_delete(x, list[i]) ELSE x) \in S
    BY <1>4, FreeOne
  <2>2. F \in [Nat -> [S -> S]]
    BY <2>1
  <2>3. \A i \in 1 .. m : i \in Nat
    BY <1>4
  <2>4. QED
    BY <2>2, <2>3
<1> HIDE DEF F, S
<1>6. PICK x \in [0 .. m -> S] : x[0] = b /\ \A i \in 1 .. m : x[i] = F[i][x[i - 1]]
  <2>1. F \in [Nat -> [S -> S]]
    BY <1>5
  <2>2. PICK s0 \in S : s0 = b
    BY DEF S
  <2> HIDE DEF f
  <2>3. Recur(S, s0, F, m)
    BY <1>4, <2>1, RecurExists
  <2>4. QED
    BY <2>2, <2>3 DEF Recur
<1>7. \A i \in 1 .. m : x[i] = lfb_delete(x[i - 1], list[i])
  <2> SUFFICES ASSUME NEW i \in 1 .. m PROVE x[i] = lfb_delete(x[i - 1], list[i])
    OBVIOUS
  <2>1. i - 1 \in 0 .. m
    BY <1>4
  <2>2. QED
    BY <1>5, <1>6, <2>1
<1>8. IsFreed(x, b, list)
  <2>1. \A i \in 0 .. m : x[i] = IF i = 0 THEN b ELSE lfb_delete(x[i - 1], list[i])
    BY <1>4, <1>6, <1>7
  <2>2. x = [i \in 0 .. m |-> IF i = 0 THEN b ELSE lfb_delete(x[i - 1], list[i])]
    BY <2>1
  <2>3. QED
    BY <1>3, <2>2 DEF IsFreed
<1>9. IsFreed(f, b, list)
  BY <1>8
<1>10. lfb_delete_all(b, offset) = f[m]
  BY <1>1, <1>3, FreedIsChoice
<1> HIDE DEF f
<1>11. \A i \in 0 .. m : f[i] = IF i = 0 THEN b ELSE lfb_delete(f[i - 1], list[i])
  <2> DEFINE G(i) == IF i = 0 THEN b ELSE lfb_delete(f[i - 1], list[i])
  <2>1. f = [i \in 0 .. m |-> G(i)]
    BY <1>3, <1>9 DEF IsFreed
  <2> HIDE DEF G
  <2>2. \A i \in 0 .. m : f[i] = G(i)
    BY <2>1
  <2>3. QED
    BY <2>2 DEF G
<1> DEFINE D == { i \in 0 .. m : f[i] \in S }
<1>12. 0 \in D
  BY <1>4, <1>11 DEF S
<1>13. ASSUME NEW i \in D, i < m PROVE i + 1 \in D
  <2>1. i + 1 \in 0 .. m /\ i + 1 # 0 /\ (i + 1) - 1 = i /\ f[i] \in S /\ i + 1 \in 1 .. m
    BY <1>4, <1>13
  <2>2. f[i + 1] = lfb_delete(f[i], list[i + 1])
    BY <1>11, <2>1
  <2>3. f[i + 1] \in S
    BY <1>4, <2>1, <2>2, FreeOne DEF S
  <2>4. QED
    BY <2>1, <2>3
<1>14. m \in D
  <2>1. D \in SUBSET (0 .. m)
    OBVIOUS
  <2> HIDE DEF D
  <2>2. QED
    BY <1>4, <1>12, <1>13, <2>1, UpTo
<1>15. QED
  BY <1>10, <1>14 DEF S

\* lfb_update_all leaves a bag.
LEMMA UpdatedAll ==
  ASSUME NEW n \in Nat, NEW b \in Bags(n), NEW offset, NEW v \in Values
  PROVE  lfb_update_all(b, offset, v) \in Bags(n)
<1>1. b.file \in [1 .. n -> Record(n)] /\ b.next_empty \in Link(n) /\ b = [file |-> b.file, next_empty |-> b.next_empty]
  BY DEF Bags
<1> DEFINE file == [o \in DOMAIN b.file |-> IF o \in Offsets(b, offset) THEN [b.file[o] EXCEPT !.value = v] ELSE b.file[o]]
<1>2. ASSUME NEW o \in 1 .. n PROVE [b.file[o] EXCEPT !.value = v] \in Record(n)
  <2>1. PICK r : r = b.file[o]
    OBVIOUS
  <2>2. r \in Record(n)
    BY <1>1, <2>1
  <2>3. [r EXCEPT !.value = v] \in Record(n)
    BY <2>2 DEF Record
  <2>4. QED
    BY <2>1, <2>3
<1>3. file \in [1 .. n -> Record(n)]
  BY <1>1, <1>2
<1>4. lfb_update_all(b, offset, v) = [b EXCEPT !.file = file]
  BY <1>1 DEF lfb_update_all
<1> HIDE DEF file
<1>5. QED
  BY <1>1, <1>3, <1>4 DEF Bags

\* A sequence of length n is a function on 1 .. n.
LEMMA FunctionOfSequence ==
  ASSUME NEW S, NEW s \in Seq(S), NEW n, Len(s) = n
  PROVE  s \in [1 .. n -> S]
  OBVIOUS

\* lfb_put leaves a bag with as many records or more, and answers one of them.
LEMMA PutOne ==
  ASSUME NEW n \in Nat, NEW b \in Bags(n), NEW v \in Values, NEW next \in Link(n)
  PROVE  \E m \in Nat : n <= m /\ lfb_put(b, v, next) \in Bags(m) /\ PutAt(b) \in 1 .. m
<1>1. b.file \in [1 .. n -> Record(n)] /\ b.next_empty \in Link(n) /\ b = [file |-> b.file, next_empty |-> b.next_empty]
      /\ Len(b.file) = n /\ b.file \in Seq(Record(n))
  BY BagLen DEF Bags
<1> DEFINE r == [value |-> v, next |-> next]
<1>2. r \in Record(n)
  BY DEF Record
<1>3. CASE b.next_empty # ION_LFB_NULL
  <2>1. b.next_empty \in 1 .. n
    BY <1>1, <1>3 DEF Link
  <2>2. b.file[b.next_empty].next \in Link(n)
    BY <1>1, <2>1 DEF Record
  <2>3. [b.file EXCEPT ![b.next_empty] = r] \in [1 .. n -> Record(n)]
    BY <1>1, <1>2
  <2>4. lfb_put(b, v, next) = [file |-> [b.file EXCEPT ![b.next_empty] = r], next_empty |-> b.file[b.next_empty].next]
    BY <1>3 DEF lfb_put
  <2>5. lfb_put(b, v, next) \in Bags(n)
    BY <2>2, <2>3, <2>4 DEF Bags
  <2>6. PutAt(b) \in 1 .. n
    BY <1>3, <2>1 DEF PutAt
  <2>7. QED
    BY <2>5, <2>6
<1>4. CASE b.next_empty = ION_LFB_NULL
  <2> DEFINE m == n + 1
             file == Append(b.file, r)
  <2>1. Link(n) \subseteq Link(m)
    BY DEF Link
  <2>2. Record(n) \subseteq Record(m)
    BY <2>1 DEF Record
  <2>3. /\ file \in Seq(Record(n)) /\ Len(file) = m
    BY <1>1, <1>2, AppendProperties
  <2>4. file \in [1 .. m -> Record(n)]
    BY <2>3, FunctionOfSequence
  <2>5. file \in [1 .. m -> Record(m)]
    BY <2>2, <2>4
  <2> HIDE DEF file
  <2>6. lfb_put(b, v, next) = [b EXCEPT !.file = file]
    BY <1>4 DEF lfb_put, file
  <2>7. lfb_put(b, v, next) \in Bags(m)
    BY <1>1, <2>1, <2>5, <2>6 DEF Bags
  <2>8. PutAt(b) = m /\ m \in Nat /\ n <= m /\ m \in 1 .. m
    BY <1>1, <1>4 DEF PutAt
  <2>9. QED
    BY <2>7, <2>8
<1>5. QED
  BY <1>3, <1>4

(***************************************************************************)
(* The handler.                                                            *)
(***************************************************************************)
HeldOK(hd) == hd \in [Keys -> SUBSET Values]

\* What the tree, the values and the call are to each other.
Consistent(g, c, b, hd) ==
  HeldOK(hd) /\ \E top \in Nat : b \in Bags(top) /\ \E t, P, N : Good(g, c, hd, top, t, P, N)

\* Between calls the invariant says that the tree has the keys that are held.
LEMMA GoodIdle ==
  ASSUME NEW g, NEW hd, HeldOK(hd), NEW top \in Nat, NEW b \in Bags(top), NEW t,
         Settled(g, top, t), t.K[Root] = HeldKeys(hd)
  PROVE  Consistent(g, CallIdle, b, hd)
<1>1. IdleOK(g, CallIdle, hd, top, t)
  BY DEF IdleOK
<1>2. Good(g, CallIdle, hd, top, t, {}, {})
  BY <1>1 DEF Good
<1>3. QED
  BY <1>2 DEF Consistent

\* And the other way round.
LEMMA WasIdle ==
  ASSUME NEW g, NEW hd, NEW b, Consistent(g, CallIdle, b, hd)
  PROVE  /\ HeldOK(hd)
         /\ \E top \in Nat : b \in Bags(top) /\ \E t : Settled(g, top, t) /\ t.K[Root] = HeldKeys(hd)
<1>1. PICK top \in Nat : b \in Bags(top) /\ \E t, P, N : Good(g, CallIdle, hd, top, t, P, N)
  BY DEF Consistent
<1>2. PICK t, P, N : Good(g, CallIdle, hd, top, t, P, N)
  BY <1>1
<1>3. CallIdle.pc = "idle"
  BY DEF CallIdle
<1>4. IdleOK(g, CallIdle, hd, top, t)
  BY <1>2, <1>3 DEF Good, ReturnOK, BeginOK, DescendOK, RescanOK, ScatterOK
<1>5. QED
  BY <1>1, <1>4 DEF IdleOK, Consistent

\* What the invariant says of a tree operation that is over.
LEMMA WasReturn ==
  ASSUME NEW g, NEW c, NEW hd, NEW b, Consistent(g, c, b, hd), c.pc = "return"
  PROVE  /\ HeldOK(hd)
         /\ \E top \in Nat : b \in Bags(top) /\ \E t : ReturnOK(g, c, hd, top, t)
<1>1. PICK top \in Nat : b \in Bags(top) /\ \E t, P, N : Good(g, c, hd, top, t, P, N)
  BY DEF Consistent
<1>2. PICK t, P, N : Good(g, c, hd, top, t, P, N)
  BY <1>1
<1>3. CallIdle.pc = "idle"
  BY DEF CallIdle
<1>4. ReturnOK(g, c, hd, top, t)
  BY <1>2, <1>3 DEF Good, IdleOK, BeginOK, DescendOK, RescanOK, ScatterOK
<1>5. QED
  BY <1>1, <1>4 DEF Consistent

Entered(c, op, k, v, tree, rec) ==
  /\ CallOf(c) /\ c.op = op /\ c.key = k /\ c.value = v /\ c.tree = tree /\ c.rec = rec
  /\ c.buf = Root /\ c.ge = -1 /\ c.lt = FALSE
  /\ tree \in {"insert", "update"} => c.pc = "begin"
  /\ tree \notin {"insert", "update"} => c.pc = "descend"

\* A call that enters a tree operation.
LEMMA EnterIs ==
  ASSUME NEW op, NEW k, NEW v, NEW tree, NEW rec, NEW c, c = Enter(op, k, v, tree, rec)
  PROVE  Entered(c, op, k, v, tree, rec)
  BY DEF Enter, CallOf, RunningRec, Entered

\* Its way begins at the root.
LEMMA PathStarts ==
  ASSUME NEW N, NEW t, IsTree(N, t), NEW c, c.buf = Root, c.ge = -1, c.lt = FALSE
  PROVE  PathOK(N, t, {Root}, c)
<1>1. OnRoute(N, t, {Root}, Root, c.key)
  BY RouteStarts
<1>2. Guard(N, t, {Root}, c)
  BY DEF Guard
<1>3. QED
  BY <1>1, <1>2 DEF PathOK, IsTree

\* A call that only looks, or deletes, begins at the root.
Looks(c) == OpOK(c) /\ c.tree \notin {"insert", "update"}

\* A tree operation that is entered between calls keeps the invariant.
LEMMA EnterGood ==
  ASSUME NEW g, NEW hd, HeldOK(hd), NEW top \in Nat, NEW b \in Bags(top), NEW t,
         Settled(g, top, t), t.K[Root] = HeldKeys(hd),
         NEW op, NEW k, NEW v, NEW tree, NEW rec, NEW c, c = Enter(op, k, v, tree, rec), Looks(c)
  PROVE  Consistent(g, c, b, hd)
<1>0. Entered(c, op, k, v, tree, rec)
  BY EnterIs
<1>1. /\ CallOf(c) /\ c.tree = tree /\ c.buf = Root /\ c.ge = -1 /\ c.lt = FALSE
      /\ tree \notin {"insert", "update"} => c.pc = "descend"
  BY <1>0 DEF Entered
<1>2. OpOK(c) /\ c.pc = "descend" /\ c.tree \notin {"insert", "update"} /\ ~IsWrite(c) /\ c.tree # "insert"
  BY <1>1 DEF Looks, IsWrite
<1>3. Running(c, hd, top)
  BY <1>1, <1>2 DEF Running, CallOf, RunningRec
<1>4. KeysHeld(c, hd) = HeldKeys(hd)
  BY <1>2 DEF KeysHeld
<1>5. PathOK(g.nodes, t, {Root}, c)
  BY <1>1, PathStarts DEF Settled
<1>6. NodeRoom(c, g.nodes[c.buf]) /\ Near(g, c.buf, 1)
  BY <1>1, <1>2 DEF NodeRoom, Near
<1>7. DescendOK(g, c, hd, top, t, {Root})
  BY <1>2, <1>3, <1>4, <1>5, <1>6 DEF DescendOK
<1>8. Good(g, c, hd, top, t, {Root}, {})
  BY <1>7 DEF Good
<1>9. QED
  BY <1>8 DEF Consistent

\* A value has been put in the bag: its key, or the new offset, goes into the tree.
LEMMA EnterWrite ==
  ASSUME NEW g, NEW hd, HeldOK(hd), NEW top \in Nat, NEW b \in Bags(top), NEW t,
         Settled(g, top, t), NEW k \in Keys, NEW v \in Values, hd[k] # {}, NEW rec \in 1 .. top,
         NEW tree \in {"insert", "update"}, NEW c, c = Enter("insert", k, v, tree, rec),
         t.K[Root] = IF tree = "insert" THEN HeldKeys(hd) \ {k} ELSE HeldKeys(hd)
  PROVE  Consistent(g, c, b, hd)
<1>0. Entered(c, "insert", k, v, tree, rec)
  BY EnterIs
<1>1. /\ CallOf(c) /\ c.op = "insert" /\ c.key = k /\ c.value = v /\ c.tree = tree /\ c.rec = rec
      /\ c.buf = Root /\ c.ge = -1 /\ c.lt = FALSE /\ c.pc = "begin"
  BY <1>0 DEF Entered
<1>2. k \in Int
  BY ParameterAssumption
<1>3. OpOK(c) /\ IsWrite(c)
  BY <1>1, <1>2 DEF OpOK, IsWrite
<1>4. Running(c, hd, top)
  BY <1>1, <1>3 DEF Running, CallOf, RunningRec
<1>5. KeysHeld(c, hd) = t.K[Root]
  BY <1>1 DEF KeysHeld
<1>6. PathOK(g.nodes, t, {Root}, c)
  BY <1>1, PathStarts DEF Settled
<1>7. BeginOK(g, c, hd, top, t, {Root})
  BY <1>1, <1>3, <1>4, <1>5, <1>6 DEF BeginOK
<1>8. Good(g, c, hd, top, t, {Root}, {})
  BY <1>7 DEF Good
<1>9. QED
  BY <1>8 DEF Consistent

\* More values do no harm to a tree.
LEMMA SettledMore ==
  ASSUME NEW g, NEW top \in Nat, NEW more \in Nat, top <= more, NEW t, Settled(g, top, t)
  PROVE  Settled(g, more, t)
  BY StoreMore DEF Settled

HeldIs(hd, m, k, S) ==
  /\ HeldOK(m) /\ m[k] = S
  /\ S = {} => HeldKeys(m) = HeldKeys(hd) \ {k}
  /\ S # {} => HeldKeys(m) = HeldKeys(hd) \cup {k}

\* What is held when the values of one key change.
LEMMA HeldNow ==
  ASSUME NEW hd, HeldOK(hd), NEW k \in Keys, NEW S \in SUBSET Values, NEW m, m = [hd EXCEPT ![k] = S]
  PROVE  HeldIs(hd, m, k, S)
<1>1. HeldOK(m) /\ m[k] = S /\ \A x \in Keys : x # k => m[x] = hd[x]
  BY DEF HeldOK
<1>2. ASSUME S = {} PROVE HeldKeys(m) = HeldKeys(hd) \ {k}
  BY <1>1, <1>2 DEF HeldKeys
<1>3. ASSUME S # {} PROVE HeldKeys(m) = HeldKeys(hd) \cup {k}
  BY <1>1, <1>3 DEF HeldKeys
<1>4. QED
  BY <1>1, <1>2, <1>3 DEF HeldIs

\* What is known when the tree has returned.
ReturnedAt(hd, b, top, t) ==
  /\ HeldOK(hd) /\ top \in Nat /\ b \in Bags(top) /\ Settled(h, top, t) /\ OpOK(call)
  /\ t.K[Root] = KeysHeld(call, hd)
  /\ call.tree = "get" => (call.rc = "ok" <=> call.key \in t.K[Root]) /\ call.rc \in {"ok", "notfound"}
  /\ call.tree \in {"get", "delete"} /\ call.rc = "ok" => call.offset \in 1 .. top

\* What is known when the handler goes on with the result of a tree operation.
LEMMA ReturnedIs ==
  ASSUME NEW op, Consistent(h, call, bag, held), Returned(op)
  PROVE  call.op = op /\ call.pc = "return" /\ \E top, t : ReturnedAt(held, bag, top, t)
<1>1. call.op = op /\ call.pc = "return"
  BY DEF Returned
<1>2. HeldOK(held) /\ \E top \in Nat : bag \in Bags(top) /\ \E t : ReturnOK(h, call, held, top, t)
  BY <1>1, WasReturn
<1>3. PICK top \in Nat : bag \in Bags(top) /\ \E t : ReturnOK(h, call, held, top, t)
  BY <1>2
<1>4. PICK t : ReturnOK(h, call, held, top, t)
  BY <1>3
<1>5. ReturnedAt(held, bag, top, t)
  BY <1>2, <1>3, <1>4 DEF ReturnOK, ReturnedAt
<1>6. QED
  BY <1>1, <1>5

\* A value has been added to the key; the tree gets the key, or the new offset.
LEMMA InsertReturnsGood ==
  ASSUME Consistent(h, call, bag, held), InsertReturns
  PROVE  Consistent(h', call', bag', held')
<1>1. call.op = "insert" /\ call.pc = "return" /\ \E top, t : ReturnedAt(held, bag, top, t)
  BY ReturnedIs DEF InsertReturns
<1>2. PICK top, t : ReturnedAt(held, bag, top, t)
  BY <1>1
<1>3. /\ HeldOK(held) /\ top \in Nat /\ bag \in Bags(top) /\ Settled(h, top, t) /\ OpOK(call)
      /\ t.K[Root] = KeysHeld(call, held)
      /\ call.tree = "get" => (call.rc = "ok" <=> call.key \in t.K[Root]) /\ call.rc \in {"ok", "notfound"}
      /\ call.tree = "get" /\ call.rc = "ok" => call.offset \in 1 .. top
  BY <1>2 DEF ReturnedAt
<1>4. call.key \in Keys /\ call.value \in Values /\ call.tree \in {"get", "insert", "update"} /\ h' = h
  BY <1>1, <1>3 DEF OpOK, InsertReturns
<1>5. KeysHeld(call, held) = HeldKeys(held)
  BY <1>1, <1>4 DEF KeysHeld
<1>6. CASE call.tree = "get"
  <2> DEFINE new == call.rc = "notfound"
             tree == IF new THEN "insert" ELSE "update"
             next == IF new THEN ION_LFB_NULL ELSE call.offset
             S == held[call.key] \cup {call.value}
  <2>1. /\ bag' = lfb_put(bag, call.value, next)
        /\ call' = Enter("insert", call.key, call.value, tree, PutAt(bag))
        /\ held' = [held EXCEPT ![call.key] = S]
    BY <1>4, <1>6 DEF InsertReturns
  <2>2. next \in Link(top) /\ tree \in {"insert", "update"}
    BY <1>3, <1>6 DEF Link
  <2>3. S \in SUBSET Values /\ S # {}
    BY <1>3, <1>4 DEF HeldOK
  <2>4. (tree = "insert" => call.key \notin HeldKeys(held)) /\ (tree = "update" => call.key \in HeldKeys(held))
    BY <1>3, <1>5, <1>6
  <2> HIDE DEF new, tree, next, S
  <2>5. HeldIs(held, held', call.key, S)
    BY <1>3, <1>4, <2>1, <2>3, HeldNow
  <2>6. HeldOK(held') /\ held'[call.key] # {} /\ HeldKeys(held') = HeldKeys(held) \cup {call.key}
    BY <2>3, <2>5 DEF HeldIs
  <2>7. PICK m \in Nat : top <= m /\ lfb_put(bag, call.value, next) \in Bags(m) /\ PutAt(bag) \in 1 .. m
    BY <1>3, <1>4, <2>2, PutOne
  <2>8. Settled(h, m, t) /\ bag' \in Bags(m)
    BY <1>3, <2>1, <2>7, SettledMore
  <2>9. t.K[Root] = IF tree = "insert" THEN HeldKeys(held') \ {call.key} ELSE HeldKeys(held')
    BY <1>3, <1>5, <2>2, <2>4, <2>6
  <2>10. Consistent(h, call', bag', held')
    BY <1>4, <2>1, <2>2, <2>6, <2>7, <2>8, <2>9, EnterWrite
  <2>11. QED
    BY <1>4, <2>10
<1>7. CASE call.tree # "get"
  <2>1. call' = CallIdle /\ bag' = bag /\ held' = held
    BY <1>7 DEF InsertReturns, EndsCall
  <2>2. Consistent(h, CallIdle, bag, held)
    BY <1>3, <1>5, GoodIdle
  <2>3. QED
    BY <1>4, <2>1, <2>2
<1>8. QED
  BY <1>6, <1>7

\* A call that ends keeps the invariant.
LEMMA EndsGood ==
  ASSUME Consistent(h, call, bag, held), call.pc = "return", call.tree # "delete"
  PROVE  Consistent(h, CallIdle, bag, held)
<1>1. HeldOK(held) /\ \E top \in Nat : bag \in Bags(top) /\ \E t : ReturnOK(h, call, held, top, t)
  BY WasReturn
<1>2. PICK top \in Nat : bag \in Bags(top) /\ \E t : ReturnOK(h, call, held, top, t)
  BY <1>1
<1>3. PICK t : ReturnOK(h, call, held, top, t)
  BY <1>2
<1>4. Settled(h, top, t) /\ t.K[Root] = HeldKeys(held)
  BY <1>3 DEF ReturnOK, KeysHeld
<1>5. QED
  BY <1>1, <1>2, <1>4, GoodIdle

\* The handler after a get keeps the invariant.
LEMMA GetReturnsGood ==
  ASSUME Consistent(h, call, bag, held), GetReturns
  PROVE  Consistent(h', call', bag', held')
<1>1. call.op = "get" /\ call.pc = "return" /\ \E top, t : ReturnedAt(held, bag, top, t)
  BY ReturnedIs DEF GetReturns
<1>2. call.tree # "delete"
  BY <1>1 DEF ReturnedAt, OpOK
<1>3. Consistent(h, CallIdle, bag, held)
  BY <1>1, <1>2, EndsGood
<1>4. QED
  BY <1>3 DEF GetReturns, EndsCall

\* The handler after a find keeps the invariant.
LEMMA FindReturnsGood ==
  ASSUME Consistent(h, call, bag, held), FindReturns
  PROVE  Consistent(h', call', bag', held')
<1>1. call.op = "find" /\ call.pc = "return" /\ \E top, t : ReturnedAt(held, bag, top, t)
  BY ReturnedIs DEF FindReturns
<1>2. call.tree # "delete"
  BY <1>1 DEF ReturnedAt, OpOK
<1>3. Consistent(h, CallIdle, bag, held)
  BY <1>1, <1>2, EndsGood
<1>4. QED
  BY <1>3 DEF FindReturns, EndsCall

\* All values of the key are written over; without one, the update is an insert.
LEMMA UpdateReturnsGood ==
  ASSUME Consistent(h, call, bag, held), UpdateReturns
  PROVE  Consistent(h', call', bag', held')
<1>1. call.op = "update" /\ call.pc = "return" /\ \E top, t : ReturnedAt(held, bag, top, t)
  BY ReturnedIs DEF UpdateReturns
<1>2. PICK top, t : ReturnedAt(held, bag, top, t)
  BY <1>1
<1>3. /\ HeldOK(held) /\ top \in Nat /\ bag \in Bags(top) /\ Settled(h, top, t) /\ OpOK(call)
      /\ t.K[Root] = KeysHeld(call, held)
      /\ call.tree = "get" => (call.rc = "ok" <=> call.key \in t.K[Root]) /\ call.rc \in {"ok", "notfound"}
  BY <1>2 DEF ReturnedAt
<1>4. call.key \in Keys /\ call.value \in Values /\ call.tree = "get" /\ h' = h
  BY <1>1, <1>3 DEF OpOK, UpdateReturns
<1>5. KeysHeld(call, held) = HeldKeys(held)
  BY <1>1, <1>4 DEF KeysHeld
<1>6. CASE call.rc = "ok"
  <2>1. /\ bag' = lfb_update_all(bag, call.offset, call.value) /\ call' = CallIdle
        /\ held' = [held EXCEPT ![call.key] = {call.value}]
    BY <1>6 DEF UpdateReturns, EndsCall
  <2>2. {call.value} \in SUBSET Values /\ {call.value} # {}
    BY <1>4
  <2>3. HeldIs(held, held', call.key, {call.value})
    BY <1>3, <1>4, <2>1, <2>2, HeldNow
  <2>4. HeldOK(held') /\ HeldKeys(held') = HeldKeys(held) \cup {call.key}
    BY <2>2, <2>3 DEF HeldIs
  <2>5. t.K[Root] = HeldKeys(held')
    BY <1>3, <1>4, <1>5, <1>6, <2>4
  <2>6. bag' \in Bags(top)
    BY <1>3, <1>4, <2>1, UpdatedAll
  <2>7. Consistent(h, CallIdle, bag', held')
    BY <1>3, <2>4, <2>5, <2>6, GoodIdle
  <2>8. QED
    BY <1>4, <2>1, <2>7
<1>7. CASE call.rc # "ok"
  <2>1. call' = Enter("insert", call.key, call.value, "get", 0) /\ bag' = bag /\ held' = held
    BY <1>7 DEF UpdateReturns
  <2>2. Entered(call', "insert", call.key, call.value, "get", 0)
    BY <2>1, EnterIs
  <2>3. PICK k \in Keys : k = call.key
    BY <1>4
  <2>33. k \in Int
    BY ParameterAssumption
  <2>4. Looks(call')
    BY <1>4, <2>2, <2>3, <2>33 DEF Entered, Looks, OpOK
  <2>5. Consistent(h, call', bag, held)
    BY <1>3, <1>5, <2>1, <2>4, EnterGood
  <2>6. QED
    BY <1>4, <2>1, <2>5
<1>8. QED
  BY <1>6, <1>7

\* The values of a key that was taken out are freed.
LEMMA DeleteReturnsGood ==
  ASSUME Consistent(h, call, bag, held), DeleteReturns
  PROVE  Consistent(h', call', bag', held')
<1>1. call.op = "delete" /\ call.pc = "return" /\ \E top, t : ReturnedAt(held, bag, top, t)
  BY ReturnedIs DEF DeleteReturns
<1>2. PICK top, t : ReturnedAt(held, bag, top, t)
  BY <1>1
<1>3. /\ HeldOK(held) /\ top \in Nat /\ bag \in Bags(top) /\ Settled(h, top, t) /\ OpOK(call)
      /\ t.K[Root] = KeysHeld(call, held)
      /\ call.tree = "delete" /\ call.rc = "ok" => call.offset \in 1 .. top
  BY <1>2 DEF ReturnedAt
<1>4. call.key \in Keys /\ call.tree = "delete" /\ h' = h /\ call' = CallIdle
  BY <1>1, <1>3 DEF OpOK, DeleteReturns, EndsCall
<1>6. CASE call.rc = "ok"
  <2>1. bag' = lfb_delete_all(bag, call.offset) /\ held' = [held EXCEPT ![call.key] = {}]
    BY <1>6 DEF DeleteReturns
  <2>2. {} \in SUBSET Values
    OBVIOUS
  <2>3. HeldIs(held, held', call.key, {})
    BY <1>3, <1>4, <2>1, <2>2, HeldNow
  <2>4. HeldOK(held') /\ HeldKeys(held') = HeldKeys(held) \ {call.key}
    BY <2>3 DEF HeldIs
  <2>5. t.K[Root] = HeldKeys(held')
    BY <1>1, <1>3, <1>4, <1>6, <2>4 DEF KeysHeld
  <2>6. call.offset \in Link(top)
    BY <1>3, <1>4, <1>6 DEF Link
  <2>7. bag' \in Bags(top)
    BY <1>3, <2>1, <2>6, FreedAll
  <2>8. Consistent(h, CallIdle, bag', held')
    BY <1>3, <2>4, <2>5, <2>7, GoodIdle
  <2>9. QED
    BY <1>4, <2>8
<1>7. CASE call.rc # "ok"
  <2>1. bag' = bag /\ held' = held
    BY <1>7 DEF DeleteReturns
  <2>2. t.K[Root] = HeldKeys(held)
    BY <1>1, <1>3, <1>7 DEF KeysHeld
  <2>3. Consistent(h, CallIdle, bag, held)
    BY <1>3, <2>2, GoodIdle
  <2>4. QED
    BY <1>4, <2>1, <2>3
<1>8. QED
  BY <1>6, <1>7

\* A call begins.
LEMMA BeginGood ==
  ASSUME Consistent(h, CallIdle, bag, held), NEW op, NEW k, NEW v, NEW tree, NEW c, c = Enter(op, k, v, tree, 0), Looks(c)
  PROVE  Consistent(h, c, bag, held)
<1>1. /\ HeldOK(held)
      /\ \E top \in Nat : bag \in Bags(top) /\ \E t : Settled(h, top, t) /\ t.K[Root] = HeldKeys(held)
  BY WasIdle
<1>2. PICK top \in Nat : bag \in Bags(top) /\ \E t : Settled(h, top, t) /\ t.K[Root] = HeldKeys(held)
  BY <1>1
<1>3. PICK t : Settled(h, top, t) /\ t.K[Root] = HeldKeys(held)
  BY <1>2
<1>4. QED
  BY <1>1, <1>2, <1>3, EnterGood

\* A call of insert, get, update or delete keeps the invariant.
LEMMA BeginsGood ==
  ASSUME Consistent(h, call, bag, held), NEW k \in Keys, NEW v \in Values,
         bpptree_insert(k, v) \/ bpptree_get(k, v) \/ bpptree_update(k, v) \/ bpptree_delete(k, v)
  PROVE  Consistent(h', call', bag', held')
<1>1. /\ call = CallIdle /\ h' = h /\ bag' = bag /\ held' = held
      /\ \/ call' = Enter("insert", k, v, "get", 0) \/ call' = Enter("get", k, v, "get", 0)
         \/ call' = Enter("update", k, v, "get", 0) \/ call' = Enter("delete", k, v, "delete", 0)
  BY DEF bpptree_insert, bpptree_get, bpptree_update, bpptree_delete, Begin, Quiet
<1>2. k \in Int
  BY ParameterAssumption
<1>3. PICK op, tree : /\ call' = Enter(op, k, v, tree, 0)
                      /\ \/ op \in {"insert", "get", "update"} /\ tree = "get"
                         \/ op = "delete" /\ tree = "delete"
  BY <1>1
<1>4. Entered(call', op, k, v, tree, 0)
  BY <1>3, EnterIs
<1>5. Looks(call')
  BY <1>2, <1>3, <1>4 DEF Entered, Looks, OpOK
<1>6. Consistent(h, call', bag, held)
  BY <1>1, <1>3, <1>5, BeginGood
<1>7. QED
  BY <1>1, <1>6

\* A cursor that is opened keeps the invariant.
LEMMA FindGood ==
  ASSUME Consistent(h, call, bag, held), NEW p \in Predicates, bpptree_find(p)
  PROVE  Consistent(h', call', bag', held')
<1>1. PICK tree : tree \in {"get", "fgeq", "first"} /\ call' = Enter("find", p.lower, p, tree, 0)
  BY DEF bpptree_find
<1>2. call = CallIdle /\ h' = h /\ bag' = bag /\ held' = held
  BY DEF bpptree_find, Quiet
<1>3. p.lower \in Int
  BY PredicatesAssumption DEF Predicate
<1>4. Entered(call', "find", p.lower, p, tree, 0)
  BY <1>1, EnterIs
<1>5. Looks(call')
  BY <1>1, <1>3, <1>4 DEF Entered, Looks, OpOK
<1>6. Consistent(h, call', bag, held)
  BY <1>1, <1>2, <1>5, BeginGood
<1>7. QED
  BY <1>2, <1>6

\* The dictionary is created again.
LEMMA CreateGood ==
  Consistent(Handle(EmptyFile, FirstFree), CallIdle, NewBag, [k \in Keys |-> {}])
<1> DEFINE hd == [k \in Keys |-> {}]
<1>1. HeldOK(hd) /\ HeldKeys(hd) = {}
  BY DEF HeldOK, HeldKeys
<1>2. NewBag \in Bags(0) /\ 0 \in Nat
  BY DEF NewBag, Bags, Link
<1> HIDE DEF hd
<1>3. PICK t : IdleOK(Handle(EmptyFile, FirstFree), CallIdle, hd, 0, t)
  BY <1>1, EmptyGood
<1>4. Consistent(Handle(EmptyFile, FirstFree), CallIdle, NewBag, hd)
  BY <1>1, <1>2, <1>3, GoodIdle DEF IdleOK
<1>5. QED
  BY <1>4 DEF hd

\* A dictionary that is deleted and created again keeps the invariant.
LEMMA DeleteDictionaryGood ==
  ASSUME Consistent(h, call, bag, held), bpptree_delete_dictionary
  PROVE  Consistent(h', call', bag', held')
<1>1. /\ call' = CallIdle /\ h' = Handle(EmptyFile, FirstFree) /\ bag' = NewBag /\ held' = [k \in Keys |-> {}]
  BY DEF bpptree_delete_dictionary, Quiet
<1>2. QED
  BY <1>1, CreateGood

\* The cursor moves on.
LEMMA NextGood ==
  ASSUME Consistent(h, call, bag, held), NextKey
  PROVE  Consistent(h', call', bag', held')
<1> DEFINE n == h.nodes[h.curBuf]
           last == h.curKey = n.ct - 1
           to == IF last THEN n.next ELSE h.curBuf
           at == IF last THEN 0 ELSE h.curKey + 1
           g == IF last THEN readDisk(h, to) ELSE h
<1>1. call = CallIdle /\ call' = CallIdle /\ bag' = bag /\ held' = held /\ (h' = h \/ h' = CurSet(g, to, at))
  BY DEF NextKey, CurSet
<1>2. /\ HeldOK(held)
      /\ \E top \in Nat : bag \in Bags(top) /\ \E t : Settled(h, top, t) /\ t.K[Root] = HeldKeys(held)
  BY <1>1, WasIdle
<1>3. PICK top \in Nat : bag \in Bags(top) /\ \E t : Settled(h, top, t) /\ t.K[Root] = HeldKeys(held)
  BY <1>2
<1>4. PICK t : Settled(h, top, t) /\ t.K[Root] = HeldKeys(held)
  BY <1>3
<1>5. Store(h, top) /\ Fresh(h) = {}
  BY <1>4 DEF Settled
<1>6. h.curBuf \in DOMAIN h.nodes /\ \A a \in DOMAIN h.nodes : NodeOK(h.nodes[a], DOMAIN h.nodes, top)
  BY <1>5, StoreNodes DEF Store
<1>7. to \in DOMAIN h.nodes
  BY <1>6 DEF NodeOK
<1>8. last => g = readDisk(h, to)
  OBVIOUS
<1>9. ~last => g = h
  OBVIOUS
<1> HIDE DEF n, last, to, at, g
<1>10. Settled(g, top, t) /\ to \in DOMAIN g.nodes
  <2>1. CASE last
    <3>1. Read(h, readDisk(h, to), top, to)
      BY <1>5, <1>7, ReadIs
    <3>2. Store(g, top) /\ Fresh(g) = {} /\ Alike(h, g)
      BY <1>5, <1>8, <2>1, <3>1 DEF Read
    <3>3. QED
      BY <1>4, <1>7, <3>2, SettledAlike DEF Alike
  <2>2. QED
    BY <1>4, <1>7, <1>9, <2>1
<1>11. Settled(CurSet(g, to, at), top, t)
  BY <1>10, CurSettled
<1>12. Settled(h', top, t)
  BY <1>1, <1>4, <1>11
<1>13. Consistent(h', CallIdle, bag, held)
  BY <1>2, <1>3, <1>4, <1>12, GoodIdle
<1>14. QED
  BY <1>1, <1>13

\* The dictionary is closed and opened.  A root that took the keys of its children
\* without being written is as it was before, and so are they.
LEMMA CutAtSame ==
  ASSUME NEW V, NEW W, NEW X, NEW k, NEW u, CutAt(V, W, k, u),
         \A j \in 1 .. k : IsNode(W[j]) /\ IsNode(X[j]) /\ Same(X[j], W[j])
  PROVE  CutAt(V, X, k, u)
<1>1. \A j \in 1 .. k : X[j].leaf = W[j].leaf /\ X[j].ct = W[j].ct
  BY DEF Same
<1>2. \A j \in 1 .. k : \A i \in 1 .. X[j].ct : X[j].ent[i].key = W[j].ent[i].key
  BY DEF Same
<1>3. \A j \in 1 .. k : \A i \in 0 .. X[j].ct : Child(X[j], i) = Child(W[j], i)
  BY SameNode
<1>4. QED
  BY <1>1, <1>2, <1>3 DEF CutAt

Restores(g, f, t, x, u, V, W, o) ==
  /\ \A j \in 1 .. 3 : x[j] \in DOMAIN g.nodes \ t.T /\ IsNode(W[j]) /\ Same(W[j], g.nodes[x[j]])
  /\ \A j \in 1 .. 3 : W[j].ct \in Half .. MaxCt
  /\ \A i, j \in 1 .. 3 : x[i] = x[j] => i = j
  /\ IsNode(V) /\ Same(V, g.nodes[Root]) /\ IsNode(o) /\ ~o.leaf /\ o.ct = 0
  /\ CutUnder(o, f.nodes[Root], 0, 3, V, u, x) /\ Between(f.nodes[Root], 0, 3, V, u) /\ CutAt(V, W, 3, u)

\* The root the file has from before a collapse, and the three nodes below it,
\* are a tree of the same keys.
LEMMA RestoreTree ==
  ASSUME NEW g, NEW f, NEW top, NEW t, Settled(g, top, t), Reopened(g, f, top),
         NEW x, NEW u, NEW V, NEW W, NEW o, Restores(g, f, t, x, u, V, W, o)
  PROVE  \E s : Settled(f, top, s) /\ s.K[Root] = t.K[Root]
<1> DEFINE M == [a \in DOMAIN g.nodes |-> IF a = Root THEN o ELSE IF a = x[1] THEN V ELSE g.nodes[a]]
<1>1. /\ \A j \in 1 .. 3 : x[j] \in DOMAIN g.nodes \ t.T /\ IsNode(W[j]) /\ Same(W[j], g.nodes[x[j]])
      /\ \A j \in 1 .. 3 : W[j].ct \in Half .. MaxCt
      /\ \A i, j \in 1 .. 3 : x[i] = x[j] => i = j
      /\ IsNode(V) /\ Same(V, g.nodes[Root]) /\ IsNode(o) /\ ~o.leaf /\ o.ct = 0
      /\ CutUnder(o, f.nodes[Root], 0, 3, V, u, x) /\ Between(f.nodes[Root], 0, 3, V, u) /\ CutAt(V, W, 3, u)
  BY DEF Restores
<1>2. /\ IsTree(g.nodes, t) /\ t.T \subseteq DOMAIN g.nodes /\ Root \in t.T /\ Store(g, top) /\ Sizes(g.nodes, t.T)
      /\ \A a \in DOMAIN g.nodes : IsNode(g.nodes[a])
  BY StoreNodes DEF Settled, Store, IsTree
<1>3. x[1] \notin t.T /\ x[1] \in DOMAIN g.nodes /\ x[1] # Root /\ o.lt = x[1]
  BY <1>1, <1>2 DEF CutUnder, Child
<1>4. V.ct > 0 /\ V.ct \in Nat
  <2>0. CutAt(V, W, 3, u) /\ IsNode(V) /\ (\A j \in 1 .. 3 : IsNode(W[j])) /\ 3 \in 1 .. 3
    BY <1>1
  <2>1. /\ V.ct \in Nat
        /\ Off(V, u, 3) \in Nat /\ W[3].ct \in Nat /\ W[3].ct > 0 /\ Off(V, u, 3) + W[3].ct = u[3]
        /\ u[3] = V.ct
    <3>1. /\ V.ct \in Nat
          /\ \A j \in 1 .. 3 : /\ Off(V, u, j) \in Nat
                             /\ W[j].ct \in Nat /\ W[j].ct > 0 /\ Off(V, u, j) + W[j].ct = u[j]
      BY ONLY <2>0, CutParts
    <3>2. u[3] = V.ct
      BY <2>0 DEF CutAt
    <3>3. QED
      BY <2>0, <3>1, <3>2
  <2>2. QED
    BY <2>1
<1>5. t.K[Root] # {}
  <2>1. g.nodes[Root].ct = V.ct /\ IsNode(g.nodes[Root]) /\ InTree(g.nodes[Root], t, Root)
    BY <1>1, <1>2 DEF Same, IsTree
  <2>2. CASE g.nodes[Root].leaf
    <3>1. t.K[Root] = KeysOf(g.nodes[Root])
      BY <2>1, <2>2 DEF InTree, LeafIn
    <3>2. 1 \in 1 .. g.nodes[Root].ct
      BY <1>4, <2>1
    <3>3. QED
      BY <3>1, <3>2 DEF KeysOf
  <2>3. CASE ~g.nodes[Root].leaf
    <3>1. 0 \in 0 .. g.nodes[Root].ct
      BY <1>4, <2>1
    <3>2. ChildIn(g.nodes[Root], t, Root, 0) /\ t.K[Child(g.nodes[Root], 0)] \subseteq t.K[Root]
      BY <1>2, <2>3, <3>1, TreeChild
    <3>3. QED
      BY <3>2 DEF ChildIn
  <2>4. QED
    BY <2>2, <2>3
<1>6. /\ DOMAIN M = DOMAIN g.nodes /\ M[Root] = o /\ M[x[1]] = V
      /\ \A a \in DOMAIN g.nodes : a # Root /\ a # x[1] => M[a] = g.nodes[a]
  BY <1>2, <1>3
<1> HIDE DEF M
<1>7. LiftOK(g.nodes, M, t, x[1])
  <2>1. \A a \in t.T \ {Root} : IsNode(M[a]) /\ Same(M[a], g.nodes[a])
    BY <1>2, <1>3, <1>6, SameRefl
  <2>2. QED
    BY <1>1, <1>2, <1>3, <1>5, <1>6, <2>1 DEF LiftOK
<1>8. PICK s : Lifted(M, t, s, x[1])
  BY <1>2, <1>7, LiftIs
<1>9. IsTree(M, s) /\ s.T = t.T \cup {x[1]} /\ \A a \in t.T : s.K[a] = t.K[a]
  BY <1>8 DEF Lifted
<1> DEFINE X == [j \in 1 .. 3 |-> f.nodes[x[j]]]
<1>10. /\ Store(f, top) /\ Fresh(f) = {} /\ DOMAIN f.nodes = DOMAIN g.nodes /\ f.file = f.nodes
       /\ \A a \in DOMAIN g.nodes \ {Root} : Same(f.nodes[a], g.nodes[a])
       /\ \A a \in DOMAIN g.nodes : IsNode(f.nodes[a])
  BY StoreNodes DEF Reopened, Store
<1>11. \A j \in 1 .. 3 : x[j] \in DOMAIN g.nodes \ {Root} /\ X[j] = f.nodes[x[j]]
  BY <1>1, <1>2
<1>12. \A j \in 1 .. 3 : IsNode(X[j]) /\ Same(X[j], W[j])
  BY <1>1, <1>10, <1>11, SameTrans, SameSym
<1> HIDE DEF X
<1>13. CutAt(V, X, 3, u)
  BY <1>1, <1>12, CutAtSame
<1>14. CanCut(M, f.nodes, s, Root, 0, 3, u, x, X)
  <2>1. CutUnder(M[Root], f.nodes[Root], 0, 3, M[x[1]], u, x) /\ Between(f.nodes[Root], 0, 3, M[x[1]], u)
        /\ CutAt(M[x[1]], X, 3, u)
    BY <1>1, <1>6, <1>13
  <2>2. \A i, j \in 1 .. 3 : x[i] = x[j] => i = j
    BY <1>1
  <2>3. \A j \in 2 .. 3 : x[j] \notin s.T
    BY <1>1, <1>9
  <2>4. \A j \in 1 .. 3 : x[j] \in DOMAIN f.nodes /\ X[j] = f.nodes[x[j]] /\ IsNode(X[j])
    BY <1>10, <1>11, <1>12
  <2>5. s.T \subseteq DOMAIN f.nodes /\ IsNode(f.nodes[Root]) /\ Root \in s.T
    BY <1>2, <1>3, <1>9, <1>10
  <2>6. \A b \in s.T \ {Root, x[1]} : IsNode(f.nodes[b]) /\ Same(f.nodes[b], M[b])
    BY <1>2, <1>6, <1>9, <1>10
  <2>7. QED
    BY <1>9, <2>1, <2>2, <2>3, <2>4, <2>5, <2>6 DEF CanCut
<1>14a. PICK q : IsCut(f.nodes, s, q, 3, x)
  BY <1>14, CutDown
<1>15. /\ IsTree(f.nodes, q) /\ q.T = s.T \cup { x[j] : j \in 1 .. 3 }
       /\ \A b \in s.T \ {x[1]} : q.K[b] = s.K[b]
  BY <1>14a DEF IsCut
<1>16. q.K[Root] = t.K[Root]
  BY <1>2, <1>3, <1>9, <1>15
<1>17. Sizes(f.nodes, q.T)
  <2>1. ASSUME NEW a \in q.T \ {Root} PROVE f.nodes[a].ct \in Half .. MaxCt
    <3>1. CASE a \in t.T
      BY <1>2, <1>10, <2>1, <3>1 DEF Sizes, Same
    <3>2. CASE a \notin t.T
      <4>1. PICK j \in 1 .. 3 : a = x[j]
        BY <1>9, <1>15, <2>1, <3>2
      <4>2. QED
        <5>1. X[j] = f.nodes[a] /\ X[j].ct = W[j].ct
          BY <1>11, <1>12, <4>1 DEF Same
        <5>2. W[j].ct \in Half .. MaxCt
          BY <1>1
        <5>3. QED
          BY <5>1, <5>2
    <3>3. QED
      BY <3>1, <3>2
  <2>2. f.nodes[Root].ct = 2
    BY <1>1 DEF CutUnder
  <2>3. 2 <= 3 * MaxCt /\ 2 >= 2
    BY ParameterAssumption
  <2>4. QED
    BY <2>1, <2>2, <2>3 DEF Sizes
<1>18. RootKept(f, q.T)
  BY <1>10, SameRefl DEF RootKept
<1>19. QED
  BY <1>10, <1>15, <1>16, <1>17, <1>18 DEF Settled

\* A dictionary that is closed and opened has a tree of the same keys.
LEMMA ReopenTree ==
  ASSUME NEW g, NEW f, NEW top, NEW t, Settled(g, top, t), Reopened(g, f, top)
  PROVE  \E s : Settled(f, top, s) /\ s.K[Root] = t.K[Root]
<1>1. CASE g.rootModified \/ Same(g.nodes[Root], g.file[Root])
  <2>1. /\ IsTree(g.nodes, t) /\ t.T \subseteq DOMAIN g.nodes /\ Store(g, top) /\ Sizes(g.nodes, t.T) /\ Root \in t.T
    BY DEF Settled, IsTree
  <2>2. /\ Store(f, top) /\ Fresh(f) = {} /\ DOMAIN f.nodes = DOMAIN g.nodes /\ f.file = f.nodes
        /\ \A a \in DOMAIN g.nodes \ {Root} : Same(f.nodes[a], g.nodes[a])
        /\ f.nodes[Root] = IF g.rootModified THEN g.nodes[Root] ELSE g.file[Root]
        /\ \A a \in DOMAIN g.nodes : IsNode(f.nodes[a])
    BY StoreNodes DEF Reopened, Store
  <2>3. Same(f.nodes[Root], g.nodes[Root])
    BY <1>1, <2>2, SameRefl, SameSym
  <2>4. \A a \in t.T : IsNode(f.nodes[a]) /\ Same(f.nodes[a], g.nodes[a])
    BY <2>1, <2>2, <2>3
  <2>5. IsTree(f.nodes, t)
    BY <2>1, <2>2, <2>4, TreeSame
  <2>6. Sizes(f.nodes, t.T)
    BY <2>1, <2>4 DEF Sizes, Same
  <2>7. RootKept(f, t.T)
    BY <2>2, SameRefl DEF RootKept
  <2>8. QED
    BY <2>2, <2>5, <2>6, <2>7 DEF Settled
<1>2. CASE ~(g.rootModified \/ Same(g.nodes[Root], g.file[Root]))
  <2>1. Collapsed(g, t.T) /\ f.nodes[Root] = g.file[Root]
    BY <1>2 DEF Settled, RootKept, Reopened
  <2>2. \E x, u, V, W, o : Restores(g, f, t, x, u, V, W, o)
    BY <2>1 DEF Collapsed, Restores
  <2>3. QED
    BY <2>2, RestoreTree
<1>3. QED
  BY <1>1, <1>2

\* A close and an open keep the invariant.
LEMMA ReopenGood ==
  ASSUME Consistent(h, call, bag, held), bpptree_reopen
  PROVE  Consistent(h', call', bag', held')
<1>1. /\ call = CallIdle /\ call' = call /\ held' = held /\ bag' = [bag EXCEPT !.next_empty = ION_LFB_NULL]
      /\ h' = Handle(flushAll(h), Max(DOMAIN flushAll(h) \cup {FirstFree - 1}) + 1)
  BY DEF bpptree_reopen, Quiet
<1>2. /\ HeldOK(held)
      /\ \E top \in Nat : bag \in Bags(top) /\ \E t : Settled(h, top, t) /\ t.K[Root] = HeldKeys(held)
  BY <1>1, WasIdle
<1>3. PICK top \in Nat : bag \in Bags(top) /\ \E t : Settled(h, top, t) /\ t.K[Root] = HeldKeys(held)
  BY <1>2
<1>4. PICK t : Settled(h, top, t) /\ t.K[Root] = HeldKeys(held)
  BY <1>3
<1>5. Reopened(h, h', top)
  BY <1>1, <1>4, ReopenIs DEF Settled
<1>6. PICK s : Settled(h', top, s) /\ s.K[Root] = t.K[Root]
  BY <1>4, <1>5, ReopenTree
<1>7. bag' \in Bags(top)
  BY <1>1, <1>3 DEF Bags, Link
<1>8. Consistent(h', CallIdle, bag', held)
  BY <1>2, <1>3, <1>4, <1>6, <1>7, GoodIdle
<1>9. QED
  BY <1>1, <1>8

(***************************************************************************)
(* The gather: the keys of three neighbours, and those between them.       *)
(***************************************************************************)
\* A node's keys behind others, in an inner node with one more key between.
Behind(s, a, y) == (s \o (IF a.leaf THEN << >> ELSE <<y>>)) \o Entries(a)
Extra(leaf) == IF leaf THEN 0 ELSE 1
IsBehind(q, s, a, y) ==
  /\ q \in Seq(Entry) /\ Len(q) = Len(s) + Extra(a.leaf) + a.ct
  /\ \A i \in 1 .. Len(s) : q[i] = s[i]
  /\ ~a.leaf => q[Len(s) + 1] = y
  /\ \A i \in 1 .. a.ct : q[Len(s) + Extra(a.leaf) + i] = a.ent[i]

\* The slots of a node behind others.
LEMMA BehindIs ==
  ASSUME NEW s \in Seq(Entry), NEW a, IsNode(a), NEW y \in Entry, NEW q, q = Behind(s, a, y)
  PROVE  IsBehind(q, s, a, y)
<1>1. /\ Entries(a) \in Seq(Entry) /\ Len(Entries(a)) = a.ct /\ a.ct \in Nat /\ a.leaf \in BOOLEAN
      /\ \A i \in 1 .. a.ct : Entries(a)[i] = a.ent[i]
  BY EntriesIs, NodeParts
<1>2. PICK e \in Seq(Entry) : e = Entries(a)
  BY <1>1
<1>3. Len(s) \in Nat
  OBVIOUS
<1>4. CASE a.leaf
  <2>1. q = s \o e
    BY <1>2, <1>4 DEF Behind
  <2>2. q \in Seq(Entry) /\ Len(q) = Len(s) + Len(e)
    BY <2>1
  <2>3. \A i \in 1 .. Len(s) : q[i] = s[i]
    BY <2>1
  <2>4. \A i \in 1 .. Len(e) : q[Len(s) + i] = e[i]
    BY <1>3, <2>1
  <2>5. Extra(a.leaf) = 0
    BY <1>4 DEF Extra
  <2>6. \A i \in 1 .. a.ct : q[Len(s) + 0 + i] = a.ent[i]
    BY <1>1, <1>2, <1>3, <2>4
  <2>7. Len(q) = Len(s) + 0 + a.ct
    BY <1>1, <1>2, <1>3, <2>2
  <2>8. QED
    BY <1>4, <2>2, <2>3, <2>5, <2>6, <2>7 DEF IsBehind
<1>5. CASE ~a.leaf
  <2>0. <<y>> \in Seq(Entry) /\ s \o <<y>> \in Seq(Entry)
    OBVIOUS
  <2>1. PICK m \in Seq(Entry) : m = s \o <<y>>
    BY <2>0
  <2>2. Len(m) = Len(s) + 1 /\ m[Len(s) + 1] = y /\ \A i \in 1 .. Len(s) : m[i] = s[i]
    BY <2>1
  <2>3. q = m \o e
    BY <1>2, <1>5, <2>1 DEF Behind
  <2>4. q \in Seq(Entry) /\ Len(q) = Len(m) + Len(e)
    BY <2>3
  <2>5. \A i \in 1 .. Len(m) : q[i] = m[i]
    BY <2>3
  <2>6. \A i \in 1 .. Len(e) : q[Len(m) + i] = e[i]
    BY <2>2, <2>3
  <2>7. Extra(a.leaf) = 1
    BY <1>5 DEF Extra
  <2>8. \A i \in 1 .. Len(s) : q[i] = s[i]
    BY <1>3, <2>2, <2>5
  <2>9. q[Len(s) + 1] = y
    BY <1>3, <2>2, <2>5
  <2>10. \A i \in 1 .. a.ct : q[Len(s) + 1 + i] = a.ent[i]
    BY <1>1, <1>2, <2>2, <2>6
  <2>11. Len(q) = Len(s) + 1 + a.ct
    BY <1>1, <1>2, <2>2, <2>4
  <2>12. QED
    BY <2>4, <2>7, <2>8, <2>9, <2>10, <2>11 DEF IsBehind
<1>6. QED
  BY <1>1, <1>4, <1>5

\* The key of the parent that goes between, with the first child of the node.
Down(n, i, a) == [n.ent[i] EXCEPT !.ge = a.lt]

\* The entry made of it.
LEMMA DownIs ==
  ASSUME NEW n, IsNode(n), NEW i \in 1 .. n.ct, NEW a, IsNode(a), NEW y, y = Down(n, i, a)
  PROVE  y \in Entry /\ y.key = n.ent[i].key /\ y.ge = a.lt
<1>1. n.ent[i] \in Entry /\ a.lt \in Int
  BY NodeParts
<1>2. PICK e \in Entry : e = n.ent[i]
  BY <1>1
<1>3. y = [e EXCEPT !.ge = a.lt]
  BY <1>2 DEF Down
<1>4. y \in Entry /\ y.key = e.key /\ y.ge = a.lt
  BY <1>1, <1>3 DEF Entry
<1>5. QED
  BY <1>2, <1>4

\* Three neighbours.
Three(W) == (\A j \in 1 .. 3 : IsNode(W[j])) /\ W[2].leaf = W[1].leaf /\ W[3].leaf = W[1].leaf
Gathers(gb, n, p, W) ==
  LET d == Extra(W[1].leaf) IN
  /\ gb.leaf = W[1].leaf /\ gb.lt = W[1].lt /\ gb.ent \in Seq(Entry)
  /\ Len(gb.ent) = W[1].ct + d + W[2].ct + d + W[3].ct
  /\ \A i \in 1 .. W[1].ct : gb.ent[i] = W[1].ent[i]
  /\ \A i \in 1 .. W[2].ct : gb.ent[W[1].ct + d + i] = W[2].ent[i]
  /\ \A i \in 1 .. W[3].ct : gb.ent[W[1].ct + d + W[2].ct + d + i] = W[3].ent[i]
  /\ ~W[1].leaf => /\ gb.ent[W[1].ct + 1].key = n.ent[p + 1].key /\ gb.ent[W[1].ct + 1].ge = W[2].lt
                   /\ gb.ent[W[1].ct + d + W[2].ct + 1].key = n.ent[p + 2].key
                   /\ gb.ent[W[1].ct + d + W[2].ct + 1].ge = W[3].lt
GatheredEnt(e, a, b, c, y, z, d) ==
  /\ e \in Seq(Entry) /\ Len(e) = a.ct + d + b.ct + d + c.ct
  /\ \A i \in 1 .. a.ct : e[i] = a.ent[i]
  /\ \A i \in 1 .. b.ct : e[a.ct + d + i] = b.ent[i]
  /\ \A i \in 1 .. c.ct : e[a.ct + d + b.ct + d + i] = c.ent[i]
  /\ ~a.leaf => e[a.ct + 1] = y /\ e[a.ct + d + b.ct + 1] = z

\* The entries of three nodes in a row.
LEMMA GatherThree ==
  ASSUME NEW a, NEW b, NEW c, IsNode(a), IsNode(b), IsNode(c), b.leaf = a.leaf, c.leaf = a.leaf,
         NEW y \in Entry, NEW z \in Entry, NEW d, d = Extra(a.leaf),
         NEW e, e = Behind(Behind(Entries(a), b, y), c, z)
  PROVE  GatheredEnt(e, a, b, c, y, z, d)
<1>1. PICK s \in Seq(Entry) : s = Entries(a) /\ Len(s) = a.ct /\ \A i \in 1 .. a.ct : s[i] = a.ent[i]
  BY EntriesIs
<1>2. a.ct \in Nat /\ b.ct \in Nat /\ c.ct \in Nat /\ a.leaf \in BOOLEAN
  BY NodeParts
<1>3. PICK q : q = Behind(s, b, y)
  OBVIOUS
<1>4. IsBehind(q, s, b, y)
  BY <1>3, BehindIs
<1>5. q \in Seq(Entry)
  BY <1>4 DEF IsBehind
<1>6. e = Behind(q, c, z)
  BY <1>1, <1>3
<1>7. IsBehind(e, q, c, z)
  BY <1>5, <1>6, BehindIs
<1>8. d \in {0, 1} /\ (~a.leaf => d = 1) /\ Extra(b.leaf) = d /\ Extra(c.leaf) = d
  BY DEF Extra
<1>9. PICK A \in Nat, B \in Nat, C \in Nat : A = a.ct /\ B = b.ct /\ C = c.ct
  BY <1>2
<1>10. /\ Len(q) = A + d + B
       /\ \A i \in 1 .. A : q[i] = s[i]
       /\ ~a.leaf => q[A + 1] = y
       /\ \A i \in 1 .. B : q[A + d + i] = b.ent[i]
  BY <1>1, <1>4, <1>8, <1>9 DEF IsBehind
<1>11. /\ e \in Seq(Entry) /\ Len(e) = Len(q) + d + C
       /\ \A i \in 1 .. Len(q) : e[i] = q[i]
       /\ ~a.leaf => e[Len(q) + 1] = z
       /\ \A i \in 1 .. C : e[Len(q) + d + i] = c.ent[i]
  BY <1>7, <1>8, <1>9 DEF IsBehind
<1>12. \A i \in 1 .. A : e[i] = a.ent[i]
  <2>1. \A i \in 1 .. A : i \in 1 .. Len(q)
    BY <1>8, <1>10
  <2>2. \A i \in 1 .. A : e[i] = q[i] /\ q[i] = s[i]
    BY <1>10, <1>11, <2>1
  <2>3. QED
    BY <1>1, <1>9, <2>2
<1>13. \A i \in 1 .. B : e[A + d + i] = b.ent[i]
  <2> SUFFICES ASSUME NEW i \in 1 .. B PROVE e[A + d + i] = b.ent[i]
    OBVIOUS
  <2>1. PICK j : j = A + d + i
    OBVIOUS
  <2>2. j \in 1 .. Len(q) /\ q[j] = b.ent[i]
    BY <1>8, <1>10, <2>1
  <2>3. QED
    BY <1>11, <2>1, <2>2
<1>14. ~a.leaf => e[A + 1] = y /\ e[A + d + B + 1] = z
  <2> SUFFICES ASSUME ~a.leaf PROVE e[A + 1] = y /\ e[A + d + B + 1] = z
    OBVIOUS
  <2>1. A + 1 \in 1 .. Len(q)
    BY <1>8, <1>10
  <2>2. QED
    BY <1>10, <1>11, <2>1
<1>15. QED
  BY <1>8, <1>9, <1>10, <1>11, <1>12, <1>13, <1>14 DEF GatheredEnt

\* gather puts three neighbours and the keys between them in a row.
LEMMA GatherIs ==
  ASSUME NEW g, NEW n, IsNode(n), NEW p \in Nat, p + 2 <= n.ct, NEW W,
         W = [j \in 1 .. 3 |-> g.nodes[Child(n, p + j - 1)]], Three(W),
         NEW gb, gb = gather(g, n, p)
  PROVE  Gathers(gb, n, p, W)
<1>1. IsNode(W[1]) /\ IsNode(W[2]) /\ IsNode(W[3]) /\ W[2].leaf = W[1].leaf /\ W[3].leaf = W[1].leaf
  BY DEF Three
<1>2. n.ct \in Nat /\ p + 1 \in 1 .. n.ct /\ p + 2 \in 1 .. n.ct
  BY NodeParts
<1>3. PICK y2 : y2 = Down(n, p + 1, W[2])
  OBVIOUS
<1>4. PICK y3 : y3 = Down(n, p + 2, W[3])
  OBVIOUS
<1>5. y2 \in Entry /\ y2.key = n.ent[p + 1].key /\ y2.ge = W[2].lt
  BY <1>1, <1>2, <1>3, DownIs
<1>6. y3 \in Entry /\ y3.key = n.ent[p + 2].key /\ y3.ge = W[3].lt
  BY <1>1, <1>2, <1>4, DownIs
<1>7. PICK a, b, c : a = W[1] /\ b = W[2] /\ c = W[3]
  OBVIOUS
<1>8. PICK i2, i3 : i2 = p + 2 - 1 /\ i3 = p + 3 - 1
  OBVIOUS
<1>9. i2 = p + 1 /\ i3 = p + 2
  BY <1>8
<1>10. gb = [leaf |-> a.leaf, lt |-> a.lt,
             ent |-> Entries(a) \o (IF b.leaf THEN << >> ELSE <<[n.ent[i2] EXCEPT !.ge = b.lt]>>)
                     \o Entries(b) \o (IF c.leaf THEN << >> ELSE <<[n.ent[i3] EXCEPT !.ge = c.lt]>>)
                     \o Entries(c)]
  <2>1. W[1] = a /\ W[2] = b /\ W[3] = c
    BY <1>7
  <2>2. gather(g, n, p) =
          [leaf |-> W[1].leaf, lt |-> W[1].lt,
           ent |-> Entries(W[1]) \o (IF W[2].leaf THEN << >> ELSE <<[n.ent[i2] EXCEPT !.ge = W[2].lt]>>)
                   \o Entries(W[2]) \o (IF W[3].leaf THEN << >> ELSE <<[n.ent[i3] EXCEPT !.ge = W[3].lt]>>)
                   \o Entries(W[3])]
    BY ONLY W = [j \in 1 .. 3 |-> g.nodes[Child(n, p + j - 1)]], <1>8 DEF gather
  <2>3. QED
    BY ONLY gb = gather(g, n, p), <2>1, <2>2
<1>11. y2 = [n.ent[i2] EXCEPT !.ge = b.lt] /\ y3 = [n.ent[i3] EXCEPT !.ge = c.lt]
  BY <1>3, <1>4, <1>7, <1>9 DEF Down
<1>12. gb = [leaf |-> a.leaf, lt |-> a.lt, ent |-> Behind(Behind(Entries(a), b, y2), c, y3)]
  BY <1>10, <1>11 DEF Behind
<1>13. PICK e : e = Behind(Behind(Entries(a), b, y2), c, y3)
  OBVIOUS
<1>14. PICK d : d = Extra(a.leaf)
  OBVIOUS
<1>15. GatheredEnt(e, a, b, c, y2, y3, d)
  BY <1>1, <1>5, <1>6, <1>7, <1>13, <1>14, GatherThree
<1>16. gb.leaf = a.leaf /\ gb.lt = a.lt /\ gb.ent = e
  BY <1>12, <1>13
<1>17. PICK X : X = W
  OBVIOUS
<1>18. X[1] = a /\ X[2] = b /\ X[3] = c
  BY <1>7, <1>17
<1>19. y2.key = n.ent[p + 1].key /\ y2.ge = b.lt /\ y3.key = n.ent[p + 2].key /\ y3.ge = c.lt
  BY <1>5, <1>6, <1>7
<1>20. Gathers(gb, n, p, X)
  BY ONLY <1>14, <1>15, <1>16, <1>18, <1>19 DEF Gathers, GatheredEnt
<1>21. QED
  BY <1>17, <1>20

\* What is gathered is cut where it was put together.
Cuts(W, d) ==
  [j \in 0 .. 3 |-> IF j = 0 THEN 0 ELSE IF j = 1 THEN W[1].ct ELSE IF j = 2 THEN W[1].ct + d + W[2].ct
                    ELSE W[1].ct + d + W[2].ct + d + W[3].ct]
CutsOK(V, W, u, d) ==
  /\ u \in [0 .. 3 -> Nat] /\ u[0] = 0 /\ u[1] = W[1].ct /\ u[2] = u[1] + d + W[2].ct /\ u[3] = u[2] + d + W[3].ct
  /\ Off(V, u, 1) = 0 /\ Off(V, u, 2) = u[1] + d /\ Off(V, u, 3) = u[2] + d

\* Where the three nodes end in what is gathered.
LEMMA CutsAre ==
  ASSUME NEW V, NEW W, Three(W), V.leaf = W[1].leaf, NEW d, d = Extra(W[1].leaf), NEW u, u = Cuts(W, d)
  PROVE  CutsOK(V, W, u, d)
<1>1. W[1].ct \in Nat /\ W[2].ct \in Nat /\ W[3].ct \in Nat
  BY NodeParts DEF Three
<1>2. d \in Nat
  BY DEF Extra
<1>3. PICK A \in Nat, B \in Nat, C \in Nat : A = W[1].ct /\ B = W[2].ct /\ C = W[3].ct
  BY <1>1
<1>4. u = [j \in 0 .. 3 |-> IF j = 0 THEN 0 ELSE IF j = 1 THEN A ELSE IF j = 2 THEN A + d + B ELSE A + d + B + d + C]
  BY <1>3 DEF Cuts
<1>5. A + d + B \in Nat /\ A + d + B + d + C \in Nat
  BY <1>2
<1>6. u \in [0 .. 3 -> Nat] /\ u[0] = 0 /\ u[1] = A /\ u[2] = A + d + B /\ u[3] = A + d + B + d + C
  BY <1>4, <1>5
<1>7. Off(V, u, 1) = 0 /\ Off(V, u, 2) = u[1] + d /\ Off(V, u, 3) = u[2] + d
  BY <1>6 DEF Off, Extra
<1>8. QED
  BY <1>3, <1>6, <1>7 DEF CutsOK

\* What is gathered, as one node, is cut into the three nodes there.
LEMMA GatherCuts ==
  ASSUME NEW gb, NEW n, NEW p, NEW W, Three(W), Gathers(gb, n, p, W), \A j \in 1 .. 3 : W[j].ct > 0,
         NEW V, V = AsNode(gb), NEW d, d = Extra(W[1].leaf), NEW u, u = Cuts(W, d)
  PROVE  CutAt(V, W, 3, u) /\ IsNode(V) /\ CutsOK(V, W, u, d)
<1>1. IsNode(W[1]) /\ IsNode(W[2]) /\ IsNode(W[3]) /\ W[2].leaf = W[1].leaf /\ W[3].leaf = W[1].leaf
  BY DEF Three
<1>2. /\ W[1].ct \in Nat /\ W[2].ct \in Nat /\ W[3].ct \in Nat /\ W[1].leaf \in BOOLEAN /\ W[1].lt \in Int
  BY <1>1, NodeParts
<1>3. /\ gb.leaf = W[1].leaf /\ gb.lt = W[1].lt /\ gb.ent \in Seq(Entry)
      /\ Len(gb.ent) = W[1].ct + d + W[2].ct + d + W[3].ct
      /\ \A i \in 1 .. W[1].ct : gb.ent[i] = W[1].ent[i]
      /\ \A i \in 1 .. W[2].ct : gb.ent[W[1].ct + d + i] = W[2].ent[i]
      /\ \A i \in 1 .. W[3].ct : gb.ent[W[1].ct + d + W[2].ct + d + i] = W[3].ent[i]
      /\ ~W[1].leaf => gb.ent[W[1].ct + 1].ge = W[2].lt /\ gb.ent[W[1].ct + d + W[2].ct + 1].ge = W[3].lt
  BY DEF Gathers
<1>4. IsNode(V) /\ V.leaf = gb.leaf /\ V.lt = gb.lt /\ V.ent = gb.ent /\ V.ct = Len(gb.ent)
  BY <1>2, <1>3, AsNodeIs
<1>5. CutsOK(V, W, u, d)
  BY <1>3, <1>4, CutsAre
<1>6. d \in {0, 1} /\ (~W[1].leaf => d = 1)
  BY DEF Extra
<1>7. PICK A \in Nat, B \in Nat, C \in Nat : A = W[1].ct /\ B = W[2].ct /\ C = W[3].ct
  BY <1>2
<1>8. /\ u \in [0 .. 3 -> Nat] /\ u[0] = 0 /\ u[1] = A /\ u[2] = A + d + B /\ u[3] = A + d + B + d + C
      /\ Off(V, u, 1) = 0 /\ Off(V, u, 2) = A + d /\ Off(V, u, 3) = A + d + B + d
  BY <1>5, <1>7 DEF CutsOK
<1>9. u[3] = V.ct /\ A > 0 /\ B > 0 /\ C > 0
  BY <1>3, <1>4, <1>7, <1>8
<1>10. \A i, j \in 0 .. 3 : i <= j => u[i] <= u[j]
  <2>1. u[0] <= u[1] /\ u[1] <= u[2] /\ u[2] <= u[3]
    BY <1>6, <1>8
  <2>2. \A i \in 0 .. 3 : i = 0 \/ i = 1 \/ i = 2 \/ i = 3
    OBVIOUS
  <2>3. QED
    BY <1>8, <2>1, <2>2
<1>11. \A j \in 1 .. 3 : j = 1 \/ j = 2 \/ j = 3
  OBVIOUS
<1>12. \A j \in 1 .. 3 : W[j].leaf = V.leaf /\ W[j].ct > 0 /\ Off(V, u, j) + W[j].ct = u[j]
  <2>1. Off(V, u, 1) + W[1].ct = u[1] /\ Off(V, u, 2) + W[2].ct = u[2] /\ Off(V, u, 3) + W[3].ct = u[3]
    BY <1>6, <1>7, <1>8
  <2>2. W[1].leaf = V.leaf /\ W[2].leaf = V.leaf /\ W[3].leaf = V.leaf
    BY <1>1, <1>3, <1>4
  <2>3. QED
    BY <1>11, <2>1, <2>2
<1>13. ASSUME NEW j \in 1 .. 3, NEW i \in 1 .. W[j].ct PROVE W[j].ent[i] = V.ent[Off(V, u, j) + i]
  <2>1. CASE j = 1
    BY <1>3, <1>4, <1>7, <1>8, <1>13, <2>1
  <2>2. CASE j = 2
    BY <1>3, <1>4, <1>7, <1>8, <1>13, <2>2
  <2>3. CASE j = 3
    BY <1>3, <1>4, <1>7, <1>8, <1>13, <2>3
  <2>4. QED
    BY <1>11, <2>1, <2>2, <2>3
<1>14. ASSUME ~V.leaf, NEW j \in 1 .. 3, NEW i \in 0 .. W[j].ct PROVE Child(W[j], i) = Child(V, Off(V, u, j) + i)
  <2>1. CASE i > 0
    <3>1. W[j].ct \in Nat /\ i \in 1 .. W[j].ct /\ Off(V, u, j) \in Nat
      BY <1>2, <1>6, <1>8, <1>11, <1>14, <2>1
    <3>2. W[j].ent[i] = V.ent[Off(V, u, j) + i] /\ Off(V, u, j) + i # 0
      BY <1>13, <3>1
    <3>3. QED
      BY <2>1, <3>2 DEF Child
  <2>2. CASE i = 0
    <3>1. d = 1 /\ V.lt = W[1].lt /\ V.ent[A + 1].ge = W[2].lt /\ V.ent[A + d + B + 1].ge = W[3].lt
      BY <1>3, <1>4, <1>6, <1>7, <1>14
    <3>2. CASE j = 1
      BY <1>8, <2>2, <3>1, <3>2 DEF Child
    <3>3. CASE j = 2
      BY <1>8, <2>2, <3>1, <3>3 DEF Child
    <3>4. CASE j = 3
      <4>1. Off(V, u, 3) + 0 = A + d + B + 1 /\ A + d + B + 1 # 0
        BY <1>8, <3>1
      <4>2. QED
        BY <2>2, <3>1, <3>4, <4>1 DEF Child
    <3>5. QED
      BY <1>11, <3>2, <3>3, <3>4
  <2>3. QED
    BY <1>2, <1>11, <1>14, <2>1, <2>2
<1>15. CutAt(V, W, 3, u)
  <2>1. 3 \in Nat /\ 3 > 0
    OBVIOUS
  <2>2. \A j \in 1 .. 3 : \A i \in 1 .. W[j].ct : W[j].ent[i].key = V.ent[Off(V, u, j) + i].key
    BY <1>13
  <2>3. ~V.leaf => \A j \in 1 .. 3 : \A i \in 0 .. W[j].ct : Child(W[j], i) = Child(V, Off(V, u, j) + i)
    BY <1>14
  <2>4. QED
    BY <1>8, <1>9, <1>10, <1>12, <2>1, <2>2, <2>3 DEF CutAt
<1>16. QED
  BY <1>4, <1>5, <1>15

\* Its entries are those of the three.
LEMMA GatherEntries ==
  ASSUME NEW gb, NEW n, NEW p, NEW W, Three(W), Gathers(gb, n, p, W), W[1].leaf, NEW i \in 1 .. Len(gb.ent)
  PROVE  \E j \in 1 .. 3 : \E l \in 1 .. W[j].ct : gb.ent[i] = W[j].ent[l]
<1>1. Extra(W[1].leaf) = 0
  BY DEF Extra
<1>0. W[1].ct \in Nat /\ W[2].ct \in Nat /\ W[3].ct \in Nat
  BY NodeParts DEF Three
<1>2. PICK A \in Nat, B \in Nat, C \in Nat : A = W[1].ct /\ B = W[2].ct /\ C = W[3].ct
  BY <1>0
<1>3. /\ Len(gb.ent) = A + 0 + B + 0 + C
      /\ \A l \in 1 .. A : gb.ent[l] = W[1].ent[l]
      /\ \A l \in 1 .. B : gb.ent[A + 0 + l] = W[2].ent[l]
      /\ \A l \in 1 .. C : gb.ent[A + 0 + B + 0 + l] = W[3].ent[l]
  BY <1>1, <1>2 DEF Gathers
<1>4. CASE i <= A
  <2>1. i \in 1 .. W[1].ct /\ gb.ent[i] = W[1].ent[i]
    BY <1>2, <1>3, <1>4
  <2>2. QED
    BY <2>1
<1>5. CASE i > A /\ i <= A + B
  <2>1. PICK l : l = i - A
    OBVIOUS
  <2>2. l \in 1 .. B /\ i = A + 0 + l
    BY <1>5, <2>1
  <2>3. gb.ent[i] = W[2].ent[l] /\ l \in 1 .. W[2].ct
    BY <1>2, <1>3, <2>2
  <2>4. QED
    BY <2>3
<1>6. CASE i > A + B
  <2>1. PICK l : l = i - A - B
    OBVIOUS
  <2>2. l \in 1 .. C /\ i = A + 0 + B + 0 + l
    BY <1>3, <1>6, <2>1
  <2>3. gb.ent[i] = W[3].ent[l] /\ l \in 1 .. W[3].ct
    BY <1>2, <1>3, <2>2
  <2>4. QED
    BY <2>3
<1>7. QED
  BY <1>4, <1>5, <1>6

\* The parent with one child for three.
JoinParent(n, p) ==
  [n EXCEPT !.ct = n.ct - 2, !.ent = [i \in 1 .. (n.ct - 2) |-> IF i <= p THEN n.ent[i] ELSE n.ent[i + 2]]]
ParentOf(o, n, p) ==
  /\ IsNode(o) /\ ~o.leaf /\ o.ct = n.ct - 2 /\ o.ct \in Nat /\ p \in 0 .. o.ct
  /\ \A i \in 1 .. p : o.ent[i].key = n.ent[i].key
  /\ \A i \in (p + 1) .. o.ct : o.ent[i].key = n.ent[i + 2].key
  /\ \A i \in 0 .. p : Child(o, i) = Child(n, i)
  /\ \A i \in (p + 1) .. o.ct : Child(o, i) = Child(n, i + 2)

\* The parent with one child in place of three.
LEMMA JoinParentIs ==
  ASSUME NEW n, IsNode(n), ~n.leaf, NEW p \in Nat, p + 2 <= n.ct, NEW o, o = JoinParent(n, p)
  PROVE  ParentOf(o, n, p)
<1> DEFINE e == [i \in 1 .. (n.ct - 2) |-> IF i <= p THEN n.ent[i] ELSE n.ent[i + 2]]
<1>1. n.ct \in Nat /\ n.ct - 2 \in Nat /\ n \in NodeType /\ \A i \in 1 .. n.ct : n.ent[i] \in Entry
  BY NodeParts DEF IsNode
<1>2. e \in [1 .. (n.ct - 2) -> Entry]
  <2>1. \A i \in 1 .. (n.ct - 2) : i \in 1 .. n.ct /\ i + 2 \in 1 .. n.ct
    BY <1>1
  <2>2. QED
    BY <1>1, <2>1
<1>3. e \in Seq(Entry) /\ Len(e) = n.ct - 2
  <2>1. PICK m \in Nat : m = n.ct - 2
    BY <1>1
  <2>2. PICK f : f = e
    OBVIOUS
  <2>3. f \in [1 .. m -> Entry]
    BY <1>2, <2>1, <2>2
  <2>4. f \in Seq(Entry) /\ Len(f) = m
    BY <2>3, SequenceOfFunction
  <2>5. QED
    BY <2>1, <2>2, <2>4
<1>4. /\ \A i \in 1 .. p : e[i] = n.ent[i]
      /\ \A i \in (p + 1) .. (n.ct - 2) : e[i] = n.ent[i + 2]
  BY <1>1
<1>5. o = [n EXCEPT !.ct = n.ct - 2, !.ent = e]
  BY DEF JoinParent
<1> HIDE DEF e
<1>6. o \in NodeType /\ o.leaf = n.leaf /\ o.ct = n.ct - 2 /\ o.ent = e /\ o.lt = n.lt
  BY <1>1, <1>3, <1>5 DEF NodeType
<1>7. \A i \in 0 .. p : Child(o, i) = Child(n, i)
  <2> SUFFICES ASSUME NEW i \in 0 .. p PROVE Child(o, i) = Child(n, i)
    OBVIOUS
  <2>1. i = 0 \/ i \in 1 .. p
    OBVIOUS
  <2>2. QED
    BY <1>4, <1>6, <2>1 DEF Child
<1>8. \A i \in (p + 1) .. (n.ct - 2) : Child(o, i) = Child(n, i + 2)
  <2> SUFFICES ASSUME NEW i \in (p + 1) .. (n.ct - 2) PROVE Child(o, i) = Child(n, i + 2)
    OBVIOUS
  <2>1. i # 0 /\ i + 2 # 0
    OBVIOUS
  <2>2. QED
    BY <1>4, <1>6, <2>1 DEF Child
<1>9. p \in 0 .. (n.ct - 2)
  BY <1>1
<1>10. IsNode(o) /\ ~o.leaf /\ o.ct \in Nat
  BY <1>1, <1>3, <1>6 DEF IsNode
<1>11. /\ \A i \in 1 .. p : o.ent[i].key = n.ent[i].key
       /\ \A i \in (p + 1) .. o.ct : o.ent[i].key = n.ent[i + 2].key
  BY <1>4, <1>6
<1>12. QED
  BY <1>6, <1>7, <1>8, <1>9, <1>10, <1>11 DEF ParentOf

\* Three neighbours of a tree.
GatherAt(M, t, b, p, x, W) ==
  /\ IsTree(M, t) /\ b \in t.T /\ ~M[b].leaf /\ p \in Nat /\ p + 2 <= M[b].ct
  /\ \A j \in 1 .. 3 : x[j] = Child(M[b], p + j - 1) /\ W[j] = M[x[j]] /\ W[j].ct > 0

\* The three neighbours are nodes of the tree, of the same level.
LEMMA GatherNodes ==
  ASSUME NEW M, NEW t, NEW b, NEW p, NEW x, NEW W, GatherAt(M, t, b, p, x, W)
  PROVE  /\ \A j \in 1 .. 3 : /\ x[j] \in t.T /\ x[j] # Root /\ x[j] # b /\ p + j - 1 \in 0 .. M[b].ct
                              /\ ChildIn(M[b], t, b, p + j - 1) /\ IsNode(W[j]) /\ InTree(W[j], t, x[j])
         /\ \A i, j \in 1 .. 3 : x[i] = x[j] => i = j
         /\ Three(W) /\ IsNode(M[b]) /\ Sorted(M[b])
<1>1. /\ IsTree(M, t) /\ b \in t.T /\ ~M[b].leaf /\ p \in Nat /\ p + 2 <= M[b].ct /\ t.T \subseteq DOMAIN M
      /\ \A j \in 1 .. 3 : x[j] = Child(M[b], p + j - 1) /\ W[j] = M[x[j]]
      /\ \A a \in t.T : IsNode(M[a]) /\ InTree(M[a], t, a) /\ t.L[a] \in Nat
  BY DEF GatherAt, IsTree
<1>2. M[b].ct \in Nat /\ Sorted(M[b]) /\ IsNode(M[b])
  BY <1>1, NodeParts, TreeSorted
<1>3. ASSUME NEW j \in 1 .. 3
      PROVE  /\ x[j] \in t.T /\ x[j] # Root /\ x[j] # b /\ p + j - 1 \in 0 .. M[b].ct
             /\ ChildIn(M[b], t, b, p + j - 1) /\ IsNode(W[j]) /\ InTree(W[j], t, x[j])
             /\ t.up[x[j]] = <<b, p + j - 1>> /\ t.L[b] = t.L[x[j]] + 1
  <2>1. PICK i : i = p + j - 1
    OBVIOUS
  <2>2. i \in 0 .. M[b].ct
    BY <1>1, <1>2, <2>1
  <2>3. ChildIn(M[b], t, b, i)
    BY <1>1, <2>2, TreeChild
  <2>4. x[j] = Child(M[b], i)
    BY <1>1, <2>1
  <2>5. x[j] \in t.T /\ x[j] # Root /\ t.up[x[j]] = <<b, i>> /\ t.L[b] = t.L[x[j]] + 1
    BY <2>3, <2>4 DEF ChildIn
  <2>6. x[j] # b
    BY <1>1, <2>5
  <2>7. IsNode(W[j]) /\ InTree(W[j], t, x[j])
    BY <1>1, <2>5
  <2>8. QED
    BY <2>1, <2>2, <2>3, <2>5, <2>6, <2>7
<1>4. \A i, j \in 1 .. 3 : x[i] = x[j] => i = j
  <2> SUFFICES ASSUME NEW i \in 1 .. 3, NEW j \in 1 .. 3, x[i] = x[j] PROVE i = j
    OBVIOUS
  <2>1. <<b, p + i - 1>> = <<b, p + j - 1>>
    BY <1>3
  <2>2. QED
    BY <1>1, <2>1
<1>5. \A j \in 1 .. 3 : W[j].leaf \in BOOLEAN /\ (W[j].leaf <=> t.L[x[j]] = 0)
  <2> SUFFICES ASSUME NEW j \in 1 .. 3 PROVE W[j].leaf \in BOOLEAN /\ (W[j].leaf <=> t.L[x[j]] = 0)
    OBVIOUS
  <2>1. IsNode(W[j]) /\ InTree(W[j], t, x[j])
    BY <1>3
  <2>2. W[j].leaf \in BOOLEAN /\ W[j].ct \in Nat
    BY <2>1, NodeParts
  <2>3. CASE W[j].leaf
    BY <2>1, <2>3 DEF InTree, LeafIn
  <2>4. CASE ~W[j].leaf
    <3>1. ChildIn(W[j], t, x[j], 0)
      BY <2>1, <2>2, <2>4 DEF InTree, InnerIn
    <3>2. t.L[x[j]] = t.L[Child(W[j], 0)] + 1 /\ Child(W[j], 0) \in t.T
      BY <3>1 DEF ChildIn
    <3>3. t.L[Child(W[j], 0)] \in Nat
      BY <1>1, <3>2
    <3>4. QED
      BY <2>2, <2>4, <3>2, <3>3
  <2>5. QED
    BY <2>2, <2>3, <2>4
<1>6. W[2].leaf = W[1].leaf /\ W[3].leaf = W[1].leaf
  <2>1. t.L[x[1]] = t.L[x[2]] /\ t.L[x[1]] = t.L[x[3]]
    <3>1. t.L[b] = t.L[x[1]] + 1 /\ t.L[b] = t.L[x[2]] + 1 /\ t.L[b] = t.L[x[3]] + 1
      BY <1>3
    <3>2. t.L[x[1]] \in Nat /\ t.L[x[2]] \in Nat /\ t.L[x[3]] \in Nat
      BY <1>1, <1>3
    <3>3. QED
      BY <3>1, <3>2
  <2>2. QED
    <3>1. (W[1].leaf <=> W[2].leaf) /\ (W[1].leaf <=> W[3].leaf) /\ W[1].leaf \in BOOLEAN /\ W[2].leaf \in BOOLEAN /\ W[3].leaf \in BOOLEAN
      <4>1. 1 \in 1 .. 3 /\ 2 \in 1 .. 3 /\ 3 \in 1 .. 3
        OBVIOUS
      <4>2. /\ W[1].leaf \in BOOLEAN /\ (W[1].leaf <=> t.L[x[1]] = 0)
            /\ W[2].leaf \in BOOLEAN /\ (W[2].leaf <=> t.L[x[2]] = 0)
            /\ W[3].leaf \in BOOLEAN /\ (W[3].leaf <=> t.L[x[3]] = 0)
        BY <1>5, <4>1
      <4>3. (t.L[x[1]] = 0 <=> t.L[x[2]] = 0) /\ (t.L[x[1]] = 0 <=> t.L[x[3]] = 0)
        BY <2>1
      <4>4. QED
        BY <4>2, <4>3
    <3>2. PICK a \in BOOLEAN, b2 \in BOOLEAN, c \in BOOLEAN : a = W[1].leaf /\ b2 = W[2].leaf /\ c = W[3].leaf
      BY <3>1
    <3>3. (a <=> b2) /\ (a <=> c)
      BY <3>1, <3>2
    <3>4. a = b2 /\ a = c
      BY <3>3
    <3>5. QED
      BY <3>2, <3>4
<1>7. Three(W)
  BY <1>3, <1>6 DEF Three
<1>8. QED
  BY <1>2, <1>3, <1>4, <1>7

\* They become one node.
JoinedNodes(M, b, x, o, V) ==
  [a \in DOMAIN M |-> IF a = b THEN o ELSE IF a = x[1] THEN V ELSE M[a]]
GatherFacts(M, t, b, p, x, W, gb, o, V, u) ==
  /\ GatherAt(M, t, b, p, x, W) /\ Gathers(gb, M[b], p, W)
  /\ o = JoinParent(M[b], p) /\ V = AsNode(gb) /\ u = Cuts(W, Extra(W[1].leaf))
GatherParts(M, b, p, x, W, o, V, u) ==
  /\ CutUnder(o, M[b], p, 3, V, u, x) /\ CutAt(V, W, 3, u) /\ IsNode(V) /\ ParentOf(o, M[b], p) /\ Between(M[b], p, 3, V, u)

\* They can be joined to one node.
LEMMA GatherPartsAre ==
  ASSUME NEW M, NEW t, NEW b, NEW p, NEW x, NEW W, NEW gb, NEW o, NEW V, NEW u,
         GatherFacts(M, t, b, p, x, W, gb, o, V, u)
  PROVE  GatherParts(M, b, p, x, W, o, V, u)
<1>1. /\ GatherAt(M, t, b, p, x, W) /\ Gathers(gb, M[b], p, W)
      /\ o = JoinParent(M[b], p) /\ V = AsNode(gb) /\ u = Cuts(W, Extra(W[1].leaf))
  BY DEF GatherFacts
<1>2. /\ \A j \in 1 .. 3 : /\ x[j] \in t.T /\ x[j] # Root /\ x[j] # b /\ p + j - 1 \in 0 .. M[b].ct
                           /\ ChildIn(M[b], t, b, p + j - 1) /\ IsNode(W[j]) /\ InTree(W[j], t, x[j])
      /\ Three(W) /\ IsNode(M[b]) /\ Sorted(M[b])
  BY <1>1, GatherNodes
<1>3. PICK n : n = M[b]
  OBVIOUS
<1>4. /\ ~n.leaf /\ p \in Nat /\ p + 2 <= n.ct /\ n.ct \in Nat /\ IsNode(n)
      /\ \A j \in 1 .. 3 : x[j] = Child(n, p + j - 1) /\ W[j].ct > 0
  BY <1>1, <1>2, <1>3, NodeParts DEF GatherAt
<1>5. PICK d : d = Extra(W[1].leaf)
  OBVIOUS
<1>6. CutAt(V, W, 3, u) /\ IsNode(V) /\ CutsOK(V, W, u, d)
  BY <1>1, <1>2, <1>4, <1>5, GatherCuts
<1>7. ParentOf(o, n, p)
  BY <1>1, <1>3, <1>4, JoinParentIs
<1>8. /\ u[1] = W[1].ct /\ u[2] = u[1] + d + W[2].ct /\ u[1] \in Nat /\ u[2] \in Nat
      /\ Off(V, u, 1) = 0 /\ Off(V, u, 2) = u[1] + d /\ Off(V, u, 3) = u[2] + d
  BY <1>6 DEF CutsOK
<1>9. /\ V.leaf = W[1].leaf /\ V.ent = gb.ent
      /\ ~W[1].leaf => /\ d = 1 /\ gb.ent[W[1].ct + 1].key = n.ent[p + 1].key
                       /\ gb.ent[W[1].ct + d + W[2].ct + 1].key = n.ent[p + 2].key
  BY <1>1, <1>3, <1>5 DEF Gathers, AsNode, Extra
<1>10. ~V.leaf => \A j \in 2 .. 3 : n.ent[p + j - 1].key = V.ent[u[j - 1] + 1].key
  <2> SUFFICES ASSUME ~V.leaf, NEW j \in 2 .. 3 PROVE n.ent[p + j - 1].key = V.ent[u[j - 1] + 1].key
    OBVIOUS
  <2>1. n.ent[p + 1].key = V.ent[u[1] + 1].key /\ n.ent[p + 2].key = V.ent[u[2] + 1].key
    BY <1>8, <1>9
  <2>2. p + 2 - 1 = p + 1 /\ p + 3 - 1 = p + 2
    BY <1>4
  <2>3. j = 2 \/ j = 3
    OBVIOUS
  <2>4. QED
    BY <2>1, <2>2, <2>3
<1>11. CutUnder(o, n, p, 3, V, u, x)
  <2>1. /\ ~o.leaf /\ o.ct = n.ct - 2 /\ p \in 0 .. o.ct
        /\ \A i \in 1 .. p : o.ent[i].key = n.ent[i].key
        /\ \A i \in (p + 1) .. o.ct : o.ent[i].key = n.ent[i + 2].key
        /\ \A i \in 0 .. p : Child(o, i) = Child(n, i)
        /\ \A i \in (p + 1) .. o.ct : Child(o, i) = Child(n, i + 2)
    BY <1>7 DEF ParentOf
  <2>2. \A i \in (p + 1) .. o.ct : i + 3 - 1 = i + 2
    BY <1>4, <2>1
  <2>3. n.ct = o.ct + 3 - 1
    BY <1>4, <2>1
  <2>4. p + 1 - 1 = p /\ p \in 0 .. p
    BY <1>4
  <2>5. Child(o, p) = x[1]
    BY <1>4, <2>1, <2>4
  <2>6. \A i \in 0 .. (p - 1) : Child(n, i) = Child(o, i)
    BY <1>4, <2>1
  <2>7. \A i \in (p + 1) .. o.ct : n.ent[i + 3 - 1].key = o.ent[i].key /\ Child(n, i + 3 - 1) = Child(o, i)
    BY <2>1, <2>2
  <2>8. \A i \in 1 .. p : n.ent[i].key = o.ent[i].key
    BY <2>1
  <2>9. \A j \in 1 .. 3 : Child(n, p + j - 1) = x[j]
    BY <1>4
  <2>10. QED
    BY <1>4, <1>10, <2>1, <2>3, <2>5, <2>6, <2>7, <2>8, <2>9 DEF CutUnder
<1>12. Between(n, p, 3, V, u)
  <2> SUFFICES ASSUME V.leaf, NEW j \in 2 .. 3
               PROVE  V.ent[u[j - 1]].key < n.ent[p + j - 1].key /\ n.ent[p + j - 1].key <= V.ent[u[j - 1] + 1].key
    BY DEF Between
  <2>1. PICK l \in 1 .. 2 : l = j - 1
    OBVIOUS
  <2>2. l + 1 = j /\ l \in 1 .. 3 /\ j \in 1 .. 3 /\ j = l + 1
    BY <2>1
  <2>3. /\ Off(V, u, l) + W[l].ct = u[l] /\ W[l].ct \in Nat /\ W[l].ct > 0 /\ W[l].leaf
        /\ Off(V, u, j) = u[l] /\ W[j].ct \in Nat /\ W[j].ct > 0 /\ W[j].leaf
        /\ \A i \in 1 .. W[l].ct : W[l].ent[i].key = V.ent[Off(V, u, l) + i].key
        /\ \A i \in 1 .. W[j].ct : W[j].ent[i].key = V.ent[Off(V, u, j) + i].key
    <3>1. \A i \in 1 .. 3 : /\ Off(V, u, i) + W[i].ct = u[i] /\ W[i].ct > 0 /\ W[i].leaf = V.leaf
                            /\ \A q \in 1 .. W[i].ct : W[i].ent[q].key = V.ent[Off(V, u, i) + q].key
      BY <1>6 DEF CutAt
    <3>2. W[l].ct \in Nat /\ W[j].ct \in Nat
      BY <1>2, <2>2, NodeParts
    <3>3. Off(V, u, j) = u[l]
      <4>1. u[l] \in Nat /\ u[j - 1] = u[l]
        BY <1>8, <2>1
      <4>2. QED
        BY <4>1 DEF Off
    <3>4. QED
      BY <2>2, <3>1, <3>2, <3>3
  <2>4. W[l].ent[W[l].ct].key = V.ent[u[l]].key
    <3>1. W[l].ct \in 1 .. W[l].ct
      BY <2>3
    <3>2. QED
      BY <2>3, <3>1
  <2>5. W[j].ent[1].key = V.ent[u[l] + 1].key
    <3>1. 1 \in 1 .. W[j].ct
      BY <2>3
    <3>2. QED
      BY <2>3, <3>1
  <2>6. W[l].ent[W[l].ct].key \in t.K[x[l]] /\ W[j].ent[1].key \in t.K[x[j]]
    <3>1. InTree(W[l], t, x[l]) /\ InTree(W[j], t, x[j])
      BY <1>2, <2>2
    <3>2. t.K[x[l]] = KeysOf(W[l]) /\ t.K[x[j]] = KeysOf(W[j])
      BY <2>3, <3>1 DEF InTree, LeafIn
    <3>3. W[l].ct \in 1 .. W[l].ct /\ 1 \in 1 .. W[j].ct
      BY <2>3
    <3>4. QED
      BY <3>2, <3>3 DEF KeysOf
  <2>7. PICK i : i = p + l
    OBVIOUS
  <2>8. p + l - 1 = i - 1 /\ p + j - 1 = i /\ i \in 1 .. n.ct /\ i - 1 + 1 = i /\ i - 1 < n.ct /\ i > 0
    BY <1>4, <2>2, <2>7
  <2>9. (\A y \in t.K[x[l]] : Routes(n, i - 1, y)) /\ (\A y \in t.K[x[j]] : Routes(n, i, y))
    <3>1. ChildIn(n, t, b, p + l - 1) /\ ChildIn(n, t, b, p + j - 1) /\ x[l] = Child(n, p + l - 1) /\ x[j] = Child(n, p + j - 1)
      BY <1>2, <1>3, <1>4, <2>2
    <3>2. QED
      BY <2>8, <3>1 DEF ChildIn
  <2>10. W[l].ent[W[l].ct].key < n.ent[i].key /\ n.ent[i].key <= W[j].ent[1].key
    BY <2>6, <2>8, <2>9 DEF Routes
  <2>11. QED
    BY <2>1, <2>4, <2>5, <2>8, <2>10
<1>13. QED
  BY <1>3, <1>6, <1>7, <1>11, <1>12 DEF GatherParts

TreeGathered(M, N, t, s, b, x, o, V) ==
  /\ IsTree(N, s) /\ DOMAIN N = DOMAIN M /\ N[b] = o /\ N[x[1]] = V
  /\ s.T = t.T \ {x[2], x[3]} /\ x[1] \in s.T /\ b \in s.T /\ b # x[1]
  /\ \A a \in s.T \ {x[1]} : s.K[a] = t.K[a]
  /\ \A a \in s.T \ {b, x[1]} : a \in DOMAIN M /\ N[a] = M[a]

\* The tree with the joined node has the same keys.
LEMMA GatherTree ==
  ASSUME NEW M, NEW t, NEW b, NEW p, NEW x, NEW W, NEW gb, NEW o, NEW V, NEW u,
         GatherFacts(M, t, b, p, x, W, gb, o, V, u), NEW N, N = JoinedNodes(M, b, x, o, V)
  PROVE  \E s : TreeGathered(M, N, t, s, b, x, o, V)
<1>1. CutUnder(o, M[b], p, 3, V, u, x) /\ CutAt(V, W, 3, u) /\ IsNode(V) /\ ParentOf(o, M[b], p)
  BY GatherPartsAre DEF GatherParts
<1>2. GatherAt(M, t, b, p, x, W)
  BY DEF GatherFacts
<1>3. /\ \A j \in 1 .. 3 : x[j] \in t.T /\ x[j] # Root /\ x[j] # b
      /\ \A i, j \in 1 .. 3 : x[i] = x[j] => i = j
  BY <1>2, GatherNodes
<1>4. /\ IsTree(M, t) /\ b \in t.T /\ t.T \subseteq DOMAIN M /\ \A a \in t.T : IsNode(M[a])
      /\ \A j \in 1 .. 3 : W[j] = M[x[j]]
  BY <1>2 DEF GatherAt, IsTree
<1>5. x[1] \in t.T /\ x[1] # b /\ x[2] # b /\ x[3] # b /\ x[1] # x[2] /\ x[1] # x[3]
  BY <1>3
<1>6. /\ DOMAIN N = DOMAIN M /\ N[b] = o /\ N[x[1]] = V
      /\ \A a \in DOMAIN M : a # b /\ a # x[1] => N[a] = M[a]
  BY <1>4, <1>5 DEF JoinedNodes
<1>7. { x[j] : j \in 2 .. 3 } = {x[2], x[3]}
  OBVIOUS
<1>8. CanJoin(M, N, t, b, p, 3, u, x, W)
  <2>1. t.T \ { x[j] : j \in 2 .. 3 } \subseteq DOMAIN N
    BY <1>4, <1>6
  <2>2. \A a \in t.T \ ({b} \cup { x[j] : j \in 1 .. 3 }) : IsNode(N[a]) /\ Same(N[a], M[a])
    <3>1. ASSUME NEW a \in t.T \ ({b} \cup { x[j] : j \in 1 .. 3 }) PROVE IsNode(N[a]) /\ Same(N[a], M[a])
      <4>1. a # b /\ a # x[1]
        OBVIOUS
      <4>2. N[a] = M[a]
        BY <1>4, <1>6, <4>1
      <4>3. QED
        BY <1>4, <4>2, SameRefl
    <3>2. QED
      BY <3>1
  <2>3. IsNode(N[b]) /\ IsNode(N[x[1]])
    BY <1>1, <1>6 DEF ParentOf
  <2>4. CutUnder(N[b], M[b], p, 3, N[x[1]], u, x) /\ CutAt(N[x[1]], W, 3, u)
    BY <1>1, <1>6
  <2>5. QED
    BY <1>3, <1>4, <2>1, <2>2, <2>3, <2>4 DEF CanJoin
<1>9. PICK s : IsJoined(N, t, s, 3, x)
  BY <1>8, CutUp
<1>10. IsTree(N, s) /\ s.T = t.T \ {x[2], x[3]} /\ \A a \in s.T \ {x[1]} : s.K[a] = t.K[a]
  BY <1>7, <1>9 DEF IsJoined
<1>11. TreeGathered(M, N, t, s, b, x, o, V)
  BY <1>4, <1>5, <1>6, <1>10 DEF TreeGathered
<1>12. QED
  BY <1>11

\* The way to the parent stays, and goes on to the new node.
WayGathered(N, t, s, P, b, x, o, p, key) ==
  /\ OnRoute(N, s, P, b, key) /\ Routes(o, p, key)
  /\ \A a \in P : a \in s.T /\ a # x[1] /\ s.K[a] = t.K[a]

\* And the way to a key goes on to it.
LEMMA GatherWay ==
  ASSUME NEW M, NEW t, NEW b, NEW p, NEW x, NEW W, NEW gb, NEW o, NEW V, NEW u,
         GatherFacts(M, t, b, p, x, W, gb, o, V, u), NEW N, NEW s, TreeGathered(M, N, t, s, b, x, o, V),
         NEW P, NEW key \in Int, OnRoute(M, t, P, b, key), NEW i \in p .. (p + 2), Routes(M[b], i, key)
  PROVE  WayGathered(N, t, s, P, b, x, o, p, key)
<1>1. ParentOf(o, M[b], p)
  BY GatherPartsAre DEF GatherParts
<1>2. GatherAt(M, t, b, p, x, W)
  BY DEF GatherFacts
<1>3. /\ \A j \in 1 .. 3 : x[j] \in t.T /\ x[j] # Root /\ x[j] # b /\ p + j - 1 \in 0 .. M[b].ct
      /\ IsNode(M[b]) /\ Sorted(M[b])
  BY <1>2, GatherNodes
<1>4. /\ IsTree(M, t) /\ b \in t.T /\ t.T \subseteq DOMAIN M /\ \A a \in t.T : IsNode(M[a])
      /\ ~M[b].leaf /\ p \in Nat /\ p + 2 <= M[b].ct
      /\ \A j \in 1 .. 3 : x[j] = Child(M[b], p + j - 1)
  BY <1>2 DEF GatherAt, IsTree
<1>5. \A j \in 1 .. 3 : x[j] \notin P
  <2> SUFFICES ASSUME NEW j \in 1 .. 3, x[j] \in P PROVE FALSE
    OBVIOUS
  <2>1. PICK l : l = p + j - 1
    OBVIOUS
  <2>2. l \in 0 .. M[b].ct /\ Child(M[b], l) \in P
    BY <1>3, <1>4, <2>1
  <2>3. b # b
    BY <1>4, <2>2, RouteChild
  <2>4. QED
    BY <2>3
<1>6. /\ s.T = t.T \ {x[2], x[3]}
      /\ \A a \in s.T \ {x[1]} : s.K[a] = t.K[a]
      /\ \A a \in s.T \ {b, x[1]} : a \in DOMAIN M /\ N[a] = M[a]
  BY DEF TreeGathered
<1>7. \A a \in P : a \in s.T /\ a # x[1] /\ s.K[a] = t.K[a]
  <2>1. P \subseteq t.T
    BY DEF OnRoute
  <2>2. x[1] \notin P /\ x[2] \notin P /\ x[3] \notin P
    BY <1>5
  <2>3. QED
    BY <1>6, <2>1, <2>2
<1>8. \A a \in P \ {b} : IsNode(M[a]) /\ IsNode(N[a]) /\ Same(N[a], M[a])
  <2>1. \A a \in P \ {b} : a \in t.T /\ N[a] = M[a]
    BY <1>6, <1>7
  <2>2. QED
    BY <1>4, <2>1, SameRefl
<1>9. OnRoute(N, s, P, b, key)
  <2>1. P \subseteq s.T /\ \A a \in P : s.K[a] = t.K[a]
    BY <1>7
  <2>2. QED
    BY <1>8, <2>1, RouteKept
<1>10. Routes(o, p, key)
  <2>0. PICK n : n = M[b]
    OBVIOUS
  <2>1. /\ o.ct = n.ct - 2 /\ p \in 0 .. o.ct
        /\ \A l \in 1 .. p : o.ent[l].key = n.ent[l].key
        /\ \A l \in (p + 1) .. o.ct : o.ent[l].key = n.ent[l + 2].key
    BY <1>1, <2>0 DEF ParentOf
  <2>2. n.ct \in Nat /\ \A l \in 1 .. n.ct : n.ent[l].key \in Int
    BY <1>3, <2>0, NodeParts
  <2>3. i \in 0 .. n.ct /\ i \in Int
    BY <1>4, <2>0, <2>2
  <2>4. (i > 0 => n.ent[i].key <= key) /\ (i < n.ct => key < n.ent[i + 1].key)
    BY <2>0 DEF Routes
  <2>5. ASSUME p > 0 PROVE o.ent[p].key <= key
    <3>1. p \in 1 .. p /\ p \in 1 .. n.ct /\ i \in 1 .. n.ct /\ (p < i \/ p = i)
      <4>1. p \in Nat /\ p + 2 <= n.ct /\ n.ct \in Nat /\ i \in Int /\ p <= i /\ i <= n.ct
        BY <1>4, <2>0, <2>2, <2>3
      <4>2. QED
        BY <2>5, <4>1
    <3>2. n.ent[p].key <= n.ent[i].key
      BY <1>3, <2>0, <2>2, <3>1 DEF Sorted
    <3>3. n.ent[i].key <= key
      BY <2>4, <3>1
    <3>4. QED
      BY <2>1, <2>2, <3>1, <3>2, <3>3
  <2>6. ASSUME p < o.ct PROVE key < o.ent[p + 1].key
    <3>1. p + 1 \in (p + 1) .. o.ct /\ p + 1 + 2 = p + 3 /\ p + 3 \in 1 .. n.ct
      BY <1>4, <2>1, <2>2, <2>6
    <3>2. i + 1 \in 1 .. n.ct /\ i < n.ct /\ (i + 1 < p + 3 \/ i + 1 = p + 3)
      BY <1>4, <2>2, <2>3, <3>1
    <3>3. n.ent[i + 1].key <= n.ent[p + 3].key
      BY <1>3, <2>0, <2>2, <3>1, <3>2 DEF Sorted
    <3>4. key < n.ent[i + 1].key
      BY <2>4, <3>2
    <3>5. o.ent[p + 1].key = n.ent[p + 3].key
      BY <2>1, <3>1
    <3>6. QED
      BY <2>2, <3>1, <3>2, <3>3, <3>4, <3>5
  <2>7. QED
    BY <2>5, <2>6 DEF Routes
<1>11. QED
  BY <1>7, <1>9, <1>10 DEF WayGathered

(***************************************************************************)
(* The descent.                                                            *)
(***************************************************************************)
LEMMA HalfIs ==
  ASSUME OddRoom
  PROVE  MaxCt \in Nat /\ Half \in Nat /\ MaxCt = 2 * Half + 1 /\ Half >= 3
<1>1. MaxCt \in Nat /\ MaxCt % 2 = 1 /\ MaxCt >= 7
  BY ParameterAssumption DEF OddRoom
<1>2. QED
  BY <1>1 DEF Half

\* Where the search of an inner node leads.
SearchOf(c, n) ==
  CASE c.tree = "first" -> [cc |-> -1, at |-> 0]
    [] c.tree = "fgeq" -> search_LLEQ(n, c.key)
    [] OTHER -> search(n, c.key)
Leads(c, n, r, i) ==
  /\ ChildFor(n, r) = Child(n, i) /\ r.cc \in {-1, 0, 1} /\ r.at \in 0 .. (n.ct - 1)
  /\ i \in 0 .. n.ct /\ i = (IF r.cc < 0 THEN r.at ELSE r.at + 1)
  /\ KeyTree(c) => Routes(n, i, c.key)

\* The search of any operation leads to a child.
LEMMA SearchLeads ==
  ASSUME NEW c, NEW n, IsNode(n), Sorted(n), n.ct > 0, c.key \in Int, NEW r, r = SearchOf(c, n)
  PROVE  \E i : Leads(c, n, r, i)
<1>1. n.ct \in Nat
  BY NodeParts
<1>2. PICK i : i = IF r.cc < 0 THEN r.at ELSE r.at + 1
  OBVIOUS
<1>3. r.cc \in {-1, 0, 1} /\ r.at \in 0 .. (n.ct - 1) /\ (KeyTree(c) => Routes(n, i, c.key))
  <2>1. CASE c.tree = "first"
    <3>1. r = [cc |-> -1, at |-> 0] /\ ~KeyTree(c)
      BY <2>1 DEF SearchOf, KeyTree
    <3>2. QED
      BY <1>1, <3>1
  <2>2. CASE c.tree = "fgeq"
    <3>1. r = search_LLEQ(n, c.key) /\ ~KeyTree(c)
      BY <2>2 DEF SearchOf, KeyTree
    <3>2. QED
      BY <3>1, SearchLLEQ
  <2>3. CASE c.tree \notin {"first", "fgeq"}
    <3>1. r = search(n, c.key)
      BY <2>3 DEF SearchOf
    <3>2. r.at \in 0 .. (n.ct - 1) /\ r.cc \in {-1, 0, 1} /\ Routes(n, IF r.cc < 0 THEN r.at ELSE r.at + 1, c.key)
      BY <3>1, SearchRoutes
    <3>3. QED
      BY <1>2, <3>2
  <2>4. QED
    BY <2>1, <2>2, <2>3
<1>4. i \in 0 .. n.ct
  BY <1>1, <1>2, <1>3
<1>5. ChildFor(n, r) = Child(n, i)
  BY <1>2 DEF ChildFor
<1>6. QED
  BY <1>2, <1>3, <1>4, <1>5 DEF Leads

\* An inner node the call has come to.
InnerAt(g, c, hd, top, t, P, n) ==
  /\ Running(c, hd, top) /\ Settled(g, top, t) /\ t.K[Root] = KeysHeld(c, hd) /\ PathOK(g.nodes, t, P, c)
  /\ c.pc = "descend" /\ NodeRoom(c, n) /\ Near(g, c.buf, 1)
  /\ c.buf \in t.T /\ t.T \subseteq DOMAIN g.nodes /\ IsTree(g.nodes, t) /\ c.key \in Int
  /\ n = g.nodes[c.buf] /\ ~n.leaf /\ IsNode(n) /\ Sorted(n) /\ n.ct \in Nat /\ n.ct >= 2
  /\ (c.buf # Root => n.ct \in Half .. MaxCt) /\ (c.buf = Root => n.ct <= 3 * MaxCt)
  /\ \A i \in 0 .. n.ct : Child(n, i) \in t.T \ {Root} /\ g.nodes[Child(n, i)].ct \in Half .. MaxCt

\* What is known where the descent is at an inner node.
LEMMA InnerAtIs ==
  ASSUME OddRoom, NEW g, NEW c, NEW hd, NEW top, NEW t, NEW P, DescendOK(g, c, hd, top, t, P), ~g.nodes[c.buf].leaf,
         NEW n, n = g.nodes[c.buf]
  PROVE  InnerAt(g, c, hd, top, t, P, n)
<1>1. /\ Running(c, hd, top) /\ Settled(g, top, t) /\ t.K[Root] = KeysHeld(c, hd) /\ PathOK(g.nodes, t, P, c)
      /\ c.pc = "descend" /\ NodeRoom(c, n) /\ Near(g, c.buf, 1)
  BY DEF DescendOK
<1>2. /\ c.buf \in t.T /\ t.T \subseteq DOMAIN g.nodes /\ IsTree(g.nodes, t) /\ c.key \in Int /\ Sizes(g.nodes, t.T)
      /\ IsNode(n)
  BY <1>1 DEF Settled, PathOK, IsTree, Running, OpOK
<1>3. n.ct \in Nat /\ Sorted(n)
  BY <1>2, NodeParts, TreeSorted
<1>4. (c.buf # Root => n.ct \in Half .. MaxCt) /\ (c.buf = Root => n.ct <= 3 * MaxCt /\ n.ct >= 2)
  BY <1>2 DEF Sizes
<1>5. n.ct >= 2
  BY <1>3, <1>4, HalfIs
<1>6. \A i \in 0 .. n.ct : Child(n, i) \in t.T \ {Root}
  BY <1>2, TreeChild DEF ChildIn
<1>7. \A i \in 0 .. n.ct : g.nodes[Child(n, i)].ct \in Half .. MaxCt
  BY <1>2, <1>6 DEF Sizes
<1>8. QED
  BY <1>1, <1>2, <1>3, <1>4, <1>5, <1>6, <1>7 DEF InnerAt

\* How many keys three neighbours have, one of them full or as empty as may be.
Full(c, W) ==
  \/ IsWrite(c) /\ \E j \in 1 .. 3 : W[j].ct = MaxCt
  \/ c.tree = "delete" /\ \E j \in 1 .. 3 : W[j].ct = Half
Collapsing(c, oct, G) == c.tree = "delete" /\ c.buf = Root /\ oct = 0 /\ G < (9 * MaxCt) \div 4
GatherSizes(c, n, W, G) ==
  /\ NodeRoom(c, n) /\ n.ct \in Nat /\ n.ct >= 2
  /\ (c.buf # Root => n.ct \in Half .. MaxCt) /\ (c.buf = Root => n.ct <= 3 * MaxCt)
  /\ \A j \in 1 .. 3 : W[j].ct \in Half .. MaxCt
  /\ Full(c, W)
  /\ G = W[1].ct + Extra(W[1].leaf) + W[2].ct + Extra(W[1].leaf) + W[3].ct

\* How many keys are gathered, by the sizes of the three nodes.
LEMMA AmountIs ==
  ASSUME OddRoom, NEW c, NEW n, NEW W, NEW G, GatherSizes(c, n, W, G), NEW oct, oct = n.ct - 2, ~Collapsing(c, oct, G),
         NEW d, d.is = 3, d.iu = 3, d.buf = c.buf, d.tree = c.tree
  PROVE  Amount(d, oct, G, W[1].leaf)
<1>1. MaxCt \in Nat /\ Half \in Nat /\ MaxCt = 2 * Half + 1 /\ Half >= 3
  BY HalfIs
<1>2. W[1].ct \in Half .. MaxCt /\ W[2].ct \in Half .. MaxCt /\ W[3].ct \in Half .. MaxCt
  BY DEF GatherSizes
<1>3. PICK A \in Half .. MaxCt, B \in Half .. MaxCt, C \in Half .. MaxCt : A = W[1].ct /\ B = W[2].ct /\ C = W[3].ct
  BY <1>2
<1>4. PICK e \in {0, 2} : e = IF W[1].leaf THEN 0 ELSE 2
  OBVIOUS
<1>5. G = A + B + C + e
  BY <1>1, <1>3, <1>4 DEF GatherSizes, Extra
<1>6. /\ IsWrite(d) <=> IsWrite(c)
      /\ n.ct \in Nat /\ n.ct >= 2 /\ oct + 2 = n.ct /\ oct \in Nat
      /\ (c.buf # Root => n.ct <= MaxCt) /\ (c.buf = Root => n.ct <= 3 * MaxCt)
      /\ c.tree = "delete" /\ c.buf # Root => n.ct >= Half + 1
      /\ IsWrite(c) => n.ct < (IF c.buf = Root THEN 3 * MaxCt ELSE MaxCt)
  BY DEF GatherSizes, NodeRoom, IsWrite
<1>7. CASE IsWrite(c) /\ \E j \in 1 .. 3 : W[j].ct = MaxCt
  <2>1. A = MaxCt \/ B = MaxCt \/ C = MaxCt
    BY <1>3, <1>7
  <2>2. G \in (4 * Half + 1 + e) .. (3 * MaxCt + e)
    BY <1>1, <1>5, <2>1
  <2>3. oct + 2 < (IF d.buf = Root THEN 3 * MaxCt ELSE MaxCt) /\ (d.buf # Root => oct + 2 >= Half)
    <3>1. c.buf # Root => n.ct >= Half
      BY <1>1 DEF GatherSizes
    <3> QED BY <3>1, <1>6, <1>7
  <2>4. QED
    BY <1>4, <1>6, <1>7, <2>2, <2>3 DEF Amount
<1>8. CASE c.tree = "delete" /\ \E j \in 1 .. 3 : W[j].ct = Half
  <2>1. A = Half \/ B = Half \/ C = Half
    BY <1>3, <1>8
  <2>2. G \in (3 * Half + e) .. (5 * Half + 2 + e)
    BY <1>1, <1>5, <2>1
  <2>3. d.buf = Root /\ oct = 0 => G >= (9 * MaxCt) \div 4
    <3>1. G \in Int /\ (9 * MaxCt) \div 4 \in Int
      BY <1>1, <2>2
    <3>2. QED
      BY <1>8, <3>1 DEF Collapsing
  <2>4. /\ d.buf # Root => oct + 2 >= Half + 1
        /\ d.buf = Root => oct + 2 <= 3 * MaxCt
        /\ d.buf # Root => oct + 2 <= MaxCt
    BY <1>6, <1>8
  <2>5. QED
    BY <1>4, <1>8, <2>2, <2>3, <2>4 DEF Amount
<1>9. QED
  BY <1>7, <1>8 DEF GatherSizes, Full

\* The node and its three children are read.
ReadGather(g, f, top, t, b, n, x) ==
  /\ Store(f, top) /\ Alike(g, f) /\ Fresh(f) = {} /\ f.nodes[b] = n
  /\ \A j \in 1 .. 3 : Near(f, x[j], 3)
  /\ Near(f, b, 5) /\ IsTree(f.nodes, t)
  /\ \A a \in t.T : IsNode(g.nodes[a]) /\ IsNode(f.nodes[a]) /\ Same(f.nodes[a], g.nodes[a])

\* What the reads before a gather leave.
LEMMA ReadGatherIs ==
  ASSUME NEW g, NEW c, NEW hd, NEW top, NEW t, NEW P, NEW n, InnerAt(g, c, hd, top, t, P, n),
         NEW child \in t.T, NEW x, \A j \in 1 .. 3 : x[j] \in t.T,
         NEW e, e = readDisk(g, child), NEW f, f = readAll(e, x)
  PROVE  ReadGather(g, f, top, t, c.buf, n, x) /\ Read(g, e, top, child)
PROOF
<1>1. /\ Settled(g, top, t) /\ c.buf \in t.T /\ t.T \subseteq DOMAIN g.nodes /\ IsTree(g.nodes, t)
      /\ n = g.nodes[c.buf] /\ Near(g, c.buf, 1)
  BY DEF InnerAt
<1>2. Store(g, top) /\ Fresh(g) = {}
  BY <1>1 DEF Settled
<1>3. Read(g, e, top, child)
  BY <1>1, <1>2, ReadIs
<1>4. Store(e, top) /\ Alike(g, e) /\ NearAlike(g, e) /\ Fresh(e) = {} /\ \A a, p : p \in 1 .. 6 /\ Near(g, a, p) => Near(e, a, p + 1)
  BY <1>2, <1>3 DEF Read
<1>5. DOMAIN e.nodes = DOMAIN g.nodes
  BY <1>4 DEF Alike
<1>6. ReadThree(e, f, top, x)
  <2>1. \A j \in 1 .. 3 : x[j] \in DOMAIN e.nodes
    BY <1>1, <1>5
  <2> QED BY <2>1, <1>4, ReadAllIs
<1>7. /\ Store(f, top) /\ Alike(e, f) /\ Fresh(f) = {}
      /\ \A a \in DOMAIN e.nodes : Near(e, a, 4) => f.nodes[a] = e.nodes[a]
      /\ \A j \in 1 .. 3 : Near(f, x[j], 3)
      /\ \A a, p : p \in 1 .. 4 /\ Near(e, a, p) => Near(f, a, p + 3)
  BY <1>6 DEF ReadThree
<1>8. Alike(g, f)
  BY <1>4, <1>7, AlikeTrans
<1>9. f.nodes[c.buf] = n
  <2>1. Near(g, c.buf, 6) /\ Near(e, c.buf, 2)
    <3>1. 1 \in 1 .. 6 /\ 1 + 1 = 2 /\ 1 \in Int /\ 6 \in Int /\ 1 <= 6
      OBVIOUS
    <3> QED BY <3>1, <1>1, <1>4, NearMore
  <2>2. Near(e, c.buf, 4)
    <3>1. 2 \in Int /\ 4 \in Int /\ 2 <= 4
      OBVIOUS
    <3> QED BY <3>1, <2>1, NearMore
  <2>3. c.buf \in DOMAIN g.nodes /\ e.nodes[c.buf] = g.nodes[c.buf]
    BY <2>1, <1>1, <1>4 DEF NearAlike
  <2> QED BY <2>2, <2>3, <1>1, <1>5, <1>7
<1>10. Near(f, c.buf, 5)
  <2>1. Near(e, c.buf, 2)
    <3>1. 1 \in 1 .. 6 /\ 1 + 1 = 2
      OBVIOUS
    <3> QED BY <3>1, <1>1, <1>4
  <2>2. 2 \in 1 .. 4 /\ 2 + 3 = 5
    OBVIOUS
  <2> QED BY <2>1, <2>2, <1>7
<1>11. \A a \in t.T : IsNode(g.nodes[a]) /\ IsNode(f.nodes[a]) /\ Same(f.nodes[a], g.nodes[a])
  <2>1. \A a \in DOMAIN f.nodes : IsNode(f.nodes[a])
    BY <1>7, StoreNodes DEF Store
  <2>2. DOMAIN f.nodes = DOMAIN g.nodes /\ \A a \in DOMAIN g.nodes : Same(f.nodes[a], g.nodes[a])
    BY <1>8 DEF Alike
  <2> QED BY <1>1, <2>1, <2>2 DEF IsTree
<1>12. IsTree(f.nodes, t)
  <2>1. t.T \subseteq DOMAIN f.nodes
    BY <1>1, <1>8 DEF Alike
  <2> QED BY <1>1, <1>11, <2>1, TreeSame
<1> QED BY <1>3, <1>7, <1>8, <1>9, <1>10, <1>11, <1>12 DEF ReadGather

\* Three neighbours are gathered, one of them crowded.
GatherStart(c, hd, top, t, P, n, f, x, p, W, gb, i) ==
  /\ InnerAt(h, c, hd, top, t, P, n) /\ ReadGather(h, f, top, t, c.buf, n, x)
  /\ GatherAt(f.nodes, t, c.buf, p, x, W) /\ Gathers(gb, n, p, W)
  /\ i \in p .. (p + 2) /\ Routes(n, i, c.key) /\ KeyTree(c)
  /\ GatherSizes(c, n, W, Len(gb.ent))

\* The three are at the child the search leads to.
Window(n, i, p) == p \in Nat /\ p + 2 <= n.ct /\ i \in p .. (p + 2)

\* Three children from the one on the left of the child, or so that there are
\* three.
LEMMA WindowIs ==
  ASSUME NEW n, n.ct \in Nat, n.ct >= 2, NEW c, NEW r, NEW i, Leads(c, n, r, i),
         NEW p, p = IF r.at = n.ct - 1 THEN r.at - 1 ELSE r.at
  PROVE  Window(n, i, p)
PROOF
<1>1. PICK m \in Nat : m = n.ct
  OBVIOUS
<1>2. r.at \in 0 .. (m - 1) /\ r.cc \in {-1, 0, 1} /\ i = (IF r.cc < 0 THEN r.at ELSE r.at + 1) /\ m >= 2
  BY <1>1 DEF Leads
<1>3. PICK q \in 0 .. (m - 1) : q = r.at
  BY <1>2
<1>4. PICK k \in {-1, 0, 1} : k = r.cc
  BY <1>2
<1>5. i = (IF k < 0 THEN q ELSE q + 1) /\ p = (IF q = m - 1 THEN q - 1 ELSE q)
  BY <1>1, <1>2, <1>3, <1>4
<1>6. p \in Nat /\ p + 2 <= m /\ i \in p .. (p + 2)
  BY ONLY <1>2, <1>5, m \in Nat, q \in 0 .. (m - 1), k \in {-1, 0, 1}
<1> QED BY <1>1, <1>6 DEF Window

\* What a crowded child says of the call.
CrowdedCall(c, m) ==
  \/ IsWrite(c) /\ m = MaxCt
  \/ c.tree = "delete" /\ m = Half

\* A child is crowded when it is full for a call that writes, or half full for
\* a delete.
LEMMA CrowdedIs ==
  ASSUME NEW m, Crowded(m)
  PROVE  CrowdedCall(call, m.ct) /\ KeyTree(call)
PROOF
BY DEF Crowded, CrowdedCall, IsWrite, KeyTree, Writes, Half

\* What is known where three neighbours have been gathered.
LEMMA GatherStartIs ==
  ASSUME OddRoom, NEW c, NEW hd, NEW top, NEW t, NEW P, NEW n, InnerAt(h, c, hd, top, t, P, n),
         NEW r, NEW i, Leads(c, n, r, i), NEW child, child = ChildFor(n, r),
         NEW g, g = readDisk(h, child), CrowdedCall(c, g.nodes[child].ct), KeyTree(c),
         NEW p, p = (IF r.at = n.ct - 1 THEN r.at - 1 ELSE r.at),
         NEW x, x = [j \in 1 .. 3 |-> Child(n, p + j - 1)],
         NEW f, f = readAll(g, x), NEW W, W = [j \in 1 .. 3 |-> f.nodes[Child(n, p + j - 1)]],
         NEW gb, gb = gather(f, n, p)
  PROVE  GatherStart(c, hd, top, t, P, n, f, x, p, W, gb, i)
PROOF
<1>1. /\ c.buf \in t.T /\ n = h.nodes[c.buf] /\ ~n.leaf /\ IsNode(n) /\ Sorted(n) /\ n.ct \in Nat /\ n.ct >= 2
      /\ (c.buf # Root => n.ct \in Half .. MaxCt) /\ (c.buf = Root => n.ct <= 3 * MaxCt) /\ NodeRoom(c, n)
      /\ \A k \in 0 .. n.ct : Child(n, k) \in t.T \ {Root} /\ h.nodes[Child(n, k)].ct \in Half .. MaxCt
  BY DEF InnerAt
<1>2. Window(n, i, p)
  BY <1>1, WindowIs
<1>3. p \in Nat /\ p + 2 <= n.ct /\ i \in p .. (p + 2)
  BY <1>2 DEF Window
<1>4. \A j \in 1 .. 3 : p + j - 1 \in 0 .. n.ct /\ x[j] = Child(n, p + j - 1) /\ W[j] = f.nodes[x[j]]
  <2>1. \A j \in 1 .. 3 : p + j - 1 \in 0 .. n.ct
    BY ONLY <1>1, <1>3
  <2>2. \A j \in 1 .. 3 : x[j] = Child(n, p + j - 1)
    BY ONLY x = [j \in 1 .. 3 |-> Child(n, p + j - 1)]
  <2>3. \A j \in 1 .. 3 : W[j] = f.nodes[Child(n, p + j - 1)]
    BY ONLY W = [j \in 1 .. 3 |-> f.nodes[Child(n, p + j - 1)]]
  <2> QED BY ONLY <2>1, <2>2, <2>3
<1>5. i \in 0 .. n.ct /\ child = Child(n, i) /\ Routes(n, i, c.key)
  BY DEF Leads
<1>6. child \in t.T /\ \A j \in 1 .. 3 : x[j] \in t.T
  BY <1>1, <1>4, <1>5
<1>7. ReadGather(h, f, top, t, c.buf, n, x) /\ Read(h, g, top, child)
  BY <1>6, ReadGatherIs
<1>8. /\ f.nodes[c.buf] = n /\ IsTree(f.nodes, t) 
      /\ \A a \in t.T : IsNode(h.nodes[a]) /\ IsNode(f.nodes[a]) /\ Same(f.nodes[a], h.nodes[a])
  BY <1>7 DEF ReadGather
<1>9. \A j \in 1 .. 3 : W[j].ct \in Half .. MaxCt /\ W[j].ct > 0 /\ IsNode(W[j])
  <2> TAKE j \in 1 .. 3
  <2>1. x[j] \in t.T /\ h.nodes[x[j]].ct \in Half .. MaxCt
    BY <1>1, <1>4, <1>6
  <2>2. W[j].ct \in Half .. MaxCt /\ IsNode(W[j])
    BY ONLY <2>1, <1>4, <1>8 DEF Same
  <2>3. Half \in Nat /\ Half >= 3 /\ MaxCt \in Nat
    BY HalfIs
  <2>4. \A m \in Half .. MaxCt : m > 0
    BY ONLY <2>3
  <2> QED BY ONLY <2>2, <2>4
<1>10. GatherAt(f.nodes, t, c.buf, p, x, W)
  <2>1. \A j \in 1 .. 3 : x[j] = Child(f.nodes[c.buf], p + j - 1) /\ W[j] = f.nodes[x[j]] /\ W[j].ct > 0
    BY <1>4, <1>8, <1>9
  <2> QED BY <2>1, <1>1, <1>3, <1>8 DEF GatherAt
<1>11. Three(W)
  BY <1>10, GatherNodes
<1>12. Gathers(gb, n, p, W)
  <2>1. W = [j \in 1 .. 3 |-> f.nodes[Child(n, p + j - 1)]]
    OBVIOUS
  <2>2. gb = gather(f, n, p)
    OBVIOUS
  <2> QED BY ONLY <2>1, <2>2, <1>1, <1>3, <1>11, GatherIs
<1>13. Len(gb.ent) = W[1].ct + Extra(W[1].leaf) + W[2].ct + Extra(W[1].leaf) + W[3].ct
  BY <1>12 DEF Gathers
<1>14. Full(c, W)
  <2>1. \E j \in 1 .. 3 : i = p + j - 1
    <3>1. i - p + 1 \in 1 .. 3 /\ i = p + (i - p + 1) - 1
      BY <1>3
    <3> QED BY <3>1
  <2>2. PICK j \in 1 .. 3 : i = p + j - 1
    BY <2>1
  <2>3. x[j] = child
    BY <2>2, <1>4, <1>5
  <2>4. W[j].ct = g.nodes[child].ct
    <3>1. Same(f.nodes[child], h.nodes[child])
      BY <1>6, <1>8
    <3>2. Same(g.nodes[child], h.nodes[child])
      <4>1. child \in DOMAIN h.nodes
        BY <1>6 DEF InnerAt
      <4> QED BY <4>1, <1>7 DEF Read, Alike
    <3> QED BY <3>1, <3>2, <2>3, <1>4 DEF Same
  <2> QED BY <2>4 DEF Full, CrowdedCall
<1>15. GatherSizes(c, n, W, Len(gb.ent))
  BY <1>1, <1>9, <1>13, <1>14 DEF GatherSizes
<1> QED BY <1>3, <1>5, <1>7, <1>10, <1>12, <1>15 DEF GatherStart

Triple(x) == x \in Seq(Nat) /\ Len(x) = 3
Without(T, t, x) == T = t.T \ {x[2], x[3]}

\* Their addresses.
LEMMA GatherSeq ==
  ASSUME NEW c, NEW hd, NEW top, NEW t, NEW P, NEW n, NEW f, NEW x, NEW p, NEW W, NEW gb, NEW i,
         GatherStart(c, hd, top, t, P, n, f, x, p, W, gb, i), x = [j \in 1 .. 3 |-> Child(n, p + j - 1)]
  PROVE  Triple(x)
PROOF
<1>1. \A j \in 1 .. 3 : x[j] \in t.T
  BY GatherNodes DEF GatherStart
<1>2. t.T \subseteq DOMAIN h.nodes /\ Store(h, top)
  BY DEF GatherStart, InnerAt, Settled
<1>3. \A a \in DOMAIN h.nodes : a \in Nat
  BY <1>2, StoreNodes DEF Store
<1>4. x \in [1 .. 3 -> Nat]
  <2>1. \A j \in 1 .. 3 : x[j] \in Nat
    BY <1>1, <1>2, <1>3
  <2> QED BY <2>1
<1>5. 3 \in Nat
  OBVIOUS
<1> QED BY ONLY <1>4, <1>5, SequenceOfFunction DEF Triple

\* The three while they are scattered.
LEMMA GatherTmp ==
  ASSUME NEW c, NEW hd, NEW top, NEW t, NEW P, NEW n, NEW f, NEW x, NEW p, NEW W, NEW gb, NEW i,
         GatherStart(c, hd, top, t, P, n, f, x, p, W, gb, i), Triple(x),
         NEW d, Scatters(c, d, gb, p, 3, x), NEW T, Without(T, t, x)
  PROVE  TmpOK(f, d, T) /\ Tmp(d) = {x[1], x[2], x[3]} /\ Whole(f, d) = x[1]
PROOF
<1>1. /\ \A j \in 1 .. 3 : x[j] \in t.T /\ x[j] # Root /\ x[j] # c.buf
      /\ \A j, k \in 1 .. 3 : x[j] = x[k] => j = k
  BY GatherNodes DEF GatherStart
<1>2. d.is = 3 /\ d.iu = 3 /\ d.tmp = x /\ d.buf = c.buf
  BY DEF Scatters, KeepsWay
<1>3. t.T \subseteq DOMAIN f.nodes /\ Fresh(f) = {} /\ Near(f, c.buf, 5) /\ \A j \in 1 .. 3 : Near(f, x[j], 3)
  BY DEF GatherStart, ReadGather, IsTree
<1>4. \A j \in 1 .. 3 : Near(f, x[j], 5)
  <2>1. 3 \in Int /\ 5 \in Int /\ 3 <= 5
    OBVIOUS
  <2> QED BY <2>1, <1>3, NearMore
<1>5. Tmp(d) = {x[1], x[2], x[3]} /\ Whole(f, d) = x[1]
  <2>1. Tmp(d) = { x[j] : j \in 1 .. 3 }
    BY <1>2 DEF Tmp
  <2>2. 1 .. 3 = {1, 2, 3}
    OBVIOUS
  <2>3. Whole(f, d) = x[1]
    BY <1>2 DEF Whole
  <2> QED BY <2>1, <2>2, <2>3
<1>6. \A j \in 1 .. 3 : j > 1 => x[j] \notin T
  BY <1>1 DEF Without
<1>7. c.buf \notin Tmp(d)
  <2>1. 1 \in 1 .. 3 /\ 2 \in 1 .. 3 /\ 3 \in 1 .. 3
    OBVIOUS
  <2> QED BY <2>1, <1>1, <1>5
<1> DEFINE pos == IF d.is = 0 THEN d.iu ELSE IF d.iu = 4 THEN 6 ELSE 5
<1>8. pos = 5
  BY <1>2
<1>9. \A j \in 1 .. d.iu : d.tmp[j] \in DOMAIN f.nodes \ {Root} /\ (j > 1 => d.tmp[j] \notin T) /\ Near(f, d.tmp[j], pos)
  <2> HIDE DEF pos
  <2> QED BY <1>1, <1>2, <1>3, <1>4, <1>6, <1>8
<1>10. \A j, k \in 1 .. d.iu : d.tmp[j] = d.tmp[k] => j = k
  BY <1>1, <1>2
<1>11. Near(f, d.buf, pos) /\ d.buf \notin Tmp(d)
  <2> HIDE DEF pos
  <2> QED BY <1>2, <1>3, <1>7, <1>8
<1>12. Fresh(f) \subseteq Tmp(d) /\ (d.iu > 0 => f.nodes[d.tmp[d.iu]].next \notin Fresh(f))
  BY <1>3
<1>13. d.tmp \in Seq(Nat) /\ d.iu <= Len(d.tmp)
  <2>1. d.tmp = x /\ d.iu = 3
    BY <1>2
  <2>2. x \in Seq(Nat) /\ Len(x) = 3
    BY DEF Triple
  <2> QED BY ONLY <2>1, <2>2
<1>12a. \A j \in 1 .. d.iu : j <= d.is => d.tmp[j] \notin Fresh(f)
  BY <1>3
<1>14. TmpOK(f, d, T)
  BY <1>9, <1>10, <1>11, <1>12, <1>12a, <1>13 DEF TmpOK
<1> QED BY <1>5, <1>14
=============================================================================
