--------------------------- MODULE BppTreeProofs ----------------------------
(***************************************************************************)
(* Theorems about the B+ tree, for any keys, values, scripts of calls and  *)
(* predicates, and every odd number of keys in a node from seven on:       *)
(* between calls the tree is balanced and ordered, every key held is       *)
(* found, and the loop of scatter does not add a node it has given up.     *)
(*                                                                         *)
(* Beside OddRoom they have one hypothesis, RepairsRightKey: where the     *)
(* first key of a leaf is written over an inner key, that key is the one   *)
(* that leads to the leaf. The code does not always see to that, and when  *)
(* it does not the tree is not ordered any more.                           *)
(*                                                                         *)
(* The steps of the descent end here: a scatter deals the keys of a gather *)
(* out to two, three or four nodes. BppInv is the inductive invariant.     *)
(***************************************************************************)
EXTENDS BppNodeProofs

(***************************************************************************)
(* The descent: after a gather.                                            *)
(***************************************************************************)
\* The root stays as it was, but for the nodes that are no longer of the tree.
LEMMA RootKeptAlike ==
  ASSUME NEW g, NEW f, NEW T, NEW S, RootKept(g, T), Alike(g, f), Root \in DOMAIN g.nodes, S \subseteq T
  PROVE  RootKept(f, S)
PROOF
<1>1. f.rootModified = g.rootModified /\ f.file[Root] = g.file[Root] /\ Same(f.nodes[Root], g.nodes[Root])
  BY DEF Alike
<1>2. \A a \in DOMAIN g.nodes \ T : a \in DOMAIN f.nodes \ S /\ Same(f.nodes[a], g.nodes[a])
  BY DEF Alike
<1> QED BY ONLY <1>1, <1>2, RootKept(g, T), RootKeptOn

\* The tree with one node for the three.
Regathered(c, d, f, t, s, P, N, n, x, p, o, V) ==
  /\ IsTree(N, s) /\ DOMAIN N = DOMAIN f.nodes /\ N[c.buf] = o /\ N[x[1]] = V
  /\ s.T = t.T \ {x[2], x[3]} /\ x[1] \in s.T \ {Root, c.buf} /\ c.buf \in s.T
  /\ s.K[Root] = t.K[Root] /\ ParentOf(o, n, p) /\ Child(o, p) = x[1]
  /\ \A a \in s.T \ {c.buf, x[1]} : a \in DOMAIN f.nodes /\ N[a] = f.nodes[a]
  /\ PathOK(N, s, P, d) /\ Routes(o, p, c.key)

\* The call, with the joined tree, is on its way.
LEMMA RegatheredIs ==
  ASSUME NEW c, NEW hd, NEW top, NEW t, NEW P, NEW n, NEW f, NEW x, NEW p, NEW W, NEW gb, NEW i,
         GatherStart(c, hd, top, t, P, n, f, x, p, W, gb, i),
         NEW d, KeepsCall(c, d), KeepsWay(c, d),
         NEW o, o = JoinParent(n, p), NEW V, V = AsNode(gb), NEW N, N = JoinedNodes(f.nodes, c.buf, x, o, V)
  PROVE  \E s : Regathered(c, d, f, t, s, P, N, n, x, p, o, V)
PROOF
<1>1. PICK u : u = Cuts(W, Extra(W[1].leaf))
  OBVIOUS
<1>2. /\ f.nodes[c.buf] = n /\ IsTree(f.nodes, t)
      /\ \A a \in t.T : IsNode(h.nodes[a]) /\ IsNode(f.nodes[a]) /\ Same(f.nodes[a], h.nodes[a])
  BY DEF GatherStart, ReadGather
<1>3. /\ GatherAt(f.nodes, t, c.buf, p, x, W) /\ Gathers(gb, n, p, W)
      /\ i \in p .. (p + 2) /\ Routes(n, i, c.key) /\ KeyTree(c)
  BY DEF GatherStart
<1>4. /\ PathOK(h.nodes, t, P, c) /\ c.key \in Int /\ IsNode(n)
  BY DEF GatherStart, InnerAt
<1>5. GatherFacts(f.nodes, t, c.buf, p, x, W, gb, o, V, u)
  BY <1>1, <1>2, <1>3 DEF GatherFacts
<1>6. GatherParts(f.nodes, c.buf, p, x, W, o, V, u)
  BY <1>5, GatherPartsAre
<1>7. PICK s : TreeGathered(f.nodes, N, t, s, c.buf, x, o, V)
  BY <1>5, GatherTree
<1>8. /\ IsTree(N, s) /\ DOMAIN N = DOMAIN f.nodes /\ N[c.buf] = o /\ N[x[1]] = V
      /\ s.T = t.T \ {x[2], x[3]} /\ x[1] \in s.T /\ c.buf \in s.T /\ c.buf # x[1]
      /\ \A a \in s.T \ {x[1]} : s.K[a] = t.K[a]
      /\ \A a \in s.T \ {c.buf, x[1]} : a \in DOMAIN f.nodes /\ N[a] = f.nodes[a]
  BY <1>7 DEF TreeGathered
<1>9. x[1] # Root /\ Root \in s.T
  <2>1. 1 \in 1 .. 3
    OBVIOUS
  <2> QED BY <2>1, <1>3, <1>8, GatherNodes DEF IsTree
<1>10. PathOK(f.nodes, t, P, c)
  BY <1>2, <1>4, PathAlike
<1>11. OnRoute(f.nodes, t, P, c.buf, c.key) /\ Guard(f.nodes, t, P, c)
  BY <1>3, <1>10 DEF PathOK
<1>12. WayGathered(N, t, s, P, c.buf, x, o, p, c.key)
  <2>1. PICK key \in Int : key = c.key
    BY <1>4
  <2>2. OnRoute(f.nodes, t, P, c.buf, key) /\ Routes(f.nodes[c.buf], i, key)
    BY <2>1, <1>2, <1>3, <1>11
  <2>3. WayGathered(N, t, s, P, c.buf, x, o, p, key)
    BY ONLY <2>2, <1>3, <1>5, <1>7, N = JoinedNodes(f.nodes, c.buf, x, o, V), GatherWay
  <2> QED BY <2>1, <2>3
<1>13. OnRoute(N, s, P, c.buf, c.key) /\ Routes(o, p, c.key) /\ \A a \in P : a \in s.T /\ a # x[1] /\ s.K[a] = t.K[a]
  BY <1>12 DEF WayGathered
<1>14. Guard(N, s, P, d)
  <2>1. d.ge = c.ge /\ d.at = c.at /\ d.lt = c.lt /\ d.buf = c.buf /\ d.key = c.key
    BY DEF KeepsCall, KeepsWay
  <2>2. c.buf \in P
    BY <1>13 DEF OnRoute
  <2>3. \A a \in P \ {c.buf} : IsNode(f.nodes[a]) /\ IsNode(N[a]) /\ Same(N[a], f.nodes[a])
    BY <1>2, <1>8, <1>13, SameRefl
  <2> QED BY ONLY <2>1, <2>2, <2>3, <1>11, <1>13, GuardKept
<1>15. PathOK(N, s, P, d)
  <2>1. d.buf = c.buf /\ d.key = c.key
    BY DEF KeepsCall, KeepsWay
  <2> QED BY <2>1, <1>8, <1>13, <1>14 DEF PathOK
<1>16. ParentOf(o, n, p) /\ Child(o, p) = x[1]
  <2>1. ParentOf(o, n, p)
    BY <1>2, <1>6 DEF GatherParts
  <2>2. Child(o, p) = x[1]
    BY <1>6 DEF GatherParts, CutUnder
  <2> QED BY <2>1, <2>2
<1>17. s.K[Root] = t.K[Root]
  BY <1>8, <1>9
<1> QED BY <1>8, <1>9, <1>13, <1>15, <1>16, <1>17 DEF Regathered

\* A gather that does not end in a collapse begins a scatter as the invariant
\* says.
LEMMA ScatterStartGood ==
  ASSUME OddRoom, NEW c, NEW hd, NEW top, NEW t, NEW P, NEW n, NEW f, NEW x, NEW p, NEW W, NEW gb, NEW i,
         GatherStart(c, hd, top, t, P, n, f, x, p, W, gb, i), Triple(x),
         ~Collapsing(c, n.ct - 2, Len(gb.ent)), NEW d, d = ScatterCall(c, gb, p, 3, x)
  PROVE  \E s, N : ScatterOK(f, d, hd, top, s, P, N)
PROOF
<1>1. /\ InnerAt(h, c, hd, top, t, P, n) /\ ReadGather(h, f, top, t, c.buf, n, x)
      /\ Gathers(gb, n, p, W) /\ KeyTree(c) /\ GatherSizes(c, n, W, Len(gb.ent))
  BY DEF GatherStart
<1>2. Running(c, hd, top) /\ Settled(h, top, t) /\ t.K[Root] = KeysHeld(c, hd) /\ c.pc = "descend"
      /\ n = h.nodes[c.buf] /\ ~n.leaf /\ IsNode(n) /\ c.key \in Int /\ n.ct \in Nat
  BY <1>1 DEF InnerAt
<1>3. Scatters(c, d, gb, p, 3, x)
  <2>1. CallOf(c)
    BY <1>2 DEF Running, CallOf, RunningRec
  <2> QED BY <2>1, ToScatter
<1>4. /\ CallOf(d) /\ KeepsCall(c, d) /\ KeepsWay(c, d) /\ d.pc = "scatter"
      /\ d.gbuf = gb /\ d.pkey = p /\ d.is = 3 /\ d.iu = 3 /\ d.tmp = x
  BY <1>3 DEF Scatters
<1>5. PICK o : o = JoinParent(n, p)
  OBVIOUS
<1>6. PICK V : V = AsNode(gb)
  OBVIOUS
<1>7. PICK N : N = JoinedNodes(f.nodes, c.buf, x, o, V)
  OBVIOUS
<1>8. PICK s : Regathered(c, d, f, t, s, P, N, n, x, p, o, V)
  BY <1>4, <1>5, <1>6, <1>7, RegatheredIs
<1>9. /\ IsTree(N, s) /\ DOMAIN N = DOMAIN f.nodes /\ N[c.buf] = o /\ N[x[1]] = V
      /\ s.T = t.T \ {x[2], x[3]} /\ x[1] \in s.T \ {Root, c.buf} /\ c.buf \in s.T
      /\ s.K[Root] = t.K[Root] /\ ParentOf(o, n, p) /\ Child(o, p) = x[1]
      /\ \A a \in s.T \ {c.buf, x[1]} : a \in DOMAIN f.nodes /\ N[a] = f.nodes[a]
      /\ PathOK(N, s, P, d) /\ Routes(o, p, c.key)
  BY <1>8 DEF Regathered
<1>10. TmpOK(f, d, s.T) /\ Tmp(d) = {x[1], x[2], x[3]} /\ Whole(f, d) = x[1]
  <2>1. PICK T : T = s.T
    OBVIOUS
  <2>2. Without(T, t, x)
    BY <2>1, <1>9 DEF Without
  <2>3. TmpOK(f, d, T) /\ Tmp(d) = {x[1], x[2], x[3]} /\ Whole(f, d) = x[1]
    BY ONLY <2>2, <1>3, GatherStart(c, hd, top, t, P, n, f, x, p, W, gb, i), Triple(x), GatherTmp
  <2> QED BY <2>1, <2>3
<1>11. d.buf = c.buf /\ d.key = c.key /\ d.tree = c.tree
  BY <1>4 DEF KeepsCall, KeepsWay
<1>12. Running(d, hd, top)
  BY <1>2, <1>4, CallKept DEF CallOf
<1>13. KeyTree(d) /\ KeysHeld(d, hd) = KeysHeld(c, hd)
  BY <1>1, <1>2, <1>4, KeepsSorts
<1>14. Store(f, top) /\ Alike(h, f) /\ f.nodes[c.buf] = n /\ \A a \in t.T : Same(f.nodes[a], h.nodes[a])
  BY <1>1 DEF ReadGather
<1>15. RootKept(f, s.T \cup Tmp(d))
  <2>1. RootKept(h, t.T) /\ Root \in DOMAIN h.nodes
    BY <1>2 DEF Settled, IsTree
  <2>2. s.T \cup Tmp(d) \subseteq t.T
    <3>1. x[1] \in t.T /\ x[2] \in t.T /\ x[3] \in t.T
      <4>1. \A j \in 1 .. 3 : x[j] \in t.T
        BY GatherNodes DEF GatherStart
      <4> QED BY <4>1
    <3> QED BY <3>1, <1>9, <1>10
  <2> QED BY <2>1, <2>2, <1>14, RootKeptAlike
<1>16. Gathered(d, V)
  BY <1>4, <1>6 DEF Gathered, AsNode
<1>16a. ListsOK(gb, top)
  <2>1. SUFFICES ASSUME gb.leaf, NEW l \in 1 .. Len(gb.ent) PROVE gb.ent[l].rec \in 1 .. top
    BY DEF ListsOK
  <2>2. Three(W) /\ GatherAt(f.nodes, t, c.buf, p, x, W)
    BY GatherNodes DEF GatherStart
  <2>3. W[1].leaf
    BY <2>1, <1>1 DEF Gathers
  <2>4. PICK j \in 1 .. 3 : \E m \in 1 .. W[j].ct : gb.ent[l] = W[j].ent[m]
    BY <1>1, <2>1, <2>2, <2>3, GatherEntries
  <2>5. PICK m \in 1 .. W[j].ct : gb.ent[l] = W[j].ent[m]
    BY <2>4
  <2>6. W[j] = f.nodes[x[j]] /\ x[j] \in DOMAIN f.nodes
    <3>1. x[j] \in t.T
      BY GatherNodes DEF GatherStart
    <3>2. W[j] = f.nodes[x[j]] /\ t.T \subseteq DOMAIN f.nodes
      BY <2>2 DEF GatherAt, IsTree
    <3> QED BY <3>1, <3>2
  <2>7. NodeOK(W[j], DOMAIN f.nodes, top)
    BY <1>14, <2>6, StoreNodes DEF Store
  <2>8. W[j].leaf
    <3>1. j = 1 \/ j = 2 \/ j = 3
      OBVIOUS
    <3>2. W[1].leaf /\ W[2].leaf = W[1].leaf /\ W[3].leaf = W[1].leaf
      BY <2>2, <2>3 DEF Three
    <3>3. CASE j = 1
      BY <3>2, <3>3, Zenon
    <3>4. CASE j = 2
      BY <3>2, <3>4, Zenon
    <3>5. CASE j = 3
      BY <3>2, <3>5, Zenon
    <3> QED BY <3>1, <3>3, <3>4, <3>5
  <2> QED BY <2>5, <2>7, <2>8 DEF NodeOK
<1>17. JoinedOf(o, n, p, 3)
  <2>1. /\ ~o.leaf /\ o.ct = n.ct - 2 /\ o.ct \in Nat /\ p \in 0 .. o.ct
        /\ \A j \in 1 .. p : o.ent[j].key = n.ent[j].key
        /\ \A j \in (p + 1) .. o.ct : o.ent[j].key = n.ent[j + 2].key
        /\ \A j \in 0 .. p : Child(o, j) = Child(n, j)
        /\ \A j \in (p + 1) .. o.ct : Child(o, j) = Child(n, j + 2)
    BY <1>9 DEF ParentOf
  <2>2. n.ct = o.ct + 2
    BY <2>1, <1>2
  <2>3. (\A j \in 0 .. (p - 1) : Child(n, j) = Child(o, j)) /\ Child(n, p) = Child(o, p)
    BY <2>1
  <2> QED BY <2>1, <2>2, <2>3 DEF JoinedOf
<1>18. Sizes(f.nodes, s.T \ {c.buf, x[1]})
  <2>1. Sizes(h.nodes, t.T)
    BY <1>2 DEF Settled
  <2> QED BY <2>1, <1>9, <1>14 DEF Sizes, Same
<1>19. Amount(d, o.ct, Len(gb.ent), gb.leaf)
  <2>1. gb.leaf = W[1].leaf
    BY <1>1 DEF Gathers
  <2>2. PICK oct : oct = n.ct - 2
    OBVIOUS
  <2>3. oct = o.ct
    BY <2>2, <1>9 DEF ParentOf
  <2>4. PICK G : G = Len(gb.ent)
    OBVIOUS
  <2>5. GatherSizes(c, n, W, G) /\ ~Collapsing(c, oct, G) /\ d.is = 3 /\ d.iu = 3 /\ d.buf = c.buf /\ d.tree = c.tree
    BY <2>2, <2>4, <1>1, <1>4, <1>11
  <2>6. Amount(d, oct, G, W[1].leaf)
    BY ONLY <2>2, <2>5, OddRoom, AmountIs
  <2> QED BY <2>1, <2>3, <2>4, <2>6
<1>20. \A a \in s.T \ {c.buf, x[1]} : a \in DOMAIN f.nodes /\ Same(N[a], f.nodes[a])
  BY <1>9, SameRefl
<1>21. /\ d.buf \in DOMAIN f.nodes /\ ~f.nodes[d.buf].leaf /\ N[d.buf] = o /\ f.nodes[d.buf] = n
  BY <1>2, <1>9, <1>11, <1>14 DEF IsTree
<1>22. ScatterOK(f, d, hd, top, s, P, N)
  <2>1. s.K[Root] = KeysHeld(d, hd)
    BY <1>2, <1>9, <1>13
  <2>2. DOMAIN N \subseteq DOMAIN f.nodes \cup {Whole(f, d)}
    BY <1>9
  <2>3. Whole(f, d) \in s.T \ {Root, d.buf} /\ Gathered(d, N[Whole(f, d)])
    BY <1>9, <1>10, <1>11, <1>16
  <2>4. d.buf \in DOMAIN f.nodes /\ JoinedOf(N[d.buf], f.nodes[d.buf], d.pkey, d.is)
    BY <1>4, <1>17, <1>21
  <2>5. Child(N[d.buf], d.pkey) = Whole(f, d) /\ Routes(N[d.buf], d.pkey, d.key)
    BY <1>4, <1>9, <1>10, <1>11, <1>21
  <2>6. \A a \in s.T \ {d.buf, Whole(f, d)} : a \in DOMAIN f.nodes /\ Same(N[a], f.nodes[a])
    BY <1>10, <1>11, <1>20
  <2>7. Sizes(f.nodes, s.T \ {d.buf, Whole(f, d)})
    BY <1>10, <1>11, <1>18
  <2>8. Amount(d, N[d.buf].ct, Len(d.gbuf.ent), d.gbuf.leaf)
    BY <1>4, <1>19, <1>21
  <2> QED BY <2>1, <2>2, <2>3, <2>4, <2>5, <2>6, <2>7, <2>8, <1>4, <1>9, <1>10, <1>12, <1>13, <1>14, <1>15, <1>16a, <1>21 DEF ScatterOK
<1> QED BY <1>22

\* The last three nodes below the root become the root.
LEMMA CutUnderSame ==
  ASSUME NEW o, NEW n, NEW z, NEW p \in Nat, NEW k \in Nat, k > 0, NEW V, NEW u, NEW x, IsNode(o), IsNode(n), IsNode(z), Same(n, z),
         CutUnder(o, n, p, k, V, u, x), Between(n, p, k, V, u)
  PROVE  CutUnder(o, z, p, k, V, u, x) /\ Between(z, p, k, V, u)
PROOF
<1>1. /\ z.leaf = n.leaf /\ z.ct = n.ct /\ n.ct \in Nat /\ o.ct \in Nat
      /\ \A i \in 0 .. n.ct : Child(z, i) = Child(n, i)
      /\ \A i \in 1 .. n.ct : z.ent[i].key = n.ent[i].key
  BY SameNode, NodeParts
<1>2. p <= o.ct /\ n.ct = o.ct + k - 1
  BY DEF CutUnder
<1>3. /\ \A i \in 1 .. p : i \in 1 .. n.ct
      /\ \A i \in (p + 1) .. o.ct : i + k - 1 \in 1 .. n.ct
      /\ \A i \in 0 .. (p - 1) : i \in 0 .. n.ct
      /\ \A i \in (p + 1) .. o.ct : i + k - 1 \in 0 .. n.ct
      /\ \A j \in 1 .. k : p + j - 1 \in 0 .. n.ct
      /\ \A j \in 2 .. k : p + j - 1 \in 1 .. n.ct
  BY <1>1, <1>2
<1>4. CutUnder(o, z, p, k, V, u, x)
  BY <1>1, <1>3 DEF CutUnder
<1>5. Between(z, p, k, V, u)
  BY <1>1, <1>3 DEF Between
<1> QED BY <1>4, <1>5

\* A node with so few keys cannot have been put together of three.
LEMMA NotCollapsed ==
  ASSUME OddRoom, NEW g, NEW T, Collapsed(g, T), IsNode(g.nodes[Root])
  PROVE  g.nodes[Root].ct > 2
PROOF
<1>1. PICK x, u, V, W, o :
        /\ \A j \in 1 .. 3 : x[j] \in DOMAIN g.nodes \ T /\ IsNode(W[j]) /\ Same(W[j], g.nodes[x[j]])
        /\ \A j \in 1 .. 3 : W[j].ct \in Half .. MaxCt
        /\ IsNode(V) /\ Same(V, g.nodes[Root]) /\ CutAt(V, W, 3, u)
  BY DEF Collapsed
<1>2. PICK X : X = W[3]
  OBVIOUS
<1>3. 3 \in 1 .. 3
  OBVIOUS
<1>4. X.ct \in Half .. MaxCt /\ \A j \in 1 .. 3 : IsNode(W[j])
  BY <1>1, <1>2, <1>3
<1>5. V.ct \in Nat /\ Off(V, u, 3) \in Nat /\ Off(V, u, 3) + X.ct = u[3] /\ u[3] = V.ct
  <2>1. V.ct \in Nat /\ \A j \in 1 .. 3 : Off(V, u, j) \in Nat /\ Off(V, u, j) + W[j].ct = u[j]
    BY ONLY <1>1, <1>4, CutParts
  <2>2. u[3] = V.ct
    BY <1>1 DEF CutAt
  <2> QED BY <2>1, <2>2, <1>2, <1>3
<1>6. Half \in Nat /\ Half >= 3 /\ MaxCt \in Nat
  BY HalfIs
<1>7. V.ct >= 3
  <2>1. X.ct \in Nat /\ X.ct >= 3
    BY ONLY <1>4, <1>6
  <2> QED BY ONLY <2>1, <1>5
<1>8. V.ct = g.nodes[Root].ct
  BY <1>1, Zenon DEF Same
<1> QED BY ONLY <1>5, <1>7, <1>8

\* The keys that were gathered, in the root.
RootIs(m, n, V) == IsNode(m) /\ Same(m, V) /\ Same(V, m) /\ m.next = n.next /\ m.ct = V.ct
                   /\ \A i \in 1 .. m.ct : m.ent[i] = V.ent[i]

\* The root with the gathered keys.
LEMMA ScatterRootIs ==
  ASSUME NEW n, IsNode(n), NEW gb, gb.leaf \in BOOLEAN, gb.lt \in Int, gb.ent \in Seq(Entry),
         NEW V, V = AsNode(gb), NEW m, m = scatterRoot(n, gb)
  PROVE  RootIs(m, n, V)
PROOF
<1>1. IsNode(V) /\ V.leaf = gb.leaf /\ V.lt = gb.lt /\ V.ent = gb.ent /\ V.ct = Len(gb.ent)
  BY AsNodeIs
<1>2. n \in NodeType /\ n.ent \in Seq(Entry)
  BY DEF IsNode, NodeType
<1>3. PICK e : e = Overwrite(n.ent, gb.ent)
  OBVIOUS
<1>4. /\ e \in Seq(Entry) /\ Len(e) \in Nat /\ Len(gb.ent) \in Nat /\ Len(gb.ent) <= Len(e)
      /\ \A i \in 1 .. Len(gb.ent) : e[i] = gb.ent[i]
  BY <1>2, <1>3, OverwriteIs
<1>5. m = [leaf |-> gb.leaf, ct |-> Len(gb.ent), prev |-> n.prev, next |-> n.next, lt |-> gb.lt, ent |-> e]
  BY <1>2, <1>3 DEF scatterRoot, NodeType
<1>6. n.prev \in Int /\ n.next \in Int
  BY <1>2 DEF NodeType
<1>7. IsNode(m)
  BY <1>4, <1>5, <1>6 DEF IsNode, NodeType
<1>8. m.leaf = V.leaf /\ m.ct = V.ct /\ m.lt = V.lt /\ m.next = n.next
  BY <1>1, <1>5
<1>9. \A i \in 1 .. m.ct : m.ent[i] = V.ent[i]
  BY <1>1, <1>4, <1>5
<1> QED BY <1>7, <1>8, <1>9 DEF RootIs, Same

\* What happens when the three become the root.
CollapseAt(hd, top, t, P, n, f, x, W, gb, i, V, m, f2) ==
  /\ GatherStart(call, hd, top, t, P, n, f, x, 0, W, gb, i) /\ call.buf = Root /\ n.ct = 2
  /\ V = AsNode(gb) /\ m = scatterRoot(n, gb) /\ f2 = PutNode(f, Root, m)
CollapsedTo(f, f2, top, n, V, m) ==
  RootIs(m, n, V) /\ IsNode(V) /\ HasPut(f, f2, top, Root, m)

\* The handle when the root has taken them.
LEMMA CollapsePut ==
  ASSUME NEW hd, NEW top, NEW t, NEW P, NEW n, NEW f, NEW x, NEW W, NEW gb, NEW i, NEW V, NEW m, NEW f2,
         CollapseAt(hd, top, t, P, n, f, x, W, gb, i, V, m, f2)
  PROVE  CollapsedTo(f, f2, top, n, V, m)
PROOF
<1>1. /\ GatherStart(call, hd, top, t, P, n, f, x, 0, W, gb, i) /\ call.buf = Root /\ n.ct = 2
      /\ V = AsNode(gb) /\ m = scatterRoot(n, gb) /\ f2 = PutNode(f, Root, m)
  BY DEF CollapseAt
<1>2. IsNode(n)
  BY <1>1 DEF GatherStart, InnerAt
<1>3. /\ Store(f, top) /\ f.nodes[Root] = n /\ Root \in DOMAIN f.nodes
      /\ t.T \subseteq DOMAIN f.nodes
  BY <1>1 DEF GatherStart, ReadGather, IsTree
<1>4. Gathers(gb, n, 0, W) /\ Three(W) /\ (\A j \in 1 .. 3 : IsNode(W[j]) /\ x[j] \in t.T /\ W[j] = f.nodes[x[j]])
  <2>1. Gathers(gb, n, 0, W) /\ GatherAt(f.nodes, t, call.buf, 0, x, W)
    BY <1>1 DEF GatherStart
  <2>2. \A j \in 1 .. 3 : W[j] = f.nodes[x[j]]
    BY <2>1 DEF GatherAt
  <2>3. Three(W) /\ \A j \in 1 .. 3 : IsNode(W[j]) /\ x[j] \in t.T
    BY <2>1, GatherNodes
  <2> QED BY <2>1, <2>2, <2>3
<1>5. gb.leaf = W[1].leaf /\ gb.leaf \in BOOLEAN /\ gb.lt \in Int /\ gb.ent \in Seq(Entry)
  <2>1. gb.leaf = W[1].leaf /\ gb.lt = W[1].lt /\ gb.ent \in Seq(Entry)
    BY <1>4 DEF Gathers
  <2>2. IsNode(W[1])
    BY <1>4
  <2> QED BY <2>1, <2>2, NodeParts
<1>6. RootIs(m, n, V) /\ IsNode(V)
  BY <1>1, <1>2, <1>5, ScatterRootIs, AsNodeIs
<1>7. NodeOK(m, DOMAIN f.nodes, top)
  <2>1. m.next \in DOMAIN f.nodes
    <3>1. NodeOK(n, DOMAIN f.nodes, top)
      BY <1>3, StoreNodes DEF Store
    <3> QED BY <3>1, <1>6 DEF NodeOK, RootIs
  <2>2. ASSUME m.leaf PROVE \A k \in 1 .. m.ct : m.ent[k].rec \in 1 .. top
    <3>1. W[1].leaf /\ V.ent = gb.ent /\ V.ct = Len(gb.ent)
      BY <2>2, <1>1, <1>5, <1>6 DEF RootIs, Same, AsNode
    <3>2. \A k \in 1 .. Len(gb.ent) : gb.ent[k].rec \in 1 .. top
      <4> TAKE k \in 1 .. Len(gb.ent)
      <4>1. PICK j \in 1 .. 3 : \E l \in 1 .. W[j].ct : gb.ent[k] = W[j].ent[l]
        BY <3>1, <1>4, GatherEntries
      <4>2. W[j].leaf
        <5>1. W[2].leaf = W[1].leaf /\ W[3].leaf = W[1].leaf
          BY <1>4 DEF Three
        <5>2. j = 1 \/ j = 2 \/ j = 3
          OBVIOUS
        <5> QED BY ONLY <5>1, <5>2, <3>1
      <4>3. NodeOK(W[j], DOMAIN f.nodes, top)
        <5>1. \A a \in DOMAIN f.nodes : NodeOK(f.nodes[a], DOMAIN f.nodes, top)
          BY <1>3, StoreNodes DEF Store
        <5> QED BY <5>1, <1>3, <1>4
      <4> QED BY <4>1, <4>2, <4>3 DEF NodeOK
    <3> QED BY <3>1, <3>2, <1>6 DEF RootIs
  <2> QED BY <2>1, <2>2, <1>6 DEF NodeOK, RootIs
<1>8. HasPut(f, f2, top, Root, m)
  BY <1>1, <1>3, <1>7, PutStore
<1> QED BY <1>6, <1>8 DEF CollapsedTo

\* The file has the root from before, and the nodes whose keys it took.
LEMMA CollapseKept ==
  ASSUME OddRoom, NEW hd, NEW top, NEW t, NEW P, NEW n, NEW f, NEW x, NEW W, NEW gb, NEW i, NEW V, NEW m, NEW f2,
         CollapseAt(hd, top, t, P, n, f, x, W, gb, i, V, m, f2), CollapsedTo(f, f2, top, n, V, m),
         NEW T, \A j \in 1 .. 3 : x[j] \notin T
  PROVE  RootKept(f2, T)
PROOF
<1>1. /\ GatherStart(call, hd, top, t, P, n, f, x, 0, W, gb, i) /\ call.buf = Root /\ n.ct = 2
      /\ V = AsNode(gb)
  BY DEF CollapseAt
<1>2. RootIs(m, n, V) /\ IsNode(V) /\ HasPut(f, f2, top, Root, m)
  BY DEF CollapsedTo
<1>3. /\ DOMAIN f2.nodes = DOMAIN f.nodes /\ f2.nodes[Root] = m
      /\ \A b \in DOMAIN f.nodes : b # Root => f2.nodes[b] = f.nodes[b]
      /\ f2.file = f.file /\ f2.rootModified = f.rootModified
  BY <1>2 DEF HasPut
<1>4. /\ InnerAt(h, call, hd, top, t, P, n) /\ ReadGather(h, f, top, t, Root, n, x)
      /\ GatherAt(f.nodes, t, Root, 0, x, W) /\ Gathers(gb, n, 0, W) /\ GatherSizes(call, n, W, Len(gb.ent))
  BY <1>1 DEF GatherStart
<1>5. /\ Store(f, top) /\ Alike(h, f) /\ f.nodes[Root] = n /\ Root \in DOMAIN f.nodes /\ t.T \subseteq DOMAIN f.nodes
      /\ IsNode(n) /\ IsNode(f.file[Root])
  <2>1. Store(f, top) /\ Alike(h, f) /\ f.nodes[Root] = n /\ Root \in DOMAIN f.nodes /\ t.T \subseteq DOMAIN f.nodes
    BY <1>4 DEF ReadGather, IsTree
  <2> QED BY <2>1, StoreNodes DEF Store
<1>6. RootKept(f, t.T)
  <2>1. RootKept(h, t.T) /\ Root \in DOMAIN h.nodes
    BY <1>4 DEF InnerAt, Settled, IsTree
  <2> QED BY <2>1, <1>5, RootKeptAlike
<1>7. ~Collapsed(f, t.T)
  <2>1. IsNode(f.nodes[Root]) /\ ~(f.nodes[Root].ct > 2)
    BY <1>1, <1>5
  <2> QED BY <2>1, NotCollapsed
<1>8. CASE f.rootModified
  BY <1>8, <1>3 DEF RootKept
<1>9. CASE Same(f.nodes[Root], f.file[Root])
  <2>1. PICK o : o = JoinParent(n, 0)
    OBVIOUS
  <2>2. PICK u : u = Cuts(W, Extra(W[1].leaf))
    OBVIOUS
  <2>3. GatherFacts(f.nodes, t, Root, 0, x, W, gb, o, V, u)
    BY <2>1, <2>2, <1>1, <1>4, <1>5 DEF GatherFacts
  <2>4. GatherParts(f.nodes, Root, 0, x, W, o, V, u)
    BY <2>3, GatherPartsAre
  <2>5. CutUnder(o, n, 0, 3, V, u, x) /\ CutAt(V, W, 3, u) /\ ParentOf(o, n, 0) /\ Between(n, 0, 3, V, u)
    BY <2>4, <1>5 DEF GatherParts
  <2>6. IsNode(o) /\ ~o.leaf /\ o.ct = 0
    <3>1. IsNode(o) /\ ~o.leaf /\ o.ct = n.ct - 2
      BY <2>5 DEF ParentOf
    <3>2. n.ct = 2
      BY <1>1
    <3> QED BY <3>1, <3>2
  <2>7. CutUnder(o, f2.file[Root], 0, 3, V, u, x) /\ Between(f2.file[Root], 0, 3, V, u)
    <3>1. PICK z : z = f2.file[Root]
      OBVIOUS
    <3>2. IsNode(z) /\ Same(n, z)
      BY <3>1, <1>3, <1>5, <1>9
    <3>3. 0 \in Nat /\ 3 \in Nat /\ 3 > 0
      OBVIOUS
    <3>4. CutUnder(o, z, 0, 3, V, u, x) /\ Between(z, 0, 3, V, u)
      BY ONLY <3>2, <3>3, <2>5, <2>6, <1>5, CutUnderSame
    <3> QED BY <3>1, <3>4
  <2>8. /\ \A j \in 1 .. 3 : x[j] \in t.T /\ x[j] # Root /\ IsNode(W[j]) /\ W[j] = f.nodes[x[j]]
        /\ \A j, k \in 1 .. 3 : x[j] = x[k] => j = k
    <3>1. \A j \in 1 .. 3 : W[j] = f.nodes[x[j]]
      BY <1>4 DEF GatherAt
    <3> QED BY <3>1, <1>4, GatherNodes
  <2>9. \A j \in 1 .. 3 : x[j] \in DOMAIN f2.nodes \ T /\ IsNode(W[j]) /\ Same(W[j], f2.nodes[x[j]])
    BY <2>8, <1>3, <1>5, SameRefl
  <2>10. \A j \in 1 .. 3 : W[j].ct \in Half .. MaxCt
    BY <1>4 DEF GatherSizes
  <2>11. Same(V, f2.nodes[Root])
    BY <1>2, <1>3 DEF RootIs
  <2>12. Collapsed(f2, T)
    BY <1>2, <2>5, <2>6, <2>7, <2>8, <2>9, <2>10, <2>11 DEF Collapsed
  <2> QED BY <2>12 DEF RootKept
<1> QED BY <1>6, <1>7, <1>8, <1>9 DEF RootKept

\* Lower, for use.
LowerOK(N, M, t) ==
  /\ IsTree(N, t) /\ ~N[Root].leaf /\ N[Root].ct = 0
  /\ t.T \ {N[Root].lt} \subseteq DOMAIN M
  /\ IsNode(M[Root]) /\ Same(M[Root], N[N[Root].lt])
  /\ \A a \in t.T \ {Root, N[Root].lt} : IsNode(M[a]) /\ Same(M[a], N[a])
Lowered(N, M, t, s) ==
  IsTree(M, s) /\ s.T = t.T \ {N[Root].lt} /\ \A a \in s.T : s.K[a] = t.K[a]

\* A root lowered gives a tree of the same keys.
LEMMA LowerIs ==
  ASSUME NEW N, NEW M, NEW t, LowerOK(N, M, t)
  PROVE  \E s : Lowered(N, M, t, s)
PROOF
<1>1. /\ IsTree(N, t) /\ ~N[Root].leaf /\ N[Root].ct = 0
      /\ t.T \ {N[Root].lt} \subseteq DOMAIN M
      /\ IsNode(M[Root]) /\ Same(M[Root], N[N[Root].lt])
      /\ \A a \in t.T \ {Root, N[Root].lt} : IsNode(M[a]) /\ Same(M[a], N[a])
  BY DEF LowerOK
<1>2. \E s : /\ IsTree(M, s) /\ s.T = t.T \ {N[Root].lt} /\ \A a \in s.T : s.K[a] = t.K[a]
  BY ONLY <1>1, Lower
<1> QED BY <1>2 DEF Lowered

\* The collapse of the root keeps the invariant.
LEMMA CollapseGood ==
  ASSUME OddRoom, NEW hd, NEW top, NEW t, NEW P, NEW n, NEW f, NEW x, NEW W, NEW gb, NEW i, NEW V, NEW m, NEW f2,
         CollapseAt(hd, top, t, P, n, f, x, W, gb, i, V, m, f2), call.tree = "delete",
         Len(gb.ent) < (9 * MaxCt) \div 4
  PROVE  \E s : DescendOK(f2, call, hd, top, s, {Root})
PROOF
<1>1. /\ GatherStart(call, hd, top, t, P, n, f, x, 0, W, gb, i) /\ call.buf = Root /\ n.ct = 2
      /\ V = AsNode(gb)
  BY DEF CollapseAt
<1>2. CollapsedTo(f, f2, top, n, V, m)
  BY CollapsePut
<1>3. RootIs(m, n, V) /\ IsNode(V) /\ HasPut(f, f2, top, Root, m)
  BY <1>2 DEF CollapsedTo
<1>4. /\ Store(f2, top) /\ DOMAIN f2.nodes = DOMAIN f.nodes /\ f2.nodes[Root] = m
      /\ \A b \in DOMAIN f.nodes : b # Root => f2.nodes[b] = f.nodes[b]
      /\ Fresh(f2) = Fresh(f)
  BY <1>3 DEF HasPut
<1>5. /\ InnerAt(h, call, hd, top, t, P, n) /\ ReadGather(h, f, top, t, Root, n, x)
      /\ GatherAt(f.nodes, t, Root, 0, x, W) /\ Gathers(gb, n, 0, W) /\ GatherSizes(call, n, W, Len(gb.ent))
  BY <1>1 DEF GatherStart
<1>6. /\ Running(call, hd, top) /\ Settled(h, top, t) /\ t.K[Root] = KeysHeld(call, hd) /\ PathOK(h.nodes, t, P, call)
      /\ call.pc = "descend" /\ KeyTree(call)
  BY <1>1, <1>5 DEF InnerAt, GatherStart
<1>7. /\ Fresh(f) = {} /\ f.nodes[Root] = n /\ IsTree(f.nodes, t)
      /\ \A a \in t.T : IsNode(f.nodes[a]) /\ Same(f.nodes[a], h.nodes[a])
  BY <1>5 DEF ReadGather
<1>8. PICK o : o = JoinParent(n, 0)
  OBVIOUS
<1>9. PICK N : N = JoinedNodes(f.nodes, Root, x, o, V)
  OBVIOUS
<1>10. PICK s : Regathered(call, call, f, t, s, P, N, n, x, 0, o, V)
  <2>1. KeepsCall(call, call) /\ KeepsWay(call, call)
    BY DEF KeepsCall, KeepsWay
  <2>2. N = JoinedNodes(f.nodes, call.buf, x, o, V)
    BY <1>1, <1>9
  <2> QED BY ONLY <2>1, <2>2, <1>1, <1>8, RegatheredIs
<1>11. /\ IsTree(N, s) /\ DOMAIN N = DOMAIN f.nodes /\ N[Root] = o /\ N[x[1]] = V
      /\ s.T = t.T \ {x[2], x[3]} /\ x[1] \in s.T \ {Root}
      /\ s.K[Root] = t.K[Root] /\ ParentOf(o, n, 0) /\ Child(o, 0) = x[1]
      /\ \A a \in s.T \ {Root, x[1]} : a \in DOMAIN f.nodes /\ N[a] = f.nodes[a]
      /\ PathOK(N, s, P, call)
  BY <1>1, <1>10 DEF Regathered
<1>12. ~o.leaf /\ o.ct = 0 /\ o.lt = x[1]
  <2>1. ~o.leaf /\ o.ct = n.ct - 2
    BY <1>11 DEF ParentOf
  <2>2. n.ct = 2
    BY <1>1
  <2>3. o.lt = x[1]
    BY <1>11 DEF Child
  <2> QED BY ONLY <2>1, <2>2, <2>3
<1>13. LowerOK(N, f2.nodes, s)
  <2>1. s.T \ {N[Root].lt} \subseteq DOMAIN f2.nodes
    BY <1>4, <1>11 DEF IsTree
  <2>2. IsNode(f2.nodes[Root]) /\ Same(f2.nodes[Root], N[N[Root].lt])
    BY <1>3, <1>4, <1>11, <1>12 DEF RootIs
  <2>3. \A a \in s.T \ {Root, N[Root].lt} : IsNode(f2.nodes[a]) /\ Same(f2.nodes[a], N[a])
    BY <1>4, <1>7, <1>11, <1>12, SameRefl
  <2> QED BY <1>11, <1>12, <2>1, <2>2, <2>3 DEF LowerOK
<1>14. PICK r : Lowered(N, f2.nodes, s, r)
  BY <1>13, LowerIs
<1>15. IsTree(f2.nodes, r) /\ r.T = t.T \ {x[1], x[2], x[3]} /\ \A a \in r.T : r.K[a] = s.K[a]
  BY <1>11, <1>12, <1>14 DEF Lowered
<1>16. Root \in r.T /\ r.K[Root] = KeysHeld(call, hd)
  BY <1>6, <1>11, <1>15 DEF IsTree
<1>17. RootKept(f2, r.T)
  <2>1. PICK T : T = r.T
    OBVIOUS
  <2>2. \A j \in 1 .. 3 : x[j] \notin T
    BY <2>1, <1>15
  <2>3. RootKept(f2, T)
    BY ONLY <2>2, <1>2, OddRoom, CollapseAt(hd, top, t, P, n, f, x, W, gb, i, V, m, f2), CollapseKept
  <2> QED BY <2>1, <2>3
<1>18. m.ct = Len(gb.ent)
  BY <1>1, <1>3 DEF RootIs, AsNode
<1>19. Len(gb.ent) \in Nat /\ Len(gb.ent) >= 2
  <2>1. /\ \A j \in 1 .. 3 : W[j].ct \in Half .. MaxCt
        /\ Len(gb.ent) = W[1].ct + Extra(W[1].leaf) + W[2].ct + Extra(W[1].leaf) + W[3].ct
    BY <1>5 DEF GatherSizes
  <2>2. Extra(W[1].leaf) \in Nat
    BY DEF Extra
  <2>3. Half \in Nat /\ Half >= 3 /\ MaxCt \in Nat
    BY HalfIs
  <2>4. PICK A \in Nat : A = W[1].ct
    BY <2>1, <2>3
  <2>5. PICK B \in Nat : B = W[2].ct
    BY <2>1, <2>3
  <2>6. PICK C \in Nat : C = W[3].ct
    BY <2>1, <2>3
  <2>7. PICK E \in Nat : E = Extra(W[1].leaf)
    BY <2>2
  <2>8. A >= 3 /\ Len(gb.ent) = A + E + B + E + C
    BY <2>1, <2>3, <2>4, <2>5, <2>6, <2>7
  <2> QED BY ONLY <2>8, A \in Nat, B \in Nat, C \in Nat, E \in Nat
<1>20. Sizes(f2.nodes, r.T)
  <2>1. Sizes(h.nodes, t.T)
    BY <1>6 DEF Settled
  <2>2. \A a \in r.T \ {Root} : f2.nodes[a].ct \in Half .. MaxCt
    <3> TAKE a \in r.T \ {Root}
    <3>1. a \in t.T \ {Root} /\ f2.nodes[a] = f.nodes[a]
      BY <1>4, <1>7, <1>15 DEF IsTree
    <3>2. h.nodes[a].ct \in Half .. MaxCt /\ f.nodes[a].ct = h.nodes[a].ct
      BY <3>1, <2>1, <1>7 DEF Sizes, Same
    <3> QED BY <3>1, <3>2
  <2>3. f2.nodes[Root].ct <= 3 * MaxCt /\ f2.nodes[Root].ct >= 2
    <3>1. PICK G \in Nat : G = Len(gb.ent)
      BY <1>19
    <3>2. G >= 2 /\ G < (9 * MaxCt) \div 4 /\ MaxCt \in Nat
      BY <3>1, <1>19, HalfIs
    <3>3. G <= 3 * MaxCt
      BY ONLY <3>2, G \in Nat
    <3> QED BY <3>1, <3>2, <3>3, <1>4, <1>18
  <2> QED BY <2>2, <2>3 DEF Sizes
<1>21. Settled(f2, top, r)
  BY <1>4, <1>7, <1>15, <1>17, <1>20 DEF Settled
<1>22. PathOK(f2.nodes, r, {Root}, call)
  <2>1. OnRoute(f2.nodes, r, {Root}, Root, call.key)
    BY <1>15, RouteStarts
  <2>2. Guard(f2.nodes, r, {Root}, call)
    <3>1. Guard(h.nodes, t, P, call) /\ OnRoute(h.nodes, t, P, Root, call.key)
      BY <1>1, <1>6 DEF PathOK
    <3>2. P = {Root}
      BY <3>1 DEF OnRoute
    <3> QED BY <3>1, <3>2, <1>1 DEF Guard
  <2> QED BY <2>1, <2>2, <1>1, <1>16 DEF PathOK
<1>23. NodeRoom(call, f2.nodes[call.buf]) /\ Near(f2, call.buf, 1)
  BY <1>1 DEF NodeRoom, Near, IsWrite
<1>24. DescendOK(f2, call, hd, top, r, {Root})
  BY <1>6, <1>16, <1>21, <1>22, <1>23 DEF DescendOK
<1> QED BY <1>24

\* What Descend computes.
Descent(c, hh, n, r, child, g, p, x, f, gb) ==
  /\ n = hh.nodes[c.buf] /\ r = SearchOf(c, n) /\ child = ChildFor(n, r) /\ g = readDisk(hh, child)
  /\ p = (IF r.at = n.ct - 1 THEN r.at - 1 ELSE r.at)
  /\ x = [j \in 1 .. 3 |-> Child(n, p + j - 1)] /\ f = readAll(g, x) /\ gb = gather(f, n, p)
DescentEnds(n, r, child, g, p, x, f, gb) ==
  /\ ~n.leaf /\ call.pc = "descend"
  /\ \/ ~Crowded(g.nodes[child]) /\ h' = g /\ call' = DownCall(call, r, child)
     \/ Crowded(g.nodes[child]) /\ Collapses(gb) /\ h' = [f EXCEPT !.nodes[Root] = scatterRoot(@, gb)] /\ call' = call
     \/ Crowded(g.nodes[child]) /\ ~Collapses(gb) /\ h' = f /\ call' = ScatterCall(call, gb, p, 3, x)

\* What Descend computes, and the three ways it ends.
LEMMA DescendIs ==
  ASSUME Descend
  PROVE  \E n, r, child, g, p, x, f, gb :
           Descent(call, h, n, r, child, g, p, x, f, gb) /\ DescentEnds(n, r, child, g, p, x, f, gb)
PROOF
<1> DEFINE n == h.nodes[call.buf]
           r == SearchOf(call, n)
           child == ChildFor(n, r)
           g == readDisk(h, child)
           p == IF r.at = n.ct - 1 THEN r.at - 1 ELSE r.at
           x == [j \in 1 .. 3 |-> Child(n, p + j - 1)]
           f == readAll(g, x)
           gb == gather(f, n, p)
<1>1. r = CASE call.tree = "first" -> [cc |-> -1, at |-> 0]
             [] call.tree = "fgeq" -> search_LLEQ(Here, call.key)
             [] OTHER -> search(Here, call.key)
  BY DEF SearchOf, Here
<1>2. Here = n
  BY DEF Here
<1>3. Descent(call, h, n, r, child, g, p, x, f, gb)
  BY DEF Descent
<1>4. DescentEnds(n, r, child, g, p, x, f, gb)
  <2>1. /\ call.pc = "descend" /\ ~n.leaf
        /\ IF ~Crowded(g.nodes[child]) THEN h' = g /\ GoDown(r, child)
           ELSE IF Collapses(gb) THEN h' = [f EXCEPT !.nodes[Root] = scatterRoot(@, gb)] /\ UNCHANGED call
           ELSE h' = f /\ Scatter(gb, p, 3, x)
    BY Zenon DEF Descend, SearchOf, Here
  <2> HIDE DEF n, r, child, g, p, x, f, gb
  <2>2. GoDown(r, child) => call' = DownCall(call, r, child)
    BY DEF GoDown, DownCall
  <2>3. Scatter(gb, p, 3, x) => call' = ScatterCall(call, gb, p, 3, x)
    BY DEF Scatter, ScatterCall
  <2> QED BY <2>1, <2>2, <2>3 DEF DescentEnds
<1> HIDE DEF n, r, child, g, p, x, f, gb
<1> QED BY <1>3, <1>4

\* The child has room.
LEMMA DescendDown ==
  ASSUME OddRoom, NEW hd, NEW top, NEW t, NEW P, NEW n, InnerAt(h, call, hd, top, t, P, n),
         NEW r, NEW i, Leads(call, n, r, i), NEW child, child = ChildFor(n, r), NEW g, g = readDisk(h, child),
         ~Crowded(g.nodes[child]), NEW d, d = DownCall(call, r, child)
  PROVE  DescendOK(g, d, hd, top, t, P \cup {child})
PROOF
<1>1. /\ Running(call, hd, top) /\ Settled(h, top, t) /\ t.K[Root] = KeysHeld(call, hd) /\ PathOK(h.nodes, t, P, call)
      /\ call.pc = "descend" /\ n = h.nodes[call.buf] /\ ~n.leaf /\ IsTree(h.nodes, t) /\ t.T \subseteq DOMAIN h.nodes
      /\ \A k \in 0 .. n.ct : Child(n, k) \in t.T \ {Root} /\ h.nodes[Child(n, k)].ct \in Half .. MaxCt
  BY DEF InnerAt
<1>2. /\ child = Child(n, i) /\ r.cc \in {-1, 0, 1} /\ r.at \in 0 .. (n.ct - 1)
      /\ i \in 0 .. n.ct /\ i = (IF r.cc < 0 THEN r.at ELSE r.at + 1)
      /\ KeyTree(call) => Routes(n, i, call.key)
  BY DEF Leads
<1>3. child \in t.T /\ h.nodes[child].ct \in Half .. MaxCt
  BY <1>1, <1>2
<1>4. Read(h, g, top, child)
  <2>1. Store(h, top) /\ Fresh(h) = {} /\ child \in DOMAIN h.nodes
    BY <1>1, <1>3 DEF Settled
  <2> QED BY <2>1, ReadIs
<1>5. g.nodes[child].ct = h.nodes[child].ct
  BY <1>1, <1>3, <1>4 DEF Read, Alike, Same
<1>6. ChildRoom(call, h.nodes[child])
  <2>1. ~(IsWrite(call) /\ h.nodes[child].ct = MaxCt) /\ ~(call.tree = "delete" /\ h.nodes[child].ct = Half)
    BY <1>5 DEF Crowded, Writes, IsWrite, Half
  <2>2. Half \in Nat /\ MaxCt \in Nat
    BY HalfIs
  <2>3. PICK k \in Half .. MaxCt : k = h.nodes[child].ct
    BY <1>3
  <2>4. (k # Half => k >= Half + 1) /\ (k # MaxCt => k < MaxCt)
    BY ONLY <2>2, k \in Half .. MaxCt
  <2> QED BY <2>1, <2>3, <2>4 DEF ChildRoom
<1>7. /\ call.pc # "return" /\ ~h.nodes[call.buf].leaf /\ i \in 0 .. h.nodes[call.buf].ct
      /\ child = Child(h.nodes[call.buf], i)
      /\ KeyTree(call) => /\ r.cc \in {-1, 0, 1} /\ r.at \in 0 .. (h.nodes[call.buf].ct - 1)
                          /\ i = (IF r.cc < 0 THEN r.at ELSE r.at + 1) /\ Routes(h.nodes[call.buf], i, call.key)
  BY <1>1, <1>2
<1> QED BY ONLY <1>1, <1>4, <1>6, <1>7, d = DownCall(call, r, child), DownGood

\* Descend keeps the invariant.
LEMMA DescendGood ==
  ASSUME OddRoom, NEW top, NEW t, NEW P, DescendOK(h, call, held, top, t, P), Descend
  PROVE  \E s, Q, N : Good(h', call', held, top, s, Q, N)
PROOF
<1>1. PICK n, r, child, g, p, x, f, gb :
        Descent(call, h, n, r, child, g, p, x, f, gb) /\ DescentEnds(n, r, child, g, p, x, f, gb)
  BY DescendIs
<1>2. /\ n = h.nodes[call.buf] /\ r = SearchOf(call, n) /\ child = ChildFor(n, r) /\ g = readDisk(h, child)
      /\ p = (IF r.at = n.ct - 1 THEN r.at - 1 ELSE r.at)
      /\ x = [j \in 1 .. 3 |-> Child(n, p + j - 1)] /\ f = readAll(g, x) /\ gb = gather(f, n, p)
  BY <1>1 DEF Descent
<1>3. ~n.leaf
  BY <1>1 DEF DescentEnds
<1>4. InnerAt(h, call, held, top, t, P, n)
  BY <1>2, <1>3, InnerAtIs
<1>5. IsNode(n) /\ Sorted(n) /\ n.ct \in Nat /\ n.ct >= 2 /\ call.key \in Int
  BY <1>4 DEF InnerAt
<1>6. PICK i : Leads(call, n, r, i)
  <2>1. n.ct > 0
    BY <1>5
  <2> QED BY <2>1, <1>2, <1>5, SearchLeads
<1>7. CASE ~Crowded(g.nodes[child]) /\ h' = g /\ call' = DownCall(call, r, child)
  <2>1. PICK d : d = DownCall(call, r, child)
    OBVIOUS
  <2>2. DescendOK(g, d, held, top, t, P \cup {child})
    BY ONLY <2>1, <1>2, <1>4, <1>6, <1>7, OddRoom, DescendDown
  <2> QED BY <2>1, <2>2, <1>7 DEF Good
<1>8. ASSUME Crowded(g.nodes[child])
      PROVE \E W : GatherStart(call, held, top, t, P, n, f, x, p, W, gb, i)
  <2>1. CrowdedCall(call, g.nodes[child].ct) /\ KeyTree(call)
    BY <1>8, CrowdedIs
  <2>2. PICK W : W = [j \in 1 .. 3 |-> f.nodes[Child(n, p + j - 1)]]
    BY Zenon
  <2>3. GatherStart(call, held, top, t, P, n, f, x, p, W, gb, i)
    BY ONLY <2>1, <2>2, <1>2, <1>4, <1>6, OddRoom, GatherStartIs
  <2> QED BY <2>3
<1>9. CASE Crowded(g.nodes[child]) /\ Collapses(gb) /\ h' = [f EXCEPT !.nodes[Root] = scatterRoot(@, gb)] /\ call' = call
  <2>1. PICK W : GatherStart(call, held, top, t, P, n, f, x, p, W, gb, i)
    BY <1>8, <1>9
  <2>2. call.tree = "delete" /\ call.buf = Root /\ n.ct = 2 /\ Len(gb.ent) < (9 * MaxCt) \div 4
    BY <1>2, <1>9 DEF Collapses, Here
  <2>3. p = 0
    <3>1. p \in Nat /\ p + 2 <= n.ct
      BY <2>1 DEF GatherStart, GatherAt, ReadGather
    <3>2. p + 2 <= 2
      BY <3>1, <2>2
    <3> QED BY ONLY <3>1, <3>2
  <2>4. PICK V : V = AsNode(gb)
    OBVIOUS
  <2>5. PICK m : m = scatterRoot(n, gb)
    OBVIOUS
  <2>6. PICK f2 : f2 = PutNode(f, Root, m)
    OBVIOUS
  <2>7. f.nodes[Root] = n
    BY <2>1, <2>2 DEF GatherStart, ReadGather
  <2>8. h' = f2
    BY <1>9, <2>5, <2>6, <2>7 DEF PutNode
  <2>9. CollapseAt(held, top, t, P, n, f, x, W, gb, i, V, m, f2)
    BY <2>1, <2>2, <2>3, <2>4, <2>5, <2>6 DEF CollapseAt
  <2>10. \E s : DescendOK(f2, call, held, top, s, {Root})
    BY ONLY <2>2, <2>9, OddRoom, CollapseGood
  <2> QED BY <2>8, <2>10, <1>9 DEF Good
<1>10. CASE Crowded(g.nodes[child]) /\ ~Collapses(gb) /\ h' = f /\ call' = ScatterCall(call, gb, p, 3, x)
  <2>1. PICK W : GatherStart(call, held, top, t, P, n, f, x, p, W, gb, i)
    BY <1>8, <1>10
  <2>2. Triple(x)
    BY ONLY <2>1, <1>2, GatherSeq
  <2>3. PICK d : d = ScatterCall(call, gb, p, 3, x)
    OBVIOUS
  <2>4. ~Collapsing(call, n.ct - 2, Len(gb.ent))
    <3>1. n.ct - 2 = 0 => n.ct = 2
      BY <1>5
    <3> QED BY <3>1, <1>2, <1>10 DEF Collapses, Collapsing, Here
  <2>5. \E s, N : ScatterOK(f, d, held, top, s, P, N)
    BY ONLY <2>1, <2>2, <2>3, <2>4, OddRoom, ScatterStartGood
  <2> QED BY <2>3, <2>5, <1>10 DEF Good
<1> QED BY <1>1, <1>7, <1>9, <1>10 DEF DescentEnds

(***************************************************************************)
(* The scatter: one more node, or one less.                                *)
(***************************************************************************)
LEMMA NewNodeIs ==
  ASSUME NEW adr
  PROVE  LET n == NewNode(adr) IN IsNode(n) /\ n.leaf /\ n.ct = 0 /\ n.next = NoAdr
PROOF
<1>1. PICK r \in Nat : r = Room(adr)
  BY ParameterAssumption DEF Room
<1>2. Zero \in Entry
  BY DEF Zero, Entry, NoAdr
<1>3. PICK e : e = [i \in 1 .. r |-> Zero]
  OBVIOUS
<1>4. e \in Seq(Entry) /\ Len(e) = r
  BY <1>2, <1>3
<1>5. NewNode(adr) = [leaf |-> TRUE, ct |-> 0, prev |-> NoAdr, next |-> NoAdr, lt |-> NoAdr, ent |-> e]
  BY <1>1, <1>3 DEF NewNode
<1> QED BY <1>4, <1>5 DEF IsNode, NodeType, NoAdr

\* What a new node behind the last one is.
NewBehind(n, adr, last, next) == n = [NewNode(adr) EXCEPT !.prev = last, !.next = next]

\* A new leaf behind another.
LEMMA NewBehindIs ==
  ASSUME NEW adr, NEW last \in Int, NEW next \in Int, NEW n, NewBehind(n, adr, last, next)
  PROVE  IsNode(n) /\ n.next = next /\ n.ct = 0
PROOF
<1>1. PICK m : m = NewNode(adr)
  OBVIOUS
<1>2. IsNode(m) /\ m.ct = 0
  BY <1>1, NewNodeIs
<1>3. n = [m EXCEPT !.prev = last, !.next = next]
  BY <1>1 DEF NewBehind
<1>4. m \in NodeType /\ m.ct <= Len(m.ent)
  BY <1>2 DEF IsNode
<1>5. n = [leaf |-> m.leaf, ct |-> m.ct, prev |-> last, next |-> next, lt |-> m.lt, ent |-> m.ent]
  BY <1>3, <1>4 DEF NodeType
<1> QED BY <1>2, <1>4, <1>5 DEF IsNode, NodeType

\* The buffer for a new node: the last one gives its own away, and is none that
\* the scatter needs.
LEMMA AssignNear ==
  ASSUME NEW g, NEW top, Store(g, top), NEW adr \in Nat \ {Root}, adr \notin Fresh(g), \A a \in Fresh(g) : Near(g, a, 6),
         NEW a \in DOMAIN g.nodes, Near(g, a, 6)
  PROVE  assignBuf(g, adr).nodes[a] = g.nodes[a]
PROOF
<1>1. PICK e, nb, i : Assigned(g, assignBuf(g, adr), top, adr, e, nb, i)
  BY AssignIs
<1>2. assignBuf(g, adr) = Turned(e, nb, i) /\ Store(e, top) /\ NearAlike(g, e)
  BY <1>1 DEF Assigned
<1>3. Turned(e, nb, i).nodes = e.nodes
  <2>1. IsHandle(e)
    BY <1>2 DEF Store, StoreBut
  <2> QED BY <2>1 DEF IsHandle, Turned
<1> QED BY <1>2, <1>3 DEF NearAlike

\* A handle with one more node.
Grown(g, f, top, b, adr) ==
  /\ Store(f, top) /\ DOMAIN f.nodes = DOMAIN g.nodes \cup {adr} /\ adr \notin DOMAIN g.nodes /\ adr \in Nat \ {Root}
  /\ \A a \in DOMAIN g.nodes : Same(f.nodes[a], g.nodes[a])
  /\ f.nodes[b] = g.nodes[b]
  /\ f.file[Root] = g.file[Root] /\ f.rootModified = g.rootModified
  /\ Fresh(f) = Fresh(g) \cup {adr} /\ Near(f, adr, 1) /\ f.nodes[adr].next \notin Fresh(f)
  /\ \A a, p : p \in 1 .. 6 /\ Near(g, a, p) => Near(f, a, p + 1)
CanGrow(g, top, b, last, link) ==
  /\ top \in Nat /\ Store(g, top) /\ \A a \in Fresh(g) : Near(g, a, 6)
  /\ b \in DOMAIN g.nodes /\ Near(g, b, 6)
  /\ link => /\ last \in DOMAIN g.nodes \ {b} /\ Near(g, last, 6) /\ g.nodes[last].next \notin Fresh(g)

\* A node that is not linked.
LEMMA GrowAlone ==
  ASSUME NEW g, NEW top, NEW b, NEW last, CanGrow(g, top, b, last, FALSE),
         NEW adr, adr = g.nextFreeAdr, NEW f, f = NewNodeIn(assignBuf(g, adr), adr, NewNode(adr))
  PROVE  Grown(g, f, top, b, adr)
PROOF
<1>1. top \in Nat /\ Store(g, top) /\ (\A a \in Fresh(g) : Near(g, a, 6)) /\ b \in DOMAIN g.nodes /\ Near(g, b, 6)
  BY DEF CanGrow
<1>2. adr \in Nat \ {Root} /\ adr \notin DOMAIN g.nodes /\ Root \in DOMAIN g.nodes
  BY <1>1, StoreNodes DEF Store
<1>3. PICK n : n = NewNode(adr)
  OBVIOUS
<1>4. IsNode(n) /\ n.leaf /\ n.ct = 0 /\ n.next = NoAdr
  BY <1>3, NewNodeIs
<1>5. NodeOK(n, DOMAIN g.nodes \cup {adr}, top)
  BY <1>2, <1>4 DEF NodeOK, NoAdr, Root
<1>6. Added(g, f, top, adr, n)
  <2>1. f = NewNodeIn(assignBuf(g, adr), adr, n)
    BY <1>3
  <2>2. Added(g, NewNodeIn(assignBuf(g, adr), adr, n), top, adr, n)
    BY ONLY <1>1, <1>2, <1>5, adr = g.nextFreeAdr, NewIs
  <2> QED BY <2>1, <2>2
<1>7. NoAdr \notin Fresh(f)
  BY DEF Fresh
<1> QED BY <1>1, <1>2, <1>4, <1>6, <1>7 DEF Added, Grown

\* A leaf behind the last one.
LEMMA GrowLinked ==
  ASSUME NEW g, NEW top, NEW b, NEW last, CanGrow(g, top, b, last, TRUE),
         NEW adr, adr = g.nextFreeAdr, NEW e, e = assignBuf(g, adr),
         NEW n, NewBehind(n, adr, last, e.nodes[last].next),
         NEW f, f = NewNodeIn(e, adr, n),
         NEW f2, f2 = [f EXCEPT !.nodes[last].next = adr]
  PROVE  Grown(g, f2, top, b, adr)
PROOF
<1>1. /\ top \in Nat /\ Store(g, top) /\ (\A a \in Fresh(g) : Near(g, a, 6)) /\ b \in DOMAIN g.nodes /\ Near(g, b, 6)
      /\ last \in DOMAIN g.nodes \ {b} /\ Near(g, last, 6) /\ g.nodes[last].next \notin Fresh(g)
  BY DEF CanGrow
<1>2. /\ adr \in Nat \ {Root} /\ adr \notin DOMAIN g.nodes /\ last \in Nat
      /\ IsNode(g.nodes[last]) /\ g.nodes[last].next \in DOMAIN g.nodes /\ \A a \in DOMAIN g.nodes : a \in Nat
  BY <1>1, StoreNodes DEF Store, NodeOK
<1>3. adr \notin Fresh(g)
  BY <1>2 DEF Fresh
<1>4. e.nodes[last] = g.nodes[last]
  BY <1>1, <1>2, <1>3, AssignNear
<1>5. PICK next : next = g.nodes[last].next
  OBVIOUS
<1>6. next \in DOMAIN g.nodes /\ next \in Int /\ NewBehind(n, adr, last, next)
  BY <1>2, <1>4, <1>5
<1>7. IsNode(n) /\ n.next = next /\ n.ct = 0
  BY <1>2, <1>6, NewBehindIs
<1>8. NodeOK(n, DOMAIN g.nodes \cup {adr}, top)
  BY <1>6, <1>7 DEF NodeOK
<1>9. Added(g, f, top, adr, n)
  <2>1. f = NewNodeIn(assignBuf(g, adr), adr, n)
    OBVIOUS
  <2>2. Added(g, NewNodeIn(assignBuf(g, adr), adr, n), top, adr, n)
    BY ONLY <1>1, <1>2, <1>8, adr = g.nextFreeAdr, NewIs
  <2> QED BY <2>1, <2>2
<1>10. /\ Store(f, top) /\ DOMAIN f.nodes = DOMAIN g.nodes \cup {adr} /\ f.nodes[adr] = n
       /\ \A a \in DOMAIN g.nodes : Same(f.nodes[a], g.nodes[a])
       /\ \A a \in DOMAIN g.nodes : Near(g, a, 6) => f.nodes[a] = g.nodes[a]
       /\ f.file[Root] = g.file[Root] /\ f.rootModified = g.rootModified
       /\ Fresh(f) = Fresh(g) \cup {adr} /\ Near(f, adr, 1)
       /\ \A a, p : p \in 1 .. 6 /\ Near(g, a, p) => Near(f, a, p + 1)
  BY <1>9 DEF Added
<1>11. PICK m : m = [f.nodes[last] EXCEPT !.next = adr]
  OBVIOUS
<1>12. f.nodes[last] = g.nodes[last] /\ NodeOK(f.nodes[last], DOMAIN f.nodes, top)
  BY <1>1, <1>10, StoreNodes, Zenon DEF Store
<1>13. NodeOK(m, DOMAIN f.nodes, top) /\ Same(m, f.nodes[last])
  <2>1. PICK k : k = f.nodes[last]
    OBVIOUS
  <2>2. IsNode(k) /\ (k.leaf => \A i \in 1 .. k.ct : k.ent[i].rec \in 1 .. top)
    BY <2>1, <1>12 DEF NodeOK
  <2>3. k \in NodeType /\ k.ct <= Len(k.ent)
    BY <2>2 DEF IsNode
  <2>4. m = [leaf |-> k.leaf, ct |-> k.ct, prev |-> k.prev, next |-> adr, lt |-> k.lt, ent |-> k.ent]
    BY <2>1, <2>3, <1>11 DEF NodeType
  <2>5. IsNode(m)
    BY <2>3, <2>4, <1>2 DEF IsNode, NodeType
  <2>6. m.next \in DOMAIN f.nodes
    BY <2>4, <1>10
  <2> QED BY <2>1, <2>2, <2>4, <2>5, <2>6 DEF NodeOK, Same
<1>14. f2 = PutNode(f, last, m)
  BY <1>11 DEF PutNode
<1>15. HasPut(f, f2, top, last, m)
  <2>1. last \in DOMAIN f.nodes /\ Store(f, top)
    BY <1>1, <1>10
  <2>2. HasPut(f, PutNode(f, last, m), top, last, m)
    BY ONLY <2>1, <1>13, PutStore
  <2> QED BY <2>2, <1>14
<1>16. /\ Store(f2, top) /\ DOMAIN f2.nodes = DOMAIN f.nodes /\ f2.nodes[last] = m
       /\ \A a \in DOMAIN f.nodes : a # last => f2.nodes[a] = f.nodes[a]
       /\ f2.file = f.file /\ f2.bufs = f.bufs /\ f2.rootModified = f.rootModified /\ Fresh(f2) = Fresh(f)
  BY <1>15 DEF HasPut
<1>17. \A a, p : Near(f2, a, p) <=> Near(f, a, p)
  BY <1>16 DEF Near
<1>18. \A a \in DOMAIN g.nodes : Same(f2.nodes[a], g.nodes[a])
  BY <1>10, <1>12, <1>13, <1>16
<1>19. f2.nodes[b] = g.nodes[b]
  BY <1>1, <1>10, <1>16
<1>20. f2.nodes[adr].next \notin Fresh(f2)
  <2>1. f2.nodes[adr] = n
    BY <1>1, <1>2, <1>10, <1>16
  <2>2. next \notin Fresh(g) \cup {adr}
    BY <1>1, <1>2, <1>5, <1>6
  <2> QED BY <2>1, <2>2, <1>7, <1>10, <1>16
<1> QED BY <1>2, <1>10, <1>16, <1>17, <1>18, <1>19, <1>20 DEF Grown

\* How many nodes the keys take.
MoreNodes(c, G, leaf) == c.iu = 0 \/ G > AtMostM(c.iu, leaf)
FewerNodes(c, G, leaf) == ~MoreNodes(c, G, leaf) /\ c.iu > 1 /\ G < AtLeastM(c.iu, leaf)
UsesMore(c, d, k) == d.is = c.is /\ d.iu = c.iu + k /\ d.buf = c.buf /\ d.tree = c.tree /\ d.pkey = c.pkey

\* The bounds in numbers.
Bounds(leaf, n) ==
  IF leaf THEN /\ AtMostM(2, leaf) = 4 * n /\ AtMostM(3, leaf) = 6 * n /\ AtMostM(4, leaf) = 8 * n
               /\ AtLeastM(2, leaf) = 2 * n + 2 /\ AtLeastM(3, leaf) = 3 * n + 3 /\ AtLeastM(4, leaf) = 4 * n + 4
  ELSE /\ AtMostM(2, leaf) = 4 * n + 1 /\ AtMostM(3, leaf) = 6 * n + 2 /\ AtMostM(4, leaf) = 8 * n + 3
       /\ AtLeastM(2, leaf) = 2 * n + 3 /\ AtLeastM(3, leaf) = 3 * n + 5 /\ AtLeastM(4, leaf) = 4 * n + 7

\* The bounds of scatter, for two, three and four nodes.
LEMMA BoundsAre ==
  ASSUME OddRoom, NEW leaf \in BOOLEAN
  PROVE  Bounds(leaf, Half)
PROOF
<1>1. MaxCt \in Nat /\ Half \in Nat /\ MaxCt = 2 * Half + 1 /\ Half >= 3
  BY HalfIs
<1>2. (MaxCt + 1) \div 2 = Half + 1
  BY <1>1
<1>3. /\ AtMostM(2, TRUE) = 2 * Half + (2 - 1) * (2 * Half) /\ AtMostM(3, TRUE) = 2 * Half + (3 - 1) * (2 * Half)
      /\ AtMostM(4, TRUE) = 2 * Half + (4 - 1) * (2 * Half)
      /\ AtLeastM(2, TRUE) = (Half + 1) + (2 - 1) * (Half + 1) /\ AtLeastM(3, TRUE) = (Half + 1) + (3 - 1) * (Half + 1)
      /\ AtLeastM(4, TRUE) = (Half + 1) + (4 - 1) * (Half + 1)
  <2>1. MaxCt - 1 = 2 * Half
    BY ONLY <1>1
  <2> QED BY ONLY <2>1 DEF AtMostM, AtLeastM
<1>4. /\ AtMostM(2, TRUE) = 4 * Half /\ AtMostM(3, TRUE) = 6 * Half /\ AtMostM(4, TRUE) = 8 * Half
      /\ AtLeastM(2, TRUE) = 2 * Half + 2 /\ AtLeastM(3, TRUE) = 3 * Half + 3 /\ AtLeastM(4, TRUE) = 4 * Half + 4
  <2>1. Half \in Nat
    BY <1>1
  <2>2. /\ 2 * Half + (2 - 1) * (2 * Half) = 4 * Half /\ 2 * Half + (3 - 1) * (2 * Half) = 6 * Half
        /\ 2 * Half + (4 - 1) * (2 * Half) = 8 * Half
        /\ (Half + 1) + (2 - 1) * (Half + 1) = 2 * Half + 2 /\ (Half + 1) + (3 - 1) * (Half + 1) = 3 * Half + 3
        /\ (Half + 1) + (4 - 1) * (Half + 1) = 4 * Half + 4
    BY ONLY <2>1
  <2> QED BY ONLY <2>2, <1>3, Zenon
<1>4a. /\ AtMostM(2, FALSE) = 2 * Half + (2 - 1) * MaxCt /\ AtMostM(3, FALSE) = 2 * Half + (3 - 1) * MaxCt
       /\ AtMostM(4, FALSE) = 2 * Half + (4 - 1) * MaxCt
       /\ AtLeastM(2, FALSE) = (Half + 1) + (2 - 1) * ((Half + 1) + 1) /\ AtLeastM(3, FALSE) = (Half + 1) + (3 - 1) * ((Half + 1) + 1)
       /\ AtLeastM(4, FALSE) = (Half + 1) + (4 - 1) * ((Half + 1) + 1)
  <2>1. MaxCt - 1 = 2 * Half
    BY ONLY <1>1
  <2> QED BY ONLY <2>1, <1>2 DEF AtMostM, AtLeastM
<1>5. /\ AtMostM(2, FALSE) = 4 * Half + 1 /\ AtMostM(3, FALSE) = 6 * Half + 2 /\ AtMostM(4, FALSE) = 8 * Half + 3
      /\ AtLeastM(2, FALSE) = 2 * Half + 3 /\ AtLeastM(3, FALSE) = 3 * Half + 5 /\ AtLeastM(4, FALSE) = 4 * Half + 7
  <2>1. Half \in Nat /\ MaxCt = 2 * Half + 1
    BY <1>1
  <2>2. /\ 2 * Half + (2 - 1) * MaxCt = 4 * Half + 1 /\ 2 * Half + (3 - 1) * MaxCt = 6 * Half + 2
        /\ 2 * Half + (4 - 1) * MaxCt = 8 * Half + 3
        /\ (Half + 1) + (2 - 1) * ((Half + 1) + 1) = 2 * Half + 3 /\ (Half + 1) + (3 - 1) * ((Half + 1) + 1) = 3 * Half + 5
        /\ (Half + 1) + (4 - 1) * ((Half + 1) + 1) = 4 * Half + 7
    BY ONLY <2>1
  <2> QED BY ONLY <2>2, <1>4a, Zenon
<1>6. Bounds(TRUE, Half) /\ Bounds(FALSE, Half)
  BY ONLY <1>4, <1>5 DEF Bounds
<1>7. leaf = TRUE \/ leaf = FALSE
  OBVIOUS
<1> QED BY ONLY <1>6, <1>7

\* Nodes are added only for a root that is split, or when three full nodes
\* become four.
LEMMA MoreAmount ==
  ASSUME OddRoom, NEW c, NEW oct \in Nat, NEW G, NEW leaf \in BOOLEAN, Amount(c, oct, G, leaf), MoreNodes(c, G, leaf),
         NEW d, UsesMore(c, d, 1)
  PROVE  /\ Amount(d, oct, G, leaf) /\ c.iu \in 0 .. 3
         /\ (c.is = 0 /\ c.buf = Root) \/ (c.is = 3 /\ c.iu = 3)
PROOF
<1>1. MaxCt \in Nat /\ Half \in Nat /\ MaxCt = 2 * Half + 1 /\ Half >= 3
  BY HalfIs
<1>2. d.is = c.is /\ d.iu = c.iu + 1 /\ d.buf = c.buf /\ d.tree = c.tree /\ d.pkey = c.pkey
  BY DEF UsesMore
<1>3. IsWrite(d) <=> IsWrite(c)
  BY <1>2 DEF IsWrite
<1>4. PICK e : e = IF leaf THEN 0 ELSE 2
  OBVIOUS
<1>4a. e \in {0, 2}
  BY <1>4
<1>5. Bounds(leaf, Half)
  BY BoundsAre
<1>6. /\ AtMostM(4, leaf) >= 8 * Half + e /\ AtMostM(3, leaf) >= 6 * Half + e /\ AtMostM(2, leaf) >= 4 * Half + (e \div 2)
      /\ AtLeastM(3, leaf) <= 3 * Half + 3 + e
      /\ AtMostM(4, leaf) \in Nat /\ AtMostM(3, leaf) \in Nat /\ AtMostM(2, leaf) \in Nat /\ AtLeastM(3, leaf) \in Nat
  <2>1. CASE leaf = TRUE
    <3>1. e = 0 /\ e \div 2 = 0
      BY <2>1, <1>4
    <3>2. /\ AtMostM(2, leaf) = 4 * Half /\ AtMostM(3, leaf) = 6 * Half /\ AtMostM(4, leaf) = 8 * Half
          /\ AtLeastM(3, leaf) = 3 * Half + 3
      BY <2>1, <1>5 DEF Bounds
    <3> QED BY ONLY <3>1, <3>2, <1>1
  <2>2. CASE leaf = FALSE
    <3>1. e = 2 /\ e \div 2 = 1
      BY <2>2, <1>4
    <3>2. /\ AtMostM(2, leaf) = 4 * Half + 1 /\ AtMostM(3, leaf) = 6 * Half + 2 /\ AtMostM(4, leaf) = 8 * Half + 3
          /\ AtLeastM(3, leaf) = 3 * Half + 5
      BY <2>2, <1>5 DEF Bounds
    <3> QED BY ONLY <3>1, <3>2, <1>1
  <2> QED BY <2>1, <2>2
<1>7. c.iu = 0 \/ G > AtMostM(c.iu, leaf)
  BY DEF MoreNodes
<1>8. CASE c.is = 0 /\ c.buf = Root /\ c.pkey = 0 /\ IsWrite(c) /\ G = 3 * MaxCt /\ c.iu \in 0 .. 4
  <2>1. c.iu # 4
    <3>1. SUFFICES ASSUME c.iu = 4 PROVE FALSE
      OBVIOUS
    <3>2. G > AtMostM(4, leaf)
      BY <3>1, <1>7
    <3> QED BY ONLY <3>2, <1>1, <1>4a, <1>6, <1>8
  <2>2. c.iu \in 0 .. 3
    BY <2>1, <1>8
  <2>3. d.iu \in 0 .. 4
    BY <2>2, <1>2
  <2>4. Amount(d, oct, G, leaf)
    BY <2>3, <1>2, <1>3, <1>8 DEF Amount
  <2> QED BY <2>2, <2>4, <1>8
<1>9. CASE /\ c.is = 3 /\ IsWrite(c)
           /\ oct + 2 < (IF c.buf = Root THEN 3 * MaxCt ELSE MaxCt)
           /\ c.buf # Root => oct + 2 >= Half
           /\ G \in (4 * Half + 1 + e) .. (3 * MaxCt + e)
           /\ c.iu = 3 \/ (c.iu = 4 /\ G > AtMostM(3, leaf))
  <2>1. c.iu # 4
    <3>1. SUFFICES ASSUME c.iu = 4 PROVE FALSE
      OBVIOUS
    <3>2. G > AtMostM(4, leaf)
      BY <3>1, <1>7
    <3>3. G \in (4 * Half + 1 + e) .. (3 * MaxCt + e)
      BY <1>9
    <3> QED BY ONLY <3>2, <3>3, <1>1, <1>4a, <1>6
  <2>2. c.iu = 3 /\ G > AtMostM(3, leaf)
    BY <2>1, <1>7, <1>9
  <2>3. d.iu = 4
    BY <2>2, <1>2
  <2>4. Amount(d, oct, G, leaf)
    BY <2>2, <2>3, <1>2, <1>3, <1>4, <1>9 DEF Amount
  <2> QED BY <2>2, <2>4, <1>9
<1>10. ~(G \in (3 * Half + e) .. (5 * Half + 2 + e) /\ (c.iu = 3 \/ (c.iu = 2 /\ G < AtLeastM(3, leaf))))
  <2> SUFFICES ASSUME G \in (3 * Half + e) .. (5 * Half + 2 + e),
                      c.iu = 3 \/ (c.iu = 2 /\ G < AtLeastM(3, leaf))
               PROVE  FALSE
    OBVIOUS
  <2>1. CASE c.iu = 3
    <3>1. G > AtMostM(3, leaf)
      BY <2>1, <1>7
    <3> QED BY ONLY <3>1, <1>1, <1>4a, <1>6, G \in (3 * Half + e) .. (5 * Half + 2 + e)
  <2>2. CASE c.iu = 2 /\ G < AtLeastM(3, leaf)
    <3>1. G > AtMostM(2, leaf) /\ G < AtLeastM(3, leaf)
      BY <2>2, <1>7
    <3> QED BY ONLY <3>1, <1>1, <1>4a, <1>6, G \in (3 * Half + e) .. (5 * Half + 2 + e)
  <2> QED BY <2>1, <2>2
<1> QED BY <1>4, <1>8, <1>9, <1>10 DEF Amount

\* A step of the scatter that changes no keys.
KeepsScatter(g, c, f, d, top, t, N) ==
  /\ CallOf(d) /\ KeepsCall(c, d) /\ KeepsWay(c, d) /\ d.pc = "scatter"
  /\ d.gbuf = c.gbuf /\ d.pkey = c.pkey /\ d.is = c.is
  /\ Store(f, top) /\ f.nodes[c.buf] = g.nodes[c.buf]
  /\ \A a \in DOMAIN g.nodes : a \in DOMAIN f.nodes /\ Same(f.nodes[a], g.nodes[a])
  /\ f.file[Root] = g.file[Root] /\ f.rootModified = g.rootModified
  /\ \A a \in DOMAIN g.nodes : a \in Tmp(d) => a \in Tmp(c)
  /\ Whole(f, d) = Whole(g, c) /\ DOMAIN N \subseteq DOMAIN f.nodes \cup {Whole(f, d)}
  /\ Amount(d, N[c.buf].ct, Len(c.gbuf.ent), c.gbuf.leaf) /\ TmpOK(f, d, t.T)

\* A step that leaves the keys and the nodes a reader sees keeps the invariant
\* of a scatter.
LEMMA ScatterKept ==
  ASSUME NEW g, NEW c, NEW f, NEW d, NEW hd, NEW top, NEW t, NEW P, NEW N,
         ScatterOK(g, c, hd, top, t, P, N), KeepsScatter(g, c, f, d, top, t, N)
  PROVE  ScatterOK(f, d, hd, top, t, P, N)
PROOF
<1>1. /\ c.pc = "scatter" /\ Running(c, hd, top) /\ Store(g, top) /\ t.K[Root] = KeysHeld(c, hd)
      /\ c.buf = Root \/ RootKept(g, t.T \cup Tmp(c))
      /\ IsTree(N, t) /\ DOMAIN N \subseteq DOMAIN g.nodes \cup {Whole(g, c)} /\ PathOK(N, t, P, c) /\ KeyTree(c)
      /\ Whole(g, c) \in t.T \ {Root, c.buf} /\ Gathered(c, N[Whole(g, c)])
      /\ c.buf \in DOMAIN g.nodes /\ JoinedOf(N[c.buf], g.nodes[c.buf], c.pkey, c.is)
      /\ Child(N[c.buf], c.pkey) = Whole(g, c) /\ Routes(N[c.buf], c.pkey, c.key)
      /\ \A a \in t.T \ {c.buf, Whole(g, c)} : a \in DOMAIN g.nodes /\ Same(N[a], g.nodes[a])
      /\ Sizes(g.nodes, t.T \ {c.buf, Whole(g, c)})
      /\ c.is = 3 => ~g.nodes[c.buf].leaf
  BY DEF ScatterOK
<1>2. /\ CallOf(d) /\ KeepsCall(c, d) /\ KeepsWay(c, d) /\ d.pc = "scatter"
      /\ d.gbuf = c.gbuf /\ d.pkey = c.pkey /\ d.is = c.is
      /\ Store(f, top) /\ f.nodes[c.buf] = g.nodes[c.buf]
      /\ \A a \in DOMAIN g.nodes : a \in DOMAIN f.nodes /\ Same(f.nodes[a], g.nodes[a])
      /\ f.file[Root] = g.file[Root] /\ f.rootModified = g.rootModified
      /\ \A a \in DOMAIN g.nodes : a \in Tmp(d) => a \in Tmp(c)
      /\ Whole(f, d) = Whole(g, c) /\ DOMAIN N \subseteq DOMAIN f.nodes \cup {Whole(f, d)}
      /\ Amount(d, N[c.buf].ct, Len(c.gbuf.ent), c.gbuf.leaf) /\ TmpOK(f, d, t.T)
  BY DEF KeepsScatter
<1>3. Running(d, hd, top) /\ KeyTree(d) /\ KeysHeld(d, hd) = KeysHeld(c, hd)
  <2>1. d = RunningRec(d) /\ d.pc # "return" /\ c.pc # "return"
    BY <1>1, <1>2 DEF CallOf
  <2>2. Running(d, hd, top)
    BY <2>1, <1>1, <1>2, CallKept
  <2>3. KeyTree(d) /\ KeysHeld(d, hd) = KeysHeld(c, hd)
    BY <2>1, <1>1, <1>2, KeepsSorts
  <2> QED BY <2>2, <2>3
<1>4. d.buf = c.buf /\ d.ge = c.ge /\ d.at = c.at /\ d.lt = c.lt /\ d.key = c.key
  BY <1>2 DEF KeepsCall, KeepsWay
<1>5. PathOK(N, t, P, d)
  BY <1>1, <1>3, <1>4 DEF PathOK, Guard
<1>6. d.buf = Root \/ RootKept(f, t.T \cup Tmp(d))
  <2>1. ASSUME RootKept(g, t.T \cup Tmp(c)) PROVE RootKept(f, t.T \cup Tmp(d))
    <3>1. PICK T : T = t.T \cup Tmp(c)
      OBVIOUS
    <3>2. PICK S : S = t.T \cup Tmp(d)
      OBVIOUS
    <3>3. \A a \in DOMAIN g.nodes \ T : a \in DOMAIN f.nodes \ S /\ Same(f.nodes[a], g.nodes[a])
      BY <3>1, <3>2, <1>2
    <3>4. Same(f.nodes[Root], g.nodes[Root])
      <4>1. Root \in DOMAIN g.nodes
        BY <1>1, StoreNodes DEF Store
      <4> QED BY <4>1, <1>2
    <3>5. RootKept(g, T)
      BY <2>1, <3>1
    <3>6. RootKept(f, S)
      BY ONLY <3>3, <3>4, <3>5, <1>2, RootKeptOn
    <3> QED BY <3>2, <3>6
  <2> QED BY <2>1, <1>1, <1>4
<1>7. \A a \in t.T \ {d.buf, Whole(f, d)} : a \in DOMAIN f.nodes /\ Same(N[a], f.nodes[a])
  <2> TAKE a \in t.T \ {d.buf, Whole(f, d)}
  <2>1. a \in DOMAIN g.nodes /\ Same(N[a], g.nodes[a]) /\ a \in DOMAIN f.nodes /\ Same(f.nodes[a], g.nodes[a])
    BY <1>1, <1>2, <1>4
  <2> QED BY <2>1 DEF Same
<1>8. Sizes(f.nodes, t.T \ {d.buf, Whole(f, d)})
  BY <1>1, <1>2, <1>4 DEF Sizes, Same
<1>9. Gathered(d, N[Whole(f, d)])
  BY <1>1, <1>2 DEF Gathered
<1> QED BY <1>1, <1>2, <1>3, <1>4, <1>5, <1>6, <1>7, <1>8, <1>9 DEF ScatterOK

\* The nodes of the scatter, and one more.
Longer(x, k, y, q) == q = Append(SubSeq(x, 1, k), y)
IsLonger(x, k, y, q) ==
  q \in Seq(Nat) /\ Len(q) = k + 1 /\ q[k + 1] = y /\ \A i \in 1 .. k : q[i] = x[i]

\* The addresses of the nodes in use and a new one.
LEMMA LongerIs ==
  ASSUME NEW x \in Seq(Nat), NEW k \in Nat, k <= Len(x), NEW y \in Nat, NEW q, Longer(x, k, y, q)
  PROVE  IsLonger(x, k, y, q)
PROOF
<1>1. PICK s : s = SubSeq(x, 1, k)
  OBVIOUS
<1>2. s \in Seq(Nat) /\ Len(s) = k /\ \A i \in 1 .. k : s[i] = x[i]
  <2>1. Len(x) \in Nat /\ 1 \in 1 .. (Len(x) + 1) /\ k \in (1 - 1) .. Len(x)
    OBVIOUS
  <2> QED BY <2>1, <1>1, SubSeqProperties
<1>3. q = Append(s, y)
  BY <1>1 DEF Longer
<1>4. q \in Seq(Nat) /\ Len(q) = k + 1 /\ q[k + 1] = y /\ \A i \in 1 .. k : q[i] = s[i]
  BY <1>2, <1>3
<1> QED BY <1>2, <1>4 DEF IsLonger

\* The call when it has one more node.
AddsCall(c, adr) == [c EXCEPT !.iu = @ + 1, !.tmp = Append(SubSeq(@, 1, c.iu), adr)]
Added1(c, d, adr) ==
  /\ CallOf(d) /\ KeepsCall(c, d) /\ KeepsWay(c, d) /\ d.pc = c.pc /\ d.gbuf = c.gbuf /\ d.pkey = c.pkey
  /\ d.is = c.is /\ d.iu = c.iu + 1 /\ Longer(c.tmp, c.iu, adr, d.tmp)

\* The call with one node more.
LEMMA AddsCallIs ==
  ASSUME NEW c, CallOf(c), NEW adr, NEW d, d = AddsCall(c, adr)
  PROVE  Added1(c, d, adr)
PROOF
<1>1. PICK k : k = c.iu + 1
  OBVIOUS
<1>2. PICK q : q = Append(SubSeq(c.tmp, 1, c.iu), adr)
  OBVIOUS
<1>3. d = [c EXCEPT !.iu = k, !.tmp = q]
  BY <1>1, <1>2 DEF AddsCall
<1>4. d = [pc |-> c.pc, op |-> c.op, key |-> c.key, value |-> c.value, tree |-> c.tree, rec |-> c.rec,
           buf |-> c.buf, ge |-> c.ge, at |-> c.at, lt |-> c.lt, gbuf |-> c.gbuf, pkey |-> c.pkey,
           is |-> c.is, iu |-> k, tmp |-> q]
  BY ONLY <1>3, CallOf(c) DEF CallOf, RunningRec
<1>5. CallOf(d) /\ d.iu = k /\ d.tmp = q
  BY ONLY <1>4 DEF CallOf, RunningRec
<1>6. KeepsCall(c, d) /\ KeepsWay(c, d) /\ d.pc = c.pc /\ d.gbuf = c.gbuf /\ d.pkey = c.pkey /\ d.is = c.is
  BY ONLY <1>4 DEF KeepsCall, KeepsWay
<1> QED BY <1>1, <1>2, <1>5, <1>6 DEF Added1, Longer

\* What is known of a scatter.
ScatterAt(g, c, top, t, N, pos) ==
  /\ CallOf(c) /\ c.iu \in 0 .. 4 /\ c.is \in {0, 3} /\ (c.is = 0 => c.buf = Root) /\ (c.is = 3 => c.iu \in 2 .. 4)
  /\ pos \in 0 .. 6 /\ pos = (IF c.is = 0 THEN c.iu ELSE IF c.iu = 4 THEN 6 ELSE 5)
  /\ Store(g, top) /\ t.T \subseteq DOMAIN N /\ DOMAIN N \subseteq DOMAIN g.nodes \cup {Whole(g, c)}
  /\ c.buf \in DOMAIN g.nodes /\ Whole(g, c) # c.buf
  /\ \A i \in 1 .. c.iu : c.tmp[i] \in DOMAIN g.nodes \ {Root} /\ (i > 1 => c.tmp[i] \notin t.T) /\ Near(g, c.tmp[i], pos)
  /\ \A i, j \in 1 .. c.iu : c.tmp[i] = c.tmp[j] => i = j
  /\ Near(g, c.buf, pos) /\ c.buf \notin Tmp(c) /\ Fresh(g) \subseteq Tmp(c)
  /\ \A i \in 1 .. c.iu : i <= c.is => c.tmp[i] \notin Fresh(g)
  /\ \A a \in Tmp(c) : a \in DOMAIN g.nodes /\ Near(g, a, pos)
  /\ c.iu > 0 => g.nodes[c.tmp[c.iu]].next \notin Fresh(g)
  /\ c.tmp \in Seq(Nat) /\ c.iu <= Len(c.tmp) /\ c.gbuf.leaf \in BOOLEAN /\ N[c.buf].ct \in Nat
  /\ Amount(c, N[c.buf].ct, Len(c.gbuf.ent), c.gbuf.leaf)

\* What is known in a scatter, without the tree.
LEMMA ScatterAtIs ==
  ASSUME NEW g, NEW c, NEW hd, NEW top, NEW t, NEW P, NEW N, ScatterOK(g, c, hd, top, t, P, N)
  PROVE  \E pos : ScatterAt(g, c, top, t, N, pos)
PROOF
<1>1. /\ Running(c, hd, top) /\ Store(g, top)
      /\ IsTree(N, t) /\ DOMAIN N \subseteq DOMAIN g.nodes \cup {Whole(g, c)}
      /\ Whole(g, c) \in t.T \ {Root, c.buf} /\ Gathered(c, N[Whole(g, c)])
      /\ c.buf \in DOMAIN g.nodes /\ PathOK(N, t, P, c)
      /\ Amount(c, N[c.buf].ct, Len(c.gbuf.ent), c.gbuf.leaf) /\ TmpOK(g, c, t.T)
  BY DEF ScatterOK
<1>2. CallOf(c)
  BY <1>1 DEF Running, CallOf, RunningRec
<1>3. c.iu \in 0 .. 4 /\ c.is \in {0, 3} /\ (c.is = 0 => c.buf = Root) /\ (c.is = 3 => c.iu \in 2 .. 4)
  BY <1>1 DEF Amount
<1>4. PICK pos : pos = IF c.is = 0 THEN c.iu ELSE IF c.iu = 4 THEN 6 ELSE 5
  OBVIOUS
<1>5. pos \in 0 .. 6
  BY <1>3, <1>4
<1>6. /\ \A i \in 1 .. c.iu : c.tmp[i] \in DOMAIN g.nodes \ {Root} /\ (i > 1 => c.tmp[i] \notin t.T) /\ Near(g, c.tmp[i], pos)
      /\ \A i, j \in 1 .. c.iu : c.tmp[i] = c.tmp[j] => i = j
      /\ Near(g, c.buf, pos) /\ c.buf \notin Tmp(c) /\ Fresh(g) \subseteq Tmp(c)
      /\ \A i \in 1 .. c.iu : i <= c.is => c.tmp[i] \notin Fresh(g)
      /\ c.iu > 0 => g.nodes[c.tmp[c.iu]].next \notin Fresh(g)
      /\ c.tmp \in Seq(Nat) /\ c.iu <= Len(c.tmp)
  BY <1>1, <1>4 DEF TmpOK
<1>7. \A a \in Tmp(c) : a \in DOMAIN g.nodes /\ Near(g, a, pos)
  BY <1>6 DEF Tmp
<1>8. c.gbuf.leaf \in BOOLEAN /\ N[c.buf].ct \in Nat /\ t.T \subseteq DOMAIN N
  <2>1. IsNode(N[Whole(g, c)]) /\ c.buf \in t.T /\ t.T \subseteq DOMAIN N
    BY <1>1 DEF IsTree, PathOK
  <2>2. IsNode(N[c.buf])
    BY <2>1, <1>1 DEF IsTree
  <2> QED BY <2>1, <2>2, <1>1, NodeParts DEF Gathered
<1>9. Whole(g, c) # c.buf
  BY <1>1
<1>10. ScatterAt(g, c, top, t, N, pos)
  BY <1>1, <1>2, <1>3, <1>4, <1>5, <1>6, <1>7, <1>8, <1>9 DEF ScatterAt
<1> QED BY <1>10

GrownTmp(g, c, f, d, t, N) ==
  /\ TmpOK(f, d, t.T) /\ Whole(f, d) = Whole(g, c) /\ DOMAIN N \subseteq DOMAIN f.nodes \cup {Whole(f, d)}
  /\ \A a \in DOMAIN g.nodes : a \in Tmp(d) => a \in Tmp(c)

\* The nodes in use, with the new one, are distinct, in buffers, and not in the
\* tree.
LEMMA GrownTmpIs ==
  ASSUME NEW g, NEW c, NEW top, NEW t, NEW N, NEW pos, ScatterAt(g, c, top, t, N, pos),
         c.iu \in 0 .. 3, c.is = 3 => c.iu = 3,
         NEW adr, adr = g.nextFreeAdr, NEW f, Grown(g, f, top, c.buf, adr), NEW d, Added1(c, d, adr)
  PROVE  GrownTmp(g, c, f, d, t, N)
PROOF
<1>1. /\ c.is \in {0, 3} /\ (c.is = 0 => c.buf = Root)
      /\ pos \in 0 .. 6 /\ pos = (IF c.is = 0 THEN c.iu ELSE IF c.iu = 4 THEN 6 ELSE 5)
      /\ t.T \subseteq DOMAIN N /\ DOMAIN N \subseteq DOMAIN g.nodes \cup {Whole(g, c)}
      /\ c.buf \in DOMAIN g.nodes /\ Whole(g, c) # c.buf
      /\ \A i \in 1 .. c.iu : c.tmp[i] \in DOMAIN g.nodes \ {Root} /\ (i > 1 => c.tmp[i] \notin t.T) /\ Near(g, c.tmp[i], pos)
      /\ \A i, j \in 1 .. c.iu : c.tmp[i] = c.tmp[j] => i = j
      /\ Near(g, c.buf, pos) /\ c.buf \notin Tmp(c) /\ Fresh(g) \subseteq Tmp(c)
      /\ \A i \in 1 .. c.iu : i <= c.is => c.tmp[i] \notin Fresh(g)
      /\ c.tmp \in Seq(Nat) /\ c.iu <= Len(c.tmp)
  BY DEF ScatterAt
<1>2. /\ DOMAIN f.nodes = DOMAIN g.nodes \cup {adr} /\ adr \notin DOMAIN g.nodes /\ adr \in Nat \ {Root}
      /\ Fresh(f) = Fresh(g) \cup {adr} /\ Near(f, adr, 1) /\ f.nodes[adr].next \notin Fresh(f)
      /\ \A a, p : p \in 1 .. 6 /\ Near(g, a, p) => Near(f, a, p + 1)
  BY DEF Grown
<1>3. PICK k \in 0 .. 3 : k = c.iu
  OBVIOUS
<1>4. d.buf = c.buf /\ d.is = c.is /\ d.iu = k + 1 /\ Longer(c.tmp, k, adr, d.tmp)
  BY <1>3 DEF Added1, KeepsWay
<1>5. IsLonger(c.tmp, k, adr, d.tmp)
  BY <1>1, <1>2, <1>3, <1>4, LongerIs
<1>6. d.tmp \in Seq(Nat) /\ Len(d.tmp) = k + 1 /\ d.tmp[k + 1] = adr /\ \A i \in 1 .. k : d.tmp[i] = c.tmp[i]
  BY <1>5 DEF IsLonger
<1>7. PICK q : q = IF d.is = 0 THEN d.iu ELSE IF d.iu = 4 THEN 6 ELSE 5
  OBVIOUS
<1>8. q = pos + 1 /\ q \in 1 .. 7 /\ pos \in 0 .. 6
  BY <1>1, <1>3, <1>4, <1>7
<1>9. \A a : Near(g, a, pos) => Near(f, a, q)
  <2> TAKE a
  <2> HAVE Near(g, a, pos)
  <2>1. CASE pos = 0
    BY <2>1 DEF Near
  <2>2. CASE pos # 0
    <3>1. pos \in 1 .. 6
      BY <1>8, <2>2
    <3> QED BY <3>1, <1>2, <1>8
  <2> QED BY <2>1, <2>2
<1>10. Near(f, adr, q)
  <2>1. 1 \in Int /\ q \in Int /\ 1 <= q
    BY <1>8
  <2> QED BY <2>1, <1>2, NearMore
<1>11. \A i \in 1 .. (k + 1) : i = k + 1 \/ i \in 1 .. k
  BY <1>3
<1>12. k > 0 => adr \notin t.T
  <2>1. ASSUME k > 0 PROVE Whole(g, c) \in DOMAIN g.nodes
    <3>1. Whole(g, c) = c.tmp[1] /\ 1 \in 1 .. c.iu
      BY <2>1, <1>3 DEF Whole
    <3> QED BY <3>1, <1>1
  <2> QED BY <2>1, <1>1, <1>2
<1>13. \A i \in 1 .. (k + 1) : d.tmp[i] \in DOMAIN f.nodes \ {Root} /\ (i > 1 => d.tmp[i] \notin t.T) /\ Near(f, d.tmp[i], q)
  <2> TAKE i \in 1 .. (k + 1)
  <2>1. CASE i = k + 1
    <3>1. i > 1 => k > 0
      BY <2>1
    <3> QED BY <2>1, <3>1, <1>2, <1>6, <1>10, <1>12
  <2>2. CASE i \in 1 .. k
    BY <2>2, <1>1, <1>2, <1>3, <1>6, <1>9
  <2> QED BY <2>1, <2>2, <1>11
<1>14. \A i, j \in 1 .. (k + 1) : d.tmp[i] = d.tmp[j] => i = j
  <2> TAKE i, j \in 1 .. (k + 1)
  <2> HAVE d.tmp[i] = d.tmp[j]
  <2>0. \A m \in 1 .. k : d.tmp[m] \in DOMAIN g.nodes /\ d.tmp[m] # adr
    <3> TAKE m \in 1 .. k
    <3>1. d.tmp[m] = c.tmp[m] /\ m \in 1 .. c.iu
      BY ONLY <1>3, <1>6, m \in 1 .. k
    <3>2. c.tmp[m] \in DOMAIN g.nodes
      BY ONLY <1>1, <3>1
    <3> QED BY ONLY <1>2, <3>1, <3>2
  <2>1. CASE i \in 1 .. k /\ j \in 1 .. k
    BY <2>1, <1>1, <1>3, <1>6
  <2>2. CASE i = k + 1 /\ j \in 1 .. k
    BY ONLY <2>0, <2>2, <1>6, d.tmp[i] = d.tmp[j]
  <2>3. CASE j = k + 1 /\ i \in 1 .. k
    BY ONLY <2>0, <2>3, <1>6, d.tmp[i] = d.tmp[j]
  <2> QED BY <2>1, <2>2, <2>3, <1>11
<1>15. Tmp(d) = Tmp(c) \cup {adr}
  <2>1. \A i \in 1 .. (k + 1) : d.tmp[i] \in Tmp(c) \cup {adr}
    BY <1>3, <1>6, <1>11 DEF Tmp
  <2>2. \A i \in 1 .. k : c.tmp[i] = d.tmp[i] /\ i \in 1 .. (k + 1)
    BY <1>3, <1>6
  <2>3. k + 1 \in 1 .. (k + 1)
    BY <1>3
  <2>4. Tmp(d) \subseteq Tmp(c) \cup {adr}
    BY <2>1, <1>4 DEF Tmp
  <2>5. Tmp(c) \subseteq Tmp(d)
    BY <2>2, <1>3, <1>4 DEF Tmp
  <2>6. adr \in Tmp(d)
    BY <2>3, <1>4, <1>6 DEF Tmp
  <2> QED BY <2>4, <2>5, <2>6
<1>16. TmpOK(f, d, t.T)
  <2>1. Near(f, d.buf, q) /\ d.buf \notin Tmp(d) /\ Fresh(f) \subseteq Tmp(d)
    BY <1>1, <1>2, <1>4, <1>9, <1>15
  <2>2. d.iu > 0 => f.nodes[d.tmp[d.iu]].next \notin Fresh(f)
    BY <1>2, <1>4, <1>6
  <2>3. d.iu <= Len(d.tmp)
    BY <1>3, <1>4, <1>6
  <2>4. \A i \in 1 .. d.iu : i <= d.is => d.tmp[i] \notin Fresh(f)
    <3> TAKE i \in 1 .. d.iu
    <3> HAVE i <= d.is
    <3>1. k + 1 > c.is
      BY <1>1, <1>3
    <3>2. i \in 1 .. k
      BY <3>1, <1>1, <1>3, <1>4
    <3>3. d.tmp[i] = c.tmp[i] /\ i \in 1 .. c.iu
      BY ONLY <3>2, <1>3, <1>6
    <3>4. c.tmp[i] \notin Fresh(g) /\ c.tmp[i] \in DOMAIN g.nodes
      BY <3>3, <1>1, <1>4
    <3> QED BY <3>3, <3>4, <1>2
  <2> QED BY <2>1, <2>2, <2>3, <2>4, <1>4, <1>6, <1>7, <1>13, <1>14 DEF TmpOK
<1>17. Whole(f, d) = Whole(g, c)
  <2>1. d.iu # 0
    BY <1>3, <1>4
  <2>2. Whole(f, d) = d.tmp[1]
    BY <2>1 DEF Whole
  <2>3. CASE k = 0
    BY <2>2, <2>3, <1>3, <1>6 DEF Whole
  <2>4. CASE k # 0
    <3>1. 1 \in 1 .. k
      BY <2>4, <1>3
    <3> QED BY <2>2, <2>4, <3>1, <1>3, <1>6 DEF Whole
  <2> QED BY <2>3, <2>4
<1>18. DOMAIN N \subseteq DOMAIN f.nodes \cup {Whole(f, d)}
  BY <1>1, <1>2, <1>17
<1>19. \A a \in DOMAIN g.nodes : a \in Tmp(d) => a \in Tmp(c)
  BY <1>2, <1>15
<1> QED BY <1>16, <1>17, <1>18, <1>19 DEF GrownTmp

\* What AddNode computes.
LinkedNode(f2, hh, adr, last) ==
  \E e, n, f : /\ e = assignBuf(hh, adr) /\ NewBehind(n, adr, last, e.nodes[last].next)
               /\ f = NewNodeIn(e, adr, n) /\ f2 = [f EXCEPT !.nodes[last].next = adr]
AloneNode(f, hh, adr) == f = NewNodeIn(assignBuf(hh, adr), adr, NewNode(adr))
AddsNode(adr, d) ==
  /\ adr = h.nextFreeAdr /\ d = AddsCall(call, adr) /\ call' = d
  /\ \/ (call.iu = 0 \/ ~call.gbuf.leaf) /\ AloneNode(h', h, adr)
     \/ call.iu > 0 /\ call.gbuf.leaf /\ LinkedNode(h', h, adr, call.tmp[call.iu])

\* What AddNode computes.
LEMMA AddNodeIs ==
  ASSUME AddNode, call.iu \in Nat
  PROVE  /\ \E adr, d : AddsNode(adr, d)
         /\ call.pc = "scatter" /\ MoreNodes(call, Len(call.gbuf.ent), call.gbuf.leaf)
PROOF
<1> DEFINE adr == h.nextFreeAdr
           g == assignBuf(h, adr)
           last == call.tmp[call.iu]
           new == IF call.iu = 0 \/ ~call.gbuf.leaf THEN NewNode(adr)
                  ELSE [NewNode(adr) EXCEPT !.prev = last, !.next = g.nodes[last].next]
           f == [g EXCEPT !.nextFreeAdr = @ + 1,
                          !.nodes = [a \in DOMAIN g.nodes \cup {adr} |-> IF a = adr THEN new ELSE g.nodes[a]]]
<1>1. /\ call.pc = "scatter" /\ Adds
      /\ h' = (IF call.iu > 0 /\ call.gbuf.leaf THEN [f EXCEPT !.nodes[last].next = adr] ELSE f)
      /\ call' = [call EXCEPT !.iu = @ + 1, !.tmp = Append(SubSeq(@, 1, call.iu), adr)]
  BY Zenon DEF AddNode
<1>2. MoreNodes(call, Len(call.gbuf.ent), call.gbuf.leaf)
  BY <1>1 DEF Adds, MoreNodes, AtMost, AtMostM, GatherCt
<1>3. f = NewNodeIn(g, adr, new)
  <2> HIDE DEF adr, g, new
  <2> QED BY DEF NewNodeIn
<1>4. CASE call.iu = 0 \/ ~call.gbuf.leaf
  <2>1. new = NewNode(adr)
    BY <1>4
  <2>2. h' = f
    <3> HIDE DEF f, adr, last
    <3> QED BY <1>1, <1>4
  <2>3. AloneNode(h', h, adr)
    <3> HIDE DEF f, new, adr
    <3> QED BY <1>3, <2>1, <2>2 DEF AloneNode
  <2>4. AddsNode(adr, call')
    <3> HIDE DEF f, new, g, last
    <3> QED BY <2>3, <1>1, <1>4 DEF AddsNode, AddsCall
  <2> QED BY <2>4, <1>1, <1>2
<1>5. CASE call.iu > 0 /\ call.gbuf.leaf
  <2>1. NewBehind(new, adr, last, g.nodes[last].next)
    <3>1. ~(call.iu = 0 \/ ~call.gbuf.leaf)
      BY <1>5
    <3>2. new = [NewNode(adr) EXCEPT !.prev = last, !.next = g.nodes[last].next]
      <4> HIDE DEF adr, g, last
      <4> QED BY <3>1
    <3> HIDE DEF new, adr, g, last
    <3> QED BY <3>2 DEF NewBehind
  <2>2. h' = [f EXCEPT !.nodes[last].next = adr]
    <3> HIDE DEF f, adr, last
    <3> QED BY <1>1, <1>5
  <2>3. LinkedNode(h', h, adr, last)
    <3>1. g = assignBuf(h, adr)
      OBVIOUS
    <3> HIDE DEF f, new, adr, g, last
    <3> QED BY <3>1, <1>3, <2>1, <2>2 DEF LinkedNode
  <2>4. AddsNode(adr, call')
    <3>1. last = call.tmp[call.iu]
      OBVIOUS
    <3> HIDE DEF f, new, g, last
    <3> QED BY <2>3, <3>1, <1>1, <1>5 DEF AddsNode, AddsCall
  <2> QED BY <2>4, <1>1, <1>2
<1> QED BY <1>4, <1>5

\* AddNode keeps the invariant.
LEMMA AddNodeGood ==
  ASSUME OddRoom, NEW top \in Nat, NEW t, NEW P, NEW N, ScatterOK(h, call, held, top, t, P, N), AddNode
  PROVE  \E s, Q, M : Good(h', call', held, top, s, Q, M)
PROOF
<1>1. PICK pos : ScatterAt(h, call, top, t, N, pos)
  BY ScatterAtIs
<1>2. /\ CallOf(call) /\ call.iu \in 0 .. 4 /\ pos \in 0 .. 6
      /\ Store(h, top) /\ call.buf \in DOMAIN h.nodes
      /\ \A i \in 1 .. call.iu : call.tmp[i] \in DOMAIN h.nodes \ {Root} /\ Near(h, call.tmp[i], pos)
      /\ Near(h, call.buf, pos) /\ call.buf \notin Tmp(call) /\ Fresh(h) \subseteq Tmp(call)
      /\ \A a \in Tmp(call) : a \in DOMAIN h.nodes /\ Near(h, a, pos)
      /\ call.iu > 0 => h.nodes[call.tmp[call.iu]].next \notin Fresh(h)
      /\ call.gbuf.leaf \in BOOLEAN /\ N[call.buf].ct \in Nat
      /\ Amount(call, N[call.buf].ct, Len(call.gbuf.ent), call.gbuf.leaf)
  BY <1>1 DEF ScatterAt
<1>3. /\ call.pc = "scatter" /\ MoreNodes(call, Len(call.gbuf.ent), call.gbuf.leaf)
      /\ \E adr, d : AddsNode(adr, d)
  BY <1>2, AddNodeIs
<1>4. PICK adr, d : AddsNode(adr, d)
  BY <1>3
<1>5. /\ adr = h.nextFreeAdr /\ d = AddsCall(call, adr) /\ call' = d
      /\ \/ (call.iu = 0 \/ ~call.gbuf.leaf) /\ AloneNode(h', h, adr)
         \/ call.iu > 0 /\ call.gbuf.leaf /\ LinkedNode(h', h, adr, call.tmp[call.iu])
  BY <1>4 DEF AddsNode
<1>6. Added1(call, d, adr)
  BY <1>2, <1>5, AddsCallIs
<1>7. /\ CallOf(d) /\ KeepsCall(call, d) /\ KeepsWay(call, d) /\ d.pc = call.pc /\ d.gbuf = call.gbuf /\ d.pkey = call.pkey
      /\ d.is = call.is /\ d.iu = call.iu + 1
  BY <1>6 DEF Added1
<1>8. UsesMore(call, d, 1)
  BY <1>7 DEF UsesMore, KeepsCall, KeepsWay
<1>9. /\ Amount(d, N[call.buf].ct, Len(call.gbuf.ent), call.gbuf.leaf) /\ call.iu \in 0 .. 3
      /\ (call.is = 0 /\ call.buf = Root) \/ (call.is = 3 /\ call.iu = 3)
  <2>1. PICK oct \in Nat : oct = N[call.buf].ct
    BY <1>2
  <2>2. PICK leaf \in BOOLEAN : leaf = call.gbuf.leaf
    BY <1>2
  <2>3. PICK G : G = Len(call.gbuf.ent)
    OBVIOUS
  <2>4. Amount(call, oct, G, leaf) /\ MoreNodes(call, G, leaf)
    BY <2>1, <2>2, <2>3, <1>2, <1>3
  <2>5. /\ Amount(d, oct, G, leaf) /\ call.iu \in 0 .. 3
        /\ (call.is = 0 /\ call.buf = Root) \/ (call.is = 3 /\ call.iu = 3)
    BY ONLY <2>4, <1>8, OddRoom, MoreAmount, oct \in Nat, leaf \in BOOLEAN
  <2> QED BY <2>1, <2>2, <2>3, <2>5
<1>10. \A a : Near(h, a, pos) => Near(h, a, 6)
  <2>1. pos \in Int /\ 6 \in Int /\ pos <= 6
    BY <1>2
  <2> QED BY <2>1, NearMore
<1>11. \A a \in Fresh(h) : Near(h, a, 6)
  BY <1>2, <1>10
<1>12. Grown(h, h', top, call.buf, adr)
  <2>1. CASE AloneNode(h', h, adr)
    <3>1. CanGrow(h, top, call.buf, 0, FALSE)
      BY <1>2, <1>10, <1>11 DEF CanGrow
    <3> QED BY <3>1, <2>1, <1>5, GrowAlone DEF AloneNode
  <2>2. CASE call.iu > 0 /\ call.gbuf.leaf /\ LinkedNode(h', h, adr, call.tmp[call.iu])
    <3>1. PICK last : last = call.tmp[call.iu]
      OBVIOUS
    <3>2. call.iu \in 1 .. call.iu
      BY <2>2, <1>2
    <3>3. last \in Tmp(call)
      BY <3>1, <3>2 DEF Tmp
    <3>4. last \in DOMAIN h.nodes \ {call.buf} /\ Near(h, last, 6) /\ h.nodes[last].next \notin Fresh(h)
      BY <2>2, <3>1, <3>3, <1>2, <1>10
    <3>5. CanGrow(h, top, call.buf, last, TRUE)
      BY <3>4, <1>2, <1>10, <1>11 DEF CanGrow
    <3>6. PICK e, n, f : /\ e = assignBuf(h, adr) /\ NewBehind(n, adr, last, e.nodes[last].next)
                         /\ f = NewNodeIn(e, adr, n) /\ h' = [f EXCEPT !.nodes[last].next = adr]
      <4>1. LinkedNode(h', h, adr, last)
        BY ONLY <2>2, <3>1
      <4> QED BY ONLY <4>1, Zenon DEF LinkedNode
    <3> QED BY ONLY <3>5, <3>6, <1>5, GrowLinked
  <2> QED BY <2>1, <2>2, <1>5
<1>13. GrownTmp(h, call, h', d, t, N)
  <2>1. call.is = 3 => call.iu = 3
    BY <1>9
  <2> QED BY ONLY <2>1, <1>1, <1>5, <1>6, <1>9, <1>12, GrownTmpIs
<1>14. KeepsScatter(h, call, h', d, top, t, N)
  <2>1. /\ TmpOK(h', d, t.T) /\ Whole(h', d) = Whole(h, call) /\ DOMAIN N \subseteq DOMAIN h'.nodes \cup {Whole(h', d)}
        /\ \A a \in DOMAIN h.nodes : a \in Tmp(d) => a \in Tmp(call)
    BY <1>13 DEF GrownTmp
  <2>2. /\ Store(h', top) /\ DOMAIN h'.nodes = DOMAIN h.nodes \cup {adr}
        /\ \A a \in DOMAIN h.nodes : Same(h'.nodes[a], h.nodes[a])
        /\ h'.nodes[call.buf] = h.nodes[call.buf]
        /\ h'.file[Root] = h.file[Root] /\ h'.rootModified = h.rootModified
    BY <1>12 DEF Grown
  <2> QED BY <2>1, <2>2, <1>3, <1>7, <1>9 DEF KeepsScatter
<1>15. ScatterOK(h', d, held, top, t, P, N)
  BY <1>14, ScatterKept
<1> QED BY <1>5, <1>15 DEF Good

\* Only three nodes of a delete can become two.
LEMMA FewerAmount ==
  ASSUME OddRoom, NEW c, NEW oct \in Nat, NEW G, NEW leaf \in BOOLEAN, Amount(c, oct, G, leaf), c.iu > 1,
         G < AtLeastM(c.iu, leaf), NEW d, UsesMore(c, d, -1)
  PROVE  Amount(d, oct, G, leaf) /\ c.is = 3 /\ c.iu = 3
PROOF
<1>1. MaxCt \in Nat /\ Half \in Nat /\ MaxCt = 2 * Half + 1 /\ Half >= 3
  BY HalfIs
<1>2. d.is = c.is /\ d.iu = c.iu + -1 /\ d.buf = c.buf /\ d.tree = c.tree /\ d.pkey = c.pkey
  BY DEF UsesMore
<1>3. PICK e : e = IF leaf THEN 0 ELSE 2
  OBVIOUS
<1>4. e \in {0, 2}
  BY <1>3
<1>5. Bounds(leaf, Half)
  BY BoundsAre
<1>6. /\ AtLeastM(2, leaf) <= 3 * Half + e /\ AtLeastM(3, leaf) <= 4 * Half + 1 + e /\ AtLeastM(4, leaf) <= 6 * Half + 1 + e
      /\ AtLeastM(2, leaf) \in Nat /\ AtLeastM(3, leaf) \in Nat /\ AtLeastM(4, leaf) \in Nat
      /\ AtMostM(3, leaf) >= 6 * Half + e /\ AtMostM(3, leaf) \in Nat /\ AtLeastM(4, leaf) <= 6 * Half + 3
  <2>1. CASE leaf = TRUE
    <3>1. e = 0
      BY <2>1, <1>3
    <3>2. /\ AtLeastM(2, leaf) = 2 * Half + 2 /\ AtLeastM(3, leaf) = 3 * Half + 3 /\ AtLeastM(4, leaf) = 4 * Half + 4
          /\ AtMostM(3, leaf) = 6 * Half
      BY <2>1, <1>5 DEF Bounds
    <3> QED BY ONLY <3>1, <3>2, <1>1
  <2>2. CASE leaf = FALSE
    <3>1. e = 2
      BY <2>2, <1>3
    <3>2. /\ AtLeastM(2, leaf) = 2 * Half + 3 /\ AtLeastM(3, leaf) = 3 * Half + 5 /\ AtLeastM(4, leaf) = 4 * Half + 7
          /\ AtMostM(3, leaf) = 6 * Half + 2
      BY <2>2, <1>5 DEF Bounds
    <3> QED BY ONLY <3>1, <3>2, <1>1
  <2> QED BY <2>1, <2>2
<1>7. ~(G = 3 * MaxCt /\ c.iu \in 0 .. 4)
  <2> SUFFICES ASSUME G = 3 * MaxCt, c.iu \in 0 .. 4 PROVE FALSE
    OBVIOUS
  <2>1. c.iu \in {2, 3, 4}
    OBVIOUS
  <2>2. G = 6 * Half + 3
    BY <1>1
  <2>3. CASE c.iu = 2
    BY ONLY <2>2, <2>3, <1>1, <1>4, <1>6, G < AtLeastM(c.iu, leaf)
  <2>4. CASE c.iu = 3
    BY ONLY <2>2, <2>4, <1>1, <1>4, <1>6, G < AtLeastM(c.iu, leaf)
  <2>5. CASE c.iu = 4
    <3>1. G < AtLeastM(4, leaf)
      BY <2>5
    <3> QED BY ONLY <2>2, <3>1, <1>1, <1>6
  <2> QED BY <2>1, <2>3, <2>4, <2>5
<1>8. ~(/\ G \in (4 * Half + 1 + e) .. (3 * MaxCt + e)
        /\ (c.iu = 3 \/ (c.iu = 4 /\ G > AtMostM(3, leaf))))
  <2> SUFFICES ASSUME G \in (4 * Half + 1 + e) .. (3 * MaxCt + e),
                      c.iu = 3 \/ (c.iu = 4 /\ G > AtMostM(3, leaf)) PROVE FALSE
    OBVIOUS
  <2>1. CASE c.iu = 3
    <3>1. G < AtLeastM(3, leaf)
      BY <2>1
    <3> QED BY ONLY <3>1, <1>1, <1>4, <1>6, G \in (4 * Half + 1 + e) .. (3 * MaxCt + e)
  <2>2. CASE c.iu = 4 /\ G > AtMostM(3, leaf)
    <3>1. G < AtLeastM(4, leaf)
      BY <2>2
    <3> QED BY ONLY <2>2, <3>1, <1>1, <1>4, <1>6, G \in (4 * Half + 1 + e) .. (3 * MaxCt + e)
  <2> QED BY <2>1, <2>2
<1>9. CASE /\ c.is = 3 /\ c.tree = "delete"
           /\ G \in (3 * Half + e) .. (5 * Half + 2 + e)
           /\ c.buf # Root => oct + 2 >= Half + 1
           /\ c.buf = Root /\ oct = 0 => G >= (9 * MaxCt) \div 4
           /\ c.buf = Root => oct + 2 <= 3 * MaxCt
           /\ c.buf # Root => oct + 2 <= MaxCt
           /\ c.iu = 3 \/ (c.iu = 2 /\ G < AtLeastM(3, leaf))
  <2>1. c.iu # 2
    <3> SUFFICES ASSUME c.iu = 2 PROVE FALSE
      OBVIOUS
    <3>1. G < AtLeastM(2, leaf)
      OBVIOUS
    <3>2. G \in (3 * Half + e) .. (5 * Half + 2 + e)
      BY <1>9
    <3> QED BY ONLY <3>1, <3>2, <1>1, <1>4, <1>6
  <2>2. c.iu = 3 /\ G < AtLeastM(3, leaf)
    BY <2>1, <1>9
  <2>3. d.iu = 2
    BY <2>2, <1>2
  <2>4. Amount(d, oct, G, leaf)
    BY <2>2, <2>3, <1>2, <1>3, <1>9 DEF Amount
  <2> QED BY <2>2, <2>4, <1>9
<1> QED BY <1>3, <1>7, <1>8, <1>9 DEF Amount

\* A node with another link is the same to a reader of keys.
LEMMA NextChanged ==
  ASSUME NEW g, NEW top, Store(g, top), NEW a \in DOMAIN g.nodes, NEW y \in DOMAIN g.nodes,
         NEW f, f = [g EXCEPT !.nodes[a].next = y]
  PROVE  \E m : HasPut(g, f, top, a, m) /\ Same(m, g.nodes[a]) /\ m.next = y
PROOF
<1>1. PICK k : k = g.nodes[a]
  OBVIOUS
<1>2. PICK m : m = [k EXCEPT !.next = y]
  OBVIOUS
<1>3. NodeOK(k, DOMAIN g.nodes, top) /\ y \in Nat
  BY <1>1, StoreNodes DEF Store
<1>4. k \in NodeType /\ k.ct <= Len(k.ent) /\ (k.leaf => \A i \in 1 .. k.ct : k.ent[i].rec \in 1 .. top)
  BY <1>3 DEF NodeOK, IsNode
<1>5. m = [leaf |-> k.leaf, ct |-> k.ct, prev |-> k.prev, next |-> y, lt |-> k.lt, ent |-> k.ent]
  BY <1>2, <1>4 DEF NodeType
<1>6. IsNode(m)
  BY <1>3, <1>4, <1>5 DEF IsNode, NodeType
<1>7. NodeOK(m, DOMAIN g.nodes, top) /\ Same(m, g.nodes[a]) /\ m.next = y
  BY <1>1, <1>4, <1>5, <1>6 DEF NodeOK, Same
<1>8. HasPut(g, PutNode(g, a, m), top, a, m)
  BY ONLY <1>7, Store(g, top), a \in DOMAIN g.nodes, PutStore
<1>9. f = PutNode(g, a, m)
  BY <1>1, <1>2 DEF PutNode
<1> QED BY <1>7, <1>8, <1>9

Dropped(c, d) ==
  /\ CallOf(d) /\ KeepsCall(c, d) /\ KeepsWay(c, d) /\ d.pc = c.pc /\ d.gbuf = c.gbuf /\ d.pkey = c.pkey
  /\ d.is = c.is /\ d.iu = c.iu + -1 /\ d.tmp = c.tmp

\* The call with one node less.
LEMMA DropCallIs ==
  ASSUME NEW c, CallOf(c), c.iu \in Nat, NEW d, d = [c EXCEPT !.iu = @ - 1]
  PROVE  Dropped(c, d)
PROOF
<1>1. PICK k : k = c.iu - 1
  OBVIOUS
<1>2. d = [c EXCEPT !.iu = k]
  BY <1>1
<1>3. d = [pc |-> c.pc, op |-> c.op, key |-> c.key, value |-> c.value, tree |-> c.tree, rec |-> c.rec,
           buf |-> c.buf, ge |-> c.ge, at |-> c.at, lt |-> c.lt, gbuf |-> c.gbuf, pkey |-> c.pkey,
           is |-> c.is, iu |-> k, tmp |-> c.tmp]
  BY ONLY <1>2, CallOf(c) DEF CallOf, RunningRec
<1>4. CallOf(d) /\ d.iu = k
  BY ONLY <1>3 DEF CallOf, RunningRec
<1>5. KeepsCall(c, d) /\ KeepsWay(c, d) /\ d.pc = c.pc /\ d.gbuf = c.gbuf /\ d.pkey = c.pkey /\ d.is = c.is /\ d.tmp = c.tmp
  BY ONLY <1>3 DEF KeepsCall, KeepsWay
<1>6. k = c.iu + -1
  BY <1>1
<1> QED BY <1>4, <1>5, <1>6 DEF Dropped

\* The nodes that stay in use are still so.
LEMMA DropTmp ==
  ASSUME NEW g, NEW c, NEW top, NEW t, NEW N, NEW pos, ScatterAt(g, c, top, t, N, pos), c.is = 3, c.iu = 3,
         NEW d, Dropped(c, d), NEW m, NEW f, HasPut(g, f, top, c.tmp[2], m), m.next = g.nodes[c.tmp[3]].next
  PROVE  GrownTmp(g, c, f, d, t, N)
PROOF
<1>1. /\ pos = 5 /\ DOMAIN N \subseteq DOMAIN g.nodes \cup {Whole(g, c)}
      /\ \A i \in 1 .. 3 : c.tmp[i] \in DOMAIN g.nodes \ {Root} /\ (i > 1 => c.tmp[i] \notin t.T) /\ Near(g, c.tmp[i], 5)
      /\ \A i, j \in 1 .. 3 : c.tmp[i] = c.tmp[j] => i = j
      /\ Near(g, c.buf, 5) /\ c.buf \notin Tmp(c) /\ Fresh(g) \subseteq Tmp(c)
      /\ \A i \in 1 .. 3 : c.tmp[i] \notin Fresh(g)
      /\ g.nodes[c.tmp[3]].next \notin Fresh(g)
      /\ c.tmp \in Seq(Nat) /\ 3 <= Len(c.tmp)
  BY DEF ScatterAt
<1>2. d.buf = c.buf /\ d.is = 3 /\ d.iu = 2 /\ d.tmp = c.tmp
  BY DEF Dropped, KeepsWay
<1>3. DOMAIN f.nodes = DOMAIN g.nodes /\ f.bufs = g.bufs /\ Fresh(f) = Fresh(g) /\ f.nodes[c.tmp[2]] = m
  BY DEF HasPut
<1>4. \A a : Near(g, a, 5) => Near(f, a, 5)
  BY <1>3 DEF Near
<1>5. Fresh(g) = {}
  <2> SUFFICES ASSUME NEW a \in Fresh(g) PROVE FALSE
    OBVIOUS
  <2>1. a \in Tmp(c) /\ c.iu = 3
    BY <1>1
  <2>2. PICK i \in 1 .. 3 : a = c.tmp[i]
    BY <2>1 DEF Tmp
  <2> QED BY <1>1, <2>2
<1>6. Tmp(d) \subseteq Tmp(c)
  BY <1>2 DEF Tmp
<1>7. TmpOK(f, d, t.T)
  <2>1. \A i \in 1 .. d.iu : d.tmp[i] \in DOMAIN f.nodes \ {Root} /\ (i > 1 => d.tmp[i] \notin t.T) /\ Near(f, d.tmp[i], 5)
    BY <1>1, <1>2, <1>3, <1>4
  <2>2. \A i, j \in 1 .. d.iu : d.tmp[i] = d.tmp[j] => i = j
    BY <1>1, <1>2
  <2>3. Near(f, d.buf, 5) /\ d.buf \notin Tmp(d) /\ Fresh(f) \subseteq Tmp(d) /\ \A i \in 1 .. d.iu : i <= d.is => d.tmp[i] \notin Fresh(f)
    BY <1>1, <1>2, <1>3, <1>4, <1>5, <1>6
  <2>4. d.iu > 0 => f.nodes[d.tmp[d.iu]].next \notin Fresh(f)
    BY <1>3, <1>5
  <2>5. d.tmp \in Seq(Nat) /\ d.iu <= Len(d.tmp)
    <3>1. PICK q \in Seq(Nat) : q = c.tmp
      BY <1>1
    <3>2. 2 <= Len(q)
      BY <1>1, <3>1
    <3> QED BY <3>1, <3>2, <1>2
  <2>6. d.is # 0 /\ d.iu # 4
    BY <1>2
  <2> QED BY <2>1, <2>2, <2>3, <2>4, <2>5, <2>6 DEF TmpOK
<1>8. Whole(f, d) = Whole(g, c)
  BY <1>2 DEF Whole
<1> QED BY <1>1, <1>3, <1>6, <1>7, <1>8 DEF GrownTmp

\* DropNode keeps the invariant.
LEMMA DropNodeGood ==
  ASSUME OddRoom, NEW top \in Nat, NEW t, NEW P, NEW N, ScatterOK(h, call, held, top, t, P, N), DropNode
  PROVE  \E s, Q, M : Good(h', call', held, top, s, Q, M)
PROOF
<1>1. PICK pos : ScatterAt(h, call, top, t, N, pos)
  BY ScatterAtIs
<1>2. /\ CallOf(call) /\ call.iu \in 0 .. 4
      /\ Store(h, top) /\ call.buf \in DOMAIN h.nodes /\ call.buf \notin Tmp(call)
      /\ \A i \in 1 .. call.iu : call.tmp[i] \in DOMAIN h.nodes \ {Root}
      /\ call.gbuf.leaf \in BOOLEAN /\ N[call.buf].ct \in Nat
      /\ Amount(call, N[call.buf].ct, Len(call.gbuf.ent), call.gbuf.leaf)
  BY <1>1 DEF ScatterAt
<1>3. /\ call.pc = "scatter" /\ Drops
      /\ h' = [h EXCEPT !.nodes[call.tmp[call.iu - 1]].next = h.nodes[call.tmp[call.iu]].next]
      /\ call' = [call EXCEPT !.iu = @ - 1]
  BY DEF DropNode
<1>4. call.iu > 1 /\ Len(call.gbuf.ent) < AtLeastM(call.iu, call.gbuf.leaf)
  BY <1>3 DEF Drops, AtLeast, AtLeastM, Half, GatherCt
<1>5. PICK d : d = call'
  OBVIOUS
<1>6. Dropped(call, d)
  BY <1>2, <1>3, <1>5, DropCallIs
<1>7. UsesMore(call, d, -1)
  BY <1>6 DEF Dropped, UsesMore, KeepsCall, KeepsWay
<1>8. Amount(d, N[call.buf].ct, Len(call.gbuf.ent), call.gbuf.leaf) /\ call.is = 3 /\ call.iu = 3
  <2>1. PICK oct \in Nat : oct = N[call.buf].ct
    BY <1>2
  <2>2. PICK leaf \in BOOLEAN : leaf = call.gbuf.leaf
    BY <1>2
  <2>3. PICK G : G = Len(call.gbuf.ent)
    OBVIOUS
  <2>4. Amount(call, oct, G, leaf) /\ call.iu > 1 /\ G < AtLeastM(call.iu, leaf)
    BY <2>1, <2>2, <2>3, <1>2, <1>4
  <2>5. Amount(d, oct, G, leaf) /\ call.is = 3 /\ call.iu = 3
    BY ONLY <2>4, <1>7, OddRoom, FewerAmount, oct \in Nat, leaf \in BOOLEAN
  <2> QED BY <2>1, <2>2, <2>3, <2>5
<1>9. PICK a : a = call.tmp[2]
  OBVIOUS
<1>10. PICK y : y = h.nodes[call.tmp[3]].next
  OBVIOUS
<1>11. h' = [h EXCEPT !.nodes[a].next = y]
  <2>1. call.iu = 3 /\ call.iu - 1 = 2
    BY <1>8
  <2> QED BY <2>1, <1>3, <1>9, <1>10
<1>12. a \in DOMAIN h.nodes /\ y \in DOMAIN h.nodes /\ a \in Tmp(call)
  <2>1. call.tmp[2] \in DOMAIN h.nodes /\ call.tmp[3] \in DOMAIN h.nodes /\ call.tmp[2] \in Tmp(call)
    <3>1. 2 \in 1 .. call.iu /\ 3 \in 1 .. call.iu
      BY <1>8
    <3> QED BY <3>1, <1>2 DEF Tmp
  <2>2. \A x \in DOMAIN h.nodes : NodeOK(h.nodes[x], DOMAIN h.nodes, top)
    BY <1>2, StoreNodes DEF Store
  <2> QED BY <2>1, <2>2, <1>9, <1>10 DEF NodeOK
<1>13. PICK m : HasPut(h, h', top, a, m) /\ Same(m, h.nodes[a]) /\ m.next = y
  <2>1. PICK f : f = h'
    OBVIOUS
  <2>2. PICK g : g = h
    OBVIOUS
  <2>3. Store(g, top) /\ a \in DOMAIN g.nodes /\ y \in DOMAIN g.nodes /\ f = [g EXCEPT !.nodes[a].next = y]
    BY <2>1, <2>2, <1>2, <1>11, <1>12
  <2>4. \E m : HasPut(g, f, top, a, m) /\ Same(m, g.nodes[a]) /\ m.next = y
    BY ONLY <2>3, NextChanged
  <2> QED BY <2>1, <2>2, <2>4
<1>14. GrownTmp(h, call, h', d, t, N)
  <2>1. HasPut(h, h', top, call.tmp[2], m) /\ m.next = h.nodes[call.tmp[3]].next
    BY <1>9, <1>10, <1>13
  <2> QED BY ONLY <2>1, <1>1, <1>6, <1>8, DropTmp
<1>15. KeepsScatter(h, call, h', d, top, t, N)
  <2>1. /\ TmpOK(h', d, t.T) /\ Whole(h', d) = Whole(h, call) /\ DOMAIN N \subseteq DOMAIN h'.nodes \cup {Whole(h', d)}
        /\ \A x \in DOMAIN h.nodes : x \in Tmp(d) => x \in Tmp(call)
    BY <1>14 DEF GrownTmp
  <2>2. /\ Store(h', top) /\ DOMAIN h'.nodes = DOMAIN h.nodes /\ h'.nodes[a] = m
        /\ \A b \in DOMAIN h.nodes : b # a => h'.nodes[b] = h.nodes[b]
        /\ h'.file = h.file /\ h'.rootModified = h.rootModified
    BY <1>13 DEF HasPut
  <2>3. \A x \in DOMAIN h.nodes : x \in DOMAIN h'.nodes /\ Same(h'.nodes[x], h.nodes[x])
    BY <2>2, <1>13, SameRefl
  <2>4. h'.nodes[call.buf] = h.nodes[call.buf]
    BY <2>2, <1>2, <1>12
  <2>5. /\ CallOf(d) /\ KeepsCall(call, d) /\ KeepsWay(call, d) /\ d.pc = "scatter" /\ d.gbuf = call.gbuf
        /\ d.pkey = call.pkey /\ d.is = call.is
    BY <1>3, <1>6 DEF Dropped
  <2> QED BY <2>1, <2>2, <2>3, <2>4, <2>5, <1>8 DEF KeepsScatter
<1>16. ScatterOK(h', d, held, top, t, P, N)
  BY <1>15, ScatterKept
<1> QED BY <1>5, <1>16 DEF Good

(***************************************************************************)
(* The scatter: the keys go to their nodes.                                *)
(***************************************************************************)
\* Where the pieces end: b keys each, and one more for e of them, not the first.
EndsOK(u, k, b, e) ==
  /\ u \in [0 .. k -> Nat] /\ u[0] = 0 /\ u[1] = b
  /\ u[2] = 2 * b + (IF e >= 1 THEN 1 ELSE 0)
  /\ k >= 3 => u[3] = 3 * b + (IF e >= 2 THEN 2 ELSE e)
  /\ k >= 4 => u[4] = 4 * b + (IF e >= 3 THEN 3 ELSE e)
Shares(G, k, b, e) == b \in Nat /\ e \in Nat /\ e < k /\ G = k * b + e
Enough(c, G, leaf) == ~MoreNodes(c, G, leaf) /\ ~FewerNodes(c, G, leaf)

\* How many nodes there are in the end, and for how many keys.
Ways(c, G, leaf, n) ==
  LET d == IF leaf THEN 0 ELSE 1 IN
  \/ c.is = 0 /\ c.buf = Root /\ IsWrite(c) /\ c.iu = 4 /\ G = 6 * n + 3
  \/ c.is = 3 /\ IsWrite(c) /\ c.iu = 3 /\ 4 * n + 1 + 2 * d <= G /\ G <= 6 * n + 2 * d
  \/ c.is = 3 /\ IsWrite(c) /\ c.iu = 4 /\ 6 * n + 2 * d < G /\ G <= 6 * n + 3 + 2 * d
  \/ c.is = 3 /\ c.tree = "delete" /\ c.iu = 3 /\ 3 * n + 3 + 2 * d <= G /\ G <= 5 * n + 2 + 2 * d
  \/ c.is = 3 /\ c.tree = "delete" /\ c.iu = 2 /\ 2 * n + 2 + d <= G /\ G <= 4 * n + d

\* The ways a scatter can have come about, once the number of nodes is found.
LEMMA WaysAre ==
  ASSUME OddRoom, NEW c, NEW oct \in Nat, NEW G \in Nat, NEW leaf \in BOOLEAN, Amount(c, oct, G, leaf), Enough(c, G, leaf)
  PROVE  Ways(c, G, leaf, Half)
PROOF
<1>1. MaxCt \in Nat /\ Half \in Nat /\ MaxCt = 2 * Half + 1 /\ Half >= 3
  BY HalfIs
<1>2. PICK d : d = IF leaf THEN 0 ELSE 1
  OBVIOUS
<1>3. PICK e : e = IF leaf THEN 0 ELSE 2
  OBVIOUS
<1>4. d \in {0, 1} /\ e = 2 * d
  BY <1>2, <1>3
<1>5. /\ AtMostM(1, leaf) = 2 * Half /\ AtMostM(2, leaf) = 4 * Half + d /\ AtMostM(3, leaf) = 6 * Half + 2 * d
      /\ AtLeastM(2, leaf) = 2 * Half + 2 + d /\ AtLeastM(3, leaf) = 3 * Half + 3 + 2 * d
  <2>1. AtMostM(1, leaf) = 2 * Half
    <3>1. AtMostM(1, leaf) = MaxCt - 1
      BY <1>1 DEF AtMostM
    <3> QED BY <3>1, <1>1
  <2>2. Bounds(leaf, Half)
    BY BoundsAre
  <2>3. CASE leaf = TRUE
    <3>1. /\ AtMostM(2, leaf) = 4 * Half /\ AtMostM(3, leaf) = 6 * Half
          /\ AtLeastM(2, leaf) = 2 * Half + 2 /\ AtLeastM(3, leaf) = 3 * Half + 3
      BY <2>2, <2>3 DEF Bounds
    <3>2. d = 0
      BY <2>3, <1>2
    <3> QED BY ONLY <2>1, <3>1, <3>2, <1>1
  <2>4. CASE leaf = FALSE
    <3>1. /\ AtMostM(2, leaf) = 4 * Half + 1 /\ AtMostM(3, leaf) = 6 * Half + 2
          /\ AtLeastM(2, leaf) = 2 * Half + 3 /\ AtLeastM(3, leaf) = 3 * Half + 5
      BY <2>2, <2>4 DEF Bounds
    <3>2. d = 1
      BY <2>4, <1>2
    <3> QED BY ONLY <2>1, <3>1, <3>2, <1>1
  <2> QED BY <2>3, <2>4
<1>6. c.iu # 0 /\ ~(G > AtMostM(c.iu, leaf)) /\ (c.iu > 1 => ~(G < AtLeastM(c.iu, leaf)))
  BY DEF Enough, MoreNodes, FewerNodes
<1>7. CASE c.is = 0 /\ c.buf = Root /\ c.pkey = 0 /\ IsWrite(c) /\ G = 3 * MaxCt /\ c.iu \in 0 .. 4
  <2>1. G = 6 * Half + 3
    BY <1>1, <1>7
  <2>2. c.iu # 1
    <3> SUFFICES ASSUME c.iu = 1 PROVE FALSE
      OBVIOUS
    <3>1. ~(G > AtMostM(1, leaf))
      BY <1>6
    <3> QED BY ONLY <3>1, <2>1, <1>1, <1>5
  <2>3. c.iu # 2
    <3> SUFFICES ASSUME c.iu = 2 PROVE FALSE
      OBVIOUS
    <3>1. ~(G > AtMostM(2, leaf))
      BY <1>6
    <3> QED BY ONLY <3>1, <2>1, <1>1, <1>4, <1>5
  <2>4. c.iu # 3
    <3> SUFFICES ASSUME c.iu = 3 PROVE FALSE
      OBVIOUS
    <3>1. ~(G > AtMostM(3, leaf))
      BY <1>6
    <3> QED BY ONLY <3>1, <2>1, <1>1, <1>4, <1>5
  <2>5. c.iu = 4
    BY <2>2, <2>3, <2>4, <1>6, <1>7
  <2> QED BY <2>1, <2>5, <1>7 DEF Ways
<1>8. CASE /\ c.is = 3 /\ IsWrite(c)
           /\ G \in (4 * Half + 1 + e) .. (3 * MaxCt + e)
           /\ c.iu = 3 \/ (c.iu = 4 /\ G > AtMostM(3, leaf))
  <2>1. 4 * Half + 1 + 2 * d <= G /\ G <= 6 * Half + 3 + 2 * d
    BY <1>1, <1>4, <1>8
  <2>2. CASE c.iu = 3
    <3>1. ~(G > AtMostM(3, leaf))
      BY <2>2, <1>6
    <3>2. G <= 6 * Half + 2 * d
      BY ONLY <3>1, <1>1, <1>4, <1>5, G \in Nat
    <3> QED BY <2>1, <2>2, <3>2, <1>2, <1>8 DEF Ways
  <2>3. CASE c.iu = 4 /\ G > AtMostM(3, leaf)
    <3>1. 6 * Half + 2 * d < G
      BY ONLY <2>3, <1>1, <1>4, <1>5, G \in Nat
    <3> QED BY <2>1, <2>3, <3>1, <1>2, <1>8 DEF Ways
  <2> QED BY <2>2, <2>3, <1>8
<1>9. CASE /\ c.is = 3 /\ c.tree = "delete"
           /\ G \in (3 * Half + e) .. (5 * Half + 2 + e)
           /\ c.iu = 3 \/ (c.iu = 2 /\ G < AtLeastM(3, leaf))
  <2>1. 3 * Half + 2 * d <= G /\ G <= 5 * Half + 2 + 2 * d
    BY <1>1, <1>4, <1>9
  <2>2. CASE c.iu = 3
    <3>1. ~(G < AtLeastM(3, leaf))
      BY <2>2, <1>6
    <3>2. 3 * Half + 3 + 2 * d <= G
      BY ONLY <3>1, <1>1, <1>4, <1>5, G \in Nat
    <3> QED BY <2>1, <2>2, <3>2, <1>2, <1>9 DEF Ways
  <2>3. CASE c.iu = 2
    <3>1. ~(G < AtLeastM(2, leaf)) /\ ~(G > AtMostM(2, leaf))
      BY <2>3, <1>6
    <3>2. 2 * Half + 2 + d <= G /\ G <= 4 * Half + d
      BY ONLY <3>1, <1>1, <1>4, <1>5, G \in Nat
    <3> QED BY <2>3, <3>2, <1>2, <1>9 DEF Ways
  <2> QED BY <2>2, <2>3, <1>9
<1> QED BY <1>3, <1>7, <1>8, <1>9 DEF Amount

\* How many keys a node gets, one piece without the key that goes up.
Size(u, leaf, j) == u[j] - u[j - 1] - (IF leaf \/ j = 1 THEN 0 ELSE 1)
PieceRoom(c, s) ==
  /\ s \in Half .. MaxCt
  /\ c.is = 3 /\ IsWrite(c) => s < MaxCt
  /\ c.tree = "delete" => s >= Half + 1
PieceFits(c, s, n) ==
  /\ s \in n .. (2 * n + 1)
  /\ c.is = 3 /\ IsWrite(c) => s <= 2 * n
  /\ c.tree = "delete" => s >= n + 1
SizesFit(c, u, leaf, n) == \A j \in 1 .. c.iu : PieceFits(c, Size(u, leaf, j), n)

\* Two nodes get as many keys as a node must and may have.
LEMMA SizesOfTwo ==
  ASSUME NEW n \in Nat, n >= 3, NEW c, NEW G \in Nat, NEW leaf \in BOOLEAN, Ways(c, G, leaf, n), c.iu = 2,
         NEW b, NEW e, Shares(G, 2, b, e), NEW u, EndsOK(u, 2, b, e)
  PROVE  u[2] = G /\ SizesFit(c, u, leaf, n)
PROOF
<1>1. PICK d : d = IF leaf THEN 0 ELSE 1
  OBVIOUS
<1>2. d \in {0, 1}
  BY <1>1
<1>3. /\ c.is = 3 /\ c.tree = "delete" /\ 2 * n + 2 + d <= G /\ G <= 4 * n + d
  BY <1>1 DEF Ways
<1>4. b \in Nat /\ e \in Nat /\ e < 2 /\ G = 2 * b + e
  BY DEF Shares
<1>5. u[0] = 0 /\ u[1] = b /\ u[2] = 2 * b + (IF e >= 1 THEN 1 ELSE 0)
  BY DEF EndsOK
<1>6. u[2] = 2 * b + e
  BY <1>4, <1>5
<1>7. Size(u, leaf, 1) = b /\ Size(u, leaf, 2) = b + e - d
  <2>1. Size(u, leaf, 1) = b - 0 - 0
    BY <1>5 DEF Size
  <2>2. Size(u, leaf, 2) = (2 * b + e) - b - d
    BY <1>1, <1>5, <1>6 DEF Size
  <2> QED BY ONLY <2>1, <2>2, <1>2, <1>4
<1>8. ~IsWrite(c)
  BY <1>3 DEF IsWrite
<1>9. PieceFits(c, b, n)
  <2>1. b \in n .. (2 * n + 1) /\ b >= n + 1
    BY ONLY <1>2, <1>3, <1>4, n \in Nat, n >= 3
  <2> QED BY <2>1, <1>8 DEF PieceFits
<1>10. PieceFits(c, b + e - d, n)
  <2>1. b + e - d \in n .. (2 * n + 1) /\ b + e - d >= n + 1
    BY ONLY <1>2, <1>3, <1>4, n \in Nat, n >= 3
  <2> QED BY <2>1, <1>8 DEF PieceFits
<1>11. SizesFit(c, u, leaf, n)
  <2>1. \A j \in 1 .. c.iu : j = 1 \/ j = 2
    OBVIOUS
  <2> QED BY <2>1, <1>7, <1>9, <1>10 DEF SizesFit
<1> QED BY <1>4, <1>6, <1>11

\* So do three.
LEMMA SizesOfThree ==
  ASSUME NEW n \in Nat, n >= 3, NEW c, NEW G \in Nat, NEW leaf \in BOOLEAN, Ways(c, G, leaf, n), c.iu = 3,
         NEW b, NEW e, Shares(G, 3, b, e), NEW u, EndsOK(u, 3, b, e)
  PROVE  u[3] = G /\ SizesFit(c, u, leaf, n)
PROOF
<1>1. PICK d : d = IF leaf THEN 0 ELSE 1
  OBVIOUS
<1>2. d \in {0, 1}
  BY <1>1
<1>3. \/ IsWrite(c) /\ 4 * n + 1 + 2 * d <= G /\ G <= 6 * n + 2 * d
      \/ c.tree = "delete" /\ 3 * n + 3 + 2 * d <= G /\ G <= 5 * n + 2 + 2 * d
  BY <1>1 DEF Ways
<1>4. b \in Nat /\ e \in Nat /\ e < 3 /\ G = 3 * b + e
  BY DEF Shares
<1>5. PICK m : m = IF e >= 1 THEN 1 ELSE 0
  OBVIOUS
<1>6. u[0] = 0 /\ u[1] = b /\ u[2] = 2 * b + m /\ u[3] = 3 * b + (IF e >= 2 THEN 2 ELSE e)
  BY <1>5 DEF EndsOK
<1>7. u[3] = 3 * b + e /\ m \in 0 .. 1 /\ (e = 0 => m = 0) /\ (e # 0 => m = 1)
  BY <1>4, <1>5, <1>6
<1>8. Size(u, leaf, 1) = b /\ Size(u, leaf, 2) = b + m - d /\ Size(u, leaf, 3) = b + (e - m) - d
  <2>1. Size(u, leaf, 1) = b - 0 - 0
    BY <1>6 DEF Size
  <2>2. Size(u, leaf, 2) = (2 * b + m) - b - d
    BY <1>1, <1>6 DEF Size
  <2>3. Size(u, leaf, 3) = (3 * b + e) - (2 * b + m) - d
    BY <1>1, <1>6, <1>7 DEF Size
  <2> QED BY ONLY <2>1, <2>2, <2>3, <1>2, <1>4, <1>7
<1>9. \A y \in {b, b + m - d, b + (e - m) - d} :
        /\ y \in n .. (2 * n + 1)
        /\ IsWrite(c) => y <= 2 * n
        /\ c.tree = "delete" => y >= n + 1
  <2>1. CASE IsWrite(c) /\ 4 * n + 1 + 2 * d <= G /\ G <= 6 * n + 2 * d
    <3>1. c.tree # "delete"
      BY <2>1 DEF IsWrite
    <3>2. \A y \in {b, b + m - d, b + (e - m) - d} : y \in n .. (2 * n)
      BY ONLY <2>1, <1>2, <1>4, <1>7, n \in Nat, n >= 3
    <3> QED BY <3>1, <3>2
  <2>2. CASE c.tree = "delete" /\ 3 * n + 3 + 2 * d <= G /\ G <= 5 * n + 2 + 2 * d
    <3>1. ~IsWrite(c)
      BY <2>2 DEF IsWrite
    <3>2. \A y \in {b, b + m - d, b + (e - m) - d} : y \in (n + 1) .. (2 * n + 1)
      BY ONLY <2>2, <1>2, <1>4, <1>7, n \in Nat, n >= 3
    <3> QED BY <3>1, <3>2
  <2> QED BY <2>1, <2>2, <1>3
<1>10. SizesFit(c, u, leaf, n)
  <2>1. \A j \in 1 .. c.iu : j = 1 \/ j = 2 \/ j = 3
    OBVIOUS
  <2> QED BY <2>1, <1>8, <1>9 DEF SizesFit, PieceFits
<1> QED BY <1>4, <1>7, <1>10

\* So do four.
LEMMA SizesOfFour ==
  ASSUME NEW n \in Nat, n >= 3, NEW c, NEW G \in Nat, NEW leaf \in BOOLEAN, Ways(c, G, leaf, n), c.iu = 4,
         NEW b, NEW e, Shares(G, 4, b, e), NEW u, EndsOK(u, 4, b, e)
  PROVE  u[4] = G /\ SizesFit(c, u, leaf, n)
PROOF
<1>1. PICK d : d = IF leaf THEN 0 ELSE 1
  OBVIOUS
<1>2. d \in {0, 1}
  BY <1>1
<1>3. IsWrite(c) /\ 6 * n <= G /\ G <= 6 * n + 3 + 2 * d
  BY <1>1, <1>2 DEF Ways
<1>4. b \in Nat /\ e \in Nat /\ e < 4 /\ G = 4 * b + e
  BY DEF Shares
<1>5. PICK m : m = IF e >= 1 THEN 1 ELSE 0
  OBVIOUS
<1>6. PICK l : l = IF e >= 2 THEN 2 ELSE e
  OBVIOUS
<1>7. u[0] = 0 /\ u[1] = b /\ u[2] = 2 * b + m /\ u[3] = 3 * b + l /\ u[4] = 4 * b + (IF e >= 3 THEN 3 ELSE e)
  BY <1>5, <1>6 DEF EndsOK
<1>8. u[4] = 4 * b + e /\ m \in 0 .. 1 /\ l \in 0 .. 2 /\ l - m \in 0 .. 1 /\ e - l \in 0 .. 1
  BY <1>4, <1>5, <1>6, <1>7
<1>9. Size(u, leaf, 1) = b /\ Size(u, leaf, 2) = b + m - d /\ Size(u, leaf, 3) = b + (l - m) - d
      /\ Size(u, leaf, 4) = b + (e - l) - d
  <2>1. Size(u, leaf, 1) = b - 0 - 0
    BY <1>7 DEF Size
  <2>2. Size(u, leaf, 2) = (2 * b + m) - b - d
    BY <1>1, <1>7 DEF Size
  <2>3. Size(u, leaf, 3) = (3 * b + l) - (2 * b + m) - d
    BY <1>1, <1>7, <1>8 DEF Size
  <2>4. Size(u, leaf, 4) = (4 * b + e) - (3 * b + l) - d
    BY <1>1, <1>7, <1>8 DEF Size
  <2> QED BY ONLY <2>1, <2>2, <2>3, <2>4, <1>2, <1>4, <1>8
<1>10. \A y \in {b, b + m - d, b + (l - m) - d, b + (e - l) - d} : y \in n .. (2 * n)
  BY ONLY <1>2, <1>3, <1>4, <1>8, n \in Nat, n >= 3
<1>11. SizesFit(c, u, leaf, n)
  <2>1. \A j \in 1 .. c.iu : j = 1 \/ j = 2 \/ j = 3 \/ j = 4
    OBVIOUS
  <2>2. c.tree # "delete"
    BY <1>3 DEF IsWrite
  <2>3. \A y \in n .. (2 * n) : PieceFits(c, y, n)
    BY <2>2 DEF PieceFits
  <2> QED BY <2>1, <2>3, <1>9, <1>10 DEF SizesFit
<1> QED BY <1>4, <1>8, <1>11

Ends(G, k) == [j \in 0 .. k |-> j * (G \div k) + (IF j = 0 THEN 0 ELSE Min({j - 1, G % k}))]

\* Where the pieces end, when the keys are dealt out evenly.
LEMMA EndsAre ==
  ASSUME NEW G \in Nat, NEW k \in {2, 3, 4}, NEW u, u = Ends(G, k)
  PROVE  \E b, e : Shares(G, k, b, e) /\ EndsOK(u, k, b, e)
PROOF
<1>1. PICK b : b = G \div k
  OBVIOUS
<1>2. PICK e : e = G % k
  OBVIOUS
<1>3. Shares(G, k, b, e)
  <2>1. b \in Nat /\ e \in Nat /\ e < k /\ G = k * b + e
    <3>1. CASE k = 2
      BY <3>1, <1>1, <1>2
    <3>2. CASE k = 3
      BY <3>2, <1>1, <1>2
    <3>3. CASE k = 4
      BY <3>3, <1>1, <1>2
    <3> QED BY <3>1, <3>2, <3>3
  <2> QED BY <2>1 DEF Shares
<1>4. b \in Nat /\ e \in Nat /\ e < k
  BY <1>3 DEF Shares
<1>5. DOMAIN u = 0 .. k /\ u = [j \in 0 .. k |-> u[j]]
  BY DEF Ends
<1>6. \A j \in 0 .. k : u[j] = j * b + (IF j = 0 THEN 0 ELSE Min({j - 1, e}))
  BY <1>1, <1>2 DEF Ends
<1>7. \A j \in 1 .. 4 : Min({j - 1, e}) = IF j - 1 <= e THEN j - 1 ELSE e
  BY <1>4, MinOfTwo
<1>8. u[0] = 0 /\ u[1] = b
  <2>1. 0 * b = 0 /\ 1 * b = b /\ Min({1 - 1, e}) = 0
    <3>1. Min({1 - 1, e}) = IF 1 - 1 <= e THEN 1 - 1 ELSE e
      BY <1>7
    <3> QED BY <3>1, <1>4
  <2>2. 0 \in 0 .. k /\ 1 \in 0 .. k /\ 0 = 0 /\ 1 # 0
    OBVIOUS
  <2>3. u[0] = 0 * b + (IF 0 = 0 THEN 0 ELSE Min({0 - 1, e}))
    BY <1>6, <2>2
  <2>4. u[1] = 1 * b + Min({1 - 1, e})
    BY <1>6, <2>2
  <2> QED BY <2>1, <2>3, <2>4, <1>4
<1>9. u[2] = 2 * b + (IF e >= 1 THEN 1 ELSE 0)
  <2>1. u[2] = 2 * b + Min({2 - 1, e})
    <3>1. 2 \in 0 .. k /\ 2 # 0
      OBVIOUS
    <3> QED BY <3>1, <1>6
  <2>2. Min({2 - 1, e}) = IF 2 - 1 <= e THEN 2 - 1 ELSE e
    BY <1>7
  <2> QED BY <2>1, <2>2, <1>4
<1>10. k >= 3 => u[3] = 3 * b + (IF e >= 2 THEN 2 ELSE e)
  <2>1. k >= 3 => u[3] = 3 * b + Min({3 - 1, e})
    <3>1. k >= 3 => 3 \in 0 .. k /\ 3 # 0
      OBVIOUS
    <3> QED BY <3>1, <1>6
  <2>2. Min({3 - 1, e}) = IF 3 - 1 <= e THEN 3 - 1 ELSE e
    BY <1>7
  <2> QED BY <2>1, <2>2, <1>4
<1>11. k >= 4 => u[4] = 4 * b + (IF e >= 3 THEN 3 ELSE e)
  <2>1. k >= 4 => u[4] = 4 * b + Min({4 - 1, e})
    <3>1. k >= 4 => 4 \in 0 .. k /\ 4 # 0
      OBVIOUS
    <3> QED BY <3>1, <1>6
  <2>2. Min({4 - 1, e}) = IF 4 - 1 <= e THEN 4 - 1 ELSE e
    BY <1>7
  <2> QED BY <2>1, <2>2, <1>4
<1>12. u \in [0 .. k -> Nat]
  <2>1. \A j \in 0 .. k : u[j] \in Nat
    <3>1. u[0] \in Nat /\ u[1] \in Nat /\ u[2] \in Nat
      BY <1>4, <1>8, <1>9
    <3>2. (k >= 3 => u[3] \in Nat) /\ (k >= 4 => u[4] \in Nat)
      BY <1>4, <1>10, <1>11
    <3>3. \A j \in 0 .. k : j = 0 \/ j = 1 \/ j = 2 \/ (k >= 3 /\ j = 3) \/ (k >= 4 /\ j = 4)
      OBVIOUS
    <3> QED BY <3>1, <3>2, <3>3
  <2> QED BY <2>1, <1>5
<1>13. EndsOK(u, k, b, e)
  BY <1>8, <1>9, <1>10, <1>11, <1>12 DEF EndsOK
<1> QED BY <1>3, <1>13

\* The pieces go on where the one before ends.
LEMMA EndsUp ==
  ASSUME NEW k \in {2, 3, 4}, NEW b \in Nat, NEW e \in Nat, NEW u, EndsOK(u, k, b, e)
  PROVE  \A i, j \in 0 .. k : i <= j => u[i] <= u[j]
PROOF
<1>1. u[0] = 0 /\ u[1] = b /\ u[2] = 2 * b + (IF e >= 1 THEN 1 ELSE 0)
  BY DEF EndsOK
<1>2. (k >= 3 => u[3] = 3 * b + (IF e >= 2 THEN 2 ELSE e)) /\ (k >= 4 => u[4] = 4 * b + (IF e >= 3 THEN 3 ELSE e))
  BY DEF EndsOK
<1>3. u[0] <= u[1] /\ u[1] <= u[2] /\ u[0] \in Nat /\ u[1] \in Nat /\ u[2] \in Nat
  BY <1>1
<1>4. k >= 3 => u[2] <= u[3] /\ u[3] \in Nat
  BY <1>1, <1>2
<1>5. k >= 4 => u[3] <= u[4] /\ u[4] \in Nat
  BY <1>2
<1>6. \A j \in 0 .. k : j = 0 \/ j = 1 \/ j = 2 \/ (k >= 3 /\ j = 3) \/ (k >= 4 /\ j = 4)
  OBVIOUS
<1> QED BY <1>3, <1>4, <1>5, <1>6

\* How the keys are dealt out.
Dealt(c, G, leaf, u) ==
  /\ c.iu \in {2, 3, 4} /\ u \in [0 .. c.iu -> Nat] /\ u[0] = 0 /\ u[c.iu] = G
  /\ \A i, j \in 0 .. c.iu : i <= j => u[i] <= u[j]
  /\ SizesFit(c, u, leaf, Half)

\* Every node gets as many keys as it must and may have, and one more where a
\* delete goes on below it.
LEMMA DealtIs ==
  ASSUME OddRoom, NEW c, NEW oct \in Nat, NEW G \in Nat, NEW leaf \in BOOLEAN, Amount(c, oct, G, leaf), Enough(c, G, leaf),
         NEW u, u = Ends(G, c.iu)
  PROVE  Dealt(c, G, leaf, u)
PROOF
<1>1. Ways(c, G, leaf, Half)
  BY WaysAre
<1>2. Half \in Nat /\ Half >= 3
  BY HalfIs
<1>3. PICK k : k = c.iu
  OBVIOUS
<1>4. k \in {2, 3, 4}
  BY <1>1, <1>3 DEF Ways
<1>5. u = Ends(G, k)
  BY <1>3
<1>6. PICK b, e : Shares(G, k, b, e) /\ EndsOK(u, k, b, e)
  BY ONLY <1>4, <1>5, G \in Nat, EndsAre
<1>7. b \in Nat /\ e \in Nat
  BY <1>6 DEF Shares
<1>8. u[k] = G /\ SizesFit(c, u, leaf, Half)
  <2>1. CASE k = 2
    <3>1. c.iu = 2 /\ Shares(G, 2, b, e) /\ EndsOK(u, 2, b, e)
      BY <2>1, <1>3, <1>6
    <3>2. u[2] = G /\ SizesFit(c, u, leaf, Half)
      BY ONLY <3>1, <1>1, <1>2, G \in Nat, leaf \in BOOLEAN, SizesOfTwo
    <3> QED BY <3>2, <2>1
  <2>2. CASE k = 3
    <3>1. c.iu = 3 /\ Shares(G, 3, b, e) /\ EndsOK(u, 3, b, e)
      BY <2>2, <1>3, <1>6
    <3>2. u[3] = G /\ SizesFit(c, u, leaf, Half)
      BY ONLY <3>1, <1>1, <1>2, G \in Nat, leaf \in BOOLEAN, SizesOfThree
    <3> QED BY <3>2, <2>2
  <2>3. CASE k = 4
    <3>1. c.iu = 4 /\ Shares(G, 4, b, e) /\ EndsOK(u, 4, b, e)
      BY <2>3, <1>3, <1>6
    <3>2. u[4] = G /\ SizesFit(c, u, leaf, Half)
      BY ONLY <3>1, <1>1, <1>2, G \in Nat, leaf \in BOOLEAN, SizesOfFour
    <3> QED BY <3>2, <2>3
  <2> QED BY <2>1, <2>2, <2>3, <1>4
<1>9. \A i, j \in 0 .. k : i <= j => u[i] <= u[j]
  BY ONLY <1>4, <1>6, <1>7, EndsUp
<1>10. u \in [0 .. k -> Nat] /\ u[0] = 0
  BY <1>6 DEF EndsOK
<1> QED BY <1>3, <1>4, <1>8, <1>9, <1>10 DEF Dealt

\* The parent has room for the keys between the pieces, and enough of them.
ParentRoom(c, ct) ==
  /\ c.buf = Root => ct \in 2 .. (3 * MaxCt)
  /\ c.buf # Root => ct \in Half .. MaxCt
  /\ c.is = 0 => ct < 3 * MaxCt

\* So does the parent.
LEMMA ParentRoomIs ==
  ASSUME OddRoom, NEW c, NEW oct \in Nat, NEW G \in Nat, NEW leaf \in BOOLEAN, Amount(c, oct, G, leaf), Enough(c, G, leaf),
         c.is = 0 => oct = 0
  PROVE  ParentRoom(c, oct + c.iu - 1)
PROOF
<1>1. Ways(c, G, leaf, Half)
  BY WaysAre
<1>2. MaxCt \in Nat /\ Half \in Nat /\ MaxCt = 2 * Half + 1 /\ Half >= 3
  BY HalfIs
<1>3. PICK ct : ct = oct + c.iu - 1
  OBVIOUS
<1>4. CASE c.is = 0
  <2>1. c.iu = 4 /\ oct = 0 /\ c.buf = Root
    BY <1>1, <1>4 DEF Ways
  <2>2. ct = 3
    BY <1>3, <2>1
  <2> QED BY <1>2, <1>3, <2>1, <2>2 DEF ParentRoom
<1>5. CASE c.is = 3 /\ IsWrite(c)
  <2>1. c.iu = 3 \/ c.iu = 4
    BY <1>1, <1>5 DEF Ways, IsWrite
  <2>2. oct + 2 < (IF c.buf = Root THEN 3 * MaxCt ELSE MaxCt) /\ (c.buf # Root => oct + 2 >= Half)
    BY <1>5 DEF Amount, IsWrite
  <2>3. ct = oct + 2 \/ ct = oct + 3
    BY <1>3, <2>1
  <2>4. CASE c.buf = Root
    <3>1. oct + 2 < 3 * MaxCt
      BY <2>2, <2>4
    <3>2. ct \in 2 .. (3 * MaxCt)
      BY ONLY <3>1, <2>3, <1>2, oct \in Nat
    <3> QED BY <3>2, <2>4, <1>3, <1>5 DEF ParentRoom
  <2>5. CASE c.buf # Root
    <3>1. oct + 2 < MaxCt /\ oct + 2 >= Half
      BY <2>2, <2>5
    <3>2. ct \in Half .. MaxCt
      BY ONLY <3>1, <2>3, <1>2, oct \in Nat
    <3> QED BY <3>2, <2>5, <1>3, <1>5 DEF ParentRoom
  <2> QED BY <2>4, <2>5
<1>6. CASE c.is = 3 /\ c.tree = "delete"
  <2>1. /\ c.buf # Root => oct + 2 >= Half + 1
        /\ c.buf = Root /\ oct = 0 => G >= (9 * MaxCt) \div 4
        /\ c.buf = Root => oct + 2 <= 3 * MaxCt
        /\ c.buf # Root => oct + 2 <= MaxCt
    BY <1>6 DEF Amount, IsWrite
  <2>2. c.iu = 3 \/ (c.iu = 2 /\ G <= 4 * Half + 1)
    <3>1. c.iu = 3 \/ (c.iu = 2 /\ G <= 4 * Half + (IF leaf THEN 0 ELSE 1))
      BY <1>1, <1>6 DEF Ways, IsWrite
    <3> QED BY <3>1, <1>2
  <2>3. CASE c.buf = Root
    <3>1. c.iu = 2 => oct # 0
      <4> SUFFICES ASSUME c.iu = 2, oct = 0 PROVE FALSE
        OBVIOUS
      <4>1. G <= 4 * Half + 1 /\ G >= (9 * MaxCt) \div 4
        BY <2>1, <2>2, <2>3
      <4> QED BY ONLY <4>1, <1>2, G \in Nat
    <3>2. oct + 2 <= 3 * MaxCt
      BY <2>1, <2>3
    <3>3. c.iu = 3 \/ (c.iu = 2 /\ oct >= 1)
      BY <2>2, <3>1
    <3>4. ct \in 2 .. (3 * MaxCt)
      BY ONLY <3>2, <3>3, <1>2, <1>3, oct \in Nat
    <3> QED BY <3>4, <2>3, <1>3, <1>6 DEF ParentRoom
  <2>4. CASE c.buf # Root
    <3>1. oct + 2 >= Half + 1 /\ oct + 2 <= MaxCt
      BY <2>1, <2>4
    <3>2. c.iu = 3 \/ c.iu = 2
      BY <2>2
    <3>3. ct \in Half .. MaxCt
      BY ONLY <3>1, <3>2, <1>2, <1>3, oct \in Nat
    <3> QED BY <3>3, <2>4, <1>3, <1>6 DEF ParentRoom
  <2> QED BY <2>3, <2>4
<1> QED BY <1>1, <1>4, <1>5, <1>6 DEF Ways

\* A node with a piece of the keys.
PieceEnt(gb, u, j) == SubSeq(gb.ent, u[j - 1] + 1, u[j])
PieceIn(gb, u, j) == IF gb.leaf \/ j = 1 THEN PieceEnt(gb, u, j) ELSE Tail(PieceEnt(gb, u, j))
FilledWith(n, gb, u, j) ==
  [n EXCEPT !.leaf = gb.leaf, !.ct = Len(PieceIn(gb, u, j)), !.ent = Overwrite(@, PieceIn(gb, u, j)),
            !.lt = IF gb.leaf THEN NoAdr ELSE IF j = 1 THEN gb.lt ELSE PieceEnt(gb, u, j)[1].ge]
GatheredNode(V, gb) ==
  /\ IsNode(V) /\ V.leaf = gb.leaf /\ V.lt = gb.lt /\ V.ent = gb.ent /\ V.ct = Len(gb.ent)

\* Piece j of V goes from behind u[j - 1] to u[j].
Slice(V, u, j) ==
  /\ u[j - 1] \in Nat /\ u[j] \in Nat /\ u[j - 1] <= u[j] /\ u[j] <= V.ct
  /\ Size(u, V.leaf, j) > 0 /\ j \in Nat /\ j >= 1 /\ (j = 1 => u[j - 1] = 0)
IsPiece(q, n, V, u, j) ==
  /\ IsNode(q) /\ q.leaf = V.leaf /\ q.next = n.next /\ q.ct = Size(u, V.leaf, j)
  /\ \A i \in 1 .. q.ct : q.ent[i] = V.ent[Off(V, u, j) + i]
  /\ ~V.leaf => q.lt = Child(V, Off(V, u, j))
PieceInIs(s, V, u, j) ==
  /\ s \in Seq(Entry) /\ Len(s) = Size(u, V.leaf, j) /\ Len(s) \in Nat
  /\ \A i \in 1 .. Len(s) : s[i] = V.ent[Off(V, u, j) + i]

\* The slots of a piece, and its first key, which goes to the parent.
LEMMA PieceInAre ==
  ASSUME NEW V, NEW gb, GatheredNode(V, gb), NEW u, NEW j, Slice(V, u, j)
  PROVE  /\ PieceInIs(PieceIn(gb, u, j), V, u, j)
         /\ PieceEnt(gb, u, j)[1] = V.ent[u[j - 1] + 1] /\ u[j - 1] + 1 \in 1 .. V.ct
         /\ PieceEnt(gb, u, j) # << >>
PROOF
<1>1. PICK x : x = u[j - 1]
  OBVIOUS
<1>2. PICK y : y = u[j]
  OBVIOUS
<1>3. PICK e : e = V.ent
  OBVIOUS
<1>4. e \in Seq(Entry) /\ Len(e) = V.ct /\ gb.ent = e /\ gb.leaf = V.leaf /\ V.leaf \in BOOLEAN
  <2>1. V \in NodeType
    BY DEF GatheredNode, IsNode
  <2> QED BY <2>1, <1>3 DEF GatheredNode, NodeType
<1>5. x \in Nat /\ y \in Nat /\ x <= y /\ y <= Len(e)
  BY <1>1, <1>2, <1>4 DEF Slice
<1>6. PICK s : s = PieceEnt(gb, u, j)
  OBVIOUS
<1>7. s = SubSeq(e, x + 1, y)
  BY <1>1, <1>2, <1>4, <1>6 DEF PieceEnt
<1>8. s \in Seq(Entry) /\ Len(s) = y - x /\ \A i \in 1 .. (y - x) : s[i] = e[x + i]
  <2>1. s \in Seq(Entry)
    BY <1>4, <1>5, <1>7, SubSeqProperties
  <2>2. Len(s) = y - x
    BY <1>4, <1>5, <1>7, SubSeqProperties
  <2>3. \A i \in 1 .. (y - x) : s[i] = e[x + i]
    BY <1>4, <1>5, <1>7, SubSeqProperties
  <2> QED BY <2>1, <2>2, <2>3
<1>9. Size(u, V.leaf, j) = y - x - (IF V.leaf \/ j = 1 THEN 0 ELSE 1) /\ Size(u, V.leaf, j) > 0
  BY <1>1, <1>2 DEF Size, Slice
<1>10. y - x >= 1
  BY <1>5, <1>9
<1>11. s[1] = e[x + 1] /\ s # << >>
  BY <1>8, <1>10
<1>12. CASE gb.leaf \/ j = 1
  <2>1. PieceIn(gb, u, j) = s
    BY <1>6, <1>12 DEF PieceIn
  <2>2. Size(u, V.leaf, j) = y - x
    BY <1>4, <1>5, <1>9, <1>12
  <2>3. Off(V, u, j) = x
    <3>1. V.leaf \/ j = 1
      BY <1>4, <1>12
    <3>2. Off(V, u, j) = x + 0
      BY <1>1, <3>1 DEF Off
    <3> QED BY <3>2, <1>5
  <2>4. PieceInIs(s, V, u, j)
    BY <1>3, <1>5, <1>8, <2>2, <2>3 DEF PieceInIs
  <2> QED BY <2>1, <2>4, <1>1, <1>3, <1>4, <1>5, <1>6, <1>10, <1>11
<1>13. CASE ~(gb.leaf \/ j = 1)
  <2>1. PieceIn(gb, u, j) = Tail(s)
    BY <1>6, <1>13 DEF PieceIn
  <2>2. Size(u, V.leaf, j) = y - x - 1
    BY <1>4, <1>5, <1>9, <1>13
  <2>3. Off(V, u, j) = x + 1
    BY <1>1, <1>4, <1>13 DEF Off
  <2>4. Tail(s) \in Seq(Entry) /\ Len(Tail(s)) = y - x - 1 /\ \A i \in 1 .. (y - x - 1) : Tail(s)[i] = s[i + 1]
    <3>1. s \in Seq(Entry) /\ s # << >>
      BY <1>8, <1>11
    <3>2. Tail(s) \in Seq(Entry) /\ Len(Tail(s)) = Len(s) - 1 /\ \A i \in 1 .. Len(Tail(s)) : Tail(s)[i] = s[i + 1]
      BY <3>1, HeadTailProperties
    <3> QED BY <3>2, <1>8
  <2>5. \A i \in 1 .. (y - x - 1) : Tail(s)[i] = e[x + 1 + i]
    <3>1. SUFFICES ASSUME NEW i \in 1 .. (y - x - 1) PROVE Tail(s)[i] = e[x + 1 + i]
      OBVIOUS
    <3>2. Tail(s)[i] = s[i + 1] /\ i + 1 \in 1 .. (y - x)
      BY <2>4, <1>5
    <3>3. s[i + 1] = e[x + (i + 1)]
      BY <3>2, <1>8
    <3>4. x + (i + 1) = x + 1 + i
      BY <1>5
    <3> QED BY <3>2, <3>3, <3>4
  <2>6. PieceInIs(Tail(s), V, u, j)
    BY <1>3, <1>5, <1>10, <2>2, <2>3, <2>4, <2>5 DEF PieceInIs
  <2> QED BY <2>1, <2>6, <1>1, <1>3, <1>4, <1>5, <1>6, <1>10, <1>11
<1> QED BY <1>12, <1>13

\* A node filled with a piece is that piece of what was gathered.
LEMMA FilledIs ==
  ASSUME NEW V, NEW gb, GatheredNode(V, gb), NEW u, NEW j, Slice(V, u, j), NEW n, IsNode(n),
         NEW q, q = FilledWith(n, gb, u, j)
  PROVE  IsPiece(q, n, V, u, j)
PROOF
<1>1. PICK s : s = PieceIn(gb, u, j)
  OBVIOUS
<1>2. PieceInIs(s, V, u, j)
  BY <1>1, PieceInAre
<1>3. PICK lt : lt = IF gb.leaf THEN NoAdr ELSE IF j = 1 THEN gb.lt ELSE PieceEnt(gb, u, j)[1].ge
  OBVIOUS
<1>4. V \in NodeType /\ gb.leaf = V.leaf /\ gb.lt = V.lt /\ V.leaf \in BOOLEAN /\ V.lt \in Int
  <2>1. V \in NodeType
    BY DEF GatheredNode, IsNode
  <2> QED BY <2>1 DEF GatheredNode, NodeType
<1>5. n \in NodeType /\ n.ent \in Seq(Entry)
  BY DEF IsNode, NodeType
<1>6. q = [n EXCEPT !.leaf = gb.leaf, !.ct = Len(s), !.ent = Overwrite(@, s), !.lt = lt]
  BY <1>1, <1>3, Zenon DEF FilledWith
<1>7. q = [leaf |-> gb.leaf, ct |-> Len(s), prev |-> n.prev, next |-> n.next, lt |-> lt, ent |-> Overwrite(n.ent, s)]
  BY <1>5, <1>6 DEF NodeType
<1>8. s \in Seq(Entry) /\ Len(s) = Size(u, V.leaf, j) /\ Len(s) \in Nat /\ \A i \in 1 .. Len(s) : s[i] = V.ent[Off(V, u, j) + i]
  BY <1>2 DEF PieceInIs
<1>9. PICK w : w = Overwrite(n.ent, s)
  OBVIOUS
<1>10. w \in Seq(Entry) /\ Len(w) \in Nat /\ Len(s) <= Len(w) /\ \A i \in 1 .. Len(s) : w[i] = s[i]
  BY <1>5, <1>8, <1>9, OverwriteIs
<1>11. ~V.leaf => lt = Child(V, Off(V, u, j))
  <2>1. SUFFICES ASSUME ~V.leaf PROVE lt = Child(V, Off(V, u, j))
    OBVIOUS
  <2>2. CASE j = 1
    <3>1. lt = gb.lt
      BY <2>1, <2>2, <1>3, <1>4
    <3>2. Off(V, u, j) = 0
      BY <2>2 DEF Off, Slice
    <3> QED BY <3>1, <3>2, <1>4 DEF Child
  <2>3. CASE j # 1
    <3>1. lt = PieceEnt(gb, u, j)[1].ge
      BY <2>1, <2>3, <1>3, <1>4
    <3>2. PieceEnt(gb, u, j)[1] = V.ent[u[j - 1] + 1] /\ u[j - 1] + 1 \in 1 .. V.ct
      BY PieceInAre
    <3>3. Off(V, u, j) = u[j - 1] + 1
      BY <2>1, <2>3 DEF Off
    <3>4. Off(V, u, j) # 0
      BY <3>2, <3>3
    <3> QED BY <3>1, <3>2, <3>3, <3>4 DEF Child
  <2> QED BY <2>2, <2>3
<1>12. lt \in Int
  <2>1. CASE V.leaf = TRUE
    BY <2>1, <1>3, <1>4 DEF NoAdr
  <2>2. CASE V.leaf = FALSE /\ j = 1
    BY <2>2, <1>3, <1>4
  <2>3. CASE V.leaf = FALSE /\ j # 1
    <3>1. lt = PieceEnt(gb, u, j)[1].ge
      BY <2>3, <1>3, <1>4
    <3>2. PieceEnt(gb, u, j)[1] = V.ent[u[j - 1] + 1] /\ u[j - 1] + 1 \in 1 .. V.ct
      BY PieceInAre
    <3>3. V.ent[u[j - 1] + 1].ge \in Int
      BY <3>2, NodeParts DEF GatheredNode
    <3> QED BY <3>1, <3>2, <3>3
  <2> QED BY <2>1, <2>2, <2>3, <1>4
<1>13. q.leaf = V.leaf /\ q.ct = Len(s) /\ q.next = n.next /\ q.lt = lt /\ q.ent = w /\ q \in NodeType
  <2>1. q = [leaf |-> V.leaf, ct |-> Len(s), prev |-> n.prev, next |-> n.next, lt |-> lt, ent |-> w]
    BY <1>4, <1>7, <1>9
  <2>2. n.prev \in Int /\ n.next \in Int
    BY NodeParts
  <2> QED BY ONLY <2>1, <2>2, <1>4, <1>8, <1>10, <1>12 DEF NodeType
<1>14. IsNode(q)
  BY <1>10, <1>13 DEF IsNode
<1>15. \A i \in 1 .. q.ct : q.ent[i] = V.ent[Off(V, u, j) + i]
  BY <1>8, <1>10, <1>13
<1> QED BY <1>8, <1>11, <1>13, <1>14, <1>15 DEF IsPiece

\* Three parts in a row.
InARow(q, a, b, c) ==
  /\ q \in Seq(Entry) /\ Len(q) = Len(a) + Len(b) + Len(c)
  /\ \A i \in 1 .. Len(a) : q[i] = a[i]
  /\ \A i \in 1 .. Len(b) : q[Len(a) + i] = b[i]
  /\ \A i \in 1 .. Len(c) : q[Len(a) + Len(b) + i] = c[i]

\* Three sequences in a row.
LEMMA RowIs ==
  ASSUME NEW a \in Seq(Entry), NEW b \in Seq(Entry), NEW c \in Seq(Entry), NEW q, q = a \o b \o c
  PROVE  InARow(q, a, b, c)
PROOF
<1>1. PICK s : s = a \o b
  OBVIOUS
<1>2. Len(a) \in Nat /\ Len(b) \in Nat /\ Len(c) \in Nat
  BY LenProperties
<1>3. s \in Seq(Entry) /\ Len(s) = Len(a) + Len(b)
  BY <1>1, ConcatProperties
<1>4. \A i \in 1 .. Len(s) : s[i] = IF i <= Len(a) THEN a[i] ELSE b[i - Len(a)]
  BY <1>1, <1>3, ConcatProperties
<1>5. q = s \o c
  BY <1>1
<1>6. q \in Seq(Entry) /\ Len(q) = Len(s) + Len(c)
  BY <1>3, <1>5, ConcatProperties
<1>7. \A i \in 1 .. Len(q) : q[i] = IF i <= Len(s) THEN s[i] ELSE c[i - Len(s)]
  BY <1>3, <1>5, <1>6, ConcatProperties
<1>8. \A i \in 1 .. Len(a) : q[i] = a[i]
  <2>1. SUFFICES ASSUME NEW i \in 1 .. Len(a) PROVE q[i] = a[i]
    OBVIOUS
  <2>2. i \in 1 .. Len(s) /\ i <= Len(s) /\ i \in 1 .. Len(q) /\ i <= Len(a)
    BY <1>2, <1>3, <1>6
  <2>3. q[i] = s[i]
    BY <2>2, <1>7
  <2>4. s[i] = a[i]
    BY <2>2, <1>4
  <2> QED BY <2>3, <2>4
<1>9. \A i \in 1 .. Len(b) : q[Len(a) + i] = b[i]
  <2>1. SUFFICES ASSUME NEW i \in 1 .. Len(b) PROVE q[Len(a) + i] = b[i]
    OBVIOUS
  <2>2. PICK j : j = Len(a) + i
    OBVIOUS
  <2>3. j \in 1 .. Len(s) /\ j <= Len(s) /\ j \in 1 .. Len(q) /\ ~(j <= Len(a)) /\ j - Len(a) = i
    BY <2>2, <1>2, <1>3, <1>6
  <2>4. q[j] = s[j]
    BY <2>3, <1>7
  <2>5. s[j] = b[i]
    BY <2>3, <1>4
  <2> QED BY <2>2, <2>4, <2>5
<1>10. \A i \in 1 .. Len(c) : q[Len(a) + Len(b) + i] = c[i]
  <2>1. SUFFICES ASSUME NEW i \in 1 .. Len(c) PROVE q[Len(a) + Len(b) + i] = c[i]
    OBVIOUS
  <2>2. PICK j : j = Len(a) + Len(b) + i
    OBVIOUS
  <2>3. j \in 1 .. Len(q) /\ ~(j <= Len(s)) /\ j - Len(s) = i
    BY <2>2, <1>2, <1>3, <1>6
  <2>4. q[j] = c[i]
    BY <2>3, <1>7
  <2> QED BY <2>2, <2>4
<1> QED BY <1>3, <1>6, <1>8, <1>9, <1>10 DEF InARow

\* The parent with the keys between the pieces.
UpKeys(gb, u, x, k) == [i \in 1 .. (k - 1) |-> [Head(PieceEnt(gb, u, i + 1)) EXCEPT !.ge = x[i + 1]]]
ParentRow(n, gb, u, p, is, x, k) ==
  SubSeq(n.ent, 1, p) \o UpKeys(gb, u, x, k) \o SubSeq(n.ent, p + Max({1, is}), n.ct)
ParentWith(n, gb, u, p, is, x, k) ==
  [n EXCEPT !.leaf = FALSE, !.ct = Len(ParentRow(n, gb, u, p, is, x, k)),
            !.ent = Overwrite(@, ParentRow(n, gb, u, p, is, x, k)), !.lt = IF p = 0 THEN x[1] ELSE @]
UpKeysAre(s, V, u, x, k) ==
  /\ s \in Seq(Entry) /\ Len(s) = k - 1
  /\ \A i \in 1 .. (k - 1) : s[i].key = V.ent[u[i] + 1].key /\ s[i].ge = x[i + 1]
Slices(V, u, k) == k \in {2, 3, 4} /\ \A j \in 1 .. k : Slice(V, u, j)

\* The keys that go to the parent.
LEMMA UpKeysIs ==
  ASSUME NEW V, NEW gb, GatheredNode(V, gb), NEW u, NEW k, Slices(V, u, k), NEW x, \A i \in 1 .. k : x[i] \in Int,
         NEW s, s = UpKeys(gb, u, x, k)
  PROVE  UpKeysAre(s, V, u, x, k)
PROOF
<1>1. k \in Nat /\ k >= 2
  BY DEF Slices
<1>2. ASSUME NEW i \in 1 .. (k - 1)
      PROVE  s[i] \in Entry /\ s[i].key = V.ent[u[i] + 1].key /\ s[i].ge = x[i + 1]
  <2>1. PICK j : j = i + 1
    OBVIOUS
  <2>2. j \in 1 .. k /\ j - 1 = i
    BY <1>1, <2>1
  <2>3. Slice(V, u, j)
    BY <2>2 DEF Slices
  <2>4. PieceEnt(gb, u, j)[1] = V.ent[u[j - 1] + 1] /\ u[j - 1] + 1 \in 1 .. V.ct
    BY <2>3, PieceInAre
  <2>5. Head(PieceEnt(gb, u, j)) = V.ent[u[i] + 1] /\ u[i] + 1 \in 1 .. V.ct
    BY <2>2, <2>4
  <2>6. PICK v : v = V.ent[u[i] + 1]
    OBVIOUS
  <2>7. v \in Entry
    BY <2>5, <2>6, NodeParts DEF GatheredNode
  <2>8. s[i] = [v EXCEPT !.ge = x[j]]
    BY <2>1, <2>5, <2>6 DEF UpKeys
  <2>9. x[j] \in Int
    BY <2>2
  <2>10. s[i] = [key |-> v.key, rec |-> v.rec, ge |-> x[j]]
    BY <2>7, <2>8 DEF Entry
  <2> QED BY <2>1, <2>6, <2>7, <2>9, <2>10 DEF Entry
<1>3. s = [i \in 1 .. (k - 1) |-> s[i]]
  BY DEF UpKeys
<1>4. s \in [1 .. (k - 1) -> Entry]
  BY <1>2, <1>3
<1>5. s \in Seq(Entry) /\ Len(s) = k - 1
  <2>1. k - 1 \in Nat
    BY <1>1
  <2> QED BY <1>4, <2>1, SequenceOfFunction
<1> QED BY <1>2, <1>5 DEF UpKeysAre

Gone(is) == IF is = 0 THEN 0 ELSE 2
IsParent(z, n, V, u, p, is, x, k) ==
  /\ IsNode(z) /\ ~z.leaf /\ z.next = n.next /\ z.ct = n.ct - Gone(is) + k - 1
  /\ \A i \in 1 .. p : z.ent[i] = n.ent[i]
  /\ \A i \in 1 .. (k - 1) : z.ent[p + i].key = V.ent[u[i] + 1].key /\ z.ent[p + i].ge = x[i + 1]
  /\ \A i \in (p + 1) .. (n.ct - Gone(is)) : z.ent[i + k - 1] = n.ent[i + Gone(is)]
  /\ z.lt = IF p = 0 THEN x[1] ELSE n.lt
ParentAt(n, p, is) == IsNode(n) /\ p \in Nat /\ is \in {0, 3} /\ p + Gone(is) <= n.ct

\* The parent with the keys and children it gets.
LEMMA ParentIs ==
  ASSUME NEW V, NEW gb, GatheredNode(V, gb), NEW u, NEW k, Slices(V, u, k), NEW x, \A i \in 1 .. k : x[i] \in Int,
         NEW n, NEW p, NEW is, ParentAt(n, p, is), NEW z, z = ParentWith(n, gb, u, p, is, x, k)
  PROVE  IsParent(z, n, V, u, p, is, x, k)
PROOF
<1>1. /\ n \in NodeType /\ n.ent \in Seq(Entry) /\ n.ct \in Nat /\ n.ct <= Len(n.ent) /\ n.lt \in Int
      /\ n.prev \in Int /\ n.next \in Int
  BY DEF ParentAt, IsNode, NodeType
<1>2. PICK d : d = Gone(is)
  OBVIOUS
<1>3. p \in Nat /\ d \in {0, 2} /\ p + d <= n.ct /\ is \in {0, 3}
  BY <1>2 DEF ParentAt, Gone
<1>4. Max({1, is}) = d + 1
  <2>1. Max({1, is}) = IF 1 <= is THEN is ELSE 1
    BY <1>3, MaxOfTwo
  <2> QED BY <2>1, <1>2, <1>3 DEF Gone
<1>5. PICK e : e = n.ent
  OBVIOUS
<1>6. PICK a : a = SubSeq(e, 1, p)
  OBVIOUS
<1>7. a \in Seq(Entry) /\ Len(a) = p /\ \A i \in 1 .. p : a[i] = e[i]
  <2>1. e \in Seq(Entry) /\ p <= Len(e) /\ 1 \in Nat
    BY <1>1, <1>3, <1>5
  <2>2. a \in Seq(Entry)
    BY <2>1, <1>3, <1>6, SubSeqProperties
  <2>3. Len(a) = p
    BY <2>1, <1>3, <1>6, SubSeqProperties
  <2>4. \A i \in 1 .. p : a[i] = e[i]
    BY <2>1, <1>3, <1>6, SubSeqProperties
  <2> QED BY <2>2, <2>3, <2>4
<1>8. PICK b : b = UpKeys(gb, u, x, k)
  OBVIOUS
<1>9. b \in Seq(Entry) /\ Len(b) = k - 1 /\ \A i \in 1 .. (k - 1) : b[i].key = V.ent[u[i] + 1].key /\ b[i].ge = x[i + 1]
  <2>1. UpKeysAre(b, V, u, x, k)
    BY <1>8, UpKeysIs
  <2> QED BY <2>1 DEF UpKeysAre
<1>10. PICK ct : ct = n.ct
  OBVIOUS
<1>11. PICK c : c = SubSeq(e, p + d + 1, ct)
  OBVIOUS
<1>12. c \in Seq(Entry) /\ Len(c) = ct - d - p /\ \A i \in 1 .. (ct - d - p) : c[i] = e[p + d + i]
  <2>1. e \in Seq(Entry) /\ ct \in Nat /\ ct <= Len(e) /\ p + d <= ct
    BY <1>1, <1>3, <1>5, <1>10
  <2>2. p + d \in Nat /\ p + d + 1 \in Nat
    BY <1>3
  <2>3. c \in Seq(Entry)
    BY <2>1, <2>2, <1>11, SubSeqProperties
  <2>4. Len(c) = ct - (p + d)
    <3>1. PICK y : y = p + d
      OBVIOUS
    <3>2. c = SubSeq(e, y + 1, ct) /\ y \in Nat /\ y <= ct
      BY <3>1, <2>1, <2>2, <1>11
    <3>3. Len(c) = ct - y
      BY <3>2, <2>1, SubSeqProperties
    <3> QED BY <3>1, <3>3
  <2>5. \A i \in 1 .. (ct - (p + d)) : c[i] = e[(p + d) + i]
    <3>1. PICK y : y = p + d
      OBVIOUS
    <3>2. c = SubSeq(e, y + 1, ct) /\ y \in Nat /\ y <= ct
      BY <3>1, <2>1, <2>2, <1>11
    <3>3. \A i \in 1 .. (ct - y) : c[i] = e[y + i]
      BY <3>2, <2>1, SubSeqProperties
    <3> QED BY <3>1, <3>3
  <2>6. ct - (p + d) = ct - d - p
    BY <2>1, <1>3
  <2> QED BY <2>3, <2>4, <2>5, <2>6
<1>13. PICK q : q = a \o b \o c
  OBVIOUS
<1>14. InARow(q, a, b, c)
  BY <1>7, <1>9, <1>12, <1>13, RowIs
<1>15. k \in Nat /\ k >= 2
  BY DEF Slices
<1>16. /\ q \in Seq(Entry) /\ Len(q) = ct - d + k - 1
       /\ \A i \in 1 .. p : q[i] = e[i]
       /\ \A i \in 1 .. (k - 1) : q[p + i] = b[i]
       /\ \A i \in (p + 1) .. (ct - d) : q[i + k - 1] = e[i + d]
  <2>1. Len(q) = p + (k - 1) + (ct - d - p) /\ q \in Seq(Entry)
    BY <1>7, <1>9, <1>12, <1>14 DEF InARow
  <2>2. \A i \in 1 .. p : q[i] = e[i]
    BY <1>7, <1>14 DEF InARow
  <2>3. \A i \in 1 .. (k - 1) : q[p + i] = b[i]
    BY <1>7, <1>9, <1>14 DEF InARow
  <2>4. ASSUME NEW i \in (p + 1) .. (ct - d) PROVE q[i + k - 1] = e[i + d]
    <3>1. PICK j : j = i - p
      OBVIOUS
    <3>2. j \in 1 .. (ct - d - p) /\ p + (k - 1) + j = i + k - 1 /\ p + d + j = i + d
      BY <1>1, <1>3, <1>10, <1>15, <3>1
    <3>3. q[p + (k - 1) + j] = c[j]
      BY <3>2, <1>7, <1>9, <1>12, <1>14 DEF InARow
    <3> QED BY <3>2, <3>3, <1>12
  <2>5. p + (k - 1) + (ct - d - p) = ct - d + k - 1
    <3>1. p \in Int /\ k \in Int /\ d \in Int /\ ct \in Int
      BY <1>1, <1>3, <1>10, <1>15
    <3> QED BY ONLY <3>1
  <2> QED BY <2>1, <2>2, <2>3, <2>4, <2>5
<1>17. q = ParentRow(n, gb, u, p, is, x, k)
  <2>1. p + Max({1, is}) = p + d + 1
    BY <1>3, <1>4
  <2> QED BY <2>1, <1>5, <1>6, <1>8, <1>10, <1>11, <1>13 DEF ParentRow
<1>18. PICK lt : lt = IF p = 0 THEN x[1] ELSE n.lt
  OBVIOUS
<1>19. z = [n EXCEPT !.leaf = FALSE, !.ct = Len(q), !.ent = Overwrite(@, q), !.lt = lt]
  BY <1>17, <1>18 DEF ParentWith
<1>20. PICK w : w = Overwrite(e, q)
  OBVIOUS
<1>21. w \in Seq(Entry) /\ Len(w) \in Nat /\ Len(q) <= Len(w) /\ Len(q) \in Nat /\ \A i \in 1 .. Len(q) : w[i] = q[i]
  <2>1. e \in Seq(Entry) /\ q \in Seq(Entry)
    BY <1>1, <1>5, <1>16
  <2> QED BY <2>1, <1>20, OverwriteIs
<1>22. z = [leaf |-> FALSE, ct |-> Len(q), prev |-> n.prev, next |-> n.next, lt |-> lt, ent |-> w]
  BY <1>1, <1>5, <1>19, <1>20 DEF NodeType
<1>23. lt \in Int
  BY <1>1, <1>15, <1>18
<1>24. z \in NodeType /\ z.leaf = FALSE /\ z.ct = Len(q) /\ z.next = n.next /\ z.lt = lt /\ z.ent = w
  BY ONLY <1>1, <1>21, <1>22, <1>23 DEF NodeType
<1>25. IsNode(z) /\ ~z.leaf
  BY <1>21, <1>24 DEF IsNode
<1>26. z.ct = n.ct - Gone(is) + k - 1
  BY <1>2, <1>10, <1>16, <1>24
<1>27. \A i \in 1 .. p : z.ent[i] = n.ent[i]
  <2>1. SUFFICES ASSUME NEW i \in 1 .. p PROVE w[i] = e[i]
    BY <1>5, <1>24
  <2>2. i \in 1 .. Len(q)
    BY <1>1, <1>3, <1>10, <1>15, <1>16
  <2> QED BY <2>2, <1>16, <1>21
<1>28. \A i \in 1 .. (k - 1) : z.ent[p + i].key = V.ent[u[i] + 1].key /\ z.ent[p + i].ge = x[i + 1]
  <2>1. SUFFICES ASSUME NEW i \in 1 .. (k - 1) PROVE w[p + i].key = V.ent[u[i] + 1].key /\ w[p + i].ge = x[i + 1]
    BY <1>24
  <2>2. p + i \in 1 .. Len(q)
    BY <1>1, <1>3, <1>10, <1>15, <1>16
  <2>3. w[p + i] = b[i]
    BY <2>2, <1>16, <1>21
  <2> QED BY <2>3, <1>9
<1>29. \A i \in (p + 1) .. (n.ct - Gone(is)) : z.ent[i + k - 1] = n.ent[i + Gone(is)]
  <2>1. SUFFICES ASSUME NEW i \in (p + 1) .. (ct - d) PROVE w[i + k - 1] = e[i + d]
    BY <1>2, <1>5, <1>10, <1>24
  <2>2. i + k - 1 \in 1 .. Len(q)
    BY <1>1, <1>3, <1>10, <1>15, <1>16
  <2> QED BY <2>2, <1>16, <1>21
<1> QED BY <1>18, <1>24, <1>25, <1>26, <1>27, <1>28, <1>29 DEF IsParent

\* A parent that is the same to a reader of keys is still the parent of the
\* joined node.
LEMMA JoinedSame ==
  ASSUME NEW o, NEW m, NEW n, NEW p, NEW is \in {0, 3}, IsNode(o), IsNode(m), IsNode(n), Same(n, m), JoinedOf(o, m, p, is)
  PROVE  JoinedOf(o, n, p, is)
PROOF
<1>1. PICK d : d = IF is = 0 THEN 0 ELSE 2
  OBVIOUS
<1>2. d \in {0, 2}
  BY <1>1
<1>3. /\ ~o.leaf /\ p \in 0 .. o.ct /\ m.ct = o.ct + d
      /\ \A i \in 1 .. p : m.ent[i].key = o.ent[i].key
      /\ \A i \in (p + 1) .. o.ct : m.ent[i + d].key = o.ent[i].key
      /\ \A i \in 0 .. (p - 1) : Child(m, i) = Child(o, i)
      /\ \A i \in (p + 1) .. o.ct : Child(m, i + d) = Child(o, i)
      /\ IF is = 0 THEN o.ct = 0 ELSE Child(m, p) = Child(o, p)
  BY <1>1 DEF JoinedOf
<1>4. /\ n.ct = m.ct /\ \A i \in 0 .. n.ct : Child(n, i) = Child(m, i)
      /\ \A i \in 1 .. n.ct : n.ent[i].key = m.ent[i].key
  BY SameNode
<1>5. n.ct = o.ct + d /\ o.ct \in Nat /\ p \in Nat /\ p <= o.ct
  BY <1>3, <1>4, NodeParts
<1>6. \A i \in 1 .. p : n.ent[i].key = o.ent[i].key
  BY <1>2, <1>3, <1>4, <1>5
<1>7. \A i \in (p + 1) .. o.ct : n.ent[i + d].key = o.ent[i].key
  <2>1. \A i \in (p + 1) .. o.ct : i + d \in 1 .. n.ct
    BY <1>2, <1>5
  <2> QED BY <2>1, <1>3, <1>4
<1>8. \A i \in 0 .. (p - 1) : Child(n, i) = Child(o, i)
  <2>1. \A i \in 0 .. (p - 1) : i \in 0 .. n.ct
    BY <1>2, <1>5
  <2> QED BY <2>1, <1>3, <1>4
<1>9. \A i \in (p + 1) .. o.ct : Child(n, i + d) = Child(o, i)
  <2>1. \A i \in (p + 1) .. o.ct : i + d \in 0 .. n.ct
    BY <1>2, <1>5
  <2> QED BY <2>1, <1>3, <1>4
<1>10. IF is = 0 THEN o.ct = 0 ELSE Child(n, p) = Child(o, p)
  <2>1. p \in 0 .. n.ct
    BY <1>2, <1>5
  <2> QED BY <2>1, <1>3, <1>4
<1> QED BY <1>1, <1>3, <1>5, <1>6, <1>7, <1>8, <1>9, <1>10 DEF JoinedOf

\* Of the node that was gathered the parent now has the pieces.
LEMMA ParentIsCut ==
  ASSUME NEW o, NEW n, NEW z, NEW p, NEW is \in {0, 3}, NEW k \in {2, 3, 4}, NEW V, NEW u, NEW x,
         IsNode(o), IsNode(n), JoinedOf(o, n, p, is), Child(o, p) = x[1], IsParent(z, n, V, u, p, is, x, k)
  PROVE  CutUnder(o, z, p, k, V, u, x) /\ ParentAt(n, p, is) /\ z.ct = o.ct + k - 1
PROOF
<1>1. PICK d : d = Gone(is)
  OBVIOUS
<1>2. d \in {0, 2} /\ (is = 0 => d = 0) /\ (is # 0 => d = 2)
  BY <1>1 DEF Gone
<1>3. /\ ~o.leaf /\ p \in 0 .. o.ct /\ n.ct = o.ct + d
      /\ \A i \in 1 .. p : n.ent[i].key = o.ent[i].key
      /\ \A i \in (p + 1) .. o.ct : n.ent[i + d].key = o.ent[i].key
      /\ \A i \in 0 .. (p - 1) : Child(n, i) = Child(o, i)
      /\ \A i \in (p + 1) .. o.ct : Child(n, i + d) = Child(o, i)
      /\ IF is = 0 THEN o.ct = 0 ELSE Child(n, p) = Child(o, p)
  BY <1>1 DEF JoinedOf, Gone
<1>4. o.ct \in Nat /\ n.ct \in Nat /\ p \in Nat /\ p <= o.ct /\ k \in Nat
  BY <1>3, NodeParts
<1>5. /\ IsNode(z) /\ ~z.leaf /\ z.ct = n.ct - d + k - 1
      /\ \A i \in 1 .. p : z.ent[i] = n.ent[i]
      /\ \A i \in 1 .. (k - 1) : z.ent[p + i].key = V.ent[u[i] + 1].key /\ z.ent[p + i].ge = x[i + 1]
      /\ \A i \in (p + 1) .. (n.ct - d) : z.ent[i + k - 1] = n.ent[i + d]
      /\ z.lt = IF p = 0 THEN x[1] ELSE n.lt
  BY <1>1 DEF IsParent
<1>6. n.ct - d = o.ct /\ z.ct = o.ct + k - 1
  <2>1. d \in Int /\ o.ct \in Int /\ k \in Int /\ z.ct = (o.ct + d) - d + k - 1
    BY <1>2, <1>3, <1>4, <1>5
  <2> QED BY <2>1, <1>3
<1>7. \A i \in 1 .. p : z.ent[i].key = o.ent[i].key
  BY <1>3, <1>5
<1>8. \A i \in (p + 1) .. o.ct : z.ent[i + k - 1].key = o.ent[i].key
  BY <1>3, <1>5, <1>6
<1>9. \A i \in 0 .. (p - 1) : Child(z, i) = Child(o, i)
  <2>1. SUFFICES ASSUME NEW i \in 0 .. (p - 1) PROVE Child(z, i) = Child(n, i)
    BY <1>3
  <2>2. p # 0
    BY <1>4
  <2>3. CASE i = 0
    BY <2>2, <2>3, <1>5 DEF Child
  <2>4. CASE i # 0
    <3>1. i \in 1 .. p
      BY <2>4, <1>4
    <3> QED BY <2>4, <3>1, <1>5 DEF Child
  <2> QED BY <2>3, <2>4
<1>10. \A i \in (p + 1) .. o.ct : Child(z, i + k - 1) = Child(o, i)
  <2>1. SUFFICES ASSUME NEW i \in (p + 1) .. o.ct PROVE Child(z, i + k - 1) = Child(n, i + d)
    BY <1>3
  <2>2. i + k - 1 # 0 /\ i + d # 0
    BY <1>2, <1>4
  <2>3. z.ent[i + k - 1] = n.ent[i + d]
    BY <1>5, <1>6
  <2> QED BY <2>2, <2>3 DEF Child
<1>11. \A j \in 1 .. k : Child(z, p + j - 1) = x[j]
  <2>1. Child(z, p) = x[1]
    <3>1. CASE p = 0
      BY <3>1, <1>5 DEF Child
    <3>2. CASE p # 0
      <4>1. is # 0
        BY <3>2, <1>3, <1>4
      <4>2. Child(n, p) = x[1]
        BY <4>1, <1>3
      <4>3. z.ent[p] = n.ent[p]
        BY <3>2, <1>4, <1>5
      <4> QED BY <3>2, <4>2, <4>3 DEF Child
    <3> QED BY <3>1, <3>2
  <2>2. ASSUME NEW j \in 2 .. k PROVE Child(z, p + j - 1) = x[j]
    <3>1. PICK i : i = j - 1
      OBVIOUS
    <3>2. i \in 1 .. (k - 1) /\ p + i = p + j - 1 /\ i + 1 = j /\ p + j - 1 # 0
      BY <3>1, <1>4
    <3>3. z.ent[p + i].ge = x[i + 1]
      BY <3>2, <1>5
    <3> QED BY <3>2, <3>3 DEF Child
  <2>3. ASSUME NEW j \in 1 .. k PROVE Child(z, p + j - 1) = x[j]
    <3>1. CASE j = 1
      <4>1. p + j - 1 = p
        BY <3>1, <1>4
      <4> QED BY <3>1, <4>1, <2>1
    <3>2. CASE j # 1
      <4>1. j \in 2 .. k
        BY <3>2, <1>4
      <4> QED BY <4>1, <2>2
    <3> QED BY <3>1, <3>2
  <2> QED BY <2>3
<1>12. ~V.leaf => \A j \in 2 .. k : z.ent[p + j - 1].key = V.ent[u[j - 1] + 1].key
  <2>1. ASSUME NEW j \in 2 .. k PROVE z.ent[p + j - 1].key = V.ent[u[j - 1] + 1].key
    <3>1. PICK i : i = j - 1
      OBVIOUS
    <3>2. i \in 1 .. (k - 1) /\ p + i = p + j - 1
      BY <3>1, <1>4
    <3> QED BY <3>1, <3>2, <1>5
  <2> QED BY <2>1
<1>13. ParentAt(n, p, is)
  <2>1. p + d <= n.ct
    BY <1>2, <1>3, <1>4
  <2> QED BY <2>1, <1>1, <1>4 DEF ParentAt
<1> QED BY <1>3, <1>5, <1>6, <1>7, <1>8, <1>9, <1>10, <1>11, <1>12, <1>13 DEF CutUnder

\* In a leaf the key between two pieces is the first of the second.
LEMMA ParentBetween ==
  ASSUME NEW n, NEW z, NEW p \in Nat, NEW is, NEW k \in {2, 3, 4}, NEW V, NEW u, NEW x, IsNode(V), Sorted(V),
         Slices(V, u, k), IsParent(z, n, V, u, p, is, x, k)
  PROVE  Between(z, p, k, V, u)
PROOF
<1>1. SUFFICES ASSUME V.leaf, NEW j \in 2 .. k
               PROVE  /\ V.ent[u[j - 1]].key < z.ent[p + j - 1].key
                      /\ z.ent[p + j - 1].key <= V.ent[u[j - 1] + 1].key
  BY DEF Between
<1>2. PICK i : i = j - 1
  OBVIOUS
<1>3. i \in 1 .. (k - 1) /\ i \in 1 .. k /\ p + i = p + j - 1 /\ j \in 1 .. k /\ i - 1 \in Nat
  BY <1>2
<1>4. z.ent[p + i].key = V.ent[u[i] + 1].key
  BY <1>3 DEF IsParent
<1>5. Slice(V, u, i) /\ Slice(V, u, j)
  BY <1>3 DEF Slices
<1>6. PICK w : w = u[i]
  OBVIOUS
<1>7. w \in Nat /\ w >= 1
  <2>1. u[i - 1] \in Nat /\ w \in Nat /\ Size(u, V.leaf, i) > 0
    BY <1>5, <1>6 DEF Slice
  <2>2. w - u[i - 1] - 0 > 0
    BY <2>1, <1>1, <1>6 DEF Size
  <2> QED BY <2>1, <2>2
<1>8. w + 1 <= V.ct /\ V.ct \in Nat
  <2>1. w = u[j - 1]
    BY <1>2, <1>6
  <2>2. u[j] \in Nat /\ u[j] <= V.ct /\ Size(u, V.leaf, j) > 0
    BY <1>5 DEF Slice
  <2>3. u[j] - w - 0 > 0
    BY <2>1, <2>2, <1>1 DEF Size
  <2>4. V.ct \in Nat
    BY NodeParts
  <2> QED BY <2>2, <2>3, <2>4, <1>7
<1>9. w \in 1 .. V.ct /\ w + 1 \in 1 .. V.ct /\ w < w + 1
  BY <1>7, <1>8
<1>10. V.ent[w].key < V.ent[w + 1].key
  BY <1>9 DEF Sorted
<1>11. V.ent[w + 1].key \in Int
  BY <1>9, NodeParts
<1>12. V.ent[w + 1].key <= V.ent[w + 1].key
  BY <1>11
<1> QED BY <1>2, <1>3, <1>4, <1>6, <1>10, <1>12

\* The pieces are a cut.
Pieces(V, W, n, u, k) == \A j \in 1 .. k : IsPiece(W[j], n[j], V, u, j)

\* The nodes filled are the pieces of what was gathered.
LEMMA PiecesAreCut ==
  ASSUME NEW V, NEW W, NEW n, NEW u, NEW k \in {2, 3, 4}, IsNode(V), Slices(V, u, k), Pieces(V, W, n, u, k),
         u \in [0 .. k -> Nat], u[0] = 0, u[k] = V.ct, \A i, j \in 0 .. k : i <= j => u[i] <= u[j]
  PROVE  CutAt(V, W, k, u)
PROOF
<1>1. ASSUME NEW j \in 1 .. k
      PROVE  /\ W[j].leaf = V.leaf /\ W[j].ct > 0 /\ Off(V, u, j) + W[j].ct = u[j]
             /\ \A i \in 1 .. W[j].ct : W[j].ent[i].key = V.ent[Off(V, u, j) + i].key
             /\ ~V.leaf => \A i \in 0 .. W[j].ct : Child(W[j], i) = Child(V, Off(V, u, j) + i)
  <2>1. IsPiece(W[j], n[j], V, u, j) /\ Slice(V, u, j)
    BY DEF Pieces, Slices
  <2>2. PICK q : q = W[j]
    OBVIOUS
  <2>3. /\ IsNode(q) /\ q.leaf = V.leaf /\ q.ct = Size(u, V.leaf, j)
        /\ \A i \in 1 .. q.ct : q.ent[i] = V.ent[Off(V, u, j) + i]
        /\ ~V.leaf => q.lt = Child(V, Off(V, u, j))
    BY <2>1, <2>2 DEF IsPiece
  <2>4. q.ct > 0 /\ u[j - 1] \in Nat /\ u[j] \in Nat
    BY <2>1, <2>3 DEF Slice
  <2>5. PICK e : e = IF V.leaf \/ j = 1 THEN 0 ELSE 1
    OBVIOUS
  <2>6. e \in {0, 1} /\ Off(V, u, j) = u[j - 1] + e /\ q.ct = u[j] - u[j - 1] - e
    BY <2>3, <2>5 DEF Off, Size
  <2>7. Off(V, u, j) + q.ct = u[j]
    BY <2>4, <2>6
  <2>8. ~V.leaf => \A i \in 0 .. q.ct : Child(q, i) = Child(V, Off(V, u, j) + i)
    <3>1. SUFFICES ASSUME ~V.leaf, NEW i \in 0 .. q.ct PROVE Child(q, i) = Child(V, Off(V, u, j) + i)
      OBVIOUS
    <3>2. PICK y : y = Off(V, u, j)
      OBVIOUS
    <3>3. y \in Nat
      BY <2>4, <2>6, <3>2
    <3>4. CASE i = 0
      <4>1. y + i = y
        BY <3>3, <3>4
      <4>2. Child(q, i) = q.lt
        BY <3>4 DEF Child
      <4> QED BY <4>1, <4>2, <3>1, <3>2, <2>3
    <3>5. CASE i # 0
      <4>1. i \in 1 .. q.ct /\ y + i # 0
        BY <3>3, <3>5, <2>3, NodeParts
      <4>2. q.ent[i] = V.ent[y + i]
        BY <4>1, <3>2, <2>3
      <4> QED BY <4>1, <4>2, <3>2, <3>5 DEF Child
    <3> QED BY <3>4, <3>5
  <2> QED BY <2>2, <2>3, <2>4, <2>7, <2>8
<1>2. k \in Nat /\ k > 0
  OBVIOUS
<1> QED BY <1>1, <1>2 DEF CutAt

\* The leaf behind the last one is linked to it.
Linked(g, f, top) ==
  /\ Store(f, top) /\ DOMAIN f.nodes = DOMAIN g.nodes
  /\ \A a \in DOMAIN g.nodes : Same(f.nodes[a], g.nodes[a])
  /\ f.file[Root] = g.file[Root] /\ f.rootModified = g.rootModified /\ Fresh(f) = Fresh(g)
  /\ \A a : Near(g, a, 6) => Near(f, a, 7)
LinksBack(g, f, last, next) ==
  \E r : r = readDisk(g, next) /\ f = writeNode(r, next, [r.nodes[next] EXCEPT !.prev = last])

\* The link back from the leaf behind is written.
LEMMA LinkedBack ==
  ASSUME NEW g, NEW top, Store(g, top), NEW last \in Int, NEW next \in DOMAIN g.nodes, next # Root, next \notin Fresh(g),
         \A a \in Fresh(g) : Near(g, a, 6), NEW f, LinksBack(g, f, last, next)
  PROVE  Linked(g, f, top)
PROOF
<1>1. PICK r : r = readDisk(g, next) /\ f = writeNode(r, next, [r.nodes[next] EXCEPT !.prev = last])
  BY DEF LinksBack
<1>2. Read(g, r, top, next)
  BY <1>1, ReadIs
<1>3. /\ Store(r, top) /\ DOMAIN r.nodes = DOMAIN g.nodes /\ \A a \in DOMAIN g.nodes : Same(r.nodes[a], g.nodes[a])
      /\ r.file[Root] = g.file[Root] /\ r.rootModified = g.rootModified /\ Fresh(r) = Fresh(g) /\ Near(r, next, 1)
      /\ \A a, p : p \in 1 .. 6 /\ Near(g, a, p) => Near(r, a, p + 1)
  BY <1>2 DEF Read, Alike
<1>4. PICK k : k = r.nodes[next]
  OBVIOUS
<1>5. PICK m : m = [k EXCEPT !.prev = last]
  OBVIOUS
<1>6. NodeOK(k, DOMAIN r.nodes, top)
  BY <1>3, <1>4, StoreNodes DEF Store
<1>7. k \in NodeType /\ k.ct <= Len(k.ent) /\ k.next \in DOMAIN r.nodes /\ (k.leaf => \A i \in 1 .. k.ct : k.ent[i].rec \in 1 .. top)
  BY <1>6 DEF NodeOK, IsNode
<1>8. m = [leaf |-> k.leaf, ct |-> k.ct, prev |-> last, next |-> k.next, lt |-> k.lt, ent |-> k.ent]
  BY <1>5, <1>7 DEF NodeType
<1>9. IsNode(m)
  BY <1>7, <1>8 DEF IsNode, NodeType
<1>10. NodeOK(m, DOMAIN r.nodes, top) /\ Same(m, k)
  BY <1>7, <1>8, <1>9 DEF NodeOK, Same
<1>11. Wrote(r, f, top, next, m)
  <2>1. f = writeNode(r, next, m)
    BY <1>1, <1>4, <1>5
  <2>2. next \in DOMAIN r.nodes
    BY <1>3
  <2>3. Near(r, next, 7)
    <3>1. 1 <= 7 /\ 1 \in Int /\ 7 \in Int
      OBVIOUS
    <3> QED BY <3>1, <1>3, NearMore
  <2> QED BY ONLY <2>1, <2>2, <2>3, <1>3, <1>10, WriteIs
<1>12. /\ Store(f, top) /\ DOMAIN f.nodes = DOMAIN r.nodes /\ f.nodes[next] = m
       /\ \A b \in DOMAIN r.nodes : b # next => f.nodes[b] = r.nodes[b]
       /\ f.file = r.file /\ f.rootModified = (r.rootModified \/ next = Root)
       /\ Fresh(f) = Fresh(r) \ {next}
       /\ \A b, p : p \in 1 .. 7 => (Near(f, b, p) <=> Near(r, b, p))
  BY <1>11 DEF Wrote
<1>13. \A a \in DOMAIN g.nodes : Same(f.nodes[a], g.nodes[a])
  <2>1. SUFFICES ASSUME NEW a \in DOMAIN g.nodes PROVE Same(f.nodes[a], g.nodes[a])
    OBVIOUS
  <2>2. Same(r.nodes[a], g.nodes[a])
    BY <1>3
  <2>3. CASE a = next
    BY <2>2, <2>3, <1>4, <1>10, <1>12, SameTrans
  <2>4. CASE a # next
    BY <2>2, <2>4, <1>3, <1>12
  <2> QED BY <2>3, <2>4
<1>14. \A a : Near(g, a, 6) => Near(f, a, 7)
  <2>1. SUFFICES ASSUME NEW a, Near(g, a, 6) PROVE Near(f, a, 7)
    OBVIOUS
  <2>2. Near(r, a, 6 + 1)
    <3>1. PICK p : p = 6
      OBVIOUS
    <3>2. p \in 1 .. 6 /\ Near(g, a, p)
      BY <3>1, <2>1
    <3>3. Near(r, a, p + 1)
      BY ONLY <3>2, <1>3
    <3> QED BY <3>1, <3>3
  <2>3. 6 + 1 = 7 /\ 7 \in 1 .. 7
    OBVIOUS
  <2> QED BY <2>2, <2>3, <1>12
<1>15. f.rootModified = g.rootModified
  <2>1. r.rootModified \in BOOLEAN
    BY <1>3, StoreNodes DEF Store
  <2>2. f.rootModified = r.rootModified
    BY <2>1, <1>12
  <2> QED BY <2>2, <1>3
<1>16. Fresh(f) = Fresh(g)
  BY <1>3, <1>12
<1> QED BY <1>3, <1>12, <1>13, <1>14, <1>15, <1>16 DEF Linked

\* There is no leaf behind.
LEMMA LinkedNot ==
  ASSUME NEW g, NEW top, Store(g, top)
  PROVE  Linked(g, g, top)
PROOF
<1>1. \A a : Near(g, a, 6) => Near(g, a, 7)
  <2>1. 6 \in Int /\ 7 \in Int /\ 6 <= 7
    OBVIOUS
  <2> QED BY <2>1, NearMore
<1> QED BY <1>1, SameRefl DEF Linked

\* LinkNext changes links only.
LEMMA LinkNextIs ==
  ASSUME NEW top, NEW t, NEW N, NEW pos, ScatterAt(h, call, top, t, N, pos), call.iu \in {2, 3, 4}, NEW f, f = LinkNext(h)
  PROVE  Linked(h, f, top)
PROOF
<1>1. PICK last : last = call.tmp[call.iu]
  OBVIOUS
<1>2. PICK next : next = h.nodes[last].next
  OBVIOUS
<1>3. \/ f = h
      \/ next # NoAdr /\ LinksBack(h, f, last, next)
  <2>1. PICK r : r = readDisk(h, next)
    OBVIOUS
  <2>2. \/ f = h
        \/ next # NoAdr /\ f = writeNode(r, next, [r.nodes[next] EXCEPT !.prev = last])
    BY <1>1, <1>2, <2>1 DEF LinkNext
  <2> QED BY <2>1, <2>2, Zenon DEF LinksBack
<1>4. Store(h, top)
  BY DEF ScatterAt
<1>5. CASE f = h
  BY <1>4, <1>5, LinkedNot
<1>6. CASE next # NoAdr /\ LinksBack(h, f, last, next)
  <2>1. call.iu \in 1 .. call.iu
    OBVIOUS
  <2>2. last \in DOMAIN h.nodes /\ next \notin Fresh(h)
    BY <2>1, <1>1, <1>2 DEF ScatterAt
  <2>3. NodeOK(h.nodes[last], DOMAIN h.nodes, top) /\ last \in Nat
    BY <2>2, <1>4, StoreNodes DEF Store
  <2>4. next \in DOMAIN h.nodes /\ last \in Int /\ next # Root
    BY <2>3, <1>2, <1>6 DEF NodeOK, NoAdr, Root
  <2>5. \A a \in Fresh(h) : Near(h, a, 6)
    <3>1. pos \in Int /\ pos <= 6 /\ 6 \in Int
      BY DEF ScatterAt
    <3>2. \A a \in Fresh(h) : Near(h, a, pos)
      BY DEF ScatterAt
    <3> QED BY <3>1, <3>2, NearMore
  <2>6. LinksBack(h, f, last, next)
    BY <1>6
  <2> QED BY ONLY <2>2, <2>4, <2>5, <2>6, <1>4, LinkedBack
<1> QED BY <1>3, <1>5, <1>6

\* The parent and the first i nodes are written.
FilledTo(g, f, top, b, z, x, q, i) ==
  /\ Store(f, top) /\ DOMAIN f.nodes = DOMAIN g.nodes /\ f.nodes[b] = z
  /\ \A j \in 1 .. i : f.nodes[x[j]] = q[j]
  /\ \A a \in DOMAIN g.nodes : a # b /\ (\A j \in 1 .. i : x[j] # a) => f.nodes[a] = g.nodes[a]
  /\ f.file = g.file /\ f.rootModified = (g.rootModified \/ b = Root)
  /\ \A a \in Fresh(f) : a \in Fresh(g) /\ a # b /\ \A j \in 1 .. i : x[j] # a
  /\ \A a : Near(g, a, 7) => Near(f, a, 7)
CanFill(g, top, b, z, x, q, k) ==
  /\ Store(g, top) /\ b \in DOMAIN g.nodes /\ Near(g, b, 7) /\ NodeOK(z, DOMAIN g.nodes, top)
  /\ \A j \in 1 .. k : /\ x[j] \in DOMAIN g.nodes /\ x[j] # b /\ x[j] # Root /\ Near(g, x[j], 7)
                       /\ NodeOK(q[j], DOMAIN g.nodes, top)
  /\ \A i, j \in 1 .. k : x[i] = x[j] => i = j

\* The parent is written.
LEMMA FilledFirst ==
  ASSUME NEW g, NEW top, NEW b, NEW z, NEW x, NEW q, NEW k \in Nat, CanFill(g, top, b, z, x, q, k),
         NEW f, f = writeNode(g, b, z)
  PROVE  FilledTo(g, f, top, b, z, x, q, 0)
PROOF
<1>1. Store(g, top) /\ b \in DOMAIN g.nodes /\ Near(g, b, 7) /\ NodeOK(z, DOMAIN g.nodes, top)
  BY DEF CanFill
<1>2. Wrote(g, f, top, b, z)
  BY <1>1, WriteIs
<1>3. 7 \in 1 .. 7 /\ 1 .. 0 = {}
  OBVIOUS
<1> QED BY <1>2, <1>3 DEF Wrote, FilledTo

\* One more node is written.
LEMMA FilledNext ==
  ASSUME NEW g, NEW top, NEW b, NEW z, NEW x, NEW q, NEW k \in Nat, CanFill(g, top, b, z, x, q, k),
         NEW i \in 1 .. k, NEW e, FilledTo(g, e, top, b, z, x, q, i - 1), NEW f, f = writeNode(e, x[i], q[i])
  PROVE  FilledTo(g, f, top, b, z, x, q, i)
PROOF
<1>1. /\ x[i] \in DOMAIN g.nodes /\ x[i] # b /\ x[i] # Root /\ Near(g, x[i], 7) /\ NodeOK(q[i], DOMAIN g.nodes, top)
      /\ \A j \in 1 .. k : x[i] = x[j] => i = j
  BY DEF CanFill
<1>2. /\ Store(e, top) /\ DOMAIN e.nodes = DOMAIN g.nodes /\ e.nodes[b] = z
      /\ \A j \in 1 .. (i - 1) : e.nodes[x[j]] = q[j]
      /\ \A a \in DOMAIN g.nodes : a # b /\ (\A j \in 1 .. (i - 1) : x[j] # a) => e.nodes[a] = g.nodes[a]
      /\ e.file = g.file /\ e.rootModified = (g.rootModified \/ b = Root)
      /\ \A a \in Fresh(e) : a \in Fresh(g) /\ a # b /\ \A j \in 1 .. (i - 1) : x[j] # a
      /\ \A a : Near(g, a, 7) => Near(e, a, 7)
  BY DEF FilledTo
<1>3. PICK y : y = x[i]
  OBVIOUS
<1>4. PICK m : m = q[i]
  OBVIOUS
<1>5. y \in DOMAIN e.nodes /\ Near(e, y, 7) /\ NodeOK(m, DOMAIN e.nodes, top) /\ f = writeNode(e, y, m)
  BY <1>1, <1>2, <1>3, <1>4
<1>6. Wrote(e, f, top, y, m)
  BY ONLY <1>2, <1>5, WriteIs
<1>7. /\ Store(f, top) /\ DOMAIN f.nodes = DOMAIN e.nodes /\ f.nodes[y] = m
      /\ \A a \in DOMAIN e.nodes : a # y => f.nodes[a] = e.nodes[a]
      /\ f.file = e.file /\ f.rootModified = (e.rootModified \/ y = Root)
      /\ Fresh(f) = Fresh(e) \ {y}
      /\ \A a : Near(f, a, 7) <=> Near(e, a, 7)
  <2>1. 7 \in 1 .. 7
    OBVIOUS
  <2> QED BY <2>1, <1>6 DEF Wrote
<1>8. 1 .. i = (1 .. (i - 1)) \cup {i}
  OBVIOUS
<1>9. \A j \in 1 .. (i - 1) : x[j] \in DOMAIN g.nodes /\ x[j] # y
  <2>1. \A j \in 1 .. (i - 1) : j \in 1 .. k /\ j # i
    OBVIOUS
  <2> QED BY <2>1, <1>1, <1>3 DEF CanFill
<1>10. b \in DOMAIN g.nodes /\ b # y
  BY <1>1, <1>3 DEF CanFill
<1>11. \A j \in 1 .. i : f.nodes[x[j]] = q[j]
  BY <1>2, <1>3, <1>4, <1>7, <1>8, <1>9
<1>12. \A a \in DOMAIN g.nodes : a # b /\ (\A j \in 1 .. i : x[j] # a) => f.nodes[a] = g.nodes[a]
  BY <1>2, <1>3, <1>7, <1>8
<1>13. f.rootModified = (g.rootModified \/ b = Root)
  <2>1. y # Root
    BY <1>1, <1>3
  <2> QED BY <2>1, <1>2, <1>7
<1>14. \A a \in Fresh(f) : a \in Fresh(g) /\ a # b /\ \A j \in 1 .. i : x[j] # a
  BY <1>2, <1>3, <1>7, <1>8
<1> QED BY <1>2, <1>7, <1>10, <1>11, <1>12, <1>13, <1>14 DEF FilledTo

\* All of them.
Fills(fill, g, b, z, x, q, k) ==
  fill[0] = writeNode(g, b, z) /\ \A i \in 1 .. k : fill[i] = writeNode(fill[i - 1], x[i], q[i])

\* All are.
LEMMA FilledAll ==
  ASSUME NEW g, NEW top, NEW b, NEW z, NEW x, NEW q, NEW k \in {2, 3, 4}, CanFill(g, top, b, z, x, q, k),
         NEW fill, Fills(fill, g, b, z, x, q, k)
  PROVE  FilledTo(g, fill[k], top, b, z, x, q, k)
PROOF
<1>1. fill[0] = writeNode(g, b, z) /\ \A i \in 1 .. k : fill[i] = writeNode(fill[i - 1], x[i], q[i])
  BY DEF Fills
<1>2. FilledTo(g, fill[0], top, b, z, x, q, 0)
  <2>1. PICK f : f = fill[0]
    OBVIOUS
  <2>2. f = writeNode(g, b, z) /\ k \in Nat
    BY <2>1, <1>1
  <2>3. FilledTo(g, f, top, b, z, x, q, 0)
    BY ONLY <2>2, CanFill(g, top, b, z, x, q, k), FilledFirst
  <2> QED BY <2>1, <2>3
<1>3. ASSUME NEW i \in 1 .. k, FilledTo(g, fill[i - 1], top, b, z, x, q, i - 1)
      PROVE  FilledTo(g, fill[i], top, b, z, x, q, i)
  <2>1. PICK f : f = fill[i]
    OBVIOUS
  <2>2. PICK e : e = fill[i - 1]
    OBVIOUS
  <2>3. f = writeNode(e, x[i], q[i]) /\ FilledTo(g, e, top, b, z, x, q, i - 1) /\ k \in Nat
    BY <2>1, <2>2, <1>1, <1>3
  <2>4. FilledTo(g, f, top, b, z, x, q, i)
    BY ONLY <2>3, CanFill(g, top, b, z, x, q, k), i \in 1 .. k, FilledNext
  <2> QED BY <2>1, <2>4
<1>4. FilledTo(g, fill[1], top, b, z, x, q, 1)
  <2>1. 1 \in 1 .. k /\ 1 - 1 = 0
    OBVIOUS
  <2> QED BY <2>1, <1>2, <1>3
<1>5. FilledTo(g, fill[2], top, b, z, x, q, 2)
  <2>1. 2 \in 1 .. k /\ 2 - 1 = 1
    OBVIOUS
  <2> QED BY <2>1, <1>4, <1>3
<1>6. k >= 3 => FilledTo(g, fill[3], top, b, z, x, q, 3)
  <2>1. k >= 3 => 3 \in 1 .. k /\ 3 - 1 = 2
    OBVIOUS
  <2> QED BY <2>1, <1>5, <1>3
<1>7. k >= 4 => FilledTo(g, fill[4], top, b, z, x, q, 4)
  <2>1. k >= 4 => 4 \in 1 .. k /\ 4 - 1 = 3 /\ k >= 3
    OBVIOUS
  <2> QED BY <2>1, <1>6, <1>3
<1> QED BY <1>5, <1>6, <1>7

\* What ScatterKeys computes.
FillBody(f, g, i) ==
  IF i = 0 THEN writeNode(g, call.buf, Parent(g.nodes[call.buf]))
  ELSE writeNode(f[i - 1], call.tmp[i], Filled(g.nodes[call.tmp[i]], i))
IsFill(f, g) == f = [i \in 0 .. call.iu |-> FillBody(f, g, i)]

\* The writes of the nodes, one behind the other, are a table.
LEMMA FillExists ==
  ASSUME NEW g, call.iu \in {2, 3, 4}
  PROVE  \E f : IsFill(f, g)
PROOF
<1> DEFINE w(e, i) == writeNode(e, call.tmp[i], Filled(g.nodes[call.tmp[i]], i))
<1>1. PICK e0 : e0 = writeNode(g, call.buf, Parent(g.nodes[call.buf]))
  OBVIOUS
<1>2. PICK e1 : e1 = w(e0, 1)
  OBVIOUS
<1>3. PICK e2 : e2 = w(e1, 2)
  OBVIOUS
<1>4. PICK e3 : e3 = w(e2, 3)
  OBVIOUS
<1>5. PICK e4 : e4 = w(e3, 4)
  OBVIOUS
<1>6. PICK f : f = [i \in 0 .. call.iu |-> IF i = 0 THEN e0 ELSE IF i = 1 THEN e1 ELSE IF i = 2 THEN e2 ELSE IF i = 3 THEN e3 ELSE e4]
  OBVIOUS
<1>7. f[0] = e0 /\ f[1] = e1 /\ f[2] = e2 /\ (call.iu >= 3 => f[3] = e3) /\ (call.iu >= 4 => f[4] = e4)
  BY <1>6
<1>8. \A i \in 0 .. call.iu : f[i] = FillBody(f, g, i)
  <2>1. \A i \in 0 .. call.iu : i = 0 \/ i = 1 \/ i = 2 \/ (call.iu >= 3 /\ i = 3) \/ (call.iu >= 4 /\ i = 4)
    OBVIOUS
  <2>2. FillBody(f, g, 0) = e0
    BY <1>1 DEF FillBody
  <2>3. \A i : i # 0 => FillBody(f, g, i) = w(f[i - 1], i)
    BY DEF FillBody
  <2>4. FillBody(f, g, 1) = w(f[0], 1) /\ FillBody(f, g, 2) = w(f[1], 2) /\ FillBody(f, g, 3) = w(f[2], 3)
        /\ FillBody(f, g, 4) = w(f[3], 4)
    <3>1. 1 # 0 /\ 2 # 0 /\ 3 # 0 /\ 4 # 0 /\ 1 - 1 = 0 /\ 2 - 1 = 1 /\ 3 - 1 = 2 /\ 4 - 1 = 3
      OBVIOUS
    <3> HIDE DEF w
    <3> QED BY <3>1, <2>3
  <2> HIDE DEF w
  <2> QED BY <2>1, <2>2, <2>4, <1>2, <1>3, <1>4, <1>5, <1>7
<1>9. f = [i \in 0 .. call.iu |-> f[i]]
  BY <1>6
<1>10. f = [i \in 0 .. call.iu |-> FillBody(f, g, i)]
  BY <1>8, <1>9, Zenon
<1> QED BY <1>10 DEF IsFill

\* What ScatterKeys computes.
LEMMA ScatterFills ==
  ASSUME ScatterKeys, call.iu \in {2, 3, 4}, NEW g, g = LinkNext(h)
  PROVE  /\ call.pc = "scatter" /\ ~Adds /\ ~Drops
         /\ call' = [call EXCEPT !.pc = IF call.is = 0 THEN "descend" ELSE "rescan",
                                 !.gbuf = NoGather, !.tmp = << >>, !.is = 0, !.iu = 0, !.pkey = 0]
         /\ \E fill : IsFill(fill, g) /\ h' = fill[call.iu]
PROOF
<1>1. call.pc = "scatter" /\ ~Adds /\ ~Drops
      /\ call' = [call EXCEPT !.pc = IF call.is = 0 THEN "descend" ELSE "rescan",
                              !.gbuf = NoGather, !.tmp = << >>, !.is = 0, !.iu = 0, !.pkey = 0]
  BY DEF ScatterKeys
<1>2. h' = (CHOOSE f : IsFill(f, g))[call.iu]
  BY DEF ScatterKeys, IsFill, FillBody
<1>3. IsFill(CHOOSE f : IsFill(f, g), g)
  BY FillExists
<1> QED BY <1>1, <1>2, <1>3

\* The end of a scatter: k nodes for the keys of V, dealt out at u.
ScatterEnd(c, N, V, u, k) ==
  /\ k = c.iu /\ k \in {2, 3, 4} /\ V = N[c.tmp[1]] /\ IsNode(V) /\ Sorted(V) /\ GatheredNode(V, c.gbuf)
  /\ u = Ends(Len(c.gbuf.ent), k) /\ u \in [0 .. k -> Nat] /\ u[0] = 0 /\ u[k] = V.ct
  /\ \A i, j \in 0 .. k : i <= j => u[i] <= u[j]
  /\ Slices(V, u, k) /\ SizesFit(c, u, V.leaf, Half) /\ ParentRoom(c, N[c.buf].ct + k - 1)

\* It runs when no node is to be added or given up.
LEMMA ScatterEnough ==
  ASSUME ~Adds, ~Drops
  PROVE  Enough(call, Len(call.gbuf.ent), call.gbuf.leaf)
PROOF
<1>1. \A n : AtMost(n, call.gbuf.leaf) = AtMostM(n, call.gbuf.leaf) /\ AtLeast(n, call.gbuf.leaf) = AtLeastM(n, call.gbuf.leaf)
  BY DEF AtMost, AtMostM, AtLeast, AtLeastM, Half
<1> QED BY <1>1 DEF Adds, Drops, Enough, MoreNodes, FewerNodes, GatherCt

\* The pieces have keys.
LEMMA DealtSlices ==
  ASSUME OddRoom, NEW c, NEW V, IsNode(V), NEW u, NEW k, k = c.iu, Dealt(c, V.ct, V.leaf, u)
  PROVE  Slices(V, u, k)
PROOF
<1>1. /\ k \in {2, 3, 4} /\ u \in [0 .. k -> Nat] /\ u[0] = 0 /\ u[k] = V.ct
      /\ \A i, j \in 0 .. k : i <= j => u[i] <= u[j]
      /\ \A j \in 1 .. k : PieceFits(c, Size(u, V.leaf, j), Half)
  BY DEF Dealt, SizesFit
<1>2. Half \in Nat /\ Half >= 3
  BY HalfIs
<1>3. ASSUME NEW j \in 1 .. k PROVE Slice(V, u, j)
  <2>1. j \in Nat /\ j >= 1 /\ j - 1 \in 0 .. k /\ j \in 0 .. k /\ k \in 0 .. k /\ j - 1 <= j /\ j <= k
    BY <1>1
  <2>2. u[j - 1] \in Nat /\ u[j] \in Nat /\ u[j - 1] <= u[j] /\ u[j] <= V.ct
    BY <2>1, <1>1
  <2>3. Size(u, V.leaf, j) \in Half .. (2 * Half + 1)
    BY <1>1 DEF PieceFits
  <2>4. Size(u, V.leaf, j) > 0
    BY <2>3, <1>2
  <2>5. j = 1 => u[j - 1] = 0
    BY <1>1
  <2> QED BY <2>1, <2>2, <2>4, <2>5 DEF Slice
<1> QED BY <1>1, <1>3 DEF Slices

\* What is known when the keys go to their nodes.
LEMMA ScatterEndIs ==
  ASSUME OddRoom, NEW hd, NEW top, NEW t, NEW P, NEW N, ScatterOK(h, call, hd, top, t, P, N),
         Enough(call, Len(call.gbuf.ent), call.gbuf.leaf)
  PROVE  \E V, u, k : ScatterEnd(call, N, V, u, k)
PROOF
<1>1. PICK pos : ScatterAt(h, call, top, t, N, pos)
  BY ScatterAtIs
<1>2. /\ call.gbuf.leaf \in BOOLEAN /\ N[call.buf].ct \in Nat
      /\ Amount(call, N[call.buf].ct, Len(call.gbuf.ent), call.gbuf.leaf)
  BY <1>1 DEF ScatterAt
<1>3. PICK w : w = Whole(h, call)
  OBVIOUS
<1>4. PICK V : V = N[w]
  OBVIOUS
<1>5. /\ IsTree(N, t) /\ w \in t.T /\ Gathered(call, V) /\ JoinedOf(N[call.buf], h.nodes[call.buf], call.pkey, call.is)
  BY <1>3, <1>4 DEF ScatterOK
<1>6. IsNode(V) /\ Sorted(V)
  BY <1>4, <1>5, TreeSorted DEF IsTree
<1>7. GatheredNode(V, call.gbuf)
  BY <1>5, <1>6 DEF Gathered, GatheredNode
<1>8. call.is = 0 => N[call.buf].ct = 0
  BY <1>5 DEF JoinedOf
<1>9. PICK G \in Nat : G = Len(call.gbuf.ent) /\ G = V.ct
  BY <1>7, NodeParts DEF GatheredNode
<1>10. PICK leaf \in BOOLEAN : leaf = call.gbuf.leaf /\ leaf = V.leaf
  BY <1>2, <1>7 DEF GatheredNode
<1>11. PICK oct \in Nat : oct = N[call.buf].ct
  BY <1>2
<1>12. PICK u : u = Ends(G, call.iu)
  OBVIOUS
<1>13. Amount(call, oct, G, leaf) /\ Enough(call, G, leaf) /\ (call.is = 0 => oct = 0)
  BY <1>2, <1>8, <1>9, <1>10, <1>11
<1>14. Dealt(call, G, leaf, u)
  BY ONLY <1>12, <1>13, OddRoom, DealtIs, G \in Nat, oct \in Nat, leaf \in BOOLEAN
<1>15. ParentRoom(call, oct + call.iu - 1)
  BY ONLY <1>13, OddRoom, ParentRoomIs, G \in Nat, oct \in Nat, leaf \in BOOLEAN
<1>16. PICK k : k = call.iu
  OBVIOUS
<1>17. Slices(V, u, k)
  <2>1. Dealt(call, V.ct, V.leaf, u)
    BY <1>9, <1>10, <1>14
  <2> QED BY ONLY <2>1, <1>6, <1>16, OddRoom, DealtSlices
<1>18. /\ k \in {2, 3, 4} /\ u \in [0 .. k -> Nat] /\ u[0] = 0 /\ u[k] = V.ct
       /\ \A i, j \in 0 .. k : i <= j => u[i] <= u[j]
       /\ SizesFit(call, u, V.leaf, Half)
  BY <1>14, <1>16, <1>9, <1>10 DEF Dealt
<1>19. w = call.tmp[1]
  <2>1. call.iu # 0
    BY <1>16, <1>18
  <2> QED BY <2>1, <1>3 DEF Whole
<1>20. ParentRoom(call, N[call.buf].ct + k - 1)
  BY <1>11, <1>15, <1>16
<1>21. u = Ends(Len(call.gbuf.ent), k)
  BY <1>9, <1>12, <1>16
<1>22. V = N[call.tmp[1]]
  BY <1>4, <1>19
<1> QED BY <1>6, <1>7, <1>16, <1>17, <1>18, <1>20, <1>21, <1>22 DEF ScatterEnd

\* Piece is the piece of what was gathered.
LEMMA PieceIsEnt ==
  ASSUME NEW k, k = call.iu, k \in {2, 3, 4}, NEW u, u = Ends(Len(call.gbuf.ent), k), NEW j \in 1 .. k
  PROVE  Piece(j) = PieceEnt(call.gbuf, u, j)
PROOF
<1> DEFINE upto(n) == n * (Len(call.gbuf.ent) \div k) + (IF n = 0 THEN 0 ELSE Min({n - 1, Len(call.gbuf.ent) % k}))
<1>1. u = [i \in 0 .. k |-> upto(i)]
  BY DEF Ends
<1>2. j \in 0 .. k /\ j - 1 \in 0 .. k
  OBVIOUS
<1>3. u[j] = upto(j) /\ u[j - 1] = upto(j - 1)
  <2> HIDE DEF upto
  <2> QED BY <1>1, <1>2
<1>4. Piece(j) = SubSeq(call.gbuf.ent, upto(j - 1) + 1, upto(j))
  BY DEF Piece, GatherCt
<1> HIDE DEF upto
<1> QED BY <1>3, <1>4 DEF PieceEnt

\* Filled is a node filled with it.
LEMMA FilledIsWith ==
  ASSUME NEW k, k = call.iu, k \in {2, 3, 4}, NEW u, u = Ends(Len(call.gbuf.ent), k), NEW j \in 1 .. k, NEW n
  PROVE  Filled(n, j) = FilledWith(n, call.gbuf, u, j)
PROOF
<1>1. Piece(j) = PieceEnt(call.gbuf, u, j)
  BY PieceIsEnt
<1>2. Filled(n, j) = [n EXCEPT !.leaf = call.gbuf.leaf,
        !.ct = Len(IF call.gbuf.leaf \/ j = 1 THEN Piece(j) ELSE Tail(Piece(j))),
        !.ent = Overwrite(@, IF call.gbuf.leaf \/ j = 1 THEN Piece(j) ELSE Tail(Piece(j))),
        !.lt = IF call.gbuf.leaf THEN NoAdr ELSE IF j = 1 THEN call.gbuf.lt ELSE Piece(j)[1].ge]
  BY DEF Filled
<1> QED BY <1>1, <1>2 DEF FilledWith, PieceIn

\* Parent is the parent with the keys and children it gets.
LEMMA ParentIsWith ==
  ASSUME NEW k, k = call.iu, k \in {2, 3, 4}, NEW u, u = Ends(Len(call.gbuf.ent), k), NEW n
  PROVE  Parent(n) = ParentWith(n, call.gbuf, u, call.pkey, call.is, call.tmp, k)
PROOF
<1> DEFINE up == [i \in 1 .. (k - 1) |-> [Head(Piece(i + 1)) EXCEPT !.ge = call.tmp[i + 1]]]
<1>1. \A i \in 1 .. (k - 1) : Piece(i + 1) = PieceEnt(call.gbuf, u, i + 1)
  <2> TAKE i \in 1 .. (k - 1)
  <2>1. PICK j \in 1 .. k : j = i + 1
    OBVIOUS
  <2> QED BY <2>1, PieceIsEnt
<1>2. up = UpKeys(call.gbuf, u, call.tmp, k)
  BY <1>1 DEF UpKeys
<1>3. Parent(n) =
        LET new == SubSeq(n.ent, 1, call.pkey) \o up \o SubSeq(n.ent, call.pkey + Max({1, call.is}), n.ct)
        IN [n EXCEPT !.leaf = FALSE, !.ct = Len(new), !.ent = Overwrite(@, new),
                     !.lt = IF call.pkey = 0 THEN call.tmp[1] ELSE @]
  BY DEF Parent
<1> HIDE DEF up
<1> QED BY <1>2, <1>3 DEF ParentWith, ParentRow

\* The handle g before the nodes are written, in a scatter to k nodes.
ScatterTo(g, c, top, t, N, k) ==
  /\ Store(g, top) /\ c.is \in {0, 3} /\ c.buf \in DOMAIN g.nodes /\ IsNode(N[c.buf]) /\ IsNode(g.nodes[c.buf])
  /\ JoinedOf(N[c.buf], g.nodes[c.buf], c.pkey, c.is) /\ ParentAt(g.nodes[c.buf], c.pkey, c.is)
  /\ \A j \in 1 .. k : /\ c.tmp[j] \in DOMAIN g.nodes /\ c.tmp[j] # Root /\ c.tmp[j] # c.buf /\ c.tmp[j] \in Nat
                       /\ (j > 1 => c.tmp[j] \notin t.T) /\ Near(g, c.tmp[j], 7) /\ c.tmp[j] \in Tmp(c)
  /\ \A i, j \in 1 .. k : c.tmp[i] = c.tmp[j] => i = j
  /\ \A a \in Tmp(c) : \E j \in 1 .. k : a = c.tmp[j]
  /\ Near(g, c.buf, 7) /\ Fresh(g) \subseteq Tmp(c)
  /\ t.T \subseteq DOMAIN g.nodes /\ c.buf \in t.T /\ c.tmp[1] \in t.T
  /\ \A a \in t.T \ {c.buf, c.tmp[1]} : Same(g.nodes[a], N[a])
  /\ Sizes(g.nodes, t.T \ {c.buf, c.tmp[1]})
  /\ c.buf = Root \/ RootKept(g, t.T \cup Tmp(c))
  /\ ListsOK(c.gbuf, top)

\* The parent of the joined node has the place for its pieces.
LEMMA ParentAtIs ==
  ASSUME NEW o, NEW n, NEW p, NEW is \in {0, 3}, IsNode(o), IsNode(n), JoinedOf(o, n, p, is)
  PROVE  ParentAt(n, p, is)
PROOF
<1>1. o.ct \in Nat /\ p \in 0 .. o.ct
  BY NodeParts DEF JoinedOf
<1>2. CASE is = 0
  <2>1. n.ct = o.ct + 0
    BY <1>2 DEF JoinedOf
  <2> QED BY <1>1, <1>2, <2>1 DEF ParentAt, Gone
<1>3. CASE is = 3
  <2>1. n.ct = o.ct + 2
    BY <1>3 DEF JoinedOf
  <2> QED BY <1>1, <1>3, <2>1 DEF ParentAt, Gone
<1> QED BY <1>2, <1>3

\* What a reader sees of the tree's other nodes is as it was.
LEMMA SizesSame ==
  ASSUME NEW N, NEW M, NEW S, Sizes(N, S), \A a \in S : Same(M[a], N[a])
  PROVE  Sizes(M, S)
  BY DEF Sizes, Same

\* The handle, when the links are written, still has what the scatter needs.
LEMMA ScatterToIs ==
  ASSUME NEW c, NEW hd, NEW top, NEW t, NEW P, NEW N, NEW hh, ScatterOK(hh, c, hd, top, t, P, N), NEW g, Linked(hh, g, top),
         NEW k, k = c.iu, k \in {2, 3, 4}
  PROVE  ScatterTo(g, c, top, t, N, k)
PROOF
<1>1. PICK pos : ScatterAt(hh, c, top, t, N, pos)
  BY ScatterAtIs
<1>2. /\ c.is \in {0, 3} /\ pos \in 0 .. 6 /\ Store(hh, top) /\ c.buf \in DOMAIN hh.nodes /\ Whole(hh, c) # c.buf
      /\ \A i \in 1 .. c.iu : c.tmp[i] \in DOMAIN hh.nodes \ {Root} /\ (i > 1 => c.tmp[i] \notin t.T) /\ Near(hh, c.tmp[i], pos)
      /\ \A i, j \in 1 .. c.iu : c.tmp[i] = c.tmp[j] => i = j
      /\ Near(hh, c.buf, pos) /\ c.buf \notin Tmp(c) /\ Fresh(hh) \subseteq Tmp(c)
  BY <1>1 DEF ScatterAt
<1>3. /\ IsTree(N, t) /\ Whole(hh, c) \in t.T \ {Root, c.buf} /\ ListsOK(c.gbuf, top)
      /\ JoinedOf(N[c.buf], hh.nodes[c.buf], c.pkey, c.is) /\ PathOK(N, t, P, c)
      /\ \A a \in t.T \ {c.buf, Whole(hh, c)} : a \in DOMAIN hh.nodes /\ Same(N[a], hh.nodes[a])
      /\ Sizes(hh.nodes, t.T \ {c.buf, Whole(hh, c)})
      /\ c.buf = Root \/ RootKept(hh, t.T \cup Tmp(c))
  BY DEF ScatterOK
<1>4. Whole(hh, c) = c.tmp[1]
  <2>1. c.iu # 0
    OBVIOUS
  <2> QED BY <2>1 DEF Whole
<1>5. /\ Store(g, top) /\ DOMAIN g.nodes = DOMAIN hh.nodes
      /\ \A a \in DOMAIN hh.nodes : Same(g.nodes[a], hh.nodes[a])
      /\ g.file[Root] = hh.file[Root] /\ g.rootModified = hh.rootModified /\ Fresh(g) = Fresh(hh)
      /\ \A a : Near(hh, a, 6) => Near(g, a, 7)
  BY DEF Linked
<1>6. \A a : Near(hh, a, pos) => Near(g, a, 7)
  <2>1. pos \in Int /\ pos <= 6 /\ 6 \in Int
    BY <1>2
  <2>2. \A a : Near(hh, a, pos) => Near(hh, a, 6)
    BY <2>1, NearMore
  <2> QED BY <2>2, <1>5
<1>7. c.buf \in t.T /\ IsNode(N[c.buf])
  BY <1>3 DEF PathOK, IsTree
<1>8. /\ \A a \in DOMAIN hh.nodes : IsNode(hh.nodes[a]) /\ a \in Nat
      /\ \A a \in DOMAIN g.nodes : IsNode(g.nodes[a])
      /\ Root \in DOMAIN g.nodes
  BY <1>2, <1>5, StoreNodes DEF Store
<1>9. JoinedOf(N[c.buf], g.nodes[c.buf], c.pkey, c.is)
  <2>1. PICK o : o = N[c.buf]
    OBVIOUS
  <2>2. PICK m : m = hh.nodes[c.buf]
    OBVIOUS
  <2>3. PICK n : n = g.nodes[c.buf]
    OBVIOUS
  <2>4. PICK is \in {0, 3} : is = c.is
    BY <1>2
  <2>5. PICK p : p = c.pkey
    OBVIOUS
  <2>6. IsNode(o) /\ IsNode(m) /\ IsNode(n) /\ Same(n, m) /\ JoinedOf(o, m, p, is)
    BY <2>1, <2>2, <2>3, <2>4, <2>5, <1>2, <1>3, <1>5, <1>7, <1>8
  <2>7. JoinedOf(o, n, p, is)
    BY ONLY <2>6, JoinedSame, is \in {0, 3}
  <2> QED BY <2>1, <2>3, <2>4, <2>5, <2>7
<1>10. ParentAt(g.nodes[c.buf], c.pkey, c.is)
  BY <1>2, <1>5, <1>7, <1>8, <1>9, ParentAtIs
<1>11. \A j \in 1 .. k : /\ c.tmp[j] \in DOMAIN g.nodes /\ c.tmp[j] # Root /\ c.tmp[j] # c.buf /\ c.tmp[j] \in Nat
                         /\ (j > 1 => c.tmp[j] \notin t.T) /\ Near(g, c.tmp[j], 7) /\ c.tmp[j] \in Tmp(c)
  <2>1. \A j \in 1 .. k : c.tmp[j] \in Tmp(c)
    BY DEF Tmp
  <2> QED BY <2>1, <1>2, <1>5, <1>6, <1>8
<1>12. \A i, j \in 1 .. k : c.tmp[i] = c.tmp[j] => i = j
  BY <1>2
<1>13. \A a \in Tmp(c) : \E j \in 1 .. k : a = c.tmp[j]
  BY DEF Tmp
<1>14. t.T \subseteq DOMAIN g.nodes
  <2>1. c.tmp[1] \in DOMAIN g.nodes
    <3>1. 1 \in 1 .. k
      OBVIOUS
    <3> QED BY <3>1, <1>11
  <2> QED BY <2>1, <1>2, <1>3, <1>4, <1>5
<1>15. \A a \in t.T \ {c.buf, c.tmp[1]} : Same(g.nodes[a], N[a])
  BY <1>3, <1>4, <1>5, SameTwice
<1>16. Sizes(g.nodes, t.T \ {c.buf, c.tmp[1]})
  <2>1. \A a \in t.T \ {c.buf, c.tmp[1]} : Same(g.nodes[a], hh.nodes[a])
    BY <1>3, <1>4, <1>5
  <2> QED BY <2>1, <1>3, <1>4, SizesSame
<1>17. c.buf = Root \/ RootKept(g, t.T \cup Tmp(c))
  <2>1. PICK T : T = t.T \cup Tmp(c)
    OBVIOUS
  <2>2. CASE RootKept(hh, T)
    <3>1. Same(g.nodes[Root], hh.nodes[Root])
      BY <1>5, <1>8
    <3>2. \A a \in DOMAIN hh.nodes \ T : a \in DOMAIN g.nodes \ T /\ Same(g.nodes[a], hh.nodes[a])
      BY <1>5
    <3>3. RootKept(g, T)
      BY <2>2, <3>1, <3>2, <1>5, RootKeptOn
    <3> QED BY <2>1, <3>3
  <2> QED BY <2>1, <2>2, <1>3
<1>18. Near(g, c.buf, 7) /\ Fresh(g) \subseteq Tmp(c) /\ c.buf \in DOMAIN g.nodes
  BY <1>2, <1>5, <1>6
<1> QED BY <1>2, <1>3, <1>4, <1>5, <1>7, <1>8, <1>9, <1>10, <1>11, <1>12, <1>13, <1>14, <1>15, <1>16, <1>17, <1>18
        DEF ScatterTo

\* The parent z and the nodes q are written.
Written(g, f, c, top, V, u, k, z, q) ==
  /\ IsParent(z, g.nodes[c.buf], V, u, c.pkey, c.is, c.tmp, k)
  /\ \A j \in 1 .. k : IsPiece(q[j], g.nodes[c.tmp[j]], V, u, j)
  /\ FilledTo(g, f, top, c.buf, z, c.tmp, q, k)

\* A node filled is one of the dictionary.
LEMMA PieceNodeOK ==
  ASSUME NEW V, NEW gb, GatheredNode(V, gb), NEW u, NEW j, Slice(V, u, j), NEW q, NEW n, IsPiece(q, n, V, u, j),
         NEW A, NEW top, n.next \in A, ListsOK(gb, top)
  PROVE  NodeOK(q, A, top)
PROOF
<1>1. IsNode(q) /\ q.leaf = V.leaf /\ q.next = n.next /\ q.ct = Size(u, V.leaf, j)
      /\ \A i \in 1 .. q.ct : q.ent[i] = V.ent[Off(V, u, j) + i]
  BY DEF IsPiece
<1>2. ASSUME q.leaf, NEW i \in 1 .. q.ct PROVE q.ent[i].rec \in 1 .. top
  <2>1. V.leaf /\ gb.leaf /\ V.ent = gb.ent /\ V.ct = Len(gb.ent)
    BY <1>1, <1>2 DEF GatheredNode
  <2>2. u[j - 1] \in Nat /\ u[j] \in Nat /\ u[j - 1] <= u[j] /\ u[j] <= V.ct /\ V.ct \in Nat
    BY NodeParts DEF Slice, GatheredNode
  <2>3. Off(V, u, j) = u[j - 1] + 0 /\ q.ct = u[j] - u[j - 1] - 0
    BY <1>1, <2>1 DEF Off, Size
  <2>4. PICK x, y : x = u[j - 1] /\ y = u[j]
    OBVIOUS
  <2>5. Off(V, u, j) + i \in 1 .. V.ct
    <3>1. x \in Nat /\ y \in Nat /\ x <= y /\ y <= V.ct /\ V.ct \in Nat /\ Off(V, u, j) = x + 0 /\ q.ct = y - x - 0
      BY <2>2, <2>3, <2>4
    <3>2. i \in Int /\ i >= 1 /\ i <= y - x
      BY <3>1
    <3> QED BY <3>1, <3>2
  <2>6. V.ent[Off(V, u, j) + i].rec \in 1 .. top
    BY <2>1, <2>5 DEF ListsOK
  <2> QED BY <2>6, <1>1
<1> QED BY <1>1, <1>2 DEF NodeOK

\* So is the parent.
LEMMA ParentNodeOK ==
  ASSUME NEW z, NEW n, NEW V, NEW u, NEW p, NEW is, NEW x, NEW k, IsParent(z, n, V, u, p, is, x, k),
         NEW A, NEW top, n.next \in A
  PROVE  NodeOK(z, A, top)
  BY DEF IsParent, NodeOK

\* What is in the handle when the nodes are written.
LEMMA WrittenIs ==
  ASSUME NEW top, NEW t, NEW N, NEW V, NEW u, NEW k, ScatterEnd(call, N, V, u, k),
         NEW g, ScatterTo(g, call, top, t, N, k), NEW fill, IsFill(fill, g)
  PROVE  \E z, q : Written(g, fill[k], call, top, V, u, k, z, q)
PROOF
<1>1. PICK z : z = Parent(g.nodes[call.buf])
  OBVIOUS
<1>2. PICK q : q = [j \in 1 .. k |-> Filled(g.nodes[call.tmp[j]], j)]
  OBVIOUS
<1>3. /\ k = call.iu /\ k \in {2, 3, 4} /\ GatheredNode(V, call.gbuf) /\ u = Ends(Len(call.gbuf.ent), k)
      /\ Slices(V, u, k)
  BY DEF ScatterEnd
<1>4. /\ Store(g, top) /\ call.buf \in DOMAIN g.nodes /\ ParentAt(g.nodes[call.buf], call.pkey, call.is)
      /\ \A j \in 1 .. k : /\ call.tmp[j] \in DOMAIN g.nodes /\ call.tmp[j] # Root /\ call.tmp[j] # call.buf
                           /\ call.tmp[j] \in Nat /\ Near(g, call.tmp[j], 7)
      /\ \A i, j \in 1 .. k : call.tmp[i] = call.tmp[j] => i = j
      /\ Near(g, call.buf, 7) /\ ListsOK(call.gbuf, top)
  BY DEF ScatterTo
<1>5. \A a \in DOMAIN g.nodes : IsNode(g.nodes[a]) /\ g.nodes[a].next \in DOMAIN g.nodes
  BY <1>4, StoreNodes DEF Store, NodeOK
<1>6. \A j \in 1 .. k : q[j] = Filled(g.nodes[call.tmp[j]], j)
  BY <1>2
<1>7. \A j \in 1 .. k : Slice(V, u, j)
  BY <1>3 DEF Slices
<1>8. ASSUME NEW j \in 1 .. k
      PROVE  IsPiece(q[j], g.nodes[call.tmp[j]], V, u, j) /\ NodeOK(q[j], DOMAIN g.nodes, top)
  <2>1. PICK n : n = g.nodes[call.tmp[j]]
    OBVIOUS
  <2>2. IsNode(n) /\ n.next \in DOMAIN g.nodes
    BY <2>1, <1>4, <1>5
  <2>3. PICK qj : qj = q[j]
    OBVIOUS
  <2>4. qj = FilledWith(n, call.gbuf, u, j)
    BY <2>1, <2>3, <1>6, <1>3, FilledIsWith
  <2>5. PICK gb : gb = call.gbuf
    OBVIOUS
  <2>6. GatheredNode(V, gb) /\ Slice(V, u, j) /\ qj = FilledWith(n, gb, u, j) /\ ListsOK(gb, top)
    BY <1>3, <1>4, <1>7, <2>4, <2>5
  <2>7. IsPiece(qj, n, V, u, j)
    BY ONLY <2>2, <2>6, FilledIs
  <2>8. NodeOK(qj, DOMAIN g.nodes, top)
    BY ONLY <2>2, <2>6, <2>7, PieceNodeOK
  <2> QED BY <2>1, <2>3, <2>7, <2>8
<1>9. IsParent(z, g.nodes[call.buf], V, u, call.pkey, call.is, call.tmp, k)
  <2>1. PICK n : n = g.nodes[call.buf]
    OBVIOUS
  <2>2. PICK gb, p, is, x : gb = call.gbuf /\ p = call.pkey /\ is = call.is /\ x = call.tmp
    OBVIOUS
  <2>3. z = ParentWith(n, gb, u, p, is, x, k)
    BY <2>1, <2>2, <1>1, <1>3, ParentIsWith
  <2>4. GatheredNode(V, gb) /\ Slices(V, u, k) /\ (\A i \in 1 .. k : x[i] \in Int) /\ ParentAt(n, p, is)
    BY <2>1, <2>2, <1>3, <1>4
  <2>5. IsParent(z, n, V, u, p, is, x, k)
    BY ONLY <2>3, <2>4, ParentIs
  <2> QED BY <2>1, <2>2, <2>5
<1>10. NodeOK(z, DOMAIN g.nodes, top)
  BY <1>4, <1>5, <1>9, ParentNodeOK
<1>11. CanFill(g, top, call.buf, z, call.tmp, q, k)
  BY <1>4, <1>8, <1>10 DEF CanFill
<1>12. Fills(fill, g, call.buf, z, call.tmp, q, k)
  <2>1. \A i \in 0 .. k : fill[i] = FillBody(fill, g, i)
    BY <1>3 DEF IsFill
  <2>2. fill[0] = writeNode(g, call.buf, z)
    <3>1. FillBody(fill, g, 0) = writeNode(g, call.buf, Parent(g.nodes[call.buf]))
      BY DEF FillBody
    <3>2. 0 \in 0 .. k
      BY <1>3
    <3> QED BY <3>1, <3>2, <2>1, <1>1
  <2>3. ASSUME NEW i \in 1 .. k PROVE fill[i] = writeNode(fill[i - 1], call.tmp[i], q[i])
    <3>1. i \in 0 .. k /\ i # 0
      OBVIOUS
    <3>2. FillBody(fill, g, i) = writeNode(fill[i - 1], call.tmp[i], Filled(g.nodes[call.tmp[i]], i))
      BY <3>1 DEF FillBody
    <3>3. q[i] = Filled(g.nodes[call.tmp[i]], i)
      BY <1>6
    <3>4. fill[i] = FillBody(fill, g, i)
      BY <3>1, <2>1
    <3> QED BY <3>2, <3>3, <3>4
  <2> QED BY <2>2, <2>3 DEF Fills
<1>13. FilledTo(g, fill[k], top, call.buf, z, call.tmp, q, k)
  <2>1. PICK b, x : b = call.buf /\ x = call.tmp
    OBVIOUS
  <2>2. CanFill(g, top, b, z, x, q, k) /\ Fills(fill, g, b, z, x, q, k)
    BY <2>1, <1>11, <1>12
  <2>3. FilledTo(g, fill[k], top, b, z, x, q, k)
    BY ONLY <2>2, <1>3, FilledAll
  <2> QED BY <2>1, <2>3
<1> QED BY <1>8, <1>9, <1>13 DEF Written

\* The tree with the pieces in place of the node that was gathered.
LEMMA ScatterTree ==
  ASSUME NEW c, NEW top, NEW t, NEW N, IsTree(N, t), Child(N[c.buf], c.pkey) = c.tmp[1],
         NEW V, NEW u, NEW k, ScatterEnd(c, N, V, u, k), NEW g, ScatterTo(g, c, top, t, N, k),
         NEW f, NEW z, NEW q, Written(g, f, c, top, V, u, k, z, q)
  PROVE  \E s : IsCut(f.nodes, t, s, k, c.tmp)
PROOF
<1>1. PICK M, a, p, x, is : M = f.nodes /\ a = c.buf /\ p = c.pkey /\ x = c.tmp /\ is = c.is
  OBVIOUS
<1>2. PICK o, n : o = N[a] /\ n = g.nodes[a]
  OBVIOUS
<1>3. /\ k \in {2, 3, 4} /\ V = N[x[1]] /\ IsNode(V) /\ Sorted(V)
      /\ u \in [0 .. k -> Nat] /\ u[0] = 0 /\ u[k] = V.ct
      /\ \A i, j \in 0 .. k : i <= j => u[i] <= u[j]
      /\ Slices(V, u, k)
  BY <1>1 DEF ScatterEnd
<1>4. /\ is \in {0, 3} /\ a \in DOMAIN g.nodes /\ IsNode(o) /\ IsNode(n) /\ JoinedOf(o, n, p, is) /\ ParentAt(n, p, is)
      /\ \A j \in 1 .. k : x[j] \in DOMAIN g.nodes /\ x[j] # a /\ (j > 1 => x[j] \notin t.T)
      /\ \A i, j \in 1 .. k : x[i] = x[j] => i = j
      /\ t.T \subseteq DOMAIN g.nodes /\ a \in t.T /\ x[1] \in t.T
      /\ \A b \in t.T \ {a, x[1]} : Same(g.nodes[b], N[b])
      /\ Store(g, top)
  BY <1>1, <1>2 DEF ScatterTo
<1>5. /\ IsParent(z, n, V, u, p, is, x, k)
      /\ \A j \in 1 .. k : IsPiece(q[j], g.nodes[x[j]], V, u, j)
      /\ DOMAIN M = DOMAIN g.nodes /\ M[a] = z
      /\ \A j \in 1 .. k : M[x[j]] = q[j]
      /\ \A b \in DOMAIN g.nodes : b # a /\ (\A j \in 1 .. k : x[j] # b) => M[b] = g.nodes[b]
  BY <1>1, <1>2 DEF Written, FilledTo
<1>6. Child(o, p) = x[1]
  BY <1>1, <1>2
<1>7. CutUnder(o, z, p, k, V, u, x)
  <2>1. is \in {0, 3} /\ k \in {2, 3, 4}
    BY <1>3, <1>4
  <2>2. IsNode(o) /\ IsNode(n) /\ JoinedOf(o, n, p, is)
    BY <1>4
  <2>3. IsParent(z, n, V, u, p, is, x, k)
    BY <1>5
  <2> QED BY ONLY <2>1, <2>2, <2>3, <1>6, ParentIsCut
<1>8. Between(z, p, k, V, u)
  <2>1. p \in Nat
    BY <1>4 DEF ParentAt
  <2> QED BY ONLY <2>1, <1>3, <1>5, ParentBetween
<1>9. CutAt(V, q, k, u)
  <2>1. PICK m : m = [j \in 1 .. k |-> g.nodes[x[j]]]
    OBVIOUS
  <2>2. Pieces(V, q, m, u, k)
    <3>1. \A j \in 1 .. k : m[j] = g.nodes[x[j]]
      BY <2>1
    <3> QED BY <3>1, <1>5 DEF Pieces
  <2> QED BY ONLY <2>2, <1>3, PiecesAreCut
<1>10. IsNode(z) /\ \A j \in 1 .. k : IsNode(q[j])
  BY <1>5 DEF IsParent, IsPiece
<1>11. \A b \in t.T \ {a, x[1]} : IsNode(M[b]) /\ Same(M[b], N[b])
  <2> TAKE b \in t.T \ {a, x[1]}
  <2>1. \A j \in 1 .. k : x[j] # b
    <3>1. \A j \in 1 .. k : j = 1 \/ j > 1
      OBVIOUS
    <3> QED BY <3>1, <1>4
  <2>2. b \in DOMAIN g.nodes /\ M[b] = g.nodes[b]
    BY <2>1, <1>4, <1>5
  <2>3. IsNode(g.nodes[b])
    BY <2>2, <1>4, StoreNodes DEF Store
  <2> QED BY <2>2, <2>3, <1>4
<1>12. CanCut(N, M, t, a, p, k, u, x, q)
  <2>1. IsTree(N, t) /\ a \in t.T /\ t.T \subseteq DOMAIN M /\ IsNode(M[a])
    BY <1>4, <1>5, <1>10
  <2>2. CutUnder(N[a], M[a], p, k, N[x[1]], u, x) /\ Between(M[a], p, k, N[x[1]], u) /\ CutAt(N[x[1]], q, k, u)
    BY <1>2, <1>3, <1>5, <1>7, <1>8, <1>9
  <2>3. \A j \in 2 .. k : x[j] \notin t.T
    <3>1. \A j \in 2 .. k : j \in 1 .. k /\ j > 1
      OBVIOUS
    <3> QED BY <3>1, <1>4
  <2>4. \A j \in 1 .. k : x[j] \in DOMAIN M /\ q[j] = M[x[j]] /\ IsNode(q[j])
    BY <1>4, <1>5, <1>10
  <2> QED BY <2>1, <2>2, <2>3, <2>4, <1>4, <1>11 DEF CanCut
<1>13. \E s : IsCut(M, t, s, k, x)
  BY ONLY <1>12, CutDown
<1> QED BY <1>1, <1>13

\* The tree as it is after the scatter.
Scattered(f, c, top, t, s, V, u, k, z, q) ==
  /\ Settled(f, top, s) /\ s.T = t.T \cup { c.tmp[j] : j \in 1 .. k }
  /\ \A b \in t.T \ {c.tmp[1]} : s.K[b] = t.K[b]

\* Then every node is in the buffers or the file, and as full as it must be.
LEMMA ScatterSettles ==
  ASSUME OddRoom, NEW c, NEW top, NEW t, NEW N, NEW V, NEW u, NEW k, ScatterEnd(c, N, V, u, k),
         NEW g, ScatterTo(g, c, top, t, N, k), NEW f, NEW z, NEW q, Written(g, f, c, top, V, u, k, z, q),
         NEW s, IsCut(f.nodes, t, s, k, c.tmp)
  PROVE  Scattered(f, c, top, t, s, V, u, k, z, q)
PROOF
<1>1. PICK x : x = c.tmp
  OBVIOUS
<1>2. IsTree(f.nodes, s) /\ s.T = t.T \cup { x[j] : j \in 1 .. k } /\ \A b \in t.T \ {x[1]} : s.K[b] = t.K[b]
  BY <1>1 DEF IsCut
<1>3. /\ Store(g, top) /\ c.is \in {0, 3} /\ c.buf \in DOMAIN g.nodes /\ IsNode(N[c.buf]) /\ IsNode(g.nodes[c.buf])
      /\ JoinedOf(N[c.buf], g.nodes[c.buf], c.pkey, c.is)
      /\ \A j \in 1 .. k : x[j] \in DOMAIN g.nodes /\ x[j] # Root /\ x[j] # c.buf /\ x[j] \in Tmp(c) /\ (j > 1 => x[j] \notin t.T)
      /\ \A a \in Tmp(c) : \E j \in 1 .. k : a = x[j]
      /\ Fresh(g) \subseteq Tmp(c)
      /\ t.T \subseteq DOMAIN g.nodes /\ c.buf \in t.T /\ x[1] \in t.T
      /\ Sizes(g.nodes, t.T \ {c.buf, x[1]})
      /\ c.buf = Root \/ RootKept(g, t.T \cup Tmp(c))
  BY <1>1 DEF ScatterTo
<1>4. /\ IsParent(z, g.nodes[c.buf], V, u, c.pkey, c.is, x, k)
      /\ \A j \in 1 .. k : IsPiece(q[j], g.nodes[x[j]], V, u, j)
      /\ Store(f, top) /\ DOMAIN f.nodes = DOMAIN g.nodes /\ f.nodes[c.buf] = z
      /\ \A j \in 1 .. k : f.nodes[x[j]] = q[j]
      /\ \A b \in DOMAIN g.nodes : b # c.buf /\ (\A j \in 1 .. k : x[j] # b) => f.nodes[b] = g.nodes[b]
      /\ f.file = g.file /\ f.rootModified = (g.rootModified \/ c.buf = Root)
      /\ \A a \in Fresh(f) : a \in Fresh(g) /\ a # c.buf /\ \A j \in 1 .. k : x[j] # a
  BY <1>1 DEF Written, FilledTo
<1>5. Fresh(f) = {}
  <2>1. ASSUME NEW a \in Fresh(f) PROVE FALSE
    <3>1. a \in Tmp(c)
      BY <1>3, <1>4
    <3> QED BY <3>1, <1>3, <1>4
  <2> QED BY <2>1
<1>6. Root \in DOMAIN g.nodes
  BY <1>3, StoreNodes DEF Store
<1>7. RootKept(f, s.T)
  <2>1. CASE c.buf = Root
    <3>1. f.rootModified
      BY <2>1, <1>4
    <3> QED BY <3>1 DEF RootKept
  <2>2. CASE c.buf # Root
    <3>1. PICK T, S : T = t.T \cup Tmp(c) /\ S = s.T
      OBVIOUS
    <3>2. T = S
      BY <3>1, <1>2, <1>3
    <3>3. f.rootModified = g.rootModified /\ f.file[Root] = g.file[Root]
      <4>1. g.rootModified \in BOOLEAN
        BY <1>3, StoreNodes DEF Store
      <4>2. f.rootModified = (g.rootModified \/ FALSE)
        <5>1. (c.buf = Root) = FALSE
          BY <2>2
        <5> QED BY <5>1, <1>4, Zenon
      <4>3. f.rootModified = g.rootModified
        <5>1. CASE g.rootModified = TRUE
          BY <5>1, <4>2
        <5>2. CASE g.rootModified = FALSE
          BY <5>2, <4>2
        <5> QED BY <5>1, <5>2, <4>1
      <4> QED BY <4>3, <1>4
    <3>4. f.nodes[Root] = g.nodes[Root]
      BY <2>2, <1>3, <1>4, <1>6
    <3>5. \A a \in DOMAIN g.nodes \ T : a \in DOMAIN f.nodes \ S /\ Same(f.nodes[a], g.nodes[a])
      <4> TAKE a \in DOMAIN g.nodes \ T
      <4>1. a # c.buf /\ \A j \in 1 .. k : x[j] # a
        BY <3>1, <1>3
      <4>2. f.nodes[a] = g.nodes[a]
        BY <4>1, <1>4
      <4> QED BY <4>2, <3>2, <1>4, SameRefl
    <3>6. Same(f.nodes[Root], g.nodes[Root])
      BY <3>4, SameRefl
    <3>7. RootKept(g, T)
      BY <3>1, <2>2, <1>3
    <3>8. RootKept(f, S)
      BY ONLY <3>3, <3>5, <3>6, <3>7, RootKeptOn
    <3> QED BY <3>1, <3>8
  <2> QED BY <2>1, <2>2
<1>8. Sizes(f.nodes, s.T)
  <2>1. /\ k = c.iu /\ k \in {2, 3, 4} /\ SizesFit(c, u, V.leaf, Half) /\ ParentRoom(c, N[c.buf].ct + k - 1)
    BY DEF ScatterEnd
  <2>2. Half \in Nat /\ MaxCt \in Nat /\ MaxCt = 2 * Half + 1
    BY HalfIs
  <2>3. \A j \in 1 .. k : f.nodes[x[j]].ct \in Half .. MaxCt
    <3> TAKE j \in 1 .. k
    <3>1. q[j].ct = Size(u, V.leaf, j)
      BY <1>4 DEF IsPiece
    <3>2. Size(u, V.leaf, j) \in Half .. (2 * Half + 1)
      BY <2>1 DEF SizesFit, PieceFits
    <3> QED BY <3>1, <3>2, <2>2, <1>4
  <2>4. z.ct = N[c.buf].ct + k - 1 /\ ~z.leaf
    <3>1. PICK o, n, p, is : o = N[c.buf] /\ n = g.nodes[c.buf] /\ p = c.pkey /\ is = c.is
      OBVIOUS
    <3>2. o.ct \in Nat
      BY <3>1, <1>3, NodeParts
    <3>3. n.ct = o.ct + Gone(is)
      <4>1. CASE is = 0
        <5>1. n.ct = o.ct + 0
          BY <4>1, <3>1, <1>3 DEF JoinedOf
        <5> QED BY <5>1, <4>1 DEF Gone
      <4>2. CASE is = 3
        <5>1. n.ct = o.ct + 2
          BY <4>2, <3>1, <1>3 DEF JoinedOf
        <5> QED BY <5>1, <4>2 DEF Gone
      <4> QED BY <4>1, <4>2, <3>1, <1>3
    <3>4. z.ct = n.ct - Gone(is) + k - 1 /\ ~z.leaf
      BY <3>1, <1>4 DEF IsParent
    <3>5. Gone(is) \in Int
      BY DEF Gone
    <3> QED BY <3>1, <3>2, <3>3, <3>4, <3>5, <2>1
  <2>5. (c.buf = Root => z.ct \in 2 .. (3 * MaxCt)) /\ (c.buf # Root => z.ct \in Half .. MaxCt)
    BY <2>1, <2>4 DEF ParentRoom
  <2>6. ASSUME NEW a \in s.T, a # c.buf, \A j \in 1 .. k : x[j] # a
        PROVE  a \in t.T \ {c.buf, x[1]} /\ f.nodes[a] = g.nodes[a]
    <3>1. 1 \in 1 .. k
      BY <2>1
    <3>2. a \in t.T /\ a # x[1]
      BY <2>6, <3>1, <1>2
    <3> QED BY <3>2, <2>6, <1>3, <1>4
  <2>7. ASSUME NEW a \in s.T \ {Root} PROVE f.nodes[a].ct \in Half .. MaxCt
    <3>1. CASE a = c.buf
      BY <3>1, <2>5, <1>4
    <3>2. CASE \E j \in 1 .. k : x[j] = a
      BY <3>2, <2>3
    <3>3. CASE a # c.buf /\ \A j \in 1 .. k : x[j] # a
      BY <3>3, <2>6, <1>3 DEF Sizes
    <3> QED BY <3>1, <3>2, <3>3
  <2>8. Root \in s.T => f.nodes[Root].ct <= 3 * MaxCt /\ (~f.nodes[Root].leaf => f.nodes[Root].ct >= 2)
    <3>1. CASE c.buf = Root
      BY <3>1, <2>5, <2>2, <1>4
    <3>2. CASE c.buf # Root
      <4>1. \A j \in 1 .. k : x[j] # Root
        BY <1>3
      <4>2. Root \in s.T => Root \in t.T \ {c.buf, x[1]} /\ f.nodes[Root] = g.nodes[Root]
        BY <4>1, <3>2, <2>6
      <4> QED BY <4>2, <1>3 DEF Sizes
    <3> QED BY <3>1, <3>2
  <2> QED BY <2>7, <2>8 DEF Sizes
<1> QED BY <1>1, <1>2, <1>4, <1>5, <1>7, <1>8 DEF Scattered, Settled

\* A key that went to the node that was cut goes to one of the pieces.
LEMMA CutRoutes ==
  ASSUME NEW o, NEW z, NEW p, NEW k \in {2, 3, 4}, NEW V, NEW u, NEW x, IsNode(o), Sorted(o), CutUnder(o, z, p, k, V, u, x),
         NEW key \in Int, Routes(o, p, key), NEW i \in 0 .. z.ct, Routes(z, i, key)
  PROVE  \E j \in 1 .. k : Child(z, i) = x[j]
PROOF
<1>1. /\ p \in 0 .. o.ct /\ z.ct = o.ct + k - 1
      /\ \A l \in 1 .. p : z.ent[l].key = o.ent[l].key
      /\ \A l \in (p + 1) .. o.ct : z.ent[l + k - 1].key = o.ent[l].key
      /\ \A j \in 1 .. k : Child(z, p + j - 1) = x[j]
  BY DEF CutUnder
<1>2. o.ct \in Nat /\ \A l \in 1 .. o.ct : o.ent[l].key \in Int
  BY NodeParts
<1>3. PICK m \in Nat : m = o.ct
  BY <1>2
<1>4. i >= p
  <2> SUFFICES ASSUME i < p PROVE FALSE
    BY <1>1
  <2>1. i + 1 \in 1 .. p /\ p \in 1 .. m /\ i + 1 \in 1 .. m /\ i < z.ct /\ p > 0
    BY <1>1, <1>3
  <2>2. key < z.ent[i + 1].key /\ z.ent[i + 1].key = o.ent[i + 1].key
    BY <2>1, <1>1 DEF Routes
  <2>3. o.ent[p].key <= key
    BY <2>1 DEF Routes
  <2>4. o.ent[i + 1].key <= o.ent[p].key
    <3>1. i + 1 = p \/ i + 1 < p
      BY <2>1, <1>1
    <3> QED BY <3>1, <2>1, <1>2, <1>3 DEF Sorted
  <2>5. o.ent[i + 1].key \in Int /\ o.ent[p].key \in Int
    BY <2>1, <1>2, <1>3
  <2> QED BY <2>2, <2>3, <2>4, <2>5
<1>5. i <= p + k - 1
  <2> SUFFICES ASSUME i > p + k - 1 PROVE FALSE
    BY <1>1
  <2>1. PICK l : l = i - k + 1
    OBVIOUS
  <2>2. l \in (p + 1) .. m /\ l \in 1 .. m /\ p + 1 \in 1 .. m /\ i > 0 /\ l + k - 1 = i /\ p < m
    BY <2>1, <1>1, <1>3
  <2>3. z.ent[i].key <= key /\ z.ent[i].key = o.ent[l].key
    <3>1. z.ent[l + k - 1].key = o.ent[l].key
      BY <2>2, <1>1, <1>3
    <3> QED BY <3>1, <2>2 DEF Routes
  <2>4. key < o.ent[p + 1].key
    BY <2>2, <1>3 DEF Routes
  <2>5. o.ent[p + 1].key <= o.ent[l].key
    <3>1. p + 1 = l \/ p + 1 < l
      BY <2>2, <1>1
    <3> QED BY <3>1, <2>2, <1>2, <1>3 DEF Sorted
  <2>6. o.ent[p + 1].key \in Int /\ o.ent[l].key \in Int
    BY <2>2, <1>2, <1>3
  <2> QED BY <2>3, <2>4, <2>5, <2>6
<1>6. PICK j : j = i - p + 1
  OBVIOUS
<1>7. j \in 1 .. k /\ p + j - 1 = i
  BY <1>6, <1>4, <1>5, <1>1
<1>8. Child(z, p + j - 1) = x[j]
  BY <1>7, <1>1
<1> QED BY <1>7, <1>8

\* The call after the scatter.
LEMMA ScatteredCall ==
  ASSUME NEW c, CallOf(c), NEW pc, NEW d,
         d = [c EXCEPT !.pc = pc, !.gbuf = NoGather, !.tmp = << >>, !.is = 0, !.iu = 0, !.pkey = 0]
  PROVE  CallOf(d) /\ KeepsCall(c, d) /\ KeepsWay(c, d) /\ d.pc = pc
  BY DEF CallOf, RunningRec, KeepsCall, KeepsWay

\* The way to the parent is as it was.
LEMMA ScatterPath ==
  ASSUME NEW c, NEW top, NEW t, NEW N, IsTree(N, t), NEW P, PathOK(N, t, P, c), KeyTree(c),
         Child(N[c.buf], c.pkey) = c.tmp[1], Routes(N[c.buf], c.pkey, c.key),
         NEW V, NEW u, NEW k, k \in {2, 3, 4}, NEW g, ScatterTo(g, c, top, t, N, k),
         NEW f, NEW z, NEW q, Written(g, f, c, top, V, u, k, z, q),
         NEW s, Scattered(f, c, top, t, s, V, u, k, z, q),
         NEW d, KeepsCall(c, d), KeepsWay(c, d)
  PROVE  PathOK(f.nodes, s, P, d) /\ s.K[Root] = t.K[Root]
PROOF
<1>1. PICK M, x, b, key : M = f.nodes /\ x = c.tmp /\ b = c.buf /\ key = c.key
  OBVIOUS
<1>2. /\ OnRoute(N, t, P, b, key) /\ Guard(N, t, P, c) /\ b \in t.T
  BY <1>1 DEF PathOK
<1>3. /\ JoinedOf(N[b], g.nodes[b], c.pkey, c.is) /\ t.T \subseteq DOMAIN g.nodes /\ Store(g, top)
      /\ \A j \in 1 .. k : x[j] # Root /\ (j > 1 => x[j] \notin t.T)
      /\ \A a \in t.T \ {b, x[1]} : Same(g.nodes[a], N[a])
  BY <1>1 DEF ScatterTo
<1>4. \A a \in DOMAIN g.nodes : a # b /\ (\A j \in 1 .. k : x[j] # a) => M[a] = g.nodes[a]
  BY <1>1 DEF Written, FilledTo
<1>5. s.T = t.T \cup { x[j] : j \in 1 .. k } /\ (\A a \in t.T \ {x[1]} : s.K[a] = t.K[a])
  BY <1>1 DEF Scattered
<1>6. ~N[b].leaf /\ c.pkey \in 0 .. N[b].ct
  BY <1>3 DEF JoinedOf
<1>7. x[1] \notin P
  <2> SUFFICES ASSUME x[1] \in P PROVE FALSE
    OBVIOUS
  <2>1. PICK i \in 0 .. N[b].ct : i = c.pkey
    BY <1>6
  <2>2. Child(N[b], i) \in P
    BY <2>1, <1>1
  <2>3. b # b
    BY ONLY <2>2, <1>2, <1>6, RouteChild, IsTree(N, t), i \in 0 .. N[b].ct
  <2> QED BY <2>3
<1>8. P \subseteq t.T /\ b \in P /\ Root \in P
  BY <1>2 DEF OnRoute
<1>9. \A a \in P \ {b} : IsNode(N[a]) /\ IsNode(M[a]) /\ Same(M[a], N[a])
  <2> TAKE a \in P \ {b}
  <2>1. a \in t.T /\ a # x[1] /\ \A j \in 1 .. k : x[j] # a
    <3>1. \A j \in 1 .. k : j = 1 \/ j > 1
      OBVIOUS
    <3> QED BY <3>1, <1>3, <1>7, <1>8
  <2>2. a \in DOMAIN g.nodes /\ M[a] = g.nodes[a]
    BY <2>1, <1>3, <1>4
  <2>3. IsNode(g.nodes[a]) /\ IsNode(N[a])
    BY <2>1, <2>2, <1>3, StoreNodes DEF Store, IsTree
  <2> QED BY <2>1, <2>2, <2>3, <1>3
<1>10. \A a \in P : s.K[a] = t.K[a]
  BY <1>5, <1>7, <1>8
<1>11. P \subseteq s.T
  BY <1>5, <1>8
<1>12. OnRoute(M, s, P, b, key)
  BY ONLY <1>2, <1>9, <1>10, <1>11, RouteKept
<1>13. Guard(M, s, P, d)
  <2>1. d.ge = c.ge /\ d.at = c.at /\ d.lt = c.lt /\ d.buf = c.buf /\ d.key = c.key
    BY DEF KeepsCall, KeepsWay
  <2>2. c.buf \in P /\ \A a \in P \ {c.buf} : IsNode(N[a]) /\ IsNode(M[a]) /\ Same(M[a], N[a])
    BY <1>1, <1>8, <1>9
  <2> QED BY ONLY <2>1, <2>2, <1>2, <1>10, GuardKept
<1>14. d.buf = b /\ d.key = key
  BY <1>1 DEF KeepsCall, KeepsWay
<1>15. b \in s.T
  BY <1>8, <1>11
<1> QED BY <1>1, <1>8, <1>10, <1>12, <1>13, <1>14, <1>15 DEF PathOK

\* After the scatter the node is searched again: every child the key can go to has room.
LEMMA ScatterRescan ==
  ASSUME OddRoom, NEW c, NEW top, NEW t, NEW N, IsTree(N, t), NEW b, b = c.buf, b \in t.T, NEW key \in Int,
         Child(N[b], c.pkey) = c.tmp[1], Routes(N[b], c.pkey, key), c.is = 3,
         NEW V, NEW u, NEW k, ScatterEnd(c, N, V, u, k), NEW g, ScatterTo(g, c, top, t, N, k),
         NEW f, NEW z, NEW q, Written(g, f, c, top, V, u, k, z, q),
         NEW i \in 0 .. z.ct, Routes(z, i, key)
  PROVE  ChildRoom(c, f.nodes[Child(z, i)])
PROOF
<1>1. PICK o, n, p, is, x : o = N[b] /\ n = g.nodes[b] /\ p = c.pkey /\ is = c.is /\ x = c.tmp
  OBVIOUS
<1>2. is \in {0, 3} /\ IsNode(o) /\ IsNode(n) /\ JoinedOf(o, n, p, is)
  BY <1>1 DEF ScatterTo
<1>3. k = c.iu /\ k \in {2, 3, 4} /\ SizesFit(c, u, V.leaf, Half)
  BY DEF ScatterEnd
<1>4. IsParent(z, n, V, u, p, is, x, k) /\ (\A j \in 1 .. k : IsPiece(q[j], g.nodes[x[j]], V, u, j))
      /\ \A j \in 1 .. k : f.nodes[x[j]] = q[j]
  BY <1>1 DEF Written, FilledTo
<1>5. CutUnder(o, z, p, k, V, u, x)
  <2>1. Child(o, p) = x[1] /\ k \in {2, 3, 4} /\ is \in {0, 3}
    BY <1>1, <1>2, <1>3
  <2>2. IsParent(z, n, V, u, p, is, x, k)
    BY <1>4
  <2> QED BY ONLY <2>1, <2>2, <1>2, ParentIsCut
<1>6. Sorted(o) /\ Routes(o, p, key)
  BY <1>1, TreeSorted
<1>7. PICK j \in 1 .. k : Child(z, i) = x[j]
  <2>1. k \in {2, 3, 4} /\ IsNode(o)
    BY <1>2, <1>3
  <2>2. \E j \in 1 .. k : Child(z, i) = x[j]
    BY ONLY <2>1, <1>5, <1>6, CutRoutes, key \in Int, i \in 0 .. z.ct, Routes(z, i, key)
  <2> QED BY <2>2
<1>8. f.nodes[Child(z, i)].ct = Size(u, V.leaf, j)
  BY <1>4, <1>7 DEF IsPiece
<1>9. PieceFits(c, Size(u, V.leaf, j), Half)
  BY <1>3 DEF SizesFit
<1>10. Half \in Nat /\ MaxCt \in Nat /\ MaxCt = 2 * Half + 1
  BY HalfIs
<1> QED BY <1>8, <1>9, <1>10 DEF PieceFits, ChildRoom

\* ScatterKeys keeps the invariant: the tree that is cut has the keys of the
\* one that was joined.
LEMMA ScatterKeysGood ==
  ASSUME OddRoom, NEW top, NEW t, NEW P, NEW N, ScatterOK(h, call, held, top, t, P, N), ScatterKeys
  PROVE  \E s, Q, M : Good(h', call', held, top, s, Q, M)
PROOF
<1>1. ~Adds /\ ~Drops
  BY DEF ScatterKeys
<1>2. Enough(call, Len(call.gbuf.ent), call.gbuf.leaf)
  BY <1>1, ScatterEnough
<1>3. PICK V, u, k : ScatterEnd(call, N, V, u, k)
  BY <1>2, ScatterEndIs
<1>4. k = call.iu /\ k \in {2, 3, 4}
  BY <1>3 DEF ScatterEnd
<1>5. PICK g : g = LinkNext(h)
  OBVIOUS
<1>6. PICK pos : ScatterAt(h, call, top, t, N, pos)
  BY ScatterAtIs
<1>7. Linked(h, g, top)
  BY <1>4, <1>5, <1>6, LinkNextIs
<1>8. ScatterTo(g, call, top, t, N, k)
  BY <1>4, <1>7, ScatterToIs
<1>9. /\ call' = [call EXCEPT !.pc = IF call.is = 0 THEN "descend" ELSE "rescan",
                              !.gbuf = NoGather, !.tmp = << >>, !.is = 0, !.iu = 0, !.pkey = 0]
      /\ \E fill : IsFill(fill, g) /\ h' = fill[call.iu]
  BY <1>4, <1>5, ScatterFills
<1>10. PICK fill : IsFill(fill, g) /\ h' = fill[k]
  BY <1>4, <1>9
<1>11. PICK f : f = h'
  OBVIOUS
<1>12. PICK z, q : Written(g, f, call, top, V, u, k, z, q)
  BY <1>3, <1>8, <1>10, <1>11, WrittenIs
<1>13. /\ IsTree(N, t) /\ PathOK(N, t, P, call) /\ KeyTree(call) /\ Running(call, held, top)
       /\ Whole(h, call) = call.tmp[1] /\ Child(N[call.buf], call.pkey) = Whole(h, call)
       /\ Routes(N[call.buf], call.pkey, call.key) /\ t.K[Root] = KeysHeld(call, held) /\ call.pc = "scatter"
  <2>1. call.iu # 0
    BY <1>4
  <2> QED BY <2>1 DEF ScatterOK, Whole
<1>14. Child(N[call.buf], call.pkey) = call.tmp[1]
  BY <1>13
<1>15. PICK s : IsCut(f.nodes, t, s, k, call.tmp)
  BY <1>3, <1>8, <1>12, <1>13, <1>14, ScatterTree
<1>16. Scattered(f, call, top, t, s, V, u, k, z, q)
  BY <1>3, <1>8, <1>12, <1>15, ScatterSettles
<1>17. PICK d : d = call'
  OBVIOUS
<1>18. PICK pc : pc = IF call.is = 0 THEN "descend" ELSE "rescan"
  OBVIOUS
<1>19. CallOf(d) /\ KeepsCall(call, d) /\ KeepsWay(call, d) /\ d.pc = pc
  <2>1. CallOf(call)
    BY <1>6 DEF ScatterAt
  <2>2. d = [call EXCEPT !.pc = pc, !.gbuf = NoGather, !.tmp = << >>, !.is = 0, !.iu = 0, !.pkey = 0]
    BY <1>9, <1>17, <1>18
  <2> QED BY ONLY <2>1, <2>2, ScatteredCall, Zenon
<1>20. PathOK(f.nodes, s, P, d) /\ s.K[Root] = t.K[Root]
  BY <1>4, <1>8, <1>12, <1>13, <1>14, <1>16, <1>19, ScatterPath
<1>21. d.pc # "return" /\ call.pc # "return"
  BY <1>13, <1>18, <1>19
<1>22. (IsWrite(d) <=> IsWrite(call)) /\ (KeyTree(d) <=> KeyTree(call)) /\ KeysHeld(d, held) = KeysHeld(call, held)
  BY <1>19, <1>21, KeepsSorts
<1>23. Running(d, held, top)
  BY <1>13, <1>19, CallKept DEF CallOf
<1>24. Settled(f, top, s)
  BY <1>16 DEF Scattered
<1>25. d.buf = call.buf /\ d.key = call.key /\ d.tree = call.tree
  BY <1>19 DEF KeepsCall, KeepsWay
<1>26. f.nodes[call.buf] = z /\ ~z.leaf /\ call.is \in {0, 3} /\ (call.is = 0 => call.buf = Root) /\ z.ct = N[call.buf].ct + k - 1
  <2>1. PICK o, n, p, is, x : o = N[call.buf] /\ n = g.nodes[call.buf] /\ p = call.pkey /\ is = call.is /\ x = call.tmp
    OBVIOUS
  <2>2. is \in {0, 3} /\ k \in {2, 3, 4} /\ Child(o, p) = x[1]
    BY <2>1, <1>4, <1>14, <1>8 DEF ScatterTo
  <2>3. IsNode(o) /\ IsNode(n) /\ JoinedOf(o, n, p, is)
    BY <2>1, <1>8 DEF ScatterTo
  <2>4. IsParent(z, n, V, u, p, is, x, k) /\ f.nodes[call.buf] = z
    BY <2>1, <1>12 DEF Written, FilledTo
  <2>5. IsParent(z, n, V, u, p, is, x, k)
    BY <2>4
  <2>6. z.ct = o.ct + k - 1
    BY ONLY <2>2, <2>3, <2>5, ParentIsCut
  <2>7. ~z.leaf
    BY <2>5 DEF IsParent
  <2>8. call.is = 0 => call.buf = Root
    BY <1>6 DEF ScatterAt
  <2> QED BY <2>1, <2>2, <2>4, <2>6, <2>7, <2>8
<1>27. CASE call.is = 0
  <2>1. z.ct < 3 * MaxCt
    BY <1>3, <1>26, <1>27 DEF ScatterEnd, ParentRoom
  <2>2. d.buf = Root /\ f.nodes[d.buf] = z
    BY <1>25, <1>26, <1>27
  <2>3. NodeRoom(d, f.nodes[d.buf])
    BY <2>1, <2>2 DEF NodeRoom
  <2>4. Near(f, d.buf, 1)
    BY <2>2 DEF Near
  <2>5. d.pc = "descend"
    BY <1>18, <1>19, <1>27
  <2>6. DescendOK(f, d, held, top, s, P)
    BY <2>3, <2>4, <2>5, <1>13, <1>20, <1>22, <1>23, <1>24 DEF DescendOK
  <2> QED BY <2>6, <1>11, <1>17 DEF Good
<1>28. CASE call.is = 3
  <2>1. d.pc = "rescan"
    BY <1>18, <1>19, <1>28
  <2>2. f.nodes[d.buf] = z
    BY <1>25, <1>26
  <2>3. ASSUME NEW i \in 0 .. z.ct, Routes(z, i, d.key) PROVE ChildRoom(d, f.nodes[Child(z, i)])
    <3>1. PICK b : b = call.buf
      OBVIOUS
    <3>2. PICK key \in Int : key = call.key
      BY <1>13 DEF Running, OpOK
    <3>3. b \in t.T
      BY <3>1, <1>13 DEF PathOK
    <3>4. Child(N[b], call.pkey) = call.tmp[1] /\ Routes(N[b], call.pkey, key) /\ Routes(z, i, key)
      BY <3>1, <3>2, <1>13, <1>14, <1>25, <2>3
    <3>5. ChildRoom(call, f.nodes[Child(z, i)])
      BY <3>1, <3>3, <3>4, <1>3, <1>8, <1>12, <1>13, <1>28, ScatterRescan
    <3> QED BY <3>5, <1>22, <1>25 DEF ChildRoom
  <2>4. RescanOK(f, d, held, top, s, P)
    BY <2>1, <2>2, <2>3, <1>13, <1>20, <1>22, <1>23, <1>24, <1>26 DEF RescanOK
  <2> QED BY <2>4, <1>11, <1>17 DEF Good
<1> QED BY <1>26, <1>27, <1>28

(***************************************************************************)
(* Every step.                                                             *)
(***************************************************************************)
LEMMA GoodAt ==
  ASSUME NEW g, NEW c, NEW hd, NEW top, NEW t, NEW P, NEW N, Good(g, c, hd, top, t, P, N)
  PROVE  /\ c.pc = "begin" => BeginOK(g, c, hd, top, t, P)
         /\ c.pc = "descend" => DescendOK(g, c, hd, top, t, P)
         /\ c.pc = "rescan" => RescanOK(g, c, hd, top, t, P)
         /\ c.pc = "scatter" => ScatterOK(g, c, hd, top, t, P, N)
PROOF
<1>1. CASE IdleOK(g, c, hd, top, t)
  <2>1. c.pc = "idle"
    BY <1>1 DEF IdleOK, CallIdle
  <2> QED BY <2>1
<1>2. CASE ReturnOK(g, c, hd, top, t)
  <2>1. c.pc = "return"
    BY <1>2 DEF ReturnOK
  <2> QED BY <2>1
<1>3. CASE BeginOK(g, c, hd, top, t, P)
  <2>1. c.pc = "begin"
    BY <1>3 DEF BeginOK
  <2> QED BY <2>1, <1>3
<1>4. CASE DescendOK(g, c, hd, top, t, P)
  <2>1. c.pc = "descend"
    BY <1>4 DEF DescendOK
  <2> QED BY <2>1, <1>4
<1>5. CASE RescanOK(g, c, hd, top, t, P)
  <2>1. c.pc = "rescan"
    BY <1>5 DEF RescanOK
  <2> QED BY <2>1, <1>5
<1>6. CASE ScatterOK(g, c, hd, top, t, P, N)
  <2>1. c.pc = "scatter"
    BY <1>6 DEF ScatterOK
  <2> QED BY <2>1, <1>6
<1> QED BY <1>1, <1>2, <1>3, <1>4, <1>5, <1>6 DEF Good

\* A step of the tree leaves the values and what is held.
LEMMA TreeStepGood ==
  ASSUME HeldOK(held), NEW top \in Nat, bag \in Bags(top), bag' = bag, held' = held,
         \E s, Q, M : Good(h', call', held, top, s, Q, M)
  PROVE  Consistent(h', call', bag', held')
PROOF
<1>1. HeldOK(held') /\ bag' \in Bags(top)
  BY DEF HeldOK
<1>2. \E s, Q, M : Good(h', call', held', top, s, Q, M)
  BY Zenon
<1> QED BY <1>1, <1>2 DEF Consistent

TreeStep ==
  \/ BeginWrite \/ Descend \/ Rescan
  \/ AddNode \/ DropNode \/ ScatterKeys
  \/ LeafFind \/ LeafInsert \/ LeafUpdate \/ LeafDelete

\* A step in the tree leaves the values and what is held.
LEMMA TreeStepLeaves ==
  ASSUME TreeStep
  PROVE  bag' = bag /\ held' = held
PROOF
<1>1. CASE BeginWrite
  BY <1>1 DEF BeginWrite
<1>2. CASE Descend
  BY <1>2 DEF Descend
<1>3. CASE Rescan
  BY <1>3 DEF Rescan
<1>4. CASE AddNode
  BY <1>4 DEF AddNode
<1>5. CASE DropNode
  BY <1>5 DEF DropNode
<1>6. CASE ScatterKeys
  BY <1>6 DEF ScatterKeys
<1>7. CASE LeafFind
  BY <1>7 DEF LeafFind
<1>8. CASE LeafInsert
  BY <1>8 DEF LeafInsert
<1>9. CASE LeafUpdate
  BY <1>9 DEF LeafUpdate
<1>10. CASE LeafDelete
  BY <1>10 DEF LeafDelete
<1> QED BY <1>1, <1>2, <1>3, <1>4, <1>5, <1>6, <1>7, <1>8, <1>9, <1>10 DEF TreeStep

\* Every step in the tree keeps the invariant.
LEMMA TreeSteps ==
  ASSUME OddRoom, RepairsRightKey, NEW top \in Nat, NEW t, NEW P, NEW N, Good(h, call, held, top, t, P, N), TreeStep
  PROVE  \E s, Q, M : Good(h', call', held, top, s, Q, M)
PROOF
<1>1. CASE BeginWrite
  <2>1. call.pc = "begin"
    BY <1>1 DEF BeginWrite
  <2> QED BY <1>1, <2>1, GoodAt, BeginWriteGood
<1>2. CASE Descend
  <2>1. call.pc = "descend"
    BY <1>2 DEF Descend
  <2> QED BY <1>2, <2>1, GoodAt, DescendGood
<1>3. CASE Rescan
  <2>1. call.pc = "rescan"
    BY <1>3 DEF Rescan
  <2> QED BY <1>3, <2>1, GoodAt, RescanGood
<1>4. CASE AddNode
  <2>1. call.pc = "scatter"
    BY <1>4 DEF AddNode
  <2> QED BY <1>4, <2>1, GoodAt, AddNodeGood
<1>5. CASE DropNode
  <2>1. call.pc = "scatter"
    BY <1>5 DEF DropNode
  <2> QED BY <1>5, <2>1, GoodAt, DropNodeGood
<1>6. CASE ScatterKeys
  <2>1. call.pc = "scatter"
    BY <1>6 DEF ScatterKeys
  <2> QED BY <1>6, <2>1, GoodAt, ScatterKeysGood
<1>7. CASE LeafFind
  <2>1. call.pc = "descend"
    BY <1>7 DEF LeafFind, AtLeaf
  <2> QED BY <1>7, <2>1, GoodAt, LeafFindGood
<1>8. CASE LeafInsert
  <2>1. call.pc = "descend"
    BY <1>8 DEF LeafInsert, AtLeaf
  <2> QED BY <1>8, <2>1, GoodAt, LeafInsertGood
<1>9. CASE LeafUpdate
  <2>1. call.pc = "descend"
    BY <1>9 DEF LeafUpdate, AtLeaf
  <2> QED BY <1>9, <2>1, GoodAt, LeafUpdateGood
<1>10. CASE LeafDelete
  <2>1. call.pc = "descend"
    BY <1>10 DEF LeafDelete, AtLeaf
  <2> QED BY <1>10, <2>1, GoodAt, LeafDeleteGood
<1> QED BY <1>1, <1>2, <1>3, <1>4, <1>5, <1>6, <1>7, <1>8, <1>9, <1>10 DEF TreeStep

\* So does every step of a call.
LEMMA StepGood ==
  ASSUME OddRoom, RepairsRightKey, Consistent(h, call, bag, held), Step
  PROVE  Consistent(h', call', bag', held')
PROOF
<1>1. CASE TreeStep
  <2>1. PICK top \in Nat : bag \in Bags(top) /\ \E t, P, N : Good(h, call, held, top, t, P, N)
    BY DEF Consistent
  <2>2. PICK t, P, N : Good(h, call, held, top, t, P, N)
    BY <2>1
  <2>3. \E s, Q, M : Good(h', call', held, top, s, Q, M)
    BY <2>2, <1>1, TreeSteps
  <2>4. bag' = bag /\ held' = held
    BY <1>1, TreeStepLeaves
  <2>5. HeldOK(held)
    BY DEF Consistent
  <2> QED BY <2>1, <2>3, <2>4, <2>5, TreeStepGood
<1>2. CASE InsertReturns
  BY <1>2, InsertReturnsGood
<1>3. CASE GetReturns
  BY <1>3, GetReturnsGood
<1>4. CASE UpdateReturns
  BY <1>4, UpdateReturnsGood
<1>5. CASE DeleteReturns
  BY <1>5, DeleteReturnsGood
<1>6. CASE FindReturns
  BY <1>6, FindReturnsGood
<1> QED BY <1>1, <1>2, <1>3, <1>4, <1>5, <1>6 DEF Step, TreeStep

\* The calls of the script are calls of the dictionary.
Asks == {"insert", "get", "update", "delete"} \X Keys \X Values
ScriptOK == script \in Seq(Asks)
BppInv == Consistent(h, call, bag, held) /\ ScriptOK

\* A script is one at first.
LEMMA ScriptInit ==
  ASSUME Init
  PROVE  ScriptOK
  BY ScriptsAssumption DEF Init, ScriptOK, Asks

\* The keys that are called with are keys of the dictionary.
LEMMA ScriptKey ==
  ASSUME ScriptOK
  PROVE  \A k \in (IF Scripted THEN {script[1][2]} ELSE HotKeys) : k \in Keys
PROOF
<1>1. CASE Scripted
  <2>1. Len(script) \in Nat /\ Len(script) > 0
    BY <1>1, EmptySeq DEF Scripted, ScriptOK
  <2>2. script[1] \in Asks
    BY <2>1 DEF ScriptOK
  <2>3. script[1][2] \in Keys
    BY <2>2 DEF Asks
  <2> QED BY <1>1, <2>3
<1>2. CASE ~Scripted
  BY <1>2, ParameterAssumption
<1> QED BY <1>1, <1>2

\* A step takes a call off the script, or leaves it.
LEMMA ScriptLeft ==
  ASSUME ScriptOK, Next
  PROVE  ScriptOK'
PROOF
<1>1. ASSUME script' = script PROVE ScriptOK'
  BY <1>1 DEF ScriptOK, Asks
<1>2. ASSUME NEW op, NEW k, NEW v, NEW tree, Begin(op, k, v, tree) PROVE ScriptOK'
  <2>1. CASE Scripted
    <3>1. script' = Tail(script)
      BY <1>2, <2>1 DEF Begin
    <3>2. Tail(script) \in Seq(Asks)
      BY <2>1 DEF Scripted, ScriptOK
    <3> QED BY <3>1, <3>2 DEF ScriptOK, Asks
  <2>2. CASE ~Scripted
    <3>1. script' = script
      BY <1>2, <2>2 DEF Begin
    <3> QED BY <3>1, <1>1
  <2> QED BY <2>1, <2>2
<1>3. CASE Step
  <2>1. script' = script
    <3>1. CASE BeginWrite \/ Descend \/ Rescan \/ AddNode \/ DropNode
      BY <3>1 DEF BeginWrite, Descend, Rescan, AddNode, DropNode
    <3>2. CASE ScatterKeys
      BY <3>2 DEF ScatterKeys
    <3>3. CASE LeafFind \/ LeafInsert \/ LeafUpdate \/ LeafDelete
      BY <3>3 DEF LeafFind, LeafInsert, LeafUpdate, LeafDelete
    <3>4. CASE InsertReturns \/ GetReturns \/ UpdateReturns \/ DeleteReturns \/ FindReturns
      BY <3>4 DEF InsertReturns, GetReturns, UpdateReturns, DeleteReturns, FindReturns
    <3> QED BY <1>3, <3>1, <3>2, <3>3, <3>4 DEF Step
  <2> QED BY <2>1, <1>1
<1>4. ASSUME NEW k, NEW v, bpptree_insert(k, v) \/ bpptree_get(k, v) \/ bpptree_update(k, v) \/ bpptree_delete(k, v)
      PROVE  ScriptOK'
  BY <1>2, <1>4 DEF bpptree_insert, bpptree_get, bpptree_update, bpptree_delete
<1>5. ASSUME NEW p, bpptree_find(p) PROVE ScriptOK'
  <2>1. script' = script
    BY <1>5 DEF bpptree_find
  <2> QED BY <2>1, <1>1
<1>6. CASE bpptree_next \/ bpptree_destroy_cursor \/ bpptree_reopen \/ bpptree_delete_dictionary \/ CallsMade
  <2>1. script' = script
    BY <1>6 DEF bpptree_next, NextOfList, NextKey, bpptree_destroy_cursor, bpptree_reopen, bpptree_delete_dictionary,
                CallsMade, vars
  <2> QED BY <2>1, <1>1
<1> QED BY <1>3, <1>4, <1>5, <1>6 DEF Next

\* Where nothing changes the invariant stays.
LEMMA ConsistentAlike ==
  ASSUME Consistent(h, call, bag, held), h' = h, call' = call, bag' = bag, held' = held
  PROVE  Consistent(h', call', bag', held')
  BY Zenon

\* Every action keeps the invariant.
LEMMA ConsistentNext ==
  ASSUME OddRoom, RepairsRightKey, BppInv, Next
  PROVE  Consistent(h', call', bag', held')
PROOF
<1>1. Consistent(h, call, bag, held) /\ ScriptOK
  BY DEF BppInv
<1>2. CASE Step
  BY <1>1, <1>2, StepGood
<1>3. ASSUME NEW k \in (IF Scripted THEN {script[1][2]} ELSE HotKeys), NEW v \in Values,
             bpptree_insert(k, v) \/ bpptree_get(k, v) \/ bpptree_update(k, v) \/ bpptree_delete(k, v)
      PROVE  Consistent(h', call', bag', held')
  <2>1. k \in Keys
    BY <1>1, ScriptKey
  <2> QED BY <2>1, <1>1, <1>3, BeginsGood
<1>4. ASSUME NEW p \in Predicates, bpptree_find(p) PROVE Consistent(h', call', bag', held')
  BY <1>1, <1>4, FindGood
<1>5. CASE NextOfList \/ bpptree_destroy_cursor \/ CallsMade
  <2>1. h' = h /\ call' = call /\ bag' = bag /\ held' = held
    BY <1>5 DEF NextOfList, bpptree_destroy_cursor, CallsMade, vars
  <2> QED BY <2>1, <1>1, ConsistentAlike
<1>6. CASE NextKey
  BY <1>1, <1>6, NextGood
<1>7. CASE bpptree_reopen
  BY <1>1, <1>7, ReopenGood
<1>8. CASE bpptree_delete_dictionary
  BY <1>1, <1>8, DeleteDictionaryGood
<1> QED BY <1>2, <1>3, <1>4, <1>5, <1>6, <1>7, <1>8 DEF Next, bpptree_next

\* The invariant holds of a new dictionary.
LEMMA BppInvInit ==
  ASSUME Init
  PROVE  BppInv
PROOF
<1>1. Consistent(h, call, bag, held)
  <2>1. h = Handle(EmptyFile, FirstFree) /\ call = CallIdle /\ bag = NewBag /\ held = [k \in Keys |-> {}]
    BY DEF Init
  <2> QED BY <2>1, CreateGood, Zenon
<1> QED BY <1>1, ScriptInit DEF BppInv

\* And after every step.
LEMMA BppInvNext ==
  ASSUME OddRoom, RepairsRightKey, BppInv, [Next]_vars
  PROVE  BppInv'
PROOF
<1>1. CASE Next
  <2>1. Consistent(h', call', bag', held')
    BY <1>1, ConsistentNext
  <2>2. ScriptOK'
    BY <1>1, ScriptLeft DEF BppInv
  <2> QED BY <2>1, <2>2, Zenon DEF BppInv
<1>2. CASE UNCHANGED vars
  <2>1. h' = h /\ call' = call /\ bag' = bag /\ held' = held /\ script' = script
    BY <1>2 DEF vars
  <2>2. Consistent(h', call', bag', held')
    BY <2>1, ConsistentAlike DEF BppInv
  <2>3. ScriptOK'
    BY <2>1 DEF ScriptOK, BppInv, Asks
  <2> QED BY <2>2, <2>3, Zenon DEF BppInv
<1> QED BY <1>1, <1>2

\* The inductive invariant holds, as long as the repair of an inner key meets
\* the right one: whatever call is under way, wherever it is in it, and
\* whichever nodes are in buffers, there is a tree for the nodes with the keys
\* held, and the call has what it needs to restore it.
THEOREM TreeConsistent ==
  ASSUME OddRoom
  PROVE  Spec /\ []RepairsRightKey => []BppInv
PROOF
<1>1. Init => BppInv
  BY BppInvInit
<1>2. RepairsRightKey /\ BppInv /\ [Next]_vars => BppInv'
  BY BppInvNext
<1> QED BY <1>1, <1>2, PTL DEF Spec

(***************************************************************************)
(* Between calls.                                                          *)
(***************************************************************************)
IdleTree(top, t) ==
  /\ Settled(h, top, t) /\ t.K[Root] = HeldKeys(held) /\ IsTree(h.nodes, t) /\ Sizes(h.nodes, t.T) /\ Store(h, top)
  /\ t.T \subseteq Adrs /\ Root \in t.T /\ t.L \in [t.T -> Nat] /\ Depth \in Nat /\ IsFiniteSet(Adrs)

\* Between calls there is such a tree.
LEMMA IdleTreeIs ==
  ASSUME BppInv, Idling
  PROVE  \E top, t : IdleTree(top, t)
PROOF
<1>1. Consistent(h, CallIdle, bag, held)
  BY DEF BppInv, Idling
<1>2. \E top \in Nat : bag \in Bags(top) /\ \E t : Settled(h, top, t) /\ t.K[Root] = HeldKeys(held)
  BY <1>1, WasIdle
<1>3. PICK top, t : Settled(h, top, t) /\ t.K[Root] = HeldKeys(held)
  BY <1>2
<1>4. Store(h, top) /\ IsTree(h.nodes, t) /\ Sizes(h.nodes, t.T)
  BY <1>3 DEF Settled
<1>5. t.T \subseteq Adrs /\ Root \in t.T /\ t.L \in [t.T -> Nat]
  BY <1>4 DEF IsTree, Adrs
<1>6. IsFiniteSet(Adrs)
  <2>1. h.nextFreeAdr \in Nat /\ \A a \in Adrs : a \in Nat /\ a < h.nextFreeAdr
    BY <1>4, StoreNodes DEF Store, Adrs
  <2>2. IsFiniteSet(0 .. h.nextFreeAdr)
    BY <2>1, FS_Interval
  <2>3. Adrs \in SUBSET (0 .. h.nextFreeAdr)
    BY <2>1
  <2> QED BY <2>2, <2>3, FS_Subset
<1>7. Depth \in Nat
  BY <1>6, FS_CardinalityType DEF Depth
<1> QED BY <1>3, <1>4, <1>5, <1>6, <1>7 DEF IdleTree

\* The rows of the tree.
Below(R) == UNION { { Child(h.nodes[a], i) : i \in Inner(h.nodes[a]) } : a \in R }
IsRows(f) == f = [d \in 0 .. Depth |-> IF d = 0 THEN {Root} ELSE Below(f[d - 1])]

\* The rows as the choice of a table of them.
LEMMA RowsAreChoice == Rows = CHOOSE f : IsRows(f)
  BY DEF Rows, IsRows, Below

ChildAt(t, a, c) ==
  c \in t.T /\ c # Root /\ t.L[a] \in Nat /\ t.L[c] \in Nat /\ t.L[a] = t.L[c] + 1

\* A child of an inner node is one level below it.
LEMMA InnerChild ==
  ASSUME NEW top, NEW t, IdleTree(top, t), NEW a \in t.T, NEW i \in Inner(h.nodes[a]), NEW c, c = Child(h.nodes[a], i)
  PROVE  /\ ChildAt(t, a, c) /\ ChildIn(h.nodes[a], t, a, i)
         /\ ~h.nodes[a].leaf /\ i \in 0 .. h.nodes[a].ct
PROOF
<1>1. ~h.nodes[a].leaf /\ i \in 0 .. h.nodes[a].ct
  BY DEF Inner
<1>2. IsTree(h.nodes, t)
  BY DEF IdleTree
<1>3. ChildIn(h.nodes[a], t, a, i)
  BY <1>1, <1>2, TreeChild
<1>4. t.L \in [t.T -> Nat]
  BY DEF IdleTree
<1> QED BY <1>1, <1>3, <1>4 DEF ChildIn, ChildAt

RowsLevel(row, t) ==
  \A d \in 0 .. Depth : \A a \in row[d] : a \in t.T /\ t.L[a] = t.L[Root] - d

\* The nodes of a row are in the tree, all of one level.
LEMMA RowsAre ==
  ASSUME NEW top, NEW t, IdleTree(top, t), NEW row, row = Rows
  PROVE  RowsLevel(row, t)
PROOF
<1> DEFINE S == SUBSET t.T
           F == [i \in Nat |-> [R \in S |-> Below(R)]]
<1>0. Depth \in Nat /\ Root \in t.T /\ t.L \in [t.T -> Nat]
  BY DEF IdleTree
<1>1. ASSUME NEW R \in S PROVE Below(R) \in S
  <2>1. ASSUME NEW c \in Below(R) PROVE c \in t.T
    <3>1. PICK a \in R : \E j \in Inner(h.nodes[a]) : c = Child(h.nodes[a], j)
      BY <2>1 DEF Below
    <3>2. PICK j \in Inner(h.nodes[a]) : c = Child(h.nodes[a], j)
      BY <3>1
    <3>3. a \in t.T
      BY <1>1
    <3>4. ChildAt(t, a, c)
      BY <3>2, <3>3, InnerChild
    <3> QED BY <3>4 DEF ChildAt
  <2> QED BY <2>1
<1>2. F \in [Nat -> [S -> S]] /\ \A i \in Nat : \A R \in S : F[i][R] = Below(R)
  BY <1>1
<1>3. {Root} \in S
  BY <1>0
<1> HIDE DEF F, S
<1>4. PICK x \in [0 .. Depth -> S] : x[0] = {Root} /\ \A i \in 1 .. Depth : x[i] = F[i][x[i - 1]]
  <2>1. F \in [Nat -> [S -> S]]
    BY <1>2
  <2>2. PICK s0 \in S : s0 = {Root}
    BY <1>3
  <2>3. PICK n \in Nat : n = Depth
    BY <1>0
  <2>4. Recur(S, s0, F, n)
    BY <2>1, RecurExists
  <2> QED BY <2>2, <2>3, <2>4 DEF Recur
<1>5. IsRows(x)
  <2>1. \A i \in 0 .. Depth : x[i] = IF i = 0 THEN {Root} ELSE Below(x[i - 1])
    <3> TAKE i \in 0 .. Depth
    <3>1. CASE i = 0
      BY <3>1, <1>4
    <3>2. CASE i # 0
      <4>1. i \in 1 .. Depth /\ i - 1 \in 0 .. Depth /\ i \in Nat
        BY <3>2, <1>0
      <4>2. x[i - 1] \in S
        BY <4>1, <1>4
      <4>3. F[i][x[i - 1]] = Below(x[i - 1])
        BY <4>1, <4>2, <1>2
      <4> QED BY <3>2, <4>1, <4>3, <1>4
    <3> QED BY <3>1, <3>2
  <2>2. x = [i \in 0 .. Depth |-> x[i]]
    BY <1>4
  <2> DEFINE G(i) == IF i = 0 THEN {Root} ELSE Below(x[i - 1])
  <2>3. \A i \in 0 .. Depth : x[i] = G(i)
    BY <2>1
  <2> HIDE DEF G
  <2>4. x = [i \in 0 .. Depth |-> G(i)]
    BY <2>2, <2>3
  <2> QED BY <2>4 DEF IsRows, G
<1>6. IsRows(row)
  BY <1>5, RowsAreChoice
<1>7. \A i \in 0 .. Depth : row[i] = IF i = 0 THEN {Root} ELSE Below(row[i - 1])
  <2> DEFINE G(i) == IF i = 0 THEN {Root} ELSE Below(row[i - 1])
  <2>1. row = [i \in 0 .. Depth |-> G(i)]
    BY <1>6 DEF IsRows
  <2> HIDE DEF G
  <2>2. \A i \in 0 .. Depth : row[i] = G(i)
    BY <2>1
  <2> QED BY <2>2 DEF G
<1> DEFINE OK(d) == \A a \in row[d] : a \in t.T /\ t.L[a] = t.L[Root] - d
<1>8. ASSUME NEW d \in 0 .. Depth PROVE OK(d)
  <2> DEFINE D == { i \in 0 .. d : OK(i) }
  <2>1. 0 \in D
    <3>1. row[0] = {Root}
      BY <1>0, <1>7
    <3>2. t.L[Root] \in Nat
      BY <1>0
    <3> QED BY <3>1, <3>2, <1>0
  <2>2. ASSUME NEW i \in D, i < d PROVE i + 1 \in D
    <3>1. i \in 0 .. Depth /\ i + 1 \in 0 .. d /\ i + 1 \in 0 .. Depth /\ i + 1 # 0 /\ (i + 1) - 1 = i /\ i \in Int
      BY <2>2, <1>0
    <3>2. row[i + 1] = Below(row[i])
      BY <3>1, <1>7
    <3>3. ASSUME NEW c \in row[i + 1] PROVE c \in t.T /\ t.L[c] = t.L[Root] - (i + 1)
      <4>1. PICK a \in row[i] : \E j \in Inner(h.nodes[a]) : c = Child(h.nodes[a], j)
        BY <3>2, <3>3 DEF Below
      <4>2. PICK j \in Inner(h.nodes[a]) : c = Child(h.nodes[a], j)
        BY <4>1
      <4>3. a \in t.T /\ t.L[a] = t.L[Root] - i
        BY <2>2
      <4>4. ChildAt(t, a, c)
        BY <4>2, <4>3, InnerChild
      <4>5. t.L[Root] \in Nat
        BY <1>0
      <4>6. i \in Int
        BY <3>1
      <4>7. t.L[c] = t.L[Root] - (i + 1)
        <5>1. PICK p, q, r : p = t.L[a] /\ q = t.L[c] /\ r = t.L[Root]
          OBVIOUS
        <5>2. p = r - i /\ p = q + 1 /\ p \in Nat /\ q \in Nat /\ r \in Nat
          BY ONLY <5>1, <4>3, <4>4, <4>5 DEF ChildAt
        <5>3. q = r - (i + 1)
          BY ONLY <5>2, <4>6
        <5> QED BY ONLY <5>1, <5>3
      <4>8. c \in t.T
        BY ONLY <4>4 DEF ChildAt
      <4> QED BY ONLY <4>7, <4>8
    <3> QED BY <3>1, <3>3
  <2>3. D \in SUBSET (0 .. d) /\ d \in Nat
    BY <1>0
  <2> HIDE DEF D
  <2>4. d \in D
    BY <2>1, <2>2, <2>3, UpTo
  <2> QED BY <2>4 DEF D
<1> QED BY <1>8 DEF RowsLevel

\* The keys of a child are between those of its parent on both sides of it.
FirstLast(n, c, i) ==
  /\ i > 0 => n.ent[i].key <= c.ent[1].key
  /\ i < n.ct => c.ent[c.ct].key < n.ent[i + 1].key

\* The keys of a child are between the ones of its parent.
LEMMA ChildKeys ==
  ASSUME NEW N, NEW t, IsTree(N, t), NEW a \in t.T, ~N[a].leaf, NEW i \in 0 .. N[a].ct, NEW n, n = N[a],
         NEW b, b = Child(n, i), NEW c, c = N[b], c.ct >= 1
  PROVE  FirstLast(n, c, i)
PROOF
<1>1. ChildIn(n, t, a, i)
  BY TreeChild
<1>2. b \in t.T /\ \A x \in t.K[b] : Routes(n, i, x)
  BY <1>1 DEF ChildIn
<1>3. IsNode(n) /\ IsNode(c) /\ InTree(c, t, b) /\ t.K \in [t.T -> SUBSET Int]
  BY <1>2 DEF IsTree
<1>4. c.ct \in Nat /\ n.ct \in Nat /\ i \in 0 .. n.ct
  BY <1>3, NodeParts
<1>5. /\ \A j \in 1 .. c.ct : c.ent[j].key \in Int
      /\ \A j \in 1 .. n.ct : n.ent[j].key \in Int
  BY <1>3, NodeParts
<1>6. c.ent[1].key \in Int /\ c.ent[c.ct].key \in Int /\ 1 \in 1 .. c.ct /\ c.ct \in 1 .. c.ct
  BY <1>4, <1>5
<1>7. (i > 0 => i \in 1 .. n.ct) /\ (i < n.ct => i + 1 \in 1 .. n.ct)
  BY <1>4
<1>8. CASE c.leaf = TRUE
  <2>1. t.K[b] = KeysOf(c)
    BY <1>3, <1>8 DEF InTree, LeafIn
  <2>2. c.ent[1].key \in t.K[b] /\ c.ent[c.ct].key \in t.K[b]
    BY <2>1, <1>6 DEF KeysOf
  <2>3. Routes(n, i, c.ent[1].key) /\ Routes(n, i, c.ent[c.ct].key)
    BY <2>2, <1>2
  <2> QED BY <2>3 DEF Routes, FirstLast
<1>9. CASE c.leaf = FALSE
  <2>1. ~N[b].leaf /\ 0 \in 0 .. N[b].ct /\ N[b].ct \in 0 .. N[b].ct
    BY <1>9, <1>4
  <2>2. /\ ChildIn(c, t, b, 0) /\ t.K[Child(c, 0)] \subseteq t.K[b]
        /\ ChildIn(c, t, b, c.ct) /\ t.K[Child(c, c.ct)] \subseteq t.K[b] /\ t.K[b] \subseteq Int
    BY <2>1, <1>2, TreeChild
  <2>3. PICK x \in t.K[b] : Routes(c, 0, x)
    BY <2>2 DEF ChildIn
  <2>4. PICK y \in t.K[b] : Routes(c, c.ct, y)
    BY <2>2 DEF ChildIn
  <2>5. x \in Int /\ y \in Int /\ Routes(n, i, x) /\ Routes(n, i, y)
    BY <2>2, <1>2
  <2>6. x < c.ent[1].key /\ c.ent[c.ct].key <= y
    BY <2>3, <2>4, <1>4 DEF Routes
  <2>7. i > 0 => n.ent[i].key <= c.ent[1].key
    <3> SUFFICES ASSUME i > 0 PROVE n.ent[i].key <= c.ent[1].key
      OBVIOUS
    <3>1. n.ent[i].key <= x /\ n.ent[i].key \in Int
      BY <2>5, <1>5, <1>7 DEF Routes
    <3> QED BY <3>1, <2>5, <2>6, <1>6
  <2>8. i < n.ct => c.ent[c.ct].key < n.ent[i + 1].key
    <3> SUFFICES ASSUME i < n.ct PROVE c.ent[c.ct].key < n.ent[i + 1].key
      OBVIOUS
    <3>1. y < n.ent[i + 1].key /\ n.ent[i + 1].key \in Int
      BY <2>5, <1>5, <1>7 DEF Routes
    <3> QED BY <3>1, <2>5, <2>6, <1>6
  <2> QED BY <2>7, <2>8 DEF FirstLast
<1> QED BY <1>3, <1>8, <1>9, NodeParts

\* A node is a leaf if and only if it is on the last level.
LEMMA LeafLevel ==
  ASSUME NEW N, NEW t, IsTree(N, t), NEW a \in t.T
  PROVE  N[a].leaf <=> t.L[a] = 0
PROOF
<1>1. IsNode(N[a]) /\ InTree(N[a], t, a) /\ t.L \in [t.T -> Nat]
  BY DEF IsTree
<1>2. CASE N[a].leaf
  BY <1>1, <1>2 DEF InTree, LeafIn
<1>3. CASE ~N[a].leaf
  <2>1. 0 \in 0 .. N[a].ct
    BY <1>1, NodeParts
  <2>2. ChildIn(N[a], t, a, 0)
    BY <1>3, <2>1, TreeChild
  <2>3. PICK c \in t.T : t.L[a] = t.L[c] + 1
    BY <2>2 DEF ChildIn
  <2>4. t.L[c] \in Nat
    BY <1>1
  <2> QED BY <2>3, <2>4, <1>3
<1> QED BY <1>2, <1>3

NodeOrdered(a, row) ==
  LET n == h.nodes[a] IN
  /\ \A b \in row : h.nodes[b].leaf = n.leaf
  /\ \A i \in 1 .. (n.ct - 1) : n.ent[i].key < n.ent[i + 1].key
  /\ \A i \in Inner(n) :
       LET c == h.nodes[Child(n, i)] IN
       /\ c.ct \in (MaxCt \div 2) .. MaxCt
       /\ i > 0 => n.ent[i].key <= c.ent[1].key
       /\ i < n.ct => c.ent[c.ct].key < n.ent[i + 1].key

\* The property, node by node.
LEMMA OrderedByNode ==
  ASSUME NEW row, row = Rows, \A d \in 0 .. Depth : \A a \in row[d] : NodeOrdered(a, row[d])
  PROVE  TreeOrdered
  BY DEF TreeOrdered, NodeOrdered

\* A child is as full as it must be, and its keys on their side.
LEMMA ChildFits ==
  ASSUME OddRoom, NEW top, NEW t, IdleTree(top, t), NEW a \in t.T, NEW n, n = h.nodes[a], NEW i \in Inner(n),
         NEW c, c = h.nodes[Child(n, i)]
  PROVE  c.ct \in (MaxCt \div 2) .. MaxCt /\ FirstLast(n, c, i)
PROOF
<1>1. PICK b : b = Child(n, i)
  OBVIOUS
<1>2. ChildAt(t, a, b) /\ ~h.nodes[a].leaf /\ i \in 0 .. h.nodes[a].ct
  BY <1>1, InnerChild
<1>3. b \in t.T \ {Root} /\ c = h.nodes[b]
  BY <1>1, <1>2 DEF ChildAt
<1>4. IsTree(h.nodes, t) /\ Sizes(h.nodes, t.T)
  BY DEF IdleTree
<1>5. c.ct \in Half .. MaxCt
  BY <1>3, <1>4 DEF Sizes
<1>6. Half >= 1 /\ Half = MaxCt \div 2 /\ MaxCt \in Nat /\ Half \in Nat
  BY HalfIs DEF Half
<1>7. c.ct >= 1
  BY <1>5, <1>6
<1>8. FirstLast(n, c, i)
  BY <1>1, <1>2, <1>3, <1>4, <1>7, ChildKeys
<1> QED BY <1>5, <1>6, <1>8

\* Between calls the tree is ordered.
LEMMA TreeIsOrdered ==
  ASSUME OddRoom, BppInv
  PROVE  TreeOrdered
PROOF
<1> SUFFICES ASSUME Idling PROVE TreeOrdered
  BY DEF TreeOrdered
<1>1. PICK top, t : IdleTree(top, t)
  BY IdleTreeIs
<1>2. PICK row : row = Rows
  OBVIOUS
<1>3. RowsLevel(row, t)
  BY <1>1, <1>2, RowsAre
<1>4. IsTree(h.nodes, t)
  BY <1>1 DEF IdleTree
<1>5. ASSUME NEW d \in 0 .. Depth, NEW a \in row[d] PROVE NodeOrdered(a, row[d])
  <2>1. a \in t.T /\ t.L[a] = t.L[Root] - d
    BY <1>3 DEF RowsLevel
  <2>2. ASSUME NEW b \in row[d] PROVE h.nodes[b].leaf = h.nodes[a].leaf
    <3>1. b \in t.T /\ t.L[b] = t.L[Root] - d
      BY <1>3 DEF RowsLevel
    <3>2. (h.nodes[a].leaf <=> t.L[a] = 0) /\ (h.nodes[b].leaf <=> t.L[b] = 0)
      BY <1>4, <2>1, <3>1, LeafLevel
    <3>3. h.nodes[a].leaf \in BOOLEAN /\ h.nodes[b].leaf \in BOOLEAN
      BY <1>4, <2>1, <3>1, NodeParts DEF IsTree
    <3>4. h.nodes[b].leaf <=> h.nodes[a].leaf
      BY ONLY <2>1, <3>1, <3>2
    <3> QED BY ONLY <3>3, <3>4
  <2>3. ASSUME NEW i \in 1 .. (h.nodes[a].ct - 1) PROVE h.nodes[a].ent[i].key < h.nodes[a].ent[i + 1].key
    <3>1. Sorted(h.nodes[a]) /\ IsNode(h.nodes[a])
      BY <1>4, <2>1, TreeSorted DEF IsTree
    <3>2. h.nodes[a].ct \in Nat
      BY <3>1, NodeParts
    <3>3. i \in 1 .. h.nodes[a].ct /\ i + 1 \in 1 .. h.nodes[a].ct /\ i < i + 1
      BY <3>2
    <3> QED BY <3>1, <3>3 DEF Sorted
  <2>4. ASSUME NEW i \in Inner(h.nodes[a]), NEW c, c = h.nodes[Child(h.nodes[a], i)]
        PROVE  c.ct \in (MaxCt \div 2) .. MaxCt /\ FirstLast(h.nodes[a], c, i)
    BY <1>1, <2>1, <2>4, ChildFits
  <2> QED BY <2>2, <2>3, <2>4 DEF NodeOrdered, FirstLast
<1> QED BY <1>2, <1>5, OrderedByNode

(***************************************************************************)
(* With an odd number of keys in a node, and as long as the first key of a *)
(* leaf is written over the key that led there: between calls every path   *)
(* to a leaf has the same length, every node but the root is half full or  *)
(* more, and every key is on the side of each inner key a search takes.    *)
(***************************************************************************)
THEOREM BppTreeOrdered ==
  ASSUME OddRoom
  PROVE  Spec /\ []RepairsRightKey => []TreeOrdered
PROOF
<1>1. Spec /\ []RepairsRightKey => []BppInv
  BY TreeConsistent
<1>2. BppInv => TreeOrdered
  BY TreeIsOrdered
<1> QED BY <1>1, <1>2, PTL

(***************************************************************************)
(* A lookup.                                                               *)
(***************************************************************************)
GoesTo(k, a) == IF h.nodes[a].leaf THEN a ELSE ChildFor(h.nodes[a], search(h.nodes[a], k))
IsWay(f, k) == f = [d \in 0 .. Depth |-> IF d = 0 THEN Root ELSE GoesTo(k, f[d - 1])]
FindIn(n, k) == LET r == search(n, k) IN IF r.cc = 0 THEN n.ent[r.at + 1].rec ELSE ION_LFB_NULL

\* A lookup as the choice of the nodes it passes.
LEMMA LookupIs ==
  ASSUME NEW k
  PROVE  Lookup(k) = FindIn(h.nodes[(CHOOSE f : IsWay(f, k))[Depth]], k)
  BY DEF Lookup, IsWay, GoesTo, FindIn

\* One level down, as long as the node is not a leaf.
DownTo(t, k, a, c) ==
  /\ c \in t.T /\ (k \in t.K[c] <=> k \in t.K[a])
  /\ IF h.nodes[a].leaf THEN c = a ELSE ChildAt(t, a, c)
Branches(t) == \A a \in t.T : ~h.nodes[a].leaf => h.nodes[a].ct > 0

\* A search leads to a child that has the key if the node has it.
LEMMA GoesDown ==
  ASSUME NEW top, NEW t, IdleTree(top, t), NEW a \in t.T, NEW k \in Int, NEW c, c = GoesTo(k, a),
         Branches(t)
  PROVE  DownTo(t, k, a, c)
PROOF
<1>1. IsTree(h.nodes, t)
  BY DEF IdleTree
<1>2. CASE h.nodes[a].leaf
  BY <1>2 DEF GoesTo, DownTo
<1>3. CASE ~h.nodes[a].leaf
  <2>1. PICK n : n = h.nodes[a]
    OBVIOUS
  <2>2. IsNode(n) /\ Sorted(n) /\ n.ct > 0 /\ ~n.leaf
    BY <1>1, <1>3, <2>1, TreeSorted DEF IsTree, Branches
  <2>3. PICK r : r = search(n, k)
    OBVIOUS
  <2>4. PICK i : i = IF r.cc < 0 THEN r.at ELSE r.at + 1
    OBVIOUS
  <2>5. i \in 0 .. n.ct /\ Routes(n, i, k) /\ ChildFor(n, r) = Child(n, i)
    BY <2>2, <2>3, <2>4, SearchRoutes
  <2>6. c = Child(n, i)
    BY <1>3, <2>1, <2>3, <2>5 DEF GoesTo
  <2>7. i \in Inner(n)
    BY <2>2, <2>5 DEF Inner
  <2>8. ChildAt(t, a, c)
    BY <2>1, <2>6, <2>7, InnerChild
  <2>9. k \in t.K[c] => k \in t.K[a]
    BY <1>1, <1>3, <2>1, <2>5, <2>6, TreeChild
  <2>10. k \in t.K[a] => k \in t.K[c]
    <3> SUFFICES ASSUME k \in t.K[a] PROVE k \in t.K[c]
      OBVIOUS
    <3>1. InnerIn(n, t, a)
      BY <1>1, <2>1, <2>2 DEF IsTree, InTree
    <3>2. PICK j \in 0 .. n.ct : k \in t.K[Child(n, j)]
      BY <3>1 DEF InnerIn
    <3>3. Routes(n, j, k)
      BY <3>1, <3>2 DEF InnerIn, ChildIn
    <3>4. i = j
      BY <2>2, <2>5, <3>3, RoutesOnce
    <3> QED BY <2>6, <3>2, <3>4
  <2> QED BY <1>3, <2>8, <2>9, <2>10 DEF DownTo, ChildAt
<1>4. h.nodes[a].leaf \/ ~h.nodes[a].leaf
  OBVIOUS
<1> QED BY ONLY <1>2, <1>3, <1>4

\* The nodes x a lookup passes.
Way(x, t, k) ==
  /\ x \in [0 .. Depth -> t.T] /\ x[0] = Root
  /\ \A d \in 1 .. Depth : DownTo(t, k, x[d - 1], x[d])

\* There are such nodes.
LEMMA WayIs ==
  ASSUME NEW top, NEW t, IdleTree(top, t), Branches(t), NEW k \in Int, NEW x, x = CHOOSE f : IsWay(f, k)
  PROVE  Way(x, t, k)
PROOF
<1> DEFINE S == t.T
           F == [i \in Nat |-> [a \in S |-> GoesTo(k, a)]]
<1>0. Depth \in Nat /\ Root \in S
  BY DEF IdleTree
<1>1. ASSUME NEW a \in S PROVE DownTo(t, k, a, GoesTo(k, a)) /\ GoesTo(k, a) \in S
  <2>1. PICK c : c = GoesTo(k, a)
    OBVIOUS
  <2>2. a \in t.T
    OBVIOUS
  <2>3. DownTo(t, k, a, c)
    BY <2>1, <2>2, GoesDown
  <2> QED BY <2>1, <2>3 DEF DownTo
<1>2. F \in [Nat -> [S -> S]] /\ \A i \in Nat : \A a \in S : F[i][a] = GoesTo(k, a)
  BY <1>1
<1> HIDE DEF F, S
<1>4. PICK y \in [0 .. Depth -> S] : y[0] = Root /\ \A i \in 1 .. Depth : y[i] = F[i][y[i - 1]]
  <2>1. F \in [Nat -> [S -> S]]
    BY <1>2
  <2>2. PICK s0 \in S : s0 = Root
    BY <1>0
  <2>3. PICK n \in Nat : n = Depth
    BY <1>0
  <2>4. Recur(S, s0, F, n)
    BY <2>1, RecurExists
  <2> QED BY <2>2, <2>3, <2>4 DEF Recur
<1>5. IsWay(y, k)
  <2> DEFINE G(i) == IF i = 0 THEN Root ELSE GoesTo(k, y[i - 1])
  <2>1. \A i \in 0 .. Depth : y[i] = G(i)
    <3> TAKE i \in 0 .. Depth
    <3>1. CASE i = 0
      BY <3>1, <1>4
    <3>2. CASE i # 0
      <4>1. i \in 1 .. Depth /\ i - 1 \in 0 .. Depth /\ i \in Nat
        BY <3>2, <1>0
      <4>2. y[i - 1] \in S
        BY <4>1, <1>4
      <4>3. F[i][y[i - 1]] = GoesTo(k, y[i - 1])
        BY <4>1, <4>2, <1>2
      <4> QED BY <3>2, <4>1, <4>3, <1>4
    <3> QED BY <3>1, <3>2
  <2>2. y = [i \in 0 .. Depth |-> y[i]]
    BY <1>4
  <2> HIDE DEF G
  <2>4. y = [i \in 0 .. Depth |-> G(i)]
    BY <2>1, <2>2
  <2> QED BY <2>4 DEF IsWay, G
<1>6. IsWay(x, k)
  BY <1>5
<1>7. \A i \in 0 .. Depth : x[i] = IF i = 0 THEN Root ELSE GoesTo(k, x[i - 1])
  <2> DEFINE G(i) == IF i = 0 THEN Root ELSE GoesTo(k, x[i - 1])
  <2>1. x = [i \in 0 .. Depth |-> G(i)]
    BY <1>6 DEF IsWay
  <2> HIDE DEF G
  <2>2. \A i \in 0 .. Depth : x[i] = G(i)
    BY <2>1
  <2> QED BY <2>2 DEF G
<1>8. ASSUME NEW d \in 0 .. Depth PROVE x[d] \in S
  <2> DEFINE D == { i \in 0 .. d : x[i] \in S }
  <2>1. 0 \in D
    BY <1>0, <1>7
  <2>2. ASSUME NEW i \in D, i < d PROVE i + 1 \in D
    <3>1. i \in 0 .. Depth /\ i + 1 \in 0 .. d /\ i + 1 \in 0 .. Depth /\ i + 1 # 0 /\ (i + 1) - 1 = i /\ i \in Int
      BY <2>2, <1>0
    <3>2. x[i + 1] = GoesTo(k, x[i])
      BY <3>1, <1>7
    <3>3. x[i] \in S
      OBVIOUS
    <3> QED BY <3>1, <3>2, <3>3, <1>1
  <2>3. D \in SUBSET (0 .. d) /\ d \in Nat
    BY <1>0
  <2> HIDE DEF D
  <2>4. d \in D
    BY <2>1, <2>2, <2>3, UpTo
  <2> QED BY <2>4 DEF D
<1>9. x \in [0 .. Depth -> S]
  <2> DEFINE G(i) == IF i = 0 THEN Root ELSE GoesTo(k, x[i - 1])
  <2>1. x = [i \in 0 .. Depth |-> G(i)]
    BY <1>6 DEF IsWay
  <2> HIDE DEF G
  <2> QED BY <2>1, <1>8
<1>10. ASSUME NEW d \in 1 .. Depth PROVE DownTo(t, k, x[d - 1], x[d])
  <2>1. d \in 0 .. Depth /\ d - 1 \in 0 .. Depth /\ d # 0
    BY <1>0
  <2>2. x[d] = GoesTo(k, x[d - 1]) /\ x[d - 1] \in S
    BY <2>1, <1>7, <1>8
  <2> QED BY <2>2, <1>1
<1>11. x[0] = Root
  BY <1>0, <1>7
<1> QED BY <1>9, <1>10, <1>11 DEF Way, S

\* As long as no leaf is reached every node is one level below the last.
Falls(x, t, d) == ~h.nodes[x[d]].leaf => \A i \in 0 .. d : t.L[x[i]] = t.L[Root] - i

\* Each of them has the key if the root has it.
LEMMA WayFalls ==
  ASSUME NEW top, NEW t, IdleTree(top, t), NEW k, NEW x, Way(x, t, k), NEW d \in 0 .. Depth
  PROVE  Falls(x, t, d) /\ (k \in t.K[x[d]] <=> k \in t.K[Root])
PROOF
<1>0. Depth \in Nat /\ t.L \in [t.T -> Nat] /\ Root \in t.T
  BY DEF IdleTree
<1>1. x \in [0 .. Depth -> t.T] /\ x[0] = Root /\ \A i \in 1 .. Depth : DownTo(t, k, x[i - 1], x[i])
  BY DEF Way
<1> DEFINE OK(e) == Falls(x, t, e) /\ (k \in t.K[x[e]] <=> k \in t.K[Root])
           D == { e \in 0 .. d : OK(e) }
<1>2. 0 \in D
  <2>1. t.L[Root] \in Nat
    BY <1>0
  <2>2. \A i \in 0 .. 0 : i = 0
    OBVIOUS
  <2>3. t.L[x[0]] = t.L[Root] - 0
    BY <2>1, <1>1
  <2> QED BY <2>2, <2>3, <1>0, <1>1 DEF Falls
<1>3. ASSUME NEW e \in D, e < d PROVE e + 1 \in D
  <2>1. e \in 0 .. Depth /\ e + 1 \in 0 .. d /\ e + 1 \in 1 .. Depth /\ (e + 1) - 1 = e /\ e \in Int
    BY <1>3, <1>0
  <2>2. PICK a, c : a = x[e] /\ c = x[e + 1]
    OBVIOUS
  <2>3. DownTo(t, k, a, c)
    BY <2>1, <2>2, <1>1
  <2>4. Falls(x, t, e) /\ (k \in t.K[a] <=> k \in t.K[Root])
    BY <2>2
  <2>5. k \in t.K[c] <=> k \in t.K[Root]
    BY <2>3, <2>4 DEF DownTo
  <2>6. Falls(x, t, e + 1)
    <3> SUFFICES ASSUME ~h.nodes[c].leaf, NEW i \in 0 .. (e + 1) PROVE t.L[x[i]] = t.L[Root] - i
      BY <2>2 DEF Falls
    <3>1. ~h.nodes[a].leaf
      BY <2>3 DEF DownTo
    <3>2. \A j \in 0 .. e : t.L[x[j]] = t.L[Root] - j
      BY <3>1, <2>2, <2>4 DEF Falls
    <3>3. CASE i \in 0 .. e
      BY <3>2, <3>3
    <3>4. CASE i = e + 1
      <4>1. ChildAt(t, a, c)
        BY <2>3, <3>1 DEF DownTo
      <4>2. t.L[a] = t.L[Root] - e
        BY <3>2, <2>1, <2>2
      <4>3. PICK p, q, r : p = t.L[a] /\ q = t.L[c] /\ r = t.L[Root]
        OBVIOUS
      <4>4. r \in Nat
        BY <4>3, <1>0
      <4>5. p = r - e /\ p = q + 1 /\ p \in Nat /\ q \in Nat /\ e \in Int
        BY ONLY <4>1, <4>2, <4>3, <2>1 DEF ChildAt
      <4>6. q = r - (e + 1)
        BY ONLY <4>4, <4>5
      <4> QED BY <4>3, <4>6, <3>4, <2>2
    <3>5. i \in 0 .. e \/ i = e + 1
      BY <2>1
    <3> QED BY <3>3, <3>4, <3>5
  <2> QED BY <2>1, <2>2, <2>5, <2>6
<1>4. D \in SUBSET (0 .. d) /\ d \in Nat
  BY <1>0
<1> HIDE DEF D
<1>5. d \in D
  BY <1>2, <1>3, <1>4, UpTo
<1> QED BY <1>5 DEF D

\* A path as long as there are addresses ends in a leaf.
LEMMA WayEnds ==
  ASSUME NEW top, NEW t, IdleTree(top, t), NEW k, NEW x, Way(x, t, k)
  PROVE  h.nodes[x[Depth]].leaf
PROOF
<1> SUFFICES ASSUME ~h.nodes[x[Depth]].leaf PROVE FALSE
  OBVIOUS
<1>0. Depth \in Nat /\ t.L \in [t.T -> Nat] /\ t.T \subseteq Adrs /\ IsFiniteSet(Adrs) /\ Root \in t.T
  BY DEF IdleTree
<1>1. x \in [0 .. Depth -> t.T]
  BY DEF Way
<1>2. Depth \in 0 .. Depth
  BY <1>0
<1>3. Falls(x, t, Depth)
  BY <1>2, WayFalls
<1>4. \A i \in 0 .. Depth : t.L[x[i]] = t.L[Root] - i
  BY <1>3 DEF Falls
<1>5. x \in [0 .. Depth -> Adrs]
  BY <1>0, <1>1
<1>6. IsFiniteSet(0 .. Depth) /\ Cardinality(0 .. Depth) = Depth + 1
  <2>1. PICK n \in Nat : n = Depth
    BY <1>0
  <2>2. IsFiniteSet(0 .. n) /\ Cardinality(0 .. n) = n + 1
    BY <2>1, FS_Interval
  <2> QED BY <2>1, <2>2
<1>7. Cardinality(Adrs) < Cardinality(0 .. Depth)
  BY <1>0, <1>6 DEF Depth
<1>8. PICK i \in 0 .. Depth, j \in 0 .. Depth : i # j /\ x[i] = x[j]
  BY <1>0, <1>5, <1>6, <1>7, FS_PigeonHole
<1>9. PICK r \in Nat : r = t.L[Root]
  BY <1>0
<1>10. r - i = r - j
  BY <1>4, <1>8, <1>9
<1>11. i \in Int /\ j \in Int
  BY <1>0
<1> QED BY ONLY <1>8, <1>9, <1>10, <1>11

\* What a leaf has of a key is a record.
LEMMA RecordAt ==
  ASSUME NEW top, NEW t, IdleTree(top, t), NEW a \in t.T, h.nodes[a].leaf, NEW i \in 1 .. h.nodes[a].ct
  PROVE  h.nodes[a].ent[i].rec # ION_LFB_NULL
PROOF
<1>1. Store(h, top) /\ a \in DOMAIN h.nodes
  BY DEF IdleTree, Adrs
<1>2. NodeOK(h.nodes[a], DOMAIN h.nodes, top)
  BY <1>1 DEF Store, StoreBut, NodesOK
<1>3. h.nodes[a].ent[i].rec \in 1 .. top
  BY <1>2 DEF NodeOK
<1> QED BY <1>3 DEF ION_LFB_NULL

\* A lookup finds a key if and only if the tree has it.
LEMMA FindsHeld ==
  ASSUME NEW top, NEW t, IdleTree(top, t), Branches(t), NEW k \in Int
  PROVE  Lookup(k) # ION_LFB_NULL <=> k \in t.K[Root]
PROOF
<1>1. PICK x : x = CHOOSE f : IsWay(f, k)
  OBVIOUS
<1>2. Way(x, t, k)
  BY <1>1, WayIs
<1>3. Depth \in 0 .. Depth /\ IsTree(h.nodes, t)
  BY DEF IdleTree
<1>4. PICK a : a = x[Depth]
  OBVIOUS
<1>5. a \in t.T /\ h.nodes[a].leaf /\ (k \in t.K[a] <=> k \in t.K[Root])
  BY <1>2, <1>3, <1>4, WayFalls, WayEnds DEF Way
<1>6. PICK n : n = h.nodes[a]
  OBVIOUS
<1>7. IsNode(n) /\ Sorted(n) /\ t.K[a] = KeysOf(n)
  BY <1>3, <1>5, <1>6, TreeSorted DEF IsTree, InTree, LeafIn
<1>8. Lookup(k) = FindIn(n, k)
  BY <1>1, <1>4, <1>6, LookupIs
<1>9. PICK r : r = search(n, k)
  OBVIOUS
<1>10. (r.cc = 0 <=> k \in KeysOf(n)) /\ (r.cc = 0 => r.at \in 0 .. (n.ct - 1))
  BY <1>7, <1>9, SearchFinds
<1>11. CASE r.cc = 0
  <2>1. r.at + 1 \in 1 .. n.ct
    BY <1>7, <1>10, <1>11, NodeParts
  <2>2. n.ent[r.at + 1].rec # ION_LFB_NULL
    BY <2>1, <1>5, <1>6, RecordAt
  <2> QED BY <2>2, <1>5, <1>7, <1>8, <1>9, <1>10, <1>11 DEF FindIn
<1>12. CASE r.cc # 0
  BY <1>5, <1>7, <1>8, <1>9, <1>10, <1>12 DEF FindIn
<1> QED BY <1>11, <1>12

\* Between calls every key held is found.
LEMMA KeysAreFound ==
  ASSUME OddRoom, BppInv
  PROVE  KeysFound
PROOF
<1> SUFFICES ASSUME Idling, NEW k \in Keys PROVE (Lookup(k) # ION_LFB_NULL) = (held[k] # {})
  BY DEF KeysFound
<1>1. PICK top, t : IdleTree(top, t)
  BY IdleTreeIs
<1>2. IsTree(h.nodes, t) /\ Sizes(h.nodes, t.T) /\ t.K[Root] = HeldKeys(held)
  BY <1>1 DEF IdleTree
<1>3. k \in Int
  BY ParameterAssumption
<1>4. Branches(t)
  <2> SUFFICES ASSUME NEW a \in t.T, ~h.nodes[a].leaf PROVE h.nodes[a].ct > 0
    BY DEF Branches
  <2>1. Half >= 1 /\ Half \in Nat /\ MaxCt \in Nat
    BY HalfIs
  <2>2. h.nodes[a].ct \in Nat
    BY <1>2, NodeParts DEF IsTree
  <2>3. CASE a = Root
    BY <1>2, <2>2, <2>3 DEF Sizes
  <2>4. CASE a # Root
    <3>1. h.nodes[a].ct \in Half .. MaxCt
      BY <1>2, <2>4 DEF Sizes
    <3> QED BY <3>1, <2>1
  <2> QED BY <2>3, <2>4
<1>5. Lookup(k) # ION_LFB_NULL <=> k \in HeldKeys(held)
  BY <1>1, <1>2, <1>3, <1>4, FindsHeld
<1>6. k \in HeldKeys(held) <=> held[k] # {}
  BY DEF HeldKeys
<1> QED BY <1>5, <1>6

(***************************************************************************)
(* Under the same conditions a key is found between calls if and only if   *)
(* it is held: no split, merge, collapse of the root, eviction of a buffer *)
(* or reopening loses a key or leaves a deleted one behind.                *)
(***************************************************************************)
THEOREM BppKeysFound ==
  ASSUME OddRoom
  PROVE  Spec /\ []RepairsRightKey => []KeysFound
PROOF
<1>1. Spec /\ []RepairsRightKey => []BppInv
  BY TreeConsistent
<1>2. BppInv => KeysFound
  BY KeysAreFound
<1> QED BY <1>1, <1>2, PTL

\* A node is added only to as many as there were at first.
LEMMA AddsMore ==
  ASSUME OddRoom, BppInv, AddNode
  PROVE  call.iu >= call.is
PROOF
<1>1. Consistent(h, call, bag, held)
  BY DEF BppInv
<1>2. PICK top, t, P, N : top \in Nat /\ Good(h, call, held, top, t, P, N)
  BY <1>1 DEF Consistent
<1>3. call.pc = "scatter"
  BY DEF AddNode
<1>4. ScatterOK(h, call, held, top, t, P, N)
  BY <1>2, <1>3, GoodAt
<1>5. PICK pos : ScatterAt(h, call, top, t, N, pos)
  BY <1>4, ScatterAtIs
<1>6. /\ call.iu \in 0 .. 4 /\ call.gbuf.leaf \in BOOLEAN /\ N[call.buf].ct \in Nat
      /\ Amount(call, N[call.buf].ct, Len(call.gbuf.ent), call.gbuf.leaf)
  BY <1>5 DEF ScatterAt
<1>7. call.iu \in Nat
  BY <1>6
<1>8. MoreNodes(call, Len(call.gbuf.ent), call.gbuf.leaf)
  BY <1>7, AddNodeIs
<1>9. PICK oct, G, leaf : oct = N[call.buf].ct /\ G = Len(call.gbuf.ent) /\ leaf = call.gbuf.leaf
  OBVIOUS
<1>9a. oct \in Nat /\ leaf \in BOOLEAN /\ Amount(call, oct, G, leaf) /\ MoreNodes(call, G, leaf)
  BY <1>6, <1>8, <1>9
<1>10. PICK d : d = [is |-> call.is, iu |-> call.iu + 1, buf |-> call.buf, tree |-> call.tree, pkey |-> call.pkey]
  OBVIOUS
<1>11. UsesMore(call, d, 1)
  BY <1>10 DEF UsesMore
<1>12. (call.is = 0 /\ call.buf = Root) \/ (call.is = 3 /\ call.iu = 3)
  BY <1>9a, <1>11, MoreAmount
<1> QED BY <1>7, <1>12

(***************************************************************************)
(* Under the same conditions the loop of scatter adds a node only while it *)
(* has at least as many as it began with: it never adds one it has given   *)
(* up, which it would give up again.                                       *)
(***************************************************************************)
THEOREM BppScatterAdvances ==
  ASSUME OddRoom
  PROVE  Spec /\ []RepairsRightKey => ScatterAdvances
PROOF
<1>1. Spec /\ []RepairsRightKey => []BppInv
  BY TreeConsistent
<1>2. BppInv => [AddNode => call.iu >= call.is]_vars
  BY AddsMore
<1> QED BY <1>1, <1>2, PTL DEF ScatterAdvances
=============================================================================
