---------------------------- MODULE SkipListProofs ----------------------------
(***************************************************************************)
(* Theorems about the skip list, for every set of keys, values and nodes,  *)
(* every number of levels and every set of predicates.                     *)
(*                                                                         *)
(* The argument gives each node a place: the memory has the shape of a     *)
(* skip list when the nodes can be numbered so that every link leads to    *)
(* the nearest later node of its level.  Walks, descents and the cursor    *)
(* are then described by the places of the nodes they stop at.             *)
(***************************************************************************)
EXTENDS SkipList, NumberProofs

(***************************************************************************)
(* The inductive invariant.                                                *)
(***************************************************************************)
Linked == [next: [Levels -> Node \cup {Null}]]

\* The places of the nodes of memory hp: numbers that increase along the list,
\* up to some bound.
Places(hp, pos) ==
  /\ \E bound \in Nat : pos \in [DOMAIN hp -> 0 .. bound]
  /\ pos[HeadNode] = 0
  /\ \A m, n \in DOMAIN hp : pos[m] = pos[n] => m = n

\* The successor of m on level h is the nearest node after it on the level.
Nearest(hp, pos, m, h) ==
  LET s == hp[m].next[h] IN
  /\ s = Null => \A n \in OnLevel(hp, h) : pos[n] <= pos[m]
  /\ s # Null => /\ s \in OnLevel(hp, h) /\ pos[m] < pos[s]
                 /\ \A n \in OnLevel(hp, h) : pos[n] <= pos[m] \/ pos[s] <= pos[n]

\* The keys do not decrease, and a further record of a key is on the bottom
\* level only.
KeysInOrder(hp, pos) ==
  \A m, n \in DOMAIN hp \ {HeadNode} : pos[m] < pos[n] =>
    /\ hp[m].key <= hp[n].key
    /\ hp[m].key = hp[n].key => DOMAIN hp[n].next = {0}

Shape(hp, pos) ==
  /\ HeadNode \in DOMAIN hp /\ DOMAIN hp \subseteq Node \cup {HeadNode}
  /\ hp[HeadNode] \in Linked
  /\ \A n \in DOMAIN hp \ {HeadNode} : hp[n] \in Nodes
  /\ Places(hp, pos)
  /\ \A h \in Levels : \A m \in OnLevel(hp, h) : Nearest(hp, pos, m, h)
  /\ KeysInOrder(hp, pos)

Satisfies(n) == test_predicate(cursor.pred, heap[n].key)

\* Where the cursor is while no record has been deleted.
CursorPlaced(pos) ==
  intact =>
    /\ cursor.status # "undefined"
    /\ atFind \subseteq Live
    /\ \A i \in DOMAIN trail : trail[i] \in Live /\ Satisfies(trail[i])
    /\ \A i, j \in DOMAIN trail : i < j => pos[trail[i]] < pos[trail[j]]
    /\ cursor.status = "cs_cursor_initialized" =>
         /\ trail = << >>
         /\ cursor.current \in Live /\ Satisfies(cursor.current)
         /\ \A n \in atFind : Satisfies(n) => pos[cursor.current] <= pos[n]
    /\ cursor.status = "cs_cursor_active" =>
         /\ Len(trail) # 0
         /\ cursor.current # Null =>
              /\ cursor.current \in Live
              /\ \A i \in DOMAIN trail : pos[trail[i]] < pos[cursor.current]
         /\ \A n \in atFind :
              Satisfies(n) /\ (cursor.current # Null => pos[n] < pos[cursor.current])
                => \E i \in DOMAIN trail : trail[i] = n
    /\ cursor.status = "cs_end_of_results" =>
         \A n \in atFind : Satisfies(n) => \E i \in DOMAIN trail : trail[i] = n

SLInv ==
  /\ TypeOK
  /\ IsFiniteSet(DOMAIN heap)
  /\ ~Open => DOMAIN heap = {} /\ cursor.status = "none"
  /\ cursor.status = "none" => intact /\ trail = << >> /\ atFind = {}
  /\ cursor.status = "cs_cursor_initialized" => cursor.current # Null
  /\ Open => \E pos : Shape(heap, pos) /\ CursorPlaced(pos)

-----------------------------------------------------------------------------
(***************************************************************************)
(* Levels and the heights of nodes.                                        *)
(***************************************************************************)

LEMMA MaxUpTo ==
  ASSUME NEW h \in Nat
  PROVE  Max(0 .. h) = h
<1>1. 0 .. h \in SUBSET Nat /\ 0 .. h # {} /\ h \in 0 .. h /\ \A x \in 0 .. h : x <= h
  OBVIOUS
<1>2. Max(0 .. h) \in 0 .. h /\ \A x \in 0 .. h : x <= Max(0 .. h)
  BY <1>1, MaxIn
<1>3. QED
  BY <1>1, <1>2

LEMMA LevelsNumbered ==
  /\ Levels \in SUBSET Nat /\ 0 \in Levels
  /\ \A h \in Levels : h <= MaxHeight - 1 /\ \A g \in 0 .. h : g \in Levels
  BY MaxHeightAssumption DEF Levels

\* A node is on the levels from the bottom up to its height.
LEMMA NodeHeights ==
  ASSUME NEW node \in Nodes
  PROVE  /\ node.key \in Keys /\ node.key \in Int /\ node.value \in Values
         /\ \E h \in Levels : node.next \in [0 .. h -> Node \cup {Null}]
         /\ DOMAIN node = {"key", "value", "next"}
<1>1. PICK h \in Levels : node \in [key: Keys, value: Values, next: [0 .. h -> Node \cup {Null}]]
  BY DEF Nodes
<1>2. QED
  BY <1>1, KeysAssumption

-----------------------------------------------------------------------------
(***************************************************************************)
(* Memories of the shape of a skip list.                                   *)
(***************************************************************************)

LEMMA ShapeFacts ==
  ASSUME NEW hp, NEW pos, Shape(hp, pos)
  PROVE  /\ HeadNode \in DOMAIN hp /\ Null \notin DOMAIN hp
         /\ pos[HeadNode] = 0
         /\ \A n \in DOMAIN hp : pos[n] \in Nat
         /\ \A n \in DOMAIN hp \ {HeadNode} : pos[n] > 0
         /\ \A m, n \in DOMAIN hp : pos[m] = pos[n] => m = n
         /\ \A n \in DOMAIN hp \ {HeadNode} : n \in Node /\ hp[n] \in Nodes /\ hp[n].key \in Int
         /\ \A m, n \in DOMAIN hp \ {HeadNode} : pos[m] < pos[n] => hp[m].key <= hp[n].key
         /\ pos = [n \in DOMAIN hp |-> pos[n]]
<1>1. PICK bound \in Nat : pos \in [DOMAIN hp -> 0 .. bound]
  BY DEF Shape, Places
<1>2. \A n \in DOMAIN hp : pos[n] \in Nat
  BY <1>1
<1>3. HeadNode \in DOMAIN hp /\ Null \notin DOMAIN hp /\ DOMAIN hp \subseteq Node \cup {HeadNode}
  BY NodeAssumption DEF Shape
<1>4. pos[HeadNode] = 0 /\ \A m, n \in DOMAIN hp : pos[m] = pos[n] => m = n
  BY DEF Shape, Places
<1>5. \A n \in DOMAIN hp \ {HeadNode} : pos[n] > 0
  BY <1>2, <1>3, <1>4
<1>6. \A n \in DOMAIN hp \ {HeadNode} : hp[n] \in Nodes /\ hp[n].key \in Int
  BY NodeHeights DEF Shape
<1>7. \A m, n \in DOMAIN hp \ {HeadNode} : pos[m] < pos[n] => hp[m].key <= hp[n].key
  BY DEF Shape, KeysInOrder
<1>8. QED
  BY <1>1, <1>2, <1>3, <1>4, <1>5, <1>6, <1>7

LEMMA LevelFacts ==
  ASSUME NEW hp, NEW pos, Shape(hp, pos)
  PROVE  /\ \A h \in Levels : OnLevel(hp, h) \subseteq DOMAIN hp /\ HeadNode \in OnLevel(hp, h)
         /\ OnLevel(hp, 0) = DOMAIN hp
         /\ \A h \in Levels : \A g \in 0 .. h : OnLevel(hp, h) \subseteq OnLevel(hp, g)
         /\ \A n \in DOMAIN hp : \E h \in Levels : hp[n].next \in [0 .. h -> Node \cup {Null}]
<1>1. DOMAIN hp[HeadNode].next = Levels /\ hp[HeadNode].next \in [Levels -> Node \cup {Null}]
  BY DEF Shape, Linked
<1>2. HeadNode \in DOMAIN hp
  BY DEF Shape
<1>3. \A n \in DOMAIN hp : \E h \in Levels : hp[n].next \in [0 .. h -> Node \cup {Null}]
  <2> SUFFICES ASSUME NEW n \in DOMAIN hp
               PROVE  \E h \in Levels : hp[n].next \in [0 .. h -> Node \cup {Null}]
    OBVIOUS
  <2>1. CASE n = HeadNode
    <3>1. MaxHeight - 1 \in Levels /\ Levels = 0 .. (MaxHeight - 1)
      BY MaxHeightAssumption DEF Levels
    <3>2. QED
      BY <1>1, <2>1, <3>1
  <2>2. CASE n # HeadNode
    BY <2>2, NodeHeights DEF Shape
  <2>3. QED
    BY <2>1, <2>2
<1>4. \A n \in DOMAIN hp : \E h \in Levels : DOMAIN hp[n].next = 0 .. h
  BY <1>3
<1>5. \A n \in DOMAIN hp : 0 \in DOMAIN hp[n].next
  BY <1>4, LevelsNumbered
<1>6. OnLevel(hp, 0) = DOMAIN hp
  BY <1>5 DEF OnLevel
<1>7. ASSUME NEW h \in Levels, NEW g \in 0 .. h, NEW n \in OnLevel(hp, h)
      PROVE  n \in OnLevel(hp, g)
  <2>1. PICK t \in Levels : DOMAIN hp[n].next = 0 .. t
    BY <1>4 DEF OnLevel
  <2>2. h \in Nat /\ t \in Nat
    BY LevelsNumbered
  <2>3. QED
    BY <2>1, <2>2 DEF OnLevel
<1>8. \A h \in Levels : OnLevel(hp, h) \subseteq DOMAIN hp /\ HeadNode \in OnLevel(hp, h)
  BY <1>1, <1>2 DEF OnLevel
<1>9. QED
  BY <1>3, <1>6, <1>7, <1>8

\* The successor on a level, by places.
LEMMA NextIs ==
  ASSUME NEW hp, NEW pos, Shape(hp, pos), NEW h \in Levels, NEW m \in OnLevel(hp, h)
  PROVE  /\ hp[m].next[h] = Null => \A n \in OnLevel(hp, h) : pos[n] <= pos[m]
         /\ hp[m].next[h] # Null =>
              /\ hp[m].next[h] \in OnLevel(hp, h) /\ pos[m] < pos[hp[m].next[h]]
              /\ hp[m].next[h] \in DOMAIN hp \ {HeadNode}
              /\ \A n \in OnLevel(hp, h) : pos[n] <= pos[m] \/ pos[hp[m].next[h]] <= pos[n]
<1>1. Nearest(hp, pos, m, h)
  BY DEF Shape
<1>2. m \in DOMAIN hp /\ OnLevel(hp, h) \subseteq DOMAIN hp
  BY DEF OnLevel
<1>3. pos[HeadNode] = 0 /\ pos[m] \in Nat
  BY <1>2, ShapeFacts
<1>4. hp[m].next[h] # Null =>
        hp[m].next[h] \in OnLevel(hp, h) /\ hp[m].next[h] # HeadNode /\ pos[m] < pos[hp[m].next[h]]
  BY <1>1, <1>3 DEF Nearest
<1>5. QED
  BY <1>1, <1>2, <1>4 DEF Nearest

\* The nodes whose records come before some point of the list come before a place.
LEMMA CutExists ==
  ASSUME NEW hp, NEW pos, Shape(hp, pos), NEW P \in SUBSET (DOMAIN hp \ {HeadNode}),
         \A m, n \in DOMAIN hp \ {HeadNode} : n \in P /\ pos[m] < pos[n] => m \in P
  PROVE  \E c \in Nat : c > 0 /\ \A n \in DOMAIN hp \ {HeadNode} : n \in P <=> pos[n] < c
<1> DEFINE rest == (DOMAIN hp \ {HeadNode}) \ P
           D == { pos[n] : n \in rest }
<1>1. PICK bound \in Nat : pos \in [DOMAIN hp -> 0 .. bound]
  BY DEF Shape, Places
<1>2. \A n \in DOMAIN hp \ {HeadNode} : pos[n] \in Nat /\ pos[n] > 0 /\ pos[n] < bound + 1
  BY <1>1, ShapeFacts
<1>3. CASE rest = {}
  <2>1. bound + 1 \in Nat /\ bound + 1 > 0
    OBVIOUS
  <2>2. \A n \in DOMAIN hp \ {HeadNode} : n \in P <=> pos[n] < bound + 1
    BY <1>2, <1>3
  <2>3. QED
    BY <2>1, <2>2
<1>4. CASE rest # {}
  <2>1. D \in SUBSET Nat /\ D # {}
    BY <1>2, <1>4
  <2>2. PICK c \in D : \A d \in D : c <= d
    BY <2>1, LeastNatural
  <2>3. PICK r \in rest : c = pos[r]
    BY <2>2
  <2>4. ASSUME NEW n \in DOMAIN hp \ {HeadNode} PROVE n \in P <=> pos[n] < c
    <3>1. CASE n \in P
      <4>1. ~(pos[r] < pos[n]) /\ pos[r] # pos[n]
        BY <2>3, <3>1, ShapeFacts
      <4>2. QED
        BY <1>2, <2>3, <3>1, <4>1
    <3>2. CASE n \notin P
      <4>1. pos[n] \in D
        BY <3>2
      <4>2. c <= pos[n]
        BY <2>2, <4>1
      <4>3. QED
        BY <1>2, <2>3, <3>2, <4>2
    <3>3. QED
      BY <3>1, <3>2
  <2>5. c \in Nat /\ c > 0
    BY <1>2, <2>3
  <2>6. QED
    BY <2>4, <2>5
<1>5. QED
  BY <1>3, <1>4

-----------------------------------------------------------------------------
(***************************************************************************)
(* Walks.                                                                  *)
(***************************************************************************)

\* Where a walk along level h from m ends: every node of the level from there
\* up to the end is passed, and what follows the end is not.
WalkEnd(hp, pos, m, h, passed, w) ==
  /\ w \in OnLevel(hp, h) /\ pos[m] <= pos[w]
  /\ hp[w].next[h] = Null \/ hp[w].next[h] \notin passed
  /\ \A n \in OnLevel(hp, h) : pos[m] < pos[n] /\ pos[n] <= pos[w] => n \in passed

WalkGoesOn(hp, m, h, passed) == hp[m].next[h] # Null /\ hp[m].next[h] \in passed

IsWalk(g, hp, h, passed) ==
  g = [m \in OnLevel(hp, h) |-> IF WalkGoesOn(hp, m, h, passed) THEN g[hp[m].next[h]] ELSE m]

\* Every walk has one end.
LEMMA WalkEnds ==
  ASSUME NEW hp, NEW pos, Shape(hp, pos), NEW h \in Levels, NEW passed, NEW m \in OnLevel(hp, h)
  PROVE  \E w : WalkEnd(hp, pos, m, h, passed, w)
<1> DEFINE S == { n \in OnLevel(hp, h) :
                    /\ pos[m] <= pos[n]
                    /\ \A x \in OnLevel(hp, h) : pos[m] < pos[x] /\ pos[x] <= pos[n] => x \in passed }
           D == { pos[n] : n \in S }
<1>1. PICK bound \in Nat : pos \in [DOMAIN hp -> 0 .. bound]
  BY DEF Shape, Places
<1>2. \A n \in OnLevel(hp, h) : n \in DOMAIN hp /\ pos[n] \in Nat /\ pos[n] <= bound
  BY <1>1 DEF OnLevel
<1>3. m \in S
  BY <1>2
<1>4. D \in SUBSET Nat /\ D # {} /\ \A d \in D : d <= bound
  BY <1>2, <1>3
<1>5. PICK g \in D : \A d \in D : d <= g
  BY <1>4, GreatestNatural
<1>6. PICK w \in S : g = pos[w]
  BY <1>5
<1>7. ASSUME hp[w].next[h] # Null, hp[w].next[h] \in passed PROVE FALSE
  <2> DEFINE s == hp[w].next[h]
  <2>1. /\ s \in OnLevel(hp, h) /\ pos[w] < pos[s]
        /\ \A n \in OnLevel(hp, h) : pos[n] <= pos[w] \/ pos[s] <= pos[n]
    BY <1>6, <1>7, NextIs
  <2> HIDE DEF s
  <2>2. pos[m] <= pos[s]
    BY <1>2, <1>6, <2>1
  <2>3. ASSUME NEW x \in OnLevel(hp, h), pos[m] < pos[x], pos[x] <= pos[s]
        PROVE  x \in passed
    <3>1. CASE pos[x] <= pos[w]
      BY <1>6, <2>3, <3>1
    <3>2. CASE ~(pos[x] <= pos[w])
      <4>1. pos[s] <= pos[x]
        BY <2>1, <3>2
      <4>2. pos[s] = pos[x]
        BY <1>2, <2>1, <2>3, <4>1
      <4>3. s = x
        BY <1>2, <2>1, <4>2, ShapeFacts
      <4>4. QED
        BY <1>7, <4>3 DEF s
    <3>3. QED
      BY <3>1, <3>2
  <2>4. s \in S
    BY <2>1, <2>2, <2>3
  <2>5. pos[s] <= pos[w]
    BY <1>5, <1>6, <2>4
  <2>6. QED
    BY <1>2, <1>6, <2>1, <2>5
<1>8. QED
  BY <1>6, <1>7 DEF WalkEnd

LEMMA WalkEndUnique ==
  ASSUME NEW hp, NEW pos, Shape(hp, pos), NEW h \in Levels, NEW passed,
         NEW m \in OnLevel(hp, h), NEW v, NEW w,
         WalkEnd(hp, pos, m, h, passed, v), WalkEnd(hp, pos, m, h, passed, w)
  PROVE  v = w
<1>1. \A n \in OnLevel(hp, h) : n \in DOMAIN hp /\ pos[n] \in Nat
  BY ShapeFacts DEF OnLevel
<1>2. ASSUME NEW a, NEW b, WalkEnd(hp, pos, m, h, passed, a), WalkEnd(hp, pos, m, h, passed, b),
             pos[a] < pos[b]
      PROVE  FALSE
  <2>1. a \in OnLevel(hp, h) /\ b \in OnLevel(hp, h) /\ pos[m] <= pos[a]
    BY <1>2 DEF WalkEnd
  <2>2. hp[a].next[h] # Null
    BY <1>1, <1>2, <2>1, NextIs
  <2> DEFINE s == hp[a].next[h]
  <2>3. s \in OnLevel(hp, h) /\ pos[a] < pos[s] /\ pos[s] <= pos[b]
    BY <1>1, <1>2, <2>1, <2>2, NextIs
  <2>4. s \notin passed
    BY <1>2, <2>2 DEF WalkEnd
  <2> HIDE DEF s
  <2>5. pos[m] < pos[s]
    BY <1>1, <2>1, <2>3
  <2>6. s \in passed
    BY <1>2, <2>3, <2>5 DEF WalkEnd
  <2>7. QED
    BY <2>4, <2>6
<1>3. v \in OnLevel(hp, h) /\ w \in OnLevel(hp, h)
  BY DEF WalkEnd
<1>4. ~(pos[v] < pos[w]) /\ ~(pos[w] < pos[v])
  BY <1>2
<1>5. QED
  BY <1>1, <1>3, <1>4, ShapeFacts

\* The end of a walk that goes on is the end of the walk from the successor.
LEMMA WalkEndOn ==
  ASSUME NEW hp, NEW pos, Shape(hp, pos), NEW h \in Levels, NEW passed,
         NEW m \in OnLevel(hp, h), WalkGoesOn(hp, m, h, passed), NEW w,
         WalkEnd(hp, pos, hp[m].next[h], h, passed, w)
  PROVE  WalkEnd(hp, pos, m, h, passed, w)
<1> DEFINE s == hp[m].next[h]
<1>1. \A n \in OnLevel(hp, h) : n \in DOMAIN hp /\ pos[n] \in Nat
  BY ShapeFacts DEF OnLevel
<1>2. /\ s \in OnLevel(hp, h) /\ pos[m] < pos[s] /\ s \in passed
      /\ \A n \in OnLevel(hp, h) : pos[n] <= pos[m] \/ pos[s] <= pos[n]
  BY NextIs DEF WalkGoesOn
<1>3. w \in OnLevel(hp, h) /\ pos[s] <= pos[w]
  BY DEF WalkEnd
<1> HIDE DEF s
<1>4. pos[m] <= pos[w]
  BY <1>1, <1>2, <1>3
<1>5. ASSUME NEW n \in OnLevel(hp, h), pos[m] < pos[n], pos[n] <= pos[w]
      PROVE  n \in passed
  <2>1. pos[s] <= pos[n]
    BY <1>1, <1>2, <1>5
  <2>2. CASE pos[s] = pos[n]
    BY <1>1, <1>2, <2>2, ShapeFacts
  <2>3. CASE pos[s] # pos[n]
    <3>1. pos[s] < pos[n]
      BY <1>1, <1>2, <2>1, <2>3
    <3>2. QED
      BY <1>5, <3>1 DEF WalkEnd, s
  <2>4. QED
    BY <2>2, <2>3
<1>6. QED
  BY <1>3, <1>4, <1>5 DEF WalkEnd

LEMMA WalkEndHere ==
  ASSUME NEW hp, NEW pos, Shape(hp, pos), NEW h \in Levels, NEW passed,
         NEW m \in OnLevel(hp, h), ~WalkGoesOn(hp, m, h, passed)
  PROVE  WalkEnd(hp, pos, m, h, passed, m)
<1>1. \A n \in OnLevel(hp, h) : n \in DOMAIN hp /\ pos[n] \in Nat
  BY ShapeFacts DEF OnLevel
<1>2. QED
  BY <1>1 DEF WalkEnd, WalkGoesOn

\* The recursive definition of a walk has a solution.
LEMMA WalkExists ==
  ASSUME NEW hp, NEW pos, Shape(hp, pos), NEW h \in Levels, NEW passed
  PROVE  \E g : IsWalk(g, hp, h, passed)
<1> DEFINE g == [m \in OnLevel(hp, h) |-> CHOOSE w : WalkEnd(hp, pos, m, h, passed, w)]
<1>1. \A m \in OnLevel(hp, h) : WalkEnd(hp, pos, m, h, passed, g[m])
  BY WalkEnds
<1>2. g = [m \in OnLevel(hp, h) |-> g[m]]
  OBVIOUS
<1> HIDE DEF g
<1>3. ASSUME NEW m \in OnLevel(hp, h)
      PROVE  g[m] = IF WalkGoesOn(hp, m, h, passed) THEN g[hp[m].next[h]] ELSE m
  <2>1. CASE WalkGoesOn(hp, m, h, passed)
    <3>1. hp[m].next[h] \in OnLevel(hp, h)
      BY <2>1, NextIs DEF WalkGoesOn
    <3>2. WalkEnd(hp, pos, m, h, passed, g[hp[m].next[h]])
      BY <1>1, <2>1, <3>1, WalkEndOn
    <3>3. QED
      BY <1>1, <2>1, <3>2, WalkEndUnique
  <2>2. CASE ~WalkGoesOn(hp, m, h, passed)
    BY <1>1, <2>2, WalkEndHere, WalkEndUnique
  <2>3. QED
    BY <2>1, <2>2
<1>4. IsWalk(g, hp, h, passed)
  BY <1>2, <1>3 DEF IsWalk
<1>5. QED
  BY <1>4

LEMMA WalkIs ==
  ASSUME NEW hp, NEW pos, Shape(hp, pos), NEW h \in Levels, NEW passed, NEW n \in OnLevel(hp, h)
  PROVE  WalkEnd(hp, pos, n, h, passed, Walk(hp, n, h, passed))
<1> DEFINE walk == CHOOSE g : IsWalk(g, hp, h, passed)
<1>1. IsWalk(walk, hp, h, passed)
  BY WalkExists
<1>2. Walk(hp, n, h, passed) = walk[n]
  BY DEF Walk, IsWalk, WalkGoesOn
<1> HIDE DEF walk
<1>3. \A m \in OnLevel(hp, h) :
        walk[m] = IF WalkGoesOn(hp, m, h, passed) THEN walk[hp[m].next[h]] ELSE m
  BY <1>1 DEF IsWalk
<1> DEFINE bad == { m \in OnLevel(hp, h) : ~WalkEnd(hp, pos, m, h, passed, walk[m]) }
           D == { pos[m] : m \in bad }
<1>4. PICK bound \in Nat : pos \in [DOMAIN hp -> 0 .. bound]
  BY DEF Shape, Places
<1>5. \A m \in OnLevel(hp, h) : m \in DOMAIN hp /\ pos[m] \in Nat /\ pos[m] <= bound
  BY <1>4 DEF OnLevel
<1>6. ASSUME bad # {} PROVE FALSE
  <2>1. D \in SUBSET Nat /\ D # {} /\ \A d \in D : d <= bound
    BY <1>5, <1>6
  <2>2. PICK d \in D : \A f \in D : f <= d
    BY <2>1, GreatestNatural
  <2>3. PICK m \in bad : d = pos[m]
    BY <2>2
  <2>4. CASE WalkGoesOn(hp, m, h, passed)
    <3>1. hp[m].next[h] \in OnLevel(hp, h) /\ pos[m] < pos[hp[m].next[h]]
      BY <2>3, <2>4, NextIs DEF WalkGoesOn
    <3>2. hp[m].next[h] \notin bad
      BY <1>5, <2>2, <2>3, <3>1
    <3>3. WalkEnd(hp, pos, hp[m].next[h], h, passed, walk[m])
      BY <1>3, <2>3, <2>4, <3>1, <3>2
    <3>4. QED
      BY <2>3, <2>4, <3>3, WalkEndOn
  <2>5. CASE ~WalkGoesOn(hp, m, h, passed)
    BY <1>3, <2>3, <2>5, WalkEndHere
  <2>6. QED
    BY <2>4, <2>5
<1>7. QED
  BY <1>2, <1>6

-----------------------------------------------------------------------------
(***************************************************************************)
(* Descents.                                                               *)
(***************************************************************************)

\* w is the last node of level h before place c.
LastBefore(hp, pos, w, h, c) ==
  /\ w \in OnLevel(hp, h) /\ pos[w] < c
  /\ \A n \in OnLevel(hp, h) : pos[n] < c => pos[n] <= pos[w]

\* After place b, the walks along level h pass the nodes before place c, and
\* cannot pass a node after it without one that is not to be passed.
CutAt(hp, pos, h, passed, b, c) ==
  \A n \in OnLevel(hp, h) : b < pos[n] =>
    /\ pos[n] < c => n \in passed
    /\ c <= pos[n] =>
         \E y \in OnLevel(hp, h) : c <= pos[y] /\ pos[y] <= pos[n] /\ y \notin passed

LEMMA LastBeforeUnique ==
  ASSUME NEW hp, NEW pos, Shape(hp, pos), NEW h \in Levels, NEW c \in Nat,
         NEW v, LastBefore(hp, pos, v, h, c), NEW w, LastBefore(hp, pos, w, h, c)
  PROVE  v = w
<1>1. v \in DOMAIN hp /\ w \in DOMAIN hp /\ pos[v] <= pos[w] /\ pos[w] <= pos[v]
  BY DEF LastBefore, OnLevel
<1>2. pos[v] = pos[w]
  BY <1>1, ShapeFacts
<1>3. QED
  BY <1>1, <1>2, ShapeFacts

\* What follows the last node before a place is the first one from it on.
LEMMA AfterLastBefore ==
  ASSUME NEW hp, NEW pos, Shape(hp, pos), NEW h \in Levels, NEW c \in Nat,
         NEW w, LastBefore(hp, pos, w, h, c)
  PROVE  /\ hp[w].next[h] = Null => \A n \in OnLevel(hp, h) : pos[n] < c
         /\ hp[w].next[h] # Null =>
              /\ hp[w].next[h] \in OnLevel(hp, h) /\ hp[w].next[h] \in DOMAIN hp \ {HeadNode}
              /\ c <= pos[hp[w].next[h]]
              /\ \A n \in OnLevel(hp, h) : c <= pos[n] => pos[hp[w].next[h]] <= pos[n]
<1> DEFINE s == hp[w].next[h]
<1>1. \A n \in OnLevel(hp, h) : n \in DOMAIN hp /\ pos[n] \in Nat
  BY ShapeFacts DEF OnLevel
<1>2. w \in OnLevel(hp, h) /\ pos[w] < c /\ \A n \in OnLevel(hp, h) : pos[n] < c => pos[n] <= pos[w]
  BY DEF LastBefore
<1>3. CASE s = Null
  <2>1. \A n \in OnLevel(hp, h) : pos[n] <= pos[w]
    BY <1>2, <1>3, NextIs
  <2>2. QED
    BY <1>1, <1>2, <1>3, <2>1
<1>4. CASE s # Null
  <2>1. /\ s \in OnLevel(hp, h) /\ s \in DOMAIN hp \ {HeadNode} /\ pos[w] < pos[s]
        /\ \A n \in OnLevel(hp, h) : pos[n] <= pos[w] \/ pos[s] <= pos[n]
    BY <1>2, <1>4, NextIs
  <2> HIDE DEF s
  <2>2. c <= pos[s]
    <3>1. ~(pos[s] < c)
      BY <1>1, <1>2, <2>1
    <3>2. QED
      BY <1>1, <2>1, <3>1
  <2>3. \A n \in OnLevel(hp, h) : c <= pos[n] => pos[s] <= pos[n]
    BY <1>1, <1>2, <2>1
  <2>4. QED
    BY <1>4, <2>1, <2>2, <2>3 DEF s
<1>5. QED
  BY <1>3, <1>4

LEMMA WalkToCut ==
  ASSUME NEW hp, NEW pos, Shape(hp, pos), NEW h \in Levels, NEW passed, NEW c \in Nat,
         NEW m \in OnLevel(hp, h), pos[m] < c, CutAt(hp, pos, h, passed, pos[m], c)
  PROVE  LastBefore(hp, pos, Walk(hp, m, h, passed), h, c)
<1> DEFINE w == Walk(hp, m, h, passed)
           s == hp[w].next[h]
<1>1. \A n \in OnLevel(hp, h) : n \in DOMAIN hp /\ pos[n] \in Nat
  BY ShapeFacts DEF OnLevel
<1>2. WalkEnd(hp, pos, m, h, passed, w)
  BY WalkIs
<1> HIDE DEF w
<1>3. w \in OnLevel(hp, h) /\ pos[m] <= pos[w] /\ (s = Null \/ s \notin passed)
  BY <1>2 DEF WalkEnd
<1>4. pos[w] < c
  <2> SUFFICES ASSUME ~(pos[w] < c) PROVE FALSE
    OBVIOUS
  <2>1. pos[m] < pos[w] /\ c <= pos[w]
    BY <1>1, <1>3
  <2>2. PICK y \in OnLevel(hp, h) : c <= pos[y] /\ pos[y] <= pos[w] /\ y \notin passed
    BY <1>3, <2>1 DEF CutAt
  <2>3. pos[m] < pos[y]
    BY <1>1, <2>2
  <2>4. y \in passed
    BY <1>2, <2>2, <2>3 DEF WalkEnd
  <2>5. QED
    BY <2>2, <2>4
<1>5. ASSUME NEW n \in OnLevel(hp, h), pos[n] < c PROVE pos[n] <= pos[w]
  <2>1. CASE s = Null
    BY <1>3, <2>1, NextIs
  <2>2. CASE s # Null
    <3>1. /\ s \in OnLevel(hp, h) /\ pos[w] < pos[s]
          /\ pos[n] <= pos[w] \/ pos[s] <= pos[n]
      BY <1>3, <2>2, NextIs
    <3>2. s \notin passed
      BY <1>3, <2>2
    <3> HIDE DEF s
    <3>3. pos[m] < pos[s]
      BY <1>1, <1>3, <3>1
    <3>4. ~(pos[s] < c)
      BY <3>1, <3>2, <3>3 DEF CutAt
    <3>5. QED
      BY <1>1, <1>3, <1>5, <3>1, <3>4
  <2>3. QED
    BY <2>1, <2>2
<1>6. QED
  BY <1>3, <1>4, <1>5 DEF LastBefore, w

IsStops(g, hp, from, low, top, passed) ==
  g = [h \in low .. top |-> Walk(hp, IF h = top THEN from ELSE g[h + 1], h, passed)]

\* The recursive definition of the stops has a solution.
LEMMA StopsExist ==
  ASSUME NEW hp, NEW from, NEW top \in Nat, NEW passed
  PROVE  \E g : IsStops(g, hp, from, 0, top, passed)
<1> DEFINE D == { i \in Nat : i <= top /\ ~ \E g : IsStops(g, hp, from, top - i, top, passed) }
<1>1. ASSUME D # {} PROVE FALSE
  <2>1. PICK i \in D : \A j \in D : i <= j
    BY <1>1, LeastNatural
  <2>2. CASE i = 0
    <3> DEFINE g == [h \in top .. top |-> Walk(hp, from, h, passed)]
    <3>1. \A h \in top .. top : Walk(hp, from, h, passed)
                                  = Walk(hp, IF h = top THEN from ELSE g[h + 1], h, passed)
      OBVIOUS
    <3>2. g = [h \in top .. top |-> Walk(hp, IF h = top THEN from ELSE g[h + 1], h, passed)]
      BY <3>1
    <3>3. top - i = top
      BY <2>2
    <3> HIDE DEF g
    <3>4. IsStops(g, hp, from, top - i, top, passed)
      BY <3>2, <3>3 DEF IsStops
    <3>5. QED
      BY <2>1, <3>4
  <2>3. CASE i # 0
    <3>1. i - 1 \in Nat /\ i - 1 \notin D /\ i - 1 <= top
      BY <2>1, <2>3
    <3>2. PICK f : IsStops(f, hp, from, top - (i - 1), top, passed)
      BY <3>1
    <3> DEFINE l == top - i
               g == [h \in l .. top |-> IF h = l THEN Walk(hp, f[l + 1], l, passed) ELSE f[h]]
    <3>3. l \in Nat /\ l < top /\ top - (i - 1) = l + 1
      BY <2>1, <2>3
    <3> HIDE DEF l
    <3>4. \A h \in (l + 1) .. top : f[h] = Walk(hp, IF h = top THEN from ELSE f[h + 1], h, passed)
      BY <3>2, <3>3 DEF IsStops
    <3>5. \A h \in (l + 1) .. top : g[h] = f[h]
      BY <3>3
    <3>6. g[l] = Walk(hp, f[l + 1], l, passed)
      BY <3>3
    <3>7. g = [h \in l .. top |-> g[h]]
      OBVIOUS
    <3> HIDE DEF g
    <3>8. ASSUME NEW h \in l .. top
          PROVE  g[h] = Walk(hp, IF h = top THEN from ELSE g[h + 1], h, passed)
      <4>1. CASE h = l
        <5>1. h # top /\ h + 1 \in (l + 1) .. top
          BY <3>3, <4>1
        <5>2. g[h + 1] = f[h + 1]
          BY <3>5, <5>1
        <5>3. QED
          BY <3>6, <4>1, <5>1, <5>2
      <4>2. CASE h # l
        <5>1. h \in (l + 1) .. top /\ (h # top => h + 1 \in (l + 1) .. top)
          BY <3>3, <4>2
        <5>2. QED
          BY <3>4, <3>5, <5>1
      <4>3. QED
        BY <4>1, <4>2
    <3>9. IsStops(g, hp, from, l, top, passed)
      BY <3>7, <3>8 DEF IsStops
    <3>10. QED
      BY <2>1, <3>9 DEF l
  <2>4. QED
    BY <2>2, <2>3
<1>2. top \notin D
  BY <1>1
<1>3. QED
  BY <1>2

LEMMA StopsAre ==
  ASSUME NEW hp, NEW from, NEW top \in Nat, NEW passed
  PROVE  IsStops(Stops(hp, from, top, passed), hp, from, 0, top, passed)
<1>1. Stops(hp, from, top, passed) = CHOOSE g : IsStops(g, hp, from, 0, top, passed)
  BY DEF Stops, IsStops
<1>2. QED
  BY <1>1, StopsExist

\* On each level the walk stops at the last node before the cut.
LEMMA StopsAtCut ==
  ASSUME NEW hp, NEW pos, Shape(hp, pos), NEW top \in Levels, NEW passed, NEW c \in Nat,
         NEW from \in OnLevel(hp, top), pos[from] < c,
         \A h \in 0 .. top : CutAt(hp, pos, h, passed, pos[from], c)
  PROVE  \A h \in 0 .. top : LastBefore(hp, pos, Stops(hp, from, top, passed)[h], h, c)
<1> DEFINE stop == Stops(hp, from, top, passed)
           bad == { h \in 0 .. top : ~LastBefore(hp, pos, stop[h], h, c) }
<1>1. top \in Nat /\ 0 .. top \subseteq Levels /\ 0 .. top \subseteq Nat
  BY LevelsNumbered
<1>2. \A h \in 0 .. top : stop[h] = Walk(hp, IF h = top THEN from ELSE stop[h + 1], h, passed)
  <2>1. IsStops(stop, hp, from, 0, top, passed)
    BY <1>1, StopsAre
  <2> HIDE DEF stop
  <2>2. QED
    BY <2>1 DEF IsStops
<1> HIDE DEF stop
<1>3. \A h \in 0 .. top : from \in OnLevel(hp, h)
  BY <1>1, LevelFacts
<1>4. \A h \in 0 .. top : \A n \in OnLevel(hp, h) : n \in DOMAIN hp /\ pos[n] \in Nat
  BY ShapeFacts DEF OnLevel
<1>5. ASSUME bad # {} PROVE FALSE
  <2>1. bad \in SUBSET Nat /\ \A h \in bad : h <= top
    BY <1>1
  <2>2. PICK h \in bad : \A g \in bad : g <= h
    BY <1>1, <1>5, <2>1, GreatestNatural
  <2>3. h \in Levels /\ h \in 0 .. top
    BY <1>1
  <2>4. CASE h = top
    <3>1. stop[h] = Walk(hp, from, h, passed) /\ from \in OnLevel(hp, h)
      BY <1>2, <2>3, <2>4
    <3>2. QED
      BY <2>2, <2>3, <3>1, WalkToCut
  <2>5. CASE h # top
    <3>1. h + 1 \in 0 .. top /\ h + 1 \notin bad /\ h \in 0 .. (h + 1) /\ h + 1 \in Levels
      BY <1>1, <2>1, <2>2, <2>5
    <3> DEFINE m == stop[h + 1]
    <3>2. LastBefore(hp, pos, m, h + 1, c) /\ stop[h] = Walk(hp, m, h, passed)
      BY <1>2, <2>3, <2>5, <3>1
    <3> HIDE DEF m
    <3>3. m \in OnLevel(hp, h) /\ pos[m] < c
      BY <3>1, <3>2, LevelFacts DEF LastBefore
    <3>4. pos[from] <= pos[m]
      BY <1>3, <3>1, <3>2 DEF LastBefore
    <3>5. CutAt(hp, pos, h, passed, pos[m], c)
      <4>1. \A n \in OnLevel(hp, h) : pos[m] < pos[n] => pos[from] < pos[n]
        BY <1>3, <1>4, <2>3, <3>3, <3>4
      <4>2. QED
        BY <2>3, <4>1 DEF CutAt
    <3>6. QED
      BY <2>2, <2>3, <3>2, <3>3, <3>5, WalkToCut
  <2>6. QED
    BY <2>4, <2>5
<1>6. QED
  BY <1>5 DEF stop

\* A descent past a first part of the list stops at its end on every level.
LEMMA DescentAtCut ==
  ASSUME NEW hp, NEW pos, Shape(hp, pos), NEW P \in SUBSET (DOMAIN hp \ {HeadNode}),
         NEW c \in Nat, c > 0, \A n \in DOMAIN hp \ {HeadNode} : n \in P <=> pos[n] < c
  PROVE  /\ Descent(hp, P) = [h \in Levels |-> Descent(hp, P)[h]]
         /\ \A h \in Levels : LastBefore(hp, pos, Descent(hp, P)[h], h, c)
<1> DEFINE top == MaxHeight - 1
<1>1. top \in Levels /\ top \in Nat /\ Levels = 0 .. top
  BY MaxHeightAssumption DEF Levels
<1> HIDE DEF top
<1>2. HeadNode \in OnLevel(hp, top) /\ pos[HeadNode] < c
  BY <1>1, LevelFacts, ShapeFacts
<1>3. ASSUME NEW h \in 0 .. top PROVE CutAt(hp, pos, h, P, pos[HeadNode], c)
  <2> SUFFICES ASSUME NEW n \in OnLevel(hp, h), pos[HeadNode] < pos[n]
               PROVE  /\ pos[n] < c => n \in P
                      /\ c <= pos[n] =>
                           \E y \in OnLevel(hp, h) : c <= pos[y] /\ pos[y] <= pos[n] /\ y \notin P
    BY DEF CutAt
  <2>1. n \in DOMAIN hp \ {HeadNode} /\ pos[n] \in Nat
    BY ShapeFacts DEF OnLevel
  <2>2. c <= pos[n] => n \notin P /\ pos[n] <= pos[n]
    BY <2>1
  <2>3. QED
    BY <2>1, <2>2
<1>4. \A h \in 0 .. top : LastBefore(hp, pos, Stops(hp, HeadNode, top, P)[h], h, c)
  BY <1>1, <1>2, <1>3, StopsAtCut
<1>5. Stops(hp, HeadNode, top, P) = [h \in 0 .. top |-> Stops(hp, HeadNode, top, P)[h]]
  <2> DEFINE stop == Stops(hp, HeadNode, top, P)
  <2>1. IsStops(stop, hp, HeadNode, 0, top, P)
    BY <1>1, StopsAre
  <2> HIDE DEF stop
  <2>2. stop = [h \in 0 .. top |-> stop[h]]
    BY <2>1 DEF IsStops
  <2>3. QED
    BY <2>2 DEF stop
<1>6. QED
  BY <1>1, <1>4, <1>5 DEF Descent, top

-----------------------------------------------------------------------------
(***************************************************************************)
(* What sl_find_node finds.                                                *)
(***************************************************************************)

KeyBlock(hp, k) == { n \in DOMAIN hp \ {HeadNode} : hp[n].key = k }

\* The nodes before key k are those before place c.
KeyCut(hp, pos, k, c) == \A n \in DOMAIN hp \ {HeadNode} : hp[n].key < k <=> pos[n] < c

\* n is the first node of the block of k, or the last node before k.
IsFound(hp, pos, k, n) ==
  IF KeyBlock(hp, k) # {}
    THEN n \in KeyBlock(hp, k) /\ \A m \in KeyBlock(hp, k) : pos[n] <= pos[m]
    ELSE /\ n \in DOMAIN hp /\ (n # HeadNode => hp[n].key < k)
         /\ \A m \in DOMAIN hp \ {HeadNode} : hp[m].key < k => pos[m] <= pos[n]

LEMMA BeforeAre ==
  ASSUME NEW hp, NEW pos, Shape(hp, pos), NEW k \in Int
  PROVE  \E c \in Nat : /\ c > 0 /\ KeyCut(hp, pos, k, c)
                        /\ \A h \in Levels : LastBefore(hp, pos, Before(hp, k)[h], h, c)
<1> DEFINE P == { n \in DOMAIN hp \ {HeadNode} : hp[n].key < k }
<1>1. P \in SUBSET (DOMAIN hp \ {HeadNode})
  OBVIOUS
<1>2. \A m, n \in DOMAIN hp \ {HeadNode} : n \in P /\ pos[m] < pos[n] => m \in P
  <2> SUFFICES ASSUME NEW m \in DOMAIN hp \ {HeadNode}, NEW n \in DOMAIN hp \ {HeadNode},
                      n \in P, pos[m] < pos[n]
               PROVE  m \in P
    OBVIOUS
  <2>1. hp[m].key <= hp[n].key /\ hp[m].key \in Int /\ hp[n].key \in Int
    BY ShapeFacts
  <2>2. QED
    BY <2>1
<1>3. Before(hp, k) = Descent(hp, P)
  BY DEF Before
<1>4. \A n \in DOMAIN hp \ {HeadNode} : n \in P <=> hp[n].key < k
  OBVIOUS
<1> HIDE DEF P
<1>5. PICK c \in Nat : c > 0 /\ \A n \in DOMAIN hp \ {HeadNode} : n \in P <=> pos[n] < c
  BY <1>1, <1>2, CutExists
<1>6. \A h \in Levels : LastBefore(hp, pos, Descent(hp, P)[h], h, c)
  BY <1>1, <1>5, DescentAtCut
<1>7. QED
  BY <1>3, <1>4, <1>5, <1>6 DEF KeyCut

LEMMA FirstOfBlock ==
  ASSUME NEW hp, NEW pos, Shape(hp, pos), NEW k, KeyBlock(hp, k) # {}
  PROVE  \E b \in KeyBlock(hp, k) : \A m \in KeyBlock(hp, k) : pos[b] <= pos[m]
<1> DEFINE D == { pos[m] : m \in KeyBlock(hp, k) }
<1>1. D \in SUBSET Nat /\ D # {}
  BY ShapeFacts DEF KeyBlock
<1>2. PICK d \in D : \A e \in D : d <= e
  BY <1>1, LeastNatural
<1>3. QED
  BY <1>2

\* The descent meets the first node of the block on every level this node is
\* on, and no other node of the block.
LEMMA HitsAre ==
  ASSUME NEW hp, NEW pos, Shape(hp, pos), NEW k \in Int, NEW at, NEW c \in Nat, c > 0,
         KeyCut(hp, pos, k, c), \A h \in Levels : LastBefore(hp, pos, at[h], h, c)
  PROVE  /\ KeyBlock(hp, k) = {} => HitLevels(hp, k, at) = {}
         /\ \A b \in KeyBlock(hp, k) :
              (\A m \in KeyBlock(hp, k) : pos[b] <= pos[m]) =>
                /\ c <= pos[b]
                /\ HitLevels(hp, k, at) = DOMAIN hp[b].next
                /\ \A h \in DOMAIN hp[b].next : h \in Levels /\ hp[at[h]].next[h] = b
<1>1. \A n \in DOMAIN hp \ {HeadNode} : pos[n] \in Nat /\ pos[n] > 0 /\ hp[n].key \in Int
  BY ShapeFacts
<1>2. \A h \in Levels : OnLevel(hp, h) \subseteq DOMAIN hp
  BY DEF OnLevel
<1>3. ASSUME KeyBlock(hp, k) = {} PROVE HitLevels(hp, k, at) = {}
  <2>1. \A h \in Levels : hp[at[h]].next[h] # Null => hp[at[h]].next[h] \in DOMAIN hp \ {HeadNode}
    BY AfterLastBefore
  <2>2. QED
    BY <1>3, <2>1 DEF HitLevels, KeyBlock
<1>4. ASSUME NEW b \in KeyBlock(hp, k), \A m \in KeyBlock(hp, k) : pos[b] <= pos[m]
      PROVE  /\ c <= pos[b]
             /\ HitLevels(hp, k, at) = DOMAIN hp[b].next
             /\ \A h \in DOMAIN hp[b].next : h \in Levels /\ hp[at[h]].next[h] = b
  <2>1. b \in DOMAIN hp \ {HeadNode} /\ hp[b].key = k
    BY DEF KeyBlock
  <2>2. c <= pos[b]
    BY <1>1, <2>1 DEF KeyCut
  <2>3. ASSUME NEW n \in DOMAIN hp \ {HeadNode}, c <= pos[n] PROVE pos[b] <= pos[n]
    <3> SUFFICES ASSUME pos[n] < pos[b] PROVE FALSE
      BY <1>1, <2>1
    <3>1. hp[n].key <= k
      BY <2>1, ShapeFacts
    <3>2. ~(hp[n].key < k)
      BY <1>1, <2>3 DEF KeyCut
    <3>3. hp[n].key = k
      BY <1>1, <3>1, <3>2
    <3>4. pos[b] <= pos[n]
      BY <1>4, <3>3 DEF KeyBlock
    <3>5. QED
      BY <1>1, <2>1, <3>4
  <2>4. ASSUME NEW h \in Levels, b \in OnLevel(hp, h) PROVE hp[at[h]].next[h] = b
    <3> DEFINE s == hp[at[h]].next[h]
    <3>1. /\ s = Null => \A n \in OnLevel(hp, h) : pos[n] < c
          /\ s # Null =>
              /\ s \in OnLevel(hp, h) /\ s \in DOMAIN hp \ {HeadNode} /\ c <= pos[s]
              /\ \A n \in OnLevel(hp, h) : c <= pos[n] => pos[s] <= pos[n]
      BY AfterLastBefore
    <3> HIDE DEF s
    <3>2. s # Null
      BY <1>1, <2>1, <2>2, <2>4, <3>1
    <3>3. pos[s] <= pos[b] /\ pos[b] <= pos[s] /\ s \in DOMAIN hp \ {HeadNode}
      BY <2>2, <2>3, <2>4, <3>1, <3>2
    <3>4. pos[s] = pos[b]
      BY <1>1, <2>1, <3>3
    <3>5. QED
      BY <2>1, <3>3, <3>4, ShapeFacts DEF s
  <2>5. \A h \in DOMAIN hp[b].next : h \in Levels
    <3>1. PICK t \in Levels : DOMAIN hp[b].next = 0 .. t
      BY <2>1, LevelFacts
    <3>2. QED
      BY <3>1, LevelsNumbered
  <2>6. \A h \in DOMAIN hp[b].next : b \in OnLevel(hp, h)
    BY <2>1 DEF OnLevel
  <2>7. ASSUME NEW h \in HitLevels(hp, k, at) PROVE h \in DOMAIN hp[b].next
    <3> DEFINE s == hp[at[h]].next[h]
    <3>1. h \in Levels /\ s # Null /\ hp[s].key = k
      BY DEF HitLevels
    <3>2. s \in OnLevel(hp, h) /\ s \in DOMAIN hp \ {HeadNode}
      BY <3>1, AfterLastBefore
    <3> HIDE DEF s
    <3>3. CASE s = b
      BY <3>2, <3>3 DEF OnLevel
    <3>4. CASE s # b
      <4>1. s \in KeyBlock(hp, k)
        BY <3>1, <3>2 DEF KeyBlock
      <4>2. pos[b] < pos[s]
        <5>1. pos[b] <= pos[s] /\ pos[b] # pos[s]
          BY <1>4, <2>1, <3>2, <3>4, <4>1, ShapeFacts
        <5>2. QED
          BY <1>1, <2>1, <3>2, <5>1
      <4>3. DOMAIN hp[s].next = {0}
        BY <2>1, <3>1, <3>2, <4>2 DEF Shape, KeysInOrder
      <4>4. h = 0
        BY <3>2, <4>3 DEF OnLevel
      <4>5. b \in OnLevel(hp, 0)
        BY <2>1, LevelFacts
      <4>6. QED
        BY <4>4, <4>5 DEF OnLevel
    <3>5. QED
      BY <3>3, <3>4
  <2>8. ASSUME NEW h \in DOMAIN hp[b].next PROVE h \in HitLevels(hp, k, at)
    <3>1. h \in Levels /\ hp[at[h]].next[h] = b
      BY <2>4, <2>5, <2>6
    <3>2. b # Null
      BY <2>1, ShapeFacts
    <3>3. QED
      BY <2>1, <3>1, <3>2 DEF HitLevels
  <2>9. QED
    BY <2>2, <2>4, <2>5, <2>6, <2>7, <2>8
<1>5. QED
  BY <1>3, <1>4

\* The levels of a node are numbered up to its height.
LEMMA HeightIs ==
  ASSUME NEW hp, NEW pos, Shape(hp, pos), NEW n \in DOMAIN hp
  PROVE  /\ Max(DOMAIN hp[n].next) \in Levels
         /\ DOMAIN hp[n].next = 0 .. Max(DOMAIN hp[n].next)
<1>1. PICK t \in Levels : DOMAIN hp[n].next = 0 .. t
  BY LevelFacts
<1>2. Max(0 .. t) = t
  BY LevelsNumbered, MaxUpTo
<1>3. QED
  BY <1>1, <1>2

LEMMA FindNode ==
  ASSUME NEW hp, NEW pos, Shape(hp, pos), NEW k \in Int
  PROVE  IsFound(hp, pos, k, sl_find_node(hp, k))
<1> DEFINE at == Before(hp, k)
           hits == HitLevels(hp, k, at)
<1>1. PICK c \in Nat : /\ c > 0 /\ KeyCut(hp, pos, k, c)
                       /\ \A h \in Levels : LastBefore(hp, pos, at[h], h, c)
  BY BeforeAre
<1>2. sl_find_node(hp, k) = IF hits = {} THEN at[0] ELSE hp[at[Max(hits)]].next[Max(hits)]
  BY DEF sl_find_node
<1> HIDE DEF at
<1>3. CASE KeyBlock(hp, k) = {}
  <2>1. sl_find_node(hp, k) = at[0]
    BY <1>1, <1>2, <1>3, HitsAre
  <2>2. LastBefore(hp, pos, at[0], 0, c)
    BY <1>1, LevelsNumbered
  <2>3. at[0] \in DOMAIN hp /\ pos[at[0]] < c /\ \A n \in DOMAIN hp : pos[n] < c => pos[n] <= pos[at[0]]
    BY <2>2, LevelFacts DEF LastBefore
  <2>4. QED
    BY <1>1, <1>3, <2>1, <2>3 DEF IsFound, KeyCut
<1>4. CASE KeyBlock(hp, k) # {}
  <2>1. PICK b \in KeyBlock(hp, k) : \A m \in KeyBlock(hp, k) : pos[b] <= pos[m]
    BY <1>4, FirstOfBlock
  <2>2. hits = DOMAIN hp[b].next /\ \A h \in DOMAIN hp[b].next : hp[at[h]].next[h] = b
    BY <1>1, <2>1, HitsAre
  <2>3. Max(hits) \in hits
    <3>1. b \in DOMAIN hp
      BY DEF KeyBlock
    <3>2. Max(DOMAIN hp[b].next) \in Nat /\ DOMAIN hp[b].next = 0 .. Max(DOMAIN hp[b].next)
      BY <3>1, HeightIs, LevelsNumbered
    <3>3. QED
      BY <2>2, <3>2
  <2>4. sl_find_node(hp, k) = b
    BY <1>2, <2>2, <2>3
  <2>5. QED
    BY <1>4, <2>1, <2>4 DEF IsFound
<1>5. QED
  BY <1>3, <1>4

-----------------------------------------------------------------------------
(***************************************************************************)
(* A node that is linked in.                                               *)
(***************************************************************************)

Redirected(node, links) == [node EXCEPT !.next = links]

\* A node whose links change keeps its key and its value.
LEMMA RedirectedNode ==
  ASSUME NEW node \in Nodes, NEW h \in Levels, DOMAIN node.next = 0 .. h,
         NEW links \in [0 .. h -> Node \cup {Null}]
  PROVE  /\ Redirected(node, links) \in Nodes
         /\ Redirected(node, links).next = links
         /\ Redirected(node, links).key = node.key
         /\ Redirected(node, links).value = node.value
<1>1. PICK t \in Levels : node \in [key: Keys, value: Values, next: [0 .. t -> Node \cup {Null}]]
  BY DEF Nodes
<1>2. node = [key |-> node.key, value |-> node.value, next |-> node.next]
  BY <1>1
<1>3. Redirected(node, links) = [key |-> node.key, value |-> node.value, next |-> links]
  BY <1>2 DEF Redirected
<1>4. node.key \in Keys /\ node.value \in Values
  BY <1>1
<1>5. Redirected(node, links) \in [key: Keys, value: Values, next: [0 .. h -> Node \cup {Null}]]
  BY <1>3, <1>4
<1>6. Redirected(node, links) \in Nodes
  BY <1>5 DEF Nodes
<1>7. QED
  BY <1>3, <1>6

LEMMA RedirectedHead ==
  ASSUME NEW node \in Linked, NEW links \in [Levels -> Node \cup {Null}]
  PROVE  Redirected(node, links) \in Linked /\ Redirected(node, links).next = links
<1>1. node = [next |-> node.next]
  BY DEF Linked
<1>2. Redirected(node, links) = [next |-> links]
  BY <1>1 DEF Redirected
<1>3. QED
  BY <1>2 DEF Linked

\* Other links of the same levels, in all nodes of a memory.
LEMMA RedirectedMemory ==
  ASSUME NEW hp, NEW pos, Shape(hp, pos), NEW m \in DOMAIN hp,
         NEW links \in [DOMAIN hp[m].next -> Node \cup {Null}]
  PROVE  /\ Redirected(hp[m], links).next = links
         /\ m = HeadNode => Redirected(hp[m], links) \in Linked
         /\ m # HeadNode => /\ Redirected(hp[m], links) \in Nodes
                            /\ Redirected(hp[m], links).key = hp[m].key
                            /\ Redirected(hp[m], links).value = hp[m].value
<1>1. CASE m = HeadNode
  <2>1. hp[m] \in Linked /\ DOMAIN hp[m].next = Levels
    BY <1>1 DEF Shape, Linked
  <2>2. QED
    BY <1>1, <2>1, RedirectedHead
<1>2. CASE m # HeadNode
  <2>1. PICK h \in Levels : DOMAIN hp[m].next = 0 .. h
    BY LevelFacts
  <2>2. hp[m] \in Nodes
    BY <1>2 DEF Shape
  <2>3. QED
    BY <1>2, <2>1, <2>2, RedirectedNode
<1>3. QED
  BY <1>1, <1>2

NewNode(hp, k, v, at) == [key |-> k, value |-> v, next |-> [h \in DOMAIN at |-> hp[at[h]].next[h]]]

LinksTo(node, m, n, at) ==
  [h \in DOMAIN node.next |-> IF h \in DOMAIN at /\ at[h] = m THEN n ELSE node.next[h]]

\* The memory hp with a node linked in behind the nodes of at.
With(hp, n, k, v, at) ==
  [m \in DOMAIN hp \cup {n} |->
     IF m = n THEN NewNode(hp, k, v, at) ELSE Redirected(hp[m], LinksTo(hp[m], m, n, at))]

\* The new node comes right behind place p.
PlacesWith(pos, n, p) == [m \in DOMAIN pos \cup {n} |-> IF m = n THEN 2 * p + 1 ELSE 2 * pos[m]]

\* A place a node for k may be linked in at: behind the last node that is not
\* behind key k, and on the bottom level only when it is not the first of k.
Fits(hp, pos, k, at, c) ==
  /\ \E top \in Levels : /\ DOMAIN at = 0 .. top
                         /\ KeyBlock(hp, k) # {} => top = 0
  /\ \A h \in DOMAIN at : LastBefore(hp, pos, at[h], h, c)
  /\ \A m \in DOMAIN hp \ {HeadNode} : hp[m].key <= k <=> pos[m] < c

LEMMA WithNodes ==
  ASSUME NEW hp, NEW pos, Shape(hp, pos), NEW n \in Node, n \notin DOMAIN hp,
         NEW k \in Keys, NEW v \in Values, NEW c \in Nat, NEW at, Fits(hp, pos, k, at, c)
  PROVE  LET hq == With(hp, n, k, v, at) IN
         /\ DOMAIN hq = DOMAIN hp \cup {n} /\ n # HeadNode
         /\ hq[n] \in Nodes /\ hq[n].key = k
         /\ hq[n].next = [h \in DOMAIN at |-> hp[at[h]].next[h]]
         /\ \A m \in DOMAIN hp :
              /\ hq[m].next = LinksTo(hp[m], m, n, at)
              /\ m = HeadNode => hq[m] \in Linked
              /\ m # HeadNode => hq[m] \in Nodes /\ hq[m].key = hp[m].key
<1> DEFINE hq == With(hp, n, k, v, at)
<1>1. PICK top \in Levels : DOMAIN at = 0 .. top
  BY DEF Fits
<1>2. ASSUME NEW h \in 0 .. top PROVE hp[at[h]].next[h] \in Node \cup {Null}
  <2>1. at[h] \in OnLevel(hp, h)
    BY <1>1 DEF Fits, LastBefore
  <2>2. at[h] \in DOMAIN hp /\ h \in DOMAIN hp[at[h]].next
    BY <2>1 DEF OnLevel
  <2>3. PICK t \in Levels : hp[at[h]].next \in [0 .. t -> Node \cup {Null}]
    BY <2>2, LevelFacts
  <2>4. QED
    BY <2>2, <2>3
<1>3. NewNode(hp, k, v, at) \in [key: Keys, value: Values, next: [0 .. top -> Node \cup {Null}]]
  BY <1>1, <1>2 DEF NewNode
<1>4. NewNode(hp, k, v, at) \in Nodes
  BY <1>3 DEF Nodes
<1>5. /\ NewNode(hp, k, v, at).key = k
      /\ NewNode(hp, k, v, at).next = [h \in DOMAIN at |-> hp[at[h]].next[h]]
  BY DEF NewNode
<1>6. hq[n] = NewNode(hp, k, v, at) /\ DOMAIN hq = DOMAIN hp \cup {n}
  BY DEF With
<1>7. n # HeadNode
  BY NodeAssumption
<1>8. ASSUME NEW m \in DOMAIN hp
      PROVE  /\ hq[m].next = LinksTo(hp[m], m, n, at)
             /\ m = HeadNode => hq[m] \in Linked
             /\ m # HeadNode => hq[m] \in Nodes /\ hq[m].key = hp[m].key
  <2> DEFINE links == LinksTo(hp[m], m, n, at)
  <2>1. hq[m] = Redirected(hp[m], links)
    BY DEF With
  <2>2. PICK t \in Levels : hp[m].next \in [0 .. t -> Node \cup {Null}]
    BY LevelFacts
  <2>3. links \in [DOMAIN hp[m].next -> Node \cup {Null}]
    BY <2>2 DEF LinksTo
  <2> HIDE DEF links, hq
  <2>4. QED
    BY <2>1, <2>3, RedirectedMemory DEF links
<1> HIDE DEF hq
<1>9. hq[n] \in Nodes /\ hq[n].key = k /\ hq[n].next = [h \in DOMAIN at |-> hp[at[h]].next[h]]
  BY <1>4, <1>5, <1>6
<1>10. QED
  BY <1>6, <1>7, <1>8, <1>9 DEF hq

LEMMA PlacesWithIs ==
  ASSUME NEW hp, NEW pos, Shape(hp, pos), NEW n, n \notin DOMAIN hp, n # HeadNode, NEW p \in Nat,
         NEW hq, DOMAIN hq = DOMAIN hp \cup {n}
  PROVE  /\ PlacesWith(pos, n, p)[n] = 2 * p + 1
         /\ \A m \in DOMAIN hp : PlacesWith(pos, n, p)[m] = 2 * pos[m]
         /\ Places(hq, PlacesWith(pos, n, p))
<1> DEFINE new == PlacesWith(pos, n, p)
<1>1. PICK bound \in Nat : pos \in [DOMAIN hp -> 0 .. bound]
  BY DEF Shape, Places
<1>2. new[n] = 2 * p + 1 /\ \A m \in DOMAIN hp : new[m] = 2 * pos[m]
  BY <1>1 DEF PlacesWith
<1>3. \A m \in DOMAIN hp : pos[m] \in 0 .. bound /\ pos[m] \in Nat
  BY <1>1
<1> DEFINE top == 2 * bound + 2 * p + 1
<1>4. top \in Nat
  OBVIOUS
<1>5. \A m \in DOMAIN hq : new[m] \in 0 .. top
  <2>1. \A m \in DOMAIN hp : 2 * pos[m] \in 0 .. top
    BY <1>3
  <2>2. 2 * p + 1 \in 0 .. top
    OBVIOUS
  <2>3. QED
    BY <1>2, <2>1, <2>2
<1>6. new = [m \in DOMAIN hq |-> new[m]]
  BY <1>1 DEF PlacesWith
<1> HIDE DEF top, new
<1>7. new \in [DOMAIN hq -> 0 .. top]
  BY <1>5, <1>6
<1>8. HeadNode \in DOMAIN hp /\ pos[HeadNode] = 0
  BY ShapeFacts
<1>9. new[HeadNode] = 0
  BY <1>2, <1>8
<1>10. ASSUME NEW a \in DOMAIN hq, NEW b \in DOMAIN hq, new[a] = new[b] PROVE a = b
  <2>1. CASE a \in DOMAIN hp /\ b \in DOMAIN hp
    <3>1. 2 * pos[a] = 2 * pos[b] /\ pos[a] \in Nat /\ pos[b] \in Nat
      BY <1>2, <1>3, <1>10, <2>1
    <3>2. pos[a] = pos[b]
      BY <3>1
    <3>3. QED
      BY <2>1, <3>2, ShapeFacts
  <2>2. CASE a = n /\ b \in DOMAIN hp
    <3>1. 2 * p + 1 = 2 * pos[b] /\ pos[b] \in Nat
      BY <1>2, <1>3, <1>10, <2>2
    <3>2. QED
      BY <3>1
  <2>3. CASE a \in DOMAIN hp /\ b = n
    <3>1. 2 * p + 1 = 2 * pos[a] /\ pos[a] \in Nat
      BY <1>2, <1>3, <1>10, <2>3
    <3>2. QED
      BY <3>1
  <2>4. QED
    BY <2>1, <2>2, <2>3
<1>11. Places(hq, new)
  BY <1>4, <1>7, <1>9, <1>10 DEF Places
<1>12. QED
  BY <1>2, <1>11 DEF new

LEMMA LinksToAre ==
  ASSUME NEW node, NEW m, NEW n, NEW at
  PROVE  /\ DOMAIN LinksTo(node, m, n, at) = DOMAIN node.next
         /\ \A h \in DOMAIN node.next :
              /\ h \in DOMAIN at /\ at[h] = m => LinksTo(node, m, n, at)[h] = n
              /\ ~(h \in DOMAIN at /\ at[h] = m) => LinksTo(node, m, n, at)[h] = node.next[h]
  BY DEF LinksTo

\* A node linked in where it fits leaves the shape of a skip list.
LEMMA WithShape ==
  ASSUME NEW hp, NEW pos, Shape(hp, pos), NEW n \in Node, n \notin DOMAIN hp,
         NEW k \in Keys, NEW v \in Values, NEW c \in Nat, NEW at, Fits(hp, pos, k, at, c)
  PROVE  Shape(With(hp, n, k, v, at), PlacesWith(pos, n, pos[at[0]]))
<1> DEFINE hq == With(hp, n, k, v, at)
           p == pos[at[0]]
           new == PlacesWith(pos, n, p)
<1>1. PICK top \in Levels : /\ DOMAIN at = 0 .. top
                            /\ KeyBlock(hp, k) # {} => top = 0
  BY DEF Fits
<1>2. top \in Nat /\ 0 .. top \subseteq Levels /\ 0 \in 0 .. top
  BY LevelsNumbered
<1>3. \A h \in DOMAIN at : LastBefore(hp, pos, at[h], h, c)
  BY DEF Fits
<1>4. LastBefore(hp, pos, at[0], 0, c) /\ OnLevel(hp, 0) = DOMAIN hp
  BY <1>1, <1>2, <1>3, LevelFacts
<1>5. at[0] \in DOMAIN hp /\ p \in Nat /\ p < c /\ \A m \in DOMAIN hp : pos[m] < c => pos[m] <= p
  BY <1>4, ShapeFacts DEF LastBefore
<1>6. /\ DOMAIN hq = DOMAIN hp \cup {n} /\ n # HeadNode
      /\ hq[n] \in Nodes /\ hq[n].key = k
      /\ hq[n].next = [h \in DOMAIN at |-> hp[at[h]].next[h]]
      /\ \A m \in DOMAIN hp :
           /\ hq[m].next = LinksTo(hp[m], m, n, at)
           /\ m = HeadNode => hq[m] \in Linked
           /\ m # HeadNode => hq[m] \in Nodes /\ hq[m].key = hp[m].key
  BY WithNodes
<1> HIDE DEF hq, p
<1>7. /\ new[n] = 2 * p + 1
      /\ \A m \in DOMAIN hp : new[m] = 2 * pos[m]
      /\ Places(hq, new)
  BY <1>5, <1>6, PlacesWithIs
<1> HIDE DEF new
<1>8. ASSUME NEW m \in DOMAIN hp PROVE DOMAIN hq[m].next = DOMAIN hp[m].next
  <2>1. hq[m].next = LinksTo(hp[m], m, n, at)
    BY <1>6
  <2>2. QED
    BY <2>1, LinksToAre
<1>9. DOMAIN hq[n].next = DOMAIN at
  BY <1>6
<1>10. \A h : /\ \A m \in DOMAIN hp : m \in OnLevel(hq, h) <=> m \in OnLevel(hp, h)
              /\ n \in OnLevel(hq, h) <=> h \in DOMAIN at
              /\ OnLevel(hq, h) \subseteq DOMAIN hp \cup {n}
              /\ OnLevel(hp, h) \subseteq DOMAIN hp
  BY <1>6, <1>8, <1>9 DEF OnLevel
<1>11. \A m \in DOMAIN hp : pos[m] \in Nat
  BY ShapeFacts
\* The new node comes behind the nodes before the cut and before the others.
<1>12. \A m \in DOMAIN hp : /\ pos[m] < c => new[m] < new[n]
                            /\ c <= pos[m] => new[n] < new[m]
  <2> SUFFICES ASSUME NEW m \in DOMAIN hp
               PROVE  /\ pos[m] < c => new[m] < new[n]
                      /\ c <= pos[m] => new[n] < new[m]
    OBVIOUS
  <2>1. new[m] = 2 * pos[m] /\ new[n] = 2 * p + 1 /\ pos[m] \in Nat
    BY <1>7, <1>11
  <2>2. pos[m] < c => pos[m] <= p
    BY <1>5
  <2>3. c <= pos[m] => p < pos[m]
    BY <1>5, <1>11
  <2>4. QED
    BY <1>5, <2>1, <2>2, <2>3
<1>13. \A a, b \in DOMAIN hp : /\ pos[a] < pos[b] <=> new[a] < new[b]
                               /\ pos[a] <= pos[b] <=> new[a] <= new[b]
  <2> SUFFICES ASSUME NEW a \in DOMAIN hp, NEW b \in DOMAIN hp
               PROVE  /\ pos[a] < pos[b] <=> new[a] < new[b]
                      /\ pos[a] <= pos[b] <=> new[a] <= new[b]
    OBVIOUS
  <2>1. new[a] = 2 * pos[a] /\ new[b] = 2 * pos[b] /\ pos[a] \in Nat /\ pos[b] \in Nat
    BY <1>7, <1>11
  <2>2. QED
    BY <2>1
<1>14. \A m \in DOMAIN hp : new[m] \in Nat
  BY <1>7, <1>11
<1>15. new[n] \in Nat
  BY <1>5, <1>7
<1>16. ASSUME NEW h \in Levels, NEW m \in OnLevel(hq, h) PROVE Nearest(hq, new, m, h)
  <2> DEFINE s == hq[m].next[h]
  <2>1. CASE m = n
    <3>1. h \in DOMAIN at
      BY <1>10, <2>1
    <3>2. LastBefore(hp, pos, at[h], h, c) /\ s = hp[at[h]].next[h]
      BY <1>3, <1>6, <2>1, <3>1
    <3>3. /\ s = Null => \A x \in OnLevel(hp, h) : pos[x] < c
          /\ s # Null =>
              /\ s \in OnLevel(hp, h) /\ c <= pos[s]
              /\ \A x \in OnLevel(hp, h) : c <= pos[x] => pos[s] <= pos[x]
      BY <3>2, AfterLastBefore
    <3> HIDE DEF s
    <3>4. ASSUME s = Null, NEW x \in OnLevel(hq, h) PROVE new[x] <= new[n]
      <4>1. CASE x = n
        BY <1>15, <4>1
      <4>2. CASE x # n
        <5>1. x \in DOMAIN hp /\ pos[x] < c
          BY <1>10, <3>3, <3>4, <4>2
        <5>2. new[x] < new[n]
          BY <1>12, <5>1
        <5>3. QED
          BY <1>14, <1>15, <5>1, <5>2
      <4>3. QED
        BY <4>1, <4>2
    <3>5. ASSUME s # Null
          PROVE  /\ s \in OnLevel(hq, h) /\ new[n] < new[s]
                 /\ \A x \in OnLevel(hq, h) : new[x] <= new[n] \/ new[s] <= new[x]
      <4>1. s \in DOMAIN hp /\ s \in OnLevel(hq, h) /\ new[n] < new[s]
        BY <1>10, <1>12, <3>3, <3>5
      <4>2. ASSUME NEW x \in OnLevel(hq, h) PROVE new[x] <= new[n] \/ new[s] <= new[x]
        <5>1. CASE x = n
          BY <1>15, <5>1
        <5>2. CASE x # n
          <6>1. x \in DOMAIN hp /\ x \in OnLevel(hp, h)
            BY <1>10, <5>2
          <6>2. CASE pos[x] < c
            BY <1>12, <1>14, <1>15, <6>1, <6>2
          <6>3. CASE ~(pos[x] < c)
            <7>1. c <= pos[x]
              BY <1>11, <6>1, <6>3
            <7>2. pos[s] <= pos[x]
              BY <3>3, <3>5, <6>1, <7>1
            <7>3. QED
              BY <1>13, <4>1, <6>1, <7>2
          <6>4. QED
            BY <6>2, <6>3
        <5>3. QED
          BY <5>1, <5>2
      <4>3. QED
        BY <4>1, <4>2
    <3>6. QED
      BY <2>1, <3>4, <3>5 DEF Nearest, s
  <2>2. CASE m # n /\ h \in DOMAIN at /\ at[h] = m
    <3>1. m \in DOMAIN hp /\ m \in OnLevel(hp, h) /\ h \in DOMAIN hp[m].next
      BY <1>10, <2>2 DEF OnLevel
    <3>2. s = n
      BY <1>6, <2>2, <3>1 DEF LinksTo
    <3>3. LastBefore(hp, pos, m, h, c)
      BY <1>3, <2>2
    <3>4. n \in OnLevel(hq, h) /\ new[m] < new[n] /\ n # Null
      BY <1>10, <1>12, <2>2, <3>1, <3>3, NodeAssumption DEF LastBefore
    <3>5. ASSUME NEW x \in OnLevel(hq, h) PROVE new[x] <= new[m] \/ new[n] <= new[x]
      <4>1. CASE x = n
        BY <1>15, <4>1
      <4>2. CASE x # n
        <5>1. x \in DOMAIN hp /\ x \in OnLevel(hp, h)
          BY <1>10, <4>2
        <5>2. CASE pos[x] < c
          <6>1. pos[x] <= pos[m]
            BY <3>3, <5>1, <5>2 DEF LastBefore
          <6>2. QED
            BY <1>13, <3>1, <5>1, <6>1
        <5>3. CASE ~(pos[x] < c)
          <6>1. c <= pos[x]
            BY <1>11, <5>1, <5>3
          <6>2. QED
            BY <1>12, <1>14, <1>15, <5>1, <6>1
        <5>4. QED
          BY <5>2, <5>3
      <4>3. QED
        BY <4>1, <4>2
    <3>6. QED
      BY <3>2, <3>4, <3>5 DEF Nearest
  <2>3. CASE m # n /\ ~(h \in DOMAIN at /\ at[h] = m)
    <3>1. m \in DOMAIN hp /\ m \in OnLevel(hp, h) /\ h \in DOMAIN hp[m].next
      BY <1>10, <2>3 DEF OnLevel
    <3>2. s = hp[m].next[h]
      <4>1. hq[m].next = LinksTo(hp[m], m, n, at)
        BY <1>6, <3>1
      <4>2. LinksTo(hp[m], m, n, at)[h] = hp[m].next[h]
        BY <2>3, <3>1, LinksToAre
      <4>3. QED
        BY <4>1, <4>2
    <3>3. /\ s = Null => \A x \in OnLevel(hp, h) : pos[x] <= pos[m]
          /\ s # Null =>
              /\ s \in OnLevel(hp, h) /\ pos[m] < pos[s]
              /\ \A x \in OnLevel(hp, h) : pos[x] <= pos[m] \/ pos[s] <= pos[x]
      BY <3>1, <3>2, NextIs
    <3> HIDE DEF s
    <3>4. s # Null => s \in DOMAIN hp /\ s \in OnLevel(hq, h) /\ new[m] < new[s]
      BY <1>10, <1>13, <3>1, <3>3
    \* The new node, when it is on the level, is not between the two.
    <3>5. n \in OnLevel(hq, h) => new[n] <= new[m] \/ (s # Null /\ new[s] <= new[n])
      <4> SUFFICES ASSUME h \in DOMAIN at, ~(new[n] <= new[m])
                   PROVE  s # Null /\ new[s] <= new[n]
        BY <1>10
      <4>1. pos[m] < c
        <5>1. ~(c <= pos[m])
          BY <1>12, <1>14, <1>15, <3>1
        <5>2. QED
          BY <1>11, <3>1, <5>1
      <4>2. LastBefore(hp, pos, at[h], h, c)
        BY <1>3
      <4>3. at[h] \in DOMAIN hp /\ at[h] \in OnLevel(hp, h) /\ pos[at[h]] < c /\ pos[m] <= pos[at[h]]
        BY <1>10, <3>1, <4>1, <4>2 DEF LastBefore
      <4>4. pos[m] # pos[at[h]]
        BY <2>3, <3>1, <4>3, ShapeFacts
      <4>5. ~(pos[at[h]] <= pos[m])
        BY <1>11, <3>1, <4>3, <4>4
      <4>6. s # Null /\ pos[s] <= pos[at[h]] /\ s \in DOMAIN hp
        BY <3>3, <3>4, <4>3, <4>5
      <4>7. pos[s] < c
        BY <1>11, <4>3, <4>6
      <4>8. QED
        BY <1>12, <1>14, <1>15, <4>6, <4>7
    <3>6. ASSUME NEW x \in OnLevel(hq, h), x # n
          PROVE  new[x] <= new[m] \/ (s # Null /\ new[s] <= new[x])
      <4>1. x \in DOMAIN hp /\ x \in OnLevel(hp, h)
        BY <1>10, <3>6
      <4>2. pos[x] <= pos[m] \/ (s # Null /\ pos[s] <= pos[x])
        BY <3>3, <4>1
      <4>3. QED
        BY <1>13, <3>1, <3>4, <4>1, <4>2
    <3>7. \A x \in OnLevel(hq, h) : new[x] <= new[m] \/ (s # Null /\ new[s] <= new[x])
      BY <3>5, <3>6
    <3>8. QED
      BY <3>4, <3>7 DEF Nearest, s
  <2>4. QED
    BY <2>1, <2>2, <2>3
<1>17. KeysInOrder(hq, new)
  <2> SUFFICES ASSUME NEW a \in DOMAIN hq \ {HeadNode}, NEW b \in DOMAIN hq \ {HeadNode},
                      new[a] < new[b]
               PROVE  /\ hq[a].key <= hq[b].key
                      /\ hq[a].key = hq[b].key => DOMAIN hq[b].next = {0}
    BY DEF KeysInOrder
  <2>1. k \in Int /\ \A m \in DOMAIN hp \ {HeadNode} : hp[m].key \in Int /\ hq[m].key = hp[m].key
    BY <1>6, KeysAssumption, ShapeFacts
  <2>2. \A m \in DOMAIN hp \ {HeadNode} : hp[m].key <= k <=> pos[m] < c
    BY DEF Fits
  <2>3. CASE a # n /\ b # n
    <3>1. a \in DOMAIN hp \ {HeadNode} /\ b \in DOMAIN hp \ {HeadNode}
      BY <1>6, <2>3
    <3>2. pos[a] < pos[b]
      BY <1>13, <3>1
    <3>3. hp[a].key <= hp[b].key /\ (hp[a].key = hp[b].key => DOMAIN hp[b].next = {0})
      BY <3>1, <3>2 DEF Shape, KeysInOrder
    <3>4. QED
      BY <1>8, <2>1, <3>1, <3>3
  <2>4. CASE a = n
    <3>1. b \in DOMAIN hp \ {HeadNode}
      BY <1>6, <1>15, <2>4
    <3>2. ~(pos[b] < c)
      BY <1>12, <1>14, <1>15, <2>4, <3>1
    <3>3. ~(hp[b].key <= k)
      BY <2>2, <3>1, <3>2
    <3>4. QED
      BY <1>6, <2>1, <2>4, <3>1, <3>3
  <2>5. CASE b = n /\ a # n
    <3>1. a \in DOMAIN hp \ {HeadNode}
      BY <1>6, <2>5
    <3>2. pos[a] < c
      <4>1. ~(c <= pos[a])
        BY <1>12, <1>14, <1>15, <2>5, <3>1
      <4>2. QED
        BY <1>11, <3>1, <4>1
    <3>3. hp[a].key <= k
      BY <2>2, <3>1, <3>2
    <3>4. hp[a].key = k => DOMAIN hq[n].next = {0}
      <4> SUFFICES ASSUME hp[a].key = k PROVE DOMAIN at = {0}
        BY <1>9
      <4>1. a \in KeyBlock(hp, k)
        BY <3>1 DEF KeyBlock
      <4>2. top = 0
        BY <1>1, <4>1
      <4>3. QED
        BY <1>1, <4>2
    <3>5. QED
      BY <1>6, <2>1, <2>5, <3>1, <3>3, <3>4
  <2>6. QED
    BY <2>3, <2>4, <2>5
<1>18. /\ HeadNode \in DOMAIN hq /\ DOMAIN hq \subseteq Node \cup {HeadNode}
       /\ hq[HeadNode] \in Linked
       /\ \A m \in DOMAIN hq \ {HeadNode} : hq[m] \in Nodes
  BY <1>6 DEF Shape
<1>19. Shape(hq, new)
  BY <1>7, <1>16, <1>17, <1>18 DEF Shape
<1>20. QED
  BY <1>19 DEF hq, new, p

LEMMA LinkInIs ==
  ASSUME NEW n, NEW k, NEW v, NEW at, LinkIn(n, k, v, at)
  PROVE  heap' = With(heap, n, k, v, at)
  BY DEF LinkIn, With, NewNode, Redirected, LinksTo

\* A key is held where it is found exactly when it has a block.
LEMMA HoldsBlock ==
  ASSUME NEW hp, NEW pos, Shape(hp, pos), NEW k \in Int, NEW n, IsFound(hp, pos, k, n)
  PROVE  /\ n \in DOMAIN hp
         /\ Holds(hp, n, k) <=> KeyBlock(hp, k) # {}
         /\ Holds(hp, n, k) => n \in KeyBlock(hp, k)
<1>1. CASE KeyBlock(hp, k) # {}
  BY <1>1 DEF IsFound, KeyBlock, Holds
<1>2. CASE KeyBlock(hp, k) = {}
  <2>1. n \in DOMAIN hp /\ (n # HeadNode => hp[n].key < k)
    BY <1>2 DEF IsFound
  <2>2. n # HeadNode => hp[n].key # k
    BY <2>1, ShapeFacts
  <2>3. QED
    BY <1>2, <2>1, <2>2 DEF Holds
<1>3. QED
  BY <1>1, <1>2

\* A node for k fits at each of the places sl_insert may choose.
LEMMA InsertPlacesFit ==
  ASSUME NEW pos, Shape(heap, pos), NEW k \in Keys, NEW at \in InsertPlaces(k)
  PROVE  \E c \in Nat : Fits(heap, pos, k, at, c)
<1> DEFINE dup == sl_find_node(heap, k)
           P == { m \in Live : heap[m].key <= k }
<1>1. k \in Int /\ \A n \in Live : pos[n] \in Nat /\ heap[n].key \in Int
  BY KeysAssumption, ShapeFacts DEF Live
<1>2. IsFound(heap, pos, k, dup)
  BY <1>1, FindNode
<1>3. /\ dup \in DOMAIN heap
      /\ Holds(heap, dup, k) <=> KeyBlock(heap, k) # {}
      /\ Holds(heap, dup, k) => dup \in KeyBlock(heap, k)
  BY <1>1, <1>2, HoldsBlock
<1>4. P \in SUBSET (DOMAIN heap \ {HeadNode})
  BY DEF Live
<1>5. \A m, n \in DOMAIN heap \ {HeadNode} : n \in P /\ pos[m] < pos[n] => m \in P
  <2> SUFFICES ASSUME NEW m \in DOMAIN heap \ {HeadNode}, NEW n \in DOMAIN heap \ {HeadNode},
                      n \in P, pos[m] < pos[n]
               PROVE  m \in P
    OBVIOUS
  <2>1. heap[m].key <= heap[n].key
    BY ShapeFacts
  <2>2. QED
    BY <1>1, <2>1 DEF Live
<1>6. \A n \in DOMAIN heap \ {HeadNode} : n \in P <=> heap[n].key <= k
  BY DEF Live
<1>7. PlacesByKey(k) = { [h \in 0 .. top |-> Descent(heap, P)[h]] : top \in Levels }
  BY DEF PlacesByKey
<1>8. InsertPlaces(k) = IF Holds(heap, dup, k)
                          THEN { [h \in {0} |-> Walk(heap, dup, 0, KeyBlock(heap, k))] }
                          ELSE PlacesByKey(k)
  BY DEF InsertPlaces, KeyBlock, Live
<1> HIDE DEF P, dup
<1>9. PICK c \in Nat : c > 0 /\ \A n \in DOMAIN heap \ {HeadNode} : n \in P <=> pos[n] < c
  BY <1>4, <1>5, CutExists
<1>10. \A m \in DOMAIN heap \ {HeadNode} : heap[m].key <= k <=> pos[m] < c
  BY <1>6, <1>9
<1>11. CASE Holds(heap, dup, k)
  <2> DEFINE w == Walk(heap, dup, 0, KeyBlock(heap, k))
  <2>1. at = [h \in {0} |-> w]
    BY <1>8, <1>11
  <2>2. dup \in DOMAIN heap \ {HeadNode} /\ heap[dup].key = k
    BY <1>3, <1>11 DEF KeyBlock
  <2>3. dup \in OnLevel(heap, 0) /\ pos[dup] < c
    BY <1>1, <1>10, <2>2, LevelFacts
  <2>4. CutAt(heap, pos, 0, KeyBlock(heap, k), pos[dup], c)
    <3> SUFFICES ASSUME NEW n \in OnLevel(heap, 0), pos[dup] < pos[n]
                 PROVE  /\ pos[n] < c => n \in KeyBlock(heap, k)
                        /\ c <= pos[n] =>
                             \E y \in OnLevel(heap, 0) :
                               c <= pos[y] /\ pos[y] <= pos[n] /\ y \notin KeyBlock(heap, k)
      BY DEF CutAt
    <3>1. n \in DOMAIN heap
      BY DEF OnLevel
    <3>2. n # HeadNode /\ pos[n] \in Nat
      BY <1>1, <2>2, <3>1, ShapeFacts DEF Live
    <3>3. heap[dup].key <= heap[n].key /\ heap[n].key \in Int
      BY <2>2, <3>1, <3>2, ShapeFacts
    <3>4. pos[n] < c => n \in KeyBlock(heap, k)
      <4> SUFFICES ASSUME pos[n] < c PROVE heap[n].key = k
        BY <3>1, <3>2 DEF KeyBlock
      <4>1. heap[n].key <= k
        BY <1>10, <3>1, <3>2
      <4>2. QED
        BY <1>1, <2>2, <3>3, <4>1
    <3>5. c <= pos[n] => n \notin KeyBlock(heap, k)
      <4> SUFFICES ASSUME c <= pos[n] PROVE heap[n].key # k
        BY DEF KeyBlock
      <4>1. ~(heap[n].key <= k)
        BY <1>10, <3>1, <3>2
      <4>2. QED
        BY <1>1, <4>1
    <3>6. QED
      BY <3>2, <3>4, <3>5
  <2>5. LastBefore(heap, pos, w, 0, c)
    BY <2>3, <2>4, LevelsNumbered, WalkToCut
  <2> HIDE DEF w
  <2>6. DOMAIN at = 0 .. 0 /\ at[0] = w
    BY <2>1
  <2>7. QED
    BY <1>10, <2>5, <2>6, LevelsNumbered DEF Fits
<1>12. CASE ~Holds(heap, dup, k)
  <2>1. PICK top \in Levels : at = [h \in 0 .. top |-> Descent(heap, P)[h]]
    BY <1>7, <1>8, <1>12
  <2>2. \A h \in Levels : LastBefore(heap, pos, Descent(heap, P)[h], h, c)
    BY <1>4, <1>9, DescentAtCut
  <2>3. DOMAIN at = 0 .. top /\ \A h \in 0 .. top : h \in Levels /\ at[h] = Descent(heap, P)[h]
    BY <2>1, LevelsNumbered
  <2>4. KeyBlock(heap, k) = {}
    BY <1>3, <1>12
  <2>5. QED
    BY <1>10, <2>2, <2>3, <2>4 DEF Fits
<1>13. QED
  BY <1>11, <1>12

-----------------------------------------------------------------------------
(***************************************************************************)
(* A node that is taken out.                                               *)
(***************************************************************************)

LinksPast(hp, m, n, pred) ==
  [h \in DOMAIN hp[m].next |->
     IF h \in DOMAIN hp[n].next /\ pred[h] = m THEN hp[n].next[h] ELSE hp[m].next[h]]

\* The memory hp without node n: the links of the nodes of pred go past it.
Without(hp, n, pred) == [m \in DOMAIN hp \ {n} |-> Redirected(hp[m], LinksPast(hp, m, n, pred))]

LEMMA LinksPastAre ==
  ASSUME NEW hp, NEW m, NEW n, NEW pred
  PROVE  /\ DOMAIN LinksPast(hp, m, n, pred) = DOMAIN hp[m].next
         /\ \A h \in DOMAIN hp[m].next :
              /\ h \in DOMAIN hp[n].next /\ pred[h] = m => LinksPast(hp, m, n, pred)[h] = hp[n].next[h]
              /\ ~(h \in DOMAIN hp[n].next /\ pred[h] = m)
                   => LinksPast(hp, m, n, pred)[h] = hp[m].next[h]
  BY DEF LinksPast

LEMMA WithoutNodes ==
  ASSUME NEW hp, NEW pos, Shape(hp, pos), NEW n \in DOMAIN hp \ {HeadNode}, NEW pred
  PROVE  LET hq == Without(hp, n, pred) IN
         /\ DOMAIN hq = DOMAIN hp \ {n}
         /\ \A m \in DOMAIN hp \ {n} :
              /\ hq[m].next = LinksPast(hp, m, n, pred)
              /\ m = HeadNode => hq[m] \in Linked
              /\ m # HeadNode => hq[m] \in Nodes /\ hq[m].key = hp[m].key /\ hq[m].value = hp[m].value
<1> DEFINE hq == Without(hp, n, pred)
<1>1. DOMAIN hq = DOMAIN hp \ {n}
  BY DEF Without
<1>2. ASSUME NEW m \in DOMAIN hp \ {n}
      PROVE  /\ hq[m].next = LinksPast(hp, m, n, pred)
             /\ m = HeadNode => hq[m] \in Linked
             /\ m # HeadNode => hq[m] \in Nodes /\ hq[m].key = hp[m].key /\ hq[m].value = hp[m].value
  <2> DEFINE links == LinksPast(hp, m, n, pred)
  <2>1. hq[m] = Redirected(hp[m], links)
    BY DEF Without
  <2>2. PICK t \in Levels : hp[m].next \in [0 .. t -> Node \cup {Null}]
    BY LevelFacts
  <2>3. PICK u \in Levels : hp[n].next \in [0 .. u -> Node \cup {Null}]
    BY LevelFacts
  <2>4. links \in [DOMAIN hp[m].next -> Node \cup {Null}]
    BY <2>2, <2>3 DEF LinksPast
  <2> HIDE DEF links, hq
  <2>5. QED
    BY <2>1, <2>4, RedirectedMemory DEF links
<1> HIDE DEF hq
<1>3. QED
  BY <1>1, <1>2 DEF hq

PlacesWithout(pos, n) == [m \in DOMAIN pos \ {n} |-> pos[m]]

\* Taking out a node leaves the shape when the nodes of pred are those before
\* it on each of its levels.
LEMMA WithoutShape ==
  ASSUME NEW hp, NEW pos, Shape(hp, pos), NEW n \in DOMAIN hp \ {HeadNode}, NEW pred,
         \A h \in DOMAIN hp[n].next : LastBefore(hp, pos, pred[h], h, pos[n])
  PROVE  Shape(Without(hp, n, pred), PlacesWithout(pos, n))
<1> DEFINE hq == Without(hp, n, pred)
           new == PlacesWithout(pos, n)
<1>1. /\ DOMAIN hq = DOMAIN hp \ {n}
      /\ \A m \in DOMAIN hp \ {n} :
           /\ hq[m].next = LinksPast(hp, m, n, pred)
           /\ m = HeadNode => hq[m] \in Linked
           /\ m # HeadNode => hq[m] \in Nodes /\ hq[m].key = hp[m].key /\ hq[m].value = hp[m].value
  BY WithoutNodes
<1> HIDE DEF hq
<1>2. PICK bound \in Nat : pos \in [DOMAIN hp -> 0 .. bound]
  BY DEF Shape, Places
<1>3. new \in [DOMAIN hq -> 0 .. bound] /\ \A m \in DOMAIN hq : new[m] = pos[m]
  BY <1>1, <1>2 DEF PlacesWithout
<1> HIDE DEF new
<1>4. HeadNode \in DOMAIN hq
  BY <1>1, ShapeFacts
<1>5. Places(hq, new)
  <2>1. \A a, b \in DOMAIN hq : new[a] = new[b] => a = b
    BY <1>1, <1>3, ShapeFacts
  <2>2. QED
    BY <1>3, <1>4, <2>1, ShapeFacts DEF Places
<1>6. ASSUME NEW m \in DOMAIN hp \ {n} PROVE DOMAIN hq[m].next = DOMAIN hp[m].next
  <2>1. hq[m].next = LinksPast(hp, m, n, pred)
    BY <1>1
  <2>2. QED
    BY <2>1, LinksPastAre
<1>7. \A h : OnLevel(hq, h) = OnLevel(hp, h) \ {n}
  BY <1>1, <1>6 DEF OnLevel
<1>8. \A h : \A m \in OnLevel(hp, h) : m \in DOMAIN hp /\ pos[m] \in Nat
  BY ShapeFacts DEF OnLevel
<1>9. pos[n] \in Nat
  BY ShapeFacts
<1>10. ASSUME NEW h \in Levels, NEW m \in OnLevel(hq, h) PROVE Nearest(hq, new, m, h)
  <2> DEFINE s == hq[m].next[h]
  <2>1. m \in DOMAIN hp \ {n} /\ m \in OnLevel(hp, h) /\ h \in DOMAIN hp[m].next
    BY <1>7 DEF OnLevel
  <2>2. hq[m].next = LinksPast(hp, m, n, pred)
    BY <1>1, <2>1
  <2>3. \A x \in OnLevel(hq, h) : x \in OnLevel(hp, h) /\ x \in DOMAIN hp \ {n} /\ new[x] = pos[x]
    BY <1>1, <1>3, <1>7 DEF OnLevel
  <2>4. new[m] = pos[m]
    BY <2>3
  <2>5. CASE h \in DOMAIN hp[n].next /\ pred[h] = m
    <3>1. s = hp[n].next[h]
      BY <2>1, <2>2, <2>5, LinksPastAre
    <3>2. LastBefore(hp, pos, m, h, pos[n]) /\ n \in OnLevel(hp, h)
      BY <2>5 DEF OnLevel
    <3>3. /\ s = Null => \A x \in OnLevel(hp, h) : pos[x] <= pos[n]
          /\ s # Null =>
              /\ s \in OnLevel(hp, h) /\ pos[n] < pos[s]
              /\ \A x \in OnLevel(hp, h) : pos[x] <= pos[n] \/ pos[s] <= pos[x]
      BY <3>1, <3>2, NextIs
    <3> HIDE DEF s
    <3>4. \A x \in OnLevel(hq, h) : pos[x] <= pos[n] => pos[x] <= pos[m]
      <4> SUFFICES ASSUME NEW x \in OnLevel(hq, h), pos[x] <= pos[n] PROVE pos[x] <= pos[m]
        OBVIOUS
      <4>1. pos[x] # pos[n]
        BY <2>3, ShapeFacts
      <4>2. pos[x] < pos[n]
        BY <1>8, <1>9, <2>3, <4>1
      <4>3. QED
        BY <2>3, <3>2, <4>2 DEF LastBefore
    <3>5. s # Null => s \in OnLevel(hq, h) /\ pos[m] < pos[s]
      <4> SUFFICES ASSUME s # Null PROVE s \in OnLevel(hq, h) /\ pos[m] < pos[s]
        OBVIOUS
      <4>1. s # n
        BY <1>9, <3>3
      <4>2. pos[m] < pos[n]
        BY <3>2 DEF LastBefore
      <4>3. QED
        BY <1>7, <1>8, <1>9, <2>1, <3>3, <4>1, <4>2
    <3>6. QED
      BY <2>3, <2>4, <3>3, <3>4, <3>5 DEF Nearest, s
  <2>6. CASE ~(h \in DOMAIN hp[n].next /\ pred[h] = m)
    <3>1. s = hp[m].next[h]
      BY <2>1, <2>2, <2>6, LinksPastAre
    <3>2. /\ s = Null => \A x \in OnLevel(hp, h) : pos[x] <= pos[m]
          /\ s # Null =>
              /\ s \in OnLevel(hp, h) /\ pos[m] < pos[s]
              /\ \A x \in OnLevel(hp, h) : pos[x] <= pos[m] \/ pos[s] <= pos[x]
      BY <2>1, <3>1, NextIs
    <3> HIDE DEF s
    \* A node whose successor is n is the last one before it on the level.
    <3>3. s # Null => s # n
      <4> SUFFICES ASSUME s # Null, s = n PROVE FALSE
        OBVIOUS
      <4>1. n \in OnLevel(hp, h) /\ h \in DOMAIN hp[n].next
        BY <3>2 DEF OnLevel
      <4>2. ASSUME NEW x \in OnLevel(hp, h), pos[x] < pos[n] PROVE pos[x] <= pos[m]
        BY <1>8, <1>9, <3>2, <4>2
      <4>3. LastBefore(hp, pos, m, h, pos[n])
        BY <2>1, <3>2, <4>2 DEF LastBefore
      <4>4. LastBefore(hp, pos, pred[h], h, pos[n])
        BY <4>1
      <4>5. pred[h] = m
        BY <1>9, <4>3, <4>4, LastBeforeUnique
      <4>6. QED
        BY <2>6, <4>1, <4>5
    <3>4. s # Null => s \in OnLevel(hq, h)
      BY <1>7, <3>2, <3>3
    <3>5. QED
      BY <2>3, <2>4, <3>2, <3>4 DEF Nearest, s
  <2>7. QED
    BY <2>5, <2>6
<1>11. KeysInOrder(hq, new)
  <2> SUFFICES ASSUME NEW a \in DOMAIN hq \ {HeadNode}, NEW b \in DOMAIN hq \ {HeadNode},
                      new[a] < new[b]
               PROVE  /\ hq[a].key <= hq[b].key
                      /\ hq[a].key = hq[b].key => DOMAIN hq[b].next = {0}
    BY DEF KeysInOrder
  <2>1. /\ a \in DOMAIN hp \ {HeadNode} /\ b \in DOMAIN hp \ {HeadNode}
        /\ a \in DOMAIN hp \ {n} /\ b \in DOMAIN hp \ {n} /\ pos[a] < pos[b]
    BY <1>1, <1>3
  <2>2. hp[a].key <= hp[b].key /\ (hp[a].key = hp[b].key => DOMAIN hp[b].next = {0})
    BY <2>1 DEF Shape, KeysInOrder
  <2>3. hq[a].key = hp[a].key /\ hq[b].key = hp[b].key /\ DOMAIN hq[b].next = DOMAIN hp[b].next
    BY <1>1, <1>6, <2>1
  <2>4. QED
    BY <2>2, <2>3
<1>12. /\ DOMAIN hq \subseteq Node \cup {HeadNode} /\ hq[HeadNode] \in Linked
       /\ \A m \in DOMAIN hq \ {HeadNode} : hq[m] \in Nodes
  BY <1>1, <1>4 DEF Shape
<1>13. Shape(hq, new)
  BY <1>4, <1>5, <1>10, <1>11, <1>12 DEF Shape
<1>14. QED
  BY <1>13 DEF hq, new

LEMMA UnlinkIs ==
  ASSUME NEW hp, NEW n, NEW from, NEW top
  PROVE  Unlink(hp, n, from, top) = Without(hp, n, Stops(hp, from, top, DOMAIN hp \ {n}))
  BY DEF Unlink, Without, Redirected, LinksPast

\* A turn of a delete takes out the first node of the block and no other.
LEMMA DeleteTurnIs ==
  ASSUME NEW hp, NEW pos, Shape(hp, pos), NEW k \in Int
  PROVE  /\ KeyBlock(hp, k) = {} => DeleteTurn(hp, k) = hp
         /\ KeyBlock(hp, k) # {} =>
              \E b \in KeyBlock(hp, k) : \E new :
                /\ Shape(DeleteTurn(hp, k), new)
                /\ DOMAIN DeleteTurn(hp, k) = DOMAIN hp \ {b}
                /\ \A m \in DOMAIN hp \ {b, HeadNode} :
                     /\ DeleteTurn(hp, k)[m].key = hp[m].key
                     /\ DeleteTurn(hp, k)[m].value = hp[m].value
<1> DEFINE at == Before(hp, k)
           hits == HitLevels(hp, k, at)
           top == Max(hits)
<1>1. PICK c \in Nat : /\ c > 0 /\ KeyCut(hp, pos, k, c)
                       /\ \A h \in Levels : LastBefore(hp, pos, at[h], h, c)
  BY BeforeAre
<1>2. DeleteTurn(hp, k) = IF hits = {} THEN hp ELSE Unlink(hp, hp[at[top]].next[top], at[top], top)
  BY DEF DeleteTurn
<1> HIDE DEF at
<1>3. ASSUME KeyBlock(hp, k) = {} PROVE DeleteTurn(hp, k) = hp
  BY <1>1, <1>2, <1>3, HitsAre
<1>4. ASSUME KeyBlock(hp, k) # {}
      PROVE  \E b \in KeyBlock(hp, k) : \E new :
                /\ Shape(DeleteTurn(hp, k), new)
                /\ DOMAIN DeleteTurn(hp, k) = DOMAIN hp \ {b}
                /\ \A m \in DOMAIN hp \ {b, HeadNode} :
                     /\ DeleteTurn(hp, k)[m].key = hp[m].key
                     /\ DeleteTurn(hp, k)[m].value = hp[m].value
  <2>1. PICK b \in KeyBlock(hp, k) : \A m \in KeyBlock(hp, k) : pos[b] <= pos[m]
    BY <1>4, FirstOfBlock
  <2>2. b \in DOMAIN hp \ {HeadNode} /\ pos[b] \in Nat
    BY ShapeFacts DEF KeyBlock
  <2>3. /\ c <= pos[b]
        /\ hits = DOMAIN hp[b].next
        /\ \A h \in DOMAIN hp[b].next : h \in Levels /\ hp[at[h]].next[h] = b
    <3> HIDE DEF hits
    <3>1. /\ c <= pos[b]
          /\ HitLevels(hp, k, at) = DOMAIN hp[b].next
          /\ \A h \in DOMAIN hp[b].next : h \in Levels /\ hp[at[h]].next[h] = b
      <4>1. \A d \in KeyBlock(hp, k) :
              (\A m \in KeyBlock(hp, k) : pos[d] <= pos[m]) =>
                /\ c <= pos[d]
                /\ HitLevels(hp, k, at) = DOMAIN hp[d].next
                /\ \A h \in DOMAIN hp[d].next : h \in Levels /\ hp[at[h]].next[h] = d
        BY <1>1, HitsAre
      <4>2. QED
        BY <2>1, <4>1
    <3>2. QED
      BY <3>1 DEF hits
  <2>4. top \in Levels /\ hits = 0 .. top
    BY <2>2, <2>3, HeightIs
  <2> HIDE DEF hits, top
  <2>5. top \in Nat /\ top \in hits /\ hits # {} /\ 0 .. top \subseteq Levels
    <3>1. top \in Nat /\ 0 .. top \subseteq Levels
      BY <2>4, LevelsNumbered
    <3>2. top \in 0 .. top
      BY <3>1
    <3>3. QED
      BY <2>4, <3>1, <3>2
  <2> DEFINE others == DOMAIN hp \ {b}
             pred == Stops(hp, at[top], top, others)
  <2>6. DeleteTurn(hp, k) = Unlink(hp, b, at[top], top)
    BY <1>2, <2>3, <2>5 DEF top
  <2>7. DeleteTurn(hp, k) = Without(hp, b, pred)
    BY <2>6, UnlinkIs
  <2>8. LastBefore(hp, pos, at[top], top, c)
    BY <1>1, <2>4
  <2>9. at[top] \in OnLevel(hp, top) /\ pos[at[top]] < pos[b]
    <3>1. at[top] \in OnLevel(hp, top) /\ pos[at[top]] < c /\ pos[at[top]] \in Nat
      BY <2>8, ShapeFacts DEF LastBefore, OnLevel
    <3>2. QED
      BY <2>2, <2>3, <3>1
  <2>10. ASSUME NEW h \in 0 .. top PROVE CutAt(hp, pos, h, others, pos[at[top]], pos[b])
    <3>1. b \in OnLevel(hp, h)
      BY <2>2, <2>3, <2>4 DEF OnLevel
    <3> SUFFICES ASSUME NEW n \in OnLevel(hp, h), pos[at[top]] < pos[n]
                 PROVE  /\ pos[n] < pos[b] => n \in others
                        /\ pos[b] <= pos[n] =>
                             \E y \in OnLevel(hp, h) : pos[b] <= pos[y] /\ pos[y] <= pos[n] /\ y \notin others
      BY DEF CutAt
    <3>2. n \in DOMAIN hp
      BY DEF OnLevel
    <3>3. pos[n] < pos[b] => n # b
      BY <2>2
    <3>4. pos[b] <= pos[b] /\ b \notin others
      BY <2>2
    <3>5. QED
      BY <3>1, <3>2, <3>3, <3>4
  <2> HIDE DEF others
  <2>11. \A h \in 0 .. top : LastBefore(hp, pos, pred[h], h, pos[b])
    BY <2>2, <2>4, <2>9, <2>10, StopsAtCut
  <2> HIDE DEF pred
  <2>12. Shape(Without(hp, b, pred), PlacesWithout(pos, b))
    BY <2>2, <2>3, <2>4, <2>11, WithoutShape
  <2>13. /\ DOMAIN Without(hp, b, pred) = DOMAIN hp \ {b}
         /\ \A m \in DOMAIN hp \ {b} :
              m # HeadNode => /\ Without(hp, b, pred)[m].key = hp[m].key
                              /\ Without(hp, b, pred)[m].value = hp[m].value
    <3> DEFINE hq == Without(hp, b, pred)
    <3>1. /\ DOMAIN hq = DOMAIN hp \ {b}
          /\ \A m \in DOMAIN hp \ {b} :
               /\ hq[m].next = LinksPast(hp, m, b, pred)
               /\ m = HeadNode => hq[m] \in Linked
               /\ m # HeadNode => hq[m] \in Nodes /\ hq[m].key = hp[m].key /\ hq[m].value = hp[m].value
      BY <2>2, WithoutNodes
    <3> HIDE DEF hq
    <3>2. QED
      BY <3>1 DEF hq
  <2>14. \A m \in DOMAIN hp \ {b, HeadNode} :
           /\ DeleteTurn(hp, k)[m].key = hp[m].key
           /\ DeleteTurn(hp, k)[m].value = hp[m].value
    BY <2>7, <2>13
  <2>15. Shape(DeleteTurn(hp, k), PlacesWithout(pos, b)) /\ DOMAIN DeleteTurn(hp, k) = DOMAIN hp \ {b}
    BY <2>7, <2>12, <2>13
  <2>16. QED
    BY <2>1, <2>14, <2>15
<1>5. QED
  BY <1>3, <1>4

-----------------------------------------------------------------------------
(***************************************************************************)
(* The turns of a delete.                                                  *)
(***************************************************************************)

IsTurns(g, m, k) == g = [i \in 0 .. m |-> IF i = 0 THEN heap ELSE DeleteTurn(g[i - 1], k)]

\* The recursive definition of the turns has a solution of any length.
LEMMA TurnsExist ==
  ASSUME NEW k, NEW m \in Nat
  PROVE  \E g : IsTurns(g, m, k)
<1> DEFINE D == { i \in Nat : ~ \E g : IsTurns(g, i, k) }
<1> SUFFICES ASSUME D # {} PROVE FALSE
  OBVIOUS
<1>1. PICK i \in D : \A j \in D : i <= j
  BY LeastNatural
<1>2. CASE i = 0
  <2>1. IsTurns([n \in 0 .. 0 |-> heap], 0, k)
    BY DEF IsTurns
  <2>2. QED
    BY <1>1, <1>2, <2>1
<1>3. CASE i # 0
  <2>1. i - 1 \in Nat /\ i - 1 \notin D
    BY <1>1, <1>3
  <2>2. PICK f : IsTurns(f, i - 1, k)
    BY <2>1
  <2> DEFINE next == DeleteTurn(f[i - 1], k)
             g == [n \in 0 .. i |-> IF n = i THEN next ELSE f[n]]
  <2> HIDE DEF next
  <2>3. \A n \in 0 .. (i - 1) : f[n] = IF n = 0 THEN heap ELSE DeleteTurn(f[n - 1], k)
    BY <2>2 DEF IsTurns
  <2>4. ASSUME NEW n \in 0 .. i
        PROVE  g[n] = IF n = 0 THEN heap ELSE DeleteTurn(g[n - 1], k)
    <3>1. n # 0 => n - 1 \in 0 .. (i - 1) /\ g[n - 1] = f[n - 1]
      BY <1>1
    <3>2. CASE n = i
      BY <1>3, <3>1, <3>2 DEF next
    <3>3. CASE n # i
      <4>1. n \in 0 .. (i - 1) /\ g[n] = f[n]
        BY <1>1, <3>3
      <4>2. QED
        BY <2>3, <3>1, <4>1
    <3>4. QED
      BY <3>2, <3>3
  <2>5. g = [n \in 0 .. i |-> g[n]]
    OBVIOUS
  <2> HIDE DEF g
  <2>6. g = [n \in 0 .. i |-> IF n = 0 THEN heap ELSE DeleteTurn(g[n - 1], k)]
    BY <2>4, <2>5
  <2>7. QED
    BY <1>1, <2>6 DEF IsTurns
<1>4. QED
  BY <1>2, <1>3

\* What i turns have left: some first nodes of the block are gone, as many as
\* there were turns or all of them.
GoodTurn(hq, i, k) ==
  /\ \E new : Shape(hq, new)
  /\ DOMAIN hq \subseteq DOMAIN heap
  /\ DOMAIN heap \ KeyBlock(heap, k) \subseteq DOMAIN hq
  /\ \A m \in DOMAIN hq \ {HeadNode} : hq[m].key = heap[m].key /\ hq[m].value = heap[m].value
  /\ KeyBlock(heap, k) = {} => hq = heap
  /\ KeyBlock(hq, k) # {} =>
       Cardinality(KeyBlock(hq, k)) + i = Cardinality(KeyBlock(heap, k))

LEMMA BlockFinite ==
  ASSUME NEW hp, IsFiniteSet(DOMAIN hp), NEW k
  PROVE  IsFiniteSet(KeyBlock(hp, k)) /\ Cardinality(KeyBlock(hp, k)) \in Nat
<1>1. KeyBlock(hp, k) \subseteq DOMAIN hp
  BY DEF KeyBlock
<1>2. QED
  BY <1>1, FS_Subset, FS_CardinalityType

LEMMA TurnGood ==
  ASSUME IsFiniteSet(DOMAIN heap), NEW k \in Int, NEW i \in Nat, NEW hq, GoodTurn(hq, i, k)
  PROVE  GoodTurn(DeleteTurn(hq, k), i + 1, k)
<1> DEFINE hr == DeleteTurn(hq, k)
<1>1. PICK pos : Shape(hq, pos)
  BY DEF GoodTurn
<1>2. /\ KeyBlock(hq, k) = {} => hr = hq
      /\ KeyBlock(hq, k) # {} =>
           \E b \in KeyBlock(hq, k) : \E new :
             /\ Shape(hr, new)
             /\ DOMAIN hr = DOMAIN hq \ {b}
             /\ \A m \in DOMAIN hq \ {b, HeadNode} :
                  hr[m].key = hq[m].key /\ hr[m].value = hq[m].value
  BY <1>1, DeleteTurnIs
<1> HIDE DEF hr
<1>3. CASE KeyBlock(hq, k) = {}
  BY <1>2, <1>3 DEF GoodTurn, hr
<1>4. CASE KeyBlock(hq, k) # {}
  <2>1. PICK b \in KeyBlock(hq, k) :
          \E new :
             /\ Shape(hr, new)
             /\ DOMAIN hr = DOMAIN hq \ {b}
             /\ \A m \in DOMAIN hq \ {b, HeadNode} :
                  hr[m].key = hq[m].key /\ hr[m].value = hq[m].value
    BY <1>2, <1>4
  <2>2. b \in DOMAIN hq \ {HeadNode} /\ hq[b].key = k /\ heap[b].key = k /\ b \in DOMAIN heap
    BY DEF KeyBlock, GoodTurn
  <2>3. KeyBlock(hr, k) = KeyBlock(hq, k) \ {b}
    BY <2>1 DEF KeyBlock
  <2>4. IsFiniteSet(DOMAIN hq)
    BY FS_Subset DEF GoodTurn
  <2>5. IsFiniteSet(KeyBlock(hq, k)) /\ Cardinality(KeyBlock(hq, k)) \in Nat
    BY <2>4, BlockFinite
  <2>6. Cardinality(KeyBlock(hr, k)) = Cardinality(KeyBlock(hq, k)) - 1
    BY <2>3, <2>5, FS_RemoveElement
  <2>7. Cardinality(KeyBlock(hq, k)) + i = Cardinality(KeyBlock(heap, k))
    BY <1>4 DEF GoodTurn
  <2>8. Cardinality(KeyBlock(hr, k)) + (i + 1) = Cardinality(KeyBlock(heap, k))
    BY <2>5, <2>6, <2>7
  <2>9. DOMAIN hr \subseteq DOMAIN heap /\ DOMAIN heap \ KeyBlock(heap, k) \subseteq DOMAIN hr
    <3>1. b \in KeyBlock(heap, k)
      BY <2>2 DEF KeyBlock
    <3>2. QED
      BY <2>1, <3>1 DEF GoodTurn
  <2>10. \A m \in DOMAIN hr \ {HeadNode} : hr[m].key = heap[m].key /\ hr[m].value = heap[m].value
    BY <2>1 DEF GoodTurn
  <2>11. KeyBlock(heap, k) # {}
    BY <2>2 DEF KeyBlock
  <2>12. \E new : Shape(hr, new)
    BY <2>1
  <2>13. GoodTurn(hr, i + 1, k)
    BY <2>8, <2>9, <2>10, <2>11, <2>12 DEF GoodTurn
  <2>14. QED
    BY <2>13 DEF hr
<1>5. QED
  BY <1>3, <1>4

\* A delete takes out the nodes of the block of its key, all of them and no
\* other, and leaves the shape of a skip list.
LEMMA AfterDeleteIs ==
  ASSUME NEW pos, Shape(heap, pos), IsFiniteSet(DOMAIN heap), NEW k \in Int
  PROVE  /\ \E new : Shape(AfterDelete(k), new)
         /\ DOMAIN AfterDelete(k) = DOMAIN heap \ KeyBlock(heap, k)
         /\ \A m \in DOMAIN AfterDelete(k) \ {HeadNode} :
              /\ AfterDelete(k)[m].key = heap[m].key
              /\ AfterDelete(k)[m].value = heap[m].value
         /\ KeyBlock(heap, k) = {} => AfterDelete(k) = heap
<1> DEFINE n == Cardinality(Live)
           turn == CHOOSE g : IsTurns(g, n, k)
<1>1. IsFiniteSet(Live) /\ n \in Nat
  <2>1. Live \subseteq DOMAIN heap
    BY DEF Live
  <2>2. QED
    BY <2>1, FS_Subset, FS_CardinalityType
<1>2. AfterDelete(k) = turn[n]
  BY DEF AfterDelete, IsTurns
<1>3. IsTurns(turn, n, k)
  BY <1>1, TurnsExist
<1> HIDE DEF turn, n
<1>4. \A i \in 0 .. n : turn[i] = IF i = 0 THEN heap ELSE DeleteTurn(turn[i - 1], k)
  BY <1>3 DEF IsTurns
<1>5. GoodTurn(heap, 0, k)
  <2>1. Cardinality(KeyBlock(heap, k)) \in Nat
    BY BlockFinite
  <2>2. Cardinality(KeyBlock(heap, k)) + 0 = Cardinality(KeyBlock(heap, k))
    BY <2>1
  <2>3. QED
    BY <2>2 DEF GoodTurn
<1> DEFINE bad == { i \in 0 .. n : ~GoodTurn(turn[i], i, k) }
<1>6. ASSUME bad # {} PROVE FALSE
  <2>1. bad \in SUBSET Nat
    BY <1>1
  <2>2. PICK i \in bad : \A j \in bad : i <= j
    BY <1>6, <2>1, LeastNatural
  <2>3. i \in 0 .. n
    OBVIOUS
  <2>4. CASE i = 0
    <3>1. turn[0] = heap
      BY <1>4, <2>3, <2>4
    <3>2. QED
      BY <1>5, <2>2, <2>4, <3>1
  <2>5. CASE i # 0
    <3>1. i - 1 \in 0 .. n /\ i - 1 \in Nat /\ ~(i <= i - 1) /\ (i - 1) + 1 = i
      BY <1>1, <2>3, <2>5
    <3>2. GoodTurn(turn[i - 1], i - 1, k)
      BY <2>2, <3>1
    <3>3. GoodTurn(DeleteTurn(turn[i - 1], k), i, k)
      BY <3>1, <3>2, TurnGood
    <3>4. turn[i] = DeleteTurn(turn[i - 1], k)
      BY <1>4, <2>3, <2>5
    <3>5. QED
      BY <2>2, <3>3, <3>4
  <2>6. QED
    BY <2>4, <2>5
<1> DEFINE hq == turn[n]
<1>7. GoodTurn(hq, n, k)
  BY <1>1, <1>6
<1> HIDE DEF hq
<1>8. KeyBlock(hq, k) = {}
  <2> SUFFICES ASSUME KeyBlock(hq, k) # {} PROVE FALSE
    OBVIOUS
  <2>1. Cardinality(KeyBlock(hq, k)) + n = Cardinality(KeyBlock(heap, k))
    BY <1>7 DEF GoodTurn
  <2>2. KeyBlock(heap, k) \subseteq Live
    BY DEF KeyBlock, Live
  <2>3. Cardinality(KeyBlock(heap, k)) <= n /\ Cardinality(KeyBlock(heap, k)) \in Nat
    BY <1>1, <2>2, FS_Subset, FS_CardinalityType DEF n
  <2>4. IsFiniteSet(DOMAIN hq)
    BY <1>7, FS_Subset DEF GoodTurn
  <2>5. IsFiniteSet(KeyBlock(hq, k)) /\ Cardinality(KeyBlock(hq, k)) \in Nat
    BY <2>4, BlockFinite
  <2>6. Cardinality(KeyBlock(hq, k)) = 0
    BY <1>1, <2>1, <2>3, <2>5
  <2>7. QED
    BY <2>5, <2>6, FS_EmptySet
<1>9. DOMAIN hq = DOMAIN heap \ KeyBlock(heap, k)
  <2>1. DOMAIN hq \subseteq DOMAIN heap /\ DOMAIN heap \ KeyBlock(heap, k) \subseteq DOMAIN hq
    BY <1>7 DEF GoodTurn
  <2>2. ASSUME NEW m \in DOMAIN hq PROVE m \notin KeyBlock(heap, k)
    BY <1>7, <1>8 DEF GoodTurn, KeyBlock
  <2>3. QED
    BY <2>1, <2>2
<1>10. AfterDelete(k) = hq
  BY <1>2 DEF hq
<1>11. QED
  BY <1>7, <1>9, <1>10 DEF GoodTurn

-----------------------------------------------------------------------------
(***************************************************************************)
(* The nodes of a level as a sequence.                                     *)
(***************************************************************************)
FromBody(g, hp, m, h) == IF m = Null THEN << >> ELSE <<m>> \o g[hp[m].next[h]]

\* The nodes of level h from place i on.
FromPlace(hp, pos, h, i) == { m \in OnLevel(hp, h) : pos[m] >= i }

IsFromPlace(g, hp, pos, h, i) ==
  g = [m \in FromPlace(hp, pos, h, i) \cup {Null} |-> FromBody(g, hp, m, h)]

IsFrom(g, hp, h) == g = [m \in OnLevel(hp, h) \cup {Null} |-> FromBody(g, hp, m, h)]

\* The recursive definition of the nodes from a node on has a solution.
LEMMA FromExists ==
  ASSUME NEW hp, NEW pos, Shape(hp, pos), NEW h \in Levels
  PROVE  \E g : IsFrom(g, hp, h)
<1>1. PICK bound \in Nat : pos \in [DOMAIN hp -> 0 .. bound]
  BY DEF Shape, Places
<1>2. \A m \in OnLevel(hp, h) : m \in DOMAIN hp /\ pos[m] \in Nat /\ pos[m] <= bound /\ m # Null
  BY <1>1, ShapeFacts DEF OnLevel
<1> DEFINE top == bound + 1
           D == { j \in Nat : j <= top /\ ~ \E g : IsFromPlace(g, hp, pos, h, top - j) }
<1>3. ASSUME D # {} PROVE FALSE
  <2>1. PICK j \in D : \A i \in D : j <= i
    BY <1>3, LeastNatural
  <2>2. CASE j = 0
    <3> DEFINE g == [m \in {Null} |-> << >>]
    <3>1. FromPlace(hp, pos, h, top - j) = {}
      BY <1>2, <2>2 DEF FromPlace
    <3>2. FromPlace(hp, pos, h, top - j) \cup {Null} = {Null}
      BY <3>1
    <3>3. \A m \in {Null} : FromBody(g, hp, m, h) = << >>
      BY DEF FromBody
    <3>4. g = [m \in {Null} |-> FromBody(g, hp, m, h)]
      BY <3>3
    <3> HIDE DEF g
    <3>5. IsFromPlace(g, hp, pos, h, top - j)
      BY <3>2, <3>4 DEF IsFromPlace
    <3>6. QED
      BY <2>1, <3>5
  <2>3. CASE j # 0
    <3> DEFINE l == top - j
    <3>1. l \in Nat /\ j - 1 \in Nat /\ j - 1 <= top /\ top - (j - 1) = l + 1 /\ j - 1 \notin D
      BY <1>1, <2>1, <2>3
    <3>2. PICK f : IsFromPlace(f, hp, pos, h, l + 1)
      BY <3>1
    <3> HIDE DEF l
    <3> DEFINE old == FromPlace(hp, pos, h, l + 1) \cup {Null}
               all == FromPlace(hp, pos, h, l) \cup {Null}
               g == [m \in all |-> IF m \in old THEN f[m] ELSE FromBody(f, hp, m, h)]
    <3>3. old \subseteq all
      BY <1>2, <3>1 DEF FromPlace
    <3>4. \A m \in all : m # Null => m \in OnLevel(hp, h) /\ pos[m] >= l
      BY DEF FromPlace
    <3>5. \A m \in OnLevel(hp, h) : pos[m] > l => m \in old
      BY <1>2, <3>1 DEF FromPlace
    <3>6. \A m \in all : m # Null => hp[m].next[h] \in old
      <4> SUFFICES ASSUME NEW m \in all, m # Null, hp[m].next[h] # Null PROVE hp[m].next[h] \in old
        OBVIOUS
      <4>1. m \in OnLevel(hp, h) /\ pos[m] >= l
        BY <3>4
      <4>2. hp[m].next[h] \in OnLevel(hp, h) /\ pos[m] < pos[hp[m].next[h]]
        BY <4>1, NextIs
      <4>3. pos[hp[m].next[h]] > l
        BY <1>2, <3>1, <4>1, <4>2
      <4>4. QED
        BY <3>5, <4>2, <4>3
    <3>7. \A m \in old : f[m] = FromBody(f, hp, m, h)
      BY <3>2 DEF IsFromPlace
    <3>8. Null \in old
      OBVIOUS
    <3> HIDE DEF old, all
    <3>9. g = [m \in all |-> g[m]] /\ \A m \in old : g[m] = f[m]
      BY <3>3
    <3>10. \A m \in all : g[m] = FromBody(f, hp, m, h)
      BY <3>7
    <3> HIDE DEF g
    <3>11. ASSUME NEW m \in all PROVE g[m] = FromBody(g, hp, m, h)
      <4>1. m # Null => g[hp[m].next[h]] = f[hp[m].next[h]]
        BY <3>6, <3>9
      <4>2. QED
        BY <3>10, <4>1 DEF FromBody
    <3>12. IsFromPlace(g, hp, pos, h, l)
      BY <3>9, <3>11 DEF IsFromPlace, all
    <3>13. QED
      BY <2>1, <3>12 DEF l
  <2>4. QED
    BY <2>2, <2>3
<1>4. top \in Nat /\ top <= top /\ top - top = 0
  OBVIOUS
<1>5. PICK g : IsFromPlace(g, hp, pos, h, 0)
  BY <1>3, <1>4
<1>6. FromPlace(hp, pos, h, 0) = OnLevel(hp, h)
  BY <1>2 DEF FromPlace
<1>7. QED
  BY <1>5, <1>6 DEF IsFrom, IsFromPlace

\* q is what level h holds from n on, in the order of the places.
ListsFrom(hp, pos, n, h, q) ==
  /\ q \in Seq(OnLevel(hp, h))
  /\ \A i \in 1 .. Len(q) : n # Null /\ pos[n] <= pos[q[i]]
  /\ n # Null => \A x \in OnLevel(hp, h) : pos[n] <= pos[x] => \E i \in 1 .. Len(q) : q[i] = x
  /\ \A i, j \in 1 .. Len(q) : i < j => pos[q[i]] < pos[q[j]]

LEMMA ListsFromNext ==
  ASSUME NEW hp, NEW pos, Shape(hp, pos), NEW h \in Levels, NEW m \in OnLevel(hp, h),
         NEW r, ListsFrom(hp, pos, hp[m].next[h], h, r)
  PROVE  ListsFrom(hp, pos, m, h, <<m>> \o r)
<1> DEFINE s == hp[m].next[h]
           q == <<m>> \o r
<1>1. \A x \in OnLevel(hp, h) : x \in DOMAIN hp /\ pos[x] \in Nat
  BY ShapeFacts DEF OnLevel
<1>2. m # Null
  BY <1>1, ShapeFacts
<1>3. r \in Seq(OnLevel(hp, h)) /\ Len(r) \in Nat /\ \A i \in 1 .. Len(r) : r[i] \in OnLevel(hp, h)
  BY SequenceElement, SequenceDomain DEF ListsFrom
<1>4. /\ q \in Seq(OnLevel(hp, h)) /\ Len(q) = Len(r) + 1 /\ q[1] = m
      /\ \A i \in 1 .. Len(r) : q[i + 1] = r[i]
  BY <1>3, Preceded
<1> HIDE DEF q
<1>5. \A i \in 1 .. Len(q) : i # 1 => i - 1 \in 1 .. Len(r) /\ q[i] = r[i - 1]
  <2> SUFFICES ASSUME NEW i \in 1 .. Len(q), i # 1
               PROVE  i - 1 \in 1 .. Len(r) /\ q[i] = r[i - 1]
    OBVIOUS
  <2>1. i - 1 \in 1 .. Len(r) /\ (i - 1) + 1 = i
    BY <1>3, <1>4
  <2>2. q[(i - 1) + 1] = r[i - 1]
    BY <1>4, <2>1
  <2>3. QED
    BY <2>1, <2>2
<1>6. \A i \in 1 .. Len(r) : s # Null /\ pos[s] <= pos[r[i]] /\ pos[m] < pos[r[i]]
  <2> SUFFICES ASSUME NEW i \in 1 .. Len(r)
               PROVE  s # Null /\ pos[s] <= pos[r[i]] /\ pos[m] < pos[r[i]]
    OBVIOUS
  <2>1. s # Null /\ pos[s] <= pos[r[i]]
    BY DEF ListsFrom
  <2>2. s \in OnLevel(hp, h) /\ pos[m] < pos[s]
    BY <2>1, NextIs
  <2>3. QED
    BY <1>1, <1>3, <2>1, <2>2
<1>7. ASSUME NEW i \in 1 .. Len(q) PROVE pos[m] <= pos[q[i]]
  <2>1. CASE i = 1
    BY <1>1, <1>4, <2>1
  <2>2. CASE i # 1
    <3>1. i - 1 \in 1 .. Len(r) /\ q[i] = r[i - 1]
      BY <1>5, <2>2
    <3>2. pos[m] < pos[r[i - 1]]
      BY <1>6, <3>1
    <3>3. r[i - 1] \in OnLevel(hp, h)
      BY <1>3, <3>1
    <3>4. pos[m] \in Nat /\ pos[r[i - 1]] \in Nat
      BY <1>1, <3>3
    <3>5. QED
      BY <3>1, <3>2, <3>4
  <2>3. QED
    BY <2>1, <2>2
<1>8. ASSUME NEW x \in OnLevel(hp, h), pos[m] <= pos[x] PROVE \E i \in 1 .. Len(q) : q[i] = x
  <2>1. CASE x = m
    <3>1. 1 \in 1 .. Len(q)
      BY <1>3, <1>4
    <3>2. QED
      BY <1>4, <2>1, <3>1
  <2>2. CASE x # m
    <3>1. pos[x] # pos[m]
      BY <1>1, <2>2, ShapeFacts
    <3>2. ~(pos[x] <= pos[m])
      BY <1>1, <1>8, <3>1
    <3>3. s # Null /\ pos[s] <= pos[x]
      BY <3>2, NextIs
    <3>4. PICK i \in 1 .. Len(r) : r[i] = x
      BY <3>3 DEF ListsFrom
    <3>5. i + 1 \in 1 .. Len(q) /\ q[i + 1] = x
      BY <1>3, <1>4, <3>4
    <3>6. QED
      BY <3>5
  <2>3. QED
    BY <2>1, <2>2
<1>9. ASSUME NEW i \in 1 .. Len(q), NEW j \in 1 .. Len(q), i < j PROVE pos[q[i]] < pos[q[j]]
  <2>1. j # 1 /\ j - 1 \in 1 .. Len(r) /\ q[j] = r[j - 1]
    BY <1>5, <1>9
  <2>2. CASE i = 1
    BY <1>4, <1>6, <2>1, <2>2
  <2>3. CASE i # 1
    <3>1. i - 1 \in 1 .. Len(r) /\ q[i] = r[i - 1] /\ i - 1 < j - 1
      BY <1>5, <1>9, <2>3
    <3>2. pos[r[i - 1]] < pos[r[j - 1]]
      BY <2>1, <3>1 DEF ListsFrom
    <3>3. QED
      BY <2>1, <3>1, <3>2
  <2>4. QED
    BY <2>2, <2>3
<1>10. ListsFrom(hp, pos, m, h, q)
  BY <1>2, <1>4, <1>7, <1>8, <1>9 DEF ListsFrom
<1>11. QED
  BY <1>10 DEF q

LEMMA FromIs ==
  ASSUME NEW hp, NEW pos, Shape(hp, pos), NEW h \in Levels, NEW n \in OnLevel(hp, h) \cup {Null}
  PROVE  ListsFrom(hp, pos, n, h, From(hp, n, h))
<1> DEFINE from == CHOOSE g : IsFrom(g, hp, h)
<1>1. IsFrom(from, hp, h)
  BY FromExists
<1>2. From(hp, n, h) = from[n]
  BY DEF From, IsFrom, FromBody
<1> HIDE DEF from
<1>3. \A m \in OnLevel(hp, h) \cup {Null} : from[m] = FromBody(from, hp, m, h)
  BY <1>1 DEF IsFrom
<1>4. PICK bound \in Nat : pos \in [DOMAIN hp -> 0 .. bound]
  BY DEF Shape, Places
<1>5. \A m \in OnLevel(hp, h) : m \in DOMAIN hp /\ pos[m] \in Nat /\ pos[m] <= bound /\ m # Null
  BY <1>4, ShapeFacts DEF OnLevel
<1>6. ListsFrom(hp, pos, Null, h, from[Null])
  <2>1. from[Null] = << >>
    BY <1>3 DEF FromBody
  <2>2. << >> \in Seq(OnLevel(hp, h)) /\ Len(<< >>) = 0 /\ 1 .. 0 = {}
    OBVIOUS
  <2>3. QED
    BY <2>1, <2>2 DEF ListsFrom
<1> DEFINE bad == { m \in OnLevel(hp, h) : ~ListsFrom(hp, pos, m, h, from[m]) }
           D == { pos[m] : m \in bad }
<1>7. ASSUME bad # {} PROVE FALSE
  <2>1. D \in SUBSET Nat /\ D # {} /\ \A d \in D : d <= bound
    BY <1>5, <1>7
  <2>2. PICK d \in D : \A f \in D : f <= d
    BY <2>1, GreatestNatural
  <2>3. PICK m \in bad : d = pos[m]
    BY <2>2
  <2> DEFINE s == hp[m].next[h]
  <2>4. s # Null => s \in OnLevel(hp, h) /\ pos[m] < pos[s]
    BY <2>3, NextIs
  <2>5. s # Null => s \notin bad
    <3> SUFFICES ASSUME s # Null, s \in bad PROVE FALSE
      OBVIOUS
    <3>1. pos[s] \in D
      OBVIOUS
    <3>2. pos[s] <= pos[m]
      BY <2>2, <2>3, <3>1
    <3>3. QED
      BY <1>5, <2>3, <2>4, <3>2
  <2>6. ListsFrom(hp, pos, s, h, from[s])
    BY <1>6, <2>4, <2>5
  <2>7. from[m] = <<m>> \o from[s]
    BY <1>3, <1>5, <2>3 DEF FromBody
  <2>8. ListsFrom(hp, pos, m, h, <<m>> \o from[s])
    BY <2>6, ListsFromNext
  <2>9. QED
    BY <2>3, <2>7, <2>8
<1>8. QED
  BY <1>2, <1>6, <1>7

\* A level is the nodes that are tall enough, in the order of their places.
LEMMA LevelIs ==
  ASSUME NEW pos, Shape(heap, pos), NEW h \in Levels
  PROVE  /\ DOMAIN Level(h) = 1 .. Len(Level(h)) /\ Len(Level(h)) \in Nat
         /\ \A i \in DOMAIN Level(h) : Level(h)[i] \in OnLevel(heap, h) \ {HeadNode}
         /\ Range(Level(h)) = OnLevel(heap, h) \ {HeadNode}
         /\ \A i, j \in DOMAIN Level(h) : i < j => pos[Level(h)[i]] < pos[Level(h)[j]]
<1> DEFINE s == heap[HeadNode].next[h]
           q == From(heap, s, h)
<1>1. Level(h) = q
  BY ShapeFacts DEF Level, Open
<1>2. HeadNode \in OnLevel(heap, h) /\ pos[HeadNode] = 0
  BY LevelFacts, ShapeFacts
<1>3. /\ s = Null => \A n \in OnLevel(heap, h) : pos[n] <= 0
      /\ s # Null => /\ s \in OnLevel(heap, h) /\ 0 < pos[s]
                     /\ \A n \in OnLevel(heap, h) : pos[n] <= 0 \/ pos[s] <= pos[n]
  BY <1>2, NextIs
<1>4. ListsFrom(heap, pos, s, h, q)
  BY <1>3, FromIs
<1> HIDE DEF q
<1>5. \A n \in OnLevel(heap, h) : n \in DOMAIN heap /\ pos[n] \in Nat /\ (n # HeadNode => pos[n] > 0)
  BY ShapeFacts DEF OnLevel
<1>6. DOMAIN q = 1 .. Len(q) /\ Len(q) \in Nat /\ \A i \in 1 .. Len(q) : q[i] \in OnLevel(heap, h)
  BY <1>4, SequenceDomain, SequenceElement DEF ListsFrom
<1>7. ASSUME NEW i \in 1 .. Len(q) PROVE q[i] # HeadNode
  <2>1. s # Null /\ pos[s] <= pos[q[i]]
    BY <1>4 DEF ListsFrom
  <2>2. 0 < pos[s] /\ pos[s] \in Nat
    BY <1>3, <1>5, <2>1
  <2>3. QED
    BY <1>2, <1>5, <1>6, <2>1, <2>2
<1>8. ASSUME NEW n \in OnLevel(heap, h) \ {HeadNode} PROVE \E i \in 1 .. Len(q) : q[i] = n
  <2>1. pos[n] > 0 /\ pos[n] \in Nat
    BY <1>5
  <2>2. s # Null /\ pos[s] <= pos[n]
    BY <1>3, <2>1
  <2>3. QED
    BY <1>4, <2>2 DEF ListsFrom
<1>9. Range(q) = OnLevel(heap, h) \ {HeadNode}
  BY <1>6, <1>7, <1>8 DEF Range
<1>10. \A i, j \in DOMAIN q : i < j => pos[q[i]] < pos[q[j]]
  BY <1>4, <1>6 DEF ListsFrom
<1>11. QED
  BY <1>1, <1>6, <1>7, <1>9, <1>10

LEMMA BottomIs ==
  ASSUME NEW pos, Shape(heap, pos)
  PROVE  /\ Range(Level(0)) = Live
         /\ \A n \in Live : Place(n) \in DOMAIN Level(0) /\ Level(0)[Place(n)] = n
         /\ DOMAIN Level(0) \subseteq Nat
         /\ \A i \in DOMAIN Level(0) : Level(0)[i] \in Live
<1>1. 0 \in Levels
  BY LevelsNumbered
<1>2. OnLevel(heap, 0) \ {HeadNode} = Live
  BY LevelFacts DEF Live
<1>3. /\ DOMAIN Level(0) = 1 .. Len(Level(0)) /\ Len(Level(0)) \in Nat
      /\ \A i \in DOMAIN Level(0) : Level(0)[i] \in Live
      /\ Range(Level(0)) = Live
  BY <1>1, <1>2, LevelIs
<1>4. ASSUME NEW n \in Live PROVE \E i \in DOMAIN Level(0) : Level(0)[i] = n
  <2>1. n \in Range(Level(0))
    BY <1>3
  <2>2. QED
    BY <2>1 DEF Range
<1>5. \A n \in Live : Place(n) \in DOMAIN Level(0) /\ Level(0)[Place(n)] = n
  BY <1>4 DEF Place
<1>6. QED
  BY <1>3, <1>5

\* The nodes come in the list as their places do.
LEMMA PlaceOrder ==
  ASSUME NEW pos, Shape(heap, pos), NEW m \in Live, NEW n \in Live
  PROVE  /\ Place(m) < Place(n) <=> pos[m] < pos[n]
         /\ Place(m) <= Place(n) <=> pos[m] <= pos[n]
<1> DEFINE i == Place(m)
           j == Place(n)
<1>1. 0 \in Levels
  BY LevelsNumbered
<1>2. /\ i \in DOMAIN Level(0) /\ Level(0)[i] = m
      /\ j \in DOMAIN Level(0) /\ Level(0)[j] = n
      /\ DOMAIN Level(0) \subseteq Nat
  BY BottomIs
<1>3. \A a, b \in DOMAIN Level(0) : a < b => pos[Level(0)[a]] < pos[Level(0)[b]]
  BY <1>1, LevelIs
<1>4. pos[m] \in Nat /\ pos[n] \in Nat
  BY ShapeFacts DEF Live
<1> HIDE DEF i, j
<1>5. (i < j => pos[m] < pos[n]) /\ (j < i => pos[n] < pos[m]) /\ (i = j => m = n)
  BY <1>2, <1>3
<1>6. i \in Nat /\ j \in Nat
  BY <1>2
<1>7. i < j <=> pos[m] < pos[n]
  BY <1>4, <1>5, <1>6
<1>8. i <= j <=> pos[m] <= pos[n]
  BY <1>4, <1>5, <1>6
<1>9. QED
  BY <1>7, <1>8 DEF i, j

-----------------------------------------------------------------------------
(***************************************************************************)
(* What the shape says of the list.                                        *)
(***************************************************************************)

LEMMA ShapeNested ==
  ASSUME NEW pos, Shape(heap, pos)
  PROVE  LevelsNested
<1>1. 0 \in Levels /\ OnLevel(heap, 0) = DOMAIN heap
  BY LevelsNumbered, LevelFacts
<1>2. ASSUME NEW h \in Levels
      PROVE  Range(Level(h)) = { n \in Range(Level(0)) : height(n) >= h }
  <2>1. Range(Level(h)) = OnLevel(heap, h) \ {HeadNode} /\ Range(Level(0)) = Live
    BY LevelIs, BottomIs
  <2>2. ASSUME NEW n \in Live PROVE n \in OnLevel(heap, h) <=> height(n) >= h
    <3>1. height(n) \in Levels /\ DOMAIN heap[n].next = 0 .. height(n)
      BY HeightIs DEF height, Live
    <3>2. h \in Nat /\ height(n) \in Nat
      BY <3>1, LevelsNumbered
    <3>3. QED
      BY <3>1, <3>2 DEF OnLevel, Live
  <2>3. OnLevel(heap, h) \ {HeadNode} \subseteq Live
    BY DEF OnLevel, Live
  <2>4. QED
    BY <2>1, <2>2, <2>3 DEF Live
<1>3. ASSUME NEW h \in Levels, NEW i \in DOMAIN Level(h), NEW j \in DOMAIN Level(h), i < j
      PROVE  Place(Level(h)[i]) < Place(Level(h)[j])
  <2>1. pos[Level(h)[i]] < pos[Level(h)[j]]
    BY <1>3, LevelIs
  <2>2. Level(h)[i] \in Live /\ Level(h)[j] \in Live
    BY LevelIs DEF OnLevel, Live
  <2>3. QED
    BY <2>1, <2>2, PlaceOrder
<1>4. ASSUME NEW i \in DOMAIN Level(0), NEW j \in DOMAIN Level(0), i < j
      PROVE  heap[Level(0)[i]].key <= heap[Level(0)[j]].key
  <2>1. pos[Level(0)[i]] < pos[Level(0)[j]]
    BY <1>1, <1>4, LevelIs
  <2>2. Level(0)[i] \in Live /\ Level(0)[j] \in Live
    BY BottomIs
  <2>3. QED
    BY <2>1, <2>2, ShapeFacts DEF Live
<1>5. QED
  BY <1>2, <1>3, <1>4 DEF LevelsNested

LEMMA ShapeFindsFirst ==
  ASSUME NEW pos, Shape(heap, pos)
  PROVE  FindsFirst
<1> SUFFICES ASSUME NEW k \in Keys
             PROVE  LET n == sl_find_node(heap, k)
                        smaller == { m \in Range(Level(0)) : heap[m].key < k }
                        block == { m \in Range(Level(0)) : heap[m].key = k }
                    IN IF block # {}
                         THEN n \in block /\ \A m \in block : Place(n) <= Place(m)
                         ELSE IF smaller = {} THEN n = HeadNode
                              ELSE n \in smaller /\ \A m \in smaller : Place(m) <= Place(n)
  BY DEF FindsFirst
<1> DEFINE n == sl_find_node(heap, k)
           smaller == { m \in Live : heap[m].key < k }
           block == { m \in Live : heap[m].key = k }
<1>1. k \in Int
  BY KeysAssumption
<1>2. IsFound(heap, pos, k, n)
  BY <1>1, FindNode
<1> HIDE DEF n
<1>3. Range(Level(0)) = Live /\ block = KeyBlock(heap, k)
  BY BottomIs DEF Live, KeyBlock
<1>4. CASE block # {}
  <2>1. n \in block /\ \A m \in block : pos[n] <= pos[m]
    BY <1>2, <1>3, <1>4 DEF IsFound
  <2>2. \A m \in block : Place(n) <= Place(m)
    BY <2>1, PlaceOrder
  <2>3. QED
    BY <1>3, <1>4, <2>1, <2>2 DEF n
<1>5. CASE block = {}
  <2>1. /\ n \in DOMAIN heap /\ (n # HeadNode => heap[n].key < k)
        /\ \A m \in Live : heap[m].key < k => pos[m] <= pos[n]
    BY <1>2, <1>3, <1>5 DEF IsFound, Live
  <2>2. n # HeadNode => n \in smaller
    BY <2>1 DEF Live
  <2>3. CASE smaller = {}
    BY <1>3, <1>5, <2>2, <2>3 DEF n
  <2>4. CASE smaller # {}
    <3>1. PICK m \in smaller : TRUE
      BY <2>4
    <3>2. pos[m] > 0 /\ pos[m] \in Nat /\ pos[HeadNode] = 0 /\ m \in Live
      BY ShapeFacts DEF Live
    <3>3. pos[m] <= pos[n]
      BY <2>1, <3>2
    <3>4. n # HeadNode
      BY <3>2, <3>3
    <3>5. n \in smaller /\ \A x \in smaller : Place(x) <= Place(n)
      BY <2>1, <2>2, <3>4, PlaceOrder
    <3>6. QED
      BY <1>3, <1>5, <2>4, <3>5 DEF n
  <2>5. QED
    BY <2>3, <2>4
<1>6. QED
  BY <1>4, <1>5

-----------------------------------------------------------------------------
(***************************************************************************)
(* What the invariant says.                                                *)
(***************************************************************************)

Results == [call: {"none", "insert", "update", "delete", "get"},
            key: Keys \cup {NoValue},
            err: {"err_ok", "err_item_not_found", "err_out_of_memory"},
            count: Nat,
            value: Values \cup {NoValue}]

Cursors == [status: CursorStatus \cup {"none", "undefined"}, pred: Predicate,
            current: Node \cup {Null}]

MemoryTyped ==
  /\ Live \subseteq Node
  /\ \A n \in Live : heap[n] \in Nodes
  /\ Open => heap[HeadNode] \in Linked

CursorTyped ==
  /\ cursor \in Cursors
  /\ trail \in Seq(Node)
  /\ atFind \subseteq Node /\ intact \in BOOLEAN

LEMMA TypeParts ==
  TypeOK <=> MemoryTyped /\ CursorTyped /\ result \in Results
  BY DEF TypeOK, MemoryTyped, CursorTyped, Results, Cursors, Linked

LEMMA TypePartsNext ==
  TypeOK' <=> MemoryTyped' /\ CursorTyped' /\ result' \in Results
  BY DEF TypeOK, MemoryTyped, CursorTyped, Results, Cursors, Linked

LEMMA AnswerTyped ==
  ASSUME NEW call \in {"none", "insert", "update", "delete", "get"}, NEW k \in Keys,
         NEW err \in {"err_ok", "err_item_not_found", "err_out_of_memory"}, NEW n \in Nat,
         NEW v \in Values \cup {NoValue}, Answer(call, k, err, n, v)
  PROVE  result' \in Results
  BY DEF Answer, Results

LEMMA ShapeTyped ==
  ASSUME NEW pos, Shape(heap, pos)
  PROVE  MemoryTyped
  BY DEF MemoryTyped, Shape, Live

LEMMA InvImplies ==
  ASSUME SLInv
  PROVE  TypeOK /\ LevelsNested /\ NothingLeaks /\ FindsFirst
<1>1. TypeOK
  BY DEF SLInv
<1>2. CASE Open
  <2>1. PICK pos : Shape(heap, pos)
    BY <1>2 DEF SLInv
  <2>2. NothingLeaks
    BY <2>1, BottomIs DEF NothingLeaks
  <2>3. QED
    BY <1>1, <2>1, <2>2, ShapeNested, ShapeFindsFirst
<1>3. CASE ~Open
  <2>1. Live = {} /\ Level(0) = << >>
    BY <1>3 DEF SLInv, Live, Level
  <2>2. Range(<< >>) = {}
    BY DEF Range
  <2>3. NothingLeaks
    BY <2>1, <2>2 DEF NothingLeaks
  <2>4. QED
    BY <1>1, <1>3, <2>3 DEF LevelsNested, FindsFirst
<1>4. QED
  BY <1>2, <1>3

\* While no record is deleted the cursor delivers in order, and in the end
\* everything it was opened for.
LEMMA InvOrders ==
  ASSUME SLInv
  PROVE  TraversalOrdered
<1> SUFFICES ASSUME intact PROVE
      /\ Range(trail) \subseteq Range(Level(0))
      /\ \A i, j \in DOMAIN trail : i < j => Place(trail[i]) < Place(trail[j])
      /\ \A n \in Range(trail) : test_predicate(cursor.pred, heap[n].key)
      /\ cursor.status = "cs_end_of_results" =>
           \A n \in atFind : test_predicate(cursor.pred, heap[n].key) => n \in Range(trail)
  BY DEF TraversalOrdered
<1>1. CASE cursor.status = "none"
  <2>1. trail = << >> /\ atFind = {}
    BY <1>1 DEF SLInv
  <2>2. DOMAIN trail = {} /\ Range(trail) = {}
    BY <2>1 DEF Range
  <2>3. QED
    BY <2>1, <2>2
<1>2. CASE cursor.status # "none"
  <2>1. Open
    BY <1>2 DEF SLInv
  <2>2. PICK pos : Shape(heap, pos) /\ CursorPlaced(pos)
    BY <2>1 DEF SLInv
  <2>3. /\ \A i \in DOMAIN trail : trail[i] \in Live /\ Satisfies(trail[i])
        /\ \A i, j \in DOMAIN trail : i < j => pos[trail[i]] < pos[trail[j]]
        /\ cursor.status = "cs_end_of_results" =>
             \A n \in atFind : Satisfies(n) => \E i \in DOMAIN trail : trail[i] = n
    BY <2>2 DEF CursorPlaced
  <2>4. Range(Level(0)) = Live
    BY <2>2, BottomIs
  <2>5. \A i, j \in DOMAIN trail : i < j => Place(trail[i]) < Place(trail[j])
    BY <2>2, <2>3, PlaceOrder
  <2>6. QED
    BY <2>3, <2>4, <2>5 DEF Range, Satisfies
<1>3. QED
  BY <1>1, <1>2

\* A cursor keeps its place when records are added and overwritten.
LEMMA CursorKept ==
  ASSUME NEW pos, CursorPlaced(pos), TypeOK, UNCHANGED cursorVars,
         \A m \in Live : m \in Live' /\ heap'[m].key = heap[m].key,
         NEW new, \A a, b \in Live : /\ pos[a] < pos[b] <=> new[a] < new[b]
                                     /\ pos[a] <= pos[b] <=> new[a] <= new[b]
  PROVE  CursorPlaced(new)'
<1>1. cursor' = cursor /\ trail' = trail /\ atFind' = atFind /\ intact' = intact
  BY DEF cursorVars
<1> SUFFICES ASSUME intact
             PROVE  /\ cursor.status # "undefined"
                    /\ atFind \subseteq Live'
                    /\ \A i \in DOMAIN trail : trail[i] \in Live' /\ Satisfies(trail[i])'
                    /\ \A i, j \in DOMAIN trail : i < j => new[trail[i]] < new[trail[j]]
                    /\ cursor.status = "cs_cursor_initialized" =>
                         /\ trail = << >>
                         /\ cursor.current \in Live' /\ Satisfies(cursor.current)'
                         /\ \A n \in atFind : Satisfies(n)' => new[cursor.current] <= new[n]
                    /\ cursor.status = "cs_cursor_active" =>
                         /\ Len(trail) # 0
                         /\ cursor.current # Null =>
                              /\ cursor.current \in Live'
                              /\ \A i \in DOMAIN trail : new[trail[i]] < new[cursor.current]
                         /\ \A n \in atFind :
                              Satisfies(n)' /\ (cursor.current # Null => new[n] < new[cursor.current])
                                => \E i \in DOMAIN trail : trail[i] = n
                    /\ cursor.status = "cs_end_of_results" =>
                         \A n \in atFind : Satisfies(n)' => \E i \in DOMAIN trail : trail[i] = n
  BY <1>1 DEF CursorPlaced, Satisfies
<1>2. /\ cursor.status # "undefined"
      /\ atFind \subseteq Live
      /\ \A i \in DOMAIN trail : trail[i] \in Live /\ Satisfies(trail[i])
      /\ \A i, j \in DOMAIN trail : i < j => pos[trail[i]] < pos[trail[j]]
      /\ cursor.status = "cs_cursor_initialized" =>
           /\ trail = << >>
           /\ cursor.current \in Live /\ Satisfies(cursor.current)
           /\ \A n \in atFind : Satisfies(n) => pos[cursor.current] <= pos[n]
      /\ cursor.status = "cs_cursor_active" =>
           /\ Len(trail) # 0
           /\ cursor.current # Null =>
                /\ cursor.current \in Live
                /\ \A i \in DOMAIN trail : pos[trail[i]] < pos[cursor.current]
           /\ \A n \in atFind :
                Satisfies(n) /\ (cursor.current # Null => pos[n] < pos[cursor.current])
                  => \E i \in DOMAIN trail : trail[i] = n
      /\ cursor.status = "cs_end_of_results" =>
           \A n \in atFind : Satisfies(n) => \E i \in DOMAIN trail : trail[i] = n
  BY DEF CursorPlaced
<1>3. \A n \in Live : Satisfies(n)' <=> Satisfies(n)
  BY <1>1 DEF Satisfies
<1>4. ASSUME cursor.status = "cs_cursor_initialized"
      PROVE  /\ cursor.current \in Live' /\ Satisfies(cursor.current)'
             /\ \A n \in atFind : Satisfies(n)' => new[cursor.current] <= new[n]
  <2> DEFINE c == cursor.current
  <2>1. c \in Live /\ Satisfies(c) /\ \A n \in atFind : Satisfies(n) => pos[c] <= pos[n]
    BY <1>2, <1>4
  <2>2. c \in Live' /\ Satisfies(c)'
    <3> HIDE DEF c
    <3>1. c \in Live'
      BY <2>1
    <3>2. cursor' = cursor
      BY <1>1
    <3>3. heap'[c].key = heap[c].key
      BY <2>1
    <3>4. QED
      BY <2>1, <3>1, <3>2, <3>3, <1>1 DEF Satisfies, c
  <2> HIDE DEF c
  <2>3. \A n \in atFind : Satisfies(n)' => new[c] <= new[n]
    BY <1>2, <1>3, <2>1
  <2>4. QED
    BY <1>1, <2>2, <2>3 DEF c
<1>5. cursor.status = "cs_cursor_active" =>
        /\ cursor.current # Null =>
             /\ cursor.current \in Live'
             /\ \A i \in DOMAIN trail : new[trail[i]] < new[cursor.current]
        /\ \A n \in atFind :
             Satisfies(n)' /\ (cursor.current # Null => new[n] < new[cursor.current])
               => \E i \in DOMAIN trail : trail[i] = n
  BY <1>2, <1>3
<1>6. cursor.status = "cs_end_of_results" =>
        \A n \in atFind : Satisfies(n)' => \E i \in DOMAIN trail : trail[i] = n
  BY <1>2, <1>3
<1>7. /\ atFind \subseteq Live'
      /\ \A i \in DOMAIN trail : trail[i] \in Live' /\ Satisfies(trail[i])'
      /\ \A i, j \in DOMAIN trail : i < j => new[trail[i]] < new[trail[j]]
  <2>1. atFind \subseteq Live'
    BY <1>2
  <2>2. ASSUME NEW i \in DOMAIN trail PROVE trail[i] \in Live' /\ Satisfies(trail[i])'
    <3>1. trail[i] \in Live /\ Satisfies(trail[i])
      BY <1>2
    <3>2. heap'[trail[i]].key = heap[trail[i]].key /\ trail[i] \in Live'
      BY <3>1
    <3>3. QED
      BY <1>1, <3>1, <3>2 DEF Satisfies
  <2>3. \A i, j \in DOMAIN trail : i < j => new[trail[i]] < new[trail[j]]
    BY <1>2
  <2>4. QED
    BY <2>1, <2>2, <2>3
<1>8. QED
  BY <1>2, <1>4, <1>5, <1>6, <1>7

-----------------------------------------------------------------------------
(***************************************************************************)
(* Where a cursor starts.                                                  *)
(***************************************************************************)

\* n is the first node a cursor with predicate pred is to deliver.
IsFirstNode(pos, pred, n) ==
  /\ n = Null => \A m \in Live : ~test_predicate(pred, heap[m].key)
  /\ n # Null => /\ n \in Live /\ test_predicate(pred, heap[n].key)
                 /\ \A m \in Live : test_predicate(pred, heap[m].key) => pos[n] <= pos[m]

LEMMA FirstOfEquality ==
  ASSUME NEW pos, Shape(heap, pos), NEW pred \in Predicate, pred.type = "equality"
  PROVE  IsFirstNode(pos, pred, FirstNode(pred))
<1> DEFINE n == sl_find_node(heap, pred.lower)
           k == pred.lower
<1>1. k \in Int
  BY DEF Predicate
<1>2. IsFound(heap, pos, k, n)
  BY <1>1, FindNode
<1>3. FirstNode(pred) = IF Holds(heap, n, k) THEN n ELSE Null
  BY DEF FirstNode
<1>4. \A m \in Live : test_predicate(pred, heap[m].key) <=> m \in KeyBlock(heap, k)
  BY DEF test_predicate, KeyBlock, Live
<1> HIDE DEF n, k
<1>5. Holds(heap, n, k) <=> KeyBlock(heap, k) # {}
  BY <1>1, <1>2, HoldsBlock
<1>6. KeyBlock(heap, k) \subseteq Live /\ Null \notin Live
  BY ShapeFacts DEF KeyBlock, Live
<1>7. CASE KeyBlock(heap, k) = {}
  BY <1>3, <1>4, <1>5, <1>7 DEF IsFirstNode
<1>8. CASE KeyBlock(heap, k) # {}
  <2>1. n \in KeyBlock(heap, k) /\ \A m \in KeyBlock(heap, k) : pos[n] <= pos[m]
    BY <1>2, <1>8 DEF IsFound
  <2>2. QED
    BY <1>3, <1>4, <1>5, <1>6, <1>8, <2>1 DEF IsFirstNode
<1>9. QED
  BY <1>7, <1>8

\* The first node of a sequence with a key from a bound on.
LEMMA SelectIs ==
  ASSUME NEW q, Len(q) \in Nat, NEW lo
  PROVE  LET i == SelectInSeq(q, LAMBDA n : heap[n].key >= lo) IN
         /\ i = 0 => \A j \in 1 .. Len(q) : ~(heap[q[j]].key >= lo)
         /\ i # 0 => /\ i \in 1 .. Len(q) /\ heap[q[i]].key >= lo
                     /\ \A j \in 1 .. Len(q) : heap[q[j]].key >= lo => i <= j
<1> DEFINE I == { j \in 1 .. Len(q) : heap[q[j]].key >= lo }
           i == SelectInSeq(q, LAMBDA n : heap[n].key >= lo)
<1>1. i = IF I # {} THEN Min(I) ELSE 0
  BY DEF SelectInSeq
<1>2. I \in SUBSET Nat /\ 0 \notin I
  OBVIOUS
<1>3. CASE I = {}
  BY <1>1, <1>3
<1>4. CASE I # {}
  <2>1. Min(I) \in I /\ \A j \in I : Min(I) <= j
    BY <1>2, <1>4, MinIn
  <2> HIDE DEF i
  <2>2. i \in I /\ \A j \in I : i <= j
    BY <1>1, <1>4, <2>1
  <2>3. i \in 1 .. Len(q) /\ heap[q[i]].key >= lo /\ i # 0
    BY <1>2, <2>2
  <2>4. \A j \in 1 .. Len(q) : heap[q[j]].key >= lo => i <= j
    BY <2>2
  <2>5. QED
    BY <2>3, <2>4 DEF i
<1>5. QED
  BY <1>3, <1>4

\* Every node from the lower bound on is reached from where the bound is found.
LEMMA FoundBelow ==
  ASSUME NEW pos, Shape(heap, pos), NEW k \in Int, NEW n, IsFound(heap, pos, k, n),
         NEW m \in Live, k <= heap[m].key
  PROVE  pos[n] <= pos[m]
<1>1. m \in DOMAIN heap \ {HeadNode} /\ pos[m] \in Nat /\ heap[m].key \in Int
  BY ShapeFacts DEF Live
<1>2. n \in DOMAIN heap /\ pos[n] \in Nat
  BY HoldsBlock, ShapeFacts
<1>3. CASE n = HeadNode
  BY <1>1, <1>3, ShapeFacts
<1>4. CASE n # HeadNode
  <2>1. n \in DOMAIN heap \ {HeadNode} /\ heap[n].key \in Int
    BY <1>2, <1>4, ShapeFacts
  <2>2. heap[n].key <= k
    BY <1>4, <2>1 DEF IsFound, KeyBlock
  <2> SUFFICES ASSUME pos[m] < pos[n] PROVE FALSE
    BY <1>1, <1>2
  <2>3. heap[m].key <= heap[n].key
    BY <1>1, <2>1, ShapeFacts
  <2>4. heap[m].key = k
    BY <1>1, <2>1, <2>2, <2>3
  <2>5. m \in KeyBlock(heap, k)
    BY <1>1, <2>4 DEF KeyBlock
  <2>6. pos[n] <= pos[m]
    BY <2>5 DEF IsFound
  <2>7. QED
    BY <1>1, <1>2, <2>6
<1>5. QED
  BY <1>3, <1>4

LEMMA FirstOfRange ==
  ASSUME NEW pos, Shape(heap, pos), NEW pred \in Predicate, pred.type = "range"
  PROVE  IsFirstNode(pos, pred, FirstNode(pred))
<1> DEFINE lo == pred.lower
           hi == pred.upper
           atLower == sl_find_node(heap, lo)
           atUpper == sl_find_node(heap, hi)
           start == IF atLower = HeadNode THEN heap[HeadNode].next[0] ELSE atLower
           after == From(heap, start, 0)
           i == SelectInSeq(after, LAMBDA n : heap[n].key >= lo)
<1>1. lo \in Int /\ hi \in Int
  BY DEF Predicate
<1>2. IsFound(heap, pos, lo, atLower) /\ IsFound(heap, pos, hi, atUpper)
  BY <1>1, FindNode
<1>3. FirstNode(pred) = IF atUpper = HeadNode \/ heap[atUpper].key < lo THEN Null
                        ELSE IF i = 0 THEN Null ELSE after[i]
  BY DEF FirstNode
<1>4. \A m \in Live : test_predicate(pred, heap[m].key) <=> lo <= heap[m].key /\ heap[m].key <= hi
  BY DEF test_predicate
<1>5. \A m \in Live : /\ m \in DOMAIN heap \ {HeadNode} /\ heap[m].key \in Int /\ m # Null
                      /\ pos[m] \in Nat /\ pos[m] > 0
  BY ShapeFacts DEF Live
<1>6. 0 \in Levels /\ OnLevel(heap, 0) = DOMAIN heap /\ HeadNode \in DOMAIN heap /\ pos[HeadNode] = 0
  BY LevelsNumbered, LevelFacts, ShapeFacts
<1>7. atLower \in DOMAIN heap /\ atUpper \in DOMAIN heap
  BY <1>1, <1>2, HoldsBlock
<1> HIDE DEF lo, hi, atLower, atUpper
\* What follows the head, or where the lower bound is found.
<1>8. /\ start \in OnLevel(heap, 0) \cup {Null}
      /\ \A m \in Live : lo <= heap[m].key => start # Null /\ pos[start] <= pos[m]
  <2>1. CASE atLower = HeadNode
    <3> DEFINE s == heap[HeadNode].next[0]
    <3>1. /\ s = Null => \A n \in OnLevel(heap, 0) : pos[n] <= pos[HeadNode]
          /\ s # Null => /\ s \in OnLevel(heap, 0)
                         /\ \A n \in OnLevel(heap, 0) : pos[n] <= pos[HeadNode] \/ pos[s] <= pos[n]
      BY <1>6, NextIs
    <3>2. start = s
      BY <2>1
    <3> HIDE DEF s, start
    <3>3. ASSUME NEW m \in Live PROVE s # Null /\ pos[s] <= pos[m]
      <4>1. m \in OnLevel(heap, 0) /\ ~(pos[m] <= pos[HeadNode])
        BY <1>5, <1>6
      <4>2. QED
        BY <3>1, <4>1
    <3>4. QED
      BY <3>1, <3>2, <3>3
  <2>2. CASE atLower # HeadNode
    <3>1. start = atLower /\ atLower \in OnLevel(heap, 0) /\ atLower # Null
      BY <1>6, <1>7, <2>2, ShapeFacts
    <3>2. \A m \in Live : lo <= heap[m].key => pos[atLower] <= pos[m]
      BY <1>1, <1>2, FoundBelow
    <3>3. QED
      BY <3>1, <3>2
  <2>3. QED
    BY <2>1, <2>2
<1> HIDE DEF start
<1>9. ListsFrom(heap, pos, start, 0, after)
  BY <1>6, <1>8, FromIs
<1> HIDE DEF after
<1>10. Len(after) \in Nat /\ \A j \in 1 .. Len(after) : after[j] \in OnLevel(heap, 0)
  BY <1>9, SequenceDomain, SequenceElement DEF ListsFrom
<1>11. /\ i = 0 => \A j \in 1 .. Len(after) : ~(heap[after[j]].key >= lo)
       /\ i # 0 => /\ i \in 1 .. Len(after) /\ heap[after[i]].key >= lo
                   /\ \A j \in 1 .. Len(after) : heap[after[j]].key >= lo => i <= j
  BY <1>10, SelectIs
<1> HIDE DEF i
<1>12. ASSUME NEW m \in Live, lo <= heap[m].key PROVE \E j \in 1 .. Len(after) : after[j] = m
  <2>1. start # Null /\ pos[start] <= pos[m]
    BY <1>8, <1>12
  <2>2. m \in OnLevel(heap, 0)
    BY <1>5, <1>6
  <2>3. QED
    BY <1>9, <2>1, <2>2 DEF ListsFrom
<1>13. CASE atUpper = HeadNode \/ heap[atUpper].key < lo
  <2>1. FirstNode(pred) = Null
    BY <1>3, <1>13
  <2>2. ASSUME NEW m \in Live, lo <= heap[m].key, heap[m].key <= hi PROVE FALSE
    <3>1. CASE KeyBlock(heap, hi) # {}
      <4>1. atUpper # HeadNode /\ heap[atUpper].key = hi
        BY <1>2, <3>1 DEF IsFound, KeyBlock
      <4>2. hi < lo
        BY <1>13, <4>1
      <4>3. QED
        BY <1>1, <1>5, <2>2, <4>2
    <3>2. CASE KeyBlock(heap, hi) = {}
      <4>1. heap[m].key # hi
        BY <1>5, <3>2 DEF KeyBlock
      <4>2. heap[m].key < hi
        BY <1>1, <1>5, <2>2, <4>1
      <4>3. pos[m] <= pos[atUpper]
        BY <1>2, <1>5, <3>2, <4>2 DEF IsFound
      <4>4. atUpper # HeadNode
        BY <1>5, <1>6, <4>3
      <4>5. atUpper \in Live /\ heap[atUpper].key < lo
        BY <1>7, <1>13, <4>4 DEF Live
      <4>6. heap[m].key <= heap[atUpper].key
        <5>1. CASE pos[m] = pos[atUpper]
          <6>1. m = atUpper
            BY <1>5, <4>5, <5>1, ShapeFacts
          <6>2. QED
            BY <1>5, <6>1
        <5>2. CASE pos[m] # pos[atUpper]
          <6>1. pos[m] < pos[atUpper]
            BY <1>5, <4>3, <4>5, <5>2
          <6>2. QED
            BY <1>5, <4>5, <6>1, ShapeFacts
        <5>3. QED
          BY <5>1, <5>2
      <4>7. QED
        BY <1>1, <1>5, <2>2, <4>5, <4>6
    <3>3. QED
      BY <3>1, <3>2
  <2>3. QED
    BY <1>4, <2>1, <2>2 DEF IsFirstNode
<1>14. CASE ~(atUpper = HeadNode \/ heap[atUpper].key < lo)
  <2>1. atUpper \in Live /\ lo <= heap[atUpper].key /\ heap[atUpper].key <= hi
    <3>1. atUpper \in Live
      BY <1>7, <1>14 DEF Live
    <3>2. heap[atUpper].key <= hi
      BY <1>1, <1>2, <1>5, <1>14, <3>1 DEF IsFound, KeyBlock
    <3>3. lo <= heap[atUpper].key
      BY <1>1, <1>5, <1>14, <3>1
    <3>4. QED
      BY <3>1, <3>2, <3>3
  <2>2. PICK u \in 1 .. Len(after) : after[u] = atUpper
    BY <1>12, <2>1
  <2>3. heap[after[u]].key >= lo
    BY <1>1, <1>5, <2>1, <2>2
  <2>4. i # 0
    BY <1>11, <2>3
  <2> DEFINE f == after[i]
  <2>5. /\ i \in 1 .. Len(after) /\ heap[f].key >= lo
        /\ \A j \in 1 .. Len(after) : heap[after[j]].key >= lo => i <= j
    BY <1>11, <2>4
  <2>6. FirstNode(pred) = f
    BY <1>3, <1>14, <2>4
  <2>7. f \in Live
    <3>1. start # Null /\ pos[start] <= pos[f]
      BY <1>9, <2>5 DEF ListsFrom
    <3>2. f \in DOMAIN heap
      BY <1>6, <1>10, <2>5
    <3>3. f # HeadNode
      <4>1. CASE atLower = HeadNode
        <5>1. start \in DOMAIN heap \ {HeadNode}
          BY <1>6, <3>1, <4>1, NextIs DEF start
        <5>2. pos[start] > 0 /\ pos[start] \in Nat
          BY <5>1, ShapeFacts
        <5>3. QED
          BY <1>6, <3>1, <5>2
      <4>2. CASE atLower # HeadNode
        <5>1. start = atLower
          BY <4>2 DEF start
        <5>2. pos[start] > 0 /\ pos[start] \in Nat
          BY <1>7, <4>2, <5>1, ShapeFacts
        <5>3. QED
          BY <1>6, <3>1, <5>2
      <4>3. QED
        BY <4>1, <4>2
    <3>4. QED
      BY <3>2, <3>3 DEF Live
  <2>8. ASSUME NEW m \in Live, lo <= heap[m].key PROVE pos[f] <= pos[m]
    <3>1. PICK j \in 1 .. Len(after) : after[j] = m
      BY <1>12, <2>8
    <3>2. i <= j
      BY <1>1, <1>5, <2>5, <2>8, <3>1
    <3>3. CASE i = j
      BY <1>5, <3>1, <3>3
    <3>4. CASE i # j
      <4>1. i < j
        BY <2>5, <3>2, <3>4
      <4>2. pos[f] < pos[m]
        BY <1>9, <2>5, <3>1, <4>1 DEF ListsFrom
      <4>3. QED
        BY <1>5, <2>7, <4>2
    <3>5. QED
      BY <3>3, <3>4
  <2> HIDE DEF f
  <2>9. heap[f].key <= heap[atUpper].key
    <3>1. pos[f] <= pos[atUpper]
      BY <2>1, <2>8
    <3>2. CASE pos[f] = pos[atUpper]
      <4>1. f = atUpper
        BY <1>5, <2>1, <2>7, <3>2, ShapeFacts
      <4>2. QED
        BY <1>5, <2>1, <4>1
    <3>3. CASE pos[f] # pos[atUpper]
      <4>1. pos[f] < pos[atUpper]
        BY <1>5, <2>1, <2>7, <3>1, <3>3
      <4>2. QED
        BY <1>5, <2>1, <2>7, <4>1, ShapeFacts
    <3>4. QED
      BY <3>2, <3>3
  <2>10. lo <= heap[f].key /\ heap[f].key <= hi
    <3>1. heap[f].key >= lo
      BY <2>5 DEF f
    <3>2. QED
      BY <1>1, <1>5, <2>1, <2>7, <2>9, <3>1
  <2>11. QED
    BY <1>4, <1>5, <2>6, <2>7, <2>8, <2>10 DEF IsFirstNode
<1>15. QED
  BY <1>13, <1>14

LEMMA FirstOfAll ==
  ASSUME NEW pos, Shape(heap, pos), NEW pred \in Predicate, pred.type = "all_records"
  PROVE  IsFirstNode(pos, pred, FirstNode(pred))
<1> DEFINE s == heap[HeadNode].next[0]
<1>1. 0 \in Levels /\ OnLevel(heap, 0) = DOMAIN heap /\ HeadNode \in DOMAIN heap /\ pos[HeadNode] = 0
  BY LevelsNumbered, LevelFacts, ShapeFacts
<1>2. /\ s = Null => \A n \in DOMAIN heap : pos[n] <= 0
      /\ s # Null => /\ s \in DOMAIN heap \ {HeadNode}
                     /\ \A n \in DOMAIN heap : pos[n] <= 0 \/ pos[s] <= pos[n]
  BY <1>1, NextIs
<1>3. FirstNode(pred) = s
  BY DEF FirstNode
<1> HIDE DEF s
<1>4. \A m \in Live : m \in DOMAIN heap /\ pos[m] \in Nat /\ ~(pos[m] <= 0)
  BY ShapeFacts DEF Live
<1>5. \A k : test_predicate(pred, k)
  BY DEF test_predicate
<1>6. QED
  BY <1>2, <1>3, <1>4, <1>5 DEF IsFirstNode, Live

LEMMA FirstNodeIs ==
  ASSUME NEW pos, Shape(heap, pos), NEW pred \in Predicate
  PROVE  IsFirstNode(pos, pred, FirstNode(pred))
<1>1. pred.type \in {"equality", "range", "all_records"}
  BY DEF Predicate
<1>2. QED
  BY <1>1, FirstOfEquality, FirstOfRange, FirstOfAll

-----------------------------------------------------------------------------
(***************************************************************************)
(* The steps.                                                              *)
(***************************************************************************)

LEMMA InitInv ==
  ASSUME Init
  PROVE  SLInv
<1> DEFINE pos == [n \in {HeadNode} |-> 0]
<1>1. DOMAIN heap = {HeadNode} /\ heap[HeadNode] = [next |-> [h \in Levels |-> Null]]
  BY DEF Init
<1>2. Live = {} /\ Open
  BY <1>1 DEF Live, Open
<1>3. heap[HeadNode] \in Linked
  BY <1>1 DEF Linked
<1>4. cursor \in Cursors
  BY DEF Init, NoCursor, Cursors, AllRecords, Predicate
<1>5. result \in Results
  BY DEF Init, Results
<1>6. TypeOK
  BY <1>2, <1>3, <1>4, <1>5, TypeParts DEF Init, MemoryTyped, CursorTyped
<1>7. IsFiniteSet(DOMAIN heap)
  BY <1>1, FS_Singleton
<1>8. Places(heap, pos)
  <2>1. 0 \in Nat /\ pos \in [DOMAIN heap -> 0 .. 0]
    BY <1>1
  <2>2. QED
    BY <1>1, <2>1 DEF Places
<1>9. ASSUME NEW h \in Levels, NEW m \in OnLevel(heap, h) PROVE Nearest(heap, pos, m, h)
  <2>1. m = HeadNode /\ heap[m].next[h] = Null /\ OnLevel(heap, h) \subseteq {HeadNode}
    BY <1>1 DEF OnLevel
  <2>2. \A n \in {HeadNode} : pos[n] <= pos[m]
    BY <2>1
  <2>3. QED
    BY <2>1, <2>2 DEF Nearest
<1>10. Shape(heap, pos)
  BY <1>1, <1>3, <1>8, <1>9 DEF Shape, KeysInOrder
<1>11. CursorPlaced(pos)
  <2>1. cursor.status = "none" /\ trail = << >> /\ atFind = {}
    BY DEF Init, NoCursor
  <2>2. QED
    BY <2>1 DEF CursorPlaced
<1>12. cursor.status = "none" /\ intact /\ trail = << >> /\ atFind = {}
  BY DEF Init, NoCursor
<1>13. QED
  BY <1>2, <1>6, <1>7, <1>10, <1>11, <1>12 DEF SLInv

\* What an insert and the insert of an update leave.
LEMMA InsertInv ==
  ASSUME SLInv, Open, NEW k \in Keys, NEW v \in Values, NEW call \in {"insert", "update"},
         NEW refused \in Nat, sl_insert(call, k, v, refused), UNCHANGED cursorVars
  PROVE  SLInv'
<1>1. CursorTyped' /\ cursor' = cursor /\ trail' = trail /\ atFind' = atFind /\ intact' = intact
  BY TypeParts DEF SLInv, CursorTyped, cursorVars
<1>2. PICK pos : Shape(heap, pos) /\ CursorPlaced(pos)
  BY DEF SLInv
<1>3. result' \in Results
  <2>1. Answer(call, k, "err_ok", 1, NoValue) \/ Answer(call, k, "err_out_of_memory", refused, NoValue)
    BY DEF sl_insert
  <2>2. QED
    BY <2>1, AnswerTyped
<1>4. cursor.status = "none" => intact /\ trail = << >> /\ atFind = {}
  BY DEF SLInv
<1>5. CASE UNCHANGED heap
  <2>1. MemoryTyped'
    BY <1>5, TypeParts DEF SLInv, MemoryTyped, Live, Open
  <2>2. TypeOK'
    BY <1>1, <1>3, <2>1, TypePartsNext
  <2>3. CursorPlaced(pos)'
    BY <1>1, <1>2, <1>5 DEF CursorPlaced, Satisfies, Live
  <2>4. QED
    BY <1>1, <1>2, <1>4, <1>5, <2>2, <2>3 DEF SLInv, Open
<1>6. CASE \E n \in Node \ DOMAIN heap, at \in InsertPlaces(k) : LinkIn(n, k, v, at)
  <2>1. PICK n \in Node \ DOMAIN heap, at \in InsertPlaces(k) : LinkIn(n, k, v, at)
    BY <1>6
  <2>2. PICK c \in Nat : Fits(heap, pos, k, at, c)
    BY <1>2, InsertPlacesFit
  <2> DEFINE hq == With(heap, n, k, v, at)
             p == pos[at[0]]
             new == PlacesWith(pos, n, p)
  <2>0. n \in Node /\ n \notin DOMAIN heap /\ n # HeadNode
    BY NodeAssumption
  <2>3. heap' = hq
    BY <2>1, LinkInIs
  <2>4. Shape(hq, new)
    BY <1>2, <2>2, WithShape
  <2>5. /\ DOMAIN hq = DOMAIN heap \cup {n} /\ n # HeadNode
        /\ \A m \in DOMAIN heap : m # HeadNode => hq[m].key = heap[m].key
    <3>1. /\ DOMAIN hq = DOMAIN heap \cup {n} /\ n # HeadNode
          /\ hq[n] \in Nodes /\ hq[n].key = k
          /\ hq[n].next = [h \in DOMAIN at |-> heap[at[h]].next[h]]
          /\ \A m \in DOMAIN heap :
              /\ hq[m].next = LinksTo(heap[m], m, n, at)
              /\ m = HeadNode => hq[m] \in Linked
              /\ m # HeadNode => hq[m] \in Nodes /\ hq[m].key = heap[m].key
      BY <1>2, <2>2, <2>0, WithNodes
    <3> HIDE DEF hq
    <3>2. QED
      BY <3>1
  <2>6. p \in Nat
    <3>1. PICK top \in Levels : DOMAIN at = 0 .. top
      BY <2>2 DEF Fits
    <3>2. 0 \in DOMAIN at
      BY <3>1, LevelsNumbered
    <3>3. at[0] \in DOMAIN heap
      BY <2>2, <3>2 DEF Fits, LastBefore, OnLevel
    <3>4. QED
      BY <1>2, <3>3, ShapeFacts
  <2> HIDE DEF hq, p
  <2>7. \A m \in DOMAIN heap : new[m] = 2 * pos[m]
    <3>1. DOMAIN pos = DOMAIN heap
      BY <1>2, ShapeFacts
    <3>2. QED
      BY <2>0, <3>1 DEF PlacesWith
  <2> HIDE DEF new
  <2>8. \A m \in Live : m \in Live' /\ heap'[m].key = heap[m].key
    BY <2>3, <2>5 DEF Live
  <2>9. ASSUME NEW a \in Live, NEW b \in Live
        PROVE  /\ pos[a] < pos[b] <=> new[a] < new[b]
               /\ pos[a] <= pos[b] <=> new[a] <= new[b]
    <3>1. new[a] = 2 * pos[a] /\ new[b] = 2 * pos[b] /\ pos[a] \in Nat /\ pos[b] \in Nat
      BY <1>2, <2>7, ShapeFacts DEF Live
    <3>2. QED
      BY <3>1
  <2>10. TypeOK
    BY DEF SLInv
  <2>11. CursorPlaced(new)'
    BY <1>2, <2>8, <2>9, <2>10, CursorKept
  <2>12. Shape(heap, new)'
    BY <2>3, <2>4
  <2>13. MemoryTyped'
    BY <2>12, ShapeTyped DEF MemoryTyped, Shape, Live
  <2>14. TypeOK'
    BY <1>1, <1>3, <2>13, TypePartsNext
  <2>15. IsFiniteSet(DOMAIN heap')
    BY <2>3, <2>5, FS_AddElement DEF SLInv
  <2>16. Open'
    BY <2>3, <2>5 DEF Open
  <2>17. QED
    BY <1>1, <1>4, <2>11, <2>12, <2>14, <2>15, <2>16 DEF SLInv
<1>7. QED
  BY <1>5, <1>6 DEF sl_insert

\* The same memory but for the values of the records.
LEMMA SameLinks ==
  ASSUME NEW hp, NEW pos, Shape(hp, pos), NEW hq, DOMAIN hq = DOMAIN hp,
         hq[HeadNode] = hp[HeadNode],
         \A m \in DOMAIN hp \ {HeadNode} :
           hq[m] \in Nodes /\ hq[m].next = hp[m].next /\ hq[m].key = hp[m].key
  PROVE  Shape(hq, pos)
<1>1. \A m \in DOMAIN hp : hq[m].next = hp[m].next
  OBVIOUS
<1>2. \A h : OnLevel(hq, h) = OnLevel(hp, h)
  BY <1>1 DEF OnLevel
<1>3. ASSUME NEW h \in Levels, NEW m \in OnLevel(hq, h) PROVE Nearest(hq, pos, m, h)
  <2>1. Nearest(hp, pos, m, h) /\ hq[m].next = hp[m].next
    BY <1>1, <1>2 DEF Shape, OnLevel
  <2>2. QED
    BY <1>2, <2>1 DEF Nearest
<1>4. Places(hq, pos)
  BY DEF Shape, Places
<1>5. KeysInOrder(hq, pos)
  BY DEF Shape, KeysInOrder
<1>6. QED
  BY <1>3, <1>4, <1>5 DEF Shape

LEMMA Overwritten ==
  ASSUME NEW node \in Nodes, NEW v \in Values
  PROVE  /\ [node EXCEPT !.value = v] \in Nodes
         /\ [node EXCEPT !.value = v].next = node.next
         /\ [node EXCEPT !.value = v].key = node.key
         /\ [node EXCEPT !.value = v].value = v
<1>1. PICK t \in Levels : node \in [key: Keys, value: Values, next: [0 .. t -> Node \cup {Null}]]
  BY DEF Nodes
<1>2. [node EXCEPT !.value = v] \in [key: Keys, value: Values, next: [0 .. t -> Node \cup {Null}]]
  BY <1>1
<1>3. [node EXCEPT !.value = v] \in Nodes
  BY <1>2 DEF Nodes
<1>4. QED
  BY <1>1, <1>3

\* The block an update overwrites is all the records of the key.
LEMMA BlockIs ==
  ASSUME NEW pos, Shape(heap, pos), NEW k \in Int,
         Holds(heap, sl_find_node(heap, k), k)
  PROVE  Block(sl_find_node(heap, k), k) = KeyBlock(heap, k)
<1> DEFINE n == sl_find_node(heap, k)
           nodes == From(heap, n, 0)
<1>1. n \in KeyBlock(heap, k) /\ \A m \in KeyBlock(heap, k) : pos[n] <= pos[m]
  <2>1. IsFound(heap, pos, k, n)
    BY FindNode
  <2> HIDE DEF n
  <2>2. n \in KeyBlock(heap, k)
    BY <2>1, HoldsBlock DEF n
  <2>3. QED
    BY <2>1, <2>2 DEF IsFound
<1>2. Block(n, k) = { nodes[i] : i \in { i \in DOMAIN nodes : \A j \in 1 .. i : heap[nodes[j]].key = k } }
  BY DEF Block
<1> HIDE DEF n
<1>3. 0 \in Levels /\ OnLevel(heap, 0) = DOMAIN heap /\ n \in DOMAIN heap /\ n # Null /\ n # HeadNode
  BY <1>1, LevelsNumbered, LevelFacts, ShapeFacts DEF KeyBlock
<1>4. ListsFrom(heap, pos, n, 0, nodes)
  BY <1>3, FromIs
<1> HIDE DEF nodes
<1>5. /\ DOMAIN nodes = 1 .. Len(nodes) /\ Len(nodes) \in Nat
      /\ \A i \in 1 .. Len(nodes) : nodes[i] \in DOMAIN heap /\ pos[n] <= pos[nodes[i]]
      /\ \A i, j \in 1 .. Len(nodes) : i < j => pos[nodes[i]] < pos[nodes[j]]
  BY <1>3, <1>4, SequenceDomain, SequenceElement DEF ListsFrom
<1>6. \A i \in 1 .. Len(nodes) : nodes[i] \in DOMAIN heap \ {HeadNode} /\ heap[nodes[i]].key \in Int
  <2> SUFFICES ASSUME NEW i \in 1 .. Len(nodes)
               PROVE  nodes[i] \in DOMAIN heap \ {HeadNode} /\ heap[nodes[i]].key \in Int
    OBVIOUS
  <2>1. pos[n] \in Nat /\ pos[n] > 0 /\ pos[HeadNode] = 0
    BY <1>3, ShapeFacts
  <2>2. nodes[i] # HeadNode
    BY <1>5, <2>1
  <2>3. QED
    BY <1>5, <2>2, ShapeFacts
<1>7. ASSUME NEW i \in 1 .. Len(nodes), \A j \in 1 .. i : heap[nodes[j]].key = k
      PROVE  nodes[i] \in KeyBlock(heap, k)
  <2>1. i \in 1 .. i
    OBVIOUS
  <2>2. QED
    BY <1>6, <1>7, <2>1 DEF KeyBlock
<1>8. ASSUME NEW m \in KeyBlock(heap, k)
      PROVE  \E i \in 1 .. Len(nodes) : nodes[i] = m /\ \A j \in 1 .. i : heap[nodes[j]].key = k
  <2>1. m \in DOMAIN heap \ {HeadNode} /\ heap[m].key = k /\ pos[n] <= pos[m]
    BY <1>1 DEF KeyBlock
  <2>2. PICK i \in 1 .. Len(nodes) : nodes[i] = m
    BY <1>3, <1>4, <2>1 DEF ListsFrom
  <2>3. ASSUME NEW j \in 1 .. i PROVE heap[nodes[j]].key = k
    <3>1. j \in 1 .. Len(nodes) /\ (j = i \/ j < i)
      BY <1>5
    <3>2. CASE j = i
      BY <2>1, <2>2, <3>2
    <3>3. CASE j < i
      <4> DEFINE x == nodes[j]
      <4>1. x \in DOMAIN heap \ {HeadNode} /\ heap[x].key \in Int /\ pos[n] <= pos[x] /\ pos[x] < pos[m]
        BY <1>5, <1>6, <2>2, <3>1, <3>3
      <4> HIDE DEF x
      <4>2. heap[x].key <= k
        BY <2>1, <4>1, ShapeFacts
      <4>3. k <= heap[x].key
        <5>1. CASE pos[n] = pos[x]
          <6>1. n = x
            BY <1>3, <4>1, <5>1, ShapeFacts
          <6>2. QED
            BY <1>1, <4>1, <6>1 DEF KeyBlock
        <5>2. CASE pos[n] # pos[x]
          <6>1. pos[n] \in Nat /\ pos[x] \in Nat
            BY <1>3, <4>1, ShapeFacts
          <6>2. pos[n] < pos[x]
            BY <4>1, <5>2, <6>1
          <6>3. heap[n].key <= heap[x].key
            BY <1>3, <4>1, <6>2, ShapeFacts
          <6>4. QED
            BY <1>1, <6>3 DEF KeyBlock
        <5>3. QED
          BY <5>1, <5>2
      <4>4. QED
        BY <4>1, <4>2, <4>3 DEF x
    <3>4. QED
      BY <3>1, <3>2, <3>3
  <2>4. QED
    BY <2>2, <2>3
<1>9. Block(n, k) = KeyBlock(heap, k)
  BY <1>2, <1>5, <1>7, <1>8
<1>10. QED
  BY <1>9 DEF n

LEMMA UpdateInv ==
  ASSUME SLInv, NEW k \in Keys, NEW v \in Values, sl_update(k, v)
  PROVE  SLInv'
<1> DEFINE n == sl_find_node(heap, k)
<1>1. Open /\ UNCHANGED cursorVars
  BY DEF sl_update
<1>2. PICK pos : Shape(heap, pos) /\ CursorPlaced(pos)
  BY <1>1 DEF SLInv
<1>3. CASE ~Holds(heap, n, k)
  <2>1. sl_insert("update", k, v, 1)
    BY <1>3 DEF sl_update
  <2>2. QED
    BY <1>1, <2>1, InsertInv
<1>4. CASE Holds(heap, n, k)
  <2>1. /\ heap' = [m \in DOMAIN heap |->
                      IF m \in Block(n, k) THEN [heap[m] EXCEPT !.value = v] ELSE heap[m]]
        /\ Answer("update", k, "err_ok", Cardinality(Block(n, k)), NoValue)
    BY <1>4 DEF sl_update
  <2>2. k \in Int
    BY KeysAssumption
  <2>3. Block(n, k) = KeyBlock(heap, k)
    BY <1>2, <1>4, <2>2, BlockIs
  <2> HIDE DEF n
  <2>4. DOMAIN heap' = DOMAIN heap /\ heap'[HeadNode] = heap[HeadNode]
    <3>1. HeadNode \notin Block(n, k) /\ HeadNode \in DOMAIN heap
      BY <1>1, <2>3 DEF KeyBlock, Open
    <3>2. QED
      BY <2>1, <3>1
  <2>5. ASSUME NEW m \in DOMAIN heap \ {HeadNode}
        PROVE  heap'[m] \in Nodes /\ heap'[m].next = heap[m].next /\ heap'[m].key = heap[m].key
    <3>1. heap[m] \in Nodes
      BY <1>2, ShapeFacts
    <3>2. heap'[m] = heap[m] \/ heap'[m] = [heap[m] EXCEPT !.value = v]
      BY <2>1
    <3> DEFINE w == [heap[m] EXCEPT !.value = v]
    <3>3. w \in Nodes /\ w.next = heap[m].next /\ w.key = heap[m].key
      BY <3>1, Overwritten
    <3>4. heap'[m] = heap[m] \/ heap'[m] = w
      BY <3>2
    <3> HIDE DEF w
    <3>5. QED
      BY <3>1, <3>3, <3>4
  <2>6. Shape(heap, pos)'
    BY <1>2, <2>4, <2>5, SameLinks
  <2>7. TypeOK
    BY DEF SLInv
  <2>8. CursorPlaced(pos)'
    <3>1. \A m \in Live : m \in Live' /\ heap'[m].key = heap[m].key
      BY <2>4, <2>5 DEF Live
    <3>2. QED
      BY <1>1, <1>2, <2>7, <3>1, CursorKept
  <2>9. MemoryTyped'
    BY <2>6 DEF MemoryTyped, Shape, Live
  <2>10. Cardinality(Block(n, k)) \in Nat
    BY <2>3, BlockFinite DEF SLInv
  <2>11. result' \in Results
    BY <2>1, <2>10, AnswerTyped
  <2>12. CursorTyped' /\ cursor' = cursor /\ trail' = trail /\ atFind' = atFind /\ intact' = intact
    BY <1>1, <2>7, TypeParts DEF CursorTyped, cursorVars
  <2>13. TypeOK'
    BY <2>9, <2>11, <2>12, TypePartsNext
  <2>14. Open' /\ IsFiniteSet(DOMAIN heap')
    BY <1>1, <2>4 DEF Open, SLInv
  <2>15. QED
    BY <2>6, <2>8, <2>12, <2>13, <2>14 DEF SLInv
<1>5. QED
  BY <1>3, <1>4

LEMMA DeleteInv ==
  ASSUME SLInv, NEW k \in Keys, sl_delete(k)
  PROVE  SLInv'
<1> DEFINE count == Cardinality(DOMAIN heap) - Cardinality(DOMAIN heap')
<1>1. Open /\ heap' = AfterDelete(k) /\ cursor' = cursor
  BY DEF sl_delete
<1>2. PICK pos : Shape(heap, pos) /\ CursorPlaced(pos)
  BY <1>1 DEF SLInv
<1>3. k \in Int /\ IsFiniteSet(DOMAIN heap)
  BY KeysAssumption DEF SLInv
<1>4. /\ \E new : Shape(heap', new)
      /\ DOMAIN heap' = DOMAIN heap \ KeyBlock(heap, k)
  BY <1>1, <1>2, <1>3, AfterDeleteIs
<1>5. PICK new : Shape(heap', new)
  BY <1>4
<1>6. MemoryTyped'
  BY <1>5 DEF MemoryTyped, Shape, Live
<1>7. IsFiniteSet(DOMAIN heap') /\ count \in Nat
  <2>1. DOMAIN heap' \subseteq DOMAIN heap
    BY <1>4
  <2>2. IsFiniteSet(DOMAIN heap') /\ Cardinality(DOMAIN heap') <= Cardinality(DOMAIN heap)
    BY <1>3, <2>1, FS_Subset
  <2>3. Cardinality(DOMAIN heap) \in Nat /\ Cardinality(DOMAIN heap') \in Nat
    BY <1>3, <2>2, FS_CardinalityType
  <2>4. QED
    BY <2>2, <2>3
<1>8. result' \in Results
  <2>1. Answer("delete", k, IF count = 0 THEN "err_item_not_found" ELSE "err_ok", count, NoValue)
    BY DEF sl_delete
  <2> HIDE DEF count
  <2>2. (IF count = 0 THEN "err_item_not_found" ELSE "err_ok")
          \in {"err_ok", "err_item_not_found", "err_out_of_memory"}
    OBVIOUS
  <2>3. QED
    BY <1>7, <2>1, <2>2, AnswerTyped
<1>9. Open'
  BY <1>5 DEF Shape, Open
<1>10. CursorTyped
  BY TypeParts DEF SLInv
<1>11. CASE heap' = heap \/ cursor.status = "none"
  <2>1. intact' = intact /\ trail' = trail /\ atFind' = atFind
    BY <1>11 DEF sl_delete
  <2>2. TypeOK'
    BY <1>1, <1>6, <1>8, <1>10, <2>1, TypePartsNext DEF CursorTyped
  <2>3. CASE heap' = heap
    <3>1. CursorPlaced(pos)'
      BY <1>1, <1>2, <2>1, <2>3 DEF CursorPlaced, Satisfies, Live
    <3>2. Shape(heap, pos)'
      BY <1>2, <2>3
    <3>3. QED
      BY <1>1, <1>7, <1>9, <2>1, <2>2, <3>1, <3>2 DEF SLInv
  <2>4. CASE cursor.status = "none"
    <3>1. intact /\ trail = << >> /\ atFind = {}
      BY <2>4 DEF SLInv
    <3>2. cursor'.status = "none" /\ trail' = << >> /\ atFind' = {}
      BY <1>1, <2>1, <2>4, <3>1
    <3>3. CursorPlaced(new)'
      BY <3>2 DEF CursorPlaced
    <3>4. Shape(heap, new)'
      BY <1>5
    <3>5. QED
      BY <1>7, <1>9, <2>1, <2>2, <3>1, <3>2, <3>3, <3>4 DEF SLInv
  <2>5. QED
    BY <1>11, <2>3, <2>4
<1>12. CASE ~(heap' = heap \/ cursor.status = "none")
  <2>1. intact' = FALSE /\ trail' = << >> /\ atFind' = {}
    BY <1>12 DEF sl_delete
  <2>2. CursorTyped'
    <3>1. cursor' \in Cursors
      BY <1>1, <1>10 DEF CursorTyped
    <3>2. trail' \in Seq(Node)
      BY <2>1
    <3>3. atFind' \subseteq Node /\ intact' \in BOOLEAN
      BY <2>1
    <3>4. QED
      BY <3>1, <3>2, <3>3 DEF CursorTyped
  <2>6. TypeOK'
    BY <1>6, <1>8, <2>2, TypePartsNext
  <2>3. CursorPlaced(new)'
    BY <2>1 DEF CursorPlaced
  <2>4. Shape(heap, new)' /\ cursor'.status # "none"
    BY <1>1, <1>5, <1>12
  <2>5. cursor'.status = "cs_cursor_initialized" => cursor'.current # Null
    BY <1>1 DEF SLInv
  <2>7. QED
    BY <1>7, <1>9, <2>6, <2>3, <2>4, <2>5 DEF SLInv
<1>13. QED
  BY <1>11, <1>12

LEMMA GetInv ==
  ASSUME SLInv, NEW k \in Keys, sl_get(k)
  PROVE  SLInv'
<1> DEFINE n == sl_find_node(heap, k)
<1>1. Open /\ UNCHANGED <<heap, cursorVars>>
  BY DEF sl_get
<1>2. heap' = heap /\ cursor' = cursor /\ trail' = trail /\ atFind' = atFind /\ intact' = intact
  BY <1>1 DEF cursorVars
<1>3. PICK pos : Shape(heap, pos) /\ CursorPlaced(pos)
  BY <1>1 DEF SLInv
<1>4. result' \in Results
  <2>1. CASE Holds(heap, n, k) /\ Answer("get", k, "err_ok", 1, heap[n].value)
    <3>1. k \in Int
      BY KeysAssumption
    <3>2. n \in KeyBlock(heap, k)
      BY <1>3, <2>1, <3>1, FindNode, HoldsBlock
    <3>3. heap[n].value \in Values
      BY <1>3, <3>2, NodeHeights DEF Shape, KeyBlock
    <3> HIDE DEF n
    <3>4. QED
      BY <2>1, <3>3, AnswerTyped
  <2>2. CASE Answer("get", k, "err_item_not_found", 0, NoValue)
    BY <2>2, AnswerTyped
  <2>3. QED
    BY <2>1, <2>2 DEF sl_get
<1>5. MemoryTyped' /\ CursorTyped'
  BY <1>2, TypeParts DEF SLInv, MemoryTyped, CursorTyped, Live, Open
<1>6. TypeOK'
  BY <1>4, <1>5, TypePartsNext
<1>7. CursorPlaced(pos)' /\ Shape(heap, pos)'
  BY <1>2, <1>3 DEF CursorPlaced, Satisfies, Live
<1>8. QED
  BY <1>1, <1>2, <1>6, <1>7 DEF SLInv, Open

LEMMA FindInv ==
  ASSUME SLInv, NEW pred \in Predicates, sldict_find(pred)
  PROVE  SLInv'
<1>0. PICK n : n = FirstNode(pred)
  OBVIOUS
<1> DEFINE status == IF n = Null THEN "cs_end_of_results" ELSE "cs_cursor_initialized"
<1>1. /\ Open /\ heap' = heap /\ result' = result
      /\ cursor' = [status |-> status, pred |-> pred, current |-> n]
      /\ trail' = << >> /\ atFind' = Live /\ intact' = TRUE
  BY <1>0 DEF sldict_find
<1>2. PICK pos : Shape(heap, pos)
  BY <1>1 DEF SLInv
<1>3. pred \in Predicate
  BY PredicatesAssumption
<1>4. IsFirstNode(pos, pred, n)
  BY <1>0, <1>2, <1>3, FirstNodeIs
<1>5. Live \subseteq Node
  BY <1>2 DEF Shape, Live
<1>6. n \in Node \cup {Null}
  BY <1>4, <1>5 DEF IsFirstNode
<1>7. status \in CursorStatus /\ cursor'.status = status /\ cursor'.pred = pred /\ cursor'.current = n
  BY <1>1 DEF CursorStatus
<1>8. cursor' \in Cursors
  BY <1>1, <1>3, <1>6, <1>7 DEF Cursors
<1>9. CursorTyped'
  BY <1>1, <1>5, <1>8 DEF CursorTyped
<1>10. MemoryTyped' /\ result' \in Results
  BY <1>1, TypeParts DEF SLInv, MemoryTyped, Live, Open
<1>11. TypeOK'
  BY <1>9, <1>10, TypePartsNext
<1>12. \A m \in Live : Satisfies(m)' <=> test_predicate(pred, heap[m].key)
  BY <1>1, <1>7 DEF Satisfies
<1>13. CursorPlaced(pos)'
  <2>1. CASE n = Null
    <3>1. cursor'.status = "cs_end_of_results"
      BY <1>7, <2>1
    <3>2. \A m \in atFind' : ~Satisfies(m)'
      BY <1>1, <1>4, <1>12, <2>1 DEF IsFirstNode
    <3>3. DOMAIN trail' = {} /\ atFind' \subseteq Live'
      BY <1>1 DEF Live
    <3>4. QED
      BY <3>1, <3>2, <3>3 DEF CursorPlaced
  <2>2. CASE n # Null
    <3>1. cursor'.status = "cs_cursor_initialized"
      BY <1>7, <2>2
    <3>2. n \in Live /\ Satisfies(n)' /\ \A m \in Live : Satisfies(m)' => pos[n] <= pos[m]
      BY <1>4, <1>12, <2>2 DEF IsFirstNode
    <3>3. DOMAIN trail' = {} /\ trail' = << >> /\ atFind' = Live /\ Live' = Live
      BY <1>1 DEF Live
    <3>4. QED
      BY <1>7, <3>1, <3>2, <3>3 DEF CursorPlaced
  <2>3. QED
    BY <2>1, <2>2
<1>14. /\ cursor'.status # "none"
       /\ cursor'.status = "cs_cursor_initialized" => cursor'.current # Null
  BY <1>7
<1>15. Shape(heap, pos)' /\ Open' /\ IsFiniteSet(DOMAIN heap')
  BY <1>1, <1>2 DEF SLInv, Open
<1>16. QED
  BY <1>11, <1>13, <1>14, <1>15 DEF SLInv

LEMMA DestroyCursorInv ==
  ASSUME SLInv, sldict_destroy_cursor
  PROVE  SLInv'
<1>1. /\ heap' = heap /\ result' = result /\ cursor' = NoCursor
      /\ trail' = << >> /\ atFind' = {} /\ intact' = TRUE
  BY DEF sldict_destroy_cursor
<1>2. cursor' \in Cursors /\ cursor'.status = "none"
  BY <1>1 DEF NoCursor, Cursors, AllRecords, Predicate
<1>3. CursorTyped'
  BY <1>1, <1>2 DEF CursorTyped
<1>4. MemoryTyped' /\ result' \in Results
  BY <1>1, TypeParts DEF SLInv, MemoryTyped, Live, Open
<1>5. TypeOK'
  BY <1>3, <1>4, TypePartsNext
<1>6. ASSUME NEW pos PROVE CursorPlaced(pos)'
  <2>1. DOMAIN trail' = {} /\ atFind' = {}
    BY <1>1
  <2>2. QED
    BY <1>2, <2>1 DEF CursorPlaced
<1>7. Open' => \E pos : Shape(heap, pos)' /\ CursorPlaced(pos)'
  <2> SUFFICES ASSUME Open PROVE \E pos : Shape(heap, pos)' /\ CursorPlaced(pos)'
    BY <1>1 DEF Open
  <2>1. PICK pos : Shape(heap, pos)
    BY DEF SLInv
  <2>2. Shape(heap, pos)' /\ CursorPlaced(pos)'
    BY <1>1, <1>6, <2>1
  <2>3. QED
    BY <2>2
<1>8. QED
  BY <1>1, <1>2, <1>5, <1>7 DEF SLInv, Open

\* Deleting the dictionary leaves an empty memory, and creating one a head.
LEMMA DeleteDictionaryInv ==
  ASSUME SLInv, sldict_delete_dictionary
  PROVE  SLInv'
<1>1. /\ Open /\ cursor.status = "none"
      /\ heap' = [n \in Live \ Range(Level(0)) |-> heap[n]]
      /\ result' = result /\ cursor' = cursor
      /\ trail' = trail /\ atFind' = atFind /\ intact' = intact
  BY DEF sldict_delete_dictionary, cursorVars
<1>2. PICK pos : Shape(heap, pos)
  BY <1>1 DEF SLInv
<1>3. DOMAIN heap' = {}
  BY <1>1, <1>2, BottomIs
<1>4. ~Open' /\ Live' = {}
  BY <1>3 DEF Open, Live
<1>5. CursorTyped' /\ result' \in Results /\ MemoryTyped'
  BY <1>1, <1>4, TypeParts DEF SLInv, MemoryTyped, CursorTyped
<1>6. TypeOK'
  BY <1>5, TypePartsNext
<1>7. IsFiniteSet(DOMAIN heap')
  BY <1>3, FS_EmptySet
<1>8. QED
  BY <1>1, <1>3, <1>4, <1>6, <1>7 DEF SLInv

LEMMA CreateDictionaryInv ==
  ASSUME SLInv, sldict_create_dictionary
  PROVE  SLInv'
<1> DEFINE pos == [n \in {HeadNode} |-> 0]
<1>1. /\ ~Open
      /\ heap' = [n \in DOMAIN heap \cup {HeadNode} |->
                    IF n = HeadNode THEN [next |-> [h \in Levels |-> Null]] ELSE heap[n]]
      /\ result' = result /\ cursor' = cursor
      /\ trail' = trail /\ atFind' = atFind /\ intact' = intact
  BY DEF sldict_create_dictionary, cursorVars
<1>2. DOMAIN heap = {} /\ cursor.status = "none"
  BY <1>1 DEF SLInv
<1>3. DOMAIN heap' = {HeadNode} /\ heap'[HeadNode] = [next |-> [h \in Levels |-> Null]]
  BY <1>1, <1>2
<1>4. Live' = {} /\ Open' /\ heap'[HeadNode] \in Linked
  BY <1>3 DEF Live, Open, Linked
<1>5. CursorTyped' /\ result' \in Results /\ MemoryTyped'
  BY <1>1, <1>4, TypeParts DEF SLInv, MemoryTyped, CursorTyped
<1>6. TypeOK'
  BY <1>5, TypePartsNext
<1>7. IsFiniteSet(DOMAIN heap')
  BY <1>3, FS_Singleton
<1>8. Places(heap', pos)
  <2>1. 0 \in Nat /\ pos \in [DOMAIN heap' -> 0 .. 0]
    BY <1>3
  <2>2. QED
    BY <1>3, <2>1 DEF Places
<1>9. ASSUME NEW h \in Levels, NEW m \in OnLevel(heap', h) PROVE Nearest(heap', pos, m, h)
  <2>1. m = HeadNode /\ heap'[m].next[h] = Null /\ OnLevel(heap', h) \subseteq {HeadNode}
    BY <1>3 DEF OnLevel
  <2>2. \A n \in {HeadNode} : pos[n] <= pos[m]
    BY <2>1
  <2>3. QED
    BY <2>1, <2>2 DEF Nearest
<1>10. Shape(heap, pos)'
  BY <1>3, <1>4, <1>8, <1>9 DEF Shape, KeysInOrder
<1>11. intact /\ trail = << >> /\ atFind = {}
  BY <1>2 DEF SLInv
<1>12. CursorPlaced(pos)'
  <2>1. cursor'.status = "none" /\ DOMAIN trail' = {} /\ atFind' = {}
    BY <1>1, <1>2, <1>11
  <2>2. QED
    BY <2>1 DEF CursorPlaced
<1> HIDE DEF pos
<1>13. QED
  BY <1>1, <1>4, <1>6, <1>7, <1>10, <1>11, <1>12 DEF SLInv

\* The order of the keys decides whether a later record may satisfy a
\* predicate that an earlier one satisfies and one between them does not.
LEMMA PredicateConvex ==
  ASSUME NEW pred \in Predicate, NEW a \in Int, NEW b \in Int, NEW c \in Int, a <= b, b <= c,
         test_predicate(pred, a), ~test_predicate(pred, b)
  PROVE  ~test_predicate(pred, c)
<1>1. pred.lower \in Int /\ pred.upper \in Int
  BY DEF Predicate
<1>2. QED
  BY <1>1 DEF test_predicate

LEMMA NextKeeps ==
  ASSUME SLInv, sldict_next
  PROVE  /\ Open /\ heap' = heap /\ result' = result /\ atFind' = atFind /\ intact' = intact
         /\ MemoryTyped' /\ result' \in Results /\ IsFiniteSet(DOMAIN heap') /\ Open'
<1>1. heap' = heap /\ result' = result /\ atFind' = atFind /\ intact' = intact
  BY DEF sldict_next
<1>2. cursor.status # "none"
  BY DEF sldict_next
<1>3. Open
  BY <1>2 DEF SLInv
<1>4. QED
  BY <1>1, <1>3, TypeParts DEF SLInv, MemoryTyped, Live, Open

LEMMA Appended ==
  ASSUME NEW S, NEW q \in Seq(S), NEW n \in S
  PROVE  /\ Append(q, n) \in Seq(S) /\ Len(Append(q, n)) = Len(q) + 1 /\ Len(q) \in Nat
         /\ DOMAIN q = 1 .. Len(q) /\ DOMAIN Append(q, n) = 1 .. (Len(q) + 1)
         /\ \A i \in 1 .. Len(q) : Append(q, n)[i] = q[i]
         /\ Append(q, n)[Len(q) + 1] = n
  OBVIOUS

\* The cursor delivers the node it is at.
LEMMA DeliverInv ==
  ASSUME SLInv, sldict_next, cursor.current \in Live, Deliver,
         cursor.status \in {"cs_cursor_initialized", "cs_cursor_active"},
         Delivers
  PROVE  SLInv'
<1> DEFINE q == trail
           hp == heap
<1>1. PICK c : c = cursor.current
  OBVIOUS
<1>2. PICK s : s = heap[c].next[0]
  OBVIOUS
<1>3. /\ Open /\ heap' = heap /\ result' = result /\ atFind' = atFind /\ intact' = intact
      /\ MemoryTyped' /\ result' \in Results /\ IsFiniteSet(DOMAIN heap') /\ Open'
  BY NextKeeps
<1>4. PICK pos : Shape(heap, pos) /\ CursorPlaced(pos)
  BY <1>3 DEF SLInv
<1>5. cursor \in Cursors /\ trail \in Seq(Node) /\ atFind \subseteq Node /\ intact \in BOOLEAN
  BY TypeParts DEF SLInv, CursorTyped
<1>6. c \in Live /\ c \in Node /\ c \in DOMAIN heap \ {HeadNode} /\ c # Null
  BY <1>1, <1>4, ShapeFacts DEF Live
<1>7. 0 \in Levels /\ OnLevel(heap, 0) = DOMAIN heap
  BY <1>4, LevelsNumbered, LevelFacts
<1>8. /\ s = Null => \A n \in DOMAIN heap : pos[n] <= pos[c]
      /\ s # Null => /\ s \in DOMAIN heap \ {HeadNode} /\ pos[c] < pos[s]
                     /\ \A n \in DOMAIN heap : pos[n] <= pos[c] \/ pos[s] <= pos[n]
  BY <1>2, <1>4, <1>6, <1>7, NextIs
<1>9. s \in Node \cup {Null} /\ (s # Null => s \in Live)
  BY <1>4, <1>8, ShapeFacts DEF Live
<1>10. /\ cursor'.status = "cs_cursor_active" /\ cursor'.current = s /\ cursor'.pred = cursor.pred
       /\ cursor' \in Cursors
  <2>1. cursor' = [cursor EXCEPT !.status = "cs_cursor_active", !.current = s]
    BY <1>1, <1>2 DEF Deliver
  <2>2. "cs_cursor_active" \in CursorStatus \cup {"none", "undefined"}
    BY DEF CursorStatus
  <2>3. QED
    BY <1>5, <1>9, <2>1, <2>2 DEF Cursors
<1>11. trail' = IF intact THEN Append(trail, c) ELSE trail
  BY <1>1 DEF Deliver
<1>12. trail' \in Seq(Node)
  BY <1>5, <1>6, <1>11
<1>13. CursorTyped'
  BY <1>3, <1>5, <1>10, <1>12 DEF CursorTyped
<1>14. TypeOK'
  BY <1>3, <1>13, TypePartsNext
<1>15. \A n : Satisfies(n)' <=> Satisfies(n)
  BY <1>3, <1>10 DEF Satisfies
<1>16. Live' = Live
  BY <1>3 DEF Live
<1>17. CursorPlaced(pos)'
  <2> SUFFICES ASSUME intact PROVE CursorPlaced(pos)'
    BY <1>3 DEF CursorPlaced
  <2>1. /\ atFind \subseteq Live
        /\ \A i \in DOMAIN trail : trail[i] \in Live /\ Satisfies(trail[i])
        /\ \A i, j \in DOMAIN trail : i < j => pos[trail[i]] < pos[trail[j]]
    BY <1>4 DEF CursorPlaced
  <2>2. /\ trail' \in Seq(Node) /\ Len(trail') = Len(trail) + 1 /\ Len(trail) \in Nat
        /\ DOMAIN trail = 1 .. Len(trail) /\ DOMAIN trail' = 1 .. (Len(trail) + 1)
        /\ \A i \in 1 .. Len(trail) : trail'[i] = trail[i]
        /\ trail'[Len(trail) + 1] = c
    BY <1>5, <1>6, <1>11, Appended
  \* What the cursor is at is later than all it has delivered, and what it has
  \* skipped is not for it.
  <2>3. /\ Satisfies(c)
        /\ \A i \in DOMAIN trail : pos[trail[i]] < pos[c]
        /\ \A n \in atFind : Satisfies(n) /\ pos[n] < pos[c] => \E i \in DOMAIN trail : trail[i] = n
    <3>1. CASE cursor.status = "cs_cursor_initialized"
      <4>1. /\ trail = << >> /\ Satisfies(c)
            /\ \A n \in atFind : Satisfies(n) => pos[c] <= pos[n]
        BY <1>1, <1>4, <3>1 DEF CursorPlaced
      <4>2. \A n \in atFind : pos[n] \in Nat /\ pos[c] \in Nat
        BY <1>4, <1>6, <2>1, ShapeFacts DEF Live
      <4>3. DOMAIN trail = {}
        BY <4>1
      <4>4. QED
        BY <4>1, <4>2, <4>3
    <3>2. CASE cursor.status = "cs_cursor_active"
      <4>1. /\ \A i \in DOMAIN trail : pos[trail[i]] < pos[c]
            /\ \A n \in atFind : Satisfies(n) /\ pos[n] < pos[c] => \E i \in DOMAIN trail : trail[i] = n
        BY <1>1, <1>4, <1>6, <3>2 DEF CursorPlaced
      <4>2. Satisfies(c)
        BY <1>1, <3>2 DEF Delivers, Satisfies
      <4>3. QED
        BY <4>1, <4>2
    <3>3. QED
      BY <3>1, <3>2
  <2>4. ASSUME NEW i \in 1 .. (Len(trail) + 1)
        PROVE  trail'[i] \in Live /\ Satisfies(trail'[i]) /\ pos[trail'[i]] <= pos[c]
    <3>1. CASE i = Len(trail) + 1
      <4>1. trail'[i] = c /\ pos[c] \in Nat
        BY <1>4, <1>6, <2>2, <3>1, ShapeFacts
      <4>2. QED
        BY <1>6, <2>3, <4>1
    <3>2. CASE i # Len(trail) + 1
      <4>1. i \in DOMAIN trail /\ trail'[i] = trail[i]
        BY <2>2, <3>2
      <4>2. trail[i] \in Live /\ Satisfies(trail[i]) /\ pos[trail[i]] < pos[c]
        BY <2>1, <2>3, <4>1
      <4>3. pos[trail[i]] \in Nat /\ pos[c] \in Nat
        BY <1>4, <1>6, <4>2, ShapeFacts DEF Live
      <4>4. QED
        BY <4>1, <4>2, <4>3
    <3>3. QED
      BY <3>1, <3>2
  <2>5. ASSUME NEW i \in 1 .. (Len(trail) + 1), NEW j \in 1 .. (Len(trail) + 1), i < j
        PROVE  pos[trail'[i]] < pos[trail'[j]]
    <3>1. i \in DOMAIN trail /\ trail'[i] = trail[i]
      BY <2>2, <2>5
    <3>2. CASE j = Len(trail) + 1
      <4>1. trail'[j] = c
        BY <2>2, <3>2
      <4>2. QED
        BY <2>3, <3>1, <4>1
    <3>3. CASE j # Len(trail) + 1
      <4>1. j \in DOMAIN trail /\ trail'[j] = trail[j]
        BY <2>2, <3>3
      <4>2. QED
        BY <2>1, <2>5, <3>1, <4>1
    <3>4. QED
      BY <3>2, <3>3
  <2>6. s # Null => \A i \in 1 .. (Len(trail) + 1) : pos[trail'[i]] < pos[s]
    <3> SUFFICES ASSUME s # Null, NEW i \in 1 .. (Len(trail) + 1) PROVE pos[trail'[i]] < pos[s]
      OBVIOUS
    <3>1. pos[trail'[i]] <= pos[c] /\ pos[c] < pos[s] /\ trail'[i] \in Live
      BY <1>8, <2>4
    <3>2. pos[trail'[i]] \in Nat /\ pos[c] \in Nat /\ pos[s] \in Nat
      BY <1>4, <1>6, <1>8, <3>1, ShapeFacts DEF Live
    <3>3. QED
      BY <3>1, <3>2
  <2>7. ASSUME NEW n \in atFind, Satisfies(n), s # Null => pos[n] < pos[s]
        PROVE  \E i \in 1 .. (Len(trail) + 1) : trail'[i] = n
    <3>1. n \in DOMAIN heap /\ pos[n] \in Nat /\ pos[c] \in Nat
      BY <1>4, <1>6, <2>1, ShapeFacts DEF Live
    <3>2. pos[n] <= pos[c]
      <4>1. CASE s = Null
        BY <1>8, <3>1, <4>1
      <4>2. CASE s # Null
        <5>1. pos[s] \in Nat /\ pos[n] < pos[s]
          BY <1>4, <1>8, <2>7, <4>2, ShapeFacts
        <5>2. QED
          BY <1>8, <3>1, <4>2, <5>1
      <4>3. QED
        BY <4>1, <4>2
    <3>3. CASE pos[n] = pos[c]
      <4>1. n = c
        BY <1>4, <1>6, <3>1, <3>3, ShapeFacts
      <4>2. Len(trail) + 1 \in 1 .. (Len(trail) + 1)
        BY <2>2
      <4>3. QED
        BY <2>2, <4>1, <4>2
    <3>4. CASE pos[n] # pos[c]
      <4>1. pos[n] < pos[c]
        BY <3>1, <3>2, <3>4
      <4>2. PICK i \in DOMAIN trail : trail[i] = n
        BY <2>3, <2>7, <4>1
      <4>3. i \in 1 .. (Len(trail) + 1) /\ trail'[i] = n
        BY <2>2, <4>2
      <4>4. QED
        BY <4>3
    <3>5. QED
      BY <3>3, <3>4
  <2>8. (\A i \in DOMAIN trail : trail[i] \in Live /\ Satisfies(trail[i]))'
    <3> SUFFICES ASSUME NEW i \in DOMAIN trail'
                 PROVE  trail'[i] \in Live' /\ test_predicate(cursor'.pred, heap'[trail'[i]].key)
      BY DEF Satisfies
    <3>1. i \in 1 .. (Len(trail) + 1)
      BY <2>2
    <3>2. trail'[i] \in Live /\ Satisfies(trail'[i])
      BY <2>4, <3>1
    <3>3. QED
      BY <1>3, <1>10, <1>16, <3>2 DEF Satisfies
  <2>9. \A n \in atFind' : Satisfies(n)' /\ (cursor'.current # Null => pos[n] < pos[cursor'.current])
                               => \E i \in DOMAIN trail' : trail'[i] = n
    BY <1>3, <1>10, <1>15, <2>2, <2>7
  <2>10. cursor'.current # Null =>
           cursor'.current \in Live' /\ \A i \in DOMAIN trail' : pos[trail'[i]] < pos[cursor'.current]
    BY <1>9, <1>10, <1>16, <2>2, <2>6
  <2>11. Len(trail') # 0 /\ atFind' \subseteq Live'
    BY <1>3, <1>16, <2>1, <2>2
  <2>12. \A i, j \in DOMAIN trail' : i < j => pos[trail'[i]] < pos[trail'[j]]
    BY <2>2, <2>5
  <2>13. QED
    BY <1>10, <2>8, <2>9, <2>10, <2>11, <2>12 DEF CursorPlaced
<1>18. /\ cursor'.status # "none"
       /\ cursor'.status # "cs_cursor_initialized"
  BY <1>10
<1>19. Shape(heap, pos)'
  BY <1>3, <1>4
<1>20. QED
  BY <1>3, <1>14, <1>17, <1>18, <1>19 DEF SLInv

\* The cursor comes to its end: no later record is for it.
LEMMA EndInv ==
  ASSUME SLInv, sldict_next, cursor.current \in Live \cup {Null},
         cursor.status \in {"cs_cursor_initialized", "cs_cursor_active"}, ~Delivers,
         cursor' = [cursor EXCEPT !.status = "cs_end_of_results"], UNCHANGED trail
  PROVE  SLInv'
<1>1. /\ Open /\ heap' = heap /\ result' = result /\ atFind' = atFind /\ intact' = intact
      /\ MemoryTyped' /\ result' \in Results /\ IsFiniteSet(DOMAIN heap') /\ Open'
  BY NextKeeps
<1>2. PICK pos : Shape(heap, pos) /\ CursorPlaced(pos)
  BY <1>1 DEF SLInv
<1>3. cursor \in Cursors /\ trail \in Seq(Node) /\ atFind \subseteq Node /\ intact \in BOOLEAN
  BY TypeParts DEF SLInv, CursorTyped
<1>4. cursor.status = "cs_cursor_active"
  BY DEF Delivers
<1>5. /\ cursor'.status = "cs_end_of_results" /\ cursor'.pred = cursor.pred
      /\ cursor' \in Cursors
  <2>1. "cs_end_of_results" \in CursorStatus \cup {"none", "undefined"}
    BY DEF CursorStatus
  <2>2. QED
    BY <1>3, <2>1 DEF Cursors
<1>6. CursorTyped'
  BY <1>1, <1>3, <1>5 DEF CursorTyped
<1>7. TypeOK'
  BY <1>1, <1>6, TypePartsNext
<1>8. \A n : Satisfies(n)' <=> Satisfies(n)
  BY <1>1, <1>5 DEF Satisfies
<1>9. CursorPlaced(pos)'
  <2> SUFFICES ASSUME intact PROVE CursorPlaced(pos)'
    BY <1>1 DEF CursorPlaced
  <2>1. /\ atFind \subseteq Live
        /\ \A i \in DOMAIN trail : trail[i] \in Live /\ Satisfies(trail[i])
        /\ \A i, j \in DOMAIN trail : i < j => pos[trail[i]] < pos[trail[j]]
        /\ Len(trail) # 0
        /\ cursor.current # Null =>
             /\ cursor.current \in Live
             /\ \A i \in DOMAIN trail : pos[trail[i]] < pos[cursor.current]
        /\ \A n \in atFind :
             Satisfies(n) /\ (cursor.current # Null => pos[n] < pos[cursor.current])
               => \E i \in DOMAIN trail : trail[i] = n
    BY <1>2, <1>4 DEF CursorPlaced
  <2>2. ASSUME NEW n \in atFind, Satisfies(n) PROVE \E i \in DOMAIN trail : trail[i] = n
    <3>1. CASE cursor.current = Null
      BY <2>1, <2>2, <3>1
    <3>2. CASE cursor.current # Null
      <4>1. PICK c \in Live : c = cursor.current
        BY <2>1, <3>2
      <4> DEFINE t == trail[1]
      <4>2. 1 \in DOMAIN trail
        BY <1>3, <2>1
      <4>3. t \in Live /\ Satisfies(t) /\ pos[t] < pos[c]
        BY <2>1, <3>2, <4>1, <4>2
      <4> HIDE DEF t
      <4>4. ~Satisfies(c)
        BY <1>4, <3>2, <4>1 DEF Delivers, Satisfies
      <4>5. \A m \in Live : m \in DOMAIN heap \ {HeadNode} /\ heap[m].key \in Int /\ pos[m] \in Nat
        BY <1>2, ShapeFacts DEF Live
      <4>6. pos[n] < pos[c]
        <5> SUFFICES ASSUME ~(pos[n] < pos[c]) PROVE FALSE
          OBVIOUS
        <5>1. n \in Live
          BY <2>1
        <5>2. heap[t].key <= heap[c].key
          BY <1>2, <4>3, <4>5, ShapeFacts
        <5>3. heap[c].key <= heap[n].key
          <6>1. CASE pos[n] = pos[c]
            <7>1. n = c
              BY <1>2, <4>5, <5>1, <6>1, ShapeFacts
            <7>2. QED
              BY <4>5, <5>1, <7>1
          <6>2. CASE pos[n] # pos[c]
            <7>1. pos[c] < pos[n]
              BY <4>5, <5>1, <6>2
            <7>2. QED
              BY <1>2, <4>5, <5>1, <7>1, ShapeFacts
          <6>3. QED
            BY <6>1, <6>2
        <5>4. cursor.pred \in Predicate
          BY <1>3 DEF Cursors
        <5>5. ~test_predicate(cursor.pred, heap[n].key)
          BY <4>3, <4>4, <4>5, <5>1, <5>2, <5>3, <5>4, PredicateConvex DEF Satisfies
        <5>6. QED
          BY <2>2, <5>5 DEF Satisfies
      <4>7. QED
        BY <2>1, <2>2, <4>1, <4>6
    <3>3. QED
      BY <3>1, <3>2
  <2>3. Live' = Live /\ trail' = trail
    BY <1>1 DEF Live
  <2>4. (\A i \in DOMAIN trail : trail[i] \in Live /\ Satisfies(trail[i]))'
    BY <1>1, <1>5, <2>1, <2>3 DEF Satisfies
  <2>5. \A n \in atFind' : Satisfies(n)' => \E i \in DOMAIN trail' : trail'[i] = n
    BY <1>1, <1>8, <2>2, <2>3
  <2>6. atFind' \subseteq Live' /\ \A i, j \in DOMAIN trail' : i < j => pos[trail'[i]] < pos[trail'[j]]
    BY <1>1, <2>1, <2>3
  <2>7. QED
    BY <1>5, <2>4, <2>5, <2>6 DEF CursorPlaced
<1>10. /\ Shape(heap, pos)' /\ cursor'.status # "none"
       /\ cursor'.status # "cs_cursor_initialized"
  BY <1>1, <1>2, <1>5
<1>11. QED
  BY <1>1, <1>7, <1>9, <1>10 DEF SLInv

\* The node the cursor is at has been freed: a record has been deleted.
LEMMA FreedInv ==
  ASSUME SLInv, sldict_next, cursor.current \notin Live \cup {Null},
         cursor.status \in {"cs_cursor_initialized", "cs_cursor_active"},
         NEW status \in {"undefined", "cs_end_of_results"},
         cursor' = [cursor EXCEPT !.status = status], UNCHANGED trail
  PROVE  SLInv'
<1>1. /\ Open /\ heap' = heap /\ result' = result /\ atFind' = atFind /\ intact' = intact
      /\ MemoryTyped' /\ result' \in Results /\ IsFiniteSet(DOMAIN heap') /\ Open'
  BY NextKeeps
<1>2. PICK pos : Shape(heap, pos) /\ CursorPlaced(pos)
  BY <1>1 DEF SLInv
<1>3. cursor \in Cursors /\ trail \in Seq(Node) /\ atFind \subseteq Node /\ intact \in BOOLEAN
  BY TypeParts DEF SLInv, CursorTyped
<1>4. cursor'.status = status /\ cursor' \in Cursors
  <2>1. status \in CursorStatus \cup {"none", "undefined"}
    BY DEF CursorStatus
  <2>2. QED
    BY <1>3, <2>1 DEF Cursors
<1>5. CursorTyped'
  BY <1>1, <1>3, <1>4 DEF CursorTyped
<1>6. TypeOK'
  BY <1>1, <1>5, TypePartsNext
<1>7. ~intact
  BY <1>2 DEF CursorPlaced
<1>8. CursorPlaced(pos)'
  BY <1>1, <1>7 DEF CursorPlaced
<1>9. /\ Shape(heap, pos)' /\ cursor'.status # "none"
      /\ cursor'.status # "cs_cursor_initialized"
  BY <1>1, <1>2, <1>4
<1>10. QED
  BY <1>1, <1>6, <1>8, <1>9 DEF SLInv

LEMMA NextInv ==
  ASSUME SLInv, sldict_next
  PROVE  SLInv'
<1>1. cursor.status \in {"cs_cursor_initialized", "cs_cursor_active"}
  BY DEF sldict_next
<1>2. CASE cursor.current \in Live \cup {Null} /\ Delivers /\ Deliver
  <2>1. cursor.current \in Live
    <3>1. CASE cursor.status = "cs_cursor_active"
      BY <1>2, <3>1 DEF Delivers
    <3>2. CASE cursor.status = "cs_cursor_initialized" /\ cursor.current = Null
      BY <3>2 DEF SLInv
    <3>3. QED
      BY <1>1, <1>2, <3>1, <3>2
  <2>2. QED
    BY <1>1, <1>2, <2>1, DeliverInv
<1>3. CASE /\ cursor.current \in Live \cup {Null} /\ ~Delivers
           /\ cursor' = [cursor EXCEPT !.status = "cs_end_of_results"] /\ UNCHANGED trail
  BY <1>1, <1>3, EndInv
<1>4. CASE /\ cursor.current \notin Live \cup {Null}
           /\ \/ cursor' = [cursor EXCEPT !.status = "undefined"]
              \/ cursor' = [cursor EXCEPT !.status = "cs_end_of_results"]
           /\ UNCHANGED trail
  BY <1>1, <1>4, FreedInv
<1>5. QED
  BY <1>2, <1>3, <1>4 DEF sldict_next

-----------------------------------------------------------------------------
(***************************************************************************)
(* The theorems.                                                           *)
(***************************************************************************)
THEOREM Invariance == Spec => []SLInv
<1>1. Init => SLInv
  BY InitInv
<1>2. SLInv /\ [Next]_vars => SLInv'
  <2> SUFFICES ASSUME SLInv, [Next]_vars PROVE SLInv'
    OBVIOUS
  <2>1. ASSUME NEW k \in Keys, NEW v \in Values, sldict_insert(k, v) PROVE SLInv'
    <3>1. sl_insert("insert", k, v, 0) /\ Open /\ UNCHANGED cursorVars
      BY <2>1 DEF sldict_insert
    <3>2. QED
      BY <3>1, InsertInv
  <2>2. ASSUME NEW k \in Keys, NEW v \in Values, sl_update(k, v) PROVE SLInv'
    BY <2>2, UpdateInv
  <2>3. ASSUME NEW k \in Keys, sl_delete(k) PROVE SLInv'
    BY <2>3, DeleteInv
  <2>4. ASSUME NEW k \in Keys, sl_get(k) PROVE SLInv'
    BY <2>4, GetInv
  <2>5. ASSUME NEW pred \in Predicates, sldict_find(pred) PROVE SLInv'
    BY <2>5, FindInv
  <2>6. CASE sldict_next
    BY <2>6, NextInv
  <2>7. CASE sldict_destroy_cursor
    BY <2>7, DestroyCursorInv
  <2>8. CASE sldict_delete_dictionary
    BY <2>8, DeleteDictionaryInv
  <2>9. CASE sldict_create_dictionary
    BY <2>9, CreateDictionaryInv
  <2>10. CASE UNCHANGED vars
    <3>1. heap' = heap /\ cursor' = cursor /\ result' = result
          /\ trail' = trail /\ atFind' = atFind /\ intact' = intact
      BY <2>10 DEF vars
    <3>2. MemoryTyped' /\ CursorTyped' /\ result' \in Results
      BY <3>1, TypeParts DEF SLInv, MemoryTyped, CursorTyped, Live, Open
    <3>3. TypeOK'
      BY <3>2, TypePartsNext
    <3>4. ASSUME NEW pos, Shape(heap, pos), CursorPlaced(pos)
          PROVE  Shape(heap, pos)' /\ CursorPlaced(pos)'
      BY <3>1, <3>4 DEF CursorPlaced, Satisfies, Live
    <3>5. Open' => \E pos : Shape(heap, pos)' /\ CursorPlaced(pos)'
      <4> SUFFICES ASSUME Open PROVE \E pos : Shape(heap, pos)' /\ CursorPlaced(pos)'
        BY <3>1 DEF Open
      <4>1. PICK pos : Shape(heap, pos) /\ CursorPlaced(pos)
        BY DEF SLInv
      <4>2. Shape(heap, pos)' /\ CursorPlaced(pos)'
        BY <3>4, <4>1
      <4>3. QED
        BY <4>2
    <3>6. QED
      BY <3>1, <3>3, <3>5 DEF SLInv, Open
  <2>11. QED
    BY <2>1, <2>2, <2>3, <2>4, <2>5, <2>6, <2>7, <2>8, <2>9, <2>10 DEF Next
<1>3. QED
  BY <1>1, <1>2, PTL DEF Spec

\* Every variable keeps its type; the heights of nodes are levels.
THEOREM TypeCorrect == Spec => []TypeOK
<1>1. SLInv => TypeOK
  BY DEF SLInv
<1>2. QED
  BY <1>1, Invariance, PTL

\* However inserts and deletes relink it, each level of the list visits
\* exactly the nodes that are tall enough for it, in the order of the bottom
\* level, which is the order of the keys.
THEOREM LevelsStayNested == Spec => []LevelsNested
<1>1. SLInv => LevelsNested
  BY InvImplies
<1>2. QED
  BY <1>1, Invariance, PTL

\* Every allocated node is reached along the bottom level, so that a walk along
\* it, and the one that frees the list, misses none.
THEOREM NothingIsLost == Spec => []NothingLeaks
<1>1. SLInv => NothingLeaks
  BY InvImplies
<1>2. QED
  BY <1>1, Invariance, PTL

\* sl_find_node returns the first record of a key, or the last one of a
\* smaller key, whatever heights the records have been given.
THEOREM FirstIsFound == Spec => []FindsFirst
<1>1. SLInv => FindsFirst
  BY InvImplies
<1>2. QED
  BY <1>1, Invariance, PTL

\* A traversal delivers records that satisfy its predicate in the order of the
\* list, each once, and at its end has delivered every one there was when it
\* was opened, as long as no record is deleted: inserts and updates made
\* between its calls take none away.
THEOREM TraversalsOrdered == Spec => []TraversalOrdered
<1>1. SLInv => TraversalOrdered
  BY InvOrders
<1>2. QED
  BY <1>1, Invariance, PTL

-----------------------------------------------------------------------------
(***************************************************************************)
(* The bags.  A record is a node of a key's block, and the bag of the key  *)
(* counts the nodes with each value.                                       *)
(***************************************************************************)
Records(hp, k, v) == { n \in KeyBlock(hp, k) : hp[n].value = v }

LEMMA BagOfRecords ==
  ASSUME NEW k
  PROVE  BagOf(k) = [v \in Values |-> Cardinality(Records(heap, k, v))]
<1>1. \A v : { n \in Live : heap[n].key = k /\ heap[n].value = v } = Records(heap, k, v)
  BY DEF Records, KeyBlock, Live
<1>2. QED
  BY <1>1 DEF BagOf

LEMMA BagOfRecordsNext ==
  ASSUME NEW k
  PROVE  BagOf(k)' = [v \in Values |-> Cardinality(Records(heap', k, v))]
<1>1. \A v : { n \in Live' : heap'[n].key = k /\ heap'[n].value = v } = Records(heap', k, v)
  BY DEF Records, KeyBlock, Live
<1>2. QED
  BY <1>1 DEF BagOf

\* The values of a key add up to its records.
LEMMA CopiesAre ==
  ASSUME IsFiniteSet(DOMAIN heap), NEW k \in Keys,
         \A n \in KeyBlock(heap, k) : heap[n].value \in Values
  PROVE  Abstract!Copies(k) = Cardinality(KeyBlock(heap, k))
<1> DEFINE B == KeyBlock(heap, k)
           val == [n \in B |-> heap[n].value]
           b == [j \in Keys |-> BagOf(j)][k]
<1>1. IsFiniteSet(B) /\ IsFiniteSet(Values)
  BY BlockFinite, ValuesAssumption
<1>2. \A v \in Values : b[v] = Cardinality(Valued(B, val, v))
  <2>1. \A v : Valued(B, val, v) = Records(heap, k, v)
    BY DEF Records, Valued
  <2>2. QED
    BY <2>1, BagOfRecords
<1>3. \A n \in B : val[n] \in Values
  OBVIOUS
<1>4. Abstract!Copies(k) = Total(Values, b)
  BY DEF Abstract!Copies, Abstract!MapThenSumSet, Abstract!MapThenFoldSet, IsSum, Total
<1> HIDE DEF b, val, B
<1>5. QED
  BY <1>1, <1>2, <1>3, <1>4, TotalIs DEF B

LEMMA RecordsFinite ==
  ASSUME NEW hp, IsFiniteSet(DOMAIN hp), NEW k, NEW v
  PROVE  IsFiniteSet(Records(hp, k, v)) /\ Cardinality(Records(hp, k, v)) \in Nat
<1>1. Records(hp, k, v) \subseteq DOMAIN hp
  BY DEF Records, KeyBlock
<1>2. QED
  BY <1>1, FS_Subset, FS_CardinalityType

\* A memory with the same records has the same bags.
LEMMA SameBags ==
  ASSUME \A k \in Keys, v \in Values : Records(heap', k, v) = Records(heap, k, v)
  PROVE  [k \in Keys |-> BagOf(k)]' = [k \in Keys |-> BagOf(k)]
<1>1. ASSUME NEW k \in Keys PROVE BagOf(k)' = BagOf(k)
  BY BagOfRecords, BagOfRecordsNext
<1>2. QED
  BY <1>1

\* The bags once the records of one key have changed.
LEMMA BagsOfOne ==
  ASSUME NEW k \in Keys,
         \A j \in Keys \ {k}, v \in Values : Records(heap', j, v) = Records(heap, j, v),
         NEW b, b = [v \in Values |-> Cardinality(Records(heap', k, v))]
  PROVE  [j \in Keys |-> BagOf(j)]' = [[j \in Keys |-> BagOf(j)] EXCEPT ![k] = b]
<1>1. ASSUME NEW j \in Keys \ {k} PROVE BagOf(j)' = BagOf(j)
  BY BagOfRecords, BagOfRecordsNext
<1>2. BagOf(k)' = b
  BY BagOfRecordsNext
<1>3. QED
  BY <1>1, <1>2

\* A node linked in is one more record.
LEMMA OneMore ==
  ASSUME IsFiniteSet(DOMAIN heap), NEW n, n \notin DOMAIN heap, n # HeadNode,
         DOMAIN heap' = DOMAIN heap \cup {n},
         NEW k \in Keys, NEW v \in Values, heap'[n].key = k, heap'[n].value = v,
         \A m \in DOMAIN heap \ {HeadNode} :
           heap'[m].key = heap[m].key /\ heap'[m].value = heap[m].value
  PROVE  [j \in Keys |-> BagOf(j)]' = [[j \in Keys |-> BagOf(j)] EXCEPT ![k][v] = @ + 1]
<1> DEFINE b == [BagOf(k) EXCEPT ![v] = @ + 1]
<1>1. ASSUME NEW j \in Keys, NEW w \in Values
      PROVE  Records(heap', j, w)
               = IF j = k /\ w = v THEN Records(heap, j, w) \cup {n} ELSE Records(heap, j, w)
  BY DEF Records, KeyBlock
<1>2. n \notin Records(heap, k, v)
  BY DEF Records, KeyBlock
<1>3. Cardinality(Records(heap', k, v)) = Cardinality(Records(heap, k, v)) + 1
  <2>1. IsFiniteSet(Records(heap, k, v))
    BY RecordsFinite
  <2>2. Records(heap', k, v) = Records(heap, k, v) \cup {n}
    BY <1>1
  <2>3. PICK S : S = Records(heap, k, v)
    OBVIOUS
  <2>4. Cardinality(S \cup {n}) = Cardinality(S) + 1
    BY <1>2, <2>1, <2>3, FS_AddElement
  <2>5. QED
    BY <2>2, <2>3, <2>4
<1>4. b = [w \in Values |-> Cardinality(Records(heap', k, w))]
  <2>1. BagOf(k) = [w \in Values |-> Cardinality(Records(heap, k, w))]
    BY BagOfRecords
  <2>2. \A w \in Values \ {v} : Records(heap', k, w) = Records(heap, k, w)
    BY <1>1
  <2>3. QED
    BY <1>3, <2>1, <2>2
<1>5. \A j \in Keys \ {k}, w \in Values : Records(heap', j, w) = Records(heap, j, w)
  BY <1>1
<1>6. [j \in Keys |-> BagOf(j)]' = [[j \in Keys |-> BagOf(j)] EXCEPT ![k] = b]
  <2> HIDE DEF b
  <2>1. QED
    BY <1>4, <1>5, BagsOfOne
<1>7. QED
  BY <1>6

LEMMA WithValues ==
  ASSUME NEW hp, NEW pos, Shape(hp, pos), NEW n, n \notin DOMAIN hp, NEW k, NEW v, NEW at
  PROVE  /\ With(hp, n, k, v, at)[n].value = v
         /\ \A m \in DOMAIN hp \ {HeadNode} : With(hp, n, k, v, at)[m].value = hp[m].value
<1> DEFINE hq == With(hp, n, k, v, at)
<1>1. hq[n] = NewNode(hp, k, v, at)
  BY DEF With
<1>2. NewNode(hp, k, v, at).value = v
  BY DEF NewNode
<1>3. ASSUME NEW m \in DOMAIN hp \ {HeadNode} PROVE hq[m].value = hp[m].value
  <2> DEFINE links == LinksTo(hp[m], m, n, at)
  <2>1. hq[m] = Redirected(hp[m], links)
    BY DEF With
  <2>2. hp[m] \in Nodes
    BY ShapeFacts
  <2>3. PICK h \in Levels : hp[m] \in [key: Keys, value: Values, next: [0 .. h -> Node \cup {Null}]]
    BY <2>2 DEF Nodes
  <2> HIDE DEF links
  <2>4. Redirected(hp[m], links).value = hp[m].value
    BY <2>3 DEF Redirected
  <2>5. QED
    BY <2>1, <2>4
<1>4. QED
  BY <1>1, <1>2, <1>3

\* An insert adds one record, or is refused.
LEMMA InsertsAre ==
  ASSUME SLInv, Open, NEW k \in Keys, NEW v \in Values, NEW call, NEW refused,
         sl_insert(call, k, v, refused)
  PROVE  Abstract!Add(call, k, v) \/ Abstract!Refuse(call, k, refused)
<1>1. CASE Answer(call, k, "err_out_of_memory", refused, NoValue) /\ UNCHANGED heap
  <2>1. [j \in Keys |-> BagOf(j)]' = [j \in Keys |-> BagOf(j)]
    BY <1>1, SameBags
  <2>2. Abstract!Refuse(call, k, refused)
    BY <1>1, <2>1 DEF Abstract!Refuse, Abstract!Answer, Answer
  <2>3. QED
    BY <2>2
<1>2. CASE /\ \E n \in Node \ DOMAIN heap, at \in InsertPlaces(k) : LinkIn(n, k, v, at)
           /\ Answer(call, k, "err_ok", 1, NoValue)
  <2>1. PICK n \in Node \ DOMAIN heap, at \in InsertPlaces(k) : LinkIn(n, k, v, at)
    BY <1>2
  <2>2. PICK pos : Shape(heap, pos)
    BY DEF SLInv
  <2>3. PICK c \in Nat : Fits(heap, pos, k, at, c)
    BY <2>2, InsertPlacesFit
  <2> DEFINE hq == With(heap, n, k, v, at)
  <2>4. n \in Node /\ n \notin DOMAIN heap /\ n # HeadNode
    BY NodeAssumption
  <2>5. /\ DOMAIN hq = DOMAIN heap \cup {n} /\ n # HeadNode
        /\ hq[n] \in Nodes /\ hq[n].key = k
        /\ hq[n].next = [h \in DOMAIN at |-> heap[at[h]].next[h]]
        /\ \A m \in DOMAIN heap :
             /\ hq[m].next = LinksTo(heap[m], m, n, at)
             /\ m = HeadNode => hq[m] \in Linked
             /\ m # HeadNode => hq[m] \in Nodes /\ hq[m].key = heap[m].key
    BY <2>2, <2>3, <2>4, WithNodes
  <2>6. hq[n].value = v /\ \A m \in DOMAIN heap \ {HeadNode} : hq[m].value = heap[m].value
    BY <2>2, <2>4, WithValues
  <2>7. heap' = hq
    BY <2>1, LinkInIs
  <2> HIDE DEF hq
  <2>8. [j \in Keys |-> BagOf(j)]' = [[j \in Keys |-> BagOf(j)] EXCEPT ![k][v] = @ + 1]
    BY <2>4, <2>5, <2>6, <2>7, OneMore DEF SLInv
  <2>9. Abstract!Add(call, k, v)
    BY <1>2, <2>8 DEF Abstract!Add, Abstract!Answer, Answer
  <2>10. QED
    BY <2>9
<1>3. QED
  BY <1>1, <1>2 DEF sl_insert

\* The nodes of a key carry values.
LEMMA BlockCopies ==
  ASSUME NEW pos, Shape(heap, pos), IsFiniteSet(DOMAIN heap), NEW k \in Keys
  PROVE  /\ Abstract!Copies(k) = Cardinality(KeyBlock(heap, k))
         /\ Cardinality(KeyBlock(heap, k)) \in Nat
         /\ KeyBlock(heap, k) = {} <=> Abstract!Copies(k) = 0
<1>1. \A n \in KeyBlock(heap, k) : heap[n].value \in Values
  <2> SUFFICES ASSUME NEW n \in KeyBlock(heap, k) PROVE heap[n].value \in Values
    OBVIOUS
  <2>1. heap[n] \in Nodes
    BY ShapeFacts DEF KeyBlock
  <2>2. QED
    BY <2>1, NodeHeights
<1>2. IsFiniteSet(KeyBlock(heap, k)) /\ Cardinality(KeyBlock(heap, k)) \in Nat
  BY BlockFinite
<1>3. Abstract!Copies(k) = Cardinality(KeyBlock(heap, k))
  BY <1>1, CopiesAre
<1>4. QED
  BY <1>2, <1>3, FS_EmptySet

\* An update of a key that is held overwrites each of its records.
LEMMA OverwritesAre ==
  ASSUME SLInv, Open, NEW k \in Keys, NEW v \in Values,
         Holds(heap, sl_find_node(heap, k), k), sl_update(k, v)
  PROVE  Abstract!Update(k, v)
<1> DEFINE block == KeyBlock(heap, k)
           count == Cardinality(block)
           b == [[w \in Values |-> 0] EXCEPT ![v] = count]
<1>1. PICK pos : Shape(heap, pos)
  BY DEF SLInv
<1>2. k \in Int
  BY KeysAssumption
<1>3. Block(sl_find_node(heap, k), k) = block
  BY <1>1, <1>2, BlockIs
<1>4. /\ heap' = [m \in DOMAIN heap |-> IF m \in block THEN [heap[m] EXCEPT !.value = v] ELSE heap[m]]
      /\ Answer("update", k, "err_ok", count, NoValue)
  BY <1>3 DEF sl_update
<1>5. block # {}
  BY <1>1, <1>2, FindNode, HoldsBlock
<1>6. Abstract!Copies(k) = count /\ count \in Nat /\ Abstract!Copies(k) > 0
  BY <1>1, <1>5, BlockCopies DEF SLInv
<1>7. ASSUME NEW m \in DOMAIN heap \ {HeadNode}
      PROVE  /\ heap'[m].key = heap[m].key
             /\ heap'[m].value = IF m \in block THEN v ELSE heap[m].value
  <2>1. heap[m] \in Nodes
    BY <1>1, ShapeFacts
  <2>2. CASE m \in block
    <3>1. heap'[m] = [heap[m] EXCEPT !.value = v]
      BY <1>4, <2>2
    <3>2. QED
      BY <2>1, <2>2, <3>1, Overwritten
  <2>3. CASE m \notin block
    BY <1>4, <2>3
  <2>4. QED
    BY <2>2, <2>3
<1>8. DOMAIN heap' = DOMAIN heap
  BY <1>4
<1>9. \A j \in Keys \ {k}, w \in Values : Records(heap', j, w) = Records(heap, j, w)
  BY <1>7, <1>8 DEF Records, KeyBlock
<1>10. \A w \in Values : Records(heap', k, w) = IF w = v THEN block ELSE {}
  BY <1>7, <1>8 DEF Records, KeyBlock
<1> HIDE DEF block, count
<1>11. b = [w \in Values |-> Cardinality(Records(heap', k, w))]
  BY <1>10, FS_EmptySet DEF count
<1>12. [j \in Keys |-> BagOf(j)]' = [[j \in Keys |-> BagOf(j)] EXCEPT ![k] = b]
  <2> HIDE DEF b
  <2>1. QED
    BY <1>9, <1>11, BagsOfOne
<1>13. QED
  BY <1>4, <1>6, <1>12 DEF Abstract!Update, Abstract!Answer, Abstract!NoRecords, Answer

\* A delete removes the block of its key, and counts it.
LEMMA DeletesAre ==
  ASSUME SLInv, NEW k \in Keys, sl_delete(k)
  PROVE  Abstract!Delete(k)
<1> DEFINE block == KeyBlock(heap, k)
           count == Cardinality(DOMAIN heap) - Cardinality(DOMAIN heap')
           b == [w \in Values |-> 0]
<1>1. /\ Open /\ heap' = AfterDelete(k)
      /\ Answer("delete", k, IF count = 0 THEN "err_item_not_found" ELSE "err_ok", count, NoValue)
  BY DEF sl_delete
<1>2. PICK pos : Shape(heap, pos)
  BY <1>1 DEF SLInv
<1>3. k \in Int /\ IsFiniteSet(DOMAIN heap)
  BY KeysAssumption DEF SLInv
<1>4. /\ DOMAIN heap' = DOMAIN heap \ block
      /\ \A m \in DOMAIN heap' \ {HeadNode} :
           heap'[m].key = heap[m].key /\ heap'[m].value = heap[m].value
  BY <1>1, <1>2, <1>3, AfterDeleteIs
<1>5. /\ Abstract!Copies(k) = Cardinality(block) /\ Cardinality(block) \in Nat
      /\ block = {} <=> Abstract!Copies(k) = 0
  BY <1>2, <1>3, BlockCopies
<1>6. count = Cardinality(block)
  <2> DEFINE rest == DOMAIN heap'
  <2>1. block \subseteq DOMAIN heap /\ rest \subseteq DOMAIN heap
    BY <1>4 DEF KeyBlock
  <2>2. IsFiniteSet(block) /\ IsFiniteSet(rest)
    BY <1>3, <2>1, FS_Subset
  <2>3. block \cup rest = DOMAIN heap /\ block \cap rest = {}
    BY <1>4, <2>1
  <2> HIDE DEF block, rest
  <2>4. Cardinality(block \cup rest) = Cardinality(block) + Cardinality(rest) - Cardinality(block \cap rest)
    BY <2>2, FS_Union
  <2>5. Cardinality(block \cap rest) = 0 /\ Cardinality(rest) \in Nat
    BY <2>2, <2>3, FS_EmptySet, FS_CardinalityType
  <2>6. QED
    BY <1>5, <2>3, <2>4, <2>5 DEF rest
<1>7. \A j \in Keys \ {k}, w \in Values : Records(heap', j, w) = Records(heap, j, w)
  BY <1>4 DEF Records, KeyBlock
<1>8. \A w \in Values : Records(heap', k, w) = {}
  BY <1>4 DEF Records, KeyBlock
<1>9. CASE block = {}
  <2>1. \A w \in Values : Records(heap, k, w) = {}
    BY <1>9 DEF Records
  <2>2. [j \in Keys |-> BagOf(j)]' = [j \in Keys |-> BagOf(j)]
    BY <1>7, <1>8, <2>1, SameBags
  <2>3. count = 0
    BY <1>5, <1>6, <1>9
  <2> HIDE DEF count
  <2>4. Abstract!Miss("delete", k)
    BY <1>1, <1>5, <1>9, <2>2, <2>3 DEF Abstract!Miss, Abstract!Answer, Answer
  <2>5. QED
    BY <2>4 DEF Abstract!Delete
<1>10. CASE block # {}
  <2>1. count = Abstract!Copies(k) /\ Abstract!Copies(k) > 0 /\ count # 0
    BY <1>5, <1>6, <1>10
  <2> HIDE DEF count, block
  <2>2. b = [w \in Values |-> Cardinality(Records(heap', k, w))]
    BY <1>8, FS_EmptySet
  <2> HIDE DEF b
  <2>3. [j \in Keys |-> BagOf(j)]' = [[j \in Keys |-> BagOf(j)] EXCEPT ![k] = b]
    BY <1>7, <2>2, BagsOfOne
  <2>4. Answer("delete", k, "err_ok", Abstract!Copies(k), NoValue)
    BY <1>1, <2>1
  <2>5. QED
    BY <2>1, <2>3, <2>4 DEF Abstract!Delete, Abstract!Answer, Abstract!NoRecords, Answer, b
<1>11. QED
  BY <1>9, <1>10

\* A get returns a value there is, and misses only a key that is not held.
LEMMA GetsAre ==
  ASSUME SLInv, NEW k \in Keys, sl_get(k)
  PROVE  Abstract!Get(k)
<1> DEFINE n == sl_find_node(heap, k)
<1>1. Open /\ heap' = heap
  BY DEF sl_get
<1>2. PICK pos : Shape(heap, pos)
  BY <1>1 DEF SLInv
<1>3. k \in Int /\ IsFiniteSet(DOMAIN heap)
  BY KeysAssumption DEF SLInv
<1>4. [j \in Keys |-> BagOf(j)]' = [j \in Keys |-> BagOf(j)]
  BY <1>1, SameBags
<1>5. /\ Holds(heap, n, k) <=> KeyBlock(heap, k) # {}
      /\ Holds(heap, n, k) => n \in KeyBlock(heap, k)
  BY <1>2, <1>3, FindNode, HoldsBlock
<1>6. CASE Holds(heap, n, k) /\ Answer("get", k, "err_ok", 1, heap[n].value)
  <2> DEFINE v == heap[n].value
  <2>1. n \in DOMAIN heap \ {HeadNode}
    BY <1>5, <1>6 DEF KeyBlock
  <2>2. v \in Values
    BY <1>2, <2>1, NodeHeights DEF Shape
  <2>3. n \in Records(heap, k, v)
    BY <1>5, <1>6 DEF Records
  <2> HIDE DEF n, v
  <2>4. Cardinality(Records(heap, k, v)) > 0
    BY <1>3, <2>3, RecordsFinite, FS_EmptySet
  <2>5. [j \in Keys |-> BagOf(j)][k][v] > 0
    BY <2>2, <2>4, BagOfRecords
  <2>6. Answer("get", k, "err_ok", 1, v)
    BY <1>6 DEF v
  <2>7. QED
    BY <1>4, <2>2, <2>5, <2>6 DEF Abstract!Get, Abstract!Answer, Answer
<1>7. CASE ~Holds(heap, n, k) /\ Answer("get", k, "err_item_not_found", 0, NoValue)
  <2>1. Abstract!Copies(k) = 0
    BY <1>2, <1>3, <1>5, <1>7, BlockCopies
  <2>2. Abstract!Miss("get", k)
    BY <1>4, <1>7, <2>1 DEF Abstract!Miss, Abstract!Answer, Answer
  <2>3. QED
    BY <2>2 DEF Abstract!Get
<1>8. QED
  BY <1>6, <1>7 DEF sl_get

LEMMA UpdatesAre ==
  ASSUME SLInv, NEW k \in Keys, NEW v \in Values, sl_update(k, v)
  PROVE  Abstract!Update(k, v)
<1> DEFINE n == sl_find_node(heap, k)
<1>1. Open
  BY DEF sl_update
<1>2. CASE Holds(heap, n, k)
  BY <1>1, <1>2, OverwritesAre
<1>3. CASE ~Holds(heap, n, k)
  <2>1. sl_insert("update", k, v, 1)
    BY <1>3 DEF sl_update
  <2>2. Abstract!Add("update", k, v) \/ Abstract!Refuse("update", k, 1)
    BY <1>1, <2>1, InsertsAre
  <2>3. PICK pos : Shape(heap, pos)
    BY <1>1 DEF SLInv
  <2>4. k \in Int /\ IsFiniteSet(DOMAIN heap)
    BY KeysAssumption DEF SLInv
  <2>5. KeyBlock(heap, k) = {}
    BY <1>3, <2>3, <2>4, FindNode, HoldsBlock
  <2>6. Abstract!Copies(k) = 0
    BY <2>3, <2>4, <2>5, BlockCopies
  <2>7. QED
    BY <2>2, <2>6 DEF Abstract!Update
<1>4. QED
  BY <1>2, <1>3

\* What leaves every bag and the last answer as they are is a stutter.
LEMMA Stutters ==
  ASSUME \A k \in Keys, v \in Values : Records(heap', k, v) = Records(heap, k, v), result' = result
  PROVE  UNCHANGED Abstract!vars
<1>1. [k \in Keys |-> BagOf(k)]' = [k \in Keys |-> BagOf(k)]
  BY SameBags
<1>2. QED
  BY <1>1 DEF Abstract!vars

LEMMA BagsStart ==
  ASSUME Init
  PROVE  Abstract!Init
<1>1. \A k, v : Records(heap, k, v) = {}
  BY DEF Init, Records, KeyBlock
<1>2. \A k \in Keys : BagOf(k) = [v \in Values |-> 0]
  BY <1>1, BagOfRecords, FS_EmptySet
<1>3. QED
  BY <1>2 DEF Init, Abstract!Init, Abstract!NoRecords

LEMMA BagsStep ==
  ASSUME SLInv, [Next]_vars
  PROVE  [Abstract!Next]_(Abstract!vars)
<1>1. ASSUME NEW k \in Keys, NEW v \in Values, sldict_insert(k, v) PROVE Abstract!Next
  <2>1. Open /\ sl_insert("insert", k, v, 0)
    BY <1>1 DEF sldict_insert
  <2>2. Abstract!Insert(k, v)
    BY <2>1, InsertsAre DEF Abstract!Insert
  <2>3. QED
    BY <2>2 DEF Abstract!Next
<1>2. ASSUME NEW k \in Keys, NEW v \in Values, sl_update(k, v) PROVE Abstract!Next
  <2>1. Abstract!Update(k, v)
    BY <1>2, UpdatesAre
  <2>2. QED
    BY <2>1 DEF Abstract!Next
<1>3. ASSUME NEW k \in Keys, sl_delete(k) PROVE Abstract!Next
  <2>1. Abstract!Delete(k)
    BY <1>3, DeletesAre
  <2>2. QED
    BY <2>1 DEF Abstract!Next
<1>4. ASSUME NEW k \in Keys, sl_get(k) PROVE Abstract!Next
  <2>1. Abstract!Get(k)
    BY <1>4, GetsAre
  <2>2. QED
    BY <2>1 DEF Abstract!Next
<1>5. CASE UNCHANGED <<heap, result>>
  BY <1>5, Stutters
<1>6. CASE sldict_delete_dictionary
  <2>1. PICK pos : Shape(heap, pos)
    BY <1>6 DEF sldict_delete_dictionary, SLInv
  <2>2. DOMAIN heap' = {}
    BY <1>6, <2>1, BottomIs DEF sldict_delete_dictionary
  <2>3. \A k, v : Records(heap', k, v) = {}
    BY <2>2 DEF Records, KeyBlock
  <2>4. \A k \in Keys : BagOf(k)' = [v \in Values |-> 0]
    BY <2>3, BagOfRecordsNext, FS_EmptySet
  <2>5. Abstract!Clear
    BY <1>6, <2>4 DEF sldict_delete_dictionary, Abstract!Clear, Abstract!NoRecords
  <2>6. QED
    BY <2>5 DEF Abstract!Next
<1>7. CASE sldict_create_dictionary
  <2>1. DOMAIN heap = {}
    BY <1>7 DEF sldict_create_dictionary, SLInv
  <2>2. DOMAIN heap' = {HeadNode} /\ result' = result
    BY <1>7, <2>1 DEF sldict_create_dictionary
  <2>3. \A k, v : Records(heap', k, v) = {} /\ Records(heap, k, v) = {}
    BY <2>1, <2>2 DEF Records, KeyBlock
  <2>4. QED
    BY <2>2, <2>3, Stutters
<1>8. CASE UNCHANGED vars
  BY <1>5, <1>8 DEF vars
<1>9. ASSUME NEW pred \in Predicates, sldict_find(pred) PROVE UNCHANGED <<heap, result>>
  BY <1>9 DEF sldict_find
<1>10. CASE sldict_next
  BY <1>5, <1>10 DEF sldict_next
<1>11. CASE sldict_destroy_cursor
  BY <1>5, <1>11 DEF sldict_destroy_cursor
<1>12. QED
  BY <1>1, <1>2, <1>3, <1>4, <1>5, <1>6, <1>7, <1>8, <1>9, <1>10, <1>11 DEF Next

\* The list implements the bags: every answer and count a caller sees is the
\* one of a bag of values for each key, and the relinking, the heights and the
\* cursors are none of the caller's business.
THEOREM BagsImplemented == Spec => ImplementsBags
<1>1. Init => Abstract!Init
  BY BagsStart
<1>2. SLInv /\ [Next]_vars => [Abstract!Next]_(Abstract!vars)
  BY BagsStep
<1>3. QED
  BY <1>1, <1>2, Invariance, PTL DEF Spec, ImplementsBags, Abstract!Spec
=============================================================================
