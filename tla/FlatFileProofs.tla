---------------------------- MODULE FlatFileProofs ----------------------------
(***************************************************************************)
(* Theorems about the flat file whose process may stop at any time, for    *)
(* every set of keys, values and cursors, every size of the row buffer and *)
(* any number of rows.                                                     *)
(***************************************************************************)
EXTENDS FlatFileCursors, NumberProofs

(***************************************************************************)
(* Least and greatest elements, and sequences.                             *)
(***************************************************************************)

LEMMA NoneBefore ==
  ASSUME NEW D \in SUBSET Nat, NEW l \in Nat, \A x \in D : l <= x
  PROVE  { x \in D : x < l } = {}
<1>1. ASSUME NEW x \in D, x < l PROVE FALSE
  BY <1>1
<1>2. QED
  BY <1>1

LEMMA DivBounds ==
  ASSUME NEW a \in Nat, NEW n \in Nat \ {0}
  PROVE  /\ a \div n \in Nat
         /\ (a \div n) * n \in Nat
         /\ (a \div n) * n <= a
         /\ a < (a \div n) * n + n
  OBVIOUS

\* A part of a sequence, from m on, that ends within it.
LEMMA PartOfSequence ==
  ASSUME NEW S, NEW seq \in Seq(S), NEW m \in 1 .. Len(seq), NEW n \in m .. Len(seq)
  PROVE  /\ SubSeq(seq, m, n) \in Seq(S)
         /\ Len(SubSeq(seq, m, n)) = n - m + 1
         /\ \A i \in 1 .. (n - m + 1) : SubSeq(seq, m, n)[i] = seq[m + i - 1]
  OBVIOUS

LEMMA SequenceOfMore ==
  ASSUME NEW S, NEW T, S \subseteq T, NEW seq \in Seq(S)
  PROVE  seq \in Seq(T)
  OBVIOUS

\* A function over the places of a sequence is a sequence.
LEMMA RowsAreSequence ==
  ASSUME NEW S, NEW n \in Nat, NEW g \in [1 .. n -> S]
  PROVE  g \in Seq(S) /\ Len(g) = n
  OBVIOUS

-----------------------------------------------------------------------------
(***************************************************************************)
(* The buffer.                                                             *)
(***************************************************************************)

\* The occupied rows of f are its first n.
Packed(f, n) ==
  /\ n \in 0 .. Len(f)
  /\ \A l \in 1 .. Len(f) : f[l].status = "occupied" <=> l <= n

\* The region lies in the file, and all its rows but the first are the file's.
GoodCache(c, f) ==
  /\ c \in [region: 0 .. Len(f), rows: Seq(Row)]
  /\ Len(c.rows) <= NumBuffered
  /\ c.rows = << >> <=> c.region = 0
  /\ c.region + Len(c.rows) <= Len(f) + 1
  /\ \A i \in 2 .. Len(c.rows) : c.rows[i] = f[c.region + i - 1]

FirstFresh(c, f) == c.region # 0 => c.rows[1] = f[c.region]

LEMMA NoRegionGood ==
  ASSUME NEW f \in Seq(Row)
  PROVE  GoodCache(NoRegion, f) /\ FirstFresh(NoRegion, f)
  BY NumBufferedAssumption DEF GoodCache, FirstFresh, NoRegion

\* A region of rows of f, no longer than the buffer.
LEMMA RegionGood ==
  ASSUME NEW f \in Seq(Row), NEW m \in 1 .. Len(f), NEW n \in m .. Len(f),
         n - m + 1 <= NumBuffered
  PROVE  LET c == [region |-> m, rows |-> SubSeq(f, m, n)] IN
         /\ GoodCache(c, f) /\ FirstFresh(c, f)
         /\ Len(c.rows) = n - m + 1
<1> DEFINE rows == SubSeq(f, m, n)
           c == [region |-> m, rows |-> rows]
<1>1. /\ rows \in Seq(Row) /\ Len(rows) = n - m + 1
      /\ \A i \in 1 .. (n - m + 1) : rows[i] = f[m + i - 1]
  BY PartOfSequence
<1>2. m \in Nat /\ n \in Nat /\ m >= 1 /\ m <= n /\ n <= Len(f) /\ Len(f) \in Nat
  OBVIOUS
<1> HIDE DEF rows
<1>3. rows # << >> /\ m # 0
  BY <1>1, <1>2
<1>4. c.region = m /\ c.rows = rows /\ c \in [region: 0 .. Len(f), rows: Seq(Row)]
  BY <1>1, <1>2
<1>5. \A i \in 2 .. Len(rows) : rows[i] = f[m + i - 1]
  BY <1>1, <1>2
<1>6. m + Len(rows) <= Len(f) + 1 /\ Len(rows) <= NumBuffered
  BY <1>1, <1>2, NumBufferedAssumption
<1>7. rows[1] = f[m]
  <2>1. 1 \in 1 .. (n - m + 1) /\ m + 1 - 1 = m
    BY <1>2
  <2>2. QED
    BY <1>1, <2>1
<1> HIDE DEF c
<1>8. GoodCache(c, f)
  BY <1>3, <1>4, <1>5, <1>6 DEF GoodCache
<1>9. FirstFresh(c, f)
  BY <1>4, <1>7 DEF FirstFresh
<1>10. Len(c.rows) = n - m + 1
  BY <1>1, <1>4
<1>11. QED
  BY <1>8, <1>9, <1>10 DEF c, rows

\* A scan leaves a region in the buffer that is the file's in all rows, and
\* the row it stops at is one of them.
LEMMA AfterScanGood ==
  ASSUME NEW f \in Seq(Row), NEW e \in 0 .. Len(f), NEW start \in Nat \ {0},
         NEW hits \in SUBSET (start .. e), NEW old
  PROVE  LET c == AfterScan(old, f, e, start, hits) IN
         /\ start > e => c = old
         /\ start <= e => GoodCache(c, f) /\ FirstFresh(c, f)
         /\ hits # {} => CacheHit(c, Min(hits))
<1> DEFINE stop == IF hits = {} THEN e ELSE Min(hits)
           q == ((stop - start) \div NumBuffered) * NumBuffered
           m == start + q
           n == Min({m + NumBuffered - 1, e})
           c == AfterScan(old, f, e, start, hits)
<1>1. CASE start > e
  <2>1. hits = {}
    BY <1>1
  <2>2. QED
    BY <1>1, <2>1 DEF AfterScan
<1>2. CASE start <= e
  <2>1. hits # {} => Min(hits) \in hits
    BY MinIn
  <2>2. stop \in start .. e
    <3>1. CASE hits = {}
      BY <1>2, <3>1
    <3>2. CASE hits # {}
      BY <2>1, <3>2
    <3>3. QED
      BY <3>1, <3>2
  <2> HIDE DEF stop
  <2>3. stop - start \in Nat /\ NumBuffered \in Nat \ {0}
    BY <2>2, NumBufferedAssumption
  <2>4. q \in Nat /\ q <= stop - start /\ stop - start < q + NumBuffered
    BY <2>3, DivBounds
  <2> HIDE DEF q
  <2>5. m \in Nat /\ m >= start /\ m <= stop /\ stop <= m + NumBuffered - 1
    BY <2>2, <2>3, <2>4
  <2>6. m + NumBuffered - 1 \in Nat /\ e \in Nat
    BY <2>3, <2>5
  <2>7. n = IF m + NumBuffered - 1 <= e THEN m + NumBuffered - 1 ELSE e
    BY <2>6, MinOfTwo
  <2> HIDE DEF n
  <2>8. m \in 1 .. Len(f) /\ n \in m .. Len(f) /\ n - m + 1 <= NumBuffered /\ stop <= n /\ n \in Nat
    BY <2>2, <2>3, <2>5, <2>6, <2>7
  <2>9. c = [region |-> m, rows |-> SubSeq(f, m, n)]
    BY <1>2 DEF AfterScan, stop, q, n
  <2> HIDE DEF m
  <2>10. GoodCache(c, f) /\ FirstFresh(c, f) /\ Len(c.rows) = n - m + 1 /\ c.region = m
    BY <2>8, <2>9, RegionGood
  <2>11. ASSUME hits # {} PROVE CacheHit(c, Min(hits))
    <3>1. stop = Min(hits)
      BY <2>11 DEF stop
    <3>2. stop \in m .. (m + (n - m + 1) - 1) /\ m # 0
      BY <2>2, <2>5, <2>8 DEF m
    <3>3. QED
      BY <2>10, <3>1, <3>2 DEF CacheHit
  <2>12. QED
    BY <1>2, <2>10, <2>11
<1>3. QED
  BY <1>1, <1>2

LEMMA ScannedGood ==
  ASSUME file \in Seq(Row), eof \in 0 .. Len(file), GoodCache(cache, file),
         NEW start \in Nat \ {0}, NEW hits \in SUBSET (start .. eof)
  PROVE  LET c == AfterScan(cache, file, eof, start, hits) IN
         GoodCache(c, file) /\ (hits # {} => FirstFresh(c, file))
<1>1. LET c == AfterScan(cache, file, eof, start, hits) IN
      /\ start > eof => c = cache
      /\ start <= eof => GoodCache(c, file) /\ FirstFresh(c, file)
  BY AfterScanGood
<1>2. eof \in Nat
  OBVIOUS
<1>3. hits # {} => start <= eof
  <2>1. \A h \in start .. eof : start <= eof
    BY <1>2
  <2>2. QED
    BY <2>1
<1>4. start > eof \/ start <= eof
  BY <1>2
<1>5. QED
  BY <1>1, <1>3, <1>4

\* A row that read_row answers is a row, and the region stays good; if the
\* first place was fresh, a hit returns the row of the file.
LEMMA ReadRowGood ==
  ASSUME NEW f \in Seq(Row), f = file, NEW c, GoodCache(c, f), NEW l \in 1 .. Len(f)
  PROVE  /\ ReadRow(c, l) \in Row
         /\ FirstFresh(c, f) => ReadRow(c, l) = f[l]
         /\ GoodCache(AfterRead(c, l), f)
         /\ CacheHit(c, l) => AfterRead(c, l) = c
<1>1. f[l] \in Row
  BY SequenceElement
<1>2. /\ c.region \in 0 .. Len(f) /\ c.rows \in Seq(Row) /\ Len(c.rows) \in Nat
      /\ l \in Nat /\ c.region \in Nat
  BY DEF GoodCache
<1>3. CASE CacheHit(c, l)
  <2>1. PICK i \in 1 .. Len(c.rows) : i = l - c.region + 1
    BY <1>2, <1>3 DEF CacheHit
  <2>2. ReadRow(c, l) = c.rows[i] /\ AfterRead(c, l) = c
    BY <1>3, <2>1 DEF ReadRow, AfterRead
  <2>3. c.rows[i] \in Row
    BY <1>2, SequenceElement
  <2>4. ASSUME FirstFresh(c, f) PROVE c.rows[i] = f[l]
    <3>1. c.region # 0
      BY <1>3 DEF CacheHit
    <3>2. CASE i = 1
      <4>1. c.region = l
        BY <1>2, <2>1, <3>2
      <4>2. c.rows[1] = f[l]
        BY <2>4, <3>1, <4>1 DEF FirstFresh
      <4>3. QED
        BY <3>2, <4>2
    <3>3. CASE i # 1
      <4>1. i \in 2 .. Len(c.rows) /\ c.region + i - 1 = l
        BY <1>2, <2>1, <3>3
      <4>2. QED
        BY <4>1 DEF GoodCache
    <3>4. QED
      BY <3>2, <3>3
  <2>5. QED
    BY <2>2, <2>3, <2>4
<1>4. CASE ~CacheHit(c, l) /\ c.region # 0
  <2>1. ReadRow(c, l) = f[l] /\ AfterRead(c, l) = [c EXCEPT !.rows[1] = f[l]]
    BY <1>4 DEF ReadRow, AfterRead
  <2>2. 1 \in 1 .. Len(c.rows)
    <3>1. c.rows # << >>
      BY <1>4 DEF GoodCache
    <3>2. QED
      BY <1>2, <3>1
  <2> DEFINE n == Len(c.rows)
             g == [i \in 1 .. n |-> IF i = 1 THEN f[l] ELSE c.rows[i]]
             d == [region |-> c.region, rows |-> g]
  <2>3. \A i \in 1 .. n : c.rows[i] \in Row
    BY <1>2, SequenceElement
  <2>4. g \in [1 .. n -> Row]
    BY <1>1, <2>3
  <2>5. g \in Seq(Row) /\ Len(g) = n
    BY <1>2, <2>4, RowsAreSequence
  <2>6. [c.rows EXCEPT ![1] = f[l]] = g
    BY <1>2
  <2>7. [c EXCEPT !.rows[1] = f[l]] = d
    <3>1. [c EXCEPT !.rows[1] = f[l]] = [c EXCEPT !.rows = [c.rows EXCEPT ![1] = f[l]]]
      OBVIOUS
    <3>2. c \in [region: 0 .. Len(f), rows: Seq(Row)]
      BY DEF GoodCache
    <3> HIDE DEF g
    <3>3. [c EXCEPT !.rows = g] = d
      BY <3>2
    <3>4. QED
      BY <2>6, <3>1, <3>3
  <2>8. \A i \in 2 .. n : g[i] = f[c.region + i - 1]
    BY <1>2 DEF GoodCache
  <2>9. g # << >>
    BY <1>2, <2>2, <2>5
  <2> HIDE DEF g
  <2>10. GoodCache(d, f)
    BY <1>2, <1>4, <2>5, <2>8, <2>9 DEF GoodCache
  <2>11. QED
    BY <1>1, <1>4, <2>1, <2>7, <2>10
<1>5. CASE c.region = 0
  <2>1. ~CacheHit(c, l)
    BY <1>5 DEF CacheHit
  <2>2. QED
    BY <1>1, <1>5, <2>1 DEF ReadRow, AfterRead
<1>6. QED
  BY <1>3, <1>4, <1>5

-----------------------------------------------------------------------------
(***************************************************************************)
(* Files whose occupied rows are the first ones.                           *)
(***************************************************************************)

LEMMA LastOccupiedIs ==
  ASSUME NEW f \in Seq(Row), NEW n, Packed(f, n)
  PROVE  LastOccupied(f) = n
<1> DEFINE I == { i \in 1 .. Len(f) : f[i].status = "occupied" }
<1>1. LastOccupied(f) = IF I # {} THEN Max(I) ELSE 0
  BY DEF LastOccupied, SelectLastInSeq
<1>2. n \in 0 .. Len(f) /\ Len(f) \in Nat
  BY DEF Packed
<1>3. I = 1 .. n
  BY <1>2 DEF Packed
<1> HIDE DEF I
<1>4. CASE n = 0
  BY <1>1, <1>3, <1>4
<1>5. CASE n > 0
  <2>1. I \in SUBSET Nat /\ n \in I /\ \A x \in I : x <= n
    BY <1>2, <1>3, <1>5
  <2>2. Max(I) \in I /\ \A x \in I : x <= Max(I)
    BY <1>2, <2>1, MaxIn
  <2>3. Max(I) = n
    BY <1>2, <1>3, <2>1, <2>2
  <2>4. QED
    BY <1>1, <2>1, <2>3
<1>6. QED
  BY <1>2, <1>4, <1>5

\* The backward scan of an open leaves a good region.
LEMMA BackwardScanGood ==
  ASSUME file \in Seq(Row), NEW e, Packed(file, e)
  PROVE  GoodCache(AfterBackwardScan, file) /\ FirstFresh(AfterBackwardScan, file)
<1> DEFINE n == Len(file)
           stop == Max({1, LastOccupied(file)})
           q == ((n - stop) \div NumBuffered) * NumBuffered
           top == n - q
           region == Max({1, top - NumBuffered + 1})
<1>1. CASE n = 0
  BY <1>1, NoRegionGood DEF AfterBackwardScan
<1>2. CASE n # 0
  <2>1. LastOccupied(file) = e /\ e \in 0 .. n /\ n \in Nat
    BY LastOccupiedIs DEF Packed
  <2>2. stop = IF 1 <= e THEN e ELSE 1
    BY <2>1, MaxOfTwo
  <2> HIDE DEF stop
  <2>3. stop \in 1 .. n /\ n - stop \in Nat /\ NumBuffered \in Nat \ {0}
    BY <1>2, <2>1, <2>2, NumBufferedAssumption
  <2>4. q \in Nat /\ q <= n - stop /\ n - stop < q + NumBuffered
    BY <2>3, DivBounds
  <2> HIDE DEF q
  <2>5. top \in 1 .. n
    BY <2>1, <2>3, <2>4
  <2> HIDE DEF top
  <2>6. region = IF top - NumBuffered + 1 >= 1 THEN top - NumBuffered + 1 ELSE 1
    <3>1. CASE top - NumBuffered + 1 \in Nat
      BY <2>5, <3>1, MaxOfTwo
    <3>2. CASE top - NumBuffered + 1 \notin Nat
      <4>1. top - NumBuffered + 1 <= 1 /\ top - NumBuffered + 1 \in Int
        BY <2>3, <2>5, <3>2
      <4>2. \A x \in {1, top - NumBuffered + 1} :
              (\A y \in {1, top - NumBuffered + 1} : x >= y) <=> x = 1
        BY <4>1
      <4>3. region = 1
        BY <4>1, <4>2 DEF Max
      <4>4. QED
        BY <2>3, <2>5, <3>2, <4>3
    <3>3. QED
      BY <3>1, <3>2
  <2> HIDE DEF region
  <2>7. region \in 1 .. n /\ top \in region .. n /\ top - region + 1 <= NumBuffered
    BY <2>3, <2>5, <2>6
  <2>8. AfterBackwardScan = [region |-> region, rows |-> SubSeq(file, region, top)]
    BY <1>2 DEF AfterBackwardScan, region, top, q, stop
  <2>9. QED
    BY <2>7, <2>8, RegionGood
<1>3. QED
  BY <1>1, <1>2

LEMMA OccupiedIsRow ==
  ASSUME NEW k \in Keys, NEW v \in Values
  PROVE  Occupied(k, v) \in Row /\ Occupied(k, v).status = "occupied"
  BY DEF Occupied, Row

\* A write at the place behind the last occupied row.
LEMMA AppendPacked ==
  ASSUME NEW f \in Seq(Row), NEW n, Packed(f, n), NEW k \in Keys, NEW v \in Values
  PROVE  LET g == WriteRow(f, n + 1, Occupied(k, v)) IN
         /\ g \in Seq(Row) /\ Packed(g, n + 1) /\ Len(f) <= Len(g)
<1> DEFINE row == Occupied(k, v)
           g == WriteRow(f, n + 1, row)
<1>1. n \in 0 .. Len(f) /\ Len(f) \in Nat /\ \A l \in 1 .. Len(f) : f[l].status = "occupied" <=> l <= n
  BY DEF Packed
<1>2. row \in Row /\ row.status = "occupied"
  BY OccupiedIsRow
<1> HIDE DEF row
<1>3. CASE n + 1 <= Len(f)
  <2>1. g = [f EXCEPT ![n + 1] = row]
    BY <1>3 DEF WriteRow
  <2>2. g \in Seq(Row) /\ Len(g) = Len(f)
    BY <1>1, <1>2, <2>1
  <2>3. \A l \in 1 .. Len(f) : g[l] = IF l = n + 1 THEN row ELSE f[l]
    BY <1>1, <2>1
  <2> HIDE DEF g
  <2>4. \A l \in 1 .. Len(f) : g[l].status = "occupied" <=> l <= n + 1
    BY <1>1, <1>2, <2>3
  <2>5. QED
    BY <1>1, <1>3, <2>2, <2>4 DEF Packed, g, row
<1>4. CASE n = Len(f)
  <2>1. g = Append(f, row)
    BY <1>1, <1>4 DEF WriteRow
  <2>2. g \in Seq(Row) /\ Len(g) = n + 1
    BY <1>1, <1>2, <1>4, <2>1
  <2>3. \A l \in 1 .. (n + 1) : g[l] = IF l = n + 1 THEN row ELSE f[l]
    BY <1>1, <1>2, <1>4, <2>1
  <2> HIDE DEF g
  <2>4. \A l \in 1 .. (n + 1) : g[l].status = "occupied" <=> l <= n + 1
    BY <1>1, <1>2, <1>4, <2>3
  <2>5. QED
    BY <1>1, <1>4, <2>2, <2>4 DEF Packed, g, row
<1>5. QED
  BY <1>1, <1>3, <1>4

LEMMA MatchingRows ==
  ASSUME NEW f \in Seq(Row), NEW e \in 0 .. Len(f), NEW start \in Nat \ {0}, NEW pred
  PROVE  /\ Matching(f, e, start, pred) \in SUBSET (start .. e)
         /\ Matching(f, e, start, pred) \in SUBSET Nat
         /\ Matching(f, e, start, pred) \in SUBSET (1 .. Len(f))
  BY DEF Matching

\* Writing occupied rows over occupied rows.
Overwritten(f, T, row) == [l \in DOMAIN f |-> IF l \in T THEN row ELSE f[l]]

LEMMA OverwritePacked ==
  ASSUME NEW f \in Seq(Row), NEW n, Packed(f, n), NEW T \in SUBSET (1 .. n),
         NEW k \in Keys, NEW v \in Values
  PROVE  LET g == Overwritten(f, T, Occupied(k, v)) IN
         g \in Seq(Row) /\ Packed(g, n) /\ Len(g) = Len(f)
<1> DEFINE g == Overwritten(f, T, Occupied(k, v))
<1>1. n \in 0 .. Len(f) /\ Len(f) \in Nat /\ \A l \in 1 .. Len(f) : f[l].status = "occupied" <=> l <= n
  BY DEF Packed
<1>2. Occupied(k, v) \in Row /\ Occupied(k, v).status = "occupied"
  BY OccupiedIsRow
<1>3. DOMAIN f = 1 .. Len(f)
  OBVIOUS
<1>4. \A l \in 1 .. Len(f) : f[l] \in Row
  BY SequenceElement
<1>5. g \in [1 .. Len(f) -> Row]
  BY <1>2, <1>3, <1>4 DEF Overwritten
<1>6. g \in Seq(Row) /\ Len(g) = Len(f)
  BY <1>1, <1>5, RowsAreSequence
<1>7. \A l \in 1 .. Len(f) : g[l] = IF l \in T THEN Occupied(k, v) ELSE f[l]
  BY <1>3 DEF Overwritten
<1> HIDE DEF g
<1>8. \A l \in 1 .. Len(f) : g[l].status = "occupied" <=> l <= n
  BY <1>1, <1>2, <1>7
<1>9. QED
  BY <1>1, <1>6, <1>8 DEF Packed, g

-----------------------------------------------------------------------------
(***************************************************************************)
(* The turns of a delete.                                                  *)
(***************************************************************************)

FirstTurn == [file |-> file, eof |-> eof, loc |-> 1, count |-> 0]

IsTurns(g, m, k) == g = [n \in 0 .. m |-> IF n = 0 THEN FirstTurn ELSE DeleteTurn(g[n - 1], k)]

\* The recursive definition of the turns has a solution of any length.
LEMMA TurnsExist ==
  ASSUME NEW k, NEW m \in Nat
  PROVE  \E g : IsTurns(g, m, k)
<1> DEFINE D == { i \in Nat : ~ \E g : IsTurns(g, i, k) }
<1> SUFFICES ASSUME D # {} PROVE FALSE
  OBVIOUS
<1>1. PICK i \in D : \A j \in D : i <= j
  BY LeastNatural
<1>2. CASE i = 0
  <2>1. IsTurns([n \in 0 .. 0 |-> FirstTurn], 0, k)
    BY DEF IsTurns
  <2>2. QED
    BY <1>1, <1>2, <2>1
<1>3. CASE i # 0
  <2>1. i - 1 \in Nat /\ i - 1 \notin D
    BY <1>1, <1>3
  <2>2. PICK h : IsTurns(h, i - 1, k)
    BY <2>1
  <2> DEFINE next == DeleteTurn(h[i - 1], k)
             g == [n \in 0 .. i |-> IF n = i THEN next ELSE h[n]]
  <2> HIDE DEF next
  <2>3. \A n \in 0 .. (i - 1) : h[n] = IF n = 0 THEN FirstTurn ELSE DeleteTurn(h[n - 1], k)
    BY <2>2 DEF IsTurns
  <2>4. ASSUME NEW n \in 0 .. i
        PROVE  g[n] = IF n = 0 THEN FirstTurn ELSE DeleteTurn(g[n - 1], k)
    <3>1. n # 0 => n - 1 \in 0 .. (i - 1) /\ g[n - 1] = h[n - 1]
      BY <1>1
    <3>2. CASE n = i
      BY <1>3, <3>1, <3>2 DEF next
    <3>3. CASE n # i
      <4>1. n \in 0 .. (i - 1) /\ g[n] = h[n]
        BY <1>1, <3>3
      <4>2. QED
        BY <2>3, <3>1, <4>1
    <3>4. QED
      BY <3>2, <3>3
  <2>5. g = [n \in 0 .. i |-> g[n]]
    OBVIOUS
  <2> HIDE DEF g
  <2>6. g = [n \in 0 .. i |-> IF n = 0 THEN FirstTurn ELSE DeleteTurn(g[n - 1], k)]
    BY <2>4, <2>5
  <2>7. QED
    BY <1>1, <2>6 DEF IsTurns
<1>4. QED
  BY <1>2, <1>3

LEMMA TurnsAre ==
  ASSUME eof \in Nat, NEW k
  PROVE  /\ DeleteTurns(k)[0] = FirstTurn
         /\ \A n \in 1 .. eof : DeleteTurns(k)[n] = DeleteTurn(DeleteTurns(k)[n - 1], k)
<1>1. DeleteTurns(k) = CHOOSE g : IsTurns(g, eof, k)
  BY DEF DeleteTurns, IsTurns, FirstTurn
<1>2. IsTurns(DeleteTurns(k), eof, k)
  BY <1>1, TurnsExist
<1>3. QED
  BY <1>2 DEF IsTurns

\* What a turn starts from: a packed file, no longer than the one the delete
\* starts from by a row for each turn so far.
GoodTurn(s) ==
  /\ s.file \in Seq(Row) /\ Len(s.file) = Len(file)
  /\ Packed(s.file, s.eof)
  /\ s.count \in Nat /\ s.eof + s.count = eof
  /\ s.loc \in 1 .. (s.eof + 1)
  /\ s.count = 0 => s.file = file

TurnHits(s, k) == Matching(s.file, s.eof, s.loc, Equality(k))

LEMMA FirstTurnGood ==
  ASSUME file \in Seq(Row), Packed(file, eof)
  PROVE  GoodTurn(FirstTurn)
  BY DEF GoodTurn, FirstTurn, Packed

LEMMA EmptiedRow ==
  ASSUME NEW row \in Row
  PROVE  [row EXCEPT !.status = "empty"] \in Row /\ [row EXCEPT !.status = "empty"].status = "empty"
  BY DEF Row

\* A turn that finds a row keeps the file packed at both its writes.
LEMMA TurnGood ==
  ASSUME NEW s, GoodTurn(s), NEW k, TurnHits(s, k) # {}
  PROVE  LET t == DeleteTurn(s, k) IN
         /\ GoodTurn(t) /\ t.count = s.count + 1
         /\ Swapped(s, t.loc) \in Seq(Row) /\ Packed(Swapped(s, t.loc), s.eof)
         /\ Len(Swapped(s, t.loc)) = Len(file)
<1> DEFINE l == Min(TurnHits(s, k))
           e == s.eof
           g == Swapped(s, l)
           h == [g EXCEPT ![e].status = "empty"]
           t == DeleteTurn(s, k)
<1>1. /\ s.file \in Seq(Row) /\ e \in 0 .. Len(s.file) /\ s.loc \in Nat \ {0}
      /\ Len(s.file) \in Nat /\ e \in Nat /\ s.count \in Nat
      /\ \A i \in 1 .. Len(s.file) : s.file[i].status = "occupied" <=> i <= e
  BY DEF GoodTurn, Packed
<1>2. l \in s.loc .. e
  <2>1. TurnHits(s, k) \in SUBSET (s.loc .. e) /\ TurnHits(s, k) \in SUBSET Nat
    BY <1>1, MatchingRows DEF TurnHits
  <2>2. QED
    BY <2>1, MinIn
<1>3. t = [file |-> h, eof |-> e - 1, loc |-> l, count |-> s.count + 1]
  BY DEF DeleteTurn, TurnHits
<1> HIDE DEF l
<1>4. l \in 1 .. e /\ e \in 1 .. Len(s.file) /\ l \in 1 .. Len(s.file)
  BY <1>1, <1>2
<1>5. s.file[e] \in Row /\ s.file[e].status = "occupied"
  <2>1. s.file[e] \in Row
    BY <1>1, <1>4, SequenceElement
  <2>2. QED
    BY <1>1, <1>4, <2>1
<1>6. g = [s.file EXCEPT ![l] = s.file[e]]
  BY DEF Swapped
<1> HIDE DEF g
<1>7. g \in Seq(Row) /\ Len(g) = Len(s.file)
  BY <1>1, <1>4, <1>5, <1>6
<1>8. \A i \in 1 .. Len(s.file) : g[i] = IF i = l THEN s.file[e] ELSE s.file[i]
  BY <1>1, <1>4, <1>6
<1>9. \A i \in 1 .. Len(s.file) : g[i].status = "occupied" <=> i <= e
  BY <1>1, <1>4, <1>5, <1>8
<1>10. g[e] \in Row
  BY <1>4, <1>7, SequenceElement
<1>11. PICK row \in Row : row = [g[e] EXCEPT !.status = "empty"] /\ row.status = "empty"
  BY <1>10, EmptiedRow
<1>12. h = [g EXCEPT ![e] = row]
  BY <1>11
<1> HIDE DEF h
<1>13. h \in Seq(Row) /\ Len(h) = Len(s.file)
  BY <1>4, <1>7, <1>11, <1>12
<1>14. \A i \in 1 .. Len(s.file) : h[i] = IF i = e THEN row ELSE g[i]
  BY <1>4, <1>7, <1>12
<1>15. \A i \in 1 .. Len(s.file) : h[i].status = "occupied" <=> i <= e - 1
  <2>1. ASSUME NEW i \in 1 .. Len(s.file) PROVE h[i].status = "occupied" <=> i <= e - 1
    <3>1. CASE i = e
      <4>1. h[i] = row /\ e \in Int
        BY <1>1, <1>14, <3>1
      <4>2. h[i].status = "empty"
        BY <1>11, <4>1
      <4>3. ~(i <= e - 1)
        BY <3>1, <4>1
      <4>4. QED
        BY <4>2, <4>3
    <3>2. CASE i # e
      <4>1. i <= e <=> i <= e - 1
        BY <1>1, <3>2
      <4>2. h[i] = g[i]
        BY <1>14, <3>2
      <4>3. QED
        BY <1>9, <4>1, <4>2
    <3>3. QED
      BY <3>1, <3>2
  <2>2. QED
    BY <2>1
<1>16. Packed(h, e - 1)
  BY <1>1, <1>4, <1>13, <1>15 DEF Packed
<1>17. Packed(g, e)
  BY <1>1, <1>7, <1>9 DEF Packed
<1>18. s.eof + s.count = eof /\ Len(s.file) = Len(file) /\ e = s.eof
  BY DEF GoodTurn
<1>19. (e - 1) + (s.count + 1) = eof /\ l \in 1 .. (e - 1 + 1) /\ s.count + 1 \in Nat
  <2>1. s.eof \in Nat /\ s.count \in Nat /\ s.eof + s.count = eof
    BY <1>1, <1>18
  <2>2. (s.eof - 1) + (s.count + 1) = eof
    BY <2>1
  <2>3. e - 1 + 1 = e
    BY <1>1
  <2>4. QED
    BY <1>4, <2>1, <2>2, <2>3
<1>20. /\ t.file = h /\ t.eof = e - 1 /\ t.loc = l /\ t.count = s.count + 1
  BY <1>3
<1> HIDE DEF t
<1>21. GoodTurn(t)
  BY <1>1, <1>13, <1>16, <1>18, <1>19, <1>20 DEF GoodTurn
<1>22. g = Swapped(s, t.loc)
  BY <1>20 DEF g
<1>23. QED
  BY <1>7, <1>17, <1>18, <1>20, <1>21, <1>22 DEF t

\* Every turn is good, and all turns before the last that finds a row find one.
LEMMA TurnsGood ==
  ASSUME file \in Seq(Row), Packed(file, eof), NEW k
  PROVE  /\ \A n \in 0 .. eof : GoodTurn(DeleteTurns(k)[n])
         /\ \A n \in 0 .. eof : \A m \in 0 .. n :
              TurnHits(DeleteTurns(k)[m], k) = {} => DeleteTurns(k)[n] = DeleteTurns(k)[m]
         /\ \A n \in 0 .. eof : DeleteTurns(k)[n].count <= n
<1> DEFINE turn == DeleteTurns(k)
<1>1. eof \in Nat
  BY DEF Packed
<1>2. turn[0] = FirstTurn /\ \A n \in 1 .. eof : turn[n] = DeleteTurn(turn[n - 1], k)
  BY <1>1, TurnsAre
<1> HIDE DEF turn
<1> DEFINE Fine(n) == /\ GoodTurn(turn[n])
                      /\ \A m \in 0 .. n : TurnHits(turn[m], k) = {} => turn[n] = turn[m]
                      /\ turn[n].count <= n
           D == { n \in Nat : n <= eof /\ ~Fine(n) }
<1>3. D = {}
  <2> SUFFICES ASSUME D # {} PROVE FALSE
    OBVIOUS
  <2>1. PICK n \in D : \A j \in D : n <= j
    BY LeastNatural
  <2>2. n \in Nat /\ n <= eof /\ ~Fine(n)
    BY <2>1
  <2>3. CASE n = 0
    <3>1. GoodTurn(turn[0]) /\ turn[0].count <= 0
      BY <1>2, FirstTurnGood DEF FirstTurn
    <3>2. \A m \in 0 .. 0 : turn[m] = turn[0]
      OBVIOUS
    <3>3. QED
      BY <2>2, <2>3, <3>1, <3>2
  <2>4. CASE n # 0
    <3>1. n - 1 \in Nat /\ n - 1 <= eof /\ n - 1 \notin D /\ n \in 1 .. eof
      BY <1>1, <2>1, <2>2, <2>4
    <3>2. Fine(n - 1)
      BY <3>1
    <3>3. turn[n] = DeleteTurn(turn[n - 1], k)
      BY <1>2, <3>1
    <3>4. CASE TurnHits(turn[n - 1], k) = {}
      <4>1. turn[n] = turn[n - 1]
        BY <3>3, <3>4 DEF DeleteTurn, TurnHits
      <4>2. turn[n - 1].count \in Nat
        BY <3>2 DEF GoodTurn
      <4>3. \A m \in 0 .. n : m = n \/ m \in 0 .. (n - 1)
        BY <2>2
      <4>4. Fine(n)
        BY <2>2, <3>2, <4>1, <4>2, <4>3
      <4>5. QED
        BY <2>2, <4>4
    <3>5. CASE TurnHits(turn[n - 1], k) # {}
      <4>1. GoodTurn(turn[n]) /\ turn[n].count = turn[n - 1].count + 1
        BY <3>2, <3>3, <3>5, TurnGood
      <4>2. turn[n].count <= n
        BY <2>2, <3>2, <4>1 DEF GoodTurn
      <4>3. ASSUME NEW m \in 0 .. n, TurnHits(turn[m], k) = {} PROVE turn[n] = turn[m]
        <5>1. CASE m = n
          BY <5>1
        <5>2. CASE m # n
          <6>1. m \in 0 .. (n - 1)
            BY <2>2, <5>2
          <6>2. turn[n - 1] = turn[m]
            BY <3>2, <4>3, <6>1
          <6>3. QED
            BY <3>5, <4>3, <6>2
        <5>3. QED
          BY <5>1, <5>2
      <4>4. QED
        BY <2>2, <4>1, <4>2, <4>3
    <3>6. QED
      BY <3>4, <3>5
  <2>5. QED
    BY <2>3, <2>4
<1>4. ASSUME NEW n \in 0 .. eof PROVE Fine(n)
  BY <1>1, <1>3, <1>4
<1>5. QED
  BY <1>4 DEF turn

LEMMA LastCount ==
  ASSUME file \in Seq(Row), Packed(file, eof), NEW k
  PROVE  DeleteTurns(k)[eof].count \in 0 .. eof
<1>1. eof \in 0 .. eof /\ eof \in Nat
  BY DEF Packed
<1>2. GoodTurn(DeleteTurns(k)[eof]) /\ DeleteTurns(k)[eof].count <= eof
  <2>1. /\ \A n \in 0 .. eof : GoodTurn(DeleteTurns(k)[n])
        /\ \A n \in 0 .. eof : DeleteTurns(k)[n].count <= n
    BY TurnsGood
  <2>2. QED
    BY <1>1, <2>1
<1>3. QED
  BY <1>1, <1>2 DEF GoodTurn

\* The turns that are counted have found a row.
LEMMA CountedTurnHits ==
  ASSUME file \in Seq(Row), Packed(file, eof), NEW k,
         NEW n \in 1 .. DeleteTurns(k)[eof].count
  PROVE  /\ n \in 1 .. eof
         /\ TurnHits(DeleteTurns(k)[n - 1], k) # {}
<1> DEFINE turn == DeleteTurns(k)
<1>1. eof \in Nat
  BY DEF Packed
<1>2. turn[eof].count <= eof /\ turn[eof].count \in Nat
  BY <1>1, LastCount
<1>3. n - 1 \in 0 .. eof /\ n \in 1 .. eof
  BY <1>1, <1>2
<1>4. ASSUME TurnHits(turn[n - 1], k) = {} PROVE FALSE
  <2>1. turn[eof] = turn[n - 1]
    <3>1. eof \in 0 .. eof /\ n - 1 \in 0 .. eof
      BY <1>1, <1>3
    <3>2. \A i \in 0 .. eof : \A m \in 0 .. i : TurnHits(turn[m], k) = {} => turn[i] = turn[m]
      BY TurnsGood
    <3>3. QED
      BY <1>4, <3>1, <3>2
  <2>2. turn[n - 1].count <= n - 1
    <3>1. \A i \in 0 .. eof : turn[i].count <= i
      BY TurnsGood
    <3>2. QED
      BY <1>3, <3>1
  <2>3. QED
    BY <1>2, <1>3, <2>1, <2>2
<1>5. QED
  BY <1>3, <1>4

\* Every image of the file that a delete writes is packed.
LEMMA DeleteImagesPacked ==
  ASSUME file \in Seq(Row), Packed(file, eof), NEW k
  PROVE  /\ \A f \in DeleteImages(k) : f \in Seq(Row) /\ \E n : Packed(f, n)
         /\ \A n \in 1 .. DeleteTurns(k)[eof].count : MovedIn(DeleteTurns(k), n) \in DeleteImages(k)
<1> DEFINE turn == DeleteTurns(k)
           count == turn[eof].count
<1>1. eof \in Nat /\ count \in Nat /\ count <= eof
  <2>1. eof \in Nat
    BY DEF Packed
  <2>2. QED
    BY <2>1, LastCount
<1>2. ASSUME NEW n \in 0 .. count
      PROVE  turn[n].file \in Seq(Row) /\ \E m : Packed(turn[n].file, m)
  <2>1. n \in 0 .. eof
    BY <1>1
  <2>2. GoodTurn(turn[n])
    BY <2>1, TurnsGood
  <2>3. QED
    BY <2>2 DEF GoodTurn
<1>3. ASSUME NEW n \in 1 .. count
      PROVE  MovedIn(turn, n) \in Seq(Row) /\ \E m : Packed(MovedIn(turn, n), m)
  <2>1. n \in 1 .. eof /\ TurnHits(turn[n - 1], k) # {} /\ n - 1 \in 0 .. eof
    BY <1>1, CountedTurnHits
  <2>2. GoodTurn(turn[n - 1])
    BY <2>1, TurnsGood
  <2>3. turn[n] = DeleteTurn(turn[n - 1], k)
    BY <1>1, <2>1, TurnsAre
  <2>4. QED
    BY <2>1, <2>2, <2>3, TurnGood DEF MovedIn
<1>4. DeleteImages(k) = { turn[n].file : n \in 0 .. count } \cup { MovedIn(turn, n) : n \in 1 .. count }
  BY DEF DeleteImages
<1> HIDE DEF turn, count
<1>5. /\ \A f \in DeleteImages(k) : f \in Seq(Row) /\ \E n : Packed(f, n)
      /\ \A n \in 1 .. count : MovedIn(turn, n) \in DeleteImages(k)
  BY <1>2, <1>3, <1>4
<1>6. QED
  BY <1>5 DEF turn, count
-----------------------------------------------------------------------------
(***************************************************************************)
(* The inductive invariant.  The store: the file, what of it is on the     *)
(* disk, and the buffer.                                                   *)
(***************************************************************************)
FileInv ==
  /\ open \in BOOLEAN
  /\ file \in Seq(Row) /\ Packed(file, eof)
  /\ GoodCache(cache, file)
  /\ disk \in Seq(Row) /\ \E n : Packed(disk, n)

ResultTyped ==
  result \in [call: {"none", "insert", "update", "delete", "get"},
              key: Keys \cup {NoValue},
              err: {"err_ok", "err_item_not_found"},
              count: Nat,
              value: Values \cup {NoValue}]

\* The cursors, and which of them stand on a row.
CursorsTyped ==
  /\ cursor \in [Cursors -> [status: CursorStatus \cup {"none", "cs_possible_data_inconsistency"},
                             pred: Predicate, location: 0 .. Len(file)]]
  /\ trail \in [Cursors -> Seq([location: 1 .. Len(file), row: Row])]
  /\ quiet \subseteq Cursors

CursorsPlaced ==
  /\ ~open => NoCursorOpen
  /\ \A c \in Cursors :
       /\ cursor[c].status = "none" => cursor[c].location = 0 /\ trail[c] = << >>
       /\ cursor[c].status = "cs_cursor_initialized" => cursor[c].location # 0

FInv == FileInv /\ ResultTyped /\ CursorsTyped /\ CursorsPlaced

-----------------------------------------------------------------------------
(***************************************************************************)
(* A traversal of an unchanged file: what has been delivered is, in order, *)
(* what satisfies the predicate up to where the cursor stands.             *)
(***************************************************************************)
Delivered(seq) == { seq[i].location : i \in DOMAIN seq }

InOrder(seq) == \A i, j \in DOMAIN seq : i < j => seq[i].location < seq[j].location

OnTrack(cur, seq) ==
  LET due == Matching(file, eof, 1, cur.pred) IN
  /\ InOrder(seq)
  /\ \/ /\ cur.status = "cs_cursor_initialized"
        /\ seq = << >>
        /\ cur.location \in due /\ \A l \in due : cur.location <= l
     \/ /\ cur.status = "cs_cursor_active"
        /\ cur.location \in 1 .. eof
        /\ Delivered(seq) = { l \in due : l <= cur.location }
     \/ /\ cur.status = "cs_end_of_results"
        /\ Delivered(seq) = due

QuietInv == \A c \in quiet : OnTrack(cursor[c], trail[c])

LEMMA InvFacts ==
  ASSUME FInv
  PROVE  /\ FileInv /\ CursorsTyped /\ CursorsPlaced /\ ResultTyped
         /\ file \in Seq(Row) /\ Len(file) \in Nat /\ eof \in 0 .. Len(file) /\ eof \in Nat
         /\ Packed(file, eof) /\ GoodCache(cache, file) /\ open \in BOOLEAN
         /\ disk \in Seq(Row) /\ \E n : Packed(disk, n)
         /\ quiet \subseteq Cursors
<1>1. FileInv /\ CursorsTyped /\ CursorsPlaced /\ ResultTyped
  BY DEF FInv
<1>2. file \in Seq(Row) /\ Packed(file, eof)
  BY <1>1 DEF FileInv
<1>3. Len(file) \in Nat /\ eof \in 0 .. Len(file)
  BY <1>2 DEF Packed
<1>4. quiet \subseteq Cursors
  BY <1>1 DEF CursorsTyped
<1>5. eof \in Nat
  BY <1>3
<1>6. GoodCache(cache, file) /\ open \in BOOLEAN /\ disk \in Seq(Row) /\ \E n : Packed(disk, n)
  BY <1>1 DEF FileInv
<1>7. QED
  BY <1>1, <1>2, <1>3, <1>4, <1>5, <1>6

LEMMA Start ==
  ASSUME CrashInit
  PROVE  FInv /\ QuietInv
<1>1. file = << >> /\ file \in Seq(Row) /\ eof = 0 /\ cache = NoRegion /\ disk = << >> /\ open = TRUE
  BY DEF CrashInit, Init
<1>2. Packed(file, eof) /\ GoodCache(cache, file)
  <2>1. Len(file) = 0 /\ eof \in 0 .. 0
    BY <1>1
  <2>2. Packed(file, eof)
    BY <2>1 DEF Packed
  <2>3. QED
    BY <1>1, <2>2, NoRegionGood
<1>3. FileInv
  BY <1>1, <1>2 DEF FileInv
<1>4. ResultTyped
  BY DEF CrashInit, Init, ResultTyped
<1>5. NoCursor \in [status: CursorStatus \cup {"none", "cs_possible_data_inconsistency"},
                    pred: Predicate, location: 0 .. Len(file)]
  BY <1>1 DEF NoCursor, AllRecords, Predicate
<1>6. << >> \in Seq([location: 1 .. Len(file), row: Row])
  OBVIOUS
<1>7. CursorsTyped
  BY <1>5, <1>6 DEF CrashInit, Init, CursorsTyped
<1>8. CursorsPlaced
  BY <1>1 DEF CrashInit, Init, CursorsPlaced, NoCursor
<1>9. QuietInv
  BY DEF CrashInit, Init, QuietInv
<1>10. QED
  BY <1>3, <1>4, <1>7, <1>8, <1>9 DEF FInv

\* Steps that leave the cursors alone, and the rows they stand on in the file.
LEMMA CursorsFrame ==
  ASSUME CursorsTyped, CursorsPlaced, Len(file) \in Nat, Len(file') \in Nat,
         Len(file) <= Len(file'),
         UNCHANGED <<open, cursor, trail>>, quiet' \subseteq Cursors
  PROVE  CursorsTyped' /\ CursorsPlaced'
<1>1. 0 .. Len(file) \subseteq 0 .. Len(file') /\ 1 .. Len(file) \subseteq 1 .. Len(file')
  OBVIOUS
<1>2. cursor' \in [Cursors -> [status: CursorStatus \cup {"none", "cs_possible_data_inconsistency"},
                               pred: Predicate, location: 0 .. Len(file')]]
  BY <1>1 DEF CursorsTyped
<1>3. [location: 1 .. Len(file), row: Row] \subseteq [location: 1 .. Len(file'), row: Row]
  BY <1>1
<1>4. trail' \in [Cursors -> Seq([location: 1 .. Len(file'), row: Row])]
  <2> DEFINE R == [location: 1 .. Len(file), row: Row]
             S == [location: 1 .. Len(file'), row: Row]
  <2>1. trail \in [Cursors -> Seq(R)] /\ R \subseteq S
    BY <1>3 DEF CursorsTyped
  <2> HIDE DEF R, S
  <2>2. ASSUME NEW c \in Cursors PROVE trail[c] \in Seq(S)
    BY <2>1, SequenceOfMore
  <2>3. trail' \in [Cursors -> Seq(S)]
    BY <2>1, <2>2
  <2>4. QED
    BY <2>3 DEF S
<1>5. CursorsTyped'
  BY <1>2, <1>4 DEF CursorsTyped
<1>6. CursorsPlaced'
  BY DEF CursorsPlaced, NoCursorOpen
<1>7. QED
  BY <1>5, <1>6

\* What a call leaves on the disk is the file, or the file before its last write.
LEMMA KeepPacked ==
  ASSUME file' \in Seq(Row), \E n : Packed(file', n),
         NEW before \in Seq(Row), \E n : Packed(before, n), Keep(before)
  PROVE  disk' \in Seq(Row) /\ \E n : Packed(disk', n)
  BY DEF Keep

LEMMA AnswerTyped ==
  ASSUME NEW call \in {"insert", "update", "delete", "get"}, NEW k \in Keys,
         NEW err \in {"err_ok", "err_item_not_found"}, NEW n \in Nat,
         NEW v \in Values \cup {NoValue}, Answer(call, k, err, n, v)
  PROVE  ResultTyped'
  BY DEF Answer, ResultTyped

LEMMA AppendRowKeeps ==
  ASSUME FInv, NEW call \in {"insert", "update"}, NEW k \in Keys, NEW v \in Values,
         AppendRow(call, k, v), NoteWrite, Keep(file)
  PROVE  FInv' /\ FirstFresh(cache', file')
<1>1. /\ file \in Seq(Row) /\ Packed(file, eof) /\ open \in BOOLEAN
      /\ file' = WriteRow(file, eof + 1, Occupied(k, v)) /\ eof' = eof + 1 /\ cache' = NoRegion
  BY DEF FInv, FileInv, AppendRow
<1>2. file' \in Seq(Row) /\ Packed(file', eof') /\ Len(file) <= Len(file')
  BY <1>1, AppendPacked
<1>3. GoodCache(cache', file') /\ FirstFresh(cache', file')
  BY <1>1, <1>2, NoRegionGood
<1>4. disk' \in Seq(Row) /\ \E n : Packed(disk', n)
  BY <1>1, <1>2, KeepPacked
<1>5. FileInv'
  BY <1>1, <1>2, <1>3, <1>4 DEF FileInv, NoteWrite
<1>6. ResultTyped'
  BY AnswerTyped DEF AppendRow
<1>7. CursorsTyped' /\ CursorsPlaced'
  <2>1. UNCHANGED <<open, cursor, trail>> /\ quiet' \subseteq Cursors
    BY DEF NoteWrite, FInv, CursorsTyped
  <2>2. Len(file) \in Nat /\ Len(file') \in Nat
    BY <1>1, <1>2
  <2>3. QED
    BY <1>2, <2>1, <2>2, CursorsFrame DEF FInv
<1>8. QED
  BY <1>3, <1>5, <1>6, <1>7 DEF FInv
\* The file with the rows of k up to l rewritten.
LEMMA UpdatedToPacked ==
  ASSUME file \in Seq(Row), Packed(file, eof), NEW k \in Keys, NEW v \in Values, NEW l
  PROVE  UpdatedTo(k, v, l) \in Seq(Row) /\ Packed(UpdatedTo(k, v, l), eof)
<1> DEFINE hits == Matching(file, eof, 1, Equality(k))
           T == { i \in hits : i <= l }
<1>1. eof \in 0 .. Len(file)
  BY DEF Packed
<1>2. hits \in SUBSET (1 .. eof)
  BY <1>1, MatchingRows
<1>3. T \in SUBSET (1 .. eof)
  BY <1>2
<1>4. UpdatedTo(k, v, l) = [i \in DOMAIN file |-> IF i \in hits /\ i <= l THEN Occupied(k, v) ELSE file[i]]
  BY DEF UpdatedTo
<1> HIDE DEF hits
<1>5. UpdatedTo(k, v, l) = Overwritten(file, T, Occupied(k, v))
  BY <1>4 DEF Overwritten
<1> HIDE DEF T
<1>6. QED
  BY <1>3, <1>5, OverwritePacked

LEMMA UpdateKeeps ==
  ASSUME FInv, NEW k \in Keys, NEW v \in Values, ffdict_update(k, v)
  PROVE  FInv' /\ FirstFresh(cache', file')
<1> DEFINE hits == Matching(file, eof, 1, Equality(k))
<1>1. /\ file \in Seq(Row) /\ Packed(file, eof) /\ open \in BOOLEAN
      /\ eof \in 0 .. Len(file) /\ Len(file) \in Nat
  BY DEF FInv, FileInv, Packed
<1>2. hits \in SUBSET (1 .. eof) /\ hits \in SUBSET Nat
  BY <1>1, MatchingRows
<1>3. flat_file_update(k, v) /\ NoteWrite /\ Keep(BeforeLastUpdate(k, v))
  BY DEF ffdict_update, flat_file_update
<1>4. CASE hits = {}
  <2>1. AppendRow("update", k, v) /\ Keep(file)
    BY <1>3, <1>4 DEF flat_file_update, BeforeLastUpdate
  <2>2. QED
    BY <1>3, <2>1, AppendRowKeeps
<1>5. CASE hits # {}
  <2>1. /\ file' = [l \in DOMAIN file |-> IF l \in hits THEN Occupied(k, v) ELSE file[l]]
        /\ cache' = AfterScan(NoRegion, file', eof, Max(hits) + 1, {})
        /\ Answer("update", k, "err_ok", Cardinality(hits), NoValue)
        /\ eof' = eof
    BY <1>3, <1>5 DEF flat_file_update
  <2>2. BeforeLastUpdate(k, v) = UpdatedTo(k, v, Max(hits) - 1)
    BY <1>5 DEF BeforeLastUpdate
  <2> HIDE DEF hits
  <2>3. file' \in Seq(Row) /\ Packed(file', eof') /\ Len(file') = Len(file)
    <3>1. file' = Overwritten(file, hits, Occupied(k, v))
      BY <2>1 DEF Overwritten
    <3>2. QED
      BY <1>1, <1>2, <2>1, <3>1, OverwritePacked
  <2>4. Max(hits) + 1 \in Nat \ {0}
    <3>1. eof \in Nat /\ \A x \in hits : x <= eof
      BY <1>1, <1>2
    <3>2. Max(hits) \in hits
      BY <1>2, <1>5, <3>1, MaxIn
    <3>3. Max(hits) \in Nat
      BY <1>2, <3>2
    <3>4. QED
      BY <3>3
  <2>5. GoodCache(cache', file') /\ FirstFresh(cache', file')
    <3>1. eof \in 0 .. Len(file')
      BY <1>1, <2>3
    <3>2. {} \in SUBSET ((Max(hits) + 1) .. eof)
      OBVIOUS
    <3>3. /\ Max(hits) + 1 > eof => cache' = NoRegion
          /\ Max(hits) + 1 <= eof => GoodCache(cache', file') /\ FirstFresh(cache', file')
      BY <2>1, <2>3, <2>4, <3>1, <3>2, AfterScanGood
    <3>4. QED
      BY <1>1, <2>3, <2>4, <3>3, NoRegionGood
  <2>6. disk' \in Seq(Row) /\ \E n : Packed(disk', n)
    BY <1>1, <1>3, <2>2, <2>3, UpdatedToPacked, KeepPacked
  <2>7. FileInv'
    BY <1>1, <1>3, <2>3, <2>5, <2>6 DEF FileInv, NoteWrite
  <2>8. ResultTyped'
    <3>1. IsFiniteSet(1 .. eof)
      BY <1>1, FS_Interval
    <3>2. Cardinality(hits) \in Nat
      BY <1>2, <3>1, FS_Subset, FS_CardinalityType
    <3>3. QED
      BY <2>1, <3>2, AnswerTyped
  <2>9. CursorsTyped' /\ CursorsPlaced'
    <3>1. UNCHANGED <<open, cursor, trail>> /\ quiet' \subseteq Cursors
      BY <1>3 DEF NoteWrite, FInv, CursorsTyped
    <3>2. QED
      BY <1>1, <2>3, <3>1, CursorsFrame DEF FInv
  <2>10. QED
    BY <2>5, <2>7, <2>8, <2>9 DEF FInv
<1>6. QED
  BY <1>4, <1>5

LEMMA DeleteKeeps ==
  ASSUME FInv, NEW k \in Keys, ffdict_delete(k)
  PROVE  FInv' /\ (FirstFresh(cache, file) => FirstFresh(cache', file'))
<1> DEFINE last == DeleteTurns(k)[eof]
           old == IF last.count = 0 THEN cache ELSE NoRegion
<1>1. /\ file \in Seq(Row) /\ Packed(file, eof) /\ open \in BOOLEAN
      /\ GoodCache(cache, file) /\ disk \in Seq(Row) /\ \E n : Packed(disk, n)
      /\ eof \in 0 .. Len(file) /\ Len(file) \in Nat /\ eof \in Nat
  BY DEF FInv, FileInv, Packed
<1>2. GoodTurn(last) /\ last.count \in 0 .. eof
  BY <1>1, TurnsGood, LastCount
<1>3. /\ file' = last.file /\ eof' = last.eof
      /\ cache' = AfterScan(old, last.file, last.eof, last.loc, {})
      /\ Answer("delete", k, IF last.count = 0 THEN "err_item_not_found" ELSE "err_ok",
                last.count, NoValue)
      /\ NoteWrite /\ Keep(BeforeLastDelete(k))
  BY DEF ffdict_delete, flat_file_delete
<1>4. BeforeLastDelete(k) = IF last.count = 0 THEN disk ELSE MovedIn(DeleteTurns(k), last.count)
  BY DEF BeforeLastDelete
<1>5. BeforeLastDelete(k) \in Seq(Row) /\ \E n : Packed(BeforeLastDelete(k), n)
  <2>1. CASE last.count = 0
    BY <1>1, <1>4, <2>1
  <2>2. CASE last.count # 0
    <3>1. last.count \in 1 .. last.count
      BY <1>2, <2>2
    <3>2. MovedIn(DeleteTurns(k), last.count) \in DeleteImages(k)
      BY <1>1, <3>1, DeleteImagesPacked
    <3>3. QED
      BY <1>1, <1>4, <2>2, <3>2, DeleteImagesPacked
  <2>3. QED
    BY <2>1, <2>2
<1> HIDE DEF last
<1>6. /\ file' \in Seq(Row) /\ Packed(file', eof') /\ Len(file') = Len(file)
      /\ last.loc \in Nat \ {0} /\ eof' \in 0 .. Len(file')
      /\ last.count = 0 => file' = file
  BY <1>2, <1>3 DEF GoodTurn, Packed
<1>7. GoodCache(old, file') /\ (FirstFresh(cache, file) => FirstFresh(old, file'))
  <2>1. CASE last.count = 0
    BY <1>1, <1>6, <2>1
  <2>2. CASE last.count # 0
    BY <1>6, <2>2, NoRegionGood
  <2>3. QED
    BY <2>1, <2>2
<1> HIDE DEF old
<1>8. GoodCache(cache', file') /\ (FirstFresh(cache, file) => FirstFresh(cache', file'))
  <2>1. {} \in SUBSET (last.loc .. eof') /\ cache' = AfterScan(old, file', eof', last.loc, {})
    BY <1>3
  <2>2. /\ last.loc > eof' => cache' = old
        /\ last.loc <= eof' => GoodCache(cache', file') /\ FirstFresh(cache', file')
    BY <1>6, <2>1, AfterScanGood
  <2>3. QED
    BY <1>6, <1>7, <2>2
<1>9. disk' \in Seq(Row) /\ \E n : Packed(disk', n)
  BY <1>3, <1>5, <1>6, KeepPacked
<1>10. FileInv'
  BY <1>1, <1>3, <1>6, <1>8, <1>9 DEF FileInv, NoteWrite
<1>11. ResultTyped'
  <2>1. last.count \in Nat
    BY <1>2
  <2>2. QED
    BY <1>3, <2>1, AnswerTyped
<1>12. CursorsTyped' /\ CursorsPlaced'
  <2>1. UNCHANGED <<open, cursor, trail>> /\ quiet' \subseteq Cursors
    BY <1>3 DEF NoteWrite, FInv, CursorsTyped
  <2>2. QED
    BY <1>1, <1>6, <2>1, CursorsFrame DEF FInv
<1>13. QED
  BY <1>8, <1>10, <1>11, <1>12 DEF FInv

\* A scan from start leaves a good buffer; a fresh one stays fresh.
LEMMA ScanKeeps ==
  ASSUME FileInv, NEW start \in Nat \ {0}, NEW pred, ScanFor(start, pred)
  PROVE  /\ GoodCache(cache', file)
         /\ start <= eof \/ FirstFresh(cache, file) => FirstFresh(cache', file)
<1> DEFINE hits == Matching(file, eof, start, pred)
<1>1. file \in Seq(Row) /\ eof \in 0 .. Len(file) /\ GoodCache(cache, file)
  BY DEF FileInv, Packed
<1>2. hits \in SUBSET (start .. eof)
  BY <1>1, MatchingRows
<1>3. cache' = AfterScan(cache, file, eof, start, hits)
  BY DEF ScanFor
<1> HIDE DEF hits
<1>4. /\ start > eof => cache' = cache
      /\ start <= eof => GoodCache(cache', file) /\ FirstFresh(cache', file)
  BY <1>1, <1>2, <1>3, AfterScanGood
<1>5. QED
  BY <1>1, <1>4

LEMMA GetKeeps ==
  ASSUME FInv, NEW k \in Keys, ffdict_get(k)
  PROVE  FInv' /\ (FirstFresh(cache, file) => FirstFresh(cache', file'))
<1> DEFINE hits == Matching(file, eof, 1, Equality(k))
<1>1. /\ FileInv /\ file \in Seq(Row) /\ eof \in 0 .. Len(file) /\ Len(file) \in Nat
      /\ Packed(file, eof) /\ disk \in Seq(Row) /\ \E n : Packed(disk, n)
  BY DEF FInv, FileInv, Packed
<1>2. /\ UNCHANGED <<open, file, eof, cursor, trail, quiet>>
      /\ ScanFor(1, Equality(k)) /\ Keep(disk)
      /\ \/ Answer("get", k, "err_item_not_found", 0, NoValue)
         \/ hits # {} /\ Answer("get", k, "err_ok", 1, file[Min(hits)].value)
  BY DEF ffdict_get, flat_file_get, cursorVars
<1>3. GoodCache(cache', file') /\ (FirstFresh(cache, file) => FirstFresh(cache', file'))
  BY <1>1, <1>2, ScanKeeps
<1>4. disk' \in Seq(Row) /\ \E n : Packed(disk', n)
  BY <1>1, <1>2, KeepPacked
<1>5. FileInv'
  BY <1>1, <1>2, <1>3, <1>4 DEF FileInv
<1>6. ResultTyped'
  <2>1. ASSUME hits # {} PROVE file[Min(hits)].value \in Values
    <3>1. hits \in SUBSET (1 .. Len(file)) /\ hits \in SUBSET Nat
      BY <1>1, MatchingRows
    <3>2. Min(hits) \in 1 .. Len(file)
      BY <2>1, <3>1, MinIn
    <3>3. file[Min(hits)] \in Row
      BY <1>1, <3>2, SequenceElement
    <3>4. QED
      BY <3>3 DEF Row
  <2>2. QED
    BY <1>2, <2>1, AnswerTyped
<1>7. CursorsTyped' /\ CursorsPlaced'
  <2>1. UNCHANGED <<open, cursor, trail>> /\ quiet' \subseteq Cursors
    BY <1>2 DEF FInv, CursorsTyped
  <2>2. QED
    BY <1>1, <1>2, <2>1, CursorsFrame DEF FInv
<1>8. QED
  BY <1>3, <1>5, <1>6, <1>7 DEF FInv
-----------------------------------------------------------------------------
(***************************************************************************)
(* The calls on cursors.                                                   *)
(***************************************************************************)
CursorSort ==
  [status: CursorStatus \cup {"none", "cs_possible_data_inconsistency"},
   pred: Predicate, location: 0 .. Len(file)]

DeliverySort == [location: 1 .. Len(file), row: Row]

\* A step that gives cursor c a new state, and does not change the rows.
LEMMA CursorSet ==
  ASSUME CursorsTyped, CursorsPlaced,
         NEW c \in Cursors, NEW cur \in CursorSort, NEW seq \in Seq(DeliverySort),
         cursor[c].status # "none" \/ open,
         cur.status = "none" => cur.location = 0 /\ seq = << >>,
         cur.status = "cs_cursor_initialized" => cur.location # 0,
         cursor' = [cursor EXCEPT ![c] = cur], trail' = [trail EXCEPT ![c] = seq],
         quiet' \subseteq quiet \cup {c}, UNCHANGED <<open, file, eof>>
  PROVE  /\ CursorsTyped' /\ CursorsPlaced'
         /\ QuietInv /\ (c \in quiet' => OnTrack(cur, seq)) => QuietInv'
<1>1. /\ cursor \in [Cursors -> CursorSort] /\ trail \in [Cursors -> Seq(DeliverySort)]
      /\ quiet \subseteq Cursors
  BY DEF CursorsTyped, CursorSort, DeliverySort
<1>2. /\ cursor' \in [Cursors -> CursorSort] /\ trail' \in [Cursors -> Seq(DeliverySort)]
      /\ \A d \in Cursors : /\ cursor'[d] = IF d = c THEN cur ELSE cursor[d]
                            /\ trail'[d] = IF d = c THEN seq ELSE trail[d]
  BY <1>1
<1>3. CursorSort' = CursorSort /\ DeliverySort' = DeliverySort
  BY DEF CursorSort, DeliverySort
<1>4. CursorsTyped'
  <2>1. cursor' \in [Cursors -> CursorSort'] /\ trail' \in [Cursors -> Seq(DeliverySort')]
    BY <1>2, <1>3
  <2>2. quiet' \subseteq Cursors
    BY <1>1
  <2>3. QED
    BY <2>1, <2>2 DEF CursorsTyped, CursorSort, DeliverySort
<1>5. open
  BY DEF CursorsPlaced, NoCursorOpen
<1>6. CursorsPlaced'
  BY <1>2, <1>5 DEF CursorsPlaced
<1>7. ASSUME QuietInv, c \in quiet' => OnTrack(cur, seq) PROVE QuietInv'
  <2>1. ASSUME NEW d \in quiet' PROVE OnTrack(cursor'[d], trail'[d])
    <3>1. CASE d = c
      BY <1>2, <1>7, <2>1, <3>1
    <3>2. CASE d # c
      BY <1>1, <1>2, <1>7, <2>1, <3>2 DEF QuietInv
    <3>3. QED
      BY <3>1, <3>2
  <2>2. \A d \in quiet' : OnTrack(cursor[d], trail[d])'
    BY <2>1 DEF OnTrack
  <2>3. QED
    BY <2>2 DEF QuietInv
<1>8. QED
  BY <1>4, <1>6, <1>7

LEMMA OneMoreDelivered ==
  ASSUME NEW S, NEW seq \in Seq(S), NEW d, \A x \in S : x.location \in Nat, d.location \in Nat
  PROVE  /\ Delivered(Append(seq, d)) = Delivered(seq) \cup {d.location}
         /\ InOrder(seq) /\ (\A l \in Delivered(seq) : l < d.location) => InOrder(Append(seq, d))
<1> DEFINE n == Len(seq)
           more == Append(seq, d)
<1>1. /\ n \in Nat /\ DOMAIN seq = 1 .. n /\ DOMAIN more = 1 .. (n + 1)
      /\ \A i \in 1 .. (n + 1) : more[i] = IF i = n + 1 THEN d ELSE seq[i]
  OBVIOUS
<1>2. \A i \in 1 .. n : seq[i].location \in Nat
  BY SequenceElement
<1> HIDE DEF more, n
<1>3. Delivered(more) = Delivered(seq) \cup {d.location}
  <2>1. ASSUME NEW l \in Delivered(more) PROVE l \in Delivered(seq) \cup {d.location}
    <3>1. PICK i \in 1 .. (n + 1) : l = more[i].location
      BY <1>1, <2>1 DEF Delivered
    <3>2. CASE i = n + 1
      BY <1>1, <3>1, <3>2
    <3>3. CASE i # n + 1
      <4>1. i \in DOMAIN seq /\ l = seq[i].location
        BY <1>1, <3>1, <3>3
      <4>2. QED
        BY <4>1 DEF Delivered
    <3>4. QED
      BY <3>2, <3>3
  <2>2. ASSUME NEW l \in Delivered(seq) PROVE l \in Delivered(more)
    <3>1. PICK i \in 1 .. n : l = seq[i].location
      BY <1>1, <2>2 DEF Delivered
    <3>2. i \in DOMAIN more /\ l = more[i].location
      BY <1>1, <3>1
    <3>3. QED
      BY <3>2 DEF Delivered
  <2>3. d.location \in Delivered(more)
    <3>1. n + 1 \in DOMAIN more /\ more[n + 1] = d
      BY <1>1
    <3>2. QED
      BY <3>1 DEF Delivered
  <2>4. QED
    BY <2>1, <2>2, <2>3
<1>4. ASSUME InOrder(seq), \A l \in Delivered(seq) : l < d.location PROVE InOrder(more)
  <2>1. ASSUME NEW i \in 1 .. (n + 1), NEW j \in 1 .. (n + 1), i < j
        PROVE  more[i].location < more[j].location
    <3>1. i \in 1 .. n /\ more[i] = seq[i]
      BY <1>1, <2>1
    <3>2. CASE j = n + 1
      <4>1. seq[i].location \in Delivered(seq)
        BY <1>1, <3>1 DEF Delivered
      <4>2. QED
        BY <1>1, <1>4, <3>1, <3>2, <4>1
    <3>3. CASE j # n + 1
      <4>1. j \in 1 .. n /\ more[j] = seq[j]
        BY <1>1, <3>3
      <4>2. QED
        BY <1>1, <1>4, <2>1, <3>1, <4>1 DEF InOrder
    <3>4. QED
      BY <3>2, <3>3
  <2>2. QED
    BY <1>1, <2>1 DEF InOrder
<1>5. QED
  BY <1>3, <1>4 DEF more

LEMMA NothingDelivered == Delivered(<< >>) = {} /\ InOrder(<< >>)
  BY DEF Delivered, InOrder

LEMMA FindKeeps ==
  ASSUME FInv, NEW c \in Cursors, NEW pred \in Predicates, ffdict_find_on_disk(c, pred)
  PROVE  FInv' /\ (QuietInv => QuietInv')
<1> DEFINE hits == Matching(file, eof, 1, pred)
           cur == IF hits = {}
                  THEN [status |-> "cs_end_of_results", pred |-> pred, location |-> 0]
                  ELSE [status |-> "cs_cursor_initialized", pred |-> pred, location |-> Min(hits)]
<1>1. /\ FileInv /\ file \in Seq(Row) /\ eof \in 0 .. Len(file) /\ Len(file) \in Nat /\ eof \in Nat
      /\ Packed(file, eof) /\ disk \in Seq(Row) /\ \E n : Packed(disk, n)
      /\ CursorsTyped /\ CursorsPlaced /\ ResultTyped
  BY InvFacts
<1>2. /\ open /\ cursor' = [cursor EXCEPT ![c] = cur] /\ trail' = [trail EXCEPT ![c] = << >>]
      /\ quiet' = quiet \cup {c} /\ UNCHANGED <<open, file, eof, result>>
      /\ ScanFor(1, pred) /\ Keep(disk)
  BY DEF ffdict_find_on_disk, ffdict_find
<1>3. pred \in Predicate
  BY PredicatesAssumption
<1>4. hits \in SUBSET (1 .. eof) /\ hits \in SUBSET Nat
  BY <1>1, MatchingRows
<1>5. hits # {} => Min(hits) \in hits /\ \A l \in hits : Min(hits) <= l
  BY <1>4, MinIn
<1>6. /\ cur \in CursorSort /\ cur.status \in {"cs_end_of_results", "cs_cursor_initialized"}
      /\ cur.pred = pred /\ (cur.status = "cs_cursor_initialized" => cur.location # 0)
  <2>1. CASE hits = {}
    BY <1>1, <1>3, <2>1 DEF CursorSort, CursorStatus
  <2>2. CASE hits # {}
    <3>1. Min(hits) \in 0 .. Len(file) /\ Min(hits) # 0
      BY <1>1, <1>4, <1>5, <2>2
    <3>2. QED
      BY <1>3, <2>2, <3>1 DEF CursorSort, CursorStatus
  <2>3. QED
    BY <2>1, <2>2
<1>7. OnTrack(cur, << >>)
  <2>1. CASE hits = {}
    BY <2>1, NothingDelivered DEF OnTrack
  <2>2. CASE hits # {}
    BY <1>5, <2>2, NothingDelivered DEF OnTrack
  <2>3. QED
    BY <2>1, <2>2
<1>8. cur.status = "cs_cursor_initialized" => 1 <= eof
  BY <1>1, <1>4, <1>5
<1> HIDE DEF cur
<1>9. CursorsTyped' /\ CursorsPlaced' /\ (QuietInv => QuietInv')
  <2>1. << >> \in Seq(DeliverySort)
    OBVIOUS
  <2>2. QED
    BY <1>1, <1>2, <1>6, <1>7, <2>1, CursorSet
<1>10. GoodCache(cache', file') /\ (1 <= eof \/ FirstFresh(cache, file) => FirstFresh(cache', file'))
  BY <1>1, <1>2, ScanKeeps
<1>11. disk' \in Seq(Row) /\ \E n : Packed(disk', n)
  BY <1>1, <1>2, KeepPacked
<1>12. FileInv'
  BY <1>1, <1>2, <1>10, <1>11 DEF FileInv
<1>13. ResultTyped'
  BY <1>1, <1>2 DEF ResultTyped
<1>14. QED
  BY <1>9, <1>12, <1>13 DEF FInv

LEMMA DestroyCursorKeeps ==
  ASSUME FInv, NEW c \in Cursors, ffdict_destroy_cursor_on_disk(c)
  PROVE  FInv' /\ (QuietInv => QuietInv')
<1>1. /\ FileInv /\ CursorsTyped /\ CursorsPlaced /\ ResultTyped /\ quiet \subseteq Cursors
      /\ Len(file) \in Nat
  BY InvFacts
<1>2. /\ cursor[c].status # "none" /\ cursor' = [cursor EXCEPT ![c] = NoCursor]
      /\ trail' = [trail EXCEPT ![c] = << >>] /\ quiet' = quiet \ {c}
      /\ UNCHANGED <<open, file, eof, cache, result, disk>>
  BY DEF ffdict_destroy_cursor_on_disk, ffdict_destroy_cursor, fileVars
<1>3. NoCursor \in CursorSort /\ NoCursor.status = "none" /\ NoCursor.location = 0
  BY <1>1 DEF NoCursor, AllRecords, Predicate, CursorSort
<1>4. CursorsTyped' /\ CursorsPlaced' /\ (QuietInv => QuietInv')
  <2>1. << >> \in Seq(DeliverySort)
    OBVIOUS
  <2>2. quiet' \subseteq quiet \cup {c} /\ c \notin quiet'
    BY <1>2
  <2>3. QED
    BY <1>1, <1>2, <1>3, <2>1, <2>2, CursorSet
<1>5. FileInv' /\ ResultTyped'
  BY <1>1, <1>2 DEF FileInv, ResultTyped
<1>6. QED
  BY <1>4, <1>5 DEF FInv
\* The rows before the next match have been delivered: so has, then, it.
LEMMA MatchDelivered ==
  ASSUME CursorsTyped, eof \in 0 .. Len(file), Len(file) \in Nat,
         NEW seq \in Seq(DeliverySort), NEW d \in DeliverySort, NEW cur,
         cur.status = "cs_cursor_active", cur.location = d.location,
         InOrder(seq), d.location \in Matching(file, eof, 1, cur.pred),
         Delivered(seq) = { x \in Matching(file, eof, 1, cur.pred) : x < d.location }
  PROVE  OnTrack(cur, Append(seq, d))
<1> DEFINE due == Matching(file, eof, 1, cur.pred)
<1>1. due \in SUBSET (1 .. eof)
  BY DEF Matching
<1> HIDE DEF due
<1>2. d.location \in due /\ Delivered(seq) = { x \in due : x < d.location }
  BY DEF due
<1>3. \A x \in DeliverySort : x.location \in Nat
  BY DEF DeliverySort
<1>4. \A x \in Delivered(seq) : x < d.location
  BY <1>2
<1>5. Delivered(Append(seq, d)) = Delivered(seq) \cup {d.location} /\ InOrder(Append(seq, d))
  BY <1>3, <1>4, OneMoreDelivered
<1>6. \A x \in due : x <= d.location <=> (x < d.location \/ x = d.location)
  BY <1>1, <1>3
<1>7. Delivered(seq) \cup {d.location} = { x \in due : x <= d.location }
  BY <1>2, <1>6
<1>8. d.location \in 1 .. eof
  BY <1>1, <1>2
<1>9. QED
  BY <1>5, <1>7, <1>8 DEF OnTrack, due

\* The fields of a cursor that is moved.
LEMMA MovedCursor ==
  ASSUME NEW cur \in CursorSort, NEW status, NEW l
  PROVE  /\ [[cur EXCEPT !.status = status] EXCEPT !.location = l] =
              [status |-> status, pred |-> cur.pred, location |-> l]
         /\ [cur EXCEPT !.status = status] =
              [status |-> status, pred |-> cur.pred, location |-> cur.location]
<1>1. cur = [status |-> cur.status, pred |-> cur.pred, location |-> cur.location]
  BY DEF CursorSort
<1>2. PICK a, b, d : cur = [status |-> a, pred |-> b, location |-> d]
  BY <1>1
<1>3. /\ cur.pred = b /\ cur.location = d
      /\ [cur EXCEPT !.status = status] = [status |-> status, pred |-> b, location |-> d]
  BY <1>2
<1>4. [[cur EXCEPT !.status = status] EXCEPT !.location = l] =
        [status |-> status, pred |-> b, location |-> l]
  <2>1. [[status |-> status, pred |-> b, location |-> d] EXCEPT !.location = l] =
          [status |-> status, pred |-> b, location |-> l]
    OBVIOUS
  <2>2. QED
    BY <1>3, <2>1, Zenon
<1>5. QED
  BY <1>3, <1>4

\* Cursor c delivers the row at l.
LEMMA DeliverKeeps ==
  ASSUME FInv, NEW c \in Cursors, cursor[c].status # "none",
         NEW c0, GoodCache(c0, file), NEW l \in 1 .. Len(file), Deliver(c, c0, l),
         UNCHANGED <<open, file, eof, quiet, result>>, disk' \in {file, disk},
         QuietInv /\ c \in quiet =>
           LET due == Matching(file, eof, 1, cursor[c].pred) IN
           /\ l \in due /\ InOrder(trail[c])
           /\ Delivered(trail[c]) = { x \in due : x < l }
  PROVE  /\ FInv' /\ (QuietInv => QuietInv')
         /\ cursor'[c].status = "cs_cursor_active"
         /\ \A d \in Cursors : d # c => trail'[d] = trail[d]
         /\ trail'[c] = Append(trail[c], [location |-> l, row |-> ReadRow(c0, l)])
<1> DEFINE d == [location |-> l, row |-> ReadRow(c0, l)]
           seq == Append(trail[c], d)
           cur == [status |-> "cs_cursor_active", pred |-> cursor[c].pred, location |-> l]
<1>1. /\ FileInv /\ file \in Seq(Row) /\ eof \in 0 .. Len(file) /\ Len(file) \in Nat
      /\ Packed(file, eof) /\ disk \in Seq(Row) /\ \E n : Packed(disk, n)
      /\ CursorsTyped /\ CursorsPlaced /\ ResultTyped /\ open \in BOOLEAN
  BY InvFacts
<1>2. cursor \in [Cursors -> CursorSort] /\ trail \in [Cursors -> Seq(DeliverySort)]
  BY <1>1 DEF CursorsTyped, CursorSort, DeliverySort
<1>3. ReadRow(c0, l) \in Row /\ GoodCache(AfterRead(c0, l), file)
  BY <1>1, ReadRowGood
<1>4. d \in DeliverySort /\ d.location = l
  BY <1>3 DEF DeliverySort
<1>5. seq \in Seq(DeliverySort)
  BY <1>2, <1>4
<1>6. /\ cur \in CursorSort /\ cur.status = "cs_cursor_active" /\ cur.location = l
      /\ cur.pred = cursor[c].pred
  <2>1. cursor[c].pred \in Predicate /\ l \in 0 .. Len(file)
    BY <1>1, <1>2 DEF CursorSort
  <2>2. QED
    BY <2>1 DEF CursorSort, CursorStatus
<1>7. cursor' = [cursor EXCEPT ![c] = cur]
  <2>1. cursor' = [cursor EXCEPT ![c] = [[cursor[c] EXCEPT !.status = "cs_cursor_active"]
                                           EXCEPT !.location = l]]
    BY <1>2 DEF Deliver
  <2>2. [[cursor[c] EXCEPT !.status = "cs_cursor_active"] EXCEPT !.location = l] = cur
    BY <1>2, MovedCursor
  <2>3. QED
    BY <2>1, <2>2
<1>8. trail' = [trail EXCEPT ![c] = seq] /\ cache' = AfterRead(c0, l)
  BY DEF Deliver
<1>9. QuietInv /\ c \in quiet => OnTrack(cur, seq)
  BY <1>1, <1>2, <1>4, <1>6, MatchDelivered
<1>10. /\ cursor'[c].status = "cs_cursor_active" /\ trail'[c] = seq
       /\ \A e \in Cursors : e # c => trail'[e] = trail[e]
  BY <1>2, <1>6, <1>7, <1>8
<1> HIDE DEF cur, seq, d
<1>11. /\ CursorsTyped' /\ CursorsPlaced'
       /\ QuietInv /\ (c \in quiet' => OnTrack(cur, seq)) => QuietInv'
  BY <1>1, <1>5, <1>6, <1>7, <1>8, CursorSet
<1>12. FileInv'
  BY <1>1, <1>3, <1>8 DEF FileInv
<1>13. ResultTyped'
  BY <1>1 DEF ResultTyped
<1>14. QED
  BY <1>9, <1>10, <1>11, <1>12, <1>13 DEF FInv, seq, d

\* The end of a traversal, or a cursor found behind the end of the rows.
LEMMA StopKeeps ==
  ASSUME FInv, NEW c \in Cursors, cursor[c].status # "none", NEW cur \in CursorSort,
         cur.status \notin {"none", "cs_cursor_initialized"}, cursor' = [cursor EXCEPT ![c] = cur],
         GoodCache(cache', file), UNCHANGED <<open, file, eof, quiet, result, trail>>,
         disk' \in {file, disk},
         QuietInv /\ c \in quiet => OnTrack(cur, trail[c])
  PROVE  FInv' /\ (QuietInv => QuietInv')
<1>1. /\ FileInv /\ file \in Seq(Row) /\ eof \in 0 .. Len(file) /\ Len(file) \in Nat
      /\ Packed(file, eof) /\ disk \in Seq(Row) /\ \E n : Packed(disk, n)
      /\ CursorsTyped /\ CursorsPlaced /\ ResultTyped /\ open \in BOOLEAN
  BY InvFacts
<1>2. trail \in [Cursors -> Seq(DeliverySort)]
  BY <1>1 DEF CursorsTyped, DeliverySort
<1>3. trail[c] \in Seq(DeliverySort) /\ trail' = [trail EXCEPT ![c] = trail[c]]
  BY <1>2
<1>4. /\ CursorsTyped' /\ CursorsPlaced'
      /\ QuietInv /\ (c \in quiet' => OnTrack(cur, trail[c])) => QuietInv'
  BY <1>1, <1>3, CursorSet
<1>5. FileInv'
  BY <1>1 DEF FileInv
<1>6. ResultTyped'
  BY <1>1 DEF ResultTyped
<1>7. QED
  BY <1>4, <1>5, <1>6 DEF FInv

\* What cursor c has delivered, when the scan for its next row starts.
LEMMA ActiveTrack ==
  ASSUME NEW c, OnTrack(cursor[c], trail[c]), cursor[c].status = "cs_cursor_active",
         eof \in Nat
  PROVE  LET due == Matching(file, eof, 1, cursor[c].pred)
             hits == Matching(file, eof, cursor[c].location + 1, cursor[c].pred)
         IN /\ InOrder(trail[c]) /\ cursor[c].location \in 1 .. eof
            /\ Delivered(trail[c]) = { x \in due : x <= cursor[c].location }
            /\ hits = { x \in due : x > cursor[c].location }
<1> DEFINE due == Matching(file, eof, 1, cursor[c].pred)
           hits == Matching(file, eof, cursor[c].location + 1, cursor[c].pred)
<1>1. /\ InOrder(trail[c]) /\ cursor[c].location \in 1 .. eof
      /\ Delivered(trail[c]) = { x \in due : x <= cursor[c].location }
  BY DEF OnTrack
<1>2. \A x : x \in cursor[c].location + 1 .. eof <=> x \in 1 .. eof /\ x > cursor[c].location
  BY <1>1
<1>3. hits = { x \in due : x > cursor[c].location }
  BY <1>2 DEF Matching
<1>4. QED
  BY <1>1, <1>3
LEMMA NextKeeps ==
  ASSUME FInv, NEW c \in Cursors, ffdict_next_on_disk(c)
  PROVE  /\ FInv' /\ (QuietInv => QuietInv')
         /\ cursor'[c].status # "cs_cursor_initialized"
         /\ \A d \in Cursors : d # c => trail'[d] = trail[d]
<1> DEFINE pred == cursor[c].pred
           start == cursor[c].location + 1
           hits == Matching(file, eof, start, pred)
<1>1. /\ FileInv /\ file \in Seq(Row) /\ eof \in 0 .. Len(file) /\ Len(file) \in Nat /\ eof \in Nat
      /\ Packed(file, eof) /\ disk \in Seq(Row) /\ \E n : Packed(disk, n)
      /\ CursorsTyped /\ CursorsPlaced /\ ResultTyped /\ open \in BOOLEAN /\ GoodCache(cache, file)
  BY InvFacts
<1>2. /\ UNCHANGED <<open, file, eof, result, quiet>> /\ disk' \in {file, disk}
  BY DEF ffdict_next_on_disk, ffdict_next
<1>3. cursor \in [Cursors -> CursorSort] /\ cursor[c] \in CursorSort
  BY <1>1 DEF CursorsTyped, CursorSort
<1>4. cursor[c].location \in 0 .. Len(file) /\ start \in Nat \ {0}
  BY <1>1, <1>3 DEF CursorSort
<1>5. hits \in SUBSET (start .. eof) /\ hits \in SUBSET Nat /\ hits \in SUBSET (1 .. Len(file))
  BY <1>1, <1>4, MatchingRows
<1>6. ASSUME cursor[c].status = "cs_cursor_active", QuietInv, c \in quiet
      PROVE  LET due == Matching(file, eof, 1, pred) IN
             /\ InOrder(trail[c]) /\ cursor[c].location \in 1 .. eof
             /\ Delivered(trail[c]) = { x \in due : x <= cursor[c].location }
             /\ hits = { x \in due : x > cursor[c].location }
  BY <1>1, <1>6, ActiveTrack DEF QuietInv
<1>7. CASE cursor[c].status = "cs_cursor_initialized" /\ Deliver(c, cache, cursor[c].location)
  <2> DEFINE l == cursor[c].location
  <2>1. l # 0
    BY <1>1, <1>7 DEF CursorsPlaced
  <2>2. l \in 1 .. Len(file)
    BY <1>1, <1>4, <2>1
  <2>3. ASSUME QuietInv, c \in quiet
        PROVE  LET due == Matching(file, eof, 1, cursor[c].pred) IN
               /\ l \in due /\ InOrder(trail[c])
               /\ Delivered(trail[c]) = { x \in due : x < l }
    <3> DEFINE due == Matching(file, eof, 1, cursor[c].pred)
    <3>1. trail[c] = << >> /\ l \in due /\ \A x \in due : l <= x
      BY <1>7, <2>3 DEF QuietInv, OnTrack
    <3>2. due \in SUBSET Nat
      BY <1>1, MatchingRows
    <3> HIDE DEF due
    <3>3. { x \in due : x < l } = {}
      <4>1. l \in Nat
        BY <2>2
      <4>2. QED
        BY <3>1, <3>2, <4>1, NoneBefore
    <3>4. QED
      BY <3>1, <3>3, NothingDelivered DEF due
  <2>4. QED
    BY <1>1, <1>2, <1>7, <2>2, <2>3, DeliverKeeps
<1>8. CASE /\ cursor[c].status = "cs_cursor_active" /\ hits # {}
           /\ Deliver(c, AfterScan(cache, file, eof, start, hits), Min(hits))
  <2> DEFINE l == Min(hits)
             c0 == AfterScan(cache, file, eof, start, hits)
  <2>1. l \in hits /\ \A x \in hits : l <= x
    BY <1>5, <1>8, MinIn
  <2>2. GoodCache(c0, file)
    BY <1>1, <1>4, <1>5, ScannedGood
  <2>3. ASSUME QuietInv, c \in quiet
        PROVE  LET due == Matching(file, eof, 1, cursor[c].pred) IN
               /\ l \in due /\ InOrder(trail[c])
               /\ Delivered(trail[c]) = { x \in due : x < l }
    <3> DEFINE due == Matching(file, eof, 1, cursor[c].pred)
               at == cursor[c].location
    <3>1. /\ InOrder(trail[c]) /\ Delivered(trail[c]) = { x \in due : x <= at }
          /\ hits = { x \in due : x > at } /\ at \in 1 .. eof
      BY <1>6, <1>8, <2>3
    <3>2. due \in SUBSET Nat
      BY <1>1, MatchingRows
    <3> HIDE DEF due, hits, at
    <3>3. l \in due /\ l > at
      BY <2>1, <3>1
    <3>4. \A x \in due : x < l <=> x <= at
      <4>1. l \in Nat
        BY <3>2, <3>3
      <4>2. at \in Nat
        BY <3>1
      <4>3. \A x \in due : x > at => l <= x
        BY <2>1, <3>1
      <4>4. QED
        BY <3>2, <3>3, <4>1, <4>2, <4>3
    <3>5. { x \in due : x < l } = { x \in due : x <= at }
      BY <3>4
    <3>6. QED
      BY <3>1, <3>3, <3>5 DEF due
  <2>4. l \in 1 .. Len(file) /\ cursor[c].status # "none"
    BY <1>5, <1>8, <2>1
  <2> HIDE DEF l, c0
  <2>5. Deliver(c, c0, l)
    BY <1>8 DEF l, c0
  <2>6. QED
    BY <1>1, <1>2, <2>2, <2>3, <2>4, <2>5, DeliverKeeps
<1>9. CASE /\ cursor[c].status = "cs_cursor_active" /\ hits = {} /\ start <= eof + 1
           /\ cursor' = [cursor EXCEPT ![c].status = "cs_end_of_results", ![c].location = eof]
           /\ ScanFor(start, pred) /\ UNCHANGED trail
  <2> DEFINE cur == [status |-> "cs_end_of_results", pred |-> pred, location |-> eof]
  <2>1. cursor' = [cursor EXCEPT ![c] = cur]
    <3>1. cursor' = [cursor EXCEPT ![c] = [[cursor[c] EXCEPT !.status = "cs_end_of_results"]
                                             EXCEPT !.location = eof]]
      BY <1>3, <1>9
    <3>2. QED
      BY <1>3, <3>1, MovedCursor
  <2>2. cur \in CursorSort
    BY <1>1, <1>3 DEF CursorSort, CursorStatus
  <2>3. GoodCache(cache', file)
    BY <1>1, <1>4, <1>9, ScanKeeps
  <2>4. ASSUME QuietInv, c \in quiet PROVE OnTrack(cur, trail[c])
    <3> DEFINE due == Matching(file, eof, 1, pred)
               at == cursor[c].location
    <3>1. /\ InOrder(trail[c]) /\ Delivered(trail[c]) = { x \in due : x <= at }
          /\ { x \in due : x > at } = {} /\ at \in 1 .. eof
      BY <1>6, <1>9, <2>4
    <3>2. due \in SUBSET Nat
      BY <1>1, MatchingRows
    <3> HIDE DEF due, at
    <3>3. Delivered(trail[c]) = due
      <4>1. at \in Nat
        BY <3>1
      <4>2. \A x \in due : x <= at
        BY <3>1, <3>2, <4>1
      <4>3. QED
        BY <3>1, <4>2
    <3>4. QED
      BY <3>1, <3>3 DEF OnTrack, due
  <2>5. cursor'[c] = cur
    BY <1>3, <2>1
  <2>6. FInv' /\ (QuietInv => QuietInv')
    BY <1>1, <1>2, <1>9, <2>1, <2>2, <2>3, <2>4, StopKeeps
  <2>7. QED
    BY <1>9, <2>5, <2>6
<1>10. CASE /\ cursor[c].status = "cs_cursor_active" /\ start > eof + 1
            /\ cursor' = [cursor EXCEPT ![c].status = "cs_possible_data_inconsistency"]
            /\ UNCHANGED <<cache, trail>>
  <2> DEFINE cur == [status |-> "cs_possible_data_inconsistency", pred |-> pred,
                     location |-> cursor[c].location]
  <2>1. cursor' = [cursor EXCEPT ![c] = cur]
    BY <1>3, <1>10, MovedCursor
  <2>2. cur \in CursorSort
    BY <1>3 DEF CursorSort, CursorStatus
  <2>3. ~(QuietInv /\ c \in quiet)
    <3>1. ASSUME QuietInv, c \in quiet PROVE FALSE
      <4>1. cursor[c].location \in 1 .. eof
        BY <1>6, <1>10, <3>1
      <4>2. QED
        BY <1>1, <1>10, <4>1
    <3>2. QED
      BY <3>1
  <2>4. cursor'[c] = cur
    BY <1>3, <2>1
  <2>5. FInv' /\ (QuietInv => QuietInv')
    BY <1>1, <1>2, <1>10, <2>1, <2>2, <2>3, StopKeeps
  <2>6. QED
    BY <1>10, <2>4, <2>5
<1>11. QED
  BY <1>7, <1>8, <1>9, <1>10 DEF ffdict_next_on_disk, ffdict_next
-----------------------------------------------------------------------------
(***************************************************************************)
(* The instance, and the process.                                          *)
(***************************************************************************)

\* Nothing of the cursors depends on the file while none is open.
LEMMA IdleFrame ==
  ASSUME CursorsTyped, CursorsPlaced, NoCursorOpen, UNCHANGED cursorVars, Len(file') \in Nat
  PROVE  /\ CursorsTyped' /\ CursorsPlaced'
         /\ (QuietInv => QuietInv')
<1>1. /\ cursor' = cursor /\ trail' = trail /\ quiet' = quiet /\ quiet \subseteq Cursors
      /\ cursor \in [Cursors -> CursorSort] /\ trail \in [Cursors -> Seq(DeliverySort)]
  BY DEF cursorVars, CursorsTyped, CursorSort, DeliverySort
<1>2. \A c \in Cursors : /\ cursor[c].status = "none" /\ cursor[c].location = 0
                         /\ trail[c] = << >>
  BY DEF NoCursorOpen, CursorsPlaced
<1>3. CursorsTyped'
  <2>1. ASSUME NEW c \in Cursors PROVE cursor[c] \in CursorSort'
    <3>1. cursor[c] \in CursorSort /\ cursor[c].location = 0 /\ 0 \in 0 .. Len(file')
      BY <1>1, <1>2
    <3>2. QED
      BY <3>1 DEF CursorSort
  <2>2. ASSUME NEW c \in Cursors PROVE trail[c] \in Seq(DeliverySort')
    <3>1. << >> \in Seq(DeliverySort')
      OBVIOUS
    <3>2. trail[c] = << >>
      BY <1>2
    <3>3. QED
      BY <3>1, <3>2
  <2>3. cursor' \in [Cursors -> CursorSort'] /\ trail' \in [Cursors -> Seq(DeliverySort')]
    BY <1>1, <2>1, <2>2
  <2>4. QED
    BY <1>1, <2>3 DEF CursorsTyped, CursorSort, DeliverySort
<1>4. CursorsPlaced'
  BY <1>1, <1>2 DEF CursorsPlaced, NoCursorOpen
<1>5. ASSUME QuietInv PROVE QuietInv'
  <2>1. ASSUME NEW c \in quiet PROVE FALSE
    BY <1>1, <1>2, <1>5, <2>1 DEF QuietInv, OnTrack
  <2>2. QED
    BY <1>1, <2>1 DEF QuietInv
<1>6. QED
  BY <1>3, <1>4, <1>5

LEMMA EmptyFile ==
  << >> \in Seq(Row) /\ Packed(<< >>, 0) /\ \E n : Packed(<< >>, n)
<1>1. Len(<< >>) = 0 /\ << >> \in Seq(Row)
  OBVIOUS
<1>2. Packed(<< >>, 0)
  BY <1>1 DEF Packed
<1>3. QED
  BY <1>1, <1>2

LEMMA CloseKeeps ==
  ASSUME FInv, ffdict_close_dictionary
  PROVE  FInv' /\ (QuietInv => QuietInv')
<1>1. /\ FileInv /\ CursorsTyped /\ CursorsPlaced /\ ResultTyped /\ file \in Seq(Row)
      /\ Len(file) \in Nat /\ Packed(file, eof) /\ GoodCache(cache, file)
  BY InvFacts
<1>2. /\ NoCursorOpen /\ open' = FALSE /\ UNCHANGED <<file, eof, cache, result>> /\ disk' = file
      /\ UNCHANGED cursorVars
  BY DEF ffdict_close_dictionary, flat_file_close, fileVars
<1>3. FileInv'
  BY <1>1, <1>2 DEF FileInv
<1>4. ResultTyped'
  BY <1>1, <1>2 DEF ResultTyped
<1>5. CursorsTyped' /\ CursorsPlaced' /\ (QuietInv => QuietInv')
  BY <1>1, <1>2, IdleFrame
<1>6. QED
  BY <1>3, <1>4, <1>5 DEF FInv

\* The file was packed when it was closed, or when the process stopped: an
\* open finds the end that it had.
LEMMA CreateKeeps ==
  ASSUME FInv, ffdict_create_dictionary
  PROVE  FInv' /\ (QuietInv => QuietInv') /\ eof' = eof /\ file' = file
<1>1. /\ FileInv /\ CursorsTyped /\ CursorsPlaced /\ ResultTyped /\ file \in Seq(Row)
      /\ Len(file) \in Nat /\ Packed(file, eof) /\ disk \in Seq(Row) /\ \E n : Packed(disk, n)
  BY InvFacts
<1>2. /\ ~open /\ open' = TRUE /\ eof' = LastOccupied(file) /\ cache' = AfterBackwardScan
      /\ UNCHANGED <<file, result, disk>> /\ UNCHANGED cursorVars
  BY DEF ffdict_create_dictionary, flat_file_initialize
<1>3. NoCursorOpen
  BY <1>1, <1>2 DEF CursorsPlaced
<1>4. eof' = eof
  BY <1>1, <1>2, LastOccupiedIs
<1>5. GoodCache(cache', file')
  BY <1>1, <1>2, BackwardScanGood
<1>6. FileInv'
  BY <1>1, <1>2, <1>4, <1>5 DEF FileInv
<1>7. ResultTyped'
  BY <1>1, <1>2 DEF ResultTyped
<1>8. CursorsTyped' /\ CursorsPlaced' /\ (QuietInv => QuietInv')
  BY <1>1, <1>2, <1>3, IdleFrame
<1>9. QED
  BY <1>2, <1>4, <1>6, <1>7, <1>8 DEF FInv

LEMMA RemoveKeeps ==
  ASSUME FInv, ffdict_delete_dictionary \/ ffdict_remove_by_id
  PROVE  FInv' /\ (QuietInv => QuietInv') /\ open' = FALSE
<1>1. CursorsTyped /\ CursorsPlaced /\ ResultTyped /\ open \in BOOLEAN
  BY InvFacts
<1>2. /\ NoCursorOpen /\ open' = FALSE /\ UNCHANGED result /\ UNCHANGED cursorVars
      /\ file' = << >> /\ eof' = 0 /\ cache' = NoRegion /\ disk' = << >>
  BY <1>1 DEF ffdict_delete_dictionary, flat_file_destroy, ffdict_remove_by_id,
              ffdict_destroy_dictionary, RemoveFile, CursorsPlaced
<1>3. file' \in Seq(Row) /\ GoodCache(cache', file') /\ Len(file') \in Nat
  BY <1>2, EmptyFile, NoRegionGood
<1>4. FileInv'
  BY <1>2, <1>3, EmptyFile DEF FileInv
<1>5. ResultTyped'
  BY <1>1, <1>2 DEF ResultTyped
<1>6. CursorsTyped' /\ CursorsPlaced' /\ (QuietInv => QuietInv')
  BY <1>1, <1>2, <1>3, IdleFrame
<1>7. QED
  BY <1>2, <1>4, <1>5, <1>6 DEF FInv

\* Whatever write of whatever call the process stops behind, the occupied
\* rows of the file that it leaves are its first ones.
LEMMA ImagesPacked ==
  ASSUME FInv, NEW f \in {disk} \cup UNION { WriteImages(k) : k \in Keys }
  PROVE  f \in Seq(Row) /\ \E n : Packed(f, n)
<1>1. /\ file \in Seq(Row) /\ Packed(file, eof) /\ disk \in Seq(Row) /\ \E n : Packed(disk, n)
  BY InvFacts
<1>2. ASSUME NEW k \in Keys, NEW v \in Values, NEW g \in InsertImages(k, v)
      PROVE  g \in Seq(Row) /\ \E n : Packed(g, n)
  BY <1>1, <1>2, AppendPacked DEF InsertImages
<1>3. ASSUME NEW k \in Keys, NEW v \in Values, NEW g \in UpdateImages(k, v)
      PROVE  g \in Seq(Row) /\ \E n : Packed(g, n)
  <2>1. CASE Matching(file, eof, 1, Equality(k)) = {}
    BY <1>2, <1>3, <2>1 DEF UpdateImages
  <2>2. CASE Matching(file, eof, 1, Equality(k)) # {}
    <3>1. PICK l \in 0 .. eof : g = UpdatedTo(k, v, l)
      BY <1>3, <2>2 DEF UpdateImages
    <3>2. QED
      BY <1>1, <3>1, UpdatedToPacked
  <2>3. QED
    BY <2>1, <2>2
<1>4. CASE f = disk
  BY <1>1, <1>4
<1>5. CASE f # disk
  <2>1. PICK k \in Keys : f \in WriteImages(k)
    BY <1>5
  <2>2. \/ f \in DeleteImages(k)
        \/ \E v \in Values : f \in InsertImages(k, v) \/ f \in UpdateImages(k, v)
    BY <2>1 DEF WriteImages
  <2>3. QED
    BY <1>1, <1>2, <1>3, <2>2, DeleteImagesPacked
<1>6. QED
  BY <1>4, <1>5

LEMMA CrashKeeps ==
  ASSUME FInv, Crash
  PROVE  FInv' /\ QuietInv' /\ open' = FALSE
<1>1. PICK f \in {disk} \cup UNION { WriteImages(k) : k \in Keys } :
        file' = f /\ disk' = f /\ eof' = LastOccupied(f)
  BY DEF Crash
<1>2. /\ open' = FALSE /\ cache' = NoRegion /\ cursor' = [c \in Cursors |-> NoCursor]
      /\ trail' = [c \in Cursors |-> << >>] /\ quiet' = {} /\ UNCHANGED result
  BY DEF Crash
<1>3. f \in Seq(Row) /\ \E n : Packed(f, n)
  BY ImagesPacked
<1>4. Packed(file', eof')
  BY <1>1, <1>3, LastOccupiedIs
<1>5. FileInv'
  BY <1>1, <1>2, <1>3, <1>4, NoRegionGood DEF FileInv
<1>6. ResultTyped'
  BY <1>2, InvFacts DEF ResultTyped
<1>7. CursorsTyped'
  <2>1. NoCursor \in CursorSort' /\ << >> \in Seq(DeliverySort')
    <3>1. 0 \in 0 .. Len(file')
      BY <1>1, <1>3
    <3>2. QED
      BY <3>1 DEF CursorSort, NoCursor, AllRecords, Predicate
  <2>2. cursor' \in [Cursors -> CursorSort'] /\ trail' \in [Cursors -> Seq(DeliverySort')]
    BY <1>2, <2>1
  <2>3. QED
    BY <1>2, <2>2 DEF CursorsTyped, CursorSort, DeliverySort
<1>8. CursorsPlaced' /\ QuietInv'
  BY <1>2 DEF CursorsPlaced, NoCursorOpen, NoCursor, QuietInv
<1>9. QED
  BY <1>2, <1>5, <1>6, <1>7, <1>8 DEF FInv

-----------------------------------------------------------------------------
(***************************************************************************)
(* Every step.                                                             *)
(***************************************************************************)

\* A step that moves the rows, or leaves file, cursors and deliveries alone.
LEMMA QuietFrame ==
  ASSUME QuietInv, UNCHANGED <<cursor, trail>>,
         quiet' = {} \/ (quiet' = quiet /\ file' = file /\ eof' = eof)
  PROVE  QuietInv'
<1>1. CASE quiet' = {}
  BY <1>1 DEF QuietInv
<1>2. CASE quiet' = quiet /\ file' = file /\ eof' = eof
  BY <1>2 DEF QuietInv, OnTrack
<1>3. QED
  BY <1>1, <1>2

Write(k) ==
  ffdict_delete(k) \/ \E v \in Values : ffdict_insert(k, v) \/ ffdict_update(k, v)

LEMMA CallKeeps ==
  ASSUME FInv, NEW k \in Keys, Write(k) \/ ffdict_get(k)
  PROVE  /\ FInv' /\ (QuietInv => QuietInv')
         /\ (FirstFresh(cache, file) => FirstFresh(cache', file'))
         /\ UNCHANGED <<open, cursor, trail>>
<1>1. FInv' /\ (FirstFresh(cache, file) => FirstFresh(cache', file'))
  <2>1. ASSUME NEW v \in Values, ffdict_insert(k, v)
        PROVE  FInv' /\ FirstFresh(cache', file')
    BY <2>1, AppendRowKeeps DEF ffdict_insert, flat_file_insert
  <2>2. QED
    BY <2>1, UpdateKeeps, DeleteKeeps, GetKeeps DEF Write
<1>2. /\ UNCHANGED <<open, cursor, trail>>
      /\ quiet' = {} \/ (quiet' = quiet /\ file' = file /\ eof' = eof)
  <2>1. CASE Write(k)
    <3>1. NoteWrite
      BY <2>1 DEF Write, ffdict_insert, ffdict_update, ffdict_delete,
                  flat_file_insert, flat_file_update, flat_file_delete
    <3>2. QED
      BY <3>1 DEF NoteWrite
  <2>2. CASE ffdict_get(k)
    BY <2>2 DEF ffdict_get, flat_file_get, cursorVars
  <2>3. QED
    BY <2>1, <2>2
<1>3. QED
  BY <1>1, <1>2, QuietFrame

LEMMA StepKeeps ==
  ASSUME FInv, [CrashNext]_allVars
  PROVE  FInv' /\ (QuietInv => QuietInv')
<1>1. ASSUME NEW k \in Keys, Write(k) \/ ffdict_get(k) PROVE FInv' /\ (QuietInv => QuietInv')
  BY <1>1, CallKeeps
<1>2. CASE UNCHANGED allVars
  BY <1>2 DEF FInv, FileInv, ResultTyped, CursorsTyped, CursorsPlaced, NoCursorOpen,
              QuietInv, OnTrack, allVars, vars, fileVars, cursorVars
<1>3. QED
  BY <1>1, <1>2, FindKeeps, NextKeeps, DestroyCursorKeeps, CloseKeeps, CreateKeeps,
     RemoveKeeps, CrashKeeps
     DEF CrashNext, Write
THEOREM Invariance == CrashSpec => [](FInv /\ QuietInv)
<1>1. CrashInit => FInv /\ QuietInv
  BY Start
<1>2. FInv /\ QuietInv /\ [CrashNext]_allVars => (FInv /\ QuietInv)'
  BY StepKeeps
<1>3. QED
  BY <1>1, <1>2, PTL DEF CrashSpec

\* Every variable keeps its type, and the buffer its size.
THEOREM TypeCorrect == CrashSpec => []TypeOK
<1>1. FInv => TypeOK
  <2> SUFFICES ASSUME FInv PROVE TypeOK
    OBVIOUS
  <2>1. /\ FileInv /\ CursorsTyped /\ ResultTyped /\ eof \in 0 .. Len(file)
        /\ GoodCache(cache, file)
    BY InvFacts
  <2>2. QED
    BY <2>1 DEF TypeOK, FileInv, CursorsTyped, ResultTyped, GoodCache
<1>2. QED
  BY <1>1, Invariance, PTL

\* The occupied rows are the ones before eof: after every call, and after a
\* stop of the process behind any write of any call and the open after it.
THEOREM RowsStayPacked == CrashSpec => []RowsPacked
<1>1. FInv => RowsPacked
  <2> SUFFICES ASSUME FInv PROVE RowsPacked
    OBVIOUS
  <2>1. file \in Seq(Row) /\ Packed(file, eof)
    BY InvFacts
  <2>2. QED
    BY <2>1 DEF RowsPacked, Packed
<1>2. QED
  BY <1>1, Invariance, PTL

\* No write leaves an old row in the buffer, but for its first place.
THEOREM BufferStaysFresh == CrashSpec => []BufferFresh
<1>1. FInv => BufferFresh
  <2> SUFFICES ASSUME FInv PROVE BufferFresh
    OBVIOUS
  <2>1. GoodCache(cache, file)
    BY InvFacts
  <2>2. QED
    BY <2>1 DEF BufferFresh, GoodCache
<1>2. QED
  BY <1>1, Invariance, PTL

\* An open finds the rows that were there when the instance was closed or the
\* process stopped, and the end of them that the instance had.
THEOREM OpensRestore == CrashSpec => OpenRestores
<1>1. FInv /\ [CrashNext]_allVars => [open' /\ ~open => eof' = eof /\ file' = file]_vars
  <2> SUFFICES ASSUME FInv, [CrashNext]_allVars, open', ~open
               PROVE  eof' = eof /\ file' = file
    OBVIOUS
  <2>1. ASSUME NEW k \in Keys, Write(k) \/ ffdict_get(k) PROVE FALSE
    BY <2>1, CallKeeps
  <2>2. ASSUME NEW c \in Cursors, \/ ffdict_next_on_disk(c) \/ ffdict_destroy_cursor_on_disk(c)
                                  \/ \E pred \in Predicates : ffdict_find_on_disk(c, pred)
        PROVE  FALSE
    BY <2>2 DEF ffdict_next_on_disk, ffdict_next, ffdict_destroy_cursor_on_disk,
                ffdict_destroy_cursor, ffdict_find_on_disk, ffdict_find
  <2>3. ~ffdict_close_dictionary /\ ~UNCHANGED allVars
    BY DEF ffdict_close_dictionary, flat_file_close, allVars, vars
  <2>4. ~ffdict_delete_dictionary /\ ~ffdict_remove_by_id /\ ~Crash
    BY RemoveKeeps, CrashKeeps
  <2>5. ffdict_create_dictionary
    BY <2>1, <2>2, <2>3, <2>4 DEF CrashNext, Write
  <2>6. QED
    BY <2>5, CreateKeeps
<1>2. QED
  BY <1>1, Invariance, PTL DEF CrashSpec, OpenRestores

-----------------------------------------------------------------------------
(***************************************************************************)
(* Traversals.                                                             *)
(***************************************************************************)

\* A traversal of an unchanged file delivers every row that satisfies the
\* predicate, once, in the order of the file, for any number of cursors.
THEOREM TraversalsExact == CrashSpec => []TraversalExact
<1>1. FInv /\ QuietInv => TraversalExact
  <2> SUFFICES ASSUME FInv, QuietInv, NEW c \in quiet
               PROVE  /\ cursor[c].status = "cs_end_of_results" =>
                           /\ { trail[c][i].location : i \in DOMAIN trail[c] } =
                                { l \in 1 .. eof : row_matches(cursor[c].pred, file[l]) }
                           /\ \A i, j \in DOMAIN trail[c] :
                                i < j => trail[c][i].location < trail[c][j].location
                      /\ cursor[c].status # "cs_possible_data_inconsistency"
    BY DEF TraversalExact
  <2>1. OnTrack(cursor[c], trail[c])
    BY DEF QuietInv
  <2>2. QED
    BY <2>1 DEF OnTrack, Matching, Delivered, InOrder
<1>2. QED
  BY <1>1, Invariance, PTL

\* What a step of the cursor delivers, the row of the file at last.location or not.
LastRight(c) ==
  Len(trail'[c]) > Len(trail[c]) => LET last == Last(trail'[c]) IN last.row = file[last.location]

\* Only a next delivers.
LEMMA OnlyNextDelivers ==
  ASSUME FInv, [CrashNext]_allVars, NEW c \in Cursors, Len(trail'[c]) > Len(trail[c])
  PROVE  ffdict_next_on_disk(c)
<1>1. trail \in [Cursors -> Seq(DeliverySort)] /\ trail[c] \in Seq(DeliverySort) /\ Len(trail[c]) \in Nat
  <2>1. trail \in [Cursors -> Seq(DeliverySort)]
    BY InvFacts DEF CursorsTyped, DeliverySort
  <2>2. trail[c] \in Seq(DeliverySort)
    BY <2>1
  <2>3. QED
    BY <2>1, <2>2
<1>2. ~UNCHANGED trail /\ trail'[c] # << >>
  BY <1>1
<1>3. ASSUME NEW k \in Keys, Write(k) \/ ffdict_get(k) PROVE FALSE
  BY <1>2, <1>3, CallKeeps
<1>4. ASSUME NEW d \in Cursors, \/ ffdict_destroy_cursor_on_disk(d)
                                \/ \E pred \in Predicates : ffdict_find_on_disk(d, pred)
      PROVE  FALSE
  <2>1. trail' = [trail EXCEPT ![d] = << >>]
    BY <1>4 DEF ffdict_destroy_cursor_on_disk, ffdict_destroy_cursor,
                ffdict_find_on_disk, ffdict_find
  <2>2. trail'[c] = << >> \/ trail'[c] = trail[c]
    BY <1>1, <2>1
  <2>3. QED
    BY <1>1, <1>2, <2>2
<1>5. ASSUME NEW d \in Cursors, ffdict_next_on_disk(d) PROVE d = c
  BY <1>1, <1>5, NextKeeps
<1>6. ~(\/ ffdict_close_dictionary \/ ffdict_create_dictionary \/ ffdict_delete_dictionary
        \/ ffdict_remove_by_id \/ UNCHANGED allVars)
  BY <1>2 DEF ffdict_close_dictionary, flat_file_close, ffdict_create_dictionary,
              flat_file_initialize, ffdict_delete_dictionary, flat_file_destroy,
              ffdict_remove_by_id, ffdict_destroy_dictionary, allVars, vars, cursorVars
<1>7. ~Crash
  BY <1>2 DEF Crash
<1>8. QED
  BY <1>3, <1>4, <1>5, <1>6, <1>7 DEF CrashNext, Write

\* The row that a read with a fresh buffer appends.
LEMMA DeliversRight ==
  ASSUME FInv, NEW c \in Cursors, NEW c0, GoodCache(c0, file), FirstFresh(c0, file),
         NEW l \in 1 .. Len(file), Deliver(c, c0, l)
  PROVE  LastRight(c)
<1> DEFINE d == [location |-> l, row |-> ReadRow(c0, l)]
<1>1. file \in Seq(Row) /\ trail \in [Cursors -> Seq(DeliverySort)]
  BY InvFacts DEF CursorsTyped, DeliverySort
<1>2. ReadRow(c0, l) = file[l]
  BY <1>1, ReadRowGood
<1>3. trail[c] \in Seq(DeliverySort) /\ trail'[c] = Append(trail[c], d)
  BY <1>1 DEF Deliver
<1>4. Last(trail'[c]) = d
  <2> HIDE DEF d
  <2>1. \A seq \in Seq(DeliverySort) : Last(Append(seq, d)) = d
    BY DEF Last
  <2>2. QED
    BY <1>3, <2>1
<1>5. d.row = file[d.location]
  BY <1>2
<1>6. QED
  BY <1>4, <1>5 DEF LastRight

\* A next that scans reads the file; the first next after a find reads the
\* buffer, and is right if no read_row has come between.
LEMMA NextDelivers ==
  ASSUME FInv, NEW c \in Cursors, ffdict_next_on_disk(c),
         cursor[c].status = "cs_cursor_active" \/ FirstFresh(cache, file)
  PROVE  LastRight(c)
<1> DEFINE start == cursor[c].location + 1
           hits == Matching(file, eof, start, cursor[c].pred)
<1>1. /\ CursorsTyped /\ CursorsPlaced /\ file \in Seq(Row) /\ eof \in 0 .. Len(file)
      /\ Len(file) \in Nat /\ GoodCache(cache, file)
  BY InvFacts
<1>2. cursor[c].location \in 0 .. Len(file) /\ start \in Nat \ {0}
  BY <1>1 DEF CursorsTyped
<1>3. hits \in SUBSET (start .. eof) /\ hits \in SUBSET Nat /\ hits \in SUBSET (1 .. Len(file))
  BY <1>1, <1>2, MatchingRows
<1>4. CASE cursor[c].status = "cs_cursor_initialized" /\ Deliver(c, cache, cursor[c].location)
  <2>1. cursor[c].location \in 1 .. Len(file)
    BY <1>1, <1>2, <1>4 DEF CursorsPlaced
  <2>2. QED
    BY <1>1, <1>4, <2>1, DeliversRight
<1>5. CASE hits # {} /\ Deliver(c, AfterScan(cache, file, eof, start, hits), Min(hits))
  <2>1. Min(hits) \in 1 .. Len(file)
    BY <1>3, <1>5, MinIn
  <2>2. LET c0 == AfterScan(cache, file, eof, start, hits) IN
        GoodCache(c0, file) /\ FirstFresh(c0, file)
    BY <1>1, <1>2, <1>3, <1>5, ScannedGood
  <2> HIDE DEF hits, start
  <2>3. QED
    BY <1>5, <2>1, <2>2, DeliversRight
<1>6. CASE UNCHANGED trail
  <2>1. trail[c] \in Seq(DeliverySort)
    BY <1>1 DEF CursorsTyped, DeliverySort
  <2>2. Len(trail[c]) \in Nat
    BY <2>1
  <2>3. QED
    BY <1>6, <2>2 DEF LastRight
<1>7. QED
  BY <1>4, <1>5, <1>6 DEF ffdict_next_on_disk, ffdict_next

\* Every row but the first of a traversal is the row of the file that the
\* cursor stands on, however many cursors there are.
THEOREM LaterRowsOfFile ==
  CrashSpec => [][\A c \in Cursors : cursor[c].status = "cs_cursor_active" => LastRight(c)]_vars
<1>1. FInv /\ [CrashNext]_allVars =>
        [\A c \in Cursors : cursor[c].status = "cs_cursor_active" => LastRight(c)]_vars
  BY OnlyNextDelivers, NextDelivers DEF LastRight
<1>2. QED
  BY <1>1, Invariance, PTL DEF CrashSpec

\* A cursor that waits for its first row, with no first row of another taken
\* since its find, finds the whole region fresh.
AloneFresh ==
  (\E c \in alone : cursor[c].status = "cs_cursor_initialized") => FirstFresh(cache, file)

SharedInv == alone \subseteq Cursors /\ AloneFresh

\* The waiting cursors that a step leaves alone were waiting and alone before.
LEMMA AloneFrame ==
  ASSUME AloneFresh, NoteFirstRows, UNCHANGED cursor, NoCursorOpen \/ NoCursorOpen' \/
         (FirstFresh(cache, file) => FirstFresh(cache', file'))
  PROVE  AloneFresh'
  BY DEF AloneFresh, NoteFirstRows, NoCursorOpen

\* The first row of a cursor is taken with the buffer as the others left it,
\* and takes the buffer away from all others.
LEMMA NextKeepsAlone ==
  ASSUME FInv, AloneFresh, NEW c \in Cursors, ffdict_next_on_disk(c), NoteFirstRows
  PROVE  AloneFresh'
<1> SUFFICES ASSUME NEW d \in alone', cursor'[d].status = "cs_cursor_initialized"
             PROVE  FirstFresh(cache', file')
  BY DEF AloneFresh
<1>1. d \in Cursors /\ d # c /\ (cursor[d].status = "none" \/ d \in alone)
  BY NextKeeps DEF NoteFirstRows
<1>2. cursor \in [Cursors -> CursorSort]
  BY InvFacts DEF CursorsTyped, CursorSort
<1>3. cursor'[d] = cursor[d] /\ (cursor'[c].status = "cs_cursor_active" => cursor[c].status # "cs_cursor_initialized")
  BY <1>1, <1>2 DEF NoteFirstRows, TakesFirstRow, ffdict_next_on_disk, ffdict_next, Deliver
<1>4. d \in alone /\ FirstFresh(cache, file)
  BY <1>1, <1>3 DEF AloneFresh
<1>5. cursor[c].status = "cs_cursor_active" /\ file' = file
  BY <1>2, <1>3 DEF ffdict_next_on_disk, ffdict_next, Deliver, CursorSort
<1> DEFINE start == cursor[c].location + 1
           hits == Matching(file, eof, start, cursor[c].pred)
<1>6. /\ FileInv /\ file \in Seq(Row) /\ eof \in 0 .. Len(file) /\ Len(file) \in Nat
      /\ GoodCache(cache, file)
  BY InvFacts
<1>7. cursor[c].location \in 0 .. Len(file) /\ start \in Nat \ {0}
  BY <1>2, <1>6 DEF CursorSort
<1>8. CASE hits # {} /\ Deliver(c, AfterScan(cache, file, eof, start, hits), Min(hits))
  <2> DEFINE c0 == AfterScan(cache, file, eof, start, hits)
  <2>1. hits \in SUBSET (start .. eof) /\ hits \in SUBSET Nat /\ hits \in SUBSET (1 .. Len(file))
    BY <1>6, <1>7, MatchingRows
  <2>2. GoodCache(c0, file) /\ FirstFresh(c0, file) /\ CacheHit(c0, Min(hits))
    BY <1>6, <1>7, <1>8, <2>1, ScannedGood, AfterScanGood
  <2> HIDE DEF hits, start, c0
  <2>3. cache' = c0
    BY <1>8, <2>2 DEF c0, Deliver, AfterRead
  <2>4. QED
    BY <1>5, <2>2, <2>3
<1>9. CASE ScanFor(start, cursor[c].pred)
  BY <1>4, <1>5, <1>6, <1>7, <1>9, ScanKeeps
<1>10. CASE UNCHANGED cache
  BY <1>4, <1>5, <1>10
<1>11. QED
  BY <1>5, <1>8, <1>9, <1>10 DEF ffdict_next_on_disk, ffdict_next

\* A find that stops at a row has filled the buffer from the file.
LEMMA FindKeepsAlone ==
  ASSUME FInv, AloneFresh, NEW c \in Cursors, NEW pred \in Predicates,
         ffdict_find_on_disk(c, pred), NoteFirstRows
  PROVE  AloneFresh'
<1> DEFINE hits == Matching(file, eof, 1, pred)
<1> SUFFICES ASSUME NEW d \in alone', cursor'[d].status = "cs_cursor_initialized"
             PROVE  FirstFresh(cache', file')
  BY DEF AloneFresh
<1>1. /\ FileInv /\ eof \in 0 .. Len(file) /\ Len(file) \in Nat
      /\ cursor \in [Cursors -> CursorSort]
  BY InvFacts DEF CursorsTyped, CursorSort
<1>2. d \in Cursors /\ (cursor[d].status = "none" \/ d \in alone)
  BY DEF NoteFirstRows
<1>3. ScanFor(1, pred) /\ file' = file
  BY DEF ffdict_find_on_disk, ffdict_find
<1>4. CASE d = c
  <2>1. hits # {}
    BY <1>1, <1>4 DEF ffdict_find_on_disk, ffdict_find
  <2>2. 1 <= eof
    BY <1>1, <2>1 DEF Matching
  <2>3. QED
    BY <1>1, <1>3, <2>2, ScanKeeps
<1>5. CASE d # c
  <2>1. cursor'[d] = cursor[d]
    BY <1>1, <1>2, <1>5 DEF ffdict_find_on_disk, ffdict_find
  <2>2. FirstFresh(cache, file)
    BY <1>2, <2>1 DEF AloneFresh
  <2>3. QED
    BY <1>1, <1>3, <2>2, ScanKeeps
<1>6. QED
  BY <1>4, <1>5

LEMMA SharedStep ==
  ASSUME FInv, SharedInv, [CrashNext /\ NoteFirstRows]_sharedVars
  PROVE  SharedInv'
<1>1. AloneFresh
  BY DEF SharedInv
<1>2. CASE UNCHANGED sharedVars
  BY <1>2 DEF SharedInv, AloneFresh, sharedVars, allVars, vars, fileVars, cursorVars
<1>3. CASE CrashNext /\ NoteFirstRows
  <2>1. alone' \subseteq Cursors
    BY <1>3 DEF NoteFirstRows
  <2>2. ASSUME NEW k \in Keys, Write(k) \/ ffdict_get(k) PROVE AloneFresh'
    BY <1>1, <1>3, <2>2, CallKeeps, AloneFrame
  <2>3. ASSUME NEW c \in Cursors, ffdict_next_on_disk(c) PROVE AloneFresh'
    BY <1>1, <1>3, <2>3, NextKeepsAlone
  <2>4. ASSUME NEW c \in Cursors, NEW pred \in Predicates, ffdict_find_on_disk(c, pred)
        PROVE  AloneFresh'
    BY <1>1, <1>3, <2>4, FindKeepsAlone
  <2>5. ASSUME NEW c \in Cursors, ffdict_destroy_cursor_on_disk(c) PROVE AloneFresh'
    <3>1. cursor \in [Cursors -> CursorSort]
      BY InvFacts DEF CursorsTyped, CursorSort
    <3>2. \A d \in Cursors : cursor'[d] = cursor[d] \/ cursor'[d].status = "none"
      BY <2>5, <3>1 DEF ffdict_destroy_cursor_on_disk, ffdict_destroy_cursor, NoCursor
    <3>3. cache' = cache /\ file' = file
      BY <2>5 DEF ffdict_destroy_cursor_on_disk, ffdict_destroy_cursor, fileVars
    <3>4. QED
      BY <1>1, <1>3, <3>2, <3>3 DEF AloneFresh, NoteFirstRows
  <2>6. ASSUME \A c \in Cursors : cursor'[c].status = "none" PROVE AloneFresh'
    BY <2>1, <2>6 DEF AloneFresh
  <2>7. ASSUME \/ ffdict_close_dictionary \/ ffdict_create_dictionary
               \/ ffdict_delete_dictionary \/ ffdict_remove_by_id
        PROVE  AloneFresh'
    <3>1. CursorsPlaced
      BY InvFacts
    <3>2. NoCursorOpen /\ cursor' = cursor
      BY <2>7, <3>1 DEF ffdict_close_dictionary, flat_file_close, ffdict_create_dictionary,
         flat_file_initialize, ffdict_delete_dictionary, flat_file_destroy,
         ffdict_remove_by_id, ffdict_destroy_dictionary, cursorVars, CursorsPlaced
    <3>3. QED
      BY <2>6, <3>2 DEF NoCursorOpen
  <2>8. ASSUME Crash PROVE AloneFresh'
    BY <2>6, <2>8 DEF Crash, NoCursor
  <2>9. QED
    BY <1>3, <2>1, <2>2, <2>3, <2>4, <2>5, <2>7, <2>8 DEF CrashNext, Write, SharedInv
<1>4. QED
  BY <1>2, <1>3

\* Every row a cursor delivers is the row of the file it stands on, for any
\* number of cursors on the buffer and whatever is written in between, but
\* for the first row of a cursor when another took its first row since the
\* find.
THEOREM RowsOfFile == SharedSpec => DeliversRowUnlessShared
<1> DEFINE N == CrashNext /\ NoteFirstRows
           RightRows ==
             \A c \in Cursors :
               Delivers(c) /\ (cursor[c].status = "cs_cursor_active" \/ c \in alone) => RowOfFile(c)
<1>1. CrashInit /\ alone = {} => SharedInv
  BY DEF SharedInv, AloneFresh
<1>2. FInv /\ SharedInv /\ [N]_sharedVars => SharedInv'
  BY SharedStep
<1>3. [N]_sharedVars => [CrashNext]_allVars
  BY DEF sharedVars
<1>4. FInv /\ SharedInv /\ [N]_sharedVars => RightRows
  <2> SUFFICES ASSUME FInv, SharedInv, [CrashNext]_allVars, NEW c \in Cursors, Delivers(c),
                      cursor[c].status = "cs_cursor_active" \/ c \in alone
               PROVE  RowOfFile(c)
    BY <1>3
  <2>1. ffdict_next_on_disk(c)
    BY OnlyNextDelivers DEF Delivers
  <2>2. cursor[c].status \in {"cs_cursor_active", "cs_cursor_initialized"}
    BY <2>1 DEF ffdict_next_on_disk, ffdict_next
  <2>3. LastRight(c)
    BY <2>1, <2>2, NextDelivers DEF SharedInv, AloneFresh
  <2>4. QED
    BY <2>3 DEF LastRight, Delivers, RowOfFile
<1>5. SharedSpec => CrashSpec
  <2>1. SharedSpec => CrashInit /\ [][N]_sharedVars
    BY DEF SharedSpec, SharedInit, SharedNext
  <2>2. QED
    BY <1>3, <2>1, PTL DEF CrashSpec
<1>6. FInv /\ SharedInv /\ [N]_sharedVars => [RightRows]_sharedVars
  BY <1>4
<1> HIDE DEF N, RightRows
<1>7. SharedSpec => CrashInit /\ alone = {} /\ [][N]_sharedVars
  BY DEF SharedSpec, SharedInit, SharedNext, N
<1>8. SharedSpec => [][RightRows]_sharedVars
  BY <1>1, <1>2, <1>5, <1>6, <1>7, Invariance, PTL
<1>9. QED
  BY <1>8 DEF DeliversRowUnlessShared, RightRows

-----------------------------------------------------------------------------
(***************************************************************************)
(* The bags.  A record is a row before the end, and the bag of a key       *)
(* counts the rows of the key with each value.                             *)
(***************************************************************************)
KeyRows(f, e, k) == { l \in 1 .. e : f[l].key = k }
Rows(f, e, k, v) == { l \in 1 .. e : f[l].key = k /\ f[l].value = v }
Held(f, e, k) == Cardinality(KeyRows(f, e, k))
Num(f, e, k, v) == Cardinality(Rows(f, e, k, v))

LEMMA RowsFinite ==
  ASSUME NEW f, NEW e \in Nat, NEW k, NEW v
  PROVE  /\ IsFiniteSet(KeyRows(f, e, k)) /\ Held(f, e, k) \in Nat
         /\ IsFiniteSet(Rows(f, e, k, v)) /\ Num(f, e, k, v) \in Nat
<1>1. IsFiniteSet(1 .. e)
  BY FS_Interval
<1>2. KeyRows(f, e, k) \subseteq 1 .. e /\ Rows(f, e, k, v) \subseteq 1 .. e
  BY DEF KeyRows, Rows
<1>3. QED
  BY <1>1, <1>2, FS_Subset, FS_CardinalityType DEF Held, Num

LEMMA AddOne ==
  ASSUME NEW S, IsFiniteSet(S), NEW x, x \notin S
  PROVE  Cardinality(S \cup {x}) = Cardinality(S) + 1
  BY FS_AddElement

\* Rows R up to e are of some kind.  The rows that are once row e has been
\* copied over row l, and those of them that are left when row e is cut off.
CopiedOver(R, e, l) == { i \in 1 .. e : IF i = l THEN e \in R ELSE i \in R }
CutOff(R, e, l) == CopiedOver(R, e, l) \ {e}

LEMMA ShiftedRows ==
  ASSUME NEW e \in Nat \ {0}, NEW R \in SUBSET (1 .. e), NEW l \in 1 .. e
  PROVE  /\ CopiedOver(R, e, l) = IF e \in R THEN CutOff(R, e, l) \cup {e} ELSE CutOff(R, e, l)
         /\ e \in R => CutOff(R, e, l) \cup {e} = R \cup {l}
         /\ e \notin R => CutOff(R, e, l) = R \ {l}
  BY DEF CopiedOver, CutOff

\* The copy and the cut remove row l from the count.
LEMMA Shifted ==
  ASSUME NEW e \in Nat \ {0}, NEW R \in SUBSET (1 .. e), NEW l \in 1 .. e
  PROVE  /\ Cardinality(CutOff(R, e, l)) = IF l \in R THEN Cardinality(R) - 1 ELSE Cardinality(R)
         /\ Cardinality(CopiedOver(R, e, l)) = IF e \in R THEN Cardinality(CutOff(R, e, l)) + 1
                                               ELSE Cardinality(CutOff(R, e, l))
<1> DEFINE M == CopiedOver(R, e, l)
           T == CutOff(R, e, l)
<1>1. /\ M = IF e \in R THEN T \cup {e} ELSE T
      /\ e \in R => T \cup {e} = R \cup {l}
      /\ e \notin R => T = R \ {l}
  BY ShiftedRows
<1>2. T \subseteq 1 .. e /\ e \notin T
  BY DEF CutOff, CopiedOver
<1> HIDE DEF M, T
<1>3. IsFiniteSet(1 .. e)
  BY FS_Interval
<1>4. IsFiniteSet(R) /\ IsFiniteSet(T)
  BY <1>2, <1>3, FS_Subset
<1>5. Cardinality(R) \in Nat /\ Cardinality(T) \in Nat
  BY <1>4, FS_CardinalityType
<1>6. Cardinality(M) = IF e \in R THEN Cardinality(T) + 1 ELSE Cardinality(T)
  BY <1>1, <1>2, <1>4, AddOne
<1>7. Cardinality(T) = IF l \in R THEN Cardinality(R) - 1 ELSE Cardinality(R)
  <2>1. l \in R => R \cup {l} = R
    OBVIOUS
  <2>2. l \notin R => R \ {l} = R
    OBVIOUS
  <2>3. l \notin R => Cardinality(R \cup {l}) = Cardinality(R) + 1
    BY <1>4, AddOne
  <2>4. l \in R => Cardinality(R \ {l}) = Cardinality(R) - 1
    BY <1>4, FS_RemoveElement
  <2>5. Cardinality(T \cup {e}) = Cardinality(T) + 1
    BY <1>2, <1>4, AddOne
  <2>6. CASE e \in R
    <3>1. T \cup {e} = R \cup {l}
      BY <1>1, <2>6
    <3>2. Cardinality(T) + 1 = Cardinality(R \cup {l})
      BY <2>5, <3>1
    <3>3. CASE l \in R
      <4>1. Cardinality(T) + 1 = Cardinality(R)
        BY <2>1, <3>2, <3>3
      <4>2. QED
        BY <1>5, <3>3, <4>1
    <3>4. CASE l \notin R
      <4>1. Cardinality(T) + 1 = Cardinality(R) + 1
        BY <2>3, <3>2, <3>4
      <4>2. QED
        BY <1>5, <3>4, <4>1
    <3>5. QED
      BY <3>3, <3>4
  <2>7. CASE e \notin R
    BY <1>1, <2>2, <2>4, <2>7
  <2>8. QED
    BY <2>6, <2>7
<1>8. QED
  BY <1>6, <1>7 DEF M, T

\* What two files hold of the keys other than k, and up to one record more.
SameOthers(f, d, g, e, k) ==
  \A j \in Keys \ {k}, v \in Values : Num(g, e, j, v) = Num(f, d, j, v)

\* The file g with end e as a stop in or behind a call for key k may leave it,
\* where f with end d is right: it has at most one record more of k, and at
\* most one record of another key twice.
NearBy(f, d, g, e, k) ==
  /\ Held(g, e, k) <= Held(f, d, k) + 1
  /\ \E extra \in SUBSET ((Keys \ {k}) \X Values) :
       /\ extra = {} \/ \E p : extra = {p}
       /\ \A j \in Keys \ {k}, v \in Values :
            Num(g, e, j, v) = IF <<j, v>> \in extra THEN Num(f, d, j, v) + 1 ELSE Num(f, d, j, v)

LEMMA NearSame ==
  ASSUME NEW f, NEW d, NEW g, NEW e, NEW k, Held(g, e, k) <= Held(f, d, k) + 1,
         SameOthers(f, d, g, e, k)
  PROVE  NearBy(f, d, g, e, k)
<1>1. {} \in SUBSET ((Keys \ {k}) \X Values)
  OBVIOUS
<1>2. QED
  BY <1>1 DEF NearBy, SameOthers

LEMMA NearItself ==
  ASSUME NEW f, NEW e \in Nat, NEW k
  PROVE  NearBy(f, e, f, e, k)
<1>1. Held(f, e, k) \in Nat
  BY RowsFinite
<1>2. Held(f, e, k) <= Held(f, e, k) + 1 /\ SameOthers(f, e, f, e, k)
  BY <1>1 DEF SameOthers
<1>3. QED
  BY <1>2, NearSame

\* Rows of k have been given new values.
LEMMA Revalued ==
  ASSUME NEW f, NEW g, NEW e, NEW k,
         \A i \in 1 .. e : /\ g[i].key = f[i].key
                           /\ f[i].key # k => g[i].value = f[i].value
  PROVE  Held(g, e, k) = Held(f, e, k) /\ SameOthers(f, e, g, e, k)
<1>1. KeyRows(g, e, k) = KeyRows(f, e, k)
  BY DEF KeyRows
<1>2. \A j \in Keys \ {k}, v \in Values : Rows(g, e, j, v) = Rows(f, e, j, v)
  BY DEF Rows
<1>3. QED
  BY <1>1, <1>2 DEF Held, Num, SameOthers

\* The file g with end d has a row <<k, v>> more than f with end e.
OneLonger(f, e, g, d, k, v) ==
  /\ e \in Nat /\ d = e + 1
  /\ \A i \in 1 .. e : g[i] = f[i]
  /\ g[d].key = k /\ g[d].value = v

LEMMA Appended ==
  ASSUME NEW f, NEW e, NEW g, NEW d, NEW k, NEW v, OneLonger(f, e, g, d, k, v)
  PROVE  /\ Held(g, d, k) = Held(f, e, k) + 1
         /\ Num(g, d, k, v) = Num(f, e, k, v) + 1
         /\ \A w : w # v => Num(g, d, k, w) = Num(f, e, k, w)
         /\ SameOthers(f, e, g, d, k)
<1>1. /\ e \in Nat /\ d = e + 1 /\ \A i \in 1 .. e : g[i] = f[i]
      /\ g[d].key = k /\ g[d].value = v
  BY DEF OneLonger
<1>2. \A i : i \in 1 .. d <=> i \in 1 .. e \/ i = d
  BY <1>1
<1>3. d \notin KeyRows(f, e, k) /\ d \notin Rows(f, e, k, v)
  BY <1>1 DEF KeyRows, Rows
<1>4. KeyRows(g, d, k) = KeyRows(f, e, k) \cup {d}
  BY <1>1, <1>2 DEF KeyRows
<1>5. Rows(g, d, k, v) = Rows(f, e, k, v) \cup {d}
  BY <1>1, <1>2 DEF Rows
<1>6. \A w : w # v => Rows(g, d, k, w) = Rows(f, e, k, w)
  BY <1>1, <1>2 DEF Rows
<1>7. \A j \in Keys \ {k}, w \in Values : Rows(g, d, j, w) = Rows(f, e, j, w)
  BY <1>1, <1>2 DEF Rows
<1>8. IsFiniteSet(KeyRows(f, e, k)) /\ IsFiniteSet(Rows(f, e, k, v))
  BY <1>1, RowsFinite
<1>9. QED
  BY <1>3, <1>4, <1>5, <1>6, <1>7, <1>8, AddOne DEF Held, Num, SameOthers

LEMMA WrittenRow ==
  ASSUME NEW f \in Seq(Row), NEW n, Packed(f, n), NEW k \in Keys, NEW v \in Values
  PROVE  OneLonger(f, n, WriteRow(f, n + 1, Occupied(k, v)), n + 1, k, v)
<1> DEFINE row == Occupied(k, v)
           g == WriteRow(f, n + 1, row)
<1>1. n \in 0 .. Len(f) /\ Len(f) \in Nat
  BY DEF Packed
<1>2. row \in Row /\ row.key = k /\ row.value = v
  BY OccupiedIsRow DEF Occupied
<1> HIDE DEF row
<1>3. (\A i \in 1 .. n : g[i] = f[i]) /\ g[n + 1] = row
  <2>1. CASE n + 1 <= Len(f)
    BY <1>1, <2>1 DEF WriteRow
  <2>2. CASE n = Len(f)
    <3>1. g = Append(f, row)
      BY <1>1, <2>2 DEF WriteRow
    <3>2. QED
      BY <1>1, <1>2, <2>2, <3>1
  <2>3. QED
    BY <1>1, <2>1, <2>2
<1>4. QED
  BY <1>1, <1>2, <1>3 DEF row, OneLonger

\* In a packed file the rows a call for key k stops at are the rows of k.
LEMMA KeyHits ==
  ASSUME NEW f, NEW n, Packed(f, n), NEW start \in Nat \ {0}, NEW k
  PROVE  Matching(f, n, start, Equality(k)) = { l \in start .. n : f[l].key = k }
<1>1. \A l \in start .. n : f[l].status = "occupied"
  BY DEF Packed
<1>2. \A l : row_matches(Equality(k), f[l]) <=> f[l].status = "occupied" /\ f[l].key = k
  BY DEF row_matches, test_predicate, Equality
<1>3. QED
  BY <1>1, <1>2 DEF Matching

\* What a turn that finds a row does with the rows up to the end: the last one
\* is copied over it at the first write, and cut off at the second.
LEMMA TurnRows ==
  ASSUME NEW s, GoodTurn(s), NEW k, TurnHits(s, k) # {}
  PROVE  LET t == DeleteTurn(s, k)
             g == Swapped(s, t.loc)
         IN /\ s.eof \in Nat \ {0} /\ t.eof = s.eof - 1 /\ t.count = s.count + 1
            /\ t.loc \in 1 .. s.eof /\ s.file[t.loc].key = k
            /\ \A i \in s.loc .. (t.loc - 1) : s.file[i].key # k
            /\ \A i \in 1 .. s.eof : g[i] = IF i = t.loc THEN s.file[s.eof] ELSE s.file[i]
            /\ \A i \in 1 .. (s.eof - 1) : t.file[i] = g[i]
<1> DEFINE hits == TurnHits(s, k)
           l == Min(hits)
           e == s.eof
           g == Swapped(s, l)
           t == DeleteTurn(s, k)
<1>1. /\ s.file \in Seq(Row) /\ e \in 0 .. Len(s.file) /\ s.loc \in Nat \ {0}
      /\ Len(s.file) \in Nat /\ e \in Nat /\ Packed(s.file, e)
  BY DEF GoodTurn, Packed
<1>2. hits = { i \in s.loc .. e : s.file[i].key = k }
  BY <1>1, KeyHits DEF TurnHits
<1>3. l \in hits /\ \A i \in hits : l <= i
  <2>1. hits \in SUBSET Nat
    BY <1>1, MatchingRows DEF TurnHits
  <2>2. QED
    BY <2>1, MinIn
<1>4. t = [file |-> [g EXCEPT ![e].status = "empty"], eof |-> e - 1, loc |-> l, count |-> s.count + 1]
  BY DEF DeleteTurn, TurnHits
<1> HIDE DEF l, hits
<1>5. l \in 1 .. e /\ l \in s.loc .. e /\ s.file[l].key = k /\ e # 0
  BY <1>1, <1>2, <1>3
<1>6. \A i \in s.loc .. (l - 1) : s.file[i].key # k
  BY <1>1, <1>2, <1>3, <1>5
<1>7. g = [s.file EXCEPT ![l] = s.file[e]] /\ DOMAIN s.file = 1 .. Len(s.file)
  BY <1>1 DEF Swapped
<1>8. \A i \in 1 .. e : g[i] = IF i = l THEN s.file[e] ELSE s.file[i]
  BY <1>1, <1>5, <1>7
<1> HIDE DEF g
<1>9. /\ t.file = [g EXCEPT ![e].status = "empty"] /\ t.eof = e - 1 /\ t.loc = l
      /\ t.count = s.count + 1
  BY <1>4
<1> HIDE DEF t
<1>10. \A i \in 1 .. (e - 1) : t.file[i] = g[i]
  <2>1. \A i \in 1 .. (e - 1) : i # e
    BY <1>1
  <2>2. DOMAIN g = DOMAIN s.file
    BY <1>7 DEF g
  <2>3. 1 .. (e - 1) \subseteq DOMAIN g
    BY <1>1, <1>7, <2>2
  <2>4. QED
    BY <1>9, <2>1, <2>3
<1>11. Swapped(s, t.loc) = g
  BY <1>9 DEF g
<1>12. QED
  BY <1>1, <1>5, <1>6, <1>8, <1>9, <1>10, <1>11 DEF t

\* What such a turn leaves of the records: one of k less.  In between the
\* record of the last row is there twice.
LEMMA TurnRecords ==
  ASSUME NEW s, GoodTurn(s), NEW k \in Keys, TurnHits(s, k) # {}
  PROVE  LET t == DeleteTurn(s, k)
             g == Swapped(s, t.loc)
             e == s.eof
         IN /\ Held(t.file, t.eof, k) = Held(s.file, e, k) - 1
            /\ SameOthers(s.file, e, t.file, t.eof, k)
            /\ Held(g, e, k) <= Held(s.file, e, k)
            /\ \E p \in Keys \X Values :
                 \A j \in Keys \ {k}, v \in Values :
                   Num(g, e, j, v) = IF <<j, v>> = p THEN Num(s.file, e, j, v) + 1
                                     ELSE Num(s.file, e, j, v)
<1> DEFINE t == DeleteTurn(s, k)
           l == t.loc
           g == Swapped(s, l)
           e == s.eof
           p == <<s.file[e].key, s.file[e].value>>
<1>1. /\ e \in Nat \ {0} /\ t.eof = e - 1 /\ l \in 1 .. e /\ s.file[l].key = k
      /\ \A i \in 1 .. e : g[i] = IF i = l THEN s.file[e] ELSE s.file[i]
      /\ \A i \in 1 .. (e - 1) : t.file[i] = g[i]
  BY TurnRows
<1>2. s.file \in Seq(Row) /\ e \in 0 .. Len(s.file)
  BY DEF GoodTurn, Packed
<1>3. p \in Keys \X Values
  <2>1. s.file[e] \in Row
    BY <1>1, <1>2, SequenceElement
  <2>2. QED
    BY <2>1 DEF Row
<1>4. 1 .. (e - 1) \subseteq 1 .. e /\ e \in 1 .. e
  BY <1>1
<1>10. \A i \in 1 .. e : i \in 1 .. (e - 1) <=> i # e
  BY <1>1
<1> HIDE DEF t, g, l
<1>5. /\ Held(t.file, t.eof, k) = Held(s.file, e, k) - 1
      /\ Held(g, e, k) <= Held(s.file, e, k)
  <2> DEFINE R == KeyRows(s.file, e, k)
             M == KeyRows(g, e, k)
             T == KeyRows(t.file, e - 1, k)
  <2>1. R \in SUBSET (1 .. e) /\ l \in R
    BY <1>1 DEF KeyRows
  <2>2. M = CopiedOver(R, e, l)
    BY <1>1, <1>4 DEF KeyRows, CopiedOver
  <2>3. T = CutOff(R, e, l)
    BY <1>1, <1>4, <1>10, <2>2 DEF KeyRows, CutOff
  <2>4. Cardinality(R) \in Nat
    BY <1>1, RowsFinite DEF Held
  <2> HIDE DEF R, M, T, e
  <2>5. e \in Nat \ {0} /\ l \in 1 .. e
    BY <1>1 DEF e
  <2>6. /\ Cardinality(T) = IF l \in R THEN Cardinality(R) - 1 ELSE Cardinality(R)
        /\ Cardinality(M) = IF e \in R THEN Cardinality(T) + 1 ELSE Cardinality(T)
    BY <2>1, <2>2, <2>3, <2>5, Shifted
  <2>7. Cardinality(T) = Cardinality(R) - 1 /\ Cardinality(M) <= Cardinality(R)
    BY <2>1, <2>4, <2>6
  <2>8. QED
    BY <1>1, <2>7 DEF R, M, T, Held, e
<1>6. ASSUME NEW j \in Keys \ {k}, NEW v \in Values
      PROVE  /\ Num(t.file, t.eof, j, v) = Num(s.file, e, j, v)
             /\ Num(g, e, j, v) = IF <<j, v>> = p THEN Num(s.file, e, j, v) + 1
                                  ELSE Num(s.file, e, j, v)
  <2> DEFINE R == Rows(s.file, e, j, v)
             M == Rows(g, e, j, v)
             T == Rows(t.file, e - 1, j, v)
  <2>1. R \in SUBSET (1 .. e) /\ l \notin R
    BY <1>1 DEF Rows
  <2>2. M = CopiedOver(R, e, l)
    BY <1>1, <1>4 DEF Rows, CopiedOver
  <2>3. T = CutOff(R, e, l)
    BY <1>1, <1>4, <1>10, <2>2 DEF Rows, CutOff
  <2>4. e \in R <=> <<j, v>> = p
    BY <1>4 DEF Rows
  <2> HIDE DEF R, M, T, p, e
  <2>5. e \in Nat \ {0} /\ l \in 1 .. e /\ R \in SUBSET (1 .. e)
    BY <1>1, <2>1 DEF e
  <2>6. /\ Cardinality(T) = IF l \in R THEN Cardinality(R) - 1 ELSE Cardinality(R)
        /\ Cardinality(M) = IF e \in R THEN Cardinality(T) + 1 ELSE Cardinality(T)
    BY <2>2, <2>3, <2>5, Shifted
  <2>7. QED
    BY <1>1, <2>1, <2>4, <2>6 DEF R, M, T, Num, e
<1>7. SameOthers(s.file, e, t.file, t.eof, k)
  BY <1>6 DEF SameOthers
<1>8. \E q \in Keys \X Values :
        \A j \in Keys \ {k}, v \in Values :
          Num(g, e, j, v) = IF <<j, v>> = q THEN Num(s.file, e, j, v) + 1 ELSE Num(s.file, e, j, v)
  BY <1>3, <1>6
<1>9. QED
  BY <1>5, <1>7, <1>8 DEF t, g, l

\* A turn that starts with as many records of k less as have been counted, and
\* with none of k before the place it looks from.
CountedTurn(s, k) ==
  /\ Held(s.file, s.eof, k) + s.count = Held(file, eof, k)
  /\ SameOthers(file, eof, s.file, s.eof, k)
  /\ \A i \in 1 .. (s.loc - 1) : s.file[i].key # k

LEMMA CountedNext ==
  ASSUME NEW s, GoodTurn(s), NEW k \in Keys, TurnHits(s, k) # {}, CountedTurn(s, k)
  PROVE  CountedTurn(DeleteTurn(s, k), k)
<1> DEFINE t == DeleteTurn(s, k)
           g == Swapped(s, t.loc)
<1>1. /\ s.eof \in Nat \ {0} /\ t.eof = s.eof - 1 /\ t.count = s.count + 1
      /\ t.loc \in 1 .. s.eof
      /\ \A i \in s.loc .. (t.loc - 1) : s.file[i].key # k
      /\ \A i \in 1 .. s.eof : g[i] = IF i = t.loc THEN s.file[s.eof] ELSE s.file[i]
      /\ \A i \in 1 .. (s.eof - 1) : t.file[i] = g[i]
  BY TurnRows
<1>2. /\ Held(t.file, t.eof, k) = Held(s.file, s.eof, k) - 1
      /\ SameOthers(s.file, s.eof, t.file, t.eof, k)
  BY TurnRecords
<1>3. s.count \in Nat /\ Held(s.file, s.eof, k) \in Nat /\ s.loc \in Nat \ {0}
  <2>1. s.count \in Nat /\ s.eof \in Nat /\ s.loc \in Nat \ {0}
    BY <1>1 DEF GoodTurn
  <2>2. QED
    BY <2>1, RowsFinite
<1> HIDE DEF t
<1>4. \A i \in 1 .. (t.loc - 1) : t.file[i].key # k
  <2> SUFFICES ASSUME NEW i \in 1 .. (t.loc - 1) PROVE t.file[i].key # k
    OBVIOUS
  <2>1. i \in 1 .. (s.eof - 1) /\ i \in 1 .. s.eof /\ i # t.loc
    BY <1>1
  <2>2. t.file[i] = s.file[i]
    BY <1>1, <2>1
  <2>3. i \in 1 .. (s.loc - 1) \/ i \in s.loc .. (t.loc - 1)
    BY <1>1, <1>3
  <2>4. QED
    BY <1>1, <2>2, <2>3 DEF CountedTurn
<1>5. Held(t.file, t.eof, k) + t.count = Held(file, eof, k)
  BY <1>1, <1>2, <1>3 DEF CountedTurn
<1>6. SameOthers(file, eof, t.file, t.eof, k)
  BY <1>2 DEF SameOthers, CountedTurn
<1>7. QED
  BY <1>4, <1>5, <1>6 DEF CountedTurn, t

\* The turns all count, and they look until no row of k is left.
LEMMA TurnsCount ==
  ASSUME file \in Seq(Row), Packed(file, eof), NEW k \in Keys
  PROVE  /\ \A n \in 0 .. eof : CountedTurn(DeleteTurns(k)[n], k)
         /\ \A n \in 0 .. eof : TurnHits(DeleteTurns(k)[n], k) # {} => DeleteTurns(k)[n].count = n
         /\ TurnHits(DeleteTurns(k)[eof], k) = {}
<1> DEFINE turn == DeleteTurns(k)
<1>1. eof \in Nat
  BY DEF Packed
<1>2. turn[0] = FirstTurn /\ \A n \in 1 .. eof : turn[n] = DeleteTurn(turn[n - 1], k)
  BY <1>1, TurnsAre
<1>3. \A n \in 0 .. eof : GoodTurn(turn[n])
  BY TurnsGood
<1> HIDE DEF turn
<1> DEFINE Fine(n) == /\ CountedTurn(turn[n], k)
                      /\ TurnHits(turn[n], k) # {} => turn[n].count = n
           D == { n \in Nat : n <= eof /\ ~Fine(n) }
<1>4. D = {}
  <2> SUFFICES ASSUME D # {} PROVE FALSE
    OBVIOUS
  <2>1. PICK n \in D : \A j \in D : n <= j
    BY LeastNatural
  <2>2. n \in Nat /\ n <= eof /\ ~Fine(n)
    BY <2>1
  <2>3. CASE n = 0
    <3>1. /\ FirstTurn.file = file /\ FirstTurn.eof = eof /\ FirstTurn.loc = 1
          /\ FirstTurn.count = 0
      BY DEF FirstTurn
    <3>2. Held(file, eof, k) \in Nat
      BY <1>1, RowsFinite
    <3>3. CountedTurn(FirstTurn, k)
      BY <3>1, <3>2 DEF CountedTurn, SameOthers
    <3>4. QED
      BY <1>2, <2>2, <2>3, <3>1, <3>3
  <2>4. CASE n # 0
    <3>1. n - 1 \in Nat /\ n - 1 <= eof /\ n \in 1 .. eof /\ n - 1 \in 0 .. eof /\ ~(n <= n - 1)
      BY <1>1, <2>2, <2>4
    <3> HIDE DEF Fine
    <3>6. n - 1 \notin D
      BY <2>1, <3>1
    <3>7. Fine(n - 1)
      BY <3>1, <3>6
    <3> USE DEF Fine
    <3>2. Fine(n - 1) /\ GoodTurn(turn[n - 1]) /\ turn[n] = DeleteTurn(turn[n - 1], k)
      BY <1>2, <1>3, <3>1, <3>7
    <3>3. CASE TurnHits(turn[n - 1], k) = {}
      <4>1. turn[n] = turn[n - 1]
        BY <3>2, <3>3 DEF DeleteTurn, TurnHits
      <4>2. QED
        BY <2>2, <3>2, <3>3, <4>1
    <3>4. CASE TurnHits(turn[n - 1], k) # {}
      <4>1. CountedTurn(turn[n], k)
        BY <3>2, <3>4, CountedNext
      <4>2. turn[n].count = turn[n - 1].count + 1
        BY <3>2, <3>4, TurnRows
      <4>3. turn[n].count = n
        BY <2>2, <3>2, <3>4, <4>2
      <4>4. QED
        BY <2>2, <4>1, <4>3
    <3>5. QED
      BY <3>3, <3>4
  <2>5. QED
    BY <2>3, <2>4
<1>5. ASSUME NEW n \in 0 .. eof PROVE Fine(n)
  BY <1>1, <1>4, <1>5
<1>6. TurnHits(turn[eof], k) = {}
  <2> SUFFICES ASSUME TurnHits(turn[eof], k) # {} PROVE FALSE
    OBVIOUS
  <2>1. eof \in 0 .. eof
    BY <1>1
  <2>2. turn[eof].count = eof /\ GoodTurn(turn[eof])
    BY <1>3, <1>5, <2>1
  <2>3. turn[eof].eof = 0
    <3>1. turn[eof].eof \in Nat /\ turn[eof].eof + turn[eof].count = eof
      BY <2>2 DEF GoodTurn, Packed
    <3>2. QED
      BY <1>1, <2>2, <3>1
  <2>4. turn[eof].eof \in Nat \ {0}
    BY <2>2, TurnRows
  <2>5. QED
    BY <2>3, <2>4
<1>7. QED
  BY <1>5, <1>6 DEF turn

\* The records of a key, by their values, add up to all of them.
LEMMA ValuesAddUp ==
  ASSUME NEW f \in Seq(Row), NEW e \in 0 .. Len(f), NEW k, NEW b,
         \A v \in Values : b[v] = Num(f, e, k, v)
  PROVE  Total(Values, b) = Held(f, e, k)
<1> DEFINE B == KeyRows(f, e, k)
           val == [l \in B |-> f[l].value]
<1>1. IsFiniteSet(B) /\ IsFiniteSet(Values)
  <2>1. e \in Nat
    OBVIOUS
  <2>2. QED
    BY <2>1, RowsFinite, ValuesAssumption
<1>2. \A v \in Values : b[v] = Cardinality(Valued(B, val, v))
  <2>1. \A v : Valued(B, val, v) = Rows(f, e, k, v)
    BY DEF Rows, KeyRows, Valued
  <2>2. QED
    BY <2>1 DEF Num
<1>3. \A l \in B : val[l] \in Values
  <2> SUFFICES ASSUME NEW l \in B PROVE f[l].value \in Values
    OBVIOUS
  <2>1. f[l] \in Row
    BY SequenceElement DEF KeyRows
  <2>2. QED
    BY <2>1 DEF Row
<1> HIDE DEF B, val
<1>4. Total(Values, b) = Cardinality(B)
  BY <1>1, <1>2, <1>3, TotalIs
<1>5. QED
  BY <1>4 DEF B, Held

LEMMA BagIs ==
  ASSUME NEW k
  PROVE  BagOf(k) = [v \in Values |-> Num(file, eof, k, v)]
  BY DEF BagOf, Num, Rows

LEMMA BagIsNext ==
  ASSUME NEW k
  PROVE  BagOf(k)' = [v \in Values |-> Num(file', eof', k, v)]
  BY DEF BagOf, Num, Rows

LEMMA CopiesAre ==
  ASSUME file \in Seq(Row), Packed(file, eof), NEW k \in Keys
  PROVE  Abstract!Copies(k) = Held(file, eof, k)
<1> DEFINE b == [j \in Keys |-> BagOf(j)][k]
<1>1. Abstract!Copies(k) = Total(Values, b)
  BY DEF Abstract!Copies, Abstract!MapThenSumSet, Abstract!MapThenFoldSet, IsSum, Total
<1>2. \A v \in Values : b[v] = Num(file, eof, k, v)
  BY BagIs
<1>3. eof \in 0 .. Len(file)
  BY DEF Packed
<1> HIDE DEF b
<1>4. QED
  BY <1>1, <1>2, <1>3, ValuesAddUp

LEMMA CopiesAreNext ==
  ASSUME file' \in Seq(Row), Packed(file', eof'), NEW k \in Keys
  PROVE  Abstract!Copies(k)' = Held(file', eof', k)
<1> DEFINE b == [j \in Keys |-> BagOf(j)]'[k]
<1>1. Abstract!Copies(k)' = Total(Values, b)
  BY DEF Abstract!Copies, Abstract!MapThenSumSet, Abstract!MapThenFoldSet, IsSum, Total
<1>2. \A v \in Values : b[v] = Num(file', eof', k, v)
  BY BagIsNext
<1>3. eof' \in 0 .. Len(file')
  BY DEF Packed
<1> HIDE DEF b
<1>4. QED
  BY <1>1, <1>2, <1>3, ValuesAddUp

\* The bags once the records of one key, at most, have changed.
LEMMA SameBags ==
  ASSUME file' = file, eof' = eof
  PROVE  [j \in Keys |-> BagOf(j)]' = [j \in Keys |-> BagOf(j)]
<1>1. \A j \in Keys : BagOf(j)' = BagOf(j)
  BY BagIs, BagIsNext
<1>2. QED
  BY <1>1

LEMMA BagsOfOne ==
  ASSUME NEW k \in Keys, SameOthers(file, eof, file', eof', k),
         NEW b, b = [v \in Values |-> Num(file', eof', k, v)]
  PROVE  [j \in Keys |-> BagOf(j)]' = [[j \in Keys |-> BagOf(j)] EXCEPT ![k] = b]
<1>1. ASSUME NEW j \in Keys \ {k} PROVE BagOf(j)' = BagOf(j)
  BY BagIs, BagIsNext DEF SameOthers
<1>2. BagOf(k)' = b
  BY BagIsNext
<1>3. QED
  BY <1>1, <1>2

\* A row appended is a record added; before the write there was one less.
LEMMA AppendIs ==
  ASSUME FInv, NEW call, NEW k \in Keys, NEW v \in Values, AppendRow(call, k, v)
  PROVE  Abstract!Add(call, k, v) /\ NearBy(file', eof', file, eof, k)
<1> DEFINE b == [BagOf(k) EXCEPT ![v] = @ + 1]
<1>1. /\ file \in Seq(Row) /\ Packed(file, eof) /\ eof \in Nat
      /\ file' = WriteRow(file, eof + 1, Occupied(k, v)) /\ eof' = eof + 1
      /\ Answer(call, k, "err_ok", 1, NoValue)
  BY InvFacts DEF AppendRow
<1>2. OneLonger(file, eof, file', eof', k, v)
  BY <1>1, WrittenRow
<1>3. /\ Held(file', eof', k) = Held(file, eof, k) + 1
      /\ Num(file', eof', k, v) = Num(file, eof, k, v) + 1
      /\ \A w : w # v => Num(file', eof', k, w) = Num(file, eof, k, w)
      /\ SameOthers(file, eof, file', eof', k)
  BY <1>2, Appended
<1>4. b = [w \in Values |-> Num(file', eof', k, w)]
  <2>1. BagOf(k) = [w \in Values |-> Num(file, eof, k, w)]
    BY BagIs
  <2>2. QED
    BY <1>3, <2>1
<1>5. [j \in Keys |-> BagOf(j)]' = [[j \in Keys |-> BagOf(j)] EXCEPT ![k] = b]
  <2> HIDE DEF b
  <2>1. QED
    BY <1>3, <1>4, BagsOfOne
<1>6. [j \in Keys |-> BagOf(j)]' = [[j \in Keys |-> BagOf(j)] EXCEPT ![k][v] = @ + 1]
  BY <1>5
<1>7. Abstract!Add(call, k, v)
  BY <1>1, <1>6 DEF Abstract!Add, Abstract!Answer, Answer
<1>8. NearBy(file', eof', file, eof, k)
  <2>1. Held(file, eof, k) \in Nat
    BY <1>1, RowsFinite
  <2>2. Held(file, eof, k) <= Held(file', eof', k) + 1
    BY <1>3, <2>1
  <2>3. SameOthers(file', eof', file, eof, k)
    BY <1>3 DEF SameOthers
  <2>4. QED
    BY <2>2, <2>3, NearSame
<1>9. QED
  BY <1>7, <1>8

\* The rows of k, and the count of them.
LEMMA HeldRows ==
  ASSUME FInv, NEW k \in Keys
  PROVE  /\ Matching(file, eof, 1, Equality(k)) = KeyRows(file, eof, k)
         /\ Abstract!Copies(k) = Held(file, eof, k) /\ Held(file, eof, k) \in Nat
         /\ KeyRows(file, eof, k) = {} <=> Held(file, eof, k) = 0
<1>1. file \in Seq(Row) /\ Packed(file, eof) /\ eof \in Nat
  BY InvFacts
<1>2. Matching(file, eof, 1, Equality(k)) = KeyRows(file, eof, k)
  BY <1>1, KeyHits DEF KeyRows
<1>3. Abstract!Copies(k) = Held(file, eof, k)
  BY <1>1, CopiesAre
<1>4. IsFiniteSet(KeyRows(file, eof, k)) /\ Held(file, eof, k) \in Nat
  BY <1>1, RowsFinite
<1>5. KeyRows(file, eof, k) = {} <=> Held(file, eof, k) = 0
  BY <1>4, FS_EmptySet DEF Held
<1>6. QED
  BY <1>2, <1>3, <1>4, <1>5

\* The file with the rows of k up to l rewritten: no record more or less.
LEMMA UpdatedToNear ==
  ASSUME FInv, NEW k \in Keys, NEW v \in Values, NEW l
  PROVE  LET g == UpdatedTo(k, v, l) IN
         /\ NearBy(file, eof, g, eof, k)
         /\ Held(g, eof, k) = Held(file, eof, k) /\ SameOthers(file, eof, g, eof, k)
<1> DEFINE g == UpdatedTo(k, v, l)
<1>1. file \in Seq(Row) /\ eof \in 0 .. Len(file) /\ eof \in Nat /\ Len(file) \in Nat
  BY InvFacts
<1>2. Matching(file, eof, 1, Equality(k)) = KeyRows(file, eof, k)
  BY HeldRows
<1>3. \A i \in 1 .. eof : g[i] = IF i \in KeyRows(file, eof, k) /\ i <= l THEN Occupied(k, v) ELSE file[i]
  BY <1>1, <1>2 DEF UpdatedTo
<1> HIDE DEF g
<1>4. \A i \in 1 .. eof : g[i].key = file[i].key /\ (file[i].key # k => g[i].value = file[i].value)
  BY <1>3 DEF KeyRows, Occupied
<1>5. Held(g, eof, k) = Held(file, eof, k) /\ SameOthers(file, eof, g, eof, k)
  BY <1>4, Revalued
<1>6. Held(g, eof, k) <= Held(file, eof, k) + 1
  <2>1. Held(file, eof, k) \in Nat
    BY HeldRows
  <2>2. QED
    BY <1>5, <2>1
<1>7. QED
  BY <1>5, <1>6, NearSame DEF g

\* An update of a key that is held overwrites each of its records.
LEMMA OverwriteIs ==
  ASSUME FInv, NEW k \in Keys, NEW v \in Values, flat_file_update(k, v),
         Matching(file, eof, 1, Equality(k)) # {}
  PROVE  /\ Abstract!Update(k, v)
         /\ eof' = eof /\ NearBy(file', eof', BeforeLastUpdate(k, v), eof, k)
<1> DEFINE hits == KeyRows(file, eof, k)
           count == Held(file, eof, k)
           b == [[w \in Values |-> 0] EXCEPT ![v] = count]
<1>1. file \in Seq(Row) /\ eof \in 0 .. Len(file) /\ eof \in Nat /\ Len(file) \in Nat
  BY InvFacts
<1>2. /\ Matching(file, eof, 1, Equality(k)) = hits /\ hits # {}
      /\ Abstract!Copies(k) = count /\ count \in Nat /\ count > 0
  BY HeldRows
<1>3. /\ file' = [l \in DOMAIN file |-> IF l \in hits THEN Occupied(k, v) ELSE file[l]]
      /\ Answer("update", k, "err_ok", count, NoValue)
      /\ eof' = eof
  BY <1>2 DEF flat_file_update, Held
<1>4. \A i \in 1 .. eof : file'[i] = IF i \in hits THEN Occupied(k, v) ELSE file[i]
  BY <1>1, <1>3
<1>5. \A i \in 1 .. eof : file'[i].key = file[i].key /\ (file[i].key # k => file'[i].value = file[i].value)
  BY <1>4 DEF KeyRows, Occupied
<1>6. Held(file', eof, k) = count /\ SameOthers(file, eof, file', eof, k)
  BY <1>5, Revalued
<1>7. \A w \in Values : Rows(file', eof, k, w) = IF w = v THEN hits ELSE {}
  BY <1>4 DEF Rows, KeyRows, Occupied
<1>8. b = [w \in Values |-> Num(file', eof', k, w)]
  <2> HIDE DEF hits
  <2>1. \A w \in Values : Num(file', eof, k, w) = IF w = v THEN count ELSE 0
    BY <1>7, FS_EmptySet DEF Num, Held, hits
  <2> HIDE DEF count
  <2>2. QED
    BY <1>3, <2>1
<1>9. [j \in Keys |-> BagOf(j)]' = [[j \in Keys |-> BagOf(j)] EXCEPT ![k] = b]
  <2> HIDE DEF b
  <2>1. QED
    BY <1>3, <1>6, <1>8, BagsOfOne
<1>10. Abstract!Update(k, v)
  BY <1>2, <1>3, <1>9 DEF Abstract!Update, Abstract!Answer, Abstract!NoRecords, Answer
<1>11. NearBy(file', eof', BeforeLastUpdate(k, v), eof, k)
  <2> DEFINE g == UpdatedTo(k, v, Max(hits) - 1)
  <2>1. BeforeLastUpdate(k, v) = g
    BY <1>2 DEF BeforeLastUpdate
  <2> HIDE DEF hits
  <2>2. Held(g, eof, k) = count /\ SameOthers(file, eof, g, eof, k)
    BY UpdatedToNear
  <2> HIDE DEF g, count
  <2>3. Held(g, eof, k) <= Held(file', eof', k) + 1
    BY <1>2, <1>3, <1>6, <2>2
  <2>4. SameOthers(file', eof', g, eof, k)
    BY <1>3, <1>6, <2>2 DEF SameOthers
  <2>5. QED
    BY <2>1, <2>3, <2>4, NearSame
<1>12. QED
  BY <1>3, <1>10, <1>11

\* What the turns of a delete go through, and where they end: no record of the
\* key is left, and as many have been counted as there were.
LEMMA LastTurn ==
  ASSUME FInv, NEW k \in Keys
  PROVE  LET last == DeleteTurns(k)[eof] IN
         /\ last.count = Held(file, eof, k) /\ KeyRows(last.file, last.eof, k) = {}
         /\ SameOthers(file, eof, last.file, last.eof, k)
         /\ last.eof \in Nat /\ Held(last.file, last.eof, k) = 0
         /\ last.count = 0 => last.file = file /\ last.eof = eof
<1> DEFINE last == DeleteTurns(k)[eof]
<1>1. file \in Seq(Row) /\ Packed(file, eof) /\ eof \in Nat /\ eof \in 0 .. eof
  BY InvFacts
<1>2. GoodTurn(last) /\ CountedTurn(last, k) /\ TurnHits(last, k) = {}
  BY <1>1, TurnsGood, TurnsCount
<1> HIDE DEF last
<1>3. /\ last.eof \in Nat /\ last.count \in Nat /\ Packed(last.file, last.eof)
      /\ last.loc \in Nat \ {0} /\ last.eof + last.count = eof
      /\ last.count = 0 => last.file = file
  BY <1>2 DEF GoodTurn, Packed
<1>4. \A l \in last.loc .. last.eof : last.file[l].key # k
  BY <1>2, <1>3, KeyHits DEF TurnHits
<1>5. KeyRows(last.file, last.eof, k) = {}
  <2>1. ASSUME NEW l \in 1 .. last.eof PROVE last.file[l].key # k
    <3>1. l \in 1 .. (last.loc - 1) \/ l \in last.loc .. last.eof
      BY <1>3
    <3>2. QED
      BY <1>2, <1>4, <3>1 DEF CountedTurn
  <2>2. QED
    BY <2>1 DEF KeyRows
<1>6. Held(last.file, last.eof, k) = 0
  BY <1>5, FS_EmptySet DEF Held
<1>7. last.count = Held(file, eof, k)
  BY <1>2, <1>3, <1>6 DEF CountedTurn
<1>8. last.count = 0 => last.eof = eof
  BY <1>1, <1>3
<1>9. QED
  BY <1>2, <1>3, <1>5, <1>6, <1>7, <1>8 DEF CountedTurn, last

\* A record moved over one of k, and still there where it was.
LEMMA MovedNear ==
  ASSUME NEW s, GoodTurn(s), NEW k \in Keys, TurnHits(s, k) # {},
         NEW f, NEW d, SameOthers(f, d, s.file, s.eof, k),
         Held(s.file, s.eof, k) <= Held(f, d, k) + 1, Held(f, d, k) \in Nat
  PROVE  NearBy(f, d, Swapped(s, DeleteTurn(s, k).loc), s.eof, k)
<1> DEFINE g == Swapped(s, DeleteTurn(s, k).loc)
<1>1. PICK p \in Keys \X Values :
        /\ Held(g, s.eof, k) <= Held(s.file, s.eof, k)
        /\ \A j \in Keys \ {k}, v \in Values :
             Num(g, s.eof, j, v) = IF <<j, v>> = p THEN Num(s.file, s.eof, j, v) + 1
                                   ELSE Num(s.file, s.eof, j, v)
  BY TurnRecords
<1>2. s.eof \in Nat
  BY DEF GoodTurn, Packed
<1> HIDE DEF g
<1>3. Held(g, s.eof, k) \in Nat /\ Held(s.file, s.eof, k) \in Nat
  BY <1>2, RowsFinite
<1>4. Held(g, s.eof, k) <= Held(f, d, k) + 1
  BY <1>1, <1>3
<1> DEFINE extra == IF p[1] = k THEN {} ELSE {p}
<1>5. extra \in SUBSET ((Keys \ {k}) \X Values) /\ (extra = {} \/ \E q : extra = {q})
  OBVIOUS
<1>6. ASSUME NEW j \in Keys \ {k}, NEW v \in Values
      PROVE  Num(g, s.eof, j, v) = IF <<j, v>> \in extra THEN Num(f, d, j, v) + 1 ELSE Num(f, d, j, v)
  <2>1. Num(s.file, s.eof, j, v) = Num(f, d, j, v)
    BY DEF SameOthers
  <2>2. <<j, v>> \in extra <=> <<j, v>> = p
    OBVIOUS
  <2> HIDE DEF extra
  <2>3. QED
    BY <1>1, <2>1, <2>2
<1> HIDE DEF extra
<1>7. QED
  BY <1>4, <1>5, <1>6 DEF NearBy, g

\* A turn that is counted: it finds a row, and what it starts from is good.
LEMMA CountedTurns ==
  ASSUME FInv, NEW k \in Keys, NEW n \in 1 .. DeleteTurns(k)[eof].count
  PROVE  LET s == DeleteTurns(k)[n - 1] IN
         /\ GoodTurn(s) /\ CountedTurn(s, k) /\ TurnHits(s, k) # {} /\ s.count = n - 1
         /\ DeleteTurns(k)[n] = DeleteTurn(s, k)
         /\ MovedIn(DeleteTurns(k), n) = Swapped(s, DeleteTurn(s, k).loc)
<1> DEFINE turn == DeleteTurns(k)
<1>1. file \in Seq(Row) /\ Packed(file, eof) /\ eof \in Nat
  BY InvFacts
<1>2. n \in 1 .. eof /\ TurnHits(turn[n - 1], k) # {}
  BY <1>1, CountedTurnHits
<1>3. n - 1 \in 0 .. eof
  BY <1>1, <1>2
<1>4. GoodTurn(turn[n - 1])
  BY <1>1, <1>3, TurnsGood
<1>5. CountedTurn(turn[n - 1], k) /\ turn[n - 1].count = n - 1
  <2>1. /\ \A m \in 0 .. eof : CountedTurn(turn[m], k)
        /\ \A m \in 0 .. eof : TurnHits(turn[m], k) # {} => turn[m].count = m
    BY <1>1, TurnsCount
  <2> HIDE DEF turn
  <2>2. QED
    BY <1>2, <1>3, <2>1
<1>6. turn[n] = DeleteTurn(turn[n - 1], k)
  BY <1>1, <1>2, TurnsAre
<1>7. QED
  BY <1>2, <1>4, <1>5, <1>6 DEF MovedIn

\* A delete removes the records of its key, and counts them.
LEMMA DeleteIs ==
  ASSUME FInv, NEW k \in Keys, flat_file_delete(k)
  PROVE  /\ Abstract!Delete(k)
         /\ DeleteTurns(k)[eof].count # 0 =>
              \E d : /\ Packed(BeforeLastDelete(k), d)
                     /\ NearBy(file', eof', BeforeLastDelete(k), d, k)
         /\ DeleteTurns(k)[eof].count = 0 => file' = file /\ eof' = eof
<1> DEFINE last == DeleteTurns(k)[eof]
           b == [w \in Values |-> 0]
<1>1. /\ last.count = Held(file, eof, k) /\ KeyRows(last.file, last.eof, k) = {}
      /\ SameOthers(file, eof, last.file, last.eof, k)
      /\ last.eof \in Nat /\ Held(last.file, last.eof, k) = 0
      /\ last.count = 0 => last.file = file /\ last.eof = eof
  BY LastTurn
<1>2. Abstract!Copies(k) = Held(file, eof, k) /\ Held(file, eof, k) \in Nat
  BY HeldRows
<1>3. /\ file' = last.file /\ eof' = last.eof
      /\ Answer("delete", k, IF last.count = 0 THEN "err_item_not_found" ELSE "err_ok",
                last.count, NoValue)
  BY DEF flat_file_delete
<1>4. CASE last.count = 0
  <2>1. file' = file /\ eof' = eof
    BY <1>1, <1>3, <1>4
  <2>2. [j \in Keys |-> BagOf(j)]' = [j \in Keys |-> BagOf(j)]
    BY <2>1, SameBags
  <2>3. Answer("delete", k, "err_item_not_found", 0, NoValue) /\ Abstract!Copies(k) = 0
    BY <1>1, <1>2, <1>3, <1>4
  <2>4. Abstract!Miss("delete", k)
    BY <2>2, <2>3 DEF Abstract!Miss, Abstract!Answer, Answer
  <2>5. QED
    BY <1>4, <2>1, <2>4 DEF Abstract!Delete
<1>5. CASE last.count # 0
  <2>1. \A w \in Values : Rows(file', eof', k, w) = {}
    BY <1>1, <1>3 DEF Rows, KeyRows
  <2>2. b = [w \in Values |-> Num(file', eof', k, w)]
    BY <2>1, FS_EmptySet DEF Num
  <2>3. [j \in Keys |-> BagOf(j)]' = [[j \in Keys |-> BagOf(j)] EXCEPT ![k] = b]
    <3> HIDE DEF b, last
    <3>1. QED
      BY <1>1, <1>3, <2>2, BagsOfOne
  <2>4. Answer("delete", k, "err_ok", Abstract!Copies(k), NoValue) /\ Abstract!Copies(k) > 0
    BY <1>1, <1>2, <1>3, <1>5
  <2>5. Abstract!Delete(k)
    <3> HIDE DEF last, b
    <3>1. QED
      BY <2>3, <2>4 DEF Abstract!Delete, Abstract!Answer, Abstract!NoRecords, Answer, b
  <2> DEFINE n == last.count
             s == DeleteTurns(k)[n - 1]
  <2>6. n \in 1 .. last.count /\ n \in Nat
    BY <1>1, <1>2, <1>5
  <2>7. /\ GoodTurn(s) /\ CountedTurn(s, k) /\ TurnHits(s, k) # {} /\ s.count = n - 1
        /\ DeleteTurns(k)[n] = DeleteTurn(s, k)
        /\ MovedIn(DeleteTurns(k), n) = Swapped(s, DeleteTurn(s, k).loc)
    BY <2>6, CountedTurns
  <2>8. BeforeLastDelete(k) = MovedIn(DeleteTurns(k), n)
    BY <1>5 DEF BeforeLastDelete
  <2>9. Packed(BeforeLastDelete(k), s.eof)
    BY <2>7, <2>8, TurnGood
  <2>10. Held(s.file, s.eof, k) = 1
    <3>1. s.eof \in Nat
      BY <2>7 DEF GoodTurn, Packed
    <3>2. Held(s.file, s.eof, k) \in Nat
      BY <3>1, RowsFinite
    <3>3. QED
      BY <1>1, <2>6, <2>7, <3>2 DEF CountedTurn
  <2>11. SameOthers(file', eof', s.file, s.eof, k)
    BY <1>1, <1>3, <2>7 DEF CountedTurn, SameOthers
  <2>12. NearBy(file', eof', BeforeLastDelete(k), s.eof, k)
    <3>1. Held(s.file, s.eof, k) <= Held(file', eof', k) + 1 /\ Held(file', eof', k) \in Nat
      BY <1>1, <1>3, <2>10
    <3> HIDE DEF s, n, last
    <3>2. QED
      BY <2>7, <2>8, <2>11, <3>1, MovedNear
  <2>13. QED
    BY <1>5, <2>5, <2>9, <2>12
<1>6. QED
  BY <1>4, <1>5

\* A get returns a value there is, and misses only a key that is not held.
LEMMA GetIs ==
  ASSUME FInv, NEW k \in Keys, flat_file_get(k)
  PROVE  Abstract!Get(k)
<1> DEFINE hits == KeyRows(file, eof, k)
           l == Min(hits)
           v == file[l].value
<1>1. /\ Matching(file, eof, 1, Equality(k)) = hits
      /\ Abstract!Copies(k) = Held(file, eof, k)
      /\ hits = {} <=> Held(file, eof, k) = 0
  BY HeldRows
<1>2. /\ file' = file /\ eof' = eof
      /\ \/ hits = {} /\ Answer("get", k, "err_item_not_found", 0, NoValue)
         \/ hits # {} /\ Answer("get", k, "err_ok", 1, v)
  BY <1>1 DEF flat_file_get
<1>3. [j \in Keys |-> BagOf(j)]' = [j \in Keys |-> BagOf(j)]
  BY <1>2, SameBags
<1>4. CASE hits = {}
  <2>1. Answer("get", k, "err_item_not_found", 0, NoValue) /\ Abstract!Copies(k) = 0
    BY <1>1, <1>2, <1>4
  <2> HIDE DEF hits, l, v
  <2>2. Abstract!Miss("get", k)
    BY <1>3, <2>1 DEF Abstract!Miss, Abstract!Answer, Answer
  <2>3. QED
    BY <2>2 DEF Abstract!Get
<1>5. CASE hits # {}
  <2>1. file \in Seq(Row) /\ eof \in 0 .. Len(file) /\ eof \in Nat
    BY InvFacts
  <2>2. l \in hits
    <3>1. hits \in SUBSET Nat
      BY DEF KeyRows
    <3> HIDE DEF hits
    <3>2. QED
      BY <1>5, <3>1, MinIn
  <2>3. v \in Values /\ l \in Rows(file, eof, k, v)
    <3>1. file[l] \in Row
      BY <2>1, <2>2, SequenceElement DEF KeyRows
    <3>2. QED
      BY <2>2, <3>1 DEF Row, Rows, KeyRows
  <2>4. Answer("get", k, "err_ok", 1, v)
    BY <1>2, <1>5
  <2> HIDE DEF l, v, hits
  <2>5. Num(file, eof, k, v) > 0
    <3>1. IsFiniteSet(Rows(file, eof, k, v)) /\ Num(file, eof, k, v) \in Nat
      BY <2>1, RowsFinite
    <3>2. Num(file, eof, k, v) # 0
      BY <2>3, <3>1, FS_EmptySet DEF Num
    <3>3. QED
      BY <3>1, <3>2
  <2>6. [j \in Keys |-> BagOf(j)][k][v] > 0
    BY <2>3, <2>5, BagIs
  <2>7. QED
    BY <1>3, <2>3, <2>4, <2>6 DEF Abstract!Get, Abstract!Answer, Answer
<1>6. QED
  BY <1>4, <1>5

-----------------------------------------------------------------------------
(***************************************************************************)
(* Stops of the process.  What is on the disk between two calls is near to *)
(* the file, and so is what a call writes.                                 *)
(***************************************************************************)
NearFile(f) == f = file \/ \E k \in Keys : \E d : Packed(f, d) /\ NearBy(file, eof, f, d, k)

DiskNear == NearFile(disk)

LEMMA DeleteImagesNear ==
  ASSUME FInv, NEW k \in Keys, NEW f \in DeleteImages(k)
  PROVE  NearFile(f)
<1> DEFINE turn == DeleteTurns(k)
           count == turn[eof].count
<1>1. file \in Seq(Row) /\ Packed(file, eof) /\ eof \in Nat
  BY InvFacts
<1>2. Held(file, eof, k) \in Nat
  BY HeldRows
<1>3. count \in 0 .. eof
  BY <1>1, LastCount
<1>4. ASSUME NEW n \in 0 .. count, f = turn[n].file PROVE NearFile(f)
  <2>1. n \in 0 .. eof
    BY <1>1, <1>3
  <2>2. GoodTurn(turn[n]) /\ CountedTurn(turn[n], k)
    <3>1. \A m \in 0 .. eof : GoodTurn(turn[m])
      BY <1>1, TurnsGood
    <3>2. \A m \in 0 .. eof : CountedTurn(turn[m], k)
      BY <1>1, TurnsCount
    <3> HIDE DEF turn
    <3>3. QED
      BY <2>1, <3>1, <3>2
  <2> HIDE DEF turn
  <2>3. turn[n].eof \in Nat /\ turn[n].count \in Nat /\ Packed(f, turn[n].eof)
    BY <1>4, <2>2 DEF GoodTurn, Packed
  <2>4. Held(f, turn[n].eof, k) \in Nat
    BY <2>3, RowsFinite
  <2>5. Held(f, turn[n].eof, k) <= Held(file, eof, k) + 1
    BY <1>2, <1>4, <2>2, <2>3, <2>4 DEF CountedTurn
  <2>6. NearBy(file, eof, f, turn[n].eof, k)
    BY <1>4, <2>2, <2>5, NearSame DEF CountedTurn
  <2>7. QED
    BY <2>3, <2>6 DEF NearFile
<1>5. ASSUME NEW n \in 1 .. count, f = MovedIn(turn, n) PROVE NearFile(f)
  <2> DEFINE s == turn[n - 1]
  <2>1. /\ GoodTurn(s) /\ CountedTurn(s, k) /\ TurnHits(s, k) # {}
        /\ f = Swapped(s, DeleteTurn(s, k).loc)
    BY <1>5, CountedTurns
  <2> HIDE DEF s
  <2>2. s.eof \in Nat /\ s.count \in Nat
    BY <2>1 DEF GoodTurn, Packed
  <2>3. Held(s.file, s.eof, k) \in Nat
    BY <2>2, RowsFinite
  <2>4. Held(s.file, s.eof, k) <= Held(file, eof, k) + 1 /\ SameOthers(file, eof, s.file, s.eof, k)
    BY <1>2, <2>1, <2>2, <2>3 DEF CountedTurn
  <2>5. NearBy(file, eof, f, s.eof, k)
    BY <1>2, <2>1, <2>4, MovedNear
  <2>6. Packed(f, s.eof)
    BY <2>1, TurnGood
  <2>7. QED
    BY <2>5, <2>6 DEF NearFile
<1>6. f \in { turn[n].file : n \in 0 .. count } \cup { MovedIn(turn, n) : n \in 1 .. count }
  BY DEF DeleteImages
<1> HIDE DEF turn, count
<1>7. QED
  BY <1>4, <1>5, <1>6

\* Whatever write of whatever call the process stops behind.
LEMMA ImagesNear ==
  ASSUME FInv, DiskNear, NEW f \in {disk} \cup UNION { WriteImages(k) : k \in Keys }
  PROVE  NearFile(f)
<1>1. file \in Seq(Row) /\ Packed(file, eof) /\ eof \in Nat
  BY InvFacts
<1>2. ASSUME NEW k \in Keys, NEW v \in Values, NEW g \in InsertImages(k, v) PROVE NearFile(g)
  <2>1. CASE g = file
    BY <2>1 DEF NearFile
  <2>2. CASE g = WriteRow(file, eof + 1, Occupied(k, v))
    <3>1. Packed(g, eof + 1)
      BY <1>1, <2>2, AppendPacked
    <3>2. OneLonger(file, eof, g, eof + 1, k, v)
      BY <1>1, <2>2, WrittenRow
    <3>3. Held(g, eof + 1, k) = Held(file, eof, k) + 1 /\ SameOthers(file, eof, g, eof + 1, k)
      BY <3>2, Appended
    <3>4. Held(file, eof, k) \in Nat
      BY HeldRows
    <3>5. NearBy(file, eof, g, eof + 1, k)
      BY <3>3, <3>4, NearSame
    <3>6. QED
      BY <3>1, <3>5 DEF NearFile
  <2>3. QED
    BY <1>2, <2>1, <2>2 DEF InsertImages
<1>3. ASSUME NEW k \in Keys, NEW v \in Values, NEW g \in UpdateImages(k, v) PROVE NearFile(g)
  <2>1. CASE Matching(file, eof, 1, Equality(k)) = {}
    BY <1>2, <1>3, <2>1 DEF UpdateImages
  <2>2. CASE Matching(file, eof, 1, Equality(k)) # {}
    <3>1. PICK l \in 0 .. eof : g = UpdatedTo(k, v, l)
      BY <1>3, <2>2 DEF UpdateImages
    <3>2. Packed(g, eof) /\ NearBy(file, eof, g, eof, k)
      BY <1>1, <3>1, UpdatedToPacked, UpdatedToNear
    <3>3. QED
      BY <3>2 DEF NearFile
  <2>3. QED
    BY <2>1, <2>2
<1>4. CASE f = disk
  BY <1>4 DEF DiskNear
<1>5. CASE f # disk
  <2>1. PICK k \in Keys : f \in WriteImages(k)
    BY <1>5
  <2>2. \/ f \in DeleteImages(k)
        \/ \E v \in Values : f \in InsertImages(k, v) \/ f \in UpdateImages(k, v)
    BY <2>1 DEF WriteImages
  <2>3. QED
    BY <1>2, <1>3, <2>2, DeleteImagesNear
<1>6. QED
  BY <1>4, <1>5

-----------------------------------------------------------------------------
(***************************************************************************)
(* The bags after a stop: how many records more there are of the other     *)
(* keys, as MultiDictionary sums them up, key by key and value by value.   *)
(***************************************************************************)
IsMoreOfKey(it, a, b, j) ==
  it = [s \in SUBSET Values |->
          IF s = {} THEN 0
          ELSE LET v == CHOOSE v \in s : TRUE IN (b[j][v] - a[j][v]) + it[s \ {v}]]

MoreOfKey(a, b, j) == (CHOOSE it : IsMoreOfKey(it, a, b, j))[Values]

IsMore(it, a, b, O) ==
  it = [s \in SUBSET O |->
          IF s = {} THEN 0
          ELSE LET j == CHOOSE j \in s : TRUE IN MoreOfKey(a, b, j) + it[s \ {j}]]

More(a, b, O) == (CHOOSE it : IsMore(it, a, b, O))[O]

LEMMA CrashIs ==
  ASSUME UNCHANGED result, [j \in Keys |-> BagOf(j)]' \in [Keys -> [Values -> Nat]],
         NEW k \in Keys, Abstract!Copies(k)' <= Abstract!Copies(k) + 1,
         \A j \in Keys \ {k}, v \in Values :
           [i \in Keys |-> BagOf(i)]'[j][v] - [i \in Keys |-> BagOf(i)][j][v] >= 0,
         More([i \in Keys |-> BagOf(i)], [i \in Keys |-> BagOf(i)]', Keys \ {k}) <= 1
  PROVE  Abstract!Crash
  BY DEF Abstract!Crash, Abstract!MapThenSumSet, Abstract!MapThenFoldSet,
         More, IsMore, MoreOfKey, IsMoreOfKey

\* One record more, or none: the sum is the number of them.
LEMMA MoreIsExtra ==
  ASSUME NEW a, NEW b, NEW O, IsFiniteSet(O), NEW extra \in SUBSET (O \X Values), IsFiniteSet(extra),
         \A j \in O, v \in Values : b[j][v] - a[j][v] = IF <<j, v>> \in extra THEN 1 ELSE 0
  PROVE  More(a, b, O) = Cardinality(extra)
<1> DEFINE first == [p \in extra |-> p[1]]
           F == [j \in O |-> Cardinality(Valued(extra, first, j))]
<1>1. ASSUME NEW j \in O PROVE MoreOfKey(a, b, j) = Cardinality(Valued(extra, first, j))
  <2> DEFINE B == Valued(extra, first, j)
             second == [p \in B |-> p[2]]
             f == [v \in Values |-> b[j][v] - a[j][v]]
  <2>1. IsFiniteSet(B) /\ IsFiniteSet(Values)
    BY FS_Subset, ValuesAssumption DEF Valued
  <2>2. \A v \in Values : f[v] = Cardinality(Valued(B, second, v))
    <3> SUFFICES ASSUME NEW v \in Values PROVE f[v] = Cardinality(Valued(B, second, v))
      OBVIOUS
    <3>1. CASE <<j, v>> \in extra
      <4>1. Valued(B, second, v) = {<<j, v>>}
        BY <3>1 DEF Valued
      <4>2. Cardinality({<<j, v>>}) = 1
        BY FS_Singleton
      <4>3. QED
        BY <3>1, <4>1, <4>2
    <3>2. CASE <<j, v>> \notin extra
      <4>1. Valued(B, second, v) = {}
        BY <3>2 DEF Valued
      <4>2. QED
        BY <3>2, <4>1, FS_EmptySet
    <3>3. QED
      BY <3>1, <3>2
  <2>3. \A p \in B : second[p] \in Values
    BY DEF Valued
  <2>4. ASSUME NEW it PROVE IsMoreOfKey(it, a, b, j) <=> IsSum(it, Values, f)
    <3> DEFINE more(s) == IF s = {} THEN 0
                          ELSE LET v == CHOOSE v \in s : TRUE IN (b[j][v] - a[j][v]) + it[s \ {v}]
               sum(s) == IF s = {} THEN 0
                         ELSE LET x == CHOOSE x \in s : TRUE IN f[x] + it[s \ {x}]
    <3>1. ASSUME NEW s \in SUBSET Values PROVE more(s) = sum(s)
      <4>1. CASE s = {}
        BY <4>1
      <4>2. CASE s # {}
        <5>1. PICK x \in s : x = CHOOSE v \in s : TRUE
          BY <4>2
        <5>2. f[x] = b[j][x] - a[j][x]
          OBVIOUS
        <5>3. more(s) = (b[j][x] - a[j][x]) + it[s \ {x}] /\ sum(s) = f[x] + it[s \ {x}]
          BY <4>2, <5>1
        <5>4. QED
          BY <5>2, <5>3
      <4>3. QED
        BY <4>1, <4>2
    <3> HIDE DEF more, sum
    <3>2. [s \in SUBSET Values |-> more(s)] = [s \in SUBSET Values |-> sum(s)]
      BY <3>1
    <3>3. QED
      BY <3>2 DEF IsMoreOfKey, IsSum, more, sum
  <2> HIDE DEF B, second, f
  <2>5. \E it : IsSum(it, Values, f)
    BY <2>1, <2>2, SumExists
  <2>6. \E it : IsMoreOfKey(it, a, b, j)
    BY <2>4, <2>5
  <2>7. PICK it : it = CHOOSE i : IsMoreOfKey(i, a, b, j)
    OBVIOUS
  <2>8. IsMoreOfKey(it, a, b, j)
    BY <2>6, <2>7
  <2>9. it[Values] = Cardinality(B)
    BY <2>1, <2>2, <2>3, <2>4, <2>8, SumIs
  <2>10. QED
    BY <2>7, <2>9 DEF MoreOfKey, B
<1>2. \A p \in extra : first[p] \in O
  OBVIOUS
<1>3. \A j \in O : F[j] = Cardinality(Valued(extra, first, j))
  OBVIOUS
<1>4. ASSUME NEW it PROVE IsMore(it, a, b, O) <=> IsSum(it, O, F)
  <2> DEFINE more(s) == IF s = {} THEN 0
                        ELSE LET j == CHOOSE j \in s : TRUE IN MoreOfKey(a, b, j) + it[s \ {j}]
             sum(s) == IF s = {} THEN 0
                       ELSE LET x == CHOOSE x \in s : TRUE IN F[x] + it[s \ {x}]
  <2> HIDE DEF first
  <2>1. ASSUME NEW s \in SUBSET O PROVE more(s) = sum(s)
    <3>1. CASE s = {}
      BY <3>1
    <3>2. CASE s # {}
      <4>1. PICK x \in s : x = CHOOSE j \in s : TRUE
        BY <3>2
      <4>2. F[x] = MoreOfKey(a, b, x)
        BY <1>1
      <4>3. more(s) = MoreOfKey(a, b, x) + it[s \ {x}] /\ sum(s) = F[x] + it[s \ {x}]
        BY <3>2, <4>1
      <4>4. QED
        BY <4>2, <4>3
    <3>3. QED
      BY <3>1, <3>2
  <2> HIDE DEF more, sum
  <2>2. [s \in SUBSET O |-> more(s)] = [s \in SUBSET O |-> sum(s)]
    BY <2>1
  <2> HIDE DEF F
  <2>3. QED
    BY <2>2 DEF IsMore, IsSum, more, sum
<1> HIDE DEF first, F
<1>5. \E it : IsSum(it, O, F)
  BY <1>3, SumExists
<1>6. \E it : IsMore(it, a, b, O)
  BY <1>4, <1>5
<1>7. PICK it : it = CHOOSE i : IsMore(i, a, b, O)
  OBVIOUS
<1>8. IsMore(it, a, b, O)
  BY <1>6, <1>7
<1>9. it[O] = Cardinality(extra)
  BY <1>2, <1>3, <1>4, <1>8, SumIs
<1>10. QED
  BY <1>7, <1>9 DEF More

\* A file near to the one that is right has bags as a stop may leave them.
LEMMA NearCrash ==
  ASSUME FInv, FInv', UNCHANGED result, NEW k \in Keys, NearBy(file, eof, file', eof', k)
  PROVE  Abstract!Crash
<1> DEFINE a == [i \in Keys |-> BagOf(i)]
           b == [i \in Keys |-> BagOf(i)]'
           O == Keys \ {k}
<1>1. PICK extra \in SUBSET (O \X Values) :
        /\ extra = {} \/ \E p : extra = {p}
        /\ \A j \in O, v \in Values :
             Num(file', eof', j, v) = IF <<j, v>> \in extra THEN Num(file, eof, j, v) + 1
                                      ELSE Num(file, eof, j, v)
  BY DEF NearBy
<1>2. /\ file \in Seq(Row) /\ Packed(file, eof) /\ eof \in Nat
      /\ file' \in Seq(Row) /\ Packed(file', eof') /\ eof' \in Nat
  <2>1. file' \in Seq(Row) /\ Packed(file', eof')
    BY DEF FInv, FileInv
  <2>2. eof' \in Nat
    BY <2>1 DEF Packed
  <2>3. QED
    BY <2>1, <2>2, InvFacts
<1>3. \A j \in Keys, v \in Values : /\ a[j][v] = Num(file, eof, j, v) /\ a[j][v] \in Nat
                                    /\ b[j][v] = Num(file', eof', j, v) /\ b[j][v] \in Nat
  BY <1>2, BagIs, BagIsNext, RowsFinite
<1>4. b \in [Keys -> [Values -> Nat]]
  <2>1. \A j \in Keys : BagOf(j)' = [v \in Values |-> Num(file', eof', j, v)]
    BY BagIsNext
  <2>2. \A j \in Keys, v \in Values : Num(file', eof', j, v) \in Nat
    BY <1>2, RowsFinite
  <2>3. QED
    BY <2>1, <2>2
<1>5. Abstract!Copies(k)' <= Abstract!Copies(k) + 1
  BY <1>2, CopiesAre, CopiesAreNext DEF NearBy
<1> HIDE DEF a, b
<1>6. ASSUME NEW j \in O, NEW v \in Values
      PROVE  b[j][v] - a[j][v] = IF <<j, v>> \in extra THEN 1 ELSE 0
  <2>1. j \in Keys
    OBVIOUS
  <2>2. b[j][v] = IF <<j, v>> \in extra THEN a[j][v] + 1 ELSE a[j][v]
    BY <1>1, <1>3, <2>1
  <2>3. a[j][v] \in Nat /\ b[j][v] \in Nat
    BY <1>3, <2>1
  <2>4. QED
    BY <2>2, <2>3
<1>7. IsFiniteSet(extra) /\ Cardinality(extra) <= 1
  <2>1. CASE extra = {}
    BY <2>1, FS_EmptySet
  <2>2. ASSUME NEW p, extra = {p} PROVE IsFiniteSet(extra) /\ Cardinality(extra) <= 1
    <3>1. IsFiniteSet({p}) /\ Cardinality({p}) = 1
      BY FS_Singleton
    <3>2. QED
      BY <2>2, <3>1
  <2>3. QED
    BY <1>1, <2>1, <2>2
<1>8. IsFiniteSet(O)
  BY KeysAssumption, FS_Subset
<1>9. ASSUME NEW j \in O, NEW v \in Values PROVE b[j][v] - a[j][v] >= 0
  <2>1. b[j][v] - a[j][v] = 1 \/ b[j][v] - a[j][v] = 0
    BY <1>6
  <2>2. QED
    BY <2>1
<1> HIDE DEF O
<1>10. More(a, b, O) <= 1
  BY <1>6, <1>7, <1>8, MoreIsExtra
<1>11. QED
  BY <1>4, <1>5, <1>9, <1>10, CrashIs DEF a, b, O

LEMMA StopIs ==
  ASSUME FInv, DiskNear, Crash
  PROVE  Abstract!Crash \/ UNCHANGED Abstract!vars
<1>1. PICK f \in {disk} \cup UNION { WriteImages(k) : k \in Keys } :
        file' = f /\ disk' = f /\ eof' = LastOccupied(f)
  BY DEF Crash
<1>2. result' = result /\ FInv'
  BY CrashKeeps DEF Crash
<1>3. f \in Seq(Row) /\ NearFile(f)
  BY ImagesPacked, ImagesNear
<1>4. CASE f = file
  <2>1. eof' = eof
    BY <1>1, <1>4, InvFacts, LastOccupiedIs
  <2>2. [j \in Keys |-> BagOf(j)]' = [j \in Keys |-> BagOf(j)]
    BY <1>1, <1>4, <2>1, SameBags
  <2>3. QED
    BY <1>2, <2>2 DEF Abstract!vars
<1>5. CASE f # file
  <2>1a. PICK k \in Keys : \E d : Packed(f, d) /\ NearBy(file, eof, f, d, k)
    BY <1>3, <1>5 DEF NearFile
  <2>1. PICK d : Packed(f, d) /\ NearBy(file, eof, f, d, k)
    BY <2>1a
  <2>2. eof' = d
    BY <1>1, <1>3, <2>1, LastOccupiedIs
  <2>3. NearBy(file, eof, file', eof', k)
    BY <1>1, <2>1, <2>2
  <2>4. QED
    BY <1>2, <2>3, NearCrash
<1>6. QED
  BY <1>4, <1>5

-----------------------------------------------------------------------------
(***************************************************************************)
(* The refinement.                                                         *)
(***************************************************************************)
LEMMA UpdateIs ==
  ASSUME FInv, NEW k \in Keys, NEW v \in Values, ffdict_update(k, v)
  PROVE  Abstract!Update(k, v) /\ DiskNear'
<1>1. flat_file_update(k, v) /\ Keep(BeforeLastUpdate(k, v))
  BY DEF ffdict_update
<1>2. CASE Matching(file, eof, 1, Equality(k)) = {}
  <2>1. AppendRow("update", k, v)
    BY <1>1, <1>2 DEF flat_file_update
  <2>2. Abstract!Add("update", k, v) /\ NearBy(file', eof', file, eof, k)
    BY <2>1, AppendIs
  <2>3. Abstract!Copies(k) = 0
    BY <1>2, HeldRows
  <2>4. disk' = file' \/ disk' = file
    BY <1>1, <1>2 DEF Keep, BeforeLastUpdate
  <2>5. Packed(file, eof)
    BY InvFacts
  <2>6. QED
    BY <2>2, <2>3, <2>4, <2>5 DEF Abstract!Update, DiskNear, NearFile
<1>3. CASE Matching(file, eof, 1, Equality(k)) # {}
  <2>1. Abstract!Update(k, v) /\ NearBy(file', eof', BeforeLastUpdate(k, v), eof, k)
    BY <1>1, <1>3, OverwriteIs
  <2>2. Packed(BeforeLastUpdate(k, v), eof)
    BY <1>3, InvFacts, UpdatedToPacked DEF BeforeLastUpdate
  <2>3. disk' = file' \/ disk' = BeforeLastUpdate(k, v)
    BY <1>1 DEF Keep
  <2>4. QED
    BY <2>1, <2>2, <2>3 DEF DiskNear, NearFile
<1>4. QED
  BY <1>2, <1>3

LEMMA CallIs ==
  ASSUME FInv, DiskNear, NEW k \in Keys, Write(k) \/ ffdict_get(k)
  PROVE  Abstract!Next /\ DiskNear'
<1>1. ASSUME NEW v \in Values, ffdict_insert(k, v) PROVE Abstract!Next /\ DiskNear'
  <2>1. AppendRow("insert", k, v) /\ Keep(file)
    BY <1>1 DEF ffdict_insert, flat_file_insert
  <2>2. Abstract!Add("insert", k, v) /\ NearBy(file', eof', file, eof, k)
    BY <2>1, AppendIs
  <2>3. Packed(file, eof) /\ (disk' = file' \/ disk' = file)
    BY <2>1, InvFacts DEF Keep
  <2>4. DiskNear'
    BY <2>2, <2>3 DEF DiskNear, NearFile
  <2>5. QED
    BY <2>2, <2>4 DEF Abstract!Next, Abstract!Insert
<1>2. ASSUME NEW v \in Values, ffdict_update(k, v) PROVE Abstract!Next /\ DiskNear'
  BY <1>2, UpdateIs DEF Abstract!Next
<1>3. CASE ffdict_delete(k)
  <2>1. flat_file_delete(k) /\ Keep(BeforeLastDelete(k))
    BY <1>3 DEF ffdict_delete
  <2>2. /\ Abstract!Delete(k)
        /\ DeleteTurns(k)[eof].count # 0 =>
             \E d : Packed(BeforeLastDelete(k), d) /\ NearBy(file', eof', BeforeLastDelete(k), d, k)
        /\ DeleteTurns(k)[eof].count = 0 => file' = file /\ eof' = eof
    BY <2>1, DeleteIs
  <2>3. DeleteTurns(k)[eof].count = 0 => BeforeLastDelete(k) = disk
    BY DEF BeforeLastDelete
  <2>4. DiskNear'
    BY <2>1, <2>2, <2>3 DEF Keep, DiskNear, NearFile
  <2>5. QED
    BY <2>2, <2>4 DEF Abstract!Next
<1>4. CASE ffdict_get(k)
  <2>1. flat_file_get(k) /\ Keep(disk)
    BY <1>4 DEF ffdict_get
  <2>2. Abstract!Get(k)
    BY <2>1, GetIs
  <2>3. DiskNear'
    BY <2>1 DEF flat_file_get, Keep, DiskNear, NearFile
  <2>4. QED
    BY <2>2, <2>3 DEF Abstract!Next
<1>5. QED
  BY <1>1, <1>2, <1>3, <1>4 DEF Write

LEMMA BagsStart ==
  ASSUME CrashInit
  PROVE  Abstract!Init /\ DiskNear
<1>1. eof = 0 /\ disk = file
  BY DEF CrashInit, Init
<1>2. \A k, v : Num(file, eof, k, v) = 0
  <2>1. \A k, v : Rows(file, eof, k, v) = {}
    BY <1>1 DEF Rows
  <2>2. QED
    BY <2>1, FS_EmptySet DEF Num
<1>3. \A k \in Keys : BagOf(k) = [v \in Values |-> 0]
  BY <1>2, BagIs
<1>4. QED
  BY <1>1, <1>3 DEF CrashInit, Init, Abstract!Init, Abstract!NoRecords, DiskNear, NearFile

\* What leaves the rows and the last answer as they are is a stutter.
LEMMA Stutters ==
  ASSUME DiskNear, file' = file, eof' = eof, result' = result, disk' = file \/ disk' = disk
  PROVE  UNCHANGED Abstract!vars /\ DiskNear'
<1>1. [j \in Keys |-> BagOf(j)]' = [j \in Keys |-> BagOf(j)]
  BY SameBags
<1>2. UNCHANGED Abstract!vars
  BY <1>1 DEF Abstract!vars
<1>3. DiskNear'
  BY DEF DiskNear, NearFile
<1>4. QED
  BY <1>2, <1>3

LEMMA BagsStep ==
  ASSUME FInv, DiskNear, [CrashNext]_allVars
  PROVE  [Abstract!Next \/ Abstract!Crash]_(Abstract!vars) /\ DiskNear'
<1> DEFINE Right == [Abstract!Next \/ Abstract!Crash]_(Abstract!vars) /\ DiskNear'
<1>1. ASSUME NEW k \in Keys, Write(k) \/ ffdict_get(k) PROVE Right
  BY <1>1, CallIs
<1>2. ASSUME file' = file, eof' = eof, result' = result, disk' = file \/ disk' = disk PROVE Right
  BY <1>2, Stutters
<1>3. ASSUME NEW c \in Cursors, NEW pred \in Predicates, ffdict_find_on_disk(c, pred) PROVE Right
  BY <1>2, <1>3 DEF ffdict_find_on_disk, ffdict_find, Keep
<1>4. ASSUME NEW c \in Cursors, ffdict_next_on_disk(c) PROVE Right
  BY <1>2, <1>4 DEF ffdict_next_on_disk, ffdict_next
<1>5. ASSUME NEW c \in Cursors, ffdict_destroy_cursor_on_disk(c) PROVE Right
  BY <1>2, <1>5 DEF ffdict_destroy_cursor_on_disk, ffdict_destroy_cursor, fileVars
<1>6. ASSUME ffdict_close_dictionary PROVE Right
  BY <1>2, <1>6 DEF ffdict_close_dictionary, flat_file_close, fileVars
<1>7. ASSUME ffdict_create_dictionary PROVE Right
  <2>1. eof' = eof /\ file' = file
    BY <1>7, CreateKeeps
  <2>2. QED
    BY <1>2, <1>7, <2>1 DEF ffdict_create_dictionary, flat_file_initialize
<1>8. ASSUME ffdict_delete_dictionary \/ ffdict_remove_by_id PROVE Right
  <2>1. file' = << >> /\ eof' = 0 /\ result' = result /\ disk' = file'
    BY <1>8 DEF ffdict_delete_dictionary, flat_file_destroy, ffdict_remove_by_id,
                ffdict_destroy_dictionary, RemoveFile
  <2>2. \A k, v : Num(file', eof', k, v) = 0
    <3>1. \A k, v : Rows(file', eof', k, v) = {}
      BY <2>1 DEF Rows
    <3>2. QED
      BY <3>1, FS_EmptySet DEF Num
  <2>3. \A k \in Keys : BagOf(k)' = [v \in Values |-> 0]
    BY <2>2, BagIsNext
  <2>4. Abstract!Clear
    BY <2>1, <2>3 DEF Abstract!Clear, Abstract!NoRecords
  <2>5. DiskNear'
    BY <2>1 DEF DiskNear, NearFile
  <2>6. QED
    BY <2>4, <2>5 DEF Abstract!Next
<1>9. ASSUME Crash PROVE Right
  <2>1. disk' = file'
    BY <1>9 DEF Crash
  <2>2. DiskNear'
    BY <2>1 DEF DiskNear, NearFile
  <2>3. QED
    BY <1>9, <2>2, StopIs
<1>10. CASE UNCHANGED allVars
  BY <1>2, <1>10 DEF allVars, vars, fileVars
<1> HIDE DEF Right
<1>11. ASSUME CrashNext PROVE Right
  <2>1. \/ \E k \in Keys : Write(k) \/ ffdict_get(k)
        \/ \E c \in Cursors, pred \in Predicates : ffdict_find_on_disk(c, pred)
        \/ \E c \in Cursors : ffdict_next_on_disk(c) \/ ffdict_destroy_cursor_on_disk(c)
        \/ ffdict_close_dictionary \/ ffdict_create_dictionary
        \/ ffdict_delete_dictionary \/ ffdict_remove_by_id
        \/ Crash
    BY <1>11, Zenon DEF CrashNext, Write
  <2>2. QED
    BY <2>1, <1>1, <1>3, <1>4, <1>5, <1>6, <1>7, <1>8, <1>9, Zenon
<1>12. QED
  BY <1>10, <1>11 DEF Right

\* The file implements the bags: every answer and count a caller sees is the
\* one of a bag of values for each key, and a stop of the process behind any
\* write of any call loses no record of another key, and doubles one at most.
THEOREM BagsImplemented == CrashSpec => ImplementsBags
<1>1. CrashInit => Abstract!Init /\ DiskNear
  BY BagsStart
<1>2. FInv /\ DiskNear /\ [CrashNext]_allVars =>
        [Abstract!Next \/ Abstract!Crash]_(Abstract!vars) /\ DiskNear'
  BY BagsStep
<1>3. CrashSpec => []FInv
  BY Invariance, PTL
<1>4. QED
  BY <1>1, <1>2, <1>3, PTL DEF CrashSpec, ImplementsBags, Abstract!CrashSpec
=============================================================================
